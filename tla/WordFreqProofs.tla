--------------------------- MODULE WordFreqProofs ---------------------------
(***************************************************************************)
(* The rankings are right in the whole program, whatever the file, the     *)
(* hashes and the sizes are.  First, for module Ranking alone, any number  *)
(* of places and any counts: a ranking is sorted all the time, and what it *)
(* is missing while a count is carried is only the count carried.  Then    *)
(* for the program: the counts that process_line leaves in the array are   *)
(* positive, and the array is not touched while it is ranked.  The text    *)
(* read is always the words popped and the rest of the line, so each step  *)
(* that takes a word takes the next one of the file.  The handles in the   *)
(* map point to cells of the array until it is overrun, and every word     *)
(* makes one mark in it.  Last, as long as the map loses no entry and no   *)
(* two words collide, the slots of the map are the words of the file, the  *)
(* cells their counts, and the loop over the map counts them.              *)
(***************************************************************************)
EXTENDS WordFreq, DataProofs

-----------------------------------------------------------------------------
\* One of the first n counts is c.
Among(c, n) == \E k \in 1 .. n : arr[k] = c

Descends == \A k, m \in Places : k < m => most_freq[k] > most_freq[m] \/ most_freq[m] = 0

Ascends ==
  \A k, m \in Places :
    k < m => (least_freq[k] # 0 /\ least_freq[k] < least_freq[m]) \/ least_freq[m] = 0

InMost(c)  == \E k \in Places : most_freq[k] = c
InLeast(c) == \E k \in Places : least_freq[k] = c

BelowMost(c)  == \A k \in Places : most_freq[k] > c
AboveLeast(c) == \A k \in Places : least_freq[k] # 0 /\ least_freq[k] < c

\* The first counts, n of them, are ranked, but for a count that is carried.
MostCovers(n, carried) ==
  \A k \in 1 .. n : InMost(arr[k]) \/ BelowMost(arr[k]) \/ carried = arr[k]
LeastCovers(n, carried) ==
  \A k \in 1 .. n : InLeast(arr[k]) \/ AboveLeast(arr[k]) \/ carried = arr[k]

MostFrom(n)  == \A k \in Places : most_freq[k] = 0 \/ Among(most_freq[k], n)
LeastFrom(n) == \A k \in Places : least_freq[k] = 0 \/ Among(least_freq[k], n)

\* The counts offered to each ranking.
MostSeen  == IF rank \in {"most", "least"} THEN i + 1 ELSE i
LeastSeen == IF rank = "least" THEN i + 1 ELSE i

\* No count is carried outside of an inner loop; the counts are positive.
Carried(side) == IF rank = side THEN count ELSE 0

RankTypeOK ==
  /\ arr \in Seq(Nat \ {0})
  /\ rank \in {"fetch", "most", "least", "ranked"}
  /\ i \in 0 .. Len(arr) /\ p \in 0 .. TOP /\ count \in Nat
  /\ most_freq \in [Places -> Nat] /\ least_freq \in [Places -> Nat]
  /\ rank \in {"most", "least"} => i < Len(arr) /\ (count = 0 \/ Among(count, i + 1))
  /\ rank = "ranked" => i = Len(arr)

MostInv ==
  /\ Descends /\ MostFrom(MostSeen) /\ MostCovers(MostSeen, Carried("most"))
  /\ rank = "most" => \A k \in Places : k < p => most_freq[k] > count

LeastInv ==
  /\ Ascends /\ LeastFrom(LeastSeen) /\ LeastCovers(LeastSeen, Carried("least"))
  /\ rank = "least" =>
       /\ count # 0 => \A k \in Places : k < p => least_freq[k] # 0 /\ least_freq[k] < count
       /\ count = 0 => \A k \in Places : k >= p => least_freq[k] = 0

RankInv == RankTypeOK /\ MostInv /\ LeastInv

-----------------------------------------------------------------------------
LEMMA CountPositive ==
  ASSUME RankTypeOK, NEW k \in 1 .. Len(arr)
  PROVE  arr[k] \in Nat /\ arr[k] # 0
BY DEF RankTypeOK

LEMMA RankInitInv == RankInit => RankInv
<1> SUFFICES ASSUME RankInit PROVE RankInv
  OBVIOUS
<1> USE RankingAssumption DEF RankInit, NoRanking
<1>1. RankTypeOK
  BY DEF RankTypeOK, Places
<1>2. MostInv
  BY DEF MostInv, Descends, MostFrom, MostCovers, MostSeen, Places
<1>3. LeastInv
  BY DEF LeastInv, Ascends, LeastFrom, LeastCovers, LeastSeen, Places
<1> QED
  BY <1>1, <1>2, <1>3 DEF RankInv

LEMMA FetchInv ==
  ASSUME RankInv, Fetch
  PROVE  RankInv'
<1> USE DEF RankInv, Fetch, Carry
<1>1. i + 1 \in 1 .. Len(arr) /\ arr' = arr /\ i' = i /\ i + 1 \in 1 .. i + 1
  BY DEF RankTypeOK
<1>2. Among(count', i + 1) /\ count' = arr[i + 1] /\ count' \in Nat /\ count' # 0
  BY <1>1, CountPositive DEF Among
<1>3. RankTypeOK'
  BY <1>1, <1>2, RankingAssumption DEF RankTypeOK, Among
<1>4. MostInv'
  <2>1. MostFrom(i + 1)'
    BY DEF MostInv, MostFrom, MostSeen, Among, RankTypeOK
  <2>2. ASSUME NEW k \in 1 .. i + 1
        PROVE  (InMost(arr[k]) \/ BelowMost(arr[k]) \/ count = arr[k])'
    <3>1. CASE k = i + 1
      BY <3>1, <1>1, <1>2
    <3>2. CASE k # i + 1
      <4>1. k \in 1 .. i
        BY <3>2 DEF RankTypeOK
      <4>2. arr[k] # 0
        BY <4>1, CountPositive DEF RankTypeOK
      <4> QED
        BY <4>1, <4>2 DEF MostInv, MostCovers, MostSeen, Carried, InMost, BelowMost
    <3> QED
      BY <3>1, <3>2
  <2> QED
    BY <2>1, <2>2 DEF MostInv, Descends, MostSeen, MostCovers, Carried, RankTypeOK, Places
<1>5. LeastInv'
  BY DEF LeastInv, Ascends, LeastFrom, LeastCovers, LeastSeen, Carried, Among, InLeast, AboveLeast
<1> QED
  BY <1>3, <1>4, <1>5

LEMMA MostRoundInv ==
  ASSUME RankInv, MostRound
  PROVE  RankInv'
<1> USE DEF RankInv, MostRound
<1>1. p \in Places /\ most_freq[p] # count /\ p + 1 \in 0 .. TOP
  BY RankingAssumption DEF MostStops, RankTypeOK, Places
<1>2. CASE most_freq[p] < count
  <2>0. most_freq' = [most_freq EXCEPT ![p] = count] /\ count' = most_freq[p] /\ p' = p + 1
    BY <1>2
  <2>1. /\ \A k \in Places : most_freq'[k] = IF k = p THEN count ELSE most_freq[k]
        /\ most_freq' \in [Places -> Nat] /\ count' \in Nat /\ count # 0
    BY <1>1, <1>2, <2>0 DEF RankTypeOK
  <2>2. Among(count, i + 1) /\ (count' = 0 \/ Among(count', i + 1))
    BY <1>1, <2>0, <2>1 DEF RankTypeOK, MostInv, MostFrom, MostSeen
  <2>3. RankTypeOK'
    BY <1>1, <2>0, <2>1, <2>2 DEF RankTypeOK, Among
  <2>4. Descends'
    BY <1>1, <1>2, <2>1, SMTT(30) DEF MostInv, Descends, RankTypeOK, Places
  <2>5. MostFrom(i + 1)'
    BY <2>1, <2>2 DEF MostInv, MostFrom, MostSeen, Among
  <2>6. ASSUME NEW k \in 1 .. i + 1
        PROVE  (InMost(arr[k]) \/ BelowMost(arr[k]) \/ count = arr[k])'
    <3>0. arr[k] \in Nat /\ arr' = arr
      BY CountPositive DEF RankTypeOK
    <3>1. InMost(arr[k]) \/ BelowMost(arr[k]) \/ count = arr[k]
      BY DEF MostInv, MostCovers, MostSeen, Carried
    <3>2. CASE InMost(arr[k])
      BY <3>2, <2>0, <2>1, <3>0 DEF InMost
    <3>3. CASE BelowMost(arr[k])
      BY <3>3, <1>1, <1>2, <2>1, <3>0, SMTT(30) DEF BelowMost, RankTypeOK
    <3>4. CASE count = arr[k]
      BY <3>4, <1>1, <2>1, <3>0 DEF InMost
    <3> QED
      BY <3>1, <3>2, <3>3, <3>4
  <2>7. \A k \in Places : k < p' => most_freq'[k] > count'
    BY <1>1, <1>2, <2>0, <2>1 DEF MostInv, RankTypeOK, Places
  <2>8. MostInv'
    BY <2>4, <2>5, <2>6, <2>7 DEF MostInv, MostSeen, MostCovers, Carried
  <2>9. LeastInv'
    BY DEF LeastInv, Ascends, LeastFrom, LeastCovers, LeastSeen, Carried, Among, InLeast, AboveLeast
  <2> QED
    BY <2>3, <2>8, <2>9
<1>3. CASE ~(most_freq[p] < count)
  <2>0. most_freq' = most_freq /\ count' = count /\ p' = p + 1
    BY <1>3
  <2>1. RankTypeOK'
    BY <1>1, <2>0 DEF RankTypeOK, Among
  <2>2. most_freq[p] > count
    BY <1>1, <1>3 DEF RankTypeOK
  <2>3. \A k \in Places : k < p' => most_freq'[k] > count'
    BY <1>1, <2>0, <2>2 DEF MostInv, RankTypeOK, Places
  <2>4. MostInv'
    BY <2>0, <2>3 DEF MostInv, Descends, MostFrom, MostCovers, MostSeen, Carried, Among, InMost, BelowMost
  <2>5. LeastInv'
    BY DEF LeastInv, Ascends, LeastFrom, LeastCovers, LeastSeen, Carried, Among, InLeast, AboveLeast
  <2> QED
    BY <2>1, <2>4, <2>5
<1> QED
  BY <1>2, <1>3

LEMMA MostEndsInv ==
  ASSUME RankInv, MostEnds
  PROVE  RankInv'
<1> USE DEF RankInv, MostEnds, Carry
<1>1. i + 1 \in 1 .. Len(arr) /\ arr' = arr /\ i' = i /\ i + 1 \in 1 .. i + 1
  BY DEF RankTypeOK
<1>2. Among(count', i + 1) /\ count' = arr[i + 1] /\ count' \in Nat /\ count' # 0
  BY <1>1, CountPositive DEF Among
<1>3. RankTypeOK'
  BY <1>1, <1>2, RankingAssumption DEF RankTypeOK, Among
<1>4. MostInv'
  <2>1. InMost(count) \/ BelowMost(count)
    <3>1. CASE p = TOP
      BY <3>1, RankingAssumption DEF MostInv, BelowMost, Places
    <3>2. CASE p < TOP /\ most_freq[p] = count
      BY <3>2, RankingAssumption DEF RankTypeOK, InMost, Places
    <3> QED
      BY <3>1, <3>2 DEF MostStops
  <2>2. ASSUME NEW k \in 1 .. i + 1
        PROVE  InMost(arr[k])' \/ BelowMost(arr[k])'
    BY <2>1 DEF MostInv, MostCovers, MostSeen, Carried, InMost, BelowMost
  <2> QED
    BY <2>2 DEF MostInv, Descends, MostFrom, MostCovers, MostSeen, Carried, Among
<1>5. LeastInv'
  <2>1. ASSUME NEW k \in 1 .. i + 1
        PROVE  (InLeast(arr[k]) \/ AboveLeast(arr[k]) \/ count = arr[k])'
    <3>1. CASE k = i + 1
      BY <3>1, <1>1, <1>2
    <3>2. CASE k # i + 1
      <4>1. k \in 1 .. i
        BY <3>2 DEF RankTypeOK
      <4>2. arr[k] # 0
        BY <4>1, CountPositive DEF RankTypeOK
      <4> QED
        BY <4>1, <4>2 DEF LeastInv, LeastCovers, LeastSeen, Carried, InLeast, AboveLeast
    <3> QED
      BY <3>1, <3>2
  <2>2. LeastFrom(i + 1)'
    BY DEF LeastInv, LeastFrom, LeastSeen, Among, RankTypeOK
  <2> QED
    BY <1>1, <1>2, <2>1, <2>2 DEF LeastInv, Ascends, LeastCovers, LeastSeen, Carried, Places
<1> QED
  BY <1>3, <1>4, <1>5

LEMMA LeastRoundInv ==
  ASSUME RankInv, LeastRound
  PROVE  RankInv'
<1> USE DEF RankInv, LeastRound
<1>1. p \in Places /\ least_freq[p] # count /\ p + 1 \in 0 .. TOP
  BY RankingAssumption DEF LeastStops, RankTypeOK, Places
<1>2. count # 0
  BY <1>1 DEF LeastInv, RankTypeOK, Places
<1>3. MostInv'
  BY DEF MostInv, Descends, MostFrom, MostCovers, MostSeen, Carried, Among, InMost, BelowMost
<1>4. CASE RanksBefore(count)
  <2>0. least_freq' = [least_freq EXCEPT ![p] = count] /\ count' = least_freq[p] /\ p' = p + 1
    BY <1>4
  <2>1. /\ \A k \in Places : least_freq'[k] = IF k = p THEN count ELSE least_freq[k]
        /\ least_freq' \in [Places -> Nat] /\ count' \in Nat
    BY <1>1, <2>0 DEF RankTypeOK
  <2>2. Among(count, i + 1) /\ (count' = 0 \/ Among(count', i + 1))
    BY <1>1, <1>2, <2>0, <2>1 DEF RankTypeOK, LeastInv, LeastFrom, LeastSeen
  <2>3. RankTypeOK'
    BY <1>1, <2>0, <2>1, <2>2 DEF RankTypeOK, Among
  <2>4. Ascends'
    <3> SUFFICES ASSUME NEW k \in Places, NEW m \in Places, k < m
                 PROVE  \/ least_freq'[k] # 0 /\ least_freq'[k] < least_freq'[m]
                        \/ least_freq'[m] = 0
      BY DEF Ascends, Places
    <3>1. (least_freq[k] # 0 /\ least_freq[k] < least_freq[m]) \/ least_freq[m] = 0
      BY DEF LeastInv, Ascends
    <3>2. CASE k # p /\ m # p
      BY <2>1, <3>1, <3>2
    <3>3. CASE m = p
      BY <1>2, <2>1, <3>3 DEF LeastInv, Places
    <3>4. CASE k = p
      BY <1>1, <1>2, <1>4, <2>1, <3>1, <3>4 DEF RanksBefore, RankTypeOK, Places
    <3> QED
      BY <3>2, <3>3, <3>4
  <2>5. LeastFrom(i + 1)'
    BY <2>1, <2>2 DEF LeastInv, LeastFrom, LeastSeen, Among
  <2>6. ASSUME NEW k \in 1 .. i + 1
        PROVE  (InLeast(arr[k]) \/ AboveLeast(arr[k]) \/ count = arr[k])'
    <3>0. arr[k] \in Nat /\ arr' = arr
      BY CountPositive DEF RankTypeOK
    <3>1. InLeast(arr[k]) \/ AboveLeast(arr[k]) \/ count = arr[k]
      BY DEF LeastInv, LeastCovers, LeastSeen, Carried
    <3>2. CASE InLeast(arr[k])
      BY <3>2, <2>0, <2>1, <3>0 DEF InLeast
    <3>3. CASE AboveLeast(arr[k])
      BY <3>3, <1>1, <1>2, <1>4, <2>1, <3>0, SMTT(30) DEF RanksBefore, AboveLeast, RankTypeOK
    <3>4. CASE count = arr[k]
      BY <3>4, <1>1, <2>1, <3>0 DEF InLeast
    <3> QED
      BY <3>1, <3>2, <3>3, <3>4
  <2>7. CASE count' = 0
    <3>1. ASSUME NEW k \in Places, k >= p'
          PROVE  least_freq'[k] = 0
      <4>1. p < k
        BY <2>0, <3>1 DEF RankTypeOK, Places
      <4> QED
        BY <1>1, <2>0, <2>1, <2>7, <4>1 DEF LeastInv, Ascends
    <3> QED
      BY <1>3, <2>3, <2>4, <2>5, <2>6, <2>7, <3>1 DEF LeastInv, LeastSeen, LeastCovers, Carried
  <2>8. CASE count' # 0
    <3>1. \A k \in Places : k < p' => least_freq'[k] # 0 /\ least_freq'[k] < count'
      BY <1>1, <1>2, <1>4, <2>0, <2>1, <2>8, SMTT(30) DEF RanksBefore, LeastInv, RankTypeOK, Places
    <3> QED
      BY <1>3, <2>3, <2>4, <2>5, <2>6, <2>8, <3>1 DEF LeastInv, LeastSeen, LeastCovers, Carried
  <2> QED
    BY <2>7, <2>8
<1>5. CASE ~RanksBefore(count)
  <2>0. least_freq' = least_freq /\ count' = count /\ p' = p + 1
    BY <1>5
  <2>1. RankTypeOK'
    BY <1>1, <2>0 DEF RankTypeOK, Among
  <2>2. least_freq[p] # 0 /\ least_freq[p] < count
    BY <1>1, <1>5 DEF RanksBefore, RankTypeOK
  <2>3. \A k \in Places : k < p' => least_freq'[k] # 0 /\ least_freq'[k] < count'
    BY <1>1, <1>2, <2>0, <2>2 DEF LeastInv, RankTypeOK, Places
  <2>4. LeastInv'
    BY <1>2, <2>0, <2>3
       DEF LeastInv, Ascends, LeastFrom, LeastCovers, LeastSeen, Carried, Among, InLeast, AboveLeast
  <2> QED
    BY <1>3, <2>1, <2>4
<1> QED
  BY <1>4, <1>5

LEMMA LeastEndsInv ==
  ASSUME RankInv, LeastEnds
  PROVE  RankInv'
<1> USE DEF RankInv, LeastEnds, Carry
<1>1. i + 1 \in 0 .. Len(arr) /\ arr' = arr /\ i' = i + 1
  BY DEF RankTypeOK
<1>2. RankTypeOK'
  BY <1>1, RankingAssumption DEF RankTypeOK
<1>3. MostInv'
  <2>1. ASSUME NEW k \in 1 .. i + 1
        PROVE  InMost(arr[k])' \/ BelowMost(arr[k])' \/ 0 = arr[k]
    BY DEF MostInv, MostCovers, MostSeen, Carried, InMost, BelowMost
  <2> QED
    BY <1>1, <2>1 DEF MostInv, Descends, MostFrom, MostCovers, MostSeen, Carried, Among
<1>4. LeastInv'
  <2>1. count # 0 => InLeast(count) \/ AboveLeast(count)
    <3>1. CASE p = TOP
      BY <3>1, RankingAssumption DEF LeastInv, AboveLeast, Places
    <3>2. CASE p < TOP /\ least_freq[p] = count
      BY <3>2, RankingAssumption DEF RankTypeOK, InLeast, Places
    <3> QED
      BY <3>1, <3>2 DEF LeastStops
  <2>2. ASSUME NEW k \in 1 .. i + 1
        PROVE  InLeast(arr[k])' \/ AboveLeast(arr[k])'
    BY <1>1, <2>1, CountPositive DEF LeastInv, LeastCovers, LeastSeen, Carried, InLeast, AboveLeast
  <2> QED
    BY <1>1, <2>2 DEF LeastInv, Ascends, LeastFrom, LeastCovers, LeastSeen, Carried, Among
<1> QED
  BY <1>2, <1>3, <1>4

LEMMA RankEndsInv ==
  ASSUME RankInv, RankEnds
  PROVE  RankInv'
<1> USE DEF RankInv, RankEnds
<1>1. RankTypeOK'
  BY DEF RankTypeOK
<1>2. MostInv'
  BY DEF MostInv, Descends, MostFrom, MostCovers, MostSeen, Carried, Among, InMost, BelowMost
<1>3. LeastInv'
  BY DEF LeastInv, Ascends, LeastFrom, LeastCovers, LeastSeen, Carried, Among, InLeast, AboveLeast
<1> QED
  BY <1>1, <1>2, <1>3

LEMMA RankStutterInv ==
  ASSUME RankInv, UNCHANGED rankVars
  PROVE  RankInv'
BY DEF RankInv, rankVars, RankTypeOK, MostInv, LeastInv, Descends, Ascends, MostFrom, LeastFrom,
       MostCovers, LeastCovers, MostSeen, LeastSeen, Carried, Among, InMost, InLeast, BelowMost,
       AboveLeast

LEMMA RankNextInv ==
  ASSUME RankInv, [RankNext]_rankVars
  PROVE  RankInv'
BY FetchInv, MostRoundInv, MostEndsInv, LeastRoundInv, LeastEndsInv, RankEndsInv, RankStutterInv
   DEF RankNext

-----------------------------------------------------------------------------
LEMMA RankInvMost == RankInv => MostRanked
<1> SUFFICES ASSUME RankInv, rank = "ranked"
             PROVE  /\ MostFrom(Len(arr)) /\ Descends
                    /\ \A n \in 1 .. Len(arr) : InMost(arr[n]) \/ BelowMost(arr[n])
  BY DEF MostRanked, MostFrom, Among, Descends, InMost, BelowMost
<1>1. MostSeen = Len(arr) /\ Carried("most") = 0
  BY DEF RankInv, RankTypeOK, MostSeen, Carried
<1> QED
  BY <1>1, CountPositive DEF RankInv, MostInv, MostCovers

LEMMA RankInvLeast == RankInv => LeastRanked
<1> SUFFICES ASSUME RankInv, rank = "ranked"
             PROVE  /\ LeastFrom(Len(arr)) /\ Ascends
                    /\ \A n \in 1 .. Len(arr) : InLeast(arr[n]) \/ AboveLeast(arr[n])
  BY DEF LeastRanked, LeastFrom, Among, Ascends, InLeast, AboveLeast
<1>1. LeastSeen = Len(arr) /\ Carried("least") = 0
  BY DEF RankInv, RankTypeOK, LeastSeen, Carried
<1> QED
  BY <1>1, CountPositive DEF RankInv, LeastInv, LeastCovers

\* Whatever the counts are, the loops of word_freq (m65tool.c 163-186) leave the
\* largest and the smallest of them in most_freq and least_freq, each once, in
\* order, and none out.
THEOREM RanksRight == RankSpec => [](MostRanked /\ LeastRanked)
<1>1. RankInit => RankInv
  BY RankInitInv
<1>2. RankInv /\ [RankNext]_rankVars => RankInv'
  BY RankNextInv
<1>3. RankInv => MostRanked /\ LeastRanked
  BY RankInvMost, RankInvLeast
<1> QED
  BY <1>1, <1>2, <1>3, PTL DEF RankSpec

-----------------------------------------------------------------------------
\* Until the ranking starts nothing of it has happened.
Unranked == ~AllCounted => RankInit

WordFreqInv == RankInv /\ Unranked

-----------------------------------------------------------------------------
\* A count goes up, and stays a count.
LEMMA RaisedCounts ==
  ASSUME arr \in Seq(Nat \ {0}), NEW k
  PROVE  [arr EXCEPT ![k] = @ + 1] \in Seq(Nat \ {0})
<1> DEFINE raised == [arr EXCEPT ![k] = @ + 1]
<1>1. arr \in [1 .. Len(arr) -> Nat \ {0}] /\ Len(arr) \in Nat
  OBVIOUS
<1>2. raised \in [1 .. Len(arr) -> Nat \ {0}]
  <2>1. CASE k \in 1 .. Len(arr)
    <3>1. arr[k] + 1 \in Nat \ {0}
      BY <1>1, <2>1
    <3> QED
      BY <1>1, <3>1
  <2>2. CASE k \notin 1 .. Len(arr)
    BY <1>1, <2>2, Zenon
  <2> QED
    BY <2>1, <2>2
<1> HIDE DEF raised
<1>3. raised \in Seq(Nat \ {0})
  BY <1>1, <1>2, SeqDef
<1> QED
  BY <1>3 DEF raised

LEMMA WordFreqInitInv == Init => WordFreqInv
<1> SUFFICES ASSUME Init PROVE RankInit
  BY RankInitInv DEF WordFreqInv, Unranked
<1> QED
  BY DEF Init, RankInit

\* The steps before the ranking that leave arr alone.
LEMMA ReadingInv ==
  ASSUME WordFreqInv, ReadChar \/ ReadFails \/ ReadNewline \/ ReadEof \/ LineEnds \/ EmptyWord
                      \/ CountsFail
  PROVE  WordFreqInv'
<1>1. ~AllCounted /\ UNCHANGED rankVars
  BY DEF AllCounted, ReadChar, ReadFails, Exit, ReadNewline, ReadEof, LineEnds, EmptyWord,
         CountsFail, Popping, rankVars
<1>2. RankInit'
  BY <1>1 DEF WordFreqInv, Unranked, RankInit, rankVars
<1> QED
  BY <1>1, <1>2, RankStutterInv DEF WordFreqInv, Unranked

LEMMA SeenWordInv ==
  ASSUME WordFreqInv, SeenWord
  PROVE  WordFreqInv'
<1>1. RankInit
  BY DEF WordFreqInv, Unranked, AllCounted, SeenWord, Popping
<1>2. arr' \in Seq(Nat \ {0})
  BY <1>1, RaisedCounts DEF RankInit, SeenWord
<1>3. RankInit'
  BY <1>1, <1>2 DEF RankInit, SeenWord, NoRanking
<1> QED
  BY <1>3, RankInitInv, PTL DEF WordFreqInv, Unranked

LEMMA NewWordInv ==
  ASSUME WordFreqInv, NEW can_alloc \in BOOLEAN, NewWord(can_alloc)
  PROVE  WordFreqInv'
<1>1. RankInit
  BY DEF WordFreqInv, Unranked, AllCounted, NewWord, Popping
<1>2. arr' = arr \/ arr' = Append(arr, 1)
  BY DEF NewWord
<1>3. arr' \in Seq(Nat \ {0})
  BY <1>1, <1>2 DEF RankInit
<1>4. RankInit'
  BY <1>1, <1>3 DEF RankInit, NewWord, NoRanking
<1> QED
  BY <1>4, RankInitInv, PTL DEF WordFreqInv, Unranked

LEMMA WordFreqNextInv ==
  ASSUME WordFreqInv, [Next]_vars
  PROVE  WordFreqInv'
<1>1. CASE Rank
  BY <1>1, RankNextInv DEF WordFreqInv, Unranked, AllCounted, Rank, ownVars
<1>2. CASE FirstMatch \/ Match \/ PrintResults
  <2>1. AllCounted /\ AllCounted' /\ UNCHANGED rankVars
    BY <1>2 DEF AllCounted, FirstMatch, Match, PrintResults, readVars
  <2> QED
    BY <2>1, RankStutterInv DEF WordFreqInv, Unranked
<1>3. CASE UNCHANGED vars
  <2>1. UNCHANGED rankVars /\ phase' = phase
    BY <1>3 DEF vars, ownVars
  <2> QED
    BY <2>1, RankStutterInv DEF WordFreqInv, Unranked, AllCounted, RankInit, rankVars
<1> QED
  BY <1>1, <1>2, <1>3, ReadingInv, SeenWordInv, NewWordInv DEF Next

\* The places printed by word_freq (m65tool.c 205-213) are the largest and the
\* smallest of the counts, each once and in order, for every file, for every
\* hash and whatever the map has lost.
THEOREM ProgramRanksRight == Spec => [](MostRanked /\ LeastRanked)
<1>1. Init => WordFreqInv
  BY WordFreqInitInv
<1>2. WordFreqInv /\ [Next]_vars => WordFreqInv'
  BY WordFreqNextInv
<1>3. WordFreqInv => MostRanked /\ LeastRanked
  BY RankInvMost, RankInvLeast DEF WordFreqInv
<1> QED
  BY <1>1, <1>2, <1>3, PTL DEF Spec

\* The second half of it on its own: the five least counts, for which a free
\* place ranks behind every count.
THEOREM ProgramRanksLeast == Spec => []LeastRanked
BY ProgramRanksRight, PTL

-----------------------------------------------------------------------------
\* How far process_line has come in the file: a line is what is left of it, up
\* to the newline, and the strbuf holds what has been read behind the last one.
\* Neither starts inside of a word.
LineEnd == IF phase = "line" THEN at - 1 ELSE at

InLine == phase \in {"line", "last"} /\ str_is_valid(line)

Reached ==
  CASE phase = "read" -> at - Len(buf)
    [] phase # "read" /\ InLine -> LineEnd - Len(line)
    [] phase # "read" /\ ~InLine -> at

TextInv ==
  /\ file \in Text /\ at \in 0 .. Len(file) /\ Reached \in 0 .. at
  /\ phase = "read" => buf = SubSeq(file, Reached + 1, at)
  /\ phase = "line" => at # 0 /\ file[at] = Newline
  /\ phase \in {"last", "rank", "match", "printed"} => at = Len(file)
  /\ InLine => Reached <= LineEnd /\ line = SubSeq(file, Reached + 1, LineEnd)
  /\ phase \in {"read", "line"} \/ InLine => Reached = 0 \/ file[Reached] \in Space

\* The places of the words popped so far.
Seen == WordsWithin(file, Reached)

LEMMA TextTypes ==
  ASSUME TextInv
  PROVE  /\ file \in Seq(Char) /\ Len(file) \in Nat
         /\ at \in Nat /\ at <= Len(file) /\ Reached \in Nat /\ Reached <= at
BY WordFreqAssumption DEF TextInv

LEMMA TextInit == Init => TextInv /\ Seen = {}
<1> SUFFICES ASSUME Init PROVE TextInv /\ Seen = {}
  OBVIOUS
<1>1. /\ file \in Text /\ file \in Seq(Char) /\ Len(file) \in Nat
      /\ phase = "read" /\ at = 0 /\ buf = <<>>
  BY WordFreqAssumption DEF Init
<1>2. Reached = 0 /\ ~InLine
  <2>1. phase = "read" /\ at = 0 /\ Len(buf) = 0
    BY <1>1
  <2>2. Reached = 0
    BY <2>1, SMT DEF Reached
  <2>3. ~InLine
    BY <1>1 DEF InLine
  <2> QED BY <2>2, <2>3
<1>3. buf = SubSeq(file, 1, 0)
  BY <1>1
<1>4. Seen = {}
  BY <1>1, <1>2, WordsFinite DEF Seen
<1> QED BY <1>1, <1>2, <1>3, <1>4 DEF TextInv

\* A pop takes the word at a + 1 to b of the file, if a < b, and goes on at e.
Pops(a, b, e) ==
  /\ Reached <= a /\ a <= b /\ b <= e /\ e <= LineEnd
  /\ Word = SubSeq(file, a + 1, b)
  /\ Word # <<>> <=> a < b
  /\ Rest = IF e = LineEnd THEN NoStr ELSE SubSeq(file, e + 1, LineEnd)
  /\ e # LineEnd => file[e] \in Space
  /\ a < b => <<a + 1, b>> \in WordPlaces(file)
  /\ WordsWithin(file, e) = Seen \cup (IF a < b THEN {<<a + 1, b>>} ELSE {})

LEMMA PoppedWord ==
  ASSUME TextInv, InLine
  PROVE  /\ LineEnd \in Nat /\ LineEnd <= at
         /\ \E a \in Nat, b \in Nat, e \in Nat : Pops(a, b, e)
<1> DEFINE d == Reached
           n == LineEnd
           pop == str_split_whitespace_pop(line)
<1>1. /\ file \in Seq(Char) /\ Len(file) \in Nat /\ at \in Nat /\ at <= Len(file)
      /\ d \in Nat /\ d <= n /\ line = SubSeq(file, d + 1, n)
      /\ d = 0 \/ file[d] \in Space
  BY TextTypes DEF TextInv
<1>2. n \in Nat /\ n <= at /\ (n = Len(file) \/ file[n + 1] \in Space)
  <2>1. CASE phase = "line"
    <3>1. at # 0 /\ file[at] \in Space /\ n = at - 1
      BY <2>1, WordFreqAssumption DEF TextInv, LineEnd
    <3>2. n + 1 = at
      BY <1>1, <3>1
    <3> QED BY <1>1, <3>1, <3>2
  <2>2. CASE phase = "last"
    BY <1>1, <2>2 DEF TextInv, LineEnd
  <2> QED BY <2>1, <2>2 DEF InLine
<1>3. n <= Len(file)
  BY <1>1, <1>2
<1> HIDE DEF d, n
<1>4. PICK a \in Nat, b \in Nat, e \in Nat : PopsWord(file, d, n, a, b, e)
  BY <1>1, <1>2, <1>3, PopTakesWord
<1>5. /\ d <= a /\ a <= b /\ b <= e /\ e <= n
      /\ pop = Popped(SubSeq(file, a + 1, b), IF e = n THEN NoStr ELSE SubSeq(file, e + 1, n))
      /\ e # n => file[e] \in Space
      /\ a < b => <<a + 1, b>> \in WordPlaces(file)
      /\ WordsWithin(file, e) = WordsWithin(file, d) \cup (IF a < b THEN {<<a + 1, b>>} ELSE {})
  BY <1>1, <1>4 DEF PopsWord
<1>6. /\ Word = SubSeq(file, a + 1, b)
      /\ Rest = IF e = n THEN NoStr ELSE SubSeq(file, e + 1, n)
  <2> HIDE DEF pop
  <2>1. pop.part = SubSeq(file, a + 1, b) /\ pop.rest = IF e = n THEN NoStr ELSE SubSeq(file, e + 1, n)
    BY <1>5 DEF Popped
  <2> QED BY <2>1 DEF Word, Rest, pop
<1>7. Word # <<>> <=> a < b
  <2>1. SubSeq(file, a + 1, b) \in Seq(Char) /\ Len(SubSeq(file, a + 1, b)) = b - a
    BY <1>1, <1>2, <1>3, <1>5
  <2>2. b - a = 0 <=> ~(a < b)
    BY <1>5
  <2>3. \A u \in Seq(Char) : u = <<>> <=> Len(u) = 0
    OBVIOUS
  <2>4. Word \in Seq(Char) /\ Len(Word) = b - a
    BY <1>6, <2>1
  <2> QED BY <2>2, <2>3, <2>4
<1>8. Pops(a, b, e)
  BY <1>5, <1>6, <1>7 DEF Pops, Seen, d, n
<1> QED BY <1>2, <1>8 DEF n

\* What a step of process_line leaves of the line.
LEMMA PopStep ==
  ASSUME TextInv, Popping, UNCHANGED <<file, at>>, phase' \in {phase, "failed", "wild"}
  PROVE  /\ TextInv'
         /\ Word = <<>> /\ phase' = phase => Seen' = Seen
         /\ Word # <<>> => Hash[Word] \in Nat
         /\ Word # <<>> /\ phase' = phase =>
              \E w \in WordPlaces(file) : /\ w \notin Seen /\ Seen' = Seen \cup {w}
                                          /\ WordAt(file, w) = Word
<1>1. InLine /\ phase \in {"line", "last"} /\ line' = Rest
  BY DEF Popping, InLine
<1>2. LineEnd \in Nat /\ LineEnd <= at
  BY <1>1, PoppedWord
<1>3. PICK a \in Nat, b \in Nat, e \in Nat : Pops(a, b, e)
  BY <1>1, PoppedWord
<1>4. /\ Reached <= a /\ a <= b /\ b <= e /\ e <= LineEnd
      /\ Word = SubSeq(file, a + 1, b)
      /\ Word # <<>> <=> a < b
      /\ Rest = IF e = LineEnd THEN NoStr ELSE SubSeq(file, e + 1, LineEnd)
      /\ e # LineEnd => file[e] \in Space
      /\ a < b => <<a + 1, b>> \in WordPlaces(file)
      /\ WordsWithin(file, e) = Seen \cup (IF a < b THEN {<<a + 1, b>>} ELSE {})
  BY <1>3 DEF Pops
<1>5. /\ file \in Seq(Char) /\ Len(file) \in Nat /\ at \in Nat /\ at <= Len(file)
      /\ Reached \in Nat
  BY TextTypes
<1>6. ASSUME phase' # phase PROVE TextInv'
  <2>1. Reached' = at /\ ~InLine' /\ phase' \notin {"read", "line", "last", "rank", "match", "printed"}
    BY <1>1, <1>6 DEF Reached, InLine
  <2> QED BY <1>5, <2>1 DEF TextInv
<1>7. ASSUME phase' = phase PROVE TextInv' /\ Seen' = WordsWithin(file, e)
  <2>1. LineEnd' = LineEnd
    BY <1>7 DEF LineEnd
  <2>2. CASE e = LineEnd
    <3>1. Reached' = at /\ ~InLine'
      BY <1>1, <1>4, <1>7, <2>2 DEF Reached, InLine, str_is_valid
    <3>2. phase = "line" => at # 0 /\ file[at] \in Space
      BY WordFreqAssumption DEF TextInv
    <3>3. TextInv'
      BY <1>1, <1>5, <1>7, <3>1, <3>2 DEF TextInv
    <3>4. Seen' = WordsWithin(file, e)
      <4>1. CASE phase = "last"
        BY <2>2, <3>1, <4>1 DEF Seen, LineEnd
      <4>2. CASE phase = "line"
        <5>1. e = at - 1 /\ Seen' = WordsWithin(file, at)
          BY <2>2, <3>1, <4>2 DEF Seen, LineEnd
        <5>2. \A w \in WordPlaces(file) : w[2] \in Nat /\ w[2] # at
          <6> TAKE w \in WordPlaces(file)
          <6>1. w[1] \in Nat /\ w[2] \in Nat /\ w[1] <= w[2]
                /\ \A k \in w[1] .. w[2] : file[k] \notin Space
            BY DEF WordPlaces
          <6>2. w[2] \in w[1] .. w[2]
            BY <6>1
          <6> QED BY <3>2, <4>2, <6>1, <6>2
        <5>3. \A w \in WordPlaces(file) : w[2] <= at <=> w[2] <= at - 1
          BY <1>5, <5>2
        <5> QED BY <5>1, <5>3 DEF WordsWithin
      <4> QED BY <1>1, <4>1, <4>2
    <3> QED BY <3>3, <3>4
  <2>3. CASE e # LineEnd
    <3>1. line' = SubSeq(file, e + 1, LineEnd) /\ line' \in Seq(Char) /\ Len(line') = LineEnd - e
      BY <1>1, <1>2, <1>4, <1>5, <2>3
    <3>2. InLine'
      BY <1>1, <1>7, <3>1, WordFreqAssumption DEF InLine, str_is_valid
    <3>3. Reached' = e
      <4>1. Reached' = LineEnd - Len(line')
        BY <1>1, <1>7, <2>1, <3>2 DEF Reached
      <4> QED BY <1>2, <1>4, <3>1, <4>1
    <3>4. TextInv'
      <4>1. /\ file' = file /\ at' = at /\ phase' = phase /\ phase \in {"line", "last"}
            /\ file \in Text /\ at \in 0 .. Len(file)
            /\ phase = "line" => at # 0 /\ file[at] = Newline
            /\ phase = "last" => at = Len(file)
        BY <1>1, <1>7 DEF TextInv
      <4>2. Reached' \in 0 .. at' /\ Reached' <= LineEnd'
        BY <1>2, <1>4, <1>5, <2>1, <3>3, <4>1
      <4>3. line' = SubSeq(file', Reached' + 1, LineEnd') /\ file'[Reached'] \in Space
        BY <1>4, <2>1, <2>3, <3>1, <3>3, <4>1
      <4> QED BY <4>1, <4>2, <4>3 DEF TextInv
    <3>5. Seen' = WordsWithin(file, e)
      BY <3>3 DEF Seen
    <3> QED BY <3>4, <3>5
  <2> QED BY <2>2, <2>3
<1>8. Word = <<>> /\ phase' = phase => Seen' = Seen
  BY <1>4, <1>7
<1>9. ASSUME Word # <<>>
      PROVE  /\ Hash[Word] \in Nat
             /\ phase' = phase =>
                  \E w \in WordPlaces(file) : /\ w \notin Seen /\ Seen' = Seen \cup {w}
                                              /\ WordAt(file, w) = Word
  <2> DEFINE w == <<a + 1, b>>
  <2>1. a < b /\ w \in WordPlaces(file) /\ WordAt(file, w) = Word
    BY <1>4, <1>9 DEF WordAt
  <2>2. ~(b <= Reached)
    BY <1>4, <1>5, <2>1
  <2>3. w \notin Seen
    BY <2>2 DEF Seen, WordsWithin
  <2>4. /\ a + 1 \in 1 .. Len(file) /\ b \in 1 .. Len(file)
        /\ \A k \in a + 1 .. b : file[k] \notin Space
    BY <2>1 DEF WordPlaces
  <2>5. Hash[Word] \in Nat
    <3>1. file \in Text
      BY DEF TextInv
    <3>2. IsSolid(file, a + 1, b)
      BY <2>4 DEF IsSolid
    <3> QED BY <1>4, <2>4, <3>1, <3>2, WordFreqAssumption
  <2>6. phase' = phase => Seen' = Seen \cup {w}
    BY <1>4, <1>7, <2>1
  <2> HIDE DEF w
  <2> QED BY <2>1, <2>3, <2>5, <2>6
<1> QED BY <1>6, <1>7, <1>8, <1>9

\* Neither failed nor gone wild.
Running == phase \notin {"failed", "wild"}

\* The steps that take a word to be counted.
WordTaken == SeenWord \/ \E can_alloc \in BOOLEAN : NewWord(can_alloc)

\* What each step reads or takes off the line: no other step sees a word.
LEMMA TextStep ==
  ASSUME TextInv, [Next]_vars
  PROVE  /\ TextInv' /\ file' = file
         /\ Running' => Running
         /\ Running' /\ ~WordTaken => Seen' = Seen
<1>1. /\ file \in Seq(Char) /\ Len(file) \in Nat /\ at \in Nat /\ at <= Len(file)
      /\ Reached \in Nat /\ Reached <= at
  BY TextTypes
<1>2. CASE ReadChar
  <2>1. /\ phase = "read" /\ phase' = "read" /\ at < Len(file) /\ at' = at + 1
        /\ buf' = Append(buf, file[at + 1]) /\ file' = file
    BY <1>2 DEF ReadChar
  <2>2. buf = SubSeq(file, Reached + 1, at) /\ (Reached = 0 \/ file[Reached] \in Space)
    BY <2>1 DEF TextInv
  <2>3. buf' = SubSeq(file, Reached + 1, at + 1)
    BY <1>1, <2>1, <2>2, PartAndNext
  <2>4. Len(buf') = (at + 1) - Reached
    BY <1>1, <2>1, <2>3
  <2>5. Reached' = Reached
    BY <1>1, <2>1, <2>4 DEF Reached
  <2>6. TextInv'
    BY <1>1, <2>1, <2>2, <2>3, <2>5 DEF TextInv, InLine
  <2> QED BY <2>1, <2>5, <2>6 DEF Running, Seen
<1>3. CASE ReadNewline
  <2>1. /\ phase = "read" /\ phase' = "line" /\ at < Len(file) /\ file[at + 1] = Newline
        /\ at' = at + 1 /\ line' = buf /\ file' = file
    BY <1>3 DEF ReadNewline
  <2>2. buf = SubSeq(file, Reached + 1, at) /\ (Reached = 0 \/ file[Reached] \in Space)
    BY <2>1 DEF TextInv
  <2>3. buf \in Seq(Char) /\ Len(buf) = at - Reached
    BY <1>1, <2>2
  <2>4. InLine' /\ LineEnd' = at
    BY <1>1, <2>1, <2>3, WordFreqAssumption DEF InLine, LineEnd, str_is_valid
  <2>5. Reached' = Reached
    <3>1. Reached' = at - Len(buf)
      BY <2>1, <2>4 DEF Reached
    <3> QED BY <1>1, <2>3, <3>1
  <2>6. TextInv'
    BY <1>1, <2>1, <2>2, <2>4, <2>5 DEF TextInv
  <2> QED BY <2>1, <2>5, <2>6 DEF Running, Seen
<1>4. CASE ReadEof
  <2>1. /\ phase = "read" /\ at = Len(file) /\ at' = at /\ file' = file
        /\ \/ buf # <<>> /\ phase' = "last" /\ line' = buf
           \/ buf = <<>> /\ phase' = "rank"
    BY <1>4 DEF ReadEof, LastLine
  <2>2. buf = SubSeq(file, Reached + 1, at) /\ (Reached = 0 \/ file[Reached] \in Space)
    BY <2>1 DEF TextInv
  <2>3. buf \in Seq(Char) /\ Len(buf) = at - Reached
    BY <1>1, <2>2
  <2>4. CASE phase' = "last"
    <3>1. InLine' /\ LineEnd' = at /\ line' = buf
      BY <2>1, <2>3, <2>4, WordFreqAssumption DEF InLine, LineEnd, str_is_valid
    <3>2. Reached' = Reached
      <4>1. Reached' = at - Len(buf)
        BY <2>4, <3>1 DEF Reached
      <4> QED BY <1>1, <2>3, <4>1
    <3>3. TextInv'
      BY <1>1, <2>1, <2>2, <2>4, <3>1, <3>2 DEF TextInv
    <3> QED BY <2>1, <3>2, <3>3 DEF Running, Seen
  <2>5. CASE phase' = "rank"
    <3>1. buf = <<>> /\ ~InLine'
      BY <2>1, <2>5 DEF InLine
    <3>2. Reached = at
      BY <1>1, <2>3, <3>1
    <3>3. Reached' = Reached
      BY <2>1, <2>5, <3>1, <3>2 DEF Reached
    <3>4. TextInv'
      BY <1>1, <2>1, <2>5, <3>1, <3>3 DEF TextInv
    <3> QED BY <2>1, <3>3, <3>4 DEF Running, Seen
  <2> QED BY <2>1, <2>4, <2>5
<1>5. CASE LineEnds
  <2>1. /\ phase \in {"line", "last"} /\ ~str_is_valid(line) /\ at' = at /\ file' = file
        /\ \/ phase = "line" /\ phase' = "read" /\ buf' = <<>>
           \/ phase = "last" /\ phase' = "rank"
    BY <1>5 DEF LineEnds, strbuf_reset
  <2>2. Reached = at
    BY <2>1 DEF Reached, InLine
  <2>3. Reached' = at /\ ~InLine'
    <3>1. Len(<<>>) = 0 /\ at - 0 = at
      BY <1>1
    <3> QED BY <2>1, <3>1 DEF Reached, InLine
  <2>4. phase' = "read" => buf' = SubSeq(file, at + 1, at)
    BY <1>1, <2>1
  <2>5. TextInv'
    BY <1>1, <2>1, <2>2, <2>3, <2>4 DEF TextInv
  <2> QED BY <2>1, <2>2, <2>3, <2>5 DEF Running, Seen
<1>6. CASE EmptyWord \/ WordTaken \/ CountsFail
  <2>1. /\ Popping /\ UNCHANGED <<file, at>> /\ phase' \in {phase, "failed", "wild"}
        /\ EmptyWord => Word = <<>> /\ phase' = phase
        /\ CountsFail => phase' = "failed"
    BY <1>6 DEF WordTaken, EmptyWord, SeenWord, NewWord, CountsFail, Popping, readVars
  <2>2. TextInv' /\ (Word = <<>> /\ phase' = phase => Seen' = Seen)
    BY <2>1, PopStep
  <2> QED BY <1>6, <2>1, <2>2 DEF Running, Popping
<1>7. CASE ReadFails
  <2>1. phase = "read" /\ phase' = "failed" /\ UNCHANGED <<file, at>>
    BY <1>7 DEF ReadFails, Exit
  <2>2. Reached' = at /\ ~InLine'
    BY <2>1 DEF Reached, InLine
  <2>3. TextInv'
    BY <1>1, <2>1, <2>2 DEF TextInv
  <2> QED BY <2>1, <2>3 DEF Running
<1>8. CASE Rank \/ UNCHANGED vars
  BY <1>8 DEF Rank, ownVars, vars, TextInv, InLine, LineEnd, Reached, Seen, Running, str_is_valid
<1>9. CASE FirstMatch \/ Match \/ PrintResults
  <2>1. /\ phase \in {"rank", "match"} /\ phase' \in {"match", "printed"} /\ UNCHANGED <<file, at>>
    BY <1>9 DEF FirstMatch, Match, PrintResults, readVars
  <2>2. Reached = at /\ Reached' = at /\ ~InLine'
    BY <2>1 DEF Reached, InLine
  <2>3. TextInv'
    BY <1>1, <2>1, <2>2 DEF TextInv
  <2> QED BY <2>1, <2>2, <2>3 DEF Running, Seen
<1> QED BY <1>2, <1>3, <1>4, <1>5, <1>6, <1>7, <1>8, <1>9 DEF Next, WordTaken

\* Nor does any other step touch the counts or the map.
LEMMA CountsKept ==
  ASSUME [Next]_vars, ~WordTaken
  PROVE  UNCHANGED <<arr, mapVars>>
BY DEF WordTaken, Next, ReadChar, ReadFails, Exit, ReadNewline, ReadEof, LastLine, LineEnds,
   EmptyWord, CountsFail, Rank, RankNext, Fetch, MostRound, MostEnds, LeastRound, LeastEnds,
   RankEnds, FirstMatch, Match, PrintResults, readVars, tableVars, mapVars, ownVars, rankVars, vars

-----------------------------------------------------------------------------
\* The handles in the map: of the first array, and of the first n cells of it.
FirstCells(n) == [moves : {0}, cell : 1 .. n]

WordEntry == [key_hash : Nat, value_handle : {NoHandle, Junk} \cup [moves : {0}, cell : Nat]]

CellsApart(m, n) ==
  /\ \A s \in Occupied(m) : m.entries[s].value_handle \in FirstCells(n)
  /\ \A s, t \in Occupied(m) :
       s # t => m.entries[s].value_handle.cell # m.entries[t].value_handle.cell

\* No entry of the map can be junk: do_set writes past a freed table only once it
\* has grown, and the map has lost an entry.
Unstrayed == StrayWords = {} \/ ~cut

\* Until it is overrun, the array is the first one.
HandleInv ==
  ~overrun =>
    /\ counts = [size |-> CELL * INITIAL_COUNTS_SIZE, moves |-> 0]
    /\ Len(arr) <= INITIAL_COUNTS_SIZE
    /\ TableInv(mymap, WordEntry)
    /\ Unstrayed => CellsApart(mymap, Len(arr))

LEMMA WordEntries == TableEntries(WordEntry)
BY MapTableAssumption DEF TableEntries, WordEntry, EmptyEntry

\* A handle is not the zeroed one.
LEMMA CellHandles ==
  ASSUME NEW n \in Nat, NEW h \in FirstCells(n)
  PROVE  h # NoHandle /\ h.moves = 0 /\ h.cell \in 1 .. n
<1>1. h \in [moves : Nat, cell : Nat]
  BY DEF FirstCells
<1> QED BY <1>1, WordFreqAssumption DEF FirstCells

\* A larger array, and a table whose entries are from the old one.
LEMMA CellsKept ==
  ASSUME NEW m, NEW w, NEW n \in Nat, CellsApart(m, n), EntriesFrom(w, m)
  PROVE  CellsApart(w, n) /\ CellsApart(w, n + 1)
<1>1. PICK f \in Injection(Occupied(w), Occupied(m)) :
        \A q \in Occupied(w) : w.entries[q] = m.entries[f[q]]
  BY DEF EntriesFrom
<1>2. /\ \A q \in Occupied(w) : f[q] \in Occupied(m)
      /\ \A s, t \in Occupied(w) : s # t => f[s] # f[t]
  BY DEF Injection, IsInjective
<1>3. CellsApart(w, n)
  BY <1>1, <1>2 DEF CellsApart
<1>4. FirstCells(n) \subseteq FirstCells(n + 1)
  BY DEF FirstCells
<1> QED BY <1>3, <1>4 DEF CellsApart

\* A word without an entry is not in the table: what its probe finds is free.
LEMMA NoEntry ==
  ASSUME NEW m, TableInv(m, WordEntry), NEW n \in Nat, CellsApart(m, n),
         NEW kh \in Nat, do_get(m, kh) = NoHandle
  PROVE  /\ find_entry_pos(m, kh) \in Slots(m) \ Occupied(m)
         /\ IsFree(m, find_entry_pos(m, kh)) /\ m.entries[find_entry_pos(m, kh)].key_hash = 0
<1> DEFINE pos == find_entry_pos(m, kh)
<1>1. pos \in Slots(m)
  BY FindEntryPos DEF TableInv, TableOK
<1>2. m.entries[pos].key_hash = 0
  <2> SUFFICES ASSUME m.entries[pos].key_hash # 0 PROVE FALSE
    OBVIOUS
  <2>1. pos \in Occupied(m) /\ m.entries[pos].value_handle = NoHandle
    BY <1>1 DEF Occupied, do_get
  <2> QED BY <2>1, CellHandles DEF CellsApart
<1> QED BY <1>1, <1>2 DEF Occupied, IsFree

\* The table with an entry more in a free slot.
LEMMA StoredNew ==
  ASSUME NEW m, TableOK(m, WordEntry), NEW pos \in Slots(m) \ Occupied(m), NEW kh, NEW h
  PROVE  LET w == Stored(Counted(m), pos, kh, h)
         IN /\ w.table_size = m.table_size /\ Slots(w) = Slots(m)
            /\ w.entries[pos].key_hash = kh /\ w.entries[pos].value_handle = h
            /\ \A q \in Slots(m) \ {pos} : w.entries[q] = m.entries[q]
            /\ Occupied(w) \subseteq Occupied(m) \cup {pos}
            /\ kh # 0 => Occupied(w) = Occupied(m) \cup {pos}
<1> DEFINE c == Counted(m)
           w == Stored(c, pos, kh, h)
           e == [key_hash |-> kh, value_handle |-> h]
<1>1. /\ c = [entry_count |-> c.entry_count, table_size |-> c.table_size, entries |-> c.entries]
      /\ c.table_size = m.table_size /\ c.entries = m.entries
  BY CountedEntry DEF TableOK
<1>2. /\ w.table_size = m.table_size /\ w.entries = [m.entries EXCEPT ![pos] = e]
  <2> HIDE DEF c
  <2> QED BY <1>1 DEF Stored
<1> HIDE DEF w
<1>3. Slots(w) = Slots(m)
  BY <1>2 DEF Slots
<1>4. w.entries[pos] = e /\ \A q \in Slots(m) \ {pos} : w.entries[q] = m.entries[q]
  BY <1>2 DEF TableOK
<1>5. /\ Occupied(w) \subseteq Occupied(m) \cup {pos}
      /\ kh # 0 => Occupied(w) = Occupied(m) \cup {pos}
  BY <1>3, <1>4 DEF Occupied
<1> QED BY <1>2, <1>3, <1>4, <1>5 DEF w

\* do_set of a new key that does not grow the table.
LEMMA SetInPlace ==
  ASSUME NEW m, NEW kh, IsFree(m, find_entry_pos(m, kh)), NEW v, NEW can_alloc \in BOOLEAN,
         NEW o \in do_set(m, kh, v, can_alloc), o.resize # "grew"
  PROVE  \/ o = Outcome(Stored(Counted(m), find_entry_pos(m, kh), kh, v), TRUE, "no")
         \/ o = Outcome(Counted(m), FALSE, "failed")
<1> DEFINE stored == Stored(Counted(m), find_entry_pos(m, kh), kh, v)
           c == Counted(m)
           r == resize_entries_table(c, TRUE)
           W == StaleWrites(r, find_entry_pos(r, kh), m.table_size)
<1>1. \/ o = Outcome(stored, TRUE, "no") \/ o = Outcome(c, FALSE, "failed")
      \/ \E w \in W : o = Outcome(w, TRUE, "grew")
  <2> HIDE DEF stored, r, W
  <2> QED BY DEF do_set, stored, r, W
<1> HIDE DEF stored, c, r, W
<1>2. o = Outcome(stored, TRUE, "no") \/ o = Outcome(c, FALSE, "failed")
  BY <1>1 DEF Outcome
<1> QED BY <1>2 DEF stored, c

\* do_set of a word that has no entry gives its handle to no other word: the
\* slot was free, or the table has grown and has not got the entry.
LEMMA NewCell ==
  ASSUME NEW m, TableInv(m, WordEntry), NEW n \in Nat, CellsApart(m, n),
         NEW kh \in Nat, do_get(m, kh) = NoHandle, NEW can_alloc \in BOOLEAN,
         NEW o \in do_set(m, kh, [moves |-> 0, cell |-> n + 1], can_alloc),
         StrayWords = {} \/ o.resize # "grew"
  PROVE  /\ TableInv(o.map, WordEntry) /\ o.ret \in BOOLEAN
         /\ CellsApart(o.map, IF o.ret THEN n + 1 ELSE n)
<1> DEFINE h == [moves |-> 0, cell |-> n + 1]
           pos == find_entry_pos(m, kh)
           c == Counted(m)
           r == resize_entries_table(c, TRUE)
<1>1. TableInv(o.map, WordEntry) /\ o.ret \in BOOLEAN
  <2>1. [key_hash |-> kh, value_handle |-> h] \in WordEntry
    BY DEF WordEntry
  <2> QED BY <2>1, WordEntries, SetKeepsTable
<1>2. pos \in Slots(m) /\ TableOK(m, WordEntry)
  BY FindEntryPos DEF TableInv, TableOK
<1>3. /\ TableOK(c, WordEntry) /\ c.entries = m.entries
      /\ Occupied(c) = Occupied(m) /\ Slots(c) = Slots(m)
  BY <1>2, CountedEntry
<1>4. pos \in Slots(m) \ Occupied(m) /\ IsFree(m, pos)
  BY NoEntry
<1>5. CellsApart(c, n)
  BY <1>3 DEF CellsApart
<1>6. CASE o = Outcome(c, FALSE, "failed")
  BY <1>1, <1>5, <1>6 DEF Outcome
<1>7. CASE o = Outcome(Stored(c, pos, kh, h), TRUE, "no")
  <2> DEFINE w == Stored(c, pos, kh, h)
  <2>1. /\ Occupied(w) \subseteq Occupied(m) \cup {pos}
        /\ w.entries[pos].value_handle = h
        /\ \A s \in Occupied(m) : w.entries[s] = m.entries[s]
    <3>1. \A q \in Occupied(m) : q \in Slots(m) \ {pos}
      BY <1>4 DEF Occupied
    <3> HIDE DEF pos, h
    <3> QED BY <1>2, <1>4, <3>1, StoredNew
  <2>2. /\ h \in FirstCells(n + 1)
        /\ \A s \in Occupied(m) : /\ m.entries[s].value_handle \in FirstCells(n + 1)
                                   /\ m.entries[s].value_handle.cell # h.cell
    BY CellHandles DEF CellsApart, FirstCells
  <2> HIDE DEF w, h, pos, c
  <2>3. CellsApart(w, n + 1)
    BY <2>1, <2>2 DEF CellsApart
  <2> QED BY <1>1, <1>7, <2>3 DEF Outcome, w, h, pos, c
<1>8. CASE o = Outcome(r, TRUE, "grew")
  <2>1. EntriesFrom(r, c)
    <3> HIDE DEF c
    <3> QED BY <1>3, WordEntries, Resized
  <2>2. CellsApart(r, n + 1)
    <3> HIDE DEF r, c
    <3> QED BY <1>5, <2>1, CellsKept
  <2> QED BY <1>1, <1>8, <2>2 DEF Outcome
<1>9. CASE StrayWords = {}
  <2>1. StaleWrites(r, find_entry_pos(r, kh), m.table_size) = {r}
    BY <1>9 DEF StaleWrites
  <2> QED BY <1>4, <1>6, <1>7, <1>8, <2>1 DEF do_set
<1>10. CASE o.resize # "grew"
  <2> HIDE DEF h, r
  <2>1. o = Outcome(Stored(c, pos, kh, h), TRUE, "no") \/ o = Outcome(c, FALSE, "failed")
    <3>1. o \in do_set(m, kh, h, can_alloc)
      BY DEF h
    <3> QED BY <1>4, <1>10, <3>1, SetInPlace
  <2> QED BY <1>6, <1>7, <2>1
<1> QED BY <1>9, <1>10

-----------------------------------------------------------------------------
\* The first array has INITIAL_COUNTS_SIZE cells, and more bytes than that.
LEMMA FirstSize ==
  /\ (CELL * INITIAL_COUNTS_SIZE) \div CELL = INITIAL_COUNTS_SIZE
  /\ INITIAL_COUNTS_SIZE + 1 <= CELL * INITIAL_COUNTS_SIZE
<1>1. CELL \in Nat /\ CELL >= 2 /\ INITIAL_COUNTS_SIZE \in Nat /\ INITIAL_COUNTS_SIZE >= 1
  BY WordFreqAssumption
<1>2. \A c, n \in Nat : c >= 2 /\ n >= 1 => n + 1 <= c * n
  <2> SUFFICES ASSUME NEW c \in Nat, NEW n \in Nat, c >= 2, n >= 1 PROVE n + 1 <= c * n
    OBVIOUS
  <2>1. (c - 2) * n >= 0 /\ c * n = (c - 2) * n + 2 * n
    BY SMTT(30)
  <2> QED BY <2>1
<1>3. \A c, n \in Nat : c >= 2 => (c * n) \div c = n
  BY SMTT(30)
<1> QED BY <1>1, <1>2, <1>3

LEMMA FirstHandles == Init => HandleInv
<1> SUFFICES ASSUME Init PROVE HandleInv
  OBVIOUS
<1>1. Occupied(EmptyMap) = {}
  BY MapTableAssumption DEF Occupied, Slots, EmptyMap, Cleared, EmptyEntry
<1>2. /\ EmptyMap.table_size = INITIAL_TABLE_SIZE /\ EmptyMap.entry_count = 0
      /\ EmptyMap.entries = Cleared(INITIAL_TABLE_SIZE)
      /\ INITIAL_TABLE_SIZE \in Nat \ {0}
  BY MapTableAssumption DEF EmptyMap
<1>3. TableOK(EmptyMap, WordEntry)
  BY <1>2 DEF TableOK, EmptyMap, Cleared, WordEntry, EmptyEntry, Slots
<1>4. TableInv(EmptyMap, WordEntry)
  <2>1. Cardinality(Occupied(EmptyMap)) = 0
    BY <1>1, FS_EmptySet
  <2> QED BY <1>2, <1>3, <2>1 DEF TableInv, HalfFull
<1>5. CellsApart(EmptyMap, 0)
  BY <1>1 DEF CellsApart
<1>6. mymap = EmptyMap /\ Len(arr) = 0 /\ INITIAL_COUNTS_SIZE >= 0
  BY WordFreqAssumption DEF Init
<1> QED BY <1>4, <1>5, <1>6 DEF HandleInv, Init

\* A step that neither adds a cell nor touches the map.
LEMMA HandlesKept ==
  ASSUME HandleInv, UNCHANGED <<counts, mymap, cut, overrun>>, Len(arr') = Len(arr)
  PROVE  HandleInv'
BY DEF HandleInv, Unstrayed, TableInv, TableOK, HalfFull, CellsApart, Occupied, Slots

LEMMA NewWordHandles ==
  ASSUME TextInv, HandleInv, arr \in Seq(Nat \ {0}),
         NEW can_alloc \in BOOLEAN, NewWord(can_alloc)
  PROVE  HandleInv'
<1> SUFFICES ASSUME ~overrun' PROVE HandleInv'
  BY DEF HandleInv
<1> DEFINE n == Len(arr)
<1>1. /\ counts = [size |-> CELL * INITIAL_COUNTS_SIZE, moves |-> 0]
      /\ n <= INITIAL_COUNTS_SIZE /\ n \in Nat
      /\ TableInv(mymap, WordEntry) /\ (Unstrayed => CellsApart(mymap, n))
  <2>1. ~overrun
    BY DEF NewWord
  <2>2. n \in Nat
    OBVIOUS
  <2> QED BY <2>1, <2>2 DEF HandleInv
<1>2. Hash[Word] \in Nat /\ do_get(mymap, Hash[Word]) = NoHandle
  <2>1. Popping /\ Word # <<>> /\ UNCHANGED <<file, at>> /\ phase' \in {phase, "failed", "wild"}
    BY DEF NewWord, Popping
  <2> QED BY <2>1, PopStep DEF NewWord, Entry
<1>3. ~Full(n + 1)
  <2>1. \A b \in Int : INITIAL_COUNTS_SIZE + 1 <= b => ~(n + 1 > b)
    BY <1>1, WordFreqAssumption
  <2>2. CELL * INITIAL_COUNTS_SIZE \in Int
    BY WordFreqAssumption
  <2> QED BY <1>1, <2>1, <2>2, FirstSize DEF Full
<1>4. PICK o \in do_set(mymap, Hash[Word], [moves |-> 0, cell |-> n + 1], can_alloc) :
        /\ counts' = counts /\ mymap' = o.map
        /\ arr' = IF o.ret THEN Append(arr, 1) ELSE arr
        /\ cut' = (cut \/ o.resize = "grew")
        /\ overrun' = (overrun \/ (o.ret /\ n + 1 > counts.size \div CELL))
  BY <1>1, <1>3 DEF NewWord
<1>5. /\ TableInv(mymap', WordEntry) /\ o.ret \in BOOLEAN
      /\ Unstrayed' => CellsApart(mymap', IF o.ret THEN n + 1 ELSE n)
  <2> DEFINE h == [moves |-> 0, cell |-> n + 1]
  <2>1. [key_hash |-> Hash[Word], value_handle |-> h] \in WordEntry
    BY <1>1, <1>2 DEF WordEntry
  <2>2. TableInv(mymap', WordEntry) /\ o.ret \in BOOLEAN
    <3> HIDE DEF h
    <3>1. o \in do_set(mymap, Hash[Word], h, can_alloc) /\ mymap' = o.map
      BY <1>4 DEF h
    <3> QED BY <1>1, <1>2, <2>1, <3>1, WordEntries, SetKeepsTable
  <2>3. Unstrayed' => Unstrayed /\ (StrayWords = {} \/ o.resize # "grew")
    BY <1>4 DEF Unstrayed
  <2> QED BY <1>1, <1>2, <1>4, <2>2, <2>3, NewCell
<1>6. Len(arr') = IF o.ret THEN n + 1 ELSE n
  BY <1>4
<1>7. Len(arr') <= INITIAL_COUNTS_SIZE
  <2>1. counts.size \div CELL = INITIAL_COUNTS_SIZE
    BY <1>1, FirstSize
  <2>2. ~(o.ret /\ n + 1 > INITIAL_COUNTS_SIZE)
    BY <1>4, <2>1
  <2> HIDE DEF n
  <2> QED BY <1>1, <1>5, <1>6, <2>2, WordFreqAssumption
<1> QED BY <1>1, <1>4, <1>5, <1>6, <1>7 DEF HandleInv

LEMMA SeenWordHandles ==
  ASSUME HandleInv, arr \in Seq(Nat \ {0}), SeenWord
  PROVE  HandleInv'
<1>1. arr' = [arr EXCEPT ![Entry(Word).cell] = @ + 1]
  BY DEF SeenWord
<1>2. Len(arr') = Len(arr)
  <2> DEFINE cell == Entry(Word).cell
  <2> HIDE DEF cell
  <2>1. arr' = [arr EXCEPT ![cell] = arr[cell] + 1]
    BY <1>1 DEF cell
  <2> QED BY <2>1
<1> QED BY <1>2, HandlesKept DEF SeenWord, mapVars

LEMMA HandlesStep ==
  ASSUME TextInv, HandleInv, arr \in Seq(Nat \ {0}), [Next]_vars
  PROVE  HandleInv'
<1>1. ASSUME NEW can_alloc \in BOOLEAN, NewWord(can_alloc) PROVE HandleInv'
  BY <1>1, NewWordHandles
<1>2. CASE SeenWord
  BY <1>2, SeenWordHandles
<1>3. CASE ~WordTaken
  BY <1>3, CountsKept, HandlesKept DEF mapVars
<1> QED BY <1>1, <1>2, <1>3 DEF WordTaken

\* What the program keeps to, of the ranking, the text and the handles.
ProgramInv == WordFreqInv /\ TextInv /\ HandleInv

LEMMA ProgramInit == Init => ProgramInv
<1> SUFFICES ASSUME Init PROVE ProgramInv
  OBVIOUS
<1> QED BY TextInit, WordFreqInitInv, FirstHandles DEF ProgramInv

LEMMA ProgramNext ==
  ASSUME ProgramInv, [Next]_vars
  PROVE  ProgramInv'
<1>1. arr \in Seq(Nat \ {0})
  BY DEF ProgramInv, WordFreqInv, RankInv, RankTypeOK
<1> QED BY <1>1, WordFreqNextInv, TextStep, HandlesStep DEF ProgramInv

LEMMA ProgramTypes ==
  ASSUME ProgramInv
  PROVE  /\ arr \in Seq(Nat \ {0}) /\ Len(arr) \in Nat
         /\ file \in Seq(Char) /\ Len(file) \in Nat
         /\ ~overrun =>
              /\ counts = [size |-> CELL * INITIAL_COUNTS_SIZE, moves |-> 0]
              /\ Len(arr) <= INITIAL_COUNTS_SIZE
              /\ TableInv(mymap, WordEntry)
              /\ Unstrayed => CellsApart(mymap, Len(arr))
BY TextTypes DEF ProgramInv, WordFreqInv, RankInv, RankTypeOK, HandleInv

\* The mem_handles in the words map point into the counts array (m65tool.c
\* 100-103), each to a cell of its own, through every growth of the map and
\* every failure, until words_seen has passed the end of the array.
THEOREM HandlesPointToCells == ASSUME StrayWords = {} PROVE Spec => []HandlesInArray
<1>1. Init => ProgramInv
  BY ProgramInit
<1>2. ProgramInv /\ [Next]_vars => ProgramInv'
  BY ProgramNext
<1>3. ProgramInv => HandlesInArray
  <2> SUFFICES ASSUME ProgramInv, ~overrun PROVE HandlesInArray
    BY DEF HandlesInArray
  <2>1. /\ counts = [size |-> CELL * INITIAL_COUNTS_SIZE, moves |-> 0]
        /\ CellsApart(mymap, Len(arr)) /\ Len(arr) \in Nat
    BY ProgramTypes DEF Unstrayed
  <2>2. \A s \in Occupied(mymap) : /\ mymap.entries[s].value_handle # NoHandle
                                   /\ mymap.entries[s].value_handle.moves = 0
    BY <2>1, CellHandles DEF CellsApart
  <2> QED BY <2>1, <2>2 DEF HandlesInArray, InArray, CellsApart
<1> QED BY <1>1, <1>2, <1>3, PTL DEF Spec

-----------------------------------------------------------------------------
\* The tally has a mark for each word popped so far.
TotalInv ==
  Running /\ ~overrun /\ Unstrayed =>
    IsFiniteSet(Tally) /\ Cardinality(Tally) = Cardinality(Seen)

LEMMA SeenFinite ==
  ASSUME ProgramInv
  PROVE  IsFiniteSet(Seen) /\ Cardinality(Seen) \in Nat
BY ProgramTypes, WordsFinite, FS_CardinalityType DEF Seen

\* A word that has an entry has its cell in the array.
LEMMA SeenCell ==
  ASSUME ProgramInv, ~overrun, Unstrayed, NEW kh \in Nat, do_get(mymap, kh) # NoHandle
  PROVE  /\ find_entry_pos(mymap, kh) \in Occupied(mymap)
         /\ mymap.entries[find_entry_pos(mymap, kh)].key_hash = kh
         /\ do_get(mymap, kh) = mymap.entries[find_entry_pos(mymap, kh)].value_handle
         /\ do_get(mymap, kh).cell \in 1 .. Len(arr)
<1> DEFINE pos == find_entry_pos(mymap, kh)
<1>1. /\ pos \in Slots(mymap) /\ mymap.entries[pos].key_hash \in {kh, 0}
      /\ CellsApart(mymap, Len(arr)) /\ Len(arr) \in Nat
  BY ProgramTypes, FindEntryPos DEF TableInv, TableOK
<1>2. mymap.entries[pos].key_hash # 0 /\ do_get(mymap, kh) = mymap.entries[pos].value_handle
  BY DEF do_get
<1>3. pos \in Occupied(mymap)
  BY <1>1, <1>2 DEF Occupied
<1>4. mymap.entries[pos].value_handle \in FirstCells(Len(arr))
  BY <1>1, <1>3 DEF CellsApart
<1> QED BY <1>1, <1>2, <1>3, <1>4, CellHandles

\* What counting a word does to the array, and when it is taken into account.
LEMMA WordCounted ==
  ASSUME ProgramInv, WordTaken, Running', ~overrun', Unstrayed'
  PROVE  /\ Running /\ ~overrun /\ Unstrayed /\ Word # <<>> /\ Hash[Word] \in Nat
         /\ \E w \in WordPlaces(file) : /\ w \notin Seen /\ Seen' = Seen \cup {w}
                                         /\ WordAt(file, w) = Word
         /\ \/ /\ Entry(Word).cell \in 1 .. Len(arr)
               /\ arr' = [arr EXCEPT ![Entry(Word).cell] = @ + 1]
            \/ arr' = Append(arr, 1)
<1>1. /\ Popping /\ Word # <<>> /\ UNCHANGED <<file, at>> /\ phase' \in {phase, "failed", "wild"}
      /\ ~overrun /\ Unstrayed
  <2>1. CASE SeenWord
    BY <2>1 DEF SeenWord, readVars, mapVars, Unstrayed
  <2>2. ASSUME NEW can_alloc \in BOOLEAN, NewWord(can_alloc)
        PROVE  /\ Popping /\ Word # <<>> /\ UNCHANGED <<file, at>>
               /\ phase' \in {phase, "failed", "wild"} /\ ~overrun /\ Unstrayed
    BY <2>2 DEF NewWord, Unstrayed
  <2> QED BY <2>1, <2>2 DEF WordTaken
<1>2. Running /\ phase' = phase
  BY <1>1 DEF Running
<1>3. /\ Hash[Word] \in Nat
      /\ \E w \in WordPlaces(file) : /\ w \notin Seen /\ Seen' = Seen \cup {w}
                                      /\ WordAt(file, w) = Word
  BY <1>1, <1>2, PopStep DEF ProgramInv
<1>4. CASE SeenWord
  <2>1. Entry(Word) # NoHandle /\ arr' = [arr EXCEPT ![Entry(Word).cell] = @ + 1]
    BY <1>4 DEF SeenWord
  <2>2. Entry(Word).cell \in 1 .. Len(arr)
    BY <1>1, <1>3, <2>1, SeenCell DEF Entry
  <2> QED BY <1>1, <1>2, <1>3, <2>1, <2>2
<1>5. ASSUME NEW can_alloc \in BOOLEAN, NewWord(can_alloc)
      PROVE  arr' = Append(arr, 1)
  BY <1>2, <1>5 DEF NewWord, Running
<1> QED BY <1>1, <1>2, <1>3, <1>4, <1>5 DEF WordTaken

\* The marks of the tally, and the one that a word adds.
LEMMA TallyMark ==
  ASSUME arr \in Seq(Nat \ {0}), NEW n, NEW c
  PROVE  <<n, c>> \in Tally <=> n \in 1 .. Len(arr) /\ c \in 1 .. arr[n]
BY DEF Tally

LEMMA TallyGrows ==
  ASSUME arr \in Seq(Nat \ {0}), arr' \in Seq(Nat \ {0}),
         \/ \E n \in 1 .. Len(arr) : arr' = [arr EXCEPT ![n] = @ + 1]
         \/ arr' = Append(arr, 1)
  PROVE  \E x : x \notin Tally /\ Tally' = Tally \cup {x}
<1>1. Len(arr) \in Nat /\ \A n \in 1 .. Len(arr) : arr[n] \in Nat
  OBVIOUS
<1>2. ASSUME NEW n \in 1 .. Len(arr), arr' = [arr EXCEPT ![n] = @ + 1]
      PROVE  <<n, arr[n] + 1>> \notin Tally /\ Tally' = Tally \cup {<<n, arr[n] + 1>>}
  <2>1. /\ Len(arr') = Len(arr) /\ arr'[n] = arr[n] + 1
        /\ \A k \in 1 .. Len(arr) : k # n => arr'[k] = arr[k]
    BY <1>2
  <2>2. 1 .. arr'[n] = (1 .. arr[n]) \cup {arr[n] + 1} /\ arr[n] + 1 \notin 1 .. arr[n]
    BY <1>1, <2>1
  <2>3. ASSUME NEW x PROVE x \in Tally' <=> x \in Tally \/ x = <<n, arr[n] + 1>>
    <3>1. x \in Tally' <=> \E k \in 1 .. Len(arr) : x \in {k} \X (1 .. arr'[k])
      BY <2>1 DEF Tally
    <3>2. x \in Tally <=> \E k \in 1 .. Len(arr) : x \in {k} \X (1 .. arr[k])
      BY DEF Tally
    <3>3. x \in {n} \X (1 .. arr'[n]) <=> x \in {n} \X (1 .. arr[n]) \/ x = <<n, arr[n] + 1>>
      BY <2>2
    <3> QED BY <2>1, <3>1, <3>2, <3>3
  <2> QED BY <2>2, <2>3, TallyMark
<1>3. ASSUME arr' = Append(arr, 1)
      PROVE  <<Len(arr) + 1, 1>> \notin Tally /\ Tally' = Tally \cup {<<Len(arr) + 1, 1>>}
  <2> DEFINE n == Len(arr) + 1
  <2>1. /\ Len(arr') = n /\ arr'[n] = 1 /\ n \notin 1 .. Len(arr)
        /\ 1 .. n = (1 .. Len(arr)) \cup {n}
        /\ \A k \in 1 .. Len(arr) : arr'[k] = arr[k]
    BY <1>1, <1>3
  <2> HIDE DEF n
  <2>2. ASSUME NEW x PROVE x \in Tally' <=> x \in Tally \/ x = <<n, 1>>
    <3>1. x \in Tally' <=> \E k \in 1 .. n : x \in {k} \X (1 .. arr'[k])
      BY <2>1 DEF Tally
    <3>2. x \in Tally <=> \E k \in 1 .. Len(arr) : x \in {k} \X (1 .. arr[k])
      BY DEF Tally
    <3>3. x \in {n} \X (1 .. arr'[n]) <=> x = <<n, 1>>
      BY <2>1
    <3> QED BY <2>1, <3>1, <3>2, <3>3
  <2>3. <<n, 1>> \notin Tally
    BY <2>1, TallyMark
  <2> QED BY <2>2, <2>3 DEF n
<1> QED BY <1>2, <1>3

LEMMA TotalStep ==
  ASSUME ProgramInv, TotalInv, [Next]_vars
  PROVE  TotalInv'
<1> SUFFICES ASSUME Running', ~overrun', Unstrayed'
             PROVE  IsFiniteSet(Tally') /\ Cardinality(Tally') = Cardinality(Seen')
  BY DEF TotalInv
<1>1. arr \in Seq(Nat \ {0}) /\ arr' \in Seq(Nat \ {0})
  BY ProgramNext DEF ProgramInv, WordFreqInv, RankInv, RankTypeOK
<1>2. CASE WordTaken
  <2>1. IsFiniteSet(Tally) /\ Cardinality(Tally) = Cardinality(Seen) /\ IsFiniteSet(Seen)
    BY <1>2, WordCounted, SeenFinite DEF TotalInv
  <2>2. PICK x : x \notin Tally /\ Tally' = Tally \cup {x}
    BY <1>1, <1>2, WordCounted, TallyGrows
  <2>3. PICK w : w \notin Seen /\ Seen' = Seen \cup {w}
    BY <1>2, WordCounted
  <2>4. /\ IsFiniteSet(Tally \cup {x})
        /\ Cardinality(Tally \cup {x}) = Cardinality(Tally) + 1
    BY <2>1, <2>2, FS_AddElement
  <2>5. Cardinality(Seen \cup {w}) = Cardinality(Seen) + 1
    BY <2>1, <2>3, FS_AddElement
  <2> QED BY <2>1, <2>2, <2>3, <2>4, <2>5
<1>3. CASE ~WordTaken
  <2>1. Tally' = Tally /\ ~overrun /\ Unstrayed
    BY <1>3, CountsKept DEF Tally, mapVars, Unstrayed
  <2>2. Running /\ Seen' = Seen
    BY <1>3, TextStep DEF ProgramInv
  <2> QED BY <2>1, <2>2 DEF TotalInv
<1> QED BY <1>2, <1>3

\* When the ranking begins, every word has been popped.
LEMMA AllSeen ==
  ASSUME ProgramInv, AllCounted
  PROVE  Running /\ Seen = WordPlaces(file)
<1>1. Running /\ Reached = at /\ at = Len(file)
  BY DEF AllCounted, Running, Reached, InLine, ProgramInv, TextInv
<1> QED BY <1>1, ProgramTypes, WordsFinite DEF Seen

\* Every word of the file is counted once by process_line (m65tool.c 60-108), in
\* whatever cell: none is dropped or counted twice between two reads, at the end
\* of the last line, when words collide or when the map grows.
THEOREM AllWordsCounted == ASSUME StrayWords = {} PROVE Spec => []TotalKept
<1>1. Init => ProgramInv /\ TotalInv
  <2> SUFFICES ASSUME Init PROVE ProgramInv /\ TotalInv
    OBVIOUS
  <2>1. Tally = {} /\ Seen = {}
    BY TextInit DEF Init, Tally
  <2> QED BY <2>1, ProgramInit, FS_EmptySet DEF TotalInv
<1>2. ProgramInv /\ TotalInv /\ [Next]_vars => ProgramInv' /\ TotalInv'
  BY ProgramNext, TotalStep
<1>3. ProgramInv /\ TotalInv => TotalKept
  BY AllSeen DEF TotalInv, TotalKept, Unstrayed
<1> QED BY <1>1, <1>2, <1>3, PTL DEF Spec
-----------------------------------------------------------------------------
\* The counts as long as nothing is lost: m is the map, a the array and P the
\* places in the text t whose words have been counted.  Every entry is where its
\* key is looked for, the keys are the hashes of the words, and the cell of an
\* entry counts the words of its hash.
HashAt(t, w)       == Hash[WordAt(t, w)]
PlacesOf(t, P, kh) == {w \in P : HashAt(t, w) = kh}
KeyHash(m, s)      == m.entries[s].key_hash
CellOf(m, s)       == m.entries[s].value_handle.cell

CellsExact(t, m, a, P) ==
  /\ \A s \in Occupied(m) : find_entry_pos(m, KeyHash(m, s)) = s
  /\ \A s \in Occupied(m) : \E w \in P : HashAt(t, w) = KeyHash(m, s)
  /\ \A w \in P : \E s \in Occupied(m) : HashAt(t, w) = KeyHash(m, s)
  /\ \A s \in Occupied(m) : a[CellOf(m, s)] = Cardinality(PlacesOf(t, P, KeyHash(m, s)))
  /\ Len(a) = Cardinality(Occupied(m))
  /\ \A s \in Slots(m) \ Occupied(m) : m.entries[s].value_handle = NoHandle

\* The hash 0 marks a free slot.
NoZero == \A v \in FileWords : Hash[v] # 0

CellsInv == Running /\ ~overrun /\ ~cut /\ NoZero => CellsExact(file, mymap, arr, Seen)

\* A word more at w, whose hash is kh.
LEMMA PlacesGrow ==
  ASSUME NEW t, NEW P, NEW w, w \notin P, IsFiniteSet(P)
  PROVE  /\ \A kh : HashAt(t, w) # kh => PlacesOf(t, P \cup {w}, kh) = PlacesOf(t, P, kh)
         /\ \A kh : HashAt(t, w) = kh =>
              Cardinality(PlacesOf(t, P \cup {w}, kh)) = Cardinality(PlacesOf(t, P, kh)) + 1
         /\ \A kh : Cardinality(PlacesOf(t, P, kh)) \in Nat
<1>1. \A kh : HashAt(t, w) # kh => PlacesOf(t, P \cup {w}, kh) = PlacesOf(t, P, kh)
  BY DEF PlacesOf
<1>2. ASSUME NEW kh
      PROVE  /\ Cardinality(PlacesOf(t, P, kh)) \in Nat
             /\ HashAt(t, w) = kh =>
                  Cardinality(PlacesOf(t, P \cup {w}, kh)) = Cardinality(PlacesOf(t, P, kh)) + 1
  <2>1. IsFiniteSet(PlacesOf(t, P, kh)) /\ w \notin PlacesOf(t, P, kh)
    BY FS_Subset DEF PlacesOf
  <2>2. HashAt(t, w) = kh => PlacesOf(t, P \cup {w}, kh) = PlacesOf(t, P, kh) \cup {w}
    BY DEF PlacesOf
  <2> QED BY <2>1, <2>2, FS_AddElement, FS_CardinalityType
<1> QED BY <1>1, <1>2

LEMMA SeenWordExact ==
  ASSUME NEW t, NEW m, NEW a \in Seq(Nat \ {0}), NEW P, IsFiniteSet(P),
         CellsApart(m, Len(a)), CellsExact(t, m, a, P), NEW w, w \notin P,
         find_entry_pos(m, HashAt(t, w)) \in Occupied(m),
         KeyHash(m, find_entry_pos(m, HashAt(t, w))) = HashAt(t, w)
  PROVE  CellsExact(t, m,
           [a EXCEPT ![CellOf(m, find_entry_pos(m, HashAt(t, w)))] = @ + 1], P \cup {w})
<1> DEFINE kh == HashAt(t, w)
           pos == find_entry_pos(m, kh)
           Q == P \cup {w}
           b == [a EXCEPT ![CellOf(m, pos)] = @ + 1]
<1>1. Len(a) \in Nat /\ CellOf(m, pos) \in 1 .. Len(a)
  BY CellHandles DEF CellsApart, CellOf
<1>2. /\ Len(b) = Len(a) /\ b[CellOf(m, pos)] = a[CellOf(m, pos)] + 1
      /\ \A n \in 1 .. Len(a) : n # CellOf(m, pos) => b[n] = a[n]
  BY <1>1
<1> HIDE DEF b
<1>3. ASSUME NEW s \in Occupied(m)
      PROVE  b[CellOf(m, s)] = Cardinality(PlacesOf(t, Q, KeyHash(m, s)))
  <2>1. a[CellOf(m, s)] = Cardinality(PlacesOf(t, P, KeyHash(m, s)))
    BY DEF CellsExact
  <2>2. CASE s = pos
    BY <1>2, <2>1, <2>2, PlacesGrow
  <2>3. CASE s # pos
    <3>1. KeyHash(m, s) # kh
      BY <2>3 DEF CellsExact
    <3>2. CellOf(m, s) \in 1 .. Len(a) /\ CellOf(m, s) # CellOf(m, pos)
      BY <1>1, <2>3, CellHandles DEF CellsApart, CellOf
    <3> QED BY <1>2, <2>1, <3>1, <3>2, PlacesGrow
  <2> QED BY <2>2, <2>3
<1>4. CellsExact(t, m, b, Q)
  BY <1>2, <1>3 DEF CellsExact
<1> QED BY <1>4 DEF b

LEMMA NewWordExact ==
  ASSUME NEW t, NEW m, NEW a \in Seq(Nat \ {0}), NEW P, IsFiniteSet(P), TableInv(m, WordEntry),
         CellsApart(m, Len(a)), CellsExact(t, m, a, P), NEW w, w \notin P,
         HashAt(t, w) \in Nat \ {0}, do_get(m, HashAt(t, w)) = NoHandle,
         NEW h, h.cell = Len(a) + 1
  PROVE  CellsExact(t, Stored(Counted(m), find_entry_pos(m, HashAt(t, w)), HashAt(t, w), h),
                    Append(a, 1), P \cup {w})
<1> DEFINE kh == HashAt(t, w)
           pos == find_entry_pos(m, kh)
           Q == P \cup {w}
           b == Append(a, 1)
           m2 == Stored(Counted(m), pos, kh, h)
<1>1. /\ TableOK(m, WordEntry) /\ m.table_size \in Nat \ {0} /\ Len(a) \in Nat
      /\ m.entries \in [Slots(m) -> WordEntry]
  BY DEF TableInv, TableOK
<1>2. pos \in Slots(m) \ Occupied(m) /\ m.entries[pos].key_hash = 0
  BY <1>1, NoEntry
<1>3. /\ m2.table_size = m.table_size /\ Slots(m2) = Slots(m)
      /\ KeyHash(m2, pos) = kh /\ CellOf(m2, pos) = Len(a) + 1
      /\ \A q \in Slots(m) \ {pos} : m2.entries[q] = m.entries[q]
      /\ Occupied(m2) = Occupied(m) \cup {pos}
  <2> HIDE DEF pos, kh
  <2> QED BY <1>1, <1>2, StoredNew DEF KeyHash, CellOf, kh
<1> HIDE DEF m2, kh
<1>4. ASSUME NEW s \in Occupied(m)
      PROVE  /\ s \in Slots(m) /\ s # pos /\ m2.entries[s] = m.entries[s]
             /\ KeyHash(m, s) # 0 /\ KeyHash(m, s) \in Nat
             /\ KeyHash(m, s) # kh
  <2>1. s \in Slots(m) /\ s # pos /\ KeyHash(m, s) # 0
    BY <1>2 DEF Occupied, KeyHash
  <2>2. find_entry_pos(m, KeyHash(m, s)) = s
    BY DEF CellsExact
  <2>3. KeyHash(m, s) \in Nat
    BY <1>1, <2>1 DEF KeyHash, WordEntry
  <2> QED BY <1>3, <2>1, <2>2, <2>3
<1>5. ASSUME NEW s \in Occupied(m2)
      PROVE  find_entry_pos(m2, KeyHash(m2, s)) = s
  <2> DEFINE k == KeyHash(m2, s)
  <2>1. /\ k \in Nat /\ find_entry_pos(m, k) = s /\ s \in Slots(m)
    <3>1. CASE s = pos
      BY <1>2, <1>3, <3>1 DEF kh
    <3>2. CASE s # pos
      <4>1. s \in Occupied(m) /\ k = KeyHash(m, s)
        BY <1>3, <1>4, <3>2 DEF KeyHash
      <4> QED BY <1>4, <4>1 DEF CellsExact
    <3> QED BY <3>1, <3>2
  <2>2. \A q \in Slots(m) :
           m2.entries[q].key_hash \in {k, 0} => m.entries[q].key_hash \in {k, 0}
    BY <1>2, <1>3
  <2>3. m2.entries[s].key_hash \in {k, 0}
    BY DEF KeyHash
  <2> HIDE DEF k
  <2>4. find_entry_pos(m2, k) = find_entry_pos(m, k)
    BY <1>1, <1>3, <2>1, <2>2, <2>3, ProbeKept
  <2> QED BY <2>1, <2>4 DEF k
<1>6. /\ \A s \in Occupied(m2) : \E v \in Q : HashAt(t, v) = KeyHash(m2, s)
      /\ \A v \in Q : \E s \in Occupied(m2) : HashAt(t, v) = KeyHash(m2, s)
  BY <1>3, <1>4 DEF CellsExact, KeyHash, kh
<1>7. /\ Len(b) = Len(a) + 1 /\ b[Len(a) + 1] = 1
      /\ \A n \in 1 .. Len(a) : b[n] = a[n]
  BY <1>1
<1>8. ASSUME NEW s \in Occupied(m2)
      PROVE  b[CellOf(m2, s)] = Cardinality(PlacesOf(t, Q, KeyHash(m2, s)))
  <2>1. CASE s = pos
    <3>1. PlacesOf(t, P, kh) = {}
      BY <1>4 DEF CellsExact, PlacesOf
    <3>2. Cardinality(PlacesOf(t, Q, kh)) = Cardinality(PlacesOf(t, P, kh)) + 1
      BY PlacesGrow DEF kh
    <3>3. Cardinality(PlacesOf(t, Q, kh)) = 1
      BY <3>1, <3>2, FS_EmptySet
    <3> QED BY <1>3, <1>7, <2>1, <3>3
  <2>2. CASE s # pos
    <3>1. /\ s \in Occupied(m) /\ KeyHash(m2, s) = KeyHash(m, s)
          /\ CellOf(m2, s) = CellOf(m, s) /\ KeyHash(m, s) # kh
      BY <1>3, <1>4, <2>2 DEF KeyHash, CellOf
    <3>2. CellOf(m, s) \in 1 .. Len(a)
      BY <1>1, <3>1, CellHandles DEF CellsApart, CellOf
    <3>3. a[CellOf(m, s)] = Cardinality(PlacesOf(t, P, KeyHash(m, s)))
      BY <3>1 DEF CellsExact
    <3>4. PlacesOf(t, Q, KeyHash(m, s)) = PlacesOf(t, P, KeyHash(m, s))
      BY <3>1, PlacesGrow DEF kh
    <3> QED BY <1>7, <3>1, <3>2, <3>3, <3>4
  <2> QED BY <2>1, <2>2
<1>9. Len(b) = Cardinality(Occupied(m2))
  <2>1. IsFiniteSet(Occupied(m)) /\ Cardinality(Occupied(m)) = Len(a)
    BY <1>1, OccupiedFinite DEF CellsExact
  <2>2. Cardinality(Occupied(m) \cup {pos}) = Cardinality(Occupied(m)) + 1
    BY <1>2, <2>1, FS_AddElement
  <2> QED BY <1>3, <1>7, <2>1, <2>2
<1>10. \A s \in Slots(m2) \ Occupied(m2) : m2.entries[s].value_handle = NoHandle
  BY <1>3 DEF CellsExact
<1> HIDE DEF b, Q
<1>11. CellsExact(t, m2, b, Q)
  BY <1>5, <1>6, <1>8, <1>9, <1>10 DEF CellsExact
<1> QED BY <1>11 DEF b, Q, m2, kh

LEMMA CellsStep ==
  ASSUME ProgramInv, CellsInv, [Next]_vars
  PROVE  CellsInv'
<1> SUFFICES ASSUME Running', ~overrun', ~cut', NoZero'
             PROVE  CellsExact(file', mymap', arr', Seen')
  BY DEF CellsInv
<1>1. file' = file /\ NoZero /\ Unstrayed'
  BY TextStep DEF ProgramInv, NoZero, FileWords, Unstrayed
<1>2. CASE WordTaken
  <2> DEFINE kh == Hash[Word]
             pos == find_entry_pos(mymap, kh)
  <2>1. /\ Running /\ ~overrun /\ Unstrayed /\ kh \in Nat
    BY <1>1, <1>2, WordCounted
  <2>2. PICK w \in WordPlaces(file) :
          w \notin Seen /\ Seen' = Seen \cup {w} /\ WordAt(file, w) = Word
    BY <1>1, <1>2, WordCounted
  <2>3. ~cut
    BY <1>2 DEF WordTaken, SeenWord, NewWord, mapVars
  <2>4. /\ CellsExact(file, mymap, arr, Seen) /\ IsFiniteSet(Seen)
        /\ arr \in Seq(Nat \ {0}) /\ Len(arr) \in Nat
        /\ TableInv(mymap, WordEntry) /\ CellsApart(mymap, Len(arr))
    BY <1>1, <2>1, <2>3, SeenFinite, ProgramTypes DEF CellsInv
  <2>5. HashAt(file, w) = kh /\ kh # 0
    BY <1>1, <2>2 DEF HashAt, NoZero, FileWords
  <2>6. CASE SeenWord
    <3>1. /\ do_get(mymap, kh) # NoHandle /\ mymap' = mymap
          /\ arr' = [arr EXCEPT ![do_get(mymap, kh).cell] = @ + 1]
      BY <2>6 DEF SeenWord, Entry, mapVars
    <3>2. /\ pos \in Occupied(mymap) /\ KeyHash(mymap, pos) = kh
          /\ do_get(mymap, kh).cell = CellOf(mymap, pos)
      BY <2>1, <3>1, SeenCell DEF KeyHash, CellOf
    <3> QED BY <1>1, <2>2, <2>4, <2>5, <3>1, <3>2, SeenWordExact
  <2>7. ASSUME NEW can_alloc \in BOOLEAN, NewWord(can_alloc)
        PROVE  CellsExact(file', mymap', arr', Seen')
    <3>1. phase' = phase /\ phase \notin {"failed", "wild"}
      BY <1>2, <2>1, <2>7 DEF Running, NewWord
    <3>2. PICK h : /\ h.cell = Len(arr) + 1
                   /\ \E o \in do_set(mymap, kh, h, can_alloc) :
                        mymap' = o.map /\ o.ret /\ o.resize # "grew" /\ arr' = Append(arr, 1)
      BY <2>7, <3>1 DEF NewWord
    <3>3. do_get(mymap, kh) = NoHandle
      BY <2>7 DEF NewWord, Entry
    <3>4. IsFree(mymap, pos)
      BY <2>1, <2>4, <3>3, NoEntry
    <3>5. mymap' = Stored(Counted(mymap), pos, kh, h)
      BY <3>2, <3>4, SetInPlace DEF Outcome
    <3> QED BY <1>1, <2>1, <2>2, <2>4, <2>5, <3>2, <3>3, <3>5, NewWordExact
  <2> QED BY <1>2, <2>6, <2>7 DEF WordTaken
<1>3. CASE ~WordTaken
  <2>1. UNCHANGED <<arr, mymap, overrun, cut>>
    BY <1>3, CountsKept DEF mapVars
  <2>2. Running /\ Seen' = Seen
    BY <1>3, TextStep DEF ProgramInv
  <2> QED BY <1>1, <2>1, <2>2 DEF CellsInv
<1> QED BY <1>2, <1>3

LEMMA CellsInit == Init => CellsInv
<1> SUFFICES ASSUME Init PROVE CellsExact(file, mymap, arr, Seen)
  BY DEF CellsInv
<1>1. Seen = {} /\ mymap = EmptyMap /\ arr = <<>> /\ Len(arr) = 0
  BY TextInit DEF Init
<1>2. /\ Occupied(EmptyMap) = {}
      /\ \A s \in Slots(EmptyMap) : EmptyMap.entries[s].value_handle = NoHandle
  BY MapTableAssumption DEF Occupied, Slots, EmptyMap, Cleared, EmptyEntry
<1> QED BY <1>1, <1>2, FS_EmptySet DEF CellsExact

\* When nothing is lost and the words do not collide, the slots of the map and
\* the words of the file are the same, and a word's cell is its count.
WordSlot == [v \in FileWords |-> find_entry_pos(mymap, Hash[v])]

Faithful == AllCounted /\ HashesApart /\ ~cut /\ ~overrun

LEMMA SlotsAreWords ==
  ASSUME ProgramInv, CellsInv, Faithful
  PROVE  /\ WordSlot \in Injection(FileWords, Occupied(mymap))
         /\ WordSlot \in Surjection(FileWords, Occupied(mymap))
         /\ \A v \in FileWords : /\ Entry(v) = mymap.entries[WordSlot[v]].value_handle
                                 /\ Entry(v) # NoHandle
                                 /\ arr[CellOf(mymap, WordSlot[v])] = Times(v)
         /\ Len(arr) = Cardinality(Occupied(mymap)) /\ IsFiniteSet(Occupied(mymap))
<1> DEFINE P == WordPlaces(file)
           O == Occupied(mymap)
<1>1. /\ CellsExact(file, mymap, arr, P)
      /\ CellsApart(mymap, Len(arr)) /\ Len(arr) \in Nat /\ TableInv(mymap, WordEntry)
  BY AllSeen, ProgramTypes DEF Faithful, CellsInv, NoZero, HashesApart, Unstrayed
<1>2. IsFiniteSet(O)
  BY <1>1, OccupiedFinite DEF TableInv, TableOK
<1>3. ASSUME NEW v \in FileWords
      PROVE  /\ WordSlot[v] \in O /\ KeyHash(mymap, WordSlot[v]) = Hash[v]
             /\ WordSlot[v] = find_entry_pos(mymap, Hash[v])
  <2>1. PICK w \in P : v = WordAt(file, w)
    BY DEF FileWords
  <2>2. PICK s \in O : Hash[v] = KeyHash(mymap, s)
    BY <1>1, <2>1 DEF CellsExact, HashAt
  <2>3. find_entry_pos(mymap, Hash[v]) = s
    BY <1>1, <2>2 DEF CellsExact
  <2> QED BY <2>2, <2>3 DEF WordSlot
<1>4. ASSUME NEW v \in FileWords
      PROVE  /\ Entry(v) = mymap.entries[WordSlot[v]].value_handle
             /\ Entry(v) # NoHandle
             /\ arr[CellOf(mymap, WordSlot[v])] = Times(v)
  <2>1. mymap.entries[WordSlot[v]].key_hash # 0
    BY <1>3 DEF Occupied
  <2>2. Entry(v) = mymap.entries[WordSlot[v]].value_handle
    BY <1>3, <2>1 DEF Entry, do_get
  <2>3. Entry(v) # NoHandle
    BY <1>1, <1>3, <2>2, CellHandles DEF CellsApart
  <2>4. PlacesOf(file, P, Hash[v]) = {w \in P : WordAt(file, w) = v}
    BY DEF PlacesOf, HashAt, Faithful, HashesApart, FileWords
  <2>5. arr[CellOf(mymap, WordSlot[v])] = Cardinality(PlacesOf(file, P, Hash[v]))
    BY <1>1, <1>3 DEF CellsExact
  <2> QED BY <2>2, <2>3, <2>4, <2>5 DEF Times
<1>5. WordSlot \in Injection(FileWords, O)
  <2>1. WordSlot \in [FileWords -> O]
    BY <1>3 DEF WordSlot
  <2>2. \A u, v \in FileWords : WordSlot[u] = WordSlot[v] => u = v
    BY <1>3 DEF Faithful, HashesApart
  <2> QED BY <2>1, <2>2 DEF Injection, IsInjective
<1>6. WordSlot \in Surjection(FileWords, O)
  <2>1. ASSUME NEW s \in O PROVE \E v \in FileWords : WordSlot[v] = s
    <3>1. PICK w \in P : HashAt(file, w) = KeyHash(mymap, s)
      BY <1>1 DEF CellsExact
    <3>2. find_entry_pos(mymap, KeyHash(mymap, s)) = s
      BY <1>1 DEF CellsExact
    <3>3. WordAt(file, w) \in FileWords
      BY DEF FileWords
    <3> QED BY <3>1, <3>2, <3>3 DEF WordSlot, HashAt
  <2>2. WordSlot \in [FileWords -> O]
    BY <1>3 DEF WordSlot
  <2> QED BY <2>1, <2>2 DEF Surjection
<1>7. Len(arr) = Cardinality(O)
  BY <1>1 DEF CellsExact
<1> QED BY <1>2, <1>4, <1>5, <1>6, <1>7

\* As long as the map loses no entry to a resize and the words do not collide,
\* word_freq (m65tool.c 79-108) counts exactly: a cell for each word of the file,
\* and in it the number of the word's occurrences on all the lines together.
THEOREM CountsAreExact == Spec => []CountsExact
<1>1. Init => ProgramInv /\ CellsInv
  BY ProgramInit, CellsInit
<1>2. ProgramInv /\ CellsInv /\ [Next]_vars => ProgramInv' /\ CellsInv'
  BY ProgramNext, CellsStep
<1>3. ProgramInv /\ CellsInv => CountsExact
  <2> SUFFICES ASSUME ProgramInv, CellsInv, Faithful
               PROVE  /\ Len(arr) = Cardinality(FileWords)
                      /\ \A w \in FileWords : Entry(w) # NoHandle /\ arr[Entry(w).cell] = Times(w)
    BY DEF CountsExact, Faithful
  <2>1. Cardinality(FileWords) = Cardinality(Occupied(mymap))
    BY SlotsAreWords, FS_Injection
  <2> QED BY <2>1, SlotsAreWords DEF CellOf
<1> QED BY <1>1, <1>2, <1>3, PTL DEF Spec

-----------------------------------------------------------------------------
\* The slots the last loop has been at: those in front of its iterator.
Visited ==
  IF map_iter_done(it, Handles) THEN Occupied(mymap) ELSE {s \in Occupied(mymap) : s < it.pos}

WithCount(S, c) == {s \in S : arr[CellOf(mymap, s)] = c}

\* The matches of the slots in S.
Matches(S, matches, freq) ==
  matches = [k \in Places |-> Cardinality(WithCount(S, freq[k]))]

MatchInv ==
  /\ phase \notin {"match", "printed"} =>
       most_freq_matches = NoRanking /\ least_freq_matches = NoRanking
  /\ phase = "printed" => map_iter_done(it, Handles)
  /\ phase \in {"match", "printed"} /\ ~cut /\ ~overrun /\ NoZero =>
       /\ ~map_iter_done(it, Handles) => AtSlot(mymap, it) /\ it.pos \in Occupied(mymap)
       /\ Matches(Visited, most_freq_matches, most_freq)
       /\ Matches(Visited, least_freq_matches, least_freq)

\* While nothing is lost, the entries whose value is usable are all of them.
LEMMA UsableSlots ==
  ASSUME ProgramInv, CellsInv, Running, ~overrun, ~cut, NoZero
  PROVE  /\ mymap.table_size \in Nat \ {0} /\ IsFiniteSet(Occupied(mymap))
         /\ NoHandle \notin Handles
         /\ Occupied(mymap) = {s \in Slots(mymap) : mymap.entries[s].value_handle \in Handles}
<1>1. /\ CellsExact(file, mymap, arr, Seen) /\ Len(arr) \in Nat
      /\ counts.moves = 0 /\ CellsApart(mymap, Len(arr)) /\ TableInv(mymap, WordEntry)
  BY ProgramTypes DEF CellsInv, Unstrayed
<1>2. mymap.table_size \in Nat \ {0}
  BY <1>1 DEF TableInv, TableOK
<1>3. Handles = FirstCells(Len(arr))
  <2>1. 0 .. counts.moves = {0}
    BY <1>1
  <2> QED BY <2>1 DEF Handles, FirstCells
<1>4. NoHandle \notin Handles
  BY <1>1, <1>3, CellHandles
<1>5. \A s \in Occupied(mymap) : s \in Slots(mymap) /\ mymap.entries[s].value_handle \in Handles
  BY <1>1, <1>3 DEF CellsApart, Occupied
<1>6. \A s \in Slots(mymap) : mymap.entries[s].value_handle \in Handles => s \in Occupied(mymap)
  BY <1>1, <1>4 DEF CellsExact
<1> QED BY <1>2, <1>4, <1>5, <1>6, OccupiedFinite

\* One slot more.
LEMMA MatchedSlot ==
  ASSUME NEW S, IsFiniteSet(S), NEW s, s \notin S, NEW matches, NEW freq, Matches(S, matches, freq)
  PROVE  Matches(S \cup {s}, Matched(matches, freq, arr[CellOf(mymap, s)]), freq)
<1> DEFINE c == arr[CellOf(mymap, s)]
<1>1. ASSUME NEW k \in Places
      PROVE  (IF freq[k] = c THEN matches[k] + 1 ELSE matches[k])
               = Cardinality(WithCount(S \cup {s}, freq[k]))
  <2>1. matches[k] = Cardinality(WithCount(S, freq[k]))
    BY DEF Matches
  <2>2. IsFiniteSet(WithCount(S, freq[k])) /\ s \notin WithCount(S, freq[k])
    BY FS_Subset DEF WithCount
  <2>3. CASE freq[k] = c
    <3>1. WithCount(S \cup {s}, freq[k]) = WithCount(S, freq[k]) \cup {s}
      BY <2>3 DEF WithCount
    <3> QED BY <2>1, <2>2, <2>3, <3>1, FS_AddElement
  <2>4. CASE freq[k] # c
    <3>1. WithCount(S \cup {s}, freq[k]) = WithCount(S, freq[k])
      BY <2>4 DEF WithCount
    <3> QED BY <2>1, <2>4, <3>1
  <2> QED BY <2>3, <2>4
<1> HIDE DEF c
<1>2. Matched(matches, freq, c) = [k \in Places |-> Cardinality(WithCount(S \cup {s}, freq[k]))]
  BY <1>1 DEF Matched
<1> QED BY <1>2 DEF Matches, c

LEMMA FirstMatchInv ==
  ASSUME ProgramInv, CellsInv, MatchInv, FirstMatch
  PROVE  MatchInv'
<1>1. /\ phase = "rank" /\ phase' = "match" /\ it' = map_first_value_iter(mymap, Handles)
      /\ UNCHANGED <<file, arr, mymap, counts, cut, overrun, most_freq, least_freq>>
      /\ most_freq_matches' = NoRanking /\ least_freq_matches' = NoRanking
  BY DEF FirstMatch, MatchInv, tableVars, mapVars, rankVars
<1>2. Handles' = Handles /\ Running /\ NoZero' = NoZero
  BY <1>1 DEF Handles, Running, NoZero, FileWords
<1> SUFFICES ASSUME ~cut, ~overrun, NoZero
             PROVE  /\ ~map_iter_done(it', Handles) => AtSlot(mymap, it') /\ it'.pos \in Occupied(mymap)
                    /\ Visited' = {}
  <2>1. \A freq : Matches({}, NoRanking, freq)'
    BY FS_EmptySet DEF Matches, WithCount, NoRanking
  <2>2. ~(cut' \/ overrun' \/ ~NoZero') => ~cut /\ ~overrun /\ NoZero
    BY <1>1, <1>2
  <2> QED BY <1>1, <1>2, <2>1, <2>2 DEF MatchInv
<1>3. /\ mymap.table_size \in Nat \ {0} /\ NoHandle \notin Handles
      /\ Occupied(mymap) = {s \in Slots(mymap) : mymap.entries[s].value_handle \in Handles}
  BY <1>2, UsableSlots
<1>4. Visited' = IF map_iter_done(it', Handles) THEN Occupied(mymap)
                 ELSE {s \in Occupied(mymap) : s < it'.pos}
  BY <1>1, <1>2 DEF Visited
<1>5. \/ /\ it' = DoneIter
         /\ \A q \in Slots(mymap) : mymap.entries[q].value_handle \notin Handles
      \/ /\ AtSlot(mymap, it') /\ it'.value_handle \in Handles
         /\ \A q \in Slots(mymap) : mymap.entries[q].value_handle \in Handles => it'.pos <= q
  BY <1>1, <1>3, FirstIter
<1>6. CASE it' = DoneIter /\ \A q \in Slots(mymap) : mymap.entries[q].value_handle \notin Handles
  BY <1>3, <1>4, <1>6 DEF map_iter_done, DoneIter
<1>7. CASE /\ AtSlot(mymap, it') /\ it'.value_handle \in Handles
           /\ \A q \in Slots(mymap) : mymap.entries[q].value_handle \in Handles => it'.pos <= q
  BY <1>3, <1>4, <1>7 DEF map_iter_done, AtSlot, Slots
<1> QED BY <1>5, <1>6, <1>7

LEMMA MatchStepInv ==
  ASSUME ProgramInv, CellsInv, MatchInv, Match
  PROVE  MatchInv'
<1>1. /\ phase = "match" /\ phase' = phase /\ it' = map_next_value_iter(mymap, it, Handles)
      /\ ~map_iter_done(it, Handles)
      /\ UNCHANGED <<file, arr, mymap, counts, cut, overrun, most_freq, least_freq>>
      /\ most_freq_matches' = Matched(most_freq_matches, most_freq, arr[it.value_handle.cell])
      /\ least_freq_matches' = Matched(least_freq_matches, least_freq, arr[it.value_handle.cell])
  BY DEF Match, readVars, tableVars, mapVars, rankVars
<1>2. Handles' = Handles /\ Running /\ NoZero' = NoZero
  BY <1>1 DEF Handles, Running, NoZero, FileWords
<1> SUFFICES ASSUME ~cut, ~overrun, NoZero
             PROVE  /\ ~map_iter_done(it', Handles) => AtSlot(mymap, it') /\ it'.pos \in Occupied(mymap)
                    /\ Matches(Visited', most_freq_matches', most_freq)
                    /\ Matches(Visited', least_freq_matches', least_freq)
  BY <1>1, <1>2 DEF MatchInv, Matches, WithCount
<1>3. /\ mymap.table_size \in Nat \ {0} /\ NoHandle \notin Handles /\ IsFiniteSet(Occupied(mymap))
      /\ Occupied(mymap) = {s \in Slots(mymap) : mymap.entries[s].value_handle \in Handles}
  BY <1>2, UsableSlots
<1>4. Visited' = IF map_iter_done(it', Handles) THEN Occupied(mymap)
                 ELSE {s \in Occupied(mymap) : s < it'.pos}
  BY <1>1, <1>2 DEF Visited
<1>5. /\ AtSlot(mymap, it) /\ it.pos \in Occupied(mymap)
      /\ Matches(Visited, most_freq_matches, most_freq)
      /\ Matches(Visited, least_freq_matches, least_freq)
      /\ Visited = {s \in Occupied(mymap) : s < it.pos}
  BY <1>1 DEF MatchInv, Visited
<1>6. it.pos \in Nat /\ \A s \in Occupied(mymap) : s \in Nat
  BY <1>3, <1>5 DEF Slots
<1>7. it.value_handle.cell = CellOf(mymap, it.pos)
  BY <1>5 DEF AtSlot, CellOf
<1>8. /\ ~map_iter_done(it', Handles) => AtSlot(mymap, it') /\ it'.pos \in Occupied(mymap)
      /\ Visited' = Visited \cup {it.pos}
  <2>1. \/ /\ it' = DoneIter
           /\ \A q \in Slots(mymap) : q > it.pos => mymap.entries[q].value_handle \notin Handles
        \/ /\ AtSlot(mymap, it') /\ it'.pos > it.pos /\ it'.value_handle \in Handles
           /\ \A q \in Slots(mymap) :
                q > it.pos /\ mymap.entries[q].value_handle \in Handles => it'.pos <= q
    BY <1>1, <1>3, NextIter
  <2>2. CASE /\ it' = DoneIter
             /\ \A q \in Slots(mymap) : q > it.pos => mymap.entries[q].value_handle \notin Handles
    <3>1. map_iter_done(it', Handles)
      BY <1>3, <2>2 DEF map_iter_done, DoneIter
    <3>2. \A s \in Occupied(mymap) : s < it.pos \/ s = it.pos
      BY <1>3, <1>6, <2>2
    <3> QED BY <1>4, <1>5, <3>1, <3>2
  <2>3. CASE /\ AtSlot(mymap, it') /\ it'.pos > it.pos /\ it'.value_handle \in Handles
             /\ \A q \in Slots(mymap) :
                  q > it.pos /\ mymap.entries[q].value_handle \in Handles => it'.pos <= q
    <3>1. ~map_iter_done(it', Handles) /\ it'.pos \in Occupied(mymap)
      BY <1>3, <2>3 DEF map_iter_done, AtSlot
    <3>2. it'.pos \in Nat
      BY <1>6, <3>1
    <3>3. \A s \in Occupied(mymap) : s < it'.pos <=> s < it.pos \/ s = it.pos
      BY <1>3, <1>6, <2>3, <3>2
    <3> QED BY <1>4, <1>5, <2>3, <3>1, <3>3
  <2> QED BY <2>1, <2>2, <2>3
<1>9. it.pos \notin Visited /\ IsFiniteSet(Visited)
  BY <1>3, <1>5, <1>6, FS_Subset
<1> QED BY <1>1, <1>5, <1>7, <1>8, <1>9, MatchedSlot

LEMMA MatchInvNext ==
  ASSUME ProgramInv, CellsInv, MatchInv, [Next]_vars
  PROVE  MatchInv'
<1>1. CASE PrintResults \/ UNCHANGED vars
  <2>1. /\ phase' \in {"match", "printed"} <=> phase \in {"match", "printed"}
        /\ UNCHANGED <<file, arr, mymap, counts, cut, overrun, most_freq, least_freq, it,
                       most_freq_matches, least_freq_matches>>
    BY <1>1 DEF PrintResults, vars, ownVars, tableVars, mapVars, rankVars, matchVars
  <2>2. Handles' = Handles /\ NoZero' = NoZero
    BY <2>1 DEF Handles, NoZero, FileWords
  <2>3. Visited' = Visited
    BY <2>1, <2>2 DEF Visited
  <2>4. phase' = "printed" => map_iter_done(it', Handles')
    BY <1>1, <2>1, <2>2 DEF PrintResults, vars, ownVars, MatchInv
  <2> QED BY <2>1, <2>2, <2>3, <2>4 DEF MatchInv, Matches, WithCount
<1>2. CASE ReadChar \/ ReadFails \/ ReadNewline \/ ReadEof \/ LineEnds \/ EmptyWord \/ CountsFail
           \/ Rank
  <2>1. /\ phase \notin {"match", "printed"} /\ phase' \notin {"match", "printed"}
        /\ UNCHANGED <<most_freq_matches, least_freq_matches>>
    BY <1>2 DEF ReadChar, ReadFails, Exit, ReadNewline, ReadEof, LastLine, LineEnds, EmptyWord,
       CountsFail, Rank, Popping, ownVars, matchVars, readVars
  <2> QED BY <2>1 DEF MatchInv
<1>3. CASE WordTaken
  <2>1. /\ phase \notin {"match", "printed"} /\ phase' \notin {"match", "printed"}
        /\ UNCHANGED <<most_freq_matches, least_freq_matches>>
    <3>1. CASE SeenWord
      BY <3>1 DEF SeenWord, Popping, matchVars, readVars
    <3>2. ASSUME NEW can_alloc \in BOOLEAN, NewWord(can_alloc)
          PROVE  /\ phase \notin {"match", "printed"} /\ phase' \notin {"match", "printed"}
                 /\ UNCHANGED <<most_freq_matches, least_freq_matches>>
      BY <3>2 DEF NewWord, Popping, matchVars
    <3> QED BY <1>3, <3>1, <3>2 DEF WordTaken
  <2> QED BY <2>1 DEF MatchInv
<1> QED BY <1>1, <1>2, <1>3, FirstMatchInv, MatchStepInv DEF Next, WordTaken

\* A one-to-one correspondence of two sets, for the parts of them that agree.
LEMMA SamePart ==
  ASSUME NEW S, NEW T, NEW f \in Injection(S, T), f \in Surjection(S, T), IsFiniteSet(T),
         NEW A \in SUBSET S, NEW B \in SUBSET T, \A x \in S : x \in A <=> f[x] \in B
  PROVE  Cardinality(A) = Cardinality(B)
<1> DEFINE g == [x \in A |-> f[x]]
<1>1. /\ f \in [S -> T] /\ \A x, y \in S : f[x] = f[y] => x = y
      /\ \A y \in T : \E x \in S : f[x] = y
  BY DEF Injection, IsInjective, Surjection
<1>2. g \in [A -> B] /\ \A x \in A : g[x] = f[x]
  BY <1>1
<1> HIDE DEF g
<1>3. g \in Injection(A, B)
  BY <1>1, <1>2 DEF Injection, IsInjective
<1>4. g \in Surjection(A, B)
  <2>1. ASSUME NEW y \in B PROVE \E x \in A : g[x] = y
    <3>1. PICK x \in S : f[x] = y
      BY <1>1
    <3>2. x \in A
      BY <3>1
    <3> QED BY <1>2, <3>1, <3>2
  <2> QED BY <1>2, <2>1 DEF Surjection
<1>5. IsFiniteSet(B)
  BY FS_Subset
<1> QED BY <1>3, <1>4, <1>5, FS_Injection

\* What word_freq prints behind a ranked count (m65tool.c 188-213) is the number
\* of the file's words that occur as often, if nothing was lost on the way.
THEOREM MatchesAreRight == Spec => []MatchesAgree
<1>1. Init => ProgramInv /\ CellsInv /\ MatchInv
  BY ProgramInit, CellsInit DEF Init, MatchInv
<1>2. ProgramInv /\ CellsInv /\ MatchInv /\ [Next]_vars => ProgramInv' /\ CellsInv' /\ MatchInv'
  BY ProgramNext, CellsStep, MatchInvNext
<1>3. ProgramInv /\ CellsInv /\ MatchInv => MatchesAgree
  <2> SUFFICES ASSUME ProgramInv, CellsInv, MatchInv, phase = "printed", Faithful
               PROVE  \A k \in Places :
                        /\ most_freq_matches[k] =
                             Cardinality({w \in FileWords : Times(w) = most_freq[k]})
                        /\ least_freq_matches[k] =
                             Cardinality({w \in FileWords : Times(w) = least_freq[k]})
    BY DEF MatchesAgree, Faithful, AllCounted
  <2>1. \A c : Cardinality({w \in FileWords : Times(w) = c})
                = Cardinality(WithCount(Occupied(mymap), c))
    <3> TAKE c
    <3> DEFINE A == {w \in FileWords : Times(w) = c}
               B == WithCount(Occupied(mymap), c)
    <3>1. \A x \in FileWords : x \in A <=> WordSlot[x] \in B
      BY SlotsAreWords DEF WithCount, Injection
    <3>2. A \in SUBSET FileWords /\ B \in SUBSET Occupied(mymap)
      BY DEF WithCount
    <3> HIDE DEF A, B
    <3>3. Cardinality(A) = Cardinality(B)
      BY <3>1, <3>2, SlotsAreWords, SamePart
    <3> QED BY <3>3 DEF A, B
  <2>2. map_iter_done(it, Handles)
    BY DEF MatchInv
  <2>3. /\ Matches(Occupied(mymap), most_freq_matches, most_freq)
        /\ Matches(Occupied(mymap), least_freq_matches, least_freq)
    BY <2>2 DEF MatchInv, Visited, Faithful, NoZero, HashesApart
  <2> QED BY <2>1, <2>3 DEF Matches
<1> QED BY <1>1, <1>2, <1>3, PTL DEF Spec
=============================================================================
