------------------------------- MODULE Ranking -------------------------------
(***************************************************************************)
(* The two rankings of word_freq (src/m65tool/m65tool.c 160-186): each     *)
(* count is carried along the TOP places of most_freq, then of least_freq, *)
(* and changes places with the counts it ranks before.  One step is one    *)
(* round of an inner loop.                                                 *)
(***************************************************************************)
EXTENDS Integers, Sequences

CONSTANT TOP   \* places of a ranking (5 in the code)

ASSUME RankingAssumption == TOP \in Nat \ {0}

VARIABLES arr,         \* the counts, one for each word seen
          rank,        \* what comes next: "fetch" a count, "most", "least", "ranked"
          i, p,        \* the loops' indices
          count,       \* the count carried along
          most_freq, least_freq

rankVars == <<arr, rank, i, p, count, most_freq, least_freq>>

Places == 0 .. TOP - 1

NoRanking == [k \in Places |-> 0]

RankInit ==
  /\ arr \in Seq(Nat \ {0})
  /\ rank = "fetch" /\ i = 0 /\ p = 0 /\ count = 0
  /\ most_freq = NoRanking /\ least_freq = NoRanking

-----------------------------------------------------------------------------
Carry(side, c) == rank' = side /\ p' = 0 /\ count' = c

Fetch ==
  /\ rank = "fetch" /\ i < Len(arr)
  /\ Carry("most", arr[i + 1])
  /\ UNCHANGED <<arr, i, most_freq, least_freq>>

\* Mutant of MostStops: a count that has its place already is carried on.
MostStopsLate == p = TOP

\* The loop breaks at an equal count, or runs out of places.
MostStops == p = TOP \/ (p < TOP /\ most_freq[p] = count)

MostRound ==
  /\ rank = "most" /\ ~MostStops
  /\ IF most_freq[p] < count
     THEN /\ most_freq' = [most_freq EXCEPT ![p] = count]
          /\ count' = most_freq[p]
     ELSE UNCHANGED <<most_freq, count>>
  /\ p' = p + 1
  /\ UNCHANGED <<arr, rank, i, least_freq>>

\* The count is fetched again for the second ranking.
MostEnds ==
  /\ rank = "most" /\ MostStops
  /\ Carry("least", arr[i + 1])
  /\ UNCHANGED <<arr, i, most_freq, least_freq>>

LeastStops == p = TOP \/ (p < TOP /\ least_freq[p] = count)

\* Mutant of RanksBefore: an empty place is a small count.
RanksBeforeFilled(c) == least_freq[p] > c

\* An empty place is taken by any count.
RanksBefore(c) == least_freq[p] > c \/ least_freq[p] = 0

LeastRound ==
  /\ rank = "least" /\ ~LeastStops
  /\ IF RanksBefore(count)
     THEN /\ least_freq' = [least_freq EXCEPT ![p] = count]
          /\ count' = least_freq[p]
     ELSE UNCHANGED <<least_freq, count>>
  /\ p' = p + 1
  /\ UNCHANGED <<arr, rank, i, most_freq>>

LeastEnds ==
  /\ rank = "least" /\ LeastStops
  /\ i' = i + 1 /\ Carry("fetch", 0)
  /\ UNCHANGED <<arr, most_freq, least_freq>>

RankEnds ==
  /\ rank = "fetch" /\ i = Len(arr)
  /\ rank' = "ranked"
  /\ UNCHANGED <<arr, i, p, count, most_freq, least_freq>>

RankNext == Fetch \/ MostRound \/ MostEnds \/ LeastRound \/ LeastEnds \/ RankEnds

RankSpec == RankInit /\ [][RankNext]_rankVars

-----------------------------------------------------------------------------
\* most_freq holds the TOP largest distinct counts, the largest first: its
\* entries are counts or empty, they descend up to the first empty place, and a
\* count that is not among them is below all of them.
MostRanked ==
  rank = "ranked" =>
    /\ \A k \in Places : most_freq[k] = 0 \/ \E n \in 1 .. Len(arr) : most_freq[k] = arr[n]
    /\ \A k, m \in Places : k < m => most_freq[k] > most_freq[m] \/ most_freq[m] = 0
    /\ \A n \in 1 .. Len(arr) : \/ \E k \in Places : most_freq[k] = arr[n]
                                \/ \A k \in Places : most_freq[k] > arr[n]

\* least_freq holds the TOP smallest distinct counts, the smallest first.
LeastRanked ==
  rank = "ranked" =>
    /\ \A k \in Places : least_freq[k] = 0 \/ \E n \in 1 .. Len(arr) : least_freq[k] = arr[n]
    /\ \A k, m \in Places :
         k < m => (least_freq[k] # 0 /\ least_freq[k] < least_freq[m]) \/ least_freq[m] = 0
    /\ \A n \in 1 .. Len(arr) :
         \/ \E k \in Places : least_freq[k] = arr[n]
         \/ \A k \in Places : least_freq[k] # 0 /\ least_freq[k] < arr[n]
=============================================================================
