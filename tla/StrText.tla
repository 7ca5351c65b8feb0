------------------------------- MODULE StrText -------------------------------
(***************************************************************************)
(* The str of src/datastruct/str.c as a value: NoStr when it is invalid,   *)
(* else the sequence of the characters it refers to.  C counts them from   *)
(* 0, a sequence from 1.  A char is a signed integer.                      *)
(***************************************************************************)
EXTENDS Integers, Sequences, FiniteSetsExt

CONSTANTS Space,  \* the characters of isspace
          NoStr   \* the zeroed str, (str){0}

str_is_valid(s) == s # NoStr

\* sub is found in text from index p on.
OccursAt(text, sub, p) == \A k \in 1 .. Len(sub) : text[p + k] = sub[k]

Occurrences(text, sub) ==
  {p \in 0 .. Len(text) - Len(sub) : OccursAt(text, sub, p)}

\* Mutant of str_find: the right-most occurrence.
str_find_last(text, sub) ==
  IF str_is_valid(text) /\ str_is_valid(sub) /\ Occurrences(text, sub) # {}
  THEN Max(Occurrences(text, sub))
  ELSE -1

\* The index of the left-most occurrence, or -1.
str_find(text, sub) ==
  IF str_is_valid(text) /\ str_is_valid(sub) /\ Occurrences(text, sub) # {}
  THEN Min(Occurrences(text, sub))
  ELSE -1

\* The lexicographic order: a is a proper prefix of b, or smaller at the first
\* difference.
Precedes(a, b) ==
  \E k \in 0 .. Len(a) :
    /\ k < Len(b)
    /\ \A j \in 1 .. k : a[j] = b[j]
    /\ k = Len(a) \/ a[k + 1] < b[k + 1]

-----------------------------------------------------------------------------
\* What a pop returns: the part it stores and the str it returns.
Popped(part, rest) == [part |-> part, rest |-> rest]

\* Mutant of Behind: the delimiter stays at the front of the rest.
BehindKeepingDelim(text, pos, delim) == SubSeq(text, pos + 1, Len(text))

\* The characters behind the delimiter found at pos.
Behind(text, pos, delim) == SubSeq(text, pos + Len(delim) + 1, Len(text))

\* part is what the caller's variable holds: it keeps it when a str is invalid.
str_split_pop(text, delim, part) ==
  LET pos == str_find(text, delim)
  IN CASE ~str_is_valid(text) \/ ~str_is_valid(delim) -> Popped(part, NoStr)
       [] str_is_valid(text) /\ str_is_valid(delim) /\ pos = -1 -> Popped(text, NoStr)
       [] OTHER -> Popped(SubSeq(text, 1, pos), Behind(text, pos, delim))

\* The index a scan of the characters in stops at, from index i on.
ScanWhile(text, i, in) ==
  Min({p \in i .. Len(text) : p = Len(text) \/ text[p + 1] \notin in})

\* The index behind the word that starts at start.
ScanWord(text, start) ==
  Min({p \in start .. Len(text) : p = Len(text) \/ text[p + 1] \in Space})

\* Mutant of str_split_whitespace_pop: the rest starts one character late.
whitespace_pop_late(text) ==
  LET start == ScanWhile(text, 0, Space)
      pos   == ScanWord(text, start)
      next  == ScanWhile(text, pos, Space)
  IN Popped(SubSeq(text, start + 1, pos),
            IF next = Len(text) THEN NoStr ELSE SubSeq(text, next + 2, Len(text)))

\* Mutant of str_split_whitespace_pop: a rest of nothing is returned as a str.
whitespace_pop_always(text) ==
  LET start == ScanWhile(text, 0, Space)
      pos   == ScanWord(text, start)
      next  == ScanWhile(text, pos, Space)
  IN Popped(SubSeq(text, start + 1, pos), SubSeq(text, next + 1, Len(text)))

\* Skip leading space, pop up to the next space, and skip that: a rest of
\* nothing but space ends the iteration.  The first test looks at a character
\* even when there is none; it decides nothing then.
str_split_whitespace_pop(text) ==
  LET start == ScanWhile(text, 0, Space)
      pos   == ScanWord(text, start)
      next  == ScanWhile(text, pos, Space)
  IN Popped(SubSeq(text, start + 1, pos),
            IF next = Len(text) THEN NoStr ELSE SubSeq(text, next + 1, Len(text)))

-----------------------------------------------------------------------------
\* The words of a text, for reference: the places of its longest runs of
\* characters other than space.
WordPlaces(text) ==
  {w \in (1 .. Len(text)) \X (1 .. Len(text)) :
     /\ w[1] <= w[2]
     /\ \A i \in w[1] .. w[2] : text[i] \notin Space
     /\ w[1] = 1 \/ text[w[1] - 1] \in Space
     /\ w[2] = Len(text) \/ text[w[2] + 1] \in Space}

WordAt(text, w) == SubSeq(text, w[1], w[2])
=============================================================================
