--------------------------------- MODULE Str ---------------------------------
(***************************************************************************)
(* The functions of src/datastruct/str.c on strs, each loop a step per     *)
(* round: the search of str_find, the comparison of str_compare, the loops *)
(* a client writes around str_split_pop and str_split_whitespace_pop       *)
(* (str.h 214-222), and the C strings of str_cstr and                      *)
(* str_write_cstr_to_buf, call after call into the same buffer.            *)
(***************************************************************************)
EXTENDS StrText

CONSTANTS Char,      \* the values of a char
          First,     \* the valid strs passed as first argument
          Second,    \* those passed as second argument, or to str_cstr
          Zero,      \* the null character
          BUFSIZE,   \* the size of the buffer (STR_CSTR_BUFSIZE is 1024)
          SIZE_MAX,  \* the largest size_t
          Unset      \* an uninitialised variable

ASSUME StrAssumption ==
  /\ Char \subseteq Int /\ Space \subseteq Char /\ Zero \in Char
  /\ First \subseteq Seq(Char) /\ Second \subseteq Seq(Char)
  /\ NoStr \notin Seq(Char)
  /\ BUFSIZE \in Nat \ {0} /\ SIZE_MAX \in Nat /\ BUFSIZE <= SIZE_MAX

VARIABLES call,    \* the running function or client loop
          done,    \* it has returned
          first, second,   \* its arguments
          i, j,    \* start_i and offset of str_find; i of str_compare
          ret,     \* what str_find or str_compare returned
          rest,    \* the client's str, after each pop
          part,    \* the client's part, after each pop
          taken,   \* history: the text popped, with the delimiters
          words,   \* history: the parts that are not empty, in order
          buffer   \* the buffer's cells, the str and bufsize last written to it,
                   \* and whether that write went past bufsize

vars == <<call, done, first, second, i, j, ret, rest, part, taken, words, buffer>>

args == <<call, first, second>>
client == <<rest, part, taken, words>>

Init ==
  /\ call \in {"find", "compare", "split", "words", "cstr"}
  /\ first \in First \cup {NoStr} /\ second \in Second \cup {NoStr}
  /\ call \in {"words", "cstr"} => second = NoStr
  /\ call = "cstr" => first = NoStr
  /\ done = FALSE /\ i = 0 /\ j = 0 /\ ret = Unset
  /\ rest = first /\ part = Unset /\ taken = <<>> /\ words = <<>>
  /\ buffer = [cells |-> [k \in 0 .. BUFSIZE - 1 |-> Zero], text |-> <<>>,
               bufsize |-> BUFSIZE, overrun |-> FALSE]

Return(value) ==
  /\ ret' = value /\ done' = TRUE
  /\ UNCHANGED <<args, i, j, client, buffer>>

-----------------------------------------------------------------------------
\* Mutant of FindRoom: the last start is left out.
FindRoomShort == i < Len(first) - Len(second)

FindRoom == i < Len(first) - Len(second) + 1

BothValid == str_is_valid(first) /\ str_is_valid(second)

\* An invalid str, or a substring longer than the text.
FindRefuses ==
  /\ call = "find" /\ ~done
  /\ ~BothValid \/ (BothValid /\ Len(first) < Len(second))
  /\ Return(-1)

Searching == call = "find" /\ ~done /\ BothValid /\ Len(first) >= Len(second) /\ FindRoom

CharsMatch == j < Len(second) /\ first[i + j + 1] = second[j + 1]

FindMatch ==
  /\ Searching /\ CharsMatch
  /\ j' = j + 1
  /\ UNCHANGED <<args, done, i, ret, client, buffer>>

FindFound == Searching /\ ~CharsMatch /\ j = Len(second) /\ Return(i)

\* Mutant of FindNextStart: the offset is not reset.
FindNextStartKeepingOffset ==
  /\ Searching /\ ~CharsMatch /\ j < Len(second)
  /\ i' = i + 1
  /\ UNCHANGED <<args, done, j, ret, client, buffer>>

FindNextStart ==
  /\ Searching /\ ~CharsMatch /\ j < Len(second)
  /\ i' = i + 1 /\ j' = 0
  /\ UNCHANGED <<args, done, ret, client, buffer>>

FindNotFound ==
  /\ call = "find" /\ ~done /\ BothValid /\ Len(first) >= Len(second) /\ ~FindRoom
  /\ Return(-1)

-----------------------------------------------------------------------------
\* Mutant of CompareInvalid: the first str is tested before both are.
CompareInvalidFirst ==
  /\ call = "compare" /\ ~done /\ ~BothValid
  /\ Return(IF str_is_valid(first) THEN 1 ELSE -1)

\* Two invalid strs are equal, and an invalid one is less than a valid one.
CompareInvalid ==
  /\ call = "compare" /\ ~done /\ ~BothValid
  /\ Return(IF str_is_valid(first) THEN 1 ELSE IF str_is_valid(second) THEN -1 ELSE 0)

SameSoFar == i < Len(first) /\ i < Len(second) /\ first[i + 1] = second[i + 1]

CompareStep ==
  /\ call = "compare" /\ ~done /\ BothValid /\ SameSoFar
  /\ i' = i + 1
  /\ UNCHANGED <<args, done, j, ret, client, buffer>>

\* Mutant of Verdict: equal up to the shorter length is equal.
VerdictOfPrefix ==
  CASE i = Len(first) \/ i = Len(second) -> 0
    [] OTHER -> IF first[i + 1] < second[i + 1] THEN -1 ELSE 1

Verdict ==
  CASE i = Len(first) -> IF Len(first) = Len(second) THEN 0 ELSE -1
    [] i # Len(first) /\ i = Len(second) -> 1
    [] i # Len(first) /\ i # Len(second) ->
         IF first[i + 1] < second[i + 1] THEN -1 ELSE 1

CompareEnd == call = "compare" /\ BothValid /\ ~SameSoFar /\ Return(Verdict)

-----------------------------------------------------------------------------
\* One round of the client's loop around a pop.  A first pop of an invalid str
\* is not made: the loop tests it.
Round(p, delim) ==
  /\ rest' = p.rest /\ part' = p.part
  /\ taken' = IF p.rest = NoStr THEN taken \o p.part ELSE taken \o p.part \o delim
  /\ words' = IF p.part = <<>> THEN words ELSE Append(words, p.part)
  /\ UNCHANGED <<args, done, i, j, ret, buffer>>

\* With an invalid delimiter the part stays unset; with an empty one the rest
\* is the whole text again, round after round, with empty parts.
SplitRound ==
  /\ call = "split" /\ ~done /\ str_is_valid(rest) /\ str_is_valid(second)
  /\ Round(str_split_pop(rest, second, part), second)

SplitRefused ==
  /\ call = "split" /\ ~done /\ str_is_valid(rest) /\ ~str_is_valid(second)
  /\ LET p == str_split_pop(rest, second, part)
     IN rest' = p.rest /\ part' = p.part
  /\ UNCHANGED <<args, done, i, j, ret, taken, words, buffer>>

WordRound ==
  /\ call = "words" /\ ~done /\ str_is_valid(rest)
  /\ Round(str_split_whitespace_pop(rest), <<>>)

LoopEnds ==
  /\ call \in {"split", "words"} /\ ~done /\ ~str_is_valid(rest)
  /\ done' = TRUE
  /\ UNCHANGED <<args, i, j, ret, client, buffer>>

-----------------------------------------------------------------------------
\* Mutant of SizeToCopy: no room is kept for the terminator.
SizeToCopyAll(s, bufsize) == Min({Len(s), bufsize})

\* bufsize - 1 wraps around when bufsize is 0.
SizeToCopy(s, bufsize) == Min({Len(s), (bufsize - 1) % (SIZE_MAX + 1)})

\* Mutant of CstrCells: the terminator is forgotten.
UnterminatedCells(s, n) ==
  [k \in DOMAIN buffer.cells |-> IF k < n THEN s[k + 1] ELSE buffer.cells[k]]

\* The cells behind the terminator keep what they held.
CstrCells(s, n) ==
  [k \in DOMAIN buffer.cells |->
     CASE k < n -> s[k + 1] [] k = n -> Zero [] OTHER -> buffer.cells[k]]

\* str_write_cstr_to_buf with this buffer and any bufsize up to its real one;
\* str_cstr passes BUFSIZE.  An invalid str leaves the buffer alone.
WriteCstr(s, bufsize) ==
  /\ call = "cstr"
  /\ LET n == SizeToCopy(s, bufsize)
     IN buffer' = [cells |-> CstrCells(s, n), text |-> s, bufsize |-> bufsize,
                   overrun |-> n + 1 > bufsize]
  /\ UNCHANGED <<args, done, i, j, ret, client>>

Next ==
  \/ FindRefuses \/ FindMatch \/ FindFound \/ FindNextStart \/ FindNotFound
  \/ CompareInvalid \/ CompareStep \/ CompareEnd
  \/ SplitRound \/ SplitRefused \/ WordRound \/ LoopEnds
  \/ \E s \in Second, bufsize \in 0 .. BUFSIZE : WriteCstr(s, bufsize)

\* The loops are inside one call, or in a client that does nothing else.
Spec == Init /\ [][Next]_vars /\ WF_vars(Next)

-----------------------------------------------------------------------------
\* str_find returns the index of the left-most occurrence (str.h 180), or -1.
FindOutcome ==
  call = "find" /\ done =>
    /\ ret = -1 => ~BothValid \/ Occurrences(first, second) = {}
    /\ ret # -1 =>
         /\ ret \in Occurrences(first, second)
         /\ \A p \in Occurrences(first, second) : ret <= p

\* The order of all strs: the invalid one first, then the valid ones in
\* lexicographic order.
IsLess(s, t) == str_is_valid(t) /\ (str_is_valid(s) => Precedes(s, t))

\* str_compare orders strs lexicographically by signed characters, beyond null
\* characters, an invalid one first and equal to another invalid one (str.h
\* 190-199).
CompareOutcome ==
  call = "compare" /\ done =>
    /\ ret = -1 <=> IsLess(first, second)
    /\ ret = 1 <=> IsLess(second, first)
    /\ ret = 0 <=> first = second

\* However the delimiter overlaps itself or the parts, the text popped and the
\* rest always join back to the text, to the end of the loop.
JoinsBack ==
  call = "split" /\ str_is_valid(first) /\ str_is_valid(second) =>
    taken \o (IF str_is_valid(rest) THEN rest ELSE <<>>) = first

\* No part contains the delimiter.
PartsHaveNoDelim ==
  call = "split" /\ BothValid /\ part # Unset /\ second # <<>> =>
    Occurrences(part, second) = {}

\* The parts of str_split_whitespace_pop that are not empty are the words of
\* the text, each once and in their order.
WordsInOrder ==
  call = "words" /\ done /\ str_is_valid(first) =>
    /\ Len(words) = Cardinality(WordPlaces(first))
    /\ \A w \in WordPlaces(first) :
         words[Cardinality({v \in WordPlaces(first) : v[1] <= w[1]})] = WordAt(first, w)

\* Every function returns, and every loop ends, unless the delimiter is empty:
\* str_split_pop then returns the str it was given.
CallReturns ==
  call \in {"find", "compare", "words"} \/ (call = "split" /\ second # <<>>) ~> done

\* Read as a C string, the buffer is the last str written, cut at bufsize and
\* at its first null character: whatever longer text an earlier call has left
\* in it; and no write passes bufsize.  A bufsize of 0 has no room for a
\* terminator.
BufferHoldsLast ==
  buffer.bufsize > 0 =>
    LET ends == {k \in DOMAIN buffer.cells : buffer.cells[k] = Zero}
        s    == buffer.text
        room == Min({Len(s), buffer.bufsize - 1})
        kept == {k \in 0 .. room : k = room \/ s[k + 1] = Zero}
    IN /\ ~buffer.overrun
       /\ ends # {} /\ Min(ends) = Min(kept)
       /\ \A k \in 0 .. Min(ends) - 1 : buffer.cells[k] = s[k + 1]
=============================================================================
