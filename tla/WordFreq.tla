------------------------------ MODULE WordFreq ------------------------------
(***************************************************************************)
(* The program of src/m65tool/m65tool.c: word_freq reads a file into a     *)
(* strbuf line by line, process_line pops the words of a line and counts   *)
(* them in an array whose cells the values of a map point to, and the      *)
(* counts are ranked (module Ranking) and matched with the map's entries.  *)
(*                                                                         *)
(* The strbuf is the text it holds, the words are those of StrText, the    *)
(* map is that of MapTable.  A handle is a cell of the counts array: the   *)
(* array it was made for, numbered by its reallocations, and the index.    *)
(***************************************************************************)
EXTENDS Ranking, StrText, MapTable

CONSTANTS Char,                 \* the characters
          Text,                 \* the files
          Newline,              \* the character that ends a line
          Hash,                 \* Hash[w]: hash_str of the word w
          LINE_SIZE,            \* the strbuf's first size (100 in the code)
          INITIAL_COUNTS_SIZE,  \* first cells of the array (128 in the code)
          CELL                  \* sizeof(unsigned int)

\* A text without space at characters a to b of the file t.
IsSolid(t, a, b) == \A k \in a .. b : t[k] \notin Space

\* A handle points to a cell, so it is not the zeroed one; texts without space
\* have a hash.
ASSUME WordFreqAssumption ==
  /\ Text \subseteq Seq(Char) /\ Newline \in Space /\ NoStr \notin Seq(Char)
  /\ \A t \in Text : \A a, b \in 1 .. Len(t) : IsSolid(t, a, b) => Hash[SubSeq(t, a, b)] \in Nat
  /\ NoHandle \notin [moves : Nat, cell : Nat]
  /\ LINE_SIZE \in Nat /\ INITIAL_COUNTS_SIZE \in Nat \ {0} /\ CELL \in Nat \ {0, 1}

VARIABLES phase,   \* "read", "words" of a line, "rank", "match", then "printed";
                   \* "failed" after an exit, "wild" after undefined behaviour
          file,    \* the text of the file
          at,      \* the characters read
          buf,     \* the text in the strbuf
          line,    \* what is left of the line in process_line
          mymap,
          counts,  \* the array's size in bytes and how often it has moved
          it,      \* the map_iter of the last loop
          most_freq_matches, least_freq_matches,
          cut,     \* history: the map has lost an entry to a resize
          overrun  \* history: a write past the end of the array was not noticed

ownVars == <<phase, file, at, buf, line, mymap, counts, it,
             most_freq_matches, least_freq_matches, cut, overrun>>
readVars  == <<phase, file, at, buf>>
mapVars   == <<mymap, counts, cut, overrun>>
tableVars == <<line, mapVars>>
matchVars == <<it, most_freq_matches, least_freq_matches>>
vars == <<rankVars, ownVars>>

Init ==
  /\ phase = "read" /\ file \in Text /\ at = 0 /\ buf = <<>> /\ line = NoStr
  /\ mymap = EmptyMap
  /\ counts = [size |-> CELL * INITIAL_COUNTS_SIZE, moves |-> 0]
  /\ arr = <<>> /\ rank = "fetch" /\ i = 0 /\ p = 0 /\ count = 0
  /\ most_freq = NoRanking /\ least_freq = NoRanking
  /\ it = DoneIter
  /\ most_freq_matches = NoRanking /\ least_freq_matches = NoRanking
  /\ cut = FALSE /\ overrun = FALSE

Exit == phase' = "failed" /\ UNCHANGED <<file, at, buf, tableVars, matchVars, rankVars>>

-----------------------------------------------------------------------------
\* One getc, and its character appended to the strbuf.
ReadChar ==
  /\ phase = "read" /\ at < Len(file) /\ file[at + 1] # Newline
  /\ at' = at + 1 /\ buf' = Append(buf, file[at + 1])
  /\ UNCHANGED <<phase, file, tableVars, matchVars, rankVars>>

\* The strbuf may fail to grow, whenever the line does not fit its first size.
ReadFails ==
  /\ phase = "read" /\ at < Len(file) /\ file[at + 1] # Newline
  /\ Len(buf) >= LINE_SIZE /\ Exit

\* The end of a line starts process_line.
ReadNewline ==
  /\ phase = "read" /\ at < Len(file) /\ file[at + 1] = Newline
  /\ at' = at + 1 /\ phase' = "line" /\ line' = buf
  /\ UNCHANGED <<file, buf, mapVars, matchVars, rankVars>>

\* Mutant of LastLine: the text behind the last newline is forgotten.
LastLineSkipped == phase' = "rank" /\ UNCHANGED line

\* So does the end of the file, unless nothing follows the last newline.
LastLine ==
  \/ buf # <<>> /\ phase' = "last" /\ line' = buf
  \/ buf = <<>> /\ phase' = "rank" /\ UNCHANGED line

ReadEof ==
  /\ phase = "read" /\ at = Len(file)
  /\ LastLine
  /\ UNCHANGED <<file, at, buf, mapVars, matchVars, rankVars>>

\* Mutant of strbuf_reset: it is not called.
strbuf_reset_forgotten == UNCHANGED buf

strbuf_reset == buf' = <<>>

LineEnds ==
  /\ phase \in {"line", "last"} /\ ~str_is_valid(line)
  /\ \/ phase = "line" /\ phase' = "read" /\ strbuf_reset
     \/ phase = "last" /\ phase' = "rank" /\ UNCHANGED buf
  /\ UNCHANGED <<file, at, tableVars, matchVars, rankVars>>

-----------------------------------------------------------------------------
\* process_line pops a word: the str before and after, and its entry in the map.
Word      == str_split_whitespace_pop(line).part
Rest      == str_split_whitespace_pop(line).rest
Entry(w)  == do_get(mymap, Hash[w])
Capacity  == counts.size \div CELL

Popping == phase \in {"line", "last"} /\ str_is_valid(line) /\ line' = Rest

EmptyWord ==
  /\ Popping /\ Word = <<>>
  /\ UNCHANGED <<readVars, mapVars, matchVars, rankVars>>

\* The handle of a word points to its cell: the array does not move before it is
\* overrun (HandlesInArray).
SeenWord ==
  /\ Popping /\ Word # <<>> /\ Entry(Word) # NoHandle
  /\ arr' = [arr EXCEPT ![Entry(Word).cell] = @ + 1]
  /\ UNCHANGED <<readVars, mapVars, matchVars, rank, i, p, count, most_freq, least_freq>>

\* Mutant of Full: the cells are counted, so the array grows in time, and its
\* handles go stale.
FullByCells(seen) == seen > Capacity

\* words_seen is compared with a size in bytes: when the array is found full it
\* has been overrun already.
Full(seen) == seen > counts.size

\* mem_realloc may move the array.
GrownCounts == {[size |-> 2 * counts.size, moves |-> counts.moves + m] : m \in {0, 1}}

\* A new cell, made the value of the word before it is set to 1.  A write past
\* the end of the array may go unnoticed, until the array moves and leaves the
\* cell behind, or not.
NewWord(can_alloc) ==
  /\ Popping /\ Word # <<>> /\ Entry(Word) = NoHandle
  /\ \E c \in IF Full(Len(arr) + 1) THEN GrownCounts ELSE {counts} :
     \E o \in do_set(mymap, Hash[Word], [moves |-> c.moves, cell |-> Len(arr) + 1], can_alloc) :
       LET past == Len(arr) + 1 > c.size \div CELL
           left == overrun /\ c.moves # counts.moves
       IN /\ counts' = c /\ mymap' = o.map
          /\ cut' = (cut \/ o.resize = "grew")
          /\ arr' = IF o.ret THEN Append(arr, 1) ELSE arr
          /\ overrun' = (overrun \/ (o.ret /\ past))
          /\ phase' \in CASE ~o.ret -> {"failed"}
                          [] o.ret /\ left -> {"wild"}
                          [] o.ret /\ ~left /\ past -> {phase, "wild"}
                          [] OTHER -> {phase}
  /\ UNCHANGED <<file, at, buf, matchVars, rank, i, p, count, most_freq, least_freq>>

\* mem_realloc of the array fails.
CountsFail ==
  /\ Popping /\ Word # <<>> /\ Entry(Word) = NoHandle /\ Full(Len(arr) + 1)
  /\ phase' = "failed"
  /\ UNCHANGED <<file, at, buf, mapVars, matchVars, rankVars>>

-----------------------------------------------------------------------------
Rank == phase = "rank" /\ RankNext /\ UNCHANGED ownVars

\* Every handle the map was given has a non-NULL mem_p.
Handles == [moves : 0 .. counts.moves, cell : 1 .. Len(arr)]

FirstMatch ==
  /\ phase = "rank" /\ rank = "ranked"
  /\ phase' = "match" /\ it' = map_first_value_iter(mymap, Handles)
  /\ UNCHANGED <<file, at, buf, tableVars, rankVars, most_freq_matches, least_freq_matches>>

\* The matches of a ranking, with one more for each place of the count c.
Matched(matches, freq, c) ==
  [k \in Places |-> IF freq[k] = c THEN matches[k] + 1 ELSE matches[k]]

Match ==
  /\ phase = "match" /\ ~map_iter_done(it, Handles)
  /\ LET c == arr[it.value_handle.cell]
     IN /\ most_freq_matches' = Matched(most_freq_matches, most_freq, c)
        /\ least_freq_matches' = Matched(least_freq_matches, least_freq, c)
  /\ it' = map_next_value_iter(mymap, it, Handles)
  /\ UNCHANGED <<readVars, tableVars, rankVars>>

PrintResults ==
  /\ phase = "match" /\ map_iter_done(it, Handles)
  /\ phase' = "printed"
  /\ UNCHANGED <<file, at, buf, tableVars, matchVars, rankVars>>

Next ==
  \/ ReadChar \/ ReadFails \/ ReadNewline \/ ReadEof \/ LineEnds
  \/ EmptyWord \/ SeenWord \/ (\E can_alloc \in BOOLEAN : NewWord(can_alloc)) \/ CountsFail
  \/ Rank \/ FirstMatch \/ Match \/ PrintResults

\* The program runs until it ends.
Spec == Init /\ [][Next]_vars /\ WF_vars(Next)

-----------------------------------------------------------------------------
AllCounted == phase \in {"rank", "match", "printed"}

\* How often a word occurs in the file, whatever lines it is on.
FileWords == {WordAt(file, w) : w \in WordPlaces(file)}
Times(word) == Cardinality({w \in WordPlaces(file) : WordAt(file, w) = word})

\* No two words of the file hash alike, and none to 0.
HashesApart ==
  \A v, w \in FileWords : Hash[v] # 0 /\ (v # w => Hash[v] # Hash[w])

\* Until the map loses an entry or the array is overrun, the cell of every word
\* of the file holds exactly the number of its occurrences, over all lines, the
\* last one without a newline included.
CountsExact ==
  AllCounted /\ HashesApart /\ ~cut /\ ~overrun =>
    /\ Len(arr) = Cardinality(FileWords)
    /\ \A w \in FileWords : Entry(w) # NoHandle /\ arr[Entry(w).cell] = Times(w)

\* The counts as a tally: as many marks for the n-th cell as it has counted.
Tally == UNION {{n} \X (1 .. arr[n]) : n \in 1 .. Len(arr)}

\* Whatever entries the map loses and whatever words collide, no occurrence is
\* counted twice or dropped: the counts add up to the words of the file.
TotalKept ==
  AllCounted /\ ~overrun => Cardinality(Tally) = Cardinality(WordPlaces(file))

\* The cell of a handle is in the array only while that has not moved.
InArray(h) == h.moves = counts.moves

\* The values of the map point to cells of the array as it is now, and no two
\* entries share a cell.
HandlesInArray ==
  ~overrun =>
    /\ \A s \in Occupied(mymap) : mymap.entries[s].value_handle # NoHandle
                                   /\ InArray(mymap.entries[s].value_handle)
    /\ \A s, t \in Occupied(mymap) :
         s # t => mymap.entries[s].value_handle.cell # mymap.entries[t].value_handle.cell

\* The printed matches are the numbers of words with the ranked counts.
MatchesAgree ==
  phase = "printed" /\ HashesApart /\ ~cut /\ ~overrun =>
    \A k \in Places :
      /\ most_freq[k] # 0 =>
           most_freq_matches[k] = Cardinality({w \in FileWords : Times(w) = most_freq[k]})
      /\ least_freq[k] # 0 =>
           least_freq_matches[k] = Cardinality({w \in FileWords : Times(w) = least_freq[k]})

\* The program ends.
Ends == <>(phase \in {"printed", "failed", "wild"})
=============================================================================
