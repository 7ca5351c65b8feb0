----------------------------- MODULE WordFreqMC -----------------------------
(* Small instances of WordFreq: all short files over two letters, and files *)
(* of one-letter words in chosen numbers.                                   *)
EXTENDS WordFreq, SequencesExt

Letters   == <<"a", "b", "c", "d", "e", "f", "g", "h", "i", "j", "k">>
EndOfLine == "newline"
Blanks    == {" ", EndOfLine}
Characters == {Letters[n] : n \in DOMAIN Letters} \cup Blanks

\* The word of the n-th letter, c[n] times, each with a space in front.
WordsOf(c) ==
  FlattenSeq([n \in DOMAIN c |-> [m \in 1 .. 2 * c[n] |-> IF m % 2 = 1 THEN " " ELSE Letters[n]]])

\* Counts in every order; the fourth word is lost by the map, and every other
\* one of it.
Counts == [1 .. 3 -> 1 .. 3] \cup [1 .. 4 -> 1 .. 2] \cup {<<1, 2, 3, 4>>, <<4, 3, 2, 1>>}

\* Enough words to overrun the array, and to have it grow.
Many == {[n \in 1 .. 11 |-> 1], <<1, 1, 1, 2, 1, 1>>}

Files == BoundedSeq({"a", "b"} \cup Blanks, 4)
         \cup {WordsOf(c) : c \in Counts}
         \cup {WordsOf(c) \o <<" ", "a">> : c \in Many}

WordsIn == BoundedSeq({"a", "b"}, 4) \cup {<<Letters[n]>> : n \in 1 .. 11}

\* Hashes that tell the words apart, but for <<"a", "b">>, which hashes as
\* <<"b">>, and <<"b", "b">>, which hashes to 0.
Numbered ==
  [w \in WordsIn |->
     CASE w = <<"a", "b">> -> 2
       [] w = <<"b", "b">> -> 0
       [] OTHER -> FoldLeft(LAMBDA h, c : 12 * h + CHOOSE n \in 1 .. 11 : Letters[n] = c, 0, w)]
=============================================================================
