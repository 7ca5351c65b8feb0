------------------------------- MODULE Strbuf -------------------------------
(***************************************************************************)
(* The string buffers of src/datastruct/str.c.  A concatenation is a loop  *)
(* of reallocations followed by a copy, and each reallocation may move the *)
(* buffer's data or fail; the loop's iterations and the copy are separate  *)
(* steps.  The allocator is the plain one.                                 *)
(*                                                                         *)
(* Data is modelled byte by byte, uninitialised bytes included, because    *)
(* what the copy reads and overwrites is what can go wrong.                *)
(***************************************************************************)
EXTENDS Naturals, Sequences

CONSTANTS Buf,       \* the buffers of the client
          Char,      \* the characters it appends
          Text,      \* the texts it appends
          Sizes,     \* the sizes it asks for
          Zero,      \* the terminating character
          Garbage,   \* an uninitialised byte, or one read from freed memory
          None,      \* no buffer
          MaxLength  \* bound on the length of a buffer

ASSUME StrbufAssumption ==
  /\ Text \subseteq Seq(Char) /\ Sizes \subseteq Nat /\ MaxLength \in Nat
  /\ Zero \notin Char /\ Garbage \notin Char /\ Zero # Garbage
  /\ None \notin Buf

VARIABLES bufs,   \* bufs[b]: the struct strbuf and its data
          op,     \* the running operation: "none", "concatenate", "printf", "duplicate"
          dest,   \* the buffer it appends to, or None
          text,   \* what it appends, as it was at the call
          src,    \* the text is "outside" dest, in dest's "own" data, or in "freed" data
          told,   \* history: told[b] is all that b has been told to hold
          torn,   \* history: buffers that have been given text from freed data
          lost    \* history: some block is allocated and nothing refers to it

vars == <<bufs, op, dest, text, src, told, torn, lost>>

Byte == Char \cup {Zero, Garbage}

NoBuf == [state |-> "none", size |-> 0, length |-> 0, bytes |-> <<>>]

Init ==
  /\ bufs = [b \in Buf |-> NoBuf]
  /\ op = "none" /\ dest = None /\ text = <<>> /\ src = "outside"
  /\ told = [b \in Buf |-> <<>>] /\ torn = {} /\ lost = FALSE

-----------------------------------------------------------------------------
Idle == op = "none"

\* strbuf_is_valid: after a failed growth the struct remains, without data.
Valid(b) == bufs[b].state = "made"

\* The str that strbuf_str returns.
strbuf_str(b) == [i \in 1 .. bufs[b].length |-> bufs[b].bytes[i]]

\* mem_alloc_clear gives zeroes.
Fresh(size) ==
  [state |-> "made", size |-> size, length |-> 0, bytes |-> [i \in 1 .. size |-> Zero]]

\* A failed strbuf_create changes nothing: it frees the struct when the data
\* cannot be allocated.
strbuf_create(b, size) ==
  /\ Idle /\ bufs[b].state = "none"
  /\ bufs' = [bufs EXCEPT ![b] = Fresh(size)]
  /\ told' = [told EXCEPT ![b] = <<>>] /\ torn' = torn \ {b}
  /\ UNCHANGED <<op, dest, text, src, lost>>

\* The client drops its handle; strbuf_destroy returns early when the buffer is
\* invalid, and the struct stays allocated.
strbuf_destroy(b) ==
  /\ Idle /\ bufs[b].state # "none"
  /\ bufs' = [bufs EXCEPT ![b] = NoBuf]
  /\ lost' = (lost \/ ~Valid(b))
  /\ told' = [told EXCEPT ![b] = <<>>] /\ torn' = torn \ {b}
  /\ UNCHANGED <<op, dest, text, src>>

\* The test is for the struct only.
strbuf_reset(b) ==
  /\ Idle /\ bufs[b].state # "none"
  /\ bufs' = [bufs EXCEPT ![b].length = 0]
  /\ told' = [told EXCEPT ![b] = <<>>] /\ torn' = torn \ {b}
  /\ UNCHANGED <<op, dest, text, src, lost>>

-----------------------------------------------------------------------------
\* An invalid buffer makes every operation return false at once.
Begin(kind, b, t, where) ==
  /\ Idle /\ Valid(b) /\ bufs[b].length + Len(t) <= MaxLength
  /\ op' = kind /\ dest' = b /\ text' = t /\ src' = where

\* strbuf_concatenate_char, _cstr, _str of a text outside any buffer, and
\* _printf.
AppendText(kind, b, t) ==
  Begin(kind, b, t, "outside") /\ UNCHANGED <<bufs, told, torn, lost>>

\* strbuf_concatenate_strbuf, or strbuf_concatenate_str of a strbuf_str: the
\* pointer to the source's data is taken before the loop.
AppendBuffer(b, c) ==
  /\ Valid(c)
  /\ Begin("concatenate", b, strbuf_str(c), IF b = c THEN "own" ELSE "outside")
  /\ UNCHANGED <<bufs, told, torn, lost>>

\* Mutant of DuplicateSize: the duplicate starts at a default size.
DefaultSize(b) == 1

DuplicateSize(b) == bufs[b].size

\* strbuf_duplicate: a new buffer, and a concatenation to it.
strbuf_duplicate(b, c) ==
  /\ Idle /\ Valid(b) /\ bufs[c].state = "none"
  /\ bufs' = [bufs EXCEPT ![c] = Fresh(DuplicateSize(b))]
  /\ told' = [told EXCEPT ![c] = <<>>] /\ torn' = torn \ {c}
  /\ op' = "duplicate" /\ dest' = c /\ text' = strbuf_str(b) /\ src' = "outside"
  /\ UNCHANGED lost

-----------------------------------------------------------------------------
\* Mutant of Room: no room for the terminating character vsnprintf writes.
RoomUnterminated == Len(text)

Room == Len(text) + (IF op = "printf" THEN 1 ELSE 0)

\* Mutant of NeedsRoom: one byte too late.
NeedsRoomLate == bufs[dest].length + Room > bufs[dest].size + 1

NeedsRoom == bufs[dest].length + Room > bufs[dest].size

\* Mutant of NewSize: half as much again.
NewSizeByHalf(size) == (3 * size) \div 2

NewSize(size) == 2 * size

\* Mutant of Grown: a new block that does not take over the old bytes.
GrownAfresh(buf) ==
  [buf EXCEPT !.size  = NewSize(buf.size),
              !.bytes = [i \in 1 .. NewSize(buf.size) |-> Garbage]]

\* realloc keeps the old bytes; the new ones are uninitialised.
Grown(buf) ==
  [buf EXCEPT !.size  = NewSize(buf.size),
              !.bytes = [i \in 1 .. NewSize(buf.size) |->
                           IF i <= buf.size THEN buf.bytes[i] ELSE Garbage]]

Finish == op' = "none" /\ dest' = None /\ text' = <<>> /\ src' = "outside"

Grow(moves) ==
  /\ ~Idle /\ NeedsRoom
  /\ bufs' = [bufs EXCEPT ![dest] = Grown(@)]
  /\ src' = IF moves /\ src = "own" THEN "freed" ELSE src
  /\ UNCHANGED <<op, dest, text, told, torn, lost>>

\* The struct after a failed growth.
Broken(buf) ==
  [state |-> "broken", size |-> NewSize(buf.size), length |-> buf.length, bytes |-> <<>>]

\* The handle of the data is overwritten by an invalid one of the new size.  The
\* old data is lost, unless its size was 0, when realloc may have freed it.
\* strbuf_duplicate then frees the struct of its new buffer.
GrowFails ==
  /\ ~Idle /\ NeedsRoom
  /\ bufs' = [bufs EXCEPT ![dest] = IF op = "duplicate" THEN NoBuf ELSE Broken(@)]
  /\ lost' \in IF bufs[dest].size = 0 THEN {lost, TRUE} ELSE {TRUE}
  /\ told' = [told EXCEPT ![dest] = <<>>] /\ torn' = torn \ {dest}
  /\ Finish

\* Bytes with the characters of t written from position at + 1 on.
Written(bytes, at, t) ==
  [i \in DOMAIN bytes |-> IF i \in at + 1 .. at + Len(t) THEN t[i - at] ELSE bytes[i]]

\* memcpy, or vsnprintf with its terminating character.
Copy ==
  /\ ~Idle /\ ~NeedsRoom
  /\ \E t \in IF src = "freed" THEN {text, [i \in 1 .. Len(text) |-> Garbage]} ELSE {text} :
       LET w == IF op = "printf" THEN Append(t, Zero) ELSE t
       IN bufs' = [bufs EXCEPT ![dest].bytes = Written(@, bufs[dest].length, w),
                               ![dest].length = @ + Len(text)]
  /\ told' = [told EXCEPT ![dest] = @ \o text]
  /\ torn' = IF src = "freed" THEN torn \cup {dest} ELSE torn
  /\ Finish /\ UNCHANGED lost

Next ==
  \/ \E b \in Buf, size \in Sizes : strbuf_create(b, size)
  \/ \E b \in Buf : strbuf_destroy(b) \/ strbuf_reset(b)
  \/ \E kind \in {"concatenate", "printf"}, b \in Buf, t \in Text : AppendText(kind, b, t)
  \/ \E b, c \in Buf : AppendBuffer(b, c) \/ strbuf_duplicate(b, c)
  \/ \E moves \in BOOLEAN : Grow(moves)
  \/ GrowFails \/ Copy

\* The loop and the copy are in one call; no allocation is obliged to fail.
Spec == /\ Init /\ [][Next]_vars
        /\ WF_vars(\E moves \in BOOLEAN : Grow(moves)) /\ WF_vars(Copy)

-----------------------------------------------------------------------------
Struct ==
  [state : {"none", "made", "broken"}, size : Nat, length : Nat, bytes : Seq(Byte)]

Sound(buf) ==
  /\ buf.length <= buf.size
  /\ Len(buf.bytes) = IF buf.state = "made" THEN buf.size ELSE 0

\* Types; the length never exceeds the size, so no copy ever leaves the data.
TypeOK ==
  /\ bufs \in [Buf -> Struct] /\ \A b \in Buf : Sound(bufs[b])
  /\ op \in {"none", "concatenate", "printf", "duplicate"}
  /\ dest \in IF Idle THEN {None} ELSE {b \in Buf : Valid(b)}
  /\ text \in Seq(Byte) /\ src \in {"outside", "own", "freed"}
  /\ told \in [Buf -> Seq(Byte)]
  /\ torn \subseteq Buf /\ lost \in BOOLEAN

Holds(b) == Valid(b) /\ b \notin torn => strbuf_str(b) = told[b]

\* A valid buffer holds exactly what it was told, through every growth: a
\* buffer can even be appended to itself, as long as its data does not move.
HoldsWhatItWasTold == \A b \in Buf : Holds(b)

\* The concatenation of strbuf_duplicate never has to grow its new buffer, so
\* its error path, which would lose the data, is never taken.
DuplicateFits == op = "duplicate" => ~NeedsRoom

\* After a printf the terminating character follows the text inside the data.
PrintfTerminates ==
  [][op = "printf" /\ op' = "none" /\ bufs'[dest].state = "made" =>
       /\ bufs'[dest].length < bufs'[dest].size
       /\ bufs'[dest].bytes[bufs'[dest].length + 1] = Zero]_vars

\* A concatenation to a buffer of positive size returns: doubling reaches any
\* length.
ConcatenationEnds == (~Idle /\ bufs[dest].size > 0) ~> Idle

\* str.h: strbuf_destroy "destroys a strbuf", and strbuf functions given an
\* invalid one fail gracefully.  So once every buffer is destroyed, no block of
\* any of them is still allocated.
DestroyLeavesNothing == (\A b \in Buf : bufs[b].state = "none") => ~lost
=============================================================================
