---------------------------- MODULE StrbufProofs ----------------------------
(***************************************************************************)
(* Proofs about module Strbuf for every number of buffers, every text and  *)
(* every size, whatever reallocations move or fail.                        *)
(***************************************************************************)
EXTENDS Strbuf, SequenceTheorems, TLAPS

-----------------------------------------------------------------------------
\* A function on an interval that starts at 1 is a sequence.
LEMMA FunctionSeq ==
  ASSUME NEW S, NEW n \in Nat, NEW f \in [1 .. n -> S]
  PROVE  f \in Seq(S) /\ Len(f) = n
<1>1. f \in Seq(S)
  BY SeqDef
<1>2. Len(f) \in Nat /\ 1 .. n = 1 .. Len(f)
  BY <1>1, LenProperties
<1> QED BY <1>1, <1>2

\* A new buffer is typed.
LEMMA FreshType ==
  ASSUME NEW size \in Nat
  PROVE  /\ Fresh(size).bytes \in Seq(Byte) /\ Len(Fresh(size).bytes) = size
         /\ Fresh(size) \in [state : {"made"}, size : {size}, length : {0}, bytes : Seq(Byte)]
<1>1. [i \in 1 .. size |-> Zero] \in [1 .. size -> Byte]
  BY DEF Byte
<1> QED BY <1>1, FunctionSeq DEF Fresh

\* What strbuf_str returns is a text of the buffer's length.
LEMMA StrType ==
  ASSUME TypeOK, NEW b \in Buf, Valid(b)
  PROVE  /\ strbuf_str(b) \in Seq(Byte) /\ Len(strbuf_str(b)) = bufs[b].length
         /\ \A i \in 1 .. bufs[b].length : strbuf_str(b)[i] = bufs[b].bytes[i]
<1>1. /\ bufs[b].length \in Nat /\ bufs[b].size \in Nat /\ bufs[b].bytes \in Seq(Byte)
      /\ bufs[b].length <= Len(bufs[b].bytes)
  BY DEF TypeOK, Struct, Sound, Valid
<1>2. \A i \in 1 .. bufs[b].length : bufs[b].bytes[i] \in Byte
  BY <1>1, ElementOfSeq
<1>3. strbuf_str(b) \in [1 .. bufs[b].length -> Byte]
  BY <1>2 DEF strbuf_str
<1> QED BY <1>1, <1>3, FunctionSeq DEF strbuf_str

\* Growing keeps the buffer's text.
LEMMA GrownType ==
  ASSUME TypeOK, NEW b \in Buf, Valid(b)
  PROVE  /\ Grown(bufs[b]).bytes \in Seq(Byte)
         /\ Len(Grown(bufs[b]).bytes) = NewSize(bufs[b].size)
         /\ \A i \in 1 .. bufs[b].length : Grown(bufs[b]).bytes[i] = bufs[b].bytes[i]
<1> DEFINE n == NewSize(bufs[b].size)
           f == [i \in 1 .. n |-> IF i <= bufs[b].size THEN bufs[b].bytes[i] ELSE Garbage]
<1>1. /\ bufs[b].length \in Nat /\ bufs[b].size \in Nat /\ bufs[b].bytes \in Seq(Byte)
      /\ bufs[b].size = Len(bufs[b].bytes) /\ bufs[b].length <= bufs[b].size
  BY DEF TypeOK, Struct, Sound, Valid
<1>2. n \in Nat /\ bufs[b].size <= n
  BY <1>1 DEF NewSize
<1>3. \A i \in 1 .. bufs[b].size : bufs[b].bytes[i] \in Byte
  BY <1>1, ElementOfSeq
<1>4. f \in [1 .. n -> Byte]
  BY <1>1, <1>2, <1>3 DEF Byte
<1>5. \A i \in 1 .. bufs[b].length : f[i] = bufs[b].bytes[i]
  BY <1>1, <1>2
<1>6. Grown(bufs[b]).bytes = f
  BY DEF Grown, TypeOK
<1> HIDE DEF f
<1> QED BY <1>2, <1>4, <1>5, <1>6, FunctionSeq

\* Writing t after the first at bytes, where it fits, leaves those bytes alone.
LEMMA WrittenType ==
  ASSUME NEW bytes \in Seq(Byte), NEW t \in Seq(Byte), NEW at \in Nat
  PROVE  /\ Written(bytes, at, t) \in Seq(Byte)
         /\ Len(Written(bytes, at, t)) = Len(bytes)
         /\ \A i \in 1 .. Len(bytes) : Written(bytes, at, t)[i] =
              IF i \in at + 1 .. at + Len(t) THEN t[i - at] ELSE bytes[i]
<1>1. Len(bytes) \in Nat /\ Len(t) \in Nat /\ DOMAIN bytes = 1 .. Len(bytes)
  BY LenProperties
<1>2. \A i \in 1 .. Len(bytes) : bytes[i] \in Byte
  BY ElementOfSeq
<1>3. \A i \in at + 1 .. at + Len(t) : i - at \in 1 .. Len(t)
  BY <1>1
<1>4. \A i \in at + 1 .. at + Len(t) : t[i - at] \in Byte
  BY <1>3, ElementOfSeq
<1>5. Written(bytes, at, t) \in [1 .. Len(bytes) -> Byte]
  BY <1>1, <1>2, <1>4 DEF Written
<1> QED BY <1>1, <1>5, FunctionSeq DEF Written

-----------------------------------------------------------------------------
\* A step that replaces one buffer by a sound one keeps all of them typed.
LEMMA ReplaceType ==
  ASSUME TypeOK, NEW b \in Buf, NEW r \in Struct, Sound(r),
         bufs' = [bufs EXCEPT ![b] = r]
  PROVE  bufs' \in [Buf -> Struct] /\ \A c \in Buf : Sound(bufs'[c])
BY DEF TypeOK

LEMMA NoBufType == NoBuf \in Struct /\ Sound(NoBuf)
BY EmptySeq DEF NoBuf, Struct, Sound

LEMMA FreshSound == ASSUME NEW size \in Nat PROVE Fresh(size) \in Struct /\ Sound(Fresh(size))
<1>1. Fresh(size) \in Struct
  BY FreshType DEF Fresh, Struct
<1> QED BY <1>1, FreshType DEF Fresh, Sound

\* A text of the client is a sequence of bytes.
LEMMA TextType == \A t \in Text : t \in Seq(Byte)
<1> TAKE t \in Text
<1>1. t \in Seq(Char) /\ Char \subseteq Byte
  BY StrbufAssumption DEF Byte
<1> QED BY <1>1, SeqMonotonic

\* What Copy writes: the characters of the text, or garbage read from freed
\* data, and for a printf the terminating character.
LEMMA CopyWrites ==
  ASSUME TypeOK, Copy
  PROVE  /\ dest \in Buf /\ Valid(dest) /\ text \in Seq(Byte) /\ Len(text) \in Nat
         /\ \E t, w \in Seq(Byte) :
              /\ src # "freed" => t = text
              /\ Len(t) = Len(text) /\ Len(w) \in {Len(t), Len(t) + 1}
              /\ \A i \in 1 .. Len(t) : w[i] = t[i]
              /\ op = "printf" => Len(w) = Len(t) + 1 /\ w[Len(t) + 1] = Zero
              /\ bufs' = [bufs EXCEPT ![dest] =
                   [bufs[dest] EXCEPT !.bytes  = Written(@, bufs[dest].length, w),
                                      !.length = @ + Len(text)]]
<1>1. dest \in Buf /\ Valid(dest) /\ text \in Seq(Byte) /\ Len(text) \in Nat
  BY LenProperties DEF TypeOK, Copy
<1> DEFINE noise == [i \in 1 .. Len(text) |-> Garbage]
<1>2. noise \in Seq(Byte) /\ Len(noise) = Len(text)
  <2>1. noise \in [1 .. Len(text) -> Byte]
    BY DEF Byte
  <2> HIDE DEF noise
  <2> QED BY <1>1, <2>1, FunctionSeq
<1>3. PICK t \in IF src = "freed" THEN {text, noise} ELSE {text} :
        bufs' = [bufs EXCEPT ![dest].bytes =
                   Written(@, bufs[dest].length, IF op = "printf" THEN Append(t, Zero) ELSE t),
                             ![dest].length = @ + Len(text)]
  BY DEF Copy
<1> DEFINE w == IF op = "printf" THEN Append(t, Zero) ELSE t
<1>4. t \in Seq(Byte) /\ Len(t) = Len(text) /\ (src # "freed" => t = text)
  BY <1>1, <1>2
<1>5. Zero \in Byte
  BY DEF Byte
<1>6. /\ w \in Seq(Byte) /\ Len(w) \in {Len(t), Len(t) + 1}
      /\ \A i \in 1 .. Len(t) : w[i] = t[i]
      /\ op = "printf" => Len(w) = Len(t) + 1 /\ w[Len(t) + 1] = Zero
  BY <1>1, <1>4, <1>5
<1>7. bufs' = [bufs EXCEPT ![dest] =
                 [bufs[dest] EXCEPT !.bytes  = Written(@, bufs[dest].length, w),
                                    !.length = @ + Len(text)]]
  BY <1>1, <1>3 DEF TypeOK, Struct
<1> HIDE DEF w
<1> QED BY <1>1, <1>4, <1>6, <1>7

\* The inductive step of the types, an action at a time.
LEMMA TypeStep == TypeOK /\ [Next]_vars => TypeOK'
<1> SUFFICES ASSUME TypeOK, [Next]_vars PROVE TypeOK'
  OBVIOUS
<1>1. ASSUME NEW b \in Buf, NEW size \in Sizes, strbuf_create(b, size) PROVE TypeOK'
  <2>1. size \in Nat
    BY StrbufAssumption
  <2>2. bufs' \in [Buf -> Struct] /\ \A c \in Buf : Sound(bufs'[c])
    BY <1>1, <2>1, FreshSound, ReplaceType DEF strbuf_create
  <2> QED BY <1>1, <2>2, EmptySeq DEF strbuf_create, TypeOK, Idle
<1>2. ASSUME NEW b \in Buf, strbuf_destroy(b) PROVE TypeOK'
  <2>1. bufs' \in [Buf -> Struct] /\ \A c \in Buf : Sound(bufs'[c])
    BY <1>2, NoBufType, ReplaceType DEF strbuf_destroy
  <2> QED BY <1>2, <2>1, EmptySeq DEF strbuf_destroy, TypeOK, Idle
<1>3. ASSUME NEW b \in Buf, strbuf_reset(b) PROVE TypeOK'
  <2> DEFINE r == [bufs[b] EXCEPT !.length = 0]
  <2>1. r \in Struct /\ Sound(r)
    <3>1. bufs[b] \in Struct /\ Sound(bufs[b])
      BY DEF TypeOK
    <3> QED BY <3>1 DEF Struct, Sound
  <2>2. bufs' = [bufs EXCEPT ![b] = r]
    BY <1>3 DEF strbuf_reset
  <2>3. bufs' \in [Buf -> Struct] /\ \A c \in Buf : Sound(bufs'[c])
    BY <2>1, <2>2, ReplaceType
  <2> QED BY <1>3, <2>3, EmptySeq DEF strbuf_reset, TypeOK, Idle
<1>4. ASSUME NEW kind \in {"concatenate", "printf"}, NEW b \in Buf, NEW t \in Text,
             AppendText(kind, b, t)
      PROVE  TypeOK'
  BY <1>4, TextType DEF AppendText, Begin, TypeOK, Idle, Valid
<1>5. ASSUME NEW b \in Buf, NEW c \in Buf, AppendBuffer(b, c) PROVE TypeOK'
  BY <1>5, StrType DEF AppendBuffer, Begin, TypeOK, Idle, Valid
<1>6. ASSUME NEW b \in Buf, NEW c \in Buf, strbuf_duplicate(b, c) PROVE TypeOK'
  <2>1. DuplicateSize(b) \in Nat /\ strbuf_str(b) \in Seq(Byte)
    BY <1>6, StrType DEF strbuf_duplicate, DuplicateSize, TypeOK, Struct
  <2>2. bufs' = [bufs EXCEPT ![c] = Fresh(DuplicateSize(b))]
    BY <1>6 DEF strbuf_duplicate
  <2>3. bufs' \in [Buf -> Struct] /\ \A d \in Buf : Sound(bufs'[d])
    BY <2>1, <2>2, FreshSound, ReplaceType
  <2>4. bufs'[c].state = "made"
    BY <2>2 DEF TypeOK, Fresh
  <2> QED BY <1>6, <2>1, <2>3, <2>4, EmptySeq DEF strbuf_duplicate, TypeOK, Idle, Valid
<1>7. ASSUME NEW moves \in BOOLEAN, Grow(moves) PROVE TypeOK'
  <2>1. dest \in Buf /\ Valid(dest)
    BY <1>7 DEF Grow, TypeOK
  <2> DEFINE r == Grown(bufs[dest])
  <2>2. r.bytes \in Seq(Byte) /\ Len(r.bytes) = NewSize(bufs[dest].size)
    BY <2>1, GrownType
  <2>3. /\ r.state = "made" /\ r.length = bufs[dest].length
        /\ r.size = NewSize(bufs[dest].size)
        /\ r = [state |-> r.state, size |-> r.size, length |-> r.length, bytes |-> r.bytes]
    <3>1. bufs[dest] \in Struct /\ bufs[dest].state = "made"
      BY <2>1 DEF TypeOK, Valid
    <3> DEFINE f == [i \in 1 .. NewSize(bufs[dest].size) |->
                       IF i <= bufs[dest].size THEN bufs[dest].bytes[i] ELSE Garbage]
    <3>2. r = [bufs[dest] EXCEPT !.size = NewSize(bufs[dest].size), !.bytes = f]
      BY DEF Grown
    <3> HIDE DEF f, r
    <3> QED BY <3>1, <3>2 DEF Struct
  <2>4. bufs[dest].size \in Nat /\ bufs[dest].length \in Nat /\ bufs[dest].length <= bufs[dest].size
    BY <2>1 DEF TypeOK, Struct, Sound
  <2>5. bufs' = [bufs EXCEPT ![dest] = r]
    BY <1>7 DEF Grow
  <2> HIDE DEF r
  <2>6. r \in Struct /\ Sound(r)
    BY <2>2, <2>3, <2>4 DEF Struct, Sound, NewSize
  <2>7. bufs' \in [Buf -> Struct] /\ \A d \in Buf : Sound(bufs'[d])
    BY <2>1, <2>5, <2>6, ReplaceType
  <2>8. bufs'[dest].state = "made"
    BY <2>1, <2>3, <2>5 DEF TypeOK
  <2> QED BY <1>7, <2>1, <2>7, <2>8 DEF Grow, TypeOK, Idle, Valid
<1>8. CASE GrowFails
  <2>1. dest \in Buf /\ Valid(dest)
    BY <1>8 DEF GrowFails, TypeOK
  <2> DEFINE r == IF op = "duplicate" THEN NoBuf ELSE Broken(bufs[dest])
  <2>2. r \in Struct /\ Sound(r)
    <3>1. bufs[dest] \in Struct /\ Sound(bufs[dest])
      BY <2>1 DEF TypeOK
    <3>2. Broken(bufs[dest]) \in Struct /\ Sound(Broken(bufs[dest]))
      BY <3>1, EmptySeq DEF Broken, Struct, Sound, NewSize
    <3> QED BY <3>2, NoBufType
  <2>3. bufs' = [bufs EXCEPT ![dest] = r]
    BY <1>8 DEF GrowFails
  <2>4. bufs' \in [Buf -> Struct] /\ \A d \in Buf : Sound(bufs'[d])
    BY <2>1, <2>2, <2>3, ReplaceType
  <2> QED BY <1>8, <2>1, <2>4, EmptySeq DEF GrowFails, Finish, TypeOK, Idle
<1>9. CASE Copy
  <2>0. /\ dest \in Buf /\ text \in Seq(Byte) /\ Len(text) \in Nat
        /\ bufs[dest] \in Struct /\ Sound(bufs[dest]) /\ bufs[dest].state = "made"
    BY <1>9, CopyWrites DEF TypeOK, Valid
  <2>1. /\ bufs[dest].length + Len(text) <= bufs[dest].size
        /\ bufs[dest].length \in Nat /\ bufs[dest].size \in Nat
        /\ bufs[dest].bytes \in Seq(Byte) /\ Len(bufs[dest].bytes) = bufs[dest].size
    BY <1>9, <2>0 DEF Copy, NeedsRoom, Room, Struct, Sound
  <2>2. PICK w \in Seq(Byte) : bufs' = [bufs EXCEPT ![dest] =
           [bufs[dest] EXCEPT !.bytes  = Written(@, bufs[dest].length, w),
                              !.length = @ + Len(text)]]
    BY <1>9, CopyWrites
  <2> DEFINE new == Written(bufs[dest].bytes, bufs[dest].length, w)
             r == [bufs[dest] EXCEPT !.bytes = new, !.length = @ + Len(text)]
  <2>3. new \in Seq(Byte) /\ Len(new) = bufs[dest].size
    BY <2>1, WrittenType
  <2>4. bufs' = [bufs EXCEPT ![dest] = r]
    BY <2>2
  <2> HIDE DEF new
  <2>5. r \in Struct /\ Sound(r) /\ r.state = "made"
    <3>1. /\ r.state = "made" /\ r.size = bufs[dest].size /\ r.bytes = new
          /\ r.length = bufs[dest].length + Len(text)
          /\ r = [state |-> r.state, size |-> r.size, length |-> r.length, bytes |-> r.bytes]
      <4> DEFINE d == bufs[dest]
                 n == d.length + Len(text)
      <4>1. r = [d EXCEPT !.bytes = new, !.length = n] /\ d \in Struct /\ d.state = "made"
        BY <2>0
      <4> HIDE DEF d, n, r
      <4>2. /\ r.state = "made" /\ r.size = d.size /\ r.bytes = new /\ r.length = n
            /\ r = [state |-> r.state, size |-> r.size, length |-> r.length, bytes |-> r.bytes]
        BY <4>1 DEF Struct
      <4> QED BY <4>2 DEF d, n
    <3> HIDE DEF r
    <3> QED BY <3>1, <2>0, <2>1, <2>3 DEF Struct, Sound
  <2> HIDE DEF r
  <2>6. bufs' \in [Buf -> Struct] /\ \A d \in Buf : Sound(bufs'[d])
    BY <2>0, <2>4, <2>5, ReplaceType
  <2>7. told' \in [Buf -> Seq(Byte)]
    BY <1>9, <2>0, ConcatProperties DEF Copy, TypeOK
  <2> QED BY <1>9, <2>1, <2>6, <2>7, EmptySeq DEF Copy, Finish, TypeOK, Idle
<1>10. CASE UNCHANGED vars
  BY <1>10 DEF vars, TypeOK, Idle, Valid
<1> QED
  BY <1>1, <1>2, <1>3, <1>4, <1>5, <1>6, <1>7, <1>8, <1>9, <1>10 DEF Next

\* The length of a buffer never exceeds its size, and every state is typed:
\* no copy of do_strbuf_concatenate or strbuf_concatenate_printf leaves the data.
THEOREM StrbufTypeCorrect == Spec => []TypeOK
<1>1. Init => TypeOK
  BY NoBufType, EmptySeq DEF Init, TypeOK, Idle
<1> QED BY <1>1, TypeStep, PTL DEF Spec

-----------------------------------------------------------------------------
\* A step holds on to what it does not touch.
LEMMA Untouched ==
  ASSUME NEW c \in Buf, Holds(c), bufs'[c] = bufs[c], told'[c] = told[c],
         c \in torn => c \in torn'
  PROVE  Holds(c)'
BY DEF Holds, Valid, strbuf_str

\* An emptied buffer has been told nothing.
LEMMA Emptied ==
  ASSUME NEW c \in Buf, bufs'[c].length = 0, told'[c] = <<>>
  PROVE  Holds(c)'
BY DEF Holds, strbuf_str

\* The inductive step of the contents: only Grow and Copy have to be argued.
LEMMA HoldsStep == TypeOK /\ HoldsWhatItWasTold /\ [Next]_vars => HoldsWhatItWasTold'
<1> SUFFICES ASSUME TypeOK, HoldsWhatItWasTold, [Next]_vars, NEW c \in Buf PROVE Holds(c)'
  BY DEF HoldsWhatItWasTold
<1>a. Holds(c)
  BY DEF HoldsWhatItWasTold
<1>t. c \in DOMAIN bufs /\ c \in DOMAIN told
  BY DEF TypeOK
<1>1. ASSUME NEW b \in Buf, NEW size \in Sizes, strbuf_create(b, size) PROVE Holds(c)'
  <2>1. CASE c = b
    BY <1>1, <1>t, <2>1, Emptied DEF strbuf_create, Fresh
  <2>2. CASE c # b
    BY <1>1, <1>a, <1>t, <2>2, Untouched DEF strbuf_create
  <2> QED BY <2>1, <2>2
<1>2. ASSUME NEW b \in Buf, strbuf_destroy(b) PROVE Holds(c)'
  <2>1. CASE c = b
    BY <1>2, <1>t, <2>1, Emptied DEF strbuf_destroy, NoBuf
  <2>2. CASE c # b
    BY <1>2, <1>a, <1>t, <2>2, Untouched DEF strbuf_destroy
  <2> QED BY <2>1, <2>2
<1>3. ASSUME NEW b \in Buf, strbuf_reset(b) PROVE Holds(c)'
  <2>1. CASE c = b
    <3>1. bufs[b] \in Struct
      BY DEF TypeOK
    <3>2. bufs'[c].length = 0 /\ told'[c] = <<>>
      BY <1>3, <1>t, <2>1, <3>1 DEF strbuf_reset, Struct
    <3> QED BY <3>2, Emptied
  <2>2. CASE c # b
    BY <1>3, <1>a, <1>t, <2>2, Untouched DEF strbuf_reset
  <2> QED BY <2>1, <2>2
<1>4. ASSUME NEW kind \in {"concatenate", "printf"}, NEW b \in Buf, NEW t \in Text,
             AppendText(kind, b, t)
      PROVE  Holds(c)'
  BY <1>4, <1>a, Untouched DEF AppendText
<1>5. ASSUME NEW b \in Buf, NEW d \in Buf, AppendBuffer(b, d) PROVE Holds(c)'
  BY <1>5, <1>a, Untouched DEF AppendBuffer
<1>6. ASSUME NEW b \in Buf, NEW d \in Buf, strbuf_duplicate(b, d) PROVE Holds(c)'
  <2>1. CASE c = d
    BY <1>6, <1>t, <2>1, Emptied DEF strbuf_duplicate, Fresh
  <2>2. CASE c # d
    BY <1>6, <1>a, <1>t, <2>2, Untouched DEF strbuf_duplicate
  <2> QED BY <2>1, <2>2
<1>7. ASSUME NEW moves \in BOOLEAN, Grow(moves) PROVE Holds(c)'
  <2>1. CASE c = dest
    <3>1. Valid(c)
      BY <1>7, <2>1 DEF Grow, TypeOK
    <3>2. bufs'[c] = Grown(bufs[c]) /\ told' = told /\ torn' = torn
      BY <1>7, <1>t, <2>1 DEF Grow
    <3>3. bufs[c] \in Struct
      BY DEF TypeOK
    <3>4. bufs'[c].length = bufs[c].length
      BY <3>2, <3>3 DEF Grown, Struct
    <3>5. \A i \in 1 .. bufs[c].length : bufs'[c].bytes[i] = bufs[c].bytes[i]
      BY <3>1, <3>2, GrownType
    <3>6. strbuf_str(c)' = strbuf_str(c)
      BY <3>4, <3>5 DEF strbuf_str
    <3> QED BY <1>a, <3>1, <3>2, <3>6 DEF Holds
  <2>2. CASE c # dest
    BY <1>7, <1>a, <1>t, <2>2, Untouched DEF Grow
  <2> QED BY <2>1, <2>2
<1>8. CASE GrowFails
  <2>1. CASE c = dest
    <3>1. bufs'[c].state # "made"
      BY <1>8, <1>t, <2>1 DEF GrowFails, NoBuf, Broken
    <3> QED BY <3>1 DEF Holds, Valid
  <2>2. CASE c # dest
    BY <1>8, <1>a, <1>t, <2>2, Untouched DEF GrowFails
  <2> QED BY <2>1, <2>2
<1>9. CASE Copy
  <2>1. CASE c # dest
    BY <1>9, <1>a, <1>t, <2>1, CopyWrites, Untouched DEF Copy
  <2>2. CASE c = dest /\ src = "freed"
    <3>1. c \in torn'
      BY <1>9, <2>2 DEF Copy
    <3> QED BY <3>1 DEF Holds
  <2>3. CASE c = dest /\ src # "freed" /\ c \in torn
    BY <1>9, <2>3 DEF Copy, Holds
  <2>4. CASE c = dest /\ src # "freed" /\ c \notin torn
    <3> DEFINE n == bufs[c].length
    <3>1. /\ Valid(c) /\ text \in Seq(Byte) /\ Len(text) \in Nat
          /\ bufs[c] \in Struct /\ Sound(bufs[c]) /\ bufs[c].state = "made"
          /\ n + Len(text) <= bufs[c].size
      <4>1. /\ Valid(c) /\ text \in Seq(Byte) /\ Len(text) \in Nat
            /\ bufs[c] \in Struct /\ Sound(bufs[c]) /\ bufs[c].state = "made"
        BY <1>9, <2>4, CopyWrites DEF TypeOK, Valid
      <4>2. n + Len(text) <= bufs[c].size
        BY <1>9, <2>4, <4>1 DEF Copy, NeedsRoom, Room, Struct
      <4> QED BY <4>1, <4>2
    <3>2. PICK w \in Seq(Byte) :
            /\ Len(w) \in {Len(text), Len(text) + 1}
            /\ \A i \in 1 .. Len(text) : w[i] = text[i]
            /\ bufs' = [bufs EXCEPT ![c] =
                   [bufs[c] EXCEPT !.bytes = Written(@, n, w), !.length = @ + Len(text)]]
      BY <1>9, <2>4, CopyWrites
    <3>3. /\ n \in Nat /\ bufs[c].size \in Nat /\ bufs[c].bytes \in Seq(Byte)
          /\ Len(bufs[c].bytes) = bufs[c].size
      BY <3>1 DEF Struct, Sound
    <3> DEFINE new == Written(bufs[c].bytes, n, w)
    <3>4. \A i \in 1 .. bufs[c].size : new[i] =
            IF i \in n + 1 .. n + Len(w) THEN w[i - n] ELSE bufs[c].bytes[i]
      BY <3>3, WrittenType, SMTT(30)
    <3> HIDE DEF new
    <3>5. bufs'[c].length = n + Len(text) /\ bufs'[c].bytes = new
      BY <3>1, <3>2, <1>t DEF Struct, new
    <3>6. told[c] = strbuf_str(c)
      BY <1>a, <2>4, <3>1 DEF Holds
    <3>7. /\ told[c] \in Seq(Byte) /\ Len(told[c]) = n
          /\ \A i \in 1 .. n : told[c][i] = bufs[c].bytes[i]
      BY <3>1, <3>6, StrType
    <3>8. told'[c] = told[c] \o text
      BY <1>9, <1>t, <2>4 DEF Copy
    <3>9. /\ told'[c] \in Seq(Byte) /\ Len(told'[c]) = n + Len(text)
          /\ \A i \in 1 .. n + Len(text) :
               told'[c][i] = IF i <= n THEN bufs[c].bytes[i] ELSE text[i - n]
      BY <3>1, <3>7, <3>8, ConcatProperties
    <3>10. \A i \in 1 .. n + Len(text) : new[i] = told'[c][i]
      <4> TAKE i \in 1 .. n + Len(text)
      <4>1. i \in 1 .. bufs[c].size /\ Len(w) \in Nat
        BY <3>1, <3>2, <3>3
      <4>2. CASE i <= n
        <5>1. i \notin n + 1 .. n + Len(w) /\ i \in 1 .. n
          BY <3>3, <4>1, <4>2
        <5> QED BY <3>4, <3>9, <4>1, <4>2, <5>1
      <4>3. CASE i > n
        <5>1. i \in n + 1 .. n + Len(w) /\ i - n \in 1 .. Len(text)
          BY <3>1, <3>2, <3>3, <4>3
        <5> QED BY <3>2, <3>3, <3>4, <3>9, <4>1, <4>3, <5>1, SMTT(30)
      <4> QED BY <3>3, <4>2, <4>3
    <3>11. strbuf_str(c)' = [i \in 1 .. n + Len(text) |-> told'[c][i]]
      BY <3>5, <3>10 DEF strbuf_str
    <3>12. told'[c] = [i \in 1 .. n + Len(text) |-> told'[c][i]]
      BY <3>9, LenProperties
    <3> QED BY <3>11, <3>12 DEF Holds
  <2> QED BY <2>1, <2>2, <2>3, <2>4
<1>10. CASE UNCHANGED vars
  BY <1>10, <1>a, Untouched DEF vars
<1> QED
  BY <1>1, <1>2, <1>3, <1>4, <1>5, <1>6, <1>7, <1>8, <1>9, <1>10 DEF Next

\* A buffer holds what it was told, in order and complete, however often
\* grow_strbuf moved its data, as long as no text came from freed data.
THEOREM StrbufHolds == Spec => []HoldsWhatItWasTold
<1>1. Init => HoldsWhatItWasTold
  BY DEF Init, HoldsWhatItWasTold, Holds, Valid, NoBuf
<1> QED BY <1>1, HoldsStep, StrbufTypeCorrect, PTL DEF Spec

\* A duplicate is created at the size of a buffer that holds the same text, so
\* the concatenation of strbuf_duplicate never grows it and never fails.
THEOREM StrbufDuplicateFits == Spec => []DuplicateFits
<1>1. Init => DuplicateFits
  BY DEF Init, DuplicateFits
<1>2. TypeOK /\ DuplicateFits /\ [Next]_vars => DuplicateFits'
  <2> SUFFICES ASSUME TypeOK, DuplicateFits, [Next]_vars, op' = "duplicate" PROVE ~NeedsRoom'
    BY DEF DuplicateFits
  <2>1. ASSUME NEW b \in Buf, NEW c \in Buf, strbuf_duplicate(b, c) PROVE ~NeedsRoom'
    <3>1. bufs[b] \in Struct /\ Sound(bufs[b]) /\ Len(strbuf_str(b)) = bufs[b].length
      BY <2>1, StrType DEF strbuf_duplicate, TypeOK
    <3>2. bufs'[c].length = 0 /\ bufs'[c].size = bufs[b].size
      BY <2>1 DEF strbuf_duplicate, TypeOK, Fresh, DuplicateSize
    <3>3. dest' = c /\ text' = strbuf_str(b)
      BY <2>1 DEF strbuf_duplicate
    <3> QED BY <3>1, <3>2, <3>3 DEF NeedsRoom, Room, Struct, Sound
  <2>2. ASSUME NEW moves \in BOOLEAN, Grow(moves) PROVE FALSE
    BY <2>2 DEF Grow, DuplicateFits
  <2>3. CASE UNCHANGED vars
    BY <2>3 DEF vars, DuplicateFits, NeedsRoom, Room
  <2> QED
    BY <2>1, <2>2, <2>3 DEF Next, strbuf_create, strbuf_destroy, strbuf_reset, AppendText,
       AppendBuffer, Begin, GrowFails, Copy, Finish, Idle
<1> QED BY <1>1, <1>2, StrbufTypeCorrect, PTL DEF Spec

\* When a strbuf_concatenate_printf has returned true, the text is followed by
\* the terminator, inside the data (str.c 260-276).
THEOREM StrbufPrintfTerminates == Spec => PrintfTerminates
<1> DEFINE Terminated ==
      op = "printf" /\ op' = "none" /\ bufs'[dest].state = "made" =>
        /\ bufs'[dest].length < bufs'[dest].size
        /\ bufs'[dest].bytes[bufs'[dest].length + 1] = Zero
<1>1. ASSUME TypeOK, Copy, op = "printf" PROVE Terminated
  <2>1. /\ dest \in Buf /\ Valid(dest) /\ Len(text) \in Nat
        /\ bufs[dest] \in Struct /\ Sound(bufs[dest]) /\ dest \in DOMAIN bufs
    BY <1>1, CopyWrites DEF TypeOK
  <2>2. PICK w \in Seq(Byte) :
          /\ Len(w) = Len(text) + 1 /\ w[Len(text) + 1] = Zero
          /\ bufs' = [bufs EXCEPT ![dest] =
               [bufs[dest] EXCEPT !.bytes  = Written(@, bufs[dest].length, w),
                                  !.length = @ + Len(text)]]
    BY <1>1, CopyWrites
  <2> DEFINE n == bufs[dest].length
             new == Written(bufs[dest].bytes, n, w)
  <2>3. /\ n \in Nat /\ bufs[dest].size \in Nat /\ bufs[dest].bytes \in Seq(Byte)
        /\ Len(bufs[dest].bytes) = bufs[dest].size
    BY <2>1 DEF Struct, Sound, Valid
  <2>4. n + Len(text) + 1 <= bufs[dest].size
    BY <1>1, <2>1, <2>3 DEF Copy, NeedsRoom, Room
  <2>5. new[n + Len(text) + 1] = w[Len(text) + 1]
    <3>1. /\ n + Len(text) + 1 \in 1 .. Len(bufs[dest].bytes)
          /\ n + Len(text) + 1 \in n + 1 .. n + Len(w)
          /\ n + Len(text) + 1 - n = Len(text) + 1
      BY <2>1, <2>2, <2>3, <2>4
    <3>2. new[n + Len(text) + 1] = w[n + Len(text) + 1 - n]
      BY <2>3, <3>1, WrittenType, SMTT(30)
    <3> QED BY <3>1, <3>2
  <2> HIDE DEF new
  <2>6. /\ bufs'[dest].length = n + Len(text) /\ bufs'[dest].size = bufs[dest].size
        /\ bufs'[dest].bytes = new
    BY <2>1, <2>2 DEF Struct, new
  <2>7. new[n + Len(text) + 1] = Zero
    BY <2>2, <2>5
  <2>8. n + Len(text) < bufs[dest].size
    BY <2>1, <2>3, <2>4
  <2> HIDE DEF n
  <2>9. bufs'[dest].length < bufs'[dest].size
    BY <2>6, <2>8
  <2>10. bufs'[dest].bytes[bufs'[dest].length + 1] = Zero
    BY <2>6, <2>7
  <2> QED BY <2>9, <2>10
<1>2. TypeOK /\ [Next]_vars => [Terminated]_vars
  <2> SUFFICES ASSUME TypeOK, Next, op = "printf", op' = "none", bufs'[dest].state = "made"
               PROVE  Copy
    BY <1>1
  <2>1. ~GrowFails
    <3> SUFFICES ASSUME GrowFails PROVE FALSE
      OBVIOUS
    <3>1. dest \in Buf /\ dest \in DOMAIN bufs
      BY DEF TypeOK, Idle
    <3> QED BY <3>1 DEF GrowFails, Broken
  <2> QED
    BY <2>1 DEF Next, strbuf_create, strbuf_destroy, strbuf_reset, AppendText, AppendBuffer,
       strbuf_duplicate, Begin, Grow, Idle
<1> QED BY <1>2, StrbufTypeCorrect, PTL DEF Spec, PrintfTerminates
=============================================================================
