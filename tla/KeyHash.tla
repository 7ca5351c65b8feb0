------------------------------- MODULE KeyHash -------------------------------
(***************************************************************************)
(* hash_str and hash_ptr of src/datastruct/map.c, on 32-bit words.  A word *)
(* is the pair of its high and its low 16 bits.  The loop of a key runs    *)
(* beside that of another key that differs from it in one place, so that   *)
(* the two hashes can be compared, and beside the FNV-1a of the key's      *)
(* octets as its authors define it.                                        *)
(***************************************************************************)
EXTENDS Integers, Sequences

CONSTANTS StrKeys,  \* strs, as sequences of bytes
          PtrKeys,  \* addresses, as sequences of bytes, the lowest first
          Byte

ASSUME KeyHashAssumption ==
  /\ Byte \subseteq 0 .. 255
  /\ StrKeys \cup PtrKeys \subseteq Seq(Byte)

VARIABLES signed,       \* whether char is signed, which C leaves to the build
          key, other,   \* [kind, bytes] of the keys
          i,            \* the index of the loops, -1 for the type's character
          hash, other_hash,
          fnv           \* reference: the FNV-1a of the octets of key so far

vars == <<signed, key, other, i, hash, other_hash, fnv>>

LIMB == 65536

\* The word of two sums of 16-bit halves: the carry goes up, and is lost above.
Word(high, low) == <<(high + low \div LIMB) % LIMB, low % LIMB>>

Basis == <<33052, 40389>>  \* 0x811c9dc5

\* The enum map_key_type.
MAP_KEY(kind) == CASE kind = "str" -> 0 [] kind = "ptr" -> 1

\* (uint32_t)c: a signed char is negative from 128 on and fills the high bits.
CharWord(c) == IF signed /\ c >= 128 THEN <<LIMB - 1, LIMB - 256 + c>> ELSE <<0, c>>

\* w << k, for m = 2^k.
ShiftLeft(w, m) == Word(w[1] * m, w[2] * m)

ShiftLeft24(w) == Word(w[2] * 256, 0)

\* Mutant of TimesPrime: the last shift is missing.
TimesPrimeShort(h) ==
  Word(h[1] + ShiftLeft(h, 2)[1] + ShiftLeft(h, 16)[1] + ShiftLeft(h, 128)[1] + ShiftLeft(h, 256)[1],
       h[2] + ShiftLeft(h, 2)[2] + ShiftLeft(h, 16)[2] + ShiftLeft(h, 128)[2] + ShiftLeft(h, 256)[2])

\* hash += (hash << 1) + (hash << 4) + (hash << 7) + (hash << 8) + (hash << 24)
TimesPrime(h) ==
  LET Sum(n) == h[n] + ShiftLeft(h, 2)[n] + ShiftLeft(h, 16)[n] + ShiftLeft(h, 128)[n]
                     + ShiftLeft(h, 256)[n] + ShiftLeft24(h)[n]
  IN Word(Sum(1), Sum(2))

\* Exclusive or of naturals of 1, 2, 4, 8 and 16 bits: that of their upper and
\* that of their lower bits.
Xor1(x, y)  == (x + y) % 2
Xor2(x, y)  == 2 * Xor1(x \div 2, y \div 2) + Xor1(x % 2, y % 2)
Xor4(x, y)  == 4 * Xor2(x \div 4, y \div 4) + Xor2(x % 4, y % 4)
Xor8(x, y)  == 16 * Xor4(x \div 16, y \div 16) + Xor4(x % 16, y % 16)
Xor16(x, y) == 256 * Xor8(x \div 256, y \div 256) + Xor8(x % 256, y % 256)

XorWord(v, w) == <<Xor16(v[1], w[1]), Xor16(v[2], w[2])>>

\* Mutant of Mix: |= for ^=.  The bits of either are those of one and of both.
MixOr(h, c) ==
  LET Or(x, y) == (x + y + Xor16(x, y)) \div 2
  IN TimesPrime(<<Or(h[1], CharWord(c)[1]), Or(h[2], CharWord(c)[2])>>)

\* One character goes into the hash.
Mix(h, c) == TimesPrime(XorWord(h, CharWord(c)))

\* FNV-1a, for reference: each octet goes into the low bits, and the product
\* with the prime 0x01000193 is taken of halves.
Fnv1a(h, octet) ==
  LET low == Xor16(h[2], octet)
  IN Word(h[1] * 403 + low * 256, low * 403)

-----------------------------------------------------------------------------
KeyOf(kind, bytes) == [kind |-> kind, bytes |-> bytes]

\* The keys that differ from key in one byte, or in kind alone.
OneByteOff(k) ==
  {KeyOf(k.kind, [k.bytes EXCEPT ![n] = b]) : n \in DOMAIN k.bytes, b \in Byte} \ {k}

OtherKind(k) ==
  {KeyOf(kind, k.bytes) : kind \in {x \in {"str", "ptr"} : x # k.kind /\ k.bytes \in PtrKeys}}

Init ==
  /\ signed \in BOOLEAN
  /\ key \in {KeyOf("str", b) : b \in StrKeys} \cup {KeyOf("ptr", b) : b \in PtrKeys}
  /\ other \in OneByteOff(key) \cup OtherKind(key)
  /\ i = -1
  /\ hash = Basis /\ other_hash = Basis /\ fnv = Basis

HashKind ==
  /\ i = -1
  /\ i' = 0
  /\ hash' = Mix(hash, MAP_KEY(key.kind)) /\ other_hash' = Mix(other_hash, MAP_KEY(other.kind))
  /\ fnv' = Fnv1a(fnv, MAP_KEY(key.kind))
  /\ UNCHANGED <<signed, key, other>>

HashByte ==
  /\ i \in 0 .. Len(key.bytes) - 1
  /\ i' = i + 1
  /\ hash' = Mix(hash, key.bytes[i + 1]) /\ other_hash' = Mix(other_hash, other.bytes[i + 1])
  /\ fnv' = Fnv1a(fnv, key.bytes[i + 1])
  /\ UNCHANGED <<signed, key, other>>

Next == HashKind \/ HashByte

Spec == Init /\ [][Next]_vars

-----------------------------------------------------------------------------
Hashed == i = Len(key.bytes)

\* Keys that differ in one byte alone never collide, whatever bytes they share
\* before and after it, and a str never collides with an address of the same
\* bytes (map.c 48-49): no step of the hash forgets anything.
OneChangeApart == Hashed => hash # other_hash

\* The shifts multiply by the prime: the hash is the FNV-1a of the type's
\* character and the key (map.c 45), as long as no character is negative.
IsFnv1a ==
  Hashed /\ (~signed \/ \A n \in DOMAIN key.bytes : key.bytes[n] < 128) =>
    hash = fnv
=============================================================================
