--------------------------- MODULE KeyHashProofs ---------------------------
(***************************************************************************)
(* Proofs about module KeyHash, for keys of any length and any bytes.  A   *)
(* step of the hash is one-to-one: the exclusive or with a character can   *)
(* be undone, and so can the product with the odd prime, modulo 2^32.      *)
(***************************************************************************)
EXTENDS KeyHash, TLAPS

-----------------------------------------------------------------------------
\* What the proofs need of an exclusive or of naturals below n.
Below(x, n) == x \in Nat /\ x < n

IsXor(Xor(_, _), n) ==
  /\ \A x, y : Below(x, n) /\ Below(y, n) => Below(Xor(x, y), n) /\ Xor(x, y) = Xor(y, x)
  /\ \A x : Below(x, n) => Xor(x, 0) = x
  /\ \A x, y, z : Below(x, n) /\ Below(y, n) /\ Below(z, n) /\ Xor(x, z) = Xor(y, z) => x = y

\* One lemma for each width, as the induction over the widths is not one the
\* provers can do: the upper and the lower halves are told apart by division.
LEMMA Xor1Is == IsXor(Xor1, 2)
BY DEF IsXor, Xor1, Below

LEMMA Xor2Is == IsXor(Xor2, 4)
<1> DEFINE H(x) == x \div 2
           L(x) == x % 2
<1>1. \A x : Below(x, 4) => Below(H(x), 2) /\ Below(L(x), 2) /\ x = 2 * H(x) + L(x)
  BY DEF Below
<1>2. H(0) = 0 /\ L(0) = 0
  OBVIOUS
<1>3. \A x, y : Xor2(x, y) = 2 * Xor1(H(x), H(y)) + Xor1(L(x), L(y))
  BY DEF Xor2
<1>4. /\ \A x, y : Below(x, 2) /\ Below(y, 2) => Below(Xor1(x, y), 2) /\ Xor1(x, y) = Xor1(y, x)
      /\ \A x : Below(x, 2) => Xor1(x, 0) = x
      /\ \A x, y, z : Below(x, 2) /\ Below(y, 2) /\ Below(z, 2) /\ Xor1(x, z) = Xor1(y, z) => x = y
  BY Xor1Is DEF IsXor
<1> HIDE DEF H, L
<1>5. ASSUME NEW x, NEW y, Below(x, 4), Below(y, 4)
      PROVE  Below(Xor2(x, y), 4) /\ Xor2(x, y) = Xor2(y, x)
  <2>1. /\ Below(Xor1(H(x), H(y)), 2) /\ Below(Xor1(L(x), L(y)), 2)
        /\ Xor1(H(x), H(y)) = Xor1(H(y), H(x)) /\ Xor1(L(x), L(y)) = Xor1(L(y), L(x))
    BY <1>1, <1>4, <1>5
  <2> QED BY <1>3, <2>1 DEF Below
<1>6. ASSUME NEW x, Below(x, 4) PROVE Xor2(x, 0) = x
  BY <1>1, <1>2, <1>3, <1>4, <1>6
<1>7. ASSUME NEW x, NEW y, NEW z, Below(x, 4), Below(y, 4), Below(z, 4),
             Xor2(x, z) = Xor2(y, z)
      PROVE  x = y
  <2>1. /\ Below(Xor1(H(x), H(z)), 2) /\ Below(Xor1(L(x), L(z)), 2)
        /\ Below(Xor1(H(y), H(z)), 2) /\ Below(Xor1(L(y), L(z)), 2)
    BY <1>1, <1>4, <1>7
  <2>2. 2 * Xor1(H(x), H(z)) + Xor1(L(x), L(z)) = 2 * Xor1(H(y), H(z)) + Xor1(L(y), L(z))
    BY <1>3, <1>7
  <2>3. Xor1(H(x), H(z)) = Xor1(H(y), H(z)) /\ Xor1(L(x), L(z)) = Xor1(L(y), L(z))
    BY <2>1, <2>2 DEF Below
  <2>4. H(x) = H(y) /\ L(x) = L(y)
    BY <1>1, <1>4, <1>7, <2>3
  <2> QED BY <1>1, <1>7, <2>4
<1> QED BY <1>5, <1>6, <1>7 DEF IsXor

LEMMA Xor4Is == IsXor(Xor4, 16)
<1> DEFINE H(x) == x \div 4
           L(x) == x % 4
<1>1. \A x : Below(x, 16) => Below(H(x), 4) /\ Below(L(x), 4) /\ x = 4 * H(x) + L(x)
  BY DEF Below
<1>2. H(0) = 0 /\ L(0) = 0
  OBVIOUS
<1>3. \A x, y : Xor4(x, y) = 4 * Xor2(H(x), H(y)) + Xor2(L(x), L(y))
  BY DEF Xor4
<1>4. /\ \A x, y : Below(x, 4) /\ Below(y, 4) => Below(Xor2(x, y), 4) /\ Xor2(x, y) = Xor2(y, x)
      /\ \A x : Below(x, 4) => Xor2(x, 0) = x
      /\ \A x, y, z : Below(x, 4) /\ Below(y, 4) /\ Below(z, 4) /\ Xor2(x, z) = Xor2(y, z) => x = y
  BY Xor2Is DEF IsXor
<1> HIDE DEF H, L
<1>5. ASSUME NEW x, NEW y, Below(x, 16), Below(y, 16)
      PROVE  Below(Xor4(x, y), 16) /\ Xor4(x, y) = Xor4(y, x)
  <2>1. /\ Below(Xor2(H(x), H(y)), 4) /\ Below(Xor2(L(x), L(y)), 4)
        /\ Xor2(H(x), H(y)) = Xor2(H(y), H(x)) /\ Xor2(L(x), L(y)) = Xor2(L(y), L(x))
    BY <1>1, <1>4, <1>5
  <2> QED BY <1>3, <2>1 DEF Below
<1>6. ASSUME NEW x, Below(x, 16) PROVE Xor4(x, 0) = x
  BY <1>1, <1>2, <1>3, <1>4, <1>6
<1>7. ASSUME NEW x, NEW y, NEW z, Below(x, 16), Below(y, 16), Below(z, 16),
             Xor4(x, z) = Xor4(y, z)
      PROVE  x = y
  <2>1. /\ Below(Xor2(H(x), H(z)), 4) /\ Below(Xor2(L(x), L(z)), 4)
        /\ Below(Xor2(H(y), H(z)), 4) /\ Below(Xor2(L(y), L(z)), 4)
    BY <1>1, <1>4, <1>7
  <2>2. 4 * Xor2(H(x), H(z)) + Xor2(L(x), L(z)) = 4 * Xor2(H(y), H(z)) + Xor2(L(y), L(z))
    BY <1>3, <1>7
  <2>3. Xor2(H(x), H(z)) = Xor2(H(y), H(z)) /\ Xor2(L(x), L(z)) = Xor2(L(y), L(z))
    BY <2>1, <2>2 DEF Below
  <2>4. H(x) = H(y) /\ L(x) = L(y)
    BY <1>1, <1>4, <1>7, <2>3
  <2> QED BY <1>1, <1>7, <2>4
<1> QED BY <1>5, <1>6, <1>7 DEF IsXor

LEMMA Xor8Is == IsXor(Xor8, 256)
<1> DEFINE H(x) == x \div 16
           L(x) == x % 16
<1>1. \A x : Below(x, 256) => Below(H(x), 16) /\ Below(L(x), 16) /\ x = 16 * H(x) + L(x)
  BY DEF Below
<1>2. H(0) = 0 /\ L(0) = 0
  OBVIOUS
<1>3. \A x, y : Xor8(x, y) = 16 * Xor4(H(x), H(y)) + Xor4(L(x), L(y))
  BY DEF Xor8
<1>4. /\ \A x, y : Below(x, 16) /\ Below(y, 16) => Below(Xor4(x, y), 16) /\ Xor4(x, y) = Xor4(y, x)
      /\ \A x : Below(x, 16) => Xor4(x, 0) = x
      /\ \A x, y, z : Below(x, 16) /\ Below(y, 16) /\ Below(z, 16) /\ Xor4(x, z) = Xor4(y, z) => x = y
  BY Xor4Is DEF IsXor
<1> HIDE DEF H, L
<1>5. ASSUME NEW x, NEW y, Below(x, 256), Below(y, 256)
      PROVE  Below(Xor8(x, y), 256) /\ Xor8(x, y) = Xor8(y, x)
  <2>1. /\ Below(Xor4(H(x), H(y)), 16) /\ Below(Xor4(L(x), L(y)), 16)
        /\ Xor4(H(x), H(y)) = Xor4(H(y), H(x)) /\ Xor4(L(x), L(y)) = Xor4(L(y), L(x))
    BY <1>1, <1>4, <1>5
  <2> QED BY <1>3, <2>1 DEF Below
<1>6. ASSUME NEW x, Below(x, 256) PROVE Xor8(x, 0) = x
  BY <1>1, <1>2, <1>3, <1>4, <1>6
<1>7. ASSUME NEW x, NEW y, NEW z, Below(x, 256), Below(y, 256), Below(z, 256),
             Xor8(x, z) = Xor8(y, z)
      PROVE  x = y
  <2>1. /\ Below(Xor4(H(x), H(z)), 16) /\ Below(Xor4(L(x), L(z)), 16)
        /\ Below(Xor4(H(y), H(z)), 16) /\ Below(Xor4(L(y), L(z)), 16)
    BY <1>1, <1>4, <1>7
  <2>2. 16 * Xor4(H(x), H(z)) + Xor4(L(x), L(z)) = 16 * Xor4(H(y), H(z)) + Xor4(L(y), L(z))
    BY <1>3, <1>7
  <2>3. Xor4(H(x), H(z)) = Xor4(H(y), H(z)) /\ Xor4(L(x), L(z)) = Xor4(L(y), L(z))
    BY <2>1, <2>2 DEF Below
  <2>4. H(x) = H(y) /\ L(x) = L(y)
    BY <1>1, <1>4, <1>7, <2>3
  <2> QED BY <1>1, <1>7, <2>4
<1> QED BY <1>5, <1>6, <1>7 DEF IsXor

LEMMA Xor16Is == IsXor(Xor16, 65536)
<1> DEFINE H(x) == x \div 256
           L(x) == x % 256
<1>1. \A x : Below(x, 65536) => Below(H(x), 256) /\ Below(L(x), 256) /\ x = 256 * H(x) + L(x)
  BY DEF Below
<1>2. H(0) = 0 /\ L(0) = 0
  OBVIOUS
<1>3. \A x, y : Xor16(x, y) = 256 * Xor8(H(x), H(y)) + Xor8(L(x), L(y))
  BY DEF Xor16
<1>4. /\ \A x, y : Below(x, 256) /\ Below(y, 256) => Below(Xor8(x, y), 256) /\ Xor8(x, y) = Xor8(y, x)
      /\ \A x : Below(x, 256) => Xor8(x, 0) = x
      /\ \A x, y, z : Below(x, 256) /\ Below(y, 256) /\ Below(z, 256) /\ Xor8(x, z) = Xor8(y, z) => x = y
  BY Xor8Is DEF IsXor
<1> HIDE DEF H, L
<1>5. ASSUME NEW x, NEW y, Below(x, 65536), Below(y, 65536)
      PROVE  Below(Xor16(x, y), 65536) /\ Xor16(x, y) = Xor16(y, x)
  <2>1. /\ Below(Xor8(H(x), H(y)), 256) /\ Below(Xor8(L(x), L(y)), 256)
        /\ Xor8(H(x), H(y)) = Xor8(H(y), H(x)) /\ Xor8(L(x), L(y)) = Xor8(L(y), L(x))
    BY <1>1, <1>4, <1>5
  <2> QED BY <1>3, <2>1 DEF Below
<1>6. ASSUME NEW x, Below(x, 65536) PROVE Xor16(x, 0) = x
  BY <1>1, <1>2, <1>3, <1>4, <1>6
<1>7. ASSUME NEW x, NEW y, NEW z, Below(x, 65536), Below(y, 65536), Below(z, 65536),
             Xor16(x, z) = Xor16(y, z)
      PROVE  x = y
  <2>1. /\ Below(Xor8(H(x), H(z)), 256) /\ Below(Xor8(L(x), L(z)), 256)
        /\ Below(Xor8(H(y), H(z)), 256) /\ Below(Xor8(L(y), L(z)), 256)
    BY <1>1, <1>4, <1>7
  <2>2. 256 * Xor8(H(x), H(z)) + Xor8(L(x), L(z)) = 256 * Xor8(H(y), H(z)) + Xor8(L(y), L(z))
    BY <1>3, <1>7
  <2>3. Xor8(H(x), H(z)) = Xor8(H(y), H(z)) /\ Xor8(L(x), L(z)) = Xor8(L(y), L(z))
    BY <2>1, <2>2 DEF Below
  <2>4. H(x) = H(y) /\ L(x) = L(y)
    BY <1>1, <1>4, <1>7, <2>3
  <2> QED BY <1>1, <1>7, <2>4
<1> QED BY <1>5, <1>6, <1>7 DEF IsXor


-----------------------------------------------------------------------------
\* A word and its value.
IsWord(w) == w = <<w[1], w[2]>> /\ Below(w[1], 65536) /\ Below(w[2], 65536)

Val(w) == 65536 * w[1] + w[2]

MODULUS == 4294967296

\* Equality modulo 2^32.
Congruent(a, b) == \E q \in Int : a = b + MODULUS * q

LEMMA CongruentTwice ==
  ASSUME NEW a \in Int, NEW b \in Int, NEW c \in Int, Congruent(a, b), Congruent(b, c)
  PROVE  Congruent(a, c)
<1>1. PICK q \in Int : a = b + MODULUS * q
  BY Zenon DEF Congruent
<1>2. PICK r \in Int : b = c + MODULUS * r
  BY Zenon DEF Congruent
<1>3. a = c + MODULUS * (q + r) /\ q + r \in Int
  BY SMT, <1>1, <1>2 DEF MODULUS
<1> QED BY Zenon, <1>3 DEF Congruent

LEMMA CongruentBack ==
  ASSUME NEW a \in Int, NEW b \in Int, Congruent(a, b)
  PROVE  Congruent(b, a)
<1>1. PICK q \in Int : a = b + MODULUS * q
  BY Zenon DEF Congruent
<1> DEFINE r == -q
<1>2. b = a + MODULUS * r /\ r \in Int
  BY SMT, <1>1 DEF MODULUS
<1> HIDE DEF r
<1> QED BY Zenon, <1>2 DEF Congruent

LEMMA Halves ==
  ASSUME NEW a \in Nat, NEW b \in Nat, NEW c \in Nat, NEW d \in Nat, b < 65536, d < 65536,
         65536 * a + b = 65536 * c + d
  PROVE  a = c /\ b = d
BY SMT

LEMMA WordHalves ==
  ASSUME NEW w, IsWord(w)
  PROVE  w[1] \in Nat /\ w[2] \in Nat /\ w[1] < 65536 /\ w[2] < 65536
BY SMT DEF IsWord, Below

LEMMA ValBelow ==
  ASSUME NEW w, IsWord(w)
  PROVE  Val(w) \in Nat /\ Val(w) < MODULUS
BY SMT, WordHalves DEF Val, MODULUS

LEMMA SameValue ==
  ASSUME NEW v, NEW w, IsWord(v), IsWord(w), Val(v) = Val(w)
  PROVE  v = w
<1>1. 65536 * v[1] + v[2] = 65536 * w[1] + w[2]
  BY SMT DEF Val
<1>2. /\ v[1] \in Nat /\ v[2] \in Nat /\ v[1] < 65536 /\ v[2] < 65536
      /\ w[1] \in Nat /\ w[2] \in Nat /\ w[1] < 65536 /\ w[2] < 65536
  BY SMT, WordHalves
<1> DEFINE a == v[1]
           b == v[2]
           c == w[1]
           d == w[2]
<1> HIDE DEF a, b, c, d
<1>3. /\ a \in Nat /\ b \in Nat /\ c \in Nat /\ d \in Nat /\ b < 65536 /\ d < 65536
      /\ 65536 * a + b = 65536 * c + d
  BY SMT, <1>1, <1>2 DEF a, b, c, d
<1>4. a = c /\ b = d
  BY SMT, <1>3
<1>5. v[1] = w[1] /\ v[2] = w[2]
  BY SMT, <1>4 DEF a, b, c, d
<1> QED BY SMT, <1>5 DEF IsWord

LEMMA SameWord ==
  ASSUME NEW v, NEW w, IsWord(v), IsWord(w), Congruent(Val(v), Val(w))
  PROVE  v = w
<1>1. PICK q \in Int : Val(v) = Val(w) + MODULUS * q
  BY Zenon DEF Congruent
<1>2. Val(v) \in Nat /\ Val(v) < MODULUS /\ Val(w) \in Nat /\ Val(w) < MODULUS
  BY SMT, ValBelow
<1>3. Val(v) = Val(w)
  BY SMT, <1>1, <1>2 DEF MODULUS
<1> QED BY SMT, <1>3, SameValue

LEMMA WordValue ==
  ASSUME NEW a \in Nat, NEW b \in Nat
  PROVE  IsWord(Word(a, b)) /\ Congruent(Val(Word(a, b)), 65536 * a + b)
<1> DEFINE c == a + b \div 65536
           high == c % 65536
           low == b % 65536
           q == -(c \div 65536)
<1>1. Word(a, b) = <<high, low>>
  BY SMT DEF Word, LIMB
<1>2. b \div 65536 \in Nat /\ b = 65536 * (b \div 65536) + low /\ Below(low, 65536)
  BY SMT DEF Below
<1>3. c \in Nat /\ c \div 65536 \in Nat /\ c = 65536 * (c \div 65536) + high /\ Below(high, 65536)
  BY SMT, <1>2 DEF Below
<1>4. 65536 * high + low = (65536 * a + b) + MODULUS * q /\ q \in Int
  BY SMT, <1>2, <1>3 DEF Below, MODULUS
<1> HIDE DEF c, high, low, q
<1>5. IsWord(Word(a, b)) /\ Val(Word(a, b)) = 65536 * high + low
  BY SMT, <1>1, <1>2, <1>3 DEF IsWord, Val
<1>6. Congruent(Val(Word(a, b)), 65536 * a + b)
  <2> DEFINE sum == 65536 * a + b
             value == 65536 * high + low
  <2>1. value = sum + MODULUS * q /\ q \in Int
    BY SMT, <1>4
  <2> HIDE DEF sum, value
  <2>2. Congruent(value, sum)
    BY Zenon, <2>1 DEF Congruent
  <2> QED BY SMT, <2>2, <1>5 DEF sum, value
<1> QED BY SMT, <1>5, <1>6

\* A shift by k multiplies by m = 2^k.
LEMMA ShiftValue ==
  ASSUME NEW h, IsWord(h), NEW m \in Nat
  PROVE  IsWord(ShiftLeft(h, m)) /\ Congruent(Val(ShiftLeft(h, m)), m * Val(h))
<1>1. h[1] \in Nat /\ h[2] \in Nat
  BY SMT, WordHalves
<1>2. h[1] * m \in Nat /\ h[2] * m \in Nat /\ 65536 * (h[1] * m) + h[2] * m = m * Val(h)
  BY SMT, <1>1 DEF Val
<1> DEFINE a == h[1] * m
           b == h[2] * m
<1>3. a \in Nat /\ b \in Nat /\ ShiftLeft(h, m) = Word(a, b) /\ 65536 * a + b = m * Val(h)
  BY SMT, <1>2 DEF ShiftLeft
<1> HIDE DEF a, b
<1>4. IsWord(Word(a, b)) /\ Congruent(Val(Word(a, b)), 65536 * a + b)
  BY SMT, <1>3, WordValue
<1> QED BY SMT, <1>3, <1>4

LEMMA Shift24Value ==
  ASSUME NEW h, IsWord(h)
  PROVE  IsWord(ShiftLeft24(h)) /\ Congruent(Val(ShiftLeft24(h)), 16777216 * Val(h))
<1>1. h[1] \in Nat /\ h[2] \in Nat
  BY SMT, WordHalves
<1> DEFINE a == h[2] * 256
<1>2. a \in Nat /\ ShiftLeft24(h) = Word(a, 0)
  BY SMT, <1>1 DEF ShiftLeft24
<1>3. 65536 * a + 0 = 16777216 * Val(h) + MODULUS * (-256 * h[1])
  BY SMT, <1>1 DEF Val, MODULUS
<1> HIDE DEF a
<1>4. IsWord(Word(a, 0)) /\ Congruent(Val(Word(a, 0)), 65536 * a + 0)
  BY SMT, <1>2, WordValue
<1> DEFINE x == 65536 * a + 0
           y == 16777216 * Val(h)
           q == -256 * h[1]
<1>5. x = y + MODULUS * q
  BY SMT, <1>3
<1>6. x \in Int /\ y \in Int /\ q \in Int /\ Val(Word(a, 0)) \in Int
  BY SMT, <1>1, <1>2, <1>4, ValBelow
<1> HIDE DEF x, y, q
<1>7. Congruent(x, y)
  BY Zenon, <1>5, <1>6 DEF Congruent
<1>8. Congruent(Val(Word(a, 0)), x)
  BY SMT, <1>4 DEF x
<1>9. Congruent(Val(Word(a, 0)), y)
  BY SMT, <1>6, <1>7, <1>8, CongruentTwice
<1> QED BY SMT, <1>2, <1>4, <1>9 DEF y

\* The shifts and sums multiply by the prime 16777619 = 0x01000193.
LEMMA PrimeValue ==
  ASSUME NEW h, IsWord(h)
  PROVE  IsWord(TimesPrime(h)) /\ Congruent(Val(TimesPrime(h)), 16777619 * Val(h))
<1> DEFINE s2 == ShiftLeft(h, 2)
           s16 == ShiftLeft(h, 16)
           s128 == ShiftLeft(h, 128)
           s256 == ShiftLeft(h, 256)
           s24 == ShiftLeft24(h)
           high == h[1] + s2[1] + s16[1] + s128[1] + s256[1] + s24[1]
           low == h[2] + s2[2] + s16[2] + s128[2] + s256[2] + s24[2]
           sum == 65536 * high + low
           product == 16777619 * Val(h)
<1>1. TimesPrime(h) = Word(high, low)
  BY SMT DEF TimesPrime
<1>2. /\ IsWord(s2) /\ Congruent(Val(s2), 2 * Val(h))
      /\ IsWord(s16) /\ Congruent(Val(s16), 16 * Val(h))
      /\ IsWord(s128) /\ Congruent(Val(s128), 128 * Val(h))
      /\ IsWord(s256) /\ Congruent(Val(s256), 256 * Val(h))
      /\ IsWord(s24) /\ Congruent(Val(s24), 16777216 * Val(h))
  BY SMT, ShiftValue, Shift24Value
<1> HIDE DEF s2, s16, s128, s256, s24
<1>3. /\ high \in Nat /\ low \in Nat
      /\ sum = Val(h) + Val(s2) + Val(s16) + Val(s128) + Val(s256) + Val(s24)
  BY SMT, <1>2, WordHalves DEF Val
<1>4. /\ Val(h) \in Int /\ Val(s2) \in Int /\ Val(s16) \in Int /\ Val(s128) \in Int
      /\ Val(s256) \in Int /\ Val(s24) \in Int
  BY SMT, <1>2, ValBelow
<1>5. PICK a \in Int : Val(s2) = 2 * Val(h) + MODULUS * a
  BY SMT, <1>2 DEF Congruent
<1>6. PICK b \in Int : Val(s16) = 16 * Val(h) + MODULUS * b
  BY SMT, <1>2 DEF Congruent
<1>7. PICK c \in Int : Val(s128) = 128 * Val(h) + MODULUS * c
  BY SMT, <1>2 DEF Congruent
<1>8. PICK d \in Int : Val(s256) = 256 * Val(h) + MODULUS * d
  BY SMT, <1>2 DEF Congruent
<1>9. PICK e \in Int : Val(s24) = 16777216 * Val(h) + MODULUS * e
  BY SMT, <1>2 DEF Congruent
<1> DEFINE q == a + b + c + d + e
<1>10. q \in Int
  BY SMT
<1> HIDE DEF high, low
<1>11. sum = product + MODULUS * q
  BY SMT, <1>3, <1>4, <1>5, <1>6, <1>7, <1>8, <1>9 DEF MODULUS
<1>12. sum \in Int /\ product \in Int
  BY SMT, <1>3, <1>4
<1>13. IsWord(Word(high, low)) /\ Congruent(Val(Word(high, low)), sum)
  BY SMT, <1>3, WordValue
<1>14. Val(Word(high, low)) \in Int
  BY SMT, <1>13, ValBelow
<1> HIDE DEF q, sum, product
<1>15. Congruent(sum, product)
  BY Zenon, <1>10, <1>11 DEF Congruent
<1>16. Congruent(Val(Word(high, low)), product)
  BY SMT, <1>12, <1>13, <1>14, <1>15, CongruentTwice
<1> QED BY SMT, <1>1, <1>13, <1>16 DEF product

\* The product can be undone: the prime times its inverse 899433627 is
\* 1 + 3513497 * 2^32.
LEMMA TimesPrimeOneToOne ==
  ASSUME NEW v, NEW w, IsWord(v), IsWord(w), TimesPrime(v) = TimesPrime(w)
  PROVE  v = w
<1> DEFINE x == Val(v)
           y == Val(w)
           z == Val(TimesPrime(v))
<1>1. x \in Int /\ y \in Int /\ z \in Int
  BY SMT, ValBelow, PrimeValue
<1>2. Congruent(z, 16777619 * x) /\ Congruent(z, 16777619 * y)
  BY SMT, PrimeValue
<1> HIDE DEF x, y, z
<1>3. PICK q \in Int : z = 16777619 * x + MODULUS * q
  BY SMT, <1>2 DEF Congruent
<1>4. PICK r \in Int : z = 16777619 * y + MODULUS * r
  BY SMT, <1>2 DEF Congruent
<1> DEFINE t == 899433627 * (r - q) - 3513497 * (x - y)
<1>5. t \in Int /\ x = y + MODULUS * t
  BY SMT, <1>1, <1>3, <1>4 DEF MODULUS
<1> HIDE DEF t
<1>6. Congruent(x, y)
  BY Zenon, <1>5 DEF Congruent
<1> QED BY SMT, <1>6, SameWord DEF x, y

-----------------------------------------------------------------------------
\* A character goes into a word, and different characters into different words.
LEMMA CharWords ==
  ASSUME NEW c \in 0 .. 255
  PROVE  /\ IsWord(CharWord(c))
         /\ ~signed \/ c < 128 => CharWord(c) = <<0, c>>
         /\ \A d \in 0 .. 255 : CharWord(c) = CharWord(d) => c = d
<1>1. IsWord(CharWord(c)) /\ (~signed \/ c < 128 => CharWord(c) = <<0, c>>)
  BY SMT DEF CharWord, IsWord, Below, LIMB
<1>2. ASSUME NEW d \in 0 .. 255, CharWord(c) = CharWord(d) PROVE c = d
  BY SMT, <1>2 DEF CharWord, LIMB
<1> QED BY <1>1, <1>2

LEMMA XorWordIs ==
  ASSUME NEW v, NEW w, IsWord(v), IsWord(w)
  PROVE  /\ IsWord(XorWord(v, w))
         /\ XorWord(v, w) = XorWord(w, v)
         /\ \A u : IsWord(u) /\ XorWord(u, w) = XorWord(v, w) => u = v
<1>1. /\ \A x, y : Below(x, 65536) /\ Below(y, 65536) =>
                     Below(Xor16(x, y), 65536) /\ Xor16(x, y) = Xor16(y, x)
      /\ \A x, y, z : Below(x, 65536) /\ Below(y, 65536) /\ Below(z, 65536)
                      /\ Xor16(x, z) = Xor16(y, z) => x = y
  BY SMT, Xor16Is DEF IsXor
<1>2. IsWord(XorWord(v, w)) /\ XorWord(v, w) = XorWord(w, v)
  BY SMT, <1>1 DEF XorWord, IsWord
<1>3. ASSUME NEW u, IsWord(u), XorWord(u, w) = XorWord(v, w) PROVE u = v
  <2>1. Xor16(u[1], w[1]) = Xor16(v[1], w[1]) /\ Xor16(u[2], w[2]) = Xor16(v[2], w[2])
    BY SMT, <1>3 DEF XorWord
  <2>2. u[1] = v[1] /\ u[2] = v[2]
    BY SMT, <1>1, <1>3, <2>1 DEF IsWord
  <2> QED BY SMT, <1>3, <2>2 DEF IsWord
<1> QED BY SMT, <1>2, <1>3

\* No step of the hash forgets anything: it can be undone in the hash, for the
\* same character, and in the character, for the same hash.
LEMMA MixOneToOne ==
  ASSUME NEW v, NEW w, IsWord(v), IsWord(w), NEW c \in 0 .. 255, NEW d \in 0 .. 255
  PROVE  /\ IsWord(Mix(v, c))
         /\ v # w => Mix(v, c) # Mix(w, c)
         /\ c # d => Mix(v, c) # Mix(v, d)
<1> DEFINE a == CharWord(c)
           b == CharWord(d)
<1>1. IsWord(a) /\ IsWord(b) /\ (a = b => c = d)
  BY Zenon, CharWords
<1>2. Mix(v, c) = TimesPrime(XorWord(v, a)) /\ Mix(w, c) = TimesPrime(XorWord(w, a))
      /\ Mix(v, d) = TimesPrime(XorWord(v, b))
  BY SMT DEF Mix
<1> HIDE DEF a, b
<1>3. IsWord(XorWord(v, a)) /\ IsWord(XorWord(w, a)) /\ IsWord(XorWord(v, b))
  BY SMT, <1>1, XorWordIs
<1>4. IsWord(Mix(v, c))
  BY SMT, <1>2, <1>3, PrimeValue
<1>5. ASSUME Mix(v, c) = Mix(w, c) PROVE v = w
  <2>1. TimesPrime(XorWord(v, a)) = TimesPrime(XorWord(w, a))
    BY SMT, <1>2, <1>5
  <2>2. XorWord(v, a) = XorWord(w, a)
    BY Zenon, <1>3, <2>1, TimesPrimeOneToOne
  <2> QED BY SMT, <1>1, <2>2, XorWordIs
<1>6. ASSUME Mix(v, c) = Mix(v, d) PROVE c = d
  <2>1. TimesPrime(XorWord(v, a)) = TimesPrime(XorWord(v, b))
    BY SMT, <1>2, <1>6
  <2>2. XorWord(v, a) = XorWord(v, b)
    BY Zenon, <1>3, <2>1, TimesPrimeOneToOne
  <2>3. XorWord(a, v) = XorWord(b, v)
    BY SMT, <1>1, <2>2, XorWordIs
  <2>4. a = b
    BY SMT, <1>1, <2>3, XorWordIs
  <2> QED BY <1>1, <2>4
<1> QED BY <1>4, <1>5, <1>6

\* A step with a character that is not negative is one of FNV-1a.
LEMMA MixIsFnv1a ==
  ASSUME NEW h, IsWord(h), NEW c \in 0 .. 255, ~signed \/ c < 128
  PROVE  Mix(h, c) = Fnv1a(h, c)
<1> DEFINE low == Xor16(h[2], c)
           w == <<h[1], low>>
           high == h[1] * 403 + low * 256
           low403 == low * 403
           f == Word(high, low403)
           sum == 65536 * high + low403
           product == 16777619 * Val(w)
           t == -256 * h[1]
<1>1. Below(h[1], 65536) /\ Below(h[2], 65536) /\ Below(c, 65536)
  BY SMT DEF IsWord, Below
<1>2. Below(low, 65536) /\ Xor16(h[1], 0) = h[1]
  BY SMT, <1>1, Xor16Is DEF IsXor
<1>3. XorWord(h, CharWord(c)) = w
  <2>1. CharWord(c) = <<0, c>>
    BY Zenon, CharWords
  <2> QED BY SMT, <1>2, <2>1 DEF XorWord
<1>4. IsWord(w) /\ Mix(h, c) = TimesPrime(w)
  BY SMT, <1>1, <1>2, <1>3 DEF IsWord, Mix
<1>5. Fnv1a(h, c) = f
  BY SMT DEF Fnv1a
<1>6. low \in Nat /\ h[1] \in Nat
  BY SMT, <1>1, <1>2 DEF Below
<1> HIDE DEF low
<1>7. t \in Int /\ sum = product + MODULUS * t
  BY SMT, <1>6 DEF Val, MODULUS
<1>8. high \in Nat /\ low403 \in Nat
  BY SMT, <1>6
<1> HIDE DEF high, low403, w
<1>9. IsWord(f) /\ Congruent(Val(f), sum)
  BY SMT, <1>8, WordValue
<1>10. IsWord(TimesPrime(w)) /\ Congruent(Val(TimesPrime(w)), product)
  BY SMT, <1>4, PrimeValue
<1>11. sum \in Int /\ product \in Int /\ Val(f) \in Int /\ Val(TimesPrime(w)) \in Int
  <2>1. Val(w) \in Nat /\ Val(f) \in Nat /\ Val(TimesPrime(w)) \in Nat
    BY SMT, <1>4, <1>9, <1>10, ValBelow
  <2> QED BY SMT, <1>8, <2>1
<1> HIDE DEF sum, product, t
<1>12. Congruent(sum, product)
  BY Zenon, <1>7 DEF Congruent
<1>13. Congruent(Val(f), product)
  BY SMT, <1>9, <1>11, <1>12, CongruentTwice
<1>14. Congruent(product, Val(TimesPrime(w)))
  BY SMT, <1>10, <1>11, CongruentBack
<1>15. Congruent(Val(f), Val(TimesPrime(w)))
  BY SMT, <1>11, <1>13, <1>14, CongruentTwice
<1>16. f = TimesPrime(w)
  BY SMT, <1>9, <1>10, <1>15, SameWord
<1> QED BY <1>4, <1>5, <1>16

-----------------------------------------------------------------------------
(* The inductive invariant.  The keys are alike but for one place, the       *)
(* type's character (-1) or a byte: the hashes are equal up to it, and       *)
(* differ from it on.                                                        *)
Item(k, n) == IF n = -1 THEN MAP_KEY(k.kind) ELSE k.bytes[n + 1]

IsKey(k) == k.kind \in {"str", "ptr"} /\ k.bytes \in Seq(Byte)

KeysAlikeBut(place) ==
  /\ place \in -1 .. Len(key.bytes) - 1
  /\ Item(key, place) # Item(other, place)
  /\ \A n \in -1 .. Len(key.bytes) - 1 : n # place => Item(key, n) = Item(other, n)

KeysInv ==
  /\ IsKey(key) /\ IsKey(other) /\ Len(other.bytes) = Len(key.bytes)
  /\ i \in -1 .. Len(key.bytes)
  /\ IsWord(hash) /\ IsWord(other_hash)

ApartInv ==
  \E place \in -1 .. Len(key.bytes) - 1 :
    /\ KeysAlikeBut(place)
    /\ i <= place => hash = other_hash
    /\ i > place => hash # other_hash

Positive == ~signed \/ \A n \in DOMAIN key.bytes : key.bytes[n] < 128

FnvInv == Positive => hash = fnv

HashInv == KeysInv /\ ApartInv /\ FnvInv

LEMMA Items ==
  ASSUME NEW k, IsKey(k), NEW n \in -1 .. Len(k.bytes) - 1
  PROVE  Item(k, n) \in 0 .. 255
<1>1. CASE n = -1
  <2>1. MAP_KEY("str") = 0 /\ MAP_KEY("ptr") = 1
    BY DEF MAP_KEY
  <2>2. k.kind = "str" \/ k.kind = "ptr"
    BY DEF IsKey
  <2>3. MAP_KEY(k.kind) = 0 \/ MAP_KEY(k.kind) = 1
    BY Zenon, <2>1, <2>2
  <2>4. Item(k, n) = MAP_KEY(k.kind)
    BY <1>1 DEF Item
  <2> QED BY <2>3, <2>4
<1>2. CASE n # -1
  <2>1. n + 1 \in 1 .. Len(k.bytes)
    BY <1>2 DEF IsKey
  <2>2. k.bytes[n + 1] \in Byte
    BY <2>1 DEF IsKey
  <2> QED BY <1>2, <2>2, KeyHashAssumption DEF Item
<1> QED BY <1>1, <1>2

\* Every step mixes the item at the index into both hashes.
LEMMA HashStep ==
  ASSUME Next
  PROVE  /\ i \in -1 .. Len(key.bytes) - 1 \/ i = -1
         /\ i' = i + 1
         /\ hash' = Mix(hash, Item(key, i)) /\ other_hash' = Mix(other_hash, Item(other, i))
         /\ fnv' = Fnv1a(fnv, Item(key, i))
         /\ UNCHANGED <<signed, key, other>>
<1>1. CASE HashKind
  BY <1>1 DEF HashKind, Item
<1>2. CASE HashByte
  <2>1. i # -1 /\ i \in -1 .. Len(key.bytes) - 1
    BY <1>2 DEF HashByte
  <2> QED BY <1>2, <2>1 DEF HashByte, Item
<1> QED BY <1>1, <1>2 DEF Next

LEMMA KeysInit ==
  ASSUME Init
  PROVE  HashInv
<1>1. IsKey(key) /\ i = -1 /\ hash = Basis /\ other_hash = Basis /\ fnv = Basis
  BY KeyHashAssumption DEF Init, IsKey, KeyOf
<1>2. IsWord(Basis)
  BY SMT DEF Basis, IsWord, Below
<1>3. /\ IsKey(other) /\ Len(other.bytes) = Len(key.bytes)
      /\ \E place \in -1 .. Len(key.bytes) - 1 : KeysAlikeBut(place)
  <2>1. CASE other \in OneByteOff(key)
    <3>1. PICK n \in DOMAIN key.bytes, b \in Byte :
            other = KeyOf(key.kind, [key.bytes EXCEPT ![n] = b]) /\ other # key
      BY <2>1 DEF OneByteOff
    <3>2. n \in 1 .. Len(key.bytes) /\ key.bytes \in Seq(Byte)
      BY <1>1, <3>1 DEF IsKey
    <3>3. /\ other.kind = key.kind /\ other.bytes = [key.bytes EXCEPT ![n] = b]
          /\ other.bytes \in Seq(Byte) /\ Len(other.bytes) = Len(key.bytes)
      BY <3>1, <3>2 DEF KeyOf
    <3>4. key = KeyOf(key.kind, key.bytes)
      BY DEF Init, KeyOf
    <3>5. b # key.bytes[n]
      <4>1. SUFFICES ASSUME b = key.bytes[n] PROVE FALSE
        OBVIOUS
      <4>2. [key.bytes EXCEPT ![n] = b] = key.bytes
        BY <3>2, <4>1
      <4> QED BY <3>1, <3>4, <4>2
    <3>6. n - 1 \in -1 .. Len(key.bytes) - 1 /\ n - 1 # -1 /\ n - 1 + 1 = n
      BY <3>2
    <3>7. Item(key, n - 1) # Item(other, n - 1)
      BY <3>2, <3>3, <3>5, <3>6 DEF Item
    <3>8. \A m \in -1 .. Len(key.bytes) - 1 : m # n - 1 => Item(key, m) = Item(other, m)
      BY <3>2, <3>3 DEF Item
    <3> QED BY <1>1, <3>3, <3>6, <3>7, <3>8 DEF KeysAlikeBut, IsKey
  <2>2. CASE other \in OtherKind(key)
    <3>1. PICK kind \in {"str", "ptr"} : kind # key.kind /\ other = KeyOf(kind, key.bytes)
      BY <2>2 DEF OtherKind
    <3>2. IsKey(other) /\ other.bytes = key.bytes /\ other.kind # key.kind
      BY <1>1, <3>1 DEF IsKey, KeyOf
    <3>3. Item(key, -1) # Item(other, -1)
      BY <1>1, <3>2 DEF Item, IsKey, MAP_KEY
    <3>4. \A m \in -1 .. Len(key.bytes) - 1 : m # -1 => Item(key, m) = Item(other, m)
      BY <3>2 DEF Item
    <3>5. -1 \in -1 .. Len(key.bytes) - 1
      BY <1>1 DEF IsKey
    <3> QED BY <3>2, <3>3, <3>4, <3>5 DEF KeysAlikeBut
  <2> QED BY <2>1, <2>2 DEF Init
<1>4. i \in -1 .. Len(key.bytes)
  BY <1>1 DEF IsKey
<1>5. KeysInv /\ FnvInv
  BY <1>1, <1>2, <1>3, <1>4 DEF KeysInv, FnvInv
<1>6. ApartInv
  BY <1>1, <1>3 DEF ApartInv
<1> QED BY <1>5, <1>6 DEF HashInv

LEMMA HashInvStep ==
  ASSUME HashInv, [Next]_vars
  PROVE  HashInv'
<1>1. CASE UNCHANGED vars
  BY <1>1, SMTT(30) DEF vars, HashInv, KeysInv, ApartInv, FnvInv, KeysAlikeBut, Item, IsKey, Positive,
              IsWord, Below, MAP_KEY
<1>2. CASE Next
  <2> DEFINE c == Item(key, i)
             d == Item(other, i)
  <2>1. /\ KeysInv /\ ApartInv /\ FnvInv
        /\ i \in -1 .. Len(key.bytes) - 1 /\ Len(key.bytes) \in Nat
    <3>1. KeysInv /\ ApartInv /\ FnvInv /\ Len(key.bytes) \in Nat
      BY DEF HashInv, KeysInv, IsKey
    <3>2. -1 \in -1 .. Len(key.bytes) - 1
      BY <3>1
    <3> QED BY <1>2, <3>1, <3>2, HashStep
  <2>2. c \in 0 .. 255 /\ d \in 0 .. 255
    BY <2>1, Items DEF KeysInv
  <2>3. IsWord(hash) /\ IsWord(other_hash)
    BY <2>1 DEF KeysInv
  <2>4. /\ i' = i + 1 /\ hash' = Mix(hash, c) /\ other_hash' = Mix(other_hash, d)
        /\ fnv' = Fnv1a(fnv, c) /\ signed' = signed /\ key' = key /\ other' = other
    BY <1>2, HashStep
  <2> HIDE DEF c, d
  <2>5. IsWord(hash') /\ IsWord(other_hash')
    BY <2>2, <2>3, <2>4, MixOneToOne
  <2>6. \A v, w : IsWord(v) /\ IsWord(w) =>
          /\ v # w => Mix(v, c) # Mix(w, c)
          /\ c # d => Mix(v, c) # Mix(v, d)
    BY <2>2, MixOneToOne, Zenon
  <2>7. KeysInv'
    <3>1. i' \in -1 .. Len(key.bytes)
      BY <2>1, <2>4
    <3> QED BY <2>1, <2>4, <2>5, <3>1 DEF KeysInv, IsKey
  <2>8. ApartInv'
    <3>1. PICK place \in -1 .. Len(key.bytes) - 1 :
            /\ KeysAlikeBut(place)
            /\ i <= place => hash = other_hash
            /\ i > place => hash # other_hash
      BY <2>1 DEF ApartInv
    <3>2. KeysAlikeBut(place)'
      <4>1. \A n : Item(key', n) = Item(key, n) /\ Item(other', n) = Item(other, n)
        BY <2>4
      <4> QED BY <2>4, <3>1, <4>1 DEF KeysAlikeBut, Item
    <3>3. (i' <= place => hash' = other_hash') /\ (i' > place => hash' # other_hash')
      <4>1. CASE i < place
        <5>1. c = d /\ hash = other_hash /\ ~(i + 1 > place)
          BY <2>1, <3>1, <4>1 DEF KeysAlikeBut, c, d
        <5> QED BY <2>4, <5>1
      <4>2. CASE i = place
        <5>1. c # d /\ hash = other_hash /\ ~(i + 1 <= place)
          BY <2>1, <3>1, <4>2 DEF KeysAlikeBut, c, d
        <5>2. Mix(hash, c) # Mix(hash, d)
          BY <2>3, <2>6, <5>1
        <5> QED BY <2>4, <5>1, <5>2
      <4>3. CASE i > place
        <5>1. c = d /\ hash # other_hash /\ ~(i + 1 <= place)
          BY <2>1, <3>1, <4>3 DEF KeysAlikeBut, c, d
        <5>2. Mix(hash, c) # Mix(other_hash, c)
          BY <2>3, <2>6, <5>1
        <5> QED BY <2>4, <5>1, <5>2
      <4> QED BY <2>1, <3>1, <4>1, <4>2, <4>3
    <3> QED BY <2>4, <3>1, <3>2, <3>3 DEF ApartInv
  <2>9. FnvInv'
    <3>1. SUFFICES ASSUME Positive PROVE hash' = fnv'
      BY <2>4 DEF FnvInv, Positive
    <3>2. ~signed \/ c < 128
      <4>1. CASE i = -1
        BY <2>1, <4>1 DEF c, Item, MAP_KEY, KeysInv, IsKey
      <4>2. CASE i # -1
        <5>1. i + 1 \in DOMAIN key.bytes /\ c = key.bytes[i + 1]
          BY <2>1, <4>2 DEF KeysInv, IsKey, c, Item
        <5> QED BY <3>1, <5>1 DEF Positive
      <4> QED BY <4>1, <4>2
    <3>3. Mix(hash, c) = Fnv1a(hash, c)
      BY <2>2, <2>3, <3>2, MixIsFnv1a
    <3> QED BY <2>1, <2>4, <3>1, <3>3 DEF FnvInv
  <2> QED BY <2>7, <2>8, <2>9 DEF HashInv
<1> QED BY <1>1, <1>2

\* Keys that differ in one byte alone, or in their type alone, never collide,
\* whatever their length and the rest of their bytes (hash_str and hash_ptr,
\* map.c 48-49).
THEOREM OneChangeNeverCollides == Spec => []OneChangeApart
<1>1. HashInv => OneChangeApart
  <2>1. SUFFICES ASSUME HashInv, i = Len(key.bytes) PROVE hash # other_hash
    BY DEF OneChangeApart, Hashed
  <2>2. Len(key.bytes) \in Nat
    BY <2>1 DEF HashInv, KeysInv, IsKey
  <2> QED BY <2>1, <2>2 DEF HashInv, ApartInv
<1> QED BY <1>1, KeysInit, HashInvStep, PTL DEF Spec

\* The shifts of the loop compute FNV-1a of the type's character and the bytes
\* of the key, as the comment at map.c 45 says, where no character is negative.
THEOREM HashIsFnv1a == Spec => []IsFnv1a
<1>1. HashInv => IsFnv1a
  BY DEF HashInv, FnvInv, Positive, IsFnv1a
<1> QED BY <1>1, KeysInit, HashInvStep, PTL DEF Spec
=============================================================================
