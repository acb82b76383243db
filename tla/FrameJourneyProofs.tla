------------------------- MODULE FrameJourneyProofs -------------------------
(* Proofs about the frame codec and the journey of a frame.                *)
EXTENDS FrameJourney, WellFoundedInduction, TLAPS

-----------------------------------------------------------------------------
(* Induction and recursion up to a bound, for sets and functions.          *)

\* A set that contains 0 and, below n, with a number its successor, contains
\* every number up to n.
LEMMA UpTo ==
    ASSUME NEW n \in Nat, NEW T, 0 \in T,
           \A i \in 1 .. n : i - 1 \in T => i \in T
    PROVE  \A i \in 0 .. n : i \in T
<1>. DEFINE M == {i \in 0 .. n : i \notin T}
<1>. SUFFICES ASSUME M # {} PROVE FALSE
  OBVIOUS
<1>1. M \subseteq Nat
  OBVIOUS
<1>2. PICK f \in M : \A i \in M : ~ (<<i, f>> \in OpToRel(<, Nat))
  <2>. HIDE DEF M
  <2>. QED  BY <1>1, NatLessThanWellFounded, WFMin, Zenon
<1>3. \A i \in M : ~ (i < f)
  <2>. HIDE DEF M
  <2>. QED  BY <1>1, <1>2, Zenon DEF OpToRel
<1>4. f \in 0 .. n /\ f \notin T
  BY <1>2
<1>5. f \in 1 .. n /\ f - 1 \in 0 .. n /\ f - 1 < f
  BY <1>4
<1>6. f - 1 \in T
  BY <1>3, <1>5
<1>. QED  BY <1>4, <1>5, <1>6

\* g starts with a and goes on with the given steps within S.
StepsFrom(g, n, S, a, step) ==
    /\ g \in [0 .. n -> S]
    /\ g[0] = a
    /\ \A i \in 1 .. n : g[i] = step[i][g[i - 1]]

\* A function given by its value at 0 and by steps exists.
LEMMA StepsExist ==
    ASSUME NEW n \in Nat, NEW S, NEW a \in S, NEW step \in [1 .. n -> [S -> S]]
    PROVE  \E g : StepsFrom(g, n, S, a, step)
<1>. DEFINE Good(k, g) == StepsFrom(g, k, S, a, step)
            T == {k \in 0 .. n : \E g : Good(k, g)}
<1>1. 0 \in T
  <2>. DEFINE g0 == [i \in 0 .. 0 |-> a]
  <2>1. Good(0, g0)
    BY DEF StepsFrom
  <2>2. 0 \in 0 .. n
    OBVIOUS
  <2>. HIDE DEF Good, g0
  <2>. QED  BY <2>1, <2>2
<1>2. ASSUME NEW k \in 1 .. n, k - 1 \in T
      PROVE  k \in T
  <2>1. PICK g : Good(k - 1, g)
    BY <1>2
  <2>. DEFINE h == [i \in 0 .. k |-> IF i = k THEN step[k][g[k - 1]] ELSE g[i]]
  <2>2. step[k][g[k - 1]] \in S
    BY <2>1 DEF StepsFrom
  <2>3. h \in [0 .. k -> S]
    BY <2>1, <2>2 DEF StepsFrom
  <2>4. h[0] = a
    BY <2>1 DEF StepsFrom
  <2>5. ASSUME NEW i \in 1 .. k
        PROVE  h[i] = step[i][h[i - 1]]
    <3>1. CASE i = k
      BY <3>1
    <3>2. CASE i # k
      <4>1. i \in 1 .. k - 1 /\ i - 1 # k /\ i \in 0 .. k /\ i - 1 \in 0 .. k
        BY <3>2
      <4>2. h[i] = g[i] /\ h[i - 1] = g[i - 1]
        BY <3>2, <4>1
      <4>. QED  BY <2>1, <4>1, <4>2 DEF StepsFrom
    <3>. QED  BY <3>1, <3>2
  <2>6. Good(k, h)
    BY <2>3, <2>4, <2>5 DEF StepsFrom
  <2>7. k \in 0 .. n
    OBVIOUS
  <2>. HIDE DEF Good, h
  <2>. QED  BY <2>6, <2>7
<1>3. n \in T
  <2>1. n \in 0 .. n
    OBVIOUS
  <2>2. \A i \in 0 .. n : i \in T
    <3>. HIDE DEF T
    <3>. QED  BY <1>1, <1>2, UpTo, Zenon
  <2>. HIDE DEF T
  <2>. QED  BY <2>1, <2>2, Zenon
<1>. QED  BY <1>3

-----------------------------------------------------------------------------
(* The recursive definitions of the codec satisfy their equations.         *)

LEMMA ByteArithmetic ==
    /\ \A x \in Nat, y \in Byte : 256 * x + y \in Nat
    /\ \A x, y \in Byte : (3 * x + y) % 256 \in Byte
<1>1. ASSUME NEW x \in Nat, NEW y \in Byte
      PROVE  256 * x + y \in Nat
  BY SMT DEF Byte
<1>2. ASSUME NEW x \in Byte, NEW y \in Byte
      PROVE  (3 * x + y) % 256 \in Byte
  <2>1. 3 * x + y \in Int
    BY DEF Byte
  <2>2. \A z \in Int : z % 256 \in 0 .. 255
    OBVIOUS
  <2>. QED  BY <2>1, <2>2, Zenon DEF Byte
<1>. QED  BY <1>1, <1>2

LEMMA ShiftedSteps ==
    ASSUME NEW v \in Nat
    PROVE  /\ Shifted(v, 0) = v
           /\ \A k \in 1 .. MaxBytes : Shifted(v, k) = Shifted(v, k - 1) \div 256
           /\ \A k \in 0 .. MaxBytes : Shifted(v, k) \in Nat
<1>. DEFINE F(g) == [j \in 0 .. MaxBytes |-> IF j = 0 THEN v ELSE g[j - 1] \div 256]
            h == CHOOSE g : g = F(g)
            step == [i \in 1 .. MaxBytes |-> [x \in Nat |-> x \div 256]]
<1>0. MaxBytes \in Nat
  BY DEF MaxBytes
<1>1. PICK g : StepsFrom(g, MaxBytes, Nat, v, step)
  <2>1. step \in [1 .. MaxBytes -> [Nat -> Nat]]
    OBVIOUS
  <2>. HIDE DEF step
  <2>. QED  BY <1>0, <2>1, StepsExist, Zenon
<1>2. \A i \in 1 .. MaxBytes : g[i] = g[i - 1] \div 256
  <2>1. \A x \in Nat, i \in 1 .. MaxBytes : step[i][x] = x \div 256
    OBVIOUS
  <2>. HIDE DEF step
  <2>. TAKE i \in 1 .. MaxBytes
  <2>2. i - 1 \in 0 .. MaxBytes
    BY <1>0
  <2>3. g[i - 1] \in Nat
    BY <1>1, <2>2 DEF StepsFrom
  <2>4. g[i] = step[i][g[i - 1]]
    BY <1>1, Zenon DEF StepsFrom
  <2>. QED  BY <2>1, <2>3, <2>4, Zenon
<1>3. g = F(g)
  BY <1>0, <1>1, <1>2 DEF StepsFrom
<1>4. h = F(h)
  <2>. HIDE DEF F
  <2>. QED  BY <1>3, Zenon
<1>5. h \in [0 .. MaxBytes -> Nat]
  <2>. DEFINE T == {i \in 0 .. MaxBytes : h[i] \in Nat}
  <2>. HIDE DEF h
  <2>1. 0 \in T
    BY <1>0, <1>4
  <2>2. ASSUME NEW i \in 1 .. MaxBytes, i - 1 \in T
        PROVE  i \in T
    BY <1>0, <1>4, <2>2
  <2>3. \A i \in 0 .. MaxBytes : i \in T
    <3>. HIDE DEF T
    <3>. QED  BY <1>0, <2>1, <2>2, UpTo, Zenon
  <2>. QED  BY <1>4, <2>3
<1>6. ASSUME NEW k
      PROVE  Shifted(v, k) = h[k]
  BY DEF Shifted
<1>. HIDE DEF h
<1>7. h[0] = v /\ \A k \in 1 .. MaxBytes : h[k] = h[k - 1] \div 256
  <2>1. ASSUME NEW k \in 1 .. MaxBytes
        PROVE  k \in 0 .. MaxBytes /\ k # 0
    BY <1>0
  <2>. QED  BY <1>0, <1>4, <2>1
<1>8. \A k : Shifted(v, k) = h[k]
  BY <1>6
<1>9. \A k \in 0 .. MaxBytes : h[k] \in Nat
  BY <1>5
<1>. QED  BY <1>7, <1>8, <1>9

\* g counts up the number in n bytes.
Unpacking(g, n, b) ==
    /\ g \in [0 .. n -> Nat]
    /\ g[0] = 0
    /\ \A i \in 1 .. n : g[i] = 256 * g[i - 1] + b[i]
    /\ Unpack(b) = g[n]

LEMMA UnpackSteps ==
    ASSUME NEW n \in Nat, NEW b \in [1 .. n -> Byte]
    PROVE  \E g : Unpacking(g, n, b)
<1>. DEFINE F(g) == [i \in 0 .. n |-> IF i = 0 THEN 0 ELSE 256 * g[i - 1] + b[i]]
            h == CHOOSE g : g = F(g)
            step == [i \in 1 .. n |-> [x \in Nat |-> 256 * x + b[i]]]
<1>1. PICK g : StepsFrom(g, n, Nat, 0, step)
  <2>1. step \in [1 .. n -> [Nat -> Nat]]
    <3>1. ASSUME NEW i \in 1 .. n, NEW x \in Nat
          PROVE  256 * x + b[i] \in Nat
      <4>1. b[i] \in Byte
        OBVIOUS
      <4>. QED  BY <4>1, ByteArithmetic
    <3>. QED  BY <3>1
  <2>. HIDE DEF step
  <2>. QED  BY <2>1, StepsExist, Zenon
<1>2. \A i \in 1 .. n : g[i] = 256 * g[i - 1] + b[i]
  <2>1. \A x \in Nat, i \in 1 .. n : step[i][x] = 256 * x + b[i]
    OBVIOUS
  <2>. HIDE DEF step
  <2>. TAKE i \in 1 .. n
  <2>2. i - 1 \in 0 .. n
    OBVIOUS
  <2>3. g[i - 1] \in Nat
    BY <1>1, <2>2 DEF StepsFrom
  <2>4. g[i] = step[i][g[i - 1]]
    BY <1>1, Zenon DEF StepsFrom
  <2>5. \A x \in Nat : step[i][x] = 256 * x + b[i]
    BY <2>1, Zenon
  <2>. QED  BY <2>3, <2>4, <2>5
<1>3. g = F(g)
  BY <1>1, <1>2 DEF StepsFrom
<1>4. h = F(h)
  <2>. HIDE DEF F
  <2>. QED  BY <1>3, Zenon
<1>5. h \in [0 .. n -> Nat]
  <2>. DEFINE T == {i \in 0 .. n : h[i] \in Nat}
  <2>. HIDE DEF h
  <2>1. 0 \in T
    BY <1>4
  <2>2. ASSUME NEW i \in 1 .. n, i - 1 \in T
        PROVE  i \in T
    <3>1. i - 1 \in 0 .. n /\ i \in 0 .. n /\ i # 0
      OBVIOUS
    <3>2. h[i] = 256 * h[i - 1] + b[i]
      BY <1>4, <3>1
    <3>3. b[i] \in Byte
      OBVIOUS
    <3>4. h[i - 1] \in Nat
      BY <2>2
    <3>5. h[i] \in Nat
      BY <3>2, <3>3, <3>4, ByteArithmetic
    <3>. QED  BY <3>1, <3>5
  <2>3. \A i \in 0 .. n : i \in T
    <3>. HIDE DEF T
    <3>. QED  BY <2>1, <2>2, UpTo, Zenon
  <2>. QED  BY <1>4, <2>3
<1>6. Len(b) = n
  OBVIOUS
<1>7. Unpack(b) = h[n]
  BY <1>6 DEF Unpack
<1>. HIDE DEF h
<1>8. h[0] = 0
  BY <1>4
<1>9. ASSUME NEW i \in 1 .. n
      PROVE  h[i] = 256 * h[i - 1] + b[i]
  <2>1. i \in 0 .. n /\ i # 0
    OBVIOUS
  <2>. QED  BY <1>4, <2>1
<1>. QED  BY <1>5, <1>7, <1>8, <1>9, Zenon DEF Unpacking

\* g adds up the checksum of n bytes.
Summing(g, n, b) ==
    /\ g \in [0 .. n -> Byte]
    /\ g[0] = 255
    /\ \A i \in 1 .. n : g[i] = (3 * g[i - 1] + b[i]) % 256
    /\ Crc(b) = g[n]

LEMMA CrcSteps ==
    ASSUME NEW n \in Nat, NEW b \in [1 .. n -> Byte]
    PROVE  \E g : Summing(g, n, b)
<1>. DEFINE F(g) == [i \in 0 .. n |-> IF i = 0 THEN 255
                                      ELSE (3 * g[i - 1] + b[i]) % 256]
            h == CHOOSE g : g = F(g)
            step == [i \in 1 .. n |-> [x \in Byte |-> (3 * x + b[i]) % 256]]
<1>1. PICK g : StepsFrom(g, n, Byte, 255, step)
  <2>1. step \in [1 .. n -> [Byte -> Byte]]
    <3>1. ASSUME NEW i \in 1 .. n, NEW x \in Byte
          PROVE  (3 * x + b[i]) % 256 \in Byte
      <4>1. b[i] \in Byte
        OBVIOUS
      <4>. QED  BY <4>1, ByteArithmetic
    <3>. QED  BY <3>1
  <2>2. 255 \in Byte
    BY DEF Byte
  <2>. HIDE DEF step
  <2>. QED  BY <2>1, <2>2, StepsExist, Zenon
<1>2. \A i \in 1 .. n : g[i] = (3 * g[i - 1] + b[i]) % 256
  <2>1. \A x \in Byte, i \in 1 .. n : step[i][x] = (3 * x + b[i]) % 256
    OBVIOUS
  <2>. HIDE DEF step
  <2>. TAKE i \in 1 .. n
  <2>2. i - 1 \in 0 .. n
    OBVIOUS
  <2>3. g[i - 1] \in Byte
    BY <1>1, <2>2 DEF StepsFrom
  <2>4. g[i] = step[i][g[i - 1]]
    BY <1>1, Zenon DEF StepsFrom
  <2>5. \A x \in Byte : step[i][x] = (3 * x + b[i]) % 256
    BY <2>1, Zenon
  <2>. QED  BY <2>3, <2>4, <2>5
<1>3. g = F(g)
  BY <1>1, <1>2 DEF StepsFrom
<1>4. h = F(h)
  <2>. HIDE DEF F
  <2>. QED  BY <1>3, Zenon
<1>5. h \in [0 .. n -> Byte]
  <2>. DEFINE T == {i \in 0 .. n : h[i] \in Byte}
  <2>. HIDE DEF h
  <2>1. 0 \in T
    BY <1>4 DEF Byte
  <2>2. ASSUME NEW i \in 1 .. n, i - 1 \in T
        PROVE  i \in T
    <3>1. i - 1 \in 0 .. n /\ i \in 0 .. n /\ i # 0
      OBVIOUS
    <3>2. h[i] = (3 * h[i - 1] + b[i]) % 256
      BY <1>4, <3>1
    <3>3. b[i] \in Byte
      OBVIOUS
    <3>4. h[i - 1] \in Byte
      BY <2>2
    <3>5. h[i] \in Byte
      BY <3>2, <3>3, <3>4, ByteArithmetic
    <3>. QED  BY <3>1, <3>5
  <2>3. \A i \in 0 .. n : i \in T
    <3>. HIDE DEF T
    <3>. QED  BY <2>1, <2>2, UpTo, Zenon
  <2>. QED  BY <1>4, <2>3
<1>6. Len(b) = n
  OBVIOUS
<1>7. Crc(b) = h[n]
  BY <1>6 DEF Crc
<1>. HIDE DEF h
<1>8. h[0] = 255
  BY <1>4
<1>9. ASSUME NEW i \in 1 .. n
      PROVE  h[i] = (3 * h[i - 1] + b[i]) % 256
  <2>1. i \in 0 .. n /\ i # 0
    OBVIOUS
  <2>. QED  BY <1>4, <2>1
<1>. QED  BY <1>5, <1>7, <1>8, <1>9, Zenon DEF Summing
-----------------------------------------------------------------------------
(* Fields and checksum.                                                    *)

LEMMA PackBytes ==
    ASSUME NEW v \in Nat, NEW n \in 1 .. MaxBytes
    PROVE  /\ Pack(v, n) \in [1 .. n -> Byte]
           /\ Pack(v, n) \in Seq(Byte)
           /\ Len(Pack(v, n)) = n
           /\ \A i \in 1 .. n : Pack(v, n)[i] = Shifted(v, n - i) % 256
<1>0. n \in Nat /\ \A i \in 1 .. n : n - i \in 0 .. MaxBytes
  BY DEF MaxBytes
<1>1. \A z \in Nat : z % 256 \in Byte
  BY DEF Byte
<1>2. \A i \in 1 .. n : Shifted(v, n - i) % 256 \in Byte
  BY <1>0, <1>1, ShiftedSteps
<1>3. Pack(v, n) \in [1 .. n -> Byte]
  BY <1>2 DEF Pack
<1>4. \A i \in 1 .. n : Pack(v, n)[i] = Shifted(v, n - i) % 256
  BY DEF Pack
<1>. HIDE DEF Pack
<1>. QED  BY <1>0, <1>3, <1>4

\* struct.unpack undoes struct.pack on every number that fits its field.
LEMMA UnpackPack ==
    ASSUME NEW n \in 1 .. MaxBytes, NEW v, Fits(v, n)
    PROVE  Unpack(Pack(v, n)) = v
<1>0. v \in Nat /\ n \in Nat /\ Shifted(v, n) = 0
  BY DEF Fits, MaxBytes
<1>. DEFINE b == Pack(v, n)
<1>1. b \in [1 .. n -> Byte] /\ \A i \in 1 .. n : b[i] = Shifted(v, n - i) % 256
  BY <1>0, PackBytes
<1>. HIDE DEF b
<1>p. PICK g : Unpacking(g, n, b)
  BY <1>0, <1>1, UnpackSteps, Zenon
<1>2. /\ g \in [0 .. n -> Nat]
      /\ g[0] = 0
      /\ \A i \in 1 .. n : g[i] = 256 * g[i - 1] + b[i]
      /\ Unpack(b) = g[n]
  BY <1>p, Zenon DEF Unpacking
<1>. DEFINE T == {i \in 0 .. n : g[i] = Shifted(v, n - i)}
<1>3. 0 \in T
  <2>1. n - 0 = n /\ 0 \in 0 .. n
    BY <1>0
  <2>. QED  BY <1>0, <1>2, <2>1
<1>4. ASSUME NEW i \in 1 .. n, i - 1 \in T
      PROVE  i \in T
  <2>. DEFINE hi == Shifted(v, n - i + 1)
              lo == Shifted(v, n - i)
  <2>1. n - (i - 1) = n - i + 1 /\ n - i \in 0 .. MaxBytes /\ i \in 0 .. n
        /\ n - i + 1 \in 1 .. MaxBytes /\ (n - i + 1) - 1 = n - i
    BY DEF MaxBytes
  <2>2. g[i - 1] = hi
    BY <1>4, <2>1
  <2>3. lo \in Nat /\ hi = lo \div 256
    BY <1>0, <2>1, ShiftedSteps
  <2>4. g[i] = 256 * hi + (lo % 256)
    BY <1>1, <1>2, <2>2
  <2>. HIDE DEF hi, lo
  <2>5. 256 * hi + (lo % 256) = lo
    BY <2>3
  <2>6. g[i] = lo
    BY <2>4, <2>5
  <2>. QED  BY <2>1, <2>6 DEF lo
<1>5. \A i \in 0 .. n : i \in T
  <2>. HIDE DEF T
  <2>. QED  BY <1>0, <1>3, <1>4, UpTo, Zenon
<1>6. g[n] = Shifted(v, 0)
  <2>1. n \in 0 .. n /\ n - n = 0
    BY <1>0
  <2>. QED  BY <1>5, <2>1
<1>. QED  BY <1>0, <1>2, <1>6, ShiftedSteps DEF b

\* The fields of fixed width.
LEMMA FixedWidths ==
    /\ \A x \in Byte : Fits(x, 1) /\ Pack(x, 1) = <<x>>
    /\ \A x \in Nat : x <= 65535 => Fits(x, 2)
<1>0. 0 \in 0 .. MaxBytes /\ 1 \in 1 .. MaxBytes /\ 2 \in 1 .. MaxBytes
      /\ 1 - 1 = 0 /\ 2 - 1 = 1
  BY DEF MaxBytes
<1>1. ASSUME NEW x \in Nat
      PROVE  Shifted(x, 0) = x /\ Shifted(x, 1) = x \div 256
             /\ Shifted(x, 2) = (x \div 256) \div 256
  BY <1>0, ShiftedSteps
<1>2. ASSUME NEW x \in Byte
      PROVE  Fits(x, 1) /\ Pack(x, 1) = <<x>>
  <2>1. x \in Nat /\ x \div 256 = 0 /\ x % 256 = x
    BY DEF Byte
  <2>2. \A i \in 1 .. 1 : Shifted(x, 1 - i) % 256 = x
    BY <1>0, <1>1, <2>1
  <2>. QED  BY <1>1, <2>1, <2>2 DEF Fits, Pack
<1>3. ASSUME NEW x \in Nat, x <= 65535
      PROVE  Fits(x, 2)
  <2>1. x \in Nat /\ (x \div 256) \div 256 = 0
    <3>. DEFINE y == x \div 256
    <3>1. y \in Int /\ 0 <= y /\ y <= 255
      BY <1>3
    <3>2. y \div 256 = 0
      <4>. HIDE DEF y
      <4>. QED  BY <3>1
    <3>. QED  BY <3>2
  <2>. QED  BY <1>1, <2>1 DEF Fits
<1>4. \A x \in Nat : x <= 65535 => Fits(x, 2)
  BY <1>3
<1>5. \A x \in Byte : Fits(x, 1) /\ Pack(x, 1) = <<x>>
  BY <1>2
<1>. QED  BY <1>4, <1>5

LEMMA CrcIsByte ==
    ASSUME NEW n \in Nat, NEW b \in [1 .. n -> Byte]
    PROVE  Crc(b) \in Byte
<1>1. PICK g : Summing(g, n, b)
  BY CrcSteps, Zenon
<1>2. n \in 0 .. n
  OBVIOUS
<1>3. g \in [0 .. n -> Byte] /\ Crc(b) = g[n]
  BY <1>1, Zenon DEF Summing
<1>. QED  BY <1>2, <1>3

\* A step of the checksum loses nothing of the sum, and nothing of the byte.
LEMMA CrcStepInjective ==
    ASSUME NEW x \in Byte, NEW y \in Byte, NEW u \in Byte, NEW w \in Byte,
           (3 * x + u) % 256 = (3 * y + w) % 256
    PROVE  (u = w => x = y) /\ (x = y => u = w)
<1>. DEFINE p == (3 * x + u) \div 256
            q == (3 * y + w) \div 256
<1>1. x \in Int /\ y \in Int /\ u \in Int /\ w \in Int
      /\ 0 <= x /\ x <= 255 /\ 0 <= y /\ y <= 255
      /\ 0 <= u /\ u <= 255 /\ 0 <= w /\ w <= 255
  BY DEF Byte
<1>2. p \in Int /\ q \in Int /\ 3 * x + u - 256 * p = 3 * y + w - 256 * q
  BY <1>1
<1>. HIDE DEF p, q
<1>. QED  BY <1>1, <1>2

\* The checksum of a sequence changes with every single byte of it.
LEMMA CrcDetects ==
    ASSUME NEW n \in Nat, NEW a \in [1 .. n -> Byte], NEW b \in [1 .. n -> Byte],
           NEW k \in 1 .. n, a[k] # b[k],
           \A i \in 1 .. n : i # k => a[i] = b[i]
    PROVE  Crc(a) # Crc(b)
<1>f. PICK f : Summing(f, n, a)
  BY CrcSteps, Zenon
<1>1. /\ f \in [0 .. n -> Byte]
      /\ f[0] = 255
      /\ \A i \in 1 .. n : f[i] = (3 * f[i - 1] + a[i]) % 256
      /\ Crc(a) = f[n]
  BY <1>f, Zenon DEF Summing
<1>g. PICK g : Summing(g, n, b)
  BY CrcSteps, Zenon
<1>2. /\ g \in [0 .. n -> Byte]
      /\ g[0] = 255
      /\ \A i \in 1 .. n : g[i] = (3 * g[i - 1] + b[i]) % 256
      /\ Crc(b) = g[n]
  BY <1>g, Zenon DEF Summing
<1>. DEFINE T == {i \in 0 .. n : i < k <=> f[i] = g[i]}
<1>3. 0 \in T
  BY <1>1, <1>2
<1>4. ASSUME NEW i \in 1 .. n, i - 1 \in T
      PROVE  i \in T
  <2>1. i - 1 \in 0 .. n /\ i \in 0 .. n
    OBVIOUS
  <2>2. f[i] = (3 * f[i - 1] + a[i]) % 256 /\ g[i] = (3 * g[i - 1] + b[i]) % 256
    BY <1>1, <1>2
  <2>3. f[i - 1] \in Byte /\ g[i - 1] \in Byte /\ a[i] \in Byte /\ b[i] \in Byte
    BY <1>1, <1>2, <2>1
  <2>4. \A x, y, u \in Byte : (3 * x + u) % 256 = (3 * y + u) % 256 => x = y
    BY CrcStepInjective
  <2>5. \A x, u, w \in Byte : (3 * x + u) % 256 = (3 * x + w) % 256 => u = w
    BY CrcStepInjective
  <2>6. i - 1 < k <=> f[i - 1] = g[i - 1]
    BY <1>4
  <2>7. CASE i < k
    <3>1. i - 1 < k /\ i # k
      BY <2>7
    <3>2. f[i] = g[i]
      BY <2>2, <2>6, <3>1
    <3>. QED  BY <2>1, <2>7, <3>2
  <2>8. CASE i = k
    <3>1. i - 1 < k /\ ~(i < k)
      BY <2>8
    <3>2. f[i] # g[i]
      BY <2>2, <2>3, <2>5, <2>6, <2>8, <3>1
    <3>. QED  BY <2>1, <3>1, <3>2
  <2>9. CASE i > k
    <3>1. ~(i - 1 < k) /\ i # k /\ ~(i < k)
      BY <2>9
    <3>2. f[i] # g[i]
      BY <2>2, <2>3, <2>4, <2>6, <3>1
    <3>. QED  BY <2>1, <3>1, <3>2
  <2>. QED  BY <2>7, <2>8, <2>9
<1>5. \A i \in 0 .. n : i \in T
  <2>. HIDE DEF T
  <2>. QED  BY <1>3, <1>4, UpTo, Zenon
<1>6. n \in 0 .. n /\ ~(n < k)
  OBVIOUS
<1>. QED  BY <1>1, <1>2, <1>5, <1>6
-----------------------------------------------------------------------------
(* The body: the fields one after the other, and read back at their places. *)

LEMMA FieldKept ==
    ASSUME NEW a \in Seq(Byte), NEW b \in Seq(Byte),
           NEW skip \in Nat, NEW size \in Nat, skip + size <= Len(a)
    PROVE  FieldAt(a \o b, skip, size) = FieldAt(a, skip, size)
<1>1. SubSeq(a \o b, skip + 1, skip + size) = SubSeq(a, skip + 1, skip + size)
  OBVIOUS
<1>. QED  BY <1>1 DEF FieldAt

\* b continues a, which has a first byte.
Continues(b, a) ==
    /\ b[1] = a[1]
    /\ \A i, m \in Nat : i + m <= Len(a) => FieldAt(b, i, m) = FieldAt(a, i, m)

LEMMA ContinuesOn ==
    ASSUME NEW a, NEW b, NEW d, Continues(b, a), Continues(d, b),
           NEW k \in Nat, Len(a) = k, NEW n \in Nat, Len(b) = n, k <= n
    PROVE  Continues(d, a)
<1>1. \A i, m \in Nat : i + m <= k => i + m <= n
  OBVIOUS
<1>. QED  BY <1>1 DEF Continues

LEMMA FieldStays ==
    ASSUME NEW a, NEW b, Continues(b, a), NEW i \in Nat, NEW m \in Nat,
           i + m <= Len(a)
    PROVE  FieldAt(b, i, m) = FieldAt(a, i, m)
BY DEF Continues

\* b is a, which has len bytes, and a field with the value v in n bytes.
HasNext(b, a, len, n, v) ==
    /\ b \in Seq(Byte)
    /\ Continues(b, a)
    /\ Len(b) = len + n
    /\ FieldAt(b, len, n) = v

LEMMA FieldAppended ==
    ASSUME NEW a \in Seq(Byte), NEW len \in Nat \ {0}, Len(a) = len,
           NEW n \in 1 .. MaxBytes, NEW v, Fits(v, n)
    PROVE  HasNext(a \o Pack(v, n), a, len, n, v)
<1>. DEFINE p == Pack(v, n)
            b == a \o p
<1>1. p \in Seq(Byte) /\ Len(p) = n
  BY PackBytes DEF Fits
<1>2. Unpack(p) = v
  BY UnpackPack
<1>. HIDE DEF p
<1>3. b \in Seq(Byte) /\ Len(b) = len + n
  BY <1>1
<1>4. SubSeq(b, len + 1, len + n) = p
  <2>1. SubSeq(a \o p, Len(a) + 1, Len(a) + Len(p)) = p
    BY <1>1
  <2>. QED  BY <1>1, <2>1
<1>5. FieldAt(b, len, n) = v
  BY <1>2, <1>4 DEF FieldAt
<1>6. Continues(b, a)
  <2>1. b[1] = a[1]
    BY <1>1
  <2>. QED  BY <1>1, <2>1, FieldKept DEF Continues
<1>. QED  BY <1>3, <1>5, <1>6 DEF HasNext, p

LEMMA FieldAlone ==
    ASSUME NEW v \in Byte
    PROVE  Pack(v, 1) \in Seq(Byte) /\ Len(Pack(v, 1)) = 1
           /\ FieldAt(Pack(v, 1), 0, 1) = v /\ Pack(v, 1)[1] = v
<1>. DEFINE b == Pack(v, 1)
<1>1. b = <<v>> /\ Fits(v, 1) /\ v \in Nat
  BY FixedWidths DEF Fits
<1>2. 1 \in 1 .. MaxBytes
  BY DEF MaxBytes
<1>3. b \in Seq(Byte) /\ Len(b) = 1
  BY <1>1, <1>2, PackBytes
<1>4. Unpack(b) = v
  BY <1>1, <1>2, UnpackPack
<1>5. b[1] = v
  BY <1>1
<1>. HIDE DEF b
<1>6. SubSeq(b, 0 + 1, 0 + 1) = b
  BY <1>3
<1>. QED  BY <1>3, <1>4, <1>5, <1>6 DEF FieldAt, b

\* Reading a packed body gives every field back: two's complement, widths and
\* places of encoder and decoder agree.
LEMMA BodyRoundTrip ==
    ASSUME NEW f, Packable(f)
    PROVE  /\ PackBody(f) \in Seq(Byte)
           /\ Len(PackBody(f)) = BodySize
           /\ PackBody(f)[1] = f.protocol_version
           /\ UnpackBody(PackBody(f)) = f
<1>. DEFINE c == CounterBytes
            t == TimeBytes
            u == ToUnsigned(f.temperature_centi_c)
            p1 == Pack(f.protocol_version, 1)
            p2 == p1 \o Pack(f.payload_id, 1)
            p3 == p2 \o Pack(f.boot_id, c)
            p4 == p3 \o Pack(f.sequence_number, c)
            p5 == p4 \o Pack(f.timestamp_us, t)
            p6 == p5 \o Pack(u, 2)
            p7 == p6 \o Pack(f.voltage_mv, 2)
            p8 == p7 \o Pack(f.operating_mode, 1)
            p9 == p8 \o Pack(f.fault_flags, 1)
<1>0. PackBody(f) = p9
  BY DEF PackBody
<1>1. c \in 1 .. MaxBytes /\ t \in 1 .. MaxBytes
      /\ 1 \in 1 .. MaxBytes /\ 2 \in 1 .. MaxBytes /\ c \in Nat /\ t \in Nat
  BY CodecAssumption DEF MaxBytes
<1>2. /\ f.protocol_version \in Byte
      /\ Fits(f.payload_id, 1)
      /\ Fits(f.boot_id, c)
      /\ Fits(f.sequence_number, c)
      /\ Fits(f.timestamp_us, t)
      /\ Fits(f.voltage_mv, 2)
      /\ Fits(f.operating_mode, 1)
      /\ Fits(f.fault_flags, 1)
  BY FixedWidths DEF Packable
<1>3. Fits(u, 2) /\ ToSigned(u) = f.temperature_centi_c
  <2>1. f.temperature_centi_c \in Int /\ -32768 <= f.temperature_centi_c
        /\ f.temperature_centi_c <= 32767
    BY DEF Packable
  <2>2. u \in Nat /\ u <= 65535
    BY <2>1 DEF ToUnsigned
  <2>3. ToSigned(u) = f.temperature_centi_c
    BY <2>1 DEF ToUnsigned, ToSigned
  <2>. QED  BY <2>2, <2>3, FixedWidths
<1>. HIDE DEF u
<1>. DEFINE r == 2 + 2 * c + t
<1>s. /\ 1 + 1 = 2 /\ (2 + c) + c = 2 + 2 * c /\ (2 + 2 * c) + t = r
      /\ (r + 2) + 2 = r + 4 /\ (r + 4) + 1 = r + 5 /\ (r + 5) + 1 = r + 6
      /\ {1, 2, 2 + c, 2 + 2 * c, r, r + 2, r + 4, r + 5} \subseteq Nat \ {0}
  BY <1>1
<1>4. p1 \in Seq(Byte) /\ Len(p1) = 1 /\ FieldAt(p1, 0, 1) = f.protocol_version
      /\ p1[1] = f.protocol_version
  BY <1>2, FieldAlone
<1>. HIDE DEF p1, c, t, r
<1>5. /\ p2 \in Seq(Byte)
      /\ Continues(p2, p1)
      /\ Len(p2) = 2
      /\ FieldAt(p2, 1, 1) = f.payload_id
  <2>1. HasNext(p2, p1, 1, 1, f.payload_id)
    <3>1. 1 \in Nat \ {0}
      BY <1>s
    <3>. QED  BY <1>1, <1>2, <1>3, <1>4, <3>1, FieldAppended, Zenon
  <2>. HIDE DEF p2
  <2>. QED  BY <1>s, <2>1, Zenon DEF HasNext
<1>. HIDE DEF p2
<1>6. /\ p3 \in Seq(Byte)
      /\ Continues(p3, p2)
      /\ Len(p3) = 2 + c
      /\ FieldAt(p3, 2, c) = f.boot_id
  <2>1. HasNext(p3, p2, 2, c, f.boot_id)
    <3>1. 2 \in Nat \ {0}
      BY <1>s
    <3>. QED  BY <1>1, <1>2, <1>3, <1>5, <3>1, FieldAppended, Zenon
  <2>. HIDE DEF p3
  <2>. QED  BY <1>s, <2>1, Zenon DEF HasNext
<1>. HIDE DEF p3
<1>7. /\ p4 \in Seq(Byte)
      /\ Continues(p4, p3)
      /\ Len(p4) = 2 + 2 * c
      /\ FieldAt(p4, 2 + c, c) = f.sequence_number
  <2>1. HasNext(p4, p3, 2 + c, c, f.sequence_number)
    <3>1. 2 + c \in Nat \ {0}
      BY <1>s
    <3>. QED  BY <1>1, <1>2, <1>3, <1>6, <3>1, FieldAppended, Zenon
  <2>. HIDE DEF p4
  <2>. QED  BY <1>s, <2>1, Zenon DEF HasNext
<1>. HIDE DEF p4
<1>8. /\ p5 \in Seq(Byte)
      /\ Continues(p5, p4)
      /\ Len(p5) = r
      /\ FieldAt(p5, 2 + 2 * c, t) = f.timestamp_us
  <2>1. HasNext(p5, p4, 2 + 2 * c, t, f.timestamp_us)
    <3>1. 2 + 2 * c \in Nat \ {0}
      BY <1>s
    <3>. QED  BY <1>1, <1>2, <1>3, <1>7, <3>1, FieldAppended, Zenon
  <2>. HIDE DEF p5
  <2>. QED  BY <1>s, <2>1, Zenon DEF HasNext
<1>. HIDE DEF p5
<1>9. /\ p6 \in Seq(Byte)
      /\ Continues(p6, p5)
      /\ Len(p6) = r + 2
      /\ FieldAt(p6, r, 2) = u
  <2>1. HasNext(p6, p5, r, 2, u)
    <3>1. r \in Nat \ {0}
      BY <1>s
    <3>. QED  BY <1>1, <1>2, <1>3, <1>8, <3>1, FieldAppended, Zenon
  <2>. HIDE DEF p6
  <2>. QED  BY <1>s, <2>1, Zenon DEF HasNext
<1>. HIDE DEF p6
<1>10. /\ p7 \in Seq(Byte)
      /\ Continues(p7, p6)
      /\ Len(p7) = r + 4
      /\ FieldAt(p7, r + 2, 2) = f.voltage_mv
  <2>1. HasNext(p7, p6, r + 2, 2, f.voltage_mv)
    <3>1. r + 2 \in Nat \ {0}
      BY <1>s
    <3>. QED  BY <1>1, <1>2, <1>3, <1>9, <3>1, FieldAppended, Zenon
  <2>. HIDE DEF p7
  <2>. QED  BY <1>s, <2>1, Zenon DEF HasNext
<1>. HIDE DEF p7
<1>11. /\ p8 \in Seq(Byte)
      /\ Continues(p8, p7)
      /\ Len(p8) = r + 5
      /\ FieldAt(p8, r + 4, 1) = f.operating_mode
  <2>1. HasNext(p8, p7, r + 4, 1, f.operating_mode)
    <3>1. r + 4 \in Nat \ {0}
      BY <1>s
    <3>. QED  BY <1>1, <1>2, <1>3, <1>10, <3>1, FieldAppended, Zenon
  <2>. HIDE DEF p8
  <2>. QED  BY <1>s, <2>1, Zenon DEF HasNext
<1>. HIDE DEF p8
<1>12. /\ p9 \in Seq(Byte)
      /\ Continues(p9, p8)
      /\ Len(p9) = r + 6
      /\ FieldAt(p9, r + 5, 1) = f.fault_flags
  <2>1. HasNext(p9, p8, r + 5, 1, f.fault_flags)
    <3>1. r + 5 \in Nat \ {0}
      BY <1>s
    <3>. QED  BY <1>1, <1>2, <1>3, <1>11, <3>1, FieldAppended, Zenon
  <2>. HIDE DEF p9
  <2>. QED  BY <1>s, <2>1, Zenon DEF HasNext
<1>. HIDE DEF p9
<1>m. /\ c \in Nat /\ t \in Nat /\ r \in Nat
      /\ 1 <= 2 /\ 2 <= 2 + c /\ 2 + c <= 2 + 2 * c /\ 2 + 2 * c <= r
      /\ r <= r + 2 /\ r + 2 <= r + 4 /\ r + 4 <= r + 5
      /\ {1, 2, 2 + c, 2 + 2 * c, r, r + 2, r + 4, r + 5} \subseteq Nat
  BY <1>1 DEF r
<1>c7. Continues(p9, p7)
  <2>1. r + 4 \in Nat /\ r + 5 \in Nat
    BY <1>m
  <2>. QED  BY <1>m, <1>10, <1>11, <1>12, <2>1, ContinuesOn, Zenon
<1>c6. Continues(p9, p6)
  <2>1. r + 2 \in Nat /\ r + 4 \in Nat
    BY <1>m
  <2>. QED  BY <1>m, <1>9, <1>10, <1>c7, <2>1, ContinuesOn, Zenon
<1>c5. Continues(p9, p5)
  <2>1. r \in Nat /\ r + 2 \in Nat
    BY <1>m
  <2>. QED  BY <1>m, <1>8, <1>9, <1>c6, <2>1, ContinuesOn, Zenon
<1>c4. Continues(p9, p4)
  <2>1. 2 + 2 * c \in Nat /\ r \in Nat
    BY <1>m
  <2>. QED  BY <1>m, <1>7, <1>8, <1>c5, <2>1, ContinuesOn, Zenon
<1>c3. Continues(p9, p3)
  <2>1. 2 + c \in Nat /\ 2 + 2 * c \in Nat
    BY <1>m
  <2>. QED  BY <1>m, <1>6, <1>7, <1>c4, <2>1, ContinuesOn, Zenon
<1>c2. Continues(p9, p2)
  <2>1. 2 \in Nat /\ 2 + c \in Nat
    BY <1>m
  <2>. QED  BY <1>m, <1>5, <1>6, <1>c3, <2>1, ContinuesOn, Zenon
<1>c1. Continues(p9, p1)
  <2>1. 1 \in Nat /\ 2 \in Nat
    BY <1>m
  <2>. QED  BY <1>m, <1>4, <1>5, <1>c2, <2>1, ContinuesOn, Zenon
<1>f8. FieldAt(p9, r + 4, 1) = f.operating_mode
  <2>1. r + 4 \in Nat /\ 1 \in Nat /\ (r + 4) + 1 <= Len(p8)
    BY <1>m, <1>11
  <2>. QED  BY <1>11, <1>12, <2>1, FieldStays, Zenon
<1>f7. FieldAt(p9, r + 2, 2) = f.voltage_mv
  <2>1. r + 2 \in Nat /\ 2 \in Nat /\ (r + 2) + 2 <= Len(p7)
    BY <1>m, <1>10
  <2>. QED  BY <1>10, <1>c7, <2>1, FieldStays, Zenon
<1>f6. FieldAt(p9, r, 2) = u
  <2>1. r \in Nat /\ 2 \in Nat /\ (r) + 2 <= Len(p6)
    BY <1>m, <1>9
  <2>. QED  BY <1>9, <1>c6, <2>1, FieldStays, Zenon
<1>f5. FieldAt(p9, 2 + 2 * c, t) = f.timestamp_us
  <2>1. 2 + 2 * c \in Nat /\ t \in Nat /\ (2 + 2 * c) + t <= Len(p5)
    BY <1>m, <1>s, <1>8
  <2>. QED  BY <1>8, <1>c5, <2>1, FieldStays, Zenon
<1>f4. FieldAt(p9, 2 + c, c) = f.sequence_number
  <2>1. 2 + c \in Nat /\ c \in Nat /\ (2 + c) + c <= Len(p4)
    BY <1>m, <1>7
  <2>. QED  BY <1>7, <1>c4, <2>1, FieldStays, Zenon
<1>f3. FieldAt(p9, 2, c) = f.boot_id
  <2>1. 2 \in Nat /\ c \in Nat /\ 2 + c <= Len(p3)
    BY <1>m, <1>6
  <2>. QED  BY <1>6, <1>c3, <2>1, FieldStays, Zenon
<1>f2. FieldAt(p9, 1, 1) = f.payload_id
  <2>1. 1 \in Nat /\ 1 + 1 <= Len(p2)
    BY <1>m, <1>5
  <2>. QED  BY <1>5, <1>c2, <2>1, FieldStays, Zenon
<1>f1. FieldAt(p9, 0, 1) = f.protocol_version
  <2>1. 0 \in Nat /\ 1 \in Nat /\ 0 + 1 <= Len(p1)
    BY <1>m, <1>4
  <2>. QED  BY <1>4, <1>c1, <2>1, FieldStays, Zenon
<1>19. p9[1] = f.protocol_version
  BY <1>4, <1>c1 DEF Continues
<1>20. UnpackBody(p9) = f
  <2>1. f = [protocol_version |-> f.protocol_version, payload_id |-> f.payload_id,
             boot_id |-> f.boot_id, sequence_number |-> f.sequence_number,
             timestamp_us |-> f.timestamp_us,
             temperature_centi_c |-> f.temperature_centi_c,
             voltage_mv |-> f.voltage_mv, operating_mode |-> f.operating_mode,
             fault_flags |-> f.fault_flags]
    BY DEF Packable
  <2>. QED
    BY <1>3, <1>12, <1>f1, <1>f2, <1>f3, <1>f4, <1>f5, <1>f6, <1>f7, <1>f8,
       <2>1 DEF UnpackBody, c, t, r
<1>21. BodySize = r + 6
  BY <1>1 DEF BodySize, c, t, r
<1>. QED  BY <1>0, <1>12, <1>19, <1>20, <1>21, Zenon
-----------------------------------------------------------------------------
(* The checksum at the end, and what one damage does to a frame.           *)

\* The checksum test of decode_telemetry.
Sealed(bytes) ==
    SubSeq(bytes, BodySize + 1, Len(bytes))
        = Pack(Crc(SubSeq(bytes, 1, BodySize)), CrcBytes)

LEMMA JoinedParts ==
    ASSUME NEW a \in Seq(Byte), NEW p \in Seq(Byte)
    PROVE  /\ a \o p \in Seq(Byte)
           /\ Len(a \o p) = Len(a) + Len(p)
           /\ SubSeq(a \o p, 1, Len(a)) = a
           /\ SubSeq(a \o p, Len(a) + 1, Len(a) + Len(p)) = p
<1>1. a \o p \in Seq(Byte) /\ Len(a \o p) = Len(a) + Len(p)
  OBVIOUS
<1>2. SubSeq(a \o p, 1, Len(a)) = a
  OBVIOUS
<1>3. SubSeq(a \o p, Len(a) + 1, Len(a) + Len(p)) = p
  OBVIOUS
<1>. QED  BY <1>1, <1>2, <1>3

LEMMA BodySizeType == BodySize \in Nat \ {0}
BY CodecAssumption DEF BodySize

\* Body and checksum byte of a frame of the right length.
LEMMA FrameParts ==
    ASSUME NEW r \in Seq(Byte), Len(r) = BodySize + CrcBytes
    PROVE  /\ SubSeq(r, 1, BodySize) \in [1 .. BodySize -> Byte]
           /\ SubSeq(r, 1, BodySize) \in Seq(Byte)
           /\ Len(SubSeq(r, 1, BodySize)) = BodySize
           /\ \A i \in 1 .. BodySize : SubSeq(r, 1, BodySize)[i] = r[i]
           /\ Crc(SubSeq(r, 1, BodySize)) \in Byte
           /\ Sealed(r) <=> r[BodySize + 1] = Crc(SubSeq(r, 1, BodySize))
<1>. DEFINE n == BodySize
            b == SubSeq(r, 1, n)
            tail == SubSeq(r, n + 1, Len(r))
<1>1. n \in Nat \ {0} /\ Len(r) = n + 1
  BY BodySizeType DEF CrcBytes
<1>. HIDE DEF n
<1>a. b \in Seq(Byte) /\ Len(b) = n
  BY <1>1
<1>b. \A i \in 1 .. n : b[i] = r[i]
  BY <1>1
<1>2. b \in [1 .. n -> Byte] /\ b \in Seq(Byte) /\ Len(b) = n
      /\ \A i \in 1 .. n : b[i] = r[i]
  <2>. HIDE DEF b
  <2>. QED  BY <1>1, <1>a, <1>b
<1>3. tail \in Seq(Byte) /\ Len(tail) = 1 /\ tail[1] = r[n + 1]
  BY <1>1
<1>. HIDE DEF b, tail
<1>4. Crc(b) \in Byte
  BY <1>1, <1>2, CrcIsByte
<1>. DEFINE p == Pack(Crc(b), 1)
<1>5. p \in Seq(Byte) /\ Len(p) = 1 /\ p[1] = Crc(b)
  BY <1>4, FieldAlone
<1>. HIDE DEF p
<1>6. tail = p <=> tail[1] = p[1]
  BY <1>3, <1>5
<1>7. Sealed(r) <=> tail = p
  BY DEF Sealed, CrcBytes, tail, p, b, n
<1>8. Sealed(r) <=> r[n + 1] = Crc(b)
  BY <1>3, <1>5, <1>6, <1>7
<1>. QED  BY <1>2, <1>4, <1>8 DEF b, n

LEMMA WithCrcParts ==
    ASSUME NEW b \in Seq(Byte), Len(b) = BodySize
    PROVE  /\ WithCrc(b) \in Seq(Byte)
           /\ Len(WithCrc(b)) = BodySize + CrcBytes
           /\ SubSeq(WithCrc(b), 1, BodySize) = b
           /\ WithCrc(b)[1] = b[1]
           /\ Sealed(WithCrc(b))
<1>. DEFINE n == BodySize
            p == Pack(Crc(b), CrcBytes)
            w == WithCrc(b)
<1>1. n \in Nat \ {0} /\ CrcBytes = 1
  BY BodySizeType DEF CrcBytes
<1>2. b \in [1 .. n -> Byte]
  BY <1>1
<1>3. Crc(b) \in Byte
  BY <1>1, <1>2, CrcIsByte
<1>4. p \in Seq(Byte) /\ Len(p) = 1
  BY <1>1, <1>3, FieldAlone
<1>5. w = b \o p
  BY DEF WithCrc
<1>. HIDE DEF p, w, n
<1>6. w \in Seq(Byte) /\ Len(w) = n + 1 /\ w[1] = b[1]
  <2>1. 1 <= Len(b)
    BY <1>1 DEF n
  <2>2. (b \o p)[1] = b[1]
    BY <1>4, <2>1
  <2>. QED  BY <1>4, <1>5, <2>2, JoinedParts DEF n
<1>7. SubSeq(w, 1, n) = b
  BY <1>4, <1>5, JoinedParts DEF n
<1>8. SubSeq(w, n + 1, Len(w)) = p
  <2>1. SubSeq(b \o p, Len(b) + 1, Len(b) + Len(p)) = p
    BY <1>4, JoinedParts
  <2>2. Len(w) = Len(b) + Len(p)
    BY <1>4, <1>5, JoinedParts
  <2>. QED  BY <1>5, <2>1, <2>2 DEF n
<1>9. Sealed(w)
  BY <1>7, <1>8 DEF Sealed, p, n
<1>. QED  BY <1>1, <1>6, <1>7, <1>9 DEF n, w

\* r is what became of the frame e when its length or one byte changed.
Damaged(r, e) ==
    /\ r \in Seq(Byte)
    /\ \/ Len(r) # Len(e)
       \/ /\ Len(r) = Len(e)
          /\ \E k \in 1 .. Len(e) :
                /\ r[k] # e[k]
                /\ \A i \in 1 .. Len(e) : i # k => r[i] = e[i]

\* A frame that one byte was changed in has no right checksum.
LEMMA DamageBreaksSeal ==
    ASSUME NEW e \in Seq(Byte), Len(e) = BodySize + CrcBytes, Sealed(e),
           NEW r, Damaged(r, e), Len(r) = BodySize + CrcBytes
    PROVE  ~Sealed(r)
<1>. DEFINE n == BodySize
            a == SubSeq(e, 1, n)
            b == SubSeq(r, 1, n)
<1>1. n \in Nat \ {0} /\ CrcBytes = 1
  BY BodySizeType DEF CrcBytes
<1>2. /\ r \in Seq(Byte)
      /\ \E k \in 1 .. Len(e) :
            /\ r[k] # e[k]
            /\ \A i \in 1 .. Len(e) : i # k => r[i] = e[i]
  BY DEF Damaged
<1>3. PICK k \in 1 .. n + 1 : /\ r[k] # e[k]
                              /\ \A i \in 1 .. n + 1 : i # k => r[i] = e[i]
  BY <1>1, <1>2
<1>4. /\ a \in [1 .. n -> Byte] /\ \A i \in 1 .. n : a[i] = e[i]
      /\ e[n + 1] = Crc(a)
  BY FrameParts
<1>5. /\ b \in [1 .. n -> Byte] /\ \A i \in 1 .. n : b[i] = r[i]
      /\ Sealed(r) <=> r[n + 1] = Crc(b)
  BY <1>2, FrameParts
<1>. HIDE DEF n, a, b
<1>6. CASE k = n + 1
  <2>1. \A i \in 1 .. n : a[i] = b[i]
    BY <1>1, <1>3, <1>4, <1>5, <1>6
  <2>2. a = b
    <3>1. a \in [1 .. n -> Byte] /\ b \in [1 .. n -> Byte]
      BY <1>4, <1>5
    <3>2. a = [i \in 1 .. n |-> a[i]] /\ b = [i \in 1 .. n |-> b[i]]
      BY <3>1
    <3>3. [i \in 1 .. n |-> a[i]] = [i \in 1 .. n |-> b[i]]
      BY <2>1
    <3>. QED  BY <3>2, <3>3, Zenon
  <2>. QED  BY <1>3, <1>4, <1>5, <1>6, <2>2
<1>7. CASE k \in 1 .. n
  <2>1. r[n + 1] = e[n + 1]
    BY <1>1, <1>3, <1>7
  <2>2. a[k] # b[k] /\ \A i \in 1 .. n : i # k => a[i] = b[i]
    BY <1>1, <1>3, <1>4, <1>5, <1>7
  <2>3. Crc(a) # Crc(b)
    BY <1>1, <1>4, <1>5, <1>7, <2>2, CrcDetects
  <2>. QED  BY <1>4, <1>5, <2>1, <2>3
<1>. QED  BY <1>1, <1>6, <1>7
-----------------------------------------------------------------------------
(* Encoder and decoder.                                                    *)

LEMMA EncodedParts ==
    ASSUME NEW f, Packable(f)
    PROVE  /\ encode_telemetry(f) \in Seq(Byte)
           /\ Len(encode_telemetry(f)) = BodySize + CrcBytes
           /\ Sealed(encode_telemetry(f))
           /\ encode_telemetry(f)[1] = f.protocol_version
           /\ UnpackBody(SubSeq(encode_telemetry(f), 1, BodySize)) = f
<1>. DEFINE b == PackBody(f)
<1>1. /\ b \in Seq(Byte) /\ Len(b) = BodySize
      /\ b[1] = f.protocol_version /\ UnpackBody(b) = f
  BY BodyRoundTrip
<1>2. encode_telemetry(f) = WithCrc(b)
  BY DEF encode_telemetry
<1>. HIDE DEF b
<1>. QED  BY <1>1, <1>2, WithCrcParts

LEMMA ValidateFieldsNames ==
    ASSUME NEW f, NEW time
    PROVE  /\ ValidateFields(f, time).reason = FieldFault(f, time)
           /\ FieldFault(f, time) = "NONE" => ValidateFields(f, time) = Accepted(f)
BY DEF ValidateFields, Accepted, Rejected

\* What decode_telemetry must have found before it looks at the fields.
LEMMA DecodeAccepts ==
    ASSUME NEW r \in Seq(Byte), NEW time, decode_telemetry(r, time).reason = "NONE"
    PROVE  /\ Len(r) = BodySize + CrcBytes
           /\ r[1] = 1
           /\ Sealed(r)
BY DEF decode_telemetry, Rejected, Sealed

LEMMA DecodeReadsFields ==
    ASSUME NEW r \in Seq(Byte), NEW time, Len(r) = BodySize + CrcBytes, r[1] = 1,
           Sealed(r)
    PROVE  decode_telemetry(r, time)
             = ValidateFields(UnpackBody(SubSeq(r, 1, BodySize)), time)
<1>1. r # <<>>
  BY BodySizeType DEF CrcBytes
<1>. QED  BY <1>1 DEF decode_telemetry, Sealed

\* A spoilt checksum is a damage.
LEMMA CorruptIsDamaged ==
    ASSUME NEW e \in Seq(Byte), Len(e) = BodySize + CrcBytes
    PROVE  /\ Damaged(ApplyWireFailure(e, "CORRUPT_CRC"), e)
           /\ Len(ApplyWireFailure(e, "CORRUPT_CRC")) = Len(e)
           /\ ApplyWireFailure(e, "CORRUPT_CRC")[1] = e[1]
<1>. DEFINE n == Len(e)
            r == [e EXCEPT ![n] = FlipLow(@)]
<1>0. ApplyWireFailure(e, "CORRUPT_CRC") = r
  BY DEF ApplyWireFailure
<1>1. n \in Nat /\ n > 1
  BY BodySizeType DEF CrcBytes
<1>2. e \in [1 .. n -> Byte] /\ e[n] \in Byte
  BY <1>1
<1>3. FlipLow(e[n]) \in Byte /\ FlipLow(e[n]) # e[n]
  <2>1. \A x \in Byte : FlipLow(x) \in Byte /\ FlipLow(x) # x
    BY DEF FlipLow, Byte
  <2>. QED  BY <1>2, <2>1
<1>. HIDE DEF n
<1>4. r \in [1 .. n -> Byte] /\ r[n] # e[n]
      /\ \A i \in 1 .. n : i # n => r[i] = e[i]
  BY <1>1, <1>2, <1>3
<1>. HIDE DEF r
<1>5. r \in Seq(Byte) /\ Len(r) = n /\ n \in 1 .. n /\ 1 \in 1 .. n /\ 1 # n
  BY <1>1, <1>4
<1>6. Damaged(r, e)
  BY <1>4, <1>5 DEF Damaged, n
<1>. QED  BY <1>0, <1>4, <1>5, <1>6 DEF n

\* A changed version keeps length and checksum in order.
LEMMA OtherVersionIsSealed ==
    ASSUME NEW e \in Seq(Byte), Len(e) = BodySize + CrcBytes
    PROVE  LET r == ApplyWireFailure(e, "UNSUPPORTED_VERSION")
           IN  /\ r \in Seq(Byte)
               /\ Len(r) = BodySize + CrcBytes
               /\ Sealed(r)
               /\ r[1] = 2
<1>. DEFINE n == BodySize
            d == [e EXCEPT ![1] = 2]
            b == SubSeq(d, 1, n)
<1>0. ApplyWireFailure(e, "UNSUPPORTED_VERSION") = WithCrc(b)
  BY DEF ApplyWireFailure
<1>1. n \in Nat \ {0} /\ Len(e) = n + 1 /\ 2 \in Byte
  BY BodySizeType DEF CrcBytes, Byte
<1>2. e \in [1 .. n + 1 -> Byte]
  BY <1>1
<1>3. d \in [1 .. n + 1 -> Byte] /\ d[1] = 2
  BY <1>1, <1>2
<1>. HIDE DEF d
<1>4. d \in Seq(Byte) /\ Len(d) = n + 1
  BY <1>1, <1>3
<1>5. Len(d) = BodySize + CrcBytes
  BY <1>1, <1>4
<1>6. b \in Seq(Byte) /\ Len(b) = n /\ b[1] = d[1]
  BY <1>1, <1>4, <1>5, FrameParts
<1>. HIDE DEF b
<1>. QED  BY <1>0, <1>3, <1>6, WithCrcParts
-----------------------------------------------------------------------------
(* What the simulator encodes.                                             *)

LEMMA ScaledBounds ==
    ASSUME NEW x \in Int
    PROVE  /\ Scaled(x) \in Int
           /\ 10 * Scaled(x) - x \in -5 .. 5
           /\ x >= 0 => Scaled(x) >= 0
BY DEF Scaled

\* The frame of an admitted request fits its fields and breaks no field rule
\* but that on the receiver's clock, and its values are within half a unit.
LEMMA SimulatedFrame ==
    ASSUME NEW m \in Measurements, NEW t \in SampleTimes, t >= ProjectEpoch,
           NEW f, f = FrameOf(m, t)
    PROVE  /\ Packable(f)
           /\ f.protocol_version = 1
           /\ 10 * f.temperature_centi_c - m.temperature \in -5 .. 5
           /\ 10 * f.voltage_mv - m.voltage \in -5 .. 5
           /\ \A time \in Nat : f.timestamp_us <= time + MaxFutureSkew =>
                 FieldFault(f, time) = "NONE"
<1>. DEFINE a == Scaled(m.temperature)
            b == Scaled(m.voltage)
<1>1. /\ m.temperature \in Int /\ -100000 <= m.temperature
      /\ m.temperature <= 150000
      /\ m.voltage \in Nat /\ m.voltage <= 500000
  BY JourneyAssumption DEF IsRequest
<1>2. /\ m.mode \in 0 .. 3 /\ m.faults \in 0 .. 63
      /\ Fits(m.boot, CounterBytes) /\ m.boot >= 1
      /\ Fits(m.sequence, CounterBytes) /\ Fits(t, TimeBytes)
  BY JourneyAssumption DEF IsRequest
<1>3. m.boot \in Nat /\ m.sequence \in Nat /\ t \in Nat
  BY <1>2 DEF Fits
<1>4. /\ f.protocol_version = 1 /\ f.payload_id = 1 /\ f.boot_id = m.boot
      /\ f.sequence_number = m.sequence /\ f.timestamp_us = t
      /\ f.temperature_centi_c = a /\ f.voltage_mv = b
      /\ f.operating_mode = m.mode /\ f.fault_flags = m.faults
  BY DEF FrameOf
<1>5. /\ a \in Int /\ 10 * a - m.temperature \in -5 .. 5
      /\ b \in Int /\ 10 * b - m.voltage \in -5 .. 5 /\ b >= 0
  BY <1>1, ScaledBounds
<1>6. f \in [protocol_version : Byte, payload_id : Byte, boot_id : Nat,
             sequence_number : Nat, timestamp_us : Nat,
             temperature_centi_c : Int, voltage_mv : Nat,
             operating_mode : Byte, fault_flags : Byte]
  <2>1. m.mode \in Byte /\ m.faults \in Byte /\ 1 \in Byte
    BY <1>2 DEF Byte
  <2>2. a \in Int /\ b \in Nat
    BY <1>5
  <2>. HIDE DEF a, b
  <2>3. f = [protocol_version |-> 1, payload_id |-> 1, boot_id |-> m.boot,
             sequence_number |-> m.sequence, timestamp_us |-> t,
             temperature_centi_c |-> a, voltage_mv |-> b,
             operating_mode |-> m.mode, fault_flags |-> m.faults]
    BY DEF FrameOf, a, b
  <2>. QED  BY <1>3, <2>1, <2>2, <2>3
<1>. HIDE DEF a, b
<1>7. -10000 <= a /\ a <= 15000 /\ 0 <= b /\ b <= 50000
  BY <1>1, <1>5
<1>8. Packable(f)
  <2>1. -32768 <= a /\ a <= 32767 /\ b <= 65535
    BY <1>5, <1>7
  <2>. QED  BY <1>2, <1>4, <1>6, <2>1 DEF Packable
<1>9. ASSUME NEW time \in Nat, f.timestamp_us <= time + MaxFutureSkew
      PROVE  FieldFault(f, time) = "NONE"
  <2>1. ~(t < ProjectEpoch) /\ ~(t > time + MaxFutureSkew) /\ ~(m.boot < 1)
    BY <1>3, <1>4, <1>2, <1>9, CodecAssumption
  <2>2. m.faults \div 64 = 0
    BY <1>2
  <2>. QED  BY <1>2, <1>4, <1>7, <2>1, <2>2 DEF FieldFault
<1>. QED  BY <1>4, <1>5, <1>8, <1>9
-----------------------------------------------------------------------------
(* The inductive invariant.                                                *)

\* What was encoded and what it became on the way.
FrameInv ==
    /\ source \in {"NONE", "CORRUPT_CRC", "UNSUPPORTED_VERSION", "FOREIGN"}
    /\ Packable(frame)
    /\ source # "FOREIGN" =>
          \E t \in SampleTimes : /\ t >= ProjectEpoch
                                 /\ measured \in Measurements
                                 /\ frame = FrameOf(measured, t)
    /\ made = ApplyWireFailure(encode_telemetry(frame), source)
    /\ \/ raw = made
       \/ source \in {"NONE", "FOREIGN"} /\ Damaged(raw, made)

\* Which of the later values are there, and what they were computed from.
StageInv ==
    /\ stage \in {"start", "sent", "recorded", "judged", "processed"}
    /\ stage \notin {"start", "sent"} =>
          receivedAt \in GroundTimes /\ judgedAt \in GroundTimes
          /\ receivedAt <= judgedAt
    /\ stage \in {"start", "sent", "recorded"} => verdict = None
    /\ stage \in {"judged", "processed"} =>
          verdict = decode_telemetry(raw, judgedAt)
    /\ stage # "processed" => result = None
    /\ stage = "processed" =>
          verdict.reason = "NONE" /\ result = Processed(receivedAt)

JourneyInv == StageInv /\ (stage # "start" => FrameInv)

LEMMA DistortDamages ==
    ASSUME FrameInv, Distort
    PROVE  Damaged(raw', made)
<1>1. raw = made /\ source \in {"NONE", "FOREIGN"}
  BY DEF Distort
<1>2. made = encode_telemetry(frame)
  BY <1>1 DEF FrameInv, ApplyWireFailure
<1>. DEFINE n == BodySize + CrcBytes
<1>3. made \in Seq(Byte) /\ Len(made) = n
  BY <1>2, EncodedParts DEF FrameInv
<1>4. n \in Nat /\ n > 1
  BY BodySizeType DEF CrcBytes
<1>. HIDE DEF n
<1>5. made \in [1 .. n -> Byte] /\ DOMAIN made = 1 .. n
  BY <1>3, <1>4
<1>6. ASSUME NEW i \in DOMAIN raw, NEW d \in {1, 128},
             raw' = [raw EXCEPT ![i] = (@ + d) % 256]
      PROVE  Damaged(raw', made)
  <2>1. i \in 1 .. n /\ made[i] \in Byte
    BY <1>1, <1>5, <1>6
  <2>2. \A x \in Byte : (x + 1) % 256 \in Byte /\ (x + 1) % 256 # x
    BY DEF Byte
  <2>3. \A x \in Byte : (x + 128) % 256 \in Byte /\ (x + 128) % 256 # x
    BY DEF Byte
  <2>4. (made[i] + d) % 256 \in Byte /\ (made[i] + d) % 256 # made[i]
    BY <2>1, <2>2, <2>3
  <2>. DEFINE y == (made[i] + d) % 256
  <2>5. raw' = [made EXCEPT ![i] = y]
    BY <1>1, <1>6
  <2>. HIDE DEF y
  <2>6. raw' \in [1 .. n -> Byte] /\ raw'[i] # made[i]
        /\ \A j \in 1 .. n : j # i => raw'[j] = made[j]
    BY <1>5, <2>1, <2>4, <2>5 DEF y
  <2>7. raw' \in Seq(Byte) /\ Len(raw') = n
    BY <1>4, <2>6
  <2>. QED  BY <1>3, <2>1, <2>6, <2>7 DEF Damaged
<1>7. ASSUME raw' \in {<<>>, Front(raw), Append(raw, 0)}
      PROVE  Damaged(raw', made)
  <2>1. 0 \in Byte
    BY DEF Byte
  <2>2. <<>> \in Seq(Byte) /\ Len(<<>>) = 0
    OBVIOUS
  <2>3. Front(made) \in Seq(Byte) /\ Len(Front(made)) = n - 1
    BY <1>3, <1>4 DEF Front
  <2>4. Append(made, 0) \in Seq(Byte) /\ Len(Append(made, 0)) = n + 1
    BY <1>3, <1>4, <2>1
  <2>5. raw' \in Seq(Byte) /\ Len(raw') # n
    <3>1. \/ raw' = <<>> \/ raw' = Front(made) \/ raw' = Append(made, 0)
      BY <1>1, <1>7
    <3>2. 0 # n /\ n - 1 # n /\ n + 1 # n
      BY <1>4
    <3>. QED  BY <2>2, <2>3, <2>4, <3>1, <3>2, Zenon
  <2>. QED  BY <1>3, <2>5 DEF Damaged
<1>. QED  BY <1>6, <1>7 DEF Distort

\* Before the bytes are sent nothing is known; sending fixes them.
LEMMA SendSteps ==
    ASSUME JourneyInv
    PROVE  /\ \A m \in Measurements, t \in SampleTimes,
                 mode \in {"NONE", "CORRUPT_CRC", "UNSUPPORTED_VERSION"} :
                 Simulate(m, t, mode) => JourneyInv'
           /\ \A f \in ForeignFrames : SendForeign(f) => JourneyInv'
<1>1. ASSUME NEW by, NEW m, NEW f, NEW bytes, Send(by, m, f, bytes)
      PROVE  StageInv'
  BY <1>1 DEF Send, JourneyInv, StageInv
<1>2. ASSUME NEW m \in Measurements, NEW t \in SampleTimes,
             NEW mode \in {"NONE", "CORRUPT_CRC", "UNSUPPORTED_VERSION"},
             Simulate(m, t, mode)
      PROVE  JourneyInv'
  <2>. DEFINE f == FrameOf(m, t)
  <2>1. t >= ProjectEpoch
        /\ Send(mode, m, f, ApplyWireFailure(encode_telemetry(f), mode))
    BY <1>2 DEF Simulate
  <2>2. Packable(f)
    BY <2>1, SimulatedFrame
  <2>3. /\ source' = mode /\ measured' = m /\ frame' = f
        /\ made' = ApplyWireFailure(encode_telemetry(f), mode) /\ raw' = made'
    BY <2>1 DEF Send
  <2>4. FrameInv'
    <3>1. frame' = FrameOf(measured', t) /\ measured' \in Measurements
      BY <2>3
    <3>2. Packable(frame')
      BY <2>2, <2>3
    <3>3. made' = ApplyWireFailure(encode_telemetry(frame'), source')
      BY <2>3
    <3>. QED  BY <2>1, <2>3, <3>1, <3>2, <3>3 DEF FrameInv
  <2>. QED  BY <1>1, <2>1, <2>4 DEF JourneyInv
<1>3. ASSUME NEW f \in ForeignFrames, SendForeign(f)
      PROVE  JourneyInv'
  <2>1. Send("FOREIGN", None, f, encode_telemetry(f))
    BY <1>3 DEF SendForeign
  <2>2. /\ source' = "FOREIGN" /\ frame' = f
        /\ made' = encode_telemetry(f) /\ raw' = made'
    BY <2>1 DEF Send
  <2>3. Packable(frame')
    BY <2>2, JourneyAssumption
  <2>4. ApplyWireFailure(encode_telemetry(f), "FOREIGN") = encode_telemetry(f)
    BY DEF ApplyWireFailure
  <2>5. made' = ApplyWireFailure(encode_telemetry(frame'), source')
    BY <2>2, <2>4
  <2>6. FrameInv'
    BY <2>2, <2>3, <2>5 DEF FrameInv
  <2>. QED  BY <1>1, <2>1, <2>6 DEF JourneyInv
<1>. QED  BY <1>2, <1>3

LEMMA JourneyStep ==
    ASSUME JourneyInv, [JourneyNext]_journeyVars
    PROVE  JourneyInv'
<1>. USE DEF JourneyInv
<1>1. CASE Distort
  <2>1. stage = "sent" /\ UNCHANGED <<stage, source, measured, frame, made,
                             receivedAt, judgedAt, verdict, result>>
    BY <1>1 DEF Distort
  <2>2. FrameInv /\ Damaged(raw', made) /\ source \in {"NONE", "FOREIGN"}
    BY <1>1, <2>1, DistortDamages DEF Distort
  <2>3. FrameInv'
    BY <2>1, <2>2 DEF FrameInv
  <2>4. StageInv'
    BY <2>1 DEF StageInv
  <2>. QED  BY <2>3, <2>4
<1>2. ASSUME NEW t \in GroundTimes, Record(t)
      PROVE  JourneyInv'
  <2>1. FrameInv'
    BY <1>2 DEF Record, FrameInv
  <2>2. StageInv'
    <3>1. t <= t
      BY JourneyAssumption
    <3>. QED  BY <1>2, <3>1 DEF Record, StageInv
  <2>. QED  BY <2>1, <2>2
<1>3. ASSUME NEW t \in GroundTimes, Resume(t)
      PROVE  JourneyInv'
  <2>1. FrameInv'
    BY <1>3 DEF Resume, FrameInv
  <2>2. StageInv'
    <3>1. stage = "recorded" /\ stage' = stage /\ judgedAt' = t /\ t > receivedAt
          /\ UNCHANGED <<receivedAt, verdict, result>>
      BY <1>3 DEF Resume
    <3>2. receivedAt \in GroundTimes /\ receivedAt \in Nat /\ t \in Nat
      BY <3>1, JourneyAssumption DEF StageInv
    <3>3. receivedAt <= t
      BY <3>1, <3>2
    <3>. QED  BY <3>1, <3>2, <3>3 DEF StageInv
  <2>. QED  BY <2>1, <2>2
<1>4. CASE Judge
  <2>1. FrameInv'
    BY <1>4 DEF Judge, FrameInv
  <2>2. StageInv'
    BY <1>4 DEF Judge, StageInv
  <2>. QED  BY <2>1, <2>2
<1>5. ASSUME NEW t \in GroundTimes, Process(t)
      PROVE  JourneyInv'
  <2>1. FrameInv'
    BY <1>5 DEF Process, FrameInv
  <2>2. StageInv'
    <3>1. Processed(receivedAt)' = Processed(receivedAt)
      BY <1>5 DEF Process, Processed
    <3>. QED  BY <1>5, <3>1 DEF Process, StageInv
  <2>. QED  BY <2>1, <2>2
<1>6. CASE UNCHANGED journeyVars
  <2>1. Processed(receivedAt)' = Processed(receivedAt)
    BY <1>6 DEF journeyVars, Processed
  <2>2. StageInv'
    BY <1>6, <2>1 DEF journeyVars, StageInv
  <2>3. FrameInv' = FrameInv
    BY <1>6 DEF journeyVars, FrameInv
  <2>. QED  BY <1>6, <2>2, <2>3 DEF journeyVars
<1>. QED  BY <1>1, <1>2, <1>3, <1>4, <1>5, <1>6, SendSteps DEF JourneyNext

LEMMA JourneyInvariant == JourneySpec => []JourneyInv
<1>1. JourneyInit => JourneyInv
  BY DEF JourneyInit, JourneyInv, StageInv
<1>2. JourneyInv /\ [JourneyNext]_journeyVars => JourneyInv'
  BY JourneyStep
<1>. QED  BY <1>1, <1>2, PTL DEF JourneySpec
-----------------------------------------------------------------------------
(* Acceptance.                                                             *)

\* Only the undamaged bytes of an unspoilt frame are ever accepted, at any
\* time, and the decoder then returns the frame that was encoded.
LEMMA AcceptedBytes ==
    ASSUME FrameInv, NEW time, decode_telemetry(raw, time).reason = "NONE"
    PROVE  /\ raw = made
           /\ source \in {"NONE", "FOREIGN"}
           /\ raw = encode_telemetry(frame)
           /\ frame.protocol_version = 1
           /\ \A t : decode_telemetry(raw, t) = ValidateFields(frame, t)
           /\ FieldFault(frame, time) = "NONE"
           /\ decode_telemetry(raw, time).frame = frame
<1>. DEFINE e == encode_telemetry(frame)
<1>1. /\ e \in Seq(Byte) /\ Len(e) = BodySize + CrcBytes /\ Sealed(e)
      /\ e[1] = frame.protocol_version
      /\ UnpackBody(SubSeq(e, 1, BodySize)) = frame
  BY EncodedParts DEF FrameInv
<1>2. made = ApplyWireFailure(e, source)
  BY DEF FrameInv
<1>. HIDE DEF e
<1>3. source \in {"NONE", "FOREIGN"} => made = e
  BY <1>2 DEF ApplyWireFailure
<1>4. ~Damaged(raw, e)
  <2>. SUFFICES ASSUME Damaged(raw, e) PROVE FALSE
    OBVIOUS
  <2>1. raw \in Seq(Byte)
    BY DEF Damaged
  <2>2. Len(raw) = BodySize + CrcBytes /\ Sealed(raw)
    BY <2>1, DecodeAccepts
  <2>. QED  BY <1>1, <2>2, DamageBreaksSeal
<1>5. source # "CORRUPT_CRC"
  <2>. SUFFICES ASSUME source = "CORRUPT_CRC" PROVE FALSE
    OBVIOUS
  <2>1. raw = made
    BY DEF FrameInv
  <2>. QED  BY <1>1, <1>2, <1>4, <2>1, CorruptIsDamaged
<1>6. source # "UNSUPPORTED_VERSION"
  <2>. SUFFICES ASSUME source = "UNSUPPORTED_VERSION" PROVE FALSE
    OBVIOUS
  <2>1. raw = made
    BY DEF FrameInv
  <2>2. raw \in Seq(Byte) /\ raw[1] = 2
    BY <1>1, <1>2, <2>1, OtherVersionIsSealed
  <2>. QED  BY <2>2, DecodeAccepts
<1>7. source \in {"NONE", "FOREIGN"} /\ made = e /\ raw = made
  BY <1>3, <1>4, <1>5, <1>6 DEF FrameInv
<1>8. raw = e /\ raw \in Seq(Byte) /\ raw[1] = 1
  BY <1>1, <1>7, DecodeAccepts
<1>9. ASSUME NEW t
      PROVE  decode_telemetry(raw, t) = ValidateFields(frame, t)
  BY <1>1, <1>8, DecodeReadsFields
<1>10. FieldFault(frame, time) = "NONE"
       /\ decode_telemetry(raw, time) = Accepted(frame)
  BY <1>9, ValidateFieldsNames
<1>11. decode_telemetry(raw, time).frame = frame
  BY <1>10 DEF Accepted
<1>. QED  BY <1>1, <1>7, <1>8, <1>9, <1>10, <1>11 DEF e

\* An accepted frame carries exactly the values its source encoded, for every
\* damage of one byte or of the length (encode_telemetry, decode_telemetry),
\* and they are within half a unit of what was measured (_scaled).
THEOREM AcceptedFramesAreGenuine == JourneySpec => []AcceptedIsWhatWasSent
<1>1. ASSUME JourneyInv
      PROVE  AcceptedIsWhatWasSent
  <2>. SUFFICES ASSUME verdict # None, verdict.reason = "NONE"
                PROVE  /\ raw = made
                       /\ source \in {"NONE", "FOREIGN"}
                       /\ verdict.frame = frame
                       /\ source = "NONE" =>
                            /\ 10 * verdict.frame.temperature_centi_c
                                 - measured.temperature \in -5 .. 5
                            /\ 10 * verdict.frame.voltage_mv
                                 - measured.voltage \in -5 .. 5
    BY DEF AcceptedIsWhatWasSent
  <2>1. FrameInv /\ verdict = decode_telemetry(raw, judgedAt)
    BY <1>1 DEF JourneyInv, StageInv
  <2>2. raw = made /\ source \in {"NONE", "FOREIGN"} /\ verdict.frame = frame
    BY <2>1, AcceptedBytes
  <2>3. ASSUME source = "NONE"
        PROVE  /\ 10 * frame.temperature_centi_c - measured.temperature \in -5 .. 5
               /\ 10 * frame.voltage_mv - measured.voltage \in -5 .. 5
    <3>1. PICK t \in SampleTimes : t >= ProjectEpoch /\ measured \in Measurements
                                   /\ frame = FrameOf(measured, t)
      BY <2>1, <2>3 DEF FrameInv
    <3>. QED  BY <3>1, SimulatedFrame
  <2>. QED  BY <2>2, <2>3
<1>. QED  BY <1>1, JourneyInvariant, PTL

\* Ground accepts what the simulator makes of every admitted request, if it
\* arrives unchanged with a clock that is not too far ahead.
THEOREM SamplesOfTheSimulatorPass == JourneySpec => []SoundSamplesAreAccepted
<1>1. ASSUME JourneyInv
      PROVE  SoundSamplesAreAccepted
  <2>. SUFFICES ASSUME verdict # None, source = "NONE", raw = made,
                       frame.timestamp_us <= judgedAt + MaxFutureSkew
                PROVE  verdict.reason = "NONE"
    BY DEF SoundSamplesAreAccepted
  <2>1. /\ FrameInv /\ verdict = decode_telemetry(raw, judgedAt)
        /\ judgedAt \in Nat
    BY <1>1, JourneyAssumption DEF JourneyInv, StageInv
  <2>2. PICK t \in SampleTimes : t >= ProjectEpoch /\ measured \in Measurements
                                 /\ frame = FrameOf(measured, t)
    BY <2>1 DEF FrameInv
  <2>3. frame.protocol_version = 1 /\ FieldFault(frame, judgedAt) = "NONE"
    BY <2>1, <2>2, SimulatedFrame
  <2>4. raw = encode_telemetry(frame)
    BY <2>1 DEF FrameInv, ApplyWireFailure
  <2>5. /\ raw \in Seq(Byte) /\ Len(raw) = BodySize + CrcBytes /\ Sealed(raw)
        /\ raw[1] = 1 /\ UnpackBody(SubSeq(raw, 1, BodySize)) = frame
    BY <2>1, <2>3, <2>4, EncodedParts DEF FrameInv
  <2>6. verdict = ValidateFields(frame, judgedAt)
    BY <2>1, <2>5, DecodeReadsFields
  <2>. QED  BY <2>3, <2>6, ValidateFieldsNames
<1>. QED  BY <1>1, JourneyInvariant, PTL

\* The worker fails on accepted bytes exactly where the delivery was resumed
\* and the sample lies between the limits of the two times (run_worker).
THEOREM WorkerFailsOnlyOnResumed == JourneySpec => []WorkerRefusesOnlyResumed
<1>1. ASSUME JourneyInv
      PROVE  WorkerRefusesOnlyResumed
  <2>. SUFFICES ASSUME result # None
                PROVE  result.state = "FAILED" <=>
                         /\ frame.timestamp_us > receivedAt + MaxFutureSkew
                         /\ frame.timestamp_us <= judgedAt + MaxFutureSkew
    BY DEF WorkerRefusesOnlyResumed
  <2>1. /\ FrameInv /\ verdict = decode_telemetry(raw, judgedAt)
        /\ verdict.reason = "NONE" /\ result = Processed(receivedAt)
        /\ judgedAt \in Nat /\ receivedAt \in Nat
    BY <1>1, JourneyAssumption DEF JourneyInv, StageInv
  <2>2. /\ FieldFault(frame, judgedAt) = "NONE"
        /\ \A t : decode_telemetry(raw, t) = ValidateFields(frame, t)
    BY <2>1, AcceptedBytes
  <2>. DEFINE again == decode_telemetry(raw, receivedAt)
              late == frame.timestamp_us > receivedAt + MaxFutureSkew
  <2>3. frame.timestamp_us \in Nat /\ MaxFutureSkew \in Nat
    BY <2>1, CodecAssumption DEF FrameInv, Packable
  <2>4. ~(frame.timestamp_us > judgedAt + MaxFutureSkew)
    BY <2>2 DEF FieldFault
  <2>5. late => FieldFault(frame, receivedAt) # "NONE"
    BY DEF FieldFault
  <2>6. ~late => FieldFault(frame, receivedAt) = "NONE"
    BY <2>2 DEF FieldFault
  <2>7. /\ verdict = Accepted(frame)
        /\ again.reason = FieldFault(frame, receivedAt)
        /\ FieldFault(frame, receivedAt) = "NONE" => again = Accepted(frame)
    BY <2>1, <2>2, ValidateFieldsNames
  <2>8. result.state = "FAILED" <=> again.reason # "NONE" \/ again # verdict
    BY <2>1 DEF Processed
  <2>9. frame.timestamp_us <= judgedAt + MaxFutureSkew
    BY <2>1, <2>3, <2>4
  <2>. HIDE DEF again, late
  <2>10. result.state = "FAILED" <=> late
    BY <2>5, <2>6, <2>7, <2>8
  <2>. QED  BY <2>9, <2>10 DEF late
<1>. QED  BY <1>1, JourneyInvariant, PTL
-----------------------------------------------------------------------------
(* The health of a stored result.                                          *)

LEMMA MaxIs ==
    ASSUME NEW S \in SUBSET Int, NEW k \in S, \A y \in S : y <= k
    PROVE  Max(S) = k
<1>1. \A y \in S : k >= y
  OBVIOUS
<1>2. \A x \in S : (\A y \in S : x >= y) => x = k
  OBVIOUS
<1>. QED  BY <1>1, <1>2 DEF Max

LEMMA MinIs ==
    ASSUME NEW S \in SUBSET Int, NEW k \in S, \A y \in S : k <= y
    PROVE  Min(S) = k
<1>1. \A x \in S : (\A y \in S : x <= y) => x = k
  OBVIOUS
<1>. QED  BY <1>1 DEF Min

LEMMA MostSevereIs ==
    ASSUME NEW S, S \subseteq {"NOMINAL", "WARNING", "CRITICAL"}, S # {}
    PROVE  MostSevere(S) = IF "CRITICAL" \in S THEN "CRITICAL"
                           ELSE IF "WARNING" \in S THEN "WARNING" ELSE "NOMINAL"
<1>. DEFINE I == {i \in DOMAIN Severities : Severities[i] \in S}
<1>1. DOMAIN Severities = 1 .. 3 /\ Severities[1] = "NOMINAL"
      /\ Severities[2] = "WARNING" /\ Severities[3] = "CRITICAL"
  BY DEF Severities
<1>2. I \in SUBSET Int /\ \A i \in I : i \in 1 .. 3 /\ Severities[i] \in S
  BY <1>1
<1>3. \A i \in 1 .. 3 : Severities[i] \in S => i \in I
  BY <1>1
<1>4. MostSevere(S) = Severities[Max(I)]
  BY DEF MostSevere
<1>. HIDE DEF I
<1>5. CASE "CRITICAL" \in S
  <2>1. Max(I) = 3
    BY <1>1, <1>2, <1>3, <1>5, MaxIs
  <2>. QED  BY <1>1, <1>4, <1>5, <2>1
<1>6. CASE "CRITICAL" \notin S /\ "WARNING" \in S
  <2>1. 2 \in I /\ 3 \notin I
    BY <1>1, <1>2, <1>3, <1>6
  <2>2. \A i \in I : i <= 2
    BY <1>2, <2>1
  <2>3. Max(I) = 2
    BY <1>2, <2>1, <2>2, MaxIs
  <2>. QED  BY <1>1, <1>4, <1>6, <2>3
<1>7. CASE "CRITICAL" \notin S /\ "WARNING" \notin S
  <2>0. "NOMINAL" \in S
    BY <1>7
  <2>1. 1 \in I /\ 2 \notin I /\ 3 \notin I
    BY <1>1, <1>2, <1>3, <1>7, <2>0
  <2>2. \A i \in I : i <= 1
    BY <1>2, <2>1
  <2>3. Max(I) = 1
    BY <1>2, <2>1, <2>2, MaxIs
  <2>. QED  BY <1>1, <1>4, <1>7, <2>3
<1>. QED  BY <1>5, <1>6, <1>7

\* The bit masks of the fault classes, for flags without reserved bits.
LEMMA FaultBits ==
    ASSUME NEW x \in Nat, x <= 63
    PROVE  /\ x \div 8 # 0 <=> \E bit \in {8, 16, 32} : (x \div bit) % 2 = 1
           /\ x = 0 <=> \A bit \in {1, 2, 4, 8, 16, 32} : (x \div bit) % 2 = 0
<1>1. x \div 8 # 0 <=> \/ (x \div 8) % 2 = 1 \/ (x \div 16) % 2 = 1
                       \/ (x \div 32) % 2 = 1
  OBVIOUS
<1>2. x = 0 <=> /\ (x \div 1) % 2 = 0 /\ (x \div 2) % 2 = 0
                /\ (x \div 4) % 2 = 0 /\ (x \div 8) % 2 = 0
                /\ (x \div 16) % 2 = 0 /\ (x \div 32) % 2 = 0
  OBVIOUS
<1>. QED  BY <1>1, <1>2

LEMMA HealthTables ==
    ASSUME NEW f, Packable(f), f.fault_flags \div 64 = 0
    PROVE  MostSevere({classify_temperature(f.temperature_centi_c),
                       classify_voltage(f.voltage_mv),
                       classify_faults(f.fault_flags)})
             = IF IsCritical(f) THEN "CRITICAL"
               ELSE IF IsNominal(f) THEN "NOMINAL" ELSE "WARNING"
<1>. DEFINE a == classify_temperature(f.temperature_centi_c)
            b == classify_voltage(f.voltage_mv)
            c == classify_faults(f.fault_flags)
            S == {a, b, c}
<1>1. f.temperature_centi_c \in Int /\ f.voltage_mv \in Nat
      /\ f.fault_flags \in Nat
  BY DEF Packable, Byte
<1>2. f.fault_flags <= 63
  BY <1>1
<1>3. {a, b, c} \subseteq {"NOMINAL", "WARNING", "CRITICAL"}
  BY DEF classify_temperature, classify_voltage, classify_faults
<1>4. IsCritical(f) <=> a = "CRITICAL" \/ b = "CRITICAL" \/ c = "CRITICAL"
  <2>1. f.fault_flags \div 8 # 0 <=>
          \E bit \in {8, 16, 32} : (f.fault_flags \div bit) % 2 = 1
    BY <1>1, <1>2, FaultBits
  <2>2. c = "CRITICAL" <=> f.fault_flags \div 8 # 0
    BY DEF classify_faults
  <2>3. a = "CRITICAL" <=> f.temperature_centi_c < -4000
                           \/ f.temperature_centi_c >= 8500
    BY DEF classify_temperature
  <2>4. b = "CRITICAL" <=> f.voltage_mv < 22000 \/ f.voltage_mv > 34000
    BY DEF classify_voltage
  <2>. HIDE DEF a, b, c
  <2>. QED  BY <2>1, <2>2, <2>3, <2>4 DEF IsCritical
<1>5. IsNominal(f) <=> a = "NOMINAL" /\ b = "NOMINAL" /\ c = "NOMINAL"
  <2>1. f.fault_flags = 0 <=>
          \A bit \in {1, 2, 4, 8, 16, 32} : (f.fault_flags \div bit) % 2 = 0
    BY <1>1, <1>2, FaultBits
  <2>2. c = "NOMINAL" <=> f.fault_flags = 0
    BY <1>1, <1>2 DEF classify_faults
  <2>3. a = "NOMINAL" <=> -2000 <= f.temperature_centi_c
                          /\ f.temperature_centi_c < 6200
    BY <1>1 DEF classify_temperature
  <2>4. b = "NOMINAL" <=> 26000 <= f.voltage_mv /\ f.voltage_mv <= 30000
    BY <1>1 DEF classify_voltage
  <2>. HIDE DEF a, b, c
  <2>. QED  BY <2>1, <2>2, <2>3, <2>4 DEF IsNominal
<1>. HIDE DEF a, b, c
<1>6. MostSevere(S) = IF "CRITICAL" \in S THEN "CRITICAL"
                      ELSE IF "WARNING" \in S THEN "WARNING" ELSE "NOMINAL"
  BY <1>3, MostSevereIs
<1>7. MostSevere(S) = IF IsCritical(f) THEN "CRITICAL"
                      ELSE IF IsNominal(f) THEN "NOMINAL" ELSE "WARNING"
  BY <1>3, <1>4, <1>5, <1>6
<1>. QED  BY <1>7 DEF a, b, c

\* A stored result has the severity and the staleness that the tables of the
\* interface document give for the values sent and the recorded time of
\* receipt (assess_health, run_worker).
THEOREM StoredHealthIsRight == JourneySpec => []ResultFollowsTables
<1>1. ASSUME JourneyInv
      PROVE  ResultFollowsTables
  <2>. SUFFICES ASSUME result # None, result.state = "COMPLETE"
                PROVE  /\ result.health.classification =
                            IF IsCritical(frame) THEN "CRITICAL"
                            ELSE IF IsNominal(frame) THEN "NOMINAL" ELSE "WARNING"
                       /\ result.health.is_stale <=>
                            frame.timestamp_us + StaleAfter < receivedAt
                       /\ result.values = verdict.frame
    BY DEF ResultFollowsTables
  <2>1. /\ FrameInv /\ verdict = decode_telemetry(raw, judgedAt)
        /\ verdict.reason = "NONE" /\ result = Processed(receivedAt)
        /\ receivedAt \in Nat
    BY <1>1, JourneyAssumption DEF JourneyInv, StageInv
  <2>2. verdict.frame = frame /\ FieldFault(frame, judgedAt) = "NONE"
    BY <2>1, AcceptedBytes
  <2>. DEFINE again == decode_telemetry(raw, receivedAt)
  <2>3. /\ again = verdict
        /\ result.values = again.frame
        /\ result.health = assess_health(again.frame, receivedAt)
    BY <2>1 DEF Processed
  <2>. HIDE DEF again
  <2>4. result.values = frame /\ result.health = assess_health(frame, receivedAt)
    BY <2>2, <2>3
  <2>5. frame.fault_flags \div 64 = 0
    BY <2>2 DEF FieldFault
  <2>6. result.health.classification =
          IF IsCritical(frame) THEN "CRITICAL"
          ELSE IF IsNominal(frame) THEN "NOMINAL" ELSE "WARNING"
    BY <2>1, <2>4, <2>5, HealthTables DEF assess_health, FrameInv
  <2>7. result.health.is_stale <=> receivedAt - frame.timestamp_us > StaleAfter
    <3>1. result.health.is_stale = IsStale(frame.timestamp_us, receivedAt)
      BY <2>4 DEF assess_health
    <3>. QED  BY <3>1, Zenon DEF IsStale
  <2>8. frame.timestamp_us \in Nat /\ StaleAfter \in Nat
    BY <2>1, CodecAssumption DEF FrameInv, Packable
  <2>9. receivedAt - frame.timestamp_us > StaleAfter
          <=> frame.timestamp_us + StaleAfter < receivedAt
    BY <2>1, <2>8
  <2>. QED  BY <2>2, <2>4, <2>6, <2>7, <2>9
<1>. QED  BY <1>1, JourneyInvariant, PTL
-----------------------------------------------------------------------------
(* The order of the rules.                                                 *)

LEMMA ByteRanges ==
    ASSUME NEW x \in Byte
    PROVE  /\ x \in Nat
           /\ x # 1 <=> x \in {0} \cup 2 .. 255
           /\ x \notin 0 .. 3 <=> x \in 4 .. 255
           /\ x \div 64 # 0 <=> x >= 128 \/ x % 128 >= 64
<1>1. x \in Nat
  BY DEF Byte
<1>2. x # 1 <=> x \in {0} \cup 2 .. 255
  BY DEF Byte
<1>3. x \notin 0 .. 3 <=> x \in 4 .. 255
  BY DEF Byte
<1>4. x \div 64 # 0 <=> x >= 128 \/ x % 128 >= 64
  BY DEF Byte
<1>. QED  BY <1>1, <1>2, <1>3, <1>4

LEMMA FieldTypes ==
    ASSUME NEW b \in Seq(Byte), NEW skip \in Nat, NEW size \in Nat,
           skip + size <= Len(b)
    PROVE  /\ FieldAt(b, skip, size) \in Nat
           /\ size = 1 => FieldAt(b, skip, size) = b[skip + 1]
<1>. DEFINE s == SubSeq(b, skip + 1, skip + size)
<1>1. s \in Seq(Byte) /\ Len(s) = size
  OBVIOUS
<1>2. size = 1 => s[1] = b[skip + 1]
  OBVIOUS
<1>. HIDE DEF s
<1>3. s \in [1 .. size -> Byte]
  BY <1>1
<1>4. PICK g : Unpacking(g, size, s)
  BY <1>3, UnpackSteps, Zenon
<1>5. g \in [0 .. size -> Nat] /\ Unpack(s) = g[size] /\ g[0] = 0
      /\ \A i \in 1 .. size : g[i] = 256 * g[i - 1] + s[i]
  BY <1>4, Zenon DEF Unpacking
<1>6. FieldAt(b, skip, size) = g[size]
  BY <1>5 DEF FieldAt, s
<1>7. g[size] \in Nat
  BY <1>5
<1>8. ASSUME size = 1
      PROVE  g[size] = b[skip + 1]
  <2>1. 1 \in 1 .. size /\ 1 - 1 = 0
    BY <1>8
  <2>2. g[1] = 256 * g[0] + s[1]
    BY <1>5, <2>1
  <2>3. s[1] \in Nat
    <3>1. s[1] \in Byte
      BY <1>3, <2>1
    <3>. QED  BY <3>1, ByteRanges
  <2>4. g[1] = s[1]
    BY <1>5, <2>2, <2>3
  <2>. QED  BY <1>2, <1>8, <2>4
<1>. QED  BY <1>6, <1>7, <1>8

\* The fields of any body of the right length.
LEMMA BodyFields ==
    ASSUME NEW b \in Seq(Byte), Len(b) = BodySize, NEW f, f = UnpackBody(b)
    PROVE  /\ f.protocol_version = b[1]
           /\ f.payload_id \in Byte /\ f.boot_id \in Nat /\ f.timestamp_us \in Nat
           /\ f.temperature_centi_c \in Int /\ f.voltage_mv \in Nat
           /\ f.operating_mode \in Byte /\ f.fault_flags \in Byte
<1>. DEFINE c == CounterBytes
            r == 2 + 2 * c + TimeBytes
<1>1. /\ c \in Nat /\ TimeBytes \in Nat /\ r \in Nat /\ r + 6 = BodySize
      /\ 2 + 2 * c \in Nat /\ 2 <= r /\ 2 + c <= r
      /\ (2 + 2 * c) + TimeBytes = r
  BY CodecAssumption DEF BodySize
<1>2. /\ f.protocol_version = FieldAt(b, 0, 1)
      /\ f.payload_id = FieldAt(b, 1, 1)
      /\ f.boot_id = FieldAt(b, 2, c)
      /\ f.timestamp_us = FieldAt(b, 2 + 2 * c, TimeBytes)
      /\ f.temperature_centi_c = ToSigned(FieldAt(b, r, 2))
      /\ f.voltage_mv = FieldAt(b, r + 2, 2)
      /\ f.operating_mode = FieldAt(b, r + 4, 1)
      /\ f.fault_flags = FieldAt(b, r + 5, 1)
  BY DEF UnpackBody
<1>. HIDE DEF c, r
<1>3. FieldAt(b, 0, 1) = b[1]
  BY <1>1, FieldTypes
<1>4. FieldAt(b, 1, 1) = b[2] /\ b[2] \in Byte
  BY <1>1, FieldTypes
<1>5. FieldAt(b, 2, c) \in Nat
  BY <1>1, FieldTypes
<1>6. FieldAt(b, 2 + 2 * c, TimeBytes) \in Nat
  BY <1>1, FieldTypes
<1>7. ToSigned(FieldAt(b, r, 2)) \in Int
  <2>1. FieldAt(b, r, 2) \in Nat
    BY <1>1, FieldTypes
  <2>. QED  BY <2>1 DEF ToSigned
<1>8. FieldAt(b, r + 2, 2) \in Nat
  BY <1>1, FieldTypes
<1>9. FieldAt(b, r + 4, 1) \in Byte
  <2>1. FieldAt(b, r + 4, 1) = b[(r + 4) + 1] /\ (r + 4) + 1 \in 1 .. Len(b)
    BY <1>1, FieldTypes
  <2>. QED  BY <2>1
<1>10. FieldAt(b, r + 5, 1) \in Byte
  <2>1. FieldAt(b, r + 5, 1) = b[(r + 5) + 1] /\ (r + 5) + 1 \in 1 .. Len(b)
    BY <1>1, FieldTypes
  <2>. QED  BY <2>1
<1>. QED
  BY <1>2, <1>3, <1>4, <1>5, <1>6, <1>7, <1>8, <1>9, <1>10

LEMMA SealedIsWithCrc ==
    ASSUME NEW r \in Seq(Byte), Len(r) = BodySize + CrcBytes
    PROVE  Sealed(r) <=> WithCrc(SubSeq(r, 1, BodySize)) = r
<1>. DEFINE n == BodySize
            b == SubSeq(r, 1, n)
            tail == SubSeq(r, n + 1, Len(r))
            p == Pack(Crc(b), CrcBytes)
<1>1. n \in Nat \ {0} /\ Len(r) = n + 1
  BY BodySizeType DEF CrcBytes
<1>2. b \in Seq(Byte) /\ Len(b) = n
  BY FrameParts
<1>3. r = b \o tail
  <2>. HIDE DEF n
  <2>. QED  BY <1>1
<1>4. Sealed(r) <=> tail = p
  BY DEF Sealed
<1>5. WithCrc(b) = b \o p
  BY DEF WithCrc
<1>6. WithCrc(b) = r => Sealed(r)
  BY <1>2, WithCrcParts
<1>. HIDE DEF b, tail, p
<1>7. Sealed(r) => WithCrc(b) = r
  BY <1>3, <1>4, <1>5
<1>. QED  BY <1>6, <1>7 DEF b, n

\* B holds exactly the numbers of the field tests of _validate_fields that fail.
AgreesWithTests(B, f, time) ==
    /\ 5 \in B <=> f.payload_id # 1
    /\ 6 \in B <=> f.boot_id < 1
    /\ 7 \in B <=> f.timestamp_us < ProjectEpoch
    /\ 8 \in B <=> f.timestamp_us > time + MaxFutureSkew
    /\ 9 \in B <=> ~(-10000 <= f.temperature_centi_c
                     /\ f.temperature_centi_c <= 15000)
    /\ 10 \in B <=> ~(0 <= f.voltage_mv /\ f.voltage_mv <= 50000)
    /\ 11 \in B <=> f.operating_mode \notin 0 .. 3
    /\ 12 \in B <=> f.fault_flags \div 64 # 0

\* The rules of the interface document in the terms of the code's tests.
LEMMA RulesAsTested ==
    ASSUME NEW r \in Seq(Byte), NEW time \in Nat,
           NEW f, f = UnpackBody(SubSeq(r, 1, BodySize)),
           NEW B, B = BrokenRules(r, time)
    PROVE  /\ B \subseteq 1 .. 12
           /\ 1 \in B <=> r = <<>>
           /\ 2 \in B <=> r # <<>> /\ r[1] # 1
           /\ 3 \in B <=> Len(r) # BodySize + CrcBytes
           /\ Len(r) = BodySize + CrcBytes =>
                /\ 4 \in B <=> ~Sealed(r)
                /\ f.protocol_version = r[1]
                /\ AgreesWithTests(B, f, time)
           /\ Len(r) # BodySize + CrcBytes => B \subseteq 1 .. 3
<1>. DEFINE n == Len(r)
            sound == n = BodySize + CrcBytes
            Rule(k) ==
              \/ k = 1 /\ n = 0
              \/ k = 2 /\ n > 0 /\ r[1] # 1
              \/ k = 3 /\ ~sound
              \/ k = 4 /\ sound /\ WithCrc(SubSeq(r, 1, BodySize)) # r
              \/ k = 5 /\ sound /\ f.payload_id \in {0} \cup 2 .. 255
              \/ k = 6 /\ sound /\ f.boot_id = 0
              \/ k = 7 /\ sound /\ ~(f.timestamp_us >= ProjectEpoch)
              \/ k = 8 /\ sound /\ ~(f.timestamp_us - time <= MaxFutureSkew)
              \/ k = 9 /\ sound /\ (f.temperature_centi_c < -10000
                                    \/ f.temperature_centi_c > 15000)
              \/ k = 10 /\ sound /\ f.voltage_mv > 50000
              \/ k = 11 /\ sound /\ f.operating_mode \in 4 .. 255
              \/ k = 12 /\ sound /\ (f.fault_flags >= 128
                                     \/ f.fault_flags % 128 >= 64)
<1>1. B = {k \in 1 .. 12 : Rule(k)}
  BY DEF BrokenRules
<1>2. n \in Nat /\ (n = 0 <=> r = <<>>)
  OBVIOUS
<1>3. B \subseteq 1 .. 12 /\ \A k \in 1 .. 12 : k \in B <=> Rule(k)
  <2>. HIDE DEF Rule
  <2>. QED  BY <1>1
<1>4. /\ 1 \in B <=> r = <<>>
      /\ 2 \in B <=> r # <<>> /\ r[1] # 1
      /\ 3 \in B <=> ~sound
  <2>1. (1 \in B <=> Rule(1)) /\ (2 \in B <=> Rule(2)) /\ (3 \in B <=> Rule(3))
    BY <1>3
  <2>. QED  BY <1>2, <2>1
<1>5. ASSUME ~sound
      PROVE  B \subseteq 1 .. 3
  <2>1. \A k \in 4 .. 12 : ~Rule(k)
    BY <1>5
  <2>. HIDE DEF Rule, sound
  <2>. QED  BY <1>3, <2>1
<1>6. ASSUME sound
      PROVE  /\ 4 \in B <=> ~Sealed(r)
             /\ f.protocol_version = r[1]
             /\ AgreesWithTests(B, f, time)
  <2>. DEFINE b == SubSeq(r, 1, BodySize)
  <2>1. b \in Seq(Byte) /\ Len(b) = BodySize /\ b[1] = r[1]
    BY <1>6, FrameParts, BodySizeType
  <2>2. /\ f.protocol_version = b[1]
        /\ f.payload_id \in Byte /\ f.boot_id \in Nat /\ f.timestamp_us \in Nat
        /\ f.temperature_centi_c \in Int /\ f.voltage_mv \in Nat
        /\ f.operating_mode \in Byte /\ f.fault_flags \in Byte
    BY <2>1, BodyFields
  <2>3. ProjectEpoch \in Nat /\ MaxFutureSkew \in Nat
    BY CodecAssumption
  <2>4. 4 \in B <=> ~Sealed(r)
    <3>1. 4 \in B <=> Rule(4)
      BY <1>3
    <3>. QED  BY <1>6, <3>1, SealedIsWithCrc
  <2>5. 5 \in B <=> f.payload_id # 1
    <3>1. 5 \in B <=> f.payload_id \in {0} \cup 2 .. 255
      BY <1>3, <1>6
    <3>. QED  BY <2>2, <3>1, ByteRanges
  <2>6. 6 \in B <=> f.boot_id < 1
    <3>1. 6 \in B <=> f.boot_id = 0
      BY <1>3, <1>6
    <3>. QED  BY <2>2, <3>1
  <2>7. 7 \in B <=> f.timestamp_us < ProjectEpoch
    <3>1. 7 \in B <=> ~(f.timestamp_us >= ProjectEpoch)
      BY <1>3, <1>6
    <3>. QED  BY <2>2, <2>3, <3>1
  <2>8. 8 \in B <=> f.timestamp_us > time + MaxFutureSkew
    <3>1. 8 \in B <=> ~(f.timestamp_us - time <= MaxFutureSkew)
      BY <1>3, <1>6
    <3>. QED  BY <2>2, <2>3, <3>1
  <2>9. 9 \in B <=> ~(-10000 <= f.temperature_centi_c
                      /\ f.temperature_centi_c <= 15000)
    <3>1. 9 \in B <=> f.temperature_centi_c < -10000
                      \/ f.temperature_centi_c > 15000
      BY <1>3, <1>6
    <3>. QED  BY <2>2, <3>1
  <2>10. 10 \in B <=> ~(0 <= f.voltage_mv /\ f.voltage_mv <= 50000)
    <3>1. 10 \in B <=> f.voltage_mv > 50000
      BY <1>3, <1>6
    <3>. QED  BY <2>2, <3>1
  <2>11. 11 \in B <=> f.operating_mode \notin 0 .. 3
    <3>1. 11 \in B <=> f.operating_mode \in 4 .. 255
      BY <1>3, <1>6
    <3>. QED  BY <2>2, <3>1, ByteRanges
  <2>12. 12 \in B <=> f.fault_flags \div 64 # 0
    <3>1. 12 \in B <=> f.fault_flags >= 128 \/ f.fault_flags % 128 >= 64
      BY <1>3, <1>6
    <3>. QED  BY <2>2, <3>1, ByteRanges
  <2>13. f.protocol_version = r[1]
    BY <2>1, <2>2
  <2>. QED
    BY <2>4, <2>5, <2>6, <2>7, <2>8, <2>9, <2>10, <2>11, <2>12, <2>13, SMT
    DEF AgreesWithTests
<1>. QED  BY <1>3, <1>4, <1>5, <1>6

\* k is the first of the rules in B.
First(B, k) == k \in B /\ \A j \in 1 .. k - 1 : j \notin B

LEMMA FirstIsMin ==
    ASSUME NEW B, B \subseteq 1 .. 12, NEW k \in 1 .. 12, First(B, k)
    PROVE  Min(B) = k /\ B # {}
<1>1. B \in SUBSET Int /\ k \in B
  BY DEF First
<1>2. ASSUME NEW y \in B
      PROVE  k <= y
  <2>1. y \in 1 .. 12 /\ ~(y \in 1 .. k - 1)
    BY DEF First
  <2>. QED  BY <2>1
<1>. QED  BY <1>1, <1>2, MinIs

\* The names of the field rules, asked for one after the other.
FirstName(B) ==
    IF 5 \in B THEN "UNSUPPORTED_PAYLOAD_ID"
    ELSE IF 6 \in B THEN "INVALID_BOOT_ID"
    ELSE IF 7 \in B THEN "TIMESTAMP_BEFORE_PROJECT_EPOCH"
    ELSE IF 8 \in B THEN "TIMESTAMP_TOO_FAR_IN_FUTURE"
    ELSE IF 9 \in B THEN "TEMPERATURE_OUT_OF_RANGE"
    ELSE IF 10 \in B THEN "VOLTAGE_OUT_OF_RANGE"
    ELSE IF 11 \in B THEN "INVALID_OPERATING_MODE"
    ELSE IF 12 \in B THEN "RESERVED_FAULT_BITS_SET"
    ELSE "NONE"

LEMMA FirstNameIsOfMin ==
    ASSUME NEW B, B \subseteq 5 .. 12
    PROVE  FirstName(B) = IF B = {} THEN "NONE" ELSE RuleNames[Min(B)]
<1>1. /\ RuleNames[5] = "UNSUPPORTED_PAYLOAD_ID"
      /\ RuleNames[6] = "INVALID_BOOT_ID"
      /\ RuleNames[7] = "TIMESTAMP_BEFORE_PROJECT_EPOCH"
      /\ RuleNames[8] = "TIMESTAMP_TOO_FAR_IN_FUTURE"
      /\ RuleNames[9] = "TEMPERATURE_OUT_OF_RANGE"
      /\ RuleNames[10] = "VOLTAGE_OUT_OF_RANGE"
      /\ RuleNames[11] = "INVALID_OPERATING_MODE"
      /\ RuleNames[12] = "RESERVED_FAULT_BITS_SET"
  BY DEF RuleNames
<1>2. ASSUME NEW k \in B, \A y \in B : k <= y
      PROVE  Min(B) = k
  BY <1>2, MinIs
<1>3. CASE 5 \in B
  <2>1. \A y \in B : 5 <= y
    BY <1>3
  <2>. QED  BY <1>1, <1>2, <1>3, <2>1 DEF FirstName
<1>4. CASE 5 \notin B /\ 6 \in B
  <2>1. \A y \in B : 6 <= y
    BY <1>4
  <2>. QED  BY <1>1, <1>2, <1>4, <2>1 DEF FirstName
<1>5. CASE 5 \notin B /\ 6 \notin B /\ 7 \in B
  <2>1. \A y \in B : 7 <= y
    BY <1>5
  <2>. QED  BY <1>1, <1>2, <1>5, <2>1 DEF FirstName
<1>6. CASE 5 \notin B /\ 6 \notin B /\ 7 \notin B /\ 8 \in B
  <2>1. \A y \in B : 8 <= y
    BY <1>6
  <2>. QED  BY <1>1, <1>2, <1>6, <2>1 DEF FirstName
<1>7. CASE 5 \notin B /\ 6 \notin B /\ 7 \notin B /\ 8 \notin B
           /\ 9 \in B
  <2>1. \A y \in B : 9 <= y
    BY <1>7
  <2>. QED  BY <1>1, <1>2, <1>7, <2>1 DEF FirstName
<1>8. CASE 5 \notin B /\ 6 \notin B /\ 7 \notin B /\ 8 \notin B
           /\ 9 \notin B /\ 10 \in B
  <2>1. \A y \in B : 10 <= y
    BY <1>8
  <2>. QED  BY <1>1, <1>2, <1>8, <2>1 DEF FirstName
<1>9. CASE 5 \notin B /\ 6 \notin B /\ 7 \notin B /\ 8 \notin B
           /\ 9 \notin B /\ 10 \notin B /\ 11 \in B
  <2>1. \A y \in B : 11 <= y
    BY <1>9
  <2>. QED  BY <1>1, <1>2, <1>9, <2>1 DEF FirstName
<1>10. CASE 5 \notin B /\ 6 \notin B /\ 7 \notin B /\ 8 \notin B
            /\ 9 \notin B /\ 10 \notin B /\ 11 \notin B /\ 12 \in B
  <2>1. \A y \in B : 12 <= y
    BY <1>10
  <2>. QED  BY <1>1, <1>2, <1>10, <2>1 DEF FirstName
<1>11. CASE \A k \in 5 .. 12 : k \notin B
  <2>1. B = {}
    BY <1>11
  <2>. QED  BY <2>1 DEF FirstName
<1>. QED
  <2>1. \/ \A k \in 5 .. 12 : k \notin B
        \/ 5 \in B \/ 6 \in B \/ 7 \in B \/ 8 \in B
        \/ 9 \in B \/ 10 \in B \/ 11 \in B \/ 12 \in B
    OBVIOUS
  <2>. HIDE DEF FirstName
  <2>. QED  BY <1>3, <1>4, <1>5, <1>6, <1>7, <1>8, <1>9, <1>10, <1>11, <2>1, Zenon

\* The code's chain of field tests, on a frame of version 1, against a set of
\* rules that agrees with it test by test.
LEMMA FieldFaultIsFirst ==
    ASSUME NEW f, NEW time, NEW B, B \subseteq 1 .. 12,
           f.protocol_version = 1, 1 \notin B, 2 \notin B, 3 \notin B, 4 \notin B,
           AgreesWithTests(B, f, time)
    PROVE  FieldFault(f, time) = IF B = {} THEN "NONE" ELSE RuleNames[Min(B)]
<1>1. FieldFault(f, time) = FirstName(B)
  BY DEF FieldFault, FirstName, AgreesWithTests
<1>2. B \subseteq 5 .. 12
  OBVIOUS
<1>. QED  BY <1>1, <1>2, FirstNameIsOfMin, Zenon

\* decode_telemetry names the first broken rule, for every sequence of bytes.
LEMMA DecodeNamesFirst ==
    ASSUME NEW r \in Seq(Byte), NEW time \in Nat
    PROVE  decode_telemetry(r, time).reason =
             IF BrokenRules(r, time) = {} THEN "NONE"
             ELSE RuleNames[Min(BrokenRules(r, time))]
<1>. DEFINE B == BrokenRules(r, time)
            f == UnpackBody(SubSeq(r, 1, BodySize))
            sound == Len(r) = BodySize + CrcBytes
<1>1. /\ B \subseteq 1 .. 12
      /\ 1 \in B <=> r = <<>>
      /\ 2 \in B <=> r # <<>> /\ r[1] # 1
      /\ 3 \in B <=> ~sound
  BY RulesAsTested
<1>2. ASSUME sound
      PROVE  /\ 4 \in B <=> ~Sealed(r)
             /\ f.protocol_version = r[1]
             /\ AgreesWithTests(B, f, time)
  BY <1>2, RulesAsTested
<1>3. /\ RuleNames[1] = "EMPTY_BODY"
      /\ RuleNames[2] = "UNSUPPORTED_PROTOCOL_VERSION"
      /\ RuleNames[3] = "INVALID_FRAME_LENGTH"
      /\ RuleNames[4] = "CRC_MISMATCH"
  BY DEF RuleNames
<1>4. ASSUME NEW k \in 1 .. 4, First(B, k),
             decode_telemetry(r, time) = Rejected(RuleNames[k])
      PROVE  decode_telemetry(r, time).reason =
               IF B = {} THEN "NONE" ELSE RuleNames[Min(B)]
  <2>. HIDE DEF B
  <2>1. Min(B) = k /\ B # {}
    <3>1. B \subseteq 1 .. 12 /\ k \in 1 .. 12
      BY <1>1
    <3>. QED  BY <1>4, <3>1, FirstIsMin, Zenon
  <2>. QED  BY <1>4, <2>1 DEF Rejected
<1>. HIDE DEF B, f
<1>5. CASE r = <<>>
  <2>1. First(B, 1)
    BY <1>1, <1>5 DEF First
  <2>2. decode_telemetry(r, time) = Rejected(RuleNames[1])
    BY <1>3, <1>5 DEF decode_telemetry
  <2>. QED  BY <1>4, <2>1, <2>2 DEF B
<1>6. CASE r # <<>> /\ r[1] # 1
  <2>1. First(B, 2)
    BY <1>1, <1>6 DEF First
  <2>2. decode_telemetry(r, time) = Rejected(RuleNames[2])
    BY <1>3, <1>6 DEF decode_telemetry
  <2>. QED  BY <1>4, <2>1, <2>2 DEF B
<1>7. CASE r # <<>> /\ r[1] = 1 /\ ~sound
  <2>1. First(B, 3)
    BY <1>1, <1>7 DEF First
  <2>2. decode_telemetry(r, time) = Rejected(RuleNames[3])
    BY <1>3, <1>7 DEF decode_telemetry
  <2>. QED  BY <1>4, <2>1, <2>2 DEF B
<1>8. CASE r # <<>> /\ r[1] = 1 /\ sound /\ ~Sealed(r)
  <2>1. First(B, 4)
    BY <1>1, <1>2, <1>8 DEF First
  <2>2. decode_telemetry(r, time) = Rejected(RuleNames[4])
    BY <1>3, <1>8 DEF decode_telemetry, Sealed
  <2>. QED  BY <1>4, <2>1, <2>2 DEF B
<1>9. CASE r # <<>> /\ r[1] = 1 /\ sound /\ Sealed(r)
  <2>1. decode_telemetry(r, time).reason = FieldFault(f, time)
    BY <1>9, DecodeReadsFields, ValidateFieldsNames DEF f
  <2>2. FieldFault(f, time) = IF B = {} THEN "NONE" ELSE RuleNames[Min(B)]
    <3>1. /\ f.protocol_version = 1
          /\ 1 \notin B /\ 2 \notin B /\ 3 \notin B /\ 4 \notin B
      BY <1>1, <1>2, <1>9
    <3>2. B \subseteq 1 .. 12 /\ AgreesWithTests(B, f, time)
      BY <1>1, <1>2, <1>9
    <3>. QED  BY <3>1, <3>2, FieldFaultIsFirst, Zenon
  <2>. QED  BY <2>1, <2>2 DEF B
<1>. QED  BY <1>5, <1>6, <1>7, <1>8, <1>9

LEMMA RawIsBytes ==
    ASSUME FrameInv
    PROVE  raw \in Seq(Byte)
<1>. DEFINE e == encode_telemetry(frame)
<1>1. e \in Seq(Byte) /\ Len(e) = BodySize + CrcBytes
  BY EncodedParts DEF FrameInv
<1>2. /\ made = ApplyWireFailure(e, source)
      /\ source \in {"NONE", "CORRUPT_CRC", "UNSUPPORTED_VERSION", "FOREIGN"}
      /\ raw = made \/ Damaged(raw, made)
  BY DEF FrameInv
<1>. HIDE DEF e
<1>3. source \in {"NONE", "FOREIGN"} => made \in Seq(Byte)
  BY <1>1, <1>2 DEF ApplyWireFailure
<1>4. source = "CORRUPT_CRC" => made \in Seq(Byte)
  BY <1>1, <1>2, CorruptIsDamaged DEF Damaged
<1>5. source = "UNSUPPORTED_VERSION" => made \in Seq(Byte)
  BY <1>1, <1>2, OtherVersionIsSealed
<1>. QED  BY <1>2, <1>3, <1>4, <1>5 DEF Damaged

\* The verdict names the first rule of the interface document that the bytes
\* break, whatever the bytes are (decode_telemetry, _validate_fields).
THEOREM FirstBrokenRuleDecides == JourneySpec => []VerdictNamesFirstRule
<1>1. ASSUME JourneyInv
      PROVE  VerdictNamesFirstRule
  <2>. SUFFICES ASSUME verdict # None
                PROVE  verdict.reason = IF BrokenRules(raw, judgedAt) = {} THEN "NONE"
                                        ELSE RuleNames[Min(BrokenRules(raw, judgedAt))]
    BY DEF VerdictNamesFirstRule
  <2>1. /\ FrameInv /\ verdict = decode_telemetry(raw, judgedAt)
        /\ judgedAt \in Nat
    BY <1>1, JourneyAssumption DEF JourneyInv, StageInv
  <2>2. raw \in Seq(Byte)
    BY <2>1, RawIsBytes
  <2>. QED  BY <2>1, <2>2, DecodeNamesFirst
<1>. QED  BY <1>1, JourneyInvariant, PTL

\* A spoilt frame of the simulator tests what it is meant to test: a corrupt
\* checksum is the first rule broken, and a changed version the only one of
\* those before the fields (_apply_wire_failure).
THEOREM SpoiltFramesAreIsolated == JourneySpec => []SpoiltFramesBreakOneRule
<1>1. ASSUME JourneyInv
      PROVE  SpoiltFramesBreakOneRule
  <2>. DEFINE B == BrokenRules(raw, judgedAt)
  <2>. SUFFICES ASSUME verdict # None, raw = made
                PROVE  /\ source = "CORRUPT_CRC" => 4 = Min(B)
                       /\ source = "UNSUPPORTED_VERSION" => B \cap 1 .. 4 = {2}
    BY DEF SpoiltFramesBreakOneRule
  <2>. DEFINE e == encode_telemetry(frame)
  <2>1. FrameInv /\ judgedAt \in Nat
    BY <1>1, JourneyAssumption DEF JourneyInv, StageInv
  <2>2. /\ e \in Seq(Byte) /\ Len(e) = BodySize + CrcBytes /\ Sealed(e)
        /\ e[1] = frame.protocol_version
    BY <2>1, EncodedParts DEF FrameInv
  <2>3. raw = ApplyWireFailure(e, source)
    BY <2>1 DEF FrameInv
  <2>4. raw \in Seq(Byte)
    BY <2>1, RawIsBytes
  <2>5. /\ B \subseteq 1 .. 12
        /\ 1 \in B <=> raw = <<>>
        /\ 2 \in B <=> raw # <<>> /\ raw[1] # 1
        /\ 3 \in B <=> Len(raw) # BodySize + CrcBytes
        /\ Len(raw) = BodySize + CrcBytes => (4 \in B <=> ~Sealed(raw))
    BY <2>1, <2>4, RulesAsTested
  <2>6. Len(raw) = BodySize + CrcBytes => raw # <<>>
    BY <2>4, BodySizeType DEF CrcBytes
  <2>. HIDE DEF B, e
  <2>7. ASSUME source = "CORRUPT_CRC"
        PROVE  4 = Min(B)
    <3>1. PICK t \in SampleTimes : t >= ProjectEpoch /\ measured \in Measurements
                                   /\ frame = FrameOf(measured, t)
      BY <2>1, <2>7 DEF FrameInv
    <3>2. frame.protocol_version = 1
      BY <3>1, SimulatedFrame
    <3>3. Damaged(raw, e) /\ Len(raw) = Len(e) /\ raw[1] = e[1]
      BY <2>2, <2>3, <2>7, CorruptIsDamaged
    <3>4. ~Sealed(raw)
      BY <2>2, <3>3, DamageBreaksSeal
    <3>5. 1 \notin B /\ 2 \notin B /\ 3 \notin B /\ 4 \in B
      BY <2>2, <2>5, <2>6, <3>2, <3>3, <3>4
    <3>6. First(B, 4)
      BY <3>5 DEF First
    <3>7. B \subseteq 1 .. 12 /\ 4 \in 1 .. 12
      BY <2>5
    <3>. QED  BY <3>6, <3>7, FirstIsMin
  <2>8. ASSUME source = "UNSUPPORTED_VERSION"
        PROVE  B \cap 1 .. 4 = {2}
    <3>1. Len(raw) = BodySize + CrcBytes /\ Sealed(raw) /\ raw[1] = 2
      BY <2>2, <2>3, <2>8, OtherVersionIsSealed
    <3>2. 1 \notin B /\ 2 \in B /\ 3 \notin B /\ 4 \notin B
      BY <2>5, <2>6, <3>1
    <3>. QED  BY <3>2
  <2>. QED  BY <2>7, <2>8
<1>. QED  BY <1>1, JourneyInvariant, PTL
=============================================================================
