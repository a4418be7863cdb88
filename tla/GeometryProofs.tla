--------------------------- MODULE GeometryProofs ---------------------------
(***************************************************************************)
(* What createdrive_ext() guarantees, for every size of drive, sector,     *)
(* cluster and root directory: proofs about Geometry.  The words of Word32 *)
(* are first turned into the numbers they stand for; the rest is           *)
(* arithmetic on those.                                                    *)
(***************************************************************************)
EXTENDS Geometry, TLAPS

-----------------------------------------------------------------------------
(* Words as numbers.                                                       *)

(* The number that a word, or a wider pair, stands for.                    *)
Val(w) == w[1] * 65536 + w[2]

(* A pair whose high half may be of any size.                              *)
Wide(w) == w[1] \in Nat /\ w[2] \in Nat /\ w[2] < 65536

Two32 == 4294967296

LEMMA HalfIs == Half = 65536
  BY SMT DEF Half

LEMMA HalfNat == Half \in Nat
  BY SMT DEF Half

(* The members of an interval that begins with zero.                       *)
LEMMA BelowHalf ==
    ASSUME NEW y
    PROVE  y \in 0 .. Half - 1 <=> y \in Nat /\ y < 65536
  <1>1. ASSUME NEW h \in Nat PROVE y \in 0 .. h - 1 <=> y \in Nat /\ y < h
    BY SMT
  <1>2. y \in 0 .. Half - 1 <=> y \in Nat /\ y < Half
    BY <1>1, HalfNat, Zenon
  <1>3. ASSUME NEW h, h = 65536 PROVE y < h <=> y < 65536
    BY <1>3, SMT
  <1>4. y < Half <=> y < 65536
    BY <1>3, HalfIs, SMT
  <1> QED
    BY ONLY <1>2, <1>4, SMT

(* A word is a pair of halves.                                             *)
LEMMA WordIs ==
    ASSUME NEW w \in Word
    PROVE  /\ Wide(w) /\ w = <<w[1], w[2]>> /\ w[1] < 65536
           /\ Val(w) \in Nat /\ Val(w) < Two32
  <1>1. ASSUME NEW S, NEW v \in S \X S PROVE v = <<v[1], v[2]>> /\ v[1] \in S /\ v[2] \in S
    BY SMT
  <1>2. w = <<w[1], w[2]>> /\ w[1] \in 0 .. Half - 1 /\ w[2] \in 0 .. Half - 1
    BY <1>1, Zenon DEF Word
  <1>3. w[1] \in Nat /\ w[1] < 65536 /\ w[2] \in Nat /\ w[2] < 65536
    BY ONLY <1>2, BelowHalf, SMT
  <1>4. PICK x \in Nat, y \in Nat : x = w[1] /\ y = w[2] /\ x < 65536 /\ y < 65536
    BY ONLY <1>3, SMT
  <1>5. x * 65536 + y \in Nat /\ x * 65536 + y < 4294967296
    BY ONLY <1>4, x \in Nat, y \in Nat, SMT
  <1> QED
    BY ONLY <1>2, <1>3, <1>4, <1>5, SMT DEF Wide, Val, Two32

LEMMA IsWord ==
    ASSUME NEW x \in Nat, NEW y \in Nat, x < 65536, y < 65536
    PROVE  /\ <<x, y>> \in Word /\ <<x, y>>[1] = x /\ <<x, y>>[2] = y
           /\ Val(<<x, y>>) = x * 65536 + y
  <1>1. x \in 0 .. Half - 1 /\ y \in 0 .. Half - 1
    BY BelowHalf, SMT
  <1>2. <<x, y>> \in Word
    BY ONLY <1>1, Zenon DEF Word
  <1> QED
    BY ONLY <1>2, SMT DEF Val

(* The number determines the word.                                         *)
LEMMA SameVal ==
    ASSUME NEW a \in Word, NEW b \in Word, Val(a) = Val(b)
    PROVE  a = b
  <1>1. PICK x \in Nat, y \in Nat : a[1] = x /\ a[2] = y /\ y < 65536 /\ a = <<x, y>>
    BY WordIs, SMT DEF Wide
  <1>2. PICK u \in Nat, v \in Nat : b[1] = u /\ b[2] = v /\ v < 65536 /\ b = <<u, v>>
    BY WordIs, SMT DEF Wide
  <1>3. x * 65536 + y = u * 65536 + v
    BY <1>1, <1>2, SMT DEF Val
  <1>4. x = u /\ y = v
    BY ONLY <1>1, <1>2, <1>3, SMT
  <1> QED
    BY ONLY <1>1, <1>2, <1>4, SMT

(* Division in numbers.                                                    *)
LEMMA DivMod ==
    ASSUME NEW x \in Int, NEW d \in Nat \ {0}
    PROVE  /\ x \div d \in Int /\ x % d \in Nat /\ x % d < d
           /\ x = d * (x \div d) + (x % d)
           /\ x \in Nat => x \div d \in Nat
  BY SMT

(* The halves of a number.                                                 *)
LEMMA HalvesOf ==
    ASSUME NEW n \in Int
    PROVE  /\ n \div Half \in Int /\ n % Half \in Nat /\ n % Half < 65536
           /\ n = 65536 * (n \div Half) + (n % Half)
           /\ n \in Nat => n \div Half \in Nat
  <1>1. /\ n \div 65536 \in Int /\ n % 65536 \in Nat /\ n % 65536 < 65536
        /\ n = 65536 * (n \div 65536) + (n % 65536)
        /\ n \in Nat => n \div 65536 \in Nat
    BY SMT
  <1> QED
    BY ONLY <1>1, HalfIs, SMT

(* A number below 2^32 is a word.                                          *)
LEMMA WVal ==
    ASSUME NEW n \in Nat
    PROVE  Wide(W(n)) /\ Val(W(n)) = n /\ (n < Two32 => W(n) \in Word)
  <1>1. PICK q \in Nat, r \in Nat : /\ q = n \div Half /\ r = n % Half /\ r < 65536
                                    /\ n = 65536 * q + r
    <2>1. n \div Half \in Nat /\ n % Half \in Nat /\ n % Half < 65536 /\ n = 65536 * (n \div Half) + (n % Half)
      BY HalvesOf, SMT
    <2> QED
      BY ONLY <2>1, SMT
  <1>2. W(n) = <<q, r>>
    BY ONLY <1>1, SMT DEF W
  <1>3. n < 4294967296 => q < 65536
    BY ONLY <1>1, q \in Nat, r \in Nat, SMT
  <1>4. n < 4294967296 => <<q, r>> \in Word
    BY ONLY <1>1, <1>3, q \in Nat, r \in Nat, IsWord, SMT
  <1> QED
    BY ONLY <1>1, <1>2, <1>4, q \in Nat, r \in Nat, SMT DEF Wide, Val, Two32

(* The two halves of a word, as numbers.                                   *)
LEMMA WordHalves ==
    ASSUME NEW a \in Word
    PROVE  \E x \in Nat, y \in Nat : /\ a[1] = x /\ a[2] = y /\ x < 65536 /\ y < 65536
                                     /\ Val(a) = x * 65536 + y
  BY WordIs, SMT DEF Wide, Val

(* Sums and differences wrap at 2^32.                                      *)
LEMMA PlusVal ==
    ASSUME NEW a \in Word, NEW b \in Word
    PROVE  /\ Plus(a, b) \in Word
           /\ Val(Plus(a, b)) = IF Val(a) + Val(b) < Two32 THEN Val(a) + Val(b)
                                ELSE Val(a) + Val(b) - Two32
  <1>1. PICK x \in Nat, y \in Nat : /\ a[1] = x /\ a[2] = y /\ x < 65536 /\ y < 65536
                                    /\ Val(a) = x * 65536 + y
    BY WordHalves
  <1>2. PICK u \in Nat, v \in Nat : /\ b[1] = u /\ b[2] = v /\ u < 65536 /\ v < 65536
                                    /\ Val(b) = u * 65536 + v
    BY WordHalves
  <1>3. PICK c \in Nat, l \in Nat : /\ c = (y + v) \div Half /\ l = (y + v) % Half /\ l < 65536
                                    /\ y + v = 65536 * c + l
    <2>1. PICK n \in Nat : n = y + v
      BY SMT
    <2>2. n \div Half \in Nat /\ n % Half \in Nat /\ n % Half < 65536 /\ n = 65536 * (n \div Half) + (n % Half)
      BY HalvesOf, SMT
    <2> QED
      BY ONLY <2>1, <2>2, SMT
  <1>4. PICK h \in Nat, k \in Nat : /\ h = (x + u + c) % Half /\ h < 65536
                                    /\ x + u + c = 65536 * k + h
    <2>1. PICK n \in Nat : n = x + u + c
      BY SMT
    <2>2. n \div Half \in Nat /\ n % Half \in Nat /\ n % Half < 65536 /\ n = 65536 * (n \div Half) + (n % Half)
      BY HalvesOf, SMT
    <2> QED
      BY ONLY <2>1, <2>2, SMT
  <1>5. Plus(a, b) = <<h, l>>
    BY ONLY <1>1, <1>2, <1>3, <1>4, SMT DEF Plus
  <1>6. <<h, l>> \in Word /\ Val(<<h, l>>) = h * 65536 + l
    BY ONLY <1>3, <1>4, h \in Nat, l \in Nat, IsWord, SMT
  <1>7. c < 2 /\ k < 2
    BY ONLY <1>1, <1>2, <1>3, <1>4, x \in Nat, y \in Nat, u \in Nat, v \in Nat, c \in Nat,
            l \in Nat, h \in Nat, k \in Nat, SMT
  <1>8. PICK n \in Nat : n = x * 65536 + y + (u * 65536 + v)
    BY SMT
  <1>9. h * 65536 + l = n - k * 4294967296
    BY ONLY <1>3, <1>4, <1>8, x \in Nat, y \in Nat, u \in Nat, v \in Nat, c \in Nat,
            l \in Nat, h \in Nat, k \in Nat, n \in Nat, SMT
  <1>10. h * 65536 + l < 4294967296 /\ h * 65536 + l \in Nat
    BY ONLY <1>3, <1>4, h \in Nat, l \in Nat, SMT
  <1>11. h * 65536 + l = IF n < 4294967296 THEN n ELSE n - 4294967296
    <2>1. k = 0 \/ k = 1
      BY ONLY <1>7, k \in Nat, SMT
    <2>2. CASE k = 0
      BY ONLY <1>9, <1>10, <2>2, n \in Nat, SMT
    <2>3. CASE k = 1
      BY ONLY <1>9, <1>10, <2>3, n \in Nat, h \in Nat, l \in Nat, SMT
    <2> QED
      BY ONLY <2>1, <2>2, <2>3, SMT
  <1> QED
    BY ONLY <1>1, <1>2, <1>5, <1>6, <1>8, <1>11, SMT DEF Two32

LEMMA MinusVal ==
    ASSUME NEW a \in Word, NEW b \in Word
    PROVE  /\ Minus(a, b) \in Word
           /\ Val(Minus(a, b)) = IF Val(b) <= Val(a) THEN Val(a) - Val(b)
                                 ELSE Val(a) - Val(b) + Two32
  <1>1. PICK x \in Nat, y \in Nat : /\ a[1] = x /\ a[2] = y /\ x < 65536 /\ y < 65536
                                    /\ Val(a) = x * 65536 + y
    BY WordHalves
  <1>2. PICK u \in Nat, v \in Nat : /\ b[1] = u /\ b[2] = v /\ u < 65536 /\ v < 65536
                                    /\ Val(b) = u * 65536 + v
    BY WordHalves
  <1>3. PICK c \in Int, l \in Nat : /\ c = (y - v) \div Half /\ l = (y - v) % Half /\ l < 65536
                                    /\ y - v = 65536 * c + l
    <2>1. PICK n \in Int : n = y - v
      BY SMT
    <2>2. n \div Half \in Int /\ n % Half \in Nat /\ n % Half < 65536 /\ n = 65536 * (n \div Half) + (n % Half)
      BY HalvesOf, SMT
    <2> QED
      BY ONLY <2>1, <2>2, SMT
  <1>4. PICK h \in Nat, k \in Int : /\ h = (x - u + c) % Half /\ h < 65536
                                    /\ x - u + c = 65536 * k + h
    <2>1. PICK n \in Int : n = x - u + c
      BY SMT
    <2>2. n \div Half \in Int /\ n % Half \in Nat /\ n % Half < 65536 /\ n = 65536 * (n \div Half) + (n % Half)
      BY HalvesOf, SMT
    <2> QED
      BY ONLY <2>1, <2>2, SMT
  <1>5. Minus(a, b) = <<h, l>>
    BY ONLY <1>1, <1>2, <1>3, <1>4, SMT DEF Minus
  <1>6. <<h, l>> \in Word /\ Val(<<h, l>>) = h * 65536 + l
    BY ONLY <1>3, <1>4, h \in Nat, l \in Nat, IsWord, SMT
  <1>7. -2 < c /\ c < 1 /\ -2 < k /\ k < 1
    BY ONLY <1>1, <1>2, <1>3, <1>4, x \in Nat, y \in Nat, u \in Nat, v \in Nat, c \in Int,
            l \in Nat, h \in Nat, k \in Int, SMT
  <1>8. h * 65536 + l = IF u * 65536 + v <= x * 65536 + y
                        THEN x * 65536 + y - (u * 65536 + v)
                        ELSE x * 65536 + y - (u * 65536 + v) + 4294967296
    BY ONLY <1>1, <1>2, <1>3, <1>4, <1>7, x \in Nat, y \in Nat, u \in Nat, v \in Nat, c \in Int,
            l \in Nat, h \in Nat, k \in Int, SMT
  <1> QED
    BY ONLY <1>1, <1>2, <1>5, <1>6, <1>8, SMT DEF Two32

(* The quotient of a pair of any width.                                    *)
LEMMA OverVal ==
    ASSUME NEW a, Wide(a), NEW d \in Nat \ {0}
    PROVE  /\ Wide(Over(a, d)) /\ Remainder(a, d) \in Nat /\ Remainder(a, d) < d
           /\ Val(Over(a, d)) \in Nat
           /\ Val(a) = d * Val(Over(a, d)) + Remainder(a, d)
           /\ a[1] < 65536 => Over(a, d) \in Word
  <1>1. PICK x \in Nat, y \in Nat : a[1] = x /\ a[2] = y /\ y < 65536
    BY SMT DEF Wide
  <1>2. PICK q \in Nat, r \in Nat : q = x \div d /\ r = x % d /\ r < d /\ x = d * q + r
    BY DivMod, SMT
  <1>3. r * 65536 + y \in Nat
    BY SMT
  <1>4. PICK m \in Nat : m = r * 65536 + y
    BY <1>3
  <1>5. PICK p \in Nat, s \in Nat : p = m \div d /\ s = m % d /\ s < d /\ m = d * p + s
    BY DivMod, SMT
  <1>6. p < 65536
    <2>1. m < d * 65536
      <3>1. PICK z \in Nat : d = r + 1 + z
        <4>1. d - r - 1 \in Nat
          BY <1>2, SMT
        <4> QED
          BY <4>1, SMT
      <3>2. d * 65536 = r * 65536 + 65536 + z * 65536
        BY ONLY <3>1, r \in Nat, z \in Nat, SMT
      <3> QED
        BY ONLY <1>1, <1>4, <3>2, r \in Nat, z \in Nat, y \in Nat, SMT
    <2>2. ASSUME ~(p < 65536) PROVE FALSE
      <3>1. PICK z \in Nat : p = 65536 + z
        <4>1. p - 65536 \in Nat
          BY <2>2, SMT
        <4> QED
          BY <4>1, SMT
      <3>2. d * p = d * 65536 + d * z /\ d * z \in Nat
        BY ONLY <3>1, d \in Nat, z \in Nat, SMT
      <3> QED
        BY ONLY <1>5, <2>1, <3>2, d \in Nat, s \in Nat, m \in Nat, SMT
    <2> QED
      BY ONLY <2>2, SMT
  <1>7. x * 65536 + y = d * (q * 65536 + p) + s
    <2>1. x * 65536 = (d * q) * 65536 + r * 65536
      BY ONLY <1>2, d \in Nat, q \in Nat, r \in Nat, SMT
    <2>2. d * (q * 65536 + p) = (d * q) * 65536 + d * p
      BY ONLY d \in Nat, q \in Nat, p \in Nat, SMT
    <2>3. d * q \in Nat /\ d * p \in Nat
      BY SMT
    <2> QED
      BY ONLY <1>4, <1>5, <2>1, <2>2, <2>3, m \in Nat, y \in Nat, s \in Nat, r \in Nat, SMT
  <1>8. Over(a, d) = <<q, p>> /\ Remainder(a, d) = s
    <2>1. r * Half + y = m
      BY ONLY <1>4, HalfIs, SMT
    <2> QED
      BY ONLY <1>1, <1>2, <1>5, <2>1, SMT DEF Over, Remainder
  <1>9. x < 65536 => q < 65536
    <2>1. PICK z \in Nat : d = z + 1
      <3>1. d - 1 \in Nat
        BY SMT
      <3> QED
        BY <3>1, SMT
    <2>2. d * q = z * q + q /\ z * q \in Nat
      BY ONLY <2>1, z \in Nat, q \in Nat, SMT
    <2> QED
      BY ONLY <1>2, <2>2, x \in Nat, q \in Nat, r \in Nat, SMT
  <1>10. x < 65536 => <<q, p>> \in Word
    BY ONLY <1>6, <1>9, q \in Nat, p \in Nat, IsWord, SMT
  <1>11. Val(<<q, p>>) = q * 65536 + p /\ q * 65536 + p \in Nat
    BY SMT DEF Val
  <1> QED
    BY ONLY <1>1, <1>5, <1>6, <1>7, <1>8, <1>10, <1>11, q \in Nat, p \in Nat, s \in Nat, SMT
       DEF Wide, Val

(* The product of a pair of any width.                                     *)
LEMMA WideTimesVal ==
    ASSUME NEW a, Wide(a), NEW k \in Nat
    PROVE  Wide(WideTimes(a, k)) /\ Val(WideTimes(a, k)) = Val(a) * k
  <1>1. PICK x \in Nat, y \in Nat : a[1] = x /\ a[2] = y /\ y < 65536
    BY SMT DEF Wide
  <1>2. y * k \in Nat /\ x * k \in Nat
    BY SMT
  <1>3. PICK m \in Nat : m = y * k
    BY <1>2
  <1>4. PICK c \in Nat, l \in Nat : c = m \div Half /\ l = m % Half /\ l < 65536 /\ m = 65536 * c + l
    <2>1. m \div Half \in Nat /\ m % Half \in Nat /\ m % Half < 65536 /\ m = 65536 * (m \div Half) + (m % Half)
      BY HalvesOf, SMT
    <2> QED
      BY ONLY <2>1, SMT
  <1>5. WideTimes(a, k) = <<x * k + c, l>>
    BY ONLY <1>1, <1>3, <1>4, SMT DEF WideTimes
  <1>6. (x * 65536 + y) * k = (x * k) * 65536 + y * k
    BY ONLY x \in Nat, y \in Nat, k \in Nat, SMT
  <1> QED
    BY ONLY <1>1, <1>2, <1>3, <1>4, <1>5, <1>6, c \in Nat, l \in Nat, m \in Nat, SMT DEF Wide, Val

(* The conversion to 32 bits.                                              *)
LEMMA TruncatedVal ==
    ASSUME NEW a, Wide(a)
    PROVE  /\ Truncated(a) \in Word /\ Val(a) \in Nat /\ Val(Truncated(a)) <= Val(a)
           /\ Val(a) < Two32 => Val(Truncated(a)) = Val(a)
  <1>1. PICK x \in Nat, y \in Nat : a[1] = x /\ a[2] = y /\ y < 65536
    BY SMT DEF Wide
  <1>2. PICK k \in Nat, h \in Nat : k = x \div Half /\ h = x % Half /\ h < 65536 /\ x = 65536 * k + h
    <2>1. x \div Half \in Nat /\ x % Half \in Nat /\ x % Half < 65536 /\ x = 65536 * (x \div Half) + (x % Half)
      BY HalvesOf, SMT
    <2> QED
      BY ONLY <2>1, SMT
  <1>3. Truncated(a) = <<h, y>>
    BY ONLY <1>1, <1>2, SMT DEF Truncated
  <1>4. <<h, y>> \in Word /\ Val(<<h, y>>) = h * 65536 + y
    BY ONLY <1>1, <1>2, h \in Nat, y \in Nat, IsWord, SMT
  <1>5. /\ x * 65536 + y \in Nat /\ h * 65536 + y <= x * 65536 + y
        /\ x * 65536 + y < 4294967296 => k = 0
    BY ONLY <1>1, <1>2, x \in Nat, y \in Nat, h \in Nat, k \in Nat, SMT
  <1>6. Val(a) = x * 65536 + y
    BY ONLY <1>1, SMT DEF Val
  <1>7. x * 65536 + y < 4294967296 => h * 65536 + y = x * 65536 + y
    BY ONLY <1>2, <1>5, x \in Nat, y \in Nat, h \in Nat, k \in Nat, SMT
  <1> QED
    BY ONLY <1>3, <1>4, <1>5, <1>6, <1>7, SMT DEF Two32

LEMMA TimesVal ==
    ASSUME NEW a \in Word, NEW k \in Nat
    PROVE  /\ Times(a, k) \in Word /\ Val(Times(a, k)) \in Nat
           /\ Val(a) * k \in Nat /\ Val(Times(a, k)) <= Val(a) * k
           /\ Val(a) * k < Two32 => Val(Times(a, k)) = Val(a) * k
  <1>1. Wide(a) /\ Val(a) \in Nat
    BY WordIs, SMT
  <1>2. Wide(WideTimes(a, k)) /\ Val(WideTimes(a, k)) = Val(a) * k
    BY <1>1, WideTimesVal, SMT
  <1>3. PICK u, t : u = WideTimes(a, k) /\ t = Truncated(u)
    BY SMT
  <1>4. t \in Word /\ Val(u) \in Nat /\ Val(t) <= Val(u) /\ (Val(u) < Two32 => Val(t) = Val(u))
    BY <1>2, <1>3, TruncatedVal, SMT
  <1>5. Val(t) \in Nat
    BY <1>4, WordIs, SMT
  <1> QED
    BY ONLY <1>2, <1>3, <1>4, <1>5, SMT DEF Times

(* Comparison.                                                             *)
LEMMA BelowVal ==
    ASSUME NEW a, Wide(a), NEW b, Wide(b)
    PROVE  /\ Below(a, b) <=> Val(a) < Val(b)
           /\ Val(a) \in Nat /\ Val(b) \in Nat
  <1>1. PICK x \in Nat, y \in Nat : a[1] = x /\ a[2] = y /\ y < 65536
    BY SMT DEF Wide
  <1>2. PICK u \in Nat, v \in Nat : b[1] = u /\ b[2] = v /\ v < 65536
    BY SMT DEF Wide
  <1>3. (x < u \/ (x = u /\ y < v)) <=> x * 65536 + y < u * 65536 + v
    BY ONLY <1>1, <1>2, x \in Nat, y \in Nat, u \in Nat, v \in Nat, SMT
  <1> QED
    BY ONLY <1>1, <1>2, <1>3, x \in Nat, y \in Nat, u \in Nat, v \in Nat, SMT DEF Below, Val

(* Rounding up to a quotient: the sum wraps only close to 2^32.            *)
LEMMA CeilOverVal ==
    ASSUME NEW a \in Word, NEW d \in Nat \ {0}, d < Two32
    PROVE  /\ CeilOver(a, d) \in Word /\ Val(CeilOver(a, d)) \in Nat
           /\ d * Val(CeilOver(a, d)) \in Nat
           /\ d * Val(CeilOver(a, d)) <= Val(a) + d - 1
           /\ d * Val(CeilOver(a, d)) < Two32
           /\ Val(a) + d - 1 < Two32 => Val(a) <= d * Val(CeilOver(a, d))
  <1>1. PICK e \in Nat : e = d - 1
    BY SMT
  <1>2. PICK p, o : p = Plus(a, W(e)) /\ o = Over(p, d)
    BY SMT
  <1>3. W(e) \in Word /\ Val(W(e)) = e
    <2>1. e < Two32
      BY ONLY <1>1, e \in Nat, d \in Nat, d < Two32, SMT DEF Two32
    <2> QED
      BY <2>1, WVal, SMT
  <1>4. /\ p \in Word
        /\ Val(p) = IF Val(a) + e < Two32 THEN Val(a) + e ELSE Val(a) + e - Two32
    <2>1. PICK w : w = W(e)
      BY SMT
    <2>2. w \in Word /\ Val(w) = e /\ p = Plus(a, w)
      BY ONLY <1>2, <1>3, <2>1, SMT
    <2>3. Plus(a, w) \in Word
      BY ONLY <2>2, a \in Word, PlusVal, SMT
    <2>4. Val(Plus(a, w)) = IF Val(a) + Val(w) < Two32 THEN Val(a) + Val(w)
                            ELSE Val(a) + Val(w) - Two32
      BY ONLY <2>2, a \in Word, PlusVal, Zenon
    <2> QED
      BY ONLY <2>2, <2>3, <2>4, SMT
  <1>5. /\ Val(a) \in Nat /\ Val(a) < Two32 /\ Val(p) \in Nat /\ Val(p) < Two32
        /\ Wide(p) /\ p[1] < 65536
    BY <1>4, WordIs, SMT
  <1>6. /\ o \in Word /\ Val(o) \in Nat /\ Remainder(p, d) \in Nat /\ Remainder(p, d) < d
        /\ Val(p) = d * Val(o) + Remainder(p, d)
    BY ONLY <1>2, <1>5, d \in Nat \ {0}, OverVal, SMT
  <1>7. PICK v \in Nat, q \in Nat, r \in Nat, x \in Nat :
            v = Val(p) /\ q = Val(o) /\ r = Remainder(p, d) /\ x = Val(a)
    BY <1>5, <1>6, SMT
  <1>8. PICK m \in Nat : m = d * q
    BY SMT
  <1>9. v = m + r /\ r < d
    BY ONLY <1>6, <1>7, <1>8, SMT
  <1>10. v = (IF x + e < 4294967296 THEN x + e ELSE x + e - 4294967296) /\ x < 4294967296 /\ v < 4294967296
    BY ONLY <1>4, <1>5, <1>7, SMT DEF Two32
  <1>11. m <= x + d - 1 /\ m < 4294967296 /\ (x + d - 1 < 4294967296 => x <= m)
    BY ONLY <1>1, <1>9, <1>10, v \in Nat, r \in Nat, x \in Nat, m \in Nat, d \in Nat, e \in Nat, SMT
  <1>12. CeilOver(a, d) = o
    BY ONLY <1>1, <1>2, SMT DEF CeilOver
  <1> QED
    BY ONLY <1>6, <1>7, <1>8, <1>11, <1>12, m \in Nat, SMT DEF Two32

(* Rounding up to a multiple.                                              *)
LEMMA RoundUpVal ==
    ASSUME NEW a \in Word, NEW d \in Nat \ {0}, d < Two32, Val(a) + d - 1 < Two32
    PROVE  /\ RoundUp(a, d) \in Word /\ Val(RoundUp(a, d)) \in Nat
           /\ Val(a) <= Val(RoundUp(a, d)) /\ Val(RoundUp(a, d)) <= Val(a) + d - 1
           /\ \E k \in Nat : Val(RoundUp(a, d)) = d * k
  <1>1. PICK c : c = CeilOver(a, d)
    BY SMT
  <1>2. /\ c \in Word /\ Val(c) \in Nat /\ d * Val(c) \in Nat /\ d * Val(c) <= Val(a) + d - 1
        /\ d * Val(c) < Two32 /\ Val(a) <= d * Val(c)
    BY <1>1, CeilOverVal, SMT
  <1>3. Val(c) * d = d * Val(c)
    BY ONLY <1>2, d \in Nat, SMT
  <1>4. Times(c, d) \in Word /\ Val(Times(c, d)) = d * Val(c)
    <2>1. Times(c, d) \in Word /\ (Val(c) * d < Two32 => Val(Times(c, d)) = Val(c) * d)
      BY ONLY <1>2, d \in Nat, TimesVal, SMT
    <2> QED
      BY ONLY <1>2, <1>3, <2>1, SMT
  <1>5. RoundUp(a, d) = Times(c, d)
    BY ONLY <1>1, SMT DEF RoundUp
  <1> QED
    BY ONLY <1>2, <1>4, <1>5, SMT

-----------------------------------------------------------------------------
(* What createdrive_ext() has decided before it computes the layout.       *)
Decided(b) ==
    /\ b.filesys \in FileSystems /\ b.sectors \in Word /\ b.flags \in Flags
    /\ b.bps \in Nat /\ 512 <= b.bps /\ b.bps <= 4096
    /\ b.spc \in Nat /\ 1 <= b.spc /\ b.spc <= 512
    /\ b.root_dir_cnt \in Nat /\ b.root_dir_cnt <= MaxRootCount

Multiple(n, d) == \E k \in Nat : n = d * k

LEMMA AlignedVal ==
    ASSUME NEW b, Decided(b), NEW n \in Word, Val(n) + 511 < Two32
    PROVE  /\ Aligned(b, n) \in Word /\ Val(Aligned(b, n)) \in Nat
           /\ Val(n) <= Val(Aligned(b, n)) /\ Val(Aligned(b, n)) <= Val(n) + b.spc - 1
           /\ b.flags.align => Multiple(Val(Aligned(b, n)), b.spc)
  <1>1. PICK spc \in Nat \ {0} : spc = b.spc /\ spc <= 512
    BY SMT DEF Decided
  <1>2. PICK x \in Nat : x = Val(n)
    BY WordIs, SMT
  <1>3. CASE b.flags.align
    <2>1. spc < Two32 /\ x + spc - 1 < Two32
      BY ONLY <1>1, <1>2, Val(n) + 511 < Two32, x \in Nat, spc \in Nat, SMT DEF Two32
    <2>2. PICK r : r = RoundUp(n, spc)
      BY SMT
    <2>3. /\ r \in Word /\ Val(r) \in Nat /\ x <= Val(r) /\ Val(r) <= x + spc - 1
          /\ \E k \in Nat : Val(r) = spc * k
      <3>1. Val(n) + spc - 1 < Two32
        BY ONLY <1>2, <2>1, SMT
      <3>2. /\ RoundUp(n, spc) \in Word /\ Val(RoundUp(n, spc)) \in Nat
            /\ Val(n) <= Val(RoundUp(n, spc)) /\ Val(RoundUp(n, spc)) <= Val(n) + spc - 1
            /\ \E k \in Nat : Val(RoundUp(n, spc)) = spc * k
        BY ONLY <2>1, <3>1, n \in Word, spc \in Nat \ {0}, RoundUpVal, Zenon
      <3> QED
        BY ONLY <1>2, <2>2, <3>2, Zenon
    <2> QED
      BY ONLY <1>1, <1>2, <1>3, <2>2, <2>3, SMT DEF Aligned, Multiple
  <1>4. CASE ~b.flags.align
    <2>1. x <= x + spc - 1
      BY <1>1, SMT
    <2> QED
      BY ONLY <1>1, <1>2, <1>4, <2>1, n \in Word, SMT DEF Aligned
  <1> QED
    BY <1>3, <1>4

(* Where the first FAT starts.                                             *)
LEMMA FirstFatVal ==
    ASSUME NEW b, Decided(b)
    PROVE  /\ fat1_start(b) \in Word /\ Val(fat1_start(b)) \in Nat
           /\ 1 <= Val(fat1_start(b)) /\ Val(fat1_start(b)) <= 32 + b.spc
           /\ b.flags.align => Multiple(Val(fat1_start(b)), b.spc)
  <1>1. PICK spc \in Nat \ {0} : spc = b.spc /\ spc <= 512
    BY SMT DEF Decided
  <1>2. W(1) \in Word /\ Val(W(1)) = 1 /\ W(32) \in Word /\ Val(W(32)) = 32
    BY WVal, SMT DEF Two32
  <1>3. W(spc) \in Word /\ Val(W(spc)) = spc
    <2>1. spc < Two32
      BY ONLY <1>1, spc \in Nat, SMT DEF Two32
    <2> QED
      BY <2>1, WVal, SMT
  <1>4. CASE b.filesys # "FAT32"
    <2>1. fat1_start(b) = IF b.flags.align THEN W(spc) ELSE W(1)
      BY ONLY <1>1, <1>4, SMT DEF fat1_start
    <2>2. spc = spc * 1 /\ spc <= 32 + spc /\ 1 <= spc /\ 1 <= 32 + spc
      BY SMT
    <2> QED
      BY ONLY <1>1, <1>2, <1>3, <2>1, <2>2, SMT DEF Multiple
  <1>5. CASE b.filesys = "FAT32" /\ ~b.flags.align
    <2>1. fat1_start(b) = W(32)
      BY ONLY <1>5, SMT DEF fat1_start
    <2>2. 32 <= 32 + spc
      BY SMT
    <2> QED
      BY ONLY <1>1, <1>2, <1>5, <2>1, <2>2, SMT
  <1>6. CASE b.filesys = "FAT32" /\ b.flags.align
    <2>1. PICK n \in Nat : n = 32 + spc
      BY SMT
    <2>2. W(n) \in Word /\ Val(W(n)) = n /\ Wide(W(n))
      <3>1. n < Two32
        BY ONLY <1>1, <2>1, spc \in Nat, SMT DEF Two32
      <3> QED
        BY <3>1, WVal, SMT
    <2>3. PICK o : o = Over(W(n), spc)
      BY SMT
    <2>4. PICK q \in Nat, r \in Nat : q = Val(o) /\ r < spc /\ n = spc * q + r /\ o \in Word
      <3>1. W(n)[1] < 65536
        BY <2>2, WordIs, SMT
      <3>2. /\ Val(o) \in Nat /\ Remainder(W(n), spc) \in Nat /\ Remainder(W(n), spc) < spc
            /\ Val(W(n)) = spc * Val(o) + Remainder(W(n), spc) /\ o \in Word
        BY ONLY <2>2, <2>3, <3>1, spc \in Nat \ {0}, OverVal, SMT
      <3> QED
        BY ONLY <2>2, <3>2, SMT
    <2>5. PICK m \in Nat : m = spc * q
      BY SMT
    <2>6. 1 <= m /\ m <= 32 + spc /\ m < 4294967296
      <3>1. q # 0
        BY ONLY <2>1, <2>4, n \in Nat, spc \in Nat, q \in Nat, r \in Nat, SMT
      <3>2. m # 0
        <4>1. PICK z \in Nat : q = z + 1
          <5>1. q - 1 \in Nat
            BY <3>1, SMT
          <5> QED
            BY <5>1, SMT
        <4>2. spc * q = spc * z + spc /\ spc * z \in Nat
          BY ONLY <4>1, spc \in Nat, z \in Nat, SMT
        <4> QED
          BY ONLY <2>5, <4>2, spc \in Nat \ {0}, SMT
      <3> QED
        BY ONLY <1>1, <2>1, <2>4, <2>5, <3>2, n \in Nat, spc \in Nat, q \in Nat, r \in Nat, m \in Nat, SMT
    <2>7. q * spc = m
      BY ONLY <2>5, q \in Nat, spc \in Nat, SMT
    <2>8. Times(o, spc) \in Word /\ Val(Times(o, spc)) = m
      <3>1. Times(o, spc) \in Word /\ (Val(o) * spc < Two32 => Val(Times(o, spc)) = Val(o) * spc)
        BY ONLY <2>4, spc \in Nat, TimesVal, SMT
      <3> QED
        BY ONLY <2>4, <2>6, <2>7, <3>1, SMT DEF Two32
    <2>9. fat1_start(b) = Times(o, spc)
      BY ONLY <1>1, <1>6, <2>1, <2>3, SMT DEF fat1_start
    <2> QED
      BY ONLY <1>1, <2>5, <2>6, <2>8, <2>9, m \in Nat, q \in Nat, SMT DEF Multiple
  <1> QED
    BY ONLY <1>4, <1>5, <1>6, SMT

(* The sectors that a table whose bytes are counted in 32 bits may take    *)
(* before it is aligned, the largest root directory, and 2^30.             *)
MaxTable == 8388607
MaxRoot == 4194822
Two30 == 1073741824

LEMMA MaxRootCountNat == MaxRootCount \in Nat /\ MaxRootCount * 32 = 2147483616
  BY SMT DEF MaxRootCount

(* f sectors for n bytes: c of them hold the bytes, unless the rounding    *)
(* wraps, and less than a cluster is there for the alignment.              *)
TableIs(b, n, f) ==
    \E c \in Nat :
        /\ 512 * c <= n + 4095 /\ c <= MaxTable
        /\ c <= f /\ f <= c + b.spc - 1
        /\ n + 4095 < Two32 => n <= b.bps * c
        /\ n = 0 => c = 0

(* The sectors of a table, aligned or not.                                 *)
LEMMA TableVal ==
    ASSUME NEW b, Decided(b), NEW n \in Word
    PROVE  /\ Aligned(b, CeilOver(n, b.bps)) \in Word
           /\ Val(Aligned(b, CeilOver(n, b.bps))) \in Nat
           /\ TableIs(b, Val(n), Val(Aligned(b, CeilOver(n, b.bps))))
           /\ b.flags.align => Multiple(Val(Aligned(b, CeilOver(n, b.bps))), b.spc)
  <1>1. PICK bps \in Nat \ {0} : bps = b.bps /\ 512 <= bps /\ bps <= 4096
    BY SMT DEF Decided
  <1>2. bps < Two32
    BY ONLY <1>1, bps \in Nat, SMT DEF Two32
  <1>3. PICK q : q = CeilOver(n, bps)
    BY Zenon
  <1>4. /\ q \in Word /\ Val(q) \in Nat /\ bps * Val(q) \in Nat
        /\ bps * Val(q) <= Val(n) + bps - 1 /\ bps * Val(q) < Two32
        /\ Val(n) + bps - 1 < Two32 => Val(n) <= bps * Val(q)
    BY ONLY <1>2, <1>3, n \in Word, bps \in Nat \ {0}, CeilOverVal, Zenon
  <1>5. PICK x \in Nat, c \in Nat : x = Val(n) /\ c = Val(q)
    BY ONLY <1>4, n \in Word, WordIs, SMT
  <1>6. PICK z \in Nat : bps = 512 + z
    <2>1. bps - 512 \in Nat
      BY ONLY <1>1, bps \in Nat, SMT
    <2> QED
      BY ONLY <2>1, bps \in Nat, SMT
  <1>7. PICK m \in Nat, y \in Nat : m = bps * c /\ y = z * c /\ m = 512 * c + y
    <2>1. bps * c \in Nat /\ z * c \in Nat /\ bps * c = 512 * c + z * c
      BY ONLY <1>6, z \in Nat, c \in Nat, SMT
    <2>2. PICK m, y : m = bps * c /\ y = z * c
      BY Zenon
    <2>3. m \in Nat /\ y \in Nat /\ m = 512 * c + y
      BY ONLY <2>1, <2>2, SMT
    <2> QED
      BY ONLY <2>2, <2>3, SMT
  <1>8. m <= x + bps - 1 /\ m < 4294967296 /\ (x + bps - 1 < 4294967296 => x <= m)
    BY ONLY <1>4, <1>5, <1>7, SMT DEF Two32
  <1>9. 512 * c <= x + 4095 /\ c <= MaxTable /\ (x + 4095 < 4294967296 => x <= m)
    BY ONLY <1>1, <1>7, <1>8, m \in Nat, y \in Nat, c \in Nat, x \in Nat, bps \in Nat, SMT DEF MaxTable
  <1>10. x = 0 => c = 0
    <2>1. SUFFICES ASSUME x = 0, c # 0 PROVE FALSE
      BY SMT
    <2>2. PICK w \in Nat : c = 1 + w
      <3>1. c - 1 \in Nat
        BY ONLY <2>1, c \in Nat, SMT
      <3> QED
        BY ONLY <3>1, c \in Nat, SMT
    <2>3. bps * c = bps + bps * w /\ bps * w \in Nat
      BY ONLY <2>2, bps \in Nat, w \in Nat, SMT
    <2> QED
      BY ONLY <1>7, <1>8, <2>1, <2>3, bps \in Nat \ {0}, m \in Nat, SMT
  <1>11. Val(q) + 511 < Two32
    BY ONLY <1>5, <1>9, c \in Nat, SMT DEF Two32, MaxTable
  <1>12. /\ Aligned(b, q) \in Word /\ Val(Aligned(b, q)) \in Nat
         /\ Val(q) <= Val(Aligned(b, q)) /\ Val(Aligned(b, q)) <= Val(q) + b.spc - 1
         /\ b.flags.align => Multiple(Val(Aligned(b, q)), b.spc)
    BY ONLY <1>4, <1>11, Decided(b), AlignedVal, Zenon
  <1>13. (x + 4095 < 4294967296 => x <= m) <=> (Val(n) + 4095 < Two32 => Val(n) <= b.bps * c)
    BY ONLY <1>1, <1>5, <1>7, SMT DEF Two32
  <1>14. Aligned(b, CeilOver(n, b.bps)) = Aligned(b, q)
    BY ONLY <1>1, <1>3, SMT
  <1>15. /\ 512 * c <= Val(n) + 4095 /\ c <= MaxTable /\ (Val(n) = 0 => c = 0)
         /\ c <= Val(Aligned(b, q)) /\ Val(Aligned(b, q)) <= c + b.spc - 1
         /\ (Val(n) + 4095 < Two32 => Val(n) <= b.bps * c)
    BY ONLY <1>5, <1>9, <1>10, <1>12, <1>13, SMT
  <1>16. TableIs(b, Val(n), Val(Aligned(b, q)))
    BY ONLY <1>15, c \in Nat, SMT DEF TableIs
  <1> QED
    BY ONLY <1>12, <1>14, <1>16, Zenon

(* How many sectors the root directory has.                                *)
LEMMA RootVal ==
    ASSUME NEW b, Decided(b)
    PROVE  /\ root_sectors(b) \in Word /\ Val(root_sectors(b)) \in Nat
           /\ Val(root_sectors(b)) <= MaxRoot
           /\ b.filesys = "FAT32" => Val(root_sectors(b)) = 0
           /\ b.flags.align => Multiple(Val(root_sectors(b)), b.spc)
  <1>1. CASE b.filesys = "FAT32"
    <2>1. root_sectors(b) = W(0)
      BY ONLY <1>1, Zenon DEF root_sectors
    <2>2. W(0) \in Word /\ Val(W(0)) = 0
      BY WVal, SMT DEF Two32
    <2>3. Multiple(0, b.spc)
      <3>1. b.spc \in Nat
        BY SMT DEF Decided
      <3>2. 0 = b.spc * 0
        BY ONLY <3>1, SMT
      <3> QED
        BY ONLY <3>2, SMT DEF Multiple
    <2> QED
      BY ONLY <2>1, <2>2, <2>3, SMT DEF MaxRoot
  <1>2. CASE b.filesys # "FAT32"
    <2>1. PICK n \in Nat : n = b.root_dir_cnt * 32 /\ n <= 2147483616
      <3>1. b.root_dir_cnt \in Nat /\ b.root_dir_cnt <= MaxRootCount
        BY SMT DEF Decided
      <3> QED
        BY ONLY <3>1, MaxRootCountNat, SMT
    <2>2. W(n) \in Word /\ Val(W(n)) = n
      <3>1. n < Two32
        BY ONLY <2>1, n \in Nat, SMT DEF Two32
      <3> QED
        BY ONLY <3>1, n \in Nat, WVal, Zenon
    <2>3. PICK r : r = Aligned(b, CeilOver(W(n), b.bps))
      BY Zenon
    <2>4. /\ r \in Word /\ Val(r) \in Nat
          /\ b.flags.align => Multiple(Val(r), b.spc)
          /\ TableIs(b, Val(W(n)), Val(r))
      BY ONLY <2>2, <2>3, Decided(b), TableVal, Zenon
    <2>5. PICK c \in Nat : 512 * c <= n + 4095 /\ Val(r) <= c + b.spc - 1
      BY ONLY <2>2, <2>4, SMT DEF TableIs
    <2>6. b.spc \in Nat /\ b.spc <= 512
      BY SMT DEF Decided
    <2>7. c <= 4194311
      BY ONLY <2>1, <2>5, n \in Nat, c \in Nat, SMT
    <2>8. Val(r) <= MaxRoot
      BY ONLY <2>4, <2>5, <2>6, <2>7, c \in Nat, SMT DEF MaxRoot
    <2>9. root_sectors(b) = r
      BY ONLY <1>2, <2>1, <2>3, SMT DEF root_sectors
    <2> QED
      BY ONLY <1>2, <2>4, <2>8, <2>9, SMT
  <1> QED
    BY ONLY <1>1, <1>2, Zenon

(* c clusters from a sector to the end of a drive of s sectors, and what   *)
(* is left after the last; a start behind the end wraps.                   *)
ClustersAre(b, s, start, c) ==
    \E r \in Nat :
        /\ r < b.spc
        /\ start <= s => s - start = b.spc * c + r
        /\ s < start => s - start + Two32 = b.spc * c + r

LEMMA ClustersFromVal ==
    ASSUME NEW b, Decided(b), NEW start \in Word
    PROVE  /\ ClustersFrom(b, start) \in Word /\ Val(ClustersFrom(b, start)) \in Nat
           /\ ClustersAre(b, Val(b.sectors), Val(start), Val(ClustersFrom(b, start)))
  <1>1. b.sectors \in Word /\ b.spc \in Nat \ {0}
    BY SMT DEF Decided
  <1>2. PICK m : m = Minus(b.sectors, start)
    BY Zenon
  <1>3. /\ m \in Word
        /\ Val(m) = IF Val(start) <= Val(b.sectors) THEN Val(b.sectors) - Val(start)
                    ELSE Val(b.sectors) - Val(start) + Two32
    BY ONLY <1>1, <1>2, start \in Word, MinusVal, Zenon
  <1>4. Wide(m) /\ m[1] < 65536
    BY ONLY <1>3, WordIs, SMT
  <1>5. PICK o, r : o = Over(m, b.spc) /\ r = Remainder(m, b.spc)
    BY Zenon
  <1>6. /\ r \in Nat /\ r < b.spc /\ Val(o) \in Nat /\ Val(m) = b.spc * Val(o) + r
        /\ o \in Word
    BY ONLY <1>1, <1>4, <1>5, OverVal, SMT
  <1>7. ClustersFrom(b, start) = o
    BY ONLY <1>2, <1>5, Zenon DEF ClustersFrom
  <1>8. Val(start) \in Nat /\ Val(b.sectors) \in Nat
    BY ONLY <1>1, start \in Word, WordIs, SMT
  <1>9. /\ Val(start) <= Val(b.sectors) => Val(b.sectors) - Val(start) = b.spc * Val(o) + r
        /\ Val(b.sectors) < Val(start) =>
              Val(b.sectors) - Val(start) + Two32 = b.spc * Val(o) + r
    BY ONLY <1>3, <1>6, <1>8, SMT
  <1>10. ClustersAre(b, Val(b.sectors), Val(start), Val(o))
    BY ONLY <1>6, <1>9, Zenon DEF ClustersAre
  <1> QED
    BY ONLY <1>6, <1>7, <1>10, Zenon

(* n bytes of a FAT for c clusters: exact below 2^30 clusters.             *)
BytesAre(fs, c, n) ==
    /\ fs = "FAT16" /\ c < Two30 => n = 2 * c
    /\ fs = "FAT32" => n <= 4 * c
    /\ fs = "FAT32" /\ c < Two30 => n = 4 * c
    /\ fs = "FAT12" /\ c < Two30 => 2 * n <= 3 * c + 2 /\ 3 * c + 1 <= 2 * n

LEMMA FatBytesVal ==
    ASSUME NEW fs \in FileSystems, NEW c \in Word
    PROVE  /\ FatBytes(fs, c) \in Word /\ Val(FatBytes(fs, c)) \in Nat
           /\ BytesAre(fs, Val(c), Val(FatBytes(fs, c)))
  <1>1. Val(c) \in Nat /\ Val(c) < Two32
    BY WordIs, SMT
  <1>2. PICK x \in Nat : x = Val(c)
    BY ONLY <1>1, Zenon
  <1>3. CASE fs = "FAT16"
    <2>1. FatBytes(fs, c) = Times(c, 2)
      BY ONLY <1>3, SMT DEF FatBytes
    <2>2. /\ Times(c, 2) \in Word /\ Val(Times(c, 2)) \in Nat
          /\ Val(c) * 2 < Two32 => Val(Times(c, 2)) = Val(c) * 2
      BY TimesVal, SMT
    <2>3. x < Two30 => x * 2 < Two32 /\ x * 2 = 2 * x
      BY ONLY x \in Nat, SMT DEF Two32, Two30
    <2> QED
      BY ONLY <1>2, <1>3, <2>1, <2>2, <2>3, SMT DEF BytesAre
  <1>4. CASE fs = "FAT32"
    <2>1. FatBytes(fs, c) = Times(c, 4)
      BY ONLY <1>4, SMT DEF FatBytes
    <2>2. /\ Times(c, 4) \in Word /\ Val(Times(c, 4)) \in Nat
          /\ Val(Times(c, 4)) <= Val(c) * 4
          /\ Val(c) * 4 < Two32 => Val(Times(c, 4)) = Val(c) * 4
      BY TimesVal, SMT
    <2>3. (x < Two30 => x * 4 < Two32) /\ x * 4 = 4 * x
      BY ONLY x \in Nat, SMT DEF Two32, Two30
    <2> QED
      BY ONLY <1>2, <1>4, <2>1, <2>2, <2>3, SMT DEF BytesAre
  <1>5. CASE fs = "FAT12"
    <2>1. PICK t, o, w : t = Times(c, 3) /\ o = Over(t, 2) /\ w = W(1)
      BY Zenon
    <2>2. FatBytes(fs, c) = Plus(o, w)
      BY ONLY <1>5, <2>1, SMT DEF FatBytes
    <2>3. /\ t \in Word /\ Val(t) \in Nat
          /\ Val(c) * 3 < Two32 => Val(t) = Val(c) * 3
      BY ONLY <2>1, c \in Word, TimesVal, SMT
    <2>4. Wide(t) /\ t[1] < 65536
      BY ONLY <2>3, WordIs, SMT
    <2>5. /\ o \in Word /\ Val(o) \in Nat /\ Remainder(t, 2) \in Nat /\ Remainder(t, 2) < 2
          /\ Val(t) = 2 * Val(o) + Remainder(t, 2)
      <3>1. PICK d \in Nat \ {0} : d = 2
        BY SMT
      <3>2. /\ Over(t, d) \in Word /\ Val(Over(t, d)) \in Nat
            /\ Remainder(t, d) \in Nat /\ Remainder(t, d) < d
            /\ Val(t) = d * Val(Over(t, d)) + Remainder(t, d)
        BY ONLY <2>4, d \in Nat \ {0}, OverVal, SMT
      <3> QED
        BY ONLY <2>1, <3>1, <3>2, SMT
    <2>6. w \in Word /\ Val(w) = 1
      BY ONLY <2>1, WVal, SMT DEF Two32
    <2>7. /\ Plus(o, w) \in Word
          /\ Val(Plus(o, w)) = IF Val(o) + Val(w) < Two32 THEN Val(o) + Val(w)
                               ELSE Val(o) + Val(w) - Two32
      BY ONLY <2>5, <2>6, PlusVal, Zenon
    <2>8. Val(Plus(o, w)) \in Nat
      BY ONLY <2>7, WordIs, SMT
    <2>9. PICK v \in Nat, y \in Nat, r \in Nat, f \in Nat :
              v = Val(t) /\ y = Val(o) /\ r = Remainder(t, 2) /\ f = Val(Plus(o, w))
      BY ONLY <2>3, <2>5, <2>8, SMT
    <2>10. /\ (x * 3 < 4294967296 => v = x * 3) /\ v = 2 * y + r /\ r < 2
           /\ f = IF y + 1 < 4294967296 THEN y + 1 ELSE y + 1 - 4294967296
      BY ONLY <1>2, <2>3, <2>5, <2>6, <2>7, <2>9, SMT DEF Two32
    <2>11. x < Two30 => 2 * f <= 3 * x + 2 /\ 3 * x + 1 <= 2 * f
      BY ONLY <2>10, x \in Nat, v \in Nat, y \in Nat, r \in Nat, f \in Nat, SMT DEF Two30
    <2> QED
      BY ONLY <1>2, <1>5, <2>2, <2>7, <2>9, <2>11, SMT DEF BytesAre
  <1>6. fs = "FAT12" \/ fs = "FAT16" \/ fs = "FAT32"
    BY Zenon DEF FileSystems
  <1> QED
    BY ONLY <1>3, <1>4, <1>5, <1>6, Zenon

-----------------------------------------------------------------------------
(* The layout in numbers: s sectors, of which the first FAT starts at f1   *)
(* and the root directory has rt; a first guess of g clusters, for which a *)
(* FAT has n bytes and ft sectors; the data area starts at ds and has c    *)
(* clusters.                                                               *)
LayoutNumbers(b, s, f1, rt, g, n, ft, ds, c) ==
    /\ s = Val(b.sectors) /\ s < Two32
    /\ f1 = Val(fat1_start(b)) /\ 1 <= f1 /\ f1 <= 32 + b.spc
    /\ rt = Val(root_sectors(b)) /\ rt <= MaxRoot /\ (b.filesys = "FAT32" => rt = 0)
    /\ ClustersAre(b, s, f1 + rt, g)
    /\ BytesAre(b.filesys, g, n)
    /\ TableIs(b, n, ft) /\ ft <= MaxTable + 511
    /\ ft = Val(LayoutOf(b).fat_sectors)
    /\ ds = f1 + rt + 2 * ft /\ ds = Val(LayoutOf(b).data_start)
    /\ ClustersAre(b, s, ds, c) /\ c = Val(LayoutOf(b).clusters)

(* createdrive_ext() computes such numbers, and what it aligns is aligned. *)
LEMMA LayoutVal ==
    ASSUME NEW b, Decided(b)
    PROVE  /\ LayoutOf(b).fat_sectors \in Word /\ LayoutOf(b).data_start \in Word
           /\ LayoutOf(b).clusters \in Word
           /\ LayoutOf(b).clusters = ClustersFrom(b, LayoutOf(b).data_start)
           /\ b.flags.align => Multiple(Val(LayoutOf(b).fat_sectors), b.spc)
           /\ \E s \in Nat, f1 \in Nat, rt \in Nat, g \in Nat, n \in Nat, ft \in Nat,
                 ds \in Nat, c \in Nat : LayoutNumbers(b, s, f1, rt, g, n, ft, ds, c)
  <1>1. /\ b.sectors \in Word /\ b.spc \in Nat /\ 1 <= b.spc /\ b.spc <= 512
        /\ b.filesys \in FileSystems
    BY SMT DEF Decided
  <1>2. PICK wf, wr, wb : wf = fat1_start(b) /\ wr = root_sectors(b) /\ wb = Plus(wf, wr)
    BY Zenon
  <1>3. PICK wg, wn, wt, w2, wd, wc :
            /\ wg = ClustersFrom(b, wb) /\ wn = FatBytes(b.filesys, wg)
            /\ wt = Aligned(b, CeilOver(wn, b.bps)) /\ w2 = Times(wt, 2)
            /\ wd = Plus(wb, w2) /\ wc = ClustersFrom(b, wd)
    BY Zenon
  <1>4. LayoutOf(b) = [fat_sectors |-> wt, data_start |-> wd, clusters |-> wc]
    BY ONLY <1>2, <1>3, Zenon DEF LayoutOf
  <1>5. LayoutOf(b).fat_sectors = wt /\ LayoutOf(b).data_start = wd /\ LayoutOf(b).clusters = wc
    BY ONLY <1>4, SMT
  <1>6. /\ wf \in Word /\ Val(wf) \in Nat /\ 1 <= Val(wf) /\ Val(wf) <= 32 + b.spc
    BY ONLY <1>2, Decided(b), FirstFatVal, Zenon
  <1>7. /\ wr \in Word /\ Val(wr) \in Nat /\ Val(wr) <= MaxRoot
        /\ b.filesys = "FAT32" => Val(wr) = 0
    BY ONLY <1>2, Decided(b), RootVal, Zenon
  <1>8. PICK s \in Nat, f1 \in Nat, rt \in Nat : s = Val(b.sectors) /\ f1 = Val(wf) /\ rt = Val(wr)
    BY ONLY <1>1, <1>6, <1>7, WordIs, SMT
  <1>9. s < Two32
    BY ONLY <1>1, <1>8, WordIs, SMT
  <1>10. wb \in Word /\ Val(wb) = f1 + rt
    <2>1. /\ wb \in Word
          /\ Val(wb) = IF Val(wf) + Val(wr) < Two32 THEN Val(wf) + Val(wr)
                       ELSE Val(wf) + Val(wr) - Two32
      BY ONLY <1>2, <1>6, <1>7, PlusVal, Zenon
    <2>2. f1 + rt < Two32
      BY ONLY <1>1, <1>6, <1>7, <1>8, f1 \in Nat, rt \in Nat, SMT DEF Two32, MaxRoot
    <2> QED
      BY ONLY <1>8, <2>1, <2>2, SMT
  <1>11. wg \in Word /\ Val(wg) \in Nat /\ ClustersAre(b, s, f1 + rt, Val(wg))
    BY ONLY <1>3, <1>8, <1>10, Decided(b), ClustersFromVal, Zenon
  <1>12. wn \in Word /\ Val(wn) \in Nat /\ BytesAre(b.filesys, Val(wg), Val(wn))
    BY ONLY <1>1, <1>3, <1>11, FatBytesVal, Zenon
  <1>13. /\ wt \in Word /\ Val(wt) \in Nat /\ TableIs(b, Val(wn), Val(wt))
         /\ b.flags.align => Multiple(Val(wt), b.spc)
    BY ONLY <1>3, <1>12, Decided(b), TableVal, Zenon
  <1>14. PICK g \in Nat, n \in Nat, ft \in Nat : g = Val(wg) /\ n = Val(wn) /\ ft = Val(wt)
    BY ONLY <1>11, <1>12, <1>13, Zenon
  <1>15. ft <= MaxTable + 511
    <2>1. PICK k \in Nat : k <= MaxTable /\ ft <= k + b.spc - 1
      BY ONLY <1>13, <1>14, SMT DEF TableIs
    <2> QED
      BY ONLY <1>1, <2>1, k \in Nat, ft \in Nat, SMT DEF MaxTable
  <1>16. w2 \in Word /\ Val(w2) = 2 * ft
    <2>1. w2 \in Word /\ (Val(wt) * 2 < Two32 => Val(w2) = Val(wt) * 2)
      BY ONLY <1>3, <1>13, TimesVal, SMT
    <2>2. ft * 2 < Two32 /\ ft * 2 = 2 * ft
      BY ONLY <1>15, ft \in Nat, SMT DEF Two32, MaxTable
    <2> QED
      BY ONLY <1>14, <2>1, <2>2, SMT
  <1>17. wd \in Word /\ Val(wd) = f1 + rt + 2 * ft
    <2>1. /\ wd \in Word
          /\ Val(wd) = IF Val(wb) + Val(w2) < Two32 THEN Val(wb) + Val(w2)
                       ELSE Val(wb) + Val(w2) - Two32
      BY ONLY <1>3, <1>10, <1>16, PlusVal, Zenon
    <2>2. f1 + rt + 2 * ft < Two32
      BY ONLY <1>1, <1>6, <1>7, <1>8, <1>15, f1 \in Nat, rt \in Nat, ft \in Nat, SMT
         DEF Two32, MaxRoot, MaxTable
    <2> QED
      BY ONLY <1>10, <1>16, <2>1, <2>2, SMT
  <1>18. PICK ds \in Nat : ds = f1 + rt + 2 * ft
    BY ONLY f1 \in Nat, rt \in Nat, ft \in Nat, SMT
  <1>19. wc \in Word /\ Val(wc) \in Nat /\ ClustersAre(b, s, ds, Val(wc))
    BY ONLY <1>3, <1>8, <1>17, <1>18, Decided(b), ClustersFromVal, Zenon
  <1>20. PICK c \in Nat : c = Val(wc)
    BY ONLY <1>19, Zenon
  <1>21. LayoutNumbers(b, s, f1, rt, g, n, ft, ds, c)
    <2>1. s = Val(b.sectors) /\ s < Two32
      BY ONLY <1>8, <1>9, Zenon
    <2>2. f1 = Val(fat1_start(b)) /\ 1 <= f1 /\ f1 <= 32 + b.spc
      BY ONLY <1>2, <1>6, <1>8, Zenon
    <2>3. rt = Val(root_sectors(b)) /\ rt <= MaxRoot /\ (b.filesys = "FAT32" => rt = 0)
      BY ONLY <1>2, <1>7, <1>8, Zenon
    <2>4. ClustersAre(b, s, f1 + rt, g) /\ BytesAre(b.filesys, g, n) /\ TableIs(b, n, ft)
      BY ONLY <1>11, <1>12, <1>13, <1>14, Zenon
    <2>5. ft = Val(LayoutOf(b).fat_sectors) /\ ds = Val(LayoutOf(b).data_start)
      BY ONLY <1>5, <1>14, <1>17, <1>18, Zenon
    <2>6. ClustersAre(b, s, ds, c) /\ c = Val(LayoutOf(b).clusters)
      BY ONLY <1>5, <1>19, <1>20, Zenon
    <2> QED
      BY ONLY <1>15, <1>18, <2>1, <2>2, <2>3, <2>4, <2>5, <2>6, Zenon DEF LayoutNumbers
  <1> QED
    BY ONLY <1>3, <1>5, <1>13, <1>17, <1>19, <1>21, Zenon

(* The numbers of clusters that the tests of createdrive_ext() accept.     *)
MinFat32 == 65525
MaxFat32 == 268435437

CountIs(fs, c) ==
    /\ fs = "FAT12" => c <= 4084
    /\ fs = "FAT16" => 4085 <= c /\ c <= 65524
    /\ fs = "FAT32" => 65525 <= c /\ c <= MaxFat32

LEMMA NotRefused ==
    ASSUME NEW b, Decided(b), NEW w \in Word, ~Refused(b, w)
    PROVE  CountIs(b.filesys, Val(w))
  <1>1. Wide(w) /\ Val(w) \in Nat
    BY WordIs, SMT
  <1>2. ASSUME NEW k \in Nat
        PROVE  (Below(w, W(k)) <=> Val(w) < k) /\ (Above(w, k) <=> k < Val(w))
    <2>1. PICK u : u = W(k)
      BY Zenon
    <2>2. Wide(u) /\ Val(u) = k
      BY ONLY <2>1, k \in Nat, WVal, Zenon
    <2>3. (Below(w, u) <=> Val(w) < Val(u)) /\ (Below(u, w) <=> Val(u) < Val(w))
      BY ONLY <1>1, <2>2, BelowVal, Zenon
    <2> QED
      BY ONLY <2>1, <2>2, <2>3, Zenon DEF Above
  <1>3. PICK x \in Nat : x = Val(w)
    BY ONLY <1>1, Zenon
  <1>4. CASE b.filesys = "FAT12"
    <2>1. ~Above(w, 4084)
      BY ONLY <1>4, ~Refused(b, w), SMT DEF Refused
    <2>2. ~(4084 < x)
      BY ONLY <1>2, <1>3, <2>1, SMT
    <2> QED
      BY ONLY <1>3, <1>4, <2>2, x \in Nat, SMT DEF CountIs
  <1>5. CASE b.filesys = "FAT16"
    <2>1. ~Below(w, W(4085)) /\ ~Above(w, 65524)
      BY ONLY <1>5, ~Refused(b, w), SMT DEF Refused
    <2>2. ~(x < 4085) /\ ~(65524 < x)
      BY ONLY <1>2, <1>3, <2>1, SMT
    <2> QED
      BY ONLY <1>3, <1>5, <2>2, x \in Nat, SMT DEF CountIs
  <1>6. CASE b.filesys = "FAT32"
    <2>1. PICK k \in Nat : /\ k = (IF b.flags.warn THEN 65526 ELSE 65525) /\ 65525 <= k
      BY SMT
    <2>2. ~Below(w, W(k)) /\ ~Above(w, 268435437)
      BY ONLY <1>6, <2>1, ~Refused(b, w), SMT DEF Refused
    <2>3. ~(x < k) /\ ~(268435437 < x)
      BY ONLY <1>2, <1>3, <2>2, k \in Nat, SMT
    <2> QED
      BY ONLY <1>3, <1>6, <2>1, <2>3, x \in Nat, k \in Nat, SMT DEF CountIs, MaxFat32
  <1>7. b.filesys = "FAT12" \/ b.filesys = "FAT16" \/ b.filesys = "FAT32"
    BY SMT DEF Decided, FileSystems
  <1> QED
    BY ONLY <1>4, <1>5, <1>6, <1>7, Zenon

(* A product of positive numbers.                                          *)
LEMMA ProductAtLeast ==
    ASSUME NEW k \in Nat, NEW x \in Nat, 1 <= k
    PROVE  k * x \in Nat /\ x <= k * x
  <1>1. PICK z \in Nat : k = 1 + z
    <2>1. k - 1 \in Nat
      BY SMT
    <2> QED
      BY ONLY <2>1, k \in Nat, SMT
  <1>2. k * x = x + z * x /\ z * x \in Nat
    BY ONLY <1>1, z \in Nat, x \in Nat, SMT
  <1> QED
    BY ONLY <1>2, x \in Nat, SMT

LEMMA ProductAtMost ==
    ASSUME NEW k \in Nat, NEW m \in Nat, NEW x \in Nat, k <= m
    PROVE  k * x \in Nat /\ k * x <= m * x
  <1>1. PICK z \in Nat : m = k + z
    <2>1. m - k \in Nat
      BY SMT
    <2> QED
      BY ONLY <2>1, k \in Nat, m \in Nat, SMT
  <1>2. m * x = k * x + z * x /\ z * x \in Nat /\ k * x \in Nat
    BY ONLY <1>1, z \in Nat, x \in Nat, k \in Nat, SMT
  <1> QED
    BY ONLY <1>2, SMT

(* The data area starts on the drive.  Otherwise the difference wraps: on  *)
(* a FAT12 or FAT16 drive to more clusters than the tests accept, and a    *)
(* FAT32 drive of 65525 sectors has room for its own structures.           *)
LEMMA DataStartsOnDrive ==
    ASSUME NEW b, Decided(b),
           NEW s \in Nat, NEW f1 \in Nat, NEW rt \in Nat, NEW g \in Nat, NEW n \in Nat,
           NEW ft \in Nat, NEW ds \in Nat, NEW c \in Nat,
           LayoutNumbers(b, s, f1, rt, g, n, ft, ds, c), CountIs(b.filesys, c),
           b.filesys = "FAT32" => MinFat32 <= s
    PROVE  ds <= s
  <1>1. PICK spc \in Nat : spc = b.spc /\ 1 <= spc /\ spc <= 512
    BY SMT DEF Decided
  <1>2. /\ s < 4294967296 /\ f1 <= 32 + spc /\ rt <= 4194822 /\ ft <= 8389118
        /\ ds = f1 + rt + 2 * ft
    BY ONLY <1>1, LayoutNumbers(b, s, f1, rt, g, n, ft, ds, c), SMT
       DEF LayoutNumbers, Two32, MaxRoot, MaxTable
  <1>3. CASE b.filesys # "FAT32"
    <2>1. SUFFICES ASSUME s < ds PROVE FALSE
      BY SMT
    <2>2. PICK r \in Nat : r < spc /\ s - ds + 4294967296 = spc * c + r
      BY ONLY <1>1, <2>1, LayoutNumbers(b, s, f1, rt, g, n, ft, ds, c), SMT
         DEF LayoutNumbers, ClustersAre, Two32
    <2>3. c <= 65524
      BY <1>3, SMT DEF CountIs, Decided, FileSystems
    <2>4. spc * c \in Nat /\ spc * c <= 512 * c
      BY ONLY <1>1, spc \in Nat, c \in Nat, ProductAtMost, SMT
    <2>5. PICK m \in Nat : m = spc * c
      BY ONLY <2>4, Zenon
    <2>6. m <= 512 * c
      BY ONLY <2>4, <2>5, SMT
    <2> QED
      BY ONLY <1>1, <1>2, <2>2, <2>3, <2>5, <2>6, s \in Nat, ds \in Nat, r \in Nat, m \in Nat,
              c \in Nat, spc \in Nat, f1 \in Nat, rt \in Nat, ft \in Nat, SMT
  <1>4. CASE b.filesys = "FAT32"
    <2>1. rt = 0 /\ 65525 <= s
      BY ONLY <1>4, b.filesys = "FAT32" => MinFat32 <= s,
              LayoutNumbers(b, s, f1, rt, g, n, ft, ds, c), SMT DEF LayoutNumbers, MinFat32
    <2>2. f1 + rt <= s
      BY ONLY <1>1, <1>2, <2>1, s \in Nat, f1 \in Nat, rt \in Nat, spc \in Nat, SMT
    <2>3. PICK r \in Nat : s - (f1 + rt) = spc * g + r
      BY ONLY <1>1, <2>2, LayoutNumbers(b, s, f1, rt, g, n, ft, ds, c), SMT
         DEF LayoutNumbers, ClustersAre
    <2>4. spc * g \in Nat /\ g <= spc * g
      BY ONLY <1>1, spc \in Nat, g \in Nat, ProductAtLeast, SMT
    <2>5. PICK m \in Nat : m = spc * g
      BY ONLY <2>4, Zenon
    <2>6. g <= s
      BY ONLY <2>1, <2>3, <2>4, <2>5, m \in Nat, g \in Nat, s \in Nat, f1 \in Nat, r \in Nat, SMT
    <2>7. n <= 4 * g
      BY ONLY <1>4, LayoutNumbers(b, s, f1, rt, g, n, ft, ds, c), SMT DEF LayoutNumbers, BytesAre
    <2>8. PICK k \in Nat : 512 * k <= n + 4095 /\ ft <= k + spc - 1
      BY ONLY <1>1, LayoutNumbers(b, s, f1, rt, g, n, ft, ds, c), SMT DEF LayoutNumbers, TableIs
    <2> QED
      BY ONLY <1>1, <1>2, <2>1, <2>6, <2>7, <2>8, s \in Nat, f1 \in Nat, g \in Nat, n \in Nat,
              ft \in Nat, ds \in Nat, k \in Nat, spc \in Nat, SMT
  <1> QED
    BY ONLY <1>3, <1>4, Zenon

(* The quotient of a number with a smaller rest.                           *)
LEMMA QuotientsCompare ==
    ASSUME NEW k \in Nat, 1 <= k, NEW x \in Nat, NEW y \in Nat, NEW r \in Nat, r < k,
           NEW p \in Nat, k * x + p <= k * y + r
    PROVE  x <= y /\ (2 * k <= p => x + 2 <= y)
  <1>1. ASSUME NEW t \in Nat, t * k <= p, ~(x + t <= y)
        PROVE  FALSE
    <2>1. PICK z \in Nat : x + t = y + 1 + z
      <3>1. x + t - y - 1 \in Nat
        BY ONLY <1>1, x \in Nat, y \in Nat, t \in Nat, SMT
      <3> QED
        BY ONLY <3>1, x \in Nat, y \in Nat, t \in Nat, SMT
    <2>2. k * (x + t) = k * x + t * k /\ k * (y + 1 + z) = k * y + k + k * z
      BY ONLY k \in Nat, x \in Nat, t \in Nat, y \in Nat, z \in Nat, SMT
    <2>3. k * x \in Nat /\ t * k \in Nat /\ k * y \in Nat /\ k * z \in Nat
      BY ONLY k \in Nat, x \in Nat, t \in Nat, y \in Nat, z \in Nat, SMT
    <2>4. PICK kx \in Nat, tk \in Nat, ky \in Nat, kz \in Nat :
              kx = k * x /\ tk = t * k /\ ky = k * y /\ kz = k * z
      BY ONLY <2>3, Zenon
    <2>5. kx + tk = ky + k + kz
      BY ONLY <2>1, <2>2, <2>4, Zenon
    <2>6. kx + p <= ky + r /\ tk <= p
      BY ONLY <1>1, <2>4, k * x + p <= k * y + r, Zenon
    <2> QED
      BY ONLY <2>5, <2>6, r < k, kx \in Nat, tk \in Nat, ky \in Nat, kz \in Nat, p \in Nat,
              r \in Nat, k \in Nat, SMT
  <1>2. x <= y
    <2>1. 0 * k <= p /\ 0 \in Nat /\ x + 0 = x
      BY SMT
    <2> QED
      BY ONLY <1>1, <2>1, SMT
  <1>3. 2 * k <= p => x + 2 <= y
    BY ONLY <1>1, SMT
  <1> QED
    BY ONLY <1>2, <1>3, Zenon

(* What holds of the numbers that createdrive_ext() accepts: the clusters  *)
(* fill the drive up to a rest, there are no more of them than the guess,  *)
(* by two less where a FAT takes a cluster or more, and the FAT has room   *)
(* for the guess.                                                          *)
AcceptedNumbers(b, s, g, n, ft, ds, c) ==
    /\ ds <= s
    /\ \E r \in Nat : r < b.spc /\ s = ds + b.spc * c + r
    /\ c <= g /\ g < Two30
    /\ b.spc <= ft => c + 2 <= g
    /\ 1 <= ft /\ n <= b.bps * ft
    /\ b.filesys # "FAT32" => ft < Half

LEMMA Accepted ==
    ASSUME NEW b, Decided(b),
           NEW s \in Nat, NEW f1 \in Nat, NEW rt \in Nat, NEW g \in Nat, NEW n \in Nat,
           NEW ft \in Nat, NEW ds \in Nat, NEW c \in Nat,
           LayoutNumbers(b, s, f1, rt, g, n, ft, ds, c), CountIs(b.filesys, c),
           b.filesys = "FAT32" => MinFat32 <= s
    PROVE  AcceptedNumbers(b, s, g, n, ft, ds, c)
  <1>1. PICK spc \in Nat, bps \in Nat : spc = b.spc /\ 1 <= spc /\ spc <= 512 /\ bps = b.bps
    BY SMT DEF Decided
  <1>2. ds <= s /\ ds = f1 + rt + 2 * ft
    <2>1. ds <= s
      BY ONLY Decided(b), s \in Nat, f1 \in Nat, rt \in Nat, g \in Nat, n \in Nat, ft \in Nat,
              ds \in Nat, c \in Nat, LayoutNumbers(b, s, f1, rt, g, n, ft, ds, c),
              CountIs(b.filesys, c), b.filesys = "FAT32" => MinFat32 <= s, DataStartsOnDrive, Zenon
    <2> QED
      BY ONLY <2>1, LayoutNumbers(b, s, f1, rt, g, n, ft, ds, c), Zenon DEF LayoutNumbers
  <1>3. f1 + rt <= s
    BY ONLY <1>2, s \in Nat, f1 \in Nat, rt \in Nat, ft \in Nat, ds \in Nat, SMT
  <1>4. PICK r \in Nat : r < spc /\ s - ds = spc * c + r
    BY ONLY <1>1, <1>2, LayoutNumbers(b, s, f1, rt, g, n, ft, ds, c), SMT
       DEF LayoutNumbers, ClustersAre
  <1>5. PICK r0 \in Nat : r0 < spc /\ s - (f1 + rt) = spc * g + r0
    BY ONLY <1>1, <1>3, LayoutNumbers(b, s, f1, rt, g, n, ft, ds, c), SMT
       DEF LayoutNumbers, ClustersAre
  <1>6. PICK k \in Nat : /\ 512 * k <= n + 4095 /\ k <= 8388607 /\ k <= ft /\ ft <= k + spc - 1
                         /\ n + 4095 < 4294967296 => n <= bps * k
    BY ONLY <1>1, LayoutNumbers(b, s, f1, rt, g, n, ft, ds, c), SMT
       DEF LayoutNumbers, TableIs, MaxTable, Two32
  <1>7. PICK mc \in Nat, mg \in Nat : mc = spc * c /\ mg = spc * g
    BY ONLY spc \in Nat, c \in Nat, g \in Nat, SMT
  <1>8. mc + r + 2 * ft = mg + r0
    BY ONLY <1>2, <1>4, <1>5, <1>7, s \in Nat, ds \in Nat, f1 \in Nat, rt \in Nat, ft \in Nat,
            mc \in Nat, mg \in Nat, r \in Nat, r0 \in Nat, SMT
  <1>9. c <= g /\ (spc <= ft => c + 2 <= g)
    <2>1. PICK p \in Nat : p = r + 2 * ft
      BY ONLY r \in Nat, ft \in Nat, SMT
    <2>2. mc + p <= mg + r0
      BY ONLY <1>8, <2>1, mc \in Nat, mg \in Nat, r \in Nat, r0 \in Nat, ft \in Nat, SMT
    <2>3. spc * c + p <= spc * g + r0
      BY ONLY <1>7, <2>2, Zenon
    <2>4. c <= g /\ (2 * spc <= p => c + 2 <= g)
      BY ONLY <1>1, <1>5, <2>3, spc \in Nat, c \in Nat, g \in Nat, r0 \in Nat, p \in Nat,
              QuotientsCompare, Zenon
    <2>5. spc <= ft => 2 * spc <= p
      BY ONLY <2>1, spc \in Nat, ft \in Nat, r \in Nat, p \in Nat, SMT
    <2> QED
      BY ONLY <2>4, <2>5, Zenon
  <1>10. g <= c + 2 * k + 2
    <2>1. PICK y \in Nat : y = c + 2 * k + 2
      BY ONLY c \in Nat, k \in Nat, SMT
    <2>2. PICK mk \in Nat : mk = spc * k /\ k <= mk
      BY ONLY <1>1, spc \in Nat, k \in Nat, ProductAtLeast, SMT
    <2>3. spc * y = mc + 2 * mk + 2 * spc
      BY ONLY <1>7, <2>1, <2>2, spc \in Nat, c \in Nat, k \in Nat, SMT
    <2>4. mg + 0 <= mc + 2 * mk + 2 * spc + r
      BY ONLY <1>1, <1>6, <1>8, <2>2, mc \in Nat, mg \in Nat, mk \in Nat, r \in Nat, r0 \in Nat,
              ft \in Nat, k \in Nat, spc \in Nat, SMT
    <2>5. spc * g + 0 <= spc * y + r /\ 0 \in Nat
      BY ONLY <1>7, <2>3, <2>4, SMT
    <2>6. g <= y
      BY ONLY <1>1, <1>4, <2>5, spc \in Nat, g \in Nat, y \in Nat, r \in Nat,
              QuotientsCompare, Zenon
    <2> QED
      BY ONLY <2>1, <2>6, SMT
  <1>11. c <= 268435437
    BY SMT DEF CountIs, MaxFat32, Decided, FileSystems
  <1>12. g <= 285212653
    BY ONLY <1>6, <1>10, <1>11, g \in Nat, c \in Nat, k \in Nat, SMT
  <1>13. g < 1073741824
    BY ONLY <1>12, g \in Nat, SMT
  <1>14. BytesAre(b.filesys, g, n) /\ (b.filesys = "FAT12" \/ b.filesys = "FAT16" \/ b.filesys = "FAT32")
    BY SMT DEF LayoutNumbers, Decided, FileSystems
  <1>15. n <= 4 * g + 1 /\ 1 <= n /\ (b.filesys # "FAT32" => n <= 2 * g + 1)
    <2>1. CASE b.filesys = "FAT12"
      <3>1. 2 * n <= 3 * g + 2 /\ 3 * g + 1 <= 2 * n
        BY ONLY <1>13, <1>14, <2>1, SMT DEF BytesAre, Two30
      <3> QED
        BY ONLY <3>1, n \in Nat, g \in Nat, SMT
    <2>2. CASE b.filesys = "FAT16"
      <3>1. n = 2 * g /\ 4085 <= c
        BY ONLY <1>13, <1>14, <2>2, CountIs(b.filesys, c), SMT DEF BytesAre, Two30, CountIs
      <3> QED
        BY ONLY <1>9, <3>1, n \in Nat, g \in Nat, c \in Nat, SMT
    <2>3. CASE b.filesys = "FAT32"
      <3>1. n = 4 * g /\ 65525 <= c
        BY ONLY <1>13, <1>14, <2>3, CountIs(b.filesys, c), SMT DEF BytesAre, Two30, CountIs
      <3> QED
        BY ONLY <1>9, <2>3, <3>1, n \in Nat, g \in Nat, c \in Nat, SMT
    <2> QED
      BY ONLY <1>14, <2>1, <2>2, <2>3, Zenon
  <1>16. n <= bps * k
    BY ONLY <1>6, <1>12, <1>15, n \in Nat, g \in Nat, SMT
  <1>17. k # 0
    <2>1. k = 0 => bps * k = 0
      BY ONLY bps \in Nat, k \in Nat, SMT
    <2> QED
      BY ONLY <1>15, <1>16, <2>1, n \in Nat, SMT
  <1>18. 1 <= ft
    BY ONLY <1>6, <1>17, k \in Nat, ft \in Nat, SMT
  <1>19. n <= bps * ft
    <2>1. k * bps <= ft * bps
      BY ONLY <1>6, k \in Nat, ft \in Nat, bps \in Nat, ProductAtMost, SMT
    <2>2. k * bps = bps * k /\ ft * bps = bps * ft /\ bps * k \in Nat /\ bps * ft \in Nat
      BY ONLY k \in Nat, ft \in Nat, bps \in Nat, SMT
    <2> QED
      BY ONLY <1>16, <2>1, <2>2, n \in Nat, SMT
  <1>20. b.filesys # "FAT32" => ft < 65536
    <2>1. b.filesys # "FAT32" => c <= 65524
      BY ONLY <1>14, CountIs(b.filesys, c), SMT DEF CountIs
    <2>2. ASSUME c <= 65524, n <= 2 * g + 1 PROVE ft < 65536
      BY ONLY <1>1, <1>6, <1>10, <2>2, c \in Nat, n \in Nat, g \in Nat, k \in Nat, ft \in Nat,
              spc \in Nat, SMT
    <2> QED
      BY ONLY <1>15, <2>1, <2>2, SMT
  <1>21. s = ds + spc * c + r
    BY ONLY <1>2, <1>4, <1>7, s \in Nat, ds \in Nat, mc \in Nat, r \in Nat, SMT
  <1>22. (b.filesys # "FAT32" => ft < Half) /\ g < Two30
    BY ONLY <1>13, <1>20, HalfIs, SMT DEF Two30
  <1>23. \E q \in Nat : q < b.spc /\ s = ds + b.spc * c + q
    BY ONLY <1>1, <1>4, <1>21, Zenon
  <1>24. (b.spc <= ft => c + 2 <= g) /\ n <= b.bps * ft
    BY ONLY <1>1, <1>9, <1>19, Zenon
  <1> QED
    BY ONLY <1>2, <1>9, <1>18, <1>22, <1>23, <1>24, Zenon DEF AcceptedNumbers

-----------------------------------------------------------------------------
(* The drive that is installed.                                            *)
LEMMA InstalledIs ==
    ASSUME NEW b
    PROVE  /\ Installed(b).filesys = b.filesys /\ Installed(b).bps = b.bps
           /\ Installed(b).spc = b.spc /\ Installed(b).sectors = b.sectors
           /\ Installed(b).root_dir_cnt = b.root_dir_cnt /\ Installed(b).flags = b.flags
           /\ Installed(b).clusters = LayoutOf(b).clusters
           /\ Installed(b).fat_sectors = LayoutOf(b).fat_sectors
           /\ Installed(b).fat1_start = fat1_start(b)
           /\ Installed(b).fat2_start = Plus(fat1_start(b), LayoutOf(b).fat_sectors)
           /\ Installed(b).root_start
                  = Plus(Plus(fat1_start(b), LayoutOf(b).fat_sectors), LayoutOf(b).fat_sectors)
           /\ Installed(b).root_sectors = root_sectors(b)
           /\ Installed(b).data_start = LayoutOf(b).data_start
           /\ Installed(b).mbr_sectors = mbr_sectors(b)
  BY SMT DEF Installed

(* A sum below 2^32 does not wrap.                                         *)
LEMMA PlusNoWrap ==
    ASSUME NEW a \in Word, NEW b \in Word, Val(a) + Val(b) < Two32
    PROVE  Plus(a, b) \in Word /\ Val(Plus(a, b)) = Val(a) + Val(b)
  <1>1. /\ Plus(a, b) \in Word
        /\ Val(Plus(a, b)) = IF Val(a) + Val(b) < Two32 THEN Val(a) + Val(b)
                             ELSE Val(a) + Val(b) - Two32
    BY PlusVal, Zenon
  <1> QED
    BY ONLY <1>1, Val(a) + Val(b) < Two32, Zenon

(* Where the regions of the drive start.                                   *)
StartsAre(b, f1, rt, ft, ds) ==
    /\ fat1_start(b) \in Word /\ Val(fat1_start(b)) = f1
    /\ Installed(b).fat2_start \in Word /\ Val(Installed(b).fat2_start) = f1 + ft
    /\ Installed(b).root_start \in Word /\ Val(Installed(b).root_start) = f1 + ft + ft
    /\ root_sectors(b) \in Word /\ Val(root_sectors(b)) = rt
    /\ ds = f1 + rt + 2 * ft /\ ds < Two30

LEMMA StartsVal ==
    ASSUME NEW b, Decided(b),
           NEW s \in Nat, NEW f1 \in Nat, NEW rt \in Nat, NEW g \in Nat, NEW n \in Nat,
           NEW ft \in Nat, NEW ds \in Nat, NEW c \in Nat,
           LayoutNumbers(b, s, f1, rt, g, n, ft, ds, c)
    PROVE  StartsAre(b, f1, rt, ft, ds)
  <1>1. PICK wf, wt, w2, w3 :
            /\ wf = fat1_start(b) /\ wt = LayoutOf(b).fat_sectors
            /\ w2 = Plus(wf, wt) /\ w3 = Plus(w2, wt)
    BY Zenon
  <1>2. wf \in Word /\ wt \in Word /\ root_sectors(b) \in Word
    BY ONLY <1>1, Decided(b), FirstFatVal, RootVal, LayoutVal, Zenon
  <1>3. /\ Val(wf) = f1 /\ Val(wt) = ft /\ Val(root_sectors(b)) = rt /\ ds = f1 + rt + 2 * ft
        /\ f1 <= 32 + b.spc /\ rt <= MaxRoot /\ ft <= MaxTable + 511
    BY ONLY <1>1, LayoutNumbers(b, s, f1, rt, g, n, ft, ds, c), SMT DEF LayoutNumbers
  <1>4. b.spc \in Nat /\ b.spc <= 512
    BY SMT DEF Decided
  <1>5. f1 + ft < Two32 /\ f1 + ft + ft < Two32 /\ ds < Two30
    BY ONLY <1>3, <1>4, f1 \in Nat, rt \in Nat, ft \in Nat, ds \in Nat, SMT
       DEF MaxRoot, MaxTable, Two32, Two30
  <1>6. w2 \in Word /\ Val(w2) = f1 + ft
    BY ONLY <1>1, <1>2, <1>3, <1>5, PlusNoWrap, Zenon
  <1>7. w3 \in Word /\ Val(w3) = f1 + ft + ft
    <2>1. Val(w2) + Val(wt) = f1 + ft + ft
      BY ONLY <1>3, <1>6, Zenon
    <2>2. Val(w2) + Val(wt) < Two32
      BY ONLY <1>5, <2>1, Zenon
    <2>3. Plus(w2, wt) \in Word /\ Val(Plus(w2, wt)) = Val(w2) + Val(wt)
      BY ONLY <1>2, <1>6, <2>2, PlusNoWrap, Zenon
    <2> QED
      BY ONLY <1>1, <2>1, <2>3, Zenon
  <1>8. Installed(b).fat2_start = w2 /\ Installed(b).root_start = w3
    BY ONLY <1>1, InstalledIs, Zenon
  <1> QED
    BY ONLY <1>1, <1>2, <1>3, <1>5, <1>6, <1>7, <1>8, Zenon DEF StartsAre

(* A word that stands for a multiple has no remainder.                     *)
LEMMA MultipleRemainder ==
    ASSUME NEW w \in Word, NEW k \in Nat, 1 <= k, NEW m \in Nat, Val(w) = k * m
    PROVE  Remainder(w, k) = 0
  <1>1. Wide(w) /\ k \in Nat \ {0}
    BY WordIs, SMT
  <1>2. PICK q \in Nat, r \in Nat : r = Remainder(w, k) /\ r < k /\ Val(w) = k * q + r
    <2>1. PICK o, r : o = Over(w, k) /\ r = Remainder(w, k)
      BY Zenon
    <2>2. r \in Nat /\ r < k /\ Val(o) \in Nat /\ Val(w) = k * Val(o) + r
      BY ONLY <1>1, <2>1, OverVal, SMT
    <2> QED
      BY ONLY <2>1, <2>2, Zenon
  <1>3. PICK km \in Nat, kq \in Nat : km = k * m /\ kq = k * q
    BY ONLY k \in Nat, m \in Nat, q \in Nat, SMT
  <1>4. km = kq + r
    BY ONLY <1>2, <1>3, Val(w) = k * m, Zenon
  <1>5. k * m + 0 <= k * q + r /\ k * q + r <= k * m + 0 /\ 0 < k /\ 0 \in Nat
    BY ONLY <1>3, <1>4, km \in Nat, kq \in Nat, r \in Nat, k \in Nat, 1 <= k, SMT
  <1>6. m <= q
    BY ONLY <1>2, <1>5, k \in Nat, 1 <= k, m \in Nat, q \in Nat, r \in Nat, QuotientsCompare, Zenon
  <1>7. q <= m
    BY ONLY <1>2, <1>5, k \in Nat, 1 <= k, m \in Nat, q \in Nat, r \in Nat, QuotientsCompare, Zenon
  <1>8. q = m
    BY ONLY <1>6, <1>7, m \in Nat, q \in Nat, SMT
  <1>9. km = kq
    BY ONLY <1>3, <1>8, Zenon
  <1> QED
    BY ONLY <1>2, <1>4, <1>9, km \in Nat, kq \in Nat, r \in Nat, SMT

LEMMA AlignedStarts ==
    ASSUME NEW b, Decided(b), b.flags.align
    PROVE  /\ Remainder(fat1_start(b), b.spc) = 0
           /\ Remainder(Installed(b).fat2_start, b.spc) = 0
           /\ Remainder(Installed(b).root_start, b.spc) = 0
           /\ Remainder(LayoutOf(b).data_start, b.spc) = 0
  <1>1. PICK k \in Nat : k = b.spc /\ 1 <= k
    BY SMT DEF Decided
  <1>2. PICK s \in Nat, f1 \in Nat, rt \in Nat, g \in Nat, n \in Nat, ft \in Nat, ds \in Nat,
             c \in Nat : LayoutNumbers(b, s, f1, rt, g, n, ft, ds, c)
    BY ONLY Decided(b), LayoutVal, Zenon
  <1>3. /\ fat1_start(b) \in Word /\ Val(fat1_start(b)) = f1
        /\ Installed(b).fat2_start \in Word /\ Val(Installed(b).fat2_start) = f1 + ft
        /\ Installed(b).root_start \in Word /\ Val(Installed(b).root_start) = f1 + ft + ft
        /\ Val(root_sectors(b)) = rt /\ ds = f1 + rt + 2 * ft
    <2>1. StartsAre(b, f1, rt, ft, ds)
      BY ONLY <1>2, Decided(b), s \in Nat, f1 \in Nat, rt \in Nat, g \in Nat, n \in Nat, ft \in Nat,
              ds \in Nat, c \in Nat, StartsVal, Zenon
    <2> QED
      BY ONLY <2>1, Zenon DEF StartsAre
  <1>4. LayoutOf(b).data_start \in Word /\ Val(LayoutOf(b).data_start) = ds /\ Val(LayoutOf(b).fat_sectors) = ft
    <2>1. LayoutOf(b).data_start \in Word
      BY ONLY Decided(b), LayoutVal, Zenon
    <2> QED
      BY ONLY <1>2, <2>1, SMT DEF LayoutNumbers
  <1>5. PICK i \in Nat, j \in Nat, h \in Nat : f1 = k * i /\ rt = k * j /\ ft = k * h
    <2>1. Multiple(f1, k) /\ Multiple(rt, k) /\ Multiple(ft, k)
      BY ONLY <1>1, <1>3, <1>4, Decided(b), b.flags.align, FirstFatVal, RootVal, LayoutVal, Zenon
    <2> QED
      BY ONLY <2>1, Zenon DEF Multiple
  <1>6. /\ f1 + ft = k * (i + h) /\ f1 + ft + ft = k * (i + h + h)
        /\ f1 + rt + 2 * ft = k * (i + j + 2 * h)
        /\ i + h \in Nat /\ i + h + h \in Nat /\ i + j + 2 * h \in Nat
    BY ONLY <1>5, k \in Nat, i \in Nat, j \in Nat, h \in Nat, SMT
  <1>7. Remainder(fat1_start(b), k) = 0
    BY ONLY <1>1, <1>3, <1>5, k \in Nat, i \in Nat, MultipleRemainder, Zenon
  <1>8. Remainder(Installed(b).fat2_start, k) = 0
    BY ONLY <1>1, <1>3, <1>6, k \in Nat, MultipleRemainder, Zenon
  <1>9. Remainder(Installed(b).root_start, k) = 0
    BY ONLY <1>1, <1>3, <1>6, k \in Nat, MultipleRemainder, Zenon
  <1>10. Remainder(LayoutOf(b).data_start, k) = 0
    BY ONLY <1>1, <1>3, <1>4, <1>6, k \in Nat, MultipleRemainder, Zenon
  <1> QED
    BY ONLY <1>1, <1>7, <1>8, <1>9, <1>10, Zenon

(* All that is known of an accepted drive in numbers.                      *)
DriveNumbers(b, s, f1, rt, g, n, ft, ds, c) ==
    /\ LayoutNumbers(b, s, f1, rt, g, n, ft, ds, c)
    /\ AcceptedNumbers(b, s, g, n, ft, ds, c)
    /\ StartsAre(b, f1, rt, ft, ds)
    /\ CountIs(b.filesys, c)

LEMMA BelowWord ==
    ASSUME NEW w \in Word, NEW k \in Nat
    PROVE  (Below(w, W(k)) <=> Val(w) < k) /\ (Below(W(k), w) <=> k < Val(w))
  <1>1. Wide(w)
    BY WordIs, SMT
  <1>2. PICK u : u = W(k)
    BY Zenon
  <1>3. Wide(u) /\ Val(u) = k
    BY ONLY <1>2, k \in Nat, WVal, Zenon
  <1>4. (Below(w, u) <=> Val(w) < Val(u)) /\ (Below(u, w) <=> Val(u) < Val(w))
    BY ONLY <1>1, <1>3, BelowVal, Zenon
  <1> QED
    BY ONLY <1>2, <1>3, <1>4, Zenon

LEMMA BelowWords ==
    ASSUME NEW v \in Word, NEW w \in Word
    PROVE  Below(v, w) <=> Val(v) < Val(w)
  <1>1. Wide(v) /\ Wide(w)
    BY WordIs, SMT
  <1> QED
    BY ONLY <1>1, BelowVal, Zenon

LEMMA DriveVal ==
    ASSUME NEW b, Decided(b), ~Refused(b, LayoutOf(b).clusters), ~TooSmall(Installed(b))
    PROVE  \E s \in Nat, f1 \in Nat, rt \in Nat, g \in Nat, n \in Nat, ft \in Nat, ds \in Nat,
              c \in Nat : DriveNumbers(b, s, f1, rt, g, n, ft, ds, c)
  <1>1. PICK s \in Nat, f1 \in Nat, rt \in Nat, g \in Nat, n \in Nat, ft \in Nat, ds \in Nat,
             c \in Nat : LayoutNumbers(b, s, f1, rt, g, n, ft, ds, c)
    BY ONLY Decided(b), LayoutVal, Zenon
  <1>2. LayoutOf(b).clusters \in Word
    BY ONLY Decided(b), LayoutVal, Zenon
  <1>3. s = Val(b.sectors) /\ c = Val(LayoutOf(b).clusters) /\ b.sectors \in Word
    BY ONLY <1>1, Decided(b), SMT DEF LayoutNumbers, Decided
  <1>4. CountIs(b.filesys, c)
    BY ONLY <1>2, <1>3, Decided(b), ~Refused(b, LayoutOf(b).clusters), NotRefused, Zenon
  <1>5. b.filesys = "FAT32" => MinFat32 <= s
    <2>1. MinFat32 \in Nat
      BY SMT DEF MinFat32
    <2>2. Below(b.sectors, W(MinFat32)) <=> s < MinFat32
      BY ONLY <1>3, <2>1, BelowWord, Zenon
    <2>3. ~(b.filesys = "FAT32" /\ Below(b.sectors, W(MinFat32)))
      BY ONLY ~TooSmall(Installed(b)), InstalledIs, SMT DEF TooSmall, MinFat32
    <2> QED
      BY ONLY <2>1, <2>2, <2>3, s \in Nat, SMT
  <1>6. AcceptedNumbers(b, s, g, n, ft, ds, c)
    BY ONLY <1>1, <1>4, <1>5, Decided(b), s \in Nat, f1 \in Nat, rt \in Nat, g \in Nat, n \in Nat,
            ft \in Nat, ds \in Nat, c \in Nat, Accepted, Zenon
  <1>7. StartsAre(b, f1, rt, ft, ds)
    BY ONLY <1>1, Decided(b), s \in Nat, f1 \in Nat, rt \in Nat, g \in Nat, n \in Nat,
            ft \in Nat, ds \in Nat, c \in Nat, StartsVal, Zenon
  <1> QED
    BY ONLY <1>1, <1>4, <1>6, <1>7, s \in Nat, f1 \in Nat, rt \in Nat, g \in Nat, n \in Nat,
            ft \in Nat, ds \in Nat, c \in Nat, Zenon DEF DriveNumbers

(* The regions of an installed drive tile it.                              *)
LEMMA InstalledTiles ==
    ASSUME NEW b, Decided(b), ~Refused(b, LayoutOf(b).clusters), ~TooSmall(Installed(b)),
           NEW d, d = Installed(b), NEW end, end = Plus(d.data_start, Times(d.clusters, d.spc))
    PROVE  /\ Below(W(0), d.fat1_start)
           /\ Below(d.fat1_start, d.fat2_start)
           /\ d.data_start = Plus(d.root_start, d.root_sectors)
           /\ ~Below(d.sectors, d.data_start)
           /\ ~Below(d.sectors, end)
           /\ Below(Minus(d.sectors, end), W(d.spc))
  <1>1. PICK s \in Nat, f1 \in Nat, rt \in Nat, g \in Nat, n \in Nat, ft \in Nat, ds \in Nat,
             c \in Nat : DriveNumbers(b, s, f1, rt, g, n, ft, ds, c)
    BY DriveVal, Zenon
  <1>2. /\ d.fat1_start = fat1_start(b) /\ d.data_start = LayoutOf(b).data_start
        /\ d.clusters = LayoutOf(b).clusters /\ d.spc = b.spc /\ d.sectors = b.sectors
        /\ d.root_sectors = root_sectors(b)
    BY ONLY d = Installed(b), InstalledIs, Zenon
  <1>3. PICK k \in Nat : k = b.spc /\ b.sectors \in Word
    BY SMT DEF Decided
  <1>4. /\ d.fat1_start \in Word /\ Val(d.fat1_start) = f1
        /\ d.fat2_start \in Word /\ Val(d.fat2_start) = f1 + ft
        /\ d.root_start \in Word /\ Val(d.root_start) = f1 + ft + ft
        /\ d.root_sectors \in Word /\ Val(d.root_sectors) = rt
        /\ ds = f1 + rt + 2 * ft
    BY ONLY <1>1, <1>2, d = Installed(b), Zenon DEF DriveNumbers, StartsAre
  <1>5. d.data_start \in Word /\ d.clusters \in Word
    BY ONLY <1>2, Decided(b), LayoutVal, Zenon
  <1>6. /\ Val(d.data_start) = ds /\ Val(d.clusters) = c /\ Val(d.sectors) = s
        /\ s < Two32 /\ 1 <= f1
    BY ONLY <1>1, <1>2, SMT DEF DriveNumbers, LayoutNumbers
  <1>7. PICK r \in Nat : r < k /\ s = ds + k * c + r
    BY ONLY <1>1, <1>3, SMT DEF DriveNumbers, AcceptedNumbers
  <1>8. ds <= s /\ 1 <= ft
    BY ONLY <1>1, Zenon DEF DriveNumbers, AcceptedNumbers
  <1>9. PICK m \in Nat : m = c * k /\ s = ds + m + r
    <2>1. c * k = k * c /\ c * k \in Nat
      BY ONLY c \in Nat, k \in Nat, SMT
    <2> QED
      BY ONLY <1>7, <2>1, SMT
  <1>10. PICK t : t = Times(d.clusters, d.spc)
    BY Zenon
  <1>11. t \in Word /\ Val(t) = m
    <2>1. t \in Word /\ (Val(d.clusters) * k < Two32 => Val(t) = Val(d.clusters) * k)
      <3>1. t = Times(d.clusters, k) /\ d.clusters \in Word
        BY ONLY <1>2, <1>3, <1>5, <1>10, Zenon
      <3> QED
        BY ONLY <3>1, k \in Nat, TimesVal, Zenon
    <2>2. m < Two32
      BY ONLY <1>6, <1>9, s \in Nat, ds \in Nat, m \in Nat, r \in Nat, SMT DEF Two32
    <2> QED
      BY ONLY <1>6, <1>9, <2>1, <2>2, Zenon
  <1>12. end \in Word /\ Val(end) = ds + m
    <2>1. Val(d.data_start) + Val(t) = ds + m
      BY ONLY <1>6, <1>11, Zenon
    <2>2. ds + m < Two32
      BY ONLY <1>6, <1>9, s \in Nat, ds \in Nat, m \in Nat, r \in Nat, SMT DEF Two32
    <2>3. Plus(d.data_start, t) \in Word /\ Val(Plus(d.data_start, t)) = Val(d.data_start) + Val(t)
      BY ONLY <1>5, <1>11, <2>1, <2>2, PlusNoWrap, Zenon
    <2> QED
      BY ONLY <1>10, <2>1, <2>3, end = Plus(d.data_start, Times(d.clusters, d.spc)), Zenon
  <1>13. Minus(d.sectors, end) \in Word /\ Val(Minus(d.sectors, end)) = r
    <2>1. /\ Minus(d.sectors, end) \in Word
          /\ Val(Minus(d.sectors, end))
                 = IF Val(end) <= Val(d.sectors) THEN Val(d.sectors) - Val(end)
                   ELSE Val(d.sectors) - Val(end) + Two32
      BY ONLY <1>2, <1>3, <1>12, MinusVal, Zenon
    <2>2. ds + m <= s /\ s - (ds + m) = r
      BY ONLY <1>9, s \in Nat, ds \in Nat, m \in Nat, r \in Nat, SMT
    <2> QED
      BY ONLY <1>6, <1>12, <2>1, <2>2, Zenon
  <1>14. Below(W(0), d.fat1_start) /\ Below(d.fat1_start, d.fat2_start)
    <2>1. 0 < f1 /\ f1 < f1 + ft /\ 0 \in Nat
      BY ONLY <1>6, <1>8, f1 \in Nat, ft \in Nat, SMT
    <2>2. Below(W(0), d.fat1_start) <=> 0 < Val(d.fat1_start)
      BY ONLY <1>4, <2>1, BelowWord, Zenon
    <2>3. Below(d.fat1_start, d.fat2_start) <=> Val(d.fat1_start) < Val(d.fat2_start)
      BY ONLY <1>4, BelowWords, Zenon
    <2> QED
      BY ONLY <1>4, <2>1, <2>2, <2>3, Zenon
  <1>15. d.data_start = Plus(d.root_start, d.root_sectors)
    <2>1. f1 + ft + ft + rt = ds
      BY ONLY <1>4, f1 \in Nat, ft \in Nat, rt \in Nat, SMT
    <2>2. ds < Two32
      BY ONLY <1>6, <1>8, s \in Nat, ds \in Nat, SMT DEF Two32
    <2>3. Val(d.root_start) + Val(d.root_sectors) = ds
      BY ONLY <1>4, <2>1, Zenon
    <2>4. /\ Plus(d.root_start, d.root_sectors) \in Word
          /\ Val(Plus(d.root_start, d.root_sectors)) = ds
      BY ONLY <1>4, <2>2, <2>3, PlusNoWrap, Zenon
    <2> QED
      BY ONLY <1>5, <1>6, <2>4, SameVal, Zenon
  <1>16. ~Below(d.sectors, d.data_start) /\ ~Below(d.sectors, end)
    <2>1. ~(s < ds) /\ ~(s < ds + m)
      BY ONLY <1>9, s \in Nat, ds \in Nat, m \in Nat, r \in Nat, SMT
    <2>2. /\ Below(d.sectors, d.data_start) <=> Val(d.sectors) < Val(d.data_start)
          /\ Below(d.sectors, end) <=> Val(d.sectors) < Val(end)
      BY ONLY <1>2, <1>3, <1>5, <1>12, BelowWords, Zenon
    <2> QED
      BY ONLY <1>6, <1>12, <2>1, <2>2, Zenon
  <1>17. Below(Minus(d.sectors, end), W(d.spc))
    <2>1. Below(Minus(d.sectors, end), W(k)) <=> Val(Minus(d.sectors, end)) < k
      BY ONLY <1>13, k \in Nat, BelowWord, Zenon
    <2> QED
      BY ONLY <1>2, <1>3, <1>7, <1>13, <2>1, Zenon
  <1> QED
    BY ONLY <1>14, <1>15, <1>16, <1>17, Zenon

(* The entry sizes of FatCoversData, in units of four bits.                *)
Nibbles(fs) ==
    CASE fs = "FAT12" -> 3
      [] fs = "FAT16" -> 4
      [] fs = "FAT32" -> 8

(* A FAT that takes a cluster or more has an entry for each cluster.       *)
LEMMA InstalledCovers ==
    ASSUME NEW b, Decided(b), ~Refused(b, LayoutOf(b).clusters), ~TooSmall(Installed(b)),
           NEW d, d = Installed(b), ~Below(d.fat_sectors, W(d.spc))
    PROVE  ~Below(WideTimes(d.fat_sectors, d.bps * 2),
                  WideTimes(Plus(d.clusters, W(2)), Nibbles(d.filesys)))
  <1>1. PICK s \in Nat, f1 \in Nat, rt \in Nat, g \in Nat, n \in Nat, ft \in Nat, ds \in Nat,
             c \in Nat : DriveNumbers(b, s, f1, rt, g, n, ft, ds, c)
    BY DriveVal, Zenon
  <1>2. /\ d.fat_sectors = LayoutOf(b).fat_sectors /\ d.bps = b.bps
        /\ d.clusters = LayoutOf(b).clusters /\ d.spc = b.spc /\ d.filesys = b.filesys
    BY ONLY d = Installed(b), InstalledIs, Zenon
  <1>3. PICK k \in Nat, bps \in Nat : k = d.spc /\ bps = d.bps
    BY <1>2, SMT DEF Decided
  <1>4. d.fat_sectors \in Word /\ d.clusters \in Word
    BY ONLY <1>2, Decided(b), LayoutVal, Zenon
  <1>5. Val(d.fat_sectors) = ft /\ Val(d.clusters) = c
    BY ONLY <1>1, <1>2, SMT DEF DriveNumbers, LayoutNumbers
  <1>6. k <= ft
    <2>1. Below(d.fat_sectors, W(k)) <=> Val(d.fat_sectors) < k
      BY ONLY <1>4, k \in Nat, BelowWord, Zenon
    <2>2. ~(ft < k)
      BY ONLY <1>3, <1>5, <2>1, ~Below(d.fat_sectors, W(d.spc)), Zenon
    <2> QED
      BY ONLY <2>2, k \in Nat, ft \in Nat, SMT
  <1>7. c + 2 <= g /\ g < Two30 /\ n <= bps * ft
    BY ONLY <1>1, <1>2, <1>3, <1>6, Zenon DEF DriveNumbers, AcceptedNumbers
  <1>8. PICK e, w2 : w2 = W(2) /\ e = Plus(d.clusters, w2)
    BY Zenon
  <1>9. e \in Word /\ Val(e) = c + 2
    <2>1. w2 \in Word /\ Val(w2) = 2
      BY ONLY <1>8, WVal, SMT DEF Two32
    <2>2. c + 2 < Two32
      BY ONLY <1>7, c \in Nat, g \in Nat, SMT DEF Two30, Two32
    <2>3. Val(d.clusters) + Val(w2) = c + 2
      BY ONLY <1>5, <2>1, Zenon
    <2> QED
      BY ONLY <1>4, <1>8, <2>1, <2>2, <2>3, PlusNoWrap, Zenon
  <1>10. PICK h \in Nat : h = Nibbles(d.filesys) /\ (c + 2) * h <= 2 * n
    <2>1. b.filesys = "FAT12" \/ b.filesys = "FAT16" \/ b.filesys = "FAT32"
      BY SMT DEF Decided, FileSystems
    <2>2. BytesAre(b.filesys, g, n)
      BY ONLY <1>1, Zenon DEF DriveNumbers, LayoutNumbers
    <2>3. CASE b.filesys = "FAT12"
      <3>1. 3 * g + 1 <= 2 * n
        BY ONLY <1>7, <2>2, <2>3, Zenon DEF BytesAre
      <3>2. (c + 2) * 3 <= 2 * n
        BY ONLY <1>7, <3>1, c \in Nat, g \in Nat, n \in Nat, SMT
      <3>3. Nibbles(d.filesys) = 3
        BY ONLY <1>2, <2>3, SMT DEF Nibbles
      <3> QED
        BY ONLY <3>2, <3>3, SMT
    <2>4. CASE b.filesys = "FAT16"
      <3>1. n = 2 * g
        BY ONLY <1>7, <2>2, <2>4, Zenon DEF BytesAre
      <3>2. (c + 2) * 4 <= 2 * n
        BY ONLY <1>7, <3>1, c \in Nat, g \in Nat, n \in Nat, SMT
      <3>3. Nibbles(d.filesys) = 4
        BY ONLY <1>2, <2>4, SMT DEF Nibbles
      <3> QED
        BY ONLY <3>2, <3>3, SMT
    <2>5. CASE b.filesys = "FAT32"
      <3>1. n = 4 * g
        BY ONLY <1>7, <2>2, <2>5, Zenon DEF BytesAre
      <3>2. (c + 2) * 8 <= 2 * n
        BY ONLY <1>7, <3>1, c \in Nat, g \in Nat, n \in Nat, SMT
      <3>3. Nibbles(d.filesys) = 8
        BY ONLY <1>2, <2>5, SMT DEF Nibbles
      <3> QED
        BY ONLY <3>2, <3>3, SMT
    <2> QED
      BY ONLY <2>1, <2>3, <2>4, <2>5, Zenon
  <1>11. PICK u, v : u = WideTimes(d.fat_sectors, d.bps * 2) /\ v = WideTimes(e, h)
    BY Zenon
  <1>12. Wide(u) /\ Val(u) = ft * (bps * 2)
    <2>1. Wide(d.fat_sectors)
      BY ONLY <1>4, WordIs, SMT
    <2>2. PICK b2 \in Nat : b2 = bps * 2
      BY ONLY bps \in Nat, SMT
    <2>3. Wide(WideTimes(d.fat_sectors, b2)) /\ Val(WideTimes(d.fat_sectors, b2)) = Val(d.fat_sectors) * b2
      BY ONLY <2>1, b2 \in Nat, WideTimesVal, Zenon
    <2> QED
      BY ONLY <1>3, <1>5, <1>11, <2>2, <2>3, Zenon
  <1>13. Wide(v) /\ Val(v) = (c + 2) * h
    <2>1. Wide(e)
      BY ONLY <1>9, WordIs, SMT
    <2> QED
      BY ONLY <1>9, <1>11, <2>1, h \in Nat, WideTimesVal, Zenon
  <1>14. ~(Val(u) < Val(v))
    <2>1. ft * (bps * 2) = 2 * (bps * ft) /\ bps * ft \in Nat /\ (c + 2) * h \in Nat
      BY ONLY ft \in Nat, bps \in Nat, c \in Nat, h \in Nat, SMT
    <2>2. PICK m \in Nat, j \in Nat : m = bps * ft /\ j = (c + 2) * h
      BY ONLY <2>1, Zenon
    <2>3. j <= 2 * n /\ n <= m /\ Val(u) = 2 * m /\ Val(v) = j
      BY ONLY <1>7, <1>10, <1>12, <1>13, <2>1, <2>2, Zenon
    <2> QED
      BY ONLY <2>3, j \in Nat, n \in Nat, m \in Nat, SMT
  <1>15. Below(u, v) <=> Val(u) < Val(v)
    BY ONLY <1>12, <1>13, BelowVal, Zenon
  <1> QED
    BY ONLY <1>8, <1>10, <1>11, <1>14, <1>15, Zenon

(* A word below 2^16 is its low half.                                      *)
LEMMA LowHalf ==
    ASSUME NEW w \in Word, Val(w) < Half
    PROVE  w[2] \in Nat /\ w = <<0, w[2]>> /\ w = W(w[2]) /\ w[2] = Val(w)
  <1>1. PICK x \in Nat, y \in Nat : /\ w[1] = x /\ w[2] = y /\ x < 65536 /\ y < 65536
                                    /\ Val(w) = x * 65536 + y
    BY WordHalves, SMT
  <1>2. w = <<w[1], w[2]>>
    BY WordIs, SMT
  <1>3. x * 65536 + y < 65536
    BY ONLY <1>1, Val(w) < Half, HalfIs, SMT
  <1>4. x = 0
    BY ONLY <1>3, x \in Nat, y \in Nat, SMT
  <1>5. w = <<0, y>> /\ w[2] = y /\ Val(w) = y
    BY ONLY <1>1, <1>2, <1>4, y \in Nat, SMT
  <1>6. W(y) \in Word /\ Val(W(y)) = y
    <2>1. y < Two32
      BY ONLY <1>1, y \in Nat, SMT DEF Two32
    <2> QED
      BY ONLY <2>1, y \in Nat, WVal, Zenon
  <1>7. w = W(y)
    BY ONLY <1>5, <1>6, w \in Word, SameVal, Zenon
  <1> QED
    BY ONLY <1>5, <1>7, y \in Nat, Zenon

LEMMA SmallModHalf ==
    ASSUME NEW n \in Nat, n < Half
    PROVE  n % Half = n
  <1>1. PICK q \in Nat, r \in Nat : /\ q = n \div Half /\ r = n % Half /\ r < 65536
                                    /\ n = 65536 * q + r
    <2>1. n \div Half \in Nat /\ n % Half \in Nat /\ n % Half < 65536 /\ n = 65536 * (n \div Half) + (n % Half)
      BY HalvesOf, SMT
    <2> QED
      BY ONLY <2>1, SMT
  <1>2. n < 65536
    BY ONLY n < Half, HalfIs, SMT
  <1>3. q = 0
    BY ONLY <1>1, <1>2, n \in Nat, q \in Nat, r \in Nat, SMT
  <1> QED
    BY ONLY <1>1, <1>3, n \in Nat, r \in Nat, SMT

(* What a host takes from the boot sector of an expressible drive.         *)
LEMMA BootSectorIs ==
    ASSUME NEW b, Decided(b), ~Refused(b, LayoutOf(b).clusters), ~TooSmall(Installed(b)),
           NEW d, d = Installed(b), Expressible(d)
    PROVE  /\ BootSector(d).bps = d.bps /\ BootSector(d).spc = d.spc
           /\ W(BootSector(d).reserved) = d.fat1_start
           /\ BootSector(d).sectors_per_fat = d.fat_sectors
           /\ CeilOver(W(BootSector(d).root_dir_cnt * 32), d.bps) = d.root_sectors
           /\ d.sectors = IF BootSector(d).sector_cnt # 0 THEN W(BootSector(d).sector_cnt)
                          ELSE BootSector(d).sector_cnt32
  <1>1. PICK s \in Nat, f1 \in Nat, rt \in Nat, g \in Nat, n \in Nat, ft \in Nat, ds \in Nat,
             c \in Nat : DriveNumbers(b, s, f1, rt, g, n, ft, ds, c)
    BY DriveVal, Zenon
  <1>2. /\ d.fat_sectors = LayoutOf(b).fat_sectors /\ d.bps = b.bps /\ d.spc = b.spc
        /\ d.filesys = b.filesys /\ d.fat1_start = fat1_start(b) /\ d.sectors = b.sectors
        /\ d.root_sectors = root_sectors(b) /\ d.root_dir_cnt = b.root_dir_cnt
    BY ONLY d = Installed(b), InstalledIs, Zenon
  <1>3. /\ d.filesys \in FileSystems /\ d.spc \in Nat /\ d.spc <= 512 /\ d.sectors \in Word
        /\ d.root_dir_cnt \in Nat /\ d.bps \in Nat \ {0} /\ d.bps < Two32
    BY <1>2, SMT DEF Decided, Two32
  <1>4. /\ d.fat1_start \in Word /\ Val(d.fat1_start) = f1 /\ f1 <= 32 + d.spc /\ 1 <= f1
        /\ ds = f1 + rt + 2 * ft /\ d.root_sectors \in Word /\ Val(d.root_sectors) = rt
        /\ d.filesys = "FAT32" => rt = 0
    BY ONLY <1>1, <1>2, Zenon DEF DriveNumbers, StartsAre, LayoutNumbers
  <1>5. /\ d.fat_sectors \in Word /\ Val(d.fat_sectors) = ft /\ Val(d.sectors) = s
    BY ONLY <1>1, <1>2, Decided(b), LayoutVal, Zenon DEF DriveNumbers, LayoutNumbers
  <1>6. ds <= s /\ (d.filesys # "FAT32" => ft < Half)
    BY ONLY <1>1, <1>2, Zenon DEF DriveNumbers, AcceptedNumbers
  <1>7. PICK short \in BOOLEAN : short = (d.filesys # "FAT32" /\ Below(d.sectors, W(Half)))
    BY Zenon
  <1>8. /\ BootSector(d).bps = d.bps /\ BootSector(d).spc = d.spc % 256
        /\ BootSector(d).reserved = d.fat1_start[2]
        /\ BootSector(d).root_dir_cnt = IF d.filesys = "FAT32" THEN 0 ELSE d.root_dir_cnt % Half
        /\ BootSector(d).sector_cnt = IF short THEN d.sectors[2] ELSE 0
        /\ BootSector(d).sector_cnt32
               = IF short \/ d.filesys = "FAT12" THEN W(0) ELSE d.sectors
        /\ BootSector(d).sectors_per_fat
               = IF d.filesys = "FAT32" THEN d.fat_sectors ELSE <<0, d.fat_sectors[2]>>
    BY ONLY <1>7, Zenon DEF BootSector
  <1>9. /\ d.spc < 256 /\ (d.filesys = "FAT12" => Below(d.sectors, W(Half)))
        /\ d.filesys # "FAT32" =>
              d.root_dir_cnt < Half /\ d.root_sectors = CeilOver(W(d.root_dir_cnt * 32), d.bps)
    BY ONLY Expressible(d), SMT DEF Expressible
  <1>10. d.spc % 256 = d.spc
    <2>1. ASSUME NEW k \in Nat, k < 256 PROVE k % 256 = k
      BY <2>1, SMT
    <2> QED
      BY ONLY <1>3, <1>9, <2>1, Zenon
  <1>11. W(d.fat1_start[2]) = d.fat1_start
    <2>1. f1 < Half
      BY ONLY <1>3, <1>4, f1 \in Nat, HalfIs, SMT
    <2> QED
      BY ONLY <1>4, <2>1, LowHalf, Zenon
  <1>12. d.filesys # "FAT32" => <<0, d.fat_sectors[2]>> = d.fat_sectors
    BY ONLY <1>5, <1>6, LowHalf, Zenon
  <1>13. CeilOver(W(BootSector(d).root_dir_cnt * 32), d.bps) = d.root_sectors
    <2>1. CASE d.filesys # "FAT32"
      <3>1. d.root_dir_cnt % Half = d.root_dir_cnt
        BY ONLY <1>3, <1>9, <2>1, SmallModHalf, Zenon
      <3> QED
        BY ONLY <1>8, <1>9, <2>1, <3>1, SMT
    <2>2. CASE d.filesys = "FAT32"
      <3>1. BootSector(d).root_dir_cnt * 32 = 0
        BY ONLY <1>8, <2>2, SMT
      <3>2. PICK w, q : w = W(0) /\ q = CeilOver(w, d.bps)
        BY Zenon
      <3>3. w \in Word /\ Val(w) = 0
        BY ONLY <3>2, WVal, SMT DEF Two32
      <3>5. /\ q \in Word /\ Val(q) \in Nat /\ d.bps * Val(q) \in Nat
            /\ d.bps * Val(q) <= Val(w) + d.bps - 1
        BY ONLY <1>3, <3>2, <3>3, CeilOverVal, Zenon
      <3>6. PICK x \in Nat, k \in Nat : x = Val(q) /\ k = d.bps /\ 1 <= k /\ k * x <= k - 1
        BY ONLY <1>3, <3>3, <3>5, SMT
      <3>7. x = 0
        <4>1. SUFFICES ASSUME x # 0 PROVE FALSE
          BY Zenon
        <4>2. 1 <= x
          BY ONLY <4>1, x \in Nat, SMT
        <4>3. x * k \in Nat /\ k <= x * k /\ x * k = k * x
          BY ONLY <4>2, x \in Nat, k \in Nat, ProductAtLeast, SMT
        <4> QED
          BY ONLY <3>6, <4>3, k \in Nat, SMT
      <3>8. q = d.root_sectors
        BY ONLY <1>4, <2>2, <3>5, <3>6, <3>7, SameVal, Zenon
      <3> QED
        BY ONLY <3>1, <3>2, <3>8, Zenon
    <2> QED
      BY ONLY <2>1, <2>2, Zenon
  <1>14. d.sectors = IF BootSector(d).sector_cnt # 0 THEN W(BootSector(d).sector_cnt)
                     ELSE BootSector(d).sector_cnt32
    <2>1. CASE short
      <3>1. s < Half
        <4>1. Below(d.sectors, W(Half)) <=> Val(d.sectors) < Half
          BY ONLY <1>3, HalfNat, BelowWord, Zenon
        <4> QED
          BY ONLY <1>5, <1>7, <2>1, <4>1, Zenon
      <3>2. d.sectors = W(d.sectors[2]) /\ d.sectors[2] = s
        BY ONLY <1>3, <1>5, <3>1, LowHalf, Zenon
      <3>3. s # 0
        BY ONLY <1>4, <1>6, s \in Nat, f1 \in Nat, rt \in Nat, ft \in Nat, ds \in Nat, SMT
      <3> QED
        BY ONLY <1>8, <2>1, <3>2, <3>3, Zenon
    <2>2. CASE ~short
      <3>1. d.filesys # "FAT12"
        BY ONLY <1>7, <1>9, <2>2, Zenon
      <3> QED
        BY ONLY <1>8, <2>2, <3>1, Zenon
    <2> QED
      BY ONLY <2>1, <2>2, Zenon
  <1> QED
    BY ONLY <1>8, <1>10, <1>11, <1>12, <1>13, <1>14, Zenon

(* The host finds the drive that is served.                                *)
LEMMA HostFinds ==
    ASSUME NEW b, Decided(b), ~Refused(b, LayoutOf(b).clusters), ~TooSmall(Installed(b)),
           NEW d, d = Installed(b), Expressible(d)
    PROVE  HostView(BootSector(d)) =
               [data_start |-> d.data_start, clusters |-> d.clusters, filesys |-> d.filesys]
  <1>1. PICK s \in Nat, f1 \in Nat, rt \in Nat, g \in Nat, n \in Nat, ft \in Nat, ds \in Nat,
             c \in Nat : DriveNumbers(b, s, f1, rt, g, n, ft, ds, c)
    BY DriveVal, Zenon
  <1>2. /\ d.fat_sectors = LayoutOf(b).fat_sectors /\ d.spc = b.spc /\ d.filesys = b.filesys
        /\ d.fat1_start = fat1_start(b) /\ d.sectors = b.sectors
        /\ d.root_sectors = root_sectors(b) /\ d.data_start = LayoutOf(b).data_start
        /\ d.clusters = LayoutOf(b).clusters
    BY ONLY d = Installed(b), InstalledIs, Zenon
  <1>3. PICK boot : boot = BootSector(d)
    BY Zenon
  <1>4. /\ boot.bps = d.bps /\ boot.spc = d.spc /\ W(boot.reserved) = d.fat1_start
        /\ boot.sectors_per_fat = d.fat_sectors
        /\ CeilOver(W(boot.root_dir_cnt * 32), d.bps) = d.root_sectors
        /\ d.sectors = IF boot.sector_cnt # 0 THEN W(boot.sector_cnt) ELSE boot.sector_cnt32
    BY ONLY <1>3, Decided(b), ~Refused(b, LayoutOf(b).clusters), ~TooSmall(Installed(b)),
            d = Installed(b), Expressible(d), BootSectorIs, Zenon
  <1>5. PICK t, u, v : t = Times(d.fat_sectors, 2) /\ u = Plus(d.fat1_start, t) /\ v = Plus(u, d.root_sectors)
    BY Zenon
  <1>6. /\ d.fat_sectors \in Word /\ Val(d.fat_sectors) = ft /\ ft <= MaxTable + 511
        /\ d.data_start \in Word /\ Val(d.data_start) = ds /\ d.clusters \in Word
        /\ Val(d.clusters) = c
    <2>1. /\ Val(d.fat_sectors) = ft /\ ft <= MaxTable + 511
          /\ Val(d.data_start) = ds /\ Val(d.clusters) = c
      BY ONLY <1>1, <1>2, SMT DEF DriveNumbers, LayoutNumbers
    <2>2. d.fat_sectors \in Word /\ d.data_start \in Word /\ d.clusters \in Word
      BY ONLY <1>2, Decided(b), LayoutVal, Zenon
    <2> QED
      BY ONLY <2>1, <2>2, SMT
  <1>7. /\ d.fat1_start \in Word /\ Val(d.fat1_start) = f1
        /\ d.root_sectors \in Word /\ Val(d.root_sectors) = rt /\ ds = f1 + rt + 2 * ft /\ ds < Two30
    BY ONLY <1>1, <1>2, Zenon DEF DriveNumbers, StartsAre
  <1>8. t \in Word /\ Val(t) = 2 * ft
    <2>1. t \in Word /\ (Val(d.fat_sectors) * 2 < Two32 => Val(t) = Val(d.fat_sectors) * 2)
      <3>1. 2 \in Nat
        BY SMT
      <3> QED
        BY ONLY <1>5, <1>6, <3>1, TimesVal, Zenon
    <2>2. ft * 2 < Two32 /\ ft * 2 = 2 * ft
      BY ONLY <1>6, ft \in Nat, SMT DEF Two32, MaxTable
    <2> QED
      BY ONLY <1>6, <2>1, <2>2, Zenon
  <1>9. u \in Word /\ Val(u) = f1 + 2 * ft
    <2>1. f1 + 2 * ft < Two32
      BY ONLY <1>7, f1 \in Nat, rt \in Nat, ft \in Nat, ds \in Nat, SMT DEF Two30, Two32
    <2>2. Val(d.fat1_start) + Val(t) = f1 + 2 * ft
      BY ONLY <1>7, <1>8, Zenon
    <2> QED
      BY ONLY <1>5, <1>7, <1>8, <2>1, <2>2, PlusNoWrap, Zenon
  <1>10. v \in Word /\ Val(v) = ds
    <2>1. f1 + 2 * ft + rt = ds /\ ds < Two32
      BY ONLY <1>7, f1 \in Nat, rt \in Nat, ft \in Nat, ds \in Nat, SMT DEF Two30, Two32
    <2>2. Val(u) + Val(d.root_sectors) = ds
      BY ONLY <1>7, <1>9, <2>1, Zenon
    <2> QED
      BY ONLY <1>5, <1>7, <1>9, <2>1, <2>2, PlusNoWrap, Zenon
  <1>11. v = d.data_start
    BY ONLY <1>6, <1>10, SameVal, Zenon
  <1>12. Over(Minus(d.sectors, v), d.spc) = d.clusters
    <2>1. LayoutOf(b).clusters = ClustersFrom(b, LayoutOf(b).data_start)
      BY ONLY Decided(b), LayoutVal, Zenon
    <2> QED
      BY ONLY <1>2, <1>11, <2>1, Zenon DEF ClustersFrom
  <1>13. (CASE Below(d.clusters, W(4085)) -> "FAT12"
            [] ~Below(d.clusters, W(65525)) -> "FAT32"
            [] OTHER -> "FAT16") = d.filesys
    <2>1. CountIs(d.filesys, c)
      BY ONLY <1>1, <1>2, Zenon DEF DriveNumbers
    <2>2. (Below(d.clusters, W(4085)) <=> c < 4085) /\ (Below(d.clusters, W(65525)) <=> c < 65525)
      BY ONLY <1>6, BelowWord, SMT
    <2>3. d.filesys = "FAT12" \/ d.filesys = "FAT16" \/ d.filesys = "FAT32"
      BY <1>2, SMT DEF Decided, FileSystems
    <2>4. /\ d.filesys = "FAT12" => c <= 4084
          /\ d.filesys = "FAT16" => 4085 <= c /\ c <= 65524
          /\ d.filesys = "FAT32" => 65525 <= c
      BY ONLY <2>1, SMT DEF CountIs
    <2> QED
      BY ONLY <2>2, <2>3, <2>4, c \in Nat, SMT
  <1>14. HostView(boot) = [data_start |-> v, clusters |-> Over(Minus(d.sectors, v), d.spc),
                           filesys |-> CASE Below(Over(Minus(d.sectors, v), d.spc), W(4085)) -> "FAT12"
                                         [] ~Below(Over(Minus(d.sectors, v), d.spc), W(65525)) -> "FAT32"
                                         [] OTHER -> "FAT16"]
    BY ONLY <1>4, <1>5, SMT DEF HostView
  <1> QED
    BY ONLY <1>3, <1>11, <1>12, <1>13, <1>14, SMT

-----------------------------------------------------------------------------
(* What createdrive_ext() decides, from a request.                         *)
AllSpc == {1, 2, 4, 8, 16, 32, 64, 128, 256, 512}

Base == [filesys : FileSystems, bps : ValidBps, spc : AllSpc, sectors : Word,
         flags : Flags, root_dir_cnt : 0 .. MaxRootCount]

(* A member of Base is all that its fields are.                            *)
LEMMA BaseIs ==
    ASSUME NEW b \in Base
    PROVE  /\ b.filesys \in FileSystems /\ b.bps \in ValidBps /\ b.spc \in AllSpc
           /\ b.sectors \in Word /\ b.flags \in Flags
           /\ b.root_dir_cnt \in 0 .. MaxRootCount
           /\ b = [filesys |-> b.filesys, bps |-> b.bps, spc |-> b.spc, sectors |-> b.sectors,
                   flags |-> b.flags, root_dir_cnt |-> b.root_dir_cnt]
  BY SMT DEF Base

LEMMA InZeroTo ==
    ASSUME NEW n, NEW m \in Nat
    PROVE  n \in 0 .. m <=> n \in Nat /\ n <= m
  BY SMT

LEMMA BaseDecided ==
    ASSUME NEW b \in Base
    PROVE  Decided(b)
  <1>1. b.bps \in Nat /\ 512 <= b.bps /\ b.bps <= 4096
    <2>1. b.bps \in ValidBps
      BY ONLY b \in Base, BaseIs, Zenon
    <2> QED
      BY ONLY <2>1, SMT DEF ValidBps
  <1>2. b.spc \in Nat /\ 1 <= b.spc /\ b.spc <= 512
    <2>1. b.spc \in AllSpc
      BY ONLY b \in Base, BaseIs, Zenon
    <2> QED
      BY ONLY <2>1, SMT DEF AllSpc
  <1>3. b.root_dir_cnt \in Nat /\ b.root_dir_cnt <= MaxRootCount
    BY ONLY b \in Base, BaseIs, MaxRootCountNat, InZeroTo, SMT
  <1>4. b.filesys \in FileSystems /\ b.sectors \in Word /\ b.flags \in Flags
    BY ONLY b \in Base, BaseIs, Zenon
  <1> QED
    BY ONLY <1>1, <1>2, <1>3, <1>4, SMT DEF Decided

LEMMA WidePlusVal ==
    ASSUME NEW a, Wide(a), NEW n \in Nat
    PROVE  Wide(WidePlus(a, n)) /\ Val(WidePlus(a, n)) = Val(a) + n
  <1>1. PICK x \in Nat, y \in Nat : a[1] = x /\ a[2] = y /\ y < 65536
    BY SMT DEF Wide
  <1>2. PICK m \in Nat : m = y + n
    BY SMT
  <1>3. PICK c \in Nat, l \in Nat : c = m \div Half /\ l = m % Half /\ l < 65536 /\ m = 65536 * c + l
    <2>1. m \div Half \in Nat /\ m % Half \in Nat /\ m % Half < 65536 /\ m = 65536 * (m \div Half) + (m % Half)
      BY HalvesOf, SMT
    <2> QED
      BY ONLY <2>1, SMT
  <1>4. WidePlus(a, n) = <<x + c, l>>
    BY ONLY <1>1, <1>2, <1>3, SMT DEF WidePlus
  <1> QED
    BY ONLY <1>1, <1>2, <1>3, <1>4, x \in Nat, y \in Nat, n \in Nat, m \in Nat, c \in Nat, l \in Nat,
            SMT DEF Wide, Val

(* A sector has this many units of 512 bytes.                              *)
LEMMA UnitIs ==
    ASSUME NEW bps \in ValidBps
    PROVE  bps \div 512 \in {1, 2, 4, 8}
  <1>1. 512 \div 512 = 1 /\ 1024 \div 512 = 2 /\ 2048 \div 512 = 4 /\ 4096 \div 512 = 8
    BY SMT
  <1> QED
    BY <1>1, SMT DEF ValidBps

(* A set of rows that has the last one has a first one.                    *)
LEMMA FirstRow ==
    ASSUME NEW n \in {2, 5, 9}, NEW F, F \subseteq 1 .. n, n \in F
    PROVE  \E i \in F : \A j \in F : i <= j
  <1>1. \A j \in F : j \in 1 .. 9
    BY SMT
  <1>2. ASSUME NEW m \in 0 .. 8, \A j \in F : m < j, \A i \in F : \E j \in F : ~(i <= j)
        PROVE  \A j \in F : m + 1 < j
    <2>1. m + 1 \notin F
      BY <1>1, <1>2, SMT
    <2> QED
      BY <1>1, <1>2, <2>1, SMT
  <1>3. SUFFICES ASSUME \A i \in F : \E j \in F : ~(i <= j) PROVE FALSE
    BY Zenon
  <1>4. \A j \in F : 0 < j
    BY <1>1, SMT
  <1>5. \A j \in F : 1 < j
    BY <1>2, <1>3, <1>4, SMT
  <1>6. \A j \in F : 2 < j
    BY <1>2, <1>3, <1>5, SMT
  <1>7. \A j \in F : 3 < j
    BY <1>2, <1>3, <1>6, SMT
  <1>8. \A j \in F : 4 < j
    BY <1>2, <1>3, <1>7, SMT
  <1>9. \A j \in F : 5 < j
    BY <1>2, <1>3, <1>8, SMT
  <1>10. \A j \in F : 6 < j
    BY <1>2, <1>3, <1>9, SMT
  <1>11. \A j \in F : 7 < j
    BY <1>2, <1>3, <1>10, SMT
  <1>12. \A j \in F : 8 < j
    BY <1>2, <1>3, <1>11, SMT
  <1>13. \A j \in F : 9 < j
    BY <1>2, <1>3, <1>12, SMT
  <1> QED
    BY <1>1, <1>13, SMT

(* The tables of cluster sizes have a row that fits, and hold powers of    *)
(* two.                                                                    *)
LEMMA Ranges ==
    ASSUME NEW fs \in FileSystems
    PROVE  /\ Len(cluster_ranges(fs)) \in {2, 5, 9}
           /\ DOMAIN cluster_ranges(fs) = 1 .. Len(cluster_ranges(fs))
           /\ \A i \in 1 .. Len(cluster_ranges(fs)) : cluster_ranges(fs)[i][2] \in AllSpc
  <1>1. ASSUME NEW a1, NEW a2
        PROVE  LET t == << <<a1, 16>>, <<a2, 8>> >>
               IN  Len(t) = 2 /\ DOMAIN t = 1 .. 2 /\ \A i \in 1 .. 2 : t[i][2] \in AllSpc
    BY SMT DEF AllSpc
  <1>2. ASSUME NEW a1, NEW a2, NEW a3, NEW a4, NEW a5, NEW a6, NEW a7, NEW a8, NEW a9
        PROVE  LET t == << <<a1, 8>>, <<a2, 4>>, <<a3, 8>>, <<a4, 16>>, <<a5, 32>>, <<a6, 64>>,
                           <<a7, 128>>, <<a8, 256>>, <<a9, 512>> >>
               IN  Len(t) = 9 /\ DOMAIN t = 1 .. 9 /\ \A i \in 1 .. 9 : t[i][2] \in AllSpc
    BY SMT DEF AllSpc
  <1>3. ASSUME NEW a1, NEW a2, NEW a3, NEW a4, NEW a5
        PROVE  LET t == << <<a1, 1>>, <<a2, 8>>, <<a3, 16>>, <<a4, 32>>, <<a5, 64>> >>
               IN  Len(t) = 5 /\ DOMAIN t = 1 .. 5 /\ \A i \in 1 .. 5 : t[i][2] \in AllSpc
    BY SMT DEF AllSpc
  <1>4. CASE fs = "FAT12"
    <2>1. cluster_ranges(fs) = << <<MiB(15), 16>>, <<NULL, 8>> >>
      BY <1>4, SMT DEF cluster_ranges
    <2>2. /\ Len(cluster_ranges(fs)) = 2 /\ DOMAIN cluster_ranges(fs) = 1 .. 2
          /\ \A i \in 1 .. 2 : cluster_ranges(fs)[i][2] \in AllSpc
      BY ONLY <1>1, <2>1, SMT
    <2> QED
      BY ONLY <2>2, SMT
  <1>5. CASE fs = "FAT16"
    <2>1. cluster_ranges(fs) =
              << <<MiB(16), 8>>, <<MiB(128), 4>>, <<MiB(256), 8>>, <<MiB(512), 16>>,
                 <<GiB(1), 32>>, <<GiB(2), 64>>, <<GiB(4), 128>>, <<GiB(8), 256>>,
                 <<NULL, 512>> >>
      BY <1>5, SMT DEF cluster_ranges
    <2>2. /\ Len(cluster_ranges(fs)) = 9 /\ DOMAIN cluster_ranges(fs) = 1 .. 9
          /\ \A i \in 1 .. 9 : cluster_ranges(fs)[i][2] \in AllSpc
      BY ONLY <1>2, <2>1, SMT
    <2> QED
      BY ONLY <2>2, SMT
  <1>6. CASE fs = "FAT32"
    <2>1. cluster_ranges(fs) =
              << <<MiB(260), 1>>, <<GiB(8), 8>>, <<GiB(16), 16>>, <<GiB(32), 32>>,
                 <<NULL, 64>> >>
      BY <1>6, SMT DEF cluster_ranges
    <2>2. /\ Len(cluster_ranges(fs)) = 5 /\ DOMAIN cluster_ranges(fs) = 1 .. 5
          /\ \A i \in 1 .. 5 : cluster_ranges(fs)[i][2] \in AllSpc
      BY ONLY <1>3, <2>1, SMT
    <2> QED
      BY ONLY <2>2, SMT
  <1> QED
    BY <1>4, <1>5, <1>6, SMT DEF FileSystems

(* find_spc() finds a power of two.                                        *)
LEMMA FindSpc ==
    ASSUME NEW fs \in FileSystems, NEW size, NEW bps \in ValidBps
    PROVE  find_spc(cluster_ranges(fs), size, bps) \in AllSpc
  <1>1. PICK ranges, last : ranges = cluster_ranges(fs) /\ last = Len(ranges)
    BY Zenon
  <1>2. /\ last \in {2, 5, 9} /\ DOMAIN ranges = 1 .. last
        /\ \A i \in 1 .. last : ranges[i][2] \in AllSpc
    BY ONLY <1>1, fs \in FileSystems, Ranges, Zenon
  <1>3. PICK fits : fits = {i \in DOMAIN ranges : i = Len(ranges) \/ Below(size, ranges[i][1])}
    BY Zenon
  <1>4. fits \subseteq 1 .. last /\ last \in fits
    BY ONLY <1>1, <1>2, <1>3, SMT
  <1>5. PICK row : row = CHOOSE i \in fits : \A j \in fits : i <= j
    BY Zenon
  <1>6. row \in fits
    <2>1. \E i \in fits : \A j \in fits : i <= j
      BY ONLY <1>2, <1>4, FirstRow, Zenon
    <2> QED
      BY ONLY <1>5, <2>1, Zenon
  <1>7. PICK k \in AllSpc : k = ranges[row][2]
    BY ONLY <1>2, <1>4, <1>6, SMT
  <1>8. find_spc(cluster_ranges(fs), size, bps) = IF k * 512 <= bps THEN 1 ELSE (k * 512) \div bps
    BY ONLY <1>1, <1>3, <1>5, <1>7, SMT DEF find_spc
  <1>9. 1 \in AllSpc
    BY SMT DEF AllSpc
  <1>10. (k * 512) \div 512 \in AllSpc
    BY SMT DEF AllSpc
  <1>11. ~(k * 512 <= 1024) => (k * 512) \div 1024 \in AllSpc
    BY SMT DEF AllSpc
  <1>12. ~(k * 512 <= 2048) => (k * 512) \div 2048 \in AllSpc
    BY SMT DEF AllSpc
  <1>13. ~(k * 512 <= 4096) => (k * 512) \div 4096 \in AllSpc
    BY SMT DEF AllSpc
  <1>14. bps = 512 \/ bps = 1024 \/ bps = 2048 \/ bps = 4096
    BY SMT DEF ValidBps
  <1> QED
    BY ONLY <1>8, <1>9, <1>10, <1>11, <1>12, <1>13, <1>14, SMT

(* The file systems that are chosen.                                       *)
LEMMA Chosen ==
    ASSUME NEW size, NEW n, NEW fs
    PROVE  /\ AutoBySize(size, fs) \in FileSystems \cup {EINVAL}
           /\ AutoByClusters(n, fs) \in FileSystems
  <1>1. AutoBySize(size, fs) \in FileSystems \cup {EINVAL}
    BY Zenon DEF AutoBySize, FileSystems
  <1>2. AutoByClusters(n, fs) \in FileSystems
    <2>1. PICK c1, c2 : c1 = W(4085) /\ c2 = W(65525)
      BY SMT
    <2>2. AutoByClusters(n, fs) =
              CASE Below(n, c1) -> "FAT12"
                [] ~Below(n, c1) /\ (Below(n, c2) \/ fs = "AUTO_NO32") -> "FAT16"
                [] OTHER -> "FAT32"
      BY ONLY <2>1, SMT DEF AutoByClusters
    <2> QED
      BY ONLY <2>2, Zenon DEF FileSystems
  <1> QED
    BY ONLY <1>1, <1>2, Zenon

(* A request that the code can be given.                                   *)
Request(size, fs, flags, ext) ==
    /\ Wide(size) /\ fs \in FileSystems \cup {"AUTO", "AUTO_NO32"} /\ flags \in Flags
    /\ ext.root = AUTO \/ ext.root \in 0 .. MaxRootCount

(* A geometry that createdrive_ext() accepts is that of a member of Base.  *)
LEMMA Created ==
    ASSUME NEW size, NEW fs, NEW flags, NEW ext, Request(size, fs, flags, ext),
           createdrive_ext(size, fs, flags, ext) # EINVAL
    PROVE  \E b \in Base : /\ ~Refused(b, LayoutOf(b).clusters)
                           /\ createdrive_ext(size, fs, flags, ext) = Installed(b)
  <1>0. /\ Wide(size) /\ fs \in FileSystems \cup {"AUTO", "AUTO_NO32"} /\ flags \in Flags
        /\ ext.root = AUTO \/ ext.root \in 0 .. MaxRootCount
    BY Zenon DEF Request
  <1>1. PICK bps, unit, root :
            /\ bps = IF ext.bps = AUTO THEN 512 ELSE ext.bps
            /\ unit = bps \div 512
            /\ root = IF ext.root = AUTO THEN 512 ELSE ext.root
    BY SMT
  <1>2. PICK sectors, wide :
            sectors = Over(WidePlus(size, unit - 1), unit) /\ wide = WideTimes(sectors, unit)
    BY Zenon
  <1>3. PICK filesys :
            filesys = IF ~IsAuto(fs) THEN fs
                      ELSE IF ext.spc = AUTO THEN AutoBySize(wide, fs)
                      ELSE AutoByClusters(Truncated(Over(wide, ext.spc * unit)), fs)
    BY Zenon
  <1>4. PICK spc : spc = IF ext.spc = AUTO THEN find_spc(cluster_ranges(filesys), wide, bps)
                         ELSE ext.spc
    BY Zenon
  <1>5. PICK b : b = [filesys |-> filesys, bps |-> bps, spc |-> spc,
                      sectors |-> Truncated(sectors), flags |-> flags, root_dir_cnt |-> root]
    BY Zenon
  <1>6. createdrive_ext(size, fs, flags, ext)
            = IF \/ bps \notin ValidBps
                 \/ ext.spc # AUTO /\ ext.spc \notin ValidSpc
                 \/ filesys = EINVAL
                 \/ Refused(b, LayoutOf(b).clusters)
              THEN EINVAL ELSE Installed(b)
    BY ONLY <1>1, <1>2, <1>3, <1>4, <1>5, SMT DEF createdrive_ext
  <1>7. /\ bps \in ValidBps /\ (ext.spc # AUTO => ext.spc \in ValidSpc) /\ filesys # EINVAL
        /\ ~Refused(b, LayoutOf(b).clusters)
        /\ createdrive_ext(size, fs, flags, ext) = Installed(b)
    BY ONLY <1>6, createdrive_ext(size, fs, flags, ext) # EINVAL, Zenon
  <1>8. filesys \in FileSystems
    <2>1. AutoBySize(wide, fs) \in FileSystems \cup {EINVAL}
      BY ONLY Chosen, Zenon
    <2>2. AutoByClusters(Truncated(Over(wide, ext.spc * unit)), fs) \in FileSystems
      BY ONLY Chosen, Zenon
    <2>3. ~IsAuto(fs) => fs \in FileSystems
      BY <1>0, Zenon DEF IsAuto
    <2> QED
      BY ONLY <1>3, <1>7, <2>1, <2>2, <2>3, Zenon
  <1>9. spc \in AllSpc
    <2>1. find_spc(cluster_ranges(filesys), wide, bps) \in AllSpc
      BY ONLY <1>7, <1>8, FindSpc, Zenon
    <2>2. \A k \in ValidSpc : k \in AllSpc
      BY SMT DEF ValidSpc, AllSpc
    <2> QED
      BY ONLY <1>4, <1>7, <2>1, <2>2, Zenon
  <1>10. Truncated(sectors) \in Word
    <2>1. unit \in Nat \ {0}
      BY ONLY <1>1, <1>7, UnitIs, SMT
    <2>2. PICK u \in Nat : u = unit - 1
      BY ONLY <2>1, SMT
    <2>3. PICK p : p = WidePlus(size, u)
      BY Zenon
    <2>4. Wide(p)
      BY ONLY <1>0, <2>3, u \in Nat, WidePlusVal, Zenon
    <2>5. sectors = Over(p, unit)
      BY ONLY <1>2, <2>2, <2>3, Zenon
    <2>6. Wide(Over(p, unit))
      BY ONLY <2>1, <2>4, OverVal, SMT
    <2>7. Wide(sectors)
      BY ONLY <2>5, <2>6, Zenon
    <2> QED
      BY ONLY <2>7, TruncatedVal, SMT
  <1>11. root \in 0 .. MaxRootCount
    <2>1. 512 \in 0 .. MaxRootCount
      BY ONLY MaxRootCountNat, InZeroTo, SMT
    <2> QED
      BY ONLY <1>0, <1>1, <2>1, Zenon
  <1>12. b \in Base
    BY ONLY <1>5, <1>7, <1>8, <1>9, <1>10, <1>11, <1>0, SMT DEF Base
  <1> QED
    BY ONLY <1>7, <1>12, Zenon

(* The same request gives the same drive.                                  *)
LEMMA CreatedAgain ==
    ASSUME NEW b \in Base, ~Refused(b, LayoutOf(b).clusters), b.spc <= 128,
           NEW d, d = Installed(b)
    PROVE  createdrive_ext(WideTimes(d.sectors, d.bps \div 512), d.filesys, d.flags,
                           SameExt(d, {})) = d
  <1>1. /\ d.filesys = b.filesys /\ d.bps = b.bps /\ d.spc = b.spc /\ d.sectors = b.sectors
        /\ d.root_dir_cnt = b.root_dir_cnt /\ d.flags = b.flags
    BY ONLY d = Installed(b), InstalledIs, Zenon
  <1>2. PICK ext : ext = SameExt(d, {})
    BY Zenon
  <1>3. ext.bps = b.bps /\ ext.spc = b.spc /\ ext.root = b.root_dir_cnt
    BY ONLY <1>1, <1>2, SMT DEF SameExt
  <1>4. /\ b.filesys \in FileSystems /\ b.bps \in ValidBps /\ b.spc \in AllSpc
        /\ b.sectors \in Word /\ b.root_dir_cnt \in 0 .. MaxRootCount
    BY ONLY b \in Base, BaseIs, Zenon
  <1>5. b.bps \in Nat /\ b.spc \in Nat /\ b.root_dir_cnt \in Nat
    BY ONLY b \in Base, BaseDecided, SMT DEF Decided
  <1>6. ext.bps # AUTO /\ ext.spc # AUTO /\ ext.root # AUTO /\ b.filesys # EINVAL
    <2>1. AUTO \notin Nat /\ EINVAL \notin FileSystems
      BY GeometryAssumption, SMT DEF GeometryAssumption
    <2> QED
      BY ONLY <1>3, <1>4, <1>5, <2>1, Zenon
  <1>7. b.spc \in ValidSpc
    BY ONLY <1>4, b.spc <= 128, SMT DEF ValidSpc, AllSpc
  <1>8. PICK unit \in Nat \ {0} : unit = b.bps \div 512
    BY ONLY <1>4, UnitIs, SMT
  <1>9. PICK size : size = WideTimes(b.sectors, unit)
    BY Zenon
  <1>10. PICK x \in Nat : x = Val(b.sectors) /\ Wide(b.sectors) /\ x < Two32
    BY ONLY <1>4, WordIs, SMT
  <1>11. Wide(size) /\ Val(size) = x * unit
    BY ONLY <1>9, <1>10, unit \in Nat \ {0}, WideTimesVal, SMT
  <1>12. PICK u \in Nat : u = unit - 1
    BY ONLY unit \in Nat \ {0}, SMT
  <1>13. PICK p, o : p = WidePlus(size, u) /\ o = Over(p, unit)
    BY Zenon
  <1>14. Wide(p) /\ Val(p) = x * unit + u
    <2>1. Wide(p) /\ Val(p) = Val(size) + u
      BY ONLY <1>11, <1>13, u \in Nat, WidePlusVal, Zenon
    <2> QED
      BY ONLY <1>11, <2>1, Zenon
  <1>15. /\ Wide(o) /\ Remainder(p, unit) \in Nat /\ Remainder(p, unit) < unit
         /\ Val(o) \in Nat /\ Val(p) = unit * Val(o) + Remainder(p, unit)
    BY ONLY <1>13, <1>14, unit \in Nat \ {0}, OverVal, SMT
  <1>16. PICK q \in Nat, r \in Nat : q = Val(o) /\ r = Remainder(p, unit) /\ r < unit
    BY ONLY <1>15, Zenon
  <1>17. unit * x + u = unit * q + r
    <2>1. x * unit = unit * x
      BY ONLY x \in Nat, unit \in Nat \ {0}, SMT
    <2> QED
      BY ONLY <1>14, <1>15, <1>16, <2>1, Zenon
  <1>18. q = x
    <2>1. PICK ux \in Nat, uq \in Nat : ux = unit * x /\ uq = unit * q
      BY ONLY x \in Nat, q \in Nat, unit \in Nat \ {0}, SMT
    <2>2. ux + u = uq + r
      BY ONLY <1>17, <2>1, Zenon
    <2>3. ux + 0 <= uq + r /\ uq + 0 <= ux + u /\ u < unit /\ 1 <= unit /\ unit \in Nat /\ 0 \in Nat
      BY ONLY <1>12, <2>2, ux \in Nat, uq \in Nat, u \in Nat, r \in Nat, unit \in Nat \ {0}, SMT
    <2>4. unit * x + 0 <= unit * q + r /\ unit * q + 0 <= unit * x + u
      BY ONLY <2>1, <2>3, Zenon
    <2>5. x <= q
      BY ONLY <1>16, <2>3, <2>4, x \in Nat, q \in Nat, r \in Nat, QuotientsCompare, Zenon
    <2>6. q <= x
      BY ONLY <2>3, <2>4, x \in Nat, q \in Nat, u \in Nat, QuotientsCompare, Zenon
    <2> QED
      BY ONLY <2>5, <2>6, x \in Nat, q \in Nat, SMT
  <1>19. Truncated(o) = b.sectors
    <2>1. Truncated(o) \in Word /\ Val(Truncated(o)) = Val(o)
      <3>1. Val(o) < Two32
        BY ONLY <1>10, <1>16, <1>18, Zenon
      <3> QED
        BY ONLY <1>15, <3>1, TruncatedVal, Zenon
    <2> QED
      BY ONLY <1>4, <1>10, <1>16, <1>18, <2>1, SameVal, Zenon
  <1>20. ~IsAuto(b.filesys)
    BY ONLY <1>4, SMT DEF IsAuto, FileSystems
  <1>21. createdrive_ext(size, b.filesys, b.flags, ext)
            = IF \/ b.bps \notin ValidBps
                 \/ b.spc # AUTO /\ b.spc \notin ValidSpc
                 \/ b.filesys = EINVAL
                 \/ Refused([filesys |-> b.filesys, bps |-> b.bps, spc |-> b.spc,
                             sectors |-> Truncated(o), flags |-> b.flags,
                             root_dir_cnt |-> b.root_dir_cnt],
                            LayoutOf([filesys |-> b.filesys, bps |-> b.bps, spc |-> b.spc,
                             sectors |-> Truncated(o), flags |-> b.flags,
                             root_dir_cnt |-> b.root_dir_cnt]).clusters)
              THEN EINVAL
              ELSE Installed([filesys |-> b.filesys, bps |-> b.bps, spc |-> b.spc,
                              sectors |-> Truncated(o), flags |-> b.flags,
                              root_dir_cnt |-> b.root_dir_cnt])
    BY ONLY <1>3, <1>6, <1>8, <1>12, <1>13, <1>20, SMT DEF createdrive_ext
  <1>22. [filesys |-> b.filesys, bps |-> b.bps, spc |-> b.spc, sectors |-> Truncated(o),
          flags |-> b.flags, root_dir_cnt |-> b.root_dir_cnt] = b
    BY ONLY <1>19, b \in Base, BaseIs, Zenon
  <1>23. createdrive_ext(size, b.filesys, b.flags, ext) = Installed(b)
    BY ONLY <1>4, <1>6, <1>7, <1>21, <1>22, ~Refused(b, LayoutOf(b).clusters), Zenon
  <1>24. WideTimes(d.sectors, d.bps \div 512) = size
    BY ONLY <1>1, <1>8, <1>9, SMT
  <1>25. createdrive_ext(WideTimes(d.sectors, d.bps \div 512), d.filesys, d.flags, ext)
             = createdrive_ext(size, b.filesys, b.flags, ext)
    BY ONLY <1>1, <1>24, Zenon
  <1> QED
    BY ONLY <1>2, <1>23, <1>25, d = Installed(b), SMT

-----------------------------------------------------------------------------
(* The inductive invariant: a drive is the installation of what was        *)
(* decided for it, and the tests accepted it.  No property below is        *)
(* inductive alone: a recreation takes its cluster size, its sector size   *)
(* and its root directory from the fields of the drive.                    *)
GeometryInv ==
    /\ answer \in {"none", "ok", "EINVAL", "ENOMEM"}
    /\ drv # NULL => \E b \in Base : ~Refused(b, LayoutOf(b).clusters) /\ drv = Installed(b)

LEMMA Requests ==
    /\ \A size \in Sizes : Wide(size)
    /\ FsFlags \subseteq FileSystems \cup {"AUTO", "AUTO_NO32"}
    /\ FlagSets \subseteq Flags
    /\ \A ext \in Ext \cup {driveext_auto} : ext.root = AUTO \/ ext.root \in 0 .. MaxRootCount
  <1>1. ASSUME NEW size \in Sizes PROVE Wide(size)
    <2>1. size[1] \in Nat /\ size[2] \in 0 .. Half - 1
      BY GeometryAssumption, Zenon
    <2>2. size[2] \in Nat /\ size[2] < 65536
      BY ONLY <2>1, BelowHalf, SMT
    <2> QED
      BY ONLY <2>1, <2>2, SMT DEF Wide
  <1>2. /\ FsFlags \subseteq FileSystems \cup {"AUTO", "AUTO_NO32"}
        /\ FlagSets \subseteq Flags
        /\ \A n \in RootCounts \ {AUTO} : n \in 0 .. MaxRootCount
    BY GeometryAssumption, Zenon
  <1>3. ASSUME NEW ext \in Ext PROVE ext.root \in RootCounts
    BY <1>3, SMT DEF Ext
  <1>4. driveext_auto.root = AUTO
    BY SMT DEF driveext_auto
  <1> QED
    BY ONLY <1>1, <1>2, <1>3, <1>4, Zenon

(* A call preserves the invariant.                                         *)
LEMMA ResultKeeps ==
    ASSUME GeometryInv, NEW size, NEW fs, NEW flags, NEW ext, Request(size, fs, flags, ext),
           Result(createdrive_ext(size, fs, flags, ext))
    PROVE  GeometryInv'
  <1>1. PICK g : g = createdrive_ext(size, fs, flags, ext)
    BY Zenon
  <1>2. CASE g = EINVAL
    BY <1>1, <1>2, Zenon DEF Result, GeometryInv
  <1>3. CASE g # EINVAL
    <2>1. \E b \in Base : ~Refused(b, LayoutOf(b).clusters) /\ g = Installed(b)
      <3>1. createdrive_ext(size, fs, flags, ext) # EINVAL
        BY ONLY <1>1, <1>3, Zenon
      <3>2. \E b \in Base : /\ ~Refused(b, LayoutOf(b).clusters)
                            /\ createdrive_ext(size, fs, flags, ext) = Installed(b)
        BY ONLY <3>1, Request(size, fs, flags, ext), Created, Zenon
      <3> QED
        BY ONLY <1>1, <3>2, Zenon
    <2>2. answer' = "ok" /\ drv' = g
      BY ONLY <1>1, <1>3, Result(createdrive_ext(size, fs, flags, ext)), Zenon DEF Result
    <2> QED
      BY ONLY <2>1, <2>2, Zenon DEF GeometryInv
  <1> QED
    BY ONLY <1>2, <1>3, Zenon

LEMMA GeometryInvInductive ==
    GeometryInv /\ [Next]_vars => GeometryInv'
  <1> SUFFICES ASSUME GeometryInv, [Next]_vars PROVE GeometryInv'
    BY Zenon
  <1>1. CASE Create
    <2>1. PICK size \in Sizes, fs \in FsFlags, flags \in FlagSets, ext \in Ext \cup {driveext_auto} :
              Result(createdrive_ext(size, fs, flags, ext))
      BY ONLY <1>1, Zenon DEF Create
    <2>2. Request(size, fs, flags, ext)
      BY ONLY size \in Sizes, fs \in FsFlags, flags \in FlagSets, ext \in Ext \cup {driveext_auto},
              Requests, Zenon DEF Request
    <2> QED
      BY ONLY <2>1, <2>2, GeometryInv, ResultKeeps, Zenon
  <1>2. CASE CreateNoMemory
    BY ONLY <1>2, GeometryInv, Zenon DEF CreateNoMemory, GeometryInv
  <1>3. CASE Recreate
    <2>1. PICK size \in Sizes, asked \in FsFlags \cup {"SAME"}, flags \in FlagSets,
               autos \in {{}, {"spc"}, {"bps", "spc", "root"}} :
              Result(createdrive_ext(size, IF asked = "SAME" THEN drv.filesys ELSE asked,
                                     flags, SameExt(drv, autos)))
      BY ONLY <1>3, Zenon DEF Recreate
    <2>2. PICK b \in Base : drv = Installed(b)
      BY ONLY <1>3, GeometryInv, Zenon DEF Recreate, GeometryInv
    <2>3. drv.filesys = b.filesys /\ drv.root_dir_cnt = b.root_dir_cnt
      BY ONLY <2>2, InstalledIs, Zenon
    <2>4. drv.filesys \in FileSystems /\ drv.root_dir_cnt \in 0 .. MaxRootCount
      BY ONLY <2>3, b \in Base, BaseIs, Zenon
    <2>5. PICK fs, ext : fs = (IF asked = "SAME" THEN drv.filesys ELSE asked) /\ ext = SameExt(drv, autos)
      BY Zenon
    <2>6. ext.root = AUTO \/ ext.root = drv.root_dir_cnt
      BY ONLY <2>5, SMT DEF SameExt
    <2>7. Request(size, fs, flags, ext)
      BY ONLY <2>4, <2>5, <2>6, size \in Sizes, asked \in FsFlags \cup {"SAME"}, flags \in FlagSets,
              Requests, Zenon DEF Request
    <2> QED
      BY ONLY <2>1, <2>5, <2>7, GeometryInv, ResultKeeps, Zenon
  <1>4. CASE Free
    BY ONLY <1>4, GeometryInv, Zenon DEF Free, GeometryInv
  <1>5. CASE UNCHANGED vars
    BY ONLY <1>5, GeometryInv, Zenon DEF vars, GeometryInv
  <1> QED
    BY ONLY <1>1, <1>2, <1>3, <1>4, <1>5, [Next]_vars, Zenon DEF Next

LEMMA GeometryInvHolds == Spec => []GeometryInv
  <1>1. Init => GeometryInv
    BY Zenon DEF Init, GeometryInv
  <1> QED
    BY <1>1, GeometryInvInductive, PTL DEF Spec

LEMMA InstalledType ==
    ASSUME NEW b \in Base
    PROVE  Installed(b) \in DriveType
  <1>1. Decided(b)
    BY BaseDecided, Zenon
  <1>2. /\ b.filesys \in FileSystems /\ b.bps \in ValidBps /\ b.spc \in AllSpc
        /\ b.sectors \in Word /\ b.flags \in Flags /\ b.root_dir_cnt \in 0 .. MaxRootCount
    BY BaseIs, Zenon
  <1>3. PICK wt, wd, wc, wf, wr : /\ wt = LayoutOf(b).fat_sectors /\ wd = LayoutOf(b).data_start
                                  /\ wc = LayoutOf(b).clusters /\ wf = fat1_start(b)
                                  /\ wr = root_sectors(b)
    BY Zenon
  <1>4. wt \in Word /\ wd \in Word /\ wc \in Word /\ wf \in Word /\ wr \in Word
    BY ONLY <1>1, <1>3, LayoutVal, FirstFatVal, RootVal, Zenon
  <1>5. PICK w2, w3 : w2 = Plus(wf, wt) /\ w3 = Plus(w2, wt)
    BY Zenon
  <1>6. w2 \in Word /\ w3 \in Word
    BY ONLY <1>4, <1>5, PlusVal, Zenon
  <1>7. PICK m : m = mbr_sectors(b)
    BY Zenon
  <1>8. m \in 0 .. 512
    <2>1. b.flags.mbr = "none" \/ b.flags.mbr = "plain" \/ b.flags.mbr = "pad"
      BY ONLY <1>2, SMT DEF Flags
    <2>2. b.spc \in Nat /\ b.spc <= 512
      BY ONLY <1>1, SMT DEF Decided
    <2> QED
      BY ONLY <1>7, <2>1, <2>2, SMT DEF mbr_sectors
  <1>9. Installed(b) = [filesys |-> b.filesys, bps |-> b.bps, spc |-> b.spc, sectors |-> b.sectors,
         root_dir_cnt |-> b.root_dir_cnt, flags |-> b.flags, clusters |-> wc, fat_sectors |-> wt,
         fat1_start |-> wf, fat2_start |-> w2, root_start |-> w3, root_sectors |-> wr,
         data_start |-> wd, mbr_sectors |-> m]
    BY ONLY <1>3, <1>5, <1>7, Zenon DEF Installed
  <1>10. DriveType =
      [filesys : FileSystems, bps : ValidBps, spc : AllSpc, sectors : Word,
       root_dir_cnt : 0 .. MaxRootCount, flags : Flags, clusters : Word, fat_sectors : Word,
       fat1_start : Word, fat2_start : Word, root_start : Word, root_sectors : Word,
       data_start : Word, mbr_sectors : 0 .. 512]
    BY SMT DEF DriveType, ValidBps, AllSpc
  <1> QED
    BY ONLY <1>2, <1>4, <1>6, <1>8, <1>9, <1>10, SMT

(* The fields of a drive have their widths, and its sectors and clusters   *)
(* are powers of two, as the masks of createdrive_ext() need: for every    *)
(* set of requests.                                                        *)
THEOREM GeometryTypes == Spec => []TypeOK
  <1>1. GeometryInv => TypeOK
    BY InstalledType, Zenon DEF GeometryInv, TypeOK
  <1> QED
    BY <1>1, GeometryInvHolds, PTL

(* VDF_ALIGN_CLUSTER aligns all structures, for every size of drive,       *)
(* sector, cluster and root directory: createdrive_ext() in 32 bits.       *)
THEOREM AlignmentHolds == Spec => []StructuresAligned
  <1>1. GeometryInv => StructuresAligned
    <2>1. SUFFICES ASSUME GeometryInv, drv # NULL, drv.flags.align
                   PROVE  /\ Remainder(drv.fat1_start, drv.spc) = 0
                          /\ Remainder(drv.fat2_start, drv.spc) = 0
                          /\ Remainder(drv.root_start, drv.spc) = 0
                          /\ Remainder(drv.data_start, drv.spc) = 0
      BY Zenon DEF StructuresAligned
    <2>2. PICK b \in Base : drv = Installed(b)
      BY ONLY <2>1, Zenon DEF GeometryInv
    <2>3. Decided(b)
      BY ONLY b \in Base, BaseDecided, Zenon
    <2>4. /\ drv.flags = b.flags /\ drv.spc = b.spc /\ drv.fat1_start = fat1_start(b)
          /\ drv.data_start = LayoutOf(b).data_start
      BY ONLY <2>2, InstalledIs, Zenon
    <2>5. b.flags.align
      BY ONLY <2>1, <2>4, Zenon
    <2>6. /\ Remainder(fat1_start(b), b.spc) = 0
          /\ Remainder(Installed(b).fat2_start, b.spc) = 0
          /\ Remainder(Installed(b).root_start, b.spc) = 0
          /\ Remainder(LayoutOf(b).data_start, b.spc) = 0
      BY ONLY <2>3, <2>5, AlignedStarts, Zenon
    <2> QED
      BY ONLY <2>2, <2>4, <2>6, Zenon
  <1> QED
    BY <1>1, GeometryInvHolds, PTL

(* The regions of every drive that createdrive_ext() accepts tile it, and  *)
(* no unsigned difference of the computation has wrapped.                  *)
THEOREM RegionsTileDrive == Spec => []RegionsTile
  <1>1. GeometryInv => RegionsTile
    <2>1. SUFFICES ASSUME GeometryInv, drv # NULL, ~TooSmall(drv) PROVE RegionsTile
      BY Zenon DEF RegionsTile
    <2>2. PICK b \in Base : ~Refused(b, LayoutOf(b).clusters) /\ drv = Installed(b)
      BY ONLY <2>1, Zenon DEF GeometryInv
    <2>3. Decided(b) /\ ~TooSmall(Installed(b))
      BY ONLY <2>1, <2>2, b \in Base, BaseDecided, Zenon
    <2>4. PICK end : end = Plus(drv.data_start, Times(drv.clusters, drv.spc))
      BY Zenon
    <2>5. /\ Below(W(0), drv.fat1_start)
          /\ Below(drv.fat1_start, drv.fat2_start)
          /\ drv.data_start = Plus(drv.root_start, drv.root_sectors)
          /\ ~Below(drv.sectors, drv.data_start)
          /\ ~Below(drv.sectors, end)
          /\ Below(Minus(drv.sectors, end), W(drv.spc))
      BY ONLY <2>2, <2>3, <2>4, InstalledTiles, Zenon
    <2> QED
      BY ONLY <2>4, <2>5, Zenon DEF RegionsTile
  <1> QED
    BY <1>1, GeometryInvHolds, PTL

(* A FAT of a cluster or more has an entry for each cluster, although it   *)
(* was sized from a guess and without its reserved entries.                *)
THEOREM FatCovers == Spec => []FatCoversData
  <1>1. GeometryInv => FatCoversData
    <2>1. SUFFICES ASSUME GeometryInv, drv # NULL, ~TooSmall(drv), ~Below(drv.fat_sectors, W(drv.spc))
                   PROVE  ~Below(WideTimes(drv.fat_sectors, drv.bps * 2),
                                 WideTimes(Plus(drv.clusters, W(2)), Nibbles(drv.filesys)))
      BY Zenon DEF FatCoversData, Nibbles
    <2>2. PICK b \in Base : ~Refused(b, LayoutOf(b).clusters) /\ drv = Installed(b)
      BY ONLY <2>1, Zenon DEF GeometryInv
    <2>3. Decided(b) /\ ~TooSmall(Installed(b))
      BY ONLY <2>1, <2>2, b \in Base, BaseDecided, Zenon
    <2> QED
      BY ONLY <2>1, <2>2, <2>3, InstalledCovers, Zenon
  <1> QED
    BY <1>1, GeometryInvHolds, PTL

(* A host that reads the boot sector of an expressible drive finds the     *)
(* data area, the clusters and the file system that the library serves.    *)
THEOREM HostFindsDrive == Spec => []HostAgrees
  <1>1. GeometryInv => HostAgrees
    <2>1. SUFFICES ASSUME GeometryInv, drv # NULL, ~TooSmall(drv), Expressible(drv)
                   PROVE  HostView(BootSector(drv)) =
                              [data_start |-> drv.data_start, clusters |-> drv.clusters,
                               filesys |-> drv.filesys]
      BY Zenon DEF HostAgrees
    <2>2. PICK b \in Base : ~Refused(b, LayoutOf(b).clusters) /\ drv = Installed(b)
      BY ONLY <2>1, Zenon DEF GeometryInv
    <2>3. Decided(b) /\ ~TooSmall(Installed(b))
      BY ONLY <2>1, <2>2, b \in Base, BaseDecided, Zenon
    <2> QED
      BY ONLY <2>1, <2>2, <2>3, HostFinds, Zenon
  <1> QED
    BY <1>1, GeometryInvHolds, PTL

(* vdf_drive_recreate_extsame() with VDF_FAT_SAME, the same size and the   *)
(* same flags gives the same drive, whatever was chosen automatically.     *)
THEOREM SameDriveAgain == Spec => []SameAgain
  <1>1. GeometryInv => SameAgain
    <2>1. SUFFICES ASSUME GeometryInv, drv # NULL, drv.spc <= 128
                   PROVE  createdrive_ext(WideTimes(drv.sectors, drv.bps \div 512), drv.filesys,
                                          drv.flags, SameExt(drv, {})) = drv
      BY Zenon DEF SameAgain
    <2>2. PICK b \in Base : ~Refused(b, LayoutOf(b).clusters) /\ drv = Installed(b)
      BY ONLY <2>1, Zenon DEF GeometryInv
    <2>3. drv.spc = b.spc
      BY ONLY <2>2, InstalledIs, Zenon
    <2>4. b.spc <= 128
      BY ONLY <2>1, <2>3, Zenon
    <2> QED
      BY ONLY <2>2, <2>4, b \in Base, CreatedAgain, SMT
  <1> QED
    BY <1>1, GeometryInvHolds, PTL
=============================================================================
