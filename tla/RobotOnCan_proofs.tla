------------------------- MODULE RobotOnCan_proofs -------------------------
(***************************************************************************)
(* Theorems about Robot and RobotOnCan for any number of joints, any       *)
(* limits, gains, inputs and time steps, and any even size of a byte.      *)
(*                                                                         *)
(* RobotOnCanInv is inductive.  The arithmetic comes first: the payloads   *)
(* carry every 32-bit count unchanged, truncation is towards zero and by   *)
(* at most a hundredth, and what PDController, SafetyLayer and             *)
(* RobotSimulator compute stays within its limits for every input.         *)
(***************************************************************************)
EXTENDS RobotOnCan, TLAPS, WellFoundedInduction

-----------------------------------------------------------------------------
(* Division and products. *)

LEMMA ProductIsInt == ASSUME NEW m \in Int, NEW n \in Int PROVE m * n \in Int
BY SMT

LEMMA ProductMonotone ==
    ASSUME NEW k \in Int, NEW m \in Int, NEW n \in Int, 0 <= k, m <= n
    PROVE  k * m <= k * n
BY SMT

LEMMA DivisionHasRemainder ==
    ASSUME NEW a \in Int, NEW s \in Nat, s > 0
    PROVE  /\ a \div s \in Int /\ a % s \in 0 .. s - 1
           /\ a = s * (a \div s) + (a % s)
BY SMT

LEMMA QuotientIsUnique ==
    ASSUME NEW a \in Int, NEW s \in Nat, s > 0, NEW q \in Int, NEW r \in 0 .. s - 1,
           a = s * q + r
    PROVE  a \div s = q /\ a % s = r
<1> DEFINE p == a \div s
<1>1. p \in Int /\ a % s \in 0 .. s - 1 /\ a = s * p + (a % s)
    BY DivisionHasRemainder
<1> HIDE DEF p
<1>2. CASE p < q
  <2>1. s * (p + 1) <= s * q
      BY <1>1, <1>2, ProductMonotone, SMT
  <2>2. s * (p + 1) = s * p + s /\ s * p \in Int /\ s * q \in Int
      BY <1>1, SMT
  <2> QED BY <1>1, <2>1, <2>2, SMT
<1>3. CASE q < p
  <2>1. s * (q + 1) <= s * p
      BY <1>1, <1>3, ProductMonotone, SMT
  <2>2. s * (q + 1) = s * q + s /\ s * p \in Int /\ s * q \in Int
      BY <1>1, SMT
  <2> QED BY <1>1, <2>1, <2>2, SMT
<1>4. CASE p = q
  <2>1. s * q \in Int
      BY SMT
  <2> QED BY <1>1, <1>4, <2>1, SMT DEF p
<1> QED BY <1>1, <1>2, <1>3, <1>4, SMT

LEMMA QuotientOfNat ==
    ASSUME NEW a \in Nat, NEW s \in Nat, s > 0
    PROVE  a \div s \in Nat
BY SMT

(* Shifting twice is shifting once by the product. *)
LEMMA QuotientTwice ==
    ASSUME NEW a \in Nat, NEW s \in Nat, s > 0, NEW t \in Nat, t > 0
    PROVE  a \div (s * t) = (a \div s) \div t
<1> DEFINE p == a \div s  q == p \div t
<1>1. p \in Int /\ a % s \in 0 .. s - 1 /\ a = s * p + (a % s)
    BY DivisionHasRemainder
<1>2. q \in Int /\ p % t \in 0 .. t - 1 /\ p = t * q + (p % t)
    BY <1>1, DivisionHasRemainder
<1> HIDE DEF p, q
<1> DEFINE u == a % s  v == p % t
<1> HIDE DEF u, v
<1>3. u \in 0 .. s - 1 /\ v \in 0 .. t - 1 /\ a = s * (t * q + v) + u
    BY <1>1, <1>2 DEF u, v
<1>4. s * t \in Nat /\ s * t > 0
    BY SMT
<1>5. s * (t * q + v) = (s * t) * q + s * v /\ s * v \in Nat
    BY <1>2, <1>3, SMT
<1>6. s * v + s <= s * t
    BY <1>3, SMT
<1>7. s * v + u \in 0 .. (s * t) - 1
    BY <1>3, <1>4, <1>5, <1>6, SMT
<1>8. a = (s * t) * q + (s * v + u)
  <2>1. (s * t) * q \in Int
      BY <1>2, <1>4, SMT
  <2> QED BY <1>3, <1>5, <2>1, SMT
<1> QED BY <1>2, <1>4, <1>7, <1>8, QuotientIsUnique DEF q, p

LEMMA ExactQuotient ==
    ASSUME NEW q \in Int, NEW s \in Nat, s > 0
    PROVE  (s * q) \div s = q
BY SMT

-----------------------------------------------------------------------------
(* Induction over the natural numbers, for sets. *)

LEMMA LeastElement ==
    ASSUME NEW T, T \subseteq Nat, T # {}
    PROVE  \E m \in T : \A n \in T : ~(n < m)
<1> DEFINE R == OpToRel(<, Nat)
<1>1. IsWellFoundedOn(R, Nat)
    BY NatLessThanWellFounded
<1>2. \A x, y \in Nat : x < y => <<x, y>> \in R
    BY DEF OpToRel
<1> HIDE DEF R
<1>3. PICK m \in T : \A y \in T : ~ (<<y, m>> \in R)
    BY <1>1, WFMin
<1> QED BY <1>2, <1>3

LEMMA InductionOverNat ==
    ASSUME NEW S, 0 \in S, \A n \in Nat : n \in S => n + 1 \in S
    PROVE  Nat \subseteq S
<1> DEFINE T == Nat \ S
<1> SUFFICES ASSUME T # {} PROVE FALSE
    OBVIOUS
<1>1. PICK m \in T : \A n \in T : ~(n < m)
    BY LeastElement
<1>2. m \in Nat /\ m # 0
    BY <1>1
<1>3. m - 1 \in Nat /\ m - 1 < m /\ (m - 1) + 1 = m
    BY <1>2, SMT
<1>4. m - 1 \in S
    BY <1>1, <1>3
<1> QED BY <1>1, <1>3, <1>4

-----------------------------------------------------------------------------
(* The codec. *)

LEMMA ByteIsPositive ==
    Byte \in Nat /\ Byte > 1 /\ Byte * Byte \in Nat /\ Byte * Byte > 0
    /\ Byte * Byte * Byte \in Nat /\ Byte * Byte * Byte > 0
    /\ Modulus \in Nat /\ Modulus > 0
<1>1. Byte \in Nat /\ Byte > 1
    BY ByteAssumption
<1>2. \A m, n \in Nat : m > 0 /\ n > 0 => m * n \in Nat /\ m * n > 0
    BY SMT
<1>3. Byte > 0
    BY <1>1, SMT
<1>4. Byte * Byte \in Nat /\ Byte * Byte > 0
    BY <1>1, <1>2, <1>3
<1>5. Byte * Byte * Byte \in Nat /\ Byte * Byte * Byte > 0
    BY <1>1, <1>2, <1>3, <1>4
<1> QED BY <1>1, <1>2, <1>3, <1>4, <1>5 DEF Modulus

LEMMA HalfModulus == Modulus \div 2 \in Nat /\ Modulus = 2 * (Modulus \div 2)
<1>1. \A b, c \in Nat : b % 2 = 0 => (b * c) % 2 = 0
  <2> SUFFICES ASSUME NEW b \in Nat, NEW c \in Nat, b % 2 = 0 PROVE (b * c) % 2 = 0
      OBVIOUS
  <2> DEFINE h == b \div 2
  <2>1. h \in Int /\ b = 2 * h
      BY SMT
  <2> HIDE DEF h
  <2>2. h * c \in Int /\ b * c = 2 * (h * c)
      BY <2>1, SMT
  <2> DEFINE k == h * c  n == b * c
  <2> HIDE DEF k, n
  <2>3. k \in Int /\ n = 2 * k
      BY <2>2 DEF k, n
  <2>4. n % 2 = 0
      BY <2>3, SMT
  <2> QED BY <2>4 DEF n
<1>2. Modulus % 2 = 0
    BY <1>1, ByteAssumption, ByteIsPositive DEF Modulus
<1> QED BY <1>2, ByteIsPositive, SMT

(* The four bytes carry every number below the modulus. *)
LEMMA BytesAddUp ==
    ASSUME NEW u \in Nat, u < Modulus
    PROVE  u = (u % Byte) + Byte * ((u \div Byte) % Byte)
               + (Byte * Byte) * ((u \div (Byte * Byte)) % Byte)
               + (Byte * Byte * Byte) * ((u \div (Byte * Byte * Byte)) % Byte)
<1> DEFINE b == Byte
           q1 == u \div b
           q2 == u \div (b * b)
           q3 == u \div (b * b * b)
<1>0. b \in Nat /\ b > 0 /\ b * b \in Nat /\ b * b > 0 /\ b * b * b \in Nat /\ b * b * b > 0
      /\ u < b * (b * b * b)
  <2>1. b > 0
      BY ByteIsPositive, SMT
  <2> QED BY <2>1, ByteIsPositive DEF Modulus
<1> HIDE DEF b
<1>1. /\ q1 \in Nat /\ q2 \in Nat /\ q3 \in Nat
      /\ q2 = q1 \div b /\ q3 = q2 \div b
    BY <1>0, QuotientOfNat, QuotientTwice
<1>2. u = b * q1 + (u % b) /\ u % b \in 0 .. b - 1
    BY <1>0, DivisionHasRemainder
<1>3. u = (b * b * b) * q3 + (u % (b * b * b)) /\ u % (b * b * b) \in 0 .. (b * b * b) - 1
    BY <1>0, DivisionHasRemainder
<1> HIDE DEF q1, q2, q3
<1>4. q1 = b * q2 + (q1 % b) /\ q1 % b \in 0 .. b - 1
    BY <1>0, <1>1, DivisionHasRemainder
<1>5. q2 = b * q3 + (q2 % b) /\ q2 % b \in 0 .. b - 1
    BY <1>0, <1>1, DivisionHasRemainder
<1>6. q3 % b = q3
  <2>1. q3 < b
    <3> SUFFICES ASSUME b <= q3 PROVE FALSE
        BY <1>0, <1>1, SMT
    <3> DEFINE c == b * b * b
    <3>1. c \in Nat /\ u < b * c /\ u = c * q3 + (u % c) /\ u % c >= 0 /\ u % c \in Int
        BY <1>0, <1>3, SMT
    <3> HIDE DEF c
    <3>2. c * b <= c * q3
        BY <1>0, <1>1, <3>1, ProductMonotone, SMT
    <3>3. c * b = b * c /\ c * b \in Int /\ c * q3 \in Int
        BY <1>0, <1>1, <3>1, SMT
    <3> QED BY <3>1, <3>2, <3>3, SMT
  <2>2. b * 0 + q3 = q3 /\ q3 \in 0 .. b - 1
      BY <1>0, <1>1, <2>1, SMT
  <2> QED BY <1>0, <1>1, <2>2, QuotientIsUnique
<1>7. u = (u % b) + b * (q1 % b) + (b * b) * (q2 % b) + (b * b * b) * q3
  <2> DEFINE r0 == u % b  r1 == q1 % b  r2 == q2 % b
  <2>1. r0 \in Int /\ r1 \in Int /\ r2 \in Int
        /\ u = b * q1 + r0 /\ q1 = b * q2 + r1 /\ q2 = b * q3 + r2
      BY <1>2, <1>4, <1>5
  <2> HIDE DEF r0, r1, r2
  <2>2. u = b * (b * (b * q3 + r2) + r1) + r0
      BY <2>1
  <2>3. b * (b * (b * q3 + r2) + r1) + r0 = r0 + b * r1 + (b * b) * r2 + (b * b * b) * q3
      BY <1>0, <1>1, <2>1, SMT
  <2> QED BY <2>2, <2>3 DEF r0, r1, r2
<1> QED BY <1>6, <1>7 DEF q1, q2, q3, b

(* An int32_t survives its four bytes: encode() and decode() of both codecs  *)
(* are inverse, also for negative counts, whose sign is in the last byte.    *)
THEOREM CodecRoundTrip == \A count \in Int32 : Decode(Encode(count)) = count
<1> SUFFICES ASSUME NEW count \in Int32 PROVE Decode(Encode(count)) = count
    OBVIOUS
<1> DEFINE u == count % Modulus
           half == Modulus \div 2
           word == Encode(count)[1] + Place[2] * Encode(count)[2] + Place[3] * Encode(count)[3]
                   + Place[4] * Encode(count)[4]
<1>1. half \in Nat /\ Modulus = 2 * half /\ Modulus > 0 /\ Modulus \in Nat
    BY HalfModulus, ByteIsPositive
<1> HIDE DEF half
<1>2. count \in Int /\ -half <= count /\ count < half
    BY <1>1, SMT DEF Int32, half
<1>3. u = IF count < 0 THEN count + Modulus ELSE count
  <2>1. CASE 0 <= count
    <3>1. count = Modulus * 0 + count /\ count \in 0 .. Modulus - 1 /\ ~(count < 0)
        BY <1>1, <1>2, <2>1, SMT
    <3> QED BY <1>1, <3>1, QuotientIsUnique
  <2>2. CASE count < 0
    <3>1. count = Modulus * (-1) + (count + Modulus) /\ count + Modulus \in 0 .. Modulus - 1
        BY <1>1, <1>2, <2>2, SMT
    <3> QED BY <1>1, <1>2, <2>2, <3>1, QuotientIsUnique
  <2> QED BY <1>2, <2>1, <2>2, SMT
<1> HIDE DEF u
<1>4. u \in Nat /\ u < Modulus
    BY <1>1, <1>2, <1>3, SMT
<1>5. word = u
  <2>1. /\ Place[1] = 1 /\ Place[2] = Byte /\ Place[3] = Byte * Byte
        /\ Place[4] = Byte * Byte * Byte
      BY DEF Place
  <2>2. \A i \in 1 .. 4 : Encode(count)[i] = (u \div Place[i]) % Byte
      BY DEF Encode, u
  <2>3. 1 \in 1 .. 4 /\ 2 \in 1 .. 4 /\ 3 \in 1 .. 4 /\ 4 \in 1 .. 4
      BY SMT
  <2>4. u \div 1 = u
      BY <1>4, SMT
  <2>5. /\ Encode(count)[1] = u % Byte
        /\ Encode(count)[2] = (u \div Byte) % Byte
        /\ Encode(count)[3] = (u \div (Byte * Byte)) % Byte
        /\ Encode(count)[4] = (u \div (Byte * Byte * Byte)) % Byte
      BY <2>1, <2>2, <2>3, <2>4
  <2> QED BY <1>4, <2>1, <2>5, BytesAddUp
<1> HIDE DEF word
<1>6. Decode(Encode(count)) = IF 2 * word >= Modulus THEN word - Modulus ELSE word
    BY DEF Decode, word
<1> QED BY <1>1, <1>2, <1>3, <1>4, <1>5, <1>6, SMT

-----------------------------------------------------------------------------
(* The cast. *)

(* What truncation makes of x, in hundredths. *)
LEMMA TruncationIsNear ==
    ASSUME NEW x \in Int, NEW h \in Nat, h > 0, NEW n \in Truncations(x, h)
    PROVE  n \in Int /\ h * n \in Int /\ IsNear(h * n, x, h)
<1> DEFINE a == Abs(x)  w == a \div h  r == a % h
<1>1. a \in Nat /\ (x >= 0 => a = x) /\ (x < 0 => a = -x)
    BY SMT DEF Abs
<1> HIDE DEF a
<1>2. w \in Nat /\ r \in 0 .. h - 1 /\ a = h * w + r
    BY <1>1, DivisionHasRemainder, QuotientOfNat
<1>3. PICK m \in Int : /\ n = Sign(x) * m
                       /\ \/ m = w
                          \/ x # 0 /\ r = 0 /\ m = w - 1
  <2>1. w \in Int /\ w - 1 \in Int
      BY <1>2, SMT
  <2> QED BY <2>1 DEF Truncations, a
<1> HIDE DEF w, r
<1>4. 0 <= m /\ 0 <= h * m /\ h * m \in Int /\ h * m <= a /\ a - h * m <= h
  <2>1. CASE m = w
    <3>1. h * m \in Nat
        BY <1>2, <2>1, SMT
    <3> QED BY <1>2, <2>1, <3>1, SMT
  <2>2. CASE x # 0 /\ r = 0 /\ m = w - 1
    <3>1. a > 0 /\ a = h * w
        BY <1>1, <1>2, <2>2, SMT
    <3>2. w # 0
        BY <3>1, <1>1, SMT
    <3>3. m \in Nat
        BY <1>2, <2>2, <3>2, SMT
    <3>4. h * m = h * w - h /\ h * m \in Nat
        BY <1>2, <2>2, <3>3, SMT
    <3> QED BY <1>1, <3>1, <3>3, <3>4, SMT
  <2> QED BY <1>3, <2>1, <2>2
<1>5. CASE x >= 0
  <2>1. Sign(x) = 1 /\ n = m
      BY <1>3, <1>5, SMT DEF Sign
  <2>2. Abs(h * n) = h * m /\ (h * n # 0 => Sign(h * n) = Sign(x))
      BY <1>4, <2>1, SMT DEF Abs, Sign
  <2> QED BY <1>1, <1>4, <2>1, <2>2 DEF IsNear, a
<1>6. CASE x < 0
  <2>1. Sign(x) = -1 /\ n = -m
      BY <1>3, <1>6, SMT DEF Sign
  <2>2. h * n = -(h * m) /\ n \in Int
      BY <1>4, <2>1, SMT
  <2>3. Abs(h * n) = h * m /\ (h * n # 0 => Sign(h * n) = -1) /\ h * n \in Int
      BY <1>4, <2>2, SMT DEF Abs, Sign
  <2> QED BY <1>4, <2>1, <2>2, <2>3 DEF IsNear, a
<1> QED BY <1>5, <1>6, SMT

LEMMA MultipleHasNoRemainder ==
    ASSUME NEW n \in Int, NEW h \in Nat, h > 0
    PROVE  Abs(h * n) % h = 0
<1> DEFINE m == IF n < 0 THEN -n ELSE n
<1>1. m \in Int /\ 0 <= m /\ (n = m \/ n = -m)
    BY SMT
<1> HIDE DEF m
<1>2. h * m \in Int /\ 0 <= h * m /\ h * (-m) = -(h * m)
  <2>1. h * 0 <= h * m /\ h * 0 = 0
      BY <1>1, ProductMonotone, SMT
  <2> QED BY <1>1, <2>1, SMT
<1>3. Abs(h * n) = h * m
    BY <1>1, <1>2, SMT DEF Abs
<1>4. h * m = h * m + 0 /\ 0 \in 0 .. h - 1
    BY <1>2, SMT
<1> QED BY <1>1, <1>2, <1>3, <1>4, QuotientIsUnique

(* Near, in plain inequalities. *)
LEMMA NearIsBetween ==
    ASSUME NEW x \in Int, NEW y \in Int, NEW h \in Nat, IsNear(y, x, h)
    PROVE  (x >= 0 => 0 <= y /\ y <= x) /\ (x <= 0 => x <= y /\ y <= 0)
BY SMT DEF IsNear, Abs, Sign

(* Truncation keeps the order, so that a range fits 32 bits if its ends do. *)
LEMMA RangeFits ==
    ASSUME NEW low \in Int, NEW high \in Int, NEW h \in Nat, h > 0, low <= 0, 0 <= high,
           Fits(low, h), Fits(high, h), NEW x \in low .. high
    PROVE  Fits(x, h)
<1> SUFFICES ASSUME NEW n \in Truncations(x, h) PROVE n \in Int32
    BY SMT DEF Fits
<1> DEFINE half == Modulus \div 2
<1>0. half \in Nat /\ Int32 = -half .. half - 1
    BY HalfModulus DEF Int32
<1>1. Sign(high) * (Abs(high) \div h) \in Int32 /\ Sign(low) * (Abs(low) \div h) \in Int32
    BY DEF Fits, Truncations
<1>2. n \in Int /\ h * n \in Int /\ IsNear(h * n, x, h)
    BY TruncationIsNear, SMT
<1> HIDE DEF half
<1>3. (x >= 0 => 0 <= h * n /\ h * n <= x) /\ (x <= 0 => x <= h * n /\ h * n <= 0)
    BY <1>2, NearIsBetween, SMT
<1>4. CASE x >= 0
  <2> DEFINE q == high \div h  r == high % h
  <2>1. q \in Int /\ r \in 0 .. h - 1 /\ high = h * q + r
      BY DivisionHasRemainder
  <2>2. q \in Int32
      BY <1>1, <2>1, SMT DEF Sign, Abs
  <2> HIDE DEF q, r
  <2>3. 0 <= n
    <3> SUFFICES ASSUME n <= -1 PROVE FALSE
        BY <1>2, SMT
    <3>1. h * n <= h * (-1) /\ h * (-1) = -h
        BY <1>2, ProductMonotone, SMT
    <3> QED BY <1>2, <1>3, <1>4, <3>1, SMT
  <2>4. n <= q
    <3> SUFFICES ASSUME q + 1 <= n PROVE FALSE
        BY <1>2, <2>1, SMT
    <3>1. h * (q + 1) <= h * n /\ h * (q + 1) = h * q + h /\ h * q \in Int
        BY <1>2, <2>1, ProductMonotone, SMT
    <3> QED BY <1>2, <1>3, <1>4, <2>1, <3>1, SMT
  <2> QED BY <1>0, <1>2, <2>1, <2>2, <2>3, <2>4, SMT
<1>5. CASE x < 0
  <2> DEFINE q == (-low) \div h  r == (-low) % h
  <2>0. -low \in Nat /\ low < 0
      BY <1>5, SMT
  <2>1. q \in Int /\ r \in 0 .. h - 1 /\ -low = h * q + r
      BY <2>0, DivisionHasRemainder
  <2>2. -q \in Int32
      BY <1>1, <2>0, <2>1, SMT DEF Sign, Abs
  <2> HIDE DEF q, r
  <2>3. n <= 0
    <3> SUFFICES ASSUME 1 <= n PROVE FALSE
        BY <1>2, SMT
    <3>1. h * 1 <= h * n /\ h * 1 = h
        BY <1>2, ProductMonotone, SMT
    <3> QED BY <1>2, <1>3, <1>5, <3>1, SMT
  <2>4. -q <= n
    <3> SUFFICES ASSUME n <= -q - 1 PROVE FALSE
        BY <1>2, <2>1, SMT
    <3>1. h * n <= h * (-q - 1) /\ h * (-q - 1) = -(h * q) - h /\ h * q \in Int
        BY <1>2, <2>1, ProductMonotone, SMT
    <3> QED BY <1>2, <1>3, <1>5, <2>1, <3>1, SMT
  <2> QED BY <1>0, <1>2, <2>1, <2>2, <2>3, <2>4, SMT
<1> QED BY <1>4, <1>5, SMT

(* What arrives of a value that fits is the value, truncated. *)
LEMMA ReceivedIsTruncated ==
    ASSUME NEW x, NEW h, Fits(x, h)
    PROVE  \A y \in Received(x, h) : \E n \in Truncations(x, h) : y = h * n
BY CodecRoundTrip DEF Received, Casts, Fits

(* What arrives is a number, whatever was cast. *)
LEMMA ReceivedIsInt ==
    ASSUME NEW x, NEW h \in Nat
    PROVE  \A y \in Received(x, h) : y \in Int
<1> SUFFICES ASSUME NEW count \in Casts(x, h) PROVE h * Decode(Encode(count)) \in Int
    BY DEF Received
<1>1. count \in Int32
  <2>1. CASE Fits(x, h)
      BY <2>1 DEF Casts, Fits
  <2>2. CASE ~Fits(x, h)
    <3> DEFINE half == Modulus \div 2
    <3>1. half \in Nat /\ half > 0
        BY HalfModulus, ByteIsPositive, SMT
    <3>2. count \in {-half, half - 1, 0}
        BY <2>2 DEF Casts, UndefinedCasts
    <3> HIDE DEF half
    <3>3. count \in -half .. half - 1
        BY <3>1, <3>2, SMT
    <3> QED BY <3>3 DEF Int32, half
  <2> QED BY <2>1, <2>2
<1>2. count \in Int
    BY <1>1, HalfModulus, SMT DEF Int32
<1> QED BY <1>1, <1>2, CodecRoundTrip, ProductIsInt, SMT

-----------------------------------------------------------------------------
(* What the controller, the safety layer and the simulator compute.  The      *)
(* sets of what a joint's members may hold, while they are safe:              *)

SafeCommands == -MaxAcceleration .. MaxAcceleration
SafeVelocities == -MaxVelocity .. MaxVelocity
SafePositions == (MinPosition .. MaxPosition) \cup {NaN}
AnyNumber == Int \cup {NaN}
AnyStep == Int \cup {NaN, Infinity}

LEMMA ClampIsWithin ==
    ASSUME NEW x \in Int, NEW limit \in Nat
    PROVE  Clamp(x, limit) \in Int /\ Clamp(x, limit) \in -limit .. limit
BY SMT DEF Clamp

(* Whatever the controller asks for, the motor gets a safe command. *)
LEMMA CommandedIsSafe ==
    ASSUME NEW j \in Joints, NEW goal \in AnyNumber,
           position[j] \in AnyNumber, velocity[j] \in AnyNumber
    PROVE  Commanded(j, goal) \in SafeCommands
<1> DEFINE requested == Calculate(goal, position[j], velocity[j])
<1>1. requested \in AnyNumber
  <2>1. CASE NaN \in {goal, position[j], velocity[j]}
      BY <2>1 DEF Calculate, AnyNumber
  <2>2. CASE NaN \notin {goal, position[j], velocity[j]}
    <3>0. goal \in Int /\ position[j] \in Int /\ velocity[j] \in Int
        BY <2>2 DEF AnyNumber
    <3>1. goal - position[j] \in Int
        BY <3>0, SMT
    <3>2. PositionGain * (goal - position[j]) \in Int /\ VelocityGain * velocity[j] \in Int
        BY <3>0, <3>1, GainsAssumption, ProductIsInt
    <3> DEFINE n == PositionGain * (goal - position[j]) - VelocityGain * velocity[j]
    <3>3. n \in Int
        BY <3>2, SMT
    <3> HIDE DEF n
    <3>4. n \div GainScale \in Int
        BY <3>3, GainsAssumption, DivisionHasRemainder, SMT
    <3>5. Calculate(goal, position[j], velocity[j]) = Clamp(n \div GainScale, ControllerMaximum)
        BY <2>2 DEF Calculate, n
    <3> QED BY <3>4, <3>5, ClampIsWithin, LimitsAssumption DEF AnyNumber
  <2> QED BY <2>1, <2>2
<1>2. Commanded(j, goal) = IF ~Validate(requested) THEN 0
                           ELSE IF Accepts(requested) THEN requested ELSE motor[j]
    BY DEF Commanded
<1> HIDE DEF requested
<1>3. 0 \in SafeCommands
    BY LimitsAssumption, SMT DEF SafeCommands
<1>4. ASSUME Validate(requested)
      PROVE  Accepts(requested) /\ requested \in SafeCommands
  <2>1. requested \in Int /\ requested <= MaxAcceleration /\ requested >= -MaxAcceleration
      BY <1>1, <1>4 DEF Validate, AnyNumber
  <2> QED BY <2>1, LimitsAssumption, SMT DEF Accepts, SafeCommands
<1> QED BY <1>2, <1>3, <1>4

LEMMA FiniteVelocityIsSafe ==
    ASSUME NEW v \in Int, NEW a \in Int, NEW dt \in Int
    PROVE  FiniteVelocity(v, a, dt) \in SafeVelocities
<1>1. Clamp(v, MaxVelocity) \in Int /\ a * dt \in Int
    BY ClampIsWithin, ProductIsInt, LimitsAssumption
<1>2. Clamp(v, MaxVelocity) + a * dt \in Int
    BY <1>1, SMT
<1> QED BY <1>2, ClampIsWithin, LimitsAssumption DEF FiniteVelocity, SafeVelocities

(* Only a velocity that is NaN or an endless step gives a velocity that is NaN. *)
LEMMA FinalVelocityIsSafe ==
    ASSUME NEW v \in AnyNumber, NEW a \in Int, NEW dt \in AnyStep
    PROVE  \/ FinalVelocity(v, a, dt) \in SafeVelocities
           \/ FinalVelocity(v, a, dt) = NaN /\ (v = NaN \/ dt \notin Int)
<1>1. CASE v = NaN \/ dt = NaN \/ (dt = Infinity /\ a = 0)
    BY <1>1, NaNAssumption DEF FinalVelocity
<1>2. CASE ~(v = NaN \/ dt = NaN \/ (dt = Infinity /\ a = 0)) /\ dt = Infinity
  <2>1. MaxVelocity \in SafeVelocities /\ -MaxVelocity \in SafeVelocities
      BY LimitsAssumption, SMT DEF SafeVelocities
  <2> QED BY <1>2, <2>1 DEF FinalVelocity
<1>3. CASE ~(v = NaN \/ dt = NaN \/ (dt = Infinity /\ a = 0)) /\ dt # Infinity
  <2>1. v \in Int /\ dt \in Int
      BY <1>3 DEF AnyNumber, AnyStep
  <2> QED BY <1>3, <2>1, FiniteVelocityIsSafe DEF FinalVelocity
<1> QED BY <1>1, <1>2, <1>3

LEMMA RatioIsInt ==
    ASSUME NEW n \in Int, NEW d \in Int, d # 0
    PROVE  Ratio(n, d) \in Int
<1>1. CASE d > 0
    BY <1>1, DivisionHasRemainder, SMT DEF Ratio
<1>2. CASE ~(d > 0)
  <2>1. -d \in Nat /\ -d > 0 /\ -n \in Int
      BY <1>2, SMT
  <2> QED BY <1>2, <2>1, DivisionHasRemainder DEF Ratio
<1> QED BY <1>1, <1>2

LEMMA DisplacementIsInt ==
    ASSUME NEW v \in Int, NEW a \in Int, NEW dt \in Int
    PROVE  Displacement(v, a, dt) \in Int
<1> DEFINE start == Clamp(v, MaxVelocity)
           limit == IF a > 0 THEN MaxVelocity ELSE -MaxVelocity
           final == FiniteVelocity(v, a, dt)
<1>1. start \in Int /\ limit \in Int /\ final \in Int
  <2>1. start \in Int
      BY ClampIsWithin, LimitsAssumption
  <2>2. limit \in Int
      BY LimitsAssumption, SMT
  <2>3. final \in SafeVelocities
      BY FiniteVelocityIsSafe
  <2> QED BY <2>1, <2>2, <2>3, LimitsAssumption, SMT DEF SafeVelocities
<1>2. \/ Displacement(v, a, dt) = 2 * final * dt
      \/ Displacement(v, a, dt) = 2 * limit * dt
      \/ a # 0 /\ Displacement(v, a, dt)
                    = Ratio((limit - start) * (limit + start)
                            + 2 * limit * (a * dt - (limit - start)), a)
      \/ Displacement(v, a, dt) = 2 * start * dt + a * dt * dt
    BY DEF Displacement
<1> HIDE DEF start, limit, final
<1>3. 2 * final * dt \in Int /\ 2 * limit * dt \in Int /\ 2 * start * dt \in Int /\ a * dt \in Int
    BY <1>1, ProductIsInt
<1>4. a * dt * dt \in Int
    BY <1>3, ProductIsInt
<1>5. (limit - start) * (limit + start) + 2 * limit * (a * dt - (limit - start)) \in Int
  <2>1. limit - start \in Int /\ limit + start \in Int /\ a * dt - (limit - start) \in Int
      BY <1>1, <1>3, SMT
  <2>2. (limit - start) * (limit + start) \in Int /\ 2 * limit * (a * dt - (limit - start)) \in Int
      BY <1>1, <2>1, ProductIsInt
  <2> QED BY <2>2, SMT
<1>6. 2 * start * dt + a * dt * dt \in Int
    BY <1>3, <1>4, SMT
<1> QED BY <1>2, <1>3, <1>5, <1>6, RatioIsInt

LEMMA MovedIsNumber ==
    ASSUME NEW j \in Joints, position[j] \in AnyNumber, velocity[j] \in AnyNumber,
           NEW a \in Int, NEW dt \in AnyStep
    PROVE  \/ Moved(j, a, dt) \in Int /\ FinalVelocity(velocity[j], a, dt) # NaN
           \/ /\ Moved(j, a, dt) = NaN
              /\ position[j] = NaN \/ FinalVelocity(velocity[j], a, dt) = NaN
<1>1. CASE position[j] = NaN \/ FinalVelocity(velocity[j], a, dt) = NaN
    BY <1>1 DEF Moved
<1>2. CASE position[j] # NaN /\ FinalVelocity(velocity[j], a, dt) # NaN /\ dt = Infinity
    BY <1>2, LimitsAssumption DEF Moved
<1>3. CASE position[j] # NaN /\ FinalVelocity(velocity[j], a, dt) # NaN /\ dt # Infinity
  <2>1. position[j] \in Int /\ velocity[j] \in Int /\ dt \in Int
      BY <1>3 DEF FinalVelocity, AnyNumber, AnyStep
  <2>2. position[j] + Displacement(velocity[j], a, dt) \in Int
    <3>1. Displacement(velocity[j], a, dt) \in Int
        BY <2>1, DisplacementIsInt
    <3> QED BY <2>1, <3>1, SMT
  <2> QED BY <1>3, <2>2 DEF Moved
<1> QED BY <1>1, <1>2, <1>3

(* A joint that is stopped stands at a limit, one that is not is between them. *)
LEMMA StoppedIsSafe ==
    ASSUME NEW p \in AnyNumber
    PROVE  /\ Stops(p) => Stopped(p) \in {MinPosition, MaxPosition}
           /\ ~Stops(p) => p \in SafePositions /\ p \notin {MinPosition, MaxPosition}
<1>1. Stops(p) => Stopped(p) \in {MinPosition, MaxPosition}
    BY DEF Stopped
<1>2. CASE p = NaN
    BY <1>1, <1>2, LimitsAssumption, NaNAssumption DEF Stops, SafePositions
<1>3. CASE p # NaN
  <2>1. p \in Int
      BY <1>3 DEF AnyNumber
  <2>2. ~Stops(p) => p \in MinPosition .. MaxPosition /\ p # MinPosition /\ p # MaxPosition
      BY <1>3, <2>1, LimitsAssumption, SMT DEF Stops
  <2> QED BY <1>1, <2>2 DEF SafePositions
<1> QED BY <1>2, <1>3

-----------------------------------------------------------------------------
(* The simulator's integration.  With a substep of 1/|a| ticks, the velocity moves by  *)
(* one unit in each until it is at the limit; ClosedArea is the area after k of them.  *)
Direction(a) == IF a > 0 THEN 1 ELSE -1
SubstepsToLimit(v, a) == MaxVelocity - Direction(a) * Clamp(v, MaxVelocity)
ClosedArea(v, a, k) ==
    LET start == Clamp(v, MaxVelocity)
        m == SubstepsToLimit(v, a)
    IN IF k <= m THEN 2 * start * k + Direction(a) * (k * k)
       ELSE 2 * start * m + Direction(a) * (m * m) + 2 * Direction(a) * MaxVelocity * (k - m)

LEMMA VelocityInSubstep ==
    ASSUME NEW v \in Int, NEW a \in Int, NEW k \in Nat
    PROVE  /\ Clamp(v, MaxVelocity) \in Int /\ SubstepsToLimit(v, a) \in Nat
           /\ VelocityAt(v, a, k) = IF k <= SubstepsToLimit(v, a)
                                    THEN Clamp(v, MaxVelocity) + Direction(a) * k
                                    ELSE Direction(a) * MaxVelocity
BY LimitsAssumption, SMT DEF VelocityAt, Clamp, SubstepsToLimit, Direction

LEMMA ClosedAreaStep ==
    ASSUME NEW v \in Int, NEW a \in Int, NEW k \in Nat
    PROVE  /\ ClosedArea(v, a, k) \in Int /\ ClosedArea(v, a, 0) = 0
           /\ ClosedArea(v, a, k + 1) = ClosedArea(v, a, k) + VelocityAt(v, a, k) + VelocityAt(v, a, k + 1)
<1> DEFINE s == Clamp(v, MaxVelocity)  m == SubstepsToLimit(v, a)  d == Direction(a)
<1>1. d = 1 \/ d = -1
    BY DEF Direction
<1>2. MaxVelocity \in Int /\ s \in Int /\ m \in Nat /\ k + 1 \in Nat /\ m = MaxVelocity - d * s
    BY VelocityInSubstep, LimitsAssumption DEF SubstepsToLimit
<1>3. /\ VelocityAt(v, a, k) = IF k <= m THEN s + d * k ELSE d * MaxVelocity
      /\ VelocityAt(v, a, k + 1) = IF k + 1 <= m THEN s + d * (k + 1) ELSE d * MaxVelocity
    BY <1>2, VelocityInSubstep
<1>4. \A n \in Nat : ClosedArea(v, a, n) =
         IF n <= m THEN 2 * s * n + d * (n * n)
         ELSE 2 * s * m + d * (m * m) + 2 * d * MaxVelocity * (n - m)
    BY DEF ClosedArea
<1> HIDE DEF s, m, d
<1>5. ClosedArea(v, a, 0) = 0
    BY <1>1, <1>2, <1>4, SMT
<1>6. ClosedArea(v, a, k) \in Int
    BY <1>1, <1>2, <1>4, SMT
<1>7. ClosedArea(v, a, k + 1) = ClosedArea(v, a, k) + VelocityAt(v, a, k) + VelocityAt(v, a, k + 1)
  <2>1. CASE k + 1 <= m /\ d = 1
      BY <1>2, <1>3, <1>4, <2>1, SMT
  <2>2. CASE k + 1 <= m /\ d = -1
      BY <1>2, <1>3, <1>4, <2>2, SMT
  <2>3. CASE k = m /\ d = 1
      BY <1>2, <1>3, <1>4, <2>3, SMT
  <2>4. CASE k = m /\ d = -1
      BY <1>2, <1>3, <1>4, <2>4, SMT
  <2>5. CASE m < k
      BY <1>1, <1>2, <1>3, <1>4, <2>5, SMT
  <2> QED BY <1>1, <1>2, <2>1, <2>2, <2>3, <2>4, <2>5, SMT
<1> QED BY <1>5, <1>6, <1>7

LEMMA AreaIsClosed ==
    ASSUME NEW v \in Int, NEW a \in Int, NEW n \in Nat
    PROVE  AreaAfter(v, a, n) = ClosedArea(v, a, n)
<1> DEFINE Step(f) == [k \in 0 .. n |->
               IF k = 0 THEN 0 ELSE f[k - 1] + VelocityAt(v, a, k - 1) + VelocityAt(v, a, k)]
           area == CHOOSE f : f = Step(f)
           g == [k \in 0 .. n |-> ClosedArea(v, a, k)]
<1>1. g = Step(g)
  <2> SUFFICES ASSUME NEW k \in 0 .. n PROVE g[k] = Step(g)[k]
      OBVIOUS
  <2>1. CASE k = 0
      BY <2>1, ClosedAreaStep
  <2>2. CASE k # 0
    <3>1. k - 1 \in Nat /\ k - 1 \in 0 .. n /\ (k - 1) + 1 = k
        BY <2>2, SMT
    <3>2. ClosedArea(v, a, (k - 1) + 1) = ClosedArea(v, a, k - 1) + VelocityAt(v, a, k - 1)
                                       + VelocityAt(v, a, (k - 1) + 1)
        BY <3>1, ClosedAreaStep
    <3> QED BY <2>2, <3>1, <3>2
  <2> QED BY <2>1, <2>2
<1>2. area = Step(area)
    BY <1>1
<1>3. AreaAfter(v, a, n) = area[n]
    BY DEF AreaAfter
<1> HIDE DEF area
<1> DEFINE S == {k \in Nat : k <= n => area[k] = ClosedArea(v, a, k)}
<1>4. 0 \in S
  <2>1. 0 \in 0 .. n
      BY SMT
  <2> QED BY <1>2, <2>1, ClosedAreaStep
<1>5. ASSUME NEW k \in Nat, k \in S PROVE k + 1 \in S
  <2> SUFFICES ASSUME k + 1 <= n PROVE area[k + 1] = ClosedArea(v, a, k + 1)
      BY SMT
  <2>1. k + 1 \in 0 .. n /\ k + 1 # 0 /\ (k + 1) - 1 = k /\ k <= n
      BY SMT
  <2>2. area[k + 1] = area[k] + VelocityAt(v, a, k) + VelocityAt(v, a, k + 1)
      BY <1>2, <2>1
  <2>3. area[k] = ClosedArea(v, a, k)
      BY <1>5, <2>1
  <2> QED BY <2>2, <2>3, ClosedAreaStep
<1>6. n \in S
  <2> HIDE DEF S
  <2> QED BY <1>4, <1>5, InductionOverNat
<1> QED BY <1>3, <1>6

LEMMA DisplacementIsIntegral ==
    ASSUME NEW v \in Int, NEW a \in Int, NEW dt \in Int, dt > 0
    PROVE  Displacement(v, a, dt) = Integral(v, a, dt)
<1> DEFINE s == Clamp(v, MaxVelocity)  M == MaxVelocity  m == SubstepsToLimit(v, a)  d == Direction(a)
           rate == IF a > 0 THEN a ELSE -a
           n == dt * rate
           limit == IF a > 0 THEN MaxVelocity ELSE -MaxVelocity
           exceeds == (a > 0 /\ s + a * dt > MaxVelocity) \/ (a < 0 /\ s + a * dt < -MaxVelocity)
           num == (limit - s) * (limit + s) + 2 * limit * (a * dt - (limit - s))
<1>1. M \in Int /\ s \in Int /\ m \in Nat /\ m = M - d * s /\ -M <= s /\ s <= M
    BY VelocityInSubstep, ClampIsWithin, LimitsAssumption, SMT DEF SubstepsToLimit
<1>2. CASE a = 0
  <2>1. a * dt = 0
      BY <1>2, SMT
  <2>2. FiniteVelocity(v, a, dt) = s
      BY <1>1, <2>1, SMT DEF FiniteVelocity, Clamp
  <2> QED BY <1>2, <2>2 DEF Displacement, Integral
<1>3. CASE a # 0
  <2>1. /\ rate \in Nat /\ rate > 0
        /\ \/ a > 0 /\ d = 1 /\ a = rate /\ limit = M
           \/ a < 0 /\ d = -1 /\ a = -rate /\ limit = -M
      BY <1>3, SMT DEF Direction
  <2>2. n \in Nat /\ n > 0
      BY <2>1, SMT
  <2>3. a * dt = d * n
      BY <2>1, SMT
  <2>4. Integral(v, a, dt) = ClosedArea(v, a, n) \div rate
      BY <1>3, <2>2, AreaIsClosed DEF Integral
  <2>5. ClosedArea(v, a, n) = IF n <= m THEN 2 * s * n + d * (n * n)
                          ELSE 2 * s * m + d * (m * m) + 2 * d * M * (n - m)
      BY DEF ClosedArea
  <2>6. Displacement(v, a, dt) =
            IF s = limit THEN 2 * limit * dt
            ELSE IF exceeds THEN Ratio(num, a) ELSE 2 * s * dt + a * dt * dt
      BY <1>3 DEF Displacement
  <2>7. exceeds <=> n > m
      BY <1>1, <2>1, <2>2, <2>3, SMT
  <2>8. n = dt * rate
      OBVIOUS
  <2> HIDE DEF s, M, m, d, rate, n, limit, exceeds
  <2>9. CASE s = limit
    <3>1. m = 0
        BY <1>1, <2>1, <2>9, SMT
    <3>2. ClosedArea(v, a, n) = 2 * limit * n
      <4>1. ClosedArea(v, a, n) = 2 * d * M * n
        <5>1. ~(n <= 0) /\ n - 0 = n /\ d \in Int
            BY <2>1, <2>2, SMT
        <5>2. 2 * s * 0 = 0 /\ d * (0 * 0) = 0 /\ 2 * d * M * n \in Int
            BY <1>1, <2>2, <5>1, SMT
        <5>3. ClosedArea(v, a, n) = 2 * s * 0 + d * (0 * 0) + 2 * d * M * (n - 0)
            BY <2>5, <3>1, <5>1
        <5> QED BY <5>1, <5>2, <5>3, SMT
      <4>2. limit = d * M
          BY <1>1, <2>1, SMT
      <4> QED BY <1>1, <2>1, <2>2, <4>1, <4>2, SMT
    <3>3. limit \in Int
        BY <1>1, <2>1, SMT
    <3>4. 2 * limit * n = rate * (2 * limit * dt) /\ 2 * limit * dt \in Int
        BY <2>1, <2>8, <3>3, SMT
    <3> QED BY <2>1, <2>4, <2>6, <2>9, <3>2, <3>4, ExactQuotient
  <2>10. CASE s # limit /\ ~exceeds
    <3>1. ClosedArea(v, a, n) = 2 * s * n + d * (n * n)
        BY <1>1, <2>2, <2>5, <2>7, <2>10, SMT
    <3>2. 2 * s * n = rate * (2 * s * dt) /\ 2 * s * dt \in Int
        BY <1>1, <2>1, <2>8, SMT
    <3>3. d * (n * n) = rate * (a * dt * dt) /\ a * dt * dt \in Int
      <4>1. CASE d = 1 /\ a = rate
          BY <2>1, <2>8, <4>1, SMT
      <4>2. CASE d = -1 /\ a = -rate
          BY <2>1, <2>8, <4>2, SMT
      <4> QED BY <2>1, <4>1, <4>2
    <3>4. rate * (2 * s * dt + a * dt * dt) = rate * (2 * s * dt) + rate * (a * dt * dt)
          /\ 2 * s * dt + a * dt * dt \in Int
        BY <2>1, <3>2, <3>3, SMT
    <3> QED BY <2>1, <2>4, <2>6, <2>10, <3>1, <3>2, <3>3, <3>4, ExactQuotient
  <2>11. CASE s # limit /\ exceeds
    <3>1. ClosedArea(v, a, n) = 2 * s * m + d * (m * m) + 2 * d * M * (n - m)
        BY <1>1, <2>2, <2>5, <2>7, <2>11, SMT
    <3>2. CASE a > 0 /\ d = 1 /\ a = rate /\ limit = M
      <4>1. m = M - s /\ a * dt = n
          BY <1>1, <2>2, <2>3, <3>2, SMT
      <4>2. num = ClosedArea(v, a, n)
          BY <1>1, <2>2, <3>1, <3>2, <4>1, SMT
      <4> QED BY <2>4, <2>6, <2>11, <3>2, <4>2 DEF Ratio
    <3>3. CASE a < 0 /\ d = -1 /\ a = -rate /\ limit = -M
      <4>1. m = M + s /\ a * dt = -n
          BY <1>1, <2>2, <2>3, <3>3, SMT
      <4>2. -num = ClosedArea(v, a, n)
          BY <1>1, <2>2, <3>1, <3>3, <4>1, SMT
      <4>3. ~(a > 0) /\ -a = rate
          BY <2>1, <3>3, SMT
      <4> HIDE DEF num
      <4> QED BY <2>4, <2>6, <2>11, <4>2, <4>3 DEF Ratio
    <3> QED BY <2>1, <3>2, <3>3
  <2> QED BY <2>9, <2>10, <2>11
<1> QED BY <1>2, <1>3

-----------------------------------------------------------------------------
(* The steps of Robot. *)

(* RobotInv in terms of what a joint may hold. *)
NaNIsExplained ==
    \A j \in Joints : /\ position[j] = NaN => j \in startedNaN \/ endless
                      /\ velocity[j] = NaN => endless

Members ==
    /\ position \in [Joints -> SafePositions]
    /\ velocity \in [Joints -> SafeVelocities \cup {NaN}]
    /\ target \in [Joints -> AnyNumber]
    /\ motor \in [Joints -> AnyNumber]
    /\ canCommand \in Int
    /\ last \in {"construct", "call", "update", "no_time", "endless"}
    /\ startedNaN \subseteq Joints
    /\ endless \in BOOLEAN
    /\ calls \in 0 .. MaxCalls
    /\ NaNIsExplained
    /\ UpdatesAreSafe

LEMMA RobotInvMembers == (RobotInv => Members) /\ (Members' => RobotInv') /\ (Members => RobotInv)
<1>1. SafePositions \subseteq AnyNumber /\ SafeVelocities \cup {NaN} \subseteq AnyNumber
    BY LimitsAssumption, SMT DEF SafePositions, SafeVelocities, AnyNumber
<1>2. NaN \notin MinPosition .. MaxPosition /\ NaN \notin SafeVelocities
    BY NaNAssumption, LimitsAssumption, SMT DEF SafeVelocities
<1>3. RobotInv => Members
  <2> SUFFICES ASSUME RobotInv PROVE Members
      OBVIOUS
  <2>1. TypeOK /\ UpdatesAreSafe
      BY DEF RobotInv
  <2>2. ASSUME NEW j \in Joints
        PROVE  /\ position[j] \in SafePositions /\ velocity[j] \in SafeVelocities \cup {NaN}
               /\ position[j] = NaN => j \in startedNaN \/ endless
               /\ velocity[j] = NaN => endless
      BY <1>2 DEF RobotInv, JointsWithinLimits, SafePositions, SafeVelocities
  <2> QED BY <2>1, <2>2 DEF Members, TypeOK, NaNIsExplained, AnyNumber
<1>4. Members => RobotInv
  <2> SUFFICES ASSUME Members PROVE RobotInv
      OBVIOUS
  <2>1. TypeOK /\ UpdatesAreSafe
      BY <1>1 DEF Members, TypeOK, AnyNumber
  <2>2. JointsWithinLimits
      BY DEF Members, NaNIsExplained, JointsWithinLimits, SafePositions, SafeVelocities
  <2> QED BY <2>1, <2>2 DEF RobotInv
<1>5. Members' => RobotInv'
  <2> SUFFICES ASSUME Members' PROVE RobotInv'
      OBVIOUS
  <2>1. TypeOK' /\ UpdatesAreSafe'
      BY <1>1 DEF Members, TypeOK, AnyNumber
  <2>2. JointsWithinLimits'
      BY DEF Members, NaNIsExplained, JointsWithinLimits, SafePositions, SafeVelocities
  <2> QED BY <2>1, <2>2 DEF RobotInv
<1> QED BY <1>3, <1>4, <1>5

LEMMA InitRobotInv == Init => RobotInv
<1> SUFFICES ASSUME Init PROVE RobotInv
    OBVIOUS
<1>1. /\ 0 \in SafePositions /\ 0 \in SafeVelocities /\ 0 \in AnyNumber /\ 0 \in Int
      /\ 0 \in 0 .. MaxCalls
    BY LimitsAssumption, InputsAssumption, SMT DEF SafePositions, SafeVelocities, AnyNumber
<1>2. UpdatesAreSafe
    BY DEF Init, UpdatesAreSafe
<1>3. NaNIsExplained
  <2>1. 0 # NaN
      BY NaNAssumption, SMT
  <2> QED BY <2>1 DEF Init, NaNIsExplained
<1> QED BY <1>1, <1>2, <1>3, RobotInvMembers DEF Init, Members

(* Every kind of update, also one without time and an endless one. *)
LEMMA AdvanceKeepsInv ==
    ASSUME RobotInv, NEW command \in [Joints -> SafeCommands], NEW dt \in AnyStep,
           Advance(command, dt),
           target' \in [Joints -> AnyNumber], UNCHANGED <<canCommand, calls>>
    PROVE  /\ RobotInv'
           /\ last' # "no_time" => \A j \in Joints : velocity'[j] = NaN => position'[j] = NaN
<1> DEFINE moved == [j \in Joints |-> Moved(j, command[j], dt)]
           final == [j \in Joints |-> FinalVelocity(velocity[j], command[j], dt)]
<1>1. /\ position \in [Joints -> SafePositions]
      /\ velocity \in [Joints -> SafeVelocities \cup {NaN}]
      /\ canCommand' \in Int /\ calls' \in 0 .. MaxCalls
      /\ startedNaN' \subseteq Joints /\ startedNaN' = startedNaN /\ endless \in BOOLEAN
      /\ NaNIsExplained
    BY RobotInvMembers DEF Members, Advance
<1>2. /\ SafePositions \subseteq AnyNumber /\ SafeVelocities \cup {NaN} \subseteq AnyNumber
      /\ SafeCommands \subseteq Int /\ SafeCommands \subseteq AnyNumber
      /\ 0 \in SafeCommands /\ 0 \in SafeVelocities
    BY LimitsAssumption, SMT DEF SafePositions, SafeVelocities, SafeCommands, AnyNumber
<1>3. CASE ~(dt \in Int /\ dt <= 0)
  <2>1. /\ position' = [j \in Joints |-> IF Stops(moved[j]) THEN Stopped(moved[j]) ELSE moved[j]]
        /\ velocity' = [j \in Joints |-> IF Stops(moved[j]) THEN 0 ELSE final[j]]
        /\ motor' = [j \in Joints |-> IF Stops(moved[j]) THEN 0 ELSE command[j]]
        /\ IF dt \in Int THEN last' = "update" /\ UNCHANGED endless
                         ELSE last' = "endless" /\ endless' = TRUE
      BY <1>3 DEF Advance, Simulate
  <2>2. ASSUME NEW j \in Joints
        PROVE  /\ \/ final[j] \in SafeVelocities
                  \/ final[j] = NaN /\ (velocity[j] = NaN \/ dt \notin Int)
               /\ \/ moved[j] \in Int /\ final[j] # NaN
                  \/ moved[j] = NaN /\ (position[j] = NaN \/ final[j] = NaN)
    <3>1. position[j] \in AnyNumber /\ velocity[j] \in AnyNumber /\ command[j] \in Int
        BY <1>1, <1>2
    <3>2. moved[j] = Moved(j, command[j], dt) /\ final[j] = FinalVelocity(velocity[j], command[j], dt)
        OBVIOUS
    <3> HIDE DEF moved, final
    <3>3. \/ moved[j] \in Int /\ final[j] # NaN
          \/ moved[j] = NaN /\ (position[j] = NaN \/ final[j] = NaN)
        BY <3>1, <3>2, MovedIsNumber
    <3>4. \/ final[j] \in SafeVelocities
          \/ final[j] = NaN /\ (velocity[j] = NaN \/ dt \notin Int)
        BY <3>1, <3>2, FinalVelocityIsSafe
    <3> QED BY <3>3, <3>4
  <2> HIDE DEF moved, final
  <2>3. {MinPosition, MaxPosition} \subseteq SafePositions /\ NaN \notin {MinPosition, MaxPosition}
        /\ 0 # NaN
      BY LimitsAssumption, NaNAssumption, SMT DEF SafePositions
  <2>4. ASSUME NEW j \in Joints
        PROVE  /\ position'[j] \in SafePositions
               /\ velocity'[j] \in SafeVelocities \cup {NaN}
               /\ motor'[j] \in SafeCommands
               /\ position'[j] \in {MinPosition, MaxPosition} => velocity'[j] = 0 /\ motor'[j] = 0
               /\ position'[j] = NaN => position[j] = NaN \/ final[j] = NaN
               /\ velocity'[j] = NaN => final[j] = NaN /\ position'[j] = NaN
    <3>1. moved[j] \in AnyNumber
        BY <2>2 DEF AnyNumber
    <3>2. CASE Stops(moved[j])
      <4>1. position'[j] = Stopped(moved[j]) /\ velocity'[j] = 0 /\ motor'[j] = 0
          BY <2>1, <3>2
      <4>2. position'[j] \in {MinPosition, MaxPosition}
          BY <3>1, <3>2, <4>1, StoppedIsSafe
      <4> QED BY <1>2, <2>3, <4>1, <4>2
    <3>3. CASE ~Stops(moved[j])
      <4>1. position'[j] = moved[j] /\ velocity'[j] = final[j] /\ motor'[j] = command[j]
          BY <2>1, <3>3
      <4>2. moved[j] \in SafePositions /\ moved[j] \notin {MinPosition, MaxPosition}
          BY <3>1, <3>3, StoppedIsSafe
      <4>3. moved[j] \in Int => moved[j] # NaN
          BY NaNAssumption
      <4> QED BY <2>2, <4>1, <4>2, <4>3
    <3> QED BY <3>2, <3>3
  <2>5. ASSUME NEW j \in Joints
        PROVE  /\ position'[j] = NaN => j \in startedNaN' \/ endless'
               /\ velocity'[j] = NaN => endless'
    <3>1. dt \notin Int => endless'
        BY <2>1
    <3>2. endless => endless'
        BY <2>1
    <3>3. final[j] = NaN => endless'
      <4>1. NaN \notin SafeVelocities
          BY NaNAssumption, LimitsAssumption, SMT DEF SafeVelocities
      <4> QED BY <1>1, <2>2, <3>1, <3>2, <4>1 DEF NaNIsExplained
    <3>4. position[j] = NaN => j \in startedNaN \/ endless
        BY <1>1 DEF NaNIsExplained
    <3> QED BY <1>1, <2>4, <3>2, <3>3, <3>4
  <2>6. position' \in [Joints -> SafePositions] /\ velocity' \in [Joints -> SafeVelocities \cup {NaN}]
        /\ motor' \in [Joints -> AnyNumber]
      BY <1>2, <2>1, <2>4
  <2>7. UpdatesAreSafe'
      BY <2>4 DEF UpdatesAreSafe, SafeCommands
  <2>8. endless' \in BOOLEAN /\ last' \in {"update", "endless"}
      BY <1>1, <2>1
  <2>9. Members'
      BY <1>1, <2>5, <2>6, <2>7, <2>8 DEF Members, NaNIsExplained
  <2> QED BY <2>4, <2>9, RobotInvMembers
<1>4. CASE dt \in Int /\ dt <= 0
  <2>1. /\ position' = position /\ velocity' = velocity /\ motor' = command
        /\ last' = "no_time" /\ endless' = endless
      BY <1>4 DEF Advance
  <2>2. UpdatesAreSafe'
      BY <2>1 DEF UpdatesAreSafe, SafeCommands
  <2>3. motor' \in [Joints -> AnyNumber]
      BY <1>2, <2>1
  <2>4. NaNIsExplained'
      BY <1>1, <2>1 DEF NaNIsExplained
  <2> QED BY <1>1, <2>1, <2>2, <2>3, <2>4, RobotInvMembers DEF Members
<1> QED BY <1>3, <1>4

LEMMA UpdateKeepsInv == ASSUME RobotInv, NEW dt \in AnyStep, Update(dt) PROVE RobotInv'
<1> DEFINE command == [j \in Joints |-> Commanded(j, target[j])]
<1>1. target' = target /\ target \in [Joints -> AnyNumber] /\ UNCHANGED <<canCommand, calls>>
    BY RobotInvMembers DEF Update, Members
<1>2. command \in [Joints -> SafeCommands]
    BY CommandedIsSafe DEF RobotInv, TypeOK, AnyNumber
<1>3. Advance(command, dt)
    BY DEF Update
<1> HIDE DEF command
<1> QED BY <1>1, <1>2, <1>3, AdvanceKeepsInv

LEMMA ControlCycleKeepsInv ==
    ASSUME RobotInv, ControlCycle
    PROVE  /\ RobotInv' /\ last' = "update" /\ endless' = endless
           /\ \A j \in Joints : velocity'[j] = NaN => position'[j] = NaN
<1>0. PICK goal \in TargetsRead :
        /\ target' = goal
        /\ Advance([j \in Joints |-> Commanded(j, goal[j])], ControlStep)
        /\ UNCHANGED <<canCommand, calls>>
    BY DEF ControlCycle
<1> DEFINE command == [j \in Joints |-> Commanded(j, goal[j])]
<1>1. goal \in [Joints -> AnyNumber]
    BY DEF TargetsRead, RobotInv, TypeOK, AnyNumber
<1>2. Advance(command, ControlStep)
    BY <1>0
<1>3. command \in [Joints -> SafeCommands]
    BY <1>1, CommandedIsSafe DEF RobotInv, TypeOK, AnyNumber
<1> HIDE DEF command
<1>4. ControlStep \in Int /\ ~(ControlStep <= 0) /\ ControlStep \in AnyStep
    BY StepsAssumption, SMT DEF AnyStep
<1>5. last' = "update" /\ endless' = endless
    BY <1>2, <1>4 DEF Advance, Simulate
<1> QED BY <1>0, <1>1, <1>2, <1>3, <1>4, <1>5, AdvanceKeepsInv

LEMMA CallKeepsInv ==
    ASSUME RobotInv, NEW j \in Joints,
           \/ \E p \in Positions : InitializeJointPosition(j, p)
           \/ \E p \in Targets : SetJointTargetPosition(j, p)
           \/ \E a \in Accelerations : SetJointAcceleration(j, a)
           \/ \E p \in Int : PublishCommand(p)
    PROVE  RobotInv' /\ endless' = endless
<1>1. Members
    BY RobotInvMembers
<1>2. calls' \in 0 .. MaxCalls /\ last' = "call"
  <2>1. Called
      BY DEF InitializeJointPosition, SetJointTargetPosition, SetJointAcceleration, PublishCommand
  <2> QED BY <1>1, <2>1, InputsAssumption, SMT DEF Called, Members
<1>3. UpdatesAreSafe'
    BY <1>2 DEF UpdatesAreSafe
<1>4. /\ position' \in [Joints -> SafePositions]
      /\ velocity' = velocity
      /\ target' \in [Joints -> AnyNumber]
      /\ motor' \in [Joints -> AnyNumber]
      /\ canCommand' \in Int
      /\ startedNaN' \subseteq Joints
      /\ endless' = endless
      /\ NaNIsExplained'
  <2>1. ASSUME NEW p \in Positions, InitializeJointPosition(j, p)
        PROVE  p \in SafePositions
    <3>1. p \in Int \/ p = NaN
        BY InputsAssumption
    <3> QED BY <2>1, <3>1, LimitsAssumption, SMT DEF InitializeJointPosition, SafePositions
  <2>2. CASE \E p \in Positions : InitializeJointPosition(j, p)
    <3>1. PICK p \in Positions : InitializeJointPosition(j, p)
        BY <2>2
    <3>2. /\ position' = [position EXCEPT ![j] = p]
          /\ startedNaN' = IF p = NaN THEN startedNaN \cup {j} ELSE startedNaN \ {j}
          /\ UNCHANGED <<velocity, target, motor, canCommand, endless>>
        BY <3>1 DEF InitializeJointPosition
    <3>3. NaNIsExplained'
        BY <1>1, <3>2 DEF NaNIsExplained, Members
    <3> QED BY <1>1, <2>1, <3>1, <3>2, <3>3 DEF Members
  <2>3. CASE \E p \in Targets : SetJointTargetPosition(j, p)
      BY <1>1, <2>3, InputsAssumption
      DEF SetJointTargetPosition, AnyNumber, Members, NaNIsExplained, history
  <2>4. CASE \E a \in Accelerations : SetJointAcceleration(j, a)
      BY <1>1, <2>4, InputsAssumption
      DEF SetJointAcceleration, AnyNumber, Members, NaNIsExplained, history
  <2>5. CASE \E p \in Int : PublishCommand(p)
      BY <1>1, <2>5 DEF PublishCommand, Members, NaNIsExplained, history
  <2> QED BY <2>2, <2>3, <2>4, <2>5
<1>5. Members'
    BY <1>1, <1>2, <1>3, <1>4 DEF Members
<1> QED BY <1>4, <1>5, RobotInvMembers

LEMMA StutterKeepsRobotInv == RobotInv /\ UNCHANGED vars => RobotInv'
BY DEF vars, history, RobotInv, TypeOK, JointsWithinLimits, UpdatesAreSafe

(* The robot alone, commanded by whole numbers of any size: no joint leaves its    *)
(* limits but for NaN, and every update leaves a safe command (README.md:687).     *)
THEOREM RobotIsSafe == Spec => [](JointsWithinLimits /\ UpdatesAreSafe)
<1>1. RobotInv /\ [Next]_vars => RobotInv'
  <2> SUFFICES ASSUME RobotInv, [Next]_vars PROVE RobotInv'
      OBVIOUS
  <2>1. CASE Call
    <3>1. CanJoint \in Joints /\ Commands \subseteq Int
        BY InputsAssumption
    <3> QED BY <2>1, <3>1, CallKeepsInv DEF Call
  <2>2. CASE \E dt \in TimeSteps : Update(dt)
      BY <2>2, UpdateKeepsInv, StepsAssumption DEF AnyStep
  <2> QED BY <2>1, <2>2, ControlCycleKeepsInv, StutterKeepsRobotInv DEF Next
<1>2. RobotInv => JointsWithinLimits /\ UpdatesAreSafe
    BY DEF RobotInv
<1> QED BY <1>1, <1>2, InitRobotInv, PTL DEF Spec

-----------------------------------------------------------------------------
(* The robot on the bus. *)

LEMMA InitRobotOnCanInv == CanInit => RobotOnCanInv
<1> SUFFICES ASSUME CanInit PROVE RobotOnCanInv
    OBVIOUS
<1>1. RobotInv
    BY InitRobotInv DEF CanInit
<1>2. canState.position = 0 /\ canState.velocity = 0
    BY DEF CanInit
<1>3. 0 \in MinPosition .. MaxPosition /\ 0 \in -MaxVelocity .. MaxVelocity
    BY LimitsAssumption, SMT
<1> QED BY <1>1, <1>2, <1>3 DEF RobotOnCanInv, PublishedIsSafe

LEMMA StepKeepsRobotOnCanInv == RobotOnCanInv /\ [CanNext]_canVars => RobotOnCanInv'
<1> SUFFICES ASSUME RobotOnCanInv, [CanNext]_canVars PROVE RobotOnCanInv'
    OBVIOUS
<1> USE DEF RobotOnCanInv
<1>1. ASSUME canState' = canState, endless => endless'
      PROVE  PublishedIsSafe'
    BY <1>1 DEF PublishedIsSafe
<1>2. ASSUME NEW p \in Commands, SendCommand(p)
      PROVE  RobotOnCanInv'
  <2>1. PICK received \in Received(p, PositionHundredth) : PublishCommand(received)
      BY <1>2 DEF SendCommand
  <2>2. received \in Int /\ CanJoint \in Joints
      BY ReceivedIsInt, ResolutionAssumption, InputsAssumption
  <2>3. RobotInv' /\ endless' = endless
      BY <2>1, <2>2, CallKeepsInv
  <2> QED BY <1>1, <1>2, <2>3 DEF SendCommand
<1>3. CASE CanCycle
  <2>1. /\ RobotInv' /\ last' = "update" /\ endless' = endless
        /\ velocity'[CanJoint] = NaN => position'[CanJoint] = NaN
      BY <1>3, ControlCycleKeepsInv, InputsAssumption DEF CanCycle
  <2>2. canState' = [position |-> position'[CanJoint], velocity |-> velocity'[CanJoint]]
      BY <1>3, InputsAssumption DEF CanCycle, PublishState, State
  <2>3. /\ position'[CanJoint] \in (MinPosition .. MaxPosition) \cup {NaN}
        /\ \/ velocity'[CanJoint] \in -MaxVelocity .. MaxVelocity
           \/ velocity'[CanJoint] = NaN /\ endless'
        /\ position'[CanJoint] \in {MinPosition, MaxPosition} => velocity'[CanJoint] = 0
      BY <2>1, InputsAssumption DEF RobotInv, JointsWithinLimits, UpdatesAreSafe
  <2>4. canState'.position = position'[CanJoint] /\ canState'.velocity = velocity'[CanJoint]
      BY <2>2
  <2> QED BY <2>1, <2>3, <2>4 DEF PublishedIsSafe
<1>4. CASE OwnerCall
    BY <1>1, <1>4, CallKeepsInv DEF OwnerCall
<1>5. CASE DirectUpdate
  <2>1. PICK dt \in AnyStep : Update(dt)
      BY <1>5, StepsAssumption DEF DirectUpdate, AnyStep
  <2>2. endless => endless'
      BY <2>1 DEF Update, Advance, Simulate
  <2> QED BY <1>1, <1>5, <2>1, <2>2, UpdateKeepsInv DEF DirectUpdate
<1>6. CASE UNCHANGED canVars
    BY <1>1, <1>6, StutterKeepsRobotInv DEF canVars, vars, history
<1> QED BY <1>2, <1>3, <1>4, <1>5, <1>6 DEF CanNext

LEMMA RobotOnCanInvariant == CanSpec => []RobotOnCanInv
BY InitRobotOnCanInv, StepKeepsRobotOnCanInv, PTL DEF CanSpec

(* No command that crosses the bus, one whose cast is undefined included, takes a  *)
(* joint out of its limits, and only its own initialisation or an endless time     *)
(* step turns its position into NaN.                                               *)
THEOREM LimitsHoldOnCan == CanSpec => []JointsWithinLimits
<1>1. RobotOnCanInv => JointsWithinLimits
    BY DEF RobotOnCanInv, RobotInv
<1> QED BY <1>1, RobotOnCanInvariant, PTL

(* After every update the motors hold a command that passed the safety layer.      *)
THEOREM SafeUpdatesOnCan == CanSpec => []UpdatesAreSafe
<1>1. RobotOnCanInv => UpdatesAreSafe
    BY DEF RobotOnCanInv, RobotInv
<1> QED BY <1>1, RobotOnCanInvariant, PTL

(* The state other stations receive is the joint's, truncated by at most a         *)
(* hundredth, within the limits; its casts are undefined only for NaN, which takes *)
(* an initialisation at NaN or an endless time step.                               *)
THEOREM StateArrives == CanSpec => []TransmittedStateIsNear
<1>1. ASSUME NEW low \in Int, NEW high \in Int, low <= 0, 0 <= high, NEW h \in Nat, h > 0,
             Fits(low, h), Fits(high, h), NEW x \in low .. high
      PROVE  /\ Fits(x, h)
             /\ \A y \in Received(x, h) : IsNear(y, x, h) /\ y \in low .. high
  <2>1. Fits(x, h)
      BY <1>1, RangeFits
  <2> SUFFICES ASSUME NEW y \in Received(x, h) PROVE IsNear(y, x, h) /\ y \in low .. high
      BY <2>1
  <2>2. PICK n \in Truncations(x, h) : y = h * n
      BY <2>1, ReceivedIsTruncated
  <2>3. x \in Int
      BY SMT
  <2>4. y \in Int /\ IsNear(y, x, h)
      BY <1>1, <2>2, <2>3, TruncationIsNear
  <2>5. (x >= 0 => 0 <= y /\ y <= x) /\ (x <= 0 => x <= y /\ y <= 0)
      BY <2>3, <2>4, NearIsBetween
  <2> QED BY <1>1, <2>3, <2>4, <2>5, SMT
<1>2. RobotOnCanInv => TransmittedStateIsNear
  <2> SUFFICES ASSUME PublishedIsSafe PROVE TransmittedStateIsNear
      BY DEF RobotOnCanInv
  <2>1. /\ PositionHundredth \in Nat /\ PositionHundredth > 0
        /\ VelocityHundredth \in Nat /\ VelocityHundredth > 0
        /\ -MaxVelocity \in Int /\ MaxVelocity \in Int /\ -MaxVelocity <= 0 /\ 0 <= MaxVelocity
      BY ResolutionAssumption, LimitsAssumption, SMT
  <2>2. canState.position # NaN => canState.position \in MinPosition .. MaxPosition
      BY DEF PublishedIsSafe
  <2>3. canState.velocity # NaN => canState.velocity \in -MaxVelocity .. MaxVelocity
      BY DEF PublishedIsSafe
  <2>4. canState.position # NaN =>
          /\ Fits(canState.position, PositionHundredth)
          /\ \A y \in Received(canState.position, PositionHundredth) :
               IsNear(y, canState.position, PositionHundredth) /\ y \in MinPosition .. MaxPosition
      BY <1>1, <2>1, <2>2, LimitsAssumption, RangeAssumption
  <2>5. canState.velocity # NaN =>
          /\ Fits(canState.velocity, VelocityHundredth)
          /\ \A y \in Received(canState.velocity, VelocityHundredth) :
               IsNear(y, canState.velocity, VelocityHundredth) /\ y \in -MaxVelocity .. MaxVelocity
      BY <1>1, <2>1, <2>3, RangeAssumption
  <2>6. canState.velocity = NaN => endless /\ canState.position = NaN
    <3>1. NaN \notin -MaxVelocity .. MaxVelocity
        BY <2>1, NaNAssumption, SMT
    <3> QED BY <3>1 DEF PublishedIsSafe
  <2> QED BY <2>4, <2>5, <2>6 DEF PublishedIsSafe, TransmittedStateIsNear
<1> QED BY <1>2, RobotOnCanInvariant, PTL

(* A target that fits 32 bits reaches CanCommandBuffer as a whole number of        *)
(* hundredths, the next one towards zero or the target itself, whatever its sign.  *)
THEOREM CommandArrivesTruncated == CanSpec => CommandIsTruncated
<1>1. ASSUME NEW p \in Commands, SendCommand(p), Fits(p, PositionHundredth)
      PROVE  IsTruncated(canCommand', p, PositionHundredth)
  <2>1. PICK received \in Received(p, PositionHundredth) : PublishCommand(received)
      BY <1>1 DEF SendCommand
  <2>2. PICK n \in Truncations(p, PositionHundredth) : received = PositionHundredth * n
      BY <1>1, ReceivedIsTruncated
  <2>3. p \in Int /\ PositionHundredth \in Nat /\ PositionHundredth > 0
      BY InputsAssumption, ResolutionAssumption, SMT
  <2>4. n \in Int /\ received \in Int /\ IsNear(received, p, PositionHundredth)
      BY <2>2, <2>3, TruncationIsNear
  <2>5. Abs(received) % PositionHundredth = 0
      BY <2>2, <2>3, <2>4, MultipleHasNoRemainder
  <2> QED BY <2>1, <2>4, <2>5 DEF PublishCommand, IsTruncated
<1>2. [CanNext]_canVars =>
        [\A p \in Commands :
           SendCommand(p) /\ Fits(p, PositionHundredth) =>
             IsTruncated(canCommand', p, PositionHundredth)]_canVars
    BY <1>1
<1> QED BY <1>2, PTL DEF CanSpec, CommandIsTruncated

(* What a step of the simulator makes of a joint's position. *)
LEMMA SimulationIsIntegral ==
    ASSUME RobotInv, NEW command \in [Joints -> SafeCommands], NEW dt \in Int, dt > 0,
           Advance(command, dt), NEW j \in Joints
    PROVE  position'[j] =
             IF NaN \in {position[j], velocity[j]} THEN NaN
             ELSE Within(position[j] + Integral(velocity[j], command[j], dt))
<1> DEFINE moved == [i \in Joints |-> Moved(i, command[i], dt)]
<1>1. position' = [i \in Joints |-> IF Stops(moved[i]) THEN Stopped(moved[i]) ELSE moved[i]]
    BY SMT DEF Advance, Simulate
<1>2. moved[j] = Moved(j, command[j], dt)
    OBVIOUS
<1>3. /\ position[j] \in AnyNumber /\ velocity[j] \in AnyNumber
      /\ command[j] \in Int
  <2>1. SafeCommands \subseteq Int
      BY LimitsAssumption, SMT DEF SafeCommands
  <2> QED BY <2>1 DEF RobotInv, TypeOK, AnyNumber
<1> HIDE DEF moved
<1>4. CASE NaN \in {position[j], velocity[j]}
  <2>1. Moved(j, command[j], dt) = NaN
      BY <1>4 DEF Moved, FinalVelocity
  <2> QED BY <1>1, <1>2, <1>4, <2>1 DEF Stops
<1>5. CASE NaN \notin {position[j], velocity[j]}
  <2> DEFINE p == position[j] + Displacement(velocity[j], command[j], dt)
  <2>0. position[j] \in Int /\ velocity[j] \in Int
      BY <1>3, <1>5 DEF AnyNumber
  <2>1. moved[j] = p
    <3>1. dt # NaN /\ dt # Infinity
        BY NaNAssumption
    <3>2. FinalVelocity(velocity[j], command[j], dt) \in SafeVelocities
      <4>1. FinalVelocity(velocity[j], command[j], dt) = FiniteVelocity(velocity[j], command[j], dt)
          BY <1>5, <3>1 DEF FinalVelocity
      <4> QED BY <1>3, <2>0, <4>1, FiniteVelocityIsSafe
    <3>3. NaN \notin SafeVelocities
        BY NaNAssumption, LimitsAssumption, SMT DEF SafeVelocities
    <3> QED BY <1>2, <1>5, <3>1, <3>2, <3>3 DEF Moved
  <2>2. p \in Int
    <3>1. Displacement(velocity[j], command[j], dt) \in Int
        BY <1>3, <2>0, DisplacementIsInt
    <3> QED BY <2>0, <3>1, SMT
  <2>3. p = position[j] + Integral(velocity[j], command[j], dt)
      BY <1>3, <2>0, DisplacementIsIntegral
  <2> HIDE DEF p
  <2>4. (IF Stops(p) THEN Stopped(p) ELSE p) = Within(p)
    <3>1. p # NaN
        BY <2>2, NaNAssumption
    <3> QED BY <2>2, <3>1, LimitsAssumption, SMT DEF Stops, Stopped, Within
  <2> QED BY <1>1, <1>5, <2>1, <2>3, <2>4
<1> QED BY <1>4, <1>5

(* For any limits, gains and inputs, the simulator's four cases compute the integral *)
(* of the limited velocity and stop a joint exactly at its limits, in direct updates *)
(* and control cycles alike.                                                         *)
THEOREM SimulatorIntegrates == CanSpec => MotionIsIntegral
<1> DEFINE Steps == {d \in (TimeSteps \cap Int) \cup {ControlStep} : d > 0}
           IsIntegral(dt) ==
             \A j \in Joints :
               position'[j] =
                 IF NaN \in {position[j], velocity[j]} THEN NaN
                 ELSE Within(position[j] + Integral(velocity[j], Commanded(j, target'[j]), dt))
<1>1. ASSUME RobotInv, NEW dt \in AnyStep, Update(dt), last' = "update"
      PROVE  dt \in Int /\ dt > 0 /\ IsIntegral(dt)
  <2> DEFINE command == [j \in Joints |-> Commanded(j, target[j])]
  <2>1. command \in [Joints -> SafeCommands]
      BY <1>1, CommandedIsSafe DEF RobotInv, TypeOK, AnyNumber
  <2>2. Advance(command, dt) /\ target' = target
      BY <1>1 DEF Update
  <2>3. \A j \in Joints : command[j] = Commanded(j, target'[j])
      BY <2>2
  <2> HIDE DEF command
  <2>4. dt \in Int /\ dt > 0
    <3>1. dt \in Int /\ ~(dt <= 0)
        BY <1>1, <2>2 DEF Advance, Simulate
    <3> QED BY <3>1, SMT
  <2> QED BY <1>1, <2>1, <2>2, <2>3, <2>4, SimulationIsIntegral
<1>2. ASSUME RobotInv, ControlCycle
      PROVE  IsIntegral(ControlStep)
  <2>0. PICK goal \in TargetsRead :
          /\ target' = goal
          /\ Advance([j \in Joints |-> Commanded(j, goal[j])], ControlStep)
      BY <1>2 DEF ControlCycle
  <2> DEFINE command == [j \in Joints |-> Commanded(j, goal[j])]
  <2>1. goal \in [Joints -> AnyNumber] /\ Advance(command, ControlStep)
      BY <1>2, <2>0 DEF TargetsRead, RobotInv, TypeOK, AnyNumber
  <2>2. \A j \in Joints : command[j] = Commanded(j, target'[j])
      BY <2>0
  <2>3. command \in [Joints -> SafeCommands]
      BY <1>2, <2>1, CommandedIsSafe DEF RobotInv, TypeOK, AnyNumber
  <2> HIDE DEF command
  <2>4. ControlStep \in Int /\ ControlStep > 0
      BY StepsAssumption, SMT
  <2> QED BY <1>2, <2>1, <2>2, <2>3, <2>4, SimulationIsIntegral
<1>3. RobotOnCanInv /\ [CanNext]_canVars =>
        [last' = "update" => \E dt \in Steps : IsIntegral(dt)]_vars
  <2> SUFFICES ASSUME RobotInv, CanNext \/ UNCHANGED vars, ~UNCHANGED vars, last' = "update"
               PROVE  \E dt \in Steps : IsIntegral(dt)
      BY DEF RobotOnCanInv, canVars
  <2> HIDE DEF IsIntegral
  <2>1. ASSUME Called PROVE FALSE
      BY <2>1 DEF Called
  <2>2. CASE CanCycle
    <3>1. ControlStep \in Steps
        BY StepsAssumption, SMT
    <3> QED BY <1>2, <2>2, <3>1 DEF CanCycle
  <2>3. CASE DirectUpdate
    <3>1. PICK dt \in TimeSteps : Update(dt)
        BY <2>3 DEF DirectUpdate
    <3>2. dt \in Int /\ dt > 0 /\ IsIntegral(dt)
        BY <1>1, <3>1, StepsAssumption DEF AnyStep
    <3> QED BY <3>2
  <2>4. CASE \E p \in Commands : SendCommand(p)
      BY <2>1, <2>4 DEF SendCommand, PublishCommand
  <2>5. CASE OwnerCall
      BY <2>1, <2>5 DEF OwnerCall, InitializeJointPosition, SetJointTargetPosition,
                        SetJointAcceleration
  <2> QED BY <2>2, <2>3, <2>4, <2>5 DEF CanNext
<1>4. MotionIsIntegral <=> [][last' = "update" => \E dt \in Steps : IsIntegral(dt)]_vars
    BY DEF MotionIsIntegral
<1> QED BY <1>3, <1>4, RobotOnCanInvariant, PTL DEF CanSpec
=============================================================================
