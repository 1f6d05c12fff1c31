----------------------- MODULE NumericConvertersProofs -----------------------
(***************************************************************************)
(* Proofs about NumericConverters, for integers and significands of any    *)
(* width.                                                                  *)
(***************************************************************************)
EXTENDS NumericConverters, FiniteSetTheorems, WellFoundedInduction, TLAPS

-----------------------------------------------------------------------------
(* Induction over the numbers, with the set of those that have been shown. *)
LEMMA LeastOf ==
  ASSUME NEW T \in SUBSET Nat, T # {}
  PROVE  \E x \in T : \A y \in T : x <= y
<1> DEFINE R == {ss \in Nat \X Nat : ss[1] < ss[2]}
<1>1. IsWellFoundedOn(R, Nat)
  BY NatLessThanWellFounded, Zenon DEF OpToRel
<1>2. \A x, y \in Nat : y < x => <<y, x>> \in R
  OBVIOUS
<1> HIDE DEF R
<1>3. PICK x \in T : \A y \in T : ~(<<y, x>> \in R)
  BY <1>1, WFMin
<1>4. \A y \in T : ~(y < x)
  BY <1>2, <1>3, Zenon
<1> QED BY <1>4

LEMMA Induction ==
  ASSUME NEW S \in SUBSET Nat, 0 \in S, \A n \in S : n + 1 \in S
  PROVE  S = Nat
<1> SUFFICES ASSUME Nat \ S # {} PROVE FALSE
  OBVIOUS
<1>1. PICK x \in Nat \ S : \A y \in Nat \ S : x <= y
  BY LeastOf
<1>2. x # 0 /\ x - 1 \in Nat /\ x - 1 \notin Nat \ S
  BY <1>1
<1>3. x - 1 \in S
  BY <1>2
<1>4. (x - 1) + 1 = x
  OBVIOUS
<1>5. x \in S
  BY <1>3, <1>4
<1> QED BY <1>5

-----------------------------------------------------------------------------
(* Powers of two, as the numbers of subsets.                               *)
Pow(n) == 2 ^ n

LEMMA PowCounts ==
  ASSUME NEW n \in Nat
  PROVE  IsFiniteSet(SUBSET (1 .. n)) /\ Pow(n) = Cardinality(SUBSET (1 .. n)) /\ Pow(n) \in Nat
<1>1. IsFiniteSet(1 .. n) /\ Cardinality(1 .. n) = n
  BY FS_Interval
<1>2. IsFiniteSet(SUBSET (1 .. n)) /\ Cardinality(SUBSET (1 .. n)) = 2 ^ n
  BY <1>1, FS_SUBSET
<1>3. Cardinality(SUBSET (1 .. n)) \in Nat
  BY <1>2, FS_CardinalityType
<1> QED BY <1>2, <1>3 DEF Pow

LEMMA PowZero == Pow(0) = 1
BY DEF Pow

(* Half of the subsets of 1 .. n + 1 are those of 1 .. n, and the others   *)
(* are those with n + 1 added.                                             *)
LEMMA PowNext ==
  ASSUME NEW n \in Nat
  PROVE  Pow(n + 1) = 2 * Pow(n)
<1> DEFINE A == SUBSET (1 .. n)
           B == {S \cup {n + 1} : S \in A}
<1>1. IsFiniteSet(A) /\ Cardinality(A) = Pow(n) /\ Pow(n) \in Nat
  BY PowCounts
<1>2. Pow(n + 1) = Cardinality(SUBSET (1 .. n + 1))
  <2>1. n + 1 \in Nat
    OBVIOUS
  <2> QED BY <2>1, PowCounts
<1>3. n + 1 \notin 1 .. n /\ 1 .. n + 1 = (1 .. n) \cup {n + 1}
  OBVIOUS
<1>4. SUBSET (1 .. n + 1) = A \cup B
  <2>1. ASSUME NEW T \in SUBSET (1 .. n + 1) PROVE T \in A \cup B
    <3>1. CASE n + 1 \notin T
      BY <1>3, <3>1
    <3>2. CASE n + 1 \in T
      <4>1. T \ {n + 1} \in A /\ T = (T \ {n + 1}) \cup {n + 1}
        BY <1>3, <3>2
      <4> QED BY <4>1
    <3> QED BY <3>1, <3>2
  <2>2. ASSUME NEW T \in A \cup B PROVE T \in SUBSET (1 .. n + 1)
    BY <1>3
  <2> QED BY <2>1, <2>2
<1>5. A \cap B = {}
  BY <1>3
<1>6. IsFiniteSet(B) /\ Cardinality(B) = Pow(n)
  <2> DEFINE f == [S \in A |-> S \cup {n + 1}]
  <2>1. f \in Bijection(A, B)
    <3>1. f \in [A -> B] /\ \A T \in B : \E S \in A : f[S] = T
      OBVIOUS
    <3>2. ASSUME NEW S \in A, NEW T \in A, f[S] = f[T] PROVE S = T
      <4>1. S = (S \cup {n + 1}) \ {n + 1} /\ T = (T \cup {n + 1}) \ {n + 1}
        BY <1>3
      <4>2. S \cup {n + 1} = T \cup {n + 1}
        BY <3>2
      <4> QED BY <4>1, <4>2
    <3> QED BY <3>1, <3>2 DEF Bijection, Injection, Surjection, IsInjective
  <2>2. ExistsBijection(A, B)
    BY <2>1 DEF ExistsBijection
  <2> HIDE DEF A, B
  <2> QED BY <1>1, <2>2, FS_Bijection
<1> HIDE DEF A, B
<1>7. Cardinality(A \cup B) = Cardinality(A) + Cardinality(B) - Cardinality(A \cap B)
  BY <1>1, <1>6, FS_Union
<1>8. Cardinality(A \cap B) = 0
  <2>1. Cardinality({}) = 0
    BY FS_EmptySet
  <2> QED BY <1>5, <2>1, Zenon
<1>9. PICK p \in Nat : p = Pow(n) /\ Cardinality(A) = p /\ Cardinality(B) = p
  BY <1>1, <1>6
<1>10. Cardinality(A \cup B) = 2 * p
  BY <1>7, <1>8, <1>9
<1>11. Pow(n + 1) = Cardinality(A \cup B)
  BY <1>2, <1>4, Zenon
<1> QED BY <1>9, <1>10, <1>11

(* A power of two is a natural number above 0.                             *)
LEMMA PowType ==
  ASSUME NEW n \in Nat
  PROVE  Pow(n) \in Nat \ {0}
<1> DEFINE S == {k \in Nat : Pow(k) > 0}
<1>1. 0 \in S
  BY PowZero
<1>2. ASSUME NEW k \in S PROVE k + 1 \in S
  <2>1. Pow(k + 1) = 2 * Pow(k) /\ Pow(k) \in Nat /\ Pow(k) > 0
    BY PowNext, PowCounts
  <2> QED BY <2>1
<1>3. S = Nat
  <2> HIDE DEF S
  <2>1. S \in SUBSET Nat
    BY DEF S
  <2> QED BY <1>1, <1>2, <2>1, Induction
<1>4. Pow(n) > 0 /\ Pow(n) \in Nat
  BY <1>3, PowCounts
<1> QED BY <1>4

(* 2 ^ (m + n) is 2 ^ m times 2 ^ n.                                       *)
LEMMA PowSum ==
  ASSUME NEW m \in Nat, NEW n \in Nat
  PROVE  Pow(m + n) = Pow(m) * Pow(n)
<1> DEFINE S == {k \in Nat : Pow(m + k) = Pow(m) * Pow(k)}
<1>1. 0 \in S
  BY PowZero, PowType
<1>2. ASSUME NEW k \in S PROVE k + 1 \in S
  <2>1. m + k \in Nat /\ m + (k + 1) = (m + k) + 1
    OBVIOUS
  <2>2. Pow(m + (k + 1)) = 2 * Pow(m + k) /\ Pow(k + 1) = 2 * Pow(k)
    BY <2>1, PowNext
  <2>3. PICK a, b \in Nat : a = Pow(m) /\ b = Pow(k)
    BY PowType
  <2>4. Pow(m + k) = a * b
    BY <2>3
  <2>5. 2 * (a * b) = a * (2 * b)
    OBVIOUS
  <2>6. Pow(m + (k + 1)) = Pow(m) * Pow(k + 1)
    BY <2>2, <2>3, <2>4, <2>5
  <2> QED BY <2>6
<1>3. S = Nat
  <2> HIDE DEF S
  <2>1. S \in SUBSET Nat
    BY DEF S
  <2> QED BY <1>1, <1>2, <2>1, Induction
<1> QED BY <1>3

(* Powers grow, and at least double.                                       *)
LEMMA PowOrder ==
  ASSUME NEW m \in Nat, NEW n \in Nat, m <= n
  PROVE  Pow(m) <= Pow(n) /\ (m < n => 2 * Pow(m) <= Pow(n))
<1>1. PICK k \in Nat : n = m + k /\ k = n - m
  OBVIOUS
<1>2. PICK a, b \in Nat \ {0} : a = Pow(m) /\ b = Pow(k)
  BY PowType
<1>5. Pow(n) = a * b
  BY <1>1, <1>2, PowSum
<1>3. a <= a * b
  BY <1>2
<1>4. CASE m < n
  <2>1. k - 1 \in Nat /\ (k - 1) + 1 = k
    BY <1>1, <1>4
  <2>2. PICK c \in Nat \ {0} : c = Pow(k - 1)
    BY <2>1, PowType
  <2>4. b = 2 * c
    BY <1>2, <2>1, <2>2, PowNext
  <2>3. 2 * a <= a * b
    BY <2>4
  <2> QED BY <1>2, <1>3, <1>5, <2>3
<1> QED BY <1>2, <1>3, <1>4, <1>5

(* Some power is above any number.                                         *)
LEMMA PowAbove ==
  ASSUME NEW n \in Nat
  PROVE  n < Pow(n)
<1> DEFINE S == {k \in Nat : k < Pow(k)}
<1>1. 0 \in S
  BY PowZero
<1>2. ASSUME NEW k \in S PROVE k + 1 \in S
  BY PowNext, PowType
<1>3. S = Nat
  <2> HIDE DEF S
  <2>1. S \in SUBSET Nat
    BY DEF S
  <2> QED BY <1>1, <1>2, <2>1, Induction
<1> QED BY <1>3

(* Every number but 0 lies between two powers.                             *)
LEMMA Between ==
  ASSUME NEW n \in Nat \ {0}
  PROVE  \E k \in Nat : Pow(k) <= n /\ n < Pow(k + 1)
<1> DEFINE T == {k \in Nat : n < Pow(k)}
<1>1. n \in T /\ T \in SUBSET Nat
  BY PowAbove
<1>2. PICK k \in T : \A y \in T : k <= y
  BY <1>1, LeastOf, Zenon
<1>3. k # 0
  BY PowZero
<1>4. k - 1 \in Nat /\ (k - 1) + 1 = k
  BY <1>3
<1>5. k - 1 \notin T
  BY <1>2, <1>4
<1>6. Pow(k - 1) <= n
  BY <1>4, <1>5, PowType
<1> QED BY <1>4, <1>6

-----------------------------------------------------------------------------
(* Division.                                                               *)
LEMMA DivMod ==
  ASSUME NEW n \in Int, NEW u \in Nat \ {0}
  PROVE  \E q, r \in Int : /\ q = n \div u /\ r = n % u
                           /\ 0 <= r /\ r < u /\ n = q * u + r
<1>1. n % u = n - u * (n \div u)
  OBVIOUS
<1>2. n \div u \in Int /\ n % u \in Int /\ 0 <= n % u /\ n % u < u
  OBVIOUS
<1>3. PICK q, r \in Int : q = n \div u /\ r = n % u /\ r = n - u * q
  BY <1>1, <1>2
<1>4. n = q * u + r
  BY <1>3
<1> QED BY <1>2, <1>3, <1>4

LEMMA Squeezed ==
  ASSUME NEW u \in Nat \ {0}, NEW q \in Int, -u < q * u, q * u < u
  PROVE  q = 0
<1>1. CASE q >= 1
  <2>1. q * u >= u
    BY <1>1
  <2> QED BY <2>1
<1>2. CASE q <= -1
  <2>1. q * u <= -u
    BY <1>2
  <2> QED BY <2>1
<1> QED BY <1>1, <1>2

(* Quotient and remainder are the only ones.                               *)
LEMMA DivUnique ==
  ASSUME NEW n \in Int, NEW u \in Nat \ {0}, NEW q \in Int, NEW r \in Int,
         0 <= r, r < u, n = q * u + r
  PROVE  n \div u = q /\ n % u = r
<1>1. PICK p, s \in Int : p = n \div u /\ s = n % u /\ 0 <= s /\ s < u /\ n = p * u + s
  BY DivMod
<1>2. (p - q) * u = r - s
  <2>1. (p - q) * u = p * u - q * u
    OBVIOUS
  <2>2. PICK x, y \in Int : x = p * u /\ y = q * u
    OBVIOUS
  <2>3. n = x + s /\ n = y + r
    BY <1>1, <2>2
  <2>4. x - y = r - s
    BY <2>3
  <2> QED BY <2>1, <2>2, <2>4
<1>3. p - q = 0
  <2>1. p - q \in Int /\ -u < (p - q) * u /\ (p - q) * u < u
    BY <1>1, <1>2
  <2> QED BY <2>1, Squeezed
<1>4. p = q
  BY <1>3
<1> QED BY <1>1, <1>4

-----------------------------------------------------------------------------
(* The distance between doubles.                                           *)
LEMMA AbsIs ==
  ASSUME NEW n \in Int
  PROVE  /\ Abs(n) \in Nat /\ (n >= 0 => Abs(n) = n) /\ (n < 0 => Abs(n) = -n)
BY DEF Abs

LEMMA PrecisionIs ==
  Precision \in Nat /\ Precision >= 2 /\ Wide \in Nat /\ Wide >= 3 /\ Narrow \in Nat /\ Narrow >= 1
BY WidthAssumption

Fits(n, e)  == Abs(n) < Pow(Precision + e)
First(n, e) == Fits(n, e) /\ \A f \in 0 .. e - 1 : ~Fits(n, f)

(* Ulp is the power of the first exponent at which the number fits.        *)
LEMMA UlpFirst ==
  ASSUME NEW n
  PROVE  Ulp(n) = Pow(CHOOSE e \in 0 .. Wide + 2 : First(n, e))
BY DEF Ulp, Pow, First, Fits

(* That exponent, by the two powers the number lies between.               *)
LEMMA FirstIs ==
  ASSUME NEW n \in Int, NEW e \in Nat
  PROVE  First(n, e) <=> /\ Abs(n) < Pow(Precision + e)
                         /\ e = 0 \/ Pow(Precision + e - 1) <= Abs(n)
<1>1. Abs(n) \in Nat /\ Precision \in Nat
  BY AbsIs, PrecisionIs
<1>2. CASE e = 0
  BY <1>2 DEF First, Fits
<1>3. CASE e # 0
  <2>1. e - 1 \in Nat /\ Precision + (e - 1) = Precision + e - 1 /\ Precision + e - 1 \in Nat
    BY <1>1, <1>3
  <2>2. PICK b \in Nat : b = Pow(Precision + e - 1)
    BY <2>1, PowType
  <2>3. First(n, e) => b <= Abs(n)
    <3>1. e - 1 \in 0 .. e - 1
      BY <2>1
    <3>2. First(n, e) => ~(Abs(n) < b)
      BY <2>1, <2>2, <3>1 DEF First, Fits
    <3> QED BY <1>1, <3>2
  <2>4. ASSUME b <= Abs(n), NEW f \in 0 .. e - 1 PROVE ~Fits(n, f)
    <3>1. Precision + f \in Nat /\ Precision + f <= Precision + e - 1
      BY <1>1
    <3>2. PICK c \in Nat : c = Pow(Precision + f) /\ c <= b
      BY <2>1, <2>2, <3>1, PowOrder, PowType
    <3> QED BY <1>1, <2>4, <3>2 DEF Fits
  <2> QED BY <1>3, <2>2, <2>3, <2>4 DEF First, Fits
<1> QED BY <1>2, <1>3

LEMMA FirstOne ==
  ASSUME NEW n, NEW e \in Nat, NEW f \in Nat, First(n, e), First(n, f)
  PROVE  e = f
<1>1. e < f => e \in 0 .. f - 1
  OBVIOUS
<1>2. f < e => f \in 0 .. e - 1
  OBVIOUS
<1>3. ~(e < f) /\ ~(f < e)
  BY <1>1, <1>2 DEF First
<1> QED BY <1>3

(* It is the power of two that leaves Precision bits.                      *)
LEMMA UlpIs ==
  ASSUME NEW n \in Int, Abs(n) <= Pow(Wide + 2)
  PROVE  \E e \in 0 .. Wide + 2 : First(n, e) /\ Ulp(n) = Pow(e)
<1>0. Abs(n) \in Nat /\ Precision \in Nat /\ Precision >= 2 /\ Wide + 2 \in Nat
  BY AbsIs, PrecisionIs
<1> DEFINE T == {e \in Nat : Fits(n, e)}
<1>1. Wide + 2 \in T
  <2>1. Precision + (Wide + 2) \in Nat /\ Wide + 2 < Precision + (Wide + 2)
    BY <1>0
  <2>2. PICK a, b \in Nat \ {0} : a = Pow(Wide + 2) /\ b = Pow(Precision + (Wide + 2)) /\ 2 * a <= b
    BY <1>0, <2>1, PowOrder, PowType
  <2> QED BY <1>0, <2>2 DEF Fits
<1>2. PICK e \in T : \A y \in T : e <= y
  BY <1>1, LeastOf, Zenon
<1>3. e \in 0 .. Wide + 2
  BY <1>0, <1>1, <1>2
<1>4. First(n, e)
  BY <1>2 DEF First
<1>5. \A f \in 0 .. Wide + 2 : First(n, f) => f = e
  BY <1>3, <1>4, FirstOne
<1>6. (CHOOSE f \in 0 .. Wide + 2 : First(n, f)) = e
  BY <1>3, <1>4, <1>5
<1> QED BY <1>3, <1>4, <1>6, UlpFirst

-----------------------------------------------------------------------------
(* Rounding: to a multiple of that distance, and no further than half of   *)
(* it.                                                                     *)
LEMMA RoundBy ==
  ASSUME NEW n \in Int, NEW u \in Nat \ {0}, Ulp(n) = u
  PROVE  \E q \in Int : /\ Round(n) = q * u
                        /\ 2 * (q * u - n) <= u /\ 2 * (n - q * u) <= u
                        /\ (\E p \in Int : n = p * u) => q * u = n
<1>1. PICK q, r \in Int : q = n \div u /\ r = n % u /\ 0 <= r /\ r < u /\ n = q * u + r
  BY DivMod
<1>2. (q + 1) * u = q * u + u
  OBVIOUS
<1>3. PICK a \in Int : a = q * u
  OBVIOUS
<1>4. Round(n) = IF 2 * r > u \/ (2 * r = u /\ q % 2 = 1) THEN (q + 1) * u ELSE q * u
  BY <1>1 DEF Round
<1>5. ASSUME NEW p \in Int, n = p * u PROVE r = 0
  <2>1. n \div u = p /\ n % u = 0
    <3>1. 0 <= 0 /\ 0 < u /\ n = p * u + 0
      BY <1>5
    <3> QED BY <3>1, DivUnique
  <2> QED BY <1>1, <2>1
<1>6. CASE 2 * r > u \/ (2 * r = u /\ q % 2 = 1)
  <2>1. q + 1 \in Int /\ Round(n) = (q + 1) * u
    BY <1>4, <1>6
  <2>2. 2 * r >= u
    BY <1>6
  <2>3. n = a + r /\ (q + 1) * u = a + u
    BY <1>1, <1>2, <1>3
  <2>4. 2 * ((q + 1) * u - n) <= u /\ 2 * (n - (q + 1) * u) <= u
    BY <1>1, <2>2, <2>3
  <2>5. ~ \E p \in Int : n = p * u
    BY <1>5, <2>2
  <2> QED BY <2>1, <2>4, <2>5
<1>7. CASE ~(2 * r > u \/ (2 * r = u /\ q % 2 = 1))
  <2>1. Round(n) = q * u
    BY <1>4, <1>7
  <2>2. n = a + r /\ q * u = a /\ 2 * r <= u
    BY <1>1, <1>3, <1>7
  <2>3. 2 * (q * u - n) <= u /\ 2 * (n - q * u) <= u
    BY <1>1, <2>2
  <2>4. ASSUME NEW p \in Int, n = p * u PROVE q * u = n
    <3>1. r = 0
      BY <1>5, <2>4
    <3> QED BY <2>2, <3>1
  <2> QED BY <2>1, <2>3, <2>4
<1> QED BY <1>6, <1>7

(* What a multiple of the distance bounds, it bounds after rounding, too.  *)
LEMMA NearBound ==
  ASSUME NEW n \in Int, NEW u \in Nat \ {0}, NEW q \in Int, NEW x \in Int,
         2 * (q * u - n) <= u, 2 * (n - q * u) <= u
  PROVE  /\ x * u <= n => x * u <= q * u
         /\ n <= x * u => q * u <= x * u
<1>1. PICK a, b \in Int : a = x * u /\ b = q * u
  OBVIOUS
<1>2. ASSUME a <= n, b < a PROVE FALSE
  <2>1. q < x
    <3>1. x <= q => x * u <= q * u
      OBVIOUS
    <3> QED BY <1>1, <1>2, <3>1
  <2>2. b + u <= a
    <3>1. (q + 1) * u <= x * u /\ (q + 1) * u = q * u + u
      BY <2>1
    <3> QED BY <1>1, <3>1
  <2> QED BY <1>1, <1>2, <2>2
<1>3. ASSUME n <= a, a < b PROVE FALSE
  <2>1. x < q
    <3>1. q <= x => q * u <= x * u
      OBVIOUS
    <3> QED BY <1>1, <1>3, <3>1
  <2>2. a + u <= b
    <3>1. (x + 1) * u <= q * u /\ (x + 1) * u = x * u + u
      BY <2>1
    <3> QED BY <1>1, <3>1
  <2> QED BY <1>1, <1>3, <2>2
<1> QED BY <1>1, <1>2, <1>3

(* A double is what rounding leaves alone: a multiple of its distance.     *)
LEMMA RoundExact ==
  ASSUME NEW n \in Int, Abs(n) <= Pow(Wide + 2), NEW e \in Nat, First(n, e)
  PROVE  Round(n) = n <=> \E p \in Int : n = p * Pow(e)
<1>1. PICK f \in 0 .. Wide + 2 : First(n, f) /\ Ulp(n) = Pow(f)
  BY UlpIs
<1>2. f = e
  <2>1. f \in Nat
    OBVIOUS
  <2> QED BY <1>1, <2>1, FirstOne
<1>3. PICK u \in Nat \ {0} : u = Pow(e)
  BY PowType
<1>4. PICK q \in Int : Round(n) = q * u /\ ((\E p \in Int : n = p * u) => q * u = n)
  BY <1>1, <1>2, <1>3, RoundBy
<1> QED BY <1>3, <1>4

(* Below 2^Precision every number of halves is a double.                   *)
LEMMA RoundSmall ==
  ASSUME NEW n \in Int, Abs(n) < Pow(Precision)
  PROVE  Round(n) = n
<1>1. Precision + 0 = Precision /\ 0 \in Nat /\ Precision \in Nat /\ Wide + 2 \in Nat
  BY PrecisionIs
<1>2. First(n, 0)
  BY <1>1 DEF First, Fits
<1>3. Abs(n) <= Pow(Wide + 2)
  <2>1. Precision <= Wide + 2
    BY WidthAssumption
  <2>2. Pow(Precision) <= Pow(Wide + 2) /\ Pow(Precision) \in Nat /\ Pow(Wide + 2) \in Nat
    BY <1>1, <2>1, PowOrder, PowType
  <2> QED BY <2>2, AbsIs
<1>4. n = n * Pow(0)
  BY PowZero
<1> QED BY <1>1, <1>2, <1>3, <1>4, RoundExact

(* The bounds that rounding keeps are the powers of two.                   *)
LEMMA RoundBound ==
  ASSUME NEW n \in Int, NEW k \in 0 .. Wide + 2, Abs(n) <= Pow(k)
  PROVE  /\ Round(n) \in Int /\ Abs(Round(n)) <= Pow(k)
         /\ (n >= 0 => Round(n) >= 0) /\ (n <= 0 => Round(n) <= 0)
<1>0. Precision \in Nat /\ Precision >= 2 /\ Wide + 2 \in Nat /\ k \in Nat /\ k <= Wide + 2
  BY PrecisionIs
<1>1. PICK b, c \in Nat : b = Pow(k) /\ c = Pow(Wide + 2) /\ b <= c
  BY <1>0, PowOrder, PowType
<1>2. Abs(n) \in Nat /\ Abs(n) <= b /\ Abs(n) <= Pow(Wide + 2)
  BY <1>1, AbsIs
<1>3. PICK e \in 0 .. Wide + 2 : First(n, e) /\ Ulp(n) = Pow(e)
  BY <1>2, UlpIs
<1>4. e \in Nat
  OBVIOUS
<1>5. PICK u \in Nat \ {0} : u = Pow(e)
  BY <1>4, PowType
<1>6. PICK q \in Int : Round(n) = q * u /\ 2 * (q * u - n) <= u /\ 2 * (n - q * u) <= u
  BY <1>3, <1>5, RoundBy
<1>7. e <= k
  <2> SUFFICES ASSUME k < e PROVE FALSE
    BY <1>4, <1>0
  <2>1. e # 0 /\ Precision + e - 1 \in Nat /\ k < Precision + e - 1
    BY <1>0, <1>4
  <2>2. Pow(Precision + e - 1) <= Abs(n)
    BY <1>3, <1>4, <2>1, FirstIs
  <2>3. PICK d \in Nat : d = Pow(Precision + e - 1) /\ 2 * b <= d
    BY <1>0, <1>1, <2>1, PowOrder, PowType
  <2>4. b # 0
    BY <1>0, <1>1, PowType
  <2> QED BY <1>2, <2>2, <2>3, <2>4
<1>8. k - e \in Nat /\ e + (k - e) = k
  BY <1>0, <1>4, <1>7
<1>9. PICK x \in Nat : x = Pow(k - e)
  BY <1>8, PowType
<1>10. b = x * u
  <2>1. Pow(k) = Pow(e) * Pow(k - e)
    BY <1>4, <1>8, PowSum
  <2>2. b = u * x
    BY <1>1, <1>5, <1>9, <2>1
  <2> QED BY <2>2
<1>11. PICK m \in Int : m = q * u /\ Round(n) = m
  BY <1>6
<1>12. -x \in Int /\ (-x) * u = -b /\ 0 * u = 0
  BY <1>10
<1>13. n <= b => m <= b
  BY <1>6, <1>10, <1>11, NearBound
<1>14. -b <= n => -b <= m
  <2>1. PICK z \in Int : z * u = -b
    BY <1>12
  <2>2. z * u <= n => z * u <= q * u
    BY <1>6, NearBound
  <2> QED BY <1>11, <2>1, <2>2
<1>15. (0 <= n => 0 <= m) /\ (n <= 0 => m <= 0)
  <2>1. (0 * u <= n => 0 * u <= q * u) /\ (n <= 0 * u => q * u <= 0 * u)
    BY <1>6, NearBound
  <2> QED BY <1>11, <1>12, <2>1
<1>16. -b <= n /\ n <= b
  BY <1>1, <1>2, AbsIs
<1>17. Abs(m) <= b
  BY <1>13, <1>14, <1>16 DEF Abs
<1> QED BY <1>1, <1>11, <1>15, <1>17

(* A number above a power of two does not fall below it.                   *)
LEMMA RoundAbove ==
  ASSUME NEW n \in Int, Abs(n) <= Pow(Wide + 2), NEW e \in Nat, First(n, e), e # 0
  PROVE  Pow(Precision + e - 1) <= Abs(Round(n))
<1>0. Precision \in Nat /\ Precision >= 2 /\ Precision - 1 \in Nat
      /\ e + (Precision - 1) = Precision + e - 1 /\ Precision + e - 1 \in Nat
  BY PrecisionIs
<1>1. PICK f \in 0 .. Wide + 2 : First(n, f) /\ Ulp(n) = Pow(f)
  BY UlpIs
<1>2. f = e
  <2>1. f \in Nat
    OBVIOUS
  <2> QED BY <1>1, <2>1, FirstOne
<1>3. PICK u \in Nat \ {0} : u = Pow(e)
  BY PowType
<1>4. PICK q \in Int : Round(n) = q * u /\ 2 * (q * u - n) <= u /\ 2 * (n - q * u) <= u
  BY <1>1, <1>2, <1>3, RoundBy
<1>5. PICK b, x \in Nat : b = Pow(Precision + e - 1) /\ x = Pow(Precision - 1)
  BY <1>0, PowType
<1>6. b = x * u
  <2>1. Pow(Precision + e - 1) = Pow(e) * Pow(Precision - 1)
    BY <1>0, PowSum
  <2>2. b = u * x
    BY <1>3, <1>5, <2>1
  <2> QED BY <2>2
<1>7. PICK m \in Int : m = q * u /\ Round(n) = m
  BY <1>4
<1>8. -x \in Int /\ (-x) * u = -b
  BY <1>6
<1>9. b <= n => b <= m
  BY <1>4, <1>6, <1>7, NearBound
<1>10. n <= -b => m <= -b
  <2>1. PICK z \in Int : z * u = -b
    BY <1>8
  <2>2. n <= z * u => q * u <= z * u
    BY <1>4, NearBound
  <2> QED BY <1>7, <2>1, <2>2
<1>11. b <= Abs(n)
  BY <1>5, FirstIs
<1>12. b <= Abs(m)
  BY <1>9, <1>10, <1>11 DEF Abs
<1> QED BY <1>5, <1>7, <1>12

(* Rounded once is rounded.                                                *)
LEMMA RoundTwice ==
  ASSUME NEW n \in Int, Abs(n) <= Pow(Wide + 2)
  PROVE  /\ Round(n) \in Int /\ Abs(Round(n)) <= Pow(Wide + 2)
         /\ Round(Round(n)) = Round(n)
<1>0. Precision \in Nat /\ Precision >= 2 /\ Wide + 2 \in 0 .. Wide + 2
  BY PrecisionIs
<1>1. Round(n) \in Int /\ Abs(Round(n)) <= Pow(Wide + 2)
  BY <1>0, RoundBound
<1>2. PICK m \in Int : m = Round(n)
  BY <1>1
<1>3. PICK e \in 0 .. Wide + 2 : First(n, e) /\ Ulp(n) = Pow(e)
  BY UlpIs
<1>4. e \in Nat
  OBVIOUS
<1>5. PICK u \in Nat \ {0} : u = Pow(e)
  BY <1>4, PowType
<1>6. PICK q \in Int : m = q * u
  BY <1>2, <1>3, <1>5, RoundBy
<1>7. CASE e = 0
  <2>1. n = n * Pow(e)
    BY <1>7, PowZero
  <2>2. Round(n) = n
    BY <1>3, <1>4, <2>1, RoundExact
  <2> QED BY <1>1, <2>2
<1>8. CASE e # 0
  <2>1. Pow(Precision + e - 1) <= Abs(m)
    BY <1>2, <1>3, <1>4, <1>8, RoundAbove
  <2>2. Abs(m) \in Nat /\ Precision + e \in Nat
    BY <1>0, AbsIs
  <2>3. PICK b \in Nat : b = Pow(Precision + e)
    BY <2>2, PowType
  <2>4. CASE Abs(m) < b
    <3>1. First(m, e)
      BY <1>4, <2>1, <2>3, <2>4, FirstIs
    <3>2. m = q * Pow(e)
      BY <1>5, <1>6
    <3>3. Abs(m) <= Pow(Wide + 2)
      BY <1>1, <1>2
    <3>4. Round(m) = m
      BY <1>4, <3>1, <3>2, <3>3, RoundExact
    <3> QED BY <1>1, <1>2, <3>4
  <2>5. CASE b <= Abs(m)
    <3>1. Abs(m) = b
      <4>1. CASE Precision + e <= Wide + 2
        <5>1. Abs(n) <= Pow(Precision + e)
          <6>1. Abs(n) < b /\ Abs(n) \in Nat
            BY <1>3, <2>3, AbsIs DEF First, Fits
          <6> QED BY <2>3, <6>1
        <5>2. Precision + e \in 0 .. Wide + 2
          BY <2>2, <4>1
        <5>3. Abs(m) <= b
          BY <1>2, <2>3, <5>1, <5>2, RoundBound
        <5> QED BY <2>2, <2>5, <5>3
      <4>2. CASE Wide + 2 < Precision + e
        <5>1. PICK c \in Nat \ {0} : c = Pow(Wide + 2) /\ 2 * c <= b
          BY <1>0, <2>2, <2>3, <4>2, PowOrder, PowType
        <5> QED BY <1>1, <1>2, <2>2, <2>5, <5>1
      <4>3. Precision + e \in Int /\ Wide + 2 \in Int
        BY <1>0, <2>2
      <4> QED BY <4>1, <4>2, <4>3
    <3>2. e + 1 \in Nat /\ e + 1 # 0 /\ Precision + (e + 1) - 1 = Precision + e
          /\ Precision + (e + 1) = (Precision + e) + 1
      BY <1>0, <1>4
    <3>3. First(m, e + 1)
      <4>1. Pow((Precision + e) + 1) = 2 * b /\ b # 0
        BY <2>2, <2>3, PowNext, PowType
      <4>2. Abs(m) < Pow(Precision + (e + 1))
        BY <2>3, <3>1, <3>2, <4>1
      <4>3. Pow(Precision + (e + 1) - 1) <= Abs(m)
        BY <2>3, <2>5, <3>2
      <4> QED BY <3>2, <4>2, <4>3, FirstIs
    <3>4. PICK x, y \in Nat : x = Pow(Precision - 1) /\ y = Pow(e + 1) /\ b = x * y
      <4>1. Precision - 1 \in Nat /\ (Precision - 1) + (e + 1) = Precision + e
        BY <1>0, <1>4
      <4>2. Pow(Precision + e) = Pow(Precision - 1) * Pow(e + 1)
        BY <3>2, <4>1, PowSum
      <4> QED BY <2>3, <3>2, <4>1, <4>2, PowType
    <3>5. m = b \/ m = -b
      BY <3>1 DEF Abs
    <3>6. \E p \in Int : m = p * Pow(e + 1)
      <4>1. CASE m = b
        BY <3>4, <4>1
      <4>2. CASE m = -b
        <5>1. -x \in Int /\ m = (-x) * y
          BY <3>4, <4>2
        <5> QED BY <3>4, <5>1
      <4> QED BY <3>5, <4>1, <4>2
    <3>7. Abs(m) <= Pow(Wide + 2)
      BY <1>1, <1>2
    <3>8. Round(m) = m
      BY <3>2, <3>3, <3>6, <3>7, RoundExact
    <3> QED BY <1>1, <1>2, <3>8
  <2> QED BY <2>2, <2>3, <2>4, <2>5
<1> QED BY <1>7, <1>8

(* A double as large as 2^Precision has no fraction, and rounding adds     *)
(* none.                                                                   *)
LEMMA LargeIsWhole ==
  ASSUME NEW n \in Int, Abs(n) <= Pow(Wide + 2), Round(n) = n, Pow(Precision) <= Abs(n)
  PROVE  \E k \in Int : n = 2 * k
<1>1. PICK e \in 0 .. Wide + 2 : First(n, e)
  BY UlpIs
<1>2. e \in Nat
  OBVIOUS
<1>3. e # 0
  <2> SUFFICES ASSUME e = 0 PROVE FALSE
    OBVIOUS
  <2>1. Precision + 0 = Precision /\ Precision \in Nat
    BY PrecisionIs
  <2>2. PICK a, b \in Nat : a = Abs(n) /\ b = Pow(Precision)
    BY <2>1, AbsIs, PowType
  <2>3. a < b
    BY <1>1, <2>1, <2>2 DEF First, Fits
  <2> QED BY <2>2, <2>3
<1>4. PICK p \in Int : n = p * Pow(e)
  BY <1>1, <1>2, RoundExact
<1>5. e - 1 \in Nat /\ (e - 1) + 1 = e
  BY <1>2, <1>3
<1>6. PICK c \in Nat : c = Pow(e - 1) /\ Pow(e) = 2 * c
  BY <1>5, PowNext, PowType
<1>7. n = 2 * (p * c)
  <2>1. n = p * (2 * c)
    BY <1>4, <1>6
  <2> QED BY <2>1
<1>8. p * c \in Int
  OBVIOUS
<1> QED BY <1>7, <1>8

(* An integer is rounded to an integer.                                    *)
LEMMA RoundWhole ==
  ASSUME NEW n \in Int, Abs(n) <= Pow(Wide + 2), NEW k \in Int, n = 2 * k
  PROVE  \E j \in Int : Round(n) = 2 * j
<1>1. PICK m \in Int : m = Round(n) /\ Abs(m) <= Pow(Wide + 2) /\ Round(m) = m
  BY RoundTwice
<1>2. PICK a, b \in Nat : a = Abs(m) /\ b = Pow(Precision)
  BY AbsIs, PowType, PrecisionIs
<1>3. CASE b <= a
  BY <1>1, <1>2, <1>3, LargeIsWhole
<1>4. CASE a < b
  <2>1. PICK e \in 0 .. Wide + 2 : First(n, e)
    BY UlpIs
  <2>2. e \in Nat
    OBVIOUS
  <2>3. e = 0
    <3> SUFFICES ASSUME e # 0 PROVE FALSE
      OBVIOUS
    <3>1. Pow(Precision + e - 1) <= a
      BY <1>1, <1>2, <2>1, <2>2, RoundAbove
    <3>2. Precision \in Nat /\ Precision + e - 1 \in Nat /\ Precision <= Precision + e - 1
      BY <2>2, PrecisionIs
    <3>3. PICK c \in Nat : c = Pow(Precision + e - 1) /\ b <= c
      BY <1>2, <3>2, PowOrder, PowType
    <3> QED BY <1>2, <1>4, <3>1, <3>3
  <2>4. n = n * Pow(e)
    BY <2>3, PowZero
  <2>5. Round(n) = n
    BY <2>1, <2>2, <2>4, RoundExact
  <2> QED BY <2>5
<1> QED BY <1>2, <1>3, <1>4

-----------------------------------------------------------------------------
(* Truncation, which keeps doubles doubles.                                *)
LEMMA TruncIs ==
  ASSUME NEW n \in Int
  PROVE  \E k \in Int : /\ Trunc(n) = 2 * k
                        /\ n >= 0 => 2 * k <= n /\ n <= 2 * k + 1
                        /\ n <= 0 => n <= 2 * k /\ 2 * k - 1 <= n
<1>1. PICK a \in Nat : a = Abs(n) /\ (n >= 0 => a = n) /\ (n < 0 => a = -n)
  BY AbsIs
<1>2. PICK q \in Int : q = a \div 2 /\ 2 * q <= a /\ a <= 2 * q + 1
  OBVIOUS
<1>3. Trunc(n) = IF n < 0 THEN -(2 * q) ELSE 2 * q
  BY <1>1, <1>2 DEF Trunc
<1>4. CASE n < 0
  <2>1. -q \in Int /\ Trunc(n) = 2 * (-q)
    BY <1>3, <1>4
  <2>2. n <= 2 * (-q) /\ 2 * (-q) - 1 <= n
    BY <1>1, <1>2, <1>4
  <2> QED BY <1>4, <2>1, <2>2
<1>5. CASE n >= 0
  <2>1. Trunc(n) = 2 * q
    BY <1>3, <1>5
  <2> QED BY <1>1, <1>2, <1>5, <2>1
<1> QED BY <1>4, <1>5

(* An integer is truncated to itself.                                      *)
LEMMA TruncWhole ==
  ASSUME NEW k \in Int
  PROVE  Trunc(2 * k) = 2 * k
<1>1. PICK n \in Int : n = 2 * k
  OBVIOUS
<1>2. PICK j \in Int : /\ Trunc(n) = 2 * j
                       /\ n >= 0 => 2 * j <= n /\ n <= 2 * j + 1
                       /\ n <= 0 => n <= 2 * j /\ 2 * j - 1 <= n
  BY TruncIs
<1>3. j = k
  BY <1>1, <1>2
<1> QED BY <1>1, <1>2, <1>3

(* Truncation of a double is a double, and truncates no further.           *)
LEMMA TruncDouble ==
  ASSUME NEW n \in Int, Abs(n) <= Pow(Wide + 2), Round(n) = n
  PROVE  /\ Trunc(n) \in Int /\ Abs(Trunc(n)) <= Pow(Wide + 2)
         /\ Round(Trunc(n)) = Trunc(n) /\ Trunc(Trunc(n)) = Trunc(n)
<1>1. PICK k \in Int : /\ Trunc(n) = 2 * k
                       /\ n >= 0 => 2 * k <= n /\ n <= 2 * k + 1
                       /\ n <= 0 => n <= 2 * k /\ 2 * k - 1 <= n
  BY TruncIs
<1>2. PICK m \in Int : m = 2 * k
  OBVIOUS
<1>3. Trunc(m) = m
  BY <1>2, TruncWhole
<1>4. PICK a, b, c \in Nat : a = Abs(n) /\ b = Pow(Precision) /\ c = Pow(Wide + 2)
  <2>1. Wide + 2 \in Nat
    BY PrecisionIs
  <2> QED BY <2>1, AbsIs, PowType, PrecisionIs
<1>5. Abs(m) \in Nat /\ Abs(m) <= a
  BY <1>1, <1>2, <1>4 DEF Abs
<1>6. Abs(m) <= Pow(Wide + 2)
  BY <1>4, <1>5
<1>7. Round(m) = m
  <2>1. CASE b <= a
    <3>1. PICK j \in Int : n = 2 * j
      BY <1>4, <2>1, LargeIsWhole
    <3>2. m = n
      BY <1>1, <1>2, <3>1
    <3> QED BY <3>2
  <2>2. CASE a < b
    <3>1. Abs(m) < Pow(Precision)
      BY <1>4, <1>5, <2>2
    <3> QED BY <3>1, RoundSmall
  <2> QED BY <1>4, <2>1, <2>2
<1>8. Trunc(n) = m
  BY <1>1, <1>2
<1> QED BY <1>3, <1>6, <1>7, <1>8

-----------------------------------------------------------------------------
(* The doubles that are not numbers are four.                              *)
LEMMA AtMostThree ==
  ASSUME NEW a, NEW b, NEW c
  PROVE  Cardinality({a, b, c}) # 4
<1>1. IsFiniteSet({a}) /\ Cardinality({a}) = 1
  BY FS_Singleton
<1>2. IsFiniteSet({a} \cup {b}) /\ Cardinality({a} \cup {b}) \in {1, 2}
  BY <1>1, FS_AddElement
<1>3. Cardinality(({a} \cup {b}) \cup {c}) \in {1, 2, 3}
  BY <1>2, FS_AddElement
<1>4. ({a} \cup {b}) \cup {c} = {a, b, c}
  OBVIOUS
<1> QED BY <1>3, <1>4

LEMMA SpecialIs ==
  /\ NaN \notin Int /\ PosInf \notin Int /\ NegInf \notin Int /\ NegZero \notin Int
  /\ NaN # PosInf /\ NaN # NegInf /\ NaN # NegZero
  /\ PosInf # NegInf /\ PosInf # NegZero /\ NegInf # NegZero
<1>1. Special \cap Int = {} /\ Cardinality(Special) = 4
  BY SpecialAssumption
<1>2. NaN \notin Int /\ PosInf \notin Int /\ NegInf \notin Int /\ NegZero \notin Int
  BY <1>1 DEF Special
<1>3. \A a, b, c : Special # {a, b, c}
  BY <1>1, AtMostThree
<1>4. NaN \in {PosInf, NegInf, NegZero} => Special = {PosInf, NegInf, NegZero}
  BY DEF Special
<1>5. PosInf \in {NegInf, NegZero} => Special = {NaN, NegInf, NegZero}
  BY DEF Special
<1>6. NegInf = NegZero => Special = {NaN, PosInf, NegZero}
  BY DEF Special
<1> QED BY <1>2, <1>3, <1>4, <1>5, <1>6

-----------------------------------------------------------------------------
(* The ranges of the integer types, and their bounds as doubles.           *)
LEMMA BitsIs ==
  ASSUME NEW T \in IntType
  PROVE  /\ Bits(T) \in Nat /\ Bits(T) - 1 \in Nat /\ (Bits(T) - 1) + 1 = Bits(T)
         /\ Bits(T) <= Wide /\ Bits(T) + 1 \in Nat
BY PrecisionIs, WidthAssumption DEF Bits

(* The bounds of a type, by the power below its sign bit.                  *)
LEMMA RangeIs ==
  ASSUME NEW T \in IntType
  PROVE  \E p \in Nat \ {0} :
           /\ p = Pow(Bits(T) - 1) /\ Pow(Bits(T)) = 2 * p /\ Pow(Bits(T) + 1) = 4 * p
           /\ Lowest(T) = IF Signed(T) THEN -(2 * p) ELSE 0
           /\ Max(T) = IF Signed(T) THEN 2 * (p - 1) ELSE 2 * (2 * p - 1)
<1>1. Bits(T) - 1 \in Nat /\ (Bits(T) - 1) + 1 = Bits(T) /\ Bits(T) \in Nat
  BY BitsIs
<1>2. PICK p \in Nat \ {0} : p = Pow(Bits(T) - 1)
  BY <1>1, PowType
<1>3. Pow(Bits(T)) = 2 * p
  BY <1>1, <1>2, PowNext
<1>4. Pow(Bits(T) + 1) = 2 * (2 * p)
  BY <1>1, <1>3, PowNext
<1>5. Lowest(T) = IF Signed(T) THEN -(2 * p) ELSE 0
  BY <1>3 DEF Lowest, Pow
<1>6. Max(T) = IF Signed(T) THEN 2 * (p - 1) ELSE 2 * (2 * p - 1)
  BY <1>2, <1>3 DEF Max, Pow
<1> QED BY <1>2, <1>3, <1>4, <1>5, <1>6

(* Both bounds are integers, and 0 is between them.                        *)
LEMMA WidthsAre ==
  ASSUME NEW T \in IntType
  PROVE  /\ Lowest(T) \in Int /\ Max(T) \in Int /\ Lowest(T) <= 0 /\ 0 <= Max(T)
         /\ Lowest(T) \div 2 \in Int /\ Max(T) \div 2 \in Int
         /\ Lowest(T) = 2 * (Lowest(T) \div 2) /\ Max(T) = 2 * (Max(T) \div 2)
<1>1. PICK p \in Nat \ {0} :
           /\ Lowest(T) = IF Signed(T) THEN -(2 * p) ELSE 0
           /\ Max(T) = IF Signed(T) THEN 2 * (p - 1) ELSE 2 * (2 * p - 1)
  BY RangeIs
<1>2. PICK a, b \in Int : Lowest(T) = 2 * a /\ Max(T) = 2 * b /\ a <= 0 /\ 0 <= b
  <2>1. CASE Signed(T)
    <3>1. -p \in Int /\ p - 1 \in Int /\ Lowest(T) = 2 * (-p) /\ Max(T) = 2 * (p - 1)
          /\ -p <= 0 /\ 0 <= p - 1
      BY <1>1, <2>1
    <3> QED BY <3>1
  <2>2. CASE ~Signed(T)
    <3>1. Lowest(T) = 2 * 0 /\ Max(T) = 2 * (2 * p - 1) /\ 2 * p - 1 \in Int /\ 0 <= 2 * p - 1
      BY <1>1, <2>2
    <3> QED BY <3>1
  <2> QED BY <2>1, <2>2
<1>3. (2 * a) \div 2 = a /\ (2 * b) \div 2 = b
  OBVIOUS
<1> QED BY <1>2, <1>3

(* The numbers of an integer type: the even ones in its range.             *)
LEMMA NumbersAre ==
  ASSUME NEW T \in IntType, NEW v
  PROVE  v \in Numbers(T) <=> /\ v \in Int /\ Lowest(T) <= v /\ v <= Max(T)
                              /\ \E k \in Int : v = 2 * k
<1>1. Numbers(T) = {2 * n : n \in Lowest(T) \div 2 .. Max(T) \div 2}
  BY DEF Numbers, IntType
<1>2. PICK a, b \in Int : /\ a = Lowest(T) \div 2 /\ b = Max(T) \div 2
                          /\ Lowest(T) = 2 * a /\ Max(T) = 2 * b
  BY WidthsAre
<1>3. v \in Numbers(T) <=> \E n \in a .. b : v = 2 * n
  BY <1>1, <1>2
<1> QED BY <1>2, <1>3

(* The doubles: the special ones, and what rounding leaves alone.          *)
LEMMA DoublesAre ==
  ASSUME NEW v
  PROVE  v \in Numbers("double") <=>
           \/ v \in Special
           \/ v \in Int /\ Abs(v) <= Pow(Wide + 2) /\ Round(v) = v
<1>1. Numbers("double") = Special \cup
                   {n \in -(2 ^ (Wide + 2)) .. 2 ^ (Wide + 2) : Round(n) = n}
  BY DEF Numbers, IntType
<1>2. Wide + 2 \in Nat
  BY PrecisionIs
<1>3. PICK c \in Nat : c = Pow(Wide + 2)
  BY <1>2, PowType
<1>4. v \in Int => (Abs(v) <= c <=> v \in -c .. c)
  BY DEF Abs
<1> QED BY <1>1, <1>3, <1>4 DEF Pow

(* An integer of any type is within the range of doubles.                  *)
LEMMA WithinWide ==
  ASSUME NEW T \in IntType, NEW v \in Int, Lowest(T) <= v, v <= Max(T)
  PROVE  Abs(v) <= Pow(Wide + 1) /\ Abs(v) <= Pow(Wide + 2)
<1>1. PICK p \in Nat \ {0} :
           /\ Pow(Bits(T) + 1) = 4 * p
           /\ Lowest(T) = IF Signed(T) THEN -(2 * p) ELSE 0
           /\ Max(T) = IF Signed(T) THEN 2 * (p - 1) ELSE 2 * (2 * p - 1)
  BY RangeIs
<1>2. Bits(T) + 1 \in Nat /\ Wide + 1 \in Nat /\ Wide + 2 \in Nat /\ Bits(T) + 1 <= Wide + 1
      /\ Wide + 1 <= Wide + 2
  BY BitsIs, PrecisionIs
<1>3. PICK b, c \in Nat : /\ b = Pow(Wide + 1) /\ c = Pow(Wide + 2)
                          /\ 4 * p <= b /\ b <= c
  BY <1>1, <1>2, PowOrder, PowType
<1>4. -(4 * p) <= v /\ v <= 4 * p
  <2>1. CASE Signed(T)
    BY <1>1, <2>1
  <2>2. CASE ~Signed(T)
    BY <1>1, <2>2
  <2> QED BY <2>1, <2>2
<1>5. Abs(v) <= 4 * p
  BY <1>4 DEF Abs
<1>6. Abs(v) \in Nat
  BY AbsIs
<1> QED BY <1>3, <1>5, <1>6

(* A cast to an integer type in whose range the number is keeps it.        *)
LEMMA WrapKeeps ==
  ASSUME NEW T \in IntType, NEW v \in Int, Lowest(T) <= v, v <= Max(T)
  PROVE  Wrap(T, v) = v
<1>1. PICK p \in Nat \ {0} :
           /\ Pow(Bits(T) + 1) = 4 * p
           /\ Lowest(T) = IF Signed(T) THEN -(2 * p) ELSE 0
           /\ Max(T) = IF Signed(T) THEN 2 * (p - 1) ELSE 2 * (2 * p - 1)
  BY RangeIs
<1>2. PICK a \in Nat \ {0} : a = 4 * p
  OBVIOUS
<1>3. Wrap(T, v) = IF v % a > Max(T) THEN (v % a) - a ELSE v % a
  BY <1>1, <1>2 DEF Wrap, Pow
<1>4. CASE v >= 0
  <2>1. v < a
    <3>1. CASE Signed(T)
      BY <1>1, <1>2, <3>1
    <3>2. CASE ~Signed(T)
      BY <1>1, <1>2, <3>2
    <3> QED BY <3>1, <3>2
  <2>2. v % a = v
    <3>1. v = 0 * a + v /\ 0 <= v
      BY <1>4
    <3> QED BY <2>1, <3>1, DivUnique
  <2>3. ~(v > Max(T))
    BY <1>1
  <2> QED BY <1>3, <2>2, <2>3
<1>5. CASE v < 0
  <2>1. Signed(T)
    BY <1>1, <1>5
  <2>2. Max(T) = 2 * (p - 1) /\ -(2 * p) <= v
    BY <1>1, <2>1
  <2>3. v % a = v + a
    <3>1. 0 <= v + a /\ v + a < a /\ v + a \in Int /\ -1 \in Int
      BY <1>2, <1>5, <2>2
    <3>2. v = (-1) * a + (v + a)
      OBVIOUS
    <3> QED BY <3>1, <3>2, DivUnique
  <2>4. v + a > Max(T) /\ v + a - a = v
    BY <1>2, <2>2
  <2> QED BY <1>3, <2>3, <2>4
<1> QED BY <1>4, <1>5

(* The bounds of the short types are doubles; the bound of uint64_t rounds *)
(* to the double above it, by the rule for ties if it has just one bit     *)
(* more than a double.                                                     *)
LEMMA ShortMax ==
  ASSUME NEW T \in {"int32", "uint32"}
  PROVE  Round(Max(T)) = Max(T)
<1>0. T \in IntType /\ Bits(T) = Narrow
  BY DEF IntType, Bits
<1>1. PICK p \in Nat \ {0} :
           /\ Pow(Bits(T)) = 2 * p
           /\ Max(T) = IF Signed(T) THEN 2 * (p - 1) ELSE 2 * (2 * p - 1)
  BY <1>0, RangeIs
<1>2. Narrow \in Nat /\ Precision \in Nat /\ Narrow < Precision
  BY WidthAssumption
<1>3. PICK c \in Nat : c = Pow(Precision) /\ 4 * p <= c
  <2>1. 2 * Pow(Narrow) <= Pow(Precision) /\ Pow(Precision) \in Nat
    BY <1>2, PowOrder, PowType
  <2>2. PICK c \in Nat : c = Pow(Precision)
    BY <2>1
  <2>3. 2 * (2 * p) <= c
    BY <1>0, <1>1, <2>1, <2>2
  <2> QED BY <2>2, <2>3
<1>4. Max(T) \in Nat /\ Max(T) < c
  <2>1. CASE Signed(T)
    BY <1>1, <1>3, <2>1
  <2>2. CASE ~Signed(T)
    BY <1>1, <1>3, <2>2
  <2> QED BY <2>1, <2>2
<1>5. Abs(Max(T)) < Pow(Precision)
  BY <1>3, <1>4, AbsIs
<1> QED BY <1>4, <1>5, RoundSmall

(* The bound to_uint64() compares a double with is 2^64.                   *)
LEMMA LongMax == Max("uint64") = Pow(Wide + 1) - 2 /\ Round(Max("uint64")) = Pow(Wide + 1)
<1>0. "uint64" \in IntType /\ Bits("uint64") = Wide /\ ~Signed("uint64")
  BY DEF IntType, Bits, Signed
<1>1. PICK p \in Nat \ {0} : Pow(Wide) = 2 * p /\ Pow(Wide + 1) = 4 * p
                             /\ Max("uint64") = 2 * (2 * p - 1)
  BY <1>0, RangeIs
<1>2. PICK n \in Nat : n = Max("uint64") /\ n = 4 * p - 2
  BY <1>1
<1>3. Precision \in Nat /\ Wide \in Nat /\ Precision >= 2 /\ Precision < Wide
  BY PrecisionIs, WidthAssumption
<1>4. PICK e \in Nat : e = Wide + 1 - Precision
  BY <1>3
<1>5. /\ e # 0 /\ e >= 2 /\ Precision + e = Wide + 1 /\ Precision + e - 1 = Wide
      /\ e \in 0 .. Wide + 2 /\ Precision - 1 \in Nat /\ (Precision - 1) + 1 = Precision
      /\ e - 2 \in Nat /\ e - 1 \in Nat /\ (e - 2) + 1 = e - 1 /\ (e - 1) + 1 = e
  BY <1>3, <1>4
<1>6. Abs(n) = n /\ n < 4 * p /\ 2 * p <= n
  BY <1>2, AbsIs
<1>7. First(n, e)
  BY <1>1, <1>5, <1>6, FirstIs
<1>8. Abs(n) <= Pow(Wide + 2)
  <2>1. Wide + 2 = (Wide + 1) + 1 /\ Wide + 1 \in Nat
    BY <1>3
  <2>2. Pow(Wide + 2) = 2 * (4 * p)
    BY <1>1, <2>1, PowNext
  <2> QED BY <1>6, <2>2
<1>9. Ulp(n) = Pow(e)
  <2>1. PICK f \in 0 .. Wide + 2 : First(n, f) /\ Ulp(n) = Pow(f)
    BY <1>8, UlpIs
  <2>2. f \in Nat
    OBVIOUS
  <2> QED BY <1>7, <2>1, <2>2, FirstOne
<1>10. PICK w \in Nat \ {0} : w = Pow(e - 2) /\ Pow(e) = 4 * w
  <2>1. PICK w \in Nat \ {0} : w = Pow(e - 2)
    BY <1>5, PowType
  <2>2. Pow(e - 1) = 2 * w
    BY <1>5, <2>1, PowNext
  <2>3. Pow(e) = 2 * (2 * w)
    BY <1>5, <2>2, PowNext
  <2> QED BY <2>1, <2>3
<1>11. PICK u \in Nat \ {0} : u = Pow(e) /\ u = 4 * w
  BY <1>10
<1>12. PICK h \in Nat \ {0} : h = Pow(Precision - 1) /\ Pow(Precision) = 2 * h
  BY <1>5, PowNext, PowType
<1>13. 4 * p = (2 * h) * u
  <2>1. Pow(Precision + e) = Pow(Precision) * Pow(e)
    BY <1>3, PowSum
  <2>2. Pow(Precision + e) = 4 * p
    BY <1>1, <1>5
  <2>3. Pow(Precision) * Pow(e) = (2 * h) * u
    BY <1>11, <1>12
  <2> QED BY <2>1, <2>2, <2>3
<1>14. PICK q \in Int : q = 2 * h - 1
  OBVIOUS
<1>15. (q + 1) * u = 4 * p
  BY <1>13, <1>14
<1>16. n = q * u + (u - 2)
  <2>1. (q + 1) * u = q * u + u
    OBVIOUS
  <2>2. PICK a \in Int : a = q * u
    OBVIOUS
  <2> QED BY <1>2, <1>15, <2>1, <2>2
<1>17. u >= 4 /\ u - 2 \in Int /\ 0 <= u - 2 /\ u - 2 < u
  BY <1>11
<1>18. n \div u = q /\ n % u = u - 2
  BY <1>16, <1>17, DivUnique
<1>19. q % 2 = 1
  <2>1. q = (h - 1) * 2 + 1 /\ h - 1 \in Int
    BY <1>14
  <2> QED BY <2>1, DivUnique
<1>20. 2 * (u - 2) > u \/ (2 * (u - 2) = u /\ q % 2 = 1)
  BY <1>17, <1>19
<1>21. Round(n) = (q + 1) * u
  BY <1>9, <1>11, <1>18, <1>20 DEF Round
<1> QED BY <1>1, <1>2, <1>15, <1>21

(* Two numbers at least are of an integer type.                            *)
LEMMA Several ==
  ASSUME NEW T \in IntType, NEW x \in Numbers(T), NEW y \in Numbers(T), x # y
  PROVE  Cardinality(Numbers(T)) > 1
<1>1. PICK a, b \in Int : a = Lowest(T) /\ b = Max(T)
  BY WidthsAre
<1>2. Numbers(T) \in SUBSET (a .. b)
  BY <1>1, NumbersAre
<1>3. IsFiniteSet(Numbers(T))
  BY <1>2, FS_Interval, FS_Subset
<1>4. {x, y} \in SUBSET Numbers(T)
  OBVIOUS
<1>5. Cardinality({x, y}) = 2
  <2>1. IsFiniteSet({x}) /\ Cardinality({x}) = 1
    BY FS_Singleton
  <2>2. Cardinality({x} \cup {y}) = IF y \in {x} THEN Cardinality({x}) ELSE Cardinality({x}) + 1
    BY <2>1, FS_AddElement, Zenon
  <2>4. y \notin {x}
    OBVIOUS
  <2>3. {x} \cup {y} = {x, y}
    OBVIOUS
  <2> QED BY <2>1, <2>2, <2>3, <2>4
<1>6. Cardinality({x, y}) <= Cardinality(Numbers(T)) /\ Cardinality(Numbers(T)) \in Nat
  BY <1>3, <1>4, FS_Subset, FS_CardinalityType
<1> QED BY <1>5, <1>6

-----------------------------------------------------------------------------
(* Network order: mantissa and exponent give back the double.              *)
Leaves(n, e) == IF n = 0 THEN e = -Precision
                         ELSE Scale(n, -e) \in Pow(Precision - 1) .. Pow(Precision) - 1

LEMMA ExponentIs ==
  ASSUME NEW n
  PROVE  Exponent(n) = CHOOSE e \in -Precision .. Wide + 3 : Leaves(n, e)
BY DEF Exponent, Leaves, MantissaBits, Pow

(* Scaling up multiplies, and scaling down divides.                        *)
LEMMA ScaleUp ==
  ASSUME NEW n, NEW k \in Nat
  PROVE  Scale(n, k) = n * Pow(k)
BY DEF Scale, Pow

LEMMA ScaleDown ==
  ASSUME NEW n, NEW k \in Nat \ {0}
  PROVE  Scale(n, -k) = n \div Pow(k)
<1>1. -k < 0 /\ -(-k) = k
  OBVIOUS
<1> QED BY <1>1 DEF Scale, Pow

LEMMA DivTimes ==
  ASSUME NEW m \in Int, NEW u \in Nat \ {0}
  PROVE  (m * u) \div u = m
<1>1. PICK x \in Int : x = m * u
  OBVIOUS
<1>2. x = m * u + 0 /\ 0 <= 0 /\ 0 < u
  BY <1>1
<1> QED BY <1>1, <1>2, DivUnique

(* An exponent that leaves the mantissa Precision bits is within range.    *)
LEMMA SomeExponent ==
  ASSUME NEW a \in Nat \ {0}, a <= Pow(Wide + 2), Round(a) = a
  PROVE  \E e \in -Precision .. Wide + 3 : Leaves(a, e)
<1>0. Precision \in Nat /\ Precision >= 2 /\ Wide + 2 \in Nat /\ Abs(a) = a
      /\ Precision - 1 \in Nat
  BY PrecisionIs, AbsIs
<1>1. PICK k \in Nat : Pow(k) <= a /\ a < Pow(k + 1)
  BY Between
<1>2. PICK b, c, d \in Nat \ {0} : b = Pow(k) /\ c = Pow(k + 1) /\ d = Pow(Wide + 2)
  BY <1>0, PowType
<1>3. k <= Wide + 2
  <2> SUFFICES ASSUME Wide + 2 < k PROVE FALSE
    BY <1>0
  <2>1. 2 * d <= b
    BY <1>0, <1>2, PowOrder
  <2> QED BY <1>1, <1>2, <2>1
<1>4. PICK e \in Int : e = k + 1 - Precision
  BY <1>0
<1>5. e \in -Precision .. Wide + 3
  BY <1>0, <1>3, <1>4, PrecisionIs
<1>6. CASE e <= 0
  <2>1. -e \in Nat /\ k + (-e) = Precision - 1 /\ (k + 1) + (-e) = Precision
    BY <1>0, <1>4, <1>6
  <2>2. PICK g, x, y \in Nat \ {0} : g = Pow(-e) /\ x = Pow(Precision - 1) /\ y = Pow(Precision)
    BY <1>0, <2>1, PowType
  <2>3. x = b * g /\ y = c * g
    <3>1. PICK j \in Nat : j = -e
      BY <2>1
    <3>2. Pow(k + j) = Pow(k) * Pow(j)
      BY PowSum
    <3>3. Pow((k + 1) + j) = Pow(k + 1) * Pow(j)
      BY PowSum
    <3> QED BY <1>2, <2>1, <2>2, <3>1, <3>2, <3>3
  <2>4. Scale(a, -e) = a * g
    BY <2>1, <2>2, ScaleUp
  <2>5. x <= a * g
    <3>1. b <= a
      BY <1>1, <1>2
    <3>2. b * g <= a * g
      BY <3>1
    <3> QED BY <2>3, <3>2
  <2>6. a * g < y
    <3>1. a + 1 <= c
      BY <1>1, <1>2
    <3>2. (a + 1) * g <= c * g /\ (a + 1) * g = a * g + g
      BY <3>1
    <3>3. PICK z \in Int : z = a * g
      OBVIOUS
    <3>4. z + g <= y /\ g > 0
      BY <2>2, <2>3, <3>2, <3>3
    <3> QED BY <3>3, <3>4
  <2>7. PICK z \in Int : z = a * g
    OBVIOUS
  <2>8. Scale(a, -e) \in x .. y - 1
    BY <2>2, <2>4, <2>5, <2>6, <2>7
  <2> QED BY <1>5, <2>2, <2>8 DEF Leaves
<1>7. CASE e > 0
  <2>1. e \in Nat \ {0} /\ Precision + e = k + 1 /\ Precision + e - 1 = k
        /\ e + Precision = k + 1 /\ e + (Precision - 1) = k
    BY <1>0, <1>4, <1>7
  <2>2. First(a, e)
    <3>1. a < Pow(Precision + e) /\ Pow(Precision + e - 1) <= a
      BY <1>1, <2>1
    <3> QED BY <1>0, <2>1, <3>1, FirstIs
  <2>3. PICK p \in Int : a = p * Pow(e)
    BY <1>0, <2>1, <2>2, RoundExact
  <2>4. PICK g, x, y \in Nat \ {0} : g = Pow(e) /\ x = Pow(Precision - 1) /\ y = Pow(Precision)
    BY <1>0, <2>1, PowType
  <2>5. Scale(a, -e) = p
    <3>1. Scale(a, -e) = a \div g
      BY <2>1, <2>4, ScaleDown
    <3>2. a = p * g
      BY <2>3, <2>4
    <3> QED BY <3>1, <3>2, DivTimes
  <2>6. b = g * x /\ c = g * y
    <3>1. Pow(e + (Precision - 1)) = Pow(e) * Pow(Precision - 1) /\ Pow(e + Precision) = Pow(e) * Pow(Precision)
      BY <1>0, <2>1, PowSum
    <3> QED BY <1>2, <2>1, <2>4, <3>1
  <2>7. a = p * g
    BY <2>3, <2>4
  <2>8. x <= p
    <3> SUFFICES ASSUME p + 1 <= x PROVE FALSE
      OBVIOUS
    <3>1. (p + 1) * g <= x * g /\ (p + 1) * g = p * g + g /\ x * g = g * x
      OBVIOUS
    <3>2. a + g <= b
      BY <2>6, <2>7, <3>1
    <3> QED BY <1>1, <1>2, <3>2
  <2>9. p < y
    <3> SUFFICES ASSUME y <= p PROVE FALSE
      OBVIOUS
    <3>1. y * g <= p * g /\ y * g = g * y
      OBVIOUS
    <3>2. c <= a
      BY <2>6, <2>7, <3>1
    <3> QED BY <1>1, <1>2, <3>2
  <2>10. Scale(a, -e) \in x .. y - 1
    BY <2>5, <2>8, <2>9
  <2> QED BY <1>5, <2>4, <2>10 DEF Leaves
<1> QED BY <1>6, <1>7

(* With any such exponent, scaling up again gives the number back.         *)
LEMMA ScaleBack ==
  ASSUME NEW a \in Nat, a <= Pow(Wide + 2), Round(a) = a,
         NEW e \in -Precision .. Wide + 3, Leaves(a, e)
  PROVE  Scale(Scale(a, -e), e) = a
<1>0. Precision \in Nat /\ Precision >= 2 /\ Wide + 2 \in Nat /\ Abs(a) = a
      /\ Precision - 1 \in Nat /\ e \in Int
  BY PrecisionIs, AbsIs
<1>1. CASE e < 0
  <2>1. PICK k \in Nat \ {0} : k = -e /\ e = -k
    BY <1>0, <1>1
  <2>2. PICK g \in Nat \ {0} : g = Pow(k)
    BY <2>1, PowType
  <2>3. Scale(a, -e) = a * g
    BY <2>1, <2>2, ScaleUp
  <2>4. PICK m \in Int : m = a * g
    OBVIOUS
  <2>5. Scale(m, e) = m \div g
    BY <2>1, <2>2, <2>4, ScaleDown
  <2> QED BY <2>2, <2>3, <2>4, <2>5, DivTimes
<1>2. CASE e = 0
  <2>1. PICK k \in Nat : k = -e /\ e = k /\ k = 0
    BY <1>0, <1>2
  <2>2. Scale(a, k) = a
    BY <2>1, ScaleUp, PowZero
  <2> QED BY <2>1, <2>2
<1>3. CASE e > 0
  <2>0. e \in Nat \ {0} /\ a # 0
    BY <1>0, <1>3 DEF Leaves
  <2>1. PICK g, x, y \in Nat \ {0} : g = Pow(e) /\ x = Pow(Precision - 1) /\ y = Pow(Precision)
    BY <1>0, <2>0, PowType
  <2>2. PICK m, r \in Int : m = a \div g /\ 0 <= r /\ r < g /\ a = m * g + r
    BY DivMod
  <2>3. Scale(a, -e) = m
    BY <2>0, <2>1, <2>2, ScaleDown
  <2>4. x <= m /\ m < y
    BY <2>0, <2>1, <2>3 DEF Leaves
  <2>5. First(a, e)
    <3>1. Precision + e \in Nat /\ Precision + e - 1 \in Nat
          /\ e + (Precision - 1) = Precision + e - 1
      BY <1>0, <2>0
    <3>2. PICK b, c \in Nat : b = Pow(Precision + e - 1) /\ c = Pow(Precision + e)
      BY <3>1, PowType
    <3>3. b = g * x /\ c = y * g
      <4>1. Pow(e + (Precision - 1)) = Pow(e) * Pow(Precision - 1) /\ Pow(Precision + e) = Pow(Precision) * Pow(e)
        BY <1>0, <2>0, PowSum
      <4> QED BY <2>1, <3>1, <3>2, <4>1
    <3>4. x * g <= m * g /\ x * g = g * x
      BY <2>4
    <3>5. (m + 1) * g <= y * g /\ (m + 1) * g = m * g + g
      BY <2>4
    <3>6. PICK z \in Int : z = m * g
      OBVIOUS
    <3>7. b <= a /\ a < c
      BY <2>2, <3>3, <3>4, <3>5, <3>6
    <3> QED BY <1>0, <2>0, <3>2, <3>7, FirstIs
  <2>6. PICK p \in Int : a = p * g
    BY <1>0, <2>0, <2>1, <2>5, RoundExact
  <2>7. m = p
    BY <2>2, <2>6, DivTimes
  <2>8. Scale(m, e) = m * g
    BY <2>0, <2>1, ScaleUp
  <2> QED BY <2>3, <2>6, <2>7, <2>8
<1> QED BY <1>0, <1>1, <1>2, <1>3

(* Doubles are symmetric about 0.                                          *)
LEMMA RoundAbs ==
  ASSUME NEW n \in Int, Abs(n) <= Pow(Wide + 2), Round(n) = n
  PROVE  Abs(n) \in Nat /\ Abs(Abs(n)) = Abs(n) /\ Round(Abs(n)) = Abs(n)
<1>1. PICK a \in Nat : a = Abs(n) /\ Abs(a) = a /\ (a = n \/ a = -n)
  BY AbsIs
<1>2. PICK e \in 0 .. Wide + 2 : First(n, e)
  BY UlpIs
<1>3. e \in Nat
  OBVIOUS
<1>4. PICK p \in Int : n = p * Pow(e)
  BY <1>2, <1>3, RoundExact
<1>5. First(a, e)
  BY <1>1, <1>2 DEF First, Fits
<1>6. PICK u \in Nat : u = Pow(e)
  BY <1>3, PowType
<1>7. PICK q \in Int : a = q * u
  <2>1. CASE a = n
    BY <1>4, <1>6, <2>1
  <2>2. CASE a = -n
    <3>1. -p \in Int /\ a = (-p) * u
      BY <1>4, <1>6, <2>2
    <3> QED BY <3>1
  <2> QED BY <1>1, <2>1, <2>2
<1>8. Abs(a) <= Pow(Wide + 2)
  BY <1>1
<1>9. Round(a) = a
  BY <1>3, <1>5, <1>6, <1>7, <1>8, RoundExact
<1> QED BY <1>1, <1>9

LEMMA ZeroIs == /\ Abs(0) = 0 /\ Abs(0) <= Pow(Wide + 2) /\ Round(0) = 0 /\ Trunc(0) = 0
<1>1. Abs(0) = 0
  BY AbsIs
<1>2. Wide + 2 \in Nat /\ Precision \in Nat
  BY PrecisionIs
<1>3. Pow(Wide + 2) \in Nat \ {0} /\ Pow(Precision) \in Nat \ {0}
  BY <1>2, PowType
<1>4. Round(0) = 0
  BY <1>1, <1>3, RoundSmall
<1>5. Trunc(2 * 0) = 2 * 0
  BY TruncWhole
<1> QED BY <1>1, <1>3, <1>4, <1>5

(* A double comes back from network order as it was; only -0.0 loses its   *)
(* sign.                                                                   *)
LEMMA NetworkAndBack ==
  ASSUME NEW v \in Numbers("double")
  PROVE  FromNetwork(ToNetwork(v)) = IF v = NegZero THEN 0 ELSE v
<1>1. CASE v = NaN
  BY <1>1, SpecialIs DEF ToNetwork, FromNetwork
<1>2. CASE v = NegInf
  BY <1>2, SpecialIs DEF ToNetwork, FromNetwork
<1>3. CASE v = PosInf
  BY <1>3, SpecialIs DEF ToNetwork, FromNetwork
<1>4. CASE v \notin {NaN, NegInf, PosInf}
  <2>1. PICK n \in Int : /\ n = (IF v = NegZero THEN 0 ELSE v)
                         /\ Abs(n) <= Pow(Wide + 2) /\ Round(n) = n
    <3>1. CASE v = NegZero
      BY <3>1, ZeroIs
    <3>2. CASE v # NegZero
      BY <1>4, <3>2, DoublesAre DEF Special
    <3> QED BY <3>1, <3>2
  <2>2. PICK a \in Nat : a = Abs(n) /\ Round(a) = a /\ a <= Pow(Wide + 2)
    BY <2>1, RoundAbs
  <2>3. \E e \in -Precision .. Wide + 3 : Leaves(a, e)
    <3>1. CASE a = 0
      <4>1. -Precision \in -Precision .. Wide + 3
        BY PrecisionIs
      <4> QED BY <3>1, <4>1 DEF Leaves
    <3>2. CASE a # 0
      BY <2>2, <3>2, SomeExponent
    <3> QED BY <3>1, <3>2
  <2>4. PICK e \in -Precision .. Wide + 3 : Leaves(a, e) /\ Exponent(a) = e
    BY <2>3, ExponentIs
  <2>5. Scale(Scale(a, -e), e) = a
    BY <2>2, <2>4, ScaleBack
  <2>6. ToNetwork(v) = [type |-> IF n < 0 THEN "NormalNegative" ELSE "NormalPositive",
                        mantissa |-> Scale(a, -e), exp |-> e]
    BY <1>4, <2>1, <2>2, <2>4 DEF ToNetwork
  <2>7. CASE n < 0
    <3>1. FromNetwork(ToNetwork(v)) = -Scale(Scale(a, -e), e)
      BY <2>6, <2>7 DEF FromNetwork
    <3>2. -a = n
      BY <2>2, <2>7, AbsIs
    <3> QED BY <2>1, <2>5, <3>1, <3>2
  <2>8. CASE ~(n < 0)
    <3>1. FromNetwork(ToNetwork(v)) = Scale(Scale(a, -e), e)
      BY <2>6, <2>8 DEF FromNetwork
    <3>2. a = n
      BY <2>2, <2>8, AbsIs
    <3> QED BY <2>1, <2>5, <3>1, <3>2
  <2> QED BY <2>7, <2>8
<1> QED BY <1>1, <1>2, <1>3, <1>4

-----------------------------------------------------------------------------
(* Objects, and what the converters accept.                                *)
LEMMA ObjectsAre ==
  ASSUME NEW o
  PROVE  o \in Objects <=> /\ o = [type |-> o.type, order |-> "host", value |-> o.value]
                           /\ o.type \in Numeric \cup {"string"} /\ o.value \in Numbers(o.type)
<1>1. ASSUME o \in Objects
      PROVE  /\ o = [type |-> o.type, order |-> "host", value |-> o.value]
             /\ o.type \in Numeric \cup {"string"} /\ o.value \in Numbers(o.type)
  <2>1. PICK T \in Numeric \cup {"string"} :
          o \in [type : {T}, order : {"host"}, value : Numbers(T)]
    BY <1>1 DEF Objects
  <2> QED BY <2>1
<1>2. ASSUME o = [type |-> o.type, order |-> "host", value |-> o.value],
             o.type \in Numeric \cup {"string"}, o.value \in Numbers(o.type)
      PROVE  o \in Objects
  <2>1. PICK T, x : T = o.type /\ x = o.value
    OBVIOUS
  <2>2. [type |-> T, order |-> "host", value |-> x] \in [type : {T}, order : {"host"}, value : Numbers(T)]
    BY <1>2, <2>1
  <2> QED BY <1>2, <2>1, <2>2 DEF Objects
<1> QED BY <1>1, <1>2

(* A number of a type, stored as it, is an object in host order.           *)
LEMMA ObjectOf ==
  ASSUME NEW T \in Numeric \cup {"string"}, NEW v \in Numbers(T)
  PROVE  /\ [type |-> T, order |-> "host", value |-> v] \in Objects
         /\ InHost([type |-> T, order |-> "host", value |-> v])
              = [type |-> T, order |-> "host", value |-> v]
BY DEF Objects, InHost

LEMMA InHostSame ==
  ASSUME NEW o \in Objects
  PROVE  InHost(o) = o
BY ObjectsAre DEF InHost

(* The value of an object, by its type.                                    *)
LEMMA ValueIs ==
  ASSUME NEW o \in Objects
  PROVE  /\ o.value \in Special => o.type = "double"
         /\ o.value \notin Special =>
              /\ o.value \in Int /\ Abs(o.value) <= Pow(Wide + 2)
              /\ o.type = "double" => Round(o.value) = o.value
              /\ o.type # "double" => \E k \in Int : o.value = 2 * k
         /\ o.type = "string" => o.value = 0
<1>1. o.type \in Numeric \cup {"string"} /\ o.value \in Numbers(o.type)
  BY ObjectsAre
<1>2. CASE o.type = "double"
  BY <1>1, <1>2, DoublesAre
<1>3. CASE o.type \in IntType
  <2>1. /\ o.value \in Int /\ Lowest(o.type) <= o.value /\ o.value <= Max(o.type)
        /\ \E k \in Int : o.value = 2 * k
    BY <1>1, <1>3, NumbersAre
  <2>2. Abs(o.value) <= Pow(Wide + 2)
    BY <1>3, <2>1, WithinWide
  <2>3. o.value \notin Special
    BY <2>1, SpecialAssumption
  <2>4. o.type # "double" /\ o.type # "string"
    BY <1>3 DEF IntType
  <2> QED BY <2>1, <2>2, <2>3, <2>4
<1>4. CASE o.type = "string"
  <2>1. o.value = 0
    BY <1>1, <1>4 DEF Numbers, IntType
  <2>2. o.value \notin Special /\ o.value = 2 * 0
    BY <2>1, SpecialAssumption
  <2> QED BY <1>4, <2>1, <2>2, ZeroIs
<1> QED BY <1>1, <1>2, <1>3, <1>4 DEF Numeric

LEMMA LeqInt ==
  ASSUME NEW a \in Int, NEW b \in Int
  PROVE  Leq(a, b) <=> a <= b
BY SpecialIs DEF Leq

(* The upper bound of a range check is not below what the type holds; for  *)
(* to_int64() of a double it is that of int32_t.                           *)
LEMMA UpperIs ==
  ASSUME NEW T \in IntType, NEW from \in Numeric
  PROVE  /\ Upper(T, from) \in Int
         /\ from # "double" => Upper(T, from) = Max(T)
         /\ from = "double" =>
              /\ T # "uint64" => \E S \in {"int32", "uint32"} : /\ S = (IF T = "int64" THEN "int32" ELSE T)
                                                               /\ Upper(T, from) = Max(S)
                                                               /\ Max(S) <= Max(T)
              /\ T = "uint64" => Upper(T, from) = Max(T) + 2
<1>1. CASE from # "double"
  BY <1>1, WidthsAre DEF Upper
<1>2. CASE from = "double" /\ T = "uint64"
  <2>1. Upper(T, from) = Pow(Wide + 1) /\ Max(T) = Pow(Wide + 1) - 2
    BY <1>2, LongMax DEF Upper
  <2>2. Wide + 1 \in Nat
    BY PrecisionIs
  <2>3. Pow(Wide + 1) \in Nat
    BY <2>2, PowType
  <2> QED BY <1>2, <2>1, <2>3
<1>3. CASE from = "double" /\ T # "uint64"
  <2>1. PICK S \in {"int32", "uint32"} : S = (IF T = "int64" THEN "int32" ELSE T)
    BY <1>3 DEF IntType
  <2>2. Upper(T, from) = Max(S)
    BY <1>3, <2>1, ShortMax DEF Upper
  <2>3. S \in IntType
    BY DEF IntType
  <2>4. Max(S) <= Max(T) /\ Max(S) \in Int
    <3>1. CASE T # "int64"
      BY <2>1, <2>3, <3>1, WidthsAre
    <3>2. CASE T = "int64"
      <4>1. S = "int32" /\ Signed(S) /\ Signed(T) /\ Bits(S) = Narrow /\ Bits(T) = Wide
        BY <2>1, <3>2 DEF Signed, Bits
      <4>2. PICK p \in Nat : p = Pow(Narrow - 1) /\ Max(S) = 2 * (p - 1)
        BY <2>3, <4>1, RangeIs
      <4>3. PICK q \in Nat : q = Pow(Wide - 1) /\ Max(T) = 2 * (q - 1)
        BY <4>1, RangeIs
      <4>4. Narrow - 1 \in Nat /\ Wide - 1 \in Nat /\ Narrow - 1 <= Wide - 1
        BY WidthAssumption
      <4>5. p <= q
        BY <4>2, <4>3, <4>4, PowOrder
      <4> QED BY <4>2, <4>3, <4>5
    <3> QED BY <3>1, <3>2
  <2> QED BY <1>3, <2>1, <2>2, <2>4
<1> QED BY <1>1, <1>2, <1>3

(* A special double but -0.0 is in no range.                               *)
LEMMA OnlyNegZero ==
  ASSUME NEW T \in IntType, NEW v \in Special, NEW m \in Int, Leq(Lowest(T), v), Leq(v, m)
  PROVE  v = NegZero
<1>1. Lowest(T) \in Int
  BY WidthsAre
<1>2. v # NaN /\ v # NegInf
  BY <1>1, SpecialIs DEF Leq
<1>3. v # PosInf
  BY SpecialIs DEF Leq
<1> QED BY <1>2, <1>3 DEF Special

(* A double in range is cast to a number of the type, unless it is the     *)
(* one just above uint64_t.                                                *)
LEMMA TruncFits ==
  ASSUME NEW T \in IntType, NEW v \in Int, Abs(v) <= Pow(Wide + 2), Round(v) = v,
         Lowest(T) <= v, v <= Upper(T, "double")
  PROVE  Trunc(v) \in Numbers(T) \/ (T = "uint64" /\ v = Pow(Wide + 1) /\ Trunc(v) \notin Numbers(T))
<1>0. "double" \in Numeric
  BY DEF Numeric
<1>1. PICK k \in Int : /\ Trunc(v) = 2 * k
                       /\ v >= 0 => 2 * k <= v /\ v <= 2 * k + 1
                       /\ v <= 0 => v <= 2 * k /\ 2 * k - 1 <= v
  BY TruncIs
<1>2. PICK a, b \in Int : /\ a = Lowest(T) /\ b = Max(T) /\ a <= 0 /\ 0 <= b
                          /\ \E j \in Int : b = 2 * j
  BY WidthsAre
<1>3. ASSUME v <= b PROVE Trunc(v) \in Numbers(T)
  <2>1. a <= 2 * k /\ 2 * k <= b
    BY <1>1, <1>2, <1>3
  <2>2. 2 * k \in Int
    OBVIOUS
  <2> QED BY <1>1, <1>2, <2>1, <2>2, NumbersAre
<1>4. CASE T # "uint64"
  <2>1. PICK S \in {"int32", "uint32"} : Upper(T, "double") = Max(S) /\ Max(S) <= b
    BY <1>0, <1>2, <1>4, UpperIs
  <2>2. S \in IntType
    BY DEF IntType
  <2>3. Max(S) \in Int
    BY <2>2, WidthsAre
  <2> QED BY <1>2, <1>3, <2>1, <2>3
<1>5. CASE T = "uint64"
  <2>1. Upper(T, "double") = b + 2
    BY <1>0, <1>2, <1>5, UpperIs
  <2>2. Precision \in Nat /\ Wide + 1 \in Nat /\ Precision < Wide + 1
    BY WidthAssumption
  <2>3. PICK c, d \in Nat \ {0} : c = Pow(Precision) /\ d = Pow(Wide + 1) /\ 2 * c <= d
    BY <2>2, PowOrder, PowType
  <2>4. b = d - 2
    BY <1>2, <1>5, <2>3, LongMax
  <2>5. CASE v > b
    <3>1. c <= v /\ Abs(v) = v
      BY <1>2, <2>3, <2>4, <2>5, AbsIs
    <3>2. Pow(Precision) <= Abs(v)
      BY <2>3, <3>1
    <3>3. PICK j \in Int : v = 2 * j
      BY <3>2, LargeIsWhole
    <3>4. v = b + 2
      BY <1>2, <2>1, <2>5, <3>3
    <3>5. Trunc(v) = v
      BY <3>3, TruncWhole
    <3>6. Trunc(v) \notin Numbers(T)
      BY <1>2, <2>5, <3>5, NumbersAre
    <3> QED BY <1>5, <2>3, <2>4, <3>4, <3>6
  <2> QED BY <1>2, <1>3, <2>5
<1> QED BY <1>4, <1>5

(* An undefined cast to uint64_t may answer several numbers.               *)
LEMMA LongHasSeveral == Cardinality(Numbers("uint64")) > 1
<1>0. "uint64" \in IntType /\ ~Signed("uint64")
  BY DEF IntType, Signed
<1>1. Lowest("uint64") = 0 /\ Max("uint64") \in Int /\ 2 <= Max("uint64")
  BY <1>0, RangeIs
<1>2. 0 = 2 * 0 /\ 2 = 2 * 1
  OBVIOUS
<1>3. 0 \in Numbers("uint64") /\ 2 \in Numbers("uint64")
  BY <1>0, <1>1, <1>2, NumbersAre
<1> QED BY <1>0, <1>3, Several

(* What a converter makes of a number it accepts.                          *)
LEMMA CastIs ==
  ASSUME NEW T \in Numeric, NEW o \in Objects, Accepts(T, o)
  PROVE  \/ T = "double" /\ o.value \in Special /\ Cast(T, o) = {o.value}
         \/ T \in IntType /\ o.value = NegZero /\ Cast(T, o) = {0}
         \/ T = "double" /\ o.value \notin Special /\ Cast(T, o) = {Round(o.value)}
         \/ /\ T \in IntType /\ o.value \in Numbers(T) /\ o.value \notin Special
            /\ Cast(T, o) = {o.value}
         \/ /\ T \in IntType /\ o.type = "double" /\ o.value \notin Special
            /\ Trunc(o.value) \in Numbers(T) /\ Cast(T, o) = {Trunc(o.value)}
         \/ /\ T = "uint64" /\ o.type = "double" /\ o.value = Pow(Wide + 1)
            /\ Cast(T, o) = Numbers(T)
<1>0. o.type \in Numeric /\ (T # "double" => Leq(Lowest(T), o.value) /\ Leq(o.value, Upper(T, o.type)))
  BY DEF Accepts
<1>1. CASE T = "double" /\ o.value \in Special
  BY <1>1 DEF Cast
<1>2. CASE T = "double" /\ o.value \notin Special
  BY <1>2 DEF Cast
<1>3. CASE T \in IntType
  <2>0. T # "double" /\ Upper(T, o.type) \in Int
    BY <1>0, <1>3, UpperIs DEF IntType
  <2>1. CASE o.value \in Special
    <3>1. o.value = NegZero
      BY <1>0, <1>3, <2>0, <2>1, OnlyNegZero
    <3>2. o.type = "double"
      BY <2>1, ValueIs
    <3>3. Cast(T, o) = {0}
      BY <2>0, <2>1, <3>2 DEF Cast
    <3> QED BY <1>3, <3>1, <3>3
  <2>2. CASE o.value \notin Special
    <3>1. PICK v \in Int : /\ v = o.value /\ Abs(v) <= Pow(Wide + 2)
                           /\ o.type = "double" => Round(v) = v
                           /\ o.type # "double" => \E k \in Int : v = 2 * k
      BY <2>2, ValueIs
    <3>2. Lowest(T) <= v /\ v <= Upper(T, o.type)
      BY <1>0, <1>3, <2>0, <3>1, LeqInt, WidthsAre
    <3>3. CASE o.type # "double"
      <4>1. Upper(T, o.type) = Max(T)
        BY <1>0, <1>3, <3>3, UpperIs
      <4>2. v \in Numbers(T)
        BY <1>3, <3>1, <3>2, <3>3, <4>1, NumbersAre
      <4>3. Wrap(T, v) = v
        BY <1>3, <3>2, <4>1, WrapKeeps
      <4>4. Cast(T, o) = {v}
        BY <2>0, <2>2, <3>1, <3>3, <4>3 DEF Cast
      <4> QED BY <1>3, <2>2, <3>1, <4>2, <4>4
    <3>4. CASE o.type = "double"
      <4>1. Trunc(v) \in Numbers(T) \/ (T = "uint64" /\ v = Pow(Wide + 1) /\ Trunc(v) \notin Numbers(T))
        BY <1>3, <3>1, <3>2, <3>4, TruncFits
      <4>2. Cast(T, o) = IF Trunc(v) \in Numbers(T) THEN {Trunc(v)} ELSE Numbers(T)
        BY <2>0, <2>2, <3>1, <3>4 DEF Cast
      <4> QED BY <1>3, <2>2, <3>1, <3>4, <4>1, <4>2
    <3> QED BY <3>3, <3>4
  <2> QED BY <2>1, <2>2
<1> QED BY <1>1, <1>2, <1>3 DEF Numeric

(* A cast of an accepted number is a number of the type.                   *)
LEMMA CastInRange ==
  ASSUME NEW T \in Numeric, NEW o \in Objects, Accepts(T, o), NEW v \in Cast(T, o)
  PROVE  v \in Numbers(T)
<1>1. CASE T = "double" /\ o.value \in Special /\ Cast(T, o) = {o.value}
  BY <1>1, DoublesAre
<1>2. CASE T \in IntType /\ Cast(T, o) = {0}
  <2>1. 0 = 2 * 0 /\ v = 0
    BY <1>2
  <2> QED BY <1>2, <2>1, NumbersAre, WidthsAre
<1>3. CASE T = "double" /\ o.value \notin Special /\ Cast(T, o) = {Round(o.value)}
  <2>1. PICK n \in Int : n = o.value /\ Abs(n) <= Pow(Wide + 2)
    BY <1>3, ValueIs
  <2>2. v = Round(n)
    BY <1>3, <2>1
  <2> QED BY <1>3, <2>1, <2>2, RoundTwice, DoublesAre
<1> QED BY <1>1, <1>2, <1>3, CastIs

-----------------------------------------------------------------------------
(* The images of a number contain it and are closed under what the         *)
(* converters and the byte orders do.                                      *)
LEMMA ImagesClosed ==
  ASSUME NEW r \in Objects, NEW v \in Images(r)
  PROVE  /\ v \in Special => v = r.value
         /\ v = NegZero => 0 \in Images(r)
         /\ v \notin Special => /\ v \in Int /\ Abs(v) <= Pow(Wide + 2)
                                /\ Round(v) \in Images(r)
         /\ (v \notin Special /\ Round(v) = v) => Trunc(v) \in Images(r)
<1>1. CASE r.value \in Special
  <2>1. v = r.value \/ (r.value = NegZero /\ v = 0)
    BY <1>1 DEF Images
  <2>2. v \notin Special => v = 0
    BY <1>1, <2>1
  <2>3. 0 \notin Special /\ (r.value = NegZero => 0 \in Images(r))
    BY <1>1, SpecialAssumption DEF Images
  <2>4. v \notin Special => r.value = NegZero
    BY <1>1, <2>1
  <2> QED BY <2>1, <2>2, <2>3, <2>4, ZeroIs
<1>2. CASE r.value \notin Special
  <2>1. PICK x \in Int : /\ x = r.value /\ Abs(x) <= Pow(Wide + 2)
                         /\ r.type = "double" => Round(x) = x
                         /\ r.type # "double" => \E k \in Int : x = 2 * k
    BY <1>2, ValueIs
  <2>2. Images(r) = {x, IF r.type = "double" THEN Trunc(x) ELSE Round(x)}
    BY <1>2, <2>1 DEF Images
  <2>3. CASE r.type = "double"
    <3>1. /\ Trunc(x) \in Int /\ Abs(Trunc(x)) <= Pow(Wide + 2)
          /\ Round(Trunc(x)) = Trunc(x) /\ Trunc(Trunc(x)) = Trunc(x)
      BY <2>1, <2>3, TruncDouble
    <3>2. Images(r) = {x, Trunc(x)}
      BY <2>2, <2>3
    <3>3. v = x \/ v = Trunc(x)
      BY <3>2
    <3>4. v \in Int /\ Abs(v) <= Pow(Wide + 2) /\ Round(v) = v /\ Trunc(v) = Trunc(x)
      BY <2>1, <2>3, <3>1, <3>3
    <3>5. v \notin Special
      BY <3>4, SpecialAssumption
    <3>6. v # NegZero
      BY <3>5 DEF Special
    <3> QED BY <3>2, <3>4, <3>5, <3>6
  <2>4. CASE r.type # "double"
    <3>1. PICK k \in Int : x = 2 * k
      BY <2>1, <2>4
    <3>2. PICK m \in Int : m = Round(x) /\ Abs(m) <= Pow(Wide + 2) /\ Round(m) = m
      BY <2>1, RoundTwice
    <3>3. PICK j \in Int : m = 2 * j
      BY <2>1, <3>1, <3>2, RoundWhole
    <3>4. Trunc(x) = x /\ Trunc(m) = m
      BY <3>1, <3>3, TruncWhole
    <3>5. Images(r) = {x, m}
      BY <2>2, <2>4, <3>2
    <3>6. v = x \/ v = m
      BY <3>5
    <3>7. v \in Int /\ Abs(v) <= Pow(Wide + 2) /\ Round(v) = m /\ Trunc(v) = v
      BY <2>1, <3>2, <3>4, <3>6
    <3>8. v \notin Special
      BY <3>7, SpecialAssumption
    <3>9. v # NegZero
      BY <3>8 DEF Special
    <3> QED BY <3>5, <3>7, <3>8, <3>9
  <2> QED BY <2>3, <2>4
<1> QED BY <1>1, <1>2

(* A cast keeps to the images of the number, or is undefined, which only   *)
(* 2^64 is to uint64_t.                                                    *)
LEMMA CastFaithful ==
  ASSUME NEW T \in Numeric, NEW o \in Objects, Accepts(T, o), NEW r \in Objects,
         o.value \in Images(r), NEW v \in Cast(T, o)
  PROVE  IF Cardinality(Cast(T, o)) > 1 THEN Pow(Wide + 1) \in Images(r)
                                        ELSE v \in Images(r)
<1>0. ASSUME NEW x PROVE ~(Cardinality({x}) > 1)
  <2>1. Cardinality({x}) = 1
    BY FS_Singleton, Zenon
  <2> QED BY <2>1
<1>1. CASE T = "double" /\ o.value \in Special /\ Cast(T, o) = {o.value}
  BY <1>0, <1>1
<1>2. CASE T \in IntType /\ o.value = NegZero /\ Cast(T, o) = {0}
  BY <1>0, <1>2, ImagesClosed
<1>3. CASE T = "double" /\ o.value \notin Special /\ Cast(T, o) = {Round(o.value)}
  BY <1>0, <1>3, ImagesClosed
<1>4. CASE T \in IntType /\ o.value \in Numbers(T) /\ Cast(T, o) = {o.value}
  BY <1>0, <1>4
<1>5. CASE /\ T \in IntType /\ o.type = "double" /\ o.value \notin Special
           /\ Trunc(o.value) \in Numbers(T) /\ Cast(T, o) = {Trunc(o.value)}
  <2>1. Round(o.value) = o.value
    BY <1>5, ValueIs
  <2>2. Trunc(o.value) \in Images(r)
    BY <1>5, <2>1, ImagesClosed
  <2> QED BY <1>0, <1>5, <2>2
<1>6. CASE /\ T = "uint64" /\ o.value = Pow(Wide + 1) /\ Cast(T, o) = Numbers(T)
  BY <1>6, LongHasSeveral
<1> QED BY <1>1, <1>2, <1>3, <1>4, <1>5, <1>6, CastIs

-----------------------------------------------------------------------------
(* The inductive invariant: the types, what the object may have become,    *)
(* text that stays text, and why a default was answered.                   *)
OutOfRange(T, o, r) ==
  \/ r.type \notin Numeric
  \/ \E v \in Images(r) :
       ~ (/\ Leq(Lowest(T), v)
          /\ Leq(v, Max(IF T = "int64" /\ o.type = "double" THEN "int32" ELSE T)))

ChainInv ==
  /\ InHost(obj) \in Objects /\ origin \in Objects
  /\ refused \in Numeric \cup {None} /\ undefined \in BOOLEAN
  /\ undefined => Pow(Wide + 1) \in Images(origin)
  /\ ~undefined => InHost(obj).value \in Images(origin)
  /\ InHost(obj).type \notin Numeric => origin.type \notin Numeric
  /\ refused # None /\ ~undefined => OutOfRange(refused, obj, origin)

(* It holds of any number stored as its own type.                          *)
LEMMA Start == Init => ChainInv
<1> SUFFICES ASSUME Init PROVE ChainInv
  OBVIOUS
<1>1. obj \in Objects /\ origin = obj /\ refused = None /\ undefined = FALSE
  BY DEF Init
<1>2. InHost(obj) = obj
  BY <1>1, InHostSame
<1>3. obj.value \in Images(origin)
  BY <1>1 DEF Images
<1> QED BY <1>1, <1>2, <1>3 DEF ChainInv

(* A converter that accepts the number stores one of its images.           *)
LEMMA ConvertStep ==
  ASSUME ChainInv, NEW T \in Numeric, Convert(T)
  PROVE  ChainInv'
<1> DEFINE o == InHost(obj)
<1>0. o \in Objects /\ origin \in Objects /\ undefined \in BOOLEAN
  BY DEF ChainInv
<1>1. refused = None /\ Accepts(T, o) /\ origin' = origin /\ refused' = refused
      /\ undefined' = (undefined \/ Cardinality(Cast(T, o)) > 1)
  BY DEF Convert
<1>2. PICK v \in Cast(T, o) : obj' = [type |-> T, order |-> "host", value |-> v]
  BY DEF Convert
<1>3. v \in Numbers(T)
  BY <1>0, <1>1, CastInRange
<1>4. InHost(obj') = obj' /\ obj' \in Objects /\ obj'.type = T /\ obj'.value = v
  BY <1>2, <1>3, ObjectOf
<1>5. ASSUME ~undefined
      PROVE IF Cardinality(Cast(T, o)) > 1 THEN Pow(Wide + 1) \in Images(origin)
                                           ELSE v \in Images(origin)
  <2>1. o.value \in Images(origin)
    BY <1>5 DEF ChainInv
  <2> QED BY <1>0, <1>1, <2>1, CastFaithful
<1>6. undefined => Pow(Wide + 1) \in Images(origin)
  BY DEF ChainInv
<1> HIDE DEF o
<1>7. /\ undefined' => Pow(Wide + 1) \in Images(origin')
      /\ ~undefined' => InHost(obj').value \in Images(origin')
  BY <1>0, <1>1, <1>4, <1>5, <1>6
<1>8. undefined' \in BOOLEAN /\ refused' \in Numeric \cup {None} /\ refused' = None
  BY <1>1
<1>9. InHost(obj)' = InHost(obj')
  BY DEF InHost
<1>10. Images(origin)' = Images(origin')
  BY DEF Images
<1> QED BY <1>0, <1>1, <1>4, <1>7, <1>8, <1>9, <1>10 DEF ChainInv

(* A converter that refuses it has a reason.                               *)
LEMMA DefaultStep ==
  ASSUME ChainInv, NEW T \in Numeric, Default(T)
  PROVE  ChainInv'
<1> DEFINE o == InHost(obj)
<1>0. o \in Objects /\ origin \in Objects /\ undefined \in BOOLEAN
  BY DEF ChainInv
<1>1. /\ refused = None /\ ~Accepts(T, o) /\ refused' = T /\ obj' = o
      /\ origin' = origin /\ undefined' = undefined
  BY DEF Default
<1>2. InHost(obj') = o
  BY <1>0, <1>1, InHostSame
<1>3. ASSUME ~undefined PROVE OutOfRange(T, o, origin)
  <2>1. o.value \in Images(origin) /\ (o.type \notin Numeric => origin.type \notin Numeric)
    BY <1>3 DEF ChainInv
  <2>2. CASE o.type \notin Numeric
    BY <2>1, <2>2 DEF OutOfRange
  <2>3. CASE o.type \in Numeric
    <3> DEFINE S == IF T = "int64" /\ o.type = "double" THEN "int32" ELSE T
    <3>1. T # "double" /\ ~(Leq(Lowest(T), o.value) /\ Leq(o.value, Upper(T, o.type)))
      BY <1>1, <2>3 DEF Accepts
    <3>2. T \in IntType /\ S \in IntType
      BY <3>1 DEF Numeric, IntType
    <3>3. PICK a, m, u \in Int : a = Lowest(T) /\ m = Max(S) /\ u = Upper(T, o.type) /\ m <= u
      <4>0. Lowest(T) \in Int /\ Max(S) \in Int /\ Upper(T, o.type) \in Int
        BY <2>3, <3>2, UpperIs, WidthsAre
      <4>1. CASE o.type # "double"
        BY <2>3, <3>2, <4>0, <4>1, UpperIs
      <4>2. CASE o.type = "double" /\ T # "uint64"
        <5>1. PICK R \in {"int32", "uint32"} :
                R = (IF T = "int64" THEN "int32" ELSE T) /\ Upper(T, o.type) = Max(R)
          BY <2>3, <3>2, <4>2, UpperIs
        <5>2. R = S
          BY <4>2, <5>1
        <5> QED BY <4>0, <5>1, <5>2
      <4>3. CASE o.type = "double" /\ T = "uint64"
        <5>1. S = T /\ Upper(T, o.type) = Max(T) + 2
          BY <2>3, <3>2, <4>3, UpperIs
        <5> QED BY <4>0, <5>1
      <4> QED BY <4>1, <4>2, <4>3
    <3>4. ~(Leq(a, o.value) /\ Leq(o.value, m))
      <4>1. CASE o.value \in Special
        <5>1. Leq(o.value, m) => Leq(o.value, u)
          BY <3>3, <4>1, SpecialIs DEF Leq, Special
        <5> QED BY <3>1, <3>3, <5>1
      <4>2. CASE o.value \notin Special
        <5>1. o.value \in Int
          BY <1>0, <4>2, ValueIs
        <5> QED BY <3>1, <3>3, <5>1, LeqInt
      <4> QED BY <4>1, <4>2
    <3> QED BY <2>1, <3>3, <3>4 DEF OutOfRange
  <2> QED BY <2>2, <2>3
<1>4. refused' \in Numeric /\ (~undefined' => OutOfRange(refused', obj', origin'))
  BY <1>1, <1>3
<1>5. /\ undefined' => Pow(Wide + 1) \in Images(origin')
      /\ ~undefined' => InHost(obj').value \in Images(origin')
      /\ InHost(obj').type \notin Numeric => origin'.type \notin Numeric
  BY <1>1, <1>2 DEF ChainInv
<1>6. InHost(obj)' = InHost(obj') /\ Images(origin)' = Images(origin')
  BY DEF InHost, Images
<1>7. OutOfRange(refused, obj, origin)' = OutOfRange(refused', obj', origin')
  BY DEF OutOfRange
<1> HIDE DEF o
<1> QED BY <1>0, <1>1, <1>2, <1>4, <1>5, <1>6, <1>7 DEF ChainInv

(* Network order keeps it, as NetworkAndBack says.                         *)
LEMMA UploadStep ==
  ASSUME ChainInv, Upload
  PROVE  ChainInv'
<1>1. /\ refused = None /\ obj.order = "host" /\ obj.type \in Numeric
      /\ obj' = [obj EXCEPT !.order = "network",
                            !.value = IF obj.type = "double" THEN ToNetwork(@) ELSE @]
      /\ origin' = origin /\ refused' = refused /\ undefined' = undefined
  BY DEF Upload
<1>2. InHost(obj) = obj /\ obj \in Objects /\ origin \in Objects
  BY <1>1 DEF ChainInv, InHost
<1>3. PICK T, v : /\ obj = [type |-> T, order |-> "host", value |-> v]
                  /\ obj.type = T /\ obj.value = v /\ T \in Numeric /\ v \in Numbers(T)
  BY <1>1, <1>2, ObjectsAre
<1>4. obj' = [type |-> T, order |-> "network", value |-> IF T = "double" THEN ToNetwork(v) ELSE v]
  BY <1>1, <1>3
<1>5. InHost(obj') = [type |-> T, order |-> "host",
                      value |-> IF T = "double" THEN FromNetwork(ToNetwork(v)) ELSE v]
  BY <1>4 DEF InHost
<1>6. PICK w : /\ InHost(obj') = [type |-> T, order |-> "host", value |-> w]
               /\ w = v \/ (T = "double" /\ v = NegZero /\ w = 0)
  <2>1. CASE T = "double"
    <3>1. FromNetwork(ToNetwork(v)) = IF v = NegZero THEN 0 ELSE v
      BY <1>3, <2>1, NetworkAndBack
    <3>2. InHost(obj') = [type |-> T, order |-> "host", value |-> IF v = NegZero THEN 0 ELSE v]
      BY <1>5, <2>1, <3>1
    <3> QED BY <2>1, <3>2
  <2>2. CASE T # "double"
    BY <1>5, <2>2
  <2> QED BY <2>1, <2>2
<1>7. w \in Numbers(T)
  BY <1>3, <1>6, ZeroIs, DoublesAre
<1>8. InHost(obj') \in Objects /\ InHost(obj').value = w /\ InHost(obj').type = T
  BY <1>3, <1>6, <1>7, ObjectOf
<1>9. v \in Images(origin) => w \in Images(origin)
  BY <1>2, <1>6, ImagesClosed
<1>10. /\ undefined' => Pow(Wide + 1) \in Images(origin')
       /\ ~undefined' => InHost(obj').value \in Images(origin')
  BY <1>1, <1>2, <1>3, <1>8, <1>9 DEF ChainInv
<1>11. refused' = None /\ refused' \in Numeric \cup {None} /\ undefined' \in BOOLEAN
  BY <1>1 DEF ChainInv
<1>12. InHost(obj)' = InHost(obj') /\ Images(origin)' = Images(origin')
  BY DEF InHost, Images
<1> QED BY <1>1, <1>2, <1>3, <1>8, <1>10, <1>11, <1>12 DEF ChainInv

LEMMA Step == ChainInv /\ [Next]_vars => ChainInv'
<1> SUFFICES ASSUME ChainInv, [Next]_vars PROVE ChainInv'
  OBVIOUS
<1>1. CASE Upload
  BY <1>1, UploadStep
<1>2. ASSUME NEW T \in Numeric, Convert(T) PROVE ChainInv'
  BY <1>2, ConvertStep
<1>3. ASSUME NEW T \in Numeric, Default(T) PROVE ChainInv'
  BY <1>3, DefaultStep
<1>4. CASE UNCHANGED vars
  BY <1>4 DEF vars, ChainInv, InHost, Images, OutOfRange
<1> QED BY <1>1, <1>2, <1>3, <1>4 DEF Next

(* Any chain of converters, uploads and downloads keeps it: the functions  *)
(* of from_dson_converters.h, called in any order on one number.           *)
THEOREM ChainStays == Spec => []ChainInv
<1> QED BY Start, Step, PTL DEF Spec

-----------------------------------------------------------------------------
(* What is stored as a type is a number of that type, whatever chain of    *)
(* converters and uploads it came through.                                 *)
THEOREM NumbersTypeOK == Spec => []TypeOK
<1>1. ChainInv => TypeOK
  BY DEF ChainInv, TypeOK
<1> QED BY <1>1, ChainStays, PTL

(* No chain of the converters of from_dson_converters.h, uploads and       *)
(* downloads makes another number of one: for integers and significands    *)
(* of any width it is the number, truncated if it was a double, rounded    *)
(* once if it was an integer; but for the cast of 2^64 by to_uint64().     *)
THEOREM NoOtherNumber == Spec => []ChainFaithful
<1>1. ChainInv => ChainFaithful
  <2>1. ChainInv => undefined \in BOOLEAN
    BY DEF ChainInv
  <2> QED BY <2>1 DEF ChainInv, ChainFaithful, Pow
<1> QED BY <1>1, ChainStays, PTL

(* The default of a converter says that the number the chain began with,   *)
(* or what it may become, is out of the range of that converter.           *)
THEOREM DefaultsExplained == Spec => []DefaultOnlyOutOfRange
<1>1. ChainInv => DefaultOnlyOutOfRange
  BY DEF ChainInv, DefaultOnlyOutOfRange, OutOfRange
<1> QED BY <1>1, ChainStays, PTL
=============================================================================
