-------------------------- MODULE FieldValueProofs --------------------------
(***************************************************************************)
(* What validation accepts and the store gives back of a field value,      *)
(* proved for every width of integers and floats, every limit and every    *)
(* value.                                                                  *)
(***************************************************************************)
EXTENDS FieldValueProperties, FiniteSetTheorems, WellFoundedInduction, TLAPS

------------------------------------------------------------------------------
(* Powers of two, as the number of subsets of an interval.                  *)

LEMMA PowerIsCount ==
  ASSUME NEW k \in Nat
  PROVE  IsFiniteSet(SUBSET (1 .. k)) /\ Cardinality(SUBSET (1 .. k)) = 2^k
<1>1. IsFiniteSet(1 .. k) /\ Cardinality(1 .. k) = k
  BY FS_Interval
<1> QED
  BY <1>1, FS_SUBSET

LEMMA PowerIsPositive ==
  ASSUME NEW k \in Nat
  PROVE  2^k \in Nat /\ 2^k > 0
<1> DEFINE sets == SUBSET (1 .. k)
<1>1. IsFiniteSet(sets) /\ Cardinality(sets) = 2^k
  BY PowerIsCount
<1>2. {} \in sets
  OBVIOUS
<1> HIDE DEF sets
<1>3. Cardinality(sets) \in Nat /\ Cardinality(sets) # 0
  BY <1>1, <1>2, FS_CardinalityType, FS_EmptySet
<1> QED
  BY <1>1, <1>3

LEMMA PowerIsMonotone ==
  ASSUME NEW j \in Nat, NEW k \in Nat, j <= k
  PROVE  2^j <= 2^k
<1> DEFINE few == SUBSET (1 .. j)
           many == SUBSET (1 .. k)
<1>1. few \in SUBSET many
  BY SMT
<1>2. /\ IsFiniteSet(few) /\ Cardinality(few) = 2^j
      /\ IsFiniteSet(many) /\ Cardinality(many) = 2^k
  BY PowerIsCount
<1> HIDE DEF few, many
<1>3. Cardinality(few) <= Cardinality(many)
  BY <1>1, <1>2, FS_Subset
<1> QED
  BY <1>2, <1>3

LEMMA PowerDoubles ==
  ASSUME NEW k \in Nat
  PROVE  2^(k+1) = 2 * 2^k
<1> DEFINE few == SUBSET (1 .. k)
           many == SUBSET (1 .. k+1)
           rest == {s \in many : k+1 \in s}
           add == [s \in few |-> s \cup {k+1}]
<1>1. /\ IsFiniteSet(few) /\ Cardinality(few) = 2^k
      /\ IsFiniteSet(many) /\ Cardinality(many) = 2^(k+1)
  BY PowerIsCount
<1>2. add \in Bijection(few, rest)
  <2>1. \A s \in few : add[s] \in rest
    BY SMT
  <2>2. \A s, t \in few : add[s] = add[t] => s = t
    BY SMT
  <2>3. ASSUME NEW r \in rest PROVE \E s \in few : add[s] = r
    <3>1. r \ {k+1} \in few /\ (r \ {k+1}) \cup {k+1} = r
      BY SMT
    <3> QED
      BY <3>1
  <2> QED
    BY <2>1, <2>2, <2>3 DEF Bijection, Injection, Surjection, IsInjective
<1>3. rest = many \ few /\ few \subseteq many
  BY SMT
<1> HIDE DEF few, many, rest, add
<1>4. IsFiniteSet(rest) /\ Cardinality(rest) = 2^k
  BY <1>1, <1>2, FS_Bijection DEF ExistsBijection
<1>5. many = few \cup rest /\ few \cap rest = {} /\ Cardinality({}) = 0
  BY <1>3, FS_EmptySet
<1>6. Cardinality(few \cup rest) = Cardinality(few) + Cardinality(rest) - Cardinality(few \cap rest)
  BY <1>1, <1>4, FS_Union
<1>7. Cardinality(many) = 2^k + 2^k - 0
  BY <1>1, <1>4, <1>5, <1>6
<1> QED
  BY <1>1, <1>7, PowerIsPositive

LEMMA SmallPowers == 2^0 = 1 /\ 2^1 = 2 /\ 2^2 = 4
<1>1. 2^0 = 1
  <2>1. SUBSET (1 .. 0) = {{}}
    BY SMT
  <2>2. Cardinality({{}}) = 1
    BY FS_Singleton
  <2> QED
    BY <2>1, <2>2, PowerIsCount
<1>2. 2^(0+1) = 2 * 2^0 /\ 2^(1+1) = 2 * 2^1
  BY PowerDoubles
<1> QED
  BY <1>1, <1>2, SMT

------------------------------------------------------------------------------
(* The least of a set of numbers.                                           *)

LEMMA LeastNumber ==
  ASSUME NEW T, T \subseteq Nat, T # {}
  PROVE  \E x \in T : \A y \in T : x <= y
<1>1. PICK x \in T : \A y \in T : <<y, x>> \notin OpToRel(<, Nat)
  BY NatLessThanWellFounded, WFMin
<1>2. \A y \in T : <<y, x>> \in Nat \X Nat
  OBVIOUS
<1>3. \A y \in T : y < x => <<y, x>> \in OpToRel(<, Nat)
  BY <1>2, Zenon DEF OpToRel
<1>4. \A y \in T : ~(y < x)
  BY <1>1, <1>3, Zenon
<1> QED
  BY <1>4, SMT

------------------------------------------------------------------------------
(* The bounds.                                                              *)

LEMMA Bounds ==
  /\ MinInt64 \in Int /\ MaxInt64 \in Int /\ MinInt64 < 0 /\ 0 <= MaxInt64
  /\ MaxInt64 = -MinInt64 - 2 /\ MinInt64 % 2 = 0
  /\ Whole \subseteq Int /\ Float64s \subseteq Halves /\ Floats(S) \subseteq Float64s
  /\ Halves \subseteq Int /\ Sizes \subseteq Int
<1>1. 2^(W-1) \in Nat /\ 2^(W-1) > 0 /\ 2^W \in Nat
  BY WidthAssumption, PowerIsPositive
<1>2. /\ MinInt64 \in Int /\ MaxInt64 \in Int /\ MinInt64 < 0 /\ 0 <= MaxInt64
      /\ MaxInt64 = -MinInt64 - 2 /\ MinInt64 % 2 = 0
  BY <1>1 DEF MinInt64, MaxInt64
<1>3. Halves \subseteq Int /\ Whole \subseteq Int
  BY <1>1 DEF Halves, Whole
<1>4. Float64s \subseteq Halves
  BY DEF Float64s, Floats
<1>5. Floats(S) \subseteq Float64s
  <2>1. 2^S \in Nat /\ 2^P \in Nat /\ 2^S <= 2^P
    BY WidthAssumption, PowerIsPositive, PowerIsMonotone
  <2> SUFFICES ASSUME NEW n \in Floats(S) PROVE n \in Floats(P)
    BY DEF Float64s
  <2>2. PICK e \in 0 .. W + 1 : n % 2^e = 0 /\ -(2^S) <= n \div 2^e /\ n \div 2^e <= 2^S
    BY DEF Floats
  <2>3. n \in Int /\ e \in Nat /\ 2^e \in Nat /\ 2^e > 0
    BY <1>3, WidthAssumption, PowerIsPositive DEF Floats
  <2>4. n \div 2^e \in Int
    BY <2>3
  <2>5. -(2^P) <= n \div 2^e /\ n \div 2^e <= 2^P
    BY <2>1, <2>2, <2>4
  <2> QED
    BY <2>2, <2>5 DEF Floats
<1>6. Sizes \subseteq Int
  BY LimitAssumption
<1> QED
  BY <1>2, <1>3, <1>4, <1>5, <1>6

LEMMA ZeroIsFloat == 0 \in Float64s
<1>1. 2^W \in Nat /\ 2^P \in Nat /\ 2^0 = 1 /\ W \in Nat
  BY WidthAssumption, PowerIsPositive, SmallPowers
<1>2. 0 \in Halves
  BY <1>1 DEF Halves
<1>3. 0 \in 0 .. W + 1 /\ 0 % 2^0 = 0 /\ -(2^P) <= 0 \div 2^0 /\ 0 \div 2^0 <= 2^P
  BY <1>1
<1> QED
  BY <1>2, <1>3 DEF Float64s, Floats

LEMMA ZerosBounds ==
  ASSUME NEW n, NEW primes
  PROVE  Zeros(n, primes) \in Nat /\ Zeros(n, primes) <= W + 1
<1> DEFINE range == 1 .. W + 1
           those == {e \in range : \A p \in primes : n % p^e = 0}
<1>1. IsFiniteSet(range) /\ Cardinality(range) = W + 1
  BY WidthAssumption, FS_Interval
<1>2. those \subseteq range /\ Zeros(n, primes) = Cardinality(those)
  BY DEF Zeros
<1> HIDE DEF range, those
<1>3. IsFiniteSet(those) /\ Cardinality(those) <= Cardinality(range)
  BY <1>1, <1>2, FS_Subset
<1> QED
  BY <1>1, <1>2, <1>3, FS_CardinalityType

\* Rounding yields a nearest float64.
LEMMA RoundedIsNearest ==
  ASSUME NEW n \in Halves
  PROVE  /\ Rounded[n] \in Float64s
         /\ \A g \in Float64s : Distance(Rounded[n], n) <= Distance(g, n)
<1> DEFINE near == {f \in Float64s : \A g \in Float64s : Distance(f, n) <= Distance(g, n)}
           best(f) == \A g \in near : Zeros(g, {2}) <= Zeros(f, {2})
           ways == {Distance(g, n) : g \in Float64s}
           misses == {W + 1 - Zeros(g, {2}) : g \in near}
<1>1. n \in Int /\ Float64s \subseteq Int
  BY Bounds
<1>2. \A g \in Float64s : Distance(g, n) \in Nat
  BY <1>1 DEF Distance
<1>3. \E f : f \in near
  <2>1. ways \subseteq Nat
    BY <1>2
  <2>2. 0 \in Float64s
    BY ZeroIsFloat
  <2>3. ways # {}
    BY <2>2
  <2>4. \E x \in ways : \A y \in ways : x <= y
    <3> HIDE DEF ways
    <3> QED
      BY <2>1, <2>3, LeastNumber
  <2> QED
    BY <2>4
<1>4. \E f \in near : best(f)
  <2>1. \A g : Zeros(g, {2}) \in Nat /\ Zeros(g, {2}) <= W + 1
    BY ZerosBounds
  <2>2. misses \subseteq Nat
    BY <2>1, WidthAssumption
  <2>3. misses # {}
    BY <1>3
  <2>4. \E x \in misses : \A y \in misses : x <= y
    <3> HIDE DEF misses
    <3> QED
      BY <2>2, <2>3, LeastNumber
  <2>5. PICK f \in near : \A g \in near : W + 1 - Zeros(f, {2}) <= W + 1 - Zeros(g, {2})
    <3> HIDE DEF near
    <3> QED
      BY <2>4
  <2>6. best(f)
    BY <2>1, <2>5, WidthAssumption
  <2> QED
    BY <2>6
<1>5. Rounded[n] = CHOOSE f \in near : best(f)
  BY DEF Rounded
<1>6. Rounded[n] \in near
  <2> HIDE DEF near, best
  <2> QED
    BY <1>4, <1>5
<1> QED
  BY <1>6

\* A float64 is its own nearest float64.
LEMMA RoundedFloat ==
  ASSUME NEW f \in Float64s
  PROVE  Rounded[f] = f
<1>1. f \in Int /\ f \in Halves /\ Float64s \subseteq Int
  BY Bounds
<1>2. Rounded[f] \in Float64s /\ Distance(Rounded[f], f) <= Distance(f, f)
  BY <1>1, RoundedIsNearest
<1>3. \A r \in Int : Distance(r, f) <= Distance(f, f) => r = f
  BY <1>1 DEF Distance
<1> QED
  BY <1>1, <1>2, <1>3

\* The largest number of P bits, doubled as every number here is.
Exact == 2 * 2^P

\* Every whole number of up to P bits is a float64, and so are the next even ones.
LEMMA ExactFloats ==
  /\ Exact \in Nat /\ Exact > 0 /\ Exact % 4 = 0
  /\ \A n \in Int : n % 2 = 0 /\ -Exact <= n /\ n <= Exact => n \in Float64s
  /\ Exact + 4 \in Float64s /\ -(Exact + 4) \in Float64s
<1>1. /\ W \in Nat /\ P \in Nat /\ P - 1 \in Nat /\ 0 < P /\ P + 1 <= W
  BY WidthAssumption
<1>2. /\ 2^P \in Nat /\ 2^(P-1) \in Nat /\ 2^(P-1) > 0 /\ 2^W \in Nat
      /\ 2^P = 2 * 2^(P-1) /\ 2^(P+1) = 2 * 2^P /\ 2^(P+1) <= 2^W
  <2>1. 2^((P-1)+1) = 2 * 2^(P-1) /\ (P-1) + 1 = P
    BY <1>1, PowerDoubles
  <2>2. 2^(P+1) = 2 * 2^P /\ 2^(P+1) <= 2^W
    BY <1>1, PowerDoubles, PowerIsMonotone
  <2> QED
    BY <1>1, <2>1, <2>2, PowerIsPositive
<1>3. Exact \in Nat /\ Exact > 0 /\ Exact % 4 = 0 /\ 2 * Exact <= 2 * 2^W /\ 4 <= Exact
  BY <1>2 DEF Exact
<1>4. \A n \in Int : -(2 * Exact) <= n /\ n <= 2 * Exact => n \in Halves
  BY <1>2, <1>3 DEF Halves
<1>5. ASSUME NEW n \in Int, n % 2 = 0, -Exact <= n, n <= Exact
      PROVE  n \in Float64s
  <2>1. n \in Halves
    BY <1>3, <1>4, <1>5
  <2>2. n % 2 = 0 /\ -(2^P) <= n \div 2 /\ n \div 2 <= 2^P
    BY <1>2, <1>5 DEF Exact
  <2>3. 1 \in 0 .. W + 1 /\ 2^1 = 2
    BY <1>1, SmallPowers
  <2> QED
    BY <2>1, <2>2, <2>3 DEF Float64s, Floats
<1>6. ASSUME NEW n \in {Exact + 4, -(Exact + 4)}
      PROVE  n \in Float64s
  <2>1. n \in Int /\ n \in Halves
    BY <1>3, <1>4
  <2>2. n % 4 = 0 /\ -(2^P) <= n \div 4 /\ n \div 4 <= 2^P
    BY <1>2, <1>3 DEF Exact
  <2>3. 2 \in 0 .. W + 1 /\ 2^2 = 4
    BY <1>1, SmallPowers
  <2> QED
    BY <2>1, <2>2, <2>3 DEF Float64s, Floats
<1> QED
  BY <1>3, <1>5, <1>6

\* An odd number ends in no decimal zero.
LEMMA OddHasNoZeros ==
  ASSUME NEW n \in Int, (n \div 2) % 2 = 1
  PROVE  DecimalZeros(n) = 0
<1>1. ASSUME NEW e \in 1 .. W + 1 PROVE (n \div 2) % 2^e # 0
  <2>1. e \in Nat /\ e - 1 \in Nat /\ (e - 1) + 1 = e
    BY WidthAssumption
  <2>2. 2^(e-1) \in Nat /\ 2^(e-1) > 0 /\ 2^e = 2 * 2^(e-1)
    <3>1. 2^((e-1)+1) = 2 * 2^(e-1)
      BY <2>1, PowerDoubles
    <3> QED
      BY <2>1, <3>1, PowerIsPositive
  <2>3. ASSUME NEW k \in Int, NEW d \in Nat, d > 0, k % (2 * d) = 0 PROVE k % 2 = 0
    <3>1. k = (2 * d) * (k \div (2 * d)) /\ k \div (2 * d) \in Int
      BY <2>3
    <3>2. k = 2 * (d * (k \div (2 * d))) /\ d * (k \div (2 * d)) \in Int
      BY <3>1
    <3> QED
      BY <3>2
  <2> DEFINE d == 2^(e-1)
             k == n \div 2
  <2>4. k \in Int /\ k % 2 # 0 /\ d \in Nat /\ d > 0
    BY <2>2
  <2>5. k % (2 * d) # 0
    <3> HIDE DEF d, k
    <3> QED
      BY <2>3, <2>4
  <2> QED
    BY <2>2, <2>5
<1>2. {e \in 1 .. W + 1 : \A p \in {2, 5} : (n \div 2) % p^e = 0} = {}
  BY <1>1
<1> QED
  BY <1>2, FS_EmptySet DEF DecimalZeros, Zeros

\* A whole number of up to P bits is written with its own digits.
LEMMA ShortestIsExact ==
  ASSUME NEW f \in Int, f % 2 = 0, -Exact <= f, f <= Exact
  PROVE  f \in Float64s \cap Whole /\ Rounded[f] = f /\ Shortest[f] = f
<1> DEFINE reads == {n \in Whole : Rounded[n] = f}
           best(n) == \A m \in reads : \/ DecimalZeros(n) > DecimalZeros(m)
                                       \/ DecimalZeros(n) = DecimalZeros(m) /\ Distance(n, f) <= Distance(m, f)
<1>1. f \in Float64s \cap Whole /\ Rounded[f] = f
  BY ExactFloats, RoundedFloat, Bounds DEF Whole
<1>2. Exact \in Int /\ Exact > 0 /\ Exact % 4 = 0
  BY ExactFloats
<1>3. ASSUME NEW n \in reads
      PROVE  n = f \/ (DecimalZeros(n) = 0 /\ Distance(n, f) = 2)
  <2>1. n \in Halves /\ n \in Int /\ n % 2 = 0 /\ Rounded[n] = f
    BY Bounds DEF Whole
  <2>2. \A g \in Float64s : Distance(f, n) <= Distance(g, n)
    BY <2>1, RoundedIsNearest
  <2>3. CASE -Exact <= n /\ n <= Exact
    <3>1. n \in Float64s
      BY <2>1, <2>3, ExactFloats
    <3> QED
      BY <2>1, <3>1, RoundedFloat
  <2>4. CASE n > Exact
    <3>1. Distance(f, n) <= Distance(Exact, n) /\ Distance(f, n) <= Distance(Exact + 4, n)
      BY <1>2, <2>2, ExactFloats
    <3>2. f = Exact
      BY <1>2, <2>1, <2>4, <3>1 DEF Distance
    <3>3. n = Exact + 2
      BY <1>2, <2>1, <2>4, <3>1, <3>2 DEF Distance
    <3>4. (n \div 2) % 2 = 1 /\ Distance(n, f) = 2
      BY <1>2, <3>2, <3>3 DEF Distance
    <3> QED
      BY <2>1, <3>4, OddHasNoZeros
  <2>5. CASE n < -Exact
    <3>1. Distance(f, n) <= Distance(-Exact, n) /\ Distance(f, n) <= Distance(-(Exact + 4), n)
      BY <1>2, <2>2, ExactFloats
    <3>2. f = -Exact
      BY <1>2, <2>1, <2>5, <3>1 DEF Distance
    <3>3. n = -Exact - 2
      BY <1>2, <2>1, <2>5, <3>1, <3>2 DEF Distance
    <3>4. (n \div 2) % 2 = 1 /\ Distance(n, f) = 2
      BY <1>2, <3>2, <3>3 DEF Distance
    <3> QED
      BY <2>1, <3>4, OddHasNoZeros
  <2> QED
    BY <1>2, <2>1, <2>3, <2>4, <2>5
<1>4. f \in reads /\ Distance(f, f) = 0 /\ \A n : DecimalZeros(n) \in Nat
  BY <1>1, ZerosBounds DEF Distance, DecimalZeros
<1>5. best(f)
  BY <1>3, <1>4
<1>6. ASSUME NEW n \in reads, best(n) PROVE n = f
  <2>1. \/ DecimalZeros(n) > DecimalZeros(f)
        \/ DecimalZeros(n) = DecimalZeros(f) /\ Distance(n, f) <= Distance(f, f)
    BY <1>4, <1>6
  <2> QED
    BY <1>3, <1>4, <2>1
<1>7. Shortest[f] = CHOOSE n \in reads : best(n)
  BY <1>1 DEF Shortest
<1>8. (CHOOSE n \in reads : best(n)) = f
  <2> HIDE DEF reads, best
  <2> QED
    BY <1>4, <1>5, <1>6
<1> QED
  BY <1>1, <1>7, <1>8

------------------------------------------------------------------------------
(* One number.                                                              *)

NestKinds == {"object", "bsonM"}

\* What a scalar of each kind holds.
LEMMA Kinds ==
  ASSUME NEW v \in GoScalar
  PROVE  /\ v = [kind |-> v.kind, n |-> v.n]
         /\ v.n \in Int
         /\ v.kind \in {"int", "digits", "uint"} => v.n \in Whole
         /\ v.kind \in Numeric => v.n \in Halves
         /\ v.kind \in {"float32", "float64"} => v.n \in Float64s
         /\ v.kind \in Numeric \cup {"string", "nil", "bool", "notFinite", "cyclic"}
<1> DEFINE numbers == [kind : {"int", "digits"}, n : Whole]
             \cup [kind : {"uint"}, n : Whole \cap Nat]
           floats == [kind : {"float64"}, n : Float64s] \cup [kind : {"float32"}, n : Floats(S)]
           decimals == [kind : {"decimal"}, n : Halves]
           others == {Nil} \cup [kind : {"string"}, n : Sizes]
             \cup [kind : {"bool", "notFinite", "cyclic"}, n : {0}]
<1>1. v \in numbers \cup floats \cup decimals \cup others
  BY DEF GoScalar, GoNumber
<1>2. CASE v \in numbers
  BY <1>2, Bounds DEF Numeric, Whole
<1>3. CASE v \in floats
  BY <1>3, Bounds DEF Numeric
<1>4. CASE v \in decimals
  BY <1>4, Bounds DEF Numeric
<1>5. CASE v \in others
  <2>1. CASE v = Nil
    BY <2>1 DEF Numeric, Nil
  <2>2. CASE v \in [kind : {"string"}, n : Sizes]
    <3>1. v.n \in Sizes /\ v.kind = "string" /\ v = [kind |-> v.kind, n |-> v.n]
      BY <2>2
    <3>2. v.n \in Int
      BY <3>1, LimitAssumption
    <3> QED
      BY <3>1, <3>2 DEF Numeric
  <2>3. CASE v \in [kind : {"bool", "notFinite", "cyclic"}, n : {0}]
    BY <2>3 DEF Numeric
  <2> QED
    BY <1>5, <2>1, <2>2, <2>3
<1> QED
  BY <1>1, <1>2, <1>3, <1>4, <1>5

\* An integer is accepted in every spelling but a decimal, and nothing else is.
LEMMA IntegerIffFits ==
  ASSUME NEW v \in GoScalar, InRange(v), v.kind \in Numeric
  PROVE  IsInteger(v) <=> Fits(v.n) /\ v.kind # "decimal"
<1>1. CASE v.kind \in {"int", "digits"}
  BY <1>1, Kinds, Bounds DEF IsInteger, Fits, InRange
<1>2. CASE v.kind = "uint"
  <2>1. v.n \in Whole /\ v.n \in Nat
    BY <1>2, Kinds DEF GoScalar, GoNumber, Nil
  <2> QED
    BY <1>2, <2>1, Bounds DEF IsInteger, Fits
<1>3. CASE v.kind \in {"float32", "float64"}
  <2>1. v.n \in Int /\ (v.n \in Whole => v.n % 2 = 0)
    BY <1>3, Kinds DEF Whole
  <2>2. v.n \in Whole => (v.n < -MinInt64 <=> v.n <= MaxInt64)
    BY <2>1, Bounds
  <2> QED
    BY <1>3, <2>2 DEF IsInteger, Fits
<1>4. CASE v.kind = "decimal"
  BY <1>4 DEF IsInteger
<1> QED
  BY <1>1, <1>2, <1>3, <1>4 DEF Numeric

IntOf(n) == [kind |-> "int", n |-> n]
FloatOf(n) == [kind |-> "float64", n |-> n]
DigitsOf(n) == [kind |-> "digits", n |-> n]
DecimalOf(n) == [kind |-> "decimal", n |-> n]

\* What is stored of a scalar: an integer, a float, or what it is.
LEMMA StoredForm ==
  ASSUME NEW v \in GoScalar
  PROVE  /\ StoredAsInt(v) => StoredNumber(v) = IntOf(v.n)
         /\ v.kind \in Numeric /\ ~StoredAsInt(v) => StoredNumber(v) = FloatOf(Rounded[v.n])
         /\ v.kind \notin Numeric => ~StoredAsInt(v) /\ StoredNumber(v) = v
         /\ StoredNumber(v).kind \notin NestKinds
<1>1. v.kind \notin Numeric => ~StoredAsInt(v)
  BY DEF StoredAsInt, Numeric
<1>2. /\ StoredAsInt(v) => StoredNumber(v) = IntOf(v.n)
      /\ v.kind \in Numeric /\ ~StoredAsInt(v) => StoredNumber(v) = FloatOf(Rounded[v.n])
      /\ v.kind \notin Numeric => StoredNumber(v) = v
  BY <1>1 DEF StoredNumber, IntOf, FloatOf
<1>3. v.kind \notin NestKinds
  BY Kinds DEF NestKinds, Numeric
<1> QED
  BY <1>1, <1>2, <1>3 DEF IntOf, FloatOf, NestKinds

\* What is stored stays what it is when it is stored again.
LEMMA StoredTwice ==
  ASSUME NEW v \in GoScalar
  PROVE  StoredNumber(StoredNumber(v)) = StoredNumber(v)
<1>1. CASE StoredAsInt(v)
  <2>1. StoredNumber(IntOf(v.n)) = IntOf(v.n)
    BY DEF StoredNumber, StoredAsInt, IntOf
  <2> QED
    BY <1>1, <2>1, StoredForm
<1>2. CASE v.kind \in Numeric /\ ~StoredAsInt(v)
  <2>1. Rounded[v.n] \in Float64s
    BY <1>2, Kinds, RoundedIsNearest
  <2>2. StoredNumber(FloatOf(Rounded[v.n])) = FloatOf(Rounded[Rounded[v.n]])
    BY DEF StoredNumber, StoredAsInt, FloatOf, Numeric
  <2> QED
    BY <1>2, <2>1, <2>2, StoredForm, RoundedFloat
<1>3. CASE v.kind \notin Numeric
  BY <1>3, StoredForm
<1> QED
  BY <1>1, <1>2, <1>3, StoredForm

\* A number for which BSON has a type is read back as it was.
LEMMA StoredKeeps ==
  ASSUME NEW v \in GoScalar, BsonHolds(v)
  PROVE  StoredNumber(v).n = v.n
<1>1. CASE StoredAsInt(v)
  BY <1>1, StoredForm DEF IntOf
<1>2. CASE v.kind \in Numeric /\ ~StoredAsInt(v)
  <2>1. v.n \in Float64s
    BY <1>2, Kinds DEF BsonHolds, StoredAsInt, Numeric
  <2> QED
    BY <1>2, <2>1, StoredForm, RoundedFloat DEF FloatOf
<1>3. CASE v.kind \notin Numeric
  BY <1>3, StoredForm
<1> QED
  BY <1>1, <1>2, <1>3, StoredForm

------------------------------------------------------------------------------
(* One value.                                                               *)

\* A value that is offered is a scalar or an object with one inside.
LEMMA Forms ==
  ASSUME NEW v \in Offered
  PROVE  /\ Core(v) \in GoScalar /\ InRange(Core(v))
         /\ \/ v \in GoScalar /\ v.kind \notin NestKinds /\ Core(v) = v
            \/ /\ v.kind = "object" /\ v = Object("object", v.n, Core(v))
<1>1. CASE v \in GoScalar /\ InRange(v)
  <2>1. v.kind \notin NestKinds
    BY <1>1, Kinds DEF NestKinds, Numeric
  <2> QED
    BY <1>1, <2>1 DEF Core, NestKinds
<1>2. ASSUME NEW n \in Sizes, NEW inner \in GoNumber \cup {Nil}, InRange(inner),
             v = Object("object", n, inner)
      PROVE  /\ Core(v) \in GoScalar /\ InRange(Core(v))
             /\ v.kind = "object" /\ v = Object("object", v.n, Core(v))
  <2>1. v.kind = "object" /\ v.n = n /\ v.inner = inner
    BY <1>2 DEF Object
  <2>2. Core(v) = inner
    BY <2>1 DEF Core
  <2> QED
    BY <1>2, <2>1, <2>2 DEF GoScalar
<1> QED
  BY <1>1, <1>2 DEF Offered

\* Storing follows the number, in an object or not.
LEMMA PersistedForm ==
  ASSUME NEW v \in Offered
  PROVE  /\ Core(Persisted(v)) = StoredNumber(Core(v))
         /\ v.kind = "object" => Persisted(v) = Object("bsonM", v.n, StoredNumber(Core(v)))
         /\ v.kind # "object" => Persisted(v) = StoredNumber(v) /\ v \in GoScalar
<1>1. CASE v.kind = "object"
  <2>1. Persisted(v) = Object("bsonM", v.n, StoredNumber(Core(v)))
    BY <1>1 DEF Persisted, Core
  <2> QED
    BY <1>1, <2>1 DEF Core, Object
<1>2. CASE v.kind # "object"
  <2>1. v \in GoScalar /\ v.kind \notin NestKinds /\ Core(v) = v
    BY <1>2, Forms
  <2>2. Persisted(v) = StoredNumber(v)
    BY <2>1 DEF Persisted, NestKinds
  <2>3. StoredNumber(v).kind \notin NestKinds
    BY <2>1, StoredForm
  <2> QED
    BY <1>2, <2>1, <2>2, <2>3 DEF Core, NestKinds
<1> QED
  BY <1>1, <1>2

\* Saving again what was read of the store leaves it as it is.
LEMMA PersistedTwice ==
  ASSUME NEW v \in Offered
  PROVE  Persisted(Persisted(v)) = Persisted(v)
<1>1. StoredNumber(StoredNumber(Core(v))) = StoredNumber(Core(v))
  BY Forms, StoredTwice
<1>2. CASE v.kind = "object"
  <2>1. Persisted(Object("bsonM", v.n, StoredNumber(Core(v))))
          = Object("bsonM", v.n, StoredNumber(StoredNumber(Core(v))))
    BY DEF Persisted, Object
  <2> QED
    BY <1>1, <1>2, <2>1, PersistedForm
<1>3. CASE v.kind # "object"
  <2>1. Persisted(v) = StoredNumber(v) /\ v \in GoScalar /\ Core(v) = v
    BY <1>3, PersistedForm, Forms
  <2>2. StoredNumber(v).kind \notin NestKinds
    BY <2>1, StoredForm
  <2> QED
    BY <1>1, <2>1, <2>2 DEF Persisted, NestKinds
<1> QED
  BY <1>2, <1>3

\* A scalar that validation accepts has a BSON type, and is accepted again as read.
LEMMA AcceptedIsHeld ==
  ASSUME NEW t \in FieldType, NEW v \in Offered, ValidateValue(t, v), v.kind # "object"
  PROVE  BsonHolds(Core(v)) /\ ValidateValue(t, Persisted(v))
<1>1. v \in GoScalar /\ InRange(v) /\ Core(v) = v /\ Persisted(v) = StoredNumber(v)
  BY Forms, PersistedForm
<1>2. CASE v.kind \in Numeric
  <2>1. t = "integer" /\ IsInteger(v)
    BY <1>2 DEF ValidateValue, Numeric
  <2>2. Fits(v.n) /\ v.kind # "decimal"
    BY <1>1, <1>2, <2>1, IntegerIffFits
  <2>3. BsonHolds(v)
    BY <2>2 DEF BsonHolds, StoredAsInt, Fits
  <2>4. StoredNumber(v).n = v.n /\ StoredNumber(v).kind \in {"int", "float64"}
    <3>1. StoredNumber(v) = IntOf(v.n) \/ StoredNumber(v) = FloatOf(Rounded[v.n])
      BY <1>1, <1>2, StoredForm
    <3> QED
      BY <1>1, <2>3, <3>1, StoredKeeps DEF IntOf, FloatOf
  <2>5. IsInteger(StoredNumber(v))
    <3>1. v.n < -MinInt64
      BY <2>2, Bounds DEF Fits, Whole
    <3> QED
      BY <2>2, <2>4, <3>1 DEF IsInteger, Fits
  <2> QED
    BY <1>1, <2>1, <2>3, <2>5 DEF ValidateValue
<1>3. CASE v.kind \notin Numeric
  BY <1>1, <1>3, StoredForm DEF BsonHolds, Numeric
<1> QED
  BY <1>2, <1>3

------------------------------------------------------------------------------
(* A value on its way.                                                      *)

Received == {"received", "checked", "mismatch", "installed"}

\* What is stored is what the driver makes of the value that was sent, however often
\* it was saved.
KeptInv ==
  /\ type \in FieldType /\ sent \in Offered
  /\ pc \in {"offered", "valid", "invalid", "unstorable", "stored", "refused", "exported"}
            \cup Received
  /\ pc \in {"offered", "valid"} => value = sent
  /\ pc = "invalid" => ~ValidateValue(type, sent)
  /\ pc \notin {"offered", "invalid"} => ValidateValue(type, sent)
  /\ pc = "unstorable" => ~Storable(sent)
  /\ pc \in {"stored", "exported"} => value = Persisted(sent)
  /\ pc = "refused" => ~ValidateValue(type, Persisted(sent))

\* Every step of a value's way keeps it.
THEOREM ValueInvariance == Spec => []KeptInv
<1>1. Init => KeptInv
  BY DEF Init, KeptInv
<1>2. KeptInv /\ [Next]_vars => KeptInv'
  <2> SUFFICES ASSUME KeptInv, [Next]_vars PROVE KeptInv'
    OBVIOUS
  <2> USE DEF KeptInv, Received, Move
  <2>1. CASE Validate
    <3>1. CASE ValidateValue(type, value)
      BY <2>1, <3>1 DEF Validate
    <3>2. CASE ~ValidateValue(type, value)
      BY <2>1, <3>2 DEF Validate
    <3> QED
      BY <3>1, <3>2
  <2>2. CASE Store
    <3>1. CASE Storable(value)
      BY <2>2, <3>1 DEF Store
    <3>2. CASE ~Storable(value)
      BY <2>2, <3>2 DEF Store
    <3> QED
      BY <3>1, <3>2
  <2>3. CASE SaveAgain
    <3>1. value = Persisted(sent) /\ Persisted(value) = value
      BY <2>3, PersistedTwice DEF SaveAgain
    <3>2. CASE ValidateValue(type, value)
      BY <2>3, <3>1, <3>2 DEF SaveAgain
    <3>3. CASE ~ValidateValue(type, value)
      BY <2>3, <3>1, <3>3 DEF SaveAgain
    <3> QED
      BY <3>2, <3>3
  <2>4. CASE ExportValue
    BY <2>4 DEF ExportValue
  <2>5. CASE Receive \/ CheckPayload \/ Install
    BY <2>5 DEF Receive, CheckPayload, Install
  <2>6. CASE Ended \/ UNCHANGED vars
    BY <2>6 DEF Ended, vars
  <2> QED
    BY <2>1, <2>2, <2>3, <2>4, <2>5, <2>6 DEF Next
<1> QED
  BY <1>1, <1>2, PTL DEF Spec

\* An integer field takes exactly the integers of W bits in every Go type they come
\* in, however W and the floats' widths are chosen: no float64 beyond the largest
\* integer is let in by the rounding of the bound (isInteger, validate.go:115-136).
THEOREM IntegersAreAccepted == Spec => []AcceptedIffInt64
<1>1. KeptInv => AcceptedIffInt64
  <2> SUFFICES ASSUME KeptInv, IntegerField
               PROVE  /\ pc = "invalid" => ~Fits(sent.n) \/ sent.kind = "decimal"
                      /\ pc \notin {"offered", "invalid"} => Fits(sent.n) /\ sent.kind # "decimal"
    BY DEF AcceptedIffInt64
  <2>1. ValidateValue(type, sent) <=> IsInteger(sent)
    BY DEF IntegerField, ValidateValue, Numeric
  <2>2. sent \in GoScalar /\ InRange(sent)
    BY Forms DEF KeptInv, IntegerField, Numeric
  <2>3. IsInteger(sent) <=> Fits(sent.n) /\ sent.kind # "decimal"
    BY <2>2, IntegerIffFits DEF IntegerField
  <2> QED
    BY <2>1, <2>3 DEF KeptInv
<1> QED
  BY <1>1, ValueInvariance, PTL

\* Every string and integer that is accepted is stored, is read back as it was, and is
\* accepted again as often as it is saved; so is the number inside an object, if BSON
\* has a type for it, but the object is not accepted again (validate.go:82-112,
\* mongo.go:34-37).
THEOREM StoredAsSent == Spec => []StoresAsSaved
<1>1. KeptInv => StoresAsSaved
  <2> SUFFICES ASSUME KeptInv PROVE StoresAsSaved
    OBVIOUS
  <2>1. ASSUME sent.kind # "object", pc \notin {"offered", "invalid"}
        PROVE  BsonHolds(Core(sent)) /\ pc # "refused"
    BY <2>1, AcceptedIsHeld DEF KeptInv
  <2>2. ASSUME BsonHolds(Core(sent))
        PROVE  /\ pc # "unstorable"
               /\ pc \in {"stored", "exported"} => Core(value).n = Core(sent).n
    <3>1. Storable(sent)
      BY <2>2 DEF BsonHolds, Storable
    <3>2. StoredNumber(Core(sent)).n = Core(sent).n
      BY <2>2, Forms, StoredKeeps DEF KeptInv
    <3> QED
      BY <3>1, <3>2, PersistedForm DEF KeptInv
  <2>3. sent.kind = "object" => Core(sent) = sent.inner
    BY DEF Core
  <2> QED
    BY <2>1, <2>2, <2>3 DEF StoresAsSaved
<1> QED
  BY <1>1, ValueInvariance, PTL

------------------------------------------------------------------------------
(* A transfer.                                                              *)

\* What is received of a value that was exported as it was stored.
Arrived(v, d) == Decoded(Text(Persisted(v)), d)

\* The same of a number.
Read(v, d) == ReadNumber(Spelled(StoredNumber(v)), d)

\* Carried, of a number that was sent to a receiver with this decoder.
Bears(v, d) ==
  \/ v.kind \notin Numeric
  \/ v.n \in Float64s /\ -Exact <= v.n /\ v.n <= Exact
  \/ /\ v.kind \in {"int", "uint", "digits"} /\ d = "number"
     /\ MinInt64 <= v.n /\ v.n <= MaxInt64

\* The spellings of a number of up to P bits are interchangeable.
LEMMA ExactIsInterchangeable ==
  ASSUME NEW n \in Float64s, -Exact <= n, n <= Exact, NEW spelling,
         spelling = IF n \in Whole THEN DigitsOf(n) ELSE DecimalOf(n)
  PROVE  /\ Spelled(FloatOf(n)) = spelling /\ Spelled(spelling) = spelling
         /\ n \in Whole => Spelled(IntOf(n)) = spelling
         /\ ReadNumber(spelling, "float64") = FloatOf(n)
         /\ ReadNumber(spelling, "number") = spelling
         /\ StoredNumber(FloatOf(n)) = FloatOf(n)
         /\ StoredNumber(spelling) = FloatOf(n) \/ (n \in Whole /\ StoredNumber(spelling) = IntOf(n))
<1>1. Rounded[n] = n
  BY RoundedFloat
<1>2. n \in Whole => Shortest[n] = n
  BY Bounds, ShortestIsExact DEF Whole
<1>3. /\ Spelled(FloatOf(n)) = spelling
      /\ n \in Whole => Spelled(IntOf(n)) = spelling
      /\ Spelled(spelling) = spelling
  BY <1>2 DEF Spelled, FloatOf, IntOf, DigitsOf, DecimalOf
<1>4. /\ ReadNumber(spelling, "float64") = FloatOf(n)
      /\ ReadNumber(spelling, "number") = spelling
  BY <1>1 DEF ReadNumber, FloatOf, DigitsOf, DecimalOf
<1>5. StoredNumber(FloatOf(n)) = FloatOf(n)
  BY <1>1 DEF StoredNumber, StoredAsInt, FloatOf, Numeric
<1>6. StoredNumber(spelling) = FloatOf(n) \/ (n \in Whole /\ StoredNumber(spelling) = IntOf(n))
  <2>1. CASE n \in Whole
    BY <1>1, <2>1 DEF StoredNumber, StoredAsInt, FloatOf, IntOf, DigitsOf, Numeric
  <2>2. CASE n \notin Whole
    BY <1>1, <2>2 DEF StoredNumber, StoredAsInt, FloatOf, DecimalOf, Numeric
  <2> QED
    BY <2>1, <2>2
<1> QED
  BY <1>3, <1>4, <1>5, <1>6

\* Both checksums of a transfer agree on every number that it bears, and what is
\* installed is the number that was sent.
LEMMA NumbersAgree ==
  ASSUME NEW v \in GoScalar, NEW d \in {"float64", "number"}, Bears(v, d)
  PROVE  /\ Spelled(Read(v, d)) = Spelled(StoredNumber(v))
         /\ Spelled(StoredNumber(Read(v, d))) = Spelled(StoredNumber(v))
         /\ StoredNumber(Read(v, d)).n = v.n
<1>1. CASE v.kind \notin Numeric
  <2>1. StoredNumber(v) = v
    BY <1>1, StoredForm
  <2>2. Spelled(v) = v /\ ReadNumber(v, d) = v
    BY <1>1 DEF Spelled, ReadNumber, Numeric
  <2> QED
    BY <2>1, <2>2 DEF Read
<1>2. CASE v.kind \in Numeric /\ v.n \in Float64s /\ -Exact <= v.n /\ v.n <= Exact
  <2> DEFINE n == v.n
             spelling == IF n \in Whole THEN DigitsOf(n) ELSE DecimalOf(n)
  <2>1. /\ Spelled(FloatOf(n)) = spelling /\ Spelled(spelling) = spelling
        /\ n \in Whole => Spelled(IntOf(n)) = spelling
        /\ ReadNumber(spelling, "float64") = FloatOf(n)
        /\ ReadNumber(spelling, "number") = spelling
        /\ StoredNumber(FloatOf(n)) = FloatOf(n)
        /\ StoredNumber(spelling) = FloatOf(n) \/ (n \in Whole /\ StoredNumber(spelling) = IntOf(n))
    BY <1>2, ExactIsInterchangeable
  <2>2. StoredNumber(v) = FloatOf(n) \/ (n \in Whole /\ StoredNumber(v) = IntOf(n))
    <3>1. StoredAsInt(v) => n \in Whole
      BY Kinds DEF StoredAsInt
    <3> QED
      BY <1>2, <3>1, StoredForm, RoundedFloat
  <2>3. FloatOf(n).n = n /\ IntOf(n).n = n
    BY DEF FloatOf, IntOf
  <2> HIDE DEF spelling
  <2>4. Spelled(StoredNumber(v)) = spelling
    BY <2>1, <2>2
  <2>5. CASE d = "float64"
    BY <2>1, <2>3, <2>4, <2>5 DEF Read
  <2>6. CASE d = "number"
    BY <2>1, <2>3, <2>4, <2>6 DEF Read
  <2> QED
    BY <2>5, <2>6
<1>3. CASE /\ v.kind \in {"int", "uint", "digits"} /\ d = "number"
           /\ MinInt64 <= v.n /\ v.n <= MaxInt64
  <2>1. StoredNumber(v) = IntOf(v.n)
    BY <1>3, StoredForm DEF StoredAsInt
  <2>2. /\ Spelled(IntOf(v.n)) = DigitsOf(v.n) /\ Spelled(DigitsOf(v.n)) = DigitsOf(v.n)
        /\ ReadNumber(DigitsOf(v.n), d) = DigitsOf(v.n)
    BY <1>3 DEF Spelled, ReadNumber, IntOf, DigitsOf
  <2>3. StoredNumber(DigitsOf(v.n)) = IntOf(v.n)
    BY <1>3 DEF StoredNumber, StoredAsInt, IntOf, DigitsOf
  <2>4. IntOf(v.n).n = v.n
    BY DEF IntOf
  <2> QED
    BY <2>1, <2>2, <2>3, <2>4 DEF Read
<1> QED
  BY <1>1, <1>2, <1>3 DEF Bears

\* A scalar stays one on its way.
LEMMA ScalarsStay ==
  ASSUME NEW v, v.kind \notin NestKinds, NEW d
  PROVE  /\ Spelled(v).kind \notin NestKinds /\ StoredNumber(v).kind \notin NestKinds
         /\ ReadNumber(v, d).kind \notin NestKinds
         /\ Text(v) = Spelled(v) /\ Persisted(v) = StoredNumber(v)
         /\ Decoded(v, d) = ReadNumber(v, d) /\ Core(v) = v
BY DEF Spelled, StoredNumber, StoredAsInt, ReadNumber, Text, Persisted, Decoded, Core,
       NestKinds, Numeric

\* And so it is with every value, an object with its number inside.
LEMMA TransferAgrees ==
  ASSUME NEW v \in Offered, NEW d \in {"float64", "number"}, Bears(Core(v), d)
  PROVE  /\ Text(Arrived(v, d)) = Text(Persisted(v))
         /\ Text(Persisted(Arrived(v, d))) = Text(Persisted(v))
         /\ Core(Persisted(Arrived(v, d))).n = Core(v).n
<1> DEFINE w == Core(v)
<1>1. /\ Spelled(Read(w, d)) = Spelled(StoredNumber(w))
      /\ Spelled(StoredNumber(Read(w, d))) = Spelled(StoredNumber(w))
      /\ StoredNumber(Read(w, d)).n = w.n
  BY Forms, NumbersAgree
<1>2. CASE v.kind = "object"
  <2>1. Persisted(v) = Object("bsonM", v.n, StoredNumber(w))
    BY <1>2, PersistedForm
  <2> HIDE DEF w
  <2>2. ASSUME NEW x
        PROVE  /\ Text(Object("bsonM", v.n, x)) = Object("object", v.n, Spelled(x))
               /\ Text(Object("object", v.n, x)) = Object("object", v.n, Spelled(x))
               /\ Decoded(Object("object", v.n, x), d) = Object("object", v.n, ReadNumber(x, d))
               /\ Persisted(Object("object", v.n, x)) = Object("bsonM", v.n, StoredNumber(x))
               /\ Core(Object("bsonM", v.n, x)) = x
    BY DEF Text, Decoded, Persisted, Core, Object
  <2>3. Arrived(v, d) = Object("object", v.n, Read(w, d))
    BY <2>1, <2>2 DEF Arrived, Read
  <2>4. /\ Text(Arrived(v, d)) = Object("object", v.n, Spelled(Read(w, d)))
        /\ Persisted(Arrived(v, d)) = Object("bsonM", v.n, StoredNumber(Read(w, d)))
        /\ Text(Persisted(v)) = Object("object", v.n, Spelled(StoredNumber(w)))
    BY <2>1, <2>2, <2>3
  <2>5. /\ Text(Persisted(Arrived(v, d))) = Object("object", v.n, Spelled(StoredNumber(Read(w, d))))
        /\ Core(Persisted(Arrived(v, d))) = StoredNumber(Read(w, d))
    BY <2>2, <2>4
  <2>6. /\ Spelled(Read(w, d)) = Spelled(StoredNumber(w))
        /\ Spelled(StoredNumber(Read(w, d))) = Spelled(StoredNumber(w))
        /\ StoredNumber(Read(w, d)).n = w.n
    BY <1>1
  <2>7. w = Core(v)
    BY DEF w
  <2> QED
    BY <2>4, <2>5, <2>6, <2>7
<1>3. CASE v.kind # "object"
  <2>1. v.kind \notin NestKinds /\ w = v
    BY <1>3, Forms
  <2>2. Persisted(v) = StoredNumber(v) /\ StoredNumber(v).kind \notin NestKinds
    BY <2>1, ScalarsStay
  <2>3. Text(Persisted(v)) = Spelled(StoredNumber(v)) /\ Spelled(StoredNumber(v)).kind \notin NestKinds
    BY <2>2, ScalarsStay
  <2>4. Arrived(v, d) = Read(v, d) /\ Read(v, d).kind \notin NestKinds
    BY <2>3, ScalarsStay DEF Arrived, Read
  <2>5. /\ Text(Arrived(v, d)) = Spelled(Read(v, d))
        /\ Persisted(Arrived(v, d)) = StoredNumber(Read(v, d))
        /\ StoredNumber(Read(v, d)).kind \notin NestKinds
    BY <2>4, ScalarsStay
  <2>6. /\ Text(Persisted(Arrived(v, d))) = Spelled(StoredNumber(Read(v, d)))
        /\ Core(Persisted(Arrived(v, d))) = StoredNumber(Read(v, d))
    BY <2>5, ScalarsStay
  <2> QED
    BY <1>1, <2>1, <2>3, <2>5, <2>6
<1> QED
  BY <1>2, <1>3

\* Where a value is, as what was made of the one that was sent.
TransferInv ==
  /\ decoder \in {"float64", "number"}
  /\ pc \in {"exported"} \cup Received => text = Text(Persisted(sent))
  /\ pc \in {"received", "checked"} => value = Arrived(sent, decoder)
  /\ pc = "checked" => Text(Arrived(sent, decoder)) = text
  /\ pc = "installed" => value = Persisted(Arrived(sent, decoder))
  /\ pc = "mismatch" => \/ Text(Arrived(sent, decoder)) # text
                        \/ Text(Persisted(Arrived(sent, decoder))) # text

\* Every step of a transfer keeps it.
THEOREM TransferInvariance == Spec => []TransferInv
<1>1. Init => TransferInv
  BY DEF Init, TransferInv, Received
<1>2. TransferInv /\ KeptInv /\ [Next]_vars => TransferInv'
  <2> SUFFICES ASSUME TransferInv, KeptInv, [Next]_vars PROVE TransferInv'
    OBVIOUS
  <2> USE DEF TransferInv, Received, Move
  <2>1. CASE Validate
    BY <2>1 DEF Validate
  <2>2. CASE Store
    BY <2>2 DEF Store
  <2>3. CASE SaveAgain
    BY <2>3 DEF SaveAgain
  <2>4. CASE ExportValue
    BY <2>4 DEF ExportValue, KeptInv
  <2>5. CASE Receive
    BY <2>5 DEF Receive, Arrived
  <2>6. CASE CheckPayload
    <3>1. CASE Text(value) = text
      BY <2>6, <3>1 DEF CheckPayload
    <3>2. CASE Text(value) # text
      BY <2>6, <3>2 DEF CheckPayload
    <3> QED
      BY <3>1, <3>2
  <2>7. CASE Install
    <3>1. CASE Text(value') = text
      BY <2>7, <3>1 DEF Install
    <3>2. CASE Text(value') # text
      BY <2>7, <3>2 DEF Install
    <3> QED
      BY <3>1, <3>2
  <2>8. CASE Ended \/ UNCHANGED vars
    BY <2>8 DEF Ended, vars
  <2> QED
    BY <2>1, <2>2, <2>3, <2>4, <2>5, <2>6, <2>7, <2>8 DEF Next
<1> QED
  BY <1>1, <1>2, ValueInvariance, PTL DEF Spec

\* Every number of up to P bits survives a transfer through JSON, and beyond them
\* every integer of W bits that no side makes a float64 of, by itself or inside an
\* object, and every string: both checksums agree and what is installed is what was
\* sent, whatever the widths (transfer.go:80-86, 118-127, persistor.go:151-161).
THEOREM TransfersKeepNumbers == Spec => []TransferKeeps
<1>1. KeptInv /\ TransferInv => TransferKeeps
  <2> SUFFICES ASSUME KeptInv, TransferInv, Carried
               PROVE  /\ pc # "mismatch"
                      /\ pc = "installed" => Core(value).n = Core(sent).n
    BY DEF TransferKeeps
  <2>1. Bears(Core(sent), decoder)
    BY DEF Carried, Bears, Exact
  <2>2. CASE pc \in {"mismatch", "installed"}
    <3>1. /\ sent \in Offered /\ decoder \in {"float64", "number"}
          /\ text = Text(Persisted(sent))
      BY <2>2 DEF KeptInv, TransferInv, Received
    <3>2. /\ Text(Arrived(sent, decoder)) = text
          /\ Text(Persisted(Arrived(sent, decoder))) = text
          /\ Core(Persisted(Arrived(sent, decoder))).n = Core(sent).n
      BY <2>1, <3>1, TransferAgrees
    <3> QED
      BY <2>2, <3>2 DEF TransferInv
  <2> QED
    BY <2>2
<1> QED
  BY <1>1, ValueInvariance, TransferInvariance, PTL
=============================================================================
