---------------------------- MODULE AnsCoderProofs ----------------------------
(***************************************************************************)
(* Proofs about AnsCoder, for any table size, any width of state and        *)
(* chunk, any histogram and any length of a stream.  The parts follow the   *)
(* code: the powers of two and the reciprocal, the alias table and its      *)
(* reverse map, the allowed populations, the normalization of two symbols,  *)
(* the accounts of a rebalancing, and one token through coder and decoder.  *)
(***************************************************************************)
EXTENDS AnsCoder, CollectionsProofs

-------------------------------------------------------------------------------
(* A function defined by iterating a step exists.                           *)
LEMMA IterationExists ==
  ASSUME NEW S, NEW start \in S, NEW step \in [S -> S]
  PROVE  \E f \in [Nat -> S] :
           /\ f[0] = start
           /\ \A n \in Nat : f[n + 1] = step[f[n]]
<1> DEFINE Upto(g, n) == g[0] = start /\ \A i \in 1 .. n : g[i] = step[g[i - 1]]
           Q == {n \in Nat : \E g : Upto(g, n)}
           f == [n \in Nat |-> (CHOOSE g : Upto(g, n))[n]]
<1>1. Nat \subseteq Q
  <2>1. 0 \in Q
    <3> DEFINE g == [i \in Nat |-> start]
    <3>1. Upto(g, 0)
      OBVIOUS
    <3>2. QED
      BY <3>1
  <2>2. ASSUME NEW n \in Nat, n \in Q PROVE n + 1 \in Q
    <3>1. PICK g : Upto(g, n)
      BY <2>2
    <3> DEFINE h == [i \in Nat |-> IF i = n + 1 THEN step[g[n]] ELSE g[i]]
    <3>2. h[0] = start
      BY <3>1
    <3>3. ASSUME NEW i \in 1 .. n + 1 PROVE h[i] = step[h[i - 1]]
      <4>1. CASE i = n + 1
        BY <4>1
      <4>2. CASE i # n + 1
        BY <3>1, <4>2
      <4>3. QED
        BY <4>1, <4>2
    <3> HIDE DEF h
    <3>4. Upto(h, n + 1)
      BY <3>2, <3>3
    <3>5. QED
      BY <3>4
  <2> HIDE DEF Q
  <2>3. QED
    BY <2>1, <2>2, Induction
<1>2. ASSUME NEW g, NEW h, NEW n \in Nat, NEW m \in Nat, Upto(g, n), Upto(h, m)
      PROVE  \A k \in Nat : k <= n /\ k <= m => g[k] = h[k]
  <2> DEFINE P == {k \in Nat : k <= n /\ k <= m => g[k] = h[k]}
  <2>1. 0 \in P
    BY <1>2
  <2>2. ASSUME NEW k \in Nat, k \in P PROVE k + 1 \in P
    <3> SUFFICES ASSUME k + 1 <= n, k + 1 <= m PROVE g[k + 1] = h[k + 1]
      OBVIOUS
    <3>1. k + 1 \in 1 .. n /\ k + 1 \in 1 .. m /\ (k + 1) - 1 = k /\ g[k] = h[k]
      BY <2>2
    <3>2. QED
      BY <1>2, <3>1
  <2> HIDE DEF P
  <2>3. Nat \subseteq P
    BY <2>1, <2>2, Induction
  <2>4. QED
    BY <2>3 DEF P
<1>3. \A n \in Nat : Upto(CHOOSE g : Upto(g, n), n)
  BY <1>1
<1>4. ASSUME NEW n \in Nat PROVE f[n] = IF n = 0 THEN start ELSE step[f[n - 1]]
  <2> DEFINE g == CHOOSE g : Upto(g, n)
             h == CHOOSE h : Upto(h, n - 1)
  <2>1. Upto(g, n) /\ f[n] = g[n]
    BY <1>3
  <2>2. CASE n = 0
    BY <2>1, <2>2
  <2>3. CASE n # 0
    <3>1. n - 1 \in Nat /\ n \in 1 .. n
      BY <2>3
    <3>2. Upto(h, n - 1) /\ f[n - 1] = h[n - 1]
      BY <1>3, <3>1
    <3> HIDE DEF g, h, Upto
    <3>3. g[n - 1] = h[n - 1]
      BY <1>2, <2>1, <3>1, <3>2
    <3>4. g[n] = step[g[n - 1]]
      BY <2>1, <3>1 DEF Upto
    <3>5. QED
      BY <2>1, <2>3, <3>2, <3>3, <3>4
  <2>4. QED
    BY <2>2, <2>3
<1>d. f = [n \in Nat |-> f[n]]
  OBVIOUS
<1> HIDE DEF f
<1>5. f[0] = start
  BY <1>4
<1>6. \A n \in Nat : f[n + 1] = step[f[n]]
  <2> TAKE n \in Nat
  <2>1. n + 1 \in Nat /\ n + 1 # 0 /\ (n + 1) - 1 = n
    OBVIOUS
  <2>2. f[n + 1] = IF n + 1 = 0 THEN start ELSE step[f[(n + 1) - 1]]
    BY <1>4, <2>1
  <2>3. QED
    BY <2>1, <2>2
<1> DEFINE P == {n \in Nat : f[n] \in S}
<1>7. 0 \in P
  BY <1>5
<1>8. ASSUME NEW n \in Nat, n \in P PROVE n + 1 \in P
  <2>1. f[n + 1] = step[f[n]] /\ f[n] \in S
    BY <1>6, <1>8
  <2>2. QED
    BY <2>1
<1> HIDE DEF P
<1>9. Nat \subseteq P
  BY <1>7, <1>8, Induction
<1>10. f \in [Nat -> S]
  BY <1>d, <1>9 DEF P
<1>11. QED
  BY <1>5, <1>6, <1>10

(* Powers of two.                                                           *)
LEMMA Pow2Equation ==
  /\ Pow2[0] = 1
  /\ \A n \in Nat : Pow2[n + 1] = 2 * Pow2[n] /\ Pow2[n] \in Nat \ {0}
<1> DEFINE E(p) == [n \in Nat |-> IF n = 0 THEN 1 ELSE 2 * p[n - 1]]
           double == [x \in Nat |-> 2 * x]
<1>0. double \in [Nat -> Nat] /\ 1 \in Nat /\ \A x \in Nat : double[x] = 2 * x
  OBVIOUS
<1> HIDE DEF double
<1>1. PICK f \in [Nat -> Nat] :
        /\ f[0] = 1
        /\ \A n \in Nat : f[n + 1] = double[f[n]]
  <2> DEFINE N == Nat
             one == 1
  <2>1. double \in [N -> N] /\ one \in N
    BY <1>0
  <2> HIDE DEF N, one
  <2>2. \E f \in [Nat -> N] : f[0] = one /\ \A n \in Nat : f[n + 1] = double[f[n]]
    BY <2>1, IterationExists
  <2>3. QED
    BY <2>2 DEF N, one
<1>3. f = E(f)
  <2>1. ASSUME NEW n \in Nat, n # 0 PROVE f[n] = 2 * f[n - 1]
    <3>1. n - 1 \in Nat /\ (n - 1) + 1 = n
      BY <2>1
    <3>2. f[(n - 1) + 1] = double[f[n - 1]] /\ f[n - 1] \in Nat
      BY <1>1, <3>1
    <3>3. QED
      BY <1>0, <3>1, <3>2
  <2>2. \A n \in Nat : f[n] = E(f)[n]
    BY <1>1, <2>1
  <2>3. QED
    BY <1>1, <2>2
<1>4. Pow2 = E(Pow2)
  <2>1. Pow2 = CHOOSE p : p = E(p)
    BY DEF Pow2
  <2> HIDE DEF E
  <2>2. QED
    BY <1>3, <2>1
<1>5. Pow2[0] = 1
  BY <1>4
<1>6. \A n \in Nat : Pow2[n + 1] = 2 * Pow2[n]
  <2> TAKE n \in Nat
  <2>1. n + 1 \in Nat /\ n + 1 # 0 /\ (n + 1) - 1 = n
    OBVIOUS
  <2>2. QED
    BY <1>4, <2>1
<1> DEFINE P == {n \in Nat : Pow2[n] \in Nat \ {0}}
<1>7. 0 \in P
  BY <1>5
<1>8. ASSUME NEW n \in Nat, n \in P PROVE n + 1 \in P
  <2>1. Pow2[n] \in Nat \ {0} /\ Pow2[n + 1] = 2 * Pow2[n]
    BY <1>6, <1>8
  <2>2. QED
    BY <2>1
<1> HIDE DEF P
<1>9. Nat \subseteq P
  BY <1>7, <1>8, Induction
<1>10. QED
  BY <1>5, <1>6, <1>9 DEF P

(* The width of a sum of bits is a product.                                 *)
LEMMA Pow2Sum ==
  \A a, b \in Nat : Pow2[a + b] = Pow2[a] * Pow2[b]
<1> SUFFICES ASSUME NEW a \in Nat PROVE \A b \in Nat : Pow2[a + b] = Pow2[a] * Pow2[b]
  OBVIOUS
<1> DEFINE P == {b \in Nat : Pow2[a + b] = Pow2[a] * Pow2[b]}
<1>1. 0 \in P
  <2>1. a + 0 = a /\ Pow2[0] = 1 /\ Pow2[a] \in Nat
    BY Pow2Equation
  <2>2. QED
    BY <2>1
<1>2. ASSUME NEW b \in Nat, b \in P PROVE b + 1 \in P
  <2>1. /\ a + (b + 1) = (a + b) + 1 /\ a + b \in Nat
        /\ Pow2[(a + b) + 1] = 2 * Pow2[a + b] /\ Pow2[b + 1] = 2 * Pow2[b]
        /\ Pow2[a] \in Nat /\ Pow2[b] \in Nat /\ Pow2[a + b] = Pow2[a] * Pow2[b]
    BY <1>2, Pow2Equation
  <2>2. QED
    BY <2>1
<1> HIDE DEF P
<1>3. Nat \subseteq P
  BY <1>1, <1>2, Induction
<1>4. QED
  BY <1>3 DEF P

(* Quotient and remainder.                                                  *)
LEMMA DivMod ==
  ASSUME NEW x \in Nat, NEW d \in Nat \ {0}
  PROVE  /\ x \div d \in Nat /\ x % d \in Nat /\ x % d < d
         /\ x = d * (x \div d) + (x % d)
OBVIOUS

(* The quotient is the one number whose multiples are around.               *)
LEMMA QuotientIs ==
  ASSUME NEW x \in Nat, NEW d \in Nat \ {0}, NEW q \in Nat, d * q <= x, x < d * (q + 1)
  PROVE  x \div d = q /\ x % d = x - d * q
<1> DEFINE p == x \div d
           r == x % d
<1>1. p \in Nat /\ r \in Nat /\ r < d /\ x = d * p + r
  BY DivMod
<1> HIDE DEF p, r
<1>2. ~(p < q)
  <2> SUFFICES ASSUME p + 1 <= q PROVE FALSE
    BY <1>1
  <2>1. d * (p + 1) <= d * q
    BY <1>1
  <2>2. d * (p + 1) = d * p + d
    BY <1>1
  <2>3. QED
    BY <1>1, <2>1, <2>2
<1>3. ~(p > q)
  <2> SUFFICES ASSUME q + 1 <= p PROVE FALSE
    BY <1>1
  <2>1. d * (q + 1) <= d * p
    BY <1>1
  <2>2. QED
    BY <1>1, <2>1
<1>4. p = q
  BY <1>1, <1>2, <1>3
<1>5. QED
  BY <1>1, <1>4 DEF p, r

(* An order of factors is one of products.                                  *)
LEMMA ProductOrder ==
  ASSUME NEW a \in Nat, NEW b \in Nat, NEW c \in Nat, a <= b
  PROVE  a * c <= b * c /\ c * a <= c * b
OBVIOUS

-------------------------------------------------------------------------------
(* The sizes of the coder: of the table, of a chunk, of the state.          *)
ChunkSize == Pow2[ChunkBits]
Ratio == Pow2[ChunkBits - LogTable]

(* They are powers of two that divide one another, and the signature is a   *)
(* nonempty chunk.                                                          *)
LEMMA Sizes ==
  /\ Table \in Nat \ {0} /\ ChunkSize \in Nat \ {0} /\ Ratio \in Nat \ {0}
  /\ ChunkSize = Ratio * Table
  /\ Pow2[StateBits - LogTable] = ChunkSize * Ratio
  /\ ReciprocalUnit = (ChunkSize * ChunkSize) * Table
  /\ Signature \in Nat /\ 1 <= Signature /\ Signature < ChunkSize
<1>1. /\ LogTable \in Nat /\ ChunkBits \in Nat /\ ChunkBits - LogTable \in Nat
      /\ (ChunkBits - LogTable) + LogTable = ChunkBits
      /\ ChunkBits + (ChunkBits - LogTable) = 2 * ChunkBits - LogTable
      /\ (ChunkBits + ChunkBits) + LogTable = 2 * ChunkBits + LogTable
      /\ ChunkBits + ChunkBits \in Nat
  BY SizesAssumption
<1>2. Table \in Nat \ {0} /\ ChunkSize \in Nat \ {0} /\ Ratio \in Nat \ {0}
  BY <1>1, Pow2Equation DEF Table, ChunkSize, Ratio
<1>3. ChunkSize = Ratio * Table
  BY <1>1, Pow2Sum DEF ChunkSize, Ratio, Table
<1>4. Pow2[StateBits - LogTable] = ChunkSize * Ratio
  BY <1>1, Pow2Sum DEF ChunkSize, Ratio, StateBits
<1>5. ReciprocalUnit = (ChunkSize * ChunkSize) * Table
  <2>1. Pow2[ChunkBits + ChunkBits] = ChunkSize * ChunkSize
    BY <1>1, Pow2Sum DEF ChunkSize
  <2>2. Pow2[(ChunkBits + ChunkBits) + LogTable] = Pow2[ChunkBits + ChunkBits] * Table
    BY <1>1, Pow2Sum DEF Table
  <2>3. QED
    BY <1>1, <2>1, <2>2 DEF ReciprocalUnit, StateBits
<1>6. Signature \in Nat /\ 1 <= Signature /\ Signature < ChunkSize
  BY <1>2, SizesAssumption DEF ChunkSize
<1>7. QED
  BY <1>2, <1>3, <1>4, <1>5, <1>6

(* The slots of an alphabet width cut the table into equal parts.           *)
LEMMA EntrySizes ==
  ASSUME NEW logAlpha \in LogAlphas
  PROVE  /\ EntrySize(logAlpha) \in Nat \ {0} /\ Pow2[logAlpha] \in Nat \ {0}
         /\ EntrySize(logAlpha) * Pow2[logAlpha] = Table
         /\ Slots(logAlpha) = 0 .. Pow2[logAlpha] - 1
<1>1. logAlpha \in Nat /\ LogTable - logAlpha \in Nat /\ (LogTable - logAlpha) + logAlpha = LogTable
  BY SizesAssumption
<1>2. QED
  BY <1>1, Pow2Sum, Pow2Equation DEF EntrySize, Table, Slots

(* AdvanceAnsState: the rounded-up reciprocal gives the exact quotient of   *)
(* every state that fits its width.                                         *)
THEOREM ReciprocalExact ==
  ASSUME NEW x \in Nat, x < ChunkSize * ChunkSize, NEW f \in 1 .. Table
  PROVE  Quotient(x, f) = x \div f
<1> DEFINE U == ReciprocalUnit
           W == ChunkSize * ChunkSize
           R == Reciprocal(f)
           e == f * R - U
           q == x \div f
           r == x % f
<1>1. U \in Nat \ {0} /\ W \in Nat /\ U = W * Table /\ f \in Nat \ {0} /\ f <= Table /\ Table \in Nat
  BY Sizes
<1>2. R \in Nat /\ e \in Nat /\ e < f /\ f * R = U + e
  <2>1. U + f - 1 \in Nat
    BY <1>1
  <2>2. R = (U + f - 1) \div f
    BY DEF Reciprocal
  <2> HIDE DEF U, R
  <2>3. R \in Nat /\ \E m \in Nat : m < f /\ U + f - 1 = f * R + m
    BY <1>1, <2>1, <2>2, DivMod
  <2>4. PICK m \in Nat : m < f /\ U + f - 1 = f * R + m
    BY <2>3
  <2>5. QED
    BY <1>1, <2>3, <2>4
<1>3. q \in Nat /\ r \in Nat /\ r < f /\ x = f * q + r
  BY <1>1, DivMod
<1>4. Quotient(x, f) = (x * R) \div U
  BY DEF Quotient
<1> HIDE DEF U, W, R, e, q, r
<1>5. x * e < U
  <2>1. x * e <= x * Table
    BY <1>1, <1>2, ProductOrder
  <2>2. x + 1 <= W
    BY <1>1 DEF W
  <2>3. (x + 1) * Table <= W * Table
    BY <1>1, <2>2, ProductOrder
  <2>4. (x + 1) * Table = x * Table + Table
    BY <1>1
  <2>5. f \in Nat /\ f >= 1 /\ Table >= 1
    BY <1>1
  <2>6. x * e \in Nat /\ x * Table \in Nat
    BY <1>1, <1>2
  <2>7. QED
    BY <1>1, <2>1, <2>3, <2>4, <2>5, <2>6
<1>6. f * (x * R) = f * (U * q) + (U * r + x * e)
  <2>1. f * (x * R) = x * (U + e)
    BY <1>1, <1>2
  <2>2. x * (U + e) = U * x + x * e
    BY <1>1, <1>2
  <2>3. U * x = U * (f * q) + U * r
    BY <1>1, <1>3
  <2>4. U * (f * q) = f * (U * q)
    BY <1>1, <1>3
  <2>5. QED
    BY <1>1, <1>2, <1>3, <2>1, <2>2, <2>3, <2>4
<1>7. U * r + x * e < f * U
  <2>1. r + 1 <= f
    BY <1>1, <1>3
  <2>2. (r + 1) * U <= f * U
    BY <1>1, <1>3, <2>1, ProductOrder
  <2>3. (r + 1) * U = U * r + U
    BY <1>1, <1>3
  <2>4. U * r \in Nat /\ x * e \in Nat
    BY <1>1, <1>2, <1>3
  <2>5. QED
    BY <1>1, <1>5, <2>2, <2>3, <2>4
<1>8. U * q <= x * R
  <2> SUFFICES ASSUME x * R + 1 <= U * q PROVE FALSE
    BY <1>1, <1>2, <1>3
  <2>1. f * (x * R + 1) <= f * (U * q)
    BY <1>1, <1>2, <1>3, ProductOrder
  <2>2. f * (x * R + 1) = f * (x * R) + f
    BY <1>1, <1>2
  <2>3. U * r + x * e \in Nat /\ f * (U * q) \in Nat /\ f * (x * R) \in Nat
    BY <1>1, <1>2, <1>3
  <2>4. QED
    BY <1>1, <1>6, <2>1, <2>2, <2>3
<1>9. x * R < U * (q + 1)
  <2> SUFFICES ASSUME U * (q + 1) <= x * R PROVE FALSE
    BY <1>1, <1>2, <1>3
  <2>1. f * (U * (q + 1)) <= f * (x * R)
    BY <1>1, <1>2, <1>3, ProductOrder
  <2>2. f * (U * (q + 1)) = f * (U * q) + f * U
    BY <1>1, <1>3
  <2>3. U * r + x * e \in Nat /\ f * (U * q) \in Nat /\ f * (x * R) \in Nat /\ f * U \in Nat
    BY <1>1, <1>2, <1>3
  <2>4. QED
    BY <1>6, <1>7, <2>1, <2>2, <2>3
<1>10. x * R \in Nat
  BY <1>2
<1>11. (x * R) \div U = q
  BY <1>1, <1>3, <1>8, <1>9, <1>10, QuotientIs
<1>12. QED
  BY <1>4, <1>11 DEF q

-------------------------------------------------------------------------------
(* Sorting a finite set: every member once, in ascending order.             *)
LEMMA AscendingSorts ==
  ASSUME NEW S \in SUBSET Nat, IsFiniteSet(S)
  PROVE  /\ Ascending(S) \in Seq(S) /\ Len(Ascending(S)) = Cardinality(S)
         /\ Cardinality(S) \in Nat
         /\ Members(Ascending(S)) = S /\ Distinct(Ascending(S))
         /\ \A i, j \in 1 .. Cardinality(S) : i < j => Ascending(S)[i] < Ascending(S)[j]
<1> DEFINE n == Cardinality(S)
           below(x) == {y \in S : y < x}
           rank == [x \in S |-> Cardinality(below(x))]
           A == Ascending(S)
<1>0. \A x \in S : x \in Nat
  OBVIOUS
<1>1. n \in Nat
  BY FS_CardinalityType
<1>2. \A x \in S : IsFiniteSet(below(x)) /\ rank[x] \in Nat
  <2> TAKE x \in S
  <2>1. IsFiniteSet(below(x))
    BY FS_Subset
  <2>2. QED
    BY <2>1, FS_CardinalityType
<1>3. ASSUME NEW x \in S, NEW y \in S, x < y PROVE rank[x] < rank[y]
  <2>1. below(x) \subseteq below(y) /\ x \in below(y) /\ x \notin below(x)
    <3>1. \A z \in S : z < x => z < y
      BY <1>0, <1>3
    <3>2. below(x) \subseteq below(y)
      BY <3>1
    <3>3. x \in Nat /\ ~(x < x)
      BY <1>0
    <3>4. QED
      BY <1>3, <3>2, <3>3
  <2>2. IsFiniteSet(below(y)) /\ below(x) # below(y)
    BY <1>2, <2>1
  <2>3. Cardinality(below(x)) <= Cardinality(below(y)) /\ Cardinality(below(x)) # Cardinality(below(y))
    BY <2>1, <2>2, FS_Subset
  <2>4. rank[x] \in Nat /\ rank[y] \in Nat
    BY <1>2
  <2>5. QED
    BY <2>3, <2>4
<1>4. ASSUME NEW x \in S PROVE rank[x] \in 0 .. n - 1
  <2>1. below(x) \subseteq S /\ x \notin below(x)
    OBVIOUS
  <2>2. Cardinality(below(x)) <= n /\ Cardinality(below(x)) # n
    BY <2>1, FS_Subset
  <2>3. QED
    BY <1>1, <1>2, <2>2
<1>5. rank \in Injection(S, 0 .. n - 1)
  <2>1. \A x, y \in S : x # y => rank[x] # rank[y]
    <3> SUFFICES ASSUME NEW x \in S, NEW y \in S, x # y PROVE rank[x] # rank[y]
      OBVIOUS
    <3>1. x < y \/ y < x
      OBVIOUS
    <3>2. rank[x] \in Nat /\ rank[y] \in Nat
      BY <1>2
    <3> HIDE DEF rank
    <3>3. QED
      BY <1>3, <3>1, <3>2
  <2>2. rank \in [S -> 0 .. n - 1]
    BY <1>4
  <2> HIDE DEF rank
  <2>3. QED
    BY <2>1, <2>2 DEF Injection, IsInjective
<1>6. IsFiniteSet(0 .. n - 1) /\ Cardinality(0 .. n - 1) = n
  <2>1. 0 \in Int /\ n - 1 \in Int /\ (IF 0 > n - 1 THEN 0 ELSE (n - 1) - 0 + 1) = n
    BY <1>1
  <2> HIDE DEF n
  <2>2. QED
    BY <2>1, FS_Interval
<1>7. rank \in Surjection(S, 0 .. n - 1)
  BY <1>5, <1>6, FS_Injection
<1>8. \A i \in 1 .. n : A[i] = CHOOSE x \in S : rank[x] = i - 1
  <2>1. A = [i \in 1 .. n |-> CHOOSE x \in S : Cardinality(below(x)) = i - 1]
    BY DEF Ascending
  <2>2. \A i \in 1 .. n : A[i] = CHOOSE x \in S : Cardinality(below(x)) = i - 1
    BY <2>1
  <2>3. \A i : (CHOOSE x \in S : Cardinality(below(x)) = i - 1) = CHOOSE x \in S : rank[x] = i - 1
    OBVIOUS
  <2>4. QED
    BY <2>2, <2>3
<1>9. \A i \in 1 .. n : A[i] \in S /\ rank[A[i]] = i - 1
  <2> TAKE i \in 1 .. n
  <2>1. i - 1 \in 0 .. n - 1
    BY <1>1
  <2>2. \E x \in S : rank[x] = i - 1
    BY <1>7, <2>1 DEF Surjection
  <2> HIDE DEF rank, A
  <2>3. QED
    BY <1>8, <2>2
<1>10. A \in Seq(S) /\ Len(A) = n
  <2>1. A = [i \in 1 .. n |-> A[i]]
    BY DEF Ascending
  <2> HIDE DEF A
  <2>2. A \in [1 .. n -> S]
    BY <1>9, <2>1
  <2>3. QED
    BY <1>1, <2>2
<1> HIDE DEF A
<1>11. \A x \in S : \E i \in 1 .. n : A[i] = x
  <2> TAKE x \in S
  <2>1. rank[x] + 1 \in 1 .. n /\ (rank[x] + 1) - 1 = rank[x]
    BY <1>1, <1>4
  <2>2. A[rank[x] + 1] \in S /\ rank[A[rank[x] + 1]] = rank[x]
    BY <1>9, <2>1
  <2> HIDE DEF rank
  <2>3. A[rank[x] + 1] = x
    BY <1>5, <2>2 DEF Injection, IsInjective
  <2>4. QED
    BY <2>1, <2>3
<1>12. Members(A) = S
  BY <1>9, <1>10, <1>11 DEF Members
<1>13. Distinct(A)
  <2> SUFFICES ASSUME NEW i \in 1 .. n, NEW j \in 1 .. n, A[i] = A[j] PROVE i = j
    BY <1>10 DEF Distinct
  <2>1. i - 1 = j - 1
    BY <1>9
  <2>2. QED
    BY <1>1, <2>1
<1>14. ASSUME NEW i \in 1 .. n, NEW j \in 1 .. n, i < j PROVE A[i] < A[j]
  <2>1. A[i] \in S /\ A[j] \in S /\ rank[A[i]] = i - 1 /\ rank[A[j]] = j - 1
    BY <1>9
  <2> HIDE DEF rank
  <2> A[i] \in Nat /\ A[j] \in Nat
    BY <1>0, <2>1
  <2> i \in Int /\ j \in Int
    BY <1>1
  <2>2. A[i] # A[j]
    BY <1>14, <2>1
  <2>3. ~(A[j] < A[i])
    BY <1>3, <1>14, <2>1
  <2>4. QED
    BY <2>1, <2>2, <2>3
<1>15. QED
  BY <1>1, <1>10, <1>12, <1>13, <1>14 DEF A

-------------------------------------------------------------------------------
(* What moves between two owners leaves the sum as it was.                  *)
LEMMA SumMoved ==
  ASSUME NEW S, IsFiniteSet(S), NEW f, NEW g,
         \A x \in S : f[x] \in Nat /\ g[x] \in Nat,
         NEW u \in S, NEW o \in S, u # o, f[u] + f[o] = g[u] + g[o],
         \A x \in S \ {u, o} : f[x] = g[x]
  PROVE  SumOver(f, S) = SumOver(g, S)
<1> DEFINE A == S \ {u}
           B == (S \ {u}) \ {o}
<1>1. IsFiniteSet(A) /\ o \in A
  BY FS_Subset
<1>2. IsFiniteSet(B) /\ SumOver(f, B) \in Nat /\ SumOver(g, B) \in Nat
  <2>1. IsFiniteSet(B)
    BY FS_Subset
  <2>2. QED
    BY <2>1, SumType
<1>3. SumOver(f, B) = SumOver(g, B)
  <2>1. \A x \in B : f[x] = g[x]
    OBVIOUS
  <2> HIDE DEF B
  <2>2. QED
    BY <1>2, <2>1, SumSame
<1>4. SumOver(f, S) = f[u] + SumOver(f, A) /\ SumOver(g, S) = g[u] + SumOver(g, A)
  BY SumRemove
<1>5. SumOver(f, A) = f[o] + SumOver(f, B) /\ SumOver(g, A) = g[o] + SumOver(g, B)
  BY <1>1, SumRemove
<1>6. f[u] \in Nat /\ f[o] \in Nat /\ g[u] \in Nat /\ g[o] \in Nat
  OBVIOUS
<1> HIDE DEF A, B
<1>7. QED
  BY <1>2, <1>3, <1>4, <1>5, <1>6

(* Owners that all hold the same hold its multiple together.                *)
LEMMA SumConstant ==
  ASSUME NEW S, IsFiniteSet(S), NEW c \in Nat, NEW f, \A x \in S : f[x] = c
  PROVE  Cardinality(S) \in Nat /\ SumOver(f, S) = c * Cardinality(S)
<1> DEFINE P == {s \in SUBSET S : SumOver(f, s) = c * Cardinality(s)}
<1>1. {} \in P
  BY SumEmpty, FS_EmptySet
<1>2. ASSUME NEW s \in SUBSET S, NEW x \in s, s \ {x} \in P PROVE s \in P
  <2>1. IsFiniteSet(s)
    BY FS_Subset
  <2>2. SumOver(f, s) = f[x] + SumOver(f, s \ {x}) /\ f[x] = c
    BY <2>1, SumRemove
  <2>3. /\ Cardinality(s \ {x}) = Cardinality(s) - 1 /\ Cardinality(s) \in Nat
        /\ Cardinality(s \ {x}) \in Nat
    BY <2>1, FS_RemoveElement, FS_CardinalityType
  <2>4. SumOver(f, s \ {x}) = c * Cardinality(s \ {x})
    BY <1>2
  <2> DEFINE k == Cardinality(s \ {x})
  <2>5. Cardinality(s) = k + 1 /\ k \in Nat /\ SumOver(f, s) = c + c * k
    BY <2>2, <2>3, <2>4
  <2> HIDE DEF k
  <2>6. c * (k + 1) = c + c * k
    BY <2>5
  <2>7. QED
    BY <2>5, <2>6
<1> HIDE DEF P
<1>3. SUBSET S \subseteq P
  BY <1>1, <1>2, ElementInduction
<1>4. QED
  BY <1>3, FS_CardinalityType DEF P

(* Owners of whom none holds more than c hold c each if together they hold  *)
(* as much as that, and the same of owners of whom none holds less.         *)
LEMMA SumTight ==
  ASSUME NEW S, IsFiniteSet(S), NEW c \in Nat, NEW f, \A x \in S : f[x] \in Nat,
         SumOver(f, S) = c * Cardinality(S),
         (\A x \in S : f[x] <= c) \/ (\A x \in S : c <= f[x])
  PROVE  \A x \in S : f[x] = c
<1> DEFINE g == [x \in S |-> c]
<1>1. SumOver(g, S) = SumOver(f, S) /\ \A x \in S : g[x] = c
  BY SumConstant
<1> HIDE DEF g
<1> SUFFICES ASSUME NEW x \in S PROVE f[x] = c
  OBVIOUS
<1> DEFINE T == S \ {x}
<1>2. IsFiniteSet(T) /\ T \in SUBSET S
  BY FS_Subset
<1>3. SumOver(f, S) = f[x] + SumOver(f, T) /\ SumOver(g, S) = g[x] + SumOver(g, T)
  BY <1>1, SumRemove
<1>4. \A y \in T : f[y] \in Nat /\ g[y] \in Nat /\ g[y] = c
  BY <1>1
<1>5. SumOver(f, T) \in Nat /\ SumOver(g, T) \in Nat
  BY <1>2, <1>4, SumType
<1> T \in SUBSET T
  OBVIOUS
<1>6. CASE \A y \in S : f[y] <= c
  <2>1. \A y \in T : f[y] \in Nat /\ f[y] <= g[y]
    BY <1>4, <1>6
  <2> HIDE DEF T
  <2>2. SumOver(f, T) <= SumOver(g, T)
    BY <1>2, <1>4, <2>1, SumMono
  <2>3. QED
    BY <1>1, <1>3, <1>5, <1>6, <2>2
<1>7. CASE \A y \in S : c <= f[y]
  <2>1. \A y \in T : g[y] \in Nat /\ g[y] <= f[y]
    BY <1>4, <1>7
  <2> HIDE DEF T
  <2>2. SumOver(g, T) <= SumOver(f, T)
    BY <1>2, <1>4, <2>1, SumMono
  <2>3. QED
    BY <1>1, <1>3, <1>5, <1>7, <2>2
<1>8. QED
  BY <1>6, <1>7

-------------------------------------------------------------------------------
(* The stacks of the levelling.                                             *)
LEMMA Popped ==
  ASSUME NEW S, NEW q \in Seq(S), q # <<>>, Distinct(q)
  PROVE  /\ Front(q) \in Seq(S) /\ Distinct(Front(q))
         /\ Last(q) \in S /\ Last(q) \in Members(q)
         /\ Members(Front(q)) = Members(q) \ {Last(q)}
<1> DEFINE n == Len(q)
<1>1. n \in Nat /\ n >= 1
  OBVIOUS
<1>2. /\ Front(q) \in Seq(S) /\ Len(Front(q)) = n - 1
      /\ \A i \in 1 .. n - 1 : Front(q)[i] = q[i]
  <2> DEFINE m == n - 1
  <2>1. 1 \in Int /\ m \in Int /\ \A i \in 1 .. m : q[i] \in S
    BY <1>1
  <2>2. /\ (IF 1 <= m THEN m - 1 + 1 ELSE 0) = n - 1
        /\ \A i \in 1 .. n - 1 : i \in 1 .. m - 1 + 1 /\ 1 + i - 1 = i
    <3> HIDE DEF n
    <3>1. (IF 1 <= m THEN (m - 1) + 1 ELSE 0) = n - 1 /\ (m - 1) + 1 = n - 1
      BY <1>1
    <3>2. \A i \in 1 .. n - 1 : 1 + i - 1 = i
      OBVIOUS
    <3>3. QED
      BY <3>1, <3>2
  <2>3. Front(q) = SubSeq(q, 1, m)
    BY DEF Front
  <2> HIDE DEF m, n
  <2>4. /\ SubSeq(q, 1, m) \in Seq(S)
        /\ Len(SubSeq(q, 1, m)) = IF 1 <= m THEN m - 1 + 1 ELSE 0
        /\ \A i \in 1 .. m - 1 + 1 : SubSeq(q, 1, m)[i] = q[1 + i - 1]
    BY <2>1, SubSeqProperties
  <2>5. QED
    BY <2>2, <2>3, <2>4
<1>3. Last(q) = q[n] /\ n \in 1 .. n /\ q[n] \in S
  BY <1>1 DEF Last
<1>4. Distinct(Front(q))
  BY <1>1, <1>2 DEF Distinct
<1>5. Members(Front(q)) = Members(q) \ {q[n]}
  <2> SUFFICES ASSUME NEW y PROVE y \in Members(Front(q)) <=> y \in Members(q) \ {q[n]}
    OBVIOUS
  <2>1. ASSUME y \in Members(Front(q)) PROVE y \in Members(q) \ {q[n]}
    <3>1. PICK i \in 1 .. n - 1 : y = q[i]
      BY <1>2, <2>1 DEF Members
    <3>2. i \in 1 .. n /\ i # n
      BY <1>1
    <3>3. QED
      BY <1>3, <3>1, <3>2 DEF Members, Distinct
  <2>2. ASSUME y \in Members(q) \ {q[n]} PROVE y \in Members(Front(q))
    <3>1. PICK i \in 1 .. n : y = q[i]
      BY <2>2 DEF Members
    <3>2. i \in 1 .. n - 1
      BY <1>1, <2>2, <3>1
    <3>3. QED
      BY <1>2, <3>1, <3>2 DEF Members
  <2>3. QED
    BY <2>1, <2>2
<1>6. QED
  BY <1>2, <1>3, <1>4, <1>5 DEF Members

(* A symbol goes on a stack that does not hold it, or stays off it.         *)
LEMMA Pushed ==
  ASSUME NEW S, NEW q \in Seq(S), Distinct(q), NEW x \in S, x \notin Members(q),
         NEW c \in BOOLEAN
  PROVE  /\ q \o (IF c THEN <<x>> ELSE <<>>) \in Seq(S)
         /\ Distinct(q \o (IF c THEN <<x>> ELSE <<>>))
         /\ Members(q \o (IF c THEN <<x>> ELSE <<>>)) = Members(q) \cup (IF c THEN {x} ELSE {})
<1>1. CASE c
  <2>1. q \o <<x>> = Append(q, x) /\ Append(q, x) \in Seq(S)
    OBVIOUS
  <2>2. (IF c THEN <<x>> ELSE <<>>) = <<x>> /\ (IF c THEN {x} ELSE {}) = {x}
    BY <1>1
  <2>3. /\ Append(q, x) \in Seq(S) /\ Distinct(Append(q, x))
        /\ Members(Append(q, x)) = Members(q) \cup {x}
    BY <2>1, Appended
  <2>4. QED
    BY <2>1, <2>2, <2>3, Zenon
<1>2. CASE ~c
  <2>1. q \o <<>> = q
    OBVIOUS
  <2>2. QED
    BY <1>2, <2>1
<1>3. QED
  BY <1>1, <1>2

-------------------------------------------------------------------------------
(* The alias table while it is levelled.  A slot is done when it is not full *)
(* itself and no longer on the stack of those that miss something: its right *)
(* symbol owns the rest of it.  The offsets that a symbol gave away lie     *)
(* above what it still has, and no two slots got the same; together done    *)
(* slots and what is left of the others make up the table.                  *)
Done(t, slots, size) == {i \in slots : t.cutoff[i] < size /\ i \notin Members(t.under)}
Weight(t, slots, size) ==
  [i \in slots |-> IF i \in Done(t, slots, size) THEN size ELSE t.cutoff[i]]

LevelTyped(t, slots) ==
  t \in [cutoff : [slots -> Nat], right : [slots -> slots], offset : [slots -> Nat],
         under : Seq(slots), over : Seq(slots)]
StacksKept(t, slots, size) ==
  /\ Distinct(t.under) /\ Distinct(t.over)
  /\ Members(t.over) = {i \in slots : t.cutoff[i] > size}
  /\ \A i \in Members(t.under) : t.cutoff[i] < size
GivenAway(t, slots, size, full) ==
  \A i \in Done(t, slots, size) :
    /\ t.cutoff[t.right[i]] <= t.offset[i]
    /\ t.offset[i] + (size - t.cutoff[i]) <= full[t.right[i]]
GivenOnce(t, slots, size) ==
  \A i, j \in Done(t, slots, size) : i # j /\ t.right[i] = t.right[j] =>
    \/ t.offset[i] + (size - t.cutoff[i]) <= t.offset[j]
    \/ t.offset[j] + (size - t.cutoff[j]) <= t.offset[i]
LevelInv(t, slots, size, full) ==
  /\ LevelTyped(t, slots)
  /\ StacksKept(t, slots, size)
  /\ \A i \in slots : t.cutoff[i] <= full[i]
  /\ GivenAway(t, slots, size, full)
  /\ GivenOnce(t, slots, size)
  /\ SumOver(Weight(t, slots, size), slots) = size * Cardinality(slots)

(* One turn of the loop keeps all of it.                                    *)
LEMMA LevelStep ==
  ASSUME NEW slots, IsFiniteSet(slots), NEW size \in Nat \ {0}, NEW full \in [slots -> Nat],
         NEW t, LevelInv(t, slots, size, full), t.over # <<>>, t.under # <<>>
  PROVE  LevelInv(Levelled(t, size), slots, size, full)
<1> DEFINE o == Last(t.over)
           u == Last(t.under)
           left == t.cutoff[o] - (size - t.cutoff[u])
           low == left < size
           high == left > size
           n == Levelled(t, size)
<1>1. /\ t.cutoff \in [slots -> Nat] /\ t.right \in [slots -> slots] /\ t.offset \in [slots -> Nat]
      /\ t.under \in Seq(slots) /\ t.over \in Seq(slots)
  BY DEF LevelInv, LevelTyped
<1>2. /\ Distinct(t.under) /\ Distinct(t.over)
      /\ Members(t.over) = {i \in slots : t.cutoff[i] > size}
      /\ \A i \in Members(t.under) : t.cutoff[i] < size
      /\ \A i \in slots : t.cutoff[i] <= full[i]
  BY DEF LevelInv, StacksKept
<1>3. /\ Front(t.under) \in Seq(slots) /\ Distinct(Front(t.under))
      /\ u \in slots /\ u \in Members(t.under)
      /\ Members(Front(t.under)) = Members(t.under) \ {u}
  BY <1>1, <1>2, Popped
<1>4. /\ Front(t.over) \in Seq(slots) /\ Distinct(Front(t.over))
      /\ o \in slots /\ o \in Members(t.over)
      /\ Members(Front(t.over)) = Members(t.over) \ {o}
  BY <1>1, <1>2, Popped
<1> HIDE DEF o, u
<1>5. /\ t.cutoff[o] \in Nat /\ t.cutoff[u] \in Nat /\ t.cutoff[o] > size /\ t.cutoff[u] < size
      /\ o # u /\ left \in Nat /\ left < t.cutoff[o] /\ left + (size - t.cutoff[u]) = t.cutoff[o]
      /\ o \notin Members(t.under) /\ t.cutoff[o] <= full[o] /\ full[o] \in Nat
  <2>1. t.cutoff[o] \in Nat /\ t.cutoff[u] \in Nat /\ t.cutoff[o] > size /\ t.cutoff[u] < size
    BY <1>1, <1>2, <1>3, <1>4
  <2>2. t.cutoff[o] <= full[o] /\ full[o] \in Nat
    BY <1>2, <1>4
  <2>3. o # u
    BY <2>1
  <2>4. o \notin Members(t.under)
    BY <1>2, <2>1
  <2>5. left \in Nat /\ left < t.cutoff[o] /\ left + (size - t.cutoff[u]) = t.cutoff[o]
    BY <2>1
  <2>6. QED
    BY <2>1, <2>2, <2>3, <2>4, <2>5
<1>6. /\ n.cutoff = [t.cutoff EXCEPT ![o] = left]
      /\ n.right = [t.right EXCEPT ![u] = o]
      /\ n.offset = [t.offset EXCEPT ![u] = left]
      /\ n.under = Front(t.under) \o (IF low THEN <<o>> ELSE <<>>)
      /\ n.over = Front(t.over) \o (IF high THEN <<o>> ELSE <<>>)
      /\ n = [cutoff |-> n.cutoff, right |-> n.right, offset |-> n.offset,
              under |-> n.under, over |-> n.over]
  BY DEF Levelled, Overfull, o, u
<1> low \in BOOLEAN /\ high \in BOOLEAN
  BY <1>5
<1> HIDE DEF n, left, low, high
<1>7. /\ n.under \in Seq(slots) /\ Distinct(n.under)
      /\ Members(n.under) = (Members(t.under) \ {u}) \cup (IF low THEN {o} ELSE {})
  <2>1. o \notin Members(Front(t.under))
    BY <1>3, <1>5
  <2>2. /\ Front(t.under) \o (IF low THEN <<o>> ELSE <<>>) \in Seq(slots)
        /\ Distinct(Front(t.under) \o (IF low THEN <<o>> ELSE <<>>))
        /\ Members(Front(t.under) \o (IF low THEN <<o>> ELSE <<>>))
             = Members(Front(t.under)) \cup (IF low THEN {o} ELSE {})
    BY <1>3, <1>4, <2>1, Pushed
  <2>3. QED
    BY <1>3, <1>6, <2>2, Zenon
<1>8. /\ n.over \in Seq(slots) /\ Distinct(n.over)
      /\ Members(n.over) = (Members(t.over) \ {o}) \cup (IF high THEN {o} ELSE {})
  <2>1. o \notin Members(Front(t.over))
    BY <1>4, <1>5
  <2>2. /\ Front(t.over) \o (IF high THEN <<o>> ELSE <<>>) \in Seq(slots)
        /\ Distinct(Front(t.over) \o (IF high THEN <<o>> ELSE <<>>))
        /\ Members(Front(t.over) \o (IF high THEN <<o>> ELSE <<>>))
             = Members(Front(t.over)) \cup (IF high THEN {o} ELSE {})
    BY <1>3, <1>4, <2>1, Pushed
  <2>3. QED
    BY <1>4, <1>6, <2>2, Zenon
<1>9. /\ n.cutoff \in [slots -> Nat] /\ n.cutoff[o] = left
      /\ \A i \in slots : i # o => n.cutoff[i] = t.cutoff[i]
      /\ n.right \in [slots -> slots] /\ n.right[u] = o
      /\ \A i \in slots : i # u => n.right[i] = t.right[i]
      /\ n.offset \in [slots -> Nat] /\ n.offset[u] = left
      /\ \A i \in slots : i # u => n.offset[i] = t.offset[i]
  <2>1. /\ n.cutoff \in [slots -> Nat] /\ n.cutoff[o] = left
        /\ \A i \in slots : i # o => n.cutoff[i] = t.cutoff[i]
    <3>1. /\ n.cutoff = [t.cutoff EXCEPT ![o] = left] /\ left \in Nat
          /\ t.cutoff \in [slots -> Nat] /\ o \in slots
      BY <1>1, <1>4, <1>5, <1>6
    <3>2. QED
      BY <3>1
  <2>2. /\ n.right \in [slots -> slots] /\ n.right[u] = o
        /\ \A i \in slots : i # u => n.right[i] = t.right[i]
    <3>1. /\ n.right = [t.right EXCEPT ![u] = o]
          /\ t.right \in [slots -> slots] /\ u \in slots /\ o \in slots
      BY <1>1, <1>3, <1>4, <1>6
    <3>2. QED
      BY <3>1
  <2>3. /\ n.offset \in [slots -> Nat] /\ n.offset[u] = left
        /\ \A i \in slots : i # u => n.offset[i] = t.offset[i]
    BY <1>1, <1>3, <1>5, <1>6
  <2>4. QED
    BY <2>1, <2>2, <2>3
<1>10. LevelTyped(n, slots)
  BY <1>6, <1>7, <1>8, <1>9 DEF LevelTyped
<1>11. StacksKept(n, slots, size)
  <2>1. \A i \in slots : i \in Members(n.over) <=> n.cutoff[i] > size
    BY <1>2, <1>5, <1>8, <1>9 DEF high
  <2>2. Members(n.over) \subseteq slots
    BY <1>2, <1>4, <1>8
  <2>3. \A i \in Members(n.under) : i \in slots
    BY <1>7 DEF Members
  <2>4. \A i \in Members(n.under) : n.cutoff[i] < size
    BY <1>2, <1>5, <1>7, <1>9, <2>3 DEF low
  <2>5. QED
    BY <1>7, <1>8, <2>1, <2>2, <2>4 DEF StacksKept
<1>c. \A i \in slots : n.cutoff[i] <= t.cutoff[i] /\ n.cutoff[i] \in Nat /\ t.cutoff[i] \in Nat
  <2> TAKE i \in slots
  <2>1. n.cutoff[i] \in Nat /\ t.cutoff[i] \in Nat
    BY <1>1, <1>9
  <2>2. i = o => n.cutoff[i] < t.cutoff[i]
    BY <1>5, <1>9
  <2>3. i # o => n.cutoff[i] = t.cutoff[i]
    BY <1>9
  <2>4. QED
    BY <2>1, <2>2, <2>3
<1>12. \A i \in slots : n.cutoff[i] <= full[i]
  <2> TAKE i \in slots
  <2>1. full[i] \in Nat /\ t.cutoff[i] <= full[i]
    BY <1>2
  <2>2. QED
    BY <1>c, <2>1
<1> DEFINE D == Done(t, slots, size)
           E == Done(n, slots, size)
<1>13. E = D \cup {u} /\ u \notin D /\ o \notin E /\ D \subseteq slots
  <2>1. \A i \in slots : i \in E <=> i \in D \cup {u}
    <3> SUFFICES ASSUME NEW i \in slots PROVE i \in E <=> i \in D \cup {u}
      OBVIOUS
    <3>1. CASE i = u
      BY <1>5, <1>7, <1>9, <3>1 DEF Done, low
    <3>2. CASE i = o
      BY <1>5, <1>7, <1>9, <3>2 DEF Done, low
    <3>3. CASE i # u /\ i # o
      BY <1>7, <1>9, <3>3 DEF Done
    <3>4. QED
      BY <3>1, <3>2, <3>3
  <2>2. u \notin D /\ D \subseteq slots /\ E \subseteq slots /\ o \notin D
    BY <1>3, <1>5 DEF Done
  <2>3. QED
    BY <1>3, <1>5, <2>1, <2>2
<1>14. \A i \in D : /\ i \in slots /\ i # u /\ i # o /\ t.cutoff[i] < size
                    /\ n.cutoff[i] = t.cutoff[i] /\ n.right[i] = t.right[i]
                    /\ n.offset[i] = t.offset[i] /\ t.right[i] \in slots
                    /\ t.offset[i] \in Nat /\ t.cutoff[i] \in Nat
  BY <1>1, <1>9, <1>13 DEF Done
<1>15. /\ \A i \in D : /\ t.cutoff[t.right[i]] <= t.offset[i]
                       /\ t.offset[i] + (size - t.cutoff[i]) <= full[t.right[i]]
       /\ \A i, j \in D : i # j /\ t.right[i] = t.right[j] =>
            \/ t.offset[i] + (size - t.cutoff[i]) <= t.offset[j]
            \/ t.offset[j] + (size - t.cutoff[j]) <= t.offset[i]
  BY DEF LevelInv, GivenAway, GivenOnce
<1>16. n.cutoff[u] = t.cutoff[u] /\ n.right[u] = o /\ n.offset[u] = left
  BY <1>3, <1>5, <1>9
<1> HIDE DEF D, E
<1>17. GivenAway(n, slots, size, full)
  <2> SUFFICES ASSUME NEW i \in E
               PROVE  /\ n.cutoff[n.right[i]] <= n.offset[i]
                      /\ n.offset[i] + (size - n.cutoff[i]) <= full[n.right[i]]
    BY DEF GivenAway, E
  <2>1. CASE i = u
    BY <1>5, <1>9, <1>16, <2>1
  <2>2. CASE i \in D
    <3>1. /\ n.cutoff[t.right[i]] <= t.cutoff[t.right[i]]
          /\ t.cutoff[t.right[i]] \in Nat /\ n.cutoff[t.right[i]] \in Nat
      BY <1>c, <1>14, <2>2
    <3>2. QED
      BY <1>14, <1>15, <2>2, <3>1
  <2>3. QED
    BY <1>13, <2>1, <2>2
<1>18. GivenOnce(n, slots, size)
  <2> DEFINE apart(i, j) == \/ n.offset[i] + (size - n.cutoff[i]) <= n.offset[j]
                            \/ n.offset[j] + (size - n.cutoff[j]) <= n.offset[i]
  <2>1. ASSUME NEW i \in D, n.right[i] = o PROVE apart(i, u)
    <3>1. t.cutoff[o] <= t.offset[i]
      BY <1>14, <1>15, <2>1
    <3>2. n.offset[u] + (size - n.cutoff[u]) = t.cutoff[o]
      BY <1>5, <1>16
    <3>3. QED
      BY <1>14, <3>1, <3>2
  <2>2. ASSUME NEW i \in D, NEW j \in D, i # j, n.right[i] = n.right[j] PROVE apart(i, j)
    BY <1>14, <1>15, <2>2
  <2>3. ASSUME NEW i \in E, NEW j \in E, i # j, n.right[i] = n.right[j] PROVE apart(i, j)
    <3>1. CASE i \in D /\ j \in D
      BY <2>2, <2>3, <3>1
    <3>2. CASE i \in D /\ j = u
      BY <1>16, <2>1, <2>3, <3>2
    <3>3. CASE i = u /\ j \in D
      BY <1>16, <2>1, <2>3, <3>3
    <3>4. QED
      BY <1>13, <2>3, <3>1, <3>2, <3>3
  <2>4. QED
    BY <2>3 DEF GivenOnce, E
<1>19. SumOver(Weight(n, slots, size), slots) = size * Cardinality(slots)
  <2> DEFINE f == Weight(t, slots, size)
             g == Weight(n, slots, size)
  <2>1. /\ \A i \in slots : f[i] = IF i \in D THEN size ELSE t.cutoff[i]
        /\ \A i \in slots : g[i] = IF i \in E THEN size ELSE n.cutoff[i]
    BY DEF Weight, D, E
  <2> HIDE DEF f, g
  <2>2. \A i \in slots : f[i] \in Nat /\ g[i] \in Nat
    BY <1>1, <1>9, <2>1
  <2>3. \A i \in slots \ {u, o} : f[i] = g[i]
    BY <1>9, <1>13, <2>1
  <2>4. f[u] = t.cutoff[u] /\ g[u] = size /\ f[o] = t.cutoff[o] /\ g[o] = left
    BY <1>3, <1>4, <1>9, <1>13, <2>1
  <2>5. f[u] + f[o] = g[u] + g[o]
    BY <1>5, <2>4
  <2>6. SumOver(f, slots) = SumOver(g, slots)
    <3>1. u \in slots /\ o \in slots /\ u # o
      BY <1>3, <1>4, <1>5
    <3>2. QED
      BY <2>2, <2>3, <2>5, <3>1, SumMoved
  <2>7. QED
    BY <2>6 DEF f, g, LevelInv
<1>20. QED
  BY <1>10, <1>11, <1>12, <1>17, <1>18, <1>19 DEF LevelInv, n

(* The slots of an alphabet width are a finite set of that size.            *)
LEMMA SlotsFinite ==
  ASSUME NEW logAlpha \in LogAlphas
  PROVE  /\ IsFiniteSet(Slots(logAlpha)) /\ Cardinality(Slots(logAlpha)) = Pow2[logAlpha]
         /\ Slots(logAlpha) \in SUBSET Nat /\ 0 \in Slots(logAlpha)
<1> DEFINE n == Pow2[logAlpha]
<1>1. n \in Nat /\ n >= 1 /\ Slots(logAlpha) = 0 .. n - 1
  BY EntrySizes
<1> HIDE DEF n
<1>2. 0 \in Int /\ n - 1 \in Int /\ (IF 0 > n - 1 THEN 0 ELSE (n - 1) - 0 + 1) = n
  BY <1>1
<1>3. IsFiniteSet(0 .. n - 1) /\ Cardinality(0 .. n - 1) = n
  BY <1>2, FS_Interval
<1>4. QED
  BY <1>1, <1>3 DEF n

(* What an alphabet must be: frequencies that fill the table, no more       *)
(* symbols than slots.                                                      *)
Fills(f, logAlpha) ==
  /\ \E n \in Nat : n <= Pow2[logAlpha] /\ f \in [0 .. n - 1 -> Nat]
  /\ Total(f) = Table
FullOf(f, logAlpha) == [i \in Slots(logAlpha) |-> Full(f, i)]

(* Such frequencies are numbers, of symbols that have a slot.               *)
LEMMA FillsType ==
  ASSUME NEW logAlpha \in LogAlphas, NEW f, Fills(f, logAlpha)
  PROVE  /\ DOMAIN f \in SUBSET Slots(logAlpha) /\ IsFiniteSet(DOMAIN f)
         /\ f \in [DOMAIN f -> Nat] /\ \A s \in DOMAIN f : f[s] \in Nat
         /\ SumOver(f, DOMAIN f) = Table
         /\ FullOf(f, logAlpha) \in [Slots(logAlpha) -> Nat]
<1>1. PICK n \in Nat : n <= Pow2[logAlpha] /\ f \in [0 .. n - 1 -> Nat]
  BY DEF Fills
<1>2. DOMAIN f \in SUBSET Slots(logAlpha)
  BY <1>1, EntrySizes
<1>3. IsFiniteSet(DOMAIN f)
  BY <1>2, SlotsFinite, FS_Subset
<1>4. SumOver(f, DOMAIN f) = Table
  BY DEF Fills, Total, SumOver, SumFunction
<1>5. FullOf(f, logAlpha) \in [Slots(logAlpha) -> Nat]
  BY <1>1, <1>2 DEF FullOf, Full
<1>6. QED
  BY <1>1, <1>2, <1>3, <1>4, <1>5

(* The levelling starts with every underfull and every overfull slot on its *)
(* stack.                                                                   *)
LEMMA LevelStart ==
  ASSUME NEW logAlpha \in LogAlphas, NEW f, Fills(f, logAlpha), Filling(f) = {}
  PROVE  LevelInv(Unlevelled(f, logAlpha), Slots(logAlpha), EntrySize(logAlpha), FullOf(f, logAlpha))
<1> DEFINE slots == Slots(logAlpha)
           size == EntrySize(logAlpha)
           full == FullOf(f, logAlpha)
           t == Unlevelled(f, logAlpha)
           us == {i \in slots : full[i] < size}
           os == {i \in slots : full[i] > size}
<1>1. /\ IsFiniteSet(slots) /\ Cardinality(slots) = Pow2[logAlpha] /\ slots \in SUBSET Nat /\ 0 \in slots
      /\ size \in Nat \ {0} /\ size * Pow2[logAlpha] = Table
  BY SlotsFinite, EntrySizes
<1>2. full \in [slots -> Nat] /\ \A i \in slots : full[i] = Full(f, i)
  BY FillsType DEF FullOf
<1>3. /\ t.cutoff = full /\ t.right = [i \in slots |-> 0] /\ t.offset = [i \in slots |-> 0]
      /\ t.under = Ascending({i \in slots : Full(f, i) < size})
      /\ t.over = Ascending({i \in slots : Full(f, i) > size})
      /\ t = [cutoff |-> t.cutoff, right |-> t.right, offset |-> t.offset,
              under |-> t.under, over |-> t.over]
  BY DEF Unlevelled, Overfull, FullOf
<1>4. {i \in slots : Full(f, i) < size} = us /\ {i \in slots : Full(f, i) > size} = os
  BY <1>2
<1> HIDE DEF slots, size, full, t
<1>5. IsFiniteSet(us) /\ IsFiniteSet(os) /\ us \in SUBSET Nat /\ os \in SUBSET Nat
  BY <1>1, FS_Subset
<1>6. /\ t.under \in Seq(us) /\ Members(t.under) = us /\ Distinct(t.under)
      /\ t.over \in Seq(os) /\ Members(t.over) = os /\ Distinct(t.over)
  BY <1>3, <1>4, <1>5, AscendingSorts
<1>7. t.under \in Seq(slots) /\ t.over \in Seq(slots)
  <2>1. us \subseteq slots /\ os \subseteq slots
    OBVIOUS
  <2> HIDE DEF us, os
  <2>2. QED
    BY <1>6, <2>1
<1>8. LevelTyped(t, slots)
  BY <1>1, <1>2, <1>3, <1>7 DEF LevelTyped
<1>9. Done(t, slots, size) = {}
  BY <1>3, <1>6 DEF Done
<1>10. StacksKept(t, slots, size)
  BY <1>3, <1>6 DEF StacksKept
<1>11. SumOver(Weight(t, slots, size), slots) = Table
  <2> DEFINE w == Weight(t, slots, size)
             dom == DOMAIN f
  <2>1. \A i \in slots : w[i] = full[i]
    BY <1>3, <1>9 DEF Weight
  <2>2. dom \in SUBSET slots /\ IsFiniteSet(dom) /\ SumOver(f, dom) = Table
        /\ IsFiniteSet(slots \ dom)
    BY <1>1, FillsType, FS_Subset DEF slots
  <2>3. \A i \in dom : w[i] = f[i]
    BY <1>2, <2>1, <2>2 DEF Full
  <2>4. \A i \in slots \ dom : w[i] = 0
    BY <1>2, <2>1 DEF Full
  <2>5. \A i \in slots : w[i] \in Nat
    BY <1>2, <2>1
  <2> HIDE DEF w, dom
  <2>6. SumOver(w, slots) = SumOver(w, dom) + SumOver(w, slots \ dom)
    BY <1>1, <2>2, <2>5, SumSplit
  <2>7. SumOver(w, dom) = SumOver(f, dom)
    BY <2>2, <2>3, SumSame
  <2>8. SumOver(w, slots \ dom) = 0
    <3>1. 0 \in Nat
      OBVIOUS
    <3>2. Cardinality(slots \ dom) \in Nat /\ SumOver(w, slots \ dom) = 0 * Cardinality(slots \ dom)
      BY <2>2, <2>4, <3>1, SumConstant
    <3>3. QED
      BY <3>2
  <2>9. Table \in Nat
    BY Sizes
  <2>10. QED
    BY <2>2, <2>6, <2>7, <2>8, <2>9 DEF w
<1>12. \A i \in slots : t.cutoff[i] <= full[i]
  BY <1>2, <1>3
<1>13. LevelInv(t, slots, size, full)
  BY <1>1, <1>8, <1>9, <1>10, <1>11, <1>12 DEF LevelInv, GivenAway, GivenOnce
<1>14. QED
  BY <1>13 DEF t, slots, size, full

(* It is never left with an overfull slot and nothing to give to.           *)
LEMMA LevelBalanced ==
  ASSUME NEW slots, IsFiniteSet(slots), NEW size \in Nat \ {0}, NEW full \in [slots -> Nat],
         NEW t, LevelInv(t, slots, size, full), t.over # <<>>
  PROVE  t.under # <<>>
<1> SUFFICES ASSUME t.under = <<>> PROVE FALSE
  OBVIOUS
<1>1. /\ t.cutoff \in [slots -> Nat] /\ t.over \in Seq(slots)
      /\ Distinct(t.over) /\ Members(t.over) = {i \in slots : t.cutoff[i] > size}
  BY DEF LevelInv, LevelTyped, StacksKept
<1>2. Members(t.under) = {}
  BY DEF Members
<1>3. Last(t.over) \in slots /\ t.cutoff[Last(t.over)] > size
  BY <1>1, Popped
<1> DEFINE w == Weight(t, slots, size)
<1>4. \A i \in slots : w[i] = IF t.cutoff[i] < size THEN size ELSE t.cutoff[i]
  BY <1>2 DEF Weight, Done
<1>5. SumOver(w, slots) = size * Cardinality(slots)
  BY DEF LevelInv
<1> HIDE DEF w
<1>6. /\ \A i \in slots : w[i] \in Nat
      /\ \A i \in slots : size <= w[i]
      /\ size \in Nat
  BY <1>1, <1>4
<1>7. \A i \in slots : w[i] = size
  BY <1>5, <1>6, SumTight
<1>8. t.cutoff[Last(t.over)] \in Nat
  BY <1>1, <1>3
<1>9. QED
  BY <1>3, <1>4, <1>7, <1>8

(* In the end every slot is full of its own symbol or done.                 *)
LEMMA LevelEnds ==
  ASSUME NEW slots, IsFiniteSet(slots), NEW size \in Nat \ {0}, NEW full \in [slots -> Nat],
         NEW t, LevelInv(t, slots, size, full), t.over = <<>>
  PROVE  \A i \in slots : i \notin Done(t, slots, size) => t.cutoff[i] = size
<1>1. t.cutoff \in [slots -> Nat] /\ Members(t.over) = {i \in slots : t.cutoff[i] > size}
  BY DEF LevelInv, LevelTyped, StacksKept
<1>2. Members(t.over) = {}
  BY DEF Members
<1>3. \A i \in slots : t.cutoff[i] \in Nat /\ t.cutoff[i] <= size
  BY <1>1, <1>2
<1> DEFINE w == Weight(t, slots, size)
<1>4. \A i \in slots : w[i] = IF i \in Done(t, slots, size) THEN size ELSE t.cutoff[i]
  BY DEF Weight
<1>5. SumOver(w, slots) = size * Cardinality(slots)
  BY DEF LevelInv
<1> HIDE DEF w
<1>6. /\ \A i \in slots : w[i] \in Nat
      /\ \A i \in slots : w[i] <= size
      /\ size \in Nat
  BY <1>3, <1>4
<1>7. \A i \in slots : w[i] = size
  BY <1>5, <1>6, SumTight
<1>8. QED
  BY <1>4, <1>7

-------------------------------------------------------------------------------
(* The alias table: every position of the table stands for an offset of a   *)
(* symbol that occurs, and no two for the same.                             *)
AliasCovers(alias, f, logAlpha) ==
  \A v \in 0 .. Table - 1 :
    LET at == Lookup(alias, logAlpha, v)
    IN /\ at = <<at[1], at[2]>>
       /\ at[1] \in DOMAIN f /\ at[2] \in Nat /\ at[2] < f[at[1]]
AliasInjective(alias, f, logAlpha) ==
  \A v, w \in 0 .. Table - 1 :
    Lookup(alias, logAlpha, v) = Lookup(alias, logAlpha, w) => v = w

(* A position is a slot and a place in it.                                  *)
LEMMA Positions ==
  ASSUME NEW logAlpha \in LogAlphas, NEW v \in 0 .. Table - 1
  PROVE  /\ v \div EntrySize(logAlpha) \in Slots(logAlpha)
         /\ v % EntrySize(logAlpha) \in Nat /\ v % EntrySize(logAlpha) < EntrySize(logAlpha)
         /\ v = EntrySize(logAlpha) * (v \div EntrySize(logAlpha)) + (v % EntrySize(logAlpha))
<1> DEFINE size == EntrySize(logAlpha)
           n == Pow2[logAlpha]
           i == v \div size
           p == v % size
<1>1. size \in Nat \ {0} /\ n \in Nat \ {0} /\ size * n = Table /\ Slots(logAlpha) = 0 .. n - 1
  BY EntrySizes
<1>2. Table \in Nat \ {0} /\ v \in Nat /\ v < Table
  BY Sizes
<1>3. i \in Nat /\ p \in Nat /\ p < size /\ v = size * i + p
  BY <1>1, <1>2, DivMod
<1> HIDE DEF size, n, i, p
<1>4. i < n
  <2> SUFFICES ASSUME n <= i PROVE FALSE
    BY <1>1, <1>3
  <2>1. size * n <= size * i
    BY <1>1, <1>3, ProductOrder
  <2>2. size * i \in Nat
    BY <1>1, <1>3
  <2>3. QED
    BY <1>1, <1>2, <1>3, <2>1, <2>2
<1>5. i \in Slots(logAlpha)
  BY <1>1, <1>3, <1>4
<1>6. QED
  BY <1>3, <1>5, Zenon DEF size, i, p

(* Pairs are equal in both places.                                          *)
LEMMA PairsEqual ==
  ASSUME NEW a, NEW b, NEW c, NEW d, <<a, b>> = <<c, d>>
  PROVE  a = c /\ b = d
OBVIOUS

(* One symbol that fills the table: the offset is the position.             *)
LEMMA AliasOfOne ==
  ASSUME NEW logAlpha \in LogAlphas, NEW f, Fills(f, logAlpha), Filling(f) # {}, NEW t
  PROVE  LET alias == AliasTable(t, f, logAlpha)
         IN AliasCovers(alias, f, logAlpha) /\ AliasInjective(alias, f, logAlpha)
<1> DEFINE alias == AliasTable(t, f, logAlpha)
           size == EntrySize(logAlpha)
           slots == Slots(logAlpha)
<1>1. PICK s \in DOMAIN f : f[s] = Table
  BY DEF Filling
<1>2. /\ IsFiniteSet(DOMAIN f) /\ SumOver(f, DOMAIN f) = Table /\ DOMAIN f \in SUBSET Nat
      /\ \A x \in DOMAIN f : f[x] \in Nat
  BY FillsType, SlotsFinite
<1>3. Table \in Nat \ {0}
  BY Sizes
<1>4. Filling(f) = {s}
  <2> SUFFICES ASSUME NEW r \in DOMAIN f, f[r] = Table, r # s PROVE FALSE
    BY <1>1 DEF Filling
  <2> DEFINE A == DOMAIN f \ {s}
  <2>1. IsFiniteSet(A) /\ SumOver(f, A) \in Nat /\ SumOver(f, DOMAIN f) = f[s] + SumOver(f, A)
    BY <1>2, SumRemove
  <2>2. r \in A /\ \A x \in A : f[x] \in Nat
    BY <1>2
  <2> HIDE DEF A
  <2>3. SumOver(f, A \ {r}) \in Nat /\ SumOver(f, A) = f[r] + SumOver(f, A \ {r})
    BY <2>1, <2>2, SumRemove
  <2>4. QED
    BY <1>1, <1>2, <1>3, <2>1, <2>3
<1>5. Max(Filling(f)) = s
  BY <1>2, <1>4 DEF Max
<1>6. \A i \in slots : alias[i] = [cutoff |-> 0, right |-> s, offset |-> size * i]
  BY <1>5 DEF AliasTable
<1> HIDE DEF alias
<1>7. ASSUME NEW v \in 0 .. Table - 1 PROVE Lookup(alias, logAlpha, v) = <<s, v>>
  <2> DEFINE i == v \div size
             p == v % size
  <2>1. i \in slots /\ p \in Nat /\ v = size * i + p
    BY Positions
  <2>2. alias[i].cutoff = 0 /\ alias[i].right = s /\ alias[i].offset = size * i
    <3> HIDE DEF i, p, size, slots
    <3>1. alias[i] = [cutoff |-> 0, right |-> s, offset |-> size * i]
      BY <1>6, <2>1
    <3>2. QED
      BY <3>1
  <2>3. Lookup(alias, logAlpha, v) =
          IF p >= alias[i].cutoff THEN <<alias[i].right, alias[i].offset + p>> ELSE <<i, p>>
    BY DEF Lookup
  <2> HIDE DEF i, p
  <2>4. p >= alias[i].cutoff
    BY <2>1, <2>2
  <2>5. alias[i].offset + p = v
    BY <2>1, <2>2
  <2>6. QED
    BY <2>2, <2>3, <2>4, <2>5
<1>8. AliasCovers(alias, f, logAlpha)
  <2> SUFFICES ASSUME NEW v \in 0 .. Table - 1
               PROVE  LET at == Lookup(alias, logAlpha, v)
                      IN /\ at = <<at[1], at[2]>>
                         /\ at[1] \in DOMAIN f /\ at[2] \in Nat /\ at[2] < f[at[1]]
    BY DEF AliasCovers
  <2>1. v \in Nat /\ v < Table
    BY <1>3
  <2>2. QED
    BY <1>1, <1>7, <2>1
<1>9. AliasInjective(alias, f, logAlpha)
  <2> SUFFICES ASSUME NEW v \in 0 .. Table - 1, NEW w \in 0 .. Table - 1,
                      Lookup(alias, logAlpha, v) = Lookup(alias, logAlpha, w)
               PROVE  v = w
    BY DEF AliasInjective
  <2>1. <<s, v>> = <<s, w>>
    BY <1>7
  <2>2. QED
    BY <2>1
<1>10. QED
  BY <1>8, <1>9 DEF alias

(* The levelled table.                                                      *)
LEMMA AliasOfLevelled ==
  ASSUME NEW logAlpha \in LogAlphas, NEW f, Fills(f, logAlpha), Filling(f) = {}, NEW t,
         LevelInv(t, Slots(logAlpha), EntrySize(logAlpha), FullOf(f, logAlpha)), t.over = <<>>
  PROVE  LET alias == AliasTable(t, f, logAlpha)
         IN AliasCovers(alias, f, logAlpha) /\ AliasInjective(alias, f, logAlpha)
<1> DEFINE alias == AliasTable(t, f, logAlpha)
           size == EntrySize(logAlpha)
           slots == Slots(logAlpha)
           full == FullOf(f, logAlpha)
           D == Done(t, slots, size)
           at(v) == Lookup(alias, logAlpha, v)
           slot(v) == v \div size
           place(v) == v % size
           behind(i) == t.offset[i] - t.cutoff[i]
<1>1. size \in Nat \ {0} /\ IsFiniteSet(slots) /\ slots \in SUBSET Nat
  BY EntrySizes, SlotsFinite
<1>2. full \in [slots -> Nat] /\ \A i \in slots : full[i] = Full(f, i)
  BY FillsType DEF FullOf
<1>3. /\ t.cutoff \in [slots -> Nat] /\ t.right \in [slots -> slots] /\ t.offset \in [slots -> Nat]
      /\ \A i \in slots : t.cutoff[i] <= full[i]
      /\ GivenAway(t, slots, size, full) /\ GivenOnce(t, slots, size)
  BY DEF LevelInv, LevelTyped
<1>4. \A i \in slots : i \notin D => t.cutoff[i] = size
  BY <1>1, <1>2, LevelEnds
<1>5. \A i \in D : i \in slots /\ t.cutoff[i] < size
  BY DEF Done
<1>6. \A i \in slots :
        alias[i] = IF t.cutoff[i] = size THEN [cutoff |-> 0, right |-> i, offset |-> 0]
                   ELSE [cutoff |-> t.cutoff[i], right |-> t.right[i], offset |-> behind(i)]
  BY DEF AliasTable
<1> HIDE DEF alias
<1>7. \A v : at(v) = IF place(v) >= alias[slot(v)].cutoff
                       THEN <<alias[slot(v)].right, alias[slot(v)].offset + place(v)>>
                       ELSE <<slot(v), place(v)>>
  BY DEF Lookup
<1>8. \A v \in 0 .. Table - 1 : /\ slot(v) \in slots /\ place(v) \in Nat /\ place(v) < size
                                /\ v = size * slot(v) + place(v)
  BY Positions
<1>9. \A i \in D : /\ t.right[i] \in slots /\ t.offset[i] \in Nat /\ t.cutoff[i] \in Nat
                   /\ t.cutoff[t.right[i]] \in Nat /\ full[t.right[i]] \in Nat
                   /\ t.cutoff[t.right[i]] <= t.offset[i]
                   /\ t.offset[i] + (size - t.cutoff[i]) <= full[t.right[i]]
  <2> TAKE i \in D
  <2>1. t.right[i] \in slots /\ t.offset[i] \in Nat /\ t.cutoff[i] \in Nat
    BY <1>3, <1>5
  <2>2. t.cutoff[t.right[i]] \in Nat /\ full[t.right[i]] \in Nat
    BY <1>2, <1>3, <2>1
  <2>3. QED
    BY <1>3, <2>1, <2>2 DEF GivenAway
<1>10. \A i, j \in D : i # j /\ t.right[i] = t.right[j] =>
         \/ t.offset[i] + (size - t.cutoff[i]) <= t.offset[j]
         \/ t.offset[j] + (size - t.cutoff[j]) <= t.offset[i]
  BY <1>3 DEF GivenOnce
<1> DEFINE own(v) == at(v) = <<slot(v), place(v)>> /\ place(v) < t.cutoff[slot(v)]
           other(v) == /\ slot(v) \in D /\ place(v) >= t.cutoff[slot(v)]
                       /\ at(v) = <<t.right[slot(v)], behind(slot(v)) + place(v)>>
<1> HIDE DEF at, slot, place, D
<1>11. ASSUME NEW v \in 0 .. Table - 1 PROVE own(v) \/ other(v)
  <2>1. slot(v) \in slots /\ place(v) \in Nat /\ place(v) < size /\ t.cutoff[slot(v)] \in Nat
    BY <1>3, <1>8
  <2>2. CASE t.cutoff[slot(v)] = size
    <3>1. /\ alias[slot(v)].cutoff = 0 /\ alias[slot(v)].right = slot(v)
          /\ alias[slot(v)].offset = 0
      <4>1. alias[slot(v)] = [cutoff |-> 0, right |-> slot(v), offset |-> 0]
        BY <1>6, <2>1, <2>2
      <4>2. QED
        BY <4>1
    <3>2. place(v) >= alias[slot(v)].cutoff /\ 0 + place(v) = place(v)
      BY <2>1, <3>1
    <3>3. at(v) = <<slot(v), place(v)>>
      BY <1>7, <3>1, <3>2
    <3>4. QED
      BY <2>1, <2>2, <3>3
  <2>3. CASE t.cutoff[slot(v)] # size
    <3>1. slot(v) \in D
      BY <1>4, <2>1, <2>3
    <3>2. /\ alias[slot(v)].cutoff = t.cutoff[slot(v)] /\ alias[slot(v)].right = t.right[slot(v)]
          /\ alias[slot(v)].offset = behind(slot(v))
      <4>1. alias[slot(v)] = [cutoff |-> t.cutoff[slot(v)], right |-> t.right[slot(v)],
                              offset |-> behind(slot(v))]
        BY <1>6, <2>1, <2>3
      <4>2. QED
        BY <4>1
    <3> HIDE DEF behind
    <3>3. CASE place(v) >= t.cutoff[slot(v)]
      BY <1>7, <3>1, <3>2, <3>3
    <3>4. CASE ~(place(v) >= t.cutoff[slot(v)])
      <4>1. at(v) = <<slot(v), place(v)>>
        BY <1>7, <3>2, <3>4
      <4>2. QED
        BY <2>1, <3>4, <4>1
    <3>5. QED
      BY <3>3, <3>4
  <2>4. QED
    BY <2>2, <2>3
<1>12. ASSUME NEW v \in 0 .. Table - 1, other(v)
       PROVE  LET x == behind(slot(v)) + place(v)
              IN /\ x \in Nat /\ t.offset[slot(v)] <= x
                 /\ x < t.offset[slot(v)] + (size - t.cutoff[slot(v)])
  <2>1. place(v) \in Nat /\ place(v) < size /\ t.offset[slot(v)] \in Nat /\ t.cutoff[slot(v)] \in Nat
    BY <1>8, <1>9, <1>12
  <2>2. QED
    BY <1>1, <1>12, <2>1
<1>13. ASSUME NEW i \in slots, NEW x \in Nat, x < full[i] PROVE i \in DOMAIN f /\ x < f[i]
  BY <1>2, <1>13 DEF Full
<1>14. ASSUME NEW v \in 0 .. Table - 1
       PROVE  \E i \in slots : \E x \in Nat : at(v) = <<i, x>> /\ x < full[i]
  <2>1. CASE own(v)
    <3>1. slot(v) \in slots /\ place(v) \in Nat /\ t.cutoff[slot(v)] \in Nat /\ full[slot(v)] \in Nat
          /\ t.cutoff[slot(v)] <= full[slot(v)]
      BY <1>2, <1>3, <1>8
    <3>2. place(v) < full[slot(v)]
      BY <2>1, <3>1
    <3>3. QED
      BY <2>1, <3>1, <3>2
  <2>2. CASE other(v)
    <3> DEFINE x == behind(slot(v)) + place(v)
               i == t.right[slot(v)]
    <3>1. /\ x \in Nat /\ x < t.offset[slot(v)] + (size - t.cutoff[slot(v)])
      BY <1>12, <2>2
    <3>2. i \in slots /\ t.offset[slot(v)] + (size - t.cutoff[slot(v)]) <= full[i]
          /\ full[i] \in Nat /\ t.offset[slot(v)] \in Nat /\ t.cutoff[slot(v)] \in Nat
      BY <1>9, <2>2
    <3>3. at(v) = <<i, x>>
      BY <2>2
    <3> HIDE DEF x, i
    <3>4. x < full[i]
      BY <1>1, <3>1, <3>2
    <3>5. QED
      BY <3>1, <3>2, <3>3, <3>4
  <2>3. QED
    BY <1>11, <2>1, <2>2
<1>15. AliasCovers(alias, f, logAlpha)
  <2> SUFFICES ASSUME NEW v \in 0 .. Table - 1
               PROVE  /\ at(v) = <<at(v)[1], at(v)[2]>>
                      /\ at(v)[1] \in DOMAIN f /\ at(v)[2] \in Nat /\ at(v)[2] < f[at(v)[1]]
    BY DEF AliasCovers, at
  <2>1. PICK i \in slots, x \in Nat : at(v) = <<i, x>> /\ x < full[i]
    BY <1>14
  <2>2. QED
    BY <1>13, <2>1
<1>16. ASSUME NEW v \in 0 .. Table - 1, NEW w \in 0 .. Table - 1, at(v) = at(w),
              slot(v) = slot(w) /\ place(v) = place(w)
       PROVE  v = w
  BY <1>8, <1>16
<1>17. ASSUME NEW v \in 0 .. Table - 1, NEW w \in 0 .. Table - 1, at(v) = at(w), own(v), other(w)
       PROVE  FALSE
  <2>1. slot(v) = t.right[slot(w)] /\ place(v) = behind(slot(w)) + place(w)
    <3>1. <<slot(v), place(v)>> = <<t.right[slot(w)], behind(slot(w)) + place(w)>>
      BY <1>17, Zenon
    <3> HIDE DEF behind
    <3>2. QED
      BY <3>1, PairsEqual
  <2>2. t.offset[slot(w)] <= place(v) /\ place(v) \in Nat /\ place(v) < t.cutoff[slot(v)]
    BY <1>8, <1>12, <1>17, <2>1
  <2>3. t.cutoff[slot(v)] <= t.offset[slot(w)] /\ t.offset[slot(w)] \in Nat /\ t.cutoff[slot(v)] \in Nat
    BY <1>9, <1>17, <2>1
  <2>4. QED
    BY <2>2, <2>3
<1>18. ASSUME NEW v \in 0 .. Table - 1, NEW w \in 0 .. Table - 1, at(v) = at(w), other(v), other(w)
       PROVE  v = w
  <2> DEFINE x == behind(slot(v)) + place(v)
  <2>1. t.right[slot(v)] = t.right[slot(w)] /\ behind(slot(v)) + place(v) = behind(slot(w)) + place(w)
    <3>1. <<t.right[slot(v)], behind(slot(v)) + place(v)>>
            = <<t.right[slot(w)], behind(slot(w)) + place(w)>>
      BY <1>18, Zenon
    <3> HIDE DEF behind
    <3>2. QED
      BY <3>1, PairsEqual
  <2>2. /\ x \in Nat
        /\ t.offset[slot(v)] <= x /\ x < t.offset[slot(v)] + (size - t.cutoff[slot(v)])
    BY <1>12, <1>18
  <2>3. t.offset[slot(w)] <= x /\ x < t.offset[slot(w)] + (size - t.cutoff[slot(w)])
    BY <1>12, <1>18, <2>1
  <2>4. /\ slot(v) \in D /\ slot(w) \in D
        /\ t.offset[slot(v)] \in Nat /\ t.offset[slot(w)] \in Nat
        /\ t.cutoff[slot(v)] \in Nat /\ t.cutoff[slot(w)] \in Nat
    BY <1>9, <1>18
  <2>5. slot(v) = slot(w)
    <3> HIDE DEF x
    <3> SUFFICES ASSUME slot(v) # slot(w) PROVE FALSE
      OBVIOUS
    <3>1. \/ t.offset[slot(v)] + (size - t.cutoff[slot(v)]) <= t.offset[slot(w)]
          \/ t.offset[slot(w)] + (size - t.cutoff[slot(w)]) <= t.offset[slot(v)]
      BY <1>10, <2>1, <2>4
    <3> DEFINE a == t.offset[slot(v)]
               b == t.offset[slot(w)]
               c == size - t.cutoff[slot(v)]
               d == size - t.cutoff[slot(w)]
    <3>2. a \in Int /\ b \in Int /\ c \in Int /\ d \in Int
      BY <1>1, <2>4
    <3>3. a <= x /\ x < a + c /\ b <= x /\ x < b + d /\ (a + c <= b \/ b + d <= a) /\ x \in Int
      BY <2>2, <2>3, <3>1
    <3> HIDE DEF a, b, c, d
    <3>4. QED
      BY <3>2, <3>3
  <2>6. place(v) = place(w)
    <3>1. place(v) \in Nat /\ place(w) \in Nat /\ behind(slot(v)) \in Int
      BY <1>8, <2>4
    <3> HIDE DEF behind
    <3>2. QED
      BY <2>1, <2>5, <3>1
  <2>7. QED
    BY <1>16, <1>18, <2>5, <2>6
<1>19. AliasInjective(alias, f, logAlpha)
  <2> SUFFICES ASSUME NEW v \in 0 .. Table - 1, NEW w \in 0 .. Table - 1, at(v) = at(w)
               PROVE  v = w
    BY DEF AliasInjective, at
  <2>1. CASE own(v) /\ own(w)
    <3>1. <<slot(v), place(v)>> = <<slot(w), place(w)>>
      BY <2>1, Zenon
    <3>2. slot(v) = slot(w) /\ place(v) = place(w)
      BY <3>1, PairsEqual
    <3>3. QED
      BY <1>16, <3>2
  <2>2. CASE own(v) /\ other(w)
    BY <1>17, <2>2
  <2>3. CASE other(v) /\ own(w)
    BY <1>17, <2>3
  <2>4. CASE other(v) /\ other(w)
    BY <1>18, <2>4
  <2> HIDE DEF own, other
  <2>5. QED
    BY <1>11, <2>1, <2>2, <2>3, <2>4
<1>20. QED
  BY <1>15, <1>19 DEF alias

-------------------------------------------------------------------------------
(* BuildAnsEncoderTables.  The symbols follow one another in the reverse map *)
(* without overlap, and end with the table.                                 *)
LEMMA StartSum ==
  ASSUME NEW n \in Nat, NEW f \in [0 .. n - 1 -> Nat], NEW s \in 0 .. n - 1
  PROVE  /\ Start(f, s) = SumOver(f, 0 .. s - 1) /\ Start(f, s) \in Nat
         /\ Start(f, s) + f[s] = SumOver(f, 0 .. s) /\ f[s] \in Nat
<1> DEFINE A == 0 .. s - 1
           g == [t \in 0 .. s - 1 |-> f[t]]
<1>0. 0 \in Int /\ s - 1 \in Int
  OBVIOUS
<1>a. IsFiniteSet(A)
  BY <1>0, FS_Interval
<1>b. A \subseteq 0 .. n - 1 /\ \A x \in A : f[x] \in Nat
  OBVIOUS
<1>1. IsFiniteSet(A) /\ A \subseteq 0 .. n - 1 /\ \A x \in A : f[x] \in Nat
  BY <1>a, <1>b
<1>2. Start(f, s) = SumOver(g, A)
  BY DEF Start, Total, SumFunction, SumOver
<1>3. \A x \in A : g[x] = f[x]
  OBVIOUS
<1> HIDE DEF g
<1>4. SumOver(g, A) = SumOver(f, A)
  <2> HIDE DEF A
  <2>1. QED
    BY <1>1, <1>3, SumSame
<1>5. SumOver(f, A) \in Nat
  BY <1>1, SumType
<1>6. s \notin A /\ f[s] \in Nat /\ A \cup {s} = 0 .. s
  OBVIOUS
<1>7. SumOver(f, A \cup {s}) = SumOver(f, A) + f[s]
  <2> HIDE DEF A
  <2>1. QED
    BY <1>1, <1>6, SumAdd
<1>8. SumOver(f, 0 .. s) = SumOver(f, A) + f[s]
  BY <1>6, <1>7, Zenon
<1>9. QED
  BY <1>2, <1>4, <1>5, <1>6, <1>8

(* The places of a symbol end where those of the next begin.                *)
LEMMA StartsApart ==
  ASSUME NEW n \in Nat, NEW f \in [0 .. n - 1 -> Nat], SumOver(f, 0 .. n - 1) = Table,
         NEW s \in 0 .. n - 1
  PROVE  /\ Start(f, s) + f[s] <= Table
         /\ \A r \in 0 .. n - 1 : s < r => Start(f, s) + f[s] <= Start(f, r)
<1>1. /\ Start(f, s) \in Nat /\ f[s] \in Nat /\ Start(f, s) + f[s] = SumOver(f, 0 .. s)
  BY StartSum
<1>2. ASSUME NEW b \in 0 .. n, s < b PROVE SumOver(f, 0 .. s) <= SumOver(f, 0 .. b - 1)
  <2> DEFINE A == 0 .. b - 1
             B == 0 .. s
  <2>1. IsFiniteSet(A)
    BY FS_Interval
  <2>2. B \in SUBSET A
    BY <1>2
  <2>3. \A x \in A : f[x] \in Nat
    OBVIOUS
  <2>4. \A x \in B : f[x] \in Nat /\ f[x] <= f[x]
    BY <2>2, <2>3
  <2> HIDE DEF A, B
  <2>5. SumOver(f, B) <= SumOver(f, A)
    BY <2>1, <2>2, <2>3, <2>4, SumMono
  <2>6. QED
    BY <2>5 DEF A, B
<1>3. n \in 0 .. n /\ s < n /\ 0 .. n - 1 = 0 .. (n - 1)
  OBVIOUS
<1>4. SumOver(f, 0 .. s) <= Table
  BY <1>2, <1>3
<1>5. ASSUME NEW r \in 0 .. n - 1, s < r PROVE SumOver(f, 0 .. s) <= Start(f, r)
  <2>1. r \in 0 .. n /\ Start(f, r) = SumOver(f, 0 .. r - 1)
    BY StartSum
  <2>2. SumOver(f, 0 .. s) <= SumOver(f, 0 .. r - 1)
    BY <1>2, <1>5, <2>1
  <2>3. QED
    BY <2>1, <2>2
<1>6. QED
  BY <1>1, <1>4, <1>5

(* The reverse map takes every offset of every symbol back to the position  *)
(* that stands for it.                                                      *)
ReverseFinds(reverse, alias, f, logAlpha) ==
  \A s \in DOMAIN f : \A x \in Nat : x < f[s] =>
    /\ reverse[Start(f, s) + x] \in 0 .. Table - 1
    /\ Lookup(alias, logAlpha, reverse[Start(f, s) + x]) = <<s, x>>

(* BuildAnsEncoderTables: when every position stands for a symbol, and no   *)
(* two for the same place of it, the map finds the position again.          *)
LEMMA ReverseMapFinds ==
  ASSUME NEW logAlpha, NEW n \in Nat, NEW f \in [0 .. n - 1 -> Nat],
         SumOver(f, 0 .. n - 1) = Table,
         NEW alias, AliasCovers(alias, f, logAlpha), AliasInjective(alias, f, logAlpha)
  PROVE  ReverseFinds(ReverseMap(alias, f, logAlpha), alias, f, logAlpha)
<1> DEFINE V == 0 .. Table - 1
           at(v) == Lookup(alias, logAlpha, v)
           place(v) == Place(alias, f, logAlpha, v)
           R == ReverseMap(alias, f, logAlpha)
           to == [v \in V |-> place(v)]
<1>0. DOMAIN f = 0 .. n - 1
  OBVIOUS
<1>1. \A v \in V : /\ at(v) = <<at(v)[1], at(v)[2]>> /\ at(v)[1] \in 0 .. n - 1
                   /\ at(v)[2] \in Nat /\ at(v)[2] < f[at(v)[1]]
  BY <1>0 DEF AliasCovers
<1>2. \A v \in V : place(v) = Start(f, at(v)[1]) + at(v)[2]
  BY DEF Place
<1>3. \A v, w \in V : at(v) = at(w) => v = w
  BY DEF AliasInjective
<1>4. Table \in Nat \ {0}
  BY Sizes
<1>5. \A s \in 0 .. n - 1 : /\ Start(f, s) \in Nat /\ f[s] \in Nat /\ s \in Int
                            /\ Start(f, s) + f[s] <= Table
                            /\ \A r \in 0 .. n - 1 : s < r => Start(f, s) + f[s] <= Start(f, r)
  BY StartSum, StartsApart
<1>6. ASSUME NEW s \in 0 .. n - 1, NEW r \in 0 .. n - 1, NEW x \in Nat, NEW y \in Nat,
             x < f[s], y < f[r], Start(f, s) + x = Start(f, r) + y
      PROVE  s = r /\ x = y
  <2>1. /\ Start(f, s) \in Nat /\ Start(f, r) \in Nat /\ f[s] \in Nat /\ f[r] \in Nat
        /\ s \in Int /\ r \in Int
    BY <1>5
  <2>2. ~(s < r)
    <3> SUFFICES ASSUME s < r PROVE FALSE
      OBVIOUS
    <3>1. Start(f, s) + f[s] <= Start(f, r)
      BY <1>5
    <3>2. QED
      BY <1>6, <2>1, <3>1
  <2>3. ~(r < s)
    <3> SUFFICES ASSUME r < s PROVE FALSE
      OBVIOUS
    <3>1. Start(f, r) + f[r] <= Start(f, s)
      BY <1>5
    <3>2. QED
      BY <1>6, <2>1, <3>1
  <2>4. s = r
    BY <2>1, <2>2, <2>3
  <2>5. QED
    BY <1>6, <2>1, <2>4
<1> HIDE DEF at, place
<1>7. ASSUME NEW v \in V PROVE place(v) \in V
  <2> DEFINE s == at(v)[1]
             x == at(v)[2]
  <2>1. s \in 0 .. n - 1 /\ x \in Nat /\ x < f[s] /\ place(v) = Start(f, s) + x
    BY <1>1, <1>2
  <2> HIDE DEF s, x
  <2>2. Start(f, s) \in Nat /\ f[s] \in Nat /\ Start(f, s) + f[s] <= Table
    BY <1>5, <2>1
  <2>3. QED
    BY <1>4, <2>1, <2>2
<1>8. ASSUME NEW v \in V, NEW w \in V, place(v) = place(w) PROVE v = w
  <2> DEFINE s == at(v)[1]
             x == at(v)[2]
             r == at(w)[1]
             y == at(w)[2]
  <2>1. /\ s \in 0 .. n - 1 /\ x \in Nat /\ x < f[s] /\ place(v) = Start(f, s) + x /\ at(v) = <<s, x>>
        /\ r \in 0 .. n - 1 /\ y \in Nat /\ y < f[r] /\ place(w) = Start(f, r) + y /\ at(w) = <<r, y>>
    BY <1>1, <1>2
  <2> HIDE DEF s, x, r, y
  <2>2. Start(f, s) + x = Start(f, r) + y
    BY <1>8, <2>1
  <2>3. s = r /\ x = y
    BY <1>6, <2>1, <2>2
  <2>4. at(v) = at(w)
    BY <2>1, <2>3
  <2>5. QED
    BY <1>3, <2>4
<1>9. \A i \in V : \E v \in V : place(v) = i
  <2>1. to \in [V -> V] /\ \A v \in V : to[v] = place(v)
    BY <1>7
  <2> HIDE DEF to
  <2>2. to \in Injection(V, V)
    <3>1. \A v, w \in V : v # w => to[v] # to[w]
      BY <1>8, <2>1
    <3> HIDE DEF V
    <3>2. QED
      BY <2>1, <3>1 DEF Injection, IsInjective
  <2>3. IsFiniteSet(V)
    BY <1>4, FS_Interval
  <2> HIDE DEF V
  <2>4. to \in Surjection(V, V)
    BY <2>2, <2>3, FS_Injection
  <2>5. QED
    BY <2>1, <2>4 DEF Surjection
<1> DEFINE I == {place(v) : v \in V}
           last(i, v) == place(v) = i /\ \A w \in (v + 1) .. (Table - 1) : place(w) # i
<1>10. R = [i \in I |-> CHOOSE v \in V : last(i, v)]
  BY DEF ReverseMap, place
<1> HIDE DEF R
<1>11. ASSUME NEW i \in V PROVE R[i] \in V /\ place(R[i]) = i
  <2>1. PICK v \in V : place(v) = i
    BY <1>9
  <2>2. \A w \in (v + 1) .. (Table - 1) : place(w) # i
    <3> SUFFICES ASSUME NEW w \in (v + 1) .. (Table - 1), place(w) = i PROVE FALSE
      OBVIOUS
    <3>1. w \in V /\ w # v
      BY <1>4
    <3>2. QED
      BY <1>8, <2>1, <3>1
  <2>3. last(i, v) /\ i \in I
    BY <2>1, <2>2
  <2>4. R[i] = CHOOSE x \in V : last(i, x)
    BY <1>10, <2>3
  <2>5. R[i] \in V /\ last(i, R[i])
    <3> HIDE DEF last, V
    <3>1. QED
      BY <2>1, <2>3, <2>4
  <2>6. QED
    BY <2>5
<1>12. ASSUME NEW s \in 0 .. n - 1, NEW x \in Nat, x < f[s]
       PROVE  R[Start(f, s) + x] \in V /\ at(R[Start(f, s) + x]) = <<s, x>>
  <2> DEFINE i == Start(f, s) + x
             v == R[i]
  <2>1. i \in V
    BY <1>4, <1>5, <1>12
  <2>2. v \in V /\ place(v) = i
    BY <1>11, <2>1
  <2> DEFINE r == at(v)[1]
             y == at(v)[2]
  <2>3. r \in 0 .. n - 1 /\ y \in Nat /\ y < f[r] /\ place(v) = Start(f, r) + y /\ at(v) = <<r, y>>
    BY <1>1, <1>2, <2>2
  <2> HIDE DEF v, r, y
  <2>4. Start(f, s) + x = Start(f, r) + y
    BY <2>2, <2>3
  <2>5. s = r /\ x = y
    BY <1>6, <1>12, <2>3, <2>4
  <2>6. at(v) = <<s, x>>
    BY <2>3, <2>5
  <2>7. QED
    BY <2>2, <2>6 DEF v
<1>13. QED
  BY <1>0, <1>12 DEF ReverseFinds, R, at

(* InitializeAliasTable and BuildAnsEncoderTables on frequencies that fill  *)
(* the table: no check of theirs fails, and the reverse map inverts the     *)
(* alias table.                                                             *)
THEOREM TablesInvert ==
  ASSUME NEW logAlpha \in LogAlphas, NEW f, Fills(f, logAlpha), NEW t,
         Filling(f) = {} =>
           LevelInv(t, Slots(logAlpha), EntrySize(logAlpha), FullOf(f, logAlpha)) /\ t.over = <<>>
  PROVE  LET alias == AliasTable(t, f, logAlpha)
         IN /\ TableFits(alias, f, logAlpha)
            /\ ReverseFinds(ReverseMap(alias, f, logAlpha), alias, f, logAlpha)
<1> DEFINE alias == AliasTable(t, f, logAlpha)
<1>1. AliasCovers(alias, f, logAlpha) /\ AliasInjective(alias, f, logAlpha)
  <2>1. CASE Filling(f) = {}
    BY <2>1, AliasOfLevelled
  <2>2. CASE Filling(f) # {}
    BY <2>2, AliasOfOne
  <2>3. QED
    BY <2>1, <2>2
<1> HIDE DEF alias
<1>2. TableFits(alias, f, logAlpha)
  BY <1>1 DEF TableFits, AliasCovers
<1>3. PICK n \in Nat : n <= Pow2[logAlpha] /\ f \in [0 .. n - 1 -> Nat]
  BY DEF Fills
<1>4. SumOver(f, 0 .. n - 1) = Table
  <2>1. DOMAIN f = 0 .. n - 1
    BY <1>3
  <2>2. SumOver(f, DOMAIN f) = Table
    BY FillsType
  <2>3. QED
    BY <2>1, <2>2, Zenon
<1>5. ReverseFinds(ReverseMap(alias, f, logAlpha), alias, f, logAlpha)
  BY <1>1, <1>3, <1>4, ReverseMapFinds
<1>6. QED
  BY <1>2, <1>5 DEF alias

-------------------------------------------------------------------------------
(* The greatest and the least of finitely many integers.                    *)
LEMMA Greatest ==
  ASSUME NEW T \in SUBSET Int, IsFiniteSet(T), T # {}
  PROVE  /\ \E m \in T : \A k \in T : m >= k
         /\ \E m \in T : \A k \in T : m <= k
<1> DEFINE P == {s \in SUBSET T : s = {} \/ /\ \E m \in s : \A k \in s : m >= k
                                            /\ \E m \in s : \A k \in s : m <= k}
<1>1. {} \in P
  OBVIOUS
<1>2. ASSUME NEW s \in SUBSET T, NEW x \in s, s \ {x} \in P PROVE s \in P
  <2>1. \A k \in s : k \in Int
    OBVIOUS
  <2>2. CASE s \ {x} = {}
    <3>1. x \in s /\ x >= x /\ x <= x
      BY <2>1
    <3>2. \A k \in s : k = x
      BY <2>2
    <3>3. QED
      BY <3>1, <3>2
  <2>3. CASE s \ {x} # {}
    <3>1. PICK a \in s \ {x} : \A k \in s \ {x} : a >= k
      BY <1>2, <2>3
    <3>2. PICK b \in s \ {x} : \A k \in s \ {x} : b <= k
      BY <1>2, <2>3
    <3>3. \E m \in s : \A k \in s : m >= k
      <4>1. CASE a >= x
        BY <2>1, <3>1, <4>1
      <4>2. CASE x >= a
        BY <2>1, <3>1, <4>2
      <4>3. QED
        BY <2>1, <4>1, <4>2
    <3>4. \E m \in s : \A k \in s : m <= k
      <4>1. CASE b <= x
        BY <2>1, <3>2, <4>1
      <4>2. CASE x <= b
        BY <2>1, <3>2, <4>2
      <4>3. QED
        BY <2>1, <4>1, <4>2
    <3>5. QED
      BY <3>3, <3>4
  <2>4. QED
    BY <2>2, <2>3
<1> HIDE DEF P
<1>3. SUBSET T \subseteq P
  BY <1>1, <1>2, ElementInduction
<1>4. T \in P
  BY <1>3
<1>5. QED
  BY <1>4 DEF P

(* Such a set has a largest and a smallest element.                         *)
LEMMA MaxIs ==
  ASSUME NEW T \in SUBSET Int, IsFiniteSet(T), T # {}
  PROVE  /\ Max(T) \in T /\ Max(T) \in Int /\ \A k \in T : Max(T) >= k
         /\ Min(T) \in T /\ Min(T) \in Int /\ \A k \in T : Min(T) <= k
<1>1. Max(T) \in T /\ \A k \in T : Max(T) >= k
  BY Greatest DEF Max
<1>2. Min(T) \in T /\ \A k \in T : Min(T) <= k
  BY Greatest DEF Min
<1>3. QED
  BY <1>1, <1>2

(* The pairs that the code's small bounds are made of.                      *)
LEMMA MaxOfTwo ==
  ASSUME NEW a \in Int, NEW b \in Int
  PROVE  /\ Max({a, b}) = IF a >= b THEN a ELSE b
         /\ Min({a, b}) = IF a <= b THEN a ELSE b
<1>1. IsFiniteSet({a, b})
  <2>1. IsFiniteSet({a})
    BY FS_Singleton
  <2>2. IsFiniteSet({a} \cup {b})
    BY <2>1, FS_AddElement
  <2>3. QED
    BY <2>2, Zenon
<1>2. /\ Max({a, b}) \in {a, b} /\ \A k \in {a, b} : Max({a, b}) >= k
      /\ Min({a, b}) \in {a, b} /\ \A k \in {a, b} : Min({a, b}) <= k
  BY <1>1, MaxIs
<1> DEFINE m == Max({a, b})
           l == Min({a, b})
<1> HIDE DEF m, l
<1>3. m \in {a, b} /\ m >= a /\ m >= b /\ l \in {a, b} /\ l <= a /\ l <= b
  BY <1>2 DEF m, l
<1>4. QED
  BY <1>3 DEF m, l

(* The values of a function on a finite set.                                *)
LEMMA ImageFinite ==
  ASSUME NEW D, IsFiniteSet(D), NEW S, NEW f \in [D -> S]
  PROVE  IsFiniteSet({f[x] : x \in D})
<1> DEFINE T == {f[x] : x \in D}
<1>1. f \in Surjection(D, T)
  <2>1. f \in [D -> T]
    OBVIOUS
  <2>2. \A t \in T : \E x \in D : f[x] = t
    OBVIOUS
  <2>3. QED
    BY <2>1, <2>2 DEF Surjection
<1> HIDE DEF T
<1>2. IsFiniteSet(T)
  BY <1>1, FS_Surjection
<1>3. QED
  BY <1>2 DEF T

(* The first of the largest scores is one of them.                          *)
LEMMA FirstLargestIs ==
  ASSUME NEW D \in SUBSET Nat, IsFiniteSet(D), D # {}, NEW score \in [D -> Int]
  PROVE  /\ FirstLargest(score) \in D
         /\ \A t \in D : score[t] <= score[FirstLargest(score)]
<1> DEFINE T == {score[s] : s \in D}
<1>1. IsFiniteSet(T)
  BY ImageFinite
<1>2. T \in SUBSET Int /\ T # {}
  OBVIOUS
<1>3. PICK m \in T : \A k \in T : m >= k
  BY <1>1, <1>2, Greatest
<1> DEFINE B == {s \in D : score[s] = m}
<1>4. B \subseteq Nat /\ B # {}
  OBVIOUS
<1>5. PICK s \in B : \A t \in B : s <= t
  BY <1>4, Least
<1>6. \A t \in D : score[t] \in Int /\ score[t] <= m /\ t \in Nat
  BY <1>3
<1>7. s \in D /\ score[s] = m /\ m \in Int
  BY <1>5, <1>6
<1>8. \A t \in D : score[s] > score[t] \/ (score[s] = score[t] /\ s <= t)
  <2> TAKE t \in D
  <2>1. CASE score[t] = m
    BY <1>5, <1>7, <2>1
  <2>2. CASE score[t] # m
    BY <1>6, <1>7, <2>2
  <2>3. QED
    BY <2>1, <2>2
<1> DEFINE g == FirstLargest(score)
<1>9. DOMAIN score = D
  OBVIOUS
<1>10. g \in D /\ \A t \in D : score[g] > score[t] \/ (score[g] = score[t] /\ g <= t)
  BY <1>7, <1>8, <1>9 DEF FirstLargest
<1> HIDE DEF g
<1>11. \A t \in D : score[t] <= score[g]
  BY <1>6, <1>10
<1>12. QED
  BY <1>10, <1>11 DEF g

-------------------------------------------------------------------------------
(* FloorLog2 (bits.h): the powers of two are ordered,                       *)
LEMMA Pow2Order ==
  ASSUME NEW a \in Nat, NEW b \in Nat, a <= b
  PROVE  Pow2[a] <= Pow2[b]
<1> DEFINE d == b - a
<1>1. d \in Nat /\ a + d = b
  OBVIOUS
<1> HIDE DEF d
<1>2. Pow2[b] = Pow2[a] * Pow2[d]
  BY <1>1, Pow2Sum
<1>3. Pow2[a] \in Nat /\ Pow2[d] \in Nat /\ 1 <= Pow2[d]
  BY <1>1, Pow2Equation
<1>4. Pow2[a] * 1 <= Pow2[a] * Pow2[d]
  BY <1>3, ProductOrder
<1>5. QED
  BY <1>2, <1>3, <1>4

(* every number lies between two of them,                                   *)
LEMMA LogExists ==
  \A m \in Nat : \A n \in Nat : 1 <= n /\ n < Pow2[m] =>
    \E k \in 0 .. m - 1 : Pow2[k] <= n /\ n < Pow2[k + 1]
<1> DEFINE Q(m) == \A n \in Nat : 1 <= n /\ n < Pow2[m] =>
                     \E k \in 0 .. m - 1 : Pow2[k] <= n /\ n < Pow2[k + 1]
           P == {m \in Nat : Q(m)}
<1>1. 0 \in P
  BY Pow2Equation
<1>2. ASSUME NEW m \in Nat, m \in P PROVE m + 1 \in P
  <2> SUFFICES ASSUME NEW n \in Nat, 1 <= n, n < Pow2[m + 1]
               PROVE  \E k \in 0 .. (m + 1) - 1 : Pow2[k] <= n /\ n < Pow2[k + 1]
    BY <1>2
  <2>1. Pow2[m] \in Nat
    BY Pow2Equation
  <2>2. CASE n < Pow2[m]
    <3>1. PICK k \in 0 .. m - 1 : Pow2[k] <= n /\ n < Pow2[k + 1]
      BY <1>2, <2>2
    <3>2. k \in 0 .. (m + 1) - 1
      OBVIOUS
    <3>3. QED
      BY <3>1, <3>2
  <2>3. CASE Pow2[m] <= n
    <3>1. m \in 0 .. (m + 1) - 1
      OBVIOUS
    <3>2. QED
      BY <2>3, <3>1
  <2>4. QED
    BY <2>1, <2>2, <2>3
<1> HIDE DEF P
<1>3. Nat \subseteq P
  BY <1>1, <1>2, Induction
<1>4. QED
  BY <1>3 DEF P

(* and these are the ones FloorLog2 finds.                                  *)
LEMMA FloorLog2Is ==
  ASSUME NEW n \in 1 .. Table
  PROVE  /\ FloorLog2(n) \in 0 .. LogTable
         /\ Pow2[FloorLog2(n)] <= n /\ n < Pow2[FloorLog2(n) + 1]
         /\ \A j \in Nat : Pow2[j] <= n /\ n < Pow2[j + 1] => FloorLog2(n) = j
<1>1. LogTable \in Nat /\ Table \in Nat \ {0} /\ n \in Nat /\ 1 <= n
  BY Sizes, SizesAssumption
<1>2. n < Pow2[LogTable + 1]
  BY <1>1, Pow2Equation DEF Table
<1>3. \E k \in 0 .. (LogTable + 1) - 1 : Pow2[k] <= n /\ n < Pow2[k + 1]
  BY <1>1, <1>2, LogExists
<1>4. (LogTable + 1) - 1 = LogTable
  BY <1>1
<1>5. \E k \in 0 .. LogTable : Pow2[k] <= n /\ n < Pow2[k + 1]
  BY <1>3, <1>4
<1> DEFINE k == FloorLog2(n)
<1>6. k \in 0 .. LogTable /\ Pow2[k] <= n /\ n < Pow2[k + 1]
  BY <1>5 DEF FloorLog2
<1> HIDE DEF k
<1>7. ASSUME NEW i \in Nat, NEW j \in Nat, Pow2[i] <= n, n < Pow2[j + 1] PROVE i <= j
  <2> SUFFICES ASSUME j + 1 <= i PROVE FALSE
    OBVIOUS
  <2>1. Pow2[j + 1] <= Pow2[i]
    BY Pow2Order
  <2>2. Pow2[j + 1] \in Nat /\ Pow2[i] \in Nat
    BY Pow2Equation
  <2>3. QED
    BY <1>1, <1>7, <2>1, <2>2
<1>8. k \in Nat
  BY <1>6
<1>9. \A j \in Nat : Pow2[j] <= n /\ n < Pow2[j + 1] => k = j
  BY <1>6, <1>7, <1>8
<1>10. QED
  BY <1>6, <1>9 DEF k

-------------------------------------------------------------------------------
(* GetPopulationCountPrecision and the step it leaves.                      *)
StepLog(log, sh) == log - PopulationCountPrecision(log, sh)
StepOf(log, sh) == Pow2[StepLog(log, sh)]

(* The step is a power of two that divides the population's own.            *)
LEMMA StepIs ==
  ASSUME NEW log \in 0 .. LogTable, NEW sh \in Int
  PROVE  /\ StepLog(log, sh) \in 0 .. log /\ StepOf(log, sh) \in Nat \ {0}
         /\ \E p \in Nat \ {0} : Pow2[log] = StepOf(log, sh) * p
<1>1. LogTable \in Nat /\ log \in Int /\ 0 <= log /\ (LogTable - log) \div 2 \in Int
  BY SizesAssumption
<1> DEFINE x == sh - ((LogTable - log) \div 2)
           m == Min({log, x})
           p == PopulationCountPrecision(log, sh)
<1>2. x \in Int
  BY <1>1
<1> HIDE DEF x
<1>3. m = IF log <= x THEN log ELSE x
  BY <1>1, <1>2, MaxOfTwo
<1>4. m \in Int /\ m <= log
  BY <1>1, <1>2, <1>3
<1>5. p = Max({0, m})
  BY DEF PopulationCountPrecision, x
<1> HIDE DEF m
<1>6. p = IF 0 >= m THEN 0 ELSE m
  <2>1. 0 \in Int
    OBVIOUS
  <2>2. QED
    BY <1>4, <1>5, <2>1, MaxOfTwo
<1>7. p \in Nat /\ p <= log
  BY <1>1, <1>4, <1>6
<1> DEFINE d == StepLog(log, sh)
<1>8. d = log - p
  BY DEF StepLog
<1> HIDE DEF p, d
<1>9. d \in 0 .. log /\ d + p = log /\ d \in Nat
  BY <1>1, <1>7, <1>8
<1>10. Pow2[log] = Pow2[d] * Pow2[p] /\ Pow2[d] \in Nat \ {0} /\ Pow2[p] \in Nat \ {0}
  BY <1>7, <1>9, Pow2Sum, Pow2Equation
<1>11. StepOf(log, sh) = Pow2[d]
  BY DEF StepOf, d
<1>12. QED
  BY <1>9, <1>10, <1>11 DEF d

(* A count loses less than a step, and keeps its logarithm.                 *)
LEMMA RoundedDownIs ==
  ASSUME NEW sh \in Int, NEW c \in 1 .. Table - 1
  PROVE  LET k == FloorLog2(c)
             r == RoundedDown(c, sh)
         IN /\ k \in 0 .. LogTable
            /\ \E q \in Nat : r = StepOf(k, sh) * q
            /\ r \in 1 .. c /\ FloorLog2(r) = k /\ c < r + StepOf(k, sh)
            /\ Pow2[k] <= r /\ r < Pow2[k + 1]
<1> DEFINE k == FloorLog2(c)
           r == RoundedDown(c, sh)
           s == StepOf(k, sh)
<1>1. Table \in Nat /\ c \in Nat /\ c # 0 /\ c \in 1 .. Table
  BY Sizes
<1>2. k \in 0 .. LogTable /\ Pow2[k] <= c /\ c < Pow2[k + 1]
  BY <1>1, FloorLog2Is
<1>3. r = c - (c % s)
  BY <1>1 DEF RoundedDown, StepOf, StepLog
<1>4. s \in Nat \ {0} /\ \E p \in Nat \ {0} : Pow2[k] = s * p
  BY <1>2, StepIs
<1> HIDE DEF k, r, s
<1>5. PICK p \in Nat \ {0} : Pow2[k] = s * p
  BY <1>4
<1> DEFINE q == c \div s
<1>6. q \in Nat /\ c % s \in Nat /\ c % s < s /\ c = s * q + (c % s)
  BY <1>1, <1>4, DivMod
<1>7. s * q \in Nat /\ s * p \in Nat
  BY <1>4, <1>5, <1>6
<1> HIDE DEF q
<1>8. r = s * q /\ r <= c /\ c < r + s
  BY <1>1, <1>3, <1>4, <1>6, <1>7
<1>9. p <= q
  <2> SUFFICES ASSUME q + 1 <= p PROVE FALSE
    BY <1>5, <1>6
  <2>1. s * (q + 1) <= s * p
    BY <1>4, <1>5, <1>6, ProductOrder
  <2>2. s * (q + 1) = s * q + s
    BY <1>4, <1>6
  <2>3. QED
    BY <1>1, <1>2, <1>4, <1>5, <1>6, <1>7, <2>1, <2>2
<1>10. s * p <= s * q
  BY <1>4, <1>5, <1>6, <1>9, ProductOrder
<1>11. k \in Nat /\ Pow2[k] \in Nat \ {0} /\ Pow2[k + 1] \in Nat
  BY <1>2, Pow2Equation
<1>12. Pow2[k] <= r /\ r < Pow2[k + 1] /\ r \in 1 .. c
  BY <1>1, <1>2, <1>5, <1>7, <1>8, <1>10, <1>11
<1>13. r \in 1 .. Table
  BY <1>1, <1>12
<1>14. FloorLog2(r) = k
  BY <1>11, <1>12, <1>13, FloorLog2Is
<1>15. QED
  BY <1>2, <1>6, <1>8, <1>12, <1>14 DEF k, r, s

-------------------------------------------------------------------------------
(* The populations of a precision.                                          *)
Allowed(sh) == {RoundedDown(c, sh) : c \in 0 .. Table - 1}

(* They lie below the size of the table, and 0 is one of them.              *)
LEMMA AllowedType ==
  ASSUME NEW sh \in Int
  PROVE  /\ Allowed(sh) \in SUBSET (0 .. Table - 1) /\ IsFiniteSet(Allowed(sh))
         /\ 0 \in Allowed(sh) /\ 1 < Table
<1>1. Table \in Nat /\ 1 < Table
  <2>1. 1 \in Nat /\ LogTable \in Nat /\ 1 <= LogTable
    BY SizesAssumption
  <2>2. Pow2[1] <= Pow2[LogTable]
    BY <2>1, Pow2Order
  <2>3. Pow2[0 + 1] = 2 * Pow2[0] /\ Pow2[0] = 1
    BY Pow2Equation
  <2>4. Pow2[1] = 2
    BY <2>3
  <2>5. QED
    BY <2>2, <2>4, Sizes DEF Table
<1>2. RoundedDown(0, sh) = 0
  BY DEF RoundedDown
<1>3. \A c \in 0 .. Table - 1 : RoundedDown(c, sh) \in 0 .. Table - 1
  <2> TAKE c \in 0 .. Table - 1
  <2>1. CASE c = 0
    BY <1>1, <1>2, <2>1
  <2>2. CASE c # 0
    <3>1. c \in 1 .. Table - 1
      BY <1>1, <2>2
    <3>2. RoundedDown(c, sh) \in 1 .. c
      BY <3>1, RoundedDownIs
    <3>3. QED
      BY <1>1, <3>1, <3>2
  <2>3. QED
    BY <2>1, <2>2
<1>4. Allowed(sh) \in SUBSET (0 .. Table - 1)
  BY <1>3 DEF Allowed
<1>5. 0 \in Int /\ Table - 1 \in Int
  BY <1>1
<1>6. IsFiniteSet(0 .. Table - 1)
  BY <1>5, FS_Interval
<1>7. IsFiniteSet(Allowed(sh))
  BY <1>4, <1>6, FS_Subset
<1>8. 0 \in Allowed(sh)
  BY <1>1, <1>2 DEF Allowed
<1>9. QED
  BY <1>1, <1>4, <1>7, <1>8

(* A population that is on the list is a multiple of its step,              *)
LEMMA AllowedIs ==
  ASSUME NEW sh \in Int, NEW m \in Allowed(sh), m # 0
  PROVE  LET k == FloorLog2(m)
         IN /\ k \in 0 .. LogTable /\ m \in 1 .. Table - 1
            /\ \E q \in Nat : m = StepOf(k, sh) * q
            /\ Pow2[k] <= m /\ m < Pow2[k + 1]
<1>1. PICK c \in 0 .. Table - 1 : m = RoundedDown(c, sh)
  BY DEF Allowed
<1>2. Table \in Nat
  BY Sizes
<1>3. c # 0
  BY <1>1 DEF RoundedDown
<1>4. c \in 1 .. Table - 1
  BY <1>2, <1>3
<1>5. m \in 1 .. Table - 1
  BY <1>1, AllowedType, <1>2
<1> DEFINE k == FloorLog2(c)
<1>6. /\ k \in 0 .. LogTable /\ FloorLog2(m) = k
      /\ \E q \in Nat : m = StepOf(k, sh) * q
      /\ Pow2[k] <= m /\ m < Pow2[k + 1]
  BY <1>1, <1>4, RoundedDownIs
<1> HIDE DEF k
<1>7. QED
  BY <1>5, <1>6

(* a multiple of a step that is not too large is on the list,               *)
LEMMA MultipleAllowed ==
  ASSUME NEW sh \in Int, NEW k \in 0 .. LogTable, NEW q \in Nat, NEW c \in 1 .. Table - 1,
         c = StepOf(k, sh) * q, Pow2[k] <= c, c < Pow2[k + 1]
  PROVE  c \in Allowed(sh)
<1> DEFINE s == StepOf(k, sh)
           r == RoundedDown(c, sh)
<1>1. Table \in Nat /\ c \in Nat /\ c \in 1 .. Table /\ k \in Nat /\ c \in 0 .. Table - 1
  BY Sizes, SizesAssumption
<1>2. FloorLog2(c) = k
  BY <1>1, FloorLog2Is
<1>3. /\ \E p \in Nat : r = s * p
      /\ r \in 1 .. c /\ c < r + s
  BY <1>2, RoundedDownIs
<1>4. s \in Nat \ {0} /\ c = s * q
  BY StepIs
<1> HIDE DEF s, r
<1>5. PICK p \in Nat : r = s * p
  BY <1>3
<1>6. q <= p
  <2> SUFFICES ASSUME p + 1 <= q PROVE FALSE
    BY <1>5
  <2>1. s * (p + 1) <= s * q
    BY <1>4, <1>5, ProductOrder
  <2>2. s * (p + 1) = s * p + s /\ s * p \in Nat /\ s * q \in Nat
    BY <1>4, <1>5
  <2>3. QED
    BY <1>1, <1>3, <1>4, <1>5, <2>1, <2>2
<1>7. s * q <= s * p
  BY <1>4, <1>5, <1>6, ProductOrder
<1>8. r = c
  BY <1>1, <1>3, <1>4, <1>5, <1>7
<1>9. QED
  BY <1>1, <1>8 DEF Allowed, r

(* and the next one on the list is exactly one step away.                   *)
LEMMA NextAllowed ==
  ASSUME NEW sh \in Int, NEW b \in Allowed(sh)
  PROVE  LET s == IF b = 0 THEN 1 ELSE StepOf(FloorLog2(b), sh)
         IN /\ s \in Nat \ {0}
            /\ \A m \in Allowed(sh) : b < m => b + s <= m
            /\ b + s < Table => b + s \in Allowed(sh)
<1>1. Table \in Nat /\ 1 < Table /\ LogTable \in Nat
  BY AllowedType, Sizes, SizesAssumption
<1>2. \A m \in Allowed(sh) : m \in 0 .. Table - 1 /\ m \in Nat
  BY AllowedType, <1>1
<1>3. CASE b = 0
  <2>1. 1 \in Allowed(sh)
    <3>1. 1 \in 1 .. Table - 1
      BY <1>1
    <3>2. RoundedDown(1, sh) \in 1 .. 1
      BY <3>1, RoundedDownIs
    <3>3. QED
      BY <1>1, <3>2 DEF Allowed
  <2>2. \A m \in Allowed(sh) : b < m => b + 1 <= m
    BY <1>2, <1>3
  <2>3. QED
    BY <1>3, <2>1, <2>2
<1>4. CASE b # 0
  <2> DEFINE k == FloorLog2(b)
             s == StepOf(k, sh)
             t == s
  <2>1. /\ k \in 0 .. LogTable /\ b \in 1 .. Table - 1
        /\ \E q \in Nat : b = s * q
        /\ Pow2[k] <= b /\ b < Pow2[k + 1]
    BY <1>4, AllowedIs
  <2>2. s \in Nat \ {0} /\ \E p \in Nat \ {0} : Pow2[k] = s * p
    BY <2>1, StepIs
  <2> HIDE DEF k, s
  <2>3. PICK q \in Nat : b = s * q
    BY <2>1
  <2>4. PICK p \in Nat \ {0} : Pow2[k] = s * p
    BY <2>2
  <2>5. k \in Nat /\ Pow2[k] \in Nat /\ Pow2[k + 1] \in Nat /\ Pow2[k + 1] = 2 * Pow2[k]
    BY <2>1, Pow2Equation
  <2>6. Pow2[k + 1] = s * (2 * p)
    BY <2>2, <2>4, <2>5
  <2>7. s * (q + 1) = b + s
    BY <2>2, <2>3
  <2>8. b + s <= Pow2[k + 1]
    <3>1. q < 2 * p
      <4> SUFFICES ASSUME 2 * p <= q PROVE FALSE
        BY <2>3, <2>4
      <4>1. s * (2 * p) <= s * q
        BY <2>2, <2>3, <2>4, ProductOrder
      <4>2. QED
        BY <2>1, <2>3, <2>5, <2>6, <4>1
    <3>2. q + 1 <= 2 * p
      BY <2>3, <2>4, <3>1
    <3>3. s * (q + 1) <= s * (2 * p)
      BY <2>2, <2>3, <2>4, <3>2, ProductOrder
    <3>4. QED
      BY <2>6, <2>7, <3>3
  <2>9. ASSUME NEW m \in Allowed(sh), b < m PROVE b + s <= m
    <3> DEFINE j == FloorLog2(m)
    <3>1. m # 0 /\ m \in Nat /\ b \in Nat
      BY <1>2, <2>1, <2>9
    <3>2. /\ j \in 0 .. LogTable /\ \E r \in Nat : m = StepOf(j, sh) * r
          /\ Pow2[j] <= m /\ m < Pow2[j + 1]
      BY <3>1, AllowedIs
    <3> HIDE DEF j
    <3>3. j \in Nat /\ Pow2[j] \in Nat /\ Pow2[j + 1] \in Nat
      BY <3>2, Pow2Equation
    <3>4. CASE j = k
      <4>1. PICK r \in Nat : m = s * r
        BY <3>2, <3>4 DEF s
      <4>2. q < r
        <5> SUFFICES ASSUME r <= q PROVE FALSE
          BY <2>3, <4>1
        <5>1. s * r <= s * q
          BY <2>2, <2>3, <4>1, ProductOrder
        <5>2. QED
          BY <2>3, <2>9, <3>1, <4>1, <5>1
      <4>3. q + 1 <= r
        BY <2>3, <4>1, <4>2
      <4>4. s * (q + 1) <= s * r
        BY <2>2, <2>3, <4>1, <4>3, ProductOrder
      <4>5. QED
        BY <2>7, <4>1, <4>4
    <3>5. CASE k < j
      <4>1. k + 1 <= j
        BY <2>5, <3>3, <3>5
      <4>2. Pow2[k + 1] <= Pow2[j]
        BY <2>5, <3>3, <4>1, Pow2Order
      <4>3. b + s \in Nat
        BY <2>2, <3>1
      <4>4. QED
        BY <2>5, <2>8, <3>1, <3>2, <3>3, <4>2, <4>3
    <3>6. CASE j < k
      <4>1. j + 1 <= k
        BY <2>5, <3>3, <3>6
      <4>2. Pow2[j + 1] <= Pow2[k]
        BY <2>5, <3>3, <4>1, Pow2Order
      <4>3. QED
        BY <2>1, <2>5, <2>9, <3>1, <3>2, <3>3, <4>2
    <3>7. QED
      BY <2>5, <3>3, <3>4, <3>5, <3>6
  <2>10. ASSUME b + s < Table PROVE b + s \in Allowed(sh)
    <3>1. b \in Nat /\ b + s \in 1 .. Table - 1 /\ b + s \in 1 .. Table /\ b + s \in Nat
      BY <1>1, <2>1, <2>2, <2>10
    <3>2. CASE b + s < Pow2[k + 1]
      <4>1. q + 1 \in Nat /\ b + s = s * (q + 1) /\ Pow2[k] <= b + s
        BY <2>1, <2>2, <2>3, <2>5, <2>7, <3>1
      <4>2. QED
        BY <2>1, <3>1, <3>2, <4>1, MultipleAllowed DEF s
    <3>3. CASE b + s = Pow2[k + 1]
      <4> DEFINE h == k + 1
                 u == StepOf(h, sh)
      <4>1. h \in Nat /\ Pow2[h] = b + s /\ Pow2[h + 1] = 2 * Pow2[h]
        BY <2>5, <3>3, Pow2Equation
      <4>2. h <= LogTable
        <5> SUFFICES ASSUME LogTable <= h PROVE h <= LogTable
          BY <1>1, <4>1
        <5>1. Pow2[LogTable] <= Pow2[h]
          BY <1>1, <4>1, Pow2Order
        <5>2. QED
          BY <1>1, <2>10, <3>1, <4>1, <5>1 DEF Table
      <4>3. h \in 0 .. LogTable
        BY <1>1, <4>1, <4>2
      <4> HIDE DEF h
      <4>4. \E r \in Nat \ {0} : Pow2[h] = u * r
        BY <4>3, StepIs
      <4>5. PICK r \in Nat : b + s = u * r
        BY <4>1, <4>4
      <4>6. Pow2[h] <= b + s /\ b + s < Pow2[h + 1]
        BY <3>1, <4>1
      <4>7. QED
        BY <3>1, <4>3, <4>5, <4>6, MultipleAllowed
    <3>4. QED
      BY <2>5, <2>8, <3>1, <3>2, <3>3
  <2>11. QED
    BY <1>4, <2>2, <2>9, <2>10 DEF s, k
<1>5. QED
  BY <1>3, <1>4

(* GetAllowedPopulations: the list holds them all, the largest first.       *)
LEMMA PopulationList ==
  ASSUME NEW sh \in 0 .. LogTable - 1
  PROVE  LET list == AllowedPopulations[sh]
         IN /\ Len(list) \in Nat \ {0} /\ Len(list) <= Table /\ DOMAIN list = 1 .. Len(list)
            /\ \A i \in 1 .. Len(list) : list[i] \in Allowed(sh) /\ list[i] \in 0 .. Table - 1
            /\ \A i, j \in 1 .. Len(list) : i < j => list[i] > list[j]
            /\ \A m \in Allowed(sh) : \E i \in 1 .. Len(list) : list[i] = m
<1>1. LogTable \in Nat /\ sh \in Int /\ sh \in 0 .. (LogTable - 1)
  BY SizesAssumption
<1> DEFINE S == Allowed(sh)
           A == Ascending(S)
           n == Cardinality(S)
           list == AllowedPopulations[sh]
<1>2. S \in SUBSET (0 .. Table - 1) /\ IsFiniteSet(S) /\ 0 \in S
  BY <1>1, AllowedType
<1>3. list = Reverse(A)
  BY <1>1 DEF AllowedPopulations, Allowed
<1>4. S \in SUBSET Nat
  BY <1>2
<1> HIDE DEF S
<1>l. Cardinality(S) <= Table
  <2>1. 0 \in Int /\ Table - 1 \in Int /\ Table \in Nat
    BY Sizes
  <2>2. IsFiniteSet(0 .. Table - 1) /\ Cardinality(0 .. Table - 1) = Table
    <3>1. /\ IsFiniteSet(0 .. Table - 1)
          /\ Cardinality(0 .. Table - 1) = IF 0 > Table - 1 THEN 0 ELSE (Table - 1) - 0 + 1
      BY <2>1, FS_Interval
    <3>2. QED
      BY <2>1, <3>1
  <2>3. Cardinality(S) <= Cardinality(0 .. Table - 1)
    BY <1>2, <2>2, FS_Subset
  <2>4. QED
    BY <2>2, <2>3
<1>5. /\ A \in Seq(S) /\ Len(A) = n /\ n \in Nat /\ Members(A) = S
      /\ \A i, j \in 1 .. n : i < j => A[i] < A[j]
  BY <1>2, <1>4, AscendingSorts
<1> HIDE DEF A, n, list
<1>6. list = [i \in 1 .. n |-> A[(n - i) + 1]]
  BY <1>3, <1>5 DEF Reverse
<1>7. Len(list) = n /\ DOMAIN list = 1 .. n
  BY <1>5, <1>6
<1>8. \A i \in 1 .. n : A[i] \in S /\ A[i] \in Nat
  <2> TAKE i \in 1 .. n
  <2>1. A[i] \in S
    BY <1>5 DEF Members
  <2>2. QED
    BY <1>4, <2>1
<1>9. \A i \in 1 .. n : (n - i) + 1 \in 1 .. n /\ list[i] = A[(n - i) + 1]
  BY <1>5, <1>6
<1>10. \A i \in 1 .. n : list[i] \in S
  BY <1>8, <1>9
<1>11. \A i, j \in 1 .. n : i < j => list[i] > list[j]
  <2> TAKE i, j \in 1 .. n
  <2> HAVE i < j
  <2> DEFINE k == (n - i) + 1
             l == (n - j) + 1
  <2>1. k \in 1 .. n /\ l \in 1 .. n /\ l < k /\ list[i] = A[k] /\ list[j] = A[l]
    BY <1>5, <1>9
  <2> HIDE DEF k, l
  <2>2. A[l] < A[k] /\ A[l] \in Nat /\ A[k] \in Nat
    BY <1>5, <1>8, <2>1
  <2>3. QED
    BY <2>1, <2>2
<1>12. \A m \in S : \E i \in 1 .. n : list[i] = m
  <2> TAKE m \in S
  <2>1. PICK k \in 1 .. n : A[k] = m
    BY <1>5 DEF Members
  <2> DEFINE i == (n - k) + 1
  <2>2. i \in 1 .. n /\ (n - i) + 1 = k
    BY <1>5
  <2>3. list[i] = m
    BY <1>9, <2>1, <2>2
  <2>4. QED
    BY <2>2, <2>3
<1>13. n # 0
  BY <1>2, <1>12
<1>14. \A i \in 1 .. n : list[i] \in 0 .. Table - 1
  BY <1>2, <1>10
<1>15. QED
  BY <1>l, <1>5, <1>7, <1>10, <1>11, <1>12, <1>13, <1>14 DEF S, list, n

(* An entry of the list: the population, and how far the one before is.     *)
LEMMA ListedIs ==
  ASSUME NEW sh \in 0 .. LogTable - 1, NEW i \in Nat \ {0}
  PROVE  LET e == Listed(sh, i)
             n == Len(AllowedPopulations[sh])
         IN /\ n \in Nat \ {0}
            /\ e.count \in 0 .. Table - 1 /\ e.step \in Nat /\ e.delta \in Int
            /\ i > n => e.count = 0 /\ e.step = 0
            /\ i = 1 => e.step = 0 /\ e.delta = 0
            /\ i \in 2 .. n => Listed(sh, i - 1).count = e.count + Pow2[e.step]
            /\ i <= n => e.count = AllowedPopulations[sh][i]
<1> DEFINE list == AllowedPopulations[sh]
           n == Len(list)
           e == Listed(sh, i)
<1>1. /\ n \in Nat \ {0} /\ DOMAIN list = 1 .. n
      /\ \A k \in 1 .. n : list[k] \in Allowed(sh) /\ list[k] \in 0 .. Table - 1
      /\ \A k, j \in 1 .. n : k < j => list[k] > list[j]
      /\ \A m \in Allowed(sh) : \E k \in 1 .. n : list[k] = m
  BY PopulationList
<1>2. LogTable \in Nat /\ sh \in Int /\ Table \in Nat /\ 1 < Table
  BY SizesAssumption, Sizes, AllowedType
<1>3. Log2Of \in [1 .. Table -> Nat]
  BY Log2OfAssumption
<1>e. e = IF i > n THEN [count |-> 0, step |-> 0, delta |-> 0]
          ELSE IF list[i] = 0 THEN [count |-> 0, step |-> 0, delta |-> Log2Of[Table]]
          ELSE IF i = 1 THEN [count |-> list[1], step |-> 0, delta |-> 0]
          ELSE [count |-> list[i], step |-> FloorLog2(list[i - 1] - list[i]),
                delta |-> Log2Of[list[i - 1]] - Log2Of[list[i]]]
  BY DEF Listed
<1>p. \A k \in 1 .. n : Listed(sh, k).count = list[k]
  BY <1>1 DEF Listed
<1> HIDE DEF list, n, e
<1>4. list[1] # 0 /\ list[1] \in 1 .. Table - 1
  <2>1. 0 \in Allowed(sh) /\ (0 + 1 < Table => 0 + 1 \in Allowed(sh))
    BY <1>2, AllowedType, NextAllowed
  <2>2. 1 \in Allowed(sh)
    BY <1>2, <2>1
  <2>3. PICK k \in 1 .. n : list[k] = 1
    BY <1>1, <2>2
  <2>4. 1 \in 1 .. n /\ list[1] \in 0 .. Table - 1
    BY <1>1
  <2>5. list[1] >= 1
    BY <1>1, <2>3, <2>4
  <2>6. QED
    BY <1>2, <2>4, <2>5
<1>5. ASSUME i \in 2 .. n
      PROVE  LET s == IF list[i] = 0 THEN 1 ELSE StepOf(FloorLog2(list[i]), sh)
             IN list[i - 1] = list[i] + s
  <2> DEFINE b == list[i]
             a == list[i - 1]
             s == IF b = 0 THEN 1 ELSE StepOf(FloorLog2(b), sh)
  <2>1. i \in 1 .. n /\ i - 1 \in 1 .. n /\ i - 1 < i
    BY <1>1, <1>5
  <2>2. b \in Allowed(sh) /\ a \in Allowed(sh) /\ b \in 0 .. Table - 1 /\ a \in 0 .. Table - 1
        /\ a > b
    BY <1>1, <2>1
  <2>3. /\ s \in Nat \ {0}
        /\ \A m \in Allowed(sh) : b < m => b + s <= m
        /\ b + s < Table => b + s \in Allowed(sh)
    BY <1>2, <2>2, NextAllowed
  <2> HIDE DEF s
  <2>4. b + s <= a
    BY <2>2, <2>3
  <2>5. b + s \in Allowed(sh)
    BY <1>2, <2>2, <2>3, <2>4
  <2>6. PICK k \in 1 .. n : list[k] = b + s
    BY <1>1, <2>5
  <2>7. k < i
    <3> SUFFICES ASSUME i <= k PROVE FALSE
      BY <1>1
    <3>1. list[k] <= b
      <4>1. CASE k = i
        BY <2>2, <4>1
      <4>2. CASE k # i
        BY <1>1, <2>1, <2>2, <4>2
      <4>3. QED
        BY <4>1, <4>2
    <3>2. QED
      BY <2>2, <2>3, <2>6, <3>1
  <2>8. ~(k < i - 1)
    <3> SUFFICES ASSUME k < i - 1 PROVE FALSE
      OBVIOUS
    <3>1. list[k] > a
      BY <1>1, <2>1
    <3>2. QED
      BY <2>2, <2>3, <2>4, <2>6, <3>1
  <2>9. k = i - 1
    BY <1>1, <2>1, <2>7, <2>8
  <2>10. QED
    BY <2>6, <2>9 DEF s
<1>6. CASE i > n
  <2>1. e = [count |-> 0, step |-> 0, delta |-> 0]
    BY <1>e, <1>6
  <2>2. ~(i <= n) /\ i \notin 2 .. n /\ i # 1
    BY <1>1, <1>6
  <2>3. QED
    BY <1>1, <1>2, <2>1, <2>2 DEF n, e, list
<1>7. CASE i <= n /\ list[i] = 0
  <2>1. e = [count |-> 0, step |-> 0, delta |-> Log2Of[Table]]
    BY <1>1, <1>e, <1>7
  <2>2. i # 1 /\ i \in 2 .. n /\ i \in 1 .. n /\ i - 1 \in 1 .. n /\ ~(i > n)
    BY <1>1, <1>4, <1>7
  <2>3. list[i - 1] = 0 + 1
    BY <1>5, <1>7, <2>2
  <2>4. Listed(sh, i - 1).count = list[i - 1]
    BY <1>p, <2>2
  <2>5. e.count = 0 /\ e.step = 0 /\ e.delta = Log2Of[Table]
    BY <2>1
  <2>6. Log2Of[Table] \in Int /\ Pow2[0] = 1
    BY <1>2, <1>3, Pow2Equation
  <2>7. Listed(sh, i - 1).count = e.count + Pow2[e.step]
    BY <2>3, <2>4, <2>5, <2>6
  <2>8. e.count \in 0 .. Table - 1 /\ e.step \in Nat /\ e.delta \in Int
    BY <1>2, <2>5, <2>6
  <2>9. QED
    BY <1>1, <1>7, <2>2, <2>5, <2>7, <2>8 DEF n, e, list
<1>8. CASE i <= n /\ list[i] # 0 /\ i = 1
  <2>1. e = [count |-> list[1], step |-> 0, delta |-> 0]
    BY <1>1, <1>e, <1>8
  <2>2. e.count = list[i] /\ e.step = 0 /\ e.delta = 0
    BY <1>8, <2>1
  <2>3. e.count \in 0 .. Table - 1 /\ e.step \in Nat /\ e.delta \in Int
    BY <1>1, <1>8, <2>2
  <2>4. i \notin 2 .. n /\ ~(i > n)
    BY <1>1, <1>8
  <2>5. QED
    BY <1>1, <1>8, <2>2, <2>3, <2>4 DEF n, e, list
<1>9. CASE i <= n /\ list[i] # 0 /\ i # 1
  <2> DEFINE b == list[i]
             a == list[i - 1]
             d == StepLog(FloorLog2(b), sh)
             s == StepOf(FloorLog2(b), sh)
  <2>1. e = [count |-> b, step |-> FloorLog2(a - b), delta |-> Log2Of[a] - Log2Of[b]]
    BY <1>1, <1>e, <1>9
  <2>2. i \in 2 .. n /\ i \in 1 .. n /\ i - 1 \in 1 .. n /\ ~(i > n) /\ i - 1 < i
    BY <1>1, <1>9
  <2>3. b \in Allowed(sh) /\ b # 0 /\ b \in 0 .. Table - 1 /\ a \in 0 .. Table - 1 /\ a > b
    BY <1>1, <1>9, <2>2
  <2>4. a = b + s
    BY <1>5, <1>9, <2>2
  <2>5. FloorLog2(b) \in 0 .. LogTable
    BY <1>2, <2>3, AllowedIs
  <2>6. d \in 0 .. FloorLog2(b) /\ s \in Nat \ {0} /\ s = Pow2[d]
    BY <1>2, <2>5, StepIs DEF StepOf
  <2>7. Listed(sh, i - 1).count = a
    BY <1>p, <2>2
  <2> HIDE DEF a, b, d, s
  <2>8. d \in Nat /\ a - b = s /\ s \in 1 .. Table
    BY <1>2, <2>3, <2>4, <2>5, <2>6
  <2>9. FloorLog2(a - b) = d
    <3>1. Pow2[d] <= s /\ s < Pow2[d + 1]
      BY <2>6, <2>8, Pow2Equation
    <3>2. FloorLog2(s) = d
      BY <2>8, <3>1, FloorLog2Is
    <3>3. QED
      BY <2>8, <3>2
  <2>10. Log2Of[a] \in Int /\ Log2Of[b] \in Int
    <3>1. a \in 1 .. Table /\ b \in 1 .. Table
      BY <1>2, <2>3
    <3>2. QED
      BY <1>3, <3>1
  <2>11. e.count = b /\ e.step = d /\ e.delta = Log2Of[a] - Log2Of[b]
    BY <2>1, <2>9
  <2>12. e.count \in 0 .. Table - 1 /\ e.step \in Nat /\ e.delta \in Int
    BY <2>3, <2>8, <2>10, <2>11
  <2>13. Listed(sh, i - 1).count = e.count + Pow2[e.step]
    BY <2>4, <2>6, <2>7, <2>11
  <2>14. e.count = list[i]
    BY <2>11 DEF b
  <2>15. QED
    BY <1>1, <1>9, <2>2, <2>12, <2>13, <2>14 DEF n, e, list
<1>10. QED
  BY <1>1, <1>6, <1>7, <1>8, <1>9

(* What the code reads at an index is a number each, and within the array   *)
(* what the list says.                                                      *)
LEMMA EntryIs ==
  ASSUME NEW sh \in 0 .. LogTable - 1, NEW i \in Nat \ {0}
  PROVE  LET e == Entry(sh, i)
         IN /\ e.count \in Int /\ e.step \in Nat /\ e.delta \in Int
            /\ i = 1 => e.step = 0 /\ e.delta = 0
            /\ i <= Table => e = Listed(sh, i)
<1> DEFINE row == sh + (i - 1) \div Table
           column == ((i - 1) % Table) + 1
           e == Entry(sh, i)
<1>1. Table \in Nat \ {0} /\ LogTable \in Nat /\ sh \in Nat
  BY Sizes, SizesAssumption
<1>2. e = IF row < LogTable THEN Listed(row, column) ELSE Behind[column]
  BY DEF Entry
<1>3. /\ (i - 1) \div Table \in Nat /\ (i - 1) % Table \in 0 .. Table - 1
      /\ i <= Table => (i - 1) \div Table = 0 /\ (i - 1) % Table = i - 1
  <2> DEFINE k == i - 1
             T == Table
  <2>1. k \in Nat /\ T \in Nat \ {0} /\ (i <= Table <=> k < T)
    BY <1>1
  <2> HIDE DEF k, T
  <2>2. k \div T \in Nat /\ k % T \in 0 .. T - 1
    BY <2>1, DivMod
  <2>3. k < T => k \div T = 0 /\ k % T = k
    BY <2>1
  <2>4. QED
    BY <2>1, <2>2, <2>3 DEF k, T
<1>4. /\ row \in Nat /\ sh <= row /\ column \in 1 .. Table
      /\ i <= Table => row = sh /\ column = i
  BY <1>1, <1>3
<1> HIDE DEF row, column, e
<1>5. e.count \in Int /\ e.step \in Nat /\ e.delta \in Int
  <2>1. CASE row < LogTable
    <3>1. row \in 0 .. LogTable - 1 /\ column \in Nat \ {0} /\ Table \in Nat
      BY <1>1, <1>4, <2>1
    <3>2. /\ Listed(row, column).count \in 0 .. Table - 1
          /\ Listed(row, column).step \in Nat /\ Listed(row, column).delta \in Int
      BY <3>1, ListedIs
    <3>3. QED
      BY <1>2, <2>1, <3>1, <3>2
  <2>2. CASE ~(row < LogTable)
    BY <1>2, <1>4, <2>2, BehindAssumption
  <2>3. QED
    BY <2>1, <2>2
<1>6. i <= Table => e = Listed(sh, i)
  BY <1>1, <1>2, <1>4
<1>7. i = 1 => e.step = 0 /\ e.delta = 0
  <2>1. i = 1 => i <= Table
    BY <1>1
  <2>2. i = 1 => Listed(sh, i).step = 0 /\ Listed(sh, i).delta = 0
    BY ListedIs
  <2>3. QED
    BY <1>6, <2>1, <2>2
<1>8. QED
  BY <1>5, <1>6, <1>7 DEF e

-------------------------------------------------------------------------------
(* Sums that have few terms: one symbol that counts, or two.                *)
LEMMA SumOfOne ==
  ASSUME NEW S, IsFiniteSet(S), NEW f, \A x \in S : f[x] \in Nat,
         NEW a \in S, \A x \in S \ {a} : f[x] = 0
  PROVE  SumOver(f, S) = f[a]
<1>1. /\ IsFiniteSet(S \ {a}) /\ SumOver(f, S \ {a}) \in Nat
      /\ SumOver(f, S) = f[a] + SumOver(f, S \ {a})
  BY SumRemove
<1> DEFINE R == S \ {a}
<1>2. \A x \in R : f[x] = 0
  OBVIOUS
<1> HIDE DEF R
<1>3. 0 \in Nat /\ IsFiniteSet(R)
  BY <1>1 DEF R
<1>4. Cardinality(R) \in Nat /\ SumOver(f, R) = 0 * Cardinality(R)
  BY <1>2, <1>3, SumConstant
<1>5. SumOver(f, R) = 0
  BY <1>4
<1>6. f[a] \in Nat
  OBVIOUS
<1>7. QED
  BY <1>1, <1>5, <1>6 DEF R

(* The same of two terms.                                                   *)
LEMMA SumOfTwo ==
  ASSUME NEW S, IsFiniteSet(S), NEW f, \A x \in S : f[x] \in Nat,
         NEW a \in S, NEW b \in S, a # b, \A x \in S \ {a, b} : f[x] = 0
  PROVE  SumOver(f, S) = f[a] + f[b]
<1> DEFINE R == S \ {a}
<1>1. IsFiniteSet(R) /\ SumOver(f, S) = f[a] + SumOver(f, R)
  BY SumRemove
<1>2. b \in R /\ (\A x \in R : f[x] \in Nat) /\ \A x \in R \ {b} : f[x] = 0
  OBVIOUS
<1> HIDE DEF R
<1>3. SumOver(f, R) = f[b]
  BY <1>1, <1>2, SumOfOne
<1>4. QED
  BY <1>1, <1>3

-------------------------------------------------------------------------------
(* What a cluster's counts are: as many symbols as the last that occurs     *)
(* needs, each with a known number of extra bits.                           *)
Counted(r) ==
  \E n \in 0 .. Table :
    /\ r \in [0 .. n - 1 -> Nat]
    /\ n # 0 => r[n - 1] # 0
    /\ \A s \in 0 .. n - 1 : ExtraWidth[s] \in Nat

(* What the coder needs of a histogram for them: it leaves out no symbol    *)
(* that occurs, and fills the table.                                        *)
Keeps(f, r) == f \in [DOMAIN r -> Nat] /\ \A s \in Populated(r) : f[s] # 0
Fit(f, r) == Keeps(f, r) /\ (DOMAIN r # {} => SumOver(f, DOMAIN r) = Table)

(* What a histogram that was counted is: symbols from 0 on, the last of     *)
(* which occurs.                                                            *)
LEMMA CountedType ==
  ASSUME NEW r, Counted(r)
  PROVE  LET D == DOMAIN r
             n == Cardinality(D)
         IN /\ IsFiniteSet(D) /\ D \in SUBSET Nat /\ n \in 0 .. Table /\ D = 0 .. n - 1
            /\ r \in [D -> Nat] /\ \A s \in D : r[s] \in Nat
            /\ Total(r) = SumOver(r, D) /\ SumOver(r, D) \in Nat
            /\ D # {} => /\ Populated(r) # {} /\ SumOver(r, D) # 0 /\ n # 0
            /\ \A s \in D : r[s] <= SumOver(r, D)
            /\ \A s \in D : ExtraWidth[s] \in Nat
<1>1. PICK n \in 0 .. Table :
         /\ r \in [0 .. n - 1 -> Nat]
         /\ n # 0 => r[n - 1] # 0
         /\ \A s \in 0 .. n - 1 : ExtraWidth[s] \in Nat
  BY DEF Counted
<1> DEFINE D == DOMAIN r
<1>2. D = 0 .. n - 1 /\ n \in Nat /\ r \in [D -> Nat]
  BY <1>1, Sizes
<1>3. IsFiniteSet(D) /\ Cardinality(D) = n
  <2>1. 0 \in Int /\ n - 1 \in Int /\ (IF 0 > n - 1 THEN 0 ELSE (n - 1) - 0 + 1) = n
    BY <1>2
  <2>2. /\ IsFiniteSet(0 .. n - 1)
        /\ Cardinality(0 .. n - 1) = IF 0 > n - 1 THEN 0 ELSE (n - 1) - 0 + 1
    BY <2>1, FS_Interval
  <2>3. QED
    BY <1>2, <2>1, <2>2
<1>4. \A s \in D : r[s] \in Nat /\ ExtraWidth[s] \in Nat
  BY <1>1, <1>2
<1>5. Total(r) = SumOver(r, D)
  BY DEF Total, SumFunction, SumOver
<1> HIDE DEF D
<1>6. SumOver(r, D) \in Nat
  BY <1>3, <1>4, SumType
<1>7. \A s \in D : r[s] <= SumOver(r, D)
  <2> TAKE s \in D
  <2>1. SumOver(r, D \ {s}) \in Nat /\ SumOver(r, D) = r[s] + SumOver(r, D \ {s})
    BY <1>3, <1>4, SumRemove
  <2>2. QED
    BY <1>4, <2>1
<1>8. ASSUME D # {} PROVE Populated(r) # {} /\ SumOver(r, D) # 0 /\ n # 0
  <2>1. n # 0 /\ n - 1 \in D
    BY <1>2, <1>8
  <2>2. r[n - 1] # 0 /\ r[n - 1] <= SumOver(r, D) /\ r[n - 1] \in Nat
    BY <1>1, <1>4, <1>7, <2>1
  <2>3. n - 1 \in Populated(r)
    BY <2>1, <2>2 DEF Populated, D
  <2>4. QED
    BY <1>6, <2>1, <2>2, <2>3
<1>9. QED
  BY <1>2, <1>3, <1>4, <1>5, <1>6, <1>7, <1>8 DEF D

(* Trailing symbols that do not occur are left out.                         *)
LEMMA TrimmedCounted ==
  ASSUME NEW h \in Histograms
  PROVE  Counted(Trimmed(h))
<1> DEFINE c == Cardinality(DOMAIN h)
           P == Populated(h)
           m == Max(P)
           n == IF P = {} THEN 0 ELSE m + 1
<1>1. /\ IsFiniteSet(DOMAIN h) /\ c <= Table /\ h \in [0 .. (c - 1) -> Nat]
      /\ \A s \in DOMAIN h : ExtraWidth[s] \in Nat
  BY HistogramsAssumption
<1>2. c \in Nat /\ Table \in Nat
  BY <1>1, FS_CardinalityType, Sizes
<1> HIDE DEF c
<1>3. DOMAIN h = 0 .. c - 1
  BY <1>1
<1>4. P \in SUBSET Int /\ IsFiniteSet(P) /\ \A s \in P : s \in DOMAIN h /\ h[s] # 0
  <2>1. P \subseteq DOMAIN h
    BY DEF Populated
  <2>2. IsFiniteSet(P)
    BY <1>1, <2>1, FS_Subset
  <2>3. QED
    BY <1>3, <2>1, <2>2 DEF Populated
<1>5. Trimmed(h) = [s \in 0 .. n - 1 |-> h[s]]
  <2>1. (IF P = {} THEN -1 ELSE m) = n - 1
    <3>1. CASE P = {}
      BY <3>1
    <3>2. CASE P # {}
      <4>1. m \in Int
        BY <1>4, <3>2, MaxIs
      <4> HIDE DEF m, P
      <4>2. QED
        BY <3>2, <4>1
    <3>3. QED
      BY <3>1, <3>2
  <2> HIDE DEF n
  <2>2. QED
    BY <2>1 DEF Trimmed
<1>6. n \in 0 .. c /\ (n # 0 => h[n - 1] # 0)
  <2>1. CASE P = {}
    BY <1>2, <2>1
  <2>2. CASE P # {}
    <3>1. m \in P
      BY <1>4, <2>2, MaxIs
    <3> HIDE DEF m, P
    <3>2. m \in 0 .. c - 1 /\ h[m] # 0
      BY <1>3, <1>4, <3>1
    <3>3. n = m + 1 /\ n - 1 = m
      BY <1>2, <2>2, <3>2
    <3>4. QED
      BY <1>2, <3>2, <3>3
  <2>3. QED
    BY <2>1, <2>2
<1> HIDE DEF n
<1>7. n \in 0 .. Table /\ 0 .. n - 1 \subseteq 0 .. c - 1
  BY <1>1, <1>2, <1>6
<1>8. Trimmed(h) \in [0 .. n - 1 -> Nat] /\ (n # 0 => Trimmed(h)[n - 1] # 0)
  BY <1>1, <1>5, <1>6, <1>7
<1>9. \A s \in 0 .. n - 1 : ExtraWidth[s] \in Nat
  BY <1>1, <1>3, <1>7
<1>10. QED
  BY <1>7, <1>8, <1>9 DEF Counted

-------------------------------------------------------------------------------
(* ComputeBestHistogram's first candidate: equal shares, and one more for as *)
(* many symbols as the division leaves.                                     *)
LEMMA FlatFits ==
  ASSUME NEW r, Counted(r), DOMAIN r # {}
  PROVE  LET n == Cardinality(DOMAIN r)
         IN Fit([s \in DOMAIN r |-> Table \div n + IF s < Table % n THEN 1 ELSE 0], r)
<1> DEFINE D == DOMAIN r
           n == Cardinality(D)
           q == Table \div n
           p == Table % n
           f == [s \in D |-> q + IF s < p THEN 1 ELSE 0]
<1>1. IsFiniteSet(D) /\ n \in 0 .. Table /\ D = 0 .. n - 1 /\ n # 0
  BY CountedType
<1>2. Table \in Nat \ {0} /\ n \in Nat \ {0} /\ n <= Table
  BY <1>1, Sizes
<1> HIDE DEF D, n
<1>3. q \in Nat /\ p \in Nat /\ p < n /\ Table = n * q + p
  BY <1>2, DivMod
<1> HIDE DEF q, p
<1>4. q # 0
  BY <1>2, <1>3
<1>5. f \in [D -> Nat] /\ \A s \in D : f[s] # 0 /\ f[s] \in Nat /\ f[s] = q + IF s < p THEN 1 ELSE 0
  BY <1>1, <1>3, <1>4
<1> HIDE DEF f
<1> DEFINE upto(m) == q * m + (IF m < p THEN m ELSE p)
           P == {m \in Nat : m <= n => SumOver(f, 0 .. m - 1) = upto(m)}
<1>6. 0 \in P
  <2>1. 0 .. 0 - 1 = {}
    OBVIOUS
  <2>2. SumOver(f, 0 .. 0 - 1) = 0
    BY <2>1, SumEmpty
  <2>3. upto(0) = 0
    BY <1>3
  <2>4. QED
    BY <2>2, <2>3
<1>7. ASSUME NEW m \in Nat, m \in P PROVE m + 1 \in P
  <2> SUFFICES ASSUME m + 1 <= n PROVE SumOver(f, 0 .. (m + 1) - 1) = upto(m + 1)
    OBVIOUS
  <2> DEFINE A == 0 .. m - 1
  <2>1. SumOver(f, A) = upto(m)
    BY <1>2, <1>7
  <2>2. 0 \in Int /\ m - 1 \in Int
    OBVIOUS
  <2>3. IsFiniteSet(A)
    BY <2>2, FS_Interval
  <2>4. m \in D /\ m \notin A /\ 0 .. (m + 1) - 1 = A \cup {m} /\ \A x \in A : x \in D
    BY <1>1, <1>2
  <2>5. (\A x \in A : f[x] \in Nat) /\ f[m] \in Nat /\ f[m] = q + IF m < p THEN 1 ELSE 0
    BY <1>5, <2>4
  <2> HIDE DEF A
  <2>6. SumOver(f, A \cup {m}) = SumOver(f, A) + f[m]
    BY <2>3, <2>4, <2>5, SumAdd
  <2>7. upto(m) + f[m] = upto(m + 1)
    <3>1. q * (m + 1) = q * m + q /\ q * m \in Nat
      BY <1>3
    <3>2. QED
      BY <1>3, <2>5, <3>1
  <2> HIDE DEF upto
  <2>8. QED
    BY <2>1, <2>4, <2>6, <2>7
<1> HIDE DEF P
<1>8. n \in P
  BY <1>2, <1>6, <1>7, Induction
<1>9. SumOver(f, D) = upto(n)
  BY <1>1, <1>2, <1>8 DEF P
<1>10. upto(n) = Table
  <2>1. n * q = q * n /\ ~(n < p)
    BY <1>2, <1>3
  <2>2. QED
    BY <1>3, <2>1
<1>11. \A s \in Populated(r) : s \in D
  BY DEF Populated, D
<1>12. Fit(f, r)
  BY <1>5, <1>9, <1>10, <1>11 DEF Fit, Keeps, D
<1>13. QED
  BY <1>12 DEF f, q, p, n, D

(* NormalizeHistogram of two symbols: their shares, one at the least, miss  *)
(* the table by one or not at all.                                          *)
LEMMA TwoShares ==
  ASSUME NEW T \in Nat, 1 < T, NEW ca \in Nat \ {0}, NEW cb \in Nat \ {0},
         NEW total \in Nat, total = ca + cb
  PROVE  LET a == AtLeastOne((ca * T) \div total)
             b == AtLeastOne((cb * T) \div total)
         IN a \in Nat \ {0} /\ b \in Nat \ {0} /\ (a + b = T \/ a + b = T - 1)
<1> DEFINE qa == (ca * T) \div total
           ra == (ca * T) % total
           qb == (cb * T) \div total
           rb == (cb * T) % total
<1>1. total \in Nat \ {0} /\ ca * T \in Nat /\ cb * T \in Nat
  OBVIOUS
<1>2. qa \in Nat /\ ra \in Nat /\ ra < total /\ ca * T = total * qa + ra
  BY <1>1, DivMod
<1>3. qb \in Nat /\ rb \in Nat /\ rb < total /\ cb * T = total * qb + rb
  BY <1>1, DivMod
<1> HIDE DEF qa, ra, qb, rb
<1>4. total * T = ca * T + cb * T
  OBVIOUS
<1>5. total * (qa + qb) = total * qa + total * qb
  BY <1>2, <1>3
<1>6. total * qa \in Nat /\ total * qb \in Nat /\ total * T \in Nat
  BY <1>2, <1>3
<1>7. qa + qb <= T
  <2> SUFFICES ASSUME T + 1 <= qa + qb PROVE FALSE
    BY <1>2, <1>3
  <2>1. total * (T + 1) <= total * (qa + qb)
    BY <1>2, <1>3, ProductOrder
  <2>2. total * (T + 1) = total * T + total
    OBVIOUS
  <2>3. QED
    BY <1>1, <1>2, <1>3, <1>4, <1>5, <1>6, <2>1, <2>2
<1>8. T <= qa + qb + 1
  <2> SUFFICES ASSUME qa + qb + 2 <= T PROVE FALSE
    BY <1>2, <1>3
  <2>1. total * (qa + qb + 2) <= total * T
    BY <1>2, <1>3, ProductOrder
  <2>2. total * (qa + qb + 2) = total * (qa + qb) + 2 * total
    BY <1>2, <1>3
  <2>3. QED
    BY <1>1, <1>2, <1>3, <1>4, <1>5, <1>6, <2>1, <2>2
<1>9. qa < T /\ qb < T
  <2>1. ASSUME NEW q \in Nat, NEW c \in Nat, total * q <= c * T, c + 1 <= total PROVE q < T
    <3> SUFFICES ASSUME T <= q PROVE FALSE
      BY <2>1
    <3>1. total * T <= total * q
      BY ProductOrder
    <3>2. (c + 1) * T <= total * T
      BY <2>1, ProductOrder
    <3>3. (c + 1) * T = c * T + T
      OBVIOUS
    <3>4. c * T \in Nat /\ total * q \in Nat /\ total * T \in Nat
      OBVIOUS
    <3>5. QED
      BY <2>1, <3>1, <3>2, <3>3, <3>4
  <2>2. total * qa <= ca * T /\ ca + 1 <= total /\ total * qb <= cb * T /\ cb + 1 <= total
    BY <1>2, <1>3, <1>6
  <2>3. QED
    BY <1>2, <1>3, <2>1, <2>2
<1>10. \A q \in Nat : AtLeastOne(q) = IF q >= 1 THEN q ELSE 1
  <2> TAKE q \in Nat
  <2>1. q \in Int /\ 1 \in Int
    OBVIOUS
  <2>2. QED
    BY <2>1, MaxOfTwo DEF AtLeastOne
<1> DEFINE a == AtLeastOne(qa)
           b == AtLeastOne(qb)
<1>11. a = (IF qa >= 1 THEN qa ELSE 1) /\ b = (IF qb >= 1 THEN qb ELSE 1)
  BY <1>2, <1>3, <1>10
<1> HIDE DEF a, b
<1>12. a \in Nat \ {0} /\ b \in Nat \ {0} /\ (a + b = T \/ a + b = T - 1)
  BY <1>2, <1>3, <1>7, <1>8, <1>9, <1>11
<1>13. QED
  BY <1>12 DEF a, b, qa, qb

(* It fills the table, and its correction downwards is never needed.        *)
THEOREM NormalizeFits ==
  ASSUME NEW r, Counted(r), Cardinality(Populated(r)) <= 2
  PROVE  Fit(Normalize(r), r)
<1> DEFINE D == DOMAIN r
           seen == Populated(r)
           total == Total(r)
           remainder(s) == (r[s] * Table) % total
           scaled == [s \in D |-> IF s \in seen THEN AtLeastOne((r[s] * Table) \div total) ELSE 0]
           missing == Table - Total(scaled)
           ahead(s) == {t \in seen \ {s} :
                          \/ remainder(t) > remainder(s)
                          \/ (remainder(t) = remainder(s) /\ t < s)}
           alone == [s \in D |-> IF s \in seen THEN Table ELSE 0]
           filled == [s \in D |-> scaled[s] + IF s \in seen /\ Cardinality(ahead(s)) < missing
                                              THEN 1 ELSE 0]
<1>1. Normalize(r) = IF Cardinality(seen) = 1 THEN alone
                     ELSE IF missing >= 0 THEN filled ELSE Reduce(scaled, -missing)
  BY DEF Normalize
<1>2. /\ IsFiniteSet(D) /\ D \in SUBSET Nat /\ \A s \in D : r[s] \in Nat
      /\ total = SumOver(r, D) /\ total \in Nat
      /\ D # {} => seen # {} /\ total # 0
  BY CountedType
<1>3. seen \in SUBSET D /\ \A s \in D : s \in seen <=> r[s] # 0
  BY DEF Populated
<1>4. IsFiniteSet(seen) /\ Cardinality(seen) \in Nat /\ Cardinality(seen) <= 2
  BY <1>2, <1>3, FS_Subset, FS_CardinalityType
<1>5. Table \in Nat /\ Table # 0 /\ 1 < Table
  <2>1. 0 \in Int
    OBVIOUS
  <2>2. QED
    BY <2>1, Sizes, AllowedType
<1>t. \A f : DOMAIN f = D => Total(f) = SumOver(f, D)
  BY DEF Total, SumFunction, SumOver
<1> HIDE DEF seen, total, D
<1>6. CASE D = {}
  <2>1. seen = {}
    BY <1>3, <1>6
  <2>2. Cardinality(seen) = 0
    BY <2>1, FS_EmptySet
  <2>3. Total(scaled) = SumOver(scaled, {})
    BY <1>6, <1>t
  <2>4. Total(scaled) = 0
    BY <2>3, SumEmpty
  <2> HIDE DEF scaled
  <2>5. missing >= 0
    BY <1>5, <2>4
  <2> HIDE DEF missing
  <2>6. Normalize(r) = filled
    BY <1>1, <2>2, <2>5
  <2>7. filled \in [D -> Nat]
    BY <1>6
  <2> HIDE DEF filled
  <2>8. QED
    BY <1>6, <2>1, <2>6, <2>7 DEF Fit, Keeps, D, seen
<1>7. CASE D # {}
  <2>0. seen # {}
    BY <1>2, <1>7
  <2>1. PICK a \in seen : TRUE
    BY <2>0
  <2>2. /\ IsFiniteSet(seen \ {a})
        /\ Cardinality(seen \ {a}) = Cardinality(seen) - 1
    BY <1>4, <2>1, FS_RemoveElement
  <2>3. CASE seen \ {a} = {}
    <3>1. Cardinality(seen) = 1
      BY <1>4, <2>2, <2>3, FS_EmptySet
    <3>2. Normalize(r) = alone
      BY <1>1, <3>1
    <3>3. /\ alone \in [D -> Nat] /\ (\A s \in D : alone[s] \in Nat)
          /\ alone[a] = Table /\ (\A s \in D \ {a} : alone[s] = 0)
          /\ \A s \in seen : alone[s] = Table
      BY <1>3, <1>5, <2>1, <2>3
    <3> HIDE DEF alone
    <3>4. a \in D
      BY <1>3, <2>1
    <3>5. SumOver(alone, D) = Table
      BY <1>2, <3>3, <3>4, SumOfOne
    <3>6. QED
      BY <1>5, <3>2, <3>3, <3>5 DEF Fit, Keeps, D, seen
  <2>4. CASE seen \ {a} # {}
    <3>1. PICK b \in seen \ {a} : TRUE
      BY <2>4
    <3>2. /\ Cardinality((seen \ {a}) \ {b}) = Cardinality(seen \ {a}) - 1
          /\ IsFiniteSet((seen \ {a}) \ {b})
      BY <2>2, <3>1, FS_RemoveElement
    <3>3. Cardinality(seen) = 2 /\ (seen \ {a}) \ {b} = {}
      <4>1. Cardinality((seen \ {a}) \ {b}) \in Nat
        BY <3>2, FS_CardinalityType
      <4>2. Cardinality((seen \ {a}) \ {b}) = 0 /\ Cardinality(seen) = 2
        BY <1>4, <2>2, <3>2, <4>1
      <4>3. QED
        BY <3>2, <4>2, FS_EmptySet
    <3>4. seen = {a, b} /\ a # b /\ a \in D /\ b \in D
      BY <1>3, <2>1, <3>1, <3>3
    <3> DEFINE ca == r[a]
               cb == r[b]
               ra == remainder(a)
               rb == remainder(b)
    <3>5. ca \in Nat \ {0} /\ cb \in Nat \ {0} /\ a \in Nat /\ b \in Nat
      BY <1>2, <1>3, <3>4
    <3>6. total = ca + cb
      <4>1. \A x \in D \ {a, b} : r[x] = 0
        BY <1>3, <3>4
      <4>2. (\A x \in D : r[x] \in Nat) /\ IsFiniteSet(D) /\ a \in D /\ b \in D /\ a # b
        BY <1>2, <3>4
      <4>3. SumOver(r, D) = r[a] + r[b]
        BY <4>1, <4>2, SumOfTwo
      <4>4. QED
        BY <1>2, <4>3
    <3> DEFINE x == AtLeastOne((ca * Table) \div total)
               y == AtLeastOne((cb * Table) \div total)
    <3>7. x \in Nat \ {0} /\ y \in Nat \ {0} /\ (x + y = Table \/ x + y = Table - 1)
      <4> HIDE DEF ca, cb
      <4>1. QED
        BY <1>2, <1>5, <3>5, <3>6, TwoShares
    <3>8. /\ scaled \in [D -> Nat] /\ \A s \in D : scaled[s] \in Nat
          /\ scaled[a] = x /\ scaled[b] = y /\ \A s \in D \ {a, b} : scaled[s] = 0
      <4> HIDE DEF x, y
      <4>1. \A s \in D : scaled[s] = IF s = a THEN x ELSE IF s = b THEN y ELSE 0
        BY <3>4 DEF x, y
      <4>2. \A s \in D : scaled[s] \in Nat
        BY <3>7, <4>1
      <4>3. scaled = [s \in D |-> scaled[s]]
        OBVIOUS
      <4> HIDE DEF scaled
      <4>4. scaled \in [D -> Nat]
        BY <4>2, <4>3
      <4>5. QED
        BY <3>4, <4>1, <4>2, <4>4
    <3>9. Total(scaled) = x + y
      <4>1. DOMAIN scaled = D
        OBVIOUS
      <4> HIDE DEF scaled, x, y
      <4>0. /\ \A s \in D : scaled[s] \in Nat
            /\ \A s \in D \ {a, b} : scaled[s] = 0
            /\ IsFiniteSet(D) /\ a \in D /\ b \in D /\ a # b
        BY <1>2, <3>4, <3>8
      <4>5. SumOver(scaled, D) = scaled[a] + scaled[b]
        BY <4>0, SumOfTwo
      <4>2. SumOver(scaled, D) = x + y
        BY <3>8, <4>5
      <4>3. QED
        BY <1>t, <4>1, <4>2
    <3>10. ra \in Nat /\ rb \in Nat
      <4>1. total \in Nat \ {0} /\ ca * Table \in Nat /\ cb * Table \in Nat
        BY <1>5, <3>5, <3>6
      <4>2. QED
        BY <4>1, DivMod
    <3>11. /\ ahead(a) = IF rb > ra \/ (rb = ra /\ b < a) THEN {b} ELSE {}
           /\ ahead(b) = IF ra > rb \/ (ra = rb /\ a < b) THEN {a} ELSE {}
      <4> HIDE DEF remainder
      <4>1. seen \ {a} = {b} /\ seen \ {b} = {a}
        BY <3>4
      <4>2. QED
        BY <4>1
    <3> DEFINE na == Cardinality(ahead(a))
               nb == Cardinality(ahead(b))
    <3>12. (na = 0 /\ nb = 1) \/ (na = 1 /\ nb = 0)
      <4>1. Cardinality({a}) = 1 /\ Cardinality({b}) = 1 /\ Cardinality({}) = 0
        BY FS_Singleton, FS_EmptySet
      <4> DEFINE one == ahead(a)
                 two == ahead(b)
      <4> HIDE DEF one, two, ra, rb
      <4>2. (one = {} /\ two = {a}) \/ (one = {b} /\ two = {})
        BY <3>4, <3>5, <3>10, <3>11 DEF one, two
      <4>3. QED
        BY <4>1, <4>2 DEF one, two
    <3>13. missing = Table - (x + y)
      BY <3>9
    <3>14. \A s \in D : filled[s] = scaled[s] + IF s \in seen /\ Cardinality(ahead(s)) < missing
                                                 THEN 1 ELSE 0
      <4> HIDE DEF scaled, missing, ahead
      <4>1. QED
        OBVIOUS
    <3>15. DOMAIN filled = D /\ filled = [s \in D |-> filled[s]]
      OBVIOUS
    <3>16. missing >= 0 => Normalize(r) = filled
      BY <1>1, <3>3
    <3> HIDE DEF x, y, missing, scaled, ahead, filled, ra, rb, ca, cb
    <3>17. missing = 0 \/ missing = 1
      BY <1>5, <3>7, <3>13
    <3>18. Normalize(r) = filled
      BY <3>16, <3>17
    <3>19. /\ filled[a] = x + IF na < missing THEN 1 ELSE 0
           /\ filled[b] = y + IF nb < missing THEN 1 ELSE 0
           /\ \A s \in D \ {a, b} : filled[s] = 0
      <4>1. filled[a] = x + IF na < missing THEN 1 ELSE 0
        BY <3>4, <3>8, <3>14
      <4>2. filled[b] = y + IF nb < missing THEN 1 ELSE 0
        BY <3>4, <3>8, <3>14
      <4>3. \A s \in D \ {a, b} : filled[s] = 0
        BY <3>4, <3>8, <3>14
      <4>4. QED
        BY <4>1, <4>2, <4>3
    <3> HIDE DEF na, nb
    <3>20. filled[a] + filled[b] = Table /\ filled[a] \in Nat \ {0} /\ filled[b] \in Nat \ {0}
      BY <1>5, <3>7, <3>12, <3>13, <3>17, <3>19
    <3>21. \A s \in D : filled[s] \in Nat
      BY <3>19, <3>20
    <3>22. SumOver(filled, D) = Table
      <4>0. /\ \A s \in D : filled[s] \in Nat
            /\ \A s \in D \ {a, b} : filled[s] = 0
            /\ IsFiniteSet(D) /\ a \in D /\ b \in D /\ a # b
        BY <1>2, <3>4, <3>19, <3>21
      <4>1. SumOver(filled, D) = filled[a] + filled[b]
        BY <4>0, SumOfTwo
      <4>2. QED
        BY <3>20, <4>1
    <3>23. filled \in [D -> Nat] /\ \A s \in seen : filled[s] # 0
      BY <3>4, <3>15, <3>20, <3>21
    <3>24. QED
      BY <3>18, <3>22, <3>23 DEF Fit, Keeps, D, seen
  <2>5. QED
    BY <2>3, <2>4
<1>8. QED
  BY <1>6, <1>7

-------------------------------------------------------------------------------
(* How far an index lies behind the list, where a population is nothing.    *)
Over(sh, i) == IF i > Len(AllowedPopulations[sh]) THEN i - Len(AllowedPopulations[sh]) ELSE 0

(* What a move to the next entry takes from a population is its step; behind *)
(* the list the step is one, and the population goes into debt.             *)
LEMMA ListedStep ==
  ASSUME NEW sh \in 0 .. LogTable - 1, NEW i \in Nat \ {0}
  PROVE  LET d == Pow2[Listed(sh, i + 1).step]
         IN /\ Over(sh, i) \in Nat /\ Over(sh, i + 1) \in Nat /\ d \in Nat
            /\ Listed(sh, i).count \in Nat /\ Listed(sh, i + 1).count \in Nat
            /\ Listed(sh, i).count + Over(sh, i + 1) = Listed(sh, i + 1).count + Over(sh, i) + d
<1> DEFINE n == Len(AllowedPopulations[sh])
           e == Listed(sh, i)
           u == Listed(sh, i + 1)
           d == Pow2[u.step]
           a == e.count
           b == u.count
           x == Over(sh, i)
           y == Over(sh, i + 1)
<1>1. i + 1 \in Nat \ {0} /\ Table \in Nat /\ (i + 1) - 1 = i
  BY Sizes
<1>2. /\ n \in Nat \ {0} /\ a \in 0 .. Table - 1
      /\ (i > n => a = 0)
      /\ (i <= n => a = AllowedPopulations[sh][i])
  BY ListedIs
<1>3. /\ b \in 0 .. Table - 1 /\ u.step \in Nat
      /\ (i + 1 > n => b = 0 /\ u.step = 0)
      /\ (i + 1 \in 2 .. n => Listed(sh, (i + 1) - 1).count = b + d)
  <2>1. \A j \in Nat \ {0} :
          /\ Listed(sh, j).count \in 0 .. Table - 1 /\ Listed(sh, j).step \in Nat
          /\ (j > n => Listed(sh, j).count = 0 /\ Listed(sh, j).step = 0)
          /\ (j \in 2 .. n => Listed(sh, j - 1).count = Listed(sh, j).count + Pow2[Listed(sh, j).step])
    BY ListedIs
  <2>2. QED
    BY <1>1, <2>1
<1>4. i + 1 \in 2 .. n => a = b + d
  BY <1>1, <1>3
<1>5. i = n => a = 0
  <2> SUFFICES ASSUME i = n PROVE a = 0
    OBVIOUS
  <2> DEFINE list == AllowedPopulations[sh]
  <2>1. /\ \A k \in 1 .. n : list[k] \in 0 .. Table - 1
        /\ \A k, j \in 1 .. n : k < j => list[k] > list[j]
        /\ \A m \in Allowed(sh) : \E k \in 1 .. n : list[k] = m
    BY PopulationList
  <2>2. sh \in Int
    BY SizesAssumption
  <2>3. 0 \in Allowed(sh)
    BY <2>2, AllowedType
  <2>4. PICK k \in 1 .. n : list[k] = 0
    BY <2>1, <2>3
  <2> HIDE DEF list
  <2>5. i \in 1 .. n /\ list[i] = a
    BY <1>2 DEF list
  <2>6. k = i
    <3> SUFFICES ASSUME k # i PROVE FALSE
      OBVIOUS
    <3>1. k < i
      BY <1>2
    <3>2. list[k] > list[i] /\ list[i] \in 0 .. Table - 1
      BY <2>1, <2>5, <3>1
    <3>3. QED
      BY <1>1, <2>4, <3>2
  <2>7. QED
    BY <2>4, <2>5, <2>6
<1>6. x = (IF i > n THEN i - n ELSE 0) /\ y = (IF i + 1 > n THEN (i + 1) - n ELSE 0)
  BY DEF Over
<1>7. d \in Nat /\ (u.step = 0 => d = 1)
  BY <1>3, Pow2Equation
<1> HIDE DEF n, e, u, d, a, b, x, y
<1>8. x \in Nat /\ y \in Nat
  BY <1>2, <1>6
<1>9. a + y = b + x + d
  <2>1. CASE i + 1 <= n
    BY <1>1, <1>2, <1>3, <1>4, <1>6, <1>7, <2>1
  <2>2. CASE i = n
    BY <1>1, <1>2, <1>3, <1>5, <1>6, <1>7, <2>2
  <2>3. CASE i > n
    BY <1>1, <1>2, <1>3, <1>6, <1>7, <2>3
  <2>4. QED
    BY <1>2, <2>1, <2>2, <2>3
<1>10. a \in Nat /\ b \in Nat
  BY <1>1, <1>2, <1>3
<1>11. QED
  BY <1>7, <1>8, <1>9, <1>10 DEF d, u, x, y, a, b, e

(* The code reads those steps as long as it stays within the array.         *)
LEMMA EntryStep ==
  ASSUME NEW sh \in 0 .. LogTable - 1, NEW i \in Nat \ {0}, i + 1 <= Table
  PROVE  LET d == Pow2[Entry(sh, i + 1).step]
         IN /\ Over(sh, i) \in Nat /\ Over(sh, i + 1) \in Nat /\ d \in Nat
            /\ Entry(sh, i).count \in Nat /\ Entry(sh, i + 1).count \in Nat
            /\ Entry(sh, i).count + Over(sh, i + 1) = Entry(sh, i + 1).count + Over(sh, i) + d
<1>1. i <= Table /\ i + 1 \in Nat \ {0}
  BY Sizes
<1>2. Entry(sh, i) = Listed(sh, i)
  BY <1>1, EntryIs
<1>3. Entry(sh, i + 1) = Listed(sh, i + 1)
  BY <1>1, EntryIs
<1>4. QED
  BY <1>2, <1>3, ListedStep

-------------------------------------------------------------------------------
(* RebalanceHistogram's accounts: the populations and the debt of the symbols *)
(* behind their list, and what is left for the omitted symbol.              *)
Settled(r, c, b, sh) ==
  [s \in DOMAIN r |-> IF s \in DOMAIN b THEN Entry(sh, b[s]).count ELSE c[s]]
Debts(r, b, sh) == [s \in DOMAIN r |-> IF s \in DOMAIN b THEN Over(sh, b[s]) ELSE 0]

Moving(r, c, b, sh, x, o) ==
  /\ sh \in 0 .. LogTable - 1 /\ o \in DOMAIN r /\ x \in Int
  /\ c \in [DOMAIN r -> Nat]
  /\ DOMAIN b \subseteq DOMAIN r \ {o} /\ b \in [DOMAIN b -> Nat \ {0}]
  /\ \A s \in DOMAIN b : r[s] # 0
Balanced(r, c, b, sh, x, o) ==
  x + SumOver(Settled(r, c, b, sh), DOMAIN r \ {o})
    = Table + SumOver(Debts(r, b, sh), DOMAIN r \ {o})

(* Those accounts are of entries within the array of the precision.         *)
Within(b) == \A s \in DOMAIN b : b[s] <= Table

Searching(r, c, b, sh, x, o) == Moving(r, c, b, sh, x, o) /\ Balanced(r, c, b, sh, x, o)

(* Populations and debts are numbers.                                       *)
LEMMA AccountsType ==
  ASSUME NEW r, NEW sh \in 0 .. LogTable - 1, NEW c \in [DOMAIN r -> Nat],
         NEW b, b \in [DOMAIN b -> Nat \ {0}], Within(b)
  PROVE  \A s \in DOMAIN r : Settled(r, c, b, sh)[s] \in Nat /\ Debts(r, b, sh)[s] \in Nat
<1> SUFFICES ASSUME NEW s \in DOMAIN r
             PROVE  Settled(r, c, b, sh)[s] \in Nat /\ Debts(r, b, sh)[s] \in Nat
  OBVIOUS
<1>1. /\ Settled(r, c, b, sh)[s] = IF s \in DOMAIN b THEN Entry(sh, b[s]).count ELSE c[s]
      /\ Debts(r, b, sh)[s] = IF s \in DOMAIN b THEN Over(sh, b[s]) ELSE 0
  BY DEF Settled, Debts
<1>2. CASE s \in DOMAIN b
  <2>1. b[s] \in Nat \ {0} /\ b[s] <= Table
    BY <1>2 DEF Within
  <2>2. Entry(sh, b[s]) = Listed(sh, b[s])
    BY <2>1, EntryIs
  <2>3. Listed(sh, b[s]).count \in Nat /\ Over(sh, b[s]) \in Nat
    BY <2>1, ListedStep
  <2>4. QED
    BY <1>1, <1>2, <2>2, <2>3
<1>3. CASE s \notin DOMAIN b
  BY <1>1, <1>3
<1>4. QED
  BY <1>2, <1>3

(* Two accounts that change for one symbol only.                            *)
Moves(R, f, g, p, q, s, x, y) ==
  /\ IsFiniteSet(R) /\ s \in R /\ x \in Int /\ y \in Int
  /\ \A t \in R : f[t] \in Nat /\ g[t] \in Nat
  /\ \A t \in R : p[t] \in Nat /\ q[t] \in Nat
  /\ \A t \in R \ {s} : f[t] = g[t]
  /\ \A t \in R \ {s} : p[t] = q[t]
  /\ x + SumOver(f, R) = Table + SumOver(p, R)
  /\ y + g[s] + p[s] = x + f[s] + q[s]

(* A move keeps the accounts when what one population loses the rest gains. *)
LEMMA AccountsMoved ==
  ASSUME NEW R, NEW f, NEW g, NEW p, NEW q, NEW s, NEW x, NEW y, Moves(R, f, g, p, q, s, x, y)
  PROVE  y + SumOver(g, R) = Table + SumOver(q, R)
<1>0. /\ IsFiniteSet(R) /\ s \in R /\ x \in Int /\ y \in Int
      /\ x + SumOver(f, R) = Table + SumOver(p, R)
      /\ y + g[s] + p[s] = x + f[s] + q[s]
  BY DEF Moves
<1>1. /\ SumOver(f, R) \in Nat /\ SumOver(g, R) \in Nat
      /\ SumOver(g, R) + f[s] = SumOver(f, R) + g[s]
  BY SumUpdate DEF Moves
<1>2. /\ SumOver(p, R) \in Nat /\ SumOver(q, R) \in Nat
      /\ SumOver(q, R) + p[s] = SumOver(p, R) + q[s]
  BY SumUpdate DEF Moves
<1>3. f[s] \in Nat /\ g[s] \in Nat /\ p[s] \in Nat /\ q[s] \in Nat /\ Table \in Nat
  BY Sizes DEF Moves
<1> DEFINE sf == SumOver(f, R)
           sg == SumOver(g, R)
           sp == SumOver(p, R)
           sq == SumOver(q, R)
           fs == f[s]
           gs == g[s]
           ps == p[s]
           qs == q[s]
<1>4. /\ x + sf = Table + sp /\ y + gs + ps = x + fs + qs
      /\ sg + fs = sf + gs /\ sq + ps = sp + qs
      /\ sf \in Nat /\ sg \in Nat /\ sp \in Nat /\ sq \in Nat
      /\ fs \in Nat /\ gs \in Nat /\ ps \in Nat /\ qs \in Nat
      /\ x \in Int /\ y \in Int /\ Table \in Nat
  BY <1>0, <1>1, <1>2, <1>3
<1> HIDE DEF sf, sg, sp, sq, fs, gs, ps, qs
<1>5. y + sg = Table + sq
  BY <1>4
<1>6. QED
  BY <1>5 DEF sg, sq

(* A move changes one index.                                                *)
LEMMA MoveTyped ==
  ASSUME NEW r, NEW c, NEW sh, NEW o, NEW b, NEW x, Moving(r, c, b, sh, x, o),
         NEW s \in DOMAIN b, NEW i \in Nat \ {0}, NEW y \in Int
  PROVE  Moving(r, c, [b EXCEPT ![s] = i], sh, y, o)
<1> DEFINE w == [b EXCEPT ![s] = i]
<1>1. b \in [DOMAIN b -> Nat \ {0}]
  BY DEF Moving
<1>2. DOMAIN w = DOMAIN b /\ w \in [DOMAIN w -> Nat \ {0}]
  BY <1>1
<1> HIDE DEF w
<1>3. Moving(r, c, w, sh, y, o)
  BY <1>2 DEF Moving
<1>4. QED
  BY <1>3 DEF w

(* A move along the list keeps them: either way, from entry i to the next.  *)
LEMMA MoveKept ==
  ASSUME NEW r, Counted(r), NEW c, NEW sh, NEW o,
         NEW b, NEW x, Searching(r, c, b, sh, x, o), Within(b),
         NEW s \in DOMAIN b, NEW i \in Nat \ {0}, i + 1 <= Table, NEW d, d = Pow2[Entry(sh, i + 1).step]
  PROVE  /\ b[s] = i => Searching(r, c, [b EXCEPT ![s] = i + 1], sh, x + d, o)
         /\ b[s] = i + 1 => Searching(r, c, [b EXCEPT ![s] = i], sh, x - d, o)
<1> DEFINE D == DOMAIN r
           R == D \ {o}
<1>1. /\ sh \in 0 .. LogTable - 1 /\ o \in D /\ x \in Int
      /\ c \in [D -> Nat]
      /\ DOMAIN b \subseteq R /\ b \in [DOMAIN b -> Nat \ {0}]
      /\ \A t \in DOMAIN b : r[t] # 0
      /\ x + SumOver(Settled(r, c, b, sh), R) = Table + SumOver(Debts(r, b, sh), R)
  BY DEF Searching, Moving, Balanced
<1>2. IsFiniteSet(R) /\ R \subseteq D
  <2>1. IsFiniteSet(D)
    BY CountedType
  <2>2. QED
    BY <2>1, FS_Subset
<1>3. Table \in Nat
  BY Sizes
<1>4. ASSUME NEW j \in Nat \ {0}, NEW k \in Nat \ {0}, k <= Table, b[s] = j, NEW y \in Int,
             LET at(m) == Entry(sh, m).count
             IN y + at(k) + Over(sh, j) = x + at(j) + Over(sh, k)
      PROVE  Searching(r, c, [b EXCEPT ![s] = k], sh, y, o)
  <2> DEFINE w == [b EXCEPT ![s] = k]
             f == Settled(r, c, b, sh)
             g == Settled(r, c, w, sh)
             p == Debts(r, b, sh)
             q == Debts(r, w, sh)
  <2>1. DOMAIN w = DOMAIN b /\ w \in [DOMAIN w -> Nat \ {0}] /\ w[s] = k
        /\ \A t \in DOMAIN b \ {s} : w[t] = b[t]
    BY <1>1
  <2>2. s \in R /\ s \in D
    BY <1>1
  <2>w. Within(w)
    BY <1>4, <2>1 DEF Within
  <2> HIDE DEF w
  <2>3. \A t \in D : f[t] \in Nat /\ p[t] \in Nat
    BY <1>1, AccountsType
  <2>4. \A t \in D : g[t] \in Nat /\ q[t] \in Nat
    BY <1>1, <2>1, <2>w, AccountsType
  <2>5. f[s] = Entry(sh, j).count /\ g[s] = Entry(sh, k).count
        /\ p[s] = Over(sh, j) /\ q[s] = Over(sh, k)
    BY <1>4, <2>1, <2>2 DEF Settled, Debts
  <2>6. \A t \in R \ {s} : f[t] = g[t] /\ p[t] = q[t]
    BY <2>1, <2>2 DEF Settled, Debts
  <2> HIDE DEF R, f, g, p, q, D
  <2>7. (\A t \in R : f[t] \in Nat /\ g[t] \in Nat) /\ \A t \in R : p[t] \in Nat /\ q[t] \in Nat
    BY <1>2, <2>3, <2>4
  <2>8. y + g[s] + p[s] = x + f[s] + q[s]
    BY <1>4, <2>5
  <2>9. x + SumOver(f, R) = Table + SumOver(p, R)
    BY <1>1 DEF f, p
  <2>10. (\A t \in R \ {s} : f[t] = g[t]) /\ (\A t \in R \ {s} : p[t] = q[t])
    BY <2>6
  <2>11. y \in Int /\ x \in Int /\ IsFiniteSet(R) /\ s \in R
    BY <1>1, <1>2, <2>2
  <2>13. y + SumOver(g, R) = Table + SumOver(q, R)
    <3>1. Moves(R, f, g, p, q, s, x, y)
      BY <2>7, <2>8, <2>9, <2>10, <2>11 DEF Moves
    <3>2. QED
      BY <3>1, AccountsMoved
  <2>14. Searching(r, c, w, sh, y, o)
    BY <1>1, <1>4, <2>1, <2>13 DEF Searching, Moving, Balanced, g, q, R, D
  <2>15. QED
    BY <2>14 DEF w
<1> DEFINE at(m) == Entry(sh, m).count
<1>5. /\ Over(sh, i) \in Nat /\ Over(sh, i + 1) \in Nat /\ d \in Nat
      /\ at(i) \in Nat /\ at(i + 1) \in Nat
      /\ at(i) + Over(sh, i + 1) = at(i + 1) + Over(sh, i) + d
  BY <1>1, EntryStep
<1>6. i + 1 \in Nat \ {0} /\ i <= Table /\ x + d \in Int /\ x - d \in Int
  BY <1>1, <1>3, <1>5
<1> HIDE DEF at
<1>7. /\ (x + d) + at(i + 1) + Over(sh, i) = x + at(i) + Over(sh, i + 1)
      /\ (x - d) + at(i) + Over(sh, i + 1) = x + at(i + 1) + Over(sh, i)
  BY <1>1, <1>5
<1>8. b[s] = i => Searching(r, c, [b EXCEPT ![s] = i + 1], sh, x + d, o)
  BY <1>4, <1>6, <1>7 DEF at
<1>9. b[s] = i + 1 => Searching(r, c, [b EXCEPT ![s] = i], sh, x - d, o)
  BY <1>4, <1>6, <1>7 DEF at
<1>10. QED
  BY <1>8, <1>9

-------------------------------------------------------------------------------
(* The moves that RebalanceHistogram compares have scores, so that one is   *)
(* the best.                                                                *)
LEMMA BalancesType ==
  ASSUME Counted(raw), DOMAIN raw # {}, rest \in Int, NEW log \in Nat
  PROVE  /\ BalanceIncrease(log) \in Int /\ BalanceDecrease(log) \in Int
         /\ log = 0 => BalanceIncrease(log) >= 0
<1> DEFINE p == Pow2[log]
           L == Largest
           none == log > Entry(shift, 2).step
<1>1. p \in Nat \ {0} /\ (log = 0 => p = 1) /\ Table \in Nat
  BY Pow2Equation, Sizes
<1>2. L \in Nat
  <2> DEFINE D == DOMAIN raw
             T == {raw[s] : s \in D}
  <2>1. IsFiniteSet(D) /\ raw \in [D -> Nat] /\ D # {}
    BY CountedType
  <2> HIDE DEF D
  <2>2. IsFiniteSet(T)
    BY <2>1, ImageFinite
  <2>3. T \in SUBSET Int /\ T # {} /\ T \subseteq Nat
    BY <2>1
  <2>4. Max(T) \in T
    BY <2>2, <2>3, MaxIs
  <2>5. L = Max(T)
    BY DEF Largest, Range, D
  <2> HIDE DEF T
  <2>6. QED
    BY <2>3, <2>4, <2>5
<1>3. Infinite \in Nat /\ (\A a \in 1 .. Table : Log2Of[a] \in Nat)
      /\ \A a, b \in 1 .. Table : a <= b => Log2Of[a] <= Log2Of[b]
  BY Log2OfAssumption
<1>4. BalanceIncrease(log) = IF none \/ rest >= Table THEN 0
        ELSE IF rest > 1 /\ rest > p THEN L * (Log2Of[rest] - Log2Of[rest - p])
        ELSE Infinite
  BY DEF BalanceIncrease
<1>5. BalanceDecrease(log) = IF none \/ rest >= Table THEN 0
        ELSE IF rest > 1
          THEN IF rest + p < Table THEN L * (Log2Of[rest + p] - Log2Of[rest]) ELSE 0
        ELSE Infinite
  BY DEF BalanceDecrease
<1> HIDE DEF p, L, none
<1>6. BalanceIncrease(log) \in Int /\ BalanceIncrease(log) >= 0
  <2>1. CASE none \/ rest >= Table
    BY <1>4, <2>1
  <2>2. CASE ~none /\ rest < Table /\ rest > 1 /\ rest > p
    <3>1. rest \in 1 .. Table /\ rest - p \in 1 .. Table /\ rest - p <= rest
      BY <1>1, <2>2
    <3> DEFINE a == Log2Of[rest]
               b == Log2Of[rest - p]
    <3>2. a \in Nat /\ b \in Nat /\ b <= a
      BY <1>3, <3>1
    <3>3. BalanceIncrease(log) = L * (a - b)
      BY <1>1, <1>4, <2>2
    <3> HIDE DEF a, b
    <3>4. a - b \in Nat
      BY <3>2
    <3>5. L * (a - b) \in Nat
      BY <1>2, <3>4
    <3>6. QED
      BY <3>3, <3>5
  <2>3. CASE ~none /\ rest < Table /\ ~(rest > 1 /\ rest > p)
    BY <1>1, <1>3, <1>4, <2>3
  <2>4. QED
    BY <1>1, <2>1, <2>2, <2>3
<1>7. BalanceDecrease(log) \in Int
  <2>1. CASE none \/ rest >= Table
    BY <1>5, <2>1
  <2>2. CASE ~none /\ rest < Table /\ rest > 1 /\ rest + p < Table
    <3>1. rest \in 1 .. Table /\ rest + p \in 1 .. Table
      BY <1>1, <2>2
    <3> DEFINE a == Log2Of[rest + p]
               b == Log2Of[rest]
    <3>2. a \in Nat /\ b \in Nat
      BY <1>3, <3>1
    <3>3. BalanceDecrease(log) = L * (a - b)
      BY <1>1, <1>5, <2>2
    <3> HIDE DEF a, b
    <3>4. L * (a - b) \in Int
      BY <1>2, <3>2
    <3>5. QED
      BY <3>3, <3>4
  <2>3. CASE ~none /\ rest < Table /\ rest > 1 /\ ~(rest + p < Table)
    BY <1>1, <1>5, <2>3
  <2>4. CASE ~none /\ rest < Table /\ ~(rest > 1)
    BY <1>1, <1>3, <1>5, <2>4
  <2>5. QED
    BY <1>1, <2>1, <2>2, <2>3, <2>4
<1>8. QED
  BY <1>6, <1>7

(* No move takes the first population further up: its entry costs nothing.  *)
LEMMA BestMoves ==
  ASSUME Counted(raw), Moving(raw, counts, bins, shift, rest, omit), bins # <<>>
  PROVE  /\ BestIncrease \in DOMAIN bins /\ BestDecrease \in DOMAIN bins
         /\ \A s \in DOMAIN bins : bins[s] \in Nat \ {0}
         /\ IncreaseDelta(BestIncrease) > 0 => bins[BestIncrease] # 1
<1> DEFINE B == DOMAIN bins
<1>1. /\ shift \in 0 .. LogTable - 1 /\ rest \in Int /\ DOMAIN raw # {} /\ B \subseteq DOMAIN raw
      /\ bins \in [B -> Nat \ {0}]
  BY DEF Moving
<1>2. IsFiniteSet(B) /\ B \in SUBSET Nat /\ \A s \in B : raw[s] \in Nat
  <2>1. IsFiniteSet(DOMAIN raw) /\ DOMAIN raw \in SUBSET Nat /\ \A s \in DOMAIN raw : raw[s] \in Nat
    BY CountedType
  <2>2. QED
    BY <1>1, <2>1, FS_Subset
<1>3. B # {}
  <2> SUFFICES ASSUME B = {} PROVE FALSE
    OBVIOUS
  <2>1. bins = <<>>
    BY <1>1
  <2>2. QED
    BY <2>1
<1>4. \A s \in B : bins[s] \in Nat \ {0}
  BY <1>1
<1> HIDE DEF B
<1>5. ASSUME NEW s \in B
      PROVE  /\ IncreaseDelta(s) \in Int /\ Entry(shift, bins[s]).step \in Nat
             /\ DecreaseDelta(s) \in Int /\ Entry(shift, bins[s] + 1).step \in Nat
             /\ bins[s] = 1 => IncreaseDelta(s) <= 0
  <2> DEFINE e == Entry(shift, bins[s])
             u == Entry(shift, bins[s] + 1)
  <2>1. bins[s] \in Nat \ {0} /\ bins[s] + 1 \in Nat \ {0} /\ raw[s] \in Nat
    BY <1>2, <1>4
  <2>2. e.step \in Nat /\ e.delta \in Int /\ (bins[s] = 1 => e.step = 0 /\ e.delta = 0)
    BY <1>1, <2>1, EntryIs
  <2>3. u.step \in Nat /\ u.delta \in Int
    BY <1>1, <2>1, EntryIs
  <2>4. IncreaseDelta(s) = raw[s] * e.delta - BalanceIncrease(e.step)
        /\ DecreaseDelta(s) = raw[s] * u.delta - BalanceDecrease(u.step)
    BY DEF IncreaseDelta, DecreaseDelta
  <2> DEFINE es == e.step
             ed == e.delta
             us == u.step
             ud == u.delta
             c == raw[s]
             bi == BalanceIncrease(es)
             bd == BalanceDecrease(us)
  <2>5. bi \in Int /\ bd \in Int /\ (es = 0 => bi >= 0)
    BY <1>1, <2>2, <2>3, BalancesType
  <2>6. /\ IncreaseDelta(s) = c * ed - bi /\ DecreaseDelta(s) = c * ud - bd
        /\ c \in Nat /\ ed \in Int /\ ud \in Int /\ es \in Nat /\ us \in Nat
        /\ bins[s] = 1 => es = 0 /\ ed = 0
    BY <2>1, <2>2, <2>3, <2>4
  <2> HIDE DEF bi, bd, es, ed, us, ud, c, e, u
  <2>7. c * ed \in Int /\ c * ud \in Int /\ (ed = 0 => c * ed = 0)
    BY <2>6
  <2> DEFINE ce == c * ed
             cu == c * ud
  <2> HIDE DEF ce, cu
  <2>8. /\ IncreaseDelta(s) = ce - bi /\ DecreaseDelta(s) = cu - bd
        /\ ce \in Int /\ cu \in Int /\ (bins[s] = 1 => ce = 0 /\ bi >= 0)
    BY <2>5, <2>6, <2>7 DEF ce, cu
  <2>9. /\ IncreaseDelta(s) \in Int /\ DecreaseDelta(s) \in Int
        /\ bins[s] = 1 => IncreaseDelta(s) <= 0
    BY <2>5, <2>8
  <2>10. QED
    BY <2>6, <2>9 DEF es, us, e, u
<1> DEFINE up == [s \in B |-> IncreaseDelta(s) \div Pow2[Entry(shift, bins[s]).step]]
           down == [s \in B |-> -(DecreaseDelta(s) \div Pow2[Entry(shift, bins[s] + 1).step])]
<1>6. \A s \in B : up[s] \in Int
  <2> TAKE s \in B
  <2> DEFINE a == IncreaseDelta(s)
             b == Pow2[Entry(shift, bins[s]).step]
  <2>1. a \in Int /\ b \in Nat \ {0}
    BY <1>5, Pow2Equation
  <2>2. up[s] = a \div b
    OBVIOUS
  <2> HIDE DEF up, a, b
  <2>3. QED
    BY <2>1, <2>2
<1>7. \A s \in B : down[s] \in Int
  <2> TAKE s \in B
  <2> DEFINE a == DecreaseDelta(s)
             b == Pow2[Entry(shift, bins[s] + 1).step]
  <2>1. a \in Int /\ b \in Nat \ {0}
    BY <1>5, Pow2Equation
  <2>2. down[s] = -(a \div b)
    OBVIOUS
  <2> HIDE DEF down, a, b
  <2>3. QED
    BY <2>1, <2>2
<1>8. up = [s \in B |-> up[s]] /\ down = [s \in B |-> down[s]]
  OBVIOUS
<1>9. BestIncrease = FirstLargest(up) /\ BestDecrease = FirstLargest(down)
  BY DEF BestIncrease, BestDecrease, B
<1> HIDE DEF up, down
<1>10. up \in [B -> Int] /\ down \in [B -> Int]
  BY <1>6, <1>7, <1>8
<1>11. BestIncrease \in B /\ BestDecrease \in B
  BY <1>2, <1>3, <1>9, <1>10, FirstLargestIs
<1>12. IncreaseDelta(BestIncrease) > 0 => bins[BestIncrease] # 1
  <2> DEFINE s == BestIncrease
  <2>1. IncreaseDelta(s) \in Int /\ (bins[s] = 1 => IncreaseDelta(s) <= 0)
    BY <1>5, <1>11
  <2> HIDE DEF s
  <2>2. IncreaseDelta(s) > 0 => bins[s] # 1
    BY <2>1
  <2>3. QED
    BY <2>2 DEF s
<1>13. QED
  BY <1>4, <1>11, <1>12 DEF B

-------------------------------------------------------------------------------
(* The first approximation is on the list of the precision, and its accounts  *)
(* balance.                                                                 *)
LEMMA RoundingType ==
  ASSUME NEW total \in Nat, total # 0, NEW s, raw[s] \in Nat
  PROVE  Rounding(s, total) \in 0 .. Table - 1
<1> DEFINE x == (2 * raw[s] * Table + total) \div (2 * total)
           y == IF raw[s] > 0 THEN 1 ELSE 0
           m == Max({x, y})
<1>1. Table \in Nat \ {0}
  BY Sizes
<1>2. x \in Nat
  <2> DEFINE a == 2 * raw[s] * Table + total
             b == 2 * total
  <2>1. a \in Nat /\ b \in Nat \ {0}
    <3> DEFINE c == raw[s]
    <3>1. c \in Nat
      OBVIOUS
    <3> HIDE DEF c
    <3>2. 2 * c * Table \in Nat
      BY <1>1, <3>1
    <3>3. 2 * c * Table + total \in Nat
      BY <3>2
    <3>4. QED
      BY <3>3 DEF c
  <2>2. x = a \div b
    OBVIOUS
  <2> HIDE DEF x, a, b
  <2>3. QED
    BY <2>1, <2>2, DivMod
<1>3. y \in Nat
  OBVIOUS
<1> HIDE DEF x, y
<1>4. m \in Nat
  <2>1. x \in Int /\ y \in Int
    BY <1>2, <1>3
  <2>2. m = IF x >= y THEN x ELSE y
    BY <2>1, MaxOfTwo
  <2>3. QED
    BY <1>2, <1>3, <2>2
<1>5. Rounding(s, total) = Min({Table - 1, m})
  BY DEF Rounding, x, y
<1> HIDE DEF m
<1>6. Table - 1 \in Int /\ m \in Int
  BY <1>1, <1>4
<1>7. Min({Table - 1, m}) = IF Table - 1 <= m THEN Table - 1 ELSE m
  BY <1>6, MaxOfTwo
<1>8. QED
  BY <1>1, <1>4, <1>5, <1>7

(* What is left is what the other symbols do not take.                      *)
LEMMA StartsBalanced ==
  ASSUME Counted(raw), DOMAIN raw # {}, NEW sh \in 0 .. LogTable - 1
  PROVE  LET total == Total(raw)
             largest == FirstLargest(raw)
             first == [s \in DOMAIN raw |-> RoundedDown(Rounding(s, total), sh)]
             free == {s \in DOMAIN raw \ {largest} : raw[s] * Table > total}
             list == AllowedPopulations[sh]
         IN Searching(raw, first, [s \in free |-> CHOOSE i \in DOMAIN list : list[i] = first[s]],
                      sh, Table - Total(first) + first[largest], largest)
<1> DEFINE D == DOMAIN raw
           total == Total(raw)
           o == FirstLargest(raw)
           first == [s \in D |-> RoundedDown(Rounding(s, total), sh)]
           free == {s \in D \ {o} : raw[s] * Table > total}
           list == AllowedPopulations[sh]
           n == Len(list)
           b == [s \in free |-> CHOOSE i \in DOMAIN list : list[i] = first[s]]
           x == Table - Total(first) + first[o]
           R == D \ {o}
<1>1. /\ IsFiniteSet(D) /\ D \in SUBSET Nat /\ raw \in [D -> Nat] /\ \A s \in D : raw[s] \in Nat
      /\ total \in Nat /\ total # 0 /\ D # {}
  BY CountedType
<1>2. Table \in Nat \ {0} /\ sh \in Int
  BY Sizes, SizesAssumption
<1>3. /\ n \in Nat \ {0} /\ n <= Table /\ DOMAIN list = 1 .. n
      /\ \A m \in Allowed(sh) : \E i \in 1 .. n : list[i] = m
  BY PopulationList
<1>t. Total(first) = SumOver(first, D)
  <2>1. DOMAIN first = D
    OBVIOUS
  <2> HIDE DEF first
  <2>2. QED
    BY <2>1 DEF Total, SumFunction, SumOver
<1>d. DOMAIN first = D /\ DOMAIN b = free
  OBVIOUS
<1> HIDE DEF D, list, n, total
<1>4. o \in D
  <2>1. raw \in [D -> Int]
    BY <1>1
  <2>2. QED
    BY <1>1, <2>1, FirstLargestIs
<1>5. \A s \in D : first[s] \in Allowed(sh) /\ first[s] \in Nat
  <2> TAKE s \in D
  <2>1. Rounding(s, total) \in 0 .. Table - 1
    BY <1>1, RoundingType
  <2>2. first[s] = RoundedDown(Rounding(s, total), sh)
    OBVIOUS
  <2> HIDE DEF first
  <2>3. first[s] \in Allowed(sh)
    BY <2>1, <2>2 DEF Allowed
  <2>4. Allowed(sh) \in SUBSET (0 .. Table - 1)
    BY <1>2, AllowedType
  <2>5. QED
    BY <1>2, <2>3, <2>4
<1>6. first \in [D -> Nat]
  <2>1. first = [s \in D |-> first[s]]
    BY <1>d
  <2> HIDE DEF first
  <2>2. QED
    BY <1>5, <2>1
<1> HIDE DEF o, first
<1>7. \A s \in free : s \in R /\ s \in D /\ raw[s] # 0
  <2> TAKE s \in free
  <2>1. s \in D /\ s # o /\ raw[s] * Table > total
    OBVIOUS
  <2>2. raw[s] # 0
    <3> SUFFICES ASSUME raw[s] = 0 PROVE FALSE
      OBVIOUS
    <3>1. 0 * Table > total
      BY <2>1
    <3>2. QED
      BY <1>1, <1>2, <3>1
  <2>3. QED
    BY <2>1, <2>2
<1> HIDE DEF free
<1>8. \A s \in free : b[s] \in 1 .. n /\ list[b[s]] = first[s]
  <2> TAKE s \in free
  <2>1. s \in D
    BY <1>7
  <2>2. \E i \in DOMAIN list : list[i] = first[s]
    BY <1>3, <1>5, <2>1
  <2>3. b[s] = CHOOSE i \in DOMAIN list : list[i] = first[s]
    OBVIOUS
  <2> HIDE DEF b
  <2>4. b[s] \in DOMAIN list /\ list[b[s]] = first[s]
    BY <2>2, <2>3
  <2>5. QED
    BY <1>3, <2>4
<1>9. b \in [DOMAIN b -> Nat \ {0}]
  <2>1. b = [s \in DOMAIN b |-> b[s]]
    OBVIOUS
  <2>2. \A s \in DOMAIN b : b[s] \in Nat \ {0}
    <3> TAKE s \in DOMAIN b
    <3>1. b[s] \in 1 .. n
      BY <1>8, <1>d
    <3> HIDE DEF b
    <3>2. QED
      BY <1>3, <3>1
  <2> HIDE DEF b
  <2>3. QED
    BY <2>1, <2>2
<1> HIDE DEF b
<1>10. \A s \in free : Entry(sh, b[s]).count = first[s] /\ Over(sh, b[s]) = 0
  <2> TAKE s \in free
  <2>1. b[s] \in 1 .. n /\ list[b[s]] = first[s] /\ b[s] \in Nat \ {0} /\ b[s] <= n
    BY <1>3, <1>8
  <2>2. Entry(sh, b[s]).count = list[b[s]]
    <3>1. Listed(sh, b[s]).count = list[b[s]]
      BY <2>1, ListedIs DEF list, n
    <3>2. b[s] <= Table
      BY <1>2, <1>3, <2>1
    <3>3. QED
      BY <2>1, <3>1, <3>2, EntryIs
  <2>3. Over(sh, b[s]) = 0
    BY <1>3, <2>1 DEF Over, list, n
  <2>4. QED
    BY <2>1, <2>2, <2>3
<1> DEFINE f == Settled(raw, first, b, sh)
           p == Debts(raw, b, sh)
<1>11. \A s \in D : f[s] = first[s] /\ p[s] = 0
  BY <1>10, <1>d DEF Settled, Debts, D
<1> HIDE DEF f, p
<1>12. /\ IsFiniteSet(R) /\ SumOver(first, R) \in Nat
       /\ SumOver(first, D) = first[o] + SumOver(first, R)
  <2>1. \A s \in D : first[s] \in Nat
    BY <1>5
  <2>2. QED
    BY <1>1, <1>4, <2>1, SumRemove
<1>13. R \subseteq D
  OBVIOUS
<1> HIDE DEF R
<1>14. SumOver(f, R) = SumOver(first, R)
  <2>1. \A s \in R : f[s] = first[s]
    BY <1>11, <1>13
  <2>2. QED
    BY <1>12, <2>1, SumSame
<1>15. SumOver(p, R) = 0
  <2>1. \A s \in R : p[s] = 0
    BY <1>11, <1>13
  <2>2. 0 \in Nat
    OBVIOUS
  <2>3. Cardinality(R) \in Nat /\ SumOver(p, R) = 0 * Cardinality(R)
    BY <1>12, <2>1, <2>2, SumConstant
  <2>4. QED
    BY <2>3
<1>16. x \in Int /\ x + SumOver(f, R) = Table + SumOver(p, R)
  <2> DEFINE a == SumOver(first, R)
             c == first[o]
  <2>1. x = Table - (c + a) + c /\ c \in Nat /\ a \in Nat
    BY <1>4, <1>5, <1>12, <1>t
  <2> HIDE DEF a, c, x
  <2>2. x \in Int /\ x + a = Table
    BY <1>2, <2>1
  <2>3. SumOver(f, R) = a
    BY <1>14 DEF a
  <2>4. QED
    BY <1>2, <1>15, <2>2, <2>3
<1> HIDE DEF x
<1>17. Searching(raw, first, b, sh, x, o)
  BY <1>4, <1>6, <1>7, <1>9, <1>16, <1>d DEF Searching, Moving, Balanced, f, p, R, D
<1>18. QED
  BY <1>17 DEF first, b, x, o, free, list, total, D

-------------------------------------------------------------------------------
(* A candidate that leaves no symbol out fills the table, if no index left  *)
(* the array: no population is behind its list then, so that the accounts   *)
(* hold no debt, and changing places with the omitted symbol moves nothing  *)
(* else.                                                                    *)
THEOREM SettleFits ==
  ASSUME Counted(raw), Searching(raw, counts, bins, shift, rest, omit), Within(bins), rest > 0,
         Accepts(Settle.frequencies)
  PROVE  Fit(Settle.frequencies, raw)
<1> DEFINE D == DOMAIN raw
           R == D \ {omit}
           f == Settled(raw, counts, bins, shift)
           p == Debts(raw, bins, shift)
           halves == {s \in 0 .. (omit - 1) : f[s] >= Table \div 2}
           l == IF bins # <<>> /\ halves # {} THEN Min(halves) ELSE omit
           g == [f EXCEPT ![omit] = f[l], ![l] = rest]
<1>1. /\ shift \in 0 .. LogTable - 1 /\ omit \in D /\ rest \in Int
      /\ counts \in [D -> Nat]
      /\ DOMAIN bins \subseteq R /\ bins \in [DOMAIN bins -> Nat \ {0}]
      /\ \A s \in DOMAIN bins : raw[s] # 0
      /\ rest + SumOver(f, R) = Table + SumOver(p, R)
  BY DEF Searching, Moving, Balanced
<1>2. IsFiniteSet(D) /\ D \in SUBSET Nat /\ D = 0 .. Cardinality(D) - 1 /\ Cardinality(D) \in 0 .. Table
  BY CountedType
<1>3. Table \in Nat \ {0} /\ 1 < Table
  <2>1. 0 \in Int
    OBVIOUS
  <2>2. QED
    BY <2>1, Sizes, AllowedType
<1>4. Settle.frequencies = g
  BY DEF Settle, Settled
<1>5. \A s \in D : f[s] \in Nat /\ p[s] \in Nat
  BY <1>1, AccountsType
<1>6. f = [s \in D |-> f[s]] /\ DOMAIN f = D
  BY DEF Settled
<1>7. \A s \in D : /\ p[s] = IF s \in DOMAIN bins THEN Over(shift, bins[s]) ELSE 0
                   /\ s \in DOMAIN bins => f[s] = Entry(shift, bins[s]).count
  BY DEF Settled, Debts
<1> HIDE DEF f, p, D
<1>8. l \in D /\ (l # omit => f[l] # 0)
  <2>1. CASE bins # <<>> /\ halves # {}
    <3> DEFINE c == Cardinality(D)
    <3>1. c \in Nat /\ D = 0 .. c - 1 /\ omit \in Nat /\ omit \in 0 .. c - 1
      BY <1>1, <1>2, <1>3
    <3> HIDE DEF c
    <3>2. 0 .. omit - 1 \subseteq D
      BY <3>1
    <3>3. IsFiniteSet(halves) /\ halves \subseteq D
      <4>1. halves \subseteq D
        BY <3>2
      <4>2. QED
        BY <1>2, <4>1, FS_Subset
    <3>4. halves \in SUBSET Int
      OBVIOUS
    <3>5. Min(halves) \in halves
      BY <2>1, <3>3, <3>4, MaxIs
    <3>6. l \in halves
      BY <2>1, <3>5
    <3>7. Table \div 2 >= 1
      BY <1>3
    <3>8. f[l] >= Table \div 2 /\ l \in D
      BY <3>3, <3>6
    <3> HIDE DEF l
    <3>9. f[l] \in Nat
      BY <1>5, <3>8
    <3> DEFINE h == Table \div 2
    <3>10. h \in Int /\ h >= 1 /\ f[l] >= h
      BY <1>3, <3>7, <3>8
    <3> HIDE DEF h
    <3>11. QED
      BY <3>8, <3>9, <3>10
  <2>2. CASE ~(bins # <<>> /\ halves # {})
    <3>1. l = omit
      BY <2>2
    <3> HIDE DEF l
    <3>2. QED
      BY <1>1, <3>1
  <2>3. QED
    BY <2>1, <2>2
<1> HIDE DEF l, halves
<1>9. /\ DOMAIN g = D /\ g[l] = rest /\ (l # omit => g[omit] = f[l])
      /\ \A s \in D \ {omit, l} : g[s] = f[s]
  BY <1>1, <1>6, <1>8
<1>10. g = [s \in D |-> g[s]]
  BY <1>6
<1> HIDE DEF g
<1>11. rest \in Nat /\ \A s \in D : g[s] \in Nat
  <2>1. rest \in Nat
    BY <1>1
  <2>2. QED
    BY <1>5, <1>8, <1>9, <2>1
<1>12. g \in [D -> Nat]
  BY <1>10, <1>11
<1>13. /\ IsFiniteSet(R) /\ R \subseteq D /\ omit \notin R
       /\ \A s \in R : f[s] \in Nat /\ p[s] \in Nat
  BY <1>2, <1>5, FS_Subset
<1>14. \A s \in R : p[s] = 0
  <2> SUFFICES ASSUME NEW s \in R, s \in DOMAIN bins PROVE p[s] = 0
    BY <1>7, <1>13
  <2>1. s \in D /\ bins[s] \in Nat \ {0} /\ raw[s] # 0
    BY <1>1, <1>13
  <2>2. f[s] # 0
    <3>1. CASE s = l
      BY <1>8, <3>1
    <3>2. CASE s # l
      <4>1. s \in Populated(raw)
        BY <2>1 DEF Populated, D
      <4>2. g[s] # 0
        BY <1>4, <4>1 DEF Accepts
      <4>3. QED
        BY <1>9, <3>2, <4>2
    <3>3. QED
      BY <3>1, <3>2
  <2>3. Entry(shift, bins[s]).count # 0
    BY <1>7, <2>1, <2>2
  <2> DEFINE n == Len(AllowedPopulations[shift])
  <2>4. n \in Nat \ {0} /\ (bins[s] > n => Entry(shift, bins[s]).count = 0)
    <3>1. n \in Nat \ {0} /\ (bins[s] > n => Listed(shift, bins[s]).count = 0)
      BY <1>1, <2>1, ListedIs
    <3>2. bins[s] <= Table
      BY DEF Within
    <3>3. Entry(shift, bins[s]) = Listed(shift, bins[s])
      BY <1>1, <2>1, <3>2, EntryIs
    <3>4. QED
      BY <3>1, <3>3
  <2>5. ~(bins[s] > n)
    BY <2>3, <2>4
  <2>6. Over(shift, bins[s]) = 0
    BY <2>5 DEF Over
  <2>7. QED
    BY <1>7, <2>1, <2>6
<1>15. SumOver(p, R) = 0
  <2> HIDE DEF R
  <2>1. 0 \in Nat
    OBVIOUS
  <2>2. Cardinality(R) \in Nat /\ SumOver(p, R) = 0 * Cardinality(R)
    BY <1>13, <1>14, <2>1, SumConstant
  <2>3. QED
    BY <2>2
<1> DEFINE h == [s \in D |-> IF s = omit THEN rest ELSE f[s]]
<1>16. \A s \in D : h[s] \in Nat
  BY <1>5, <1>11
<1>17. h[omit] = rest /\ \A s \in R : h[s] = f[s]
  BY <1>1
<1> HIDE DEF h
<1>18. SumOver(h, D) = Table
  <2>1. SumOver(h, D) = h[omit] + SumOver(h, R)
    BY <1>1, <1>2, <1>16, SumRemove
  <2> HIDE DEF R
  <2>2. SumOver(h, R) = SumOver(f, R)
    BY <1>13, <1>17, SumSame
  <2>3. SumOver(f, R) \in Nat
    BY <1>13, SumType
  <2>4. QED
    BY <1>1, <1>3, <1>15, <1>17, <2>1, <2>2, <2>3
<1>19. SumOver(g, D) = SumOver(h, D)
  <2>1. CASE l = omit
    <3>1. \A s \in D : g[s] = h[s]
      BY <1>9, <1>17, <2>1
    <3>2. QED
      BY <1>2, <3>1, SumSame
  <2>2. CASE l # omit
    <3>1. \A s \in D : h[s] \in Nat /\ g[s] \in Nat
      BY <1>11, <1>16
    <3>2. h[omit] + h[l] = g[omit] + g[l]
      <4>1. h[l] = f[l] /\ f[l] \in Nat
        BY <1>5, <1>8, <1>17, <2>2
      <4>2. QED
        BY <1>9, <1>11, <1>17, <2>2, <4>1
    <3>3. \A s \in D \ {omit, l} : h[s] = g[s]
      BY <1>9, <1>17
    <3>4. omit \in D /\ l \in D /\ omit # l /\ IsFiniteSet(D)
      BY <1>1, <1>2, <1>8, <2>2
    <3>5. SumOver(h, D) = SumOver(g, D)
      BY <3>1, <3>2, <3>3, <3>4, SumMoved
    <3>6. QED
      BY <3>5
  <2>3. QED
    BY <2>1, <2>2
<1>20. \A s \in Populated(raw) : g[s] # 0
  BY <1>4 DEF Accepts
<1>21. QED
  BY <1>4, <1>12, <1>18, <1>19, <1>20 DEF Fit, Keeps, D

-------------------------------------------------------------------------------
(* What holds while the histogram is looked for, wherever the moves of a    *)
(* rebalancing lead: a histogram that was kept leaves out no symbol that    *)
(* occurs, and an index never falls below the first.                        *)
HistogramInv ==
  /\ phase \in {"counted", "search", "rebalance", "chosen"} => Counted(raw)
  /\ phase \in {"search", "rebalance", "chosen"} => Keeps(best.frequencies, raw)
  /\ phase \in {"search", "rebalance"} => DOMAIN raw # {}
  /\ phase \in {"counted", "search", "rebalance"} => shift \in Int /\ -1 <= shift
  /\ phase = "rebalance" => Moving(raw, counts, bins, shift, rest, omit)

(* The code does not check an index.  As long as it reads the array of its  *)
(* precision, every candidate that was kept fills the table as well, and    *)
(* the moves keep the accounts.                                             *)
InArray == phase = "rebalance" => Within(bins)
AccountsInv ==
  /\ phase \in {"search", "rebalance", "chosen"} => Fit(best.frequencies, raw)
  /\ phase = "rebalance" => Searching(raw, counts, bins, shift, rest, omit)

(* A cluster that was counted is one the search can start from.             *)
LEMMA HistogramInit ==
  Init => HistogramInv /\ AccountsInv
<1> SUFFICES ASSUME Init PROVE HistogramInv /\ AccountsInv
  OBVIOUS
<1>1. phase = "counted" /\ shift = -1 /\ \E h \in Histograms : raw = Trimmed(h)
  BY DEF Init
<1>2. Counted(raw)
  BY <1>1, TrimmedCounted
<1>3. QED
  BY <1>1, <1>2 DEF HistogramInv, AccountsInv

(* At most two symbols are normalized into a histogram that fits.           *)
LEMMA FewFit ==
  ASSUME HistogramInv, NormalizeFew
  PROVE  phase' = "chosen" /\ Counted(raw') /\ Fit(best'.frequencies, raw')
<1>1. /\ phase = "counted" /\ Cardinality(Populated(raw)) <= 2 /\ phase' = "chosen"
      /\ best' = [frequencies |-> Normalize(raw), omit |-> 0] /\ raw' = raw
  BY DEF NormalizeFew
<1>2. Counted(raw)
  BY <1>1 DEF HistogramInv
<1>3. Fit(Normalize(raw), raw)
  BY <1>1, <1>2, NormalizeFits
<1>4. QED
  BY <1>1, <1>2, <1>3

(* So does the flat one.                                                    *)
LEMMA FlatFit ==
  ASSUME HistogramInv, ConsiderFlat
  PROVE  /\ phase' = "search" /\ Counted(raw') /\ DOMAIN raw' # {}
         /\ shift' \in Int /\ -1 <= shift' /\ Fit(best'.frequencies, raw')
<1> DEFINE n == Cardinality(DOMAIN raw)
           flat == [s \in DOMAIN raw |-> Table \div n + IF s < Table % n THEN 1 ELSE 0]
<1>1. /\ phase = "counted" /\ Cardinality(Populated(raw)) > 2 /\ phase' = "search"
      /\ best' = [frequencies |-> flat, omit |-> 0] /\ raw' = raw /\ shift' = shift
  BY DEF ConsiderFlat
<1>2. Counted(raw) /\ shift \in Int /\ -1 <= shift
  BY <1>1 DEF HistogramInv
<1>3. DOMAIN raw # {}
  <2> SUFFICES ASSUME DOMAIN raw = {} PROVE FALSE
    OBVIOUS
  <2>1. Populated(raw) = {}
    BY DEF Populated
  <2>2. Cardinality(Populated(raw)) = 0
    BY <2>1, FS_EmptySet
  <2>3. QED
    BY <1>1, <2>2
<1>4. Fit(flat, raw)
  BY <1>2, <1>3, FlatFits
<1> HIDE DEF flat
<1>5. QED
  BY <1>1, <1>2, <1>3, <1>4

(* A rebalancing starts with its accounts in balance.                       *)
LEMMA RebalanceStarts ==
  ASSUME HistogramInv, StartRebalance
  PROVE  /\ phase = "search" /\ phase' = "rebalance" /\ raw' = raw /\ best' = best
         /\ shift' \in Int /\ -1 <= shift'
         /\ Searching(raw', counts', bins', shift', rest', omit')
<1> DEFINE total == Total(raw)
           o == FirstLargest(raw)
           sh == shift + 1
           first == [s \in DOMAIN raw |-> RoundedDown(Rounding(s, total), sh)]
           free == {s \in DOMAIN raw \ {o} : raw[s] * Table > total}
           list == AllowedPopulations[sh]
           b == [s \in free |-> CHOOSE i \in DOMAIN list : list[i] = first[s]]
           x == Table - Total(first) + first[o]
<1>1. /\ phase = "search" /\ shift < LogTable - 1 /\ phase' = "rebalance"
      /\ counts' = first /\ omit' = o /\ rest' = x /\ bins' = b
      /\ shift' = sh /\ raw' = raw /\ best' = best
  BY DEF StartRebalance
<1>2. Counted(raw) /\ DOMAIN raw # {} /\ shift \in Int /\ -1 <= shift
  BY <1>1 DEF HistogramInv
<1>3. sh \in 0 .. LogTable - 1 /\ sh \in Int /\ -1 <= sh
  BY <1>1, <1>2, SizesAssumption
<1> HIDE DEF sh
<1>4. Searching(raw, first, b, sh, x, o)
  BY <1>2, <1>3, StartsBalanced
<1> HIDE DEF first, b, x, o
<1>5. QED
  BY <1>1, <1>3, <1>4

(* A move is from one entry to the next, either way.                        *)
Moved(s, i, d) ==
  \/ bins[s] = i /\ bins' = [bins EXCEPT ![s] = i + 1] /\ rest' = rest + d
  \/ bins[s] = i + 1 /\ bins' = [bins EXCEPT ![s] = i] /\ rest' = rest - d
LEMMA MovesOne ==
  ASSUME Counted(raw), Moving(raw, counts, bins, shift, rest, omit), Increase \/ Decrease
  PROVE  \E s \in DOMAIN bins : \E i \in Nat \ {0} : Moved(s, i, Pow2[Entry(shift, i + 1).step])
<1>1. CASE Increase
  <2> DEFINE s == BestIncrease
             d == Pow2[Entry(shift, bins[s]).step]
  <2>1. /\ bins # <<>> /\ IncreaseDelta(s) > 0
        /\ rest' = rest - d /\ bins' = [bins EXCEPT ![s] = bins[s] - 1]
    BY <1>1 DEF Increase, Gains
  <2>2. s \in DOMAIN bins /\ bins[s] \in Nat \ {0} /\ bins[s] # 1
    BY <2>1, BestMoves
  <2> HIDE DEF s
  <2> DEFINE i == bins[s] - 1
  <2>3. i \in Nat \ {0} /\ bins[s] = i + 1
    BY <2>2
  <2>4. d = Pow2[Entry(shift, i + 1).step] /\ bins' = [bins EXCEPT ![s] = i]
    BY <2>1, <2>3
  <2> HIDE DEF i, d
  <2>5. Moved(s, i, d)
    BY <2>1, <2>3, <2>4 DEF Moved
  <2>6. QED
    BY <2>2, <2>3, <2>4, <2>5
<1>2. CASE Decrease
  <2> DEFINE s == BestDecrease
             i == bins[s]
             d == Pow2[Entry(shift, i + 1).step]
  <2>1. /\ bins # <<>> /\ rest' = rest + d /\ bins' = [bins EXCEPT ![s] = i + 1]
    BY <1>2 DEF Decrease, Saves
  <2>2. s \in DOMAIN bins /\ bins[s] \in Nat \ {0}
    BY <2>1, BestMoves
  <2> HIDE DEF s
  <2>3. i \in Nat \ {0} /\ bins[s] = i /\ d = Pow2[Entry(shift, i + 1).step]
    BY <2>2
  <2> HIDE DEF i, d
  <2>4. Moved(s, i, d)
    BY <2>1, <2>3 DEF Moved
  <2>5. QED
    BY <2>2, <2>3, <2>4
<1>3. QED
  BY <1>1, <1>2

(* A candidate is kept or not; one that is leaves no symbol out.            *)
LEMMA Considered ==
  ASSUME HistogramInv, EndRebalance
  PROVE  /\ phase = "rebalance" /\ raw' = raw /\ shift' = shift
         /\ \/ phase' = "failed"
            \/ phase' = "search" /\ best' = best
            \/ /\ phase' = "search" /\ best' = Settle /\ rest > 0
               /\ Accepts(Settle.frequencies) /\ Keeps(Settle.frequencies, raw)
<1> DEFINE f == Settle.frequencies
<1>1. /\ phase = "rebalance" /\ raw' = raw /\ shift' = shift
      /\ \/ phase' = "failed"
         \/ /\ ~(rest <= 0) /\ (\A s \in DOMAIN raw : f[s] \in 0 .. Table)
            /\ Consider(Settle)
  BY DEF EndRebalance
<1>2. rest \in Int
  BY <1>1 DEF HistogramInv, Moving
<1>3. f = [s \in DOMAIN raw |-> f[s]]
  <2> DEFINE e == Settled(raw, counts, bins, shift)
  <2>1. PICK l, v : f = [e EXCEPT ![omit] = v, ![l] = rest]
    BY DEF Settle, Settled
  <2>2. e = [s \in DOMAIN raw |-> e[s]]
    BY DEF Settled
  <2> HIDE DEF e, f
  <2>3. QED
    BY <2>1, <2>2
<1> HIDE DEF f
<1>4. CASE /\ ~(rest <= 0) /\ (\A s \in DOMAIN raw : f[s] \in 0 .. Table)
           /\ Consider(Settle) /\ phase' # "failed"
  <2>1. Accepts(f) /\ phase' = "search" /\ best' \in {best, Settle}
    BY <1>4 DEF Consider, f
  <2>2. \A s \in DOMAIN raw : f[s] \in Nat
    BY <1>4, Sizes
  <2>3. f \in [DOMAIN raw -> Nat]
    BY <1>3, <2>2
  <2>4. Keeps(f, raw)
    BY <2>1, <2>3 DEF Keeps, Accepts
  <2>5. rest > 0
    BY <1>2, <1>4
  <2>6. QED
    BY <1>1, <2>1, <2>4, <2>5 DEF f
<1>5. QED
  BY <1>1, <1>4

(* The other steps belong to no search.                                     *)
LEMMA SearchOver ==
  ASSUME StartTables \/ Level \/ BuildTables \/ EncodeToken \/ Write
  PROVE  phase' \in {"coding", "failed", "level", "written"}
<1>1. CASE StartTables
  BY <1>1 DEF StartTables
<1>2. CASE Level
  BY <1>2 DEF Level
<1>3. CASE BuildTables
  BY <1>3 DEF BuildTables
<1>4. CASE EncodeToken
  BY <1>4 DEF EncodeToken, EncodeSymbol
<1>5. CASE Write
  BY <1>5 DEF Write
<1>6. QED
  BY <1>1, <1>2, <1>3, <1>4, <1>5

(* Every step of the search keeps what it relies on.                        *)
LEMMA HistogramStep ==
  HistogramInv /\ [Next]_vars => HistogramInv'
<1> SUFFICES ASSUME HistogramInv, [Next]_vars PROVE HistogramInv'
  OBVIOUS
<1>1. CASE NormalizeFew
  <2>1. phase' = "chosen" /\ Counted(raw') /\ Keeps(best'.frequencies, raw')
    BY <1>1, FewFit DEF Fit
  <2>2. QED
    BY <2>1 DEF HistogramInv
<1>2. CASE ConsiderFlat
  <2>1. /\ phase' = "search" /\ Counted(raw') /\ DOMAIN raw' # {}
        /\ shift' \in Int /\ -1 <= shift' /\ Keeps(best'.frequencies, raw')
    BY <1>2, FlatFit DEF Fit
  <2>2. QED
    BY <2>1 DEF HistogramInv
<1>3. CASE StartRebalance
  <2>1. /\ phase = "search" /\ phase' = "rebalance" /\ raw' = raw /\ best' = best
        /\ shift' \in Int /\ -1 <= shift'
        /\ Moving(raw', counts', bins', shift', rest', omit')
    BY <1>3, RebalanceStarts DEF Searching
  <2>2. QED
    BY <2>1 DEF HistogramInv
<1>4. CASE Increase \/ Decrease
  <2>1. /\ phase = "rebalance" /\ phase' = phase /\ raw' = raw /\ best' = best
        /\ shift' = shift /\ counts' = counts /\ omit' = omit
    BY <1>4 DEF Increase, Decrease
  <2>2. Counted(raw) /\ Moving(raw, counts, bins, shift, rest, omit)
    BY <2>1 DEF HistogramInv
  <2>3. PICK s \in DOMAIN bins, i \in Nat \ {0} : Moved(s, i, Pow2[Entry(shift, i + 1).step])
    BY <1>4, <2>2, MovesOne
  <2> DEFINE d == Pow2[Entry(shift, i + 1).step]
  <2>4. i + 1 \in Nat \ {0} /\ rest + d \in Int /\ rest - d \in Int
    <3>1. shift \in 0 .. LogTable - 1 /\ rest \in Int /\ i + 1 \in Nat \ {0}
      BY <2>2 DEF Moving
    <3>2. d \in Nat
      BY <3>1, EntryIs, Pow2Equation
    <3>3. QED
      BY <3>1, <3>2
  <2> HIDE DEF d
  <2>5. \/ bins' = [bins EXCEPT ![s] = i + 1] /\ rest' = rest + d
        \/ bins' = [bins EXCEPT ![s] = i] /\ rest' = rest - d
    BY <2>3 DEF Moved, d
  <2>6. Moving(raw, counts, bins', shift, rest', omit)
    BY <2>2, <2>4, <2>5, MoveTyped
  <2>7. QED
    BY <2>1, <2>6 DEF HistogramInv
<1>5. CASE EndRebalance
  <2>1. /\ phase = "rebalance" /\ raw' = raw /\ shift' = shift
        /\ phase' = "failed" \/ (phase' = "search" /\ Keeps(best'.frequencies, raw))
    BY <1>5, Considered DEF HistogramInv
  <2>2. QED
    BY <2>1 DEF HistogramInv
<1>6. CASE EndSearch
  BY <1>6 DEF EndSearch, HistogramInv, histogram
<1>7. CASE StartTables \/ Level \/ BuildTables \/ EncodeToken \/ Write
  <2>1. phase' \in {"coding", "failed", "level", "written"}
    BY <1>7, SearchOver
  <2>2. QED
    BY <2>1 DEF HistogramInv
<1>8. CASE UNCHANGED vars
  <2>1. /\ phase' = phase /\ raw' = raw /\ best' = best /\ shift' = shift /\ counts' = counts
        /\ bins' = bins /\ rest' = rest /\ omit' = omit
    BY <1>8 DEF vars, histogram
  <2>2. QED
    BY <2>1 DEF HistogramInv
<1>9. QED
  BY <1>1, <1>2, <1>3, <1>4, <1>5, <1>6, <1>7, <1>8 DEF Next

(* A step between two states that read the array keeps the accounts.        *)
LEMMA AccountsStep ==
  HistogramInv /\ AccountsInv /\ InArray /\ InArray' /\ [Next]_vars => AccountsInv'
<1> SUFFICES ASSUME HistogramInv, AccountsInv, InArray, InArray', [Next]_vars PROVE AccountsInv'
  OBVIOUS
<1>1. CASE NormalizeFew
  <2>1. phase' = "chosen" /\ Fit(best'.frequencies, raw')
    BY <1>1, FewFit
  <2>2. QED
    BY <2>1 DEF AccountsInv
<1>2. CASE ConsiderFlat
  <2>1. phase' = "search" /\ Fit(best'.frequencies, raw')
    BY <1>2, FlatFit
  <2>2. QED
    BY <2>1 DEF AccountsInv
<1>3. CASE StartRebalance
  <2>1. /\ phase = "search" /\ phase' = "rebalance" /\ raw' = raw /\ best' = best
        /\ Searching(raw', counts', bins', shift', rest', omit')
    BY <1>3, RebalanceStarts
  <2>2. QED
    BY <2>1 DEF AccountsInv
<1>4. CASE Increase \/ Decrease
  <2>1. /\ phase = "rebalance" /\ phase' = phase /\ raw' = raw /\ best' = best
        /\ shift' = shift /\ counts' = counts /\ omit' = omit
    BY <1>4 DEF Increase, Decrease
  <2>2. /\ Counted(raw) /\ Searching(raw, counts, bins, shift, rest, omit)
        /\ Within(bins) /\ Within(bins')
    BY <2>1 DEF HistogramInv, AccountsInv, InArray
  <2>3. PICK s \in DOMAIN bins, i \in Nat \ {0} : Moved(s, i, Pow2[Entry(shift, i + 1).step])
    BY <1>4, <2>2, MovesOne DEF Searching
  <2> DEFINE d == Pow2[Entry(shift, i + 1).step]
  <2>4. /\ bins[s] = i => bins' = [bins EXCEPT ![s] = i + 1] /\ rest' = rest + d
        /\ bins[s] = i + 1 => bins' = [bins EXCEPT ![s] = i] /\ rest' = rest - d
        /\ bins[s] = i \/ bins[s] = i + 1
    BY <2>3 DEF Moved
  <2>5. i + 1 <= Table
    <3>1. CASE bins[s] = i + 1
      BY <2>2, <3>1 DEF Within
    <3>2. CASE bins[s] = i
      <4>1. bins'[s] = i + 1 /\ s \in DOMAIN bins'
        BY <2>4, <3>2
      <4>2. QED
        BY <2>2, <4>1 DEF Within
    <3>3. QED
      BY <2>4, <3>1, <3>2
  <2> HIDE DEF d
  <2>6. /\ bins[s] = i => Searching(raw, counts, [bins EXCEPT ![s] = i + 1], shift, rest + d, omit)
        /\ bins[s] = i + 1 => Searching(raw, counts, [bins EXCEPT ![s] = i], shift, rest - d, omit)
    BY <2>2, <2>5, MoveKept DEF d
  <2>7. Searching(raw, counts, bins', shift, rest', omit)
    BY <2>4, <2>6
  <2>8. QED
    BY <2>1, <2>7 DEF AccountsInv
<1>5. CASE EndRebalance
  <2>1. /\ phase = "rebalance" /\ raw' = raw
        /\ \/ phase' = "failed"
           \/ phase' = "search" /\ best' = best
           \/ phase' = "search" /\ best' = Settle /\ rest > 0 /\ Accepts(Settle.frequencies)
    BY <1>5, Considered
  <2>2. /\ Counted(raw) /\ Searching(raw, counts, bins, shift, rest, omit)
        /\ Within(bins) /\ Fit(best.frequencies, raw)
    BY <2>1 DEF HistogramInv, AccountsInv, InArray
  <2>3. rest > 0 /\ Accepts(Settle.frequencies) => Fit(Settle.frequencies, raw)
    BY <2>2, SettleFits
  <2>4. phase' = "failed" \/ (phase' = "search" /\ Fit(best'.frequencies, raw'))
    BY <2>1, <2>2, <2>3
  <2>5. QED
    BY <2>4 DEF AccountsInv
<1>6. CASE EndSearch
  BY <1>6 DEF EndSearch, AccountsInv, histogram
<1>7. CASE StartTables \/ Level \/ BuildTables \/ EncodeToken \/ Write
  <2>1. phase' \in {"coding", "failed", "level", "written"}
    BY <1>7, SearchOver
  <2>2. QED
    BY <2>1 DEF AccountsInv
<1>8. CASE UNCHANGED vars
  <2>1. /\ phase' = phase /\ raw' = raw /\ best' = best /\ shift' = shift /\ counts' = counts
        /\ bins' = bins /\ rest' = rest /\ omit' = omit
    BY <1>8 DEF vars, histogram
  <2>2. QED
    BY <2>1 DEF AccountsInv
<1>9. QED
  BY <1>1, <1>2, <1>3, <1>4, <1>5, <1>6, <1>7, <1>8 DEF Next

-------------------------------------------------------------------------------
(* What holds while the tables are built and once they are.                 *)
Coded(t) ==
  /\ t.logAlpha \in LogAlphas
  /\ Fills(t.frequencies, t.logAlpha)
  /\ \A s \in t.seen : s \in DOMAIN t.frequencies /\ t.frequencies[s] # 0 /\ ExtraWidth[s] \in Nat
Levelling(t, l) ==
  IF Filling(t.frequencies) = {}
    THEN LevelInv(l, Slots(t.logAlpha), EntrySize(t.logAlpha), FullOf(t.frequencies, t.logAlpha))
  ELSE l.over = <<>>
Ready(t) ==
  /\ Coded(t)
  /\ t.offsets = [s \in DOMAIN t.frequencies |-> Start(t.frequencies, s)]
  /\ ReverseFinds(t.reverse, t.alias, t.frequencies, t.logAlpha)

TablesInv ==
  /\ phase \in {"counted", "search", "rebalance", "chosen"} => tables = <<>>
  /\ phase = "level" =>
       /\ Coded(tables) /\ Levelling(tables, level)
       /\ tables = [seen |-> tables.seen, frequencies |-> tables.frequencies,
                    logAlpha |-> tables.logAlpha,
                    alias |-> <<>>, offsets |-> <<>>, reverse |-> <<>>]
  /\ phase \in {"coding", "written"} /\ tables # <<>> => Ready(tables)

(* Frequencies that fill the table are what the tables are made for.        *)
LEMMA ChosenFills ==
  ASSUME NEW r, Counted(r), NEW f, Keeps(f, r), NEW logAlpha \in LogAlphas,
         Cardinality(DOMAIN f) <= Pow2[logAlpha]
  PROVE  /\ Total(f) = Table => Fills(f, logAlpha)
         /\ \A s \in Populated(r) : s \in DOMAIN f /\ f[s] # 0 /\ ExtraWidth[s] \in Nat
<1> DEFINE D == DOMAIN r
           n == Cardinality(D)
<1>1. /\ n \in 0 .. Table /\ D = 0 .. n - 1 /\ IsFiniteSet(D)
      /\ \A s \in D : ExtraWidth[s] \in Nat
  BY CountedType
<1>2. f \in [D -> Nat] /\ DOMAIN f = D /\ \A s \in Populated(r) : f[s] # 0
  BY DEF Keeps
<1>3. n \in Nat /\ n <= Pow2[logAlpha] /\ f \in [0 .. n - 1 -> Nat]
  <2>1. Table \in Nat
    BY Sizes
  <2> HIDE DEF n
  <2>2. n \in Nat
    BY <1>1, <2>1
  <2>3. n <= Pow2[logAlpha]
    BY <1>2 DEF n
  <2>4. QED
    BY <1>1, <1>2, <2>2, <2>3
<1>4. \A s \in Populated(r) : s \in D
  BY DEF Populated
<1> HIDE DEF D, n
<1>5. Total(f) = Table => Fills(f, logAlpha)
  BY <1>3 DEF Fills
<1>6. QED
  BY <1>1, <1>2, <1>4, <1>5

(* Levelling starts with its invariant, or with nothing to do.              *)
LEMMA LevellingStarts ==
  ASSUME NEW t, t.logAlpha \in LogAlphas, Fills(t.frequencies, t.logAlpha)
  PROVE  Levelling(t, Unlevelled(t.frequencies, t.logAlpha))
<1> DEFINE f == t.frequencies
           a == t.logAlpha
<1>1. CASE Filling(f) = {}
  BY <1>1, LevelStart DEF Levelling
<1>2. CASE Filling(f) # {}
  <2> DEFINE over == {i \in {} : Full(f, i) > EntrySize(a)}
  <2>1. Unlevelled(f, a).over = Ascending(over)
    BY <1>2 DEF Unlevelled, Overfull
  <2>2. over = {}
    OBVIOUS
  <2> HIDE DEF over
  <2>3. over \in SUBSET Nat /\ IsFiniteSet(over) /\ Cardinality(over) = 0
    BY <2>2, FS_EmptySet
  <2>4. Ascending(over) \in Seq(over) /\ Len(Ascending(over)) = 0
    BY <2>3, AscendingSorts
  <2>5. Ascending(over) = <<>>
    BY <2>4
  <2>6. QED
    BY <1>2, <2>1, <2>5 DEF Levelling
<1>3. QED
  BY <1>1, <1>2

(* One more underfull slot is filled; there is one as long as any is overfull. *)
LEMMA LevellingGoesOn ==
  ASSUME NEW t, Coded(t), NEW l, Levelling(t, l), l.over # <<>>
  PROVE  l.under # <<>> /\ Levelling(t, Levelled(l, EntrySize(t.logAlpha)))
<1> DEFINE f == t.frequencies
           a == t.logAlpha
           slots == Slots(a)
           size == EntrySize(a)
           full == FullOf(f, a)
<1>1. a \in LogAlphas /\ Fills(f, a)
  BY DEF Coded
<1>2. Filling(f) = {} /\ LevelInv(l, slots, size, full)
  BY DEF Levelling
<1>3. IsFiniteSet(slots) /\ size \in Nat \ {0} /\ full \in [slots -> Nat]
  BY <1>1, SlotsFinite, EntrySizes, FillsType
<1> HIDE DEF slots, size, full
<1>4. l.under # <<>>
  BY <1>2, <1>3, LevelBalanced
<1>5. LevelInv(Levelled(l, size), slots, size, full)
  BY <1>2, <1>3, <1>4, LevelStep
<1>6. QED
  BY <1>2, <1>4, <1>5 DEF Levelling, slots, size, full

(* Once no slot is overfull, the tables fit and undo each other.            *)
LEMMA LevellingDone ==
  ASSUME NEW t, Coded(t), NEW l, Levelling(t, l), l.over = <<>>
  PROVE  LET alias == AliasTable(l, t.frequencies, t.logAlpha)
         IN /\ TableFits(alias, t.frequencies, t.logAlpha)
            /\ ReverseFinds(ReverseMap(alias, t.frequencies, t.logAlpha), alias,
                            t.frequencies, t.logAlpha)
<1> DEFINE f == t.frequencies
           a == t.logAlpha
<1>1. a \in LogAlphas /\ Fills(f, a)
  BY DEF Coded
<1>2. Filling(f) = {} => LevelInv(l, Slots(a), EntrySize(a), FullOf(f, a)) /\ l.over = <<>>
  BY DEF Levelling
<1> HIDE DEF f, a
<1>3. LET alias == AliasTable(l, f, a)
      IN TableFits(alias, f, a) /\ ReverseFinds(ReverseMap(alias, f, a), alias, f, a)
  BY <1>1, <1>2, TablesInvert
<1>4. QED
  BY <1>3 DEF f, a

(* No tables before the search ends.                                        *)
LEMMA TablesInit ==
  Init => TablesInv
BY DEF Init, TablesInv

(* The tables are built for frequencies that fill them, and then stay.      *)
LEMMA TablesStep ==
  /\ HistogramInv /\ TablesInv /\ [Next]_vars => TablesInv'
  /\ HistogramInv /\ TablesInv /\ [Next]_vars /\ phase \in {"level", "coding"}
       => phase' # "failed"
<1> SUFFICES ASSUME HistogramInv, TablesInv, [Next]_vars
             PROVE  TablesInv' /\ (phase \in {"level", "coding"} => phase' # "failed")
  OBVIOUS
<1>1. CASE StartTables
  <2>1. /\ phase = "chosen" /\ Counted(raw) /\ Keeps(best.frequencies, raw) /\ tables = <<>>
    BY <1>1 DEF StartTables, HistogramInv, TablesInv
  <2> DEFINE f == best.frequencies
  <2>2. PICK logAlpha \in LogAlphas :
          /\ Cardinality(DOMAIN f) <= Pow2[logAlpha]
          /\ IF f = <<>> THEN phase' = "coding" /\ UNCHANGED <<level, tables>>
             ELSE IF Total(f) # Table THEN phase' = "failed" /\ UNCHANGED <<level, tables>>
             ELSE /\ phase' = "level"
                  /\ level' = Unlevelled(f, logAlpha)
                  /\ tables' = [seen |-> Populated(raw), frequencies |-> f,
                                logAlpha |-> logAlpha,
                                alias |-> <<>>, offsets |-> <<>>, reverse |-> <<>>]
    BY <1>1 DEF StartTables
  <2> HIDE DEF f
  <2>3. /\ Total(f) = Table => Fills(f, logAlpha)
        /\ \A s \in Populated(raw) : s \in DOMAIN f /\ f[s] # 0 /\ ExtraWidth[s] \in Nat
    BY <2>1, <2>2, ChosenFills DEF f
  <2>4. CASE f = <<>>
    <3>1. phase' = "coding" /\ tables' = <<>>
      BY <2>1, <2>2, <2>4
    <3>2. QED
      BY <3>1 DEF TablesInv
  <2>5. CASE f # <<>> /\ Total(f) # Table
    <3>1. phase' = "failed"
      BY <2>2, <2>5
    <3>2. QED
      BY <2>1, <3>1 DEF TablesInv
  <2>6. CASE f # <<>> /\ Total(f) = Table
    <3>1. /\ phase' = "level" /\ level' = Unlevelled(f, logAlpha)
          /\ tables' = [seen |-> Populated(raw), frequencies |-> f, logAlpha |-> logAlpha,
                        alias |-> <<>>, offsets |-> <<>>, reverse |-> <<>>]
      BY <2>2, <2>3, <2>6
    <3>2. tables'.seen = Populated(raw) /\ tables'.frequencies = f /\ tables'.logAlpha = logAlpha
      BY <3>1
    <3>3. Coded(tables')
      BY <2>3, <2>6, <3>2 DEF Coded
    <3>4. Levelling(tables', level')
      <4>1. Levelling(tables', Unlevelled(tables'.frequencies, tables'.logAlpha))
        BY <3>3, LevellingStarts DEF Coded
      <4>2. QED
        BY <3>1, <3>2, <4>1
    <3>5. tables' = [seen |-> tables'.seen, frequencies |-> tables'.frequencies,
                     logAlpha |-> tables'.logAlpha,
                     alias |-> <<>>, offsets |-> <<>>, reverse |-> <<>>]
      BY <3>1, <3>2
    <3>6. QED
      BY <3>1, <3>3, <3>4, <3>5 DEF TablesInv
  <2>7. QED
    BY <2>4, <2>5, <2>6
<1>2. CASE Level
  <2>1. /\ phase = "level" /\ level.over # <<>> /\ tables' = tables
        /\ IF level.under = <<>> THEN phase' = "failed" /\ UNCHANGED level
           ELSE phase' = phase /\ level' = Levelled(level, EntrySize(tables.logAlpha))
    BY <1>2 DEF Level
  <2>2. Coded(tables) /\ Levelling(tables, level)
    BY <2>1 DEF TablesInv
  <2>3. level.under # <<>> /\ Levelling(tables, Levelled(level, EntrySize(tables.logAlpha)))
    BY <2>1, <2>2, LevellingGoesOn
  <2>4. phase' = phase /\ Levelling(tables', level')
    BY <2>1, <2>3
  <2>5. QED
    BY <2>1, <2>4 DEF TablesInv
<1>3. CASE BuildTables
  <2> DEFINE f == tables.frequencies
             a == tables.logAlpha
             alias == AliasTable(level, f, a)
             offsets == [s \in DOMAIN f |-> Start(f, s)]
             reverse == ReverseMap(alias, f, a)
  <2>1. /\ phase = "level" /\ level.over = <<>>
        /\ IF TableFits(alias, f, a)
             THEN /\ phase' = "coding"
                  /\ tables' = [tables EXCEPT !.alias = alias, !.offsets = offsets, !.reverse = reverse]
           ELSE phase' = "failed" /\ UNCHANGED tables
    BY <1>3 DEF BuildTables
  <2>2. /\ Coded(tables) /\ Levelling(tables, level)
        /\ tables = [seen |-> tables.seen, frequencies |-> tables.frequencies,
                     logAlpha |-> tables.logAlpha,
                     alias |-> <<>>, offsets |-> <<>>, reverse |-> <<>>]
    BY <2>1 DEF TablesInv
  <2>3. TableFits(alias, f, a) /\ ReverseFinds(reverse, alias, f, a)
    BY <2>1, <2>2, LevellingDone
  <2> HIDE DEF alias, offsets, reverse
  <2>4. /\ phase' = "coding"
        /\ tables' = [tables EXCEPT !.alias = alias, !.offsets = offsets, !.reverse = reverse]
    BY <2>1, <2>3
  <2>5. /\ tables'.seen = tables.seen /\ tables'.frequencies = f /\ tables'.logAlpha = a
        /\ tables'.alias = alias /\ tables'.offsets = offsets /\ tables'.reverse = reverse
    BY <2>2, <2>4
  <2>6. Coded(tables')
    BY <2>2, <2>5 DEF Coded
  <2>7. Ready(tables')
    BY <2>3, <2>5, <2>6 DEF Ready, offsets
  <2>8. QED
    BY <2>4, <2>7 DEF TablesInv
<1>4. CASE EncodeToken
  <2>1. /\ phase = "coding" /\ tables # <<>> /\ tables' = tables
        /\ \E s \in tables.seen : \E extra \in 0..(Pow2[ExtraWidth[s]] - 1) :
             IF tables.frequencies[s] = 0
               THEN phase' = "failed" /\ UNCHANGED <<tokens, state, chunks>>
               ELSE EncodeSymbol(s, extra)
    BY <1>4 DEF EncodeToken
  <2>2. Ready(tables) /\ \A s \in tables.seen : tables.frequencies[s] # 0
    BY <2>1 DEF TablesInv, Ready, Coded
  <2>3. phase' = phase
    BY <2>1, <2>2 DEF EncodeSymbol
  <2>4. QED
    BY <2>1, <2>2, <2>3 DEF TablesInv
<1>5. CASE Write
  <2>1. phase = "coding" /\ phase' = "written" /\ tables' = tables
    BY <1>5 DEF Write
  <2>2. QED
    BY <2>1 DEF TablesInv
<1>6. ASSUME \/ NormalizeFew \/ ConsiderFlat \/ StartRebalance \/ Increase \/ Decrease
             \/ EndRebalance \/ EndSearch
      PROVE  TablesInv' /\ (phase \in {"level", "coding"} => phase' # "failed")
  <2>1. /\ phase \in {"counted", "search", "rebalance"} /\ tables' = tables
        /\ phase' \in {"counted", "search", "rebalance", "chosen", "failed"}
    <3>1. CASE NormalizeFew
      BY <3>1 DEF NormalizeFew, coding
    <3>2. CASE ConsiderFlat
      BY <3>2 DEF ConsiderFlat, coding
    <3>3. CASE StartRebalance
      BY <3>3 DEF StartRebalance, coding
    <3>4. CASE Increase
      BY <3>4 DEF Increase, coding
    <3>5. CASE Decrease
      BY <3>5 DEF Decrease, coding
    <3>6. CASE EndRebalance
      BY <3>6 DEF EndRebalance, Consider, coding
    <3>7. CASE EndSearch
      BY <3>7 DEF EndSearch, coding
    <3>8. QED
      BY <1>6, <3>1, <3>2, <3>3, <3>4, <3>5, <3>6, <3>7
  <2>2. tables = <<>>
    BY <2>1 DEF TablesInv
  <2>3. QED
    BY <2>1, <2>2 DEF TablesInv
<1>7. CASE UNCHANGED vars
  <2>1. phase' = phase /\ tables' = tables /\ level' = level
    BY <1>7 DEF vars, coding
  <2>2. TablesInv'
    BY <2>1 DEF TablesInv
  <2>3. QED
    BY <2>1, <2>2
<1>8. QED
  BY <1>1, <1>2, <1>3, <1>4, <1>5, <1>6, <1>7 DEF Next

-------------------------------------------------------------------------------
(* The chunks are written backwards.                                        *)
LEMMA ReverseAppended ==
  ASSUME NEW S, NEW q \in Seq(S), NEW a \in S
  PROVE  /\ Reverse(q) \in Seq(S) /\ q \o <<a>> \in Seq(S)
         /\ Reverse(q \o <<a>>) = <<a>> \o Reverse(q)
<1> DEFINE n == Len(q)
           p == q \o <<a>>
           r == Reverse(q)
           u == Reverse(p)
           w == <<a>> \o r
<1>1. n \in Nat /\ p \in Seq(S) /\ Len(p) = n + 1 /\ p[n + 1] = a
      /\ \A i \in 1 .. n : p[i] = q[i] /\ q[i] \in S
  OBVIOUS
<1> HIDE DEF p, n
<1>2. r = [i \in 1 .. n |-> q[(n - i) + 1]]
  BY DEF Reverse, n
<1>3. u = [i \in 1 .. n + 1 |-> p[((n + 1) - i) + 1]]
  BY <1>1 DEF Reverse
<1> HIDE DEF r, u
<1>4. \A i \in 1 .. n : (n - i) + 1 \in 1 .. n /\ r[i] \in S
  BY <1>1, <1>2
<1>5. r \in Seq(S) /\ Len(r) = n
  BY <1>1, <1>2, <1>4
<1>6. /\ w \in Seq(S) /\ Len(w) = n + 1 /\ w[1] = a
      /\ \A i \in 2 .. n + 1 : w[i] = r[i - 1]
  BY <1>1, <1>5
<1> HIDE DEF w
<1>7. u \in Seq(S) /\ Len(u) = n + 1
  <2>1. \A i \in 1 .. n + 1 : u[i] \in S
    <3> TAKE i \in 1 .. n + 1
    <3>1. ((n + 1) - i) + 1 \in 1 .. n + 1
      BY <1>1
    <3>2. u[i] = p[((n + 1) - i) + 1]
      BY <1>3
    <3>3. QED
      BY <1>1, <3>1, <3>2
  <2>2. QED
    BY <1>1, <1>3, <2>1
<1>8. \A i \in 1 .. n + 1 : u[i] = w[i]
  <2> TAKE i \in 1 .. n + 1
  <2>1. CASE i = 1
    <3>1. ((n + 1) - i) + 1 = n + 1
      BY <1>1, <2>1
    <3>2. u[i] = p[n + 1]
      BY <1>1, <1>3, <3>1
    <3>3. QED
      BY <1>1, <1>6, <2>1, <3>2
  <2>2. CASE i # 1
    <3> DEFINE k == ((n + 1) - i) + 1
    <3>1. k \in 1 .. n /\ i \in 2 .. n + 1 /\ i - 1 \in 1 .. n /\ (n - (i - 1)) + 1 = k
      BY <1>1, <2>2
    <3>2. u[i] = p[k]
      BY <1>3
    <3> HIDE DEF k
    <3>3. p[k] = q[k] /\ w[i] = r[i - 1] /\ r[i - 1] = q[k]
      BY <1>1, <1>2, <1>6, <3>1
    <3>4. QED
      BY <3>2, <3>3
  <2>3. QED
    BY <2>1, <2>2
<1>9. u = w
  BY <1>6, <1>7, <1>8
<1>10. QED
  BY <1>1, <1>5, <1>9 DEF r, u, w, p

(* What is put in front comes first, and the rest follows.                  *)
LEMMA Prepended ==
  ASSUME NEW S, NEW q \in Seq(S), NEW a \in S
  PROVE  /\ <<a>> \o q \in Seq(S) /\ <<a>> \o q # <<>>
         /\ Head(<<a>> \o q) = a /\ Tail(<<a>> \o q) = q /\ Len(<<a>> \o q) = Len(q) + 1
         /\ (<<a>> \o q)[1] = a /\ \A i \in 1 .. Len(q) : (<<a>> \o q)[i + 1] = q[i]
<1> DEFINE w == <<a>> \o q
           t == Tail(w)
<1>1. w \in Seq(S) /\ Len(w) = Len(q) + 1 /\ w[1] = a /\ Len(q) \in Nat
      /\ \A i \in 1 .. Len(q) : w[i + 1] = q[i]
  OBVIOUS
<1> HIDE DEF w
<1>2. w # <<>> /\ Head(w) = a
  BY <1>1
<1>3. t \in Seq(S) /\ Len(t) = Len(q) /\ \A i \in 1 .. Len(q) : t[i] = w[i + 1]
  BY <1>1, <1>2
<1> HIDE DEF t
<1>4. t = q
  BY <1>1, <1>3
<1>5. QED
  BY <1>1, <1>2, <1>4 DEF w, t

-------------------------------------------------------------------------------
(* What one step of the decoder does, for each of its branches: the symbol  *)
(* that the low bits stand for, the refill, and the bits behind it.         *)
Undone(v, q, s, o, x, y, w, extra, refilled, rest2) ==
  /\ Lookup(tables.alias, tables.logAlpha, v % Table) = <<s, o>>
  /\ x = tables.frequencies[s] * (v \div Table) + o
  /\ \/ ~(x < ChunkSize) /\ y = x /\ refilled = q
     \/ /\ x < ChunkSize /\ q # <<>> /\ Head(q).bits = ChunkBits
        /\ y = x * ChunkSize + Head(q).value /\ refilled = Tail(q)
  /\ w = ExtraWidth[s]
  /\ \/ w = 0 /\ extra = 0 /\ rest2 = refilled
     \/ /\ w # 0 /\ refilled # <<>> /\ Head(refilled).bits = w
        /\ extra = Head(refilled).value /\ rest2 = Tail(refilled)

(* A decoder in such a state reads the symbol and its extra bits, and is    *)
(* left with the rest.                                                      *)
LEMMA DecodesTo ==
  ASSUME NEW v, NEW q, NEW t, NEW u, NEW s, NEW o, NEW x, NEW y, NEW w, NEW extra,
         NEW rest1, NEW rest2, Undone(v, q, s, o, x, y, w, extra, rest1, rest2)
  PROVE  DecodeToken([state |-> v, left |-> q, token |-> t, value |-> u, ok |-> TRUE])
           = [state |-> y, left |-> rest2, token |-> [symbol |-> s, extra |-> extra],
              value |-> extra, ok |-> TRUE]
<1>a. /\ Lookup(tables.alias, tables.logAlpha, v % Table) = <<s, o>>
      /\ x = tables.frequencies[s] * (v \div Table) + o
      /\ \/ ~(x < ChunkSize) /\ y = x /\ rest1 = q
         \/ /\ x < ChunkSize /\ q # <<>> /\ Head(q).bits = ChunkBits
            /\ y = x * ChunkSize + Head(q).value /\ rest1 = Tail(q)
      /\ w = ExtraWidth[s]
      /\ \/ w = 0 /\ extra = 0 /\ rest2 = rest1
         \/ /\ w # 0 /\ rest1 # <<>> /\ Head(rest1).bits = w
            /\ extra = Head(rest1).value /\ rest2 = Tail(rest1)
  BY DEF Undone
<1> DEFINE d == [state |-> v, left |-> q, token |-> t, value |-> u, ok |-> TRUE]
           at == Lookup(tables.alias, tables.logAlpha, d.state % Table)
           xx == tables.frequencies[at[1]] * (d.state \div Table) + at[2]
           refill == Take(d, ChunkBits)
           e == IF xx < Pow2[ChunkBits]
                  THEN [refill EXCEPT !.state = xx * Pow2[ChunkBits] + refill.value]
                  ELSE [d EXCEPT !.state = xx]
           f == IF ExtraWidth[at[1]] = 0 THEN [e EXCEPT !.value = 0]
                ELSE Take(e, ExtraWidth[at[1]])
<1>1. DecodeToken(d) = IF ~d.ok THEN d
                       ELSE [f EXCEPT !.token = [symbol |-> at[1], extra |-> f.value]]
  BY Zenon DEF DecodeToken
<1>2. at = <<s, o>>
  BY <1>a
<1>3. at[1] = s /\ at[2] = o /\ d.ok = TRUE
  BY <1>2
<1> HIDE DEF at
<1>4. xx = x /\ Pow2[ChunkBits] = ChunkSize /\ ExtraWidth[at[1]] = w
  BY <1>a, <1>3 DEF ChunkSize
<1> HIDE DEF xx
<1>5. \E z : e = [state |-> y, left |-> rest1, token |-> t, value |-> z, ok |-> TRUE]
  <2>1. CASE ~(x < ChunkSize) /\ y = x /\ rest1 = q
    <3>1. e = [d EXCEPT !.state = x]
      BY <1>4, <2>1
    <3>2. e = [state |-> y, left |-> rest1, token |-> t, value |-> u, ok |-> TRUE]
      BY <2>1, <3>1
    <3>3. QED
      BY <3>2
  <2>2. CASE /\ x < ChunkSize /\ q # <<>> /\ Head(q).bits = ChunkBits
             /\ y = x * ChunkSize + Head(q).value /\ rest1 = Tail(q)
    <3>1. d.left # <<>> /\ Head(d.left).bits = ChunkBits
      BY <2>2
    <3>2. refill = [d EXCEPT !.left = Tail(d.left), !.value = Head(d.left).value]
      BY <3>1 DEF Take
    <3> DEFINE z == Head(q).value
    <3>3. refill = [state |-> v, left |-> rest1, token |-> t, value |-> z, ok |-> TRUE]
      BY <2>2, <3>2
    <3> HIDE DEF refill
    <3>4. refill.value = z
      BY <3>3
    <3>5. e = [refill EXCEPT !.state = x * ChunkSize + z]
      BY <1>4, <2>2, <3>4
    <3>6. x * ChunkSize + z = y
      BY <2>2
    <3> HIDE DEF e, z
    <3>7. e = [state |-> y, left |-> rest1, token |-> t, value |-> z, ok |-> TRUE]
      BY <3>3, <3>5, <3>6
    <3>8. QED
      BY <3>7
  <2>3. QED
    BY <1>a, <2>1, <2>2
<1>6. PICK z : e = [state |-> y, left |-> rest1, token |-> t, value |-> z, ok |-> TRUE]
  BY <1>5
<1> HIDE DEF e, d
<1>7. f = [state |-> y, left |-> rest2, token |-> t, value |-> extra, ok |-> TRUE]
  <2>1. CASE w = 0 /\ extra = 0 /\ rest2 = rest1
    <3>1. f = [e EXCEPT !.value = 0]
      BY <1>4, <2>1
    <3>2. QED
      BY <1>6, <2>1, <3>1
  <2>2. CASE /\ w # 0 /\ rest1 # <<>> /\ Head(rest1).bits = w
             /\ extra = Head(rest1).value /\ rest2 = Tail(rest1)
    <3>1. e.left = rest1
      BY <1>6
    <3>2. f = [e EXCEPT !.left = Tail(e.left), !.value = Head(e.left).value]
      BY <1>4, <2>2, <3>1 DEF Take
    <3>3. f = [e EXCEPT !.left = rest2, !.value = extra]
      BY <2>2, <3>1, <3>2
    <3> HIDE DEF f
    <3>4. QED
      BY <1>6, <3>3
  <2>3. QED
    BY <1>a, <2>1, <2>2
<1> HIDE DEF f
<1>8. f.value = extra
  BY <1>7
<1>9. DecodeToken(d) = [f EXCEPT !.token = [symbol |-> s, extra |-> extra]]
  BY <1>1, <1>3, <1>8
<1> DEFINE token == [symbol |-> s, extra |-> extra]
<1> HIDE DEF token
<1>10. DecodeToken(d) = [f EXCEPT !.token = token]
  BY <1>9 DEF token
<1>11. DecodeToken(d) = [state |-> y, left |-> rest2, token |-> token, value |-> extra, ok |-> TRUE]
  BY <1>7, <1>10
<1>12. QED
  BY <1>11 DEF d, token

-------------------------------------------------------------------------------
(* One step of the encoder: the state stays in its range, its low bits find *)
(* the symbol again, and what a renormalization moved out refills it.       *)
LEMMA Encodes ==
  ASSUME Ready(tables), NEW s \in tables.seen, NEW v \in Nat,
         ChunkSize <= v, v < ChunkSize * ChunkSize
  PROVE  LET f == tables.frequencies[s]
             spill == MustRenormalize(v, f)
             x == IF spill THEN v \div ChunkSize ELSE v
             q == Quotient(x, f)
             y == q * Table + tables.reverse[tables.offsets[s] + x - q * f]
         IN /\ spill \in BOOLEAN /\ v % ChunkSize \in Nat
            /\ y \in Nat /\ ChunkSize <= y /\ y < ChunkSize * ChunkSize
            /\ \E o \in Nat : /\ Lookup(tables.alias, tables.logAlpha, y % Table) = <<s, o>>
                              /\ x = f * (y \div Table) + o
            /\ spill => x < ChunkSize /\ v = x * ChunkSize + (v % ChunkSize)
            /\ ~spill => x = v /\ ~(x < ChunkSize)
<1> DEFINE f == tables.frequencies[s]
           C == ChunkSize
           T == Table
           R == Ratio
           spill == MustRenormalize(v, f)
           x == IF spill THEN v \div C ELSE v
           q == Quotient(x, f)
           base == Start(tables.frequencies, s)
           slot == tables.reverse[tables.offsets[s] + x - q * f]
           y == q * T + slot
<1>1. /\ T \in Nat \ {0} /\ C \in Nat \ {0} /\ R \in Nat \ {0} /\ C = R * T
      /\ Pow2[StateBits - LogTable] = C * R
  BY Sizes
<1>2. /\ s \in DOMAIN tables.frequencies /\ f \in Nat \ {0} /\ f <= T /\ base \in Nat
      /\ tables.offsets[s] = base
      /\ \A i \in Nat : i < f =>
           /\ tables.reverse[base + i] \in 0 .. T - 1
           /\ Lookup(tables.alias, tables.logAlpha, tables.reverse[base + i]) = <<s, i>>
  <2> DEFINE g == tables.frequencies
             a == tables.logAlpha
  <2>1. a \in LogAlphas /\ Fills(g, a) /\ s \in DOMAIN g /\ g[s] # 0
    BY DEF Ready, Coded
  <2>2. tables.offsets = [i \in DOMAIN g |-> Start(g, i)] /\ ReverseFinds(tables.reverse, tables.alias, g, a)
    BY DEF Ready
  <2> HIDE DEF g
  <2>3. PICK n \in Nat : n <= Pow2[a] /\ g \in [0 .. n - 1 -> Nat]
    BY <2>1 DEF Fills
  <2>4. DOMAIN g = 0 .. n - 1
    BY <2>3
  <2>5. SumOver(g, 0 .. n - 1) = T
    BY <2>1, <2>4, FillsType
  <2>6. s \in 0 .. n - 1
    BY <2>1, <2>4
  <2>7. Start(g, s) \in Nat /\ g[s] \in Nat
    BY <2>3, <2>6, StartSum
  <2>8. Start(g, s) + g[s] <= T
    BY <2>3, <2>5, <2>6, StartsApart
  <2>9. g[s] <= T
    BY <1>1, <2>7, <2>8
  <2>10. tables.offsets[s] = Start(g, s)
    BY <2>1, <2>2
  <2>11. \A i \in Nat : i < g[s] =>
           /\ tables.reverse[Start(g, s) + i] \in 0 .. T - 1
           /\ Lookup(tables.alias, a, tables.reverse[Start(g, s) + i]) = <<s, i>>
    BY <2>1, <2>2 DEF ReverseFinds
  <2>12. g[s] \in Nat \ {0}
    BY <2>1, <2>7
  <2>13. QED
    BY <2>1, <2>7, <2>9, <2>10, <2>11, <2>12 DEF g
<1>3. spill = (v \div (C * R) >= f) /\ spill \in BOOLEAN
  BY <1>1 DEF MustRenormalize
<1> HIDE DEF spill, f, C, T, R, base
<1> DEFINE CR == C * R
<1>4. CR \in Nat \ {0} /\ C * C = CR * T /\ f * R \in Nat /\ f * CR \in Nat /\ f * CR = (f * R) * C
  BY <1>1, <1>2
<1>5. v \in Nat /\ C <= v /\ v < C * C
  BY DEF C
<1> DEFINE h == v \div CR
<1>6. h \in Nat /\ v % CR \in Nat /\ v % CR < CR /\ v = CR * h + (v % CR)
  BY <1>4, <1>5, DivMod
<1>7. spill = (h >= f)
  BY <1>3
<1> HIDE DEF h, CR
<1>8. v % C \in Nat /\ v % C < C /\ v \div C \in Nat /\ v = C * (v \div C) + (v % C)
  BY <1>1, <1>5, DivMod
<1> DEFINE m == v \div C
           k == v % C
<1> HIDE DEF m, k
<1>9. /\ x \in Nat /\ f * R <= x /\ x < f * CR /\ x < C * C
      /\ spill => x < C /\ v = x * C + k
      /\ ~spill => x = v /\ ~(x < C)
  <2>1. CASE spill
    <3>1. x = m /\ m \in Nat /\ k \in Nat /\ k < C /\ v = C * m + k
      BY <1>8, <2>1 DEF m, k
    <3> HIDE DEF x
    <3>2. f <= h
      BY <1>2, <1>6, <1>7, <2>1
    <3>3. CR * f <= CR * h
      BY <1>2, <1>4, <1>6, <3>2, ProductOrder
    <3>4. (f * R) * C <= v
      <4>1. CR * f = f * CR /\ CR * h \in Nat
        BY <1>2, <1>4, <1>6
      <4> DEFINE a == CR * f
                 b == CR * h
                 w == v % CR
      <4>2. a = (f * R) * C /\ a <= b /\ b \in Nat /\ v = b + w /\ w \in Nat
        BY <1>4, <1>6, <3>3, <4>1
      <4> DEFINE z == (f * R) * C
      <4>3. z \in Nat
        BY <1>1, <1>4
      <4> HIDE DEF a, b, w, z
      <4>4. z <= v
        BY <1>5, <4>2, <4>3 DEF z
      <4>5. QED
        BY <4>4 DEF z
    <3>5. f * R <= m
      <4> SUFFICES ASSUME m + 1 <= f * R PROVE FALSE
        BY <1>4, <3>1
      <4>1. (m + 1) * C <= (f * R) * C
        BY <1>1, <1>4, <3>1, ProductOrder
      <4>2. (m + 1) * C = C * m + C
        BY <1>1, <3>1
      <4> DEFINE a == C * m
                 z == (f * R) * C
      <4>3. a \in Nat /\ z \in Nat /\ z <= v /\ a + C <= z /\ v = a + k
        BY <1>1, <1>4, <3>1, <3>4, <4>1, <4>2
      <4> HIDE DEF a, z
      <4>4. QED
        BY <1>1, <3>1, <4>3
    <3>6. m < C
      <4> SUFFICES ASSUME C <= m PROVE FALSE
        BY <1>1, <3>1
      <4>1. C * C <= C * m
        BY <1>1, <3>1, ProductOrder
      <4> DEFINE a == C * m
                 z == C * C
      <4>2. a \in Nat /\ z \in Nat /\ z <= a /\ v < z /\ v = a + k
        BY <1>1, <1>5, <3>1, <4>1
      <4> HIDE DEF a, z
      <4>3. QED
        BY <3>1, <4>2
    <3>7. C <= f * CR /\ C <= C * C
      <4>1. 1 <= f * R
        BY <1>1, <1>2
      <4>2. 1 * C <= (f * R) * C
        BY <1>1, <1>4, <4>1, ProductOrder
      <4>3. 1 * C <= C * C
        BY <1>1, ProductOrder
      <4>4. 1 * C = C
        BY <1>1
      <4>5. QED
        BY <1>4, <4>2, <4>3, <4>4
    <3>8. v = m * C + k
      BY <1>1, <3>1
    <3> DEFINE a == f * CR
               z == C * C
    <3>9. a \in Nat /\ z \in Nat /\ C <= a /\ C <= z
      BY <1>1, <1>4, <3>7
    <3> HIDE DEF a, z
    <3>10. m < a /\ m < z
      BY <1>1, <3>1, <3>6, <3>9
    <3>11. QED
      BY <2>1, <3>1, <3>5, <3>6, <3>8, <3>10 DEF a, z
  <2>2. CASE ~spill
    <3>1. x = v
      BY <2>2
    <3> HIDE DEF x
    <3>a. ~(h >= f)
      BY <1>7, <2>2, Zenon
    <3>2. h + 1 <= f
      BY <1>2, <1>6, <3>a
    <3>3. CR * (h + 1) <= CR * f
      BY <1>2, <1>4, <1>6, <3>2, ProductOrder
    <3>4. CR * (h + 1) = CR * h + CR /\ CR * f = f * CR
      BY <1>2, <1>4, <1>6
    <3>5. v < f * CR
      <4> DEFINE a == CR * h
                 b == f * CR
                 w == v % CR
      <4>1. a \in Nat /\ b \in Nat /\ w \in Nat /\ a + CR <= b /\ v = a + w /\ w < CR
        BY <1>4, <1>6, <3>3, <3>4
      <4> HIDE DEF a, b, w
      <4>2. v < b
        BY <1>4, <4>1
      <4>3. QED
        BY <4>2 DEF b
    <3>6. f * R <= v
      <4>1. f * R <= T * R
        BY <1>1, <1>2, ProductOrder
      <4>2. T * R = C
        BY <1>1
      <4> DEFINE a == f * R
      <4>3. a \in Nat /\ a <= C
        BY <1>4, <4>1, <4>2
      <4> HIDE DEF a
      <4>4. a <= v
        BY <1>1, <1>5, <4>3
      <4>5. QED
        BY <4>4 DEF a
    <3>7. ~(v < C)
      BY <1>1, <1>5
    <3>8. QED
      BY <1>5, <2>2, <3>1, <3>5, <3>6, <3>7
  <2>3. QED
    BY <1>3, <2>1, <2>2
<1> HIDE DEF x
<1> DEFINE d == x \div f
           o == x % f
<1>10. d \in Nat /\ o \in Nat /\ o < f /\ x = f * d + o
  BY <1>2, <1>9, DivMod
<1>11. q = d
  <2>1. f \in 1 .. Table /\ x < ChunkSize * ChunkSize
    BY <1>2, <1>9 DEF T, C
  <2>2. QED
    BY <1>9, <2>1, ReciprocalExact
<1> HIDE DEF d, o, q
<1>12. R <= d /\ d + 1 <= CR
  <2>1. R <= d
    <3> SUFFICES ASSUME d + 1 <= R PROVE FALSE
      BY <1>1, <1>10
    <3>1. f * (d + 1) <= f * R
      BY <1>1, <1>2, <1>10, ProductOrder
    <3>2. f * (d + 1) = f * d + f
      BY <1>2, <1>10
    <3> DEFINE a == f * d
               b == f * R
    <3>3. a \in Nat /\ b \in Nat /\ a + f <= b /\ b <= x /\ x = a + o
      BY <1>2, <1>4, <1>9, <1>10, <3>1, <3>2
    <3> HIDE DEF a, b
    <3>4. QED
      BY <1>2, <1>9, <1>10, <3>3
  <2>2. d + 1 <= CR
    <3> SUFFICES ASSUME CR <= d PROVE FALSE
      BY <1>4, <1>10
    <3>1. f * CR <= f * d
      BY <1>2, <1>4, <1>10, ProductOrder
    <3> DEFINE a == f * d
               b == f * CR
    <3>2. a \in Nat /\ b \in Nat /\ b <= a /\ x < b /\ x = a + o
      BY <1>2, <1>4, <1>9, <1>10, <3>1
    <3> HIDE DEF a, b
    <3>3. QED
      BY <1>9, <1>10, <3>2
  <2>3. QED
    BY <2>1, <2>2
<1>13. slot = tables.reverse[base + o]
  <2>1. q * f = f * d
    BY <1>2, <1>10, <1>11
  <2> DEFINE a == f * d
             b == q * f
  <2>2. a \in Nat /\ b = a /\ x = a + o /\ base \in Nat /\ o \in Nat /\ tables.offsets[s] = base
    BY <1>2, <1>10, <2>1
  <2> HIDE DEF a, b
  <2>3. base + x - b = base + o
    BY <1>9, <2>2
  <2>4. tables.offsets[s] + x - q * f = base + o
    BY <2>2, <2>3 DEF b
  <2>5. QED
    BY <2>4
<1>14. slot \in 0 .. T - 1 /\ Lookup(tables.alias, tables.logAlpha, slot) = <<s, o>>
  BY <1>2, <1>10, <1>13
<1> HIDE DEF slot
<1>15. y = T * d + slot /\ slot \in Nat /\ slot < T /\ T * d \in Nat
  BY <1>1, <1>10, <1>11, <1>14
<1> HIDE DEF y
<1>16. y \in Nat /\ T * d <= y /\ y < T * (d + 1) /\ y - T * d = slot
  <2>1. T * (d + 1) = T * d + T
    BY <1>1, <1>10
  <2> DEFINE a == T * d
             b == T * (d + 1)
  <2>2. b = a + T /\ a \in Nat /\ y = a + slot
    BY <1>15, <2>1
  <2> HIDE DEF a, b
  <2>3. y \in Nat /\ a <= y /\ y < b /\ y - a = slot
    BY <1>1, <1>15, <2>2
  <2>4. QED
    BY <2>3 DEF a, b
<1>17. y \div T = d /\ y % T = slot
  BY <1>1, <1>10, <1>16, QuotientIs
<1>18. C <= y /\ y < C * C
  <2>1. T * R <= T * d
    BY <1>1, <1>10, <1>12, ProductOrder
  <2>2. T * (d + 1) <= T * CR
    BY <1>1, <1>4, <1>10, <1>12, ProductOrder
  <2>3. T * R = C /\ T * CR = C * C
    BY <1>1, <1>4
  <2> DEFINE a == T * d
             b == T * (d + 1)
             z == C * C
  <2>4. a \in Nat /\ b \in Nat /\ z \in Nat /\ C <= a /\ b <= z /\ a <= y /\ y < b
    BY <1>1, <1>10, <1>15, <1>16, <2>1, <2>2, <2>3
  <2> HIDE DEF a, b, z
  <2>5. C <= y /\ y < z
    BY <1>1, <1>16, <2>4
  <2>6. QED
    BY <2>5 DEF z
<1>19. Lookup(tables.alias, tables.logAlpha, y % T) = <<s, o>> /\ x = f * (y \div T) + o /\ o \in Nat
  BY <1>10, <1>14, <1>17
<1>20. \E i \in Nat : /\ Lookup(tables.alias, tables.logAlpha, y % T) = <<s, i>>
                      /\ x = f * (y \div T) + i
  BY <1>19
<1>21. QED
  BY <1>3, <1>8, <1>9, <1>16, <1>18, <1>20 DEF y, slot, q, x, k, spill, f, C, T

-------------------------------------------------------------------------------
(* A run of the decoder that finds the tokens: it starts with a state and what  *)
(* is left of the stream, every step reads one token, whatever the decoder  *)
(* held besides, and it ends where the encoder began.                       *)
At(v, q, t, u) == [state |-> v, left |-> q, token |-> t, value |-> u, ok |-> TRUE]
Reads(d, e) == \A t, u : DecodeToken(At(d.state, d.left, t, u)) = e
Finds(r, v, q, found) ==
  /\ r[0] = Decoder(v, q)
  /\ \A i \in 0 .. Len(found) : r[i] = At(r[i].state, r[i].left, r[i].token, r[i].value)
  /\ \A i \in 1 .. Len(found) : r[i].token = found[i] /\ Reads(r[i - 1], r[i])
  /\ r[Len(found)].left = <<>> /\ r[Len(found)].state = Signature * ChunkSize

TokenSet == [symbol : Nat, extra : Nat]
ChunkSet == [bits : Nat, value : Nat]

StreamInv ==
  /\ phase \in {"counted", "search", "rebalance", "chosen", "level"} =>
       tokens = <<>> /\ chunks = <<>> /\ state = Signature * ChunkSize
  /\ phase = "coding" =>
       /\ state \in Nat /\ ChunkSize <= state /\ state < ChunkSize * ChunkSize
       /\ tokens \in Seq(TokenSet) /\ chunks \in Seq(ChunkSet)
       /\ \E r : Finds(r, state, Reverse(chunks), tokens)
  /\ phase = "written" =>
       /\ tokens \in Seq(TokenSet)
       /\ \E r : Finds(r, chunks[1].value, Tail(chunks), tokens)

(* Nothing is found in nothing.                                             *)
LEMMA FindsNone ==
  /\ Signature * ChunkSize \in Nat /\ ChunkSize <= Signature * ChunkSize
  /\ Signature * ChunkSize < ChunkSize * ChunkSize
  /\ \A v : \E r : /\ r[0] = Decoder(v, <<>>) /\ r[0].left = <<>> /\ r[0].state = v
                     /\ r[0] = At(r[0].state, r[0].left, r[0].token, r[0].value)
<1>1. ChunkSize \in Nat \ {0} /\ Signature \in Nat /\ 1 <= Signature /\ Signature + 1 <= ChunkSize
  BY Sizes
<1>2. 1 * ChunkSize <= Signature * ChunkSize /\ (Signature + 1) * ChunkSize <= ChunkSize * ChunkSize
  BY <1>1, ProductOrder
<1>3. 1 * ChunkSize = ChunkSize /\ (Signature + 1) * ChunkSize = Signature * ChunkSize + ChunkSize
  BY <1>1
<1> DEFINE a == Signature * ChunkSize
           b == ChunkSize * ChunkSize
<1>4. a \in Nat /\ b \in Nat /\ ChunkSize <= a /\ a + ChunkSize <= b
  BY <1>1, <1>2, <1>3
<1> HIDE DEF a, b
<1>5. a \in Nat /\ ChunkSize <= a /\ a < b
  BY <1>1, <1>4
<1>6. ASSUME NEW v
      PROVE  \E r : /\ r[0] = Decoder(v, <<>>) /\ r[0].left = <<>> /\ r[0].state = v
                    /\ r[0] = At(r[0].state, r[0].left, r[0].token, r[0].value)
  <2> DEFINE r == [i \in {0} |-> Decoder(v, <<>>)]
  <2>1. r[0] = Decoder(v, <<>>)
    OBVIOUS
  <2> HIDE DEF r
  <2>2. r[0].left = <<>> /\ r[0].state = v /\ r[0] = At(r[0].state, r[0].left, r[0].token, r[0].value)
    BY <2>1 DEF Decoder, At
  <2>3. QED
    BY <2>1, <2>2
<1>7. QED
  BY <1>5, <1>6 DEF a, b

(* A token goes before the ones that were found.                            *)
LEMMA FindsOneMore ==
  ASSUME NEW found \in Seq(TokenSet), NEW token \in TokenSet, NEW r, NEW v, NEW q,
         Finds(r, v, q, found),
         NEW y, NEW p, NEW u,
         Reads(Decoder(y, p), At(v, q, token, u))
  PROVE  \E w : Finds(w, y, p, <<token>> \o found)
<1> DEFINE n == Len(found)
           more == <<token>> \o found
           d == At(v, q, token, u)
           w == [i \in 0 .. n + 1 |-> IF i = 0 THEN Decoder(y, p) ELSE IF i = 1 THEN d ELSE r[i - 1]]
<1>1. /\ n \in Nat /\ Len(more) = n + 1 /\ more[1] = token
      /\ \A i \in 1 .. n : more[i + 1] = found[i]
  BY Prepended
<1>2. /\ r[0] = Decoder(v, q)
      /\ \A i \in 0 .. n : r[i] = At(r[i].state, r[i].left, r[i].token, r[i].value)
      /\ \A i \in 1 .. n : r[i].token = found[i] /\ Reads(r[i - 1], r[i])
      /\ r[n].left = <<>> /\ r[n].state = Signature * ChunkSize
  BY DEF Finds
<1> HIDE DEF n, more
<1>3. /\ w[0] = Decoder(y, p) /\ w[1] = d
      /\ \A i \in 2 .. n + 1 : w[i] = r[i - 1]
  BY <1>1
<1> HIDE DEF w
<1>4. d.state = v /\ d.left = q /\ d.token = token
  BY DEF At
<1>5. Decoder(v, q).state = v /\ Decoder(v, q).left = q
  BY DEF Decoder
<1>6. \A i \in 0 .. n + 1 : w[i] = At(w[i].state, w[i].left, w[i].token, w[i].value)
  <2> TAKE i \in 0 .. n + 1
  <2>1. CASE i = 0
    <3>1. w[i] = Decoder(y, p)
      BY <1>3, <2>1
    <3>2. w[i] = [state |-> y, left |-> p, token |-> <<>>, value |-> 0, ok |-> TRUE]
      BY <3>1 DEF Decoder
    <3>3. w[i].state = y /\ w[i].left = p /\ w[i].token = <<>> /\ w[i].value = 0
      BY <3>2
    <3>4. QED
      BY <3>2, <3>3 DEF At
  <2>2. CASE i = 1
    <3>1. w[i] = d
      BY <1>3, <2>2
    <3>2. w[i] = [state |-> v, left |-> q, token |-> token, value |-> u, ok |-> TRUE]
      BY <3>1 DEF At
    <3>3. w[i].state = v /\ w[i].left = q /\ w[i].token = token /\ w[i].value = u
      BY <3>2
    <3>4. QED
      BY <3>2, <3>3 DEF At
  <2>3. CASE i # 0 /\ i # 1
    <3>1. i \in 2 .. n + 1 /\ i - 1 \in 0 .. n
      BY <1>1, <2>3
    <3>2. QED
      BY <1>2, <1>3, <3>1
  <2>4. QED
    BY <2>1, <2>2, <2>3
<1>7. ASSUME NEW i \in 1 .. n + 1 PROVE w[i].token = more[i] /\ Reads(w[i - 1], w[i])
  <2>1. CASE i = 1
    <3>1. w[i] = d /\ w[i - 1] = Decoder(y, p)
      BY <1>3, <2>1
    <3>2. Reads(Decoder(y, p), d)
      OBVIOUS
    <3> HIDE DEF d
    <3>3. QED
      BY <1>1, <1>4, <2>1, <3>1, <3>2
  <2>2. CASE i = 2
    <3>1. w[i] = r[1] /\ w[i - 1] = d /\ 1 \in 1 .. n
      BY <1>1, <1>3, <2>2
    <3>2. r[1].token = found[1] /\ Reads(r[0], r[1]) /\ more[2] = found[1]
      <4>1. 1 - 1 = 0 /\ 1 + 1 = 2
        OBVIOUS
      <4>2. QED
        BY <1>1, <1>2, <3>1, <4>1
    <3>3. d.state = r[0].state /\ d.left = r[0].left
      BY <1>2, <1>4, <1>5
    <3> HIDE DEF d
    <3>4. Reads(d, r[1])
      BY <3>2, <3>3 DEF Reads
    <3>5. QED
      BY <2>2, <3>1, <3>2, <3>4
  <2>3. CASE i # 1 /\ i # 2
    <3> DEFINE j == i - 1
    <3>1. j \in 1 .. n /\ i \in 2 .. n + 1 /\ i - 1 \in 2 .. n + 1 /\ j + 1 = i /\ (i - 1) - 1 = j - 1
      BY <1>1, <2>3
    <3>2. w[i] = r[j] /\ w[i - 1] = r[j - 1]
      BY <1>3, <3>1
    <3> HIDE DEF j
    <3>3. r[j].token = found[j] /\ Reads(r[j - 1], r[j]) /\ more[i] = found[j]
      BY <1>1, <1>2, <3>1
    <3>4. QED
      BY <3>2, <3>3
  <2>4. QED
    BY <2>1, <2>2, <2>3
<1>8. w[n + 1].left = <<>> /\ w[n + 1].state = Signature * ChunkSize
  <2>1. CASE n = 0
    <3>1. w[n + 1] = d /\ r[0] = r[n]
      BY <1>3, <2>1
    <3>2. QED
      BY <1>2, <1>4, <1>5, <3>1
  <2>2. CASE n # 0
    <3>1. n + 1 \in 2 .. n + 1 /\ (n + 1) - 1 = n
      BY <1>1, <2>2
    <3>2. QED
      BY <1>2, <1>3, <3>1
  <2>3. QED
    BY <2>1, <2>2
<1>9. Finds(w, y, p, more)
  BY <1>1, <1>3, <1>6, <1>7, <1>8 DEF Finds
<1>10. QED
  BY <1>9 DEF more

(* Nothing is encoded in the beginning.                                     *)
LEMMA StreamInit == Init => StreamInv
  BY DEF Init, StreamInv, ChunkSize

(* A decoder of tables that stay reads the same.                            *)
LEMMA FindsStays ==
  ASSUME tables' = tables, \E r : Finds(r, state', Reverse(chunks'), tokens')
  PROVE  (\E r : Finds(r, state, Reverse(chunks), tokens))'
<1>1. \A d : DecodeToken(d)' = DecodeToken(d)
  BY SMT DEF DecodeToken, Lookup, Take
<1>2. PICK r : Finds(r, state', Reverse(chunks'), tokens')
  OBVIOUS
<1> DEFINE reads(i) == \A t, u : DecodeToken(At(r[i - 1].state, r[i - 1].left, t, u)) = r[i]
<1>3. /\ r[0] = Decoder(state', Reverse(chunks'))
      /\ \A i \in 0 .. Len(tokens') : r[i] = At(r[i].state, r[i].left, r[i].token, r[i].value)
      /\ \A i \in 1 .. Len(tokens') : r[i].token = tokens'[i] /\ reads(i)
      /\ r[Len(tokens')].left = <<>> /\ r[Len(tokens')].state = Signature * ChunkSize
  BY <1>2 DEF Finds, Reads
<1>4. \A i : reads(i) <=> \A t, u : DecodeToken(At(r[i - 1].state, r[i - 1].left, t, u))' = r[i]
  BY <1>1
<1> HIDE DEF reads
<1>5. \A i \in 1 .. Len(tokens') :
        /\ r[i].token = tokens'[i]
        /\ \A t, u : DecodeToken(At(r[i - 1].state, r[i - 1].left, t, u))' = r[i]
  BY <1>3, <1>4
<1>6. Finds(r, state, Reverse(chunks), tokens)'
  BY <1>3, <1>5 DEF Finds, Reads
<1>7. QED
  BY <1>6

(* The same of the stream that was written.                                 *)
LEMMA FindsWritten ==
  ASSUME tables' = tables, \E r : Finds(r, chunks'[1].value, Tail(chunks'), tokens')
  PROVE  (\E r : Finds(r, chunks[1].value, Tail(chunks), tokens))'
<1>1. \A d : DecodeToken(d)' = DecodeToken(d)
  BY SMT DEF DecodeToken, Lookup, Take
<1>2. PICK r : Finds(r, chunks'[1].value, Tail(chunks'), tokens')
  OBVIOUS
<1> DEFINE reads(i) == \A t, u : DecodeToken(At(r[i - 1].state, r[i - 1].left, t, u)) = r[i]
<1>3. /\ r[0] = Decoder(chunks'[1].value, Tail(chunks'))
      /\ \A i \in 0 .. Len(tokens') : r[i] = At(r[i].state, r[i].left, r[i].token, r[i].value)
      /\ \A i \in 1 .. Len(tokens') : r[i].token = tokens'[i] /\ reads(i)
      /\ r[Len(tokens')].left = <<>> /\ r[Len(tokens')].state = Signature * ChunkSize
  BY <1>2 DEF Finds, Reads
<1>4. \A i : reads(i) <=> \A t, u : DecodeToken(At(r[i - 1].state, r[i - 1].left, t, u))' = r[i]
  BY <1>1
<1> HIDE DEF reads
<1>5. \A i \in 1 .. Len(tokens') :
        /\ r[i].token = tokens'[i]
        /\ \A t, u : DecodeToken(At(r[i - 1].state, r[i - 1].left, t, u))' = r[i]
  BY <1>3, <1>4
<1>6. Finds(r, chunks[1].value, Tail(chunks), tokens)'
  BY <1>3, <1>5 DEF Finds, Reads
<1>7. QED
  BY <1>6

(* A token that is encoded is what the decoder reads first from then on.    *)
LEMMA StreamEncodes ==
  ASSUME Ready(tables), NEW s \in tables.seen, NEW extra \in 0 .. (Pow2[ExtraWidth[s]] - 1),
         EncodeSymbol(s, extra),
         state \in Nat, ChunkSize <= state, state < ChunkSize * ChunkSize,
         tokens \in Seq(TokenSet), chunks \in Seq(ChunkSet),
         \E r : Finds(r, state, Reverse(chunks), tokens)
  PROVE  /\ state' \in Nat /\ ChunkSize <= state' /\ state' < ChunkSize * ChunkSize
         /\ tokens' \in Seq(TokenSet) /\ chunks' \in Seq(ChunkSet)
         /\ \E r : Finds(r, state', Reverse(chunks'), tokens')
<1> DEFINE v == state
           f == tables.frequencies[s]
           width == ExtraWidth[s]
           spill == MustRenormalize(v, f)
           x == IF spill THEN v \div ChunkSize ELSE v
           q == Quotient(x, f)
           y == q * Table + tables.reverse[tables.offsets[s] + x - q * f]
           token == [symbol |-> s, extra |-> extra]
           E == Chunk(width, extra)
           S == Chunk(ChunkBits, v % ChunkSize)
           behind == chunks \o (IF width # 0 THEN <<E>> ELSE <<>>)
           all == behind \o (IF spill THEN <<S>> ELSE <<>>)
           old == Reverse(chunks)
           rest1 == Reverse(behind)
           front == Reverse(all)
<1>1. chunks' = all /\ state' = y /\ tokens' = <<token>> \o tokens
  BY DEF EncodeSymbol, ChunkSize
<1>2. s \in Nat /\ width \in Nat /\ extra \in Nat /\ (width = 0 => extra = 0)
  <2>1. tables.logAlpha \in LogAlphas /\ Fills(tables.frequencies, tables.logAlpha)
        /\ s \in DOMAIN tables.frequencies /\ width \in Nat
    BY DEF Ready, Coded
  <2>2. \E n \in Nat : tables.frequencies \in [0 .. n - 1 -> Nat]
    BY <2>1 DEF Fills
  <2>3. s \in Nat
    BY <2>1, <2>2
  <2>4. Pow2[width] \in Nat
    BY <2>1, Pow2Equation
  <2>5. Pow2[0] = 1
    BY Pow2Equation
  <2> HIDE DEF width
  <2>6. extra \in 0 .. (Pow2[width] - 1)
    BY DEF width
  <2>7. QED
    BY <2>1, <2>3, <2>4, <2>5, <2>6
<1>3. /\ spill \in BOOLEAN /\ v % ChunkSize \in Nat
      /\ y \in Nat /\ ChunkSize <= y /\ y < ChunkSize * ChunkSize
      /\ \E o \in Nat : /\ Lookup(tables.alias, tables.logAlpha, y % Table) = <<s, o>>
                        /\ x = f * (y \div Table) + o
      /\ spill => x < ChunkSize /\ v = x * ChunkSize + (v % ChunkSize)
      /\ ~spill => x = v /\ ~(x < ChunkSize)
  BY Encodes
<1>4. PICK o \in Nat : /\ Lookup(tables.alias, tables.logAlpha, y % Table) = <<s, o>>
                       /\ x = f * (y \div Table) + o
  BY <1>3
<1> HIDE DEF y, x, q
<1>5. ChunkBits \in Nat
  BY SizesAssumption
<1>6. E \in ChunkSet /\ E.bits = width /\ E.value = extra
  BY <1>2 DEF Chunk, ChunkSet
<1>7. S \in ChunkSet /\ S.bits = ChunkBits /\ S.value = v % ChunkSize
  BY <1>3, <1>5 DEF Chunk, ChunkSet
<1> HIDE DEF E, S, spill, width
<1>8. /\ behind \in Seq(ChunkSet) /\ old \in Seq(ChunkSet) /\ rest1 \in Seq(ChunkSet)
      /\ width = 0 => rest1 = old
      /\ width # 0 => rest1 = <<E>> \o old
  <2>1. CASE width = 0
    <3>1. behind = chunks
      BY <2>1
    <3>2. old \in Seq(ChunkSet)
      BY <1>6, ReverseAppended
    <3>3. QED
      BY <2>1, <3>1, <3>2
  <2>2. CASE width # 0
    <3>1. behind = chunks \o <<E>>
      BY <2>2
    <3>2. old \in Seq(ChunkSet) /\ chunks \o <<E>> \in Seq(ChunkSet)
          /\ Reverse(chunks \o <<E>>) = <<E>> \o old
      BY <1>6, ReverseAppended
    <3>3. <<E>> \o old \in Seq(ChunkSet)
      BY <1>6, <3>2, Prepended
    <3>4. QED
      BY <2>2, <3>1, <3>2, <3>3
  <2>3. QED
    BY <2>1, <2>2
<1> HIDE DEF behind, old
<1>9. /\ all \in Seq(ChunkSet) /\ front \in Seq(ChunkSet)
      /\ ~spill => front = rest1
      /\ spill => front = <<S>> \o rest1
  <2>1. CASE ~spill
    <3>1. all = behind
      BY <1>8, <2>1
    <3>2. QED
      BY <1>8, <2>1, <3>1
  <2>2. CASE spill
    <3>1. all = behind \o <<S>>
      BY <2>2
    <3>2. behind \o <<S>> \in Seq(ChunkSet) /\ Reverse(behind \o <<S>>) = <<S>> \o rest1
      BY <1>7, <1>8, ReverseAppended
    <3>3. <<S>> \o rest1 \in Seq(ChunkSet)
      BY <1>7, <1>8, Prepended
    <3>4. QED
      BY <2>2, <3>1, <3>2, <3>3
  <2>3. QED
    BY <1>3, <2>1, <2>2
<1> HIDE DEF all, rest1, front
<1>10. \/ ~(x < ChunkSize) /\ v = x /\ rest1 = front
       \/ /\ x < ChunkSize /\ front # <<>> /\ Head(front).bits = ChunkBits
          /\ v = x * ChunkSize + Head(front).value /\ rest1 = Tail(front)
  <2>1. CASE ~spill
    BY <1>3, <1>9, <2>1
  <2>2. CASE spill
    <3>1. front # <<>> /\ Head(front) = S /\ Tail(front) = rest1
      BY <1>7, <1>8, <1>9, <2>2, Prepended
    <3>2. QED
      BY <1>3, <1>7, <2>2, <3>1
  <2>3. QED
    BY <1>3, <2>1, <2>2
<1>11. \/ width = 0 /\ extra = 0 /\ old = rest1
       \/ /\ width # 0 /\ rest1 # <<>> /\ Head(rest1).bits = width
          /\ extra = Head(rest1).value /\ old = Tail(rest1)
  <2>1. CASE width = 0
    BY <1>2, <1>8, <2>1
  <2>2. CASE width # 0
    <3>1. rest1 # <<>> /\ Head(rest1) = E /\ Tail(rest1) = old
      BY <1>6, <1>8, <2>2, Prepended
    <3>2. QED
      BY <1>6, <2>2, <3>1
  <2>3. QED
    BY <2>1, <2>2
<1>12. Reads(Decoder(y, front), At(v, old, token, extra))
  <2>1. width = ExtraWidth[s] /\ x = tables.frequencies[s] * (y \div Table) + o
    BY <1>4 DEF width
  <2> HIDE DEF f
  <2>2. ASSUME NEW t, NEW u
        PROVE  DecodeToken([state |-> y, left |-> front, token |-> t, value |-> u, ok |-> TRUE])
                 = [state |-> v, left |-> old, token |-> [symbol |-> s, extra |-> extra],
                    value |-> extra, ok |-> TRUE]
    <3>1. Undone(y, front, s, o, x, v, width, extra, rest1, old)
      BY <1>4, <1>10, <1>11, <2>1 DEF Undone
    <3> HIDE DEF v
    <3>2. QED
      BY <3>1, DecodesTo
  <2>3. \A t, u : DecodeToken(At(y, front, t, u)) = At(v, old, token, extra)
    BY <2>2 DEF At
  <2>4. Decoder(y, front).state = y /\ Decoder(y, front).left = front
    BY DEF Decoder
  <2>5. QED
    BY <2>3, <2>4 DEF Reads
<1>13. token \in TokenSet
  BY <1>2 DEF TokenSet
<1> HIDE DEF token
<1>14. PICK r : Finds(r, v, old, tokens)
  BY DEF old
<1>15. \E w : Finds(w, y, front, <<token>> \o tokens)
  BY <1>12, <1>13, <1>14, FindsOneMore
<1>16. <<token>> \o tokens \in Seq(TokenSet)
  BY <1>13, Prepended
<1>17. QED
  BY <1>1, <1>3, <1>9, <1>15, <1>16 DEF front

(* The decoder that undoes the encoder goes along with every step of it.    *)
LEMMA StreamStep ==
  HistogramInv /\ TablesInv /\ StreamInv /\ [Next]_vars => StreamInv'
<1> SUFFICES ASSUME HistogramInv, TablesInv, StreamInv, [Next]_vars PROVE StreamInv'
  OBVIOUS
<1>1. ASSUME phase \in {"counted", "search", "rebalance", "chosen", "level"},
             tokens' = tokens, chunks' = chunks, state' = state, phase' # "written"
      PROVE  StreamInv'
  <2>1. tokens' = <<>> /\ chunks' = <<>> /\ state' = Signature * ChunkSize
    BY <1>1 DEF StreamInv
  <2>2. state' \in Nat /\ ChunkSize <= state' /\ state' < ChunkSize * ChunkSize
    BY <2>1, FindsNone
  <2>3. tokens' \in Seq(TokenSet) /\ chunks' \in Seq(ChunkSet)
    BY <2>1
  <2>4. (\E r : Finds(r, state, Reverse(chunks), tokens))'
    <3>1. PICK r : /\ r[0] = Decoder(state', <<>>) /\ r[0].left = <<>> /\ r[0].state = state'
                   /\ r[0] = At(r[0].state, r[0].left, r[0].token, r[0].value)
      BY FindsNone
    <3>2. Len(tokens') = 0 /\ 0 .. 0 = {0} /\ 1 .. 0 = {}
      BY <2>1
    <3>3. Reverse(chunks') = <<>>
      BY <2>1 DEF Reverse
    <3>4. Finds(r, state, Reverse(chunks), tokens)'
      BY <2>1, <3>1, <3>2, <3>3 DEF Finds
    <3>5. QED
      BY <3>4
  <2>5. QED
    BY <1>1, <2>1, <2>2, <2>3, <2>4 DEF StreamInv, ChunkSize, TokenSet, ChunkSet
<1>2. CASE EncodeToken
  <2>1. /\ phase = "coding" /\ tables # <<>> /\ tables' = tables
        /\ \E s \in tables.seen : \E extra \in 0..(Pow2[ExtraWidth[s]] - 1) :
             IF tables.frequencies[s] = 0
               THEN phase' = "failed" /\ UNCHANGED <<tokens, state, chunks>>
               ELSE EncodeSymbol(s, extra)
    BY <1>2 DEF EncodeToken
  <2>2. Ready(tables) /\ \A s \in tables.seen : tables.frequencies[s] # 0
    BY <2>1 DEF TablesInv, Ready, Coded
  <2>a. PICK s \in tables.seen : \E extra \in 0..(Pow2[ExtraWidth[s]] - 1) : EncodeSymbol(s, extra)
    BY <2>1, <2>2
  <2>3. PICK extra \in 0..(Pow2[ExtraWidth[s]] - 1) : EncodeSymbol(s, extra)
    BY <2>a
  <2>4. /\ state \in Nat /\ ChunkSize <= state /\ state < ChunkSize * ChunkSize
        /\ tokens \in Seq(TokenSet) /\ chunks \in Seq(ChunkSet)
        /\ \E r : Finds(r, state, Reverse(chunks), tokens)
    BY <2>1 DEF StreamInv
  <2>5. /\ state' \in Nat /\ ChunkSize <= state' /\ state' < ChunkSize * ChunkSize
        /\ tokens' \in Seq(TokenSet) /\ chunks' \in Seq(ChunkSet)
        /\ \E r : Finds(r, state', Reverse(chunks'), tokens')
    BY <2>2, <2>3, <2>4, StreamEncodes
  <2>6. phase' = "coding"
    BY <2>1, <2>3 DEF EncodeSymbol
  <2>7. (\E r : Finds(r, state, Reverse(chunks), tokens))'
    BY <2>1, <2>5, FindsStays
  <2>8. QED
    BY <2>5, <2>6, <2>7 DEF StreamInv, ChunkSize, TokenSet, ChunkSet
<1>3. CASE Write
  <2> DEFINE front == Reverse(chunks)
             head == Chunk(StateBits, state)
  <2>1. /\ phase = "coding" /\ phase' = "written" /\ tables' = tables /\ tokens' = tokens
        /\ state' = state /\ chunks' = <<head>> \o front
    BY <1>3 DEF Write
  <2>2. /\ tokens \in Seq(TokenSet) /\ chunks \in Seq(ChunkSet) /\ state \in Nat
        /\ \E r : Finds(r, state, front, tokens)
    BY <2>1 DEF StreamInv
  <2>3. head \in ChunkSet /\ head.value = state
    BY <2>2, SizesAssumption DEF Chunk, ChunkSet, StateBits
  <2>4. front \in Seq(ChunkSet)
    BY <2>2, <2>3, ReverseAppended
  <2> HIDE DEF head, front
  <2>5. chunks'[1] = head /\ Tail(chunks') = front
    BY <2>1, <2>3, <2>4, Prepended
  <2>6. PICK r : Finds(r, chunks'[1].value, Tail(chunks'), tokens')
    BY <2>1, <2>2, <2>3, <2>5
  <2>7. (\E q : Finds(q, chunks[1].value, Tail(chunks), tokens))'
    BY <2>1, <2>6, FindsWritten
  <2>8. QED
    BY <2>1, <2>2, <2>7 DEF StreamInv, TokenSet
<1>4. CASE UNCHANGED vars
  <2>1. /\ phase' = phase /\ tables' = tables /\ tokens' = tokens /\ chunks' = chunks /\ state' = state
    BY <1>4 DEF vars, coding
  <2>2. CASE phase = "coding"
    <3>1. (\E r : Finds(r, state, Reverse(chunks), tokens))'
      <4>1. \E r : Finds(r, state', Reverse(chunks'), tokens')
        BY <2>1, <2>2 DEF StreamInv
      <4>2. QED
        BY <2>1, <4>1, FindsStays
    <3>2. QED
      BY <2>1, <2>2, <3>1 DEF StreamInv, ChunkSize, TokenSet, ChunkSet
  <2>3. CASE phase = "written"
    <3>1. (\E r : Finds(r, chunks[1].value, Tail(chunks), tokens))'
      <4>1. \E r : Finds(r, chunks'[1].value, Tail(chunks'), tokens')
        BY <2>1, <2>3 DEF StreamInv
      <4>2. QED
        BY <2>1, <4>1, FindsWritten
    <3>2. QED
      BY <2>1, <2>3, <3>1 DEF StreamInv, TokenSet
  <2>4. CASE phase \notin {"coding", "written"}
    BY <2>1, <2>4 DEF StreamInv, ChunkSize
  <2>5. QED
    BY <2>2, <2>3, <2>4
<1>5. CASE NormalizeFew
  BY <1>1, <1>5 DEF NormalizeFew, coding
<1>6. CASE ConsiderFlat
  BY <1>1, <1>6 DEF ConsiderFlat, coding
<1>7. CASE StartRebalance
  BY <1>1, <1>7 DEF StartRebalance, coding
<1>8. CASE Increase
  BY <1>1, <1>8 DEF Increase, coding
<1>9. CASE Decrease
  BY <1>1, <1>9 DEF Decrease, coding
<1>10. CASE EndRebalance
  BY <1>1, <1>10 DEF EndRebalance, Consider, coding
<1>11. CASE EndSearch
  BY <1>1, <1>11 DEF EndSearch, coding
<1>12. CASE StartTables
  <2>1. phase = "chosen" /\ tokens' = tokens /\ chunks' = chunks /\ state' = state /\ phase' # "written"
    BY <1>12 DEF StartTables
  <2>2. QED
    BY <1>1, <2>1
<1>13. CASE Level
  <2>1. phase = "level" /\ tokens' = tokens /\ chunks' = chunks /\ state' = state /\ phase' # "written"
    BY <1>13 DEF Level
  <2>2. QED
    BY <1>1, <2>1
<1>14. CASE BuildTables
  <2>1. phase = "level" /\ tokens' = tokens /\ chunks' = chunks /\ state' = state /\ phase' # "written"
    BY <1>14 DEF BuildTables
  <2>2. QED
    BY <1>1, <2>1
<1>15. QED
  BY <1>2, <1>3, <1>4, <1>5, <1>6, <1>7, <1>8, <1>9, <1>10, <1>11, <1>12, <1>13, <1>14 DEF Next

-------------------------------------------------------------------------------
(* The run that finds the tokens of a written stream is the decoder's.      *)
LEMMA WrittenDecodes ==
  ASSUME tokens \in Seq(TokenSet), NEW r, Finds(r, chunks[1].value, Tail(chunks), tokens)
  PROVE  \A i \in 0 .. Len(tokens) : Decoded[i] = r[i]
<1> DEFINE n == Len(tokens)
           d == Decoder(chunks[1].value, Tail(chunks))
           E(g) == [i \in 0 .. n |-> IF i = 0 THEN d ELSE DecodeToken(g[i - 1])]
           f == [i \in 0 .. n |-> r[i]]
<1>1. n \in Nat
  OBVIOUS
<1>2. /\ r[0] = d
      /\ \A i \in 0 .. n : r[i] = At(r[i].state, r[i].left, r[i].token, r[i].value)
      /\ \A i \in 1 .. n : \A t, u : DecodeToken(At(r[i - 1].state, r[i - 1].left, t, u)) = r[i]
  BY DEF Finds, Reads
<1>3. Decoded = CHOOSE g : g = E(g)
  BY DEF Decoded
<1> HIDE DEF n, d
<1>4. ASSUME NEW i \in 1 .. n PROVE i - 1 \in 0 .. n /\ DecodeToken(r[i - 1]) = r[i]
  <2>1. i - 1 \in 0 .. n
    BY <1>1
  <2>2. r[i - 1] = At(r[i - 1].state, r[i - 1].left, r[i - 1].token, r[i - 1].value)
    BY <1>2, <2>1
  <2>3. DecodeToken(At(r[i - 1].state, r[i - 1].left, r[i - 1].token, r[i - 1].value)) = r[i]
    BY <1>2
  <2>4. QED
    BY <2>1, <2>2, <2>3, Zenon
<1>5. f = E(f)
  <2>1. ASSUME NEW i \in 0 .. n PROVE f[i] = IF i = 0 THEN d ELSE DecodeToken(f[i - 1])
    <3>1. CASE i = 0
      BY <1>2, <3>1
    <3>2. CASE i # 0
      <4>1. i \in 1 .. n
        BY <1>1, <3>2
      <4>2. f[i - 1] = r[i - 1] /\ f[i] = r[i]
        BY <1>4, <4>1
      <4>3. DecodeToken(r[i - 1]) = r[i]
        BY <1>4, <4>1
      <4>4. DecodeToken(f[i - 1]) = f[i]
        BY <4>2, <4>3
      <4>5. QED
        BY <3>2, <4>4
    <3>3. QED
      BY <3>1, <3>2
  <2>2. \A i \in 0 .. n : f[i] = IF i = 0 THEN d ELSE DecodeToken(f[i - 1])
    BY <2>1
  <2>3. QED
    BY <2>2, Zenon
<1>6. Decoded = E(Decoded)
  <2> HIDE DEF E
  <2>1. QED
    BY <1>3, <1>5
<1> DEFINE P == {i \in Nat : i \in 0 .. n => Decoded[i] = r[i]}
<1>7. 0 \in P
  <2>1. 0 \in 0 .. n
    BY <1>1
  <2>2. Decoded[0] = d
    BY <1>6, <2>1
  <2>3. QED
    BY <1>2, <2>2
<1>8. ASSUME NEW i \in Nat, i \in P PROVE i + 1 \in P
  <2> SUFFICES ASSUME i + 1 \in 0 .. n PROVE Decoded[i + 1] = r[i + 1]
    OBVIOUS
  <2>1. i \in 0 .. n /\ i + 1 \in 1 .. n /\ (i + 1) - 1 = i /\ i + 1 # 0
    BY <1>1
  <2>2. Decoded[i + 1] = DecodeToken(Decoded[(i + 1) - 1])
    BY <1>6, <2>1
  <2>3. Decoded[i] = r[i]
    BY <1>8, <2>1
  <2>4. DecodeToken(r[(i + 1) - 1]) = r[i + 1]
    BY <1>4, <2>1
  <2>5. QED
    BY <2>1, <2>2, <2>3, <2>4
<1> HIDE DEF P
<1>9. Nat \subseteq P
  BY <1>7, <1>8, Induction
<1>10. QED
  BY <1>1, <1>9 DEF P, n

(* So it finds the tokens, in their order, and nothing else.                *)
LEMMA WrittenStream ==
  StreamInv => StreamDecodes
<1> SUFFICES ASSUME StreamInv, phase = "written" PROVE StreamDecodes
  BY DEF StreamDecodes
<1>1. tokens \in Seq(TokenSet)
  BY DEF StreamInv
<1>2. PICK r : Finds(r, chunks[1].value, Tail(chunks), tokens)
  BY DEF StreamInv
<1>3. \A i \in 0 .. Len(tokens) : Decoded[i] = r[i]
  BY <1>1, <1>2, WrittenDecodes
<1>4. /\ \A i \in 0 .. Len(tokens) : r[i] = At(r[i].state, r[i].left, r[i].token, r[i].value)
      /\ \A i \in 1 .. Len(tokens) : r[i].token = tokens[i]
      /\ r[Len(tokens)].left = <<>> /\ r[Len(tokens)].state = Signature * ChunkSize
  BY <1>2 DEF Finds
<1>5. \A i \in 0 .. Len(tokens) : r[i].ok
  <2> TAKE i \in 0 .. Len(tokens)
  <2>1. r[i] = At(r[i].state, r[i].left, r[i].token, r[i].value)
    BY <1>4
  <2>2. At(r[i].state, r[i].left, r[i].token, r[i].value).ok = TRUE
    BY DEF At
  <2>3. QED
    BY <2>1, <2>2
<1>6. /\ Len(tokens) \in 0 .. Len(tokens) /\ DOMAIN tokens = 1 .. Len(tokens)
      /\ \A i \in 1 .. Len(tokens) : i \in 0 .. Len(tokens)
  BY <1>1
<1>7. QED
  BY <1>3, <1>4, <1>5, <1>6 DEF StreamDecodes, ChunkSize

-------------------------------------------------------------------------------
(* The inductive invariant of the coder, for every histogram, alphabet      *)
(* width, table size and length of a stream, and for whatever memory lies   *)
(* behind the lists: the search keeps every symbol that occurs, the alias   *)
(* table levels and the reverse map undoes it, and a run of the decoder     *)
(* reads the tokens from the state and the chunks.                          *)
THEOREM CoderInvariant == Spec => [](HistogramInv /\ TablesInv /\ StreamInv)
<1>1. Init => HistogramInv /\ TablesInv /\ StreamInv
  BY HistogramInit, TablesInit, StreamInit
<1>2. HistogramInv /\ TablesInv /\ StreamInv /\ [Next]_vars
        => HistogramInv' /\ TablesInv' /\ StreamInv'
  BY HistogramStep, TablesStep, StreamStep
<1>3. QED
  BY <1>1, <1>2, PTL DEF Spec

(* What ProcessAnsTokenStream writes, a decoder reads back: every token in  *)
(* its order, every refill where a renormalization was, no bit left over,   *)
(* and the signature in the end.                                            *)
THEOREM StreamIsRead == Spec => []StreamDecodes
<1>1. StreamInv => StreamDecodes
  BY WrittenStream
<1>2. QED
  BY <1>1, CoderInvariant, PTL

(* Frequencies that fill the table always level into an alias table, whose  *)
(* reverse map encodes every symbol that was counted: an image fails in a   *)
(* rebalancing, or because its frequencies do not fill the table, and not   *)
(* once the tables are begun.                                               *)
THEOREM FullTablesFit == Spec => TablesAlwaysFit
<1>1. HistogramInv /\ TablesInv /\ [Next]_vars
        => [phase' = "failed" => phase \in {"rebalance", "chosen"}]_vars
  <2> SUFFICES ASSUME HistogramInv, TablesInv, Next, phase' = "failed"
               PROVE  phase \in {"rebalance", "chosen"}
    BY DEF vars
  <2>1. phase \notin {"level", "coding"}
    BY TablesStep
  <2>2. CASE StartTables \/ Level \/ BuildTables \/ EncodeToken \/ Write
    BY <2>1, <2>2 DEF StartTables, Level, BuildTables, EncodeToken, Write
  <2>3. CASE NormalizeFew \/ ConsiderFlat \/ StartRebalance \/ EndSearch
    BY <2>3 DEF NormalizeFew, ConsiderFlat, StartRebalance, EndSearch
  <2>4. CASE Increase \/ Decrease \/ EndRebalance
    BY <2>4 DEF Increase, Decrease, EndRebalance
  <2>5. QED
    BY <2>2, <2>3, <2>4 DEF Next
<1>2. QED
  BY <1>1, CoderInvariant, PTL DEF Spec, TablesAlwaysFit

(* As long as no index leaves the array of its precision, which the code    *)
(* does not check, the accounts balance, and the histogram that was chosen  *)
(* fills the table.                                                         *)
THEOREM WithinTheArray ==
  Spec /\ []InArray => [](HistogramInv /\ TablesInv /\ AccountsInv)
<1>1. Init => AccountsInv
  BY HistogramInit
<1>2. HistogramInv /\ AccountsInv /\ InArray /\ InArray' /\ [Next]_vars => AccountsInv'
  BY AccountsStep
<1>3. QED
  BY <1>1, <1>2, CoderInvariant, PTL DEF Spec

(* Then only a rebalancing fails, one that leaves nothing for the omitted   *)
(* symbol or leaves another one out.                                        *)
THEOREM OnlyRebalancingFails ==
  Spec /\ []InArray => [][phase' = "failed" => phase = "rebalance"]_vars
<1>1. AccountsInv /\ [Next]_vars /\ [phase' = "failed" => phase \in {"rebalance", "chosen"}]_vars
        => [phase' = "failed" => phase = "rebalance"]_vars
  <2> SUFFICES ASSUME AccountsInv, Next, phase = "chosen", phase' = "failed"
               PROVE  FALSE
    BY DEF vars
  <2>1. StartTables
    BY DEF Next, NormalizeFew, ConsiderFlat, StartRebalance, Increase, Decrease, EndRebalance,
           EndSearch, Level, BuildTables, EncodeToken, Write
  <2> DEFINE f == best.frequencies
  <2>2. f # <<>> /\ Total(f) # Table
    BY <2>1 DEF StartTables
  <2>3. Fit(f, raw)
    BY DEF AccountsInv
  <2>4. DOMAIN f = DOMAIN raw /\ f \in [DOMAIN raw -> Nat]
    BY <2>3 DEF Fit, Keeps
  <2> HIDE DEF f
  <2>5. DOMAIN raw # {}
    BY <2>2, <2>4
  <2>6. Total(f) = SumOver(f, DOMAIN raw)
    BY <2>4 DEF Total, SumFunction, SumOver
  <2>7. QED
    BY <2>2, <2>3, <2>5, <2>6 DEF Fit
<1>2. QED
  BY <1>1, FullTablesFit, WithinTheArray, PTL DEF Spec, TablesAlwaysFit
===============================================================================
