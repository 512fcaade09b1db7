--------------------------- MODULE CollectionsProofs ---------------------------
(***************************************************************************)
(* The collections of the models: what joining and leaving do to a waiter   *)
(* list, and what a finite set of owners holds together (SumFunction).      *)
(* The sum is a fold, a recursive function: its equation and its laws are   *)
(* proved from the well-foundedness of the natural numbers, the inductive   *)
(* property being a set, which needs no operator as a parameter.           *)
(***************************************************************************)
EXTENDS Queues, Totals, SequenceTheorems, FiniteSetTheorems, WellFoundedInduction, TLAPS

-------------------------------------------------------------------------------
(* Unlinking an element. *)
LEMMA WithoutType ==
  ASSUME NEW S, NEW q \in Seq(S), NEW p \in 1 .. Len(q)
  PROVE  /\ Without(q, p) \in Seq(S)
         /\ Len(Without(q, p)) = Len(q) - 1
  BY DEF Without

(* The first of a queue is one of its members. *)
LEMMA HeadIsMember ==
  ASSUME NEW S, NEW q \in Seq(S), q # <<>>
  PROVE  Head(q) \in Members(q) /\ Head(q) = q[1] /\ Len(q) \in Nat /\ Len(q) >= 1
  BY DEF Members

(* Unlinking the first one is Tail. *)
LEMMA FirstUnlinked ==
  ASSUME NEW S, NEW q \in Seq(S), Len(q) >= 1
  PROVE  Without(q, 1) = Tail(q)
<1>1. /\ Tail(q) \in Seq(S) /\ Len(Tail(q)) = Len(q) - 1 /\ Len(q) \in Nat
      /\ \A i \in 1 .. Len(q) - 1 : Tail(q)[i] = q[i + 1]
  OBVIOUS
<1>2. Without(q, 1) \in Seq(S) /\ Len(Without(q, 1)) = Len(q) - 1
  <2>1. 1 \in 1 .. Len(q)
    BY <1>1
  <2>2. QED
    BY <2>1, WithoutType
<1>3. \A i \in 1 .. Len(q) - 1 : Without(q, 1)[i] = Tail(q)[i]
  BY <1>1 DEF Without
<1>4. QED
  BY <1>1, <1>2, <1>3, SeqEqual

(* A newcomer that is not yet in the queue keeps it distinct. *)
LEMMA Appended ==
  ASSUME NEW S, NEW q \in Seq(S), NEW x \in S, Distinct(q), x \notin Members(q)
  PROVE  Distinct(Append(q, x)) /\ Members(Append(q, x)) = Members(q) \cup {x}
<1> DEFINE a == Append(q, x)
<1>1. /\ Len(a) = Len(q) + 1 /\ Len(q) \in Nat
      /\ \A i \in 1 .. Len(q) : a[i] = q[i]
      /\ a[Len(q) + 1] = x
  OBVIOUS
<1>2. \A i \in 1 .. Len(a) : i \in 1 .. Len(q) \/ i = Len(q) + 1
  BY <1>1
<1>3. Len(q) + 1 \in 1 .. Len(a) /\ \A i \in 1 .. Len(q) : i \in 1 .. Len(a)
  BY <1>1
<1> HIDE DEF a
<1>4. Distinct(a)
  BY <1>1, <1>2 DEF Distinct, Members
<1>5. Members(a) = Members(q) \cup {x}
  BY <1>1, <1>2, <1>3 DEF Members
<1>6. QED
  BY <1>4, <1>5 DEF a

(* Unlinking removes one member of a queue without repetitions. *)
LEMMA Unlinked ==
  ASSUME NEW S, NEW q \in Seq(S), NEW p \in 1 .. Len(q), Distinct(q)
  PROVE  /\ Distinct(Without(q, p))
         /\ Members(Without(q, p)) = Members(q) \ {q[p]}
<1> DEFINE w == Without(q, p)
<1>1. /\ Len(w) = Len(q) - 1 /\ Len(q) \in Nat /\ p \in Nat
      /\ \A i \in 1 .. Len(q) - 1 : w[i] = IF i < p THEN q[i] ELSE q[i + 1]
  BY WithoutType DEF Without
<1> HIDE DEF w
<1>2. Distinct(w)
  <2> SUFFICES ASSUME NEW i \in 1 .. Len(w), NEW j \in 1 .. Len(w), w[i] = w[j]
               PROVE  i = j
    BY DEF Distinct
  <2> DEFINE from(m) == IF m < p THEN m ELSE m + 1
  <2>1. /\ from(i) \in 1 .. Len(q) /\ from(j) \in 1 .. Len(q)
        /\ w[i] = q[from(i)] /\ w[j] = q[from(j)]
    BY <1>1
  <2>2. from(i) = from(j)
    BY <2>1 DEF Distinct
  <2>3. QED
    BY <1>1, <2>2
<1>3. Members(w) \subseteq Members(q) \ {q[p]}
  <2> SUFFICES ASSUME NEW i \in 1 .. Len(w) PROVE w[i] \in Members(q) \ {q[p]}
    BY DEF Members
  <2> DEFINE m == IF i < p THEN i ELSE i + 1
  <2>1. m \in 1 .. Len(q) /\ m # p /\ w[i] = q[m]
    BY <1>1
  <2>2. QED
    BY <2>1 DEF Members, Distinct
<1>4. Members(q) \ {q[p]} \subseteq Members(w)
  <2> SUFFICES ASSUME NEW i \in 1 .. Len(q), q[i] # q[p] PROVE q[i] \in Members(w)
    BY DEF Members
  <2> DEFINE m == IF i < p THEN i ELSE i - 1
  <2>1. i # p
    OBVIOUS
  <2>2. m \in 1 .. Len(w) /\ w[m] = q[i]
    BY <1>1, <2>1
  <2>3. QED
    BY <2>2 DEF Members
<1>5. QED
  BY <1>2, <1>3, <1>4 DEF w

-------------------------------------------------------------------------------
(* A set of natural numbers that is not empty has a least one. *)
LEMMA Least ==
  ASSUME NEW T, T \subseteq Nat, T # {}
  PROVE  \E m \in T : \A k \in T : m <= k
<1> DEFINE R == OpToRel(<, Nat)
<1>1. IsWellFoundedOn(R, Nat)
  BY NatLessThanWellFounded, Zenon
<1>2. \A k, m \in Nat : k < m => <<k, m>> \in R
  BY DEF OpToRel
<1> HIDE DEF R
<1>3. PICK m \in T : \A k \in T : <<k, m>> \notin R
  BY <1>1, WFMin
<1>4. \A k \in T : m <= k
  <2> TAKE k \in T
  <2>1. k \in Nat /\ m \in Nat /\ ~(k < m)
    BY <1>2, <1>3
  <2>2. QED
    BY <2>1
<1>5. QED
  BY <1>4

(* Induction over the natural numbers, the property being a set. *)
LEMMA Induction ==
  ASSUME NEW P, 0 \in P, \A n \in Nat : n \in P => n + 1 \in P
  PROVE  Nat \subseteq P
<1> SUFFICES ASSUME Nat \ P # {} PROVE FALSE
  OBVIOUS
<1>1. PICK m \in Nat \ P : \A k \in Nat \ P : m <= k
  BY Least
<1>2. m \in Nat /\ m # 0
  OBVIOUS
<1>3. m - 1 \in Nat /\ ~(m <= m - 1) /\ (m - 1) + 1 = m
  BY <1>2
<1>4. m - 1 \in P
  BY <1>1, <1>3
<1>5. QED
  BY <1>3, <1>4

(* Induction over the finite subsets of a set. *)
LEMMA SubsetInduction ==
  ASSUME NEW S, IsFiniteSet(S), NEW P, {} \in P,
         \A s \in SUBSET S : s # {} /\ (\A x \in s : s \ {x} \in P) => s \in P
  PROVE  SUBSET S \subseteq P
<1> DEFINE Q == {n \in Nat : \A s \in SUBSET S : Cardinality(s) = n => s \in P}
<1>0. \A s \in SUBSET S : IsFiniteSet(s) /\ Cardinality(s) \in Nat
  BY FS_Subset, FS_CardinalityType
<1>1. 0 \in Q
  BY <1>0, FS_EmptySet
<1>2. ASSUME NEW n \in Nat, n \in Q PROVE n + 1 \in Q
  <2> SUFFICES ASSUME NEW s \in SUBSET S, Cardinality(s) = n + 1 PROVE s \in P
    BY <1>2
  <2>1. s # {}
    BY FS_EmptySet
  <2>2. ASSUME NEW x \in s PROVE s \ {x} \in P
    <3>1. Cardinality(s \ {x}) = Cardinality(s) - 1
      BY <1>0, FS_RemoveElement
    <3>2. Cardinality(s \ {x}) = n /\ s \ {x} \in SUBSET S
      BY <3>1
    <3>3. QED
      BY <1>2, <3>2
  <2>3. QED
    BY <2>1, <2>2
<1> HIDE DEF Q
<1>3. Nat \subseteq Q
  BY <1>1, <1>2, Induction
<1>4. QED
  BY <1>0, <1>3 DEF Q

(* The same where one element is enough. *)
LEMMA ElementInduction ==
  ASSUME NEW S, IsFiniteSet(S), NEW P, {} \in P,
         \A s \in SUBSET S : \A x \in s : s \ {x} \in P => s \in P
  PROVE  SUBSET S \subseteq P
<1>1. ASSUME NEW s \in SUBSET S, s # {}, \A x \in s : s \ {x} \in P PROVE s \in P
  BY <1>1
<1>2. QED
  BY <1>1, SubsetInduction

-------------------------------------------------------------------------------
Pick(s) == CHOOSE x \in s : TRUE

(* The equation of the fold *)
IsFold(iter, f, S) ==
  iter = [s \in SUBSET S |-> IF s = {} THEN 0 ELSE f[Pick(s)] + iter[s \ {Pick(s)}]]

(* A sum is the value of a function that satisfies the equation, *)
LEMMA Unfold ==
  ASSUME NEW f, NEW S
  PROVE  SumFunctionOnSet(f, S) = (CHOOSE iter : IsFold(iter, f, S))[S]
BY Zenon DEF SumFunctionOnSet, FoldFunctionOnSet, MapThenFoldSet, IsFold, Pick

(* the element that goes first being one of the set. *)
LEMMA Picked == \A s : s # {} => Pick(s) \in s
BY DEF Pick

(* Such a function exists: by induction on the size of the subsets. *)
LEMMA FoldExists ==
  ASSUME NEW f, NEW S, IsFiniteSet(S)
  PROVE  \E iter : IsFold(iter, f, S)
<1> DEFINE Step(g, s) == IF s = {} THEN 0 ELSE f[Pick(s)] + g[s \ {Pick(s)}]
           Upto(g, n) == \A s \in SUBSET S : Cardinality(s) <= n => g[s] = Step(g, s)
           Q == {n \in Nat : \E g : Upto(g, n)}
<1>0. \A s \in SUBSET S : IsFiniteSet(s) /\ Cardinality(s) \in Nat
  BY FS_Subset, FS_CardinalityType
<1>1. 0 \in Q
  <2> DEFINE zero == [s \in SUBSET S |-> 0]
  <2>1. \A s \in SUBSET S : Cardinality(s) <= 0 => s = {}
    BY <1>0, FS_EmptySet
  <2>2. Upto(zero, 0)
    BY <2>1
  <2>3. QED
    BY <2>2
<1>2. ASSUME NEW n \in Nat, n \in Q PROVE n + 1 \in Q
  <2>1. PICK g : Upto(g, n)
    BY <1>2
  <2> DEFINE h == [s \in SUBSET S |-> Step(g, s)]
  <2>2. \A s \in SUBSET S : Cardinality(s) <= n => h[s] = g[s]
    BY <2>1
  <2>3. ASSUME NEW s \in SUBSET S, Cardinality(s) <= n + 1 PROVE h[s] = Step(h, s)
    <3>1. CASE s = {}
      BY <3>1
    <3>2. CASE s # {}
      <4>1. Pick(s) \in s
        BY <3>2, Picked
      <4>2. Cardinality(s \ {Pick(s)}) = Cardinality(s) - 1
        BY <1>0, <4>1, FS_RemoveElement
      <4>3. Cardinality(s \ {Pick(s)}) <= n /\ s \ {Pick(s)} \in SUBSET S
        BY <1>0, <2>3, <4>2
      <4>4. h[s \ {Pick(s)}] = g[s \ {Pick(s)}]
        BY <2>2, <4>3
      <4>5. h[s] = f[Pick(s)] + g[s \ {Pick(s)}]
        BY <3>2
      <4>6. QED
        BY <3>2, <4>4, <4>5, Zenon
    <3>3. QED
      BY <3>1, <3>2
  <2> HIDE DEF h, Step
  <2>4. Upto(h, n + 1)
    BY <2>3
  <2>5. QED
    BY <2>4
<1> HIDE DEF Q, Upto
<1>3. Nat \subseteq Q
  BY <1>1, <1>2, Induction
<1>4. PICK g : Upto(g, Cardinality(S))
  BY <1>0, <1>3 DEF Q
<1>5. \A s \in SUBSET S : g[s] = Step(g, s)
  <2> SUFFICES ASSUME NEW s \in SUBSET S PROVE Cardinality(s) <= Cardinality(S)
    BY <1>4 DEF Upto
  <2>1. QED
    BY FS_Subset
<1> DEFINE h == [s \in SUBSET S |-> g[s]]
<1>6. \A s \in SUBSET S : s \ {Pick(s)} \in SUBSET S
  OBVIOUS
<1>7. h = [s \in SUBSET S |-> Step(h, s)]
  BY <1>5, <1>6
<1>8. QED
  BY <1>7, Zenon DEF IsFold
(* The fold exists, and the sum is its value. *)
LEMMA FoldOfSum ==
  ASSUME NEW f, NEW S, IsFiniteSet(S)
  PROVE  \E iter : IsFold(iter, f, S) /\ SumFunctionOnSet(f, S) = iter[S]
<1> DEFINE iter == CHOOSE i : IsFold(i, f, S)
<1>1. IsFold(iter, f, S)
  BY FoldExists
<1>2. SumFunctionOnSet(f, S) = iter[S]
  BY Unfold
<1> HIDE DEF iter
<1>3. QED
  BY <1>1, <1>2

(* One step of the equation. *)
LEMMA FoldStep ==
  ASSUME NEW f, NEW S, NEW iter, IsFold(iter, f, S), NEW s \in SUBSET S
  PROVE  /\ s = {} => iter[s] = 0
         /\ s # {} => /\ Pick(s) \in s
                      /\ iter[s] = f[Pick(s)] + iter[s \ {Pick(s)}]
<1>1. iter[s] = IF s = {} THEN 0 ELSE f[Pick(s)] + iter[s \ {Pick(s)}]
  BY Zenon DEF IsFold
<1>2. QED
  BY <1>1, Picked

(* The empty sum. *)
LEMMA FoldEmpty ==
  ASSUME NEW f, NEW S, NEW iter, IsFold(iter, f, S)
  PROVE  iter[{}] = 0
<1>1. {} \in SUBSET S
  OBVIOUS
<1>2. QED
  BY <1>1, FoldStep

(* Two folds agree where the functions do. *)
LEMMA FoldSame ==
  ASSUME NEW f, NEW S, IsFiniteSet(S), NEW i, IsFold(i, f, S),
         NEW g, NEW T, NEW j, IsFold(j, g, T),
         NEW U, U \subseteq S, U \subseteq T, \A x \in U : f[x] = g[x]
  PROVE  i[U] = j[U]
<1> DEFINE P == {s \in SUBSET U : i[s] = j[s]}
<1>0. IsFiniteSet(U)
  BY FS_Subset
<1>1. {} \in P
  <2>1. i[{}] = 0 /\ j[{}] = 0
    BY FoldEmpty
  <2>2. QED
    BY <2>1
<1>2. ASSUME NEW s \in SUBSET U, s # {}, \A x \in s : s \ {x} \in P
      PROVE  s \in P
  <2>1. s \in SUBSET S /\ s \in SUBSET T
    OBVIOUS
  <2>2. Pick(s) \in s /\ i[s] = f[Pick(s)] + i[s \ {Pick(s)}]
                      /\ j[s] = g[Pick(s)] + j[s \ {Pick(s)}]
    BY <1>2, <2>1, FoldStep
  <2>3. i[s \ {Pick(s)}] = j[s \ {Pick(s)}] /\ f[Pick(s)] = g[Pick(s)]
    BY <1>2, <2>2
  <2>4. QED
    BY <2>2, <2>3
<1> HIDE DEF P
<1>3. SUBSET U \subseteq P
  BY <1>0, <1>1, <1>2, SubsetInduction
<1>4. QED
  BY <1>3 DEF P

(* A sum of natural numbers is one. *)
LEMMA FoldType ==
  ASSUME NEW f, NEW S, IsFiniteSet(S), NEW i, IsFold(i, f, S), \A x \in S : f[x] \in Nat
  PROVE  \A s \in SUBSET S : i[s] \in Nat
<1> DEFINE P == {s \in SUBSET S : i[s] \in Nat}
<1>1. {} \in P
  BY FoldEmpty
<1>2. ASSUME NEW s \in SUBSET S, s # {}, \A x \in s : s \ {x} \in P
      PROVE  s \in P
  <2>1. Pick(s) \in s /\ i[s] = f[Pick(s)] + i[s \ {Pick(s)}]
    BY <1>2, FoldStep
  <2>2. i[s \ {Pick(s)}] \in Nat /\ f[Pick(s)] \in Nat
    BY <1>2, <2>1
  <2>3. QED
    BY <2>1, <2>2
<1> HIDE DEF P
<1>3. SUBSET S \subseteq P
  BY <1>1, <1>2, SubsetInduction
<1>4. QED
  BY <1>3 DEF P

(* Whichever element goes first *)
LEMMA FoldRemove ==
  ASSUME NEW f, NEW S, IsFiniteSet(S), NEW i, IsFold(i, f, S), \A x \in S : f[x] \in Nat
  PROVE  \A s \in SUBSET S : \A x \in s : i[s] = f[x] + i[s \ {x}]
<1> DEFINE P == {s \in SUBSET S : \A x \in s : i[s] = f[x] + i[s \ {x}]}
<1>0. \A s \in SUBSET S : i[s] \in Nat
  BY FoldType
<1>1. {} \in P
  OBVIOUS
<1>2. ASSUME NEW s \in SUBSET S, s # {}, \A x \in s : s \ {x} \in P
      PROVE  s \in P
  <2> SUFFICES ASSUME NEW x \in s PROVE i[s] = f[x] + i[s \ {x}]
    OBVIOUS
  <2> DEFINE y == Pick(s)
  <2>1. y \in s /\ i[s] = f[y] + i[s \ {y}]
    BY <1>2, FoldStep
  <2> HIDE DEF y
  <2>2. CASE x = y
    BY <2>1, <2>2
  <2>3. CASE x # y
    <3>1. x \in s \ {y} /\ y \in s \ {x}
      BY <2>1, <2>3
    <3>2. i[s \ {y}] = f[x] + i[(s \ {y}) \ {x}]
      BY <1>2, <2>1, <3>1
    <3>3. i[s \ {x}] = f[y] + i[(s \ {x}) \ {y}]
      BY <1>2, <3>1
    <3>4. (s \ {x}) \ {y} = (s \ {y}) \ {x}
      OBVIOUS
    <3> DEFINE rest == i[(s \ {y}) \ {x}]
    <3>5. rest \in Nat /\ f[x] \in Nat /\ f[y] \in Nat
      BY <1>0, <2>1
    <3>6. i[s \ {x}] = f[y] + rest
      BY <3>3, <3>4, Zenon
    <3> HIDE DEF rest
    <3>7. i[s \ {y}] = f[x] + rest
      BY <3>2 DEF rest
    <3>8. QED
      BY <2>1, <3>5, <3>6, <3>7
  <2>4. QED
    BY <2>2, <2>3
<1> HIDE DEF P
<1>3. SUBSET S \subseteq P
  BY <1>1, <1>2, SubsetInduction
<1>4. QED
  BY <1>3 DEF P

-------------------------------------------------------------------------------
(* The laws of the sums: nothing, *)
LEMMA SumEmpty ==
  ASSUME NEW f
  PROVE  SumOver(f, {}) = 0
<1>1. IsFiniteSet({})
  BY FS_EmptySet
<1>2. PICK i : IsFold(i, f, {}) /\ SumOver(f, {}) = i[{}]
  BY <1>1, FoldOfSum DEF SumOver
<1>3. QED
  BY <1>2, FoldStep

(* the type, *)
LEMMA SumType ==
  ASSUME NEW S, IsFiniteSet(S), NEW f, \A x \in S : f[x] \in Nat
  PROVE  SumOver(f, S) \in Nat
<1>1. PICK i : IsFold(i, f, S) /\ SumOver(f, S) = i[S]
  BY FoldOfSum DEF SumOver
<1>2. QED
  BY <1>1, FoldType

(* only the values matter, *)
LEMMA SumSame ==
  ASSUME NEW S, IsFiniteSet(S), NEW f, NEW g, \A x \in S : f[x] = g[x]
  PROVE  SumOver(f, S) = SumOver(g, S)
<1>1. PICK i : IsFold(i, f, S) /\ SumOver(f, S) = i[S]
  BY FoldOfSum DEF SumOver
<1>2. PICK j : IsFold(j, g, S) /\ SumOver(g, S) = j[S]
  BY FoldOfSum DEF SumOver
<1>3. i[S] = j[S]
  BY <1>1, <1>2, FoldSame
<1>4. QED
  BY <1>1, <1>2, <1>3

(* an element less, *)
LEMMA SumRemove ==
  ASSUME NEW S, IsFiniteSet(S), NEW f, \A x \in S : f[x] \in Nat, NEW x \in S
  PROVE  /\ IsFiniteSet(S \ {x})
         /\ SumOver(f, S \ {x}) \in Nat
         /\ SumOver(f, S) = f[x] + SumOver(f, S \ {x})
<1>0. IsFiniteSet(S \ {x})
  BY FS_Subset
<1>1. PICK i : IsFold(i, f, S) /\ SumOver(f, S) = i[S]
  BY FoldOfSum DEF SumOver
<1>2. PICK j : IsFold(j, f, S \ {x}) /\ SumOver(f, S \ {x}) = j[S \ {x}]
  BY <1>0, FoldOfSum DEF SumOver
<1>3. i[S] = f[x] + i[S \ {x}]
  BY <1>1, FoldRemove
<1>4. i[S \ {x}] = j[S \ {x}]
  BY <1>1, <1>2, FoldSame
<1>5. QED
  BY <1>0, <1>1, <1>2, <1>3, <1>4, SumType

(* an element more. *)
LEMMA SumAdd ==
  ASSUME NEW S, IsFiniteSet(S), NEW f, \A x \in S : f[x] \in Nat,
         NEW y, y \notin S, f[y] \in Nat
  PROVE  SumOver(f, S \cup {y}) = SumOver(f, S) + f[y]
<1>1. IsFiniteSet(S \cup {y})
  BY FS_AddElement
<1>2. (S \cup {y}) \ {y} = S
  OBVIOUS
<1>3. SumOver(f, S \cup {y}) = f[y] + SumOver(f, (S \cup {y}) \ {y})
  BY <1>1, SumRemove
<1>4. SumOver(f, S \cup {y}) = f[y] + SumOver(f, S)
  BY <1>2, <1>3, Zenon
<1>5. SumOver(f, S) \in Nat
  BY SumType
<1>6. QED
  BY <1>4, <1>5

(* A part holds no more than the whole, and what is left is the difference. *)
LEMMA SumSplit ==
  ASSUME NEW S, IsFiniteSet(S), NEW f, \A x \in S : f[x] \in Nat, NEW T \in SUBSET S
  PROVE  /\ SumOver(f, T) \in Nat /\ SumOver(f, S \ T) \in Nat
         /\ SumOver(f, S) = SumOver(f, T) + SumOver(f, S \ T)
<1> DEFINE P == {t \in SUBSET S : SumOver(f, S) = SumOver(f, t) + SumOver(f, S \ t)}
<1>0. \A t \in SUBSET S : IsFiniteSet(t) /\ SumOver(f, t) \in Nat
  <2> TAKE t \in SUBSET S
  <2>1. IsFiniteSet(t)
    BY FS_Subset
  <2>2. QED
    BY <2>1, SumType
<1>1. {} \in P
  <2>1. S \ {} = S
    OBVIOUS
  <2>2. SumOver(f, S \ {}) = SumOver(f, S)
    BY <2>1, Zenon
  <2>3. QED
    BY <1>0, <2>2, SumEmpty
<1>2. ASSUME NEW t \in SUBSET S, NEW x \in t, t \ {x} \in P
      PROVE  t \in P
  <2>1. SumOver(f, t) = f[x] + SumOver(f, t \ {x}) /\ f[x] \in Nat
    BY <1>0, SumRemove
  <2>2. (S \ (t \ {x})) \ {x} = S \ t /\ x \in S \ (t \ {x}) /\ S \ (t \ {x}) \in SUBSET S
    OBVIOUS
  <2>3. SumOver(f, S \ (t \ {x})) = f[x] + SumOver(f, (S \ (t \ {x})) \ {x})
    BY <1>0, <2>2, SumRemove
  <2>4. SumOver(f, S \ (t \ {x})) = f[x] + SumOver(f, S \ t)
    BY <2>2, <2>3, Zenon
  <2>5. SumOver(f, S) = SumOver(f, t \ {x}) + SumOver(f, S \ (t \ {x}))
    BY <1>2
  <2>6. SumOver(f, t \ {x}) \in Nat /\ SumOver(f, S \ t) \in Nat
    BY <1>0
  <2>7. SumOver(f, S) = SumOver(f, t) + SumOver(f, S \ t)
    BY <2>1, <2>4, <2>5, <2>6
  <2>8. QED
    BY <2>7
<1> HIDE DEF P
<1>3. SUBSET S \subseteq P
  BY <1>1, <1>2, ElementInduction
<1>4. S \ T \in SUBSET S
  OBVIOUS
<1>5. QED
  BY <1>0, <1>3, <1>4 DEF P

(* Owners that hold no more each, and are no more, hold no more together. *)
LEMMA SumMono ==
  ASSUME NEW S, IsFiniteSet(S), NEW f, \A x \in S : f[x] \in Nat,
         NEW T \in SUBSET S, NEW g, \A x \in T : g[x] \in Nat /\ g[x] <= f[x]
  PROVE  SumOver(g, T) \in Nat /\ SumOver(f, S) \in Nat /\ SumOver(g, T) <= SumOver(f, S)
<1> DEFINE P == {t \in SUBSET T : SumOver(g, t) <= SumOver(f, t)}
<1>0. IsFiniteSet(T)
  BY FS_Subset
<1>1. \A t \in SUBSET T : IsFiniteSet(t) /\ SumOver(f, t) \in Nat /\ SumOver(g, t) \in Nat
  <2> TAKE t \in SUBSET T
  <2>1. IsFiniteSet(t)
    BY <1>0, FS_Subset
  <2>2. QED
    BY <2>1, SumType
<1>2. {} \in P
  BY SumEmpty
<1>3. ASSUME NEW t \in SUBSET T, NEW x \in t, t \ {x} \in P
      PROVE  t \in P
  <2>1. SumOver(f, t) = f[x] + SumOver(f, t \ {x}) /\ f[x] \in Nat
    BY <1>1, SumRemove
  <2>2. SumOver(g, t) = g[x] + SumOver(g, t \ {x}) /\ g[x] \in Nat /\ g[x] <= f[x]
    BY <1>1, SumRemove
  <2>3. SumOver(f, t \ {x}) \in Nat /\ SumOver(g, t \ {x}) \in Nat
    BY <1>1
  <2>4. SumOver(g, t \ {x}) <= SumOver(f, t \ {x})
    BY <1>3
  <2>5. SumOver(g, t) <= SumOver(f, t)
    BY <2>1, <2>2, <2>3, <2>4
  <2>6. QED
    BY <2>5
<1> HIDE DEF P
<1>4. SUBSET T \subseteq P
  BY <1>0, <1>2, <1>3, ElementInduction
<1>5. SumOver(g, T) <= SumOver(f, T)
  BY <1>4 DEF P
<1>6. SumOver(f, S) = SumOver(f, T) + SumOver(f, S \ T) /\ SumOver(f, S \ T) \in Nat /\ SumOver(f, T) \in Nat
  BY SumSplit
<1>7. QED
  BY <1>1, <1>5, <1>6

(* The units of a set are those of its parts *)
LEMMA SumPartition ==
  ASSUME NEW S, IsFiniteSet(S), NEW f, \A x \in S : f[x] \in Nat,
         NEW A, IsFiniteSet(A), NEW owner, \A x \in S : owner[x] \in A,
         NEW owned, \A a \in A : owned[a] \subseteq S /\ \A x \in S : x \in owned[a] <=> owner[x] = a,
         NEW part, \A a \in A : part[a] = SumOver(f, owned[a])
  PROVE  SumOver(f, S) = SumOver(part, A)
<1> DEFINE of(B) == {x \in S : owner[x] \in B}
           P == {B \in SUBSET A : SumOver(f, of(B)) = SumOver(part, B)}
<1>0. \A t \in SUBSET S : IsFiniteSet(t) /\ SumOver(f, t) \in Nat
  <2> TAKE t \in SUBSET S
  <2>1. IsFiniteSet(t)
    BY FS_Subset
  <2>2. QED
    BY <2>1, SumType
<1>1. \A a \in A : part[a] \in Nat
  BY <1>0
<1>2. {} \in P
  <2>1. of({}) = {}
    OBVIOUS
  <2>2. SumOver(f, of({})) = SumOver(f, {})
    BY <2>1, Zenon
  <2>3. QED
    BY <2>2, SumEmpty
<1>3. ASSUME NEW B \in SUBSET A, NEW a \in B, B \ {a} \in P
      PROVE  B \in P
  <2> DEFINE mine == {x \in S : owner[x] = a}
  <2>0. mine = owned[a]
    OBVIOUS
  <2>1. IsFiniteSet(B)
    BY FS_Subset
  <2>a. \A x \in B : part[x] \in Nat
    BY <1>1
  <2>2. SumOver(part, B) = part[a] + SumOver(part, B \ {a})
    BY <2>1, <2>a, SumRemove
  <2>3. mine \in SUBSET of(B) /\ of(B) \in SUBSET S
    OBVIOUS
  <2>b. of(B) \ mine = of(B \ {a})
    OBVIOUS
  <2>4. \A x \in of(B) : f[x] \in Nat
    OBVIOUS
  <2>5. IsFiniteSet(of(B))
    BY <1>0, <2>3
  <2> HIDE DEF of, mine
  <2>6. SumOver(f, of(B)) = SumOver(f, mine) + SumOver(f, of(B) \ mine)
    BY <2>3, <2>4, <2>5, SumSplit
  <2>7. SumOver(f, of(B)) = part[a] + SumOver(f, of(B \ {a}))
    BY <2>0, <2>b, <2>6, Zenon
  <2>8. SumOver(f, of(B \ {a})) = SumOver(part, B \ {a})
    BY <1>3
  <2>9. QED
    BY <2>2, <2>7, <2>8
<1> HIDE DEF P
<1>4. SUBSET A \subseteq P
  BY <1>2, <1>3, ElementInduction
<1>5. SumOver(f, of(A)) = SumOver(part, A)
  BY <1>4 DEF P
<1>6. of(A) = S
  OBVIOUS
<1>7. QED
  BY <1>5, <1>6, Zenon

(* A sum of which one term changes.                                        *)
LEMMA SumUpdate ==
  ASSUME NEW S, IsFiniteSet(S), NEW f, NEW g, \A x \in S : f[x] \in Nat /\ g[x] \in Nat,
         NEW u \in S, \A x \in S \ {u} : f[x] = g[x]
  PROVE  /\ SumOver(f, S) \in Nat /\ SumOver(g, S) \in Nat
         /\ SumOver(g, S) + f[u] = SumOver(f, S) + g[u]
         /\ SumOver(g, S) = SumOver(f, S) - f[u] + g[u]
<1>1. \A x \in S : f[x] \in Nat
  OBVIOUS
<1>2. \A x \in S : g[x] \in Nat
  OBVIOUS
<1>3. /\ IsFiniteSet(S \ {u}) /\ SumOver(f, S \ {u}) \in Nat
      /\ SumOver(f, S) = f[u] + SumOver(f, S \ {u})
  BY <1>1, SumRemove
<1>4. /\ SumOver(g, S \ {u}) \in Nat
      /\ SumOver(g, S) = g[u] + SumOver(g, S \ {u})
  BY <1>2, SumRemove
<1> DEFINE R == S \ {u}
<1>5. \A x \in R : f[x] = g[x]
  OBVIOUS
<1> HIDE DEF R
<1>6. SumOver(f, R) = SumOver(g, R)
  BY <1>3, <1>5, SumSame DEF R
<1>7. f[u] \in Nat /\ g[u] \in Nat
  BY <1>1, <1>2
<1>8. QED
  BY <1>3, <1>4, <1>6, <1>7 DEF R

(* Each owner holds a number of units. *)
AllNat(f, S) == \A x \in S : f[x] \in Nat

(* When owners other than x neither move nor change, the total changes by   *)
(* what x takes out and brings in.                                         *)
LEMMA SumMove ==
  ASSUME NEW S, IsFiniteSet(S), NEW T, IsFiniteSet(T), NEW f, NEW g, NEW x,
         AllNat(f, S), AllNat(g, T),
         S \ {x} = T \ {x}, \A y \in S \ {x} : g[y] = f[y]
  PROVE  /\ SumOver(f, S) \in Nat
         /\ SumOver(g, T) \in Nat
         /\ SumOver(g, T) = SumOver(f, S) - (IF x \in S THEN f[x] ELSE 0)
                                         + (IF x \in T THEN g[x] ELSE 0)
<1> DEFINE before == IF x \in S THEN f[x] ELSE 0
           after  == IF x \in T THEN g[x] ELSE 0
           R == S \ {x}
<1>0. (\A y \in S : f[y] \in Nat) /\ (\A y \in T : g[y] \in Nat)
  BY DEF AllNat
<1>1. IsFiniteSet(R) /\ R = T \ {x} /\ \A y \in R : g[y] = f[y]
  BY FS_RemoveElement
<1>2. before \in Nat /\ after \in Nat
  BY <1>0
<1>3. SumOver(f, S) \in Nat /\ SumOver(g, T) \in Nat /\ SumOver(f, R) \in Nat
  <2>1. \A y \in R : f[y] \in Nat
    BY <1>0
  <2>2. SumOver(f, R) \in Nat
    BY <1>1, <2>1, SumType
  <2>3. QED
    BY <1>0, <2>2, SumType
<1>4. SumOver(f, S) = before + SumOver(f, R)
  <2>1. CASE x \in S
    BY <1>0, <2>1, SumRemove
  <2>2. CASE x \notin S
    <3>1. S = R
      BY <2>2
    <3>2. SumOver(f, S) = SumOver(f, R)
      BY <3>1, Zenon
    <3>3. QED
      BY <1>3, <2>2, <3>2
  <2>3. QED
    BY <2>1, <2>2
<1>5. SumOver(g, T) = after + SumOver(g, R)
  <2>1. CASE x \in T
    <3>1. SumOver(g, T) = g[x] + SumOver(g, T \ {x})
      BY <1>0, <2>1, SumRemove
    <3>2. SumOver(g, T \ {x}) = SumOver(g, R)
      BY <1>1, Zenon
    <3>3. QED
      BY <2>1, <3>1, <3>2
  <2>2. CASE x \notin T
    <3>1. T = R
      BY <1>1, <2>2
    <3>2. SumOver(g, T) = SumOver(g, R)
      BY <3>1, Zenon
    <3>3. QED
      BY <1>3, <2>2, <3>2
  <2>3. QED
    BY <2>1, <2>2
<1> HIDE DEF before, after, R
<1>6. SumOver(g, R) = SumOver(f, R)
  BY <1>1, SumSame
<1>7. SumOver(g, T) = SumOver(f, S) - before + after
  BY <1>2, <1>3, <1>4, <1>5, <1>6
<1>8. QED
  BY <1>3, <1>7 DEF before, after

(* The same for counting owners. *)
LEMMA CountMove ==
  ASSUME NEW S, IsFiniteSet(S), NEW T, IsFiniteSet(T), NEW x, S \ {x} = T \ {x}
  PROVE  /\ Cardinality(S) \in Nat
         /\ Cardinality(T) \in Nat
         /\ Cardinality(T) = Cardinality(S) - (IF x \in S THEN 1 ELSE 0)
                                            + (IF x \in T THEN 1 ELSE 0)
<1>1. Cardinality(S) \in Nat /\ Cardinality(T) \in Nat
  BY FS_CardinalityType
<1>2. Cardinality(S \ {x}) = IF x \in S THEN Cardinality(S) - 1 ELSE Cardinality(S)
  BY FS_RemoveElement
<1>3. Cardinality(T \ {x}) = IF x \in T THEN Cardinality(T) - 1 ELSE Cardinality(T)
  BY FS_RemoveElement
<1>4. Cardinality(S \ {x}) = Cardinality(T \ {x})
  BY Zenon
<1>5. QED
  BY <1>1, <1>2, <1>3, <1>4

(* One owner holds at most the total. *)
LEMMA SumAtLeast ==
  ASSUME NEW S, IsFiniteSet(S), NEW f, \A y \in S : f[y] \in Nat, NEW x \in S
  PROVE  f[x] <= SumOver(f, S)
<1>1. SumOver(f, S) = f[x] + SumOver(f, S \ {x}) /\ SumOver(f, S \ {x}) \in Nat
  BY SumRemove
<1>2. f[x] \in Nat
  OBVIOUS
<1>3. QED
  BY <1>1, <1>2

(* Owners that hold nothing hold nothing together. *)
LEMMA SumZero ==
  ASSUME NEW S, IsFiniteSet(S), NEW f, \A x \in S : f[x] = 0
  PROVE  SumOver(f, S) = 0
<1> DEFINE P == {t \in SUBSET S : SumOver(f, t) = 0}
<1>1. {} \in P
  BY SumEmpty
<1>2. ASSUME NEW t \in SUBSET S, NEW x \in t, t \ {x} \in P
      PROVE  t \in P
  <2>1. IsFiniteSet(t) /\ \A y \in t : f[y] \in Nat
    BY FS_Subset
  <2>2. SumOver(f, t) = f[x] + SumOver(f, t \ {x})
    BY <2>1, SumRemove
  <2>3. QED
    BY <1>2, <2>2
<1> HIDE DEF P
<1>3. SUBSET S \subseteq P
  BY <1>1, <1>2, ElementInduction
<1>4. QED
  BY <1>3 DEF P
===============================================================================
