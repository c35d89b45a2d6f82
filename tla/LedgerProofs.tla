---------------------------- MODULE LedgerProofs ----------------------------
(***************************************************************************)
(* Proofs about Ledger and Queries for every set of addresses,             *)
(* transactions and workshares and every maturity, window and chain        *)
(* length. Sums (SumFunction) come first, then what rewards.rs and         *)
(* params.rs compute with them, then the operations of LedgerState and the *)
(* invariants: the shape and commitment of the state, its money, and the   *)
(* history that the node tells about it. Last comes the Merkle root, by    *)
(* which a header commits to the transactions (Codec).                     *)
(***************************************************************************)
EXTENDS Queries, Arithmetic, FiniteSetTheorems, WellFoundedInduction, TLAPS

-----------------------------------------------------------------------------
(* Sums over finite sets.                                                  *)

\* The element of a set that SumFunction adds first.
First(s) == CHOOSE x \in s : TRUE

\* The sums over all parts of S.
Partial(f, S) ==
  CHOOSE sum : sum = [s \in SUBSET S |->
    IF s = {} THEN 0 ELSE f[First(s)] + sum[s \ {First(s)}]]

\* SumFunctionOnSet's recursion, as an equation.
Recursion(f, S) ==
  \A s \in SUBSET S : Partial(f, S)[s] =
    IF s = {} THEN 0 ELSE f[First(s)] + Partial(f, S)[s \ {First(s)}]

\* A sum is the last of the sums over the parts of its domain.
LEMMA SumIsPartial ==
  ASSUME NEW f
  PROVE  SumFunction(f) = Partial(f, DOMAIN f)[DOMAIN f]
  BY DEF SumFunction, SumFunctionOnSet, FoldFunctionOnSet, MapThenFoldSet,
         Partial, First

\* A set of numbers that is not empty has a least one.
LEMMA LeastNumber ==
  ASSUME NEW T \in SUBSET Nat, T # {}
  PROVE  \E k \in T : \A j \in T : k <= j
  <1>1. IsWellFoundedOn(OpToRel(<, Nat), Nat)
    BY NatLessThanWellFounded, Zenon
  <1>2. PICK k \in T : \A j \in T : ~(<<j, k>> \in OpToRel(<, Nat))
    BY <1>1, WFMin, Zenon
  <1>3. \A j \in T : ~(j < k)
    BY <1>2 DEF OpToRel
  <1> QED BY <1>3

\* A family of parts of a finite set that is not empty has a smallest one.
LEMMA SmallestPart ==
  ASSUME NEW S, IsFiniteSet(S), NEW Family \in SUBSET (SUBSET S), Family # {}
  PROVE  \E T \in Family : \A x \in T : T \ {x} \notin Family
  <1>1. FiniteSubsetsOf(S) = SUBSET S
    BY FS_FiniteSubsetsOfFinite, Zenon
  <1>2. IsWellFoundedOn(StrictSubsetOrdering(S), SUBSET S)
    BY <1>1, FS_StrictSubsetOrderingWellFounded, Zenon
  <1>3. PICK T \in Family :
          \A U \in Family : ~(<<U, T>> \in StrictSubsetOrdering(S))
    BY <1>2, WFMin, Zenon
  <1>4. ASSUME NEW x \in T, T \ {x} \in Family
        PROVE  FALSE
    <2>1. <<T \ {x}, T>> \in StrictSubsetOrdering(S)
      BY <1>4 DEF StrictSubsetOrdering
    <2> QED BY <1>3, <1>4, <2>1
  <1> QED BY <1>3, <1>4

\* SumFunction's recursion is a definition: its equation has a solution.
LEMMA PartialDef ==
  ASSUME NEW f, NEW S, IsFiniteSet(S)
  PROVE  Recursion(f, S)
  <1> DEFINE Small(n) == {s \in SUBSET S : Cardinality(s) <= n}
             Next1(g, s) ==
               IF s = {} THEN 0 ELSE f[First(s)] + g[s \ {First(s)}]
             Fits(g, P) == g = [s \in P |-> Next1(g, s)]
  <1>c. \A s \in SUBSET S : /\ IsFiniteSet(s) /\ Cardinality(s) \in Nat
                            /\ s = {} <=> Cardinality(s) = 0
    BY FS_Subset, FS_CardinalityType, FS_EmptySet
  <1>d. \A s \in SUBSET S : s # {} =>
          /\ First(s) \in s
          /\ Cardinality(s \ {First(s)}) = Cardinality(s) - 1
    <2> SUFFICES ASSUME NEW s \in SUBSET S, s # {}
                 PROVE  /\ First(s) \in s
                        /\ Cardinality(s \ {First(s)}) = Cardinality(s) - 1
      OBVIOUS
    <2>1. First(s) \in s
      BY DEF First
    <2> QED BY <1>c, <2>1, FS_RemoveElement
  <1>1. \A n \in Nat : \E g : Fits(g, Small(n))
    <2> DEFINE Bad == {n \in Nat : ~\E g : Fits(g, Small(n))}
    <2>1. SUFFICES ASSUME Bad # {} PROVE FALSE
      OBVIOUS
    <2>2. PICK n \in Bad : \A j \in Bad : n <= j
      <3>1. Bad \in SUBSET Nat
        OBVIOUS
      <3> HIDE DEF Bad
      <3> QED BY <2>1, <3>1, LeastNumber
    <2>3. CASE n = 0
      <3> DEFINE g == [s \in Small(0) |-> 0]
      <3>1. \A s \in Small(0) : s = {}
        BY <1>c
      <3>2. Fits(g, Small(0))
        <4> HIDE DEF Small
        <4>1. \A s \in Small(0) : g[s] = Next1(g, s)
          BY <3>1
        <4>2. g = [s \in Small(0) |-> g[s]]
          OBVIOUS
        <4> HIDE DEF g
        <4> QED BY <4>1, <4>2
      <3> QED BY <2>2, <2>3, <3>2
    <2>4. CASE n # 0
      <3>1. n \in Nat /\ n - 1 \in Nat /\ ~(n <= n - 1)
        BY <2>2, <2>4
      <3>2. PICK g : Fits(g, Small(n - 1))
        BY <2>2, <3>1
      <3>3. \A s \in Small(n) : s # {} => s \ {First(s)} \in Small(n - 1)
        BY <1>c, <1>d, <3>1
      <3>5. \A s \in Small(n - 1) : g[s] = Next1(g, s)
        <4> HIDE DEF Small
        <4> QED BY <3>2
      <3> DEFINE h == [s \in Small(n) |-> IF s \in Small(n - 1) THEN g[s]
                                          ELSE Next1(g, s)]
      <3>4. Small(n - 1) \subseteq Small(n)
        BY <1>c, <3>1
      <3> HIDE DEF Small
      <3>6. \A s \in Small(n) : h[s] = Next1(g, s)
        BY <3>5
      <3>7. \A s \in Small(n) : s # {} => h[s \ {First(s)}] = g[s \ {First(s)}]
        BY <3>3, <3>4
      <3>8. Fits(h, Small(n))
        <4>1. \A s \in Small(n) : h[s] = Next1(h, s)
          BY <3>6, <3>7
        <4>2. h = [s \in Small(n) |-> h[s]]
          OBVIOUS
        <4> HIDE DEF h
        <4> QED BY <4>1, <4>2
      <3> QED BY <2>2, <3>8
    <2> QED BY <2>3, <2>4
  <1>2. Small(Cardinality(S)) = SUBSET S
    BY <1>c, FS_Subset
  <1>3. \E g : Fits(g, SUBSET S)
    <2>1. Cardinality(S) \in Nat
      BY FS_CardinalityType
    <2>2. \E g : Fits(g, Small(Cardinality(S)))
      <3> HIDE DEF Fits, Small
      <3> QED BY <1>1, <2>1
    <2> QED BY <1>2, <2>2
  <1>4. Partial(f, S) = CHOOSE g : Fits(g, SUBSET S)
    BY DEF Partial
  <1>5. Fits(Partial(f, S), SUBSET S)
    <2> HIDE DEF Fits
    <2> QED BY <1>3, <1>4
  <1> DEFINE p == Partial(f, S)
  <1>6. Fits(p, SUBSET S)
    BY <1>5
  <1> HIDE DEF p
  <1>7. \A s \in SUBSET S : p[s] = Next1(p, s)
    BY <1>6
  <1> QED BY <1>7 DEF p, Recursion

\* A part's sum depends on the values of its elements alone.
LEMMA PartialAgree ==
  ASSUME NEW f, NEW g, NEW S, NEW T, IsFiniteSet(S), IsFiniteSet(T),
         NEW U, U \subseteq S, U \subseteq T, \A x \in U : f[x] = g[x]
  PROVE  Partial(f, S)[U] = Partial(g, T)[U]
  <1>d. Recursion(f, S) /\ Recursion(g, T)
    BY PartialDef, Zenon
  <1> DEFINE p == Partial(f, S)
             q == Partial(g, T)
             Bad == {s \in SUBSET U : p[s] # q[s]}
  <1>0. IsFiniteSet(U)
    BY FS_Subset
  <1>1. SUFFICES ASSUME Bad # {} PROVE FALSE
    OBVIOUS
  <1>2. PICK s \in Bad : \A x \in s : s \ {x} \notin Bad
    <2>1. Bad \in SUBSET (SUBSET U)
      OBVIOUS
    <2> HIDE DEF Bad
    <2> QED BY <1>0, <1>1, <2>1, SmallestPart
  <1>3. s \in SUBSET U /\ s \in SUBSET S /\ s \in SUBSET T
    BY <1>2
  <1>4. /\ p[s] = IF s = {} THEN 0 ELSE f[First(s)] + p[s \ {First(s)}]
        /\ q[s] = IF s = {} THEN 0 ELSE g[First(s)] + q[s \ {First(s)}]
    BY <1>d, <1>3 DEF Recursion
  <1>5. s # {}
    BY <1>2, <1>4
  <1>6. First(s) \in s
    BY <1>5 DEF First
  <1>7. p[s \ {First(s)}] = q[s \ {First(s)}]
    BY <1>2, <1>3, <1>6
  <1>8. f[First(s)] = g[First(s)]
    BY <1>3, <1>6
  <1> QED BY <1>2, <1>4, <1>5, <1>7, <1>8

\* A sum may start with any element.
LEMMA SumRemove ==
  ASSUME NEW D, IsFiniteSet(D), NEW f \in [D -> Int]
  PROVE  /\ SumFunction(f) \in Int
         /\ D = {} => SumFunction(f) = 0
         /\ \A x \in D :
              SumFunction(f) = f[x] + SumFunction([y \in D \ {x} |-> f[y]])
  <1>d. Recursion(f, D)
    BY PartialDef, Zenon
  <1> DEFINE p == Partial(f, D)
  <1>0. \A s \in SUBSET D : p[s] = IF s = {} THEN 0
                                   ELSE f[First(s)] + p[s \ {First(s)}]
    BY <1>d DEF Recursion
  <1>2. SumFunction(f) = p[D]
    BY SumIsPartial
  <1>3. ASSUME NEW x \in D
        PROVE  SumFunction([y \in D \ {x} |-> f[y]]) = p[D \ {x}]
    <2> DEFINE g == [y \in D \ {x} |-> f[y]]
    <2>1. SumFunction(g) = Partial(g, D \ {x})[D \ {x}]
      <3>1. DOMAIN g = D \ {x}
        OBVIOUS
      <3> HIDE DEF g
      <3> QED BY <3>1, SumIsPartial
    <2>2. IsFiniteSet(D \ {x}) /\ \A y \in D \ {x} : g[y] = f[y]
      BY FS_RemoveElement
    <2> HIDE DEF g
    <2>3. Partial(g, D \ {x})[D \ {x}] = p[D \ {x}]
      BY <2>2, PartialAgree
    <2> QED BY <2>1, <2>3 DEF g
  <1> HIDE DEF p
  <1>f. \A s \in SUBSET D : s # {} => First(s) \in s /\ f[First(s)] \in Int
    <2>1. \A s \in SUBSET D : s # {} => First(s) \in s
      BY DEF First
    <2> QED BY <2>1
  <1>4. \A s \in SUBSET D : p[s] \in Int
    <2> DEFINE Bad == {s \in SUBSET D : p[s] \notin Int}
    <2>1. SUFFICES ASSUME Bad # {} PROVE FALSE
      OBVIOUS
    <2>2. PICK s \in Bad : \A x \in s : s \ {x} \notin Bad
      <3>1. Bad \in SUBSET (SUBSET D)
        OBVIOUS
      <3> HIDE DEF Bad
      <3> QED BY <2>1, <3>1, SmallestPart
    <2>3. /\ s \in SUBSET D /\ p[s] \notin Int
          /\ \A x \in s : p[s \ {x}] \in Int
      BY <2>2
    <2>4. p[s] = IF s = {} THEN 0 ELSE f[First(s)] + p[s \ {First(s)}]
      BY <1>0, <2>3
    <2>5. CASE s = {}
      BY <2>3, <2>4, <2>5
    <2>6. CASE s # {}
      <3>1. p[s \ {First(s)}] \in Int /\ f[First(s)] \in Int
        BY <1>f, <2>3, <2>6
      <3> QED BY <2>3, <2>4, <2>6, <3>1
    <2> QED BY <2>5, <2>6
  <1>5. \A s \in SUBSET D : \A x \in s : p[s] = f[x] + p[s \ {x}]
    <2> DEFINE Fine(s) == \A x \in s : p[s] = f[x] + p[s \ {x}]
               Bad == {s \in SUBSET D : ~Fine(s)}
    <2>1. SUFFICES ASSUME Bad # {} PROVE FALSE
      OBVIOUS
    <2>2. PICK s \in Bad : \A x \in s : s \ {x} \notin Bad
      <3>1. Bad \in SUBSET (SUBSET D)
        OBVIOUS
      <3> HIDE DEF Bad
      <3> QED BY <2>1, <3>1, SmallestPart
    <2>3. /\ s \in SUBSET D /\ ~Fine(s)
          /\ \A x \in s : Fine(s \ {x})
      BY <2>2
    <2>4. PICK x \in s : p[s] # f[x] + p[s \ {x}]
      BY <2>3
    <2> DEFINE c == First(s)
    <2>5. c \in s /\ p[s] = f[c] + p[s \ {c}] /\ c \in D /\ x \in D
      BY <1>0, <1>f, <2>3
    <2> HIDE DEF c
    <2>6. x # c
      BY <2>4, <2>5
    <2>7. p[s \ {c}] = f[x] + p[(s \ {c}) \ {x}]
      BY <2>3, <2>5, <2>6
    <2>8. p[s \ {x}] = f[c] + p[(s \ {x}) \ {c}]
      BY <2>3, <2>5, <2>6
    <2> DEFINE r == (s \ {c}) \ {x}
    <2>9. r = (s \ {x}) \ {c} /\ r \in SUBSET D
      BY <2>3
    <2>10. p[r] \in Int /\ f[c] \in Int /\ f[x] \in Int
      <3> HIDE DEF r
      <3> QED BY <1>4, <2>5, <2>9
    <2>11. p[s] = f[c] + (f[x] + p[r])
      BY <2>5, <2>7
    <2>12. p[s \ {x}] = f[c] + p[r]
      BY <2>8, <2>9
    <2> HIDE DEF r
    <2> QED BY <2>4, <2>10, <2>11, <2>12
  <1>6. p[D] \in Int /\ (D = {} => p[D] = 0)
        /\ \A x \in D : p[D] = f[x] + p[D \ {x}]
    BY <1>0, <1>4, <1>5
  <1> QED BY <1>2, <1>3, <1>6

\* The sum over a part of the domain.
SumOn(f, s) == SumFunction([y \in s |-> f[y]])

\* Sums over parts are integers, taken apart one element at a time.
PartsOf(f, D) ==
  /\ SumFunction(f) = SumOn(f, D)
  /\ \A s \in SUBSET D :
       /\ SumOn(f, s) \in Int /\ (s = {} => SumOn(f, s) = 0)
       /\ \A x \in s : SumOn(f, s) = f[x] + SumOn(f, s \ {x})

\* The sums over parts of a domain: the empty part, one more element, and the
\* whole domain.
LEMMA SumParts ==
  ASSUME NEW D, IsFiniteSet(D), NEW f \in [D -> Int]
  PROVE  PartsOf(f, D)
  <1>1. ASSUME NEW s \in SUBSET D
        PROVE  /\ SumOn(f, s) \in Int /\ (s = {} => SumOn(f, s) = 0)
               /\ \A x \in s : SumOn(f, s) = f[x] + SumOn(f, s \ {x})
    <2> DEFINE g == [y \in s |-> f[y]]
    <2>1. g \in [s -> Int] /\ IsFiniteSet(s)
      BY FS_Subset
    <2>2. ASSUME NEW x \in s
          PROVE  [y \in s \ {x} |-> g[y]] = [y \in s \ {x} |-> f[y]]
                 /\ g[x] = f[x]
      OBVIOUS
    <2>3. SumOn(f, s) = SumFunction(g)
      BY DEF SumOn
    <2> HIDE DEF g
    <2>4. /\ SumFunction(g) \in Int /\ (s = {} => SumFunction(g) = 0)
          /\ \A x \in s : SumFunction(g)
               = g[x] + SumFunction([y \in s \ {x} |-> g[y]])
      BY <2>1, SumRemove
    <2> QED BY <2>2, <2>3, <2>4 DEF SumOn
  <1>2. f = [y \in D |-> f[y]]
    OBVIOUS
  <1>3. SumFunction(f) = SumOn(f, D)
    BY <1>2 DEF SumOn
  <1> QED BY <1>1, <1>3 DEF PartsOf

\* A sum of natural numbers is one.
LEMMA SumNat ==
  ASSUME NEW D, IsFiniteSet(D), NEW f \in [D -> Nat]
  PROVE  SumFunction(f) \in Nat
  <1> DEFINE Bad == {s \in SUBSET D : SumOn(f, s) \notin Nat}
  <1>0. PartsOf(f, D)
    <2>1. f \in [D -> Int]
      OBVIOUS
    <2> QED BY <2>1, SumParts, Zenon
  <1>1. Bad = {}
    <2> SUFFICES ASSUME Bad # {} PROVE FALSE
      OBVIOUS
    <2>1. PICK s \in Bad : \A x \in s : s \ {x} \notin Bad
      <3>1. Bad \in SUBSET (SUBSET D)
        OBVIOUS
      <3> HIDE DEF Bad
      <3> QED BY <3>1, SmallestPart
    <2>2. /\ s \in SUBSET D /\ SumOn(f, s) \notin Nat
          /\ \A x \in s : SumOn(f, s \ {x}) \in Nat
      BY <2>1
    <2>3. PICK x \in s : TRUE
      BY <1>0, <2>2 DEF PartsOf
    <2>4. SumOn(f, s) = f[x] + SumOn(f, s \ {x}) /\ f[x] \in Nat
      BY <1>0, <2>2 DEF PartsOf
    <2> QED BY <2>2, <2>4
  <1>2. SumOn(f, D) \in Nat
    BY <1>1
  <1> QED BY <1>0, <1>2 DEF PartsOf

\* h = f + k * g, element by element of the finite set D.
Combines(h, D, f, k, g) ==
  /\ IsFiniteSet(D) /\ k \in Int
  /\ f \in [D -> Int] /\ g \in [D -> Int] /\ h \in [D -> Int]
  /\ \A x \in D : h[x] = f[x] + k * g[x]

\* Sums are linear.
LEMMA SumLinear ==
  ASSUME NEW D, NEW f, NEW g, NEW k, NEW h, Combines(h, D, f, k, g)
  PROVE  SumFunction(h) = SumFunction(f) + k * SumFunction(g)
  <1> DEFINE Good(s) == SumOn(h, s) = SumOn(f, s) + k * SumOn(g, s)
             Bad == {s \in SUBSET D : ~Good(s)}
  <1>c. /\ IsFiniteSet(D) /\ k \in Int
        /\ f \in [D -> Int] /\ g \in [D -> Int] /\ h \in [D -> Int]
        /\ \A x \in D : h[x] = f[x] + k * g[x]
    BY DEF Combines
  <1>0. PartsOf(f, D) /\ PartsOf(g, D) /\ PartsOf(h, D)
    BY <1>c, SumParts, Zenon
  <1>1. Bad = {}
    <2> SUFFICES ASSUME Bad # {} PROVE FALSE
      OBVIOUS
    <2>1. PICK s \in Bad : \A x \in s : s \ {x} \notin Bad
      <3>1. Bad \in SUBSET (SUBSET D)
        OBVIOUS
      <3> HIDE DEF Bad
      <3> QED BY <1>c, <3>1, SmallestPart
    <2>2. s \in SUBSET D /\ ~Good(s) /\ \A x \in s : Good(s \ {x})
      BY <2>1
    <2>3. s # {}
      <3>1. s = {} => SumOn(f, s) = 0 /\ SumOn(g, s) = 0 /\ SumOn(h, s) = 0
        BY <1>0, <2>2 DEF PartsOf
      <3> QED BY <1>c, <2>2, <3>1
    <2>4. PICK x \in s : TRUE
      BY <2>3
    <2> DEFINE a == SumOn(f, s \ {x})
               b == SumOn(g, s \ {x})
    <2>5. /\ SumOn(f, s) = f[x] + a /\ SumOn(g, s) = g[x] + b
          /\ SumOn(h, s) = h[x] + SumOn(h, s \ {x})
      BY <1>0, <2>2 DEF PartsOf
    <2>6. /\ a \in Int /\ b \in Int /\ f[x] \in Int /\ g[x] \in Int
          /\ h[x] = f[x] + k * g[x]
      <3>1. s \ {x} \in SUBSET D /\ x \in D
        BY <2>2
      <3> QED BY <1>0, <1>c, <3>1 DEF PartsOf
    <2>7. SumOn(h, s \ {x}) = a + k * b
      BY <2>2
    <2> HIDE DEF a, b
    <2>8. k * (g[x] + b) = k * g[x] + k * b /\ k * g[x] \in Int /\ k * b \in Int
      BY <1>c, <2>6
    <2> QED BY <1>c, <2>2, <2>5, <2>6, <2>7, <2>8
  <1>2. Good(D)
    BY <1>1
  <1> QED BY <1>0, <1>2 DEF PartsOf

\* Sums of nothing.
LEMMA SumZero ==
  ASSUME NEW D, IsFiniteSet(D), NEW f \in [D -> Int], \A x \in D : f[x] = 0
  PROVE  SumFunction(f) = 0
  <1>1. Combines(f, D, f, 1, f) /\ 1 \in Int
    BY DEF Combines
  <1>2. SumFunction(f) = SumFunction(f) + 1 * SumFunction(f)
    BY <1>1, SumLinear
  <1>3. SumFunction(f) \in Int
    BY SumRemove
  <1> DEFINE v == SumFunction(f)
  <1>4. v \in Int /\ v = v + 1 * v
    BY <1>2, <1>3
  <1> HIDE DEF v
  <1>5. v = 0
    BY <1>4
  <1> QED BY <1>5 DEF v

\* Sums of larger terms are larger.
LEMMA SumMono ==
  ASSUME NEW D, IsFiniteSet(D), NEW f \in [D -> Int], NEW g \in [D -> Int],
         \A x \in D : f[x] <= g[x]
  PROVE  SumFunction(f) <= SumFunction(g)
  <1> DEFINE d == [x \in D |-> g[x] - f[x]]
  <1>1. d \in [D -> Nat] /\ d \in [D -> Int]
        /\ Combines(g, D, f, 1, d) /\ 1 \in Int
    BY DEF Combines
  <1> HIDE DEF d
  <1>2. SumFunction(d) \in Nat
    BY <1>1, SumNat
  <1>3. SumFunction(g) = SumFunction(f) + 1 * SumFunction(d)
    BY <1>1, SumLinear
  <1>4. SumFunction(f) \in Int
    BY SumRemove
  <1> QED BY <1>2, <1>3, <1>4

\* One term changes.
LEMMA SumExcept ==
  ASSUME NEW D, IsFiniteSet(D), NEW f \in [D -> Int], NEW g \in [D -> Int],
         NEW c \in D, \A x \in D : x # c => f[x] = g[x]
  PROVE  SumFunction(g) = SumFunction(f) - f[c] + g[c]
  <1>1. [y \in D \ {c} |-> f[y]] = [y \in D \ {c} |-> g[y]]
    OBVIOUS
  <1> DEFINE r == SumFunction([y \in D \ {c} |-> f[y]])
  <1>2. SumFunction(f) = f[c] + r /\ SumFunction(f) \in Int
    BY SumRemove
  <1>3. SumFunction(g) = g[c] + SumFunction([y \in D \ {c} |-> g[y]])
    BY SumRemove
  <1>4. r \in Int
    <2>1. IsFiniteSet(D \ {c}) /\ [y \in D \ {c} |-> f[y]] \in [D \ {c} -> Int]
      BY FS_RemoveElement
    <2> QED BY <2>1, SumRemove
  <1>5. SumFunction(g) = g[c] + r
    BY <1>1, <1>3
  <1>6. f[c] \in Int /\ g[c] \in Int
    OBVIOUS
  <1> HIDE DEF r
  <1> QED BY <1>2, <1>4, <1>5, <1>6

\* The last term of a sum over a range.
LEMMA SumLast ==
  ASSUME NEW n \in Nat, NEW f \in [1..(n + 1) -> Int]
  PROVE  SumFunction(f) = SumFunction([i \in 1..n |-> f[i]]) + f[n + 1]
  <1>1. IsFiniteSet(1..(n + 1)) /\ n + 1 \in 1..(n + 1)
        /\ (1..(n + 1)) \ {n + 1} = 1..n
    <2>1. n + 1 \in Int /\ 1 \in Int /\ n + 1 \in 1..(n + 1)
      OBVIOUS
    <2>2. IsFiniteSet(1..(n + 1))
      BY <2>1, FS_Interval
    <2>3. (1..(n + 1)) \ {n + 1} = 1..n
      OBVIOUS
    <2> QED BY <2>1, <2>2, <2>3
  <1>2. SumFunction(f) = f[n + 1] + SumFunction([i \in 1..n |-> f[i]])
    BY <1>1, SumRemove, SMTT(30)
  <1>3. SumFunction([i \in 1..n |-> f[i]]) \in Int
    <2>1. IsFiniteSet(1..n) /\ [i \in 1..n |-> f[i]] \in [1..n -> Int]
      BY FS_Interval
    <2> QED BY <2>1, SumRemove
  <1>4. f[n + 1] \in Int
    BY <1>1
  <1> QED BY <1>2, <1>3, <1>4

\* Division with a rest.
LEMMA Division ==
  ASSUME NEW a \in Nat, NEW b \in Nat \ {0}
  PROVE  /\ a \div b \in Nat /\ a % b \in Nat /\ a % b < b
         /\ a = b * (a \div b) + (a % b)
  OBVIOUS

\* A sum of ones counts.
LEMMA SumCounts ==
  ASSUME NEW D, IsFiniteSet(D), NEW S \in SUBSET D, NEW f \in [D -> Int],
         \A x \in D : f[x] = IF x \in S THEN 1 ELSE 0
  PROVE  SumFunction(f) = Cardinality(S)
  <1> DEFINE Good(s) == SumOn(f, s) = Cardinality(s \cap S)
             Bad == {s \in SUBSET D : ~Good(s)}
  <1>0. PartsOf(f, D)
    BY SumParts, Zenon
  <1>1. Bad = {}
    <2> SUFFICES ASSUME Bad # {} PROVE FALSE
      OBVIOUS
    <2>1. PICK s \in Bad : \A x \in s : s \ {x} \notin Bad
      <3>1. Bad \in SUBSET (SUBSET D)
        OBVIOUS
      <3> HIDE DEF Bad
      <3> QED BY <3>1, SmallestPart
    <2>2. s \in SUBSET D /\ ~Good(s) /\ \A x \in s : Good(s \ {x})
      BY <2>1
    <2>3. s # {}
      <3>1. s = {} => SumOn(f, s) = 0 /\ s \cap S = {}
        BY <1>0, <2>2 DEF PartsOf
      <3> QED BY <2>2, <3>1, FS_EmptySet
    <2>4. PICK x \in s : TRUE
      BY <2>3
    <2> DEFINE r == (s \ {x}) \cap S
    <2>5. SumOn(f, s) = f[x] + SumOn(f, s \ {x})
      BY <1>0, <2>2 DEF PartsOf
    <2>6. SumOn(f, s \ {x}) = Cardinality(r)
      BY <2>2
    <2>7. /\ IsFiniteSet(r) /\ Cardinality(r) \in Nat
          /\ Cardinality(r \cup {x}) = Cardinality(r) + 1
      <3>1. IsFiniteSet(r)
        BY <2>2, FS_Subset
      <3>2. x \notin r
        OBVIOUS
      <3> HIDE DEF r
      <3> QED BY <3>1, <3>2, FS_AddElement, FS_CardinalityType
    <2>8. /\ x \in S => s \cap S = r \cup {x}
          /\ x \notin S => s \cap S = r
      BY <2>4
    <2>9. f[x] = IF x \in S THEN 1 ELSE 0
      BY <2>2
    <2>10. SumOn(f, s) # Cardinality(s \cap S)
      BY <2>2
    <2> HIDE DEF r, Good
    <2>11. CASE x \in S
      <3>1. Cardinality(s \cap S) = Cardinality(r) + 1
        BY <2>7, <2>8, <2>11
      <3> QED BY <2>5, <2>6, <2>7, <2>9, <2>10, <2>11, <3>1
    <2>12. CASE x \notin S
      <3>1. Cardinality(s \cap S) = Cardinality(r)
        BY <2>8, <2>12
      <3> QED BY <2>5, <2>6, <2>7, <2>9, <2>10, <2>12, <3>1
    <2> QED BY <2>11, <2>12
  <1>2. SumOn(f, D) = Cardinality(D \cap S) /\ D \cap S = S
    BY <1>1
  <1> QED BY <1>0, <1>2 DEF PartsOf

\* In a finite strict order, as many elements have fewer than k before them as
\* there are numbers below k.
LEMMA RanksCount ==
  ASSUME NEW M, IsFiniteSet(M), NEW Before \in [M -> SUBSET M],
         \A a \in M : a \notin Before[a],
         \A a, b \in M : a # b => a \in Before[b] \/ b \in Before[a],
         \A a, b \in M : b \in Before[a] => Before[b] \subseteq Before[a],
         NEW k \in 0..Cardinality(M)
  PROVE  Cardinality({a \in M : Cardinality(Before[a]) < k}) = k
  <1> DEFINE n == Cardinality(M)
             rank == [a \in M |-> Cardinality(Before[a])]
             low == {a \in M : Cardinality(Before[a]) < k}
  <1>0. n \in Nat /\ k \in Nat /\ k <= n
    BY FS_CardinalityType
  <1>1. \A a \in M : IsFiniteSet(Before[a]) /\ Cardinality(Before[a]) \in 0..(n - 1)
    <2> SUFFICES ASSUME NEW a \in M
                 PROVE  /\ IsFiniteSet(Before[a])
                        /\ Cardinality(Before[a]) \in 0..(n - 1)
      OBVIOUS
    <2>1. Before[a] \in SUBSET M /\ Before[a] # M
      OBVIOUS
    <2>2. /\ IsFiniteSet(Before[a]) /\ Cardinality(Before[a]) \in Nat
          /\ Cardinality(Before[a]) <= n /\ Cardinality(Before[a]) # n
      BY <2>1, FS_Subset, FS_CardinalityType
    <2> QED BY <1>0, <2>2
  <1>2. \A a, b \in M : b \in Before[a] =>
          Cardinality(Before[b]) < Cardinality(Before[a])
    <2> SUFFICES ASSUME NEW a \in M, NEW b \in M, b \in Before[a]
                 PROVE  Cardinality(Before[b]) < Cardinality(Before[a])
      OBVIOUS
    <2>1. Before[b] \subseteq Before[a] /\ Before[b] # Before[a]
      OBVIOUS
    <2>2. /\ Cardinality(Before[b]) <= Cardinality(Before[a])
          /\ Cardinality(Before[b]) # Cardinality(Before[a])
      BY <1>1, <2>1, FS_Subset
    <2> QED BY <1>0, <1>1, <2>2
  <1>3. rank \in Injection(M, 0..(n - 1))
    <2>1. rank \in [M -> 0..(n - 1)]
      BY <1>1
    <2>2. \A a, b \in M : rank[a] = rank[b] => a = b
      BY <1>0, <1>1, <1>2
    <2> HIDE DEF rank, n
    <2> QED BY <2>1, <2>2 DEF Injection, IsInjective
  <1>4. IsFiniteSet(0..(n - 1)) /\ Cardinality(0..(n - 1)) = n
    <2>1. 0 \in Int /\ n - 1 \in Int
      BY <1>0
    <2> HIDE DEF n
    <2>2. /\ IsFiniteSet(0..(n - 1))
          /\ Cardinality(0..(n - 1)) = IF 0 > n - 1 THEN 0 ELSE n - 1 - 0 + 1
      BY <2>1, FS_Interval
    <2> QED BY <1>0, <2>2
  <1>5. \A j \in 0..(n - 1) : \E a \in M : rank[a] = j
    <2> HIDE DEF rank
    <2>1. rank \in Surjection(M, 0..(n - 1))
      <3>1. Cardinality(M) = Cardinality(0..(n - 1))
        BY <1>4
      <3> QED BY <1>3, <1>4, <3>1, FS_Injection
    <2> QED BY <2>1 DEF Surjection
  <1> DEFINE g == [a \in low |-> rank[a]]
  <1>6. g \in Bijection(low, 0..(k - 1))
    <2>1. \A a \in M : rank[a] = Cardinality(Before[a])
      OBVIOUS
    <2>2. low = {a \in M : rank[a] < k}
      OBVIOUS
    <2>3. rank \in [M -> 0..(n - 1)] /\ \A a, b \in M : rank[a] = rank[b] => a = b
      <3> HIDE DEF rank, n
      <3> QED BY <1>3 DEF Injection, IsInjective
    <2> HIDE DEF rank, low
    <2>4. g \in [low -> 0..(k - 1)]
      BY <1>0, <2>2, <2>3
    <2>5. \A a, b \in low : g[a] = g[b] => a = b
      BY <2>2, <2>3
    <2>6. \A j \in 0..(k - 1) : \E a \in low : g[a] = j
      <3> SUFFICES ASSUME NEW j \in 0..(k - 1) PROVE \E a \in low : g[a] = j
        OBVIOUS
      <3>1. j \in 0..(n - 1) /\ j < k
        BY <1>0
      <3>2. PICK a \in M : rank[a] = j
        BY <1>5, <3>1
      <3> QED BY <2>2, <3>1, <3>2
    <2> HIDE DEF g
    <2> QED BY <2>4, <2>5, <2>6 DEF Bijection, Injection, Surjection, IsInjective
  <1>7. IsFiniteSet(low) /\ IsFiniteSet(0..(k - 1)) /\ Cardinality(0..(k - 1)) = k
    <2>1. 0 \in Int /\ k - 1 \in Int
      BY <1>0
    <2>2. /\ IsFiniteSet(0..(k - 1))
          /\ Cardinality(0..(k - 1)) = IF 0 > k - 1 THEN 0 ELSE k - 1 - 0 + 1
      BY <2>1, FS_Interval
    <2>3. IsFiniteSet(low)
      BY FS_Subset
    <2> QED BY <1>0, <2>2, <2>3
  <1>8. ExistsBijection(low, 0..(k - 1))
    <2> HIDE DEF g, low
    <2> QED BY <1>6 DEF ExistsBijection
  <1> HIDE DEF low
  <1>9. Cardinality(low) = k
    BY <1>7, <1>8, FS_Bijection
  <1> QED BY <1>9 DEF low

-----------------------------------------------------------------------------
(* The workshare pool is handed out to the last unit.                      *)

\* Factors of an inequality.
LEMMA Cancel ==
  ASSUME NEW t \in Nat, t > 0, NEW a \in Int, NEW b \in Int, t * a <= t * b
  PROVE  a <= b
  OBVIOUS

\* An address receives its quotient, and one unit more only if there is a
\* remainder; of two addresses with one quotient, the one with the greater
\* remainder is the first to receive it.
Shared(pool, w, total) ==
  LET got == WorkshareRewards(pool, w)
      q(a) == Quotient(pool, w, total, a)
      r(a) == Remainder(pool, w, total, a)
  IN  \A a \in Addr :
        /\ got[a] = q(a) \/ (got[a] = q(a) + 1 /\ r(a) > 0)
        /\ \A b \in Addr : q(b) = q(a) /\ r(b) > r(a) => got[b] >= got[a]

\* The largest remainders hand out the pool to the last unit: what the
\* workshares of a window receive adds up to the pool, if there are any.
LEMMA WorkshareSound ==
  ASSUME NEW pool \in Nat, NEW w \in [Addr -> Nat]
  PROVE  /\ WorkshareRewards(pool, w) \in [Addr -> Nat]
         /\ SumFunction(w) \in Nat
         /\ SumFunction(WorkshareRewards(pool, w))
              = IF SumFunction(w) = 0 THEN 0 ELSE pool
         /\ SumFunction(w) > 0 => Shared(pool, w, SumFunction(w))
  <1> DEFINE T == SumFunction(w)
             none == [a \in Addr |-> 0]
  <1>f. IsFiniteSet(Addr) /\ Addr \subseteq Nat
    BY RewardAssumption
  <1>0. T \in Nat
    BY <1>f, SumNat
  <1>1. CASE pool = 0 \/ T = 0
    <2>1. WorkshareRewards(pool, w) = none
      BY <1>1 DEF WorkshareRewards
    <2>2. none \in [Addr -> Nat] /\ none \in [Addr -> Int] /\ \A a \in Addr : none[a] = 0
      OBVIOUS
    <2> HIDE DEF none
    <2>3. SumFunction(none) = 0
      BY <1>f, <2>2, SumZero
    <2>4. T > 0 => Shared(pool, w, T)
      <3> SUFFICES ASSUME T > 0 PROVE Shared(pool, w, T)
        OBVIOUS
      <3>1. pool = 0 /\ T \in Nat \ {0}
        BY <1>0, <1>1
      <3> HIDE DEF T
      <3>2. ASSUME NEW a \in Addr
            PROVE  Quotient(pool, w, T, a) = 0 /\ Remainder(pool, w, T, a) = 0
        <4>1. pool * w[a] = 0
          BY <3>1
        <4>2. 0 \div T = 0 /\ 0 % T = 0
          BY <3>1
        <4> QED BY <4>1, <4>2 DEF Quotient, Remainder
      <3>3. \A a \in Addr : WorkshareRewards(pool, w)[a] = 0
        BY <2>1, <2>2
      <3> QED BY <3>2, <3>3 DEF Shared
    <2> QED BY <1>0, <1>1, <2>1, <2>2, <2>3, <2>4
  <1>2. CASE pool # 0 /\ T # 0
    <2> DEFINE q == [a \in Addr |-> Quotient(pool, w, T, a)]
               r == [a \in Addr |-> Remainder(pool, w, T, a)]
               h == [a \in Addr |-> pool * w[a]]
               L == pool - SumFunction(q)
               M == {a \in Addr : w[a] > 0}
               P == {a \in M : r[a] > 0}
               one == [a \in Addr |-> IF a \in P THEN 1 ELSE 0]
               top == [a \in Addr |-> T * one[a]]
               Before == [a \in M |-> {b \in M :
                            \/ r[b] > r[a]
                            \/ r[b] = r[a] /\ b < a}]
               S == {a \in M : Cardinality(Before[a]) < L}
               extra == [a \in Addr |-> IF a \in S THEN 1 ELSE 0]
    <2>0. T \in Nat \ {0} /\ pool \in Nat \ {0}
      BY <1>0, <1>2
    <2>v. \A a \in Addr : w[a] \in Nat
      OBVIOUS
    <2> HIDE DEF T
    <2>1. \A a \in Addr :
            /\ h[a] \in Nat /\ q[a] \in Nat /\ r[a] \in Nat /\ r[a] < T
            /\ h[a] = r[a] + T * q[a]
            /\ a \notin M => r[a] = 0
      <3> SUFFICES ASSUME NEW a \in Addr
                   PROVE  /\ h[a] \in Nat /\ q[a] \in Nat /\ r[a] \in Nat
                          /\ r[a] < T
                          /\ h[a] = r[a] + T * q[a]
                          /\ a \notin M => r[a] = 0
        OBVIOUS
      <3>1. w[a] \in Nat /\ pool * w[a] \in Nat
        BY <2>0, <2>v
      <3> DEFINE x == pool * w[a]
      <3>2. h[a] = x /\ q[a] = x \div T /\ r[a] = x % T
        BY DEF Quotient, Remainder
      <3>3. a \notin M => x = 0
        BY <3>1, <2>0
      <3>4. x \in Nat
        BY <3>1
      <3> HIDE DEF x, h, q, r
      <3>5. /\ x \div T \in Nat /\ x % T \in Nat /\ x % T < T
            /\ x = T * (x \div T) + (x % T)
        BY <2>0, <3>4, Division
      <3>6. 0 % T = 0
        BY <2>0
      <3>7. T * (x \div T) \in Nat
        BY <2>0, <3>5
      <3> HIDE DEF M
      <3>8. /\ h[a] \in Nat /\ q[a] \in Nat /\ r[a] \in Nat /\ r[a] < T
            /\ h[a] = r[a] + T * q[a]
        <4> DEFINE y == x \div T
                   z == x % T
                   ty == T * y
        <4>1. /\ h[a] = x /\ q[a] = y /\ r[a] = z /\ x \in Nat
              /\ y \in Nat /\ z \in Nat /\ z < T /\ ty \in Nat /\ x = ty + z
          BY <3>2, <3>4, <3>5, <3>7
        <4>2. T * q[a] = ty
          BY <4>1
        <4> HIDE DEF y, z, ty
        <4> QED BY <4>1, <4>2
      <3>9. a \notin M => r[a] = 0
        BY <3>2, <3>3, <3>6
      <3> QED BY <3>8, <3>9
    <2>2. /\ q \in [Addr -> Nat] /\ r \in [Addr -> Nat] /\ h \in [Addr -> Nat]
          /\ q \in [Addr -> Int] /\ r \in [Addr -> Int] /\ h \in [Addr -> Int]
      <3>1. /\ q = [a \in Addr |-> q[a]] /\ r = [a \in Addr |-> r[a]]
            /\ h = [a \in Addr |-> h[a]]
        OBVIOUS
      <3> HIDE DEF q, r, h, M
      <3> QED BY <2>1, <3>1
    <2>3. SumFunction(h) = SumFunction(r) + T * SumFunction(q)
      <3> HIDE DEF q, r, h, M
      <3>1. Combines(h, Addr, r, T, q)
        BY <1>f, <2>0, <2>1, <2>2 DEF Combines
      <3>2. T \in Int
        BY <2>0
      <3> QED BY <1>f, <2>2, <3>1, <3>2, SumLinear
    <2>4. SumFunction(h) = pool * T
      <3>1. none \in [Addr -> Int] /\ \A a \in Addr : none[a] = 0
        OBVIOUS
      <3>2. Combines(h, Addr, none, pool, w)
        BY <1>f, <2>0, <2>2, <2>v, <3>1 DEF Combines
      <3> HIDE DEF none, h
      <3>3. SumFunction(none) = 0
        BY <1>f, <3>1, SumZero
      <3>4. w \in [Addr -> Int] /\ pool \in Int
        BY <2>0
      <3>5. SumFunction(h) = SumFunction(none) + pool * SumFunction(w)
        BY <1>f, <2>2, <3>1, <3>2, <3>4, SumLinear
      <3>6. SumFunction(w) = T
        BY DEF T
      <3>7. pool * T \in Nat
        BY <2>0
      <3> QED BY <3>3, <3>5, <3>6, <3>7
    <2>5. SumFunction(q) \in Nat /\ SumFunction(r) \in Nat
      <3> HIDE DEF q, r
      <3> QED BY <1>f, <2>2, SumNat
    <2>6. L \in Int /\ T * L = SumFunction(r)
      <3> DEFINE sq == SumFunction(q)
                 sr == SumFunction(r)
      <3>1. sq \in Nat /\ sr \in Nat /\ pool * T = sr + T * sq
        BY <2>3, <2>4, <2>5
      <3>2. L = pool - sq
        OBVIOUS
      <3> HIDE DEF sq, sr, L
      <3>3. T * (pool - sq) = T * pool - T * sq
        BY <2>0, <3>1
      <3>4. T * pool \in Nat /\ T * sq \in Nat /\ T * pool = pool * T
        BY <2>0, <3>1
      <3>5. T * L = sr /\ L \in Int
        BY <2>0, <3>1, <3>2, <3>3, <3>4
      <3> QED BY <3>5 DEF sr
    <2>m. /\ IsFiniteSet(M) /\ M \in SUBSET Addr /\ Cardinality(M) \in Nat
          /\ IsFiniteSet(P) /\ P \in SUBSET Addr /\ Cardinality(P) \in Nat
          /\ P \subseteq M
      <3> HIDE DEF r
      <3>1. P \subseteq M /\ M \subseteq Addr
        OBVIOUS
      <3> HIDE DEF P, M
      <3>2. IsFiniteSet(M) /\ IsFiniteSet(P)
        BY <1>f, <3>1, FS_Subset
      <3> QED BY <3>1, <3>2, FS_CardinalityType
    <2>n. /\ Cardinality(P) <= Cardinality(M)
          /\ \A a \in Addr \ P : r[a] = 0
      <3>1. Cardinality(P) <= Cardinality(M)
        <4> HIDE DEF P, M
        <4> QED BY <2>m, FS_Subset
      <3>2. \A a \in Addr \ P : r[a] = 0
        <4> HIDE DEF r, q, h
        <4> QED BY <2>1
      <3> QED BY <3>1, <3>2
    <2>7. SumFunction(one) = Cardinality(P) /\ one \in [Addr -> Int]
          /\ \A a \in Addr : one[a] = IF a \in P THEN 1 ELSE 0
      <3> HIDE DEF P
      <3>1. one \in [Addr -> Int]
            /\ \A a \in Addr : one[a] = IF a \in P THEN 1 ELSE 0
        OBVIOUS
      <3> HIDE DEF one
      <3> QED BY <1>f, <2>m, <3>1, SumCounts, ZenonT(40)
    <2>8. SumFunction(top) = T * Cardinality(P) /\ top \in [Addr -> Int]
          /\ \A a \in Addr : r[a] <= top[a]
      <3> HIDE DEF one, r, P
      <3>0. \A a \in Addr : T * one[a] \in Int
        BY <2>0, <2>7
      <3>1. top \in [Addr -> Int] /\ \A a \in Addr : top[a] = T * one[a]
        BY <3>0
      <3>2. none \in [Addr -> Int] /\ \A a \in Addr : none[a] = 0
        OBVIOUS
      <3> HIDE DEF none, top
      <3>3. Combines(top, Addr, none, T, one) /\ T \in Int
        BY <1>f, <2>0, <2>7, <3>0, <3>1, <3>2 DEF Combines
      <3>4. SumFunction(none) = 0
        BY <1>f, <3>2, SumZero
      <3>5. SumFunction(top) = SumFunction(none) + T * SumFunction(one)
        BY <1>f, <2>7, <3>1, <3>2, <3>3, SumLinear
      <3>6. T * Cardinality(P) \in Nat
        BY <2>0, <2>m
      <3>7. \A a \in Addr : r[a] <= top[a]
        <4> SUFFICES ASSUME NEW a \in Addr PROVE r[a] <= top[a]
          OBVIOUS
        <4>1. CASE a \in P
          <5>1. top[a] = T
            BY <2>0, <2>7, <3>1, <4>1
          <5> QED BY <2>0, <2>1, <5>1
        <4>2. CASE a \notin P
          <5>1. top[a] = 0
            BY <2>0, <2>7, <3>1, <4>2
          <5>2. r[a] = 0
            BY <2>n, <4>2
          <5> QED BY <5>1, <5>2
        <4> QED BY <4>1, <4>2
      <3>8. SumFunction(top) = T * Cardinality(P)
        BY <2>7, <3>4, <3>5, <3>6
      <3> QED BY <3>1, <3>7, <3>8
    <2>9. L \in 0..Cardinality(P)
      <3> HIDE DEF r, top, P, L
      <3>1. SumFunction(r) <= SumFunction(top)
        BY <1>f, <2>2, <2>8, SumMono
      <3>2. T * L <= T * Cardinality(P)
        BY <2>6, <2>8, <3>1
      <3>3. T * 0 <= T * L
        BY <2>0, <2>5, <2>6
      <3>4. T \in Nat /\ T > 0 /\ 0 \in Int /\ Cardinality(P) \in Int
        BY <2>0, <2>m
      <3>5. L <= Cardinality(P)
        BY <2>6, <3>2, <3>4, Cancel
      <3>6. 0 <= L
        BY <2>6, <3>3, <3>4, Cancel
      <3> QED BY <2>6, <2>m, <3>5, <3>6
    <2>10. Cardinality(S) = L
      <3>0. \A a \in M : a \in Nat /\ r[a] \in Nat
        <4> HIDE DEF r
        <4> QED BY <1>f, <2>1
      <3> HIDE DEF r, M, L
      <3>1. Before \in [M -> SUBSET M]
        OBVIOUS
      <3>2. \A a \in M : a \notin Before[a]
        BY <3>0
      <3>3. \A a, b \in M : a # b => a \in Before[b] \/ b \in Before[a]
        BY <3>0
      <3>4. \A a, b \in M : b \in Before[a] => Before[b] \subseteq Before[a]
        BY <3>0
      <3>5. L \in 0..Cardinality(M)
        <4> HIDE DEF Before, P
        <4> QED BY <2>9, <2>m, <2>n
      <3> HIDE DEF Before, P
      <3> QED BY <2>9, <2>m, <3>1, <3>2, <3>3, <3>4, <3>5, RanksCount
    <2>11. SumFunction(extra) = L /\ extra \in [Addr -> Int]
           /\ \A a \in Addr : extra[a] = IF a \in S THEN 1 ELSE 0
      <3>0. S \in SUBSET Addr
        BY <2>m
      <3> HIDE DEF S, L
      <3>1. extra \in [Addr -> Int]
            /\ \A a \in Addr : extra[a] = IF a \in S THEN 1 ELSE 0
        OBVIOUS
      <3> HIDE DEF extra
      <3>2. SumFunction(extra) = Cardinality(S)
        BY <1>f, <3>0, <3>1, SumCounts, ZenonT(40)
      <3> QED BY <2>10, <3>1, <3>2
    <2> DEFINE out == WorkshareRewards(pool, w)
    <2>12. \A a \in Addr :
             w[a] > 0 /\ HandOut(pool, w, T, L, a) <=> a \in S
      <3> SUFFICES ASSUME NEW a \in Addr, w[a] > 0
                   PROVE  HandOut(pool, w, T, L, a) <=> a \in S
        OBVIOUS
      <3>1. a \in M
        OBVIOUS
      <3>2. Before[a] = {b \in Addr :
                   /\ w[b] > 0
                   /\ \/ Remainder(pool, w, T, b) > Remainder(pool, w, T, a)
                      \/ /\ Remainder(pool, w, T, b) = Remainder(pool, w, T, a)
                         /\ b < a}
        BY <3>1
      <3> HIDE DEF Before, L, M
      <3> QED BY <3>1, <3>2 DEF HandOut
    <2>13. out = [a \in Addr |->
                    q[a] + IF w[a] > 0 /\ HandOut(pool, w, T, L, a)
                           THEN 1 ELSE 0]
      BY <1>2 DEF WorkshareRewards, T
    <2>14. \A a \in Addr : out[a] = q[a] + extra[a]
      <3> HIDE DEF out, q, L, S
      <3>1. \A a \in Addr : extra[a] = IF a \in S THEN 1 ELSE 0
        BY <2>11
      <3> QED BY <2>12, <2>13, <3>1
    <2>15. out \in [Addr -> Nat]
      <3>1. \A a \in Addr : extra[a] \in Nat
        <4> HIDE DEF S
        <4> QED OBVIOUS
      <3> HIDE DEF q, L, S, extra
      <3>2. out = [a \in Addr |-> out[a]]
        <4>1. \E g : out = [a \in Addr |-> q[a] + g[a]]
          <5> DEFINE g == [a \in Addr |-> IF w[a] > 0 /\ HandOut(pool, w, T, L, a)
                           THEN 1 ELSE 0]
          <5>1. out = [a \in Addr |-> q[a] + g[a]]
            BY <2>13
          <5> QED BY <5>1
        <4> HIDE DEF out
        <4> QED BY <4>1
      <3> HIDE DEF out
      <3>3. \A a \in Addr : out[a] \in Nat
        BY <2>2, <2>14, <3>1
      <3> QED BY <3>2, <3>3
    <2>16. SumFunction(out) = SumFunction(q) + 1 * SumFunction(extra)
      <3> HIDE DEF q, L, S, extra, out
      <3>1. out \in [Addr -> Int] /\ Combines(out, Addr, q, 1, extra)
        BY <1>f, <2>2, <2>11, <2>14, <2>15 DEF Combines
      <3>2. 1 \in Int
        OBVIOUS
      <3> QED BY <1>f, <2>2, <2>11, <3>1, <3>2, SumLinear
    <2>17. SumFunction(out) = pool
      <3> DEFINE sq == SumFunction(q)
      <3>1. sq \in Nat /\ L = pool - sq /\ SumFunction(out) = sq + L
        <4>1. SumFunction(extra) = L /\ L \in Int
          BY <2>6, <2>11
        <4>2. L = pool - sq /\ sq \in Nat
          BY <2>5
        <4> HIDE DEF out, extra, sq, L
        <4>3. SumFunction(out) = sq + 1 * SumFunction(extra)
          BY <2>16 DEF sq
        <4> QED BY <4>1, <4>2, <4>3
      <3> HIDE DEF out, sq, L
      <3> QED BY <2>0, <3>1
    <2>18. Shared(pool, w, T)
      <3>0. /\ \A a \in Addr : q[a] = Quotient(pool, w, T, a)
            /\ \A a \in Addr : r[a] = Remainder(pool, w, T, a)
            /\ \A a \in Addr : extra[a] = IF a \in S THEN 1 ELSE 0
        OBVIOUS
      <3>1. ASSUME NEW a \in Addr
            PROVE  out[a] = q[a] \/ (out[a] = q[a] + 1 /\ r[a] > 0)
        <4>1. CASE a \notin S
          <5> HIDE DEF out, q, r, S, extra
          <5>1. extra[a] = 0 /\ q[a] \in Nat /\ out[a] = q[a] + extra[a]
            BY <2>1, <2>14, <3>0, <4>1
          <5> QED BY <5>1
        <4>2. CASE a \in S
          <5>1. a \in P
            <6> SUFFICES ASSUME a \notin P PROVE FALSE
              OBVIOUS
            <6>1. r[a] = 0 /\ \A b \in P : r[b] > 0
              BY <2>n
            <6>2. a \in M
              BY <4>2
            <6>3. P \subseteq Before[a]
              <7> HIDE DEF r
              <7> QED BY <2>m, <6>1, <6>2
            <6>4. Before[a] \subseteq M
              BY <6>2
            <6>5. Cardinality(Before[a]) < L
              BY <4>2
            <6> HIDE DEF Before, P, M, L
            <6>6. IsFiniteSet(Before[a])
              BY <2>m, <6>4, FS_Subset
            <6>7. /\ Cardinality(P) <= Cardinality(Before[a])
                  /\ Cardinality(Before[a]) \in Nat
              BY <6>3, <6>6, FS_Subset, FS_CardinalityType
            <6> QED BY <2>9, <2>m, <6>5, <6>7
          <5> HIDE DEF out, q, r, S, extra
          <5>2. extra[a] = 1 /\ out[a] = q[a] + extra[a]
            BY <2>14, <3>0, <4>2
          <5> QED BY <5>1, <5>2
        <4> QED BY <4>1, <4>2
      <3>2. ASSUME NEW a \in Addr, NEW b \in Addr, q[b] = q[a], r[b] > r[a]
            PROVE  out[b] >= out[a]
        <4>1. CASE a \notin S
          <5> HIDE DEF out, q, r, S
          <5>1. extra[b] \in 0..1
            BY <3>0
          <5> HIDE DEF extra
          <5>2. extra[a] = 0 /\ q[a] \in Nat
            BY <2>1, <3>0, <4>1
          <5>3. out[a] = q[a] + extra[a] /\ out[b] = q[b] + extra[b]
            BY <2>14
          <5> QED BY <3>2, <5>1, <5>2, <5>3
        <4>2. CASE a \in S
          <5>1. b \in M /\ a \in M
            <6>1. a \in M
              BY <4>2
            <6>2. r[a] \in Nat /\ r[b] \in Nat /\ (b \notin M => r[b] = 0)
              <7> HIDE DEF r, M, h, q
              <7> QED BY <2>1
            <6> HIDE DEF r, M
            <6> QED BY <3>2, <6>1, <6>2
          <5>2. Before[b] \subseteq Before[a]
            <6>1. \A c \in Addr : c \in Nat /\ r[c] \in Nat
              <7> HIDE DEF r, h, q
              <7> QED BY <1>f, <2>1
            <6> HIDE DEF r
            <6> QED BY <2>m, <3>2, <5>1, <6>1
          <5>3. Before[a] \subseteq M /\ Cardinality(Before[a]) < L
            BY <4>2
          <5>4. b \in S
            <6> HIDE DEF Before, M, L
            <6>1. IsFiniteSet(Before[a]) /\ IsFiniteSet(Before[b])
              BY <2>m, <5>2, <5>3, FS_Subset
            <6>2. /\ Cardinality(Before[b]) <= Cardinality(Before[a])
                  /\ Cardinality(Before[a]) \in Nat
                  /\ Cardinality(Before[b]) \in Nat
              BY <5>2, <6>1, FS_Subset, FS_CardinalityType
            <6>3. Cardinality(Before[b]) < L
              BY <2>6, <5>3, <6>2
            <6> QED BY <5>1, <6>3
          <5> HIDE DEF out, q, r, S
          <5>5. extra[a] = 1 /\ extra[b] = 1
            BY <3>0, <4>2, <5>4
          <5> HIDE DEF extra
          <5>6. out[a] = q[a] + extra[a] /\ out[b] = q[b] + extra[b]
            BY <2>14
          <5>7. q[a] \in Nat
            BY <2>1
          <5> QED BY <3>2, <5>5, <5>6, <5>7
        <4> QED BY <4>1, <4>2
      <3> HIDE DEF q, r, S, extra, T, L, M, P
      <3> QED BY <3>0, <3>1, <3>2 DEF Shared
    <2> HIDE DEF out
    <2> QED BY <1>0, <1>2, <2>15, <2>17, <2>18 DEF out, T
  <1> QED BY <1>0, <1>1, <1>2

-----------------------------------------------------------------------------
(* The schedule of subsidies.                                              *)

\* Halving up to a number of times, as an equation.
Halves(g, P) == g = [k \in P |-> IF k = 0 THEN InitialSubsidy ELSE g[k - 1] \div 2]

\* INITIAL_SUBSIDY >> k: the recursion of its definition has a solution.
LEMMA ShiftedDef == Halves(Shifted, Nat)
  <1> DEFINE Next1(g, k) == IF k = 0 THEN InitialSubsidy ELSE g[k - 1] \div 2
  <1>e. ASSUME NEW g, NEW P
        PROVE  Halves(g, P) <=> g = [k \in P |-> Next1(g, k)]
    BY DEF Halves
  <1>1. \A n \in Nat : \E g : Halves(g, 0..n)
    <2> DEFINE Bad == {n \in Nat : ~\E g : Halves(g, 0..n)}
    <2>1. SUFFICES ASSUME Bad # {} PROVE FALSE
      OBVIOUS
    <2>2. PICK n \in Bad : \A j \in Bad : n <= j
      <3>1. Bad \in SUBSET Nat
        OBVIOUS
      <3> HIDE DEF Bad
      <3> QED BY <2>1, <3>1, LeastNumber
    <2>3. CASE n = 0
      <3> DEFINE g == [k \in 0..0 |-> InitialSubsidy]
      <3>1. \A k \in 0..0 : k = 0
        OBVIOUS
      <3>2. g = [k \in 0..0 |-> IF k = 0 THEN InitialSubsidy ELSE g[k - 1] \div 2]
        BY <3>1
      <3>3. Halves(g, 0..0)
        BY <3>2 DEF Halves
      <3> QED BY <2>2, <2>3, <3>3
    <2>4. CASE n # 0
      <3>1. n \in Nat /\ n - 1 \in Nat /\ ~(n <= n - 1)
        BY <2>2, <2>4
      <3>2. PICK g : Halves(g, 0..(n - 1))
        BY <2>2, <3>1
      <3> DEFINE h == [k \in 0..n |-> IF k \in 0..(n - 1) THEN g[k]
                                      ELSE Next1(g, k)]
      <3>3. \A k \in 0..(n - 1) : g[k] = Next1(g, k)
        BY <3>2 DEF Halves
      <3>4. \A k \in 0..n : k # 0 => k - 1 \in 0..(n - 1) /\ k - 1 \in 0..n
        BY <3>1
      <3>5. \A k \in 0..n : h[k] = Next1(g, k)
        BY <3>3
      <3>6. \A k \in 0..n : k # 0 => h[k - 1] = g[k - 1]
        BY <3>4
      <3>7. \A k \in 0..n : h[k] = Next1(h, k)
        <4> HIDE DEF h
        <4> QED BY <3>5, <3>6
      <3>8. h = [k \in 0..n |-> h[k]]
        OBVIOUS
      <3> HIDE DEF h
      <3>9. Halves(h, 0..n)
        BY <3>7, <3>8 DEF Halves
      <3> QED BY <2>2, <3>9
    <2> QED BY <2>3, <2>4
  <1> DEFINE G(n) == CHOOSE g : Halves(g, 0..n)
             d == [n \in Nat |-> G(n)[n]]
  <1>2. \A n \in Nat : Halves(G(n), 0..n)
    BY <1>1
  <1> HIDE DEF G
  <1>3. \A n \in Nat : \A k \in 0..n : G(n)[k] = Next1(G(n), k)
    <2> SUFFICES ASSUME NEW n \in Nat, NEW k \in 0..n
                 PROVE  G(n)[k] = Next1(G(n), k)
      OBVIOUS
    <2>1. Halves(G(n), 0..n)
      BY <1>2
    <2> QED BY <2>1 DEF Halves
  <1>4. \A n \in Nat : \A k \in 0..n : G(n)[k] = G(k)[k]
    <2> DEFINE Fine(k) == \A n \in Nat : k <= n => G(n)[k] = G(k)[k]
               Bad == {k \in Nat : ~Fine(k)}
    <2>0. Bad = {}
      <3> SUFFICES ASSUME Bad # {} PROVE FALSE
        OBVIOUS
      <3>1. PICK k \in Bad : \A j \in Bad : k <= j
        <4>1. Bad \in SUBSET Nat
          OBVIOUS
        <4> HIDE DEF Bad
        <4> QED BY <4>1, LeastNumber
      <3>2. k \in Nat /\ ~Fine(k) /\ \A j \in Nat : j < k => Fine(j)
        BY <3>1
      <3>3. PICK n \in Nat : k <= n /\ G(n)[k] # G(k)[k]
        BY <3>2
      <3>4. k \in 0..n /\ k \in 0..k
        BY <3>2, <3>3
      <3>5. G(n)[k] = Next1(G(n), k) /\ G(k)[k] = Next1(G(k), k)
        BY <1>3, <3>2, <3>4
      <3>6. k # 0
        BY <3>3, <3>5
      <3>7. k - 1 \in Nat /\ k - 1 < k /\ k - 1 <= n /\ k - 1 <= k
        BY <3>2, <3>3, <3>6
      <3>8. G(n)[k - 1] = G(k - 1)[k - 1] /\ G(k)[k - 1] = G(k - 1)[k - 1]
        BY <3>2, <3>7
      <3> QED BY <3>3, <3>5, <3>6, <3>8
    <2> SUFFICES ASSUME NEW n \in Nat, NEW k \in 0..n PROVE G(n)[k] = G(k)[k]
      OBVIOUS
    <2>1. k \in Nat /\ k <= n
      OBVIOUS
    <2>2. Fine(k)
      BY <2>0, <2>1
    <2> QED BY <2>1, <2>2
  <1>5. \A n \in Nat : d[n] = Next1(d, n)
    <2> SUFFICES ASSUME NEW n \in Nat PROVE d[n] = Next1(d, n)
      OBVIOUS
    <2>1. n \in 0..n /\ d[n] = G(n)[n]
      OBVIOUS
    <2>2. d[n] = Next1(G(n), n)
      BY <1>3, <2>1
    <2>3. n # 0 => n - 1 \in Nat /\ n - 1 \in 0..n
      OBVIOUS
    <2>4. n # 0 => d[n - 1] = G(n)[n - 1]
      BY <1>4, <2>3
    <2> HIDE DEF d
    <2> QED BY <2>2, <2>4
  <1>6. d = [n \in Nat |-> d[n]]
    OBVIOUS
  <1> HIDE DEF d
  <1>7. Halves(d, Nat)
    BY <1>5, <1>6 DEF Halves
  <1>8. Shifted = CHOOSE g : Halves(g, Nat)
    BY DEF Shifted, Halves
  <1> QED BY <1>7, <1>8

\* Each shift halves the subsidy.
LEMMA ShiftedSteps ==
  /\ Shifted[0] = InitialSubsidy /\ InitialSubsidy \in Nat
  /\ \A k \in Nat : /\ Shifted[k] \in Nat
                    /\ Shifted[k + 1] = Shifted[k] \div 2
                    /\ Shifted[k + 1] <= Shifted[k]
  <1>1. \A k \in Nat : Shifted[k] = IF k = 0 THEN InitialSubsidy
                                             ELSE Shifted[k - 1] \div 2
    BY ShiftedDef DEF Halves
  <1>2. InitialSubsidy \in Nat
    BY RewardAssumption
  <1>3. \A k \in Nat : Shifted[k] \in Nat
    <2> DEFINE Bad == {k \in Nat : Shifted[k] \notin Nat}
    <2>1. SUFFICES ASSUME Bad # {} PROVE FALSE
      OBVIOUS
    <2>2. PICK k \in Bad : \A j \in Bad : k <= j
      <3>1. Bad \in SUBSET Nat
        OBVIOUS
      <3> HIDE DEF Bad
      <3> QED BY <2>1, <3>1, LeastNumber
    <2>3. k \in Nat /\ Shifted[k] \notin Nat
      BY <2>2
    <2>4. k # 0 /\ Shifted[k] = Shifted[k - 1] \div 2
      BY <1>1, <1>2, <2>3
    <2>5. k - 1 \in Nat /\ ~(k <= k - 1)
      BY <2>3, <2>4
    <2>6. Shifted[k - 1] \in Nat
      BY <2>2, <2>5
    <2> QED BY <2>3, <2>4, <2>6
  <1>4. ASSUME NEW k \in Nat
        PROVE  /\ Shifted[k + 1] = Shifted[k] \div 2
               /\ Shifted[k + 1] <= Shifted[k]
    <2>1. k + 1 \in Nat /\ k + 1 # 0 /\ (k + 1) - 1 = k
      OBVIOUS
    <2>2. Shifted[k + 1] = Shifted[(k + 1) - 1] \div 2
      BY <1>1, <2>1
    <2>3. Shifted[k + 1] = Shifted[k] \div 2
      BY <2>1, <2>2
    <2>4. Shifted[k] \in Nat
      BY <1>3
    <2> QED BY <2>3, <2>4
  <1>5. Shifted[0] = InitialSubsidy
    BY <1>1
  <1> QED BY <1>2, <1>3, <1>4, <1>5

\* Ten halvings at once.
LEMMA ShiftedTen ==
  ASSUME NEW k \in Nat
  PROVE  Shifted[k + 10] = Shifted[k] \div 1024
  <1>1. ASSUME NEW j \in Nat
        PROVE  Shifted[j + 5] = Shifted[j] \div 32
    <2>1. /\ j + 1 \in Nat /\ j + 2 \in Nat /\ j + 3 \in Nat /\ j + 4 \in Nat
          /\ (j + 1) + 1 = j + 2 /\ (j + 2) + 1 = j + 3
          /\ (j + 3) + 1 = j + 4 /\ (j + 4) + 1 = j + 5
      OBVIOUS
    <2>2. /\ Shifted[j] \in Nat
          /\ Shifted[j + 1] = Shifted[j] \div 2
          /\ Shifted[j + 2] = Shifted[j + 1] \div 2
          /\ Shifted[j + 3] = Shifted[j + 2] \div 2
          /\ Shifted[j + 4] = Shifted[j + 3] \div 2
          /\ Shifted[j + 5] = Shifted[j + 4] \div 2
      BY <2>1, ShiftedSteps
    <2> QED BY <2>2
  <1>2. k + 5 \in Nat /\ (k + 5) + 5 = k + 10
    OBVIOUS
  <1>3. Shifted[k + 5] = Shifted[k] \div 32
    BY <1>1
  <1>4. Shifted[(k + 5) + 5] = Shifted[k + 5] \div 32
    BY <1>1, <1>2
  <1>5. Shifted[k] \in Nat
    BY ShiftedSteps
  <1> QED BY <1>2, <1>3, <1>4, <1>5

\* A u64 is 0 after 64 halvings.
LEMMA ShiftedOut ==
  ASSUME NEW k \in Nat, k >= 64
  PROVE  Shifted[k] = 0
  <1> DEFINE Ten(x) == x \div 1024
  <1>1. /\ Shifted[10] = Shifted[0] \div 1024
        /\ Shifted[20] = Shifted[10] \div 1024
        /\ Shifted[30] = Shifted[20] \div 1024
        /\ Shifted[40] = Shifted[30] \div 1024
        /\ Shifted[50] = Shifted[40] \div 1024
        /\ Shifted[60] = Shifted[50] \div 1024
    <2>1. /\ Shifted[0 + 10] = Shifted[0] \div 1024
          /\ Shifted[10 + 10] = Shifted[10] \div 1024
          /\ Shifted[20 + 10] = Shifted[20] \div 1024
          /\ Shifted[30 + 10] = Shifted[30] \div 1024
          /\ Shifted[40 + 10] = Shifted[40] \div 1024
          /\ Shifted[50 + 10] = Shifted[50] \div 1024
      BY ShiftedTen
    <2> QED BY <2>1
  <1>2. \A x \in Nat :
          x \div 1073741824 = ((x \div 1024) \div 1024) \div 1024
    OBVIOUS
  <1>3. Shifted[0] \in Nat /\ Shifted[30] \in Nat /\ Shifted[60] \in Nat
    BY ShiftedSteps, SMTT(30)
  <1>4. Shifted[30] = Shifted[0] \div 1073741824
        /\ Shifted[60] = Shifted[30] \div 1073741824
    BY <1>1, <1>2, <1>3
  <1>5. Shifted[60] < 16
    BY <1>4, ShiftedSteps, WidthAssumption
  <1>6. /\ Shifted[60 + 1] = Shifted[60] \div 2
        /\ Shifted[61 + 1] = Shifted[61] \div 2
        /\ Shifted[62 + 1] = Shifted[62] \div 2
        /\ Shifted[63 + 1] = Shifted[63] \div 2
    BY ShiftedSteps
  <1>7. Shifted[64] = 0
    <2>1. /\ Shifted[61] = Shifted[60] \div 2 /\ Shifted[62] = Shifted[61] \div 2
          /\ Shifted[63] = Shifted[62] \div 2 /\ Shifted[64] = Shifted[63] \div 2
      BY <1>6
    <2> QED BY <1>3, <1>5, <2>1
  <1> DEFINE Bad == {j \in Nat : j >= 64 /\ Shifted[j] # 0}
  <1>8. Bad = {}
    <2> SUFFICES ASSUME Bad # {} PROVE FALSE
      OBVIOUS
    <2>1. PICK j \in Bad : \A i \in Bad : j <= i
      <3>1. Bad \in SUBSET Nat
        OBVIOUS
      <3> HIDE DEF Bad
      <3> QED BY <3>1, LeastNumber
    <2>2. j \in Nat /\ j >= 64 /\ Shifted[j] # 0 /\ j # 64
      BY <1>7, <2>1
    <2>3. j - 1 \in Nat /\ j - 1 >= 64 /\ ~(j <= j - 1) /\ (j - 1) + 1 = j
      BY <2>2
    <2>4. Shifted[j - 1] = 0
      BY <2>1, <2>3
    <2>5. Shifted[(j - 1) + 1] = Shifted[j - 1] \div 2
      BY <2>3, ShiftedSteps
    <2> QED BY <2>2, <2>3, <2>4, <2>5
  <1> QED BY <1>8

\* The subsidy after e halvings.
Level(e) == IF Shifted[e] > MinSubsidy THEN Shifted[e] ELSE MinSubsidy

\* Each epoch halves the subsidy down to the minimum.
LEMMA LevelSteps ==
  /\ Level(0) = InitialSubsidy
  /\ \A e \in Nat :
       /\ Level(e) \in Nat
       /\ Level(e + 1) = IF Level(e) \div 2 > MinSubsidy THEN Level(e) \div 2
                                                         ELSE MinSubsidy
  <1>1. MinSubsidy \in Nat /\ MinSubsidy <= InitialSubsidy
        /\ InitialSubsidy \in Nat
    BY RewardAssumption
  <1>2. Level(0) = InitialSubsidy
    BY <1>1, ShiftedSteps DEF Level
  <1>3. ASSUME NEW e \in Nat
        PROVE  /\ Level(e) \in Nat
               /\ Level(e + 1) = IF Level(e) \div 2 > MinSubsidy
                                 THEN Level(e) \div 2 ELSE MinSubsidy
    <2> DEFINE x == Shifted[e]
               y == Shifted[e + 1]
    <2>1. x \in Nat /\ y = x \div 2
      BY ShiftedSteps
    <2>2. /\ Level(e) = IF x > MinSubsidy THEN x ELSE MinSubsidy
          /\ Level(e + 1) = IF y > MinSubsidy THEN y ELSE MinSubsidy
      BY DEF Level
    <2> HIDE DEF x, y
    <2>3. CASE x > MinSubsidy
      BY <1>1, <2>1, <2>2, <2>3
    <2>4. CASE ~(x > MinSubsidy)
      <3>1. MinSubsidy \div 2 <= MinSubsidy /\ y <= x
        BY <1>1, <2>1
      <3> QED BY <1>1, <2>1, <2>2, <2>4, <3>1
    <2> QED BY <2>3, <2>4
  <1> QED BY <1>2, <1>3

\* From the 64th halving on the shift is 0, so the early return of
\* block_subsidy changes nothing.
LEMMA SubsidyLevel ==
  ASSUME NEW h \in Nat \ {0}
  PROVE  /\ (h - 1) \div HalvingInterval \in Nat
         /\ BlockSubsidy(h) = Level((h - 1) \div HalvingInterval)
  <1> DEFINE e == (h - 1) \div HalvingInterval
  <1>1. e \in Nat
    <2>1. h - 1 \in Nat /\ HalvingInterval \in Nat \ {0}
      BY RewardAssumption
    <2> QED BY <2>1, Division
  <1>2. MinSubsidy \in Nat
    BY RewardAssumption
  <1>3. h # 0 /\ h > 0
    OBVIOUS
  <1>4. CASE e >= 64
    <2>1. Shifted[e] = 0
      <3> HIDE DEF e
      <3> QED BY <1>1, <1>4, ShiftedOut
    <2>2. BlockSubsidy(h) = MinSubsidy
      BY <1>3, <1>4 DEF BlockSubsidy
    <2> HIDE DEF e
    <2>3. Level(e) = MinSubsidy
      BY <1>2, <2>1 DEF Level
    <2> QED BY <1>1, <2>2, <2>3 DEF e
  <1>5. CASE ~(e >= 64)
    <2>1. BlockSubsidy(h) = IF Shifted[e] > MinSubsidy THEN Shifted[e]
                                                       ELSE MinSubsidy
      BY <1>3, <1>5 DEF BlockSubsidy
    <2> HIDE DEF e
    <2> QED BY <1>1, <2>1 DEF e, Level
  <1> QED BY <1>4, <1>5

\* A subsidy is an amount of money.
LEMMA SubsidyNat ==
  ASSUME NEW h \in Nat
  PROVE  BlockSubsidy(h) \in Nat
  <1>1. CASE h = 0
    BY <1>1 DEF BlockSubsidy
  <1>2. CASE h # 0
    <2>1. h \in Nat \ {0}
      BY <1>2
    <2> QED BY <2>1, SubsidyLevel, LevelSteps
  <1> QED BY <1>1, <1>2

\* Functions to the naturals are functions to the integers.
LEMMA NatFunction ==
  ASSUME NEW D, NEW f \in [D -> Nat]
  PROVE  f \in [D -> Int]
  OBVIOUS

\* One block more is minted.
LEMMA MintedSteps ==
  /\ Minted(0) = 0
  /\ \A h \in Nat : /\ Minted(h) \in Nat
                    /\ Minted(h + 1) = Minted(h) + BlockSubsidy(h + 1)
  <1> DEFINE sub(h) == [i \in 1..h |-> BlockSubsidy(i)]
  <1>1. \A h \in Nat : sub(h) \in [1..h -> Nat] /\ IsFiniteSet(1..h)
    <2> SUFFICES ASSUME NEW h \in Nat
                 PROVE  sub(h) \in [1..h -> Nat] /\ IsFiniteSet(1..h)
      OBVIOUS
    <2>1. \A i \in 1..h : BlockSubsidy(i) \in Nat
      BY SubsidyNat
    <2> QED BY <2>1, FS_Interval
  <1>2. Minted(0) = 0
    <2>1. sub(0) \in [{} -> Int] /\ IsFiniteSet({}) /\ 1..0 = {}
      BY FS_EmptySet
    <2> HIDE DEF sub
    <2>2. SumFunction(sub(0)) = 0
      BY <2>1, SumRemove
    <2> QED BY <2>2 DEF Minted, sub
  <1>3. ASSUME NEW h \in Nat
        PROVE  /\ Minted(h) \in Nat
               /\ Minted(h + 1) = Minted(h) + BlockSubsidy(h + 1)
    <2>1. sub(h) \in [1..h -> Nat] /\ IsFiniteSet(1..h)
          /\ sub(h + 1) \in [1..(h + 1) -> Int]
      <3>1. h + 1 \in Nat
        OBVIOUS
      <3>2. sub(h + 1) \in [1..(h + 1) -> Nat]
        BY <1>1, <3>1
      <3> HIDE DEF sub
      <3> QED BY <1>1, <3>2, NatFunction
    <2>2. sub(h + 1)[h + 1] = BlockSubsidy(h + 1)
          /\ [i \in 1..h |-> sub(h + 1)[i]] = sub(h)
      OBVIOUS
    <2> HIDE DEF sub
    <2>3. SumFunction(sub(h + 1)) = SumFunction(sub(h)) + BlockSubsidy(h + 1)
      BY <2>1, <2>2, SumLast
    <2>4. SumFunction(sub(h)) \in Nat
      BY <2>1, SumNat
    <2> QED BY <2>3, <2>4 DEF Minted, sub
  <1> QED BY <1>2, <1>3

\* The subsidies that scheduled_supply computes one from the other.
Subsidies(n) ==
  CHOOSE g : g = [e \in 0..n |->
    IF e = 0 THEN InitialSubsidy
    ELSE IF g[e - 1] \div 2 > MinSubsidy THEN g[e - 1] \div 2
    ELSE MinSubsidy]

\* The loop of scheduled_supply_at has the subsidy of every epoch.
LEMMA SubsidiesLevel ==
  ASSUME NEW n \in Int, NEW e \in 0..n
  PROVE  Subsidies(n)[e] = Level(e)
  <1> DEFINE Next1(g, k) ==
               IF k = 0 THEN InitialSubsidy
               ELSE IF g[k - 1] \div 2 > MinSubsidy THEN g[k - 1] \div 2
               ELSE MinSubsidy
             Fits(g) == g = [k \in 0..n |-> Next1(g, k)]
             v == [k \in 0..n |-> Level(k)]
             s == Subsidies(n)
  <1>1. \A k \in 0..n : v[k] = Next1(v, k)
    <2> SUFFICES ASSUME NEW k \in 0..n PROVE v[k] = Next1(v, k)
      OBVIOUS
    <2>1. CASE k = 0
      BY <2>1, LevelSteps
    <2>2. CASE k # 0
      <3>1. k - 1 \in Nat /\ k - 1 \in 0..n /\ (k - 1) + 1 = k
        BY <2>2
      <3>2. Level((k - 1) + 1) = IF Level(k - 1) \div 2 > MinSubsidy
                                 THEN Level(k - 1) \div 2 ELSE MinSubsidy
        BY <3>1, LevelSteps
      <3>3. v[k] = Level(k) /\ v[k - 1] = Level(k - 1)
        BY <3>1
      <3> HIDE DEF v
      <3> QED BY <2>2, <3>1, <3>2, <3>3
    <2> QED BY <2>1, <2>2
  <1>2. \E g : Fits(g)
    <2>1. v = [k \in 0..n |-> v[k]]
      OBVIOUS
    <2> HIDE DEF v
    <2>2. Fits(v)
      BY <1>1, <2>1
    <2> QED BY <2>2
  <1>3. s = CHOOSE g : Fits(g)
    BY DEF Subsidies
  <1>4. Fits(s)
    <2> HIDE DEF Fits, s
    <2> QED BY <1>2, <1>3
  <1>5. \A k \in 0..n : s[k] = Next1(s, k)
    <2> HIDE DEF s
    <2> QED BY <1>4
  <1> HIDE DEF s
  <1> DEFINE Bad == {k \in Nat : k <= n /\ s[k] # v[k]}
  <1>6. Bad = {}
    <2> SUFFICES ASSUME Bad # {} PROVE FALSE
      OBVIOUS
    <2>1. PICK k \in Bad : \A j \in Bad : k <= j
      <3>1. Bad \in SUBSET Nat
        OBVIOUS
      <3> HIDE DEF Bad
      <3> QED BY <3>1, LeastNumber
    <2> HIDE DEF v
    <2>2. k \in Nat /\ k \in 0..n /\ s[k] # v[k]
      BY <2>1
    <2>3. s[k] = Next1(s, k) /\ v[k] = Next1(v, k)
      BY <1>1, <1>5, <2>2
    <2>4. k # 0
      BY <2>2, <2>3
    <2>5. k - 1 \in Nat /\ k - 1 <= n /\ ~(k <= k - 1)
      BY <2>2, <2>4
    <2>6. s[k - 1] = v[k - 1]
      BY <2>1, <2>5
    <2> QED BY <2>2, <2>3, <2>4, <2>6
  <1>7. e \in Nat /\ e <= n
    OBVIOUS
  <1>8. s[e] = v[e]
    <2> HIDE DEF v
    <2> QED BY <1>6, <1>7
  <1> QED BY <1>8 DEF s

\* scheduled_supply with the last epoch n.
Terms(h, n) ==
  [e \in 0..n |-> (IF e < n THEN HalvingInterval ELSE h - n * HalvingInterval)
                    * Level(e)]

\* scheduled_supply_at as a sum over epochs.
LEMMA ScheduledTerms ==
  ASSUME NEW h \in Nat
  PROVE  ScheduledSupply(h) =
           SumFunction(Terms(h, (h - 1) \div HalvingInterval))
  <1> DEFINE n == (h - 1) \div HalvingInterval
             t == [e \in 0..n |-> (IF e < n THEN HalvingInterval
                                   ELSE h - n * HalvingInterval)
                                    * Subsidies(n)[e]]
  <1>1. ScheduledSupply(h) = SumFunction(t)
    BY DEF ScheduledSupply, Subsidies
  <1>2. n \in Int
    <2>1. HalvingInterval \in Nat \ {0} /\ h - 1 \in Int
      BY RewardAssumption
    <2> QED BY <2>1
  <1> HIDE DEF n
  <1>3. \A e \in 0..n : Subsidies(n)[e] = Level(e)
    BY <1>2, SubsidiesLevel
  <1>4. t = Terms(h, n)
    BY <1>3 DEF Terms
  <1> QED BY <1>1, <1>4 DEF n

\* The terms of scheduled_supply_at: blocks of the epoch times its subsidy.
LEMMA TermsInt ==
  ASSUME NEW h \in Int, NEW n \in Int
  PROVE  /\ Terms(h, n) \in [0..n -> Int] /\ IsFiniteSet(0..n)
         /\ \A e \in 0..n :
              Terms(h, n)[e] = (IF e < n THEN HalvingInterval
                                ELSE h - n * HalvingInterval) * Level(e)
  <1>1. HalvingInterval \in Nat /\ n * HalvingInterval \in Int
    BY RewardAssumption
  <1>2. ASSUME NEW e \in 0..n
        PROVE  (IF e < n THEN HalvingInterval
                ELSE h - n * HalvingInterval) * Level(e) \in Int
    <2> DEFINE x == IF e < n THEN HalvingInterval ELSE h - n * HalvingInterval
    <2>1. x \in Int
      BY <1>1
    <2>2. Level(e) \in Nat
      BY LevelSteps
    <2> HIDE DEF x
    <2>3. x * Level(e) \in Int
      BY <2>1, <2>2
    <2> QED BY <2>3 DEF x
  <1>3. IsFiniteSet(0..n)
    BY FS_Interval
  <1> QED BY <1>2, <1>3 DEF Terms

\* Multiples of the halving interval.
LEMMA Epochs ==
  ASSUME NEW h \in Nat
  PROVE  LET d == HalvingInterval
             n == (h - 1) \div d
             m == h \div d
         IN  /\ n \in Int /\ m \in Nat
             /\ \/ m = n
                \/ m = n + 1 /\ h = m * d
  <1> DEFINE d == HalvingInterval
             n == (h - 1) \div d
             m == h \div d
             r == h % d
  <1>1. d \in Nat \ {0}
    BY RewardAssumption
  <1>2. /\ m \in Nat /\ r \in Nat /\ r < d /\ h = d * m + r
    BY <1>1, Division
  <1>3. CASE r = 0
    <2>1. h - 1 = d * (m - 1) + (d - 1) /\ h = m * d
      <3> HIDE DEF d, m, r
      <3> QED BY <1>1, <1>2, <1>3
    <2>2. n = m - 1
      <3>1. \A q \in Int : h - 1 = d * q + (d - 1) => (h - 1) \div d = q
        <4> HIDE DEF d, m, r
        <4> QED BY <1>1
      <3>2. m - 1 \in Int
        BY <1>2
      <3> HIDE DEF d, m, r
      <3> QED BY <2>1, <3>1, <3>2
    <2> HIDE DEF d, m, r
    <2> QED BY <1>2, <2>1, <2>2 DEF d, m
  <1>4. CASE r # 0
    <2>1. h - 1 = d * m + (r - 1) /\ r - 1 \in Nat /\ r - 1 < d
      <3> HIDE DEF d, m, r
      <3> QED BY <1>1, <1>2, <1>4
    <2>2. n = m
      <3>1. \A q \in Nat, x \in Nat : h - 1 = d * q + x /\ x < d => (h - 1) \div d = q
        <4> HIDE DEF d, m, r
        <4> QED BY <1>1
      <3> HIDE DEF d, m, r
      <3> QED BY <1>2, <2>1, <3>1
    <2> QED BY <1>2, <2>2
  <1> QED BY <1>3, <1>4

\* One more block adds its subsidy to scheduled_supply_at.
LEMMA ScheduledStep ==
  ASSUME NEW h \in Nat
  PROVE  /\ ScheduledSupply(h) \in Int
         /\ ScheduledSupply(h + 1) = ScheduledSupply(h) + BlockSubsidy(h + 1)
  <1> DEFINE d == HalvingInterval
             n == (h - 1) \div d
             m == h \div d
             f == Terms(h, n)
             g == Terms(h + 1, m)
             b == Level(m)
  <1>0. d \in Nat \ {0}
    BY RewardAssumption
  <1>1. n \in Int /\ m \in Nat /\ (m = n \/ (m = n + 1 /\ h = m * d))
    BY Epochs
  <1>2. ScheduledSupply(h) = SumFunction(f)
    BY ScheduledTerms
  <1>3. ScheduledSupply(h + 1) = SumFunction(g) /\ BlockSubsidy(h + 1) = b
    <2>1. h + 1 \in Nat \ {0} /\ h + 1 \in Nat /\ (h + 1) - 1 = h
      OBVIOUS
    <2>2. ScheduledSupply(h + 1) =
            SumFunction(Terms(h + 1, ((h + 1) - 1) \div HalvingInterval))
      BY <2>1, ScheduledTerms
    <2>3. BlockSubsidy(h + 1) = Level(((h + 1) - 1) \div HalvingInterval)
      BY <2>1, SubsidyLevel
    <2> QED BY <2>1, <2>2, <2>3
  <1>4. /\ f \in [0..n -> Int] /\ g \in [0..m -> Int]
        /\ IsFiniteSet(0..n) /\ IsFiniteSet(0..m)
        /\ \A e \in 0..n : f[e] = (IF e < n THEN d ELSE h - n * d) * Level(e)
        /\ \A e \in 0..m : g[e] = (IF e < m THEN d ELSE (h + 1) - m * d) * Level(e)
    <2>1. h \in Int /\ h + 1 \in Int /\ n \in Int /\ m \in Int
      BY <1>1
    <2> HIDE DEF n, m
    <2> QED BY <2>1, TermsInt
  <1>5. b \in Nat /\ \A e \in Nat : Level(e) \in Nat
    <2>1. \A e \in Nat : Level(e) \in Nat
      BY LevelSteps
    <2> QED BY <1>1, <2>1
  <1>6. SumFunction(f) \in Int
    <2> HIDE DEF f, n
    <2> QED BY <1>4, SumRemove
  <1>7. SumFunction(g) = SumFunction(f) + b
    <2>1. CASE m = n
      <3>1. m \in 0..n /\ 0..m = 0..n /\ n * d \in Int
        BY <1>0, <1>1, <2>1
      <3>2. f[m] = (h - m * d) * b /\ g[m] = ((h + 1) - m * d) * b
        <4>1. m \in 0..n /\ m \in 0..m /\ ~(m < n) /\ ~(m < m)
          BY <1>1, <2>1
        <4> HIDE DEF f, g, n, m
        <4> QED BY <1>4, <2>1, <4>1
      <3>3. \A e \in 0..n : e # m => f[e] = g[e]
        <4> HIDE DEF f, g, n, m
        <4> SUFFICES ASSUME NEW e \in 0..n, e # m PROVE f[e] = g[e]
          OBVIOUS
        <4>1. e < n /\ e < m /\ e \in 0..m
          BY <1>1, <2>1
        <4> QED BY <1>4, <4>1
      <3>4. SumFunction(g) = SumFunction(f) - f[m] + g[m]
        <4> HIDE DEF f, g, n, m
        <4>1. g \in [0..n -> Int]
          BY <1>4, <3>1
        <4> QED BY <1>4, <3>1, <3>3, <4>1, SumExcept, ZenonT(40)
      <3> DEFINE x == h - m * d
      <3>5. x \in Int /\ (h + 1) - m * d = x + 1
        BY <1>0, <1>1
      <3> HIDE DEF x
      <3>6. (x + 1) * b = x * b + b /\ x * b \in Int
        BY <1>5, <3>5
      <3>7. f[m] = x * b /\ g[m] = (x + 1) * b
        BY <3>2, <3>5 DEF x
      <3> HIDE DEF f, g, n, m, b
      <3> QED BY <1>5, <1>6, <3>4, <3>6, <3>7
    <2>2. CASE m = n + 1 /\ h = m * d
      <3>0. m \in 0..m /\ (0..m) \ {m} = 0..n /\ n = m - 1
        BY <1>1, <2>2
      <3>1. g[m] = b
        <4>1. (h + 1) - m * d = 1 /\ ~(m < m)
          BY <1>0, <1>1, <2>2
        <4>2. g[m] = ((h + 1) - m * d) * b
          <5> HIDE DEF f, g, n, m
          <5> QED BY <1>4, <3>0, <4>1
        <4>3. 1 * b = b
          BY <1>5
        <4> QED BY <4>1, <4>2, <4>3
      <3>2. \A e \in 0..n : g[e] = f[e]
        <4>1. h - n * d = d
          <5> HIDE DEF n, m
          <5>1. h = (n + 1) * d
            BY <2>2
          <5>2. (n + 1) * d = n * d + d /\ n * d \in Int
            BY <1>0, <1>1
          <5> QED BY <1>0, <5>1, <5>2
        <4> HIDE DEF f, g, n, m
        <4> SUFFICES ASSUME NEW e \in 0..n PROVE g[e] = f[e]
          OBVIOUS
        <4>2. e \in 0..m /\ e < m
          BY <1>1, <3>0
        <4>3. g[e] = d * Level(e)
          BY <1>4, <4>2
        <4>4. f[e] = d * Level(e)
          BY <1>4, <4>1
        <4> QED BY <4>3, <4>4
      <3>3. [e \in (0..m) \ {m} |-> g[e]] = f
        <4> HIDE DEF f, g, n, m
        <4>1. f = [e \in 0..n |-> f[e]]
          BY <1>4
        <4> QED BY <3>0, <3>2, <4>1
      <3>4. SumFunction(g) = g[m] + SumFunction([e \in (0..m) \ {m} |-> g[e]])
        <4> HIDE DEF f, g, n, m
        <4>1. g \in [0..m -> Int] /\ IsFiniteSet(0..m)
          BY <1>4
        <4>2. \A x \in 0..m : SumFunction(g)
                = g[x] + SumFunction([e \in (0..m) \ {x} |-> g[e]])
          BY <4>1, SumRemove
        <4>3. m \in 0..m
          BY <3>0
        <4> QED BY <4>2, <4>3
      <3> HIDE DEF f, g, n, m, b
      <3> QED BY <1>5, <1>6, <3>1, <3>3, <3>4
    <2> QED BY <1>1, <2>1, <2>2
  <1> HIDE DEF f, g, n, m, b
  <1> QED BY <1>2, <1>3, <1>6, <1>7

\* What the node reports as its scheduled supply, an epoch at a time, is what
\* the blocks issued one by one.
THEOREM ScheduleAgrees ==
  ASSUME NEW h \in Nat
  PROVE  ScheduledSupply(h) = Minted(h)
  <1> DEFINE Bad == {k \in Nat : ScheduledSupply(k) # Minted(k)}
  <1>0. ScheduledSupply(0) = 0
    <2> DEFINE n == (0 - 1) \div HalvingInterval
    <2>1. n \in Int /\ n < 0
      <3>1. HalvingInterval \in Nat \ {0}
        BY RewardAssumption
      <3> QED BY <3>1
    <2>2. ScheduledSupply(0) = SumFunction(Terms(0, n))
      BY ScheduledTerms
    <2> HIDE DEF n
    <2>3. Terms(0, n) \in [0..n -> Int] /\ IsFiniteSet(0..n) /\ 0..n = {}
      BY <2>1, TermsInt
    <2>4. SumFunction(Terms(0, n)) = 0
      BY <2>3, SumRemove
    <2> QED BY <2>2, <2>4
  <1>1. Bad = {}
    <2> SUFFICES ASSUME Bad # {} PROVE FALSE
      OBVIOUS
    <2>1. PICK k \in Bad : \A j \in Bad : k <= j
      <3>1. Bad \in SUBSET Nat
        OBVIOUS
      <3> HIDE DEF Bad
      <3> QED BY <3>1, LeastNumber
    <2>2. k \in Nat /\ ScheduledSupply(k) # Minted(k)
      BY <2>1
    <2>3. k # 0
      BY <1>0, <2>2, MintedSteps
    <2>4. k - 1 \in Nat /\ ~(k <= k - 1) /\ (k - 1) + 1 = k
      BY <2>2, <2>3
    <2>5. ScheduledSupply(k - 1) = Minted(k - 1)
      BY <2>1, <2>4
    <2>6. ScheduledSupply((k - 1) + 1)
            = ScheduledSupply(k - 1) + BlockSubsidy((k - 1) + 1)
      BY <2>4, ScheduledStep
    <2>7. Minted((k - 1) + 1) = Minted(k - 1) + BlockSubsidy((k - 1) + 1)
      BY <2>4, MintedSteps
    <2> QED BY <2>2, <2>4, <2>5, <2>6, <2>7
  <1> QED BY <1>1

-----------------------------------------------------------------------------
(* The operations of LedgerState keep its shape and its commitment.        *)

\* set_account keeps the tree in step with the accounts.
LEMMA SetAccountsSound ==
  ASSUME NEW s \in LedgerState, NEW acct \in [Addr -> Account]
  PROVE  /\ SetAccounts(s, acct) \in LedgerState
         /\ SetAccounts(s, acct).acct = acct
         /\ SetAccounts(s, acct).pending = s.pending
         /\ SetAccounts(s, acct).pendLeaf = s.pendLeaf
         /\ Committed(s) => Committed(SetAccounts(s, acct))
  <1> DEFINE r == SetAccounts(s, acct)
  <1>1. /\ s.pending \in [Heights -> [Addr -> Nat]]
        /\ s.pendLeaf \in [Heights -> [Addr -> Nat \cup {NoLeaf}]]
        /\ s.acctLeaf \in [Addr -> Account \cup {NoLeaf}]
    BY DEF LedgerState
  <1>2. r \in LedgerState
    BY <1>1 DEF SetAccounts, LedgerState
  <1>3. Committed(s) => Committed(r)
    BY <1>1 DEF Committed, SetAccounts
  <1> QED BY <1>2, <1>3 DEF SetAccounts

\* Replacing one row of the pending map and of its leaves together.
LEMMA SetPendingSound ==
  ASSUME NEW s \in LedgerState, NEW h \in Heights,
         NEW row \in [Addr -> Nat],
         NEW leaves \in [Addr -> Nat \cup {NoLeaf}]
  PROVE  /\ SetPending(s, h, row, leaves) \in LedgerState
         /\ SetPending(s, h, row, leaves).acct = s.acct
         /\ SetPending(s, h, row, leaves).pending =
              [s.pending EXCEPT ![h] = row]
         /\ Committed(s) /\ (\A a \in Addr : leaves[a] =
                               IF row[a] = 0 THEN NoLeaf ELSE row[a])
              => Committed(SetPending(s, h, row, leaves))
  <1> DEFINE r == SetPending(s, h, row, leaves)
  <1>1. /\ s.pending \in [Heights -> [Addr -> Nat]]
        /\ s.pendLeaf \in [Heights -> [Addr -> Nat \cup {NoLeaf}]]
        /\ s.acctLeaf \in [Addr -> Account \cup {NoLeaf}]
        /\ s.acct \in [Addr -> Account]
    BY DEF LedgerState
  <1>2. r \in LedgerState
    BY <1>1 DEF SetPending, LedgerState
  <1>3. ASSUME Committed(s),
               \A a \in Addr : leaves[a] =
                 IF row[a] = 0 THEN NoLeaf ELSE row[a]
        PROVE  Committed(r)
    BY <1>1, <1>3 DEF Committed, SetPending
  <1> QED BY <1>2, <1>3 DEF SetPending

\* mature moves the rewards of one height into the balances.
LEMMA MatureSound ==
  ASSUME NEW s \in LedgerState, NEW h \in Heights
  PROVE  /\ Mature(s, h) \in LedgerState
         /\ \A a \in Addr : Mature(s, h).acct[a].nonce = s.acct[a].nonce
         /\ Mature(s, h).pending = [s.pending EXCEPT ![h] = NoWork]
         /\ Committed(s) => Committed(Mature(s, h))
  <1> DEFINE c == Credited(s, h)
             r == SetAccounts(s, c)
             none == [a \in Addr |-> NoLeaf]
  <1>1. s.acct \in [Addr -> Account] /\ s.pending[h] \in [Addr -> Nat]
    BY DEF LedgerState
  <1>2. /\ c \in [Addr -> Account]
        /\ \A a \in Addr : c[a].nonce = s.acct[a].nonce
    BY <1>1 DEF Credited, Account
  <1> HIDE DEF c
  <1>3. /\ r \in LedgerState /\ r.acct = c /\ r.pending = s.pending
        /\ Committed(s) => Committed(r)
    BY <1>2, SetAccountsSound
  <1> HIDE DEF r
  <1>4. NoWork \in [Addr -> Nat] /\ none \in [Addr -> Nat \cup {NoLeaf}]
    BY DEF NoWork
  <1>5. \A a \in Addr : none[a] = IF NoWork[a] = 0 THEN NoLeaf ELSE NoWork[a]
    BY DEF NoWork
  <1> HIDE DEF none
  <1>6. Mature(s, h) = SetPending(r, h, NoWork, none)
    BY DEF Mature, none, r, c
  <1> QED BY <1>2, <1>3, <1>4, <1>5, <1>6, SetPendingSound

\* schedule_reward adds to the rewards of one height.
LEMMA ScheduleSound ==
  ASSUME NEW s \in LedgerState, NEW h \in Heights,
         NEW reward \in [Addr -> 0..MaxMoney]
  PROVE  /\ ScheduleRewards(s, h, reward) \in LedgerState
         /\ ScheduleRewards(s, h, reward).acct = s.acct
         /\ \A k \in Heights : k # h =>
              ScheduleRewards(s, h, reward).pending[k] = s.pending[k]
         /\ Committed(s) => Committed(ScheduleRewards(s, h, reward))
  <1> DEFINE row == [a \in Addr |-> s.pending[h][a] + reward[a]]
             leaves == [a \in Addr |->
               IF reward[a] = 0 THEN s.pendLeaf[h][a]
                                ELSE s.pending[h][a] + reward[a]]
  <1>0. \A a \in Addr : s.pending[h][a] \in Nat /\ reward[a] \in Nat
    BY RewardAssumption DEF LedgerState
  <1>1. row \in [Addr -> Nat] /\ leaves \in [Addr -> Nat \cup {NoLeaf}]
    BY <1>0 DEF LedgerState
  <1>2. ASSUME Committed(s)
        PROVE  \A a \in Addr : leaves[a] =
                 IF row[a] = 0 THEN NoLeaf ELSE row[a]
    BY <1>0, <1>2 DEF Committed
  <1>3. s.pending \in [Heights -> [Addr -> Nat]]
    BY DEF LedgerState
  <1> HIDE DEF row, leaves
  <1>4. ScheduleRewards(s, h, reward) = SetPending(s, h, row, leaves)
    BY DEF ScheduleRewards, row, leaves
  <1>5. /\ SetPending(s, h, row, leaves) \in LedgerState
        /\ SetPending(s, h, row, leaves).acct = s.acct
        /\ SetPending(s, h, row, leaves).pending =
             [s.pending EXCEPT ![h] = row]
        /\ Committed(s) => Committed(SetPending(s, h, row, leaves))
    BY <1>1, <1>2, SetPendingSound
  <1> QED BY <1>3, <1>4, <1>5

\* A transaction that passed the checks moves money and one nonce.
LEMMA TransferSound ==
  ASSUME NEW s \in LedgerState, NEW t \in Tx, WellFormed(t),
         t.nonce = s.acct[t.sender].nonce,
         t.amount + t.fee <= s.acct[t.sender].balance
  PROVE  /\ Transfer(s, t) \in LedgerState
         /\ Transfer(s, t).pending = s.pending
         /\ Transfer(s, t).acct[t.sender].nonce = t.nonce + 1
         /\ \A a \in Addr : a # t.sender =>
              Transfer(s, t).acct[a].nonce = s.acct[a].nonce
         /\ Committed(s) => Committed(Transfer(s, t))
  <1> DEFINE acct == [s.acct EXCEPT
               ![t.sender] = [balance |-> @.balance - (t.amount + t.fee),
                              nonce |-> t.nonce + 1],
               ![t.recipient].balance = @ + t.amount]
  <1>0. /\ t.sender \in Addr /\ t.recipient \in Addr /\ t.amount \in Nat
        /\ t.fee \in Nat /\ t.nonce \in Nat /\ t.sender # t.recipient
    BY LedgerAssumption DEF WellFormed
  <1>1. s.acct \in [Addr -> Account]
    BY DEF LedgerState
  <1>2. acct = [a \in Addr |->
          IF a = t.sender
          THEN [balance |-> s.acct[a].balance - (t.amount + t.fee),
                nonce |-> t.nonce + 1]
          ELSE IF a = t.recipient
          THEN [balance |-> s.acct[a].balance + t.amount,
                nonce |-> s.acct[a].nonce]
          ELSE s.acct[a]]
    BY <1>0, <1>1, SMTT(30) DEF Account
  <1> HIDE DEF acct
  <1>3. acct \in [Addr -> Account]
    <2>1. s.acct[t.sender].balance - (t.amount + t.fee) \in Nat
      BY <1>0, <1>1 DEF Account
    <2> SUFFICES ASSUME NEW a \in Addr
                 PROVE  (IF a = t.sender
                         THEN [balance |-> s.acct[a].balance - (t.amount + t.fee),
                               nonce |-> t.nonce + 1]
                         ELSE IF a = t.recipient
                         THEN [balance |-> s.acct[a].balance + t.amount,
                               nonce |-> s.acct[a].nonce]
                         ELSE s.acct[a]) \in Account
      BY <1>2
    <2>2. s.acct[a].balance \in Nat /\ s.acct[a].nonce \in Nat
      BY <1>1 DEF Account
    <2> QED BY <1>0, <1>1, <2>1, <2>2 DEF Account
  <1>5. /\ acct[t.sender].nonce = t.nonce + 1
        /\ \A a \in Addr : a # t.sender => acct[a].nonce = s.acct[a].nonce
    BY <1>0, <1>2
  <1>4. Transfer(s, t) = SetAccounts(s, acct)
    BY DEF Transfer, acct
  <1> QED BY <1>3, <1>4, <1>5, SetAccountsSound

-----------------------------------------------------------------------------
(* The inductive invariant.                                                *)

\* The genesis state satisfies the invariant.
LEMMA InitInv == Init => LedgerInv
  <1> SUFFICES ASSUME Init PROVE LedgerInv
    OBVIOUS
  <1> USE DEF Init
  <1>1. EmptyState \in LedgerState /\ Committed(EmptyState)
    BY DEF EmptyState, LedgerState, Committed, DefaultAccount, Account,
           NoPending
  <1>2. NoWork \in [Addr -> Nat]
    BY DEF NoWork
  <1>3. (CHOOSE a \in Addr : TRUE) \in Addr
    BY RewardAssumption
  <1>4. TypeOK
    <2>1. shares \in Seq([Addr -> Nat]) /\ Len(shares) = 1
      BY <1>2
    <2> QED BY <1>1, <1>2, <1>3, <2>1, LedgerAssumption DEF TypeOK
  <1>5. RootCommitsToState /\ NoRewardLeftBehind
    BY <1>1 DEF RootCommitsToState, NoRewardLeftBehind, PendingWithin,
                EmptyState, NoPending
  <1>6. NoncesUsedOnce
    BY DEF NoncesUsedOnce, NoReplay, Spent
  <1> QED BY <1>4, <1>5, <1>6 DEF LedgerInv

\* A block begins: the rewards of its height mature.
LEMMA BeginBlockInv ==
  ASSUME LedgerInv, NEW finder \in Addr, NEW weights \in Witness,
         BeginBlock(finder, weights)
  PROVE  LedgerInv'
  <1> USE DEF LedgerInv
  <1>0. /\ height + 1 \in Heights /\ height \in Nat /\ state \in LedgerState
        /\ weights \in [Addr -> Nat]
    <2>1. height \in 0..MaxHeight /\ state \in LedgerState
      BY DEF TypeOK
    <2>2. height < MaxHeight
      BY DEF BeginBlock
    <2>3. weights \in [Addr -> Nat]
      BY LedgerAssumption
    <2>4. MaxHeight \in Nat /\ Maturity \in Nat
      BY LedgerAssumption
    <2> HIDE DEF LedgerInv
    <2>5. height \in Nat /\ height + 1 \in 1..(MaxHeight + Maturity)
      BY <2>1, <2>2, <2>4
    <2> QED BY <2>1, <2>3, <2>5 DEF Heights
  <1>1. /\ work' \in LedgerState
        /\ \A a \in Addr : work'.acct[a].nonce = state.acct[a].nonce
        /\ work'.pending = [state.pending EXCEPT ![height + 1] = NoWork]
        /\ Committed(work')
    BY <1>0, MatureSound DEF BeginBlock, RootCommitsToState
  <1>2. TypeOK'
    BY <1>0, <1>1 DEF BeginBlock, TypeOK, chain
  <1>3. RootCommitsToState'
    BY <1>1 DEF BeginBlock, RootCommitsToState, Committed, chain
  <1>4. NoRewardLeftBehind'
    <2>1. PendingWithin(state, height)'
      BY DEF BeginBlock, chain, NoRewardLeftBehind, PendingWithin
    <2>2. ASSUME NEW m \in Heights, NEW a \in Addr, work'.pending[m][a] > 0
          PROVE  height + 1 < m /\ m <= height + Maturity
      <3>1. state.pending \in [Heights -> [Addr -> Nat]]
        BY <1>0 DEF LedgerState
      <3>2. m # height + 1 /\ state.pending[m][a] > 0
        BY <1>0, <1>1, <2>2, <3>1 DEF NoWork
      <3>3. height < m /\ m <= height + Maturity
        BY <3>2 DEF NoRewardLeftBehind, PendingWithin
      <3> QED BY <1>0, <3>2, <3>3 DEF Heights
    <2> QED BY <2>1, <2>2 DEF BeginBlock, chain, NoRewardLeftBehind
  <1>5. NoncesUsedOnce'
    <2>1. body' = <<>> /\ log' = log /\ state' = state
      BY DEF BeginBlock, chain
    <2>2. Spent(log, work')
      <3> SUFFICES ASSUME NEW i \in DOMAIN log
                   PROVE  log[i].nonce < work'.acct[log[i].sender].nonce
        BY DEF Spent
      <3>1. log[i] \in Tx
        BY DEF TypeOK
      <3>2. log[i].sender \in Addr
        BY <3>1, LedgerAssumption
      <3> QED BY <1>1, <3>2 DEF NoncesUsedOnce, Spent
    <2> QED BY <2>1, <2>2 DEF NoncesUsedOnce, NoReplay, Spent
  <1> QED BY <1>2, <1>3, <1>4, <1>5

\* One transaction of the block's body.
LEMMA ApplyTransactionInv ==
  ASSUME LedgerInv, NEW t \in Tx, ApplyTransaction(t)
  PROVE  LedgerInv'
  <1> USE DEF LedgerInv
  <1>0. /\ phase = "body" /\ phase' = "body" /\ UNCHANGED <<chain, block>>
        /\ work \in LedgerState /\ WellFormed(t)
        /\ t.nonce = work.acct[t.sender].nonce
        /\ t.amount + t.fee <= work.acct[t.sender].balance
        /\ body' = Append(body, t)
    BY DEF ApplyTransaction, Acceptable, TypeOK
  <1>t. /\ t.sender \in Addr /\ t.nonce \in Nat /\ t.fee \in Nat
        /\ body \in Seq(Tx) /\ log \in Seq(Tx)
    BY LedgerAssumption DEF TypeOK
  <1>1. /\ work' \in LedgerState
        /\ work'.pending = work.pending
        /\ work'.acct[t.sender].nonce = t.nonce + 1
        /\ \A a \in Addr : a # t.sender =>
             work'.acct[a].nonce = work.acct[a].nonce
        /\ Committed(work) => Committed(work')
    BY <1>0, TransferSound DEF ApplyTransaction
  <1>2. TypeOK'
    <2>1. body' \in Seq(Tx) /\ fees' \in Nat
      <3>1. fees' = fees + t.fee /\ fees \in Nat
        BY DEF ApplyTransaction, TypeOK
      <3> QED BY <1>0, <1>t, <3>1
    <2> QED BY <1>0, <1>1, <2>1 DEF TypeOK, chain
  <1>3. RootCommitsToState'
    BY <1>0, <1>1 DEF RootCommitsToState, Committed, chain
  <1>4. NoRewardLeftBehind'
    BY <1>0, <1>1 DEF NoRewardLeftBehind, PendingWithin, chain
  <1>5. NoncesUsedOnce'
    <2>1. ASSUME NEW u \in Tx, u.nonce < work.acct[u.sender].nonce
          PROVE  u.nonce < work'.acct[u.sender].nonce /\ Disjoint(u, t)
      <3>1. u.sender \in Addr /\ u.nonce \in Nat
        BY LedgerAssumption
      <3>2. CASE u.sender = t.sender
        <4>1. u.nonce < t.nonce
          BY <1>0, <2>1, <3>2
        <4>2. u.nonce < t.nonce + 1 /\ u.nonce # t.nonce
          BY <1>t, <3>1, <4>1
        <4> QED BY <1>1, <3>2, <4>2 DEF Disjoint
      <3>3. CASE u.sender # t.sender
        BY <1>1, <2>1, <3>1, <3>3 DEF Disjoint
      <3> QED BY <3>2, <3>3
    <2>2. /\ \A i \in DOMAIN log : /\ log[i] \in Tx
                                   /\ log[i].nonce
                                        < work.acct[log[i].sender].nonce
          /\ \A i \in DOMAIN body : /\ body[i] \in Tx
                                    /\ body[i].nonce
                                         < work.acct[body[i].sender].nonce
      BY <1>0, <1>t DEF NoncesUsedOnce, Spent
    <2>3. /\ DOMAIN body' = DOMAIN body \cup {Len(body) + 1}
          /\ body'[Len(body) + 1] = t
          /\ \A i \in DOMAIN body : body'[i] = body[i]
          /\ Len(body) + 1 \notin DOMAIN body
      BY <1>0, <1>t
    <2>4. Spent(log, work')
      BY <2>1, <2>2 DEF Spent
    <2>5. Spent(body', work')
      <3>1. t.nonce < work'.acct[t.sender].nonce
        BY <1>1, <1>t
      <3> QED BY <2>1, <2>2, <2>3, <3>1 DEF Spent
    <2>6. \A i, j \in DOMAIN body' : i # j => Disjoint(body'[i], body'[j])
      <3>1. \A i \in DOMAIN body : Disjoint(body[i], t) /\ Disjoint(t, body[i])
        BY <2>1, <2>2 DEF Disjoint
      <3> QED BY <1>0, <2>3, <3>1 DEF NoncesUsedOnce
    <2>7. \A i \in DOMAIN log, j \in DOMAIN body' :
             Disjoint(log[i], body'[j])
      BY <1>0, <2>1, <2>2, <2>3 DEF NoncesUsedOnce
    <2>8. log' = log /\ state' = state
      BY <1>0 DEF chain
    <2> QED BY <2>4, <2>5, <2>6, <2>7, <2>8 DEF NoncesUsedOnce, NoReplay,
               Spent, Disjoint
  <1> QED BY <1>2, <1>3, <1>4, <1>5

\* The block is complete: its rewards are scheduled and it joins the chain.
LEMMA FinishBlockInv ==
  ASSUME LedgerInv, FinishBlock
  PROVE  LedgerInv'
  <1> USE DEF LedgerInv
  <1> DEFINE due == height + 1 + Maturity
  <1>0. /\ phase = "body" /\ phase' = "idle" /\ work \in LedgerState
        /\ height \in Nat /\ height < MaxHeight /\ due \in Heights
        /\ height' = height + 1 /\ UNCHANGED <<work, block, body, fees>>
        /\ log' = log \o body /\ shares' = Append(shares, block.weights)
        /\ log \in Seq(Tx) /\ body \in Seq(Tx)
    <2>1. /\ phase = "body" /\ phase' = "idle" /\ height' = height + 1
          /\ UNCHANGED <<work, block, body, fees>>
          /\ log' = log \o body /\ shares' = Append(shares, block.weights)
      BY DEF FinishBlock
    <2>2. /\ height \in 0..MaxHeight /\ work \in LedgerState
          /\ log \in Seq(Tx) /\ body \in Seq(Tx)
          /\ phase = "body" => height < MaxHeight
      BY DEF TypeOK
    <2>3. MaxHeight \in Nat /\ Maturity \in Nat
      BY LedgerAssumption
    <2> HIDE DEF LedgerInv
    <2>4. /\ height \in Nat /\ height < MaxHeight
          /\ due \in 1..(MaxHeight + Maturity)
      BY <2>1, <2>2, <2>3
    <2> QED BY <2>1, <2>2, <2>4 DEF Heights
  <1>1. /\ state' \in LedgerState /\ state'.acct = work.acct
        /\ \A k \in Heights : k # due => state'.pending[k] = work.pending[k]
        /\ Committed(work) => Committed(state')
    <2>1. Allocation \in [Addr -> 0..MaxMoney]
          /\ state' = ScheduleRewards(work, due, Allocation)
      BY DEF FinishBlock
    <2> QED BY <1>0, <2>1, ScheduleSound
  <1>2. TypeOK'
    <2>1. log' \in Seq(Tx)
      BY <1>0
    <2>2. shares' \in Seq([Addr -> Nat]) /\ Len(shares') = height + 2
      BY <1>0 DEF TypeOK
    <2>3. height' \in 0..MaxHeight
      BY <1>0, LedgerAssumption
    <2> QED BY <1>0, <1>1, <2>1, <2>2, <2>3 DEF TypeOK
  <1>3. RootCommitsToState'
    BY <1>0, <1>1 DEF RootCommitsToState, Committed
  <1>4. NoRewardLeftBehind'
    <2> SUFFICES ASSUME NEW m \in Heights, NEW a \in Addr,
                        state'.pending[m][a] > 0
                 PROVE  height + 1 < m /\ m <= height + 1 + Maturity
      BY <1>0 DEF NoRewardLeftBehind, PendingWithin
    <2>1. CASE m = due
      BY <1>0, <2>1, LedgerAssumption
    <2>2. CASE m # due
      <3>1. height + 1 < m /\ m <= height + Maturity
        BY <1>0, <1>1, <2>2 DEF NoRewardLeftBehind
      <3> QED BY <1>0, <3>1, LedgerAssumption DEF Heights
    <2> QED BY <2>1, <2>2
  <1>5. NoncesUsedOnce'
    <2>1. \A i \in DOMAIN log' :
            \/ i \in DOMAIN log /\ log'[i] = log[i]
            \/ /\ i - Len(log) \in DOMAIN body /\ i \notin DOMAIN log
               /\ log'[i] = body[i - Len(log)]
      BY <1>0
    <2>2. \A i \in DOMAIN log : i \in Int
      BY <1>0
    <2>3. \A i \in DOMAIN log' : i \in Int /\ Len(log) \in Int
      BY <1>0
    <2>4. Spent(log', state')
      <3> SUFFICES ASSUME NEW i \in DOMAIN log'
                   PROVE  log'[i].nonce < state'.acct[log'[i].sender].nonce
        BY DEF Spent
      <3> QED BY <1>0, <1>1, <2>1 DEF NoncesUsedOnce, Spent
    <2>5. NoReplay'
      <3> SUFFICES ASSUME NEW i \in DOMAIN log', NEW j \in DOMAIN log',
                          i # j
                   PROVE  Disjoint(log'[i], log'[j])
        BY DEF NoReplay, Disjoint
      <3>1. CASE i \in DOMAIN log /\ j \in DOMAIN log
        BY <2>1, <3>1 DEF NoncesUsedOnce, NoReplay, Disjoint
      <3>2. CASE i \in DOMAIN log /\ j \notin DOMAIN log
        BY <1>0, <2>1, <3>2 DEF NoncesUsedOnce, Disjoint
      <3>3. CASE i \notin DOMAIN log /\ j \in DOMAIN log
        BY <1>0, <2>1, <3>3 DEF NoncesUsedOnce, Disjoint
      <3>4. CASE i \notin DOMAIN log /\ j \notin DOMAIN log
        <4>1. i - Len(log) # j - Len(log)
          BY <2>3
        <4> QED BY <1>0, <2>1, <3>4, <4>1 DEF NoncesUsedOnce
      <3> QED BY <3>1, <3>2, <3>3, <3>4
    <2> QED BY <1>0, <2>4, <2>5 DEF NoncesUsedOnce
  <1> QED BY <1>2, <1>3, <1>4, <1>5

\* A rejected block leaves no trace.
LEMMA RejectBlockInv ==
  ASSUME LedgerInv, RejectBlock
  PROVE  LedgerInv'
  BY DEF LedgerInv, RejectBlock, chain, TypeOK, RootCommitsToState, Committed,
         NoRewardLeftBehind, PendingWithin, NoncesUsedOnce, NoReplay, Spent

\* Every step keeps the invariant.
LEMMA NextInv == LedgerInv /\ [Next]_vars => LedgerInv'
  <1> SUFFICES ASSUME LedgerInv, [Next]_vars PROVE LedgerInv'
    OBVIOUS
  <1>1. CASE UNCHANGED vars
    BY <1>1 DEF vars, chain, applying, LedgerInv, TypeOK, RootCommitsToState,
         Committed, NoRewardLeftBehind, PendingWithin, NoncesUsedOnce,
         NoReplay, Spent, Disjoint
  <1>2. CASE \E finder \in Addr, weights \in Witness :
               BeginBlock(finder, weights)
    BY <1>2, BeginBlockInv
  <1>3. CASE \E t \in Tx : ApplyTransaction(t)
    BY <1>3, ApplyTransactionInv
  <1>4. CASE FinishBlock
    BY <1>4, FinishBlockInv
  <1>5. CASE RejectBlock
    BY <1>5, RejectBlockInv
  <1> QED BY <1>1, <1>2, <1>3, <1>4, <1>5 DEF Next

\* The inductive invariant holds along every chain.
THEOREM LedgerInvariant == Spec => []LedgerInv
  <1>1. Init => LedgerInv
    BY InitInv
  <1>2. LedgerInv /\ [Next]_vars => LedgerInv'
    BY NextInv
  <1> QED BY <1>1, <1>2, PTL DEF Spec

-----------------------------------------------------------------------------
(* The properties the runs check.                                          *)

\* Type correctness of the ledger and of the block being applied.
THEOREM TypeCorrect == Spec => []TypeOK
  <1>1. LedgerInv => TypeOK
    BY DEF LedgerInv
  <1> QED BY <1>1, LedgerInvariant, PTL

\* The leaves of the state tree are always those of the maps, so the state
\* root of a header commits to exactly the ledger it stands for.
THEOREM RootCommits == Spec => []RootCommitsToState
  <1>1. LedgerInv => RootCommitsToState
    BY DEF LedgerInv
  <1> QED BY <1>1, LedgerInvariant, PTL

\* No reward is ever scheduled for, or left at, a height that mature has
\* already passed.
THEOREM RewardsMature == Spec => []NoRewardLeftBehind
  <1>1. LedgerInv => NoRewardLeftBehind
    BY DEF LedgerInv
  <1> QED BY <1>1, LedgerInvariant, PTL

\* No transaction takes effect twice on a chain.
THEOREM ReplayProtection == Spec => []NoReplay
  <1>1. LedgerInv => NoReplay
    BY DEF LedgerInv, NoncesUsedOnce
  <1> QED BY <1>1, LedgerInvariant, PTL

-----------------------------------------------------------------------------
(* What the operations of LedgerState do to the money.                     *)

\* The balances, and the total of each pending row.
BalanceOf(s) == [a \in Addr |-> s.acct[a].balance]
RowSums(s) == [m \in Heights |-> SumFunction(s.pending[m])]

\* Balances and pending totals are amounts of money.
LEMMA MoneyTypes ==
  ASSUME NEW s \in LedgerState
  PROVE  /\ BalanceOf(s) \in [Addr -> Nat] /\ RowSums(s) \in [Heights -> Nat]
         /\ BalanceOf(s) \in [Addr -> Int] /\ RowSums(s) \in [Heights -> Int]
         /\ Balances(s) \in Nat /\ Pending(s) \in Nat
         /\ Balances(s) = SumFunction(BalanceOf(s))
         /\ Pending(s) = SumFunction(RowSums(s))
         /\ IsFiniteSet(Addr) /\ IsFiniteSet(Heights)
         /\ \A a \in Addr : BalanceOf(s)[a] = s.acct[a].balance
         /\ \A m \in Heights : RowSums(s)[m] = SumFunction(s.pending[m])
  <1>1. IsFiniteSet(Addr)
    BY RewardAssumption
  <1>2. IsFiniteSet(Heights)
    <2>1. 1 \in Int /\ MaxHeight + Maturity \in Int
      BY LedgerAssumption
    <2> QED BY <2>1, FS_Interval DEF Heights
  <1>3. BalanceOf(s) \in [Addr -> Nat]
    BY DEF LedgerState, Account, BalanceOf
  <1>4. RowSums(s) \in [Heights -> Nat]
    <2>1. \A m \in Heights : s.pending[m] \in [Addr -> Nat]
      BY DEF LedgerState
    <2>2. \A m \in Heights : SumFunction(s.pending[m]) \in Nat
      BY <1>1, <2>1, SumNat
    <2> QED BY <2>2 DEF RowSums
  <1>5. /\ Balances(s) = SumFunction(BalanceOf(s))
        /\ Pending(s) = SumFunction(RowSums(s))
    BY DEF Balances, Pending, BalanceOf, RowSums
  <1>6. SumFunction(BalanceOf(s)) \in Nat /\ SumFunction(RowSums(s)) \in Nat
    BY <1>1, <1>2, <1>3, <1>4, SumNat
  <1>7. BalanceOf(s) \in [Addr -> Int] /\ RowSums(s) \in [Heights -> Int]
    BY <1>3, <1>4, NatFunction
  <1> QED BY <1>1, <1>2, <1>3, <1>4, <1>5, <1>6, <1>7 DEF BalanceOf, RowSums

\* One row of the pending map changes.
LEMMA PendingRow ==
  ASSUME NEW s \in LedgerState, NEW t \in LedgerState, NEW h \in Heights,
         \A k \in Heights : k # h => t.pending[k] = s.pending[k]
  PROVE  Pending(t) = Pending(s) - SumFunction(s.pending[h])
                        + SumFunction(t.pending[h])
  <1> DEFINE f == RowSums(s)
             g == RowSums(t)
  <1>1. /\ f \in [Heights -> Int] /\ g \in [Heights -> Int]
        /\ IsFiniteSet(Heights)
        /\ Pending(s) = SumFunction(f) /\ Pending(t) = SumFunction(g)
        /\ \A m \in Heights : f[m] = SumFunction(s.pending[m])
        /\ \A m \in Heights : g[m] = SumFunction(t.pending[m])
    BY MoneyTypes
  <1> HIDE DEF f, g
  <1>2. \A x \in Heights : x # h => f[x] = g[x]
    BY <1>1
  <1>3. SumFunction(g) = SumFunction(f) - f[h] + g[h]
    BY <1>1, <1>2, SumExcept
  <1> QED BY <1>1, <1>3

\* mature moves the rewards of one height from pending to the balances.
LEMMA MatureMoney ==
  ASSUME NEW s \in LedgerState, NEW h \in Heights
  PROVE  LET t == Mature(s, h)
             r == SumFunction(s.pending[h])
         IN  /\ r \in Nat
             /\ Balances(t) = Balances(s) + r
             /\ Pending(t) = Pending(s) - r
  <1> DEFINE t == Mature(s, h)
             p == s.pending[h]
             r == SumFunction(p)
             f == BalanceOf(s)
             g == BalanceOf(t)
  <1>0. t \in LedgerState /\ t.pending = [s.pending EXCEPT ![h] = NoWork]
    BY MatureSound
  <1>1. p \in [Addr -> Nat] /\ s.pending \in [Heights -> [Addr -> Nat]]
    BY DEF LedgerState
  <1>2. p \in [Addr -> Int]
    <2> HIDE DEF p
    <2> QED BY <1>1, NatFunction
  <1>3. t.acct = Credited(s, h)
    BY DEF Mature, SetPending, SetAccounts
  <1>4. \A a \in Addr : t.acct[a].balance = s.acct[a].balance + p[a]
    <2> HIDE DEF t
    <2> QED BY <1>3 DEF Credited
  <1> HIDE DEF t
  <1>5. /\ f \in [Addr -> Int] /\ g \in [Addr -> Int] /\ IsFiniteSet(Addr)
        /\ Balances(s) = SumFunction(f) /\ Balances(t) = SumFunction(g)
        /\ Balances(s) \in Nat
        /\ \A a \in Addr : f[a] = s.acct[a].balance
        /\ \A a \in Addr : g[a] = t.acct[a].balance
    BY <1>0, MoneyTypes
  <1> HIDE DEF f, g, p
  <1>6. Combines(g, Addr, f, 1, p)
    <2>1. \A a \in Addr : g[a] = f[a] + 1 * p[a]
      <3> SUFFICES ASSUME NEW a \in Addr PROVE g[a] = f[a] + 1 * p[a]
        OBVIOUS
      <3>1. g[a] = f[a] + p[a] /\ f[a] \in Int /\ p[a] \in Int
        BY <1>2, <1>4, <1>5
      <3> QED BY <3>1
    <2> QED BY <1>2, <1>5, <2>1 DEF Combines
  <1>7. r \in Nat
    BY <1>1, <1>5, SumNat
  <1>8. Balances(t) = Balances(s) + r
    <2>1. SumFunction(g) = SumFunction(f) + 1 * SumFunction(p)
      BY <1>6, SumLinear
    <2> QED BY <1>5, <1>7, <2>1
  <1>9. Pending(t) = Pending(s) - r
    <2>1. /\ \A k \in Heights : k # h => t.pending[k] = s.pending[k]
          /\ t.pending[h] = NoWork
      BY <1>0, <1>1
    <2>2. SumFunction(NoWork) = 0
      <3>1. NoWork \in [Addr -> Int] /\ \A a \in Addr : NoWork[a] = 0
        BY DEF NoWork
      <3> QED BY <1>5, <3>1, SumZero
    <2>3. Pending(t) = Pending(s) - SumFunction(s.pending[h])
                         + SumFunction(t.pending[h])
      <3>1. t \in LedgerState
        BY <1>0
      <3>2. \A k \in Heights : k # h => t.pending[k] = s.pending[k]
        BY <2>1
      <3> QED BY <3>1, <3>2, PendingRow
    <2>4. Pending(s) \in Nat
      BY MoneyTypes
    <2> QED BY <1>7, <2>1, <2>2, <2>3, <2>4 DEF p
  <1> QED BY <1>7, <1>8, <1>9 DEF t, p

\* schedule_reward only adds to the row of its height.
LEMMA ScheduleMoney ==
  ASSUME NEW s \in LedgerState, NEW h \in Heights,
         NEW reward \in [Addr -> 0..MaxMoney]
  PROVE  LET t == ScheduleRewards(s, h, reward)
             r == SumFunction(reward)
         IN  /\ r \in Nat
             /\ Balances(t) = Balances(s)
             /\ SumFunction(t.pending[h]) = SumFunction(s.pending[h]) + r
             /\ SumFunction(s.pending[h]) \in Nat
             /\ Pending(t) = Pending(s) + r
  <1> DEFINE t == ScheduleRewards(s, h, reward)
             p == s.pending[h]
             q == t.pending[h]
             r == SumFunction(reward)
  <1>0. /\ t \in LedgerState /\ t.acct = s.acct
        /\ \A k \in Heights : k # h => t.pending[k] = s.pending[k]
    BY ScheduleSound
  <1>1. p \in [Addr -> Nat] /\ s.pending \in [Heights -> [Addr -> Nat]]
    BY DEF LedgerState
  <1>2. reward \in [Addr -> Nat]
    BY RewardAssumption
  <1>3. q = [a \in Addr |-> p[a] + reward[a]]
    BY <1>1 DEF ScheduleRewards, SetPending
  <1>f. IsFiniteSet(Addr)
    BY RewardAssumption
  <1> HIDE DEF t, p
  <1>4. q \in [Addr -> Nat]
    <2> HIDE DEF q
    <2> QED BY <1>1, <1>2, <1>3
  <1> HIDE DEF q
  <1>5. p \in [Addr -> Int] /\ q \in [Addr -> Int] /\ reward \in [Addr -> Int]
    BY <1>1, <1>2, <1>4, NatFunction
  <1>6. Combines(q, Addr, p, 1, reward)
    <2>1. \A a \in Addr : q[a] = p[a] + 1 * reward[a]
      BY <1>3, <1>5
    <2> QED BY <1>f, <1>5, <2>1 DEF Combines
  <1>7. SumFunction(p) \in Nat /\ r \in Nat
    BY <1>f, <1>1, <1>2, SumNat
  <1>8. SumFunction(q) = SumFunction(p) + r
    <2>1. SumFunction(q) = SumFunction(p) + 1 * SumFunction(reward)
      BY <1>6, SumLinear
    <2> QED BY <1>7, <2>1
  <1>9. Balances(t) = Balances(s)
    BY <1>0 DEF Balances
  <1>10. Pending(t) = Pending(s) + r
    <2>1. Pending(t) = Pending(s) - SumFunction(p) + SumFunction(q)
      BY <1>0, PendingRow DEF p, q
    <2>2. Pending(s) \in Nat
      BY MoneyTypes
    <2> QED BY <1>7, <1>8, <2>1, <2>2
  <1> QED BY <1>7, <1>8, <1>9, <1>10 DEF t, p, q

\* A transaction takes its fee out of the balances and nothing else.
LEMMA TransferMoney ==
  ASSUME NEW s \in LedgerState, NEW x \in Tx, WellFormed(x),
         x.nonce = s.acct[x.sender].nonce,
         x.amount + x.fee <= s.acct[x.sender].balance
  PROVE  /\ Balances(Transfer(s, x)) = Balances(s) - x.fee
         /\ Pending(Transfer(s, x)) = Pending(s)
         /\ x.fee \in Nat
  <1> DEFINE t == Transfer(s, x)
             f == BalanceOf(s)
             g == BalanceOf(t)
             mid == [f EXCEPT ![x.sender] = @ - (x.amount + x.fee)]
  <1>0. t \in LedgerState /\ t.pending = s.pending
    BY TransferSound
  <1>1. /\ x.sender \in Addr /\ x.recipient \in Addr /\ x.amount \in Nat
        /\ x.fee \in Nat /\ x.sender # x.recipient
    BY LedgerAssumption DEF WellFormed
  <1>2. s.acct \in [Addr -> Account]
    BY DEF LedgerState
  <1>3. \A a \in Addr : t.acct[a].balance =
          IF a = x.sender THEN s.acct[a].balance - (x.amount + x.fee)
          ELSE IF a = x.recipient THEN s.acct[a].balance + x.amount
          ELSE s.acct[a].balance
    BY <1>1, <1>2 DEF Transfer, SetAccounts, Account
  <1> HIDE DEF t
  <1>4. /\ f \in [Addr -> Int] /\ g \in [Addr -> Int] /\ IsFiniteSet(Addr)
        /\ Balances(s) = SumFunction(f) /\ Balances(t) = SumFunction(g)
        /\ Balances(s) \in Nat
        /\ \A a \in Addr : f[a] = s.acct[a].balance
        /\ \A a \in Addr : g[a] = t.acct[a].balance
    BY <1>0, MoneyTypes
  <1> HIDE DEF f, g
  <1>5. /\ mid \in [Addr -> Int]
        /\ mid[x.sender] = f[x.sender] - (x.amount + x.fee)
        /\ \A a \in Addr : a # x.sender => mid[a] = f[a]
    BY <1>1, <1>4
  <1> HIDE DEF mid
  <1>6. SumFunction(mid) = SumFunction(f) - f[x.sender] + mid[x.sender]
    <2>1. \A a \in Addr : a # x.sender => f[a] = mid[a]
      BY <1>5
    <2> QED BY <1>1, <1>4, <1>5, <2>1, SumExcept
  <1>7. \A a \in Addr : a # x.recipient => mid[a] = g[a]
    BY <1>1, <1>3, <1>4, <1>5
  <1>8. g[x.recipient] = mid[x.recipient] + x.amount
    BY <1>1, <1>3, <1>4, <1>5
  <1>9. SumFunction(g) = SumFunction(mid) - mid[x.recipient] + g[x.recipient]
    BY <1>1, <1>4, <1>5, <1>7, SumExcept
  <1>10. f[x.sender] \in Int /\ mid[x.recipient] \in Int /\ SumFunction(f) \in Int
    BY <1>1, <1>4, <1>5
  <1>11. SumFunction(g) = SumFunction(f) - x.fee
    <2> DEFINE sf == SumFunction(f)
               sm == SumFunction(mid)
               u == f[x.sender]
               v == mid[x.recipient]
    <2>1. /\ sf \in Int /\ u \in Int /\ v \in Int
          /\ sm = sf - u + (u - (x.amount + x.fee))
          /\ SumFunction(g) = sm - v + (v + x.amount)
      BY <1>5, <1>6, <1>8, <1>9, <1>10
    <2> HIDE DEF sf, sm, u, v
    <2>2. SumFunction(g) = sf - x.fee
      BY <1>1, <2>1
    <2> QED BY <2>2 DEF sf
  <1>12. Pending(t) = Pending(s)
    BY <1>0 DEF Pending
  <1> QED BY <1>1, <1>4, <1>11, <1>12 DEF t

\* The finder's part is a part.
LEMMA FinderPart ==
  ASSUME NEW subsidy \in Nat
  PROVE  /\ FinderBase(subsidy) \in Nat /\ Pool(subsidy) \in Nat
         /\ FinderBase(subsidy) + Pool(subsidy) = subsidy
  <1> DEFINE x == subsidy * FinderPercent
  <1>1. FinderPercent \in Nat /\ FinderPercent <= 100
    BY RewardAssumption
  <1>2. x \in Nat /\ x <= subsidy * 100
    BY <1>1
  <1> HIDE DEF x
  <1>3. x \div 100 \in Nat /\ x \div 100 <= subsidy
    BY <1>2
  <1> QED BY <1>3 DEF FinderBase, Pool, x

\* Two numbers compare as their quotients, then as their remainders.
LEMMA QuotientsCompare ==
  ASSUME NEW t \in Nat, t > 0, NEW x \in Nat, NEW y \in Nat,
         NEW q \in Nat, NEW p \in Nat, NEW r \in Nat, NEW s \in Nat,
         r < t, s < t, x = r + t * q, y = s + t * p, x < y
  PROVE  q < p \/ (q = p /\ r < s)
  <1>1. CASE q = p
    BY <1>1
  <1>2. CASE p < q
    <2>1. p + 1 <= q
      BY <1>2
    <2>2. t * (p + 1) <= t * q
      BY <2>1
    <2>3. t * (p + 1) = t * p + t /\ t * p \in Nat /\ t * q \in Nat
      OBVIOUS
    <2> QED BY <2>2, <2>3
  <1>3. CASE q < p
    BY <1>3
  <1> QED BY <1>1, <1>2, <1>3

\* A number times t, and what one more or less makes.
LEMMA Distributes ==
  ASSUME NEW t \in Nat, NEW q \in Nat
  PROVE  /\ q * t = t * q /\ (q + 1) * t = t * q + t /\ t * q \in Nat
  OBVIOUS

\* reward_allocation gives every miner its exact share rounded down or up, in
\* the order of their work, and hands out the subsidy and the fees completely:
\* its final check (rewards.rs:99-101) never fails.
THEOREM AllocationFair ==
  ASSUME NEW subsidy \in Nat, NEW collected \in Nat, NEW w \in [Addr -> Nat]
  PROVE  FairlyAllocated(subsidy, w, collected, FinderAmount(subsidy, w, collected),
                         WorkshareRewards(Pool(subsidy), w))
  <1> DEFINE p == Pool(subsidy)
             f == FinderBase(subsidy)
             T == SumFunction(w)
             got == WorkshareRewards(p, w)
  <1>1. f \in Nat /\ p \in Nat /\ f + p = subsidy
    BY FinderPart, Zenon
  <1> HIDE DEF p, f
  <1>2. /\ got \in [Addr -> Nat] /\ T \in Nat
        /\ SumFunction(got) = IF T = 0 THEN 0 ELSE p
        /\ T > 0 => Shared(p, w, T)
    BY <1>1, WorkshareSound
  <1> HIDE DEF T, got
  <1>3. FinderAmount(subsidy, w, collected) = f + collected + (IF T = 0 THEN p ELSE 0)
    BY DEF FinderAmount, f, p, T
  <1>4. FinderAmount(subsidy, w, collected) + SumFunction(got) = subsidy + collected
    BY <1>1, <1>2, <1>3
  <1>5. ASSUME T > 0, NEW a \in Addr
        PROVE  /\ got[a] * T - p * w[a] < T
               /\ p * w[a] - got[a] * T < T
               /\ \A b \in Addr : w[b] > w[a] => got[b] >= got[a]
    <2> DEFINE q(c) == Quotient(p, w, T, c)
               r(c) == Remainder(p, w, T, c)
    <2>1. \A c \in Addr : /\ p * w[c] \in Nat /\ q(c) \in Nat /\ r(c) \in Nat
                          /\ r(c) < T /\ p * w[c] = r(c) + T * q(c)
      <3> SUFFICES ASSUME NEW c \in Addr
                   PROVE  /\ p * w[c] \in Nat /\ q(c) \in Nat /\ r(c) \in Nat
                          /\ r(c) < T /\ p * w[c] = r(c) + T * q(c)
        OBVIOUS
      <3> DEFINE x == p * w[c]
      <3>1. x \in Nat /\ T \in Nat \ {0}
        BY <1>1, <1>2, <1>5
      <3>2. q(c) = x \div T /\ r(c) = x % T
        BY DEF Quotient, Remainder
      <3> HIDE DEF x, q, r
      <3>3. /\ x \div T \in Nat /\ x % T \in Nat /\ x % T < T
            /\ x = T * (x \div T) + (x % T)
        BY <3>1, Division
      <3>4. T * (x \div T) \in Nat
        BY <3>1, <3>3
      <3>5. x = p * w[c]
        BY DEF x
      <3> QED BY <3>1, <3>2, <3>3, <3>4, <3>5
    <2>2. \A c \in Addr :
            /\ got[c] = q(c) \/ (got[c] = q(c) + 1 /\ r(c) > 0)
            /\ \A b \in Addr : q(b) = q(c) /\ r(b) > r(c) => got[b] >= got[c]
      BY <1>2, <1>5 DEF Shared, got
    <2> HIDE DEF q, r
    <2>3. got[a] * T - p * w[a] < T /\ p * w[a] - got[a] * T < T
      <3>1. /\ q(a) * T = T * q(a) /\ (q(a) + 1) * T = T * q(a) + T
            /\ T * q(a) \in Nat
        BY <1>2, <2>1, Distributes
      <3>2. CASE got[a] = q(a)
        <4>1. got[a] * T = T * q(a)
          BY <3>1, <3>2
        <4> QED BY <1>2, <1>5, <2>1, <3>1, <4>1
      <3>3. CASE got[a] = q(a) + 1 /\ r(a) > 0
        <4>1. got[a] * T = T * q(a) + T
          BY <3>1, <3>3
        <4> QED BY <1>2, <1>5, <2>1, <3>1, <3>3, <4>1
      <3> QED BY <2>2, <3>2, <3>3
    <2>4. ASSUME NEW b \in Addr, w[b] > w[a] PROVE got[b] >= got[a]
      <3>1. CASE p = 0
        <4>1. p * w[a] = 0 /\ p * w[b] = 0
          BY <3>1
        <4>2. T * q(a) \in Nat /\ T * q(b) \in Nat
          BY <1>2, <2>1
        <4>3. r(a) = 0 /\ T * q(a) <= T * 0
          <5> DEFINE tq == T * q(a)
          <5>1. tq \in Nat /\ r(a) \in Nat /\ 0 = r(a) + tq
            BY <2>1, <4>1, <4>2
          <5>2. T * 0 = 0
            BY <1>2
          <5> HIDE DEF tq
          <5>3. r(a) = 0 /\ tq = 0
            BY <5>1
          <5> QED BY <5>2, <5>3 DEF tq
        <4>4. q(a) <= 0
          BY <1>2, <1>5, <2>1, <4>3, Cancel
        <4>5. got[a] = 0 /\ got[b] \in Nat
          BY <1>2, <2>1, <2>2, <4>3, <4>4
        <4> QED BY <4>5
      <3>2. CASE p > 0
        <4>1. p * w[a] < p * w[b]
          <5>1. w[a] \in Nat /\ w[b] \in Nat
            OBVIOUS
          <5>2. w[a] + 1 <= w[b]
            BY <2>4, <5>1
          <5>3. p * (w[a] + 1) <= p * w[b]
            BY <1>1, <5>1, <5>2
          <5>4. p * (w[a] + 1) = p * w[a] + p
            BY <1>1, <5>1
          <5> QED BY <1>1, <2>1, <3>2, <5>3, <5>4
        <4> DEFINE x == p * w[a]
                   y == p * w[b]
        <4>2. /\ x \in Nat /\ y \in Nat /\ x < y
              /\ x = r(a) + T * q(a) /\ y = r(b) + T * q(b)
          BY <2>1, <4>1
        <4> HIDE DEF x, y
        <4>3. /\ q(a) \in Nat /\ q(b) \in Nat /\ r(a) \in Nat /\ r(b) \in Nat
              /\ r(a) < T /\ r(b) < T
          BY <2>1
        <4>4. q(a) < q(b) \/ (q(a) = q(b) /\ r(a) < r(b))
          BY <1>2, <1>5, <4>2, <4>3, QuotientsCompare
        <4>5. CASE q(a) < q(b)
          <5>1. got[a] <= q(a) + 1 /\ got[b] >= q(b)
            BY <2>2, <4>3
          <5> QED BY <1>2, <4>3, <4>5, <5>1
        <4>6. CASE q(a) = q(b) /\ r(a) < r(b)
          BY <2>2, <4>3, <4>6
        <4> QED BY <4>4, <4>5, <4>6
      <3> QED BY <1>1, <3>1, <3>2
    <2> QED BY <2>3, <2>4
  <1> QED BY <1>4, <1>5 DEF FairlyAllocated, p, T, got

\* The weights of a window are natural numbers.
LEMMA WindowType ==
  ASSUME TypeOK
  PROVE  WindowWeights(Len(shares)) \in [Addr -> Nat]
  <1> DEFINE n == Len(shares)
             first == IF n > Window THEN n - Window + 1 ELSE 1
  <1>1. n \in Nat /\ Window \in Nat /\ first \in 1..(n + 1)
    BY LedgerAssumption DEF TypeOK
  <1>2. \A i \in first..n : shares[i] \in [Addr -> Nat]
    <2>1. \A i \in 1..n : shares[i] \in [Addr -> Nat]
      BY DEF TypeOK
    <2>2. first..n \subseteq 1..n
      BY <1>1
    <2> QED BY <2>1, <2>2
  <1>3. IsFiniteSet(first..n)
    <2> HIDE DEF first, n
    <2> QED BY <1>1, FS_Interval
  <1>4. WindowWeights(n)
          = [a \in Addr |-> SumFunction([i \in first..n |-> shares[i][a]])]
    BY DEF WindowWeights
  <1> HIDE DEF first
  <1>5. \A a \in Addr : SumFunction([i \in first..n |-> shares[i][a]]) \in Nat
    <2> SUFFICES ASSUME NEW a \in Addr
                 PROVE  SumFunction([i \in first..n |-> shares[i][a]]) \in Nat
      OBVIOUS
    <2>1. [i \in first..n |-> shares[i][a]] \in [first..n -> Nat]
      BY <1>2
    <2> QED BY <1>3, <2>1, SumNat
  <1> HIDE DEF n
  <1>6. WindowWeights(n) \in [Addr -> Nat]
    BY <1>4, <1>5
  <1> QED BY <1>6 DEF n

\* A block hands out its subsidy and its fees, to the last unit.
LEMMA AllocationSum ==
  ASSUME TypeOK
  PROVE  /\ Allocation \in [Addr -> Nat]
         /\ SumFunction(Allocation) = BlockSubsidy(height + 1) + fees
         /\ BlockSubsidy(height + 1) \in Nat
  <1> DEFINE subsidy == BlockSubsidy(height + 1)
             w == WindowWeights(Len(shares))
             share == WorkshareRewards(Pool(subsidy), w)
             part == FinderAmount(subsidy, w, fees)
             f == block.finder
             r == [share EXCEPT ![f] = @ + part]
  <1>1. subsidy \in Nat
    <2>1. height + 1 \in Nat
      BY DEF TypeOK
    <2> QED BY <2>1, SubsidyNat
  <1>2. w \in [Addr -> Nat]
    BY WindowType
  <1>3. f \in Addr /\ fees \in Nat
    BY DEF TypeOK
  <1>4. Allocation = r
    BY DEF Allocation
  <1> HIDE DEF subsidy, w, f
  <1>5. /\ FinderBase(subsidy) \in Nat /\ Pool(subsidy) \in Nat
        /\ FinderBase(subsidy) + Pool(subsidy) = subsidy
    BY <1>1, FinderPart
  <1>6. /\ share \in [Addr -> Nat] /\ SumFunction(w) \in Nat
        /\ SumFunction(share)
             = IF SumFunction(w) = 0 THEN 0 ELSE Pool(subsidy)
    BY <1>2, <1>5, WorkshareSound
  <1>7. part = FinderBase(subsidy) + fees
                 + IF SumFunction(w) = 0 THEN Pool(subsidy) ELSE 0
    BY DEF FinderAmount
  <1>8. part \in Nat /\ SumFunction(share) + part = subsidy + fees
        /\ SumFunction(share) \in Nat
    <2> HIDE DEF share, part
    <2> QED BY <1>1, <1>3, <1>5, <1>6, <1>7
  <1> HIDE DEF share, part
  <1>9. /\ r \in [Addr -> Nat] /\ r[f] = share[f] + part
        /\ \A a \in Addr : a # f => share[a] = r[a]
    BY <1>3, <1>6, <1>8
  <1> HIDE DEF r
  <1>10. r \in [Addr -> Int] /\ share \in [Addr -> Int] /\ IsFiniteSet(Addr)
    BY <1>6, <1>9, RewardAssumption, NatFunction
  <1>11. SumFunction(r) = SumFunction(share) - share[f] + r[f]
    BY <1>3, <1>9, <1>10, SumExcept
  <1>12. share[f] \in Nat
    BY <1>3, <1>6
  <1>13. SumFunction(r) = subsidy + fees
    BY <1>8, <1>9, <1>11, <1>12
  <1> QED BY <1>1, <1>4, <1>9, <1>13 DEF subsidy

-----------------------------------------------------------------------------
(* The inductive invariant.                                                *)

\* The genesis state has no money and has minted none.
LEMMA InitMoney == Init => MoneyInv
  <1> SUFFICES ASSUME Init PROVE MoneyInv
    OBVIOUS
  <1>1. LedgerInv
    BY InitInv
  <1>2. height = 0 /\ state = EmptyState /\ phase = "idle"
    BY DEF Init
  <1>3. state \in LedgerState
    BY <1>1 DEF LedgerInv, TypeOK
  <1>4. /\ BalanceOf(state) \in [Addr -> Int] /\ RowSums(state) \in [Heights -> Int]
        /\ Balances(state) = SumFunction(BalanceOf(state))
        /\ Pending(state) = SumFunction(RowSums(state))
        /\ IsFiniteSet(Addr) /\ IsFiniteSet(Heights)
        /\ \A a \in Addr : BalanceOf(state)[a] = state.acct[a].balance
        /\ \A m \in Heights : RowSums(state)[m] = SumFunction(state.pending[m])
    BY <1>3, MoneyTypes
  <1>5. Balances(state) = 0
    <2>1. \A a \in Addr : BalanceOf(state)[a] = 0
      BY <1>2, <1>4 DEF EmptyState, DefaultAccount
    <2> QED BY <1>4, <2>1, SumZero
  <1>6. Pending(state) = 0
    <2>1. \A m \in Heights : RowSums(state)[m] = 0
      <3> SUFFICES ASSUME NEW m \in Heights PROVE RowSums(state)[m] = 0
        OBVIOUS
      <3>1. /\ state.pending[m] \in [Addr -> Int]
            /\ \A a \in Addr : state.pending[m][a] = 0
        BY <1>2 DEF EmptyState, NoPending
      <3>2. SumFunction(state.pending[m]) = 0
        BY <1>4, <3>1, SumZero
      <3> QED BY <1>4, <3>2
    <2> QED BY <1>4, <2>1, SumZero
  <1>7. SubsidyPending(state, height, height)
    BY <1>2 DEF SubsidyPending
  <1>8. Minted(height) = 0
    BY <1>2, MintedSteps
  <1> QED BY <1>1, <1>2, <1>5, <1>6, <1>7, <1>8 DEF MoneyInv

\* The heights of the block that begins and of the rewards it schedules.
LEMMA BodyHeights ==
  ASSUME TypeOK, height < MaxHeight
  PROVE  /\ height \in Nat /\ height + 1 \in Heights
         /\ height + 1 + Maturity \in Heights
         /\ Maturity \in Nat \ {0}
         /\ \A i \in 1..height : i + Maturity \in Heights
  <1>1. /\ height \in Nat /\ MaxHeight \in Nat /\ Maturity \in Nat \ {0}
        /\ height < MaxHeight
    BY LedgerAssumption DEF TypeOK
  <1> QED BY <1>1 DEF Heights

\* Maturing rewards moves money from the pending map to the balances.
LEMMA BeginBlockMoney ==
  ASSUME MoneyInv, NEW finder \in Addr, NEW weights \in Witness,
         BeginBlock(finder, weights)
  PROVE  MoneyInv'
  <1> DEFINE r == SumFunction(state.pending[height + 1])
  <1>1. LedgerInv /\ LedgerInv'
    BY BeginBlockInv DEF MoneyInv
  <1>2. /\ work' = Mature(state, height + 1) /\ fees' = 0
        /\ height < MaxHeight
        /\ height' = height /\ state' = state
    BY DEF BeginBlock, chain
  <1>3. TypeOK /\ state \in LedgerState
    BY <1>1 DEF LedgerInv, TypeOK
  <1>4. /\ height \in Nat /\ height + 1 \in Heights
        /\ Maturity \in Nat \ {0}
        /\ \A i \in 1..height : i + Maturity \in Heights
    BY <1>2, <1>3, BodyHeights
  <1>5. /\ r \in Nat /\ Balances(work') = Balances(state) + r
        /\ Pending(work') = Pending(state) - r
    BY <1>2, <1>3, <1>4, MatureMoney
  <1>6. /\ Balances(state) \in Nat /\ Pending(state) \in Nat
        /\ Minted(height) \in Nat
    BY <1>3, <1>4, MoneyTypes, MintedSteps
  <1>7. Balances(work') + Pending(work') + fees' = Minted(height)
    <2> HIDE DEF r
    <2>1. Balances(state) + Pending(state) = Minted(height)
      BY DEF MoneyInv
    <2> QED BY <1>2, <1>5, <1>6, <2>1
  <1>8. SubsidyPending(work', height, height + 1)
    <2> SUFFICES ASSUME NEW i \in 1..height, i + Maturity > height + 1
                 PROVE  SumFunction(work'.pending[i + Maturity])
                          >= BlockSubsidy(i)
      BY DEF SubsidyPending
    <2>1. i + Maturity \in Heights /\ i + Maturity # height + 1
          /\ i + Maturity > height
      BY <1>4
    <2>2. SumFunction(state.pending[i + Maturity]) >= BlockSubsidy(i)
      BY <2>1 DEF MoneyInv, SubsidyPending
    <2>3. work'.pending[i + Maturity] = state.pending[i + Maturity]
      <3>1. work'.pending = [state.pending EXCEPT ![height + 1] = NoWork]
        BY <1>2, <1>3, <1>4, MatureSound
      <3>2. state.pending \in [Heights -> [Addr -> Nat]]
        BY <1>3 DEF LedgerState
      <3> QED BY <2>1, <3>1, <3>2
    <2> QED BY <2>2, <2>3
  <1>9. /\ Balances(state') + Pending(state') = Minted(height')
        /\ SubsidyPending(state', height', height')
    BY <1>2 DEF MoneyInv
  <1> QED BY <1>1, <1>2, <1>7, <1>8, <1>9 DEF MoneyInv

\* A transaction moves its fee from the balances to the fees of the block.
LEMMA ApplyTransactionMoney ==
  ASSUME MoneyInv, NEW t \in Tx, ApplyTransaction(t)
  PROVE  MoneyInv'
  <1>1. LedgerInv /\ LedgerInv'
    BY ApplyTransactionInv DEF MoneyInv
  <1>2. /\ phase = "body" /\ work' = Transfer(work, t)
        /\ fees' = fees + t.fee
        /\ height' = height /\ state' = state
        /\ WellFormed(t) /\ t.nonce = work.acct[t.sender].nonce
        /\ t.amount + t.fee <= work.acct[t.sender].balance
    BY DEF ApplyTransaction, Acceptable, chain
  <1>3. work \in LedgerState /\ work' \in LedgerState /\ fees \in Nat
        /\ height \in Nat
    BY <1>1 DEF LedgerInv, TypeOK
  <1>4. /\ Balances(work') = Balances(work) - t.fee
        /\ Pending(work') = Pending(work)
        /\ t.fee \in Nat
    BY <1>2, <1>3, TransferMoney
  <1>5. Balances(work') + Pending(work') + fees' = Minted(height')
    <2>1. Balances(work) \in Nat /\ Pending(work) \in Nat
      BY <1>3, MoneyTypes
    <2>2. Balances(work) + Pending(work) + fees = Minted(height)
      BY <1>2 DEF MoneyInv
    <2> QED BY <1>2, <1>3, <1>4, <2>1, <2>2
  <1>6. SubsidyPending(work', height', height' + 1)
    <2>1. work'.pending = work.pending
      BY <1>2, <1>3, TransferSound
    <2> QED BY <1>2, <2>1 DEF MoneyInv, SubsidyPending
  <1>7. /\ Balances(state') + Pending(state') = Minted(height')
        /\ SubsidyPending(state', height', height')
    BY <1>2 DEF MoneyInv
  <1> QED BY <1>1, <1>5, <1>6, <1>7 DEF MoneyInv

\* The allocation pays out the subsidy and the fees of the block.
LEMMA FinishBlockMoney ==
  ASSUME MoneyInv, FinishBlock
  PROVE  MoneyInv'
  <1> DEFINE due == height + 1 + Maturity
             r == SumFunction(Allocation)
  <1>1. LedgerInv /\ LedgerInv'
    BY FinishBlockInv DEF MoneyInv
  <1>2. /\ phase = "body" /\ phase' = "idle" /\ height' = height + 1
        /\ Allocation \in [Addr -> 0..MaxMoney]
        /\ state' = ScheduleRewards(work, due, Allocation)
    BY DEF FinishBlock
  <1>3. TypeOK /\ work \in LedgerState /\ fees \in Nat /\ height < MaxHeight
    BY <1>1, <1>2 DEF LedgerInv, TypeOK
  <1>4. /\ height \in Nat /\ due \in Heights /\ Maturity \in Nat \ {0}
        /\ \A i \in 1..height : i + Maturity \in Heights
    BY <1>3, BodyHeights
  <1>5. r = BlockSubsidy(height + 1) + fees /\ BlockSubsidy(height + 1) \in Nat
    BY <1>3, AllocationSum
  <1>6. /\ r \in Nat /\ Balances(state') = Balances(work)
        /\ SumFunction(state'.pending[due])
             = SumFunction(work.pending[due]) + r
        /\ SumFunction(work.pending[due]) \in Nat
        /\ Pending(state') = Pending(work) + r
    BY <1>2, <1>3, <1>4, ScheduleMoney
  <1>7. Balances(state') + Pending(state') = Minted(height')
    <2>1. Balances(work) \in Nat /\ Pending(work) \in Nat
      BY <1>3, MoneyTypes
    <2>2. Balances(work) + Pending(work) + fees = Minted(height)
      BY <1>2 DEF MoneyInv
    <2>3. Minted(height + 1) = Minted(height) + BlockSubsidy(height + 1)
      BY <1>4, MintedSteps
    <2> HIDE DEF r
    <2> QED BY <1>2, <1>3, <1>5, <1>6, <2>1, <2>2, <2>3
  <1>8. SubsidyPending(state', height + 1, height + 1)
    <2> SUFFICES ASSUME NEW i \in 1..(height + 1),
                        i + Maturity > height + 1
                 PROVE  SumFunction(state'.pending[i + Maturity])
                          >= BlockSubsidy(i)
      BY DEF SubsidyPending
    <2>1. CASE i = height + 1
      <3>1. i + Maturity = due
        BY <2>1
      <3>2. SumFunction(state'.pending[due]) >= BlockSubsidy(height + 1)
        <4> HIDE DEF r, due
        <4> QED BY <1>3, <1>5, <1>6
      <3> QED BY <2>1, <3>1, <3>2
    <2>2. CASE i # height + 1
      <3>1. i \in 1..height /\ i + Maturity # due /\ i + Maturity \in Heights
        BY <1>4, <2>2
      <3>2. SumFunction(work.pending[i + Maturity]) >= BlockSubsidy(i)
        BY <1>2, <3>1 DEF MoneyInv, SubsidyPending
      <3>3. state'.pending[i + Maturity] = work.pending[i + Maturity]
        <4> HIDE DEF due
        <4> QED BY <1>2, <1>3, <1>4, <3>1, ScheduleSound
      <3> QED BY <3>2, <3>3
    <2> QED BY <2>1, <2>2
  <1> QED BY <1>1, <1>2, <1>7, <1>8 DEF MoneyInv

\* Every step keeps the money.
LEMMA NextMoney == MoneyInv /\ [Next]_vars => MoneyInv'
  <1> SUFFICES ASSUME MoneyInv, [Next]_vars PROVE MoneyInv'
    OBVIOUS
  <1>0. LedgerInv'
    BY NextInv DEF MoneyInv
  <1>1. CASE UNCHANGED vars
    BY <1>0, <1>1 DEF vars, chain, applying, MoneyInv, SubsidyPending,
         Balances, Pending, Minted
  <1>2. CASE \E finder \in Addr, weights \in Witness :
               BeginBlock(finder, weights)
    BY <1>2, BeginBlockMoney
  <1>3. CASE \E t \in Tx : ApplyTransaction(t)
    BY <1>3, ApplyTransactionMoney
  <1>4. CASE FinishBlock
    BY <1>4, FinishBlockMoney
  <1>5. CASE RejectBlock
    BY <1>0, <1>5 DEF RejectBlock, chain, MoneyInv, SubsidyPending,
         Balances, Pending, Minted
  <1> QED BY <1>1, <1>2, <1>3, <1>4, <1>5 DEF Next

\* The invariant that Conservation and MaturityLock rest on: at every moment of
\* building a block, balances, pending rewards and collected fees are what was
\* minted, and the subsidies that have not matured are in the pending map.
THEOREM MoneyInvariant == Spec => []MoneyInv
  <1>1. Init => MoneyInv
    BY InitMoney
  <1>2. MoneyInv /\ [Next]_vars => MoneyInv'
    BY NextMoney
  <1> QED BY <1>1, <1>2, PTL DEF Spec

\* Money is conserved: what the balances, the pending rewards and the fees of
\* an unfinished block add up to is what the blocks have issued, and what the
\* node reports as its scheduled supply.
THEOREM MoneyConserved == Spec => []Conservation
  <1>1. MoneyInv => Conservation
    <2> SUFFICES ASSUME MoneyInv PROVE Conservation
      OBVIOUS
    <2>1. height \in Nat
      BY DEF MoneyInv, LedgerInv, TypeOK
    <2>2. ScheduledSupply(height) = Minted(height)
      BY <2>1, ScheduleAgrees
    <2> QED BY <2>2 DEF MoneyInv, Conservation
  <1> QED BY <1>1, MoneyInvariant, PTL

-----------------------------------------------------------------------------
(* Sums over heights.                                                      *)

\* Sums of first terms, step by step.
LEMMA UpToSteps ==
  ASSUME NEW h \in Nat, NEW r \in [1..h -> Int]
  PROVE  /\ UpTo(r, 0) = 0
         /\ \A k \in 0..h : UpTo(r, k) \in Int
         /\ \A k \in 0..(h - 1) : UpTo(r, k + 1) = UpTo(r, k) + r[k + 1]
  <1> DEFINE part(k) == [i \in 1..k |-> r[i]]
  <1>1. \A k \in 0..h : part(k) \in [1..k -> Int] /\ IsFiniteSet(1..k)
    <2> SUFFICES ASSUME NEW k \in 0..h
                 PROVE  part(k) \in [1..k -> Int] /\ IsFiniteSet(1..k)
      OBVIOUS
    <2>1. 1..k \subseteq 1..h /\ k \in Int
      OBVIOUS
    <2> QED BY <2>1, FS_Interval
  <1>2. UpTo(r, 0) = 0
    <2>1. part(0) \in [1..0 -> Int] /\ IsFiniteSet(1..0) /\ 1..0 = {}
      BY <1>1
    <2> HIDE DEF part
    <2> QED BY <2>1, SumRemove DEF UpTo, part
  <1>3. \A k \in 0..h : UpTo(r, k) \in Int
    <2> SUFFICES ASSUME NEW k \in 0..h PROVE UpTo(r, k) \in Int
      OBVIOUS
    <2>1. part(k) \in [1..k -> Int] /\ IsFiniteSet(1..k)
      BY <1>1
    <2> HIDE DEF part
    <2>2. SumFunction(part(k)) \in Int
      BY <2>1, SumRemove
    <2> QED BY <2>2 DEF UpTo, part
  <1>4. ASSUME NEW k \in 0..(h - 1)
        PROVE  UpTo(r, k + 1) = UpTo(r, k) + r[k + 1]
    <2>1. k \in Nat /\ k + 1 \in 0..h
      OBVIOUS
    <2>2. part(k + 1) \in [1..(k + 1) -> Int]
      BY <1>1, <2>1
    <2>3. part(k + 1)[k + 1] = r[k + 1]
          /\ [i \in 1..k |-> part(k + 1)[i]] = part(k)
      BY <2>1
    <2> HIDE DEF part
    <2>4. SumFunction(part(k + 1)) = SumFunction(part(k)) + r[k + 1]
      BY <2>1, <2>2, <2>3, SumLast
    <2> QED BY <2>4 DEF UpTo, part
  <1> QED BY <1>2, <1>3, <1>4

\* Terms c+1..k alone.
LEMMA RangeSum ==
  ASSUME NEW c \in Nat, NEW h \in Nat, c <= h, NEW r \in [1..h -> Int]
  PROVE  SumFunction([i \in (c + 1)..h |-> r[i]]) = UpTo(r, h) - UpTo(r, c)
  <1> DEFINE part(k) == [i \in (c + 1)..k |-> r[i]]
             Good(k) == SumFunction(part(k)) = UpTo(r, k) - UpTo(r, c)
             Bad == {k \in Nat : c <= k /\ k <= h /\ ~Good(k)}
  <1>t. /\ \A k \in 0..h : UpTo(r, k) \in Int
        /\ \A k \in 0..(h - 1) : UpTo(r, k + 1) = UpTo(r, k) + r[k + 1]
    BY UpToSteps
  <1>1. \A k \in 0..h : part(k) \in [(c + 1)..k -> Int] /\ IsFiniteSet((c + 1)..k)
    <2> SUFFICES ASSUME NEW k \in 0..h
                 PROVE  part(k) \in [(c + 1)..k -> Int]
                        /\ IsFiniteSet((c + 1)..k)
      OBVIOUS
    <2>1. (c + 1)..k \subseteq 1..h /\ k \in Int /\ c + 1 \in Int
      OBVIOUS
    <2> QED BY <2>1, FS_Interval
  <1>2. Bad = {}
    <2> SUFFICES ASSUME Bad # {} PROVE FALSE
      OBVIOUS
    <2>1. PICK k \in Bad : \A j \in Bad : k <= j
      <3>1. Bad \in SUBSET Nat
        OBVIOUS
      <3> HIDE DEF Bad
      <3> QED BY <3>1, LeastNumber
    <2>2. k \in Nat /\ c <= k /\ k <= h /\ ~Good(k)
      BY <2>1
    <2>3. k # c
      <3>1. c \in 0..h /\ (c + 1)..c = {}
        OBVIOUS
      <3>2. part(c) \in [(c + 1)..c -> Int] /\ IsFiniteSet((c + 1)..c)
        BY <1>1, <3>1
      <3>3. SumFunction(part(c)) = 0
        <4> HIDE DEF part
        <4> QED BY <3>1, <3>2, SumRemove
      <3>4. UpTo(r, c) \in Int
        BY <1>t, <3>1
      <3> HIDE DEF part
      <3>5. Good(c)
        BY <3>3, <3>4
      <3> QED BY <2>2, <3>5
    <2> DEFINE j == k - 1
    <2>4. /\ j \in Nat /\ c <= j /\ j <= h /\ ~(k <= j) /\ j + 1 = k
          /\ j \in 0..(h - 1) /\ j \in 0..h /\ k \in 0..h /\ c \in 0..h
          /\ k \in (c + 1)..k /\ ((c + 1)..k) \ {k} = (c + 1)..j
          /\ k \in 1..h
      BY <2>2, <2>3
    <2>5. Good(j)
      <3> HIDE DEF j, Good
      <3> QED BY <2>1, <2>4
    <2>6. /\ part(k)[k] = r[k]
          /\ [i \in ((c + 1)..k) \ {k} |-> part(k)[i]] = part(j)
      <3> HIDE DEF j
      <3> QED BY <2>4
    <2>7. part(k) \in [(c + 1)..k -> Int] /\ IsFiniteSet((c + 1)..k)
      BY <1>1, <2>4
    <2> HIDE DEF j, part
    <2>8. SumFunction(part(k)) = r[k] + SumFunction(part(j))
      <3> DEFINE f == part(k)
                 D == (c + 1)..k
      <3>1. f \in [D -> Int] /\ IsFiniteSet(D) /\ k \in D
        BY <2>4, <2>7
      <3>2. SumFunction(f) = f[k] + SumFunction([i \in D \ {k} |-> f[i]])
        <4> HIDE DEF f, D
        <4>1. \A x \in D : SumFunction(f)
                = f[x] + SumFunction([i \in D \ {x} |-> f[i]])
          BY <3>1, SumRemove
        <4> QED BY <3>1, <4>1
      <3> QED BY <2>6, <3>2
    <2>9. /\ UpTo(r, k) = UpTo(r, j) + r[k] /\ UpTo(r, j) \in Int
          /\ UpTo(r, c) \in Int /\ r[k] \in Int
      BY <1>t, <2>4
    <2> QED BY <2>2, <2>5, <2>8, <2>9
  <1>3. Good(h)
    BY <1>2
  <1> QED BY <1>3

\* Terms c+1..k at the heights where they mature.
Maturing(r, c, k) ==
  [m \in Heights |-> IF c < m - Maturity /\ m - Maturity <= k
                     THEN r[m - Maturity] ELSE 0]

\* The rewards that are still pending include the subsidies of the last blocks.
LEMMA MaturingSum ==
  ASSUME NEW c \in Nat, NEW h \in Nat, c <= h, h <= MaxHeight,
         NEW r \in [1..h -> Int]
  PROVE  /\ Maturing(r, c, h) \in [Heights -> Int] /\ IsFiniteSet(Heights)
         /\ SumFunction(Maturing(r, c, h)) = UpTo(r, h) - UpTo(r, c)
  <1> DEFINE Good(k) ==
               SumFunction(Maturing(r, c, k)) = UpTo(r, k) - UpTo(r, c)
             Bad == {k \in Nat : c <= k /\ k <= h /\ ~Good(k)}
  <1>0. /\ Maturity \in Nat \ {0} /\ MaxHeight \in Nat /\ IsFiniteSet(Heights)
        /\ Heights \subseteq Nat
    <2>1. Maturity \in Nat \ {0} /\ MaxHeight \in Nat
      BY LedgerAssumption
    <2>2. IsFiniteSet(1..(MaxHeight + Maturity))
      BY <2>1, FS_Interval
    <2> QED BY <2>1, <2>2 DEF Heights
  <1>t. /\ \A k \in 0..h : UpTo(r, k) \in Int
        /\ \A k \in 0..(h - 1) : UpTo(r, k + 1) = UpTo(r, k) + r[k + 1]
    BY UpToSteps
  <1>1. \A k \in 0..h : Maturing(r, c, k) \in [Heights -> Int]
    <2> SUFFICES ASSUME NEW k \in 0..h
                 PROVE  Maturing(r, c, k) \in [Heights -> Int]
      OBVIOUS
    <2>1. ASSUME NEW m \in Heights, c < m - Maturity, m - Maturity <= k
          PROVE  r[m - Maturity] \in Int
      <3>1. m - Maturity \in 1..h
        BY <1>0, <2>1
      <3> QED BY <3>1
    <2> QED BY <2>1 DEF Maturing
  <1>2. Bad = {}
    <2> SUFFICES ASSUME Bad # {} PROVE FALSE
      OBVIOUS
    <2>1. PICK k \in Bad : \A j \in Bad : k <= j
      <3>1. Bad \in SUBSET Nat
        OBVIOUS
      <3> HIDE DEF Bad
      <3> QED BY <3>1, LeastNumber
    <2>2. k \in Nat /\ c <= k /\ k <= h /\ ~Good(k)
      BY <2>1
    <2>3. k # c
      <3>0. c \in 0..h
        OBVIOUS
      <3>1. \A m \in Heights : Maturing(r, c, c)[m] = 0
        BY <1>0 DEF Maturing
      <3>2. SumFunction(Maturing(r, c, c)) = 0
        BY <1>0, <1>1, <3>0, <3>1, SumZero
      <3>3. UpTo(r, c) \in Int
        BY <1>t, <3>0
      <3>4. Good(c)
        BY <3>2, <3>3
      <3> QED BY <2>2, <3>4
    <2> DEFINE j == k - 1
               x == k + Maturity
    <2>4. /\ j \in Nat /\ c <= j /\ j <= h /\ k = j + 1 /\ ~(k <= j)
          /\ j \in 0..(h - 1) /\ j \in 0..h /\ k \in 0..h /\ c \in 0..h
          /\ k \in 1..h
      BY <2>2, <2>3
    <2>5. Good(j)
      <3> HIDE DEF j, Good
      <3> QED BY <2>1, <2>4
    <2>6. x \in Heights /\ x - Maturity = k /\ j < k /\ c < k
      BY <1>0, <2>2, <2>4 DEF Heights
    <2> DEFINE F == Maturing(r, c, j)
               G == Maturing(r, c, k)
    <2>7. \A m \in Heights : m # x => F[m] = G[m]
      <3> SUFFICES ASSUME NEW m \in Heights, m # x PROVE F[m] = G[m]
        OBVIOUS
      <3>1. m - Maturity <= j <=> m - Maturity <= k
        BY <1>0, <2>4
      <3> HIDE DEF j, x
      <3> QED BY <3>1 DEF Maturing
    <2>8. F[x] = 0 /\ G[x] = r[k]
      <3> HIDE DEF j, x
      <3> QED BY <2>2, <2>4, <2>6 DEF Maturing
    <2>9. SumFunction(G) = SumFunction(F) - F[x] + G[x]
      <3>1. G \in [Heights -> Int] /\ F \in [Heights -> Int]
        BY <1>1, <2>4
      <3>2. IsFiniteSet(Heights) /\ x \in Heights
        BY <1>0, <2>6
      <3> HIDE DEF F, G, x, j
      <3> QED BY <2>7, <3>1, <3>2, SumExcept
    <2>10. /\ UpTo(r, k) = UpTo(r, j) + r[k] /\ UpTo(r, j) \in Int
           /\ UpTo(r, c) \in Int /\ r[k] \in Int
      <3> HIDE DEF j
      <3> QED BY <1>t, <2>4
    <2>11. SumFunction(F) = UpTo(r, j) - UpTo(r, c)
      BY <2>5
    <2>12. SumFunction(G) # UpTo(r, k) - UpTo(r, c)
      BY <2>2
    <2> HIDE DEF j, x, F, G, Good
    <2> QED BY <2>8, <2>9, <2>10, <2>11, <2>12
  <1>3. Good(h)
    BY <1>2
  <1>4. h \in 0..h
    OBVIOUS
  <1> QED BY <1>0, <1>1, <1>3, <1>4

\* No unit is spendable earlier than Maturity blocks after its issue: the
\* balances never exceed what the blocks up to Maturity below the tip issued.
THEOREM RewardsLocked == Spec => []MaturityLock
  <1>1. MoneyInv => MaturityLock
    <2> SUFFICES ASSUME MoneyInv PROVE MaturityLock
      OBVIOUS
    <2> DEFINE c == IF height > Maturity THEN height - Maturity ELSE 0
    <2>1. state \in LedgerState /\ height \in 0..MaxHeight
      BY DEF MoneyInv, LedgerInv, TypeOK
    <2>2. Maturity \in Nat \ {0} /\ MaxHeight \in Nat
      BY LedgerAssumption
    <2>3. c \in Nat /\ c <= height /\ height \in Nat /\ height <= MaxHeight
          /\ c + Maturity >= height
      BY <2>1, <2>2
    <2> HIDE DEF c
    <2> DEFINE r == [i \in 1..height |-> BlockSubsidy(i)]
               locked == Maturing(r, c, height)
    <2>r. /\ r \in [1..height -> Int]
          /\ UpTo(r, height) = Minted(height) /\ UpTo(r, c) = Minted(c)
      <3>1. \A i \in 1..height : BlockSubsidy(i) \in Int
        BY SubsidyNat
      <3>2. [i \in 1..height |-> r[i]] = [i \in 1..height |-> BlockSubsidy(i)]
            /\ [i \in 1..c |-> r[i]] = [i \in 1..c |-> BlockSubsidy(i)]
        BY <2>3
      <3> QED BY <3>1, <3>2 DEF UpTo, Minted
    <2>b. \A i \in 1..height : r[i] = BlockSubsidy(i)
      OBVIOUS
    <2> HIDE DEF r
    <2>4. /\ locked \in [Heights -> Int] /\ IsFiniteSet(Heights)
          /\ SumFunction(locked) = Minted(height) - Minted(c)
      BY <2>3, <2>r, MaturingSum
    <2>5. /\ RowSums(state) \in [Heights -> Int]
          /\ RowSums(state) \in [Heights -> Nat]
          /\ Pending(state) = SumFunction(RowSums(state))
          /\ \A m \in Heights : RowSums(state)[m] = SumFunction(state.pending[m])
          /\ Balances(state) \in Nat /\ Pending(state) \in Nat
      BY <2>1, MoneyTypes
    <2>6. \A m \in Heights : locked[m] <= RowSums(state)[m]
      <3> SUFFICES ASSUME NEW m \in Heights
                   PROVE  locked[m] <= RowSums(state)[m]
        OBVIOUS
      <3>1. CASE c < m - Maturity /\ m - Maturity <= height
        <4> DEFINE i == m - Maturity
        <4>1. i \in 1..height /\ i + Maturity = m /\ i + Maturity > height
          BY <2>2, <2>3, <3>1 DEF Heights
        <4>2. locked[m] = BlockSubsidy(i)
          BY <2>b, <3>1, <4>1 DEF Maturing
        <4> HIDE DEF i
        <4>3. SumFunction(state.pending[i + Maturity]) >= BlockSubsidy(i)
          BY <4>1 DEF MoneyInv, SubsidyPending
        <4>4. BlockSubsidy(i) \in Nat
          BY <4>1, SubsidyNat
        <4> QED BY <2>5, <4>1, <4>2, <4>3, <4>4
      <3>2. CASE ~(c < m - Maturity /\ m - Maturity <= height)
        <4>1. locked[m] = 0
          BY <3>2 DEF Maturing
        <4> QED BY <2>5, <4>1
      <3> QED BY <3>1, <3>2
    <2> HIDE DEF locked
    <2>7. SumFunction(locked) <= SumFunction(RowSums(state))
      BY <2>4, <2>5, <2>6, SumMono
    <2>8. Minted(height) \in Nat /\ Minted(c) \in Nat
      BY <2>3, MintedSteps
    <2>9. Balances(state) + Pending(state) = Minted(height)
      BY DEF MoneyInv
    <2>10. Balances(state) <= Minted(c)
      BY <2>4, <2>5, <2>7, <2>8, <2>9
    <2> QED BY <2>10 DEF c, MaturityLock
  <1> QED BY <1>1, MoneyInvariant, PTL

-----------------------------------------------------------------------------
(* What the node tells about rewards.                                      *)

\* An entry of claims.
Claim == [finder : Addr, amount : Nat]

\* The reward of a block depends on the blocks up to it alone.
LEMMA WeightsSound ==
  ASSUME NEW sh \in Seq([Addr -> Nat]), NEW w \in [Addr -> Nat],
         NEW n \in 0..Len(sh)
  PROVE  /\ Weights(sh, n) \in [Addr -> Nat]
         /\ Weights(Append(sh, w), n) = Weights(sh, n)
         /\ \A a \in Addr : Weights(sh, n)[a] =
              SumFunction([i \in (IF n > Window THEN n - Window + 1 ELSE 1)..n
                             |-> sh[i][a]])
  <1> DEFINE first == IF n > Window THEN n - Window + 1 ELSE 1
             bigger == Append(sh, w)
  <1>1. n \in Nat /\ Window \in Nat \ {0} /\ first \in Nat \ {0}
    BY LedgerAssumption
  <1>2. \A i \in first..n : sh[i] \in [Addr -> Nat] /\ bigger[i] = sh[i]
    <2>1. \A i \in 1..Len(sh) : sh[i] \in [Addr -> Nat] /\ bigger[i] = sh[i]
      OBVIOUS
    <2>2. first..n \subseteq 1..Len(sh)
      <3> HIDE DEF first
      <3> QED BY <1>1
    <2> QED BY <2>1, <2>2
  <1>3. IsFiniteSet(first..n)
    <2> HIDE DEF first
    <2> QED BY <1>1, FS_Interval
  <1>4. /\ Weights(sh, n)
             = [a \in Addr |-> SumFunction([i \in first..n |-> sh[i][a]])]
        /\ Weights(bigger, n)
             = [a \in Addr |-> SumFunction([i \in first..n |-> bigger[i][a]])]
    BY DEF Weights
  <1> HIDE DEF bigger
  <1>5. \A a \in Addr : SumFunction([i \in first..n |-> sh[i][a]]) \in Nat
    <2> HIDE DEF first
    <2> SUFFICES ASSUME NEW a \in Addr
                 PROVE  SumFunction([i \in first..n |-> sh[i][a]]) \in Nat
      OBVIOUS
    <2>1. [i \in first..n |-> sh[i][a]] \in [first..n -> Nat]
      BY <1>2
    <2> QED BY <1>3, <2>1, SumNat
  <1>6. Weights(bigger, n) = Weights(sh, n)
    <2> HIDE DEF first
    <2>1. \A a \in Addr : [i \in first..n |-> bigger[i][a]]
                            = [i \in first..n |-> sh[i][a]]
      BY <1>2
    <2> QED BY <1>4, <2>1
  <1>7. Weights(sh, n) \in [Addr -> Nat]
    <2> HIDE DEF first
    <2> QED BY <1>4, <1>5
  <1>8. \A a \in Addr : Weights(sh, n)[a]
                          = SumFunction([i \in first..n |-> sh[i][a]])
    <2> HIDE DEF first
    <2> QED BY <1>4
  <1> QED BY <1>6, <1>7, <1>8 DEF bigger

\* A reward is an amount of money, and depends on the blocks up to it alone.
LEMMA RewardSound ==
  ASSUME NEW sh \in Seq([Addr -> Nat]), NEW w \in [Addr -> Nat],
         NEW cl \in Seq(Claim), NEW c \in Claim,
         NEW a \in Addr, NEW i \in 1..Len(cl), Len(cl) <= Len(sh)
  PROVE  /\ Reward(sh, cl, a, i) \in Nat
         /\ Reward(Append(sh, w), Append(cl, c), a, i) = Reward(sh, cl, a, i)
  <1>1. i \in Nat /\ i \in 0..Len(sh)
    OBVIOUS
  <1>2. /\ Weights(sh, i) \in [Addr -> Nat]
        /\ Weights(Append(sh, w), i) = Weights(sh, i)
    BY <1>1, WeightsSound
  <1>3. Pool(BlockSubsidy(i)) \in Nat
    BY <1>1, SubsidyNat, FinderPart
  <1>4. WorkshareRewards(Pool(BlockSubsidy(i)), Weights(sh, i)) \in [Addr -> Nat]
    BY <1>2, <1>3, WorkshareSound
  <1>5. cl[i] \in Claim /\ Append(cl, c)[i] = cl[i]
    OBVIOUS
  <1>6. (IF cl[i].finder = a THEN cl[i].amount ELSE 0) \in Nat
    BY <1>5 DEF Claim
  <1> QED BY <1>2, <1>4, <1>5, <1>6 DEF Reward

\* The transfers of one address.
LEMMA NetSentSound ==
  ASSUME NEW txs \in Seq(Tx), NEW a \in Addr
  PROVE  /\ NetSent(txs, a) \in Int
         /\ NetSent(<<>>, a) = 0
         /\ \A t \in Tx : /\ Flow(a, t) \in Int
                          /\ NetSent(Append(txs, t), a)
                               = NetSent(txs, a) + Flow(a, t)
  <1>1. \A t \in Tx : Flow(a, t) \in Int
    BY LedgerAssumption DEF Flow
  <1>2. \A s \in Seq(Tx) : /\ IsFiniteSet(DOMAIN s)
                           /\ [i \in DOMAIN s |-> Flow(a, s[i])]
                                \in [DOMAIN s -> Int]
    <2> SUFFICES ASSUME NEW s \in Seq(Tx)
                 PROVE  /\ IsFiniteSet(DOMAIN s)
                        /\ [i \in DOMAIN s |-> Flow(a, s[i])]
                             \in [DOMAIN s -> Int]
      OBVIOUS
    <2>1. DOMAIN s = 1..Len(s) /\ Len(s) \in Int /\ 1 \in Int
          /\ \A i \in DOMAIN s : s[i] \in Tx
      OBVIOUS
    <2>2. IsFiniteSet(DOMAIN s)
      BY <2>1, FS_Interval
    <2> QED BY <1>1, <2>1, <2>2
  <1>3. NetSent(txs, a) \in Int
    BY <1>2, SumRemove DEF NetSent
  <1>4. NetSent(<<>>, a) = 0
    <2> DEFINE e == [i \in DOMAIN <<>> |-> Flow(a, <<>>[i])]
    <2>1. DOMAIN <<>> = {} /\ e \in [{} -> Int] /\ IsFiniteSet({})
      BY FS_EmptySet
    <2> HIDE DEF e
    <2>2. SumFunction(e) = 0
      BY <2>1, SumRemove
    <2> QED BY <2>2 DEF NetSent, e
  <1>5. ASSUME NEW t \in Tx
        PROVE  NetSent(Append(txs, t), a) = NetSent(txs, a) + Flow(a, t)
    <2> DEFINE n == Len(txs)
               f == [i \in 1..(n + 1) |-> Flow(a, Append(txs, t)[i])]
               g == [i \in DOMAIN txs |-> Flow(a, txs[i])]
    <2>1. /\ n \in Nat /\ Append(txs, t) \in Seq(Tx)
          /\ DOMAIN Append(txs, t) = 1..(n + 1)
          /\ DOMAIN txs = 1..n
          /\ Append(txs, t)[n + 1] = t
          /\ \A i \in 1..n : Append(txs, t)[i] = txs[i]
      OBVIOUS
    <2>2. f \in [1..(n + 1) -> Int] /\ NetSent(Append(txs, t), a) = SumFunction(f)
      BY <1>2, <2>1 DEF NetSent
    <2>3. f[n + 1] = Flow(a, t) /\ [i \in 1..n |-> f[i]] = g
      BY <2>1
    <2>4. NetSent(txs, a) = SumFunction(g)
      BY DEF NetSent
    <2> HIDE DEF n, f, g
    <2>5. SumFunction(f) = SumFunction([i \in 1..n |-> f[i]]) + f[n + 1]
      BY <2>1, <2>2, SumLast
    <2> QED BY <2>2, <2>3, <2>4, <2>5
  <1> QED BY <1>1, <1>3, <1>4, <1>5

\* What two lists of transactions take is the sum of what each takes.
LEMMA NetSentConcat ==
  ASSUME NEW s \in Seq(Tx), NEW t \in Seq(Tx), NEW a \in Addr
  PROVE  NetSent(s \o t, a) = NetSent(s, a) + NetSent(t, a)
  <1> DEFINE head(n) == SubSeq(t, 1, n)
             Good(n) == NetSent(s \o head(n), a) = NetSent(s, a) + NetSent(head(n), a)
             Bad == {n \in Nat : n <= Len(t) /\ ~Good(n)}
  <1>1. Bad = {}
    <2> SUFFICES ASSUME Bad # {} PROVE FALSE
      OBVIOUS
    <2>1. PICK n \in Bad : \A j \in Bad : n <= j
      <3>1. Bad \in SUBSET Nat
        OBVIOUS
      <3> HIDE DEF Bad
      <3> QED BY <3>1, LeastNumber
    <2>2. n \in Nat /\ n <= Len(t) /\ ~Good(n)
      BY <2>1
    <2>3. n # 0
      <3>1. head(0) = <<>> /\ s \o head(0) = s
        OBVIOUS
      <3>2. NetSent(<<>>, a) = 0 /\ NetSent(s, a) \in Int
        BY NetSentSound
      <3> DEFINE z == head(0)
      <3>4. z = <<>> /\ s \o z = s
        BY <3>1
      <3> HIDE DEF z
      <3>5. NetSent(z, a) = 0 /\ NetSent(s \o z, a) = NetSent(s, a)
        BY <3>2, <3>4
      <3>6. NetSent(s \o z, a) = NetSent(s, a) + NetSent(z, a)
        BY <3>2, <3>5
      <3>3. Good(0)
        BY <3>6 DEF z
      <3> QED BY <2>2, <3>3
    <2> DEFINE j == n - 1
    <2>4. j \in Nat /\ j <= Len(t) /\ ~(n <= j) /\ n = j + 1 /\ n \in 1..Len(t)
      BY <2>2, <2>3
    <2>5. Good(j)
      <3> HIDE DEF j, Good
      <3> QED BY <2>1, <2>4
    <2>6. /\ head(j) \in Seq(Tx) /\ t[n] \in Tx
          /\ head(n) = Append(head(j), t[n])
      BY <2>4
    <2> HIDE DEF head, j
    <2>7. s \o head(j) \in Seq(Tx)
          /\ s \o Append(head(j), t[n]) = Append(s \o head(j), t[n])
      BY <2>6
    <2>8. /\ NetSent(Append(s \o head(j), t[n]), a)
               = NetSent(s \o head(j), a) + Flow(a, t[n])
          /\ NetSent(Append(head(j), t[n]), a) = NetSent(head(j), a) + Flow(a, t[n])
          /\ NetSent(head(j), a) \in Int /\ NetSent(s, a) \in Int
          /\ Flow(a, t[n]) \in Int
      BY <2>6, <2>7, NetSentSound
    <2> QED BY <2>2, <2>5, <2>6, <2>7, <2>8
  <1>2. Good(Len(t))
    BY <1>1
  <1>3. head(Len(t)) = t
    OBVIOUS
  <1> HIDE DEF head
  <1> QED BY <1>2, <1>3

\* One more term.
LEMMA UpToNext ==
  ASSUME NEW h \in Nat, NEW r \in [1..h -> Int], NEW k \in Int, k < h
  PROVE  /\ UpTo(r, k) \in Int
         /\ UpTo(r, k + 1) = UpTo(r, k) + (IF k + 1 \in 1..h THEN r[k + 1] ELSE 0)
  <1>0. UpTo(r, 0) = 0
    BY UpToSteps
  <1>1. CASE k >= 0
    <2>1. k \in 0..(h - 1) /\ k \in 0..h /\ k + 1 \in 1..h
      BY <1>1
    <2> QED BY <2>1, UpToSteps
  <1>2. CASE k < 0
    <2>1. 1..k = 1..0 /\ 1..(k + 1) = 1..0 /\ k + 1 \notin 1..h
      BY <1>2
    <2>2. UpTo(r, k) = UpTo(r, 0) /\ UpTo(r, k + 1) = UpTo(r, 0)
      BY <2>1 DEF UpTo
    <2> QED BY <1>0, <2>1, <2>2
  <1> QED BY <1>1, <1>2

\* mature adds the row of its height to the balances.
LEMMA MatureAccounts ==
  ASSUME NEW s \in LedgerState, NEW h \in Heights, NEW a \in Addr
  PROVE  /\ Mature(s, h).acct[a].balance = s.acct[a].balance + s.pending[h][a]
         /\ s.acct[a].balance \in Nat /\ s.pending[h][a] \in Nat
  <1>1. Mature(s, h).acct = Credited(s, h)
    BY DEF Mature, SetPending, SetAccounts
  <1>2. Mature(s, h).acct[a].balance = s.acct[a].balance + s.pending[h][a]
    BY <1>1 DEF Credited
  <1>3. s.acct[a].balance \in Nat /\ s.pending[h][a] \in Nat
    BY DEF LedgerState, Account
  <1> QED BY <1>2, <1>3

\* A transfer takes from the balances what Flow says.
LEMMA TransferAccounts ==
  ASSUME NEW s \in LedgerState, NEW x \in Tx, WellFormed(x), NEW a \in Addr
  PROVE  /\ Transfer(s, x).acct[a].balance = s.acct[a].balance - Flow(a, x)
         /\ s.acct[a].balance \in Nat /\ Flow(a, x) \in Int
  <1>1. /\ x.sender \in Addr /\ x.recipient \in Addr /\ x.amount \in Nat
        /\ x.fee \in Nat /\ x.sender # x.recipient
    BY LedgerAssumption DEF WellFormed
  <1>2. s.acct \in [Addr -> Account]
    BY DEF LedgerState
  <1>3. Transfer(s, x).acct[a].balance =
          IF a = x.sender THEN s.acct[a].balance - (x.amount + x.fee)
          ELSE IF a = x.recipient THEN s.acct[a].balance + x.amount
          ELSE s.acct[a].balance
    BY <1>1, <1>2 DEF Transfer, SetAccounts, Account
  <1>4. s.acct[a].balance \in Nat
    BY <1>2 DEF Account
  <1>5. Flow(a, x) = IF a = x.sender THEN x.amount + x.fee
                     ELSE IF a = x.recipient THEN 0 - x.amount ELSE 0
    BY <1>1 DEF Flow
  <1> QED BY <1>1, <1>3, <1>4, <1>5

\* What the ledger pays for a block is what its history says of it.
LEMMA AllocationIsReward ==
  ASSUME TypeOK, FinishBlock, claims \in Seq(Claim), Len(claims) = height,
         NEW a \in Addr
  PROVE  /\ Allocation[a] = Reward(shares', claims', a, height + 1)
         /\ claims' \in Seq(Claim) /\ Len(claims') = height + 1
         /\ shares' = Append(shares, block.weights)
         /\ \E c \in Claim : claims' = Append(claims, c)
  <1> DEFINE n == height + 1
             subsidy == BlockSubsidy(n)
             w == WindowWeights(Len(shares))
             part == FinderAmount(subsidy, w, fees)
             c == [finder |-> block.finder, amount |-> part]
             share == WorkshareRewards(Pool(subsidy), w)
  <1>1. /\ n \in Nat /\ Len(shares) = n /\ shares \in Seq([Addr -> Nat])
        /\ block.weights \in [Addr -> Nat] /\ block.finder \in Addr
        /\ fees \in Nat /\ n \in 0..Len(shares)
    BY DEF TypeOK
  <1>2. shares' = Append(shares, block.weights) /\ claims' = Append(claims, c)
    BY DEF FinishBlock
  <1>3. Weights(shares', n) = w /\ w \in [Addr -> Nat]
    <2>1. /\ Weights(shares, n) \in [Addr -> Nat]
          /\ Weights(Append(shares, block.weights), n) = Weights(shares, n)
      <3> HIDE DEF n
      <3> QED BY <1>1, WeightsSound
    <2>2. Weights(shares, n) = w
      BY <1>1 DEF Weights, WindowWeights
    <2> QED BY <1>2, <2>1, <2>2
  <1>4. subsidy \in Nat
    BY <1>1, SubsidyNat
  <1>5. FinderBase(subsidy) \in Nat /\ Pool(subsidy) \in Nat
    BY <1>4, FinderPart
  <1>6. share \in [Addr -> Nat]
    BY <1>3, <1>5, WorkshareSound
  <1>7. part \in Nat /\ c \in Claim
    BY <1>1, <1>5 DEF FinderAmount, Claim
  <1>8. claims' \in Seq(Claim) /\ Len(claims') = n /\ claims'[n] = c
    <2> HIDE DEF c
    <2> QED BY <1>2, <1>7
  <1>9. Allocation = [share EXCEPT ![block.finder] = @ + part]
    BY DEF Allocation
  <1>10. Reward(shares', claims', a, n)
           = (IF block.finder = a THEN part ELSE 0) + share[a]
    BY <1>3, <1>8 DEF Reward
  <1>11. Allocation[a] = (IF block.finder = a THEN part ELSE 0) + share[a]
    <2> HIDE DEF share, part
    <2>1. share[a] \in Nat
      BY <1>6
    <2> QED BY <1>1, <1>6, <1>7, <1>9, <2>1
  <1>12. \E d \in Claim : claims' = Append(claims, d)
    BY <1>2, <1>7
  <1> QED BY <1>2, <1>8, <1>10, <1>11, <1>12

-----------------------------------------------------------------------------
(* The inductive invariant.                                                *)

\* The rewards of an address are amounts of money.
LEMMA RewardedType ==
  ASSUME TypeOK, claims \in Seq(Claim), Len(claims) = height, NEW a \in Addr
  PROVE  Rewarded(a) \in [1..height -> Int]
  <1>1. /\ shares \in Seq([Addr -> Nat]) /\ Len(shares) = height + 1
        /\ height \in Nat /\ block.weights \in [Addr -> Nat]
    BY DEF TypeOK
  <1>2. ASSUME NEW i \in 1..height
        PROVE  Reward(shares, claims, a, i) \in Nat
    <2>1. i \in 1..Len(claims) /\ Len(claims) <= Len(shares)
      BY <1>1
    <2>2. [finder |-> a, amount |-> 0] \in Claim
      BY DEF Claim
    <2> QED BY <1>1, <2>1, <2>2, RewardSound
  <1> QED BY <1>2 DEF Rewarded

\* At genesis nothing is pending and nobody was paid.
LEMMA InitHistory == Init => HistoryInv
  <1> SUFFICES ASSUME Init PROVE HistoryInv
    OBVIOUS
  <1>1. MoneyInv
    BY InitMoney
  <1>2. /\ height = 0 /\ state = EmptyState /\ phase = "idle"
        /\ claims = <<>> /\ log = <<>>
    BY DEF Init
  <1>3. claims \in Seq(Claim) /\ Len(claims) = height
    BY <1>2
  <1>4. PendingIsReward(state, height)
    <2>1. 1..height = {}
      BY <1>2
    <2> QED BY <1>2, <2>1 DEF PendingIsReward, EmptyState, NoPending
  <1>5. ASSUME NEW a \in Addr
        PROVE  state.acct[a].balance + NetSent(log, a)
                 = UpTo(Rewarded(a), height - Maturity)
    <2>1. state.acct[a].balance = 0
      BY <1>2 DEF EmptyState, DefaultAccount
    <2>2. NetSent(log, a) = 0
      <3>1. <<>> \in Seq(Tx)
        OBVIOUS
      <3> QED BY <1>2, <3>1, NetSentSound
    <2>3. UpTo(Rewarded(a), height - Maturity) = 0
      <3>1. Maturity \in Nat \ {0}
        BY LedgerAssumption
      <3>2. 1..(height - Maturity) = 1..0
        BY <1>2, <3>1
      <3>3. UpTo(Rewarded(a), height - Maturity) = UpTo(Rewarded(a), 0)
        BY <3>2 DEF UpTo
      <3>4. Rewarded(a) \in [1..height -> Int] /\ height \in Nat
        BY <1>1, <1>2, <1>3, RewardedType DEF MoneyInv, LedgerInv
      <3> QED BY <3>3, <3>4, UpToSteps
    <2> QED BY <2>1, <2>2, <2>3
  <1> QED BY <1>1, <1>2, <1>3, <1>4, <1>5 DEF HistoryInv, Claim

\* The rewards that mature are those of one block.
LEMMA BeginBlockHistory ==
  ASSUME HistoryInv, NEW finder \in Addr, NEW weights \in Witness,
         BeginBlock(finder, weights)
  PROVE  HistoryInv'
  <1>1. MoneyInv /\ MoneyInv'
    BY BeginBlockMoney DEF HistoryInv
  <1>2. /\ work' = Mature(state, height + 1) /\ body' = <<>>
        /\ height < MaxHeight
        /\ height' = height /\ state' = state /\ shares' = shares
        /\ claims' = claims /\ log' = log
    BY DEF BeginBlock, chain
  <1>3. /\ TypeOK /\ state \in LedgerState /\ log \in Seq(Tx)
        /\ claims \in Seq(Claim) /\ Len(claims) = height
    BY <1>1 DEF HistoryInv, MoneyInv, LedgerInv, TypeOK, Claim
  <1>4. height \in Nat /\ height + 1 \in Heights /\ Maturity \in Nat \ {0}
    BY <1>2, <1>3, BodyHeights
  <1>5. work'.pending = [state.pending EXCEPT ![height + 1] = NoWork]
        /\ state.pending \in [Heights -> [Addr -> Nat]]
    BY <1>2, <1>3, <1>4, MatureSound DEF LedgerState
  <1>6. PendingIsReward(work', height + 1)
    <2>1. ASSUME NEW m \in Heights, m > height + 1
          PROVE  work'.pending[m] = state.pending[m] /\ m > height
      BY <1>4, <1>5, <2>1 DEF Heights
    <2> QED BY <2>1 DEF HistoryInv, PendingIsReward
  <1>7. ASSUME NEW a \in Addr
        PROVE  work'.acct[a].balance + NetSent(log, a) + NetSent(<<>>, a)
                 = UpTo(Rewarded(a), height + 1 - Maturity)
    <2> DEFINE r == Rewarded(a)
               k == height - Maturity
               p == state.pending[height + 1][a]
    <2>1. r \in [1..height -> Int] /\ \A i \in 1..height :
             r[i] = Reward(shares, claims, a, i)
      BY <1>3, RewardedType DEF Rewarded
    <2>2. k \in Int /\ k < height /\ k + 1 = height + 1 - Maturity
      BY <1>4
    <2>3. p = IF k + 1 \in 1..height THEN r[k + 1] ELSE 0
      <3>1. height + 1 > height
        BY <1>4
      <3>2. p = IF height + 1 - Maturity \in 1..height
                THEN Reward(shares, claims, a, height + 1 - Maturity) ELSE 0
        BY <1>4, <3>1 DEF HistoryInv, PendingIsReward
      <3> HIDE DEF r, k, p
      <3> QED BY <2>1, <2>2, <3>2
    <2>4. work'.acct[a].balance = state.acct[a].balance + p
          /\ state.acct[a].balance \in Nat /\ p \in Nat
      BY <1>2, <1>3, <1>4, MatureAccounts
    <2>5. NetSent(log, a) \in Int /\ NetSent(<<>>, a) = 0
      BY <1>3, NetSentSound
    <2>6. state.acct[a].balance + NetSent(log, a) = UpTo(r, k)
      BY DEF HistoryInv
    <2> HIDE DEF r, k, p
    <2>7. UpTo(r, k + 1) = UpTo(r, k) + p
      BY <1>4, <2>1, <2>2, <2>3, UpToNext
    <2>8. work'.acct[a].balance + NetSent(log, a) + NetSent(<<>>, a)
            = UpTo(r, k + 1)
      BY <2>4, <2>5, <2>6, <2>7
    <2> QED BY <2>2, <2>8 DEF r
  <1>8. /\ PendingIsReward(state, height)'
        /\ \A a \in Addr : (state.acct[a].balance + NetSent(log, a)
                              = UpTo(Rewarded(a), height - Maturity))'
    BY <1>2 DEF HistoryInv, PendingIsReward, Rewarded
  <1>9. /\ (PendingIsReward(work, height + 1))'
        /\ \A a \in Addr : (work.acct[a].balance + NetSent(log, a)
              + NetSent(body, a) = UpTo(Rewarded(a), height + 1 - Maturity))'
    BY <1>2, <1>6, <1>7 DEF PendingIsReward, Rewarded
  <1> QED BY <1>1, <1>2, <1>3, <1>8, <1>9 DEF HistoryInv, Claim

\* A transaction changes a balance by what it takes.
LEMMA ApplyTransactionHistory ==
  ASSUME HistoryInv, NEW t \in Tx, ApplyTransaction(t)
  PROVE  HistoryInv'
  <1>1. MoneyInv /\ MoneyInv'
    BY ApplyTransactionMoney DEF HistoryInv
  <1>2. /\ phase = "body" /\ work' = Transfer(work, t)
        /\ body' = Append(body, t)
        /\ height' = height /\ state' = state /\ shares' = shares
        /\ claims' = claims /\ log' = log
        /\ WellFormed(t) /\ t.nonce = work.acct[t.sender].nonce
        /\ t.amount + t.fee <= work.acct[t.sender].balance
    BY DEF ApplyTransaction, Acceptable, chain
  <1>3. work \in LedgerState /\ log \in Seq(Tx) /\ body \in Seq(Tx)
    BY <1>1 DEF MoneyInv, LedgerInv, TypeOK
  <1>4. work'.pending = work.pending
    BY <1>2, <1>3, TransferSound
  <1>5. ASSUME NEW a \in Addr
        PROVE  work'.acct[a].balance + NetSent(log, a) + NetSent(body', a)
                 = UpTo(Rewarded(a), height + 1 - Maturity)
    <2>1. /\ work'.acct[a].balance = work.acct[a].balance - Flow(a, t)
          /\ work.acct[a].balance \in Nat /\ Flow(a, t) \in Int
      BY <1>2, <1>3, TransferAccounts
    <2>2. /\ NetSent(body', a) = NetSent(body, a) + Flow(a, t)
          /\ NetSent(body, a) \in Int /\ NetSent(log, a) \in Int
      BY <1>2, <1>3, NetSentSound
    <2>3. work.acct[a].balance + NetSent(log, a) + NetSent(body, a)
            = UpTo(Rewarded(a), height + 1 - Maturity)
      BY <1>2 DEF HistoryInv
    <2> DEFINE u == UpTo(Rewarded(a), height + 1 - Maturity)
    <2> HIDE DEF u
    <2>4. work.acct[a].balance + NetSent(log, a) + NetSent(body, a) = u
      BY <2>3 DEF u
    <2>5. work'.acct[a].balance + NetSent(log, a) + NetSent(body', a) = u
      BY <2>1, <2>2, <2>4
    <2> QED BY <2>5 DEF u
  <1>6. /\ PendingIsReward(state, height)'
        /\ \A a \in Addr : (state.acct[a].balance + NetSent(log, a)
                              = UpTo(Rewarded(a), height - Maturity))'
    BY <1>2 DEF HistoryInv, PendingIsReward, Rewarded
  <1>7. (PendingIsReward(work, height + 1))'
    BY <1>2, <1>4 DEF HistoryInv, PendingIsReward
  <1>8. \A a \in Addr : (work.acct[a].balance + NetSent(log, a)
              + NetSent(body, a) = UpTo(Rewarded(a), height + 1 - Maturity))'
    BY <1>2, <1>5 DEF Rewarded
  <1>9. claims' \in Seq(Claim) /\ Len(claims') = height'
    BY <1>2 DEF HistoryInv, Claim
  <1> QED BY <1>1, <1>6, <1>7, <1>8, <1>9 DEF HistoryInv, Claim

\* The new block's rewards are pending and its transactions are in the log.
LEMMA FinishBlockHistory ==
  ASSUME HistoryInv, FinishBlock
  PROVE  HistoryInv'
  <1> DEFINE due == height + 1 + Maturity
  <1>1. MoneyInv /\ MoneyInv'
    BY FinishBlockMoney DEF HistoryInv
  <1>2. /\ phase = "body" /\ phase' = "idle" /\ height' = height + 1
        /\ log' = log \o body
        /\ Allocation \in [Addr -> 0..MaxMoney]
        /\ state' = ScheduleRewards(work, due, Allocation)
    BY DEF FinishBlock
  <1>3. /\ TypeOK /\ work \in LedgerState /\ log \in Seq(Tx)
        /\ body \in Seq(Tx) /\ height < MaxHeight
        /\ claims \in Seq(Claim) /\ Len(claims) = height
        /\ shares \in Seq([Addr -> Nat]) /\ Len(shares) = height + 1
        /\ block.weights \in [Addr -> Nat]
    BY <1>1, <1>2 DEF HistoryInv, MoneyInv, LedgerInv, TypeOK, Claim
  <1>4. height \in Nat /\ due \in Heights /\ Maturity \in Nat \ {0}
    BY <1>3, BodyHeights
  <1>5. /\ \A a \in Addr :
             Allocation[a] = Reward(shares', claims', a, height + 1)
        /\ claims' \in Seq(Claim) /\ Len(claims') = height + 1
        /\ shares' = Append(shares, block.weights)
        /\ Addr # {}
    BY <1>3, AllocationIsReward, RewardAssumption
  <1>6. ASSUME NEW a \in Addr, NEW i \in 1..height
        PROVE  Reward(shares', claims', a, i) = Reward(shares, claims, a, i)
    <2>1. PICK c \in Claim : claims' = Append(claims, c)
      BY <1>3, AllocationIsReward
    <2>2. i \in 1..Len(claims) /\ Len(claims) <= Len(shares)
      BY <1>3, <1>4
    <2> QED BY <1>3, <1>5, <2>1, <2>2, RewardSound
  <1>7. /\ state'.acct = work.acct
        /\ \A m \in Heights : m # due => state'.pending[m] = work.pending[m]
    BY <1>2, <1>3, <1>4, ScheduleSound, ZenonT(40)
  <1>8. ASSUME NEW a \in Addr
        PROVE  state'.pending[due][a] = work.pending[due][a] + Allocation[a]
    <2>1. work.pending \in [Heights -> [Addr -> Nat]]
      BY <1>3 DEF LedgerState
    <2> QED BY <1>2, <1>4, <2>1 DEF ScheduleRewards, SetPending
  <1>9. PendingIsReward(state, height)'
    <2> SUFFICES ASSUME NEW m \in Heights, NEW a \in Addr, m > height + 1
                 PROVE  state'.pending[m][a] =
                          IF m - Maturity \in 1..(height + 1)
                          THEN Reward(shares', claims', a, m - Maturity)
                          ELSE 0
      BY <1>2 DEF PendingIsReward
    <2>1. work.pending[m][a] = IF m - Maturity \in 1..height
                               THEN Reward(shares, claims, a, m - Maturity)
                               ELSE 0
      BY <1>2 DEF HistoryInv, PendingIsReward
    <2>2. CASE m = due
      <3>1. m - Maturity = height + 1 /\ m - Maturity \in 1..(height + 1)
            /\ m - Maturity \notin 1..height
        BY <1>4, <2>2
      <3>2. work.pending[due][a] = 0
        BY <2>1, <2>2, <3>1
      <3>3. Allocation[a] \in Nat
        BY <1>2, RewardAssumption
      <3>4. state'.pending[due][a] = Reward(shares', claims', a, height + 1)
        BY <1>5, <1>8, <3>2, <3>3
      <3> HIDE DEF due
      <3> QED BY <2>2, <3>1, <3>4
    <2>3. CASE m # due
      <3>1. m - Maturity \in 1..(height + 1) <=> m - Maturity \in 1..height
        BY <1>4, <2>3 DEF Heights
      <3>2. state'.pending[m] = work.pending[m]
        BY <1>7, <2>3
      <3> HIDE DEF due
      <3> QED BY <1>6, <2>1, <3>1, <3>2
    <2> QED BY <2>2, <2>3
  <1>10. ASSUME NEW a \in Addr
         PROVE  (state.acct[a].balance + NetSent(log, a)
                   = UpTo(Rewarded(a), height - Maturity))'
    <2>1. work.acct[a].balance + NetSent(log, a) + NetSent(body, a)
            = UpTo(Rewarded(a), height + 1 - Maturity)
      BY <1>2 DEF HistoryInv
    <2>2. /\ NetSent(log', a) = NetSent(log, a) + NetSent(body, a)
          /\ NetSent(log, a) \in Int /\ NetSent(body, a) \in Int
      BY <1>2, <1>3, NetSentConcat, NetSentSound
    <2>3. UpTo(Rewarded(a)', height + 1 - Maturity)
            = UpTo(Rewarded(a), height + 1 - Maturity)
      <3>1. \A i \in 1..(height + 1 - Maturity) :
              i \in 1..height /\ i \in 1..(height + 1)
        BY <1>4
      <3>2. \A i \in 1..(height + 1 - Maturity) :
              Rewarded(a)'[i] = Rewarded(a)[i]
        BY <1>2, <1>6, <3>1 DEF Rewarded
      <3> QED BY <3>2 DEF UpTo
    <2>4. work.acct[a].balance \in Nat
      BY <1>3 DEF LedgerState, Account
    <2>5. state'.acct[a].balance + NetSent(log', a)
            = work.acct[a].balance + NetSent(log, a) + NetSent(body, a)
      BY <1>7, <2>2, <2>4
    <2>6. state'.acct[a].balance + NetSent(log', a)
            = UpTo(Rewarded(a)', height + 1 - Maturity)
      BY <2>1, <2>3, <2>5
    <2>7. height' = height + 1
      BY <1>2
    <2>8. UpTo(Rewarded(a)', height' - Maturity)
            = UpTo(Rewarded(a)', height + 1 - Maturity)
      <3>1. height \in Int /\ height' \in Int /\ Maturity \in Int
        BY <1>4, <2>7
      <3>2. height' - Maturity = height + 1 - Maturity
        BY <2>7, <3>1
      <3> QED BY <3>2
    <2> QED BY <2>6, <2>8
  <1> QED BY <1>1, <1>2, <1>5, <1>9, <1>10 DEF HistoryInv, Claim

\* Every step keeps the history.
LEMMA NextHistory == HistoryInv /\ [Next]_vars => HistoryInv'
  <1> SUFFICES ASSUME HistoryInv, [Next]_vars PROVE HistoryInv'
    OBVIOUS
  <1>0. MoneyInv'
    BY NextMoney DEF HistoryInv
  <1>1. CASE UNCHANGED vars
    BY <1>0, <1>1 DEF vars, chain, applying, HistoryInv, PendingIsReward,
         Rewarded
  <1>2. CASE \E finder \in Addr, weights \in Witness :
               BeginBlock(finder, weights)
    BY <1>2, BeginBlockHistory
  <1>3. CASE \E t \in Tx : ApplyTransaction(t)
    BY <1>3, ApplyTransactionHistory
  <1>4. CASE FinishBlock
    BY <1>4, FinishBlockHistory
  <1>5. CASE RejectBlock
    BY <1>0, <1>5 DEF RejectBlock, chain, HistoryInv, PendingIsReward,
         Rewarded
  <1> QED BY <1>1, <1>2, <1>3, <1>4, <1>5 DEF Next

\* The invariant that HistoryAddsUp rests on: a pending entry is the reward of
\* one block, and a balance is the matured rewards less the transfers, also in
\* the middle of a block.
THEOREM HistoryInvariant == Spec => []HistoryInv
  <1>1. Init => HistoryInv
    BY InitHistory
  <1>2. HistoryInv /\ [Next]_vars => HistoryInv'
    BY NextHistory
  <1> QED BY <1>1, <1>2, PTL DEF Spec

\* historical_reward looks at the allocation only of an address with a share
\* in the window; any other address gets nothing of it.
LEMMA ShortcutSound ==
  ASSUME HistoryInv, NEW a \in Addr, NEW i \in 1..height
  PROVE  HistoricalReward(a, i) = Reward(shares, claims, a, i)
  <1> DEFINE first == IF i > Window THEN i - Window + 1 ELSE 1
             pool == Pool(BlockSubsidy(i))
             w == WindowWeights(i)
  <1>1. /\ shares \in Seq([Addr -> Nat]) /\ Len(shares) = height + 1
        /\ height \in Nat /\ i \in 0..Len(shares) /\ i \in Nat
        /\ claims \in Seq(Claim) /\ Len(claims) = height
        /\ Window \in Nat \ {0} /\ block.weights \in [Addr -> Nat]
    BY LedgerAssumption DEF HistoryInv, MoneyInv, LedgerInv, TypeOK, Claim
  <1>2. w = Weights(shares, i)
    BY DEF WindowWeights, Weights
  <1>3. /\ w \in [Addr -> Nat]
        /\ w[a] = SumFunction([k \in first..i |-> shares[k][a]])
    <2> HIDE DEF w
    <2> QED BY <1>1, <1>2, WeightsSound
  <1>4. pool \in Nat
    BY <1>1, SubsidyNat, FinderPart
  <1>5. WorkshareRewards(pool, w) \in [Addr -> Nat]
    <2> HIDE DEF pool, w
    <2> QED BY <1>3, <1>4, WorkshareSound
  <1>6. claims[i].amount \in Nat
    <2>1. i \in 1..Len(claims)
      BY <1>1
    <2>2. claims[i] \in Claim
      BY <1>1, <2>1
    <2> QED BY <2>2 DEF Claim
  <1>7. ASSUME ~Eligible(a, i)
        PROVE  WorkshareRewards(pool, w)[a] = 0
    <2>1. \A k \in first..i : shares[k][a] = 0
      <3> SUFFICES ASSUME NEW k \in first..i, shares[k][a] # 0
                   PROVE  FALSE
        OBVIOUS
      <3>1. k \in 1..Len(shares) /\ k \in Nat /\ k - 1 \in 0..height
            /\ (k - 1) + 1 = k /\ k - 1 < i /\ k - 1 >= i - Window
        BY <1>1
      <3>2. shares[k][a] \in Nat
        BY <1>1, <3>1
      <3>3. k - 1 \in ShareBlocks(a)
        BY <3>1, <3>2 DEF ShareBlocks
      <3> QED BY <1>7, <3>1, <3>3 DEF Eligible
    <2>2. w[a] = 0
      <3> DEFINE f == [k \in first..i |-> shares[k][a]]
      <3>1. f \in [first..i -> Int] /\ \A k \in first..i : f[k] = 0
        <4> HIDE DEF first
        <4> QED BY <2>1
      <3>2. IsFiniteSet(first..i)
        <4>1. first \in Int /\ i \in Int
          BY <1>1
        <4> HIDE DEF first
        <4> QED BY <4>1, FS_Interval
      <3>3. w[a] = SumFunction(f)
        BY <1>3
      <3> HIDE DEF f, first, w
      <3> QED BY <3>1, <3>2, <3>3, SumZero
    <2>3. SumFunction(w) \in Nat
      <3> HIDE DEF w
      <3> QED BY <1>3, <1>4, WorkshareSound
    <2>4. CASE pool = 0 \/ SumFunction(w) = 0
      <3> HIDE DEF pool, w
      <3> QED BY <2>4 DEF WorkshareRewards
    <2>5. CASE ~(pool = 0 \/ SumFunction(w) = 0)
      <3> DEFINE T == SumFunction(w)
      <3>1. T \in Nat \ {0}
        BY <2>3, <2>5
      <3>2. Quotient(pool, w, T, a) = 0
        <4>1. pool * w[a] = 0
          <5> HIDE DEF pool, w
          <5> QED BY <1>4, <2>2
        <4> HIDE DEF pool, w, T
        <4> QED BY <3>1, <4>1 DEF Quotient
      <3>3. ~(w[a] > 0)
        <4> HIDE DEF w
        <4> QED BY <2>2
      <3> HIDE DEF pool, w
      <3>4. WorkshareRewards(pool, w)[a] = Quotient(pool, w, T, a) + 0
        BY <2>5, <3>3 DEF WorkshareRewards
      <3> QED BY <3>2, <3>4
    <2> QED BY <2>4, <2>5
  <1>8. WorkshareRewards(pool, w)[a] \in Nat
    <2> HIDE DEF pool, w
    <2> QED BY <1>5
  <1>9. Reward(shares, claims, a, i)
          = (IF claims[i].finder = a THEN claims[i].amount ELSE 0)
              + WorkshareRewards(pool, w)[a]
    BY <1>2 DEF Reward
  <1>10. HistoricalReward(a, i)
           = (IF claims[i].finder = a THEN claims[i].amount ELSE 0)
               + (IF Eligible(a, i) THEN WorkshareRewards(pool, w)[a] ELSE 0)
    BY DEF HistoricalReward
  <1> HIDE DEF pool, w
  <1> QED BY <1>7, <1>9, <1>10

\* mining_rewards, with what was sent and received in one sum.
LEMMA MiningRewardsSum ==
  ASSUME TypeOK, NEW a \in Addr
  PROVE  MiningRewards(a) = state.acct[a].balance + PendingFor(a)
                              + NetSent(log, a)
  <1> DEFINE D == DOMAIN log
             sent == [i \in D |-> IF log[i].sender = a
                                 THEN log[i].amount + log[i].fee ELSE 0]
             got == [i \in D |-> IF log[i].recipient = a
                                THEN log[i].amount ELSE 0]
             net == [i \in D |-> Flow(a, log[i])]
  <1>1. /\ log \in Seq(Tx) /\ state \in LedgerState
        /\ \A i \in D : log[i] \in Tx
    BY DEF TypeOK
  <1>2. \A i \in D : log[i].amount \in Nat /\ log[i].fee \in Nat
    BY <1>1, LedgerAssumption
  <1>3. sent \in [D -> Int] /\ got \in [D -> Int] /\ net \in [D -> Int]
        /\ \A i \in D : net[i] = sent[i] + (0 - 1) * got[i]
    <2>1. \A i \in D : Flow(a, log[i]) \in Int
      BY <1>2 DEF Flow
    <2>2. \A i \in D : net[i] = sent[i] + (0 - 1) * got[i]
      BY <1>2 DEF Flow
    <2> QED BY <1>2, <2>1, <2>2
  <1>4. IsFiniteSet(D)
    <2>1. D = 1..Len(log) /\ 1 \in Int /\ Len(log) \in Int
      BY <1>1
    <2> QED BY <2>1, FS_Interval
  <1>5. MiningRewards(a) = state.acct[a].balance + PendingFor(a)
                             + SumFunction(sent) - SumFunction(got)
    BY DEF MiningRewards, SumOver
  <1>6. NetSent(log, a) = SumFunction(net)
    BY DEF NetSent
  <1> HIDE DEF sent, got, net, D
  <1>7. Combines(net, D, sent, 0 - 1, got)
    BY <1>3, <1>4 DEF Combines
  <1>8. SumFunction(net) = SumFunction(sent) + (0 - 1) * SumFunction(got)
    BY <1>7, SumLinear
  <1>9. SumFunction(sent) \in Int /\ SumFunction(got) \in Int
    BY <1>3, <1>4, SumRemove
  <1>10. state.acct[a].balance \in Nat /\ PendingFor(a) \in Nat
    <2>1. state.acct[a].balance \in Nat
      BY <1>1 DEF LedgerState, Account
    <2>2. [m \in Heights |-> state.pending[m][a]] \in [Heights -> Nat]
      BY <1>1 DEF LedgerState
    <2>3. IsFiniteSet(Heights)
      BY <1>1, MoneyTypes
    <2> QED BY <2>1, <2>2, <2>3, SumNat DEF PendingFor
  <1> QED BY <1>5, <1>6, <1>8, <1>9, <1>10

\* The rewards listed for an address add up to what it earned, and those not
\* matured to what is pending for it.
THEOREM HistoryTrue == Spec => []HistoryAddsUp
  <1>1. HistoryInv => HistoryAddsUp
    <2> SUFFICES ASSUME HistoryInv, NEW a \in Addr
                 PROVE  /\ SumFunction([i \in 1..height |-> HistoricalReward(a, i)])
                             = MiningRewards(a)
                        /\ SumFunction([i \in {k \in 1..height : ~Matured(k)}
                                          |-> HistoricalReward(a, i)])
                             = PendingFor(a)
      BY DEF HistoryAddsUp
    <2> DEFINE c == IF height > Maturity THEN height - Maturity ELSE 0
               r == Rewarded(a)
               p == Maturing(r, c, height)
    <2>1. /\ TypeOK /\ state \in LedgerState /\ height \in Nat
          /\ height <= MaxHeight /\ Maturity \in Nat \ {0}
          /\ claims \in Seq(Claim) /\ Len(claims) = height
          /\ NoRewardLeftBehind /\ log \in Seq(Tx)
      BY LedgerAssumption DEF HistoryInv, MoneyInv, LedgerInv, TypeOK, Claim
    <2>2. /\ r \in [1..height -> Int]
          /\ \A i \in 1..height : r[i] = Reward(shares, claims, a, i)
          /\ \A i \in 1..height : r[i] = HistoricalReward(a, i)
      BY <2>1, RewardedType, ShortcutSound DEF Rewarded
    <2> HIDE DEF r
    <2>3. c \in Nat /\ c <= height
          /\ {k \in 1..height : ~Matured(k)} = (c + 1)..height
          /\ UpTo(r, height - Maturity) = UpTo(r, c)
      <3>1. c \in Nat /\ c <= height
        BY <2>1
      <3>2. {k \in 1..height : ~Matured(k)} = (c + 1)..height
        BY <2>1 DEF Matured
      <3>3. 1..(height - Maturity) = 1..c
        BY <2>1
      <3> HIDE DEF c
      <3> QED BY <3>1, <3>2, <3>3 DEF UpTo
    <2>4. /\ p \in [Heights -> Int]
          /\ SumFunction(p) = UpTo(r, height) - UpTo(r, c)
      <3> HIDE DEF c
      <3> QED BY <2>1, <2>2, <2>3, MaturingSum
    <2>5. PendingFor(a) = SumFunction(p)
      <3>1. \A m \in Heights : state.pending[m][a] = p[m]
        <4> SUFFICES ASSUME NEW m \in Heights
                     PROVE  state.pending[m][a] = p[m]
          OBVIOUS
        <4>0. m \in Nat
          BY <2>1, LedgerAssumption DEF Heights
        <4>1. p[m] = IF c < m - Maturity /\ m - Maturity <= height
                     THEN r[m - Maturity] ELSE 0
          BY DEF Maturing
        <4>2. CASE m > height
          <5>1. state.pending[m][a] = IF m - Maturity \in 1..height
                     THEN Reward(shares, claims, a, m - Maturity) ELSE 0
            BY <4>2 DEF HistoryInv, PendingIsReward
          <5>2. m - Maturity \in 1..height
                  <=> c < m - Maturity /\ m - Maturity <= height
            BY <2>1, <4>0, <4>2
          <5> HIDE DEF c, p
          <5> QED BY <2>2, <4>1, <5>1, <5>2
        <4>3. CASE ~(m > height)
          <5>1. state.pending[m][a] \in Nat
            BY <2>1 DEF LedgerState
          <5>2. ~(state.pending[m][a] > 0)
            BY <2>1, <4>0, <4>3 DEF NoRewardLeftBehind, PendingWithin
          <5>3. ~(c < m - Maturity)
            BY <2>1, <4>0, <4>3
          <5> HIDE DEF c, p
          <5> QED BY <4>1, <5>1, <5>2, <5>3
        <4> QED BY <4>2, <4>3
      <3>2. p = [m \in Heights |-> p[m]]
        BY DEF Maturing
      <3> HIDE DEF p
      <3> QED BY <3>1, <3>2 DEF PendingFor
    <2>6. /\ UpTo(r, height) \in Int /\ UpTo(r, c) \in Int
          /\ NetSent(log, a) \in Int
          /\ state.acct[a].balance + NetSent(log, a) = UpTo(r, c)
          /\ state.acct[a].balance \in Nat
      <3>1. height \in 0..height /\ c \in 0..height
        BY <2>1, <2>3
      <3>2. state.acct[a].balance + NetSent(log, a)
              = UpTo(r, height - Maturity)
        BY DEF HistoryInv, r
      <3>3. state.acct[a].balance \in Nat
        BY <2>1 DEF LedgerState, Account
      <3> HIDE DEF c
      <3> QED BY <2>1, <2>2, <2>3, <3>1, <3>2, <3>3, UpToSteps, NetSentSound
    <2>7. MiningRewards(a) = state.acct[a].balance + PendingFor(a)
                               + NetSent(log, a)
      BY <2>1, MiningRewardsSum
    <2>8. MiningRewards(a) = UpTo(r, height)
      <3> HIDE DEF c, p
      <3> QED BY <2>4, <2>5, <2>6, <2>7
    <2>9. SumFunction([i \in 1..height |-> HistoricalReward(a, i)])
            = UpTo(r, height)
      <3>1. [i \in 1..height |-> HistoricalReward(a, i)]
              = [i \in 1..height |-> r[i]]
        BY <2>2
      <3> QED BY <3>1 DEF UpTo
    <2>10. SumFunction([i \in {k \in 1..height : ~Matured(k)}
                          |-> HistoricalReward(a, i)])
             = UpTo(r, height) - UpTo(r, c)
      <3> HIDE DEF c
      <3>1. (c + 1)..height \subseteq 1..height
        BY <2>1, <2>3
      <3>2. [i \in {k \in 1..height : ~Matured(k)} |-> HistoricalReward(a, i)]
              = [i \in (c + 1)..height |-> r[i]]
        BY <2>2, <2>3, <3>1
      <3>3. SumFunction([i \in (c + 1)..height |-> r[i]])
              = UpTo(r, height) - UpTo(r, c)
        BY <2>1, <2>2, <2>3, RangeSum
      <3> QED BY <3>2, <3>3
    <2> HIDE DEF c, p
    <2> QED BY <2>4, <2>5, <2>8, <2>9, <2>10
  <1> QED BY <1>1, HistoryInvariant, PTL

-----------------------------------------------------------------------------
(* The Merkle root.                                                        *)

\* One step up the tree.
Up(x) == IF Len(x) > 1 THEN Parents(x) ELSE x

\* The hashes of the leaves.
Ground(leaves) == [i \in DOMAIN leaves |-> <<leaves[i]>>]

Climbs(first, g, n) == g = [k \in 0..n |-> IF k = 0 THEN first ELSE Up(g[k - 1])]

\* The recursion of merkle_root has a solution.
LEMMA ClimbsExist ==
  ASSUME NEW first, NEW n \in Nat
  PROVE  \E g : Climbs(first, g, n)
  <1> DEFINE Bad == {k \in Nat : ~\E g : Climbs(first, g, k)}
  <1> SUFFICES ASSUME Bad # {} PROVE FALSE
    OBVIOUS
  <1>1. PICK m \in Bad : \A j \in Bad : m <= j
    <2>1. Bad \in SUBSET Nat
      OBVIOUS
    <2> HIDE DEF Bad
    <2> QED BY <2>1, LeastNumber
  <1>2. m \in Nat /\ ~\E g : Climbs(first, g, m)
    BY <1>1
  <1>3. CASE m = 0
    <2> DEFINE g == [k \in 0..0 |-> first]
    <2>1. \A k \in 0..0 : k = 0
      OBVIOUS
    <2>2. Climbs(first, g, 0)
      BY <2>1 DEF Climbs
    <2> QED BY <1>2, <1>3, <2>2
  <1>4. CASE m # 0
    <2>1. m - 1 \in Nat /\ ~(m <= m - 1)
      BY <1>2, <1>4
    <2>2. PICK g : Climbs(first, g, m - 1)
      BY <1>1, <2>1
    <2> DEFINE next(k) == IF k = 0 THEN first ELSE Up(g[k - 1])
               h == [k \in 0..m |-> IF k \in 0..(m - 1) THEN g[k] ELSE next(k)]
    <2>3. \A k \in 0..(m - 1) : g[k] = next(k)
      BY <2>2 DEF Climbs
    <2>4. \A k \in 0..m : k # 0 => k - 1 \in 0..(m - 1) /\ k - 1 \in 0..m
      BY <2>1
    <2>5. \A k \in 0..m : h[k] = next(k)
      BY <2>3
    <2>6. \A k \in 0..m : k # 0 => h[k - 1] = g[k - 1]
      BY <2>4
    <2>7. h = [k \in 0..m |-> h[k]]
      OBVIOUS
    <2> HIDE DEF h
    <2>8. \A k \in 0..m : h[k] = IF k = 0 THEN first ELSE Up(h[k - 1])
      BY <2>5, <2>6
    <2>9. Climbs(first, h, m)
      BY <2>7, <2>8 DEF Climbs
    <2> QED BY <1>2, <2>9
  <1> QED BY <1>3, <1>4

\* The levels from the leaves to the root.
Levels(leaves) == CHOOSE g : Climbs(Ground(leaves), g, Len(leaves))

\* merkle_root climbs one level at a time.
LEMMA LevelsAre ==
  ASSUME NEW S, NEW leaves \in Seq(S)
  PROVE  /\ Levels(leaves)[0] = Ground(leaves)
         /\ \A k \in 1..Len(leaves) : Levels(leaves)[k] = Up(Levels(leaves)[k - 1])
         /\ MerkleRoot(leaves) = Levels(leaves)[Len(leaves)][1]
  <1> DEFINE n == Len(leaves)  g == Levels(leaves)
  <1>1. n \in Nat
    OBVIOUS
  <1>2. Climbs(Ground(leaves), g, n)
    BY <1>1, ClimbsExist DEF Levels
  <1>3. MerkleRoot(leaves) = g[n][1]
    BY DEF MerkleRoot, Levels, Climbs, Ground, Up
  <1> HIDE DEF g, n
  <1>4. \A k \in 0..n : g[k] = IF k = 0 THEN Ground(leaves) ELSE Up(g[k - 1])
    BY <1>2 DEF Climbs
  <1>5. g[0] = Ground(leaves)
    BY <1>1, <1>4
  <1>6. \A k \in 1..n : g[k] = Up(g[k - 1])
    BY <1>1, <1>4
  <1> QED BY <1>3, <1>5, <1>6 DEF g, n

\* A list without repetition.
Distinct(x) == \A i, j \in 1..Len(x) : x[i] = x[j] => i = j

\* The parents of a list without repetition have none either, and are fewer.
LEMMA ParentsDistinct ==
  ASSUME NEW V, NEW x \in Seq(V), Distinct(x), Len(x) > 1
  PROVE  /\ Parents(x) \in Seq(V \X V)
         /\ Len(Parents(x)) = (Len(x) + 1) \div 2
         /\ \A i \in 1..Len(Parents(x)) :
              /\ 2 * i - 1 \in 1..Len(x)
              /\ Parents(x)[i] =
                   <<x[2 * i - 1],
                     x[IF 2 * i > Len(x) THEN 2 * i - 1 ELSE 2 * i]>>
         /\ Distinct(Parents(x))
         /\ Len(Parents(x)) < Len(x) /\ Len(Parents(x)) >= 1
  <1> DEFINE n == Len(x)  m == (n + 1) \div 2  p == Parents(x)
             right(i) == IF 2 * i > n THEN 2 * i - 1 ELSE 2 * i
  <1>1. n \in Nat /\ n > 1 /\ x \in [1..n -> V]
    OBVIOUS
  <1>2. m \in Nat /\ m < n /\ m >= 1 /\ 2 * m >= n /\ 2 * m <= n + 1
    BY <1>1
  <1>3. p = [i \in 1..m |-> <<x[2 * i - 1], x[right(i)]>>]
    BY DEF Parents
  <1> HIDE DEF n, m, p
  <1>4. \A i \in 1..m : 2 * i - 1 \in 1..n /\ right(i) \in 1..n
    BY <1>1, <1>2
  <1>5. \A i \in 1..m : <<x[2 * i - 1], x[right(i)]>> \in V \X V
    BY <1>1, <1>4
  <1>6. p \in [1..m -> V \X V]
    BY <1>3, <1>5
  <1>7. p \in Seq(V \X V) /\ Len(p) = m
    BY <1>2, <1>6
  <1>8. \A i \in 1..m : p[i] = <<x[2 * i - 1], x[right(i)]>>
    BY <1>3
  <1>9. Distinct(p)
    <2> SUFFICES ASSUME NEW i \in 1..m, NEW j \in 1..m, p[i] = p[j] PROVE i = j
      BY <1>7 DEF Distinct
    <2>1. x[2 * i - 1] = x[2 * j - 1]
      BY <1>8
    <2>2. 2 * i - 1 = 2 * j - 1
      BY <1>4, <2>1 DEF Distinct, n
    <2> QED BY <1>2, <2>2
  <1> QED BY <1>2, <1>4, <1>7, <1>8, <1>9 DEF n, m, p

\* Only one list has these parents: were the last one of the other paired with
\* itself, the last two of this one would be the same.
LEMMA ParentsInjective ==
  ASSUME NEW V, NEW x \in Seq(V), Distinct(x), Len(x) > 1,
         NEW W, NEW y \in Seq(W), Distinct(y), Len(y) > 1,
         Parents(x) = Parents(y)
  PROVE  x = y
  <1> DEFINE n == Len(x)  k == Len(y)  p == Parents(x)  m == Len(p)
  <1>1. /\ n \in Nat /\ n > 1 /\ x \in [1..n -> V]
        /\ k \in Nat /\ k > 1 /\ y \in [1..k -> W]
    OBVIOUS
  <1>2. /\ m = (n + 1) \div 2
        /\ \A i \in 1..m : p[i] = <<x[2 * i - 1],
                                    x[IF 2 * i > n THEN 2 * i - 1 ELSE 2 * i]>>
    BY ParentsDistinct
  <1>3. /\ m = (k + 1) \div 2
        /\ \A i \in 1..m : p[i] = <<y[2 * i - 1],
                                    y[IF 2 * i > k THEN 2 * i - 1 ELSE 2 * i]>>
    BY ParentsDistinct
  <1>4. \A i, j \in 1..n : x[i] = x[j] => i = j
    BY DEF Distinct
  <1>5. \A i, j \in 1..k : y[i] = y[j] => i = j
    BY DEF Distinct
  <1> HIDE DEF n, k, p, m
  <1>6. m \in Nat /\ m >= 1 /\ (n = 2 * m \/ n = 2 * m - 1)
        /\ (k = 2 * m \/ k = 2 * m - 1)
    BY <1>1, <1>2, <1>3
  <1>7. ~(n = 2 * m /\ k = 2 * m - 1)
    <2> SUFFICES ASSUME n = 2 * m, k = 2 * m - 1 PROVE FALSE
      OBVIOUS
    <2>1. m \in 1..m /\ ~(2 * m > n) /\ 2 * m > k
      BY <1>6
    <2>2. p[m] = <<x[2 * m - 1], x[2 * m]>> /\ p[m] = <<y[2 * m - 1], y[2 * m - 1]>>
      BY <1>2, <1>3, <2>1
    <2>3. x[2 * m - 1] = x[2 * m]
      BY <2>2
    <2>4. 2 * m - 1 \in 1..n /\ 2 * m \in 1..n /\ 2 * m - 1 # 2 * m
      BY <1>6
    <2> QED BY <1>4, <2>3, <2>4
  <1>8. ~(k = 2 * m /\ n = 2 * m - 1)
    <2> SUFFICES ASSUME k = 2 * m, n = 2 * m - 1 PROVE FALSE
      OBVIOUS
    <2>1. m \in 1..m /\ ~(2 * m > k) /\ 2 * m > n
      BY <1>6
    <2>2. p[m] = <<y[2 * m - 1], y[2 * m]>> /\ p[m] = <<x[2 * m - 1], x[2 * m - 1]>>
      BY <1>2, <1>3, <2>1
    <2>3. y[2 * m - 1] = y[2 * m]
      BY <2>2
    <2>4. 2 * m - 1 \in 1..k /\ 2 * m \in 1..k /\ 2 * m - 1 # 2 * m
      BY <1>6
    <2> QED BY <1>5, <2>3, <2>4
  <1>9. n = k
    BY <1>6, <1>7, <1>8
  <1>10. ASSUME NEW i \in 1..n PROVE x[i] = y[i]
    <2>1. PICK j \in 1..m : i = 2 * j - 1 \/ i = 2 * j
      <3>1. (i + 1) \div 2 \in 1..m
            /\ (i = 2 * ((i + 1) \div 2) - 1 \/ i = 2 * ((i + 1) \div 2))
        BY <1>1, <1>6
      <3> QED BY <3>1
    <2>2. /\ p[j] = <<x[2 * j - 1], x[IF 2 * j > n THEN 2 * j - 1 ELSE 2 * j]>>
          /\ p[j] = <<y[2 * j - 1], y[IF 2 * j > n THEN 2 * j - 1 ELSE 2 * j]>>
      BY <1>2, <1>3, <1>9
    <2>3. x[2 * j - 1] = y[2 * j - 1]
      BY <2>2
    <2>4. ~(2 * j > n) => x[2 * j] = y[2 * j]
      BY <2>2
    <2>5. i = 2 * j => ~(2 * j > n)
      BY <1>1
    <2> QED BY <2>1, <2>3, <2>4, <2>5
  <1> QED BY <1>1, <1>9, <1>10

\* A level of a tree: a list of something, without repetition.
Proper(x) == Distinct(x) /\ Len(x) >= 1 /\ \E V : x \in Seq(V)

\* A round of merkle_root makes a level shorter until one hash is left.
LEMMA UpProper ==
  ASSUME NEW x, Proper(x)
  PROVE  /\ Proper(Up(x)) /\ Len(x) \in Nat /\ Len(Up(x)) \in Nat
         /\ Len(x) > 1 => Up(x) = Parents(x) /\ Len(Up(x)) < Len(x)
         /\ Len(x) = 1 => Up(x) = x
  <1>1. PICK V : x \in Seq(V)
    BY DEF Proper
  <1>2. Len(x) \in Nat /\ Len(x) >= 1
    BY <1>1 DEF Proper
  <1>3. CASE Len(x) > 1
    <2>1. /\ Parents(x) \in Seq(V \X V) /\ Distinct(Parents(x))
          /\ Len(Parents(x)) < Len(x) /\ Len(Parents(x)) >= 1
      BY <1>1, <1>3, ParentsDistinct DEF Proper
    <2>2. Len(Parents(x)) \in Nat
      BY <2>1
    <2>3. Up(x) = Parents(x) /\ Len(x) # 1
      BY <1>3 DEF Up
    <2>4. \E U : Parents(x) \in Seq(U)
      BY <2>1
    <2> QED BY <1>2, <2>1, <2>2, <2>3, <2>4 DEF Proper
  <1>4. CASE Len(x) = 1
    <2>1. Up(x) = x /\ ~(Len(x) > 1)
      BY <1>4 DEF Up
    <2> QED BY <1>2, <2>1
  <1>5. Len(x) > 1 \/ Len(x) = 1
    BY <1>2
  <1> QED BY <1>3, <1>4, <1>5, Zenon

\* The level of the root.
Top(leaves, d) ==
  /\ d \in 0..Len(leaves) /\ Len(Levels(leaves)[d]) = 1
  /\ Levels(leaves)[d][1] = MerkleRoot(leaves)
  /\ \A k \in 0..Len(leaves) : k < d => Len(Levels(leaves)[k]) > 1

\* As many rounds as there are leaves reach the root, and each level is proper.
LEMMA TopReached ==
  ASSUME NEW S, NEW leaves \in Seq(S), Distinct(leaves), Len(leaves) >= 1
  PROVE  /\ \A k \in 0..Len(leaves) : Proper(Levels(leaves)[k])
         /\ \E d : Top(leaves, d)
  <1> DEFINE n == Len(leaves)  g == Levels(leaves)
             Fine(k) == Proper(g[k]) /\ (Len(g[k]) = 1 \/ Len(g[k]) + k <= n)
             Bad == {k \in 0..n : ~Fine(k)}
  <1>1. n \in Nat /\ n >= 1 /\ leaves \in [1..n -> S]
    OBVIOUS
  <1>2. /\ g[0] = Ground(leaves) /\ \A k \in 1..n : g[k] = Up(g[k - 1])
        /\ MerkleRoot(leaves) = g[n][1]
    BY LevelsAre
  <1>3. Proper(Ground(leaves)) /\ Len(Ground(leaves)) = n
    <2> DEFINE x == Ground(leaves)  V == {<<s>> : s \in S}
    <2>1. x = [i \in 1..n |-> <<leaves[i]>>]
      BY <1>1 DEF Ground
    <2>2. \A i \in 1..n : <<leaves[i]>> \in V
      BY <1>1
    <2> HIDE DEF x, V, n
    <2>3. x \in [1..n -> V]
      BY <2>1, <2>2
    <2>4. x \in Seq(V) /\ Len(x) = n
      BY <1>1, <2>3
    <2>5. ASSUME NEW i \in 1..n, NEW j \in 1..n, x[i] = x[j] PROVE i = j
      <3>1. <<leaves[i]>> = <<leaves[j]>>
        BY <2>1, <2>5
      <3>2. leaves[i] = leaves[j]
        BY <3>1
      <3> QED BY <3>2 DEF Distinct, n
    <2>6. Distinct(x) /\ Len(x) >= 1 /\ \E U : x \in Seq(U)
      BY <1>1, <2>4, <2>5 DEF Distinct
    <2> QED BY <2>4, <2>6 DEF Proper, x
  <1> HIDE DEF n, g
  <1>4. Bad = {}
    <2> SUFFICES ASSUME Bad # {} PROVE FALSE
      OBVIOUS
    <2>1. PICK k \in Bad : \A j \in Bad : k <= j
      <3>1. Bad \in SUBSET Nat
        BY <1>1
      <3> HIDE DEF Bad
      <3> QED BY <3>1, LeastNumber
    <2>2. k \in 0..n /\ ~Fine(k)
      BY <2>1
    <2>3. k # 0
      <3>1. Fine(0)
        BY <1>1, <1>2, <1>3
      <3> QED BY <2>2, <3>1
    <2>4. k \in 1..n /\ k - 1 \in 0..n /\ ~(k <= k - 1)
      BY <1>1, <2>2, <2>3
    <2>5. Fine(k - 1)
      BY <2>1, <2>4
    <2>6. g[k] = Up(g[k - 1])
      BY <1>2, <2>4
    <2>7. /\ Proper(g[k]) /\ Len(g[k - 1]) \in Nat /\ Len(g[k]) \in Nat
          /\ Len(g[k - 1]) > 1 => Len(g[k]) < Len(g[k - 1])
          /\ Len(g[k - 1]) = 1 => g[k] = g[k - 1]
      BY <2>5, <2>6, UpProper
    <2>8. Len(g[k - 1]) >= 1
      BY <2>5 DEF Proper
    <2>9. Len(g[k]) = 1 \/ Len(g[k]) + k <= n
      <3>1. CASE Len(g[k - 1]) = 1
        BY <2>7, <3>1
      <3>2. CASE Len(g[k - 1]) # 1
        <4>1. PICK i, j : i = Len(g[k - 1]) /\ j = Len(g[k])
          OBVIOUS
        <4>2. /\ i \in Nat /\ j \in Nat /\ i >= 1 /\ i # 1
              /\ i > 1 => j < i
          BY <2>7, <2>8, <3>2, <4>1, Zenon
        <4>3. i + (k - 1) <= n
          BY <2>5, <3>2, <4>1, Zenon
        <4>4. j + k <= n
          BY <1>1, <2>4, <4>2, <4>3
        <4> QED BY <4>1, <4>4, Zenon
      <3> QED BY <3>1, <3>2
    <2> QED BY <2>2, <2>7, <2>9
  <1>5. \A k \in 0..n : Fine(k)
    BY <1>4
  <1>6. ASSUME NEW k \in 0..n PROVE Len(g[k]) \in Nat /\ Len(g[k]) >= 1
    BY <1>5, UpProper DEF Proper
  <1>7. n \in 0..n /\ Len(g[n]) = 1
    <2>1. n \in 0..n
      BY <1>1
    <2>2. Len(g[n]) \in Nat /\ Len(g[n]) >= 1 /\ Fine(n)
      BY <1>5, <1>6, <2>1
    <2> QED BY <1>1, <2>1, <2>2
  <1>8. PICK d \in 0..n : Len(g[d]) = 1 /\ \A k \in 0..n : k < d => Len(g[k]) > 1
    <2> DEFINE Ends == {k \in 0..n : Len(g[k]) = 1}
    <2>1. Ends \in SUBSET Nat /\ Ends # {}
      BY <1>1, <1>7
    <2>2. PICK d \in Ends : \A k \in Ends : d <= k
      <3> HIDE DEF Ends
      <3> QED BY <2>1, LeastNumber
    <2>3. ASSUME NEW k \in 0..n, k < d PROVE Len(g[k]) > 1
      <3>1. k \in Nat /\ d \in Nat
        BY <1>1, <2>2
      <3>2. Len(g[k]) # 1
        BY <2>2, <2>3, <3>1
      <3>3. PICK i : i = Len(g[k])
        OBVIOUS
      <3>4. i \in Nat /\ i >= 1 /\ i # 1
        BY <1>6, <3>2, <3>3
      <3>5. i > 1
        BY <3>4
      <3> QED BY <3>3, <3>5, Zenon
    <2> QED BY <2>2, <2>3
  <1>9. g[n] = g[d]
    <2> DEFINE Off == {k \in 0..n : d <= k /\ g[k] # g[d]}
    <2>1. Off = {}
      <3> SUFFICES ASSUME Off # {} PROVE FALSE
        OBVIOUS
      <3>1. PICK k \in Off : \A j \in Off : k <= j
        <4>1. Off \in SUBSET Nat
          BY <1>1
        <4> HIDE DEF Off
        <4> QED BY <4>1, LeastNumber
      <3>2. /\ k \in 1..n /\ k - 1 \in 0..n /\ ~(k <= k - 1) /\ d <= k - 1
            /\ g[k] # g[d]
        <4>1. k \in 0..n /\ d <= k /\ g[k] # g[d] /\ k # d
          BY <3>1
        <4> QED BY <1>1, <4>1
      <3>3. g[k - 1] = g[d]
        BY <3>1, <3>2
      <3>4. Len(g[k - 1]) = 1 /\ Proper(g[k - 1]) /\ g[k] = Up(g[k - 1])
        BY <1>2, <1>5, <1>8, <3>2, <3>3
      <3> QED BY <3>2, <3>3, <3>4, UpProper
    <2> QED BY <1>1, <1>7, <2>1
  <1>10. Top(leaves, d)
    BY <1>2, <1>8, <1>9 DEF Top, n, g
  <1> QED BY <1>5, <1>10 DEF n, g

\* Two trees with the same root are the same from the root down.
LEMMA SameRoot ==
  ASSUME NEW S, NEW a \in Seq(S), Distinct(a), Len(a) >= 1,
         NEW b \in Seq(S), Distinct(b), Len(b) >= 1,
         MerkleRoot(a) = MerkleRoot(b),
         NEW d, Top(a, d), NEW e, Top(b, e), d <= e
  PROVE  a = b
  <1> DEFINE n == Len(a)  m == Len(b)  g == Levels(a)  h == Levels(b)
             Bad == {k \in 0..d : g[d - k] # h[e - k]}
  <1>1. n \in Nat /\ m \in Nat /\ n >= 1 /\ m >= 1
        /\ a \in [1..n -> S] /\ b \in [1..m -> S]
    OBVIOUS
  <1>2. /\ d \in 0..n /\ Len(g[d]) = 1 /\ \A k \in 0..n : k < d => Len(g[k]) > 1
        /\ e \in 0..m /\ Len(h[e]) = 1 /\ \A k \in 0..m : k < e => Len(h[k]) > 1
        /\ g[d][1] = h[e][1]
    BY DEF Top
  <1>3. /\ \A k \in 0..n : Proper(g[k])
        /\ \A k \in 0..m : Proper(h[k])
    BY TopReached
  <1>4. /\ g[0] = Ground(a) /\ \A k \in 1..n : g[k] = Up(g[k - 1])
        /\ h[0] = Ground(b) /\ \A k \in 1..m : h[k] = Up(h[k - 1])
    BY LevelsAre
  <1> HIDE DEF n, m, g, h
  <1>5. g[d] = h[e]
    <2>1. PICK V : g[d] \in Seq(V)
      BY <1>2, <1>3 DEF Proper
    <2>2. PICK W : h[e] \in Seq(W)
      BY <1>2, <1>3 DEF Proper
    <2>3. g[d] = <<g[d][1]>> /\ h[e] = <<h[e][1]>>
      BY <1>2, <2>1, <2>2
    <2> QED BY <1>2, <2>3
  <1>6. Bad = {}
    <2> SUFFICES ASSUME Bad # {} PROVE FALSE
      OBVIOUS
    <2>1. PICK k \in Bad : \A j \in Bad : k <= j
      <3>1. Bad \in SUBSET Nat
        BY <1>1, <1>2
      <3> HIDE DEF Bad
      <3> QED BY <3>1, LeastNumber
    <2>2. k \in 0..d /\ g[d - k] # h[e - k]
      BY <2>1
    <2>3. k # 0
      <3>1. d - 0 = d /\ e - 0 = e
        BY <1>1, <1>2
      <3> QED BY <1>5, <2>2, <3>1
    <2> DEFINE i == d - k  j == e - k
    <2>4. /\ k - 1 \in 0..d /\ ~(k <= k - 1)
          /\ i \in 0..n /\ i < d /\ i + 1 \in 1..n /\ (i + 1) - 1 = i
          /\ d - (k - 1) = i + 1
          /\ j \in 0..m /\ j < e /\ j + 1 \in 1..m /\ (j + 1) - 1 = j
          /\ e - (k - 1) = j + 1
      BY <1>1, <1>2, <2>2, <2>3
    <2>5. g[d - (k - 1)] = h[e - (k - 1)]
      BY <2>1, <2>4
    <2> HIDE DEF i, j
    <2>6. /\ Proper(g[i]) /\ Len(g[i]) > 1 /\ g[i + 1] = Up(g[i])
          /\ Proper(h[j]) /\ Len(h[j]) > 1 /\ h[j + 1] = Up(h[j])
      BY <1>2, <1>3, <1>4, <2>4
    <2>7. Parents(g[i]) = Parents(h[j])
      BY <2>4, <2>5, <2>6, UpProper
    <2>8. PICK V : g[i] \in Seq(V)
      BY <2>6 DEF Proper
    <2>9. PICK W : h[j] \in Seq(W)
      BY <2>6 DEF Proper
    <2>10. g[i] = h[j]
      BY <2>6, <2>7, <2>8, <2>9, ParentsInjective DEF Proper
    <2> QED BY <2>2, <2>10 DEF i, j
  <1>7. g[0] = h[e - d]
    <2>1. d \in 0..d /\ d - d = 0
      BY <1>1, <1>2
    <2> QED BY <1>6, <2>1
  <1>8. CASE d = e
    <2>1. e - d = 0
      BY <1>1, <1>2, <1>8
    <2>2. Ground(a) = Ground(b)
      BY <1>4, <1>7, <2>1
    <2>3. /\ Ground(a) = [i \in 1..n |-> <<a[i]>>]
          /\ Ground(b) = [i \in 1..m |-> <<b[i]>>]
      BY <1>1 DEF Ground
    <2>4. 1..n = 1..m
      <3>1. DOMAIN Ground(a) = 1..n /\ DOMAIN Ground(b) = 1..m
        BY <2>3
      <3> QED BY <2>2, <3>1
    <2>5. ASSUME NEW i \in 1..n PROVE a[i] = b[i]
      <3>1. Ground(a)[i] = <<a[i]>> /\ Ground(b)[i] = <<b[i]>>
        BY <2>3, <2>4
      <3>2. <<a[i]>> = <<b[i]>>
        BY <2>2, <3>1
      <3> QED BY <3>2
    <2> QED BY <1>1, <2>4, <2>5
  <1>9. CASE d # e
    <2> DEFINE j == (e - d) - 1
    <2>1. j \in 0..m /\ j < e /\ j + 1 \in 1..m /\ (j + 1) - 1 = j /\ e - d = j + 1
      BY <1>1, <1>2, <1>9
    <2> HIDE DEF j
    <2>2. Proper(h[j]) /\ Len(h[j]) > 1 /\ h[j + 1] = Up(h[j])
      BY <1>2, <1>3, <1>4, <2>1
    <2>3. Ground(a) = Parents(h[j])
      BY <1>4, <1>7, <2>1, <2>2, UpProper
    <2>4. PICK V : h[j] \in Seq(V)
      BY <2>2 DEF Proper
    <2>5. Len(Parents(h[j])) >= 1
          /\ \A i \in 1..Len(Parents(h[j])) : \E u, v : Parents(h[j])[i] = <<u, v>>
      <3>1. /\ Len(Parents(h[j])) >= 1
            /\ \A i \in 1..Len(Parents(h[j])) : Parents(h[j])[i] =
                 <<h[j][2 * i - 1],
                   h[j][IF 2 * i > Len(h[j]) THEN 2 * i - 1 ELSE 2 * i]>>
        BY <2>2, <2>4, ParentsDistinct DEF Proper
      <3> QED BY <3>1
    <2>6. Len(Parents(h[j])) \in Nat
      BY <2>2, UpProper
    <2>7. PICK u, v : Parents(h[j])[1] = <<u, v>>
      BY <2>5, <2>6
    <2>8. Ground(a)[1] = <<a[1]>>
      BY <1>1 DEF Ground
    <2>9. <<a[1]>> = <<u, v>>
      BY <2>3, <2>7, <2>8
    <2>10. Len(<<a[1]>>) = 1 /\ Len(<<u, v>>) = 2
      OBVIOUS
    <2> QED BY <2>9, <2>10
  <1> QED BY <1>8, <1>9

\* RootInjective for every two lists, of any length: the root that a header
\* commits to is that of one list without a repetition only, although
\* merkle_root uses the last hash of an odd level twice.
THEOREM RootOfOneList ==
  ASSUME NEW S, NEW a \in Seq(S), a # <<>>, IsInjective(a),
         NEW b \in Seq(S), b # <<>>, IsInjective(b),
         MerkleRoot(a) = MerkleRoot(b)
  PROVE  a = b
  <1>1. ASSUME NEW x \in Seq(S), x # <<>>, IsInjective(x)
        PROVE  Distinct(x) /\ Len(x) >= 1
    <2>1. Len(x) \in Nat /\ DOMAIN x = 1..Len(x)
      OBVIOUS
    <2>2. Len(x) # 0
      BY <1>1
    <2> QED BY <1>1, <2>1, <2>2 DEF Distinct, IsInjective
  <1>2. Distinct(a) /\ Len(a) >= 1 /\ Distinct(b) /\ Len(b) >= 1
    BY <1>1
  <1>3. PICK d : Top(a, d)
    BY <1>2, TopReached
  <1>4. PICK e : Top(b, e)
    BY <1>2, TopReached
  <1>5. d \in Nat /\ e \in Nat
    <2>1. Len(a) \in Nat /\ Len(b) \in Nat
      OBVIOUS
    <2> QED BY <1>3, <1>4, <2>1 DEF Top
  <1>6. CASE d <= e
    BY <1>2, <1>3, <1>4, <1>6, SameRoot
  <1>7. CASE e <= d
    BY <1>2, <1>3, <1>4, <1>7, SameRoot
  <1> QED BY <1>5, <1>6, <1>7

-----------------------------------------------------------------------------
(* The calls of Arithmetic.                                                *)

\* Which call an input belongs to.
LEMMA CallIs ==
  ASSUME NEW i \in Inputs
  PROVE  /\ "subsidy" \in DOMAIN i =>
              /\ i.subsidy \in 0..MaxSubsidy /\ i.fees \in 0..MaxFees
              /\ i.w \in [Addr -> 0..MaxWeight]
              /\ DOMAIN i = {"w", "subsidy", "fees"}
         /\ "leaves" \in DOMAIN i =>
              /\ i.leaves \in Leaves
              /\ DOMAIN i = {"leaves"}
  BY DEF Inputs

\* A finished call of reward_allocation or merkle_root has its result.
AnswersTrue ==
  /\ asked \in Inputs
  /\ Allocated => answer = Allotment(asked)
  /\ Rooted => answer = [root |-> MerkleRoot(asked.leaves)]

LEMMA AnswersInvariant == ArithmeticSpec => []AnswersTrue
  <1>1. Unanswered => AnswersTrue
    BY DEF Unanswered, AnswersTrue, Allocated, Rooted
  <1>2. AnswersTrue /\ [Answer]_<<asked, answer>> => AnswersTrue'
    <2> SUFFICES ASSUME AnswersTrue, [Answer]_<<asked, answer>>
                 PROVE  AnswersTrue'
      OBVIOUS
    <2>1. asked \in Inputs /\ asked' = asked
      BY DEF AnswersTrue, Answer, Divide, Encode, Retarget, Deliver, Commit
    <2>2. CASE UNCHANGED <<asked, answer>>
      BY <2>2 DEF AnswersTrue, Allocated, Rooted
    <2>3. CASE Encode \/ Retarget \/ Deliver
      <3>1. "subsidy" \notin DOMAIN asked /\ "leaves" \notin DOMAIN asked
        BY <2>1, <2>3, CallIs DEF Encode, Retarget, Deliver
      <3> QED BY <2>1, <3>1 DEF AnswersTrue, Allocated, Rooted
    <2>4. CASE Divide
      <3>1. "leaves" \notin DOMAIN asked
        BY <2>1, <2>4, CallIs DEF Divide
      <3>2. answer' = Allotment(asked)
        BY <2>4 DEF Divide
      <3> QED BY <2>1, <3>1, <3>2 DEF AnswersTrue, Allocated, Rooted
    <2>5. CASE Commit
      <3>1. "subsidy" \notin DOMAIN asked
        BY <2>1, <2>5, CallIs DEF Commit
      <3>2. answer' = [root |-> MerkleRoot(asked.leaves)]
        BY <2>5 DEF Commit
      <3> QED BY <2>1, <3>1, <3>2 DEF AnswersTrue, Allocated, Rooted
    <2> QED BY <2>2, <2>3, <2>4, <2>5 DEF Answer
  <1> QED BY <1>1, <1>2, PTL DEF ArithmeticSpec

\* Proportional (rewards.rs): finder and workshares together receive subsidy
\* and fees, every miner its exact share rounded down or up, and more work is
\* never paid less.
THEOREM AllocationProportional == ArithmeticSpec => []Proportional
  <1>1. AnswersTrue => Proportional
    <2> SUFFICES ASSUME AnswersTrue, Allocated
                 PROVE  FairlyAllocated(asked.subsidy, asked.w, asked.fees, answer.finder, answer.shares)
      BY DEF Proportional
    <2>1. /\ MaxSubsidy \in Nat /\ MaxFees \in Nat /\ MaxWeight \in Nat
          /\ asked.subsidy \in 0..MaxSubsidy /\ asked.fees \in 0..MaxFees
          /\ asked.w \in [Addr -> 0..MaxWeight]
      BY CallIs, ArithmeticAssumption DEF AnswersTrue, Allocated
    <2>2. asked.subsidy \in Nat /\ asked.fees \in Nat /\ asked.w \in [Addr -> Nat]
      BY <2>1
    <2>3. answer = Allotment(asked)
      BY DEF AnswersTrue
    <2>4. /\ answer.finder = FinderAmount(asked.subsidy, asked.w, asked.fees)
          /\ answer.shares = WorkshareRewards(Pool(asked.subsidy), asked.w)
      BY <2>3 DEF Allotment
    <2> QED BY <2>2, <2>4, AllocationFair
  <1> QED BY <1>1, AnswersInvariant, PTL

\* A list of leaves is a list without a repetition, and not empty.
LEMMA LeavesAre ==
  ASSUME NEW s \in Leaves
  PROVE  s \in Seq(Nat) /\ s # <<>> /\ IsInjective(s)
  <1>1. PICK n \in 1..MaxLeaves : s \in [1..n -> 1..MaxLeaves] /\ IsInjective(s)
    BY DEF Leaves
  <1>2. MaxLeaves \in Nat /\ n \in Nat /\ n # 0
    BY <1>1, ArithmeticAssumption
  <1>3. \A i \in 1..n : s[i] \in Nat
    BY <1>1, <1>2
  <1>4. s \in Seq(Nat) /\ Len(s) = n
    BY <1>1, <1>2, <1>3
  <1> QED BY <1>1, <1>2, <1>4

\* RootInjective (types.rs): no other list that a block may have has the root
\* that its header commits to.
THEOREM RootsCommit == ArithmeticSpec => []RootInjective
  <1>1. AnswersTrue => RootInjective
    <2> SUFFICES ASSUME AnswersTrue, Rooted, NEW other \in Leaves,
                        MerkleRoot(other) = answer.root
                 PROVE  other = asked.leaves
      BY DEF RootInjective
    <2>1. PICK s \in Leaves : s = asked.leaves
      BY CallIs DEF AnswersTrue, Rooted
    <2>2. answer = [root |-> MerkleRoot(s)]
      BY <2>1 DEF AnswersTrue
    <2>3. MerkleRoot(other) = MerkleRoot(s)
      BY <2>2
    <2>4. /\ other \in Seq(Nat) /\ other # <<>> /\ IsInjective(other)
          /\ s \in Seq(Nat) /\ s # <<>> /\ IsInjective(s)
      BY LeavesAre
    <2> QED BY <2>1, <2>3, <2>4, RootOfOneList
  <1> QED BY <1>1, AnswersInvariant, PTL
=============================================================================
