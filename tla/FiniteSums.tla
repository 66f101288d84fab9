----------------------------- MODULE FiniteSums -----------------------------
(***************************************************************************)
(* Sums over finite sets, as the folds of the community modules compute    *)
(* them: what a sum gains when a term is added or changed, and how two     *)
(* sums compare.  Induction is on the size of the set, by the least        *)
(* element of a set of naturals.                                           *)
(***************************************************************************)
EXTENDS Integers, FiniteSets, Folds, FiniteSetTheorems, WellFoundedInduction, TLAPS

(* Induction over the naturals *)

LessThan == {p \in Nat \X Nat : p[1] < p[2]}

\* A set of naturals that is not empty has a least element.
LEMMA LeastElement ==
  ASSUME NEW B, B \subseteq Nat, B # {}
  PROVE  \E n \in B : \A m \in B : n <= m
<1>1. IsWellFoundedOn(LessThan, Nat)
  BY NatLessThanWellFounded DEF OpToRel, LessThan
<1>2. PICK n \in B : \A m \in B : <<m, n>> \notin LessThan
  BY <1>1, WFMin
<1>3. \A m \in B : m < n => <<m, n>> \in LessThan
  BY DEF LessThan
<1>4. ASSUME NEW m \in B PROVE n <= m
  <2>1. m \in Nat /\ n \in Nat /\ ~(m < n)
    BY <1>2, <1>3
  <2> QED
    BY <2>1
<1> QED
  BY <1>4

\* A set of naturals with 0 and every successor has them all.
LEMMA SetInduction ==
  ASSUME NEW B, B \subseteq Nat, 0 \in B, \A n \in B : n + 1 \in B
  PROVE  \A n \in Nat : n \in B
<1> SUFFICES ASSUME Nat \ B # {} PROVE FALSE
  OBVIOUS
<1>1. PICK n \in Nat \ B : \A m \in Nat \ B : n <= m
  BY LeastElement
<1>2. n # 0 /\ n - 1 \in Nat
  BY <1>1
<1>3. n - 1 \in B
  BY <1>1, <1>2
<1> QED
  BY <1>1, <1>2, <1>3

----------------------------------------------------------------------------
(* Finite sums *)

Pick(s) == CHOOSE x \in s : TRUE

\* The sum of f over S as the folds of the library compute it.
Total(f, S) == MapThenFoldSet(+, 0, LAMBDA x : f[x], LAMBDA s : CHOOSE x \in s : TRUE, S)

\* One term less.
Less(s) == s \ {Pick(s)}

\* One term less is a smaller set.
LEMMA LessIsSmaller ==
  ASSUME NEW s, IsFiniteSet(s), s # {}
  PROVE  /\ Pick(s) \in s /\ IsFiniteSet(Less(s))
         /\ Cardinality(s) \in Nat /\ Cardinality(Less(s)) = Cardinality(s) - 1
<1>1. Pick(s) \in s
  BY DEF Pick
<1> QED
  BY <1>1, FS_RemoveElement, FS_CardinalityType DEF Less

\* g is the sum of f over every subset of S.
Sums(g, f, S) ==
    /\ g \in [SUBSET S -> Int]
    /\ \A s \in SUBSET S : g[s] = IF s = {} THEN 0 ELSE f[Pick(s)] + g[Less(s)]

\* The recursion that defines a sum has a solution.
LEMMA SumsExist ==
  ASSUME NEW S, IsFiniteSet(S), NEW f, \A x \in S : f[x] \in Int
  PROVE  \E g : Sums(g, f, S)
<1> DEFINE UpTo(g, n) == \A s \in SUBSET S : Cardinality(s) <= n =>
                            g[s] = IF s = {} THEN 0 ELSE f[Pick(s)] + g[Less(s)]
           B == {n \in Nat : \E g \in [SUBSET S -> Int] : UpTo(g, n)}
<1>1. \A s \in SUBSET S : /\ IsFiniteSet(s) /\ Cardinality(s) \in Nat
                          /\ Cardinality(s) <= Cardinality(S)
                          /\ Cardinality(s) = 0 <=> s = {}
  BY FS_Subset, FS_CardinalityType, FS_EmptySet
<1>2. \A s \in SUBSET S : s # {} =>
        Pick(s) \in S /\ Less(s) \in SUBSET S /\ Cardinality(Less(s)) = Cardinality(s) - 1
  <2> SUFFICES ASSUME NEW s \in SUBSET S, s # {}
               PROVE  Pick(s) \in S /\ Less(s) \in SUBSET S
                      /\ Cardinality(Less(s)) = Cardinality(s) - 1
    OBVIOUS
  <2>1. Less(s) \in SUBSET S
    BY DEF Less
  <2> QED
    BY <1>1, <2>1, LessIsSmaller
<1>3. 0 \in B
  <2>1. [s \in SUBSET S |-> 0] \in [SUBSET S -> Int]
    OBVIOUS
  <2>2. UpTo([s \in SUBSET S |-> 0], 0)
    BY <1>1
  <2> QED
    BY <2>1, <2>2
<1>4. ASSUME NEW n \in B PROVE n + 1 \in B
  <2>1. PICK g \in [SUBSET S -> Int] : UpTo(g, n)
    BY <1>4
  <2> DEFINE h == [s \in SUBSET S |-> IF s = {} THEN 0 ELSE f[Pick(s)] + g[Less(s)]]
  <2>2. h \in [SUBSET S -> Int]
    BY <1>2
  <2>3. \A s \in SUBSET S : Cardinality(s) <= n => h[s] = g[s]
    BY <2>1
  <2>4. ASSUME NEW s \in SUBSET S, Cardinality(s) <= n + 1, s # {}
        PROVE  h[s] = f[Pick(s)] + h[Less(s)]
    <3>1. Less(s) \in SUBSET S /\ Cardinality(Less(s)) <= n
      BY <1>1, <1>2, <2>4
    <3>2. h[Less(s)] = g[Less(s)]
      BY <2>3, <3>1
    <3>3. h[s] = f[Pick(s)] + g[Less(s)]
      BY <2>4
    <3> HIDE DEF h
    <3> QED
      BY <3>2, <3>3
  <2>5. UpTo(h, n + 1)
    <3>1. {} \in SUBSET S => h[{}] = 0
      OBVIOUS
    <3> HIDE DEF h
    <3> QED
      BY <2>4, <3>1
  <2>6. n + 1 \in Nat
    OBVIOUS
  <2> HIDE DEF h, UpTo
  <2>7. \E k \in [SUBSET S -> Int] : UpTo(k, n + 1)
    <3> WITNESS h \in [SUBSET S -> Int]
    <3> QED
      BY <2>2, <2>5
  <2> QED
    BY <2>6, <2>7
<1>5. Cardinality(S) \in B
  <2>1. B \subseteq Nat
    OBVIOUS
  <2>2. Cardinality(S) \in Nat
    BY FS_CardinalityType
  <2> HIDE DEF B
  <2> QED
    BY <1>3, <1>4, <2>1, <2>2, SetInduction
<1>6. PICK g \in [SUBSET S -> Int] : UpTo(g, Cardinality(S))
  BY <1>5
<1>7. Sums(g, f, S)
  BY <1>1, <1>6 DEF Sums
<1> QED
  BY <1>7

\* The fold computes it.
LEMMA TotalIsSum ==
  ASSUME NEW S, IsFiniteSet(S), NEW f, \A x \in S : f[x] \in Int
  PROVE  \E g : Sums(g, f, S) /\ Total(f, S) = g[S]
<1> DEFINE Step(g) == [s \in SUBSET S |-> IF s = {} THEN 0 ELSE f[Pick(s)] + g[Less(s)]]
           iter == CHOOSE g : g = Step(g)
<1>1. Total(f, S) = iter[S]
  BY DEF Total, MapThenFoldSet, Pick, Less
<1>2. \E g : g = Step(g)
  <2>1. PICK g : Sums(g, f, S)
    BY SumsExist
  <2>2. g = Step(g)
    BY <2>1 DEF Sums
  <2> QED
    BY <2>2
<1>3. iter = Step(iter)
  BY <1>2
<1> HIDE DEF iter
<1> DEFINE C == {n \in Nat : \A s \in SUBSET S : Cardinality(s) = n => iter[s] \in Int}
<1>4. \A s \in SUBSET S : IsFiniteSet(s) /\ Cardinality(s) \in Nat /\ (Cardinality(s) = 0 <=> s = {})
  BY FS_Subset, FS_CardinalityType, FS_EmptySet
<1>5. 0 \in C
  BY <1>3, <1>4
<1>6. ASSUME NEW n \in C PROVE n + 1 \in C
  <2> SUFFICES ASSUME NEW s \in SUBSET S, Cardinality(s) = n + 1 PROVE iter[s] \in Int
    OBVIOUS
  <2>1. s # {} /\ n \in Nat
    BY <1>4
  <2>2. Less(s) \in SUBSET S /\ Pick(s) \in S /\ Cardinality(Less(s)) = n
    BY <1>4, <2>1, LessIsSmaller DEF Less
  <2>3. iter[Less(s)] \in Int /\ f[Pick(s)] \in Int
    BY <2>2
  <2>4. iter[s] = f[Pick(s)] + iter[Less(s)]
    BY <1>3, <2>1
  <2> QED
    BY <2>3, <2>4
<1>7. \A n \in Nat : n \in C
  <2>1. C \subseteq Nat
    OBVIOUS
  <2> HIDE DEF C
  <2> QED
    BY <1>5, <1>6, <2>1, SetInduction
<1>8. \A s \in SUBSET S : iter[s] \in Int
  BY <1>4, <1>7
<1>9. Sums(iter, f, S)
  BY <1>3, <1>8 DEF Sums
<1> QED
  BY <1>1, <1>9

\* Any term may be the first to be added.
LEMMA AnyTermFirst ==
  ASSUME NEW S, IsFiniteSet(S), NEW f, \A x \in S : f[x] \in Int, NEW g, Sums(g, f, S)
  PROVE  \A y \in S : g[S] = f[y] + g[S \ {y}]
<1> DEFINE AnyFirst(s) == \A y \in s : g[s] = f[y] + g[s \ {y}]
           C == {n \in Nat : \A s \in SUBSET S : Cardinality(s) = n => AnyFirst(s)}
<1>1. \A s \in SUBSET S : /\ IsFiniteSet(s) /\ Cardinality(s) \in Nat
                          /\ Cardinality(s) = 0 <=> s = {}
                          /\ g[s] \in Int
  BY FS_Subset, FS_CardinalityType, FS_EmptySet DEF Sums
<1>2. 0 \in C
  <2>1. \A s \in SUBSET S : Cardinality(s) = 0 => AnyFirst(s)
    BY <1>1
  <2> QED
    BY <2>1
<1>3. ASSUME NEW n \in C PROVE n + 1 \in C
  <2> SUFFICES ASSUME NEW s \in SUBSET S, Cardinality(s) = n + 1, NEW y \in s
               PROVE  g[s] = f[y] + g[s \ {y}]
    OBVIOUS
  <2> DEFINE p == Pick(s)
             both == s \ {p, y}
  <2>1. p \in s /\ Less(s) = s \ {p} /\ g[s] = f[p] + g[s \ {p}]
    BY DEF Pick, Less, Sums
  <2>2. CASE y = p
    BY <2>1, <2>2
  <2>3. CASE y # p
    <3>1. ASSUME NEW x \in s PROVE s \ {x} \in SUBSET S /\ Cardinality(s \ {x}) = n
      <4>1. IsFiniteSet(s) /\ n \in Nat
        BY <1>1
      <4>2. Cardinality(s \ {x}) = Cardinality(s) - 1
        BY <4>1, FS_RemoveElement
      <4> QED
        BY <4>1, <4>2
    <3>2. AnyFirst(s \ {p}) /\ AnyFirst(s \ {y})
      BY <2>1, <3>1
    <3>3. (s \ {p}) \ {y} = both /\ (s \ {y}) \ {p} = both /\ both \in SUBSET S
      OBVIOUS
    <3>4. g[s \ {p}] = f[y] + g[both]
      BY <2>3, <3>2, <3>3
    <3>5. g[s \ {y}] = f[p] + g[both]
      BY <2>1, <2>3, <3>2, <3>3
    <3>6. f[p] \in Int /\ f[y] \in Int /\ g[both] \in Int
      BY <1>1, <2>1, <3>3
    <3> HIDE DEF p, both
    <3> QED
      BY <2>1, <3>4, <3>5, <3>6
  <2> QED
    BY <2>2, <2>3
<1>4. \A n \in Nat : n \in C
  <2>1. C \subseteq Nat
    OBVIOUS
  <2> HIDE DEF C
  <2> QED
    BY <1>2, <1>3, <2>1, SetInduction
<1>5. AnyFirst(S)
  BY <1>1, <1>4
<1> QED
  BY <1>5

\* The sum of no terms is 0, and any term can be taken out of a sum.
LEMMA TotalWithout ==
  ASSUME NEW S, IsFiniteSet(S), NEW f, \A x \in S : f[x] \in Int
  PROVE  /\ Total(f, S) \in Int
         /\ S = {} => Total(f, S) = 0
         /\ \A y \in S : Total(f, S) = f[y] + Total(f, S \ {y})
<1>1. PICK g : Sums(g, f, S) /\ Total(f, S) = g[S]
  BY TotalIsSum
<1>2. g[S] \in Int /\ (S = {} => g[S] = 0)
  BY <1>1 DEF Sums
<1>3. \A y \in S : g[S] = f[y] + g[S \ {y}]
  <2>1. Sums(g, f, S)
    BY <1>1
  <2> QED
    BY <2>1, AnyTermFirst
<1>4. ASSUME NEW y \in S PROVE g[S] = f[y] + Total(f, S \ {y})
  <2> DEFINE R == S \ {y}
  <2>1. IsFiniteSet(R) /\ \A x \in R : f[x] \in Int
    BY FS_Subset
  <2>2. PICK k : Sums(k, f, R) /\ Total(f, R) = k[R]
    BY <2>1, TotalIsSum
  <2> DEFINE C == {n \in Nat : \A s \in SUBSET R : Cardinality(s) = n => k[s] = g[s]}
  <2>3. \A s \in SUBSET R : /\ IsFiniteSet(s) /\ Cardinality(s) \in Nat
                            /\ Cardinality(s) = 0 <=> s = {}
    BY <2>1, FS_Subset, FS_CardinalityType, FS_EmptySet
  <2>4. \A s \in SUBSET R : /\ k[s] = IF s = {} THEN 0 ELSE f[Pick(s)] + k[Less(s)]
                            /\ g[s] = IF s = {} THEN 0 ELSE f[Pick(s)] + g[Less(s)]
    BY <1>1, <2>2 DEF Sums
  <2>5. 0 \in C
    <3>1. \A s \in SUBSET R : Cardinality(s) = 0 => k[s] = g[s]
      BY <2>3, <2>4
    <3> QED
      BY <3>1
  <2>6. ASSUME NEW n \in C PROVE n + 1 \in C
    <3> SUFFICES ASSUME NEW s \in SUBSET R, Cardinality(s) = n + 1 PROVE k[s] = g[s]
      OBVIOUS
    <3>1. s # {} /\ n \in Nat
      BY <2>3
    <3>2. Less(s) \in SUBSET R /\ Cardinality(Less(s)) = n
      BY <2>3, <3>1, LessIsSmaller DEF Less
    <3> QED
      BY <2>4, <3>1, <3>2
  <2>7. \A n \in Nat : n \in C
    <3>1. C \subseteq Nat
      OBVIOUS
    <3> HIDE DEF C
    <3> QED
      BY <2>5, <2>6, <3>1, SetInduction
  <2>8. k[R] = g[R]
    BY <2>3, <2>7
  <2>10. Total(f, R) = g[R]
    BY <2>2, <2>8
  <2> QED
    BY <1>3, <2>10
<1> QED
  BY <1>1, <1>2, <1>4

\* A sum of no smaller terms is no smaller.
LEMMA TotalGrows ==
  ASSUME NEW S, IsFiniteSet(S), NEW f, NEW h,
         \A x \in S : f[x] \in Int /\ h[x] \in Int /\ f[x] <= h[x]
  PROVE  Total(f, S) <= Total(h, S)
<1> DEFINE C == {n \in Nat : \A s \in SUBSET S :
                                Cardinality(s) = n => Total(f, s) <= Total(h, s)}
<1>1. \A s \in SUBSET S : /\ IsFiniteSet(s) /\ Cardinality(s) \in Nat
                          /\ Cardinality(s) = 0 <=> s = {}
  BY FS_Subset, FS_CardinalityType, FS_EmptySet
<1>2. \A s \in SUBSET S :
         /\ Total(f, s) \in Int /\ Total(h, s) \in Int
         /\ s = {} => Total(f, s) = 0 /\ Total(h, s) = 0
         /\ \A y \in s : /\ Total(f, s) = f[y] + Total(f, s \ {y})
                         /\ Total(h, s) = h[y] + Total(h, s \ {y})
  <2> SUFFICES ASSUME NEW s \in SUBSET S
               PROVE  /\ Total(f, s) \in Int /\ Total(h, s) \in Int
                      /\ s = {} => Total(f, s) = 0 /\ Total(h, s) = 0
                      /\ \A y \in s : /\ Total(f, s) = f[y] + Total(f, s \ {y})
                                      /\ Total(h, s) = h[y] + Total(h, s \ {y})
    OBVIOUS
  <2>1. IsFiniteSet(s) /\ (\A x \in s : f[x] \in Int) /\ (\A x \in s : h[x] \in Int)
    BY <1>1
  <2> QED
    BY <2>1, TotalWithout
<1>3. 0 \in C
  <2>1. \A s \in SUBSET S : Cardinality(s) = 0 => Total(f, s) <= Total(h, s)
    <3> SUFFICES ASSUME NEW s \in SUBSET S, Cardinality(s) = 0
                 PROVE  Total(f, s) <= Total(h, s)
      OBVIOUS
    <3>1. Total(f, s) = 0 /\ Total(h, s) = 0
      BY <1>1, <1>2
    <3> QED
      BY <3>1
  <2> QED
    BY <2>1
<1>4. ASSUME NEW n \in C PROVE n + 1 \in C
  <2> SUFFICES ASSUME NEW s \in SUBSET S, Cardinality(s) = n + 1
               PROVE  Total(f, s) <= Total(h, s)
    OBVIOUS
  <2>1. PICK y \in s : TRUE
    BY <1>1
  <2> DEFINE r == s \ {y}
  <2>2. r \in SUBSET S /\ Cardinality(r) = n
    <3>1. IsFiniteSet(s) /\ n \in Nat
      BY <1>1
    <3>2. Cardinality(r) = Cardinality(s) - 1
      BY <3>1, FS_RemoveElement
    <3> QED
      BY <3>1, <3>2
  <2>3. Total(f, r) <= Total(h, r) /\ Total(f, r) \in Int /\ Total(h, r) \in Int
    BY <1>2, <2>2
  <2>4. Total(f, s) = f[y] + Total(f, r) /\ Total(h, s) = h[y] + Total(h, r)
    BY <1>2
  <2>5. f[y] \in Int /\ h[y] \in Int /\ f[y] <= h[y]
    OBVIOUS
  <2> HIDE DEF r
  <2> QED
    BY <2>3, <2>4, <2>5
<1>5. \A n \in Nat : n \in C
  <2>1. C \subseteq Nat
    OBVIOUS
  <2> HIDE DEF C
  <2> QED
    BY <1>3, <1>4, <2>1, SetInduction
<1> QED
  BY <1>1, <1>5

\* Sums of the same terms are the same.
LEMMA TotalSame ==
  ASSUME NEW S, IsFiniteSet(S), NEW f, NEW h,
         \A x \in S : f[x] \in Int /\ h[x] = f[x]
  PROVE  Total(h, S) = Total(f, S)
<1>1. \A x \in S : f[x] \in Int /\ h[x] \in Int /\ f[x] <= h[x] /\ h[x] <= f[x]
  OBVIOUS
<1>2. Total(f, S) \in Int /\ Total(h, S) \in Int
  BY <1>1, TotalWithout
<1>3. Total(f, S) <= Total(h, S)
  BY <1>1, TotalGrows
<1>4. Total(h, S) <= Total(f, S)
  BY <1>1, TotalGrows
<1> QED
  BY <1>2, <1>3, <1>4

\* When one term changes the sum changes by as much.
LEMMA TotalChange ==
  ASSUME NEW S, IsFiniteSet(S), NEW f, NEW h, NEW t \in S,
         \A x \in S : f[x] \in Int /\ h[x] \in Int,
         \A x \in S \ {t} : h[x] = f[x]
  PROVE  Total(h, S) = Total(f, S) + (h[t] - f[t])
<1> DEFINE R == S \ {t}
<1>1. Total(f, S) = f[t] + Total(f, R) /\ Total(h, S) = h[t] + Total(h, R)
  BY TotalWithout
<1>2. IsFiniteSet(R) /\ \A x \in R : f[x] \in Int /\ h[x] = f[x]
  BY FS_Subset
<1> HIDE DEF R
<1>3. Total(f, R) \in Int /\ Total(h, R) = Total(f, R)
  BY <1>2, TotalSame, TotalWithout
<1> QED
  BY <1>1, <1>3

\* A sum of zeros is zero.
LEMMA TotalOfZeros ==
  ASSUME NEW S, IsFiniteSet(S), NEW f, \A x \in S : f[x] = 0
  PROVE  Total(f, S) = 0
<1> DEFINE C == {n \in Nat : \A s \in SUBSET S : Cardinality(s) = n => Total(f, s) = 0}
<1>1. \A s \in SUBSET S : /\ IsFiniteSet(s) /\ Cardinality(s) \in Nat
                          /\ Cardinality(s) = 0 <=> s = {}
  BY FS_Subset, FS_CardinalityType, FS_EmptySet
<1>2. ASSUME NEW s \in SUBSET S
      PROVE  s = {} => Total(f, s) = 0
  BY <1>1, TotalWithout
<1>3. ASSUME NEW s \in SUBSET S, NEW y \in s
      PROVE  Total(f, s) = 0 + Total(f, s \ {y}) /\ Total(f, s) \in Int
                /\ Total(f, s \ {y}) \in Int
  <2>1. IsFiniteSet(s) /\ IsFiniteSet(s \ {y}) /\ (\A x \in s : f[x] \in Int)
    BY <1>1
  <2> QED
    BY <2>1, TotalWithout
<1>4. 0 \in C
  BY <1>1, <1>2
<1>5. ASSUME NEW n \in C PROVE n + 1 \in C
  <2> SUFFICES ASSUME NEW s \in SUBSET S, Cardinality(s) = n + 1 PROVE Total(f, s) = 0
    OBVIOUS
  <2>1. PICK y \in s : TRUE
    BY <1>1
  <2>2. IsFiniteSet(s) /\ n \in Nat
    BY <1>1
  <2>3. Cardinality(s \ {y}) = n
    <3>1. Cardinality(s \ {y}) = Cardinality(s) - 1
      BY <2>2, FS_RemoveElement
    <3> QED
      BY <2>2, <3>1
  <2>4. Total(f, s \ {y}) = 0
    BY <2>3
  <2> QED
    BY <1>3, <2>4
<1>6. \A n \in Nat : n \in C
  <2>1. C \subseteq Nat
    OBVIOUS
  <2> HIDE DEF C
  <2> QED
    BY <1>4, <1>5, <2>1, SetInduction
<1> QED
  BY <1>1, <1>6

\* The sum over two disjoint sets is the sum of the sums.
LEMMA TotalOfBoth ==
  ASSUME NEW A, NEW B, IsFiniteSet(A), IsFiniteSet(B), A \cap B = {},
         NEW f, \A x \in A \cup B : f[x] \in Int
  PROVE  Total(f, A \cup B) = Total(f, A) + Total(f, B)
<1> DEFINE Adds(b) == Total(f, A \cup b) = Total(f, A) + Total(f, b)
           C == {n \in Nat : \A b \in SUBSET B : Cardinality(b) = n => Adds(b)}
<1>1. \A b \in SUBSET B : /\ IsFiniteSet(b) /\ Cardinality(b) \in Nat
                          /\ Cardinality(b) = 0 <=> b = {}
                          /\ IsFiniteSet(A \cup b)
  BY FS_Subset, FS_CardinalityType, FS_EmptySet, FS_Union
<1>2. ASSUME NEW b \in SUBSET B
      PROVE  /\ Total(f, A) \in Int /\ Total(f, b) \in Int
             /\ b = {} => Total(f, b) = 0
             /\ \A y \in b : /\ Total(f, b) = f[y] + Total(f, b \ {y})
                             /\ Total(f, A \cup b) = f[y] + Total(f, A \cup (b \ {y}))
  <2>1. /\ IsFiniteSet(b) /\ IsFiniteSet(A \cup b)
        /\ (\A x \in b : f[x] \in Int) /\ (\A x \in A \cup b : f[x] \in Int)
    BY <1>1
  <2>2. /\ Total(f, b) \in Int
        /\ b = {} => Total(f, b) = 0
        /\ \A y \in b : Total(f, b) = f[y] + Total(f, b \ {y})
    BY <2>1, TotalWithout
  <2>3. \A y \in A \cup b : Total(f, A \cup b) = f[y] + Total(f, (A \cup b) \ {y})
    BY <2>1, TotalWithout
  <2>4. \A y \in b : (A \cup b) \ {y} = A \cup (b \ {y})
    OBVIOUS
  <2>5. Total(f, A) \in Int
    BY TotalWithout
  <2> QED
    BY <2>2, <2>3, <2>4, <2>5
<1>3. 0 \in C
  <2>1. ASSUME NEW b \in SUBSET B, Cardinality(b) = 0 PROVE Adds(b)
    <3>1. b = {} /\ A \cup b = A
      BY <1>1, <2>1
    <3> QED
      BY <1>2, <3>1
  <2> QED
    BY <2>1
<1>4. ASSUME NEW n \in C PROVE n + 1 \in C
  <2> SUFFICES ASSUME NEW b \in SUBSET B, Cardinality(b) = n + 1 PROVE Adds(b)
    OBVIOUS
  <2>1. PICK y \in b : TRUE
    BY <1>1
  <2> DEFINE r == b \ {y}
  <2>2. r \in SUBSET B /\ Cardinality(r) = n
    <3>1. IsFiniteSet(b) /\ n \in Nat
      BY <1>1
    <3>2. Cardinality(r) = Cardinality(b) - 1
      BY <3>1, FS_RemoveElement
    <3> QED
      BY <3>1, <3>2
  <2>3. Total(f, A \cup r) = Total(f, A) + Total(f, r)
    BY <2>2
  <2>4. Total(f, A) \in Int /\ Total(f, r) \in Int /\ f[y] \in Int
    BY <1>2, <2>2
  <2>5. Total(f, b) = f[y] + Total(f, r) /\ Total(f, A \cup b) = f[y] + Total(f, A \cup r)
    BY <1>2
  <2> HIDE DEF r
  <2> QED
    BY <2>3, <2>4, <2>5
<1>5. \A n \in Nat : n \in C
  <2>1. C \subseteq Nat
    OBVIOUS
  <2> HIDE DEF C
  <2> QED
    BY <1>3, <1>4, <2>1, SetInduction
<1>6. Adds(B)
  BY <1>1, <1>5
<1> QED
  BY <1>6

\* More terms that are no less than zero make no smaller a sum.
LEMMA TotalOfMore ==
  ASSUME NEW A, NEW B, IsFiniteSet(B), A \subseteq B, NEW f, \A x \in B : f[x] \in Nat
  PROVE  Total(f, A) \in Nat /\ Total(f, B) \in Nat /\ Total(f, A) <= Total(f, B)
<1> DEFINE Zero == [x \in B |-> 0]
           R == B \ A
<1>1. IsFiniteSet(A) /\ IsFiniteSet(R) /\ A \cap R = {} /\ A \cup R = B
  BY FS_Subset
<1>2. ASSUME NEW s \in SUBSET B PROVE Total(f, s) \in Nat
  <2>1. IsFiniteSet(s) /\ \A x \in s : f[x] \in Int /\ Zero[x] \in Int /\ Zero[x] <= f[x]
                                       /\ Zero[x] = 0
    BY FS_Subset
  <2> HIDE DEF Zero
  <2>2. Total(Zero, s) = 0 /\ Total(Zero, s) <= Total(f, s)
    BY <2>1, TotalGrows, TotalOfZeros
  <2>3. Total(f, s) \in Int
    BY <2>1, TotalWithout
  <2> QED
    BY <2>2, <2>3
<1>3. Total(f, B) = Total(f, A) + Total(f, R)
  BY <1>1, TotalOfBoth
<1> HIDE DEF R
<1>4. Total(f, A) \in Nat /\ Total(f, B) \in Nat /\ Total(f, R) \in Nat
  BY <1>1, <1>2
<1> QED
  BY <1>3, <1>4
=============================================================================
