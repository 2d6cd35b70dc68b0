------------------------------ MODULE FoldLemmas -----------------------------
(***************************************************************************)
(* Induction and sums.  The library's induction theorems take a predicate  *)
(* as a parameter, which the provers cannot instantiate; here they are     *)
(* about a set.  That Nat has induction follows from the fact that no      *)
(* finite set is mapped injectively into a proper part of itself.  From    *)
(* induction over the subsets of a finite set come the laws of             *)
(* SumFunctionOnSet.                                                       *)
(***************************************************************************)
EXTENDS SequencesExt, Integers, FiniteSetTheorems, TLAPS

(* Induction, for a set of numbers.                                          *)
LEMMA SetInduction ==
    ASSUME NEW A, 0 \in A, \A n \in Nat : n \in A => n + 1 \in A
    PROVE  Nat \subseteq A
<1> SUFFICES ASSUME NEW n \in Nat, n \notin A PROVE FALSE
  OBVIOUS
<1> DEFINE T == {m \in 0..n : m \in A}
           f == [m \in T |-> m + 1]
<1>1. IsFiniteSet(T)
  <2>1. IsFiniteSet(0..n) /\ T \in SUBSET (0..n)
    BY FS_Interval
  <2> QED
    BY <2>1, FS_Subset
<1>2. f \in Injection(T, T)
  BY DEF Injection, IsInjective
<1>3. f \in Surjection(T, T)
  BY <1>1, <1>2, FS_Injection
<1>4. 0 \in T
  OBVIOUS
<1>5. PICK m \in T : f[m] = 0
  BY <1>3, <1>4 DEF Surjection
<1> QED
  BY <1>5

(* Induction over the subsets of a finite set.                               *)
Hereditary(A, S) == \A T \in SUBSET S : (\A x \in T : T \ {x} \in A) => T \in A

LEMMA SubsetInduction ==
    ASSUME NEW S, IsFiniteSet(S), NEW A, Hereditary(A, S)
    PROVE  \A T \in SUBSET S : T \in A
<1>0. \A T \in SUBSET S : (\A x \in T : T \ {x} \in A) => T \in A
  BY DEF Hereditary
<1>5. {} \in A
  BY <1>0
<1> DEFINE N == {n \in Nat : \A T \in SUBSET S : Cardinality(T) = n => T \in A}
<1>1. \A T \in SUBSET S : IsFiniteSet(T) /\ Cardinality(T) \in Nat
  BY FS_Subset, FS_CardinalityType
<1>2. 0 \in N
  BY <1>1, <1>5, FS_EmptySet
<1>3. ASSUME NEW n \in Nat, n \in N
      PROVE  n + 1 \in N
  <2> SUFFICES ASSUME NEW T \in SUBSET S, Cardinality(T) = n + 1
               PROVE  T \in A
    BY <1>3
  <2>1. T # {}
    <3>1. Cardinality({}) = 0
      BY FS_EmptySet
    <3> QED
      BY <3>1
  <2>2. ASSUME NEW x \in T
        PROVE  T \ {x} \in SUBSET S /\ Cardinality(T \ {x}) = n
    <3>1. Cardinality(T \ {x}) = Cardinality(T) - 1
      BY <1>1, FS_RemoveElement
    <3> QED
      BY <3>1
  <2>3. \A x \in T : T \ {x} \in A
    BY <1>3, <2>2
  <2> QED
    BY <1>0, <2>3
<1> HIDE DEF N
<1>4. Nat \subseteq N
  BY <1>2, <1>3, SetInduction
<1> QED
  BY <1>1, <1>4 DEF N

(* The largest and the smallest of a set of numbers.                         *)
LEMMA MaxOf ==
    ASSUME NEW n \in Nat, NEW s \in SUBSET (0..n), s # {}
    PROVE  Max(s) \in s /\ \A y \in s : Max(s) >= y
<1> DEFINE A == {T \in SUBSET (0..n) : T # {} => \E x \in T : \A y \in T : x >= y}
<1>1. IsFiniteSet(0..n)
  BY FS_Interval
<1>2. ASSUME NEW T \in SUBSET (0..n), \A x \in T : T \ {x} \in A
      PROVE  T \in A
  <2> SUFFICES ASSUME T # {}
               PROVE  \E x \in T : \A y \in T : x >= y
    OBVIOUS
  <2>1. PICK a \in T : TRUE
    OBVIOUS
  <2>2. CASE T \ {a} = {}
    BY <2>1, <2>2
  <2>3. CASE T \ {a} # {}
    <3>1. PICK x \in T \ {a} : \A y \in T \ {a} : x >= y
      BY <1>2, <2>1, <2>3
    <3>2. x \in T /\ x \in Int /\ a \in Int
      BY <3>1
    <3>3. CASE x >= a
      BY <3>1, <3>2, <3>3
    <3>4. CASE ~(x >= a)
      BY <3>1, <3>2, <3>4
    <3> QED
      BY <3>3, <3>4
  <2> QED
    BY <2>2, <2>3
<1>3. Hereditary(A, 0..n)
  BY <1>2 DEF Hereditary
<1> HIDE DEF A
<1>4. s \in A
  BY <1>1, <1>3, SubsetInduction
<1>5. \E x \in s : \A y \in s : x >= y
  BY <1>4 DEF A
<1> QED
  BY <1>5, Zenon DEF Max

LEMMA MaxIn ==
    ASSUME NEW n \in Nat, NEW s \in SUBSET (1..n), s # {}
    PROVE  /\ Max(s) \in s /\ s \ {Max(s)} \in SUBSET (1..n)
           /\ \A y \in s : Max(s) >= y
<1>1. s \in SUBSET (0..n)
  OBVIOUS
<1> QED
  BY <1>1, MaxOf

LEMMA MaxOfInterval ==
    ASSUME NEW n \in Nat, NEW k \in 1..n
    PROVE  Max(1..k) = k /\ (1..k) \ {k} = 1..(k - 1) /\ 1..k \in SUBSET (1..n)
<1>1. \A x \in 1..k : (\A y \in 1..k : x >= y) <=> x = k
  OBVIOUS
<1>2. k \in 1..k
  OBVIOUS
<1>3. Max(1..k) = k
  BY <1>1, <1>2, Zenon DEF Max
<1> QED
  BY <1>3

LEMMA MinOf ==
    ASSUME NEW T \in SUBSET Nat, T # {}
    PROVE  Min(T) \in T /\ \A y \in T : Min(T) <= y
<1> DEFINE A == {n \in Nat : (\E m \in T : m <= n) => \E x \in T : \A y \in T : x <= y}
<1>1. 0 \in A
  OBVIOUS
<1>2. ASSUME NEW n \in Nat, n \in A
      PROVE  n + 1 \in A
  <2>1. CASE \E m \in T : m <= n
    BY <1>2, <2>1
  <2>2. CASE ~\E m \in T : m <= n
    BY <2>2
  <2> QED
    BY <2>1, <2>2
<1> HIDE DEF A
<1>3. Nat \subseteq A
  BY <1>1, <1>2, SetInduction
<1>4. \E x \in T : \A y \in T : x <= y
  <2>1. PICK m \in T : m \in Nat
    OBVIOUS
  <2>2. m \in A
    BY <1>3, <2>1
  <2> QED
    BY <2>1, <2>2 DEF A
<1> QED
  BY <1>4, Zenon DEF Min

(* A function on the subsets of a finite set may be defined from its value   *)
(* on the set without a chosen element.                                      *)
Chooses(c, S) == \A T \in SUBSET S : T # {} => c[T] \in T
FoldsTo(h, S, b, G, c) ==
    \A T \in SUBSET S : h[T] = IF T = {} THEN b ELSE G[c[T]][h[T \ {c[T]}]]

LEMMA SubsetRecursion ==
    ASSUME NEW S, IsFiniteSet(S), NEW V, NEW b \in V, NEW G \in [S -> [V -> V]],
           NEW c, Chooses(c, S)
    PROVE  \E h \in [SUBSET S -> V] : FoldsTo(h, S, b, G, c)
<1> USE DEF Chooses, FoldsTo
<1> DEFINE Upto(n) == {T \in SUBSET S : Cardinality(T) <= n}
           Solves(h, n) == \A T \in Upto(n) :
                              h[T] = IF T = {} THEN b ELSE G[c[T]][h[T \ {c[T]}]]
           N == {n \in Nat : \E h \in [SUBSET S -> V] : Solves(h, n)}
<1>1. \A T \in SUBSET S : IsFiniteSet(T) /\ Cardinality(T) \in Nat
  BY FS_Subset, FS_CardinalityType
<1>2. \A T \in SUBSET S : T # {} => /\ c[T] \in S /\ T \ {c[T]} \in SUBSET S
                                     /\ Cardinality(T \ {c[T]}) = Cardinality(T) - 1
  BY <1>1, FS_RemoveElement
<1>3. 0 \in N
  <2>1. [T \in SUBSET S |-> b] \in [SUBSET S -> V]
    OBVIOUS
  <2>2. \A T \in Upto(0) : T = {}
    BY <1>1, FS_EmptySet
  <2>3. Solves([T \in SUBSET S |-> b], 0)
    BY <2>2
  <2> QED
    BY <2>1, <2>3
<1>4. ASSUME NEW n \in Nat, n \in N
      PROVE  n + 1 \in N
  <2>1. PICK h \in [SUBSET S -> V] : Solves(h, n)
    BY <1>4
  <2> DEFINE k == [T \in SUBSET S |-> IF T = {} THEN b ELSE G[c[T]][h[T \ {c[T]}]]]
  <2>2. k \in [SUBSET S -> V]
    BY <1>2
  <2>3. \A T \in Upto(n) : k[T] = h[T]
    BY <2>1
  <2>4. \A T \in Upto(n + 1) : T # {} => T \ {c[T]} \in Upto(n)
    BY <1>1, <1>2
  <2>5. Solves(k, n + 1)
    <3> SUFFICES ASSUME NEW T \in Upto(n + 1)
                 PROVE  k[T] = IF T = {} THEN b ELSE G[c[T]][k[T \ {c[T]}]]
      OBVIOUS
    <3>1. CASE T = {}
      BY <3>1
    <3>2. CASE T # {}
      BY <2>3, <2>4, <3>2
    <3> QED
      BY <3>1, <3>2
  <2> HIDE DEF k, Solves
  <2> QED
    BY <2>2, <2>5
<1>5. Cardinality(S) \in N
  <2> HIDE DEF N
  <2>1. Nat \subseteq N
    BY <1>3, <1>4, SetInduction
  <2> QED
    BY <1>1, <2>1
<1>6. SUBSET S = Upto(Cardinality(S))
  BY FS_Subset, FS_CardinalityType
<1> QED
  BY <1>5, <1>6

-----------------------------------------------------------------------------
Chosen(T) == CHOOSE x \in T : TRUE

(* The sum over a set is a function of the set that takes a chosen element   *)
(* first.                                                                    *)
LEMMA SumDef ==
    ASSUME NEW S, IsFiniteSet(S), NEW f, \A x \in S : f[x] \in Int
    PROVE  \E h \in [SUBSET S -> Int] :
             /\ \A T \in SUBSET S : h[T] = IF T = {} THEN 0 ELSE f[Chosen(T)] + h[T \ {Chosen(T)}]
             /\ SumFunctionOnSet(f, S) = h[S]
<1> DEFINE c == [T \in SUBSET S |-> CHOOSE x \in T : TRUE]
           G == [x \in S |-> [v \in Int |-> f[x] + v]]
           Eq(h) == h = [T \in SUBSET S |-> IF T = {} THEN 0
                            ELSE f[CHOOSE x \in T : TRUE] + h[T \ {CHOOSE x \in T : TRUE}]]
           h == CHOOSE g : Eq(g)
<1>1. \A T \in SUBSET S : T # {} => c[T] \in T /\ c[T] = CHOOSE x \in T : TRUE
  OBVIOUS
<1>2. G \in [S -> [Int -> Int]] /\ \A x \in S, v \in Int : G[x][v] = f[x] + v
  OBVIOUS
<1> HIDE DEF c, G
<1>3. PICK g \in [SUBSET S -> Int] : FoldsTo(g, S, 0, G, c)
  <2>1. Chooses(c, S) /\ 0 \in Int
    BY <1>1 DEF Chooses
  <2> QED
    BY <1>2, <2>1, SubsetRecursion
<1>4. SumFunctionOnSet(f, S) = h[S]
  BY DEF SumFunctionOnSet, FoldFunctionOnSet, MapThenFoldSet
<1>5. \A T \in SUBSET S : T # {} => c[T] \in S /\ T \ {c[T]} \in SUBSET S
  BY <1>1
<1>6. \A T \in SUBSET S : g[T] = IF T = {} THEN 0 ELSE f[c[T]] + g[T \ {c[T]}]
  BY <1>2, <1>3, <1>5 DEF FoldsTo
<1>7. Eq(g)
  <2>1. g = [T \in SUBSET S |-> g[T]]
    OBVIOUS
  <2>2. \A T \in SUBSET S : g[T] = IF T = {} THEN 0
                            ELSE f[CHOOSE x \in T : TRUE] + g[T \ {CHOOSE x \in T : TRUE}]
    BY <1>1, <1>6
  <2> QED
    BY <2>1, <2>2, Zenon
<1>8. Eq(h)
  <2> HIDE DEF Eq
  <2> QED
    BY <1>7, Zenon
<1> HIDE DEF h
<1>9. h = [T \in SUBSET S |-> h[T]]
  BY <1>8
<1>10. \A T \in SUBSET S : h[T] = IF T = {} THEN 0 ELSE f[c[T]] + h[T \ {c[T]}]
  <2>1. \A T \in SUBSET S : h[T] = IF T = {} THEN 0
                            ELSE f[CHOOSE x \in T : TRUE] + h[T \ {CHOOSE x \in T : TRUE}]
    BY <1>8
  <2> QED
    BY <1>1, <2>1
<1> DEFINE A == {T \in SUBSET S : h[T] \in Int}
<1>11. \A T \in SUBSET S : T \in A
  <2>1. {} \in A
    <3>1. h[{}] = 0
      BY <1>10
    <3> QED
      BY <3>1
  <2>2. ASSUME NEW T \in SUBSET S, T # {}, \A x \in T : T \ {x} \in A
        PROVE  T \in A
    <3>1. c[T] \in T /\ f[c[T]] \in Int /\ h[T \ {c[T]}] \in Int
      BY <1>1, <1>5, <2>2
    <3>2. h[T] = f[c[T]] + h[T \ {c[T]}]
      BY <1>10, <2>2
    <3> QED
      BY <3>1, <3>2
  <2>3. Hereditary(A, S)
    BY <2>1, <2>2 DEF Hereditary
  <2> HIDE DEF A
  <2> QED
    BY <2>3, SubsetInduction
<1>12. \A T \in SUBSET S : h[T] = IF T = {} THEN 0 ELSE f[Chosen(T)] + h[T \ {Chosen(T)}]
  BY <1>1, <1>10 DEF Chosen
<1> QED
  BY <1>4, <1>9, <1>11, <1>12

LEMMA ChosenIn ==
    ASSUME NEW T, T # {}
    PROVE  Chosen(T) \in T
  BY DEF Chosen

LEMMA SumOfChosen ==
    ASSUME NEW S, IsFiniteSet(S), NEW f, \A x \in S : f[x] \in Int
    PROVE  /\ SumFunctionOnSet(f, S) \in Int
           /\ SumFunctionOnSet(f, S)
                = IF S = {} THEN 0 ELSE f[Chosen(S)] + SumFunctionOnSet(f, S \ {Chosen(S)})
<1> DEFINE D(g, T) == g[T] = IF T = {} THEN 0 ELSE f[Chosen(T)] + g[T \ {Chosen(T)}]
           R == S \ {Chosen(S)}
<1>1. PICK g \in [SUBSET S -> Int] :
         /\ \A T \in SUBSET S : D(g, T)
         /\ SumFunctionOnSet(f, S) = g[S]
  BY SumDef
<1>2. IsFiniteSet(R) /\ \A x \in R : f[x] \in Int
  BY FS_RemoveElement
<1>3. PICK h \in [SUBSET R -> Int] :
         /\ \A T \in SUBSET R : D(h, T)
         /\ SumFunctionOnSet(f, R) = h[R]
  BY <1>2, SumDef
<1> DEFINE A == {T \in SUBSET R : g[T] = h[T]}
<1>4. \A T \in SUBSET R : T \in A
  <2>1. {} \in A
    <3>1. D(g, {}) /\ D(h, {})
      BY <1>1, <1>3
    <3> QED
      BY <3>1
  <2>2. ASSUME NEW T \in SUBSET R, T # {}, \A x \in T : T \ {x} \in A
        PROVE  T \in A
    <3>1. D(g, T) /\ D(h, T) /\ Chosen(T) \in T
      BY <1>1, <1>3, <2>2, ChosenIn
    <3>2. g[T \ {Chosen(T)}] = h[T \ {Chosen(T)}]
      BY <2>2, <3>1
    <3> QED
      BY <2>2, <3>1, <3>2
  <2>3. Hereditary(A, R)
    BY <2>1, <2>2 DEF Hereditary
  <2> HIDE DEF A, R
  <2> QED
    BY <1>2, <2>3, SubsetInduction
<1>5. g[R] = SumFunctionOnSet(f, R)
  BY <1>3, <1>4
<1>6. D(g, S) /\ g[S] \in Int
  BY <1>1
<1> QED
  BY <1>1, <1>5, <1>6

LEMMA SumEmpty ==
    ASSUME NEW f
    PROVE  SumFunctionOnSet(f, {}) = 0
  BY FS_EmptySet, SumOfChosen

(* A sum is the sum without one of its terms and that term.                  *)
LEMMA SumRemove ==
    ASSUME NEW S, IsFiniteSet(S), NEW f, \A x \in S : f[x] \in Int, NEW y \in S
    PROVE  SumFunctionOnSet(f, S) = f[y] + SumFunctionOnSet(f, S \ {y})
<1> DEFINE Splits(T) == \A x \in T : SumFunctionOnSet(f, T) = f[x] + SumFunctionOnSet(f, T \ {x})
           A == {T \in SUBSET S : Splits(T)}
<1>1. \A T \in SUBSET S : /\ IsFiniteSet(T)
                          /\ SumFunctionOnSet(f, T) \in Int
                          /\ SumFunctionOnSet(f, T) = IF T = {} THEN 0
                                ELSE f[Chosen(T)] + SumFunctionOnSet(f, T \ {Chosen(T)})
  <2> SUFFICES ASSUME NEW T \in SUBSET S
               PROVE  /\ IsFiniteSet(T)
                      /\ SumFunctionOnSet(f, T) \in Int
                      /\ SumFunctionOnSet(f, T) = IF T = {} THEN 0
                            ELSE f[Chosen(T)] + SumFunctionOnSet(f, T \ {Chosen(T)})
    OBVIOUS
  <2>1. IsFiniteSet(T)
    BY FS_Subset
  <2> QED
    BY <2>1, SumOfChosen
<1>2. {} \in A
  OBVIOUS
<1>3. ASSUME NEW T \in SUBSET S, T # {}, \A x \in T : T \ {x} \in A
      PROVE  T \in A
  <2> SUFFICES ASSUME NEW x \in T
               PROVE  SumFunctionOnSet(f, T) = f[x] + SumFunctionOnSet(f, T \ {x})
    OBVIOUS
  <2> DEFINE a == Chosen(T)
  <2>1. a \in T /\ SumFunctionOnSet(f, T) = f[a] + SumFunctionOnSet(f, T \ {a})
    BY <1>1, <1>3, ChosenIn
  <2>2. CASE x = a
    BY <2>1, <2>2
  <2>3. CASE x # a
    <3> DEFINE U == (T \ {a}) \ {x}
               u == SumFunctionOnSet(f, U)
    <3>1. SumFunctionOnSet(f, T \ {a}) = f[x] + u
      BY <1>3, <2>1, <2>3
    <3>2. (T \ {x}) \ {a} = U /\ U \in SUBSET S
      OBVIOUS
    <3>3. SumFunctionOnSet(f, T \ {x}) = f[a] + u
      BY <1>3, <2>1, <2>3, <3>2
    <3>4. f[a] \in Int /\ f[x] \in Int /\ u \in Int
      BY <1>1, <2>1, <3>2
    <3> HIDE DEF U, u, a
    <3> QED
      BY <2>1, <3>1, <3>3, <3>4
  <2> QED
    BY <2>2, <2>3
<1>4. Hereditary(A, S)
  BY <1>2, <1>3 DEF Hereditary
<1> HIDE DEF A
<1>5. S \in A
  BY <1>4, SubsetInduction
<1> QED
  BY <1>5 DEF A

LEMMA SumType ==
    ASSUME NEW S, IsFiniteSet(S), NEW f, \A x \in S : f[x] \in Int
    PROVE  SumFunctionOnSet(f, S) \in Int
  BY SumOfChosen

(* Sums of terms that are no more than others, term by term.                 *)
LEMMA SumMonotonic ==
    ASSUME NEW S, IsFiniteSet(S), NEW f, NEW g,
           \A x \in S : f[x] \in Int /\ g[x] \in Int /\ f[x] <= g[x]
    PROVE  SumFunctionOnSet(f, S) <= SumFunctionOnSet(g, S)
<1> DEFINE A == {T \in SUBSET S : SumFunctionOnSet(f, T) <= SumFunctionOnSet(g, T)}
<1>1. {} \in A
  BY SumEmpty
<1>2. ASSUME NEW T \in SUBSET S, T # {}, \A x \in T : T \ {x} \in A
      PROVE  T \in A
  <2>1. PICK x \in T : TRUE
    BY <1>2
  <2>2. IsFiniteSet(T) /\ IsFiniteSet(T \ {x})
    BY FS_Subset, FS_RemoveElement
  <2>3. /\ SumFunctionOnSet(f, T) = f[x] + SumFunctionOnSet(f, T \ {x})
        /\ SumFunctionOnSet(g, T) = g[x] + SumFunctionOnSet(g, T \ {x})
    BY <2>2, SumRemove
  <2>4. SumFunctionOnSet(f, T \ {x}) \in Int /\ SumFunctionOnSet(g, T \ {x}) \in Int
    BY <2>2, SumType
  <2>5. SumFunctionOnSet(f, T \ {x}) <= SumFunctionOnSet(g, T \ {x})
    BY <1>2
  <2> QED
    BY <2>3, <2>4, <2>5
<1>3. Hereditary(A, S)
  BY <1>1, <1>2 DEF Hereditary
<1> HIDE DEF A
<1>4. S \in A
  BY <1>3, SubsetInduction
<1> QED
  BY <1>4 DEF A

LEMMA SumEqual ==
    ASSUME NEW S, IsFiniteSet(S), NEW f, NEW g,
           \A x \in S : f[x] \in Int /\ f[x] = g[x]
    PROVE  SumFunctionOnSet(f, S) = SumFunctionOnSet(g, S)
<1>1. SumFunctionOnSet(f, S) <= SumFunctionOnSet(g, S)
  BY SumMonotonic
<1>2. SumFunctionOnSet(g, S) <= SumFunctionOnSet(f, S)
  BY SumMonotonic
<1>3. SumFunctionOnSet(f, S) \in Int /\ SumFunctionOnSet(g, S) \in Int
  BY SumType
<1> QED
  BY <1>1, <1>2, <1>3

(* A sum when one of its terms changes.                                      *)
Terms(f, S) == \A x \in S : f[x] \in Int
AgreeBut(f, g, S, y) == \A x \in S \ {y} : f[x] = g[x]

LEMMA SumChange ==
    ASSUME NEW S, IsFiniteSet(S), NEW f, Terms(f, S), NEW g, Terms(g, S),
           NEW y \in S, AgreeBut(f, g, S, y)
    PROVE  SumFunctionOnSet(g, S) = SumFunctionOnSet(f, S) - f[y] + g[y]
<1>1. IsFiniteSet(S \ {y}) /\ (\A x \in S : f[x] \in Int /\ g[x] \in Int)
      /\ \A x \in S \ {y} : f[x] = g[x]
  BY FS_RemoveElement DEF Terms, AgreeBut
<1>2. SumFunctionOnSet(f, S \ {y}) = SumFunctionOnSet(g, S \ {y})
  BY <1>1, SumEqual
<1>3. /\ SumFunctionOnSet(f, S) = f[y] + SumFunctionOnSet(f, S \ {y})
      /\ SumFunctionOnSet(g, S) = g[y] + SumFunctionOnSet(g, S \ {y})
  BY <1>1, SumRemove
<1>4. SumFunctionOnSet(f, S \ {y}) \in Int
  BY <1>1, SumType
<1> QED
  BY <1>1, <1>2, <1>3, <1>4

(* A sum when it gets a term more.                                           *)
LEMMA SumAdd ==
    ASSUME NEW S, IsFiniteSet(S), NEW f, NEW y, y \notin S,
           \A x \in S \cup {y} : f[x] \in Int
    PROVE  SumFunctionOnSet(f, S \cup {y}) = SumFunctionOnSet(f, S) + f[y]
<1>1. IsFiniteSet(S \cup {y}) /\ (S \cup {y}) \ {y} = S
  BY FS_AddElement
<1>2. SumFunctionOnSet(f, S \cup {y}) = f[y] + SumFunctionOnSet(f, (S \cup {y}) \ {y})
  BY <1>1, SumRemove
<1>3. SumFunctionOnSet(f, S) \in Int /\ f[y] \in Int
  BY SumType
<1>4. SumFunctionOnSet(f, S \cup {y}) = f[y] + SumFunctionOnSet(f, S)
  BY <1>1, <1>2
<1> QED
  BY <1>3, <1>4

(* No term of a sum of natural numbers is more than the sum.                 *)
LEMMA TermWithinSum ==
    ASSUME NEW S, IsFiniteSet(S), NEW f, \A x \in S : f[x] \in Nat
    PROVE  /\ SumFunctionOnSet(f, S) \in Nat
           /\ \A y \in S : f[y] <= SumFunctionOnSet(f, S)
<1>1. \A T \in SUBSET S : SumFunctionOnSet(f, T) \in Nat
  <2> SUFFICES ASSUME NEW T \in SUBSET S
               PROVE  SumFunctionOnSet(f, T) \in Nat
    OBVIOUS
  <2> DEFINE z == [x \in T |-> 0]
  <2>1. IsFiniteSet(T)
    BY FS_Subset
  <2>2. SumFunctionOnSet(z, T) <= SumFunctionOnSet(f, T)
    BY <2>1, SumMonotonic
  <2>3. SumFunctionOnSet(f, T) \in Int
    BY <2>1, SumType
  <2>4. SumFunctionOnSet(z, T) = 0
    <3> DEFINE A == {U \in SUBSET T : SumFunctionOnSet(z, U) = 0}
    <3>1. {} \in A
      BY SumEmpty
    <3>2. ASSUME NEW U \in SUBSET T, U # {}, \A x \in U : U \ {x} \in A
          PROVE  U \in A
      <4>1. PICK x \in U : TRUE
        BY <3>2
      <4>2. IsFiniteSet(U)
        BY <2>1, FS_Subset
      <4>3. SumFunctionOnSet(z, U) = z[x] + SumFunctionOnSet(z, U \ {x})
        BY <4>2, SumRemove
      <4> QED
        BY <3>2, <4>3
    <3>3. Hereditary(A, T)
      BY <3>1, <3>2 DEF Hereditary
    <3> HIDE DEF A
    <3>4. T \in A
      BY <2>1, <3>3, SubsetInduction
    <3> QED
      BY <3>4 DEF A
  <2> QED
    BY <2>2, <2>3, <2>4
<1> SUFFICES ASSUME NEW y \in S
             PROVE  f[y] <= SumFunctionOnSet(f, S)
  BY <1>1
<1>2. SumFunctionOnSet(f, S) = f[y] + SumFunctionOnSet(f, S \ {y})
  BY SumRemove
<1>3. SumFunctionOnSet(f, S \ {y}) \in Nat
  BY <1>1
<1> QED
  BY <1>2, <1>3

(* A sum over a part of a set is a sum over the set in which the others      *)
(* count for nothing.                                                        *)
Restricts(g, f, T, S) == \A x \in S : g[x] = IF x \in T THEN f[x] ELSE 0

LEMMA SumRestrict ==
    ASSUME NEW S, IsFiniteSet(S), NEW T \in SUBSET S, NEW f, Terms(f, S), NEW g,
           Restricts(g, f, T, S)
    PROVE  SumFunctionOnSet(f, T) = SumFunctionOnSet(g, S)
<1>0. \A x \in S : f[x] \in Int /\ g[x] \in Int /\ g[x] = IF x \in T THEN f[x] ELSE 0
  BY DEF Terms, Restricts
<1> DEFINE A == {U \in SUBSET S : SumFunctionOnSet(f, U \cap T) = SumFunctionOnSet(g, U)}
<1>1. {} \in A
  <2>1. {} \cap T = {}
    OBVIOUS
  <2> QED
    BY <2>1, SumEmpty
<1>2. ASSUME NEW U \in SUBSET S, U # {}, \A x \in U : U \ {x} \in A
      PROVE  U \in A
  <2>1. PICK x \in U : TRUE
    BY <1>2
  <2>2. IsFiniteSet(U) /\ IsFiniteSet(U \cap T)
    BY FS_Subset
  <2>3. SumFunctionOnSet(g, U) = g[x] + SumFunctionOnSet(g, U \ {x})
    BY <1>0, <2>2, SumRemove
  <2>4. SumFunctionOnSet(f, (U \ {x}) \cap T) = SumFunctionOnSet(g, U \ {x})
    BY <1>2
  <2>5. CASE x \in T
    <3>1. SumFunctionOnSet(f, U \cap T) = f[x] + SumFunctionOnSet(f, (U \cap T) \ {x})
      BY <1>0, <2>2, <2>5, SumRemove
    <3>2. (U \cap T) \ {x} = (U \ {x}) \cap T
      OBVIOUS
    <3> QED
      BY <1>0, <2>3, <2>4, <2>5, <3>1, <3>2
  <2>6. CASE x \notin T
    <3>1. (U \ {x}) \cap T = U \cap T
      BY <2>6
    <3>2. SumFunctionOnSet(g, U \ {x}) \in Int
      <4>1. IsFiniteSet(U \ {x})
        BY <2>2, FS_RemoveElement
      <4> QED
        BY <1>0, <4>1, SumType
    <3>3. g[x] = 0
      BY <1>0, <2>6
    <3>4. SumFunctionOnSet(g, U) = SumFunctionOnSet(g, U \ {x})
      BY <2>3, <3>2, <3>3
    <3>5. SumFunctionOnSet(f, U \cap T) = SumFunctionOnSet(g, U \ {x})
      BY <2>4, <3>1
    <3> QED
      BY <3>4, <3>5
  <2> QED
    BY <2>5, <2>6
<1>3. Hereditary(A, S)
  BY <1>1, <1>2 DEF Hereditary
<1> HIDE DEF A
<1>4. S \in A
  BY <1>3, SubsetInduction
<1>5. S \cap T = T
  OBVIOUS
<1> QED
  BY <1>4, <1>5 DEF A
=============================================================================
