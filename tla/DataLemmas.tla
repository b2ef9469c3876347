----------------------------- MODULE DataLemmas -----------------------------
(***************************************************************************)
(* Lemmas on data that the proofs about several components use: queues,    *)
(* induction over natural numbers, and sums over finite sets.              *)
(***************************************************************************)
EXTENDS Fifo, Functions, FiniteSetTheorems, TLAPS

-----------------------------------------------------------------------------
(***************************************************************************)
(* What the operators of module Fifo do to a valid queue.                  *)
(***************************************************************************)

\* The valid queues of capacity n over S.
Fifos(S, n) == [items : Seq(S), cap : {n}, lost : Nat]

\* A push keeps the queue within its capacity; the item is gained, or gained
\* against the oldest one, which is counted (circular_queue::push_back).
LEMMA FifoPushFacts ==
    ASSUME NEW S, NEW n \in Nat, NEW f \in Fifos(S, n), NEW x \in S,
           Len(f.items) <= n
    PROVE  /\ FifoPush(f, x) \in Fifos(S, n)
           /\ Len(FifoPush(f, x).items) <= n
           /\ Len(f.items) < n =>
                 /\ FifoPush(f, x).items = Append(f.items, x)
                 /\ FifoPush(f, x).lost = f.lost
           /\ Len(f.items) = n =>
                 /\ FifoPush(f, x).items = Tail(Append(f.items, x))
                 /\ Len(FifoPush(f, x).items) = n
                 /\ FifoPush(f, x).lost = f.lost + 1
<1> DEFINE g == FifoPush(f, x)
<1>1. f.items \in Seq(S) /\ f.cap = n /\ f.lost \in Nat /\ n # -1
  BY DEF Fifos
<1>2. /\ Append(f.items, x) \in Seq(S)
      /\ Len(Append(f.items, x)) = Len(f.items) + 1
      /\ Len(f.items) \in Nat
  BY <1>1
<1>3. /\ Tail(Append(f.items, x)) \in Seq(S)
      /\ Len(Tail(Append(f.items, x))) = Len(f.items)
  BY <1>1, <1>2
<1>4. CASE Len(f.items) < n
  <2>1. g = Holding(f, Append(f.items, x), f.lost)
    BY <1>1, <1>4 DEF FifoPush, NoCap
  <2> QED BY <1>1, <1>2, <1>4, <2>1 DEF Fifos, Holding
<1>5. CASE Len(f.items) = n
  <2>1. g = Holding(f, Tail(Append(f.items, x)), f.lost + 1)
    BY <1>1, <1>5 DEF FifoPush, NoCap
  <2> QED BY <1>1, <1>2, <1>3, <1>5, <2>1 DEF Fifos, Holding
<1> QED BY <1>2, <1>4, <1>5

\* A pop of a queue that is not empty takes its oldest item and nothing else.
LEMMA FifoPopFacts ==
    ASSUME NEW S, NEW n \in Nat, NEW f \in Fifos(S, n), ~FifoEmpty(f)
    PROVE  /\ FifoPop(f) \in Fifos(S, n)
           /\ FifoPop(f).items = Tail(f.items)
           /\ Len(FifoPop(f).items) = Len(f.items) - 1
           /\ FifoPop(f).lost = f.lost
           /\ FifoFront(f) \in S
           /\ Len(f.items) > 0
<1>1. f.items \in Seq(S) /\ f.items # <<>>
  BY DEF Fifos, FifoEmpty
<1>2. /\ Tail(f.items) \in Seq(S) /\ Head(f.items) \in S
      /\ Len(Tail(f.items)) = Len(f.items) - 1 /\ Len(f.items) > 0
  BY <1>1
<1> QED BY <1>1, <1>2 DEF Fifos, FifoPop, FifoFront, Holding

\* full() and empty() as statements about the length.
LEMMA FifoFullEmpty ==
    ASSUME NEW S, NEW n \in Nat, NEW f \in Fifos(S, n)
    PROVE  /\ FifoFull(f) <=> Len(f.items) = n
           /\ FifoEmpty(f) <=> Len(f.items) = 0
<1>1. f.items \in Seq(S) /\ f.cap = n /\ n # -1
  BY DEF Fifos
<1> QED BY <1>1 DEF FifoFull, FifoEmpty, NoCap

-----------------------------------------------------------------------------
(***************************************************************************)
(* Induction.                                                              *)
(***************************************************************************)

\* A set of natural numbers that is not empty has a least member, from which proofs
\* by induction start here: the least number that were a counterexample is none.
LEMMA LeastNumber ==
    ASSUME NEW T, T \subseteq Nat, T # {}
    PROVE  \E x \in T : \A y \in T : x <= y
<1> DEFINE R == {p \in Nat \X Nat : p[1] < p[2]}
<1>1. IsWellFoundedOn(R, Nat)
  BY NatLessThanWellFounded DEF OpToRel
<1> HIDE DEF R
<1>2. PICK x \in T : \A y \in T : <<y, x>> \notin R
  BY <1>1, WFMin, Zenon
<1>3. \A y \in T : ~(y < x)
  BY <1>2 DEF R
<1> QED BY <1>3

\* Induction over the subsets of a finite set.
LEMMA SubsetsInduction ==
    ASSUME NEW S, IsFiniteSet(S), NEW Good,
           \A s \in SUBSET S : (\A x \in s : s \ {x} \in Good) => s \in Good
    PROVE  \A s \in SUBSET S : s \in Good
<1> DEFINE Sizes == {Cardinality(s) : s \in (SUBSET S) \ Good}
<1>1. \A s \in SUBSET S : IsFiniteSet(s) /\ Cardinality(s) \in Nat
  BY FS_Subset, FS_CardinalityType
<1> SUFFICES ASSUME NEW r \in SUBSET S, r \notin Good
             PROVE  FALSE
  OBVIOUS
<1>2. PICK n \in Sizes : \A m \in Sizes : n <= m
  <2>1. Sizes \subseteq Nat /\ Sizes # {}
    BY <1>1
  <2> HIDE DEF Sizes
  <2> QED BY <2>1, LeastNumber
<1>3. PICK s \in SUBSET S : s \notin Good /\ Cardinality(s) = n
  BY <1>2
<1>4. PICK x \in s : s \ {x} \notin Good
  BY <1>3
<1>5. s \ {x} \in SUBSET S /\ Cardinality(s \ {x}) = n - 1
  BY <1>1, <1>3, <1>4, FS_RemoveElement
<1>6. n <= n - 1 /\ n \in Nat
  BY <1>1, <1>2, <1>4, <1>5
<1> QED BY <1>6

-----------------------------------------------------------------------------
(***************************************************************************)
(* Sums over the values of a function with a finite domain.                *)
(***************************************************************************)

\* One step of the recursion that SumFunction is defined by.
SumBody(f, g, s) ==
    IF s = {} THEN 0 ELSE LET x == CHOOSE x \in s : TRUE IN f[x] + g[s \ {x}]

\* The sum of each part of the domain.
Sums(f, S) == CHOOSE g : g = [s \in SUBSET S |-> SumBody(f, g, s)]

\* The recursion has a solution: one that is right up to size n leads to one that is
\* right up to n + 1.
LEMMA SumsExist ==
    ASSUME NEW S, IsFiniteSet(S), NEW f \in [S -> Int]
    PROVE  Sums(f, S) = [s \in SUBSET S |-> SumBody(f, Sums(f, S), s)]
<1> DEFINE Good(n) == \E g \in [SUBSET S -> Int] :
                         \A s \in SUBSET S : Cardinality(s) <= n => g[s] = SumBody(f, g, s)
           Bad == {n \in Nat : ~Good(n)}
<1>c. \A s \in SUBSET S : IsFiniteSet(s) /\ Cardinality(s) \in Nat
  BY FS_Subset, FS_CardinalityType
<1>x. \A s \in SUBSET S : s # {} =>
         LET x == CHOOSE x \in s : TRUE
         IN  x \in s /\ f[x] \in Int /\ Cardinality(s \ {x}) = Cardinality(s) - 1
                     /\ s \ {x} \in SUBSET S
  BY <1>c, FS_RemoveElement
<1>1. Good(0)
  <2> DEFINE z == [s \in SUBSET S |-> 0]
  <2>1. \A s \in SUBSET S : Cardinality(s) <= 0 => s = {}
    BY <1>c, FS_EmptySet
  <2>2. \A s \in SUBSET S : Cardinality(s) <= 0 => z[s] = SumBody(f, z, s)
    BY <2>1 DEF SumBody
  <2>3. z \in [SUBSET S -> Int]
    OBVIOUS
  <2> HIDE DEF z
  <2> QED BY <2>2, <2>3
<1>2. ASSUME NEW n \in Nat, Good(n)
      PROVE  Good(n + 1)
  <2>1. PICK g \in [SUBSET S -> Int] :
               \A s \in SUBSET S : Cardinality(s) <= n => g[s] = SumBody(f, g, s)
    BY <1>2
  <2> DEFINE h == [s \in SUBSET S |-> SumBody(f, g, s)]
  <2>2. h \in [SUBSET S -> Int]
    BY <1>x DEF SumBody
  <2>3. \A s \in SUBSET S : Cardinality(s) <= n => h[s] = g[s]
    BY <2>1
  <2>4. ASSUME NEW s \in SUBSET S, Cardinality(s) <= n + 1
        PROVE  h[s] = SumBody(f, h, s)
    <3>1. CASE s = {}
      BY <3>1 DEF SumBody
    <3>2. CASE s # {}
      <4> DEFINE x == CHOOSE x \in s : TRUE
      <4>1. s \ {x} \in SUBSET S /\ Cardinality(s \ {x}) <= n
        BY <1>c, <1>x, <2>4, <3>2
      <4>2. h[s \ {x}] = g[s \ {x}]
        BY <2>3, <4>1
      <4> QED BY <3>2, <4>2 DEF SumBody
    <3> QED BY <3>1, <3>2
  <2> QED BY <2>2, <2>4
<1> HIDE DEF Good
<1>3. \A n \in Nat : Good(n)
  <2> SUFFICES ASSUME Bad # {}
               PROVE  FALSE
    OBVIOUS
  <2>1. PICK n \in Bad : \A m \in Bad : n <= m
    BY LeastNumber
  <2>2. n # 0 /\ n - 1 \in Nat /\ n - 1 \notin Bad
    BY <1>1, <2>1
  <2> QED BY <1>2, <2>1, <2>2
<1>4. PICK g \in [SUBSET S -> Int] :
            \A s \in SUBSET S : Cardinality(s) <= Cardinality(S) => g[s] = SumBody(f, g, s)
  <2>1. Good(Cardinality(S))
    BY <1>3, <1>c
  <2> QED BY <2>1 DEF Good
<1>5. \A s \in SUBSET S : g[s] = SumBody(f, g, s)
  BY <1>4, FS_Subset
<1>6. g = [s \in SUBSET S |-> SumBody(f, g, s)]
  BY <1>4, <1>5
<1> QED BY <1>6, Zenon DEF Sums

\* The recursion, and that the element it takes out may be any.
LEMMA SumsFacts ==
    ASSUME NEW S, IsFiniteSet(S), NEW f \in [S -> Int]
    PROVE  /\ SumFunction(f) = Sums(f, S)[S]
           /\ \A s \in SUBSET S : Sums(f, S)[s] \in Int
           /\ Sums(f, S)[{}] = 0
           /\ \A s \in SUBSET S : \A t \in s : Sums(f, S)[s] = f[t] + Sums(f, S)[s \ {t}]
<1> DEFINE g == Sums(f, S)
           x(s) == CHOOSE x \in s : TRUE
<1>1. g = [s \in SUBSET S |-> SumBody(f, g, s)]
  BY SumsExist
<1>2. SumFunction(f) = g[S]
  BY DEF SumFunction, SumFunctionOnSet, FoldFunctionOnSet, MapThenFoldSet, Sums, SumBody
<1> HIDE DEF g
<1>3. \A s \in SUBSET S : g[s] = SumBody(f, g, s)
  BY <1>1
<1>4. g[{}] = 0 /\ \A s \in SUBSET S : s # {} => x(s) \in s /\ g[s] = f[x(s)] + g[s \ {x(s)}]
  BY <1>3 DEF SumBody
<1> HIDE DEF x
<1> DEFINE Whole == {s \in SUBSET S : g[s] \in Int}
<1>5. \A s \in SUBSET S : s \in Whole
  <2>1. ASSUME NEW s \in SUBSET S, \A y \in s : s \ {y} \in Whole
        PROVE  s \in Whole
    <3>1. CASE s = {}
      BY <1>4, <3>1
    <3>2. CASE s # {}
      <4>1. x(s) \in s /\ g[s] = f[x(s)] + g[s \ {x(s)}] /\ s \ {x(s)} \in Whole
        BY <1>4, <2>1, <3>2
      <4>2. f[x(s)] \in Int /\ g[s \ {x(s)}] \in Int
        BY <4>1
      <4> QED BY <4>1, <4>2
    <3> QED BY <3>1, <3>2
  <2> HIDE DEF Whole
  <2> QED BY <2>1, SubsetsInduction
<1>6. \A s \in SUBSET S : g[s] \in Int
  BY <1>5
<1> DEFINE Any == {s \in SUBSET S : \A t \in s : g[s] = f[t] + g[s \ {t}]}
<1>7. ASSUME NEW s \in SUBSET S, \A y \in s : s \ {y} \in Any, NEW t \in s
      PROVE  g[s] = f[t] + g[s \ {t}]
  <2> DEFINE y == x(s)
  <2>1. y \in s /\ g[s] = f[y] + g[s \ {y}]
    BY <1>4, <1>7
  <2> HIDE DEF y
  <2>2. CASE y = t
    BY <2>1, <2>2
  <2>3. CASE y # t
    <3>1. g[s \ {y}] = f[t] + g[(s \ {y}) \ {t}]
      BY <1>7, <2>1, <2>3
    <3>2. g[s \ {t}] = f[y] + g[(s \ {t}) \ {y}]
      BY <1>7, <2>1, <2>3
    <3>3. (s \ {y}) \ {t} = (s \ {t}) \ {y} /\ (s \ {y}) \ {t} \in SUBSET S
      OBVIOUS
    <3>4. f[t] \in Int /\ f[y] \in Int /\ g[(s \ {y}) \ {t}] \in Int
      BY <1>6, <2>1, <3>3
    <3>5. g[s \ {t}] = f[y] + g[(s \ {y}) \ {t}]
      BY <3>2, <3>3
    <3> HIDE DEF Any, Whole
    <3> QED BY <2>1, <3>1, <3>4, <3>5
  <2> QED BY <2>2, <2>3
<1>8. \A s \in SUBSET S : s \in Any
  <2>1. \A s \in SUBSET S : (\A y \in s : s \ {y} \in Any) => s \in Any
    BY <1>7
  <2> HIDE DEF Any
  <2> QED BY <2>1, SubsetsInduction
<1> QED BY <1>2, <1>4, <1>6, <1>8 DEF g

\* The sums n of the parts of S, and of all of it.
SumsTo(f, S, n) ==
    /\ SumFunction(f) = n[S] /\ n[{}] = 0 /\ \A s \in SUBSET S : n[s] \in Int
    /\ \A s \in SUBSET S : \A a \in s : n[s] = f[a] + n[s \ {a}]

\* There are such sums.
LEMMA SumsOf ==
    ASSUME NEW S, IsFiniteSet(S), NEW f \in [S -> Int]
    PROVE  \E n : SumsTo(f, S, n)
<1>1. /\ SumFunction(f) = Sums(f, S)[S]
      /\ \A s \in SUBSET S : Sums(f, S)[s] \in Int
      /\ Sums(f, S)[{}] = 0
      /\ \A s \in SUBSET S : \A t \in s : Sums(f, S)[s] = f[t] + Sums(f, S)[s \ {t}]
  BY SumsFacts
<1>2. SumsTo(f, S, Sums(f, S))
  BY <1>1 DEF SumsTo
<1> QED BY <1>2

\* A sum changes by what one of its values changes.
LEMMA SumChange ==
    ASSUME NEW S, IsFiniteSet(S), NEW f \in [S -> Int], NEW h \in [S -> Int], NEW t \in S,
           \A u \in S \ {t} : h[u] = f[u]
    PROVE  /\ SumFunction(f) \in Int /\ SumFunction(h) \in Int
           /\ SumFunction(h) = SumFunction(f) - f[t] + h[t]
<1> DEFINE a == Sums(f, S)
           b == Sums(h, S)
           Same == {s \in SUBSET S : t \notin s => a[s] = b[s]}
<1>1. /\ SumFunction(f) = a[S] /\ SumFunction(h) = b[S] /\ a[{}] = b[{}]
      /\ \A s \in SUBSET S : a[s] \in Int /\ b[s] \in Int
      /\ \A s \in SUBSET S : \A u \in s : a[s] = f[u] + a[s \ {u}] /\ b[s] = h[u] + b[s \ {u}]
  <2>1. /\ SumFunction(f) = a[S] /\ a[{}] = 0 /\ \A s \in SUBSET S : a[s] \in Int
        /\ \A s \in SUBSET S : \A u \in s : a[s] = f[u] + a[s \ {u}]
    BY SumsFacts
  <2>2. /\ SumFunction(h) = b[S] /\ b[{}] = 0 /\ \A s \in SUBSET S : b[s] \in Int
        /\ \A s \in SUBSET S : \A u \in s : b[s] = h[u] + b[s \ {u}]
    BY SumsFacts
  <2> HIDE DEF a, b
  <2> QED BY <2>1, <2>2
<1> HIDE DEF a, b
<1>2. \A s \in SUBSET S : s \in Same
  <2>1. ASSUME NEW s \in SUBSET S, \A y \in s : s \ {y} \in Same
        PROVE  s \in Same
    <3>1. CASE s = {}
      BY <1>1, <3>1
    <3>2. CASE s # {} /\ t \notin s
      <4>1. PICK u \in s : TRUE
        BY <3>2
      <4>2. a[s \ {u}] = b[s \ {u}] /\ u \in S \ {t}
        BY <2>1, <3>2
      <4> QED BY <1>1, <4>2
    <3> QED BY <3>1, <3>2
  <2> HIDE DEF Same
  <2> QED BY <2>1, SubsetsInduction
<1>3. a[S] = f[t] + a[S \ {t}] /\ b[S] = h[t] + b[S \ {t}] /\ a[S \ {t}] = b[S \ {t}]
  BY <1>1, <1>2
<1> QED BY <1>1, <1>3

\* A sum of natural numbers is one, and none of them is greater; of zeros it is zero.
LEMMA SumNat ==
    ASSUME NEW S, IsFiniteSet(S), NEW f \in [S -> Nat]
    PROVE  /\ SumFunction(f) \in Nat
           /\ \A t \in S : f[t] <= SumFunction(f)
           /\ (\A t \in S : f[t] = 0) => SumFunction(f) = 0
<1> DEFINE a == Sums(f, S)
           Sound == {s \in SUBSET S : a[s] \in Nat /\ ((\A t \in s : f[t] = 0) => a[s] = 0)}
<1>1. /\ SumFunction(f) = a[S] /\ a[{}] = 0
      /\ \A s \in SUBSET S : \A u \in s : a[s] = f[u] + a[s \ {u}]
  <2>1. f \in [S -> Int]
    OBVIOUS
  <2> HIDE DEF Sound
  <2>2. /\ SumFunction(f) = Sums(f, S)[S]
        /\ \A s \in SUBSET S : Sums(f, S)[s] \in Int
        /\ Sums(f, S)[{}] = 0
        /\ \A s \in SUBSET S : \A t \in s : Sums(f, S)[s] = f[t] + Sums(f, S)[s \ {t}]
    BY <2>1, SumsFacts
  <2> QED BY <2>2
<1> HIDE DEF a
<1>2. \A s \in SUBSET S : s \in Sound
  <2>1. ASSUME NEW s \in SUBSET S, \A y \in s : s \ {y} \in Sound
        PROVE  s \in Sound
    <3>1. CASE s = {}
      BY <1>1, <3>1
    <3>2. CASE s # {}
      <4>1. PICK u \in s : TRUE
        BY <3>2
      <4>2. a[s] = f[u] + a[s \ {u}] /\ s \ {u} \in Sound /\ f[u] \in Nat
        BY <1>1, <2>1
      <4>3. a[s \ {u}] \in Nat /\ ((\A t \in s \ {u} : f[t] = 0) => a[s \ {u}] = 0)
        BY <4>2
      <4>4. a[s] \in Nat
        BY <4>2, <4>3
      <4>5. (\A t \in s : f[t] = 0) => a[s] = 0
        BY <4>2, <4>3
      <4> QED BY <4>4, <4>5
    <3> QED BY <3>1, <3>2
  <2> HIDE DEF Sound
  <2> QED BY <2>1, SubsetsInduction
<1>3. \A t \in S : a[S] = f[t] + a[S \ {t}] /\ a[S \ {t}] \in Nat /\ f[t] \in Nat
  BY <1>1, <1>2
<1>4. a[S] \in Nat /\ ((\A t \in S : f[t] = 0) => a[S] = 0)
  BY <1>2
<1> HIDE DEF Sound
<1>5. ASSUME NEW t \in S
      PROVE  f[t] <= a[S]
  <2> DEFINE b == a[S \ {t}]
  <2>1. a[S] = f[t] + b /\ b \in Nat /\ f[t] \in Nat
    BY <1>3
  <2> HIDE DEF b
  <2> QED BY <2>1
<1> QED BY <1>1, <1>4, <1>5, Zenon

\* A sum over one element more.
LEMMA SumExtend ==
    ASSUME NEW S, IsFiniteSet(S), NEW t \in S, NEW f \in [S -> Int], NEW h \in [S \ {t} -> Int],
           \A u \in S \ {t} : h[u] = f[u]
    PROVE  /\ SumFunction(f) \in Int /\ SumFunction(h) \in Int
           /\ SumFunction(f) = f[t] + SumFunction(h)
<1> DEFINE R == S \ {t}
           a == Sums(f, S)
           b == Sums(h, R)
           Same == {s \in SUBSET R : a[s] = b[s]}
<1>0. IsFiniteSet(R) /\ R \subseteq S /\ h \in [R -> Int]
  BY FS_Subset
<1>1. /\ SumFunction(f) = a[S] /\ a[{}] = 0 /\ \A s \in SUBSET S : a[s] \in Int
      /\ \A s \in SUBSET S : \A u \in s : a[s] = f[u] + a[s \ {u}]
  BY SumsFacts
<1>2. /\ SumFunction(h) = b[R] /\ b[{}] = 0 /\ \A s \in SUBSET R : b[s] \in Int
      /\ \A s \in SUBSET R : \A u \in s : b[s] = h[u] + b[s \ {u}]
  <2> HIDE DEF R
  <2> QED BY <1>0, SumsFacts
<1> HIDE DEF a, b
<1>3. \A s \in SUBSET R : s \in Same
  <2>1. ASSUME NEW s \in SUBSET R, \A y \in s : s \ {y} \in Same
        PROVE  s \in Same
    <3>1. CASE s = {}
      BY <1>1, <1>2, <3>1
    <3>2. CASE s # {}
      <4>1. PICK u \in s : TRUE
        BY <3>2
      <4>2. a[s \ {u}] = b[s \ {u}] /\ h[u] = f[u]
        BY <2>1
      <4>3. a[s] = f[u] + a[s \ {u}] /\ b[s] = h[u] + b[s \ {u}]
        BY <1>1, <1>2
      <4> QED BY <4>2, <4>3
    <3> QED BY <3>1, <3>2
  <2> HIDE DEF Same, R
  <2> QED BY <1>0, <2>1, SubsetsInduction
<1>4. a[S] = f[t] + a[R] /\ a[R] = b[R]
  BY <1>1, <1>3
<1> QED BY <1>1, <1>2, <1>4

-----------------------------------------------------------------------------
(***************************************************************************)
(* Division with remainder.                                                *)
(***************************************************************************)

\* The quotient is determined by its bounds.
LEMMA BlockIs ==
    ASSUME NEW B \in Nat \ {0}, NEW k \in Int, NEW j \in Int, NEW x \in 0..(B - 1), NEW y \in 0..(B - 1),
           B * k + x <= B * j + y
    PROVE  k <= j
<1> SUFFICES ASSUME k >= j + 1
             PROVE  FALSE
  OBVIOUS
<1>1. B * k >= B * (j + 1)
  <2>1. B * (k - (j + 1)) >= 0
    OBVIOUS
  <2> QED BY <2>1
<1>2. B * (j + 1) = B * j + B
  OBVIOUS
<1> DEFINE p == B * k
           s == B * j
<1>3. p \in Int /\ s \in Int /\ p >= s + B /\ p + x <= s + y
  BY <1>1, <1>2
<1> HIDE DEF p, s
<1> QED BY <1>3

\* A remainder is no greater than what it is the remainder of.
LEMMA Remainder ==
    ASSUME NEW B \in Nat \ {0}, NEW n \in Nat
    PROVE  n % B \in 0..(B - 1) /\ n % B <= n
<1> DEFINE k == n \div B
           x == n % B
<1>1. k \in Int /\ x \in 0..(B - 1) /\ n = B * k + x /\ B * k \in Int
  OBVIOUS
<1> HIDE DEF k, x
<1>2. B * 0 = 0 /\ 0 \in 0..(B - 1) /\ B * 0 + 0 <= B * k + x
  BY <1>1
<1>3. 0 <= k
  BY <1>1, <1>2, BlockIs
<1>4. B * k >= 0
  BY <1>1, <1>3
<1>5. x <= n
  BY <1>1, <1>4
<1> QED BY <1>1, <1>5 DEF x

=============================================================================
