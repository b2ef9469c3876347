--------------------- MODULE LockfreeThreadPoolProofs ---------------------
(***************************************************************************)
(* Proofs about module LockfreeThreadPool: its sub-queues are the lanes of *)
(* module AsyncLoggingProofs.  What it adds are the permits, the blocks    *)
(* and the messages that the destructor may leave behind.                  *)
(***************************************************************************)
EXTENDS LockfreeThreadPool, AsyncLoggingProofs

-----------------------------------------------------------------------------
(***************************************************************************)
(* The inductive invariant.                                                *)
(***************************************************************************)

\* The sub-queues, as lanes.
Lanes == \E q : q = sub /\ AsyncInv(q)

\* A thread's messages are in its own sub-queue, which holds no more than the thread
\* has put in.
Own ==
    \A t \in Threads :
        /\ \A i \in 1..Len(sub[t]) : sub[t][i] \in LogMsgs => sub[t][i].from = t
        /\ Len(sub[t]) <= tail[t]

\* A worker goes on from a sub-queue that is in the list.
Known ==
    \A w \in Workers :
        current[w] # Nobody => \E i \in 1..Len(producers) : producers[i] = current[w]

\* What is left once the destructor has sent a terminate message was there when it
\* found no permit: those who had one were to take it.
FewLeft ==
    /\ pool = "destroyed" => to_stop < ThreadsNum
    /\ pool \in {"dying", "destroyed"} /\ to_stop < ThreadsNum =>
          IsFiniteSet(Queued) /\ Cardinality(Queued) <= ThreadsNum

PoolInv ==
    /\ TypeOK /\ Lanes /\ Own /\ Known
    /\ PermitsHaveItems /\ BlocksSuffice /\ FewLeft
    /\ ThreadsNum = 1 => Ordered /\ FlushDone

-----------------------------------------------------------------------------
(***************************************************************************)
(* Data: threads, blocks, lanes.                                           *)
(***************************************************************************)

\* There are finitely many threads, and ThreadsNum workers.
LEMMA ThreadsFinite ==
    /\ IsFiniteSet(Threads) /\ IsFiniteSet(Workers)
    /\ Cardinality(Workers) = ThreadsNum /\ ThreadsNum \in Nat /\ ThreadsNum >= 1
<1>1. ThreadsNum \in Nat /\ ThreadsNum >= 1
  BY AsyncLoggingAssumption
<1>2. IsFiniteSet(Workers) /\ Cardinality(Workers) = ThreadsNum
  BY <1>1, FS_Interval DEF Workers
<1>3. IsFiniteSet(Clients \cup Workers)
  BY <1>2, LockfreeThreadPoolAssumption, FS_Union
<1>4. IsFiniteSet(Threads)
  BY <1>3, FS_AddElement DEF Threads
<1> QED BY <1>1, <1>2, <1>4

\* Division by the size of a block.
LEMMA BlockOf ==
    ASSUME NEW n \in Int
    PROVE  /\ n \div BlockSize \in Int /\ n % BlockSize \in 0..(BlockSize - 1)
           /\ n = BlockSize * (n \div BlockSize) + (n % BlockSize)
BY LockfreeThreadPoolAssumption

\* The block of a later place is no earlier one.
LEMMA BlockGrows ==
    ASSUME NEW m \in Int, NEW n \in Int, m <= n
    PROVE  m \div BlockSize <= n \div BlockSize
<1> DEFINE B == BlockSize
           k == m \div B
           j == n \div B
           x == m % B
           y == n % B
<1>1. /\ B \in Nat \ {0} /\ k \in Int /\ j \in Int /\ x \in 0..(B - 1) /\ y \in 0..(B - 1)
      /\ m = B * k + x /\ n = B * j + y
  BY BlockOf, LockfreeThreadPoolAssumption
<1>2. B * k + x <= B * j + y
  BY <1>1
<1> HIDE DEF B, k, j, x, y
<1>3. k <= j
  BY <1>1, <1>2, BlockIs
<1> QED BY <1>3 DEF k, j, B

\* The n-th item of a thread opens a block when the one before filled one.
LEMMA NextBlock ==
    ASSUME NEW n \in Nat
    PROVE  /\ n % BlockSize # 0 =>
                (n + 1 + BlockSize - 1) \div BlockSize = (n + BlockSize - 1) \div BlockSize
           /\ n % BlockSize = 0 =>
                (n + 1 + BlockSize - 1) \div BlockSize = (n + BlockSize - 1) \div BlockSize + 1
<1> DEFINE B == BlockSize
           k == n \div B
           x == n % B
           u == (n + 1 + B - 1) \div B
           v == (n + B - 1) \div B
<1>1. /\ B \in Nat \ {0} /\ k \in Int /\ x \in 0..(B - 1) /\ n = B * k + x
  BY BlockOf, LockfreeThreadPoolAssumption
<1>2. /\ u \in Int /\ (n + 1 + B - 1) % B \in 0..(B - 1)
      /\ n + 1 + B - 1 = B * u + ((n + 1 + B - 1) % B)
  <2> DEFINE p == n + 1 + B - 1
  <2>1. p \in Int
    BY <1>1
  <2> HIDE DEF p
  <2>2. p \div B \in Int /\ p % B \in 0..(B - 1) /\ p = B * (p \div B) + (p % B)
    BY <2>1, BlockOf
  <2> QED BY <2>2 DEF p
<1>3. /\ v \in Int /\ (n + B - 1) % B \in 0..(B - 1)
      /\ n + B - 1 = B * v + ((n + B - 1) % B)
  BY BlockOf, LockfreeThreadPoolAssumption
<1>4. u = k + 1
  <2> DEFINE y == (n + 1 + B - 1) % B
  <2>1. B * (k + 1) + x = B * u + y
    <3>1. B * (k + 1) = B * k + B
      BY <1>1
    <3> HIDE DEF B, k, u
    <3> QED BY <1>1, <1>2, <3>1
  <2>2. B * (k + 1) \in Int /\ B * u \in Int /\ y \in 0..(B - 1) /\ k + 1 \in Int
    BY <1>1, <1>2
  <2> HIDE DEF B, k, x, u, y
  <2>3. B * (k + 1) + x <= B * u + y /\ B * u + y <= B * (k + 1) + x
    BY <1>1, <2>1, <2>2
  <2>4. k + 1 <= u
    BY <1>1, <1>2, <2>2, <2>3, BlockIs
  <2>5. u <= k + 1
    BY <1>1, <1>2, <2>2, <2>3, BlockIs
  <2> QED BY <1>1, <1>2, <2>4, <2>5
<1>5. x # 0 => v = k + 1
  <2> SUFFICES ASSUME x # 0
               PROVE  v = k + 1
    OBVIOUS
  <2> DEFINE y == (n + B - 1) % B
             z == x - 1
  <2>1. B * (k + 1) + z = B * v + y
    <3>1. B * (k + 1) = B * k + B
      BY <1>1
    <3> HIDE DEF B, k, v
    <3> QED BY <1>1, <1>3, <3>1
  <2>2. B * (k + 1) \in Int /\ B * v \in Int /\ y \in 0..(B - 1) /\ k + 1 \in Int /\ z \in 0..(B - 1)
    BY <1>1, <1>3
  <2> HIDE DEF B, k, x, v, y, z
  <2>3. B * (k + 1) + z <= B * v + y /\ B * v + y <= B * (k + 1) + z
    BY <1>1, <2>1, <2>2
  <2>4. k + 1 <= v
    BY <1>1, <1>3, <2>2, <2>3, BlockIs
  <2>5. v <= k + 1
    BY <1>1, <1>3, <2>2, <2>3, BlockIs
  <2> QED BY <1>1, <1>3, <2>4, <2>5
<1>6. x = 0 => v = k
  <2> SUFFICES ASSUME x = 0
               PROVE  v = k
    OBVIOUS
  <2> DEFINE y == (n + B - 1) % B
             z == B - 1
  <2>1. B * k + z = B * v + y
    <3> HIDE DEF B, k, v
    <3> QED BY <1>1, <1>3
  <2>2. B * k \in Int /\ B * v \in Int /\ y \in 0..(B - 1) /\ z \in 0..(B - 1)
    BY <1>1, <1>3
  <2> HIDE DEF B, k, x, v, y, z
  <2>3. B * k + z <= B * v + y /\ B * v + y <= B * k + z
    BY <1>1, <2>1, <2>2
  <2>4. k <= v
    BY <1>1, <1>3, <2>2, <2>3, BlockIs
  <2>5. v <= k
    BY <1>1, <1>3, <2>2, <2>3, BlockIs
  <2> QED BY <1>1, <1>3, <2>4, <2>5
<1>7. x # 0 => u = v
  BY <1>4, <1>5
<1>8. x = 0 => u = v + 1
  BY <1>4, <1>6
<1> QED BY <1>7, <1>8 DEF u, v, x, B

\* A sequence of n items has at most n elements.
LEMMA FewElements ==
    ASSUME NEW S, NEW s \in Seq(S)
    PROVE  IsFiniteSet(Elements(s)) /\ Cardinality(Elements(s)) <= Len(s)
<1> DEFINE I == 1..Len(s)
           f == [i \in I |-> s[i]]
<1>1. Len(s) \in Nat
  OBVIOUS
<1>2. IsFiniteSet(I) /\ Cardinality(I) = Len(s)
  BY <1>1, FS_Interval
<1>3. f \in Surjection(I, Elements(s))
  BY DEF Surjection, Elements
<1> HIDE DEF I, f
<1>4. IsFiniteSet(Elements(s)) /\ Cardinality(Elements(s)) <= Cardinality(I)
  BY <1>2, <1>3, FS_Surjection
<1> QED BY <1>2, <1>4

-----------------------------------------------------------------------------
(***************************************************************************)
(* Data: what one item more or less does to the sums.                      *)
(***************************************************************************)

\* The sub-queues that sub may be.
SubQueues == [Threads -> Seq(AsyncMsgs)]

\* The lengths of the sub-queues q, and the blocks they take when the threads have
\* enqueued n items.
LensOf(q) == [t \in Threads |-> Len(q[t])]
HeldOf(q, n) ==
    [t \in Threads |-> ((n[t] + BlockSize - 1) \div BlockSize)
                           - ((n[t] - Len(q[t])) \div BlockSize)]

\* The sums of the specification, in these terms.
LEMMA SumsAre ==
    ASSUME NEW q, q = sub, NEW n, n = tail
    PROVE  /\ BlocksSuffice <=> Blocks - SumFunction(HeldOf(q, n)) >= 0
           /\ FreeBlocks = Blocks - SumFunction(HeldOf(q, n))
           /\ PermitsHaveItems <=>
                 (pool # "crashed" => SumFunction(LensOf(q)) = sema + Cardinality(Claimed))
<1>1. [t \in Threads |-> HeldBlocks(t)] = HeldOf(q, n)
  BY DEF HeldBlocks, HeldOf
<1>2. [t \in Threads |-> Len(sub[t])] = LensOf(q)
  BY DEF LensOf
<1>3. FreeBlocks = Blocks - SumFunction(HeldOf(q, n))
  BY <1>1 DEF FreeBlocks
<1>4. BlocksSuffice <=> FreeBlocks >= 0
  BY DEF BlocksSuffice
<1>5. PermitsHaveItems <=>
         (pool # "crashed" => SumFunction(LensOf(q)) = sema + Cardinality(Claimed))
  BY <1>2 DEF PermitsHaveItems
<1> HIDE DEF LensOf, HeldOf
<1> QED BY <1>3, <1>4, <1>5

\* Lanes with n items in all have at most n elements.
LEMMA FewInLanes ==
    ASSUME NEW q \in SubQueues
    PROVE  /\ IsFiniteSet(UNION {Elements(q[a]) : a \in Threads})
           /\ Cardinality(UNION {Elements(q[a]) : a \in Threads}) <= SumFunction(LensOf(q))
<1> DEFINE S == Threads
           lens == LensOf(q)
<1>s. IsFiniteSet(S) /\ q \in [S -> Seq(AsyncMsgs)]
  BY ThreadsFinite DEF SubQueues
<1>l. lens \in [S -> Int] /\ \A a \in S : lens[a] = Len(q[a])
  BY DEF LensOf, SubQueues
<1> HIDE DEF S, lens
<1>1. PICK n : SumsTo(lens, S, n)
  BY <1>s, <1>l, SumsOf
<1>0. /\ SumFunction(lens) = n[S] /\ n[{}] = 0 /\ \A s \in SUBSET S : n[s] \in Int
      /\ \A s \in SUBSET S : \A a \in s : n[s] = lens[a] + n[s \ {a}]
  BY <1>1 DEF SumsTo
<1> DEFINE All(s) == UNION {Elements(q[a]) : a \in s}
           Few == {s \in SUBSET S : IsFiniteSet(All(s)) /\ Cardinality(All(s)) <= n[s]}
<1>2. ASSUME NEW s \in SUBSET S, \A a \in s : s \ {a} \in Few
      PROVE  s \in Few
  <2>1. CASE s = {}
    <3>1. All(s) = {}
      BY <2>1
    <3>2. IsFiniteSet(All(s)) /\ Cardinality(All(s)) = 0 /\ n[s] = 0
      BY <1>0, <2>1, <3>1, FS_EmptySet
    <3> HIDE DEF All
    <3> QED BY <3>2
  <2>2. CASE s # {}
    <3>1. PICK a \in s : TRUE
      BY <2>2
    <3> DEFINE R == All(s \ {a})
               E == Elements(q[a])
    <3>2. IsFiniteSet(R) /\ Cardinality(R) <= n[s \ {a}]
      BY <1>2
    <3>3. IsFiniteSet(E) /\ Cardinality(E) <= lens[a]
      BY <1>s, <1>l, FewElements
    <3>4. All(s) = E \cup R
      OBVIOUS
    <3>5. n[s] = lens[a] + n[s \ {a}] /\ n[s \ {a}] \in Int /\ lens[a] \in Int
      BY <1>0, <1>l
    <3> HIDE DEF R, E
    <3>6. /\ IsFiniteSet(E \cup R) /\ IsFiniteSet(E \cap R)
          /\ Cardinality(E \cup R) = Cardinality(E) + Cardinality(R) - Cardinality(E \cap R)
      <4>1. IsFiniteSet(E \cup R)
            /\ Cardinality(E \cup R) = Cardinality(E) + Cardinality(R) - Cardinality(E \cap R)
        BY <3>2, <3>3, FS_Union
      <4>2. IsFiniteSet(E \cap R)
        BY <3>2, <3>3, FS_Intersection
      <4> QED BY <4>1, <4>2
    <3>7. Cardinality(E) \in Nat /\ Cardinality(R) \in Nat /\ Cardinality(E \cap R) \in Nat
      BY <3>2, <3>3, <3>6, FS_CardinalityType
    <3>8. Cardinality(E \cup R) <= n[s]
      BY <3>2, <3>3, <3>5, <3>6, <3>7
    <3> QED BY <3>4, <3>6, <3>8
  <2> QED BY <2>1, <2>2
<1> HIDE DEF Few
<1>3. S \in Few
  BY <1>s, <1>2, SubsetsInduction
<1>4. IsFiniteSet(All(S)) /\ Cardinality(All(S)) <= n[S]
  BY <1>3 DEF Few
<1> QED BY <1>0, <1>4 DEF S, lens

\* The blocks are numbers.
LEMMA HeldTyped ==
    ASSUME NEW q \in SubQueues, NEW n \in [Threads -> Nat]
    PROVE  HeldOf(q, n) \in [Threads -> Int]
<1>1. ASSUME NEW t \in Threads
      PROVE  /\ (n[t] + BlockSize - 1) \div BlockSize \in Int
             /\ (n[t] - Len(q[t])) \div BlockSize \in Int
  <2>1. n[t] \in Nat /\ q[t] \in Seq(AsyncMsgs)
    BY DEF SubQueues
  <2>2. n[t] + BlockSize - 1 \in Int /\ n[t] - Len(q[t]) \in Int
    BY <2>1, LockfreeThreadPoolAssumption
  <2> QED BY <2>2, BlockOf
<1> QED BY <1>1 DEF HeldOf

\* The thread a has enqueued one more.
OneMore(n, a) == [n EXCEPT ![a] = @ + 1]

\* One item more.
LEMMA ItemMore ==
    ASSUME NEW q \in SubQueues, NEW a \in Threads, NEW m \in AsyncMsgs, NEW r, Grows(q, r, a, m),
           NEW n \in [Threads -> Nat], NEW k, k = OneMore(n, a)
    PROVE  /\ r \in SubQueues /\ Len(r[a]) = Len(q[a]) + 1
           /\ SumFunction(LensOf(q)) \in Int /\ SumFunction(HeldOf(q, n)) \in Int
           /\ SumFunction(LensOf(r)) = SumFunction(LensOf(q)) + 1
           /\ n[a] % BlockSize # 0 => SumFunction(HeldOf(r, k)) = SumFunction(HeldOf(q, n))
           /\ n[a] % BlockSize = 0 => SumFunction(HeldOf(r, k)) = SumFunction(HeldOf(q, n)) + 1
<1> DEFINE f == LensOf(q)
           g == LensOf(r)
           F == HeldOf(q, n)
           G == HeldOf(r, k)
           u == (n[a] + 1 + BlockSize - 1) \div BlockSize
           v == (n[a] + BlockSize - 1) \div BlockSize
           d == (n[a] - Len(q[a])) \div BlockSize
<1>1. /\ r \in SubQueues /\ r[a] = Append(q[a], m) /\ \A t \in Threads \ {a} : r[t] = q[t]
      /\ q[a] \in Seq(AsyncMsgs) /\ k[a] = n[a] + 1 /\ \A t \in Threads \ {a} : k[t] = n[t]
      /\ k \in [Threads -> Nat]
  BY DEF Grows, SubQueues, OneMore
<1>2. Len(r[a]) = Len(q[a]) + 1 /\ Len(q[a]) \in Nat
  BY <1>1
<1>3. f \in [Threads -> Int] /\ g \in [Threads -> Int]
  BY <1>1 DEF LensOf, SubQueues
<1>4. f[a] = Len(q[a]) /\ g[a] = Len(r[a])
  BY <1>1 DEF LensOf
<1>o. \A t \in Threads \ {a} : g[t] = f[t]
  BY <1>1 DEF LensOf
<1>5. SumFunction(f) \in Int /\ SumFunction(g) = SumFunction(f) - f[a] + g[a]
  <2> HIDE DEF f, g
  <2>1. IsFiniteSet(Threads)
    BY ThreadsFinite
  <2> QED BY <1>3, <1>o, <2>1, SumChange
<1>6. F \in [Threads -> Int] /\ G \in [Threads -> Int]
  BY <1>1, HeldTyped
<1>7. F[a] = v - d /\ G[a] = u - d /\ \A t \in Threads \ {a} : G[t] = F[t]
  <2>1. F[a] = v - d
    BY DEF HeldOf
  <2>2. (n[a] + 1) - (Len(q[a]) + 1) = n[a] - Len(q[a])
    BY <1>2
  <2>3. G[a] = u - d
    BY <1>1, <1>2, <2>2 DEF HeldOf
  <2>4. \A t \in Threads \ {a} : G[t] = F[t]
    BY <1>1 DEF HeldOf
  <2> QED BY <2>1, <2>3, <2>4
<1>8. SumFunction(F) \in Int /\ SumFunction(G) = SumFunction(F) - F[a] + G[a]
  <2> HIDE DEF F, G
  <2>1. IsFiniteSet(Threads)
    BY ThreadsFinite
  <2> QED BY <1>6, <1>7, <2>1, SumChange
<1>9. /\ n[a] % BlockSize # 0 => u = v
      /\ n[a] % BlockSize = 0 => u = v + 1
  BY NextBlock
<1>10. u \in Int /\ v \in Int /\ d \in Int
  <2>1. n[a] + 1 + BlockSize - 1 \in Int /\ n[a] + BlockSize - 1 \in Int /\ n[a] - Len(q[a]) \in Int
    BY <1>2, LockfreeThreadPoolAssumption
  <2> QED BY <2>1, BlockOf
<1> HIDE DEF f, g, F, G, u, v, d
<1>11. SumFunction(g) = SumFunction(f) + 1
  BY <1>2, <1>4, <1>5
<1>12. n[a] % BlockSize # 0 => SumFunction(G) = SumFunction(F)
  BY <1>7, <1>8, <1>9, <1>10
<1>13. n[a] % BlockSize = 0 => SumFunction(G) = SumFunction(F) + 1
  BY <1>7, <1>8, <1>9, <1>10
<1> QED BY <1>1, <1>2, <1>5, <1>8, <1>11, <1>12, <1>13 DEF f, g, F, G

\* One item less.
LEMMA ItemLess ==
    ASSUME NEW q \in SubQueues, NEW a \in Threads, NEW r, Shrinks(q, r, a),
           NEW n \in [Threads -> Nat]
    PROVE  /\ r \in SubQueues /\ Len(r[a]) = Len(q[a]) - 1 /\ q[a][1] \in AsyncMsgs
           /\ SumFunction(LensOf(q)) \in Int /\ SumFunction(HeldOf(q, n)) \in Int
           /\ SumFunction(HeldOf(r, n)) \in Int
           /\ SumFunction(LensOf(r)) = SumFunction(LensOf(q)) - 1
           /\ SumFunction(HeldOf(r, n)) <= SumFunction(HeldOf(q, n))
<1> DEFINE f == LensOf(q)
           g == LensOf(r)
           F == HeldOf(q, n)
           G == HeldOf(r, n)
           v == (n[a] + BlockSize - 1) \div BlockSize
           d == (n[a] - Len(q[a])) \div BlockSize
           e == (n[a] - Len(r[a])) \div BlockSize
<1>1. /\ r \in SubQueues /\ r[a] = Tail(q[a]) /\ \A t \in Threads \ {a} : r[t] = q[t]
      /\ q[a] \in Seq(AsyncMsgs) /\ q[a] # <<>>
  BY DEF Shrinks, SubQueues
<1>2. Len(r[a]) = Len(q[a]) - 1 /\ Len(q[a]) \in Nat /\ q[a][1] \in AsyncMsgs
  BY <1>1
<1>3. f \in [Threads -> Int] /\ g \in [Threads -> Int]
  BY <1>1 DEF LensOf, SubQueues
<1>4. f[a] = Len(q[a]) /\ g[a] = Len(r[a])
  BY <1>1 DEF LensOf
<1>o. \A t \in Threads \ {a} : g[t] = f[t]
  BY <1>1 DEF LensOf
<1>5. SumFunction(f) \in Int /\ SumFunction(g) = SumFunction(f) - f[a] + g[a]
  <2> HIDE DEF f, g
  <2>1. IsFiniteSet(Threads)
    BY ThreadsFinite
  <2> QED BY <1>3, <1>o, <2>1, SumChange
<1>6. F \in [Threads -> Int] /\ G \in [Threads -> Int]
  BY <1>1, HeldTyped
<1>7. F[a] = v - d /\ G[a] = v - e /\ \A t \in Threads \ {a} : G[t] = F[t]
  BY <1>1 DEF HeldOf
<1>8. /\ SumFunction(F) \in Int /\ SumFunction(G) \in Int
      /\ SumFunction(G) = SumFunction(F) - F[a] + G[a]
  <2> HIDE DEF F, G
  <2>1. IsFiniteSet(Threads)
    BY ThreadsFinite
  <2> QED BY <1>6, <1>7, <2>1, SumChange
<1>9. d <= e
  <2>1. n[a] - Len(q[a]) \in Int /\ n[a] - Len(r[a]) \in Int /\ n[a] - Len(q[a]) <= n[a] - Len(r[a])
    BY <1>2
  <2> QED BY <2>1, BlockGrows
<1>10. v \in Int /\ d \in Int /\ e \in Int
  <2>1. n[a] + BlockSize - 1 \in Int /\ n[a] - Len(q[a]) \in Int /\ n[a] - Len(r[a]) \in Int
    BY <1>2, LockfreeThreadPoolAssumption
  <2> QED BY <2>1, BlockOf
<1> HIDE DEF f, g, F, G, v, d, e
<1>11. SumFunction(g) = SumFunction(f) - 1
  BY <1>2, <1>4, <1>5
<1>12. SumFunction(G) <= SumFunction(F)
  BY <1>7, <1>8, <1>9, <1>10
<1> QED BY <1>1, <1>2, <1>5, <1>8, <1>11, <1>12 DEF f, g, F, G

-----------------------------------------------------------------------------
(***************************************************************************)
(* The steps, and what each does to the lanes.                             *)
(***************************************************************************)

\* Every step is one of these.
LEMMA StepCases ==
    ASSUME [Next]_vars
    PROVE  \/ \E t \in Threads : EnqueueMsg(t) \/ EnqueueTerminate(t) \/ SpinEnqueue(t)
           \/ \E w \in Workers : ClaimMsg(w) \/ DequeueMsg(w)
           \/ UNCHANGED queueVars /\ Aside
<1>1. CASE UNCHANGED vars
  BY <1>1 DEF vars, Aside
<1>2. CASE Next
  BY <1>2, ThreadKinds DEF Next, Proceed, Work, AsyncProceed, Aside
<1> QED BY <1>1, <1>2

\* What TypeOK says of the queue.
LEMMA QueueTyped ==
    ASSUME TypeOK
    PROVE  /\ producers \in Seq(Threads) /\ Len(producers) \in Nat
           /\ \A i \in 1..Len(producers) : producers[i] \in Threads
           /\ sub \in SubQueues /\ DOMAIN sub = Threads /\ LanesTyped(sub)
           /\ \A t \in Threads : sub[t] \in Seq(AsyncMsgs)
           /\ tail \in [Threads -> Nat] /\ sema \in Nat
           /\ current \in [Workers -> Threads \cup {Nobody}]
           /\ AsyncTypeOK({"claimed"})
BY DEF TypeOK, SubQueues, LanesTyped

\* A worker visits sub-queues of the list.
LEMMA VisitsFacts ==
    ASSUME TypeOK, Known, NEW w \in Workers, NEW i \in 1..Len(producers)
    PROVE  \E j \in 1..Len(producers) : Visits(w)[i] = producers[j]
<1> DEFINE n == Len(producers)
           c == CHOOSE k \in 1..n : producers[k] = current[w]
           start == IF current[w] = Nobody THEN (w - 1) % n ELSE c - 1
           x == start + n + 1 - i
<1>1. n \in Nat /\ n >= 1 /\ i \in 1..n
  BY QueueTyped
<1>2. start \in Int
  <2>1. CASE current[w] = Nobody
    <3>1. w - 1 \in Int
      BY ThreadsFinite DEF Workers
    <3>2. (w - 1) % n \in Int
      BY <1>1, <3>1
    <3> HIDE DEF n
    <3> QED BY <2>1, <3>2
  <2>2. CASE current[w] # Nobody
    <3>1. c \in 1..n
      BY <2>2 DEF Known
    <3>2. start = c - 1
      BY <2>2
    <3> HIDE DEF c, start
    <3> QED BY <1>1, <3>1, <3>2
  <2> QED BY <2>1, <2>2
<1>3. Visits(w)[i] = producers[(x % n) + 1]
  BY Zenon DEF Visits
<1> HIDE DEF start, n
<1>4. x \in Int
  BY <1>1, <1>2
<1> HIDE DEF x
<1>5. x % n \in 0..(n - 1)
  BY <1>1, <1>4
<1>6. (x % n) + 1 \in 1..n
  BY <1>1, <1>5
<1> QED BY <1>3, <1>6 DEF n

\* What DequeueMsg takes.
LEMMA DequeueFacts ==
    ASSUME TypeOK, Known, NEW w \in Workers, DequeueMsg(w), NEW q, q = sub, NEW r, r = sub'
    PROVE  \E a \in Threads :
              /\ \E j \in 1..Len(producers) : a = producers[j]
              /\ Shrinks(q, r, a) /\ Received(w, q[a][1])
              /\ current' = [current EXCEPT ![w] = a]
<1>1. PICK i \in 1..Len(producers) :
          LET visited == Visits(w)
          IN  /\ sub[visited[i]] # <<>>
              /\ \A j \in 1..(i - 1) : sub[visited[j]] = <<>>
              /\ current' = [current EXCEPT ![w] = visited[i]]
              /\ TakeFrom(w, visited[i])
  BY DEF DequeueMsg
<1>2. PICK j \in 1..Len(producers) : Visits(w)[i] = producers[j]
  BY VisitsFacts
<1> DEFINE a == producers[j]
<1>3. a \in Threads
  BY QueueTyped
<1>4. sub[a] # <<>> /\ current' = [current EXCEPT ![w] = a] /\ TakeFrom(w, a)
  BY <1>1, <1>2
<1> HIDE DEF a
<1>5. sub' = [sub EXCEPT ![a] = Tail(@)] /\ Received(w, Head(sub[a]))
  BY <1>4 DEF TakeFrom
<1>6. Head(sub[a]) = q[a][1]
  BY <1>3, <1>4, QueueTyped
<1>7. Shrinks(q, r, a)
  BY <1>3, <1>4, <1>5, QueueTyped DEF Shrinks
<1>8. Received(w, q[a][1])
  BY <1>5, <1>6
<1> QED BY <1>3, <1>4, <1>7, <1>8 DEF a

\* Who is about to enqueue, and what.
LEMMA EnqueueFacts ==
    ASSUME TypeOK, NEW q, q = sub, NEW r, r = sub', NEW t \in Threads, NEW m, TryEnqueue(t, m)
    PROVE  /\ Grows(q, r, t, m) /\ tail' = [tail EXCEPT ![t] = @ + 1] /\ sema' = sema + 1
           /\ producers' = Registered(t) /\ current' = current
           /\ (tail[t] % BlockSize = 0 => FreeBlocks > 0)
BY QueueTyped DEF TryEnqueue, Grows, HasRoom

\* Every step is one of a pool with lanes.
LEMMA MoveOf ==
    ASSUME PoolInv, [Next]_vars, NEW q, q = sub, NEW r, r = sub'
    PROVE  AsyncMove({"claimed"}, q, r)
<1>0. TypeOK /\ Own /\ Known /\ AsyncInv(q)
  BY DEF PoolInv, Lanes
<1>t. DOMAIN q = Threads
  BY <1>0, QueueTyped
<1>h. \A t \in Threads : Home(q, t, t)
  BY <1>0, <1>t DEF Home, Own, Places
<1>1. ASSUME NEW t \in Threads, EnqueueMsg(t)
      PROVE  AsyncMove({"claimed"}, q, r)
  <2>1. Grows(q, r, t, msg[t])
    BY <1>0, <1>1, EnqueueFacts DEF EnqueueMsg
  <2>2. pc[t] \in Inside /\ Enqueued(t)
    BY <1>1 DEF EnqueueMsg, Inside
  <2>3. Enqueues(q, r, t)
    BY <1>h, <1>t, <2>1, <2>2 DEF Enqueues
  <2> QED BY <2>3 DEF AsyncMove
<1>2. ASSUME NEW t \in Threads, EnqueueTerminate(t)
      PROVE  AsyncMove({"claimed"}, q, r)
  <2>1. Grows(q, r, t, Terminate)
    BY <1>0, <1>2, EnqueueFacts DEF EnqueueTerminate
  <2>2. Terminates(q, r, t)
    BY <1>2, <1>t, <2>1 DEF Terminates, EnqueueTerminate, Terminating
  <2> QED BY <2>2 DEF AsyncMove
<1>3. ASSUME NEW t \in Threads, SpinEnqueue(t)
      PROVE  AsyncMove({"claimed"}, q, r)
  <2>1. r = q /\ UNCHANGED asyncVars
    BY <1>3 DEF SpinEnqueue, FailEnqueue
  <2>2. Aside
    BY <2>1 DEF Aside
  <2> QED BY <2>1, <2>2 DEF AsyncMove
<1>4. ASSUME NEW w \in Workers, ClaimMsg(w)
      PROVE  AsyncMove({"claimed"}, q, r)
  <2>1. Moves(w, "claimed") /\ r = q
    BY <1>4 DEF ClaimMsg, Moves
  <2>2. w \in Threads /\ "claimed" \in PCs \cup {"claimed"}
    BY ThreadKinds
  <2>3. \E t \in Threads : \E p \in PCs \cup {"claimed"} : Moves(t, p)
    BY <2>1, <2>2, Zenon
  <2> QED BY <2>1, <2>3 DEF AsyncMove
<1>5. ASSUME NEW w \in Workers, DequeueMsg(w)
      PROVE  AsyncMove({"claimed"}, q, r)
  <2>1. PICK a \in Threads : Shrinks(q, r, a) /\ Received(w, q[a][1])
    BY <1>0, <1>5, DequeueFacts
  <2>2. Dequeues(q, r, w)
    BY <1>5, <1>t, <2>1 DEF Dequeues, DequeueMsg
  <2> QED BY <2>2 DEF AsyncMove
<1>6. ASSUME UNCHANGED queueVars, Aside
      PROVE  AsyncMove({"claimed"}, q, r)
  BY <1>6 DEF queueVars, Aside, AsyncMove
<1> QED BY <1>1, <1>2, <1>3, <1>4, <1>5, <1>6, StepCases

-----------------------------------------------------------------------------
(***************************************************************************)
(* The parts of the invariant, step by step.                               *)
(***************************************************************************)

\* A thread that enqueues is in the list once, and the others stay.
LEMMA RegisteredFacts ==
    ASSUME TypeOK, NEW t \in Threads
    PROVE  /\ Registered(t) \in Seq(Threads) /\ IsInjective(Registered(t))
           /\ \A i \in 1..Len(producers) :
                 i \in 1..Len(Registered(t)) /\ Registered(t)[i] = producers[i]
<1>1. producers \in Seq(Threads) /\ IsInjective(producers) /\ Len(producers) \in Nat
  BY DEF TypeOK
<1>2. CASE t \in Range(producers)
  BY <1>1, <1>2 DEF Registered
<1>3. CASE t \notin Range(producers)
  <2> DEFINE s == Append(producers, t)
             n == Len(producers)
  <2>1. Registered(t) = s
    BY <1>3 DEF Registered
  <2>2. /\ s \in Seq(Threads) /\ Len(s) = n + 1 /\ s[n + 1] = t /\ n \in Nat
        /\ \A i \in 1..n : s[i] = producers[i]
    BY <1>1
  <2>3. \A i \in 1..n : producers[i] # t
    BY <1>1, <1>3 DEF Range
  <2>4. DOMAIN s = 1..(n + 1)
    BY <2>2
  <2>5. \A i, j \in 1..n : producers[i] = producers[j] => i = j
    BY <1>1 DEF IsInjective
  <2> HIDE DEF s, n
  <2>6. \A i, j \in 1..(n + 1) : s[i] = s[j] => i = j
    <3>1. \A i \in 1..(n + 1) : i \in 1..n \/ i = n + 1
      BY <2>2
    <3> QED BY <2>2, <2>3, <2>5, <3>1
  <2>7. IsInjective(s)
    BY <2>4, <2>6 DEF IsInjective
  <2>8. \A i \in 1..n : i \in 1..Len(s) /\ s[i] = producers[i]
    BY <2>2
  <2> QED BY <2>1, <2>2, <2>7, <2>8 DEF n
<1> QED BY <1>2, <1>3

\* TypeOK, Own and Known.
LEMMA QueueStep ==
    ASSUME TypeOK, Own, Known, Roles, AsyncTypeOK({"claimed"})', [Next]_vars
    PROVE  TypeOK' /\ Own' /\ Known'
<1>0. /\ producers \in Seq(Threads) /\ IsInjective(producers) /\ sub \in [Threads -> Seq(AsyncMsgs)]
      /\ tail \in [Threads -> Nat] /\ sema \in Nat
      /\ current \in [Workers -> Threads \cup {Nobody}]
  BY DEF TypeOK
<1>1. ASSUME UNCHANGED queueVars
      PROVE  TypeOK' /\ Own' /\ Known'
  BY <1>1, <1>0 DEF queueVars, TypeOK, Own, Known
<1>r. ASSUME NEW t \in Threads, producers' = Registered(t), current' = current
      PROVE  /\ producers' \in Seq(Threads) /\ IsInjective(producers)'
             /\ current' \in [Workers -> Threads \cup {Nobody}] /\ Known'
  <2>1. producers' \in Seq(Threads) /\ IsInjective(producers)'
    BY <1>r, RegisteredFacts DEF IsInjective
  <2>2. \A i \in 1..Len(producers) : i \in 1..Len(producers') /\ producers'[i] = producers[i]
    BY <1>r, RegisteredFacts
  <2>3. Known'
    BY <1>r, <2>2 DEF Known
  <2> QED BY <1>0, <1>r, <2>1, <2>3
<1>2. ASSUME NEW t \in Threads, NEW m \in AsyncMsgs, TryEnqueue(t, m),
             m \in LogMsgs => m.from = t
      PROVE  TypeOK' /\ Own' /\ Known'
  <2> DEFINE s == sub[t]
             u == sub'[t]
  <2>1. producers' = Registered(t) /\ current' = current /\ sema' = sema + 1
        /\ sub' = [sub EXCEPT ![t] = Append(@, m)] /\ tail' = [tail EXCEPT ![t] = @ + 1]
    BY <1>2 DEF TryEnqueue
  <2>2. /\ producers' \in Seq(Threads) /\ IsInjective(producers)'
        /\ current' \in [Workers -> Threads \cup {Nobody}] /\ Known'
    BY <2>1, <1>r
  <2>3. /\ sub' \in [Threads -> Seq(AsyncMsgs)] /\ tail' \in [Threads -> Nat] /\ sema' \in Nat
        /\ u = Append(s, m) /\ tail'[t] = tail[t] + 1 /\ tail[t] \in Nat /\ s \in Seq(AsyncMsgs)
        /\ \A x \in Threads \ {t} : sub'[x] = sub[x] /\ tail'[x] = tail[x]
    BY <1>0, <2>1
  <2>4. TypeOK'
    BY <2>2, <2>3 DEF TypeOK
  <2>5. /\ \A i \in 1..Len(s) : s[i] \in LogMsgs => s[i].from = t
        /\ Len(s) <= tail[t]
    BY DEF Own
  <2> HIDE DEF s, u
  <2>6. Len(u) = Len(s) + 1 /\ Len(s) \in Nat /\ u[Len(s) + 1] = m
        /\ \A i \in 1..Len(s) : u[i] = s[i]
    BY <2>3
  <2>7. \A i \in 1..Len(u) : i \in 1..Len(s) \/ i = Len(s) + 1
    BY <2>6
  <2>8. \A i \in 1..Len(u) : u[i] \in LogMsgs => u[i].from = t
    BY <1>2, <2>5, <2>6, <2>7
  <2>9. Len(u) <= tail'[t]
    BY <2>3, <2>5, <2>6
  <2>10. \A x \in Threads \ {t} : /\ \A i \in 1..Len(sub'[x]) : sub'[x][i] \in LogMsgs => sub'[x][i].from = x
                                  /\ Len(sub'[x]) <= tail'[x]
    BY <2>3 DEF Own
  <2>11. Own'
    BY <2>8, <2>9, <2>10 DEF Own, u
  <2> QED BY <2>2, <2>4, <2>11
<1>3. ASSUME NEW t \in Threads, EnqueueMsg(t)
      PROVE  TypeOK' /\ Own' /\ Known'
  <2>1. TryEnqueue(t, msg[t]) /\ pc[t] = "enqueue"
    BY <1>3 DEF EnqueueMsg
  <2>2. msg[t] \in AsyncMsgs
    BY QueueTyped, Typed
  <2>3. msg[t] \in LogMsgs => msg[t].from = t
    BY <2>1, MsgKinds DEF Roles, Inside
  <2> QED BY <1>2, <2>1, <2>2, <2>3
<1>4. ASSUME NEW t \in Threads, EnqueueTerminate(t)
      PROVE  TypeOK' /\ Own' /\ Known'
  <2>1. TryEnqueue(t, Terminate)
    BY <1>4 DEF EnqueueTerminate
  <2> QED BY <1>2, <2>1, MsgKinds
<1>5. ASSUME NEW t \in Threads, SpinEnqueue(t)
      PROVE  TypeOK' /\ Own' /\ Known'
  <2>1. producers' = Registered(t) /\ UNCHANGED <<sub, tail, sema, current>>
    BY <1>5 DEF SpinEnqueue, FailEnqueue
  <2>2. /\ producers' \in Seq(Threads) /\ IsInjective(producers)'
        /\ current' \in [Workers -> Threads \cup {Nobody}] /\ Known'
    BY <2>1, <1>r
  <2>3. TypeOK'
    BY <1>0, <2>1, <2>2 DEF TypeOK
  <2>4. Own'
    BY <2>1 DEF Own
  <2> QED BY <2>2, <2>3, <2>4
<1>6. ASSUME NEW w \in Workers, ClaimMsg(w)
      PROVE  TypeOK' /\ Own' /\ Known'
  <2>1. sema > 0 /\ sema' = sema - 1 /\ UNCHANGED <<producers, sub, tail, current>>
    BY <1>6 DEF ClaimMsg
  <2>2. TypeOK'
    BY <1>0, <2>1 DEF TypeOK
  <2>3. Own' /\ Known'
    BY <2>1 DEF Own, Known
  <2> QED BY <2>2, <2>3
<1>7. ASSUME NEW w \in Workers, DequeueMsg(w)
      PROVE  TypeOK' /\ Own' /\ Known'
  <2> DEFINE q == sub
             r == sub'
  <2>1. PICK a \in Threads :
            /\ \E j \in 1..Len(producers) : a = producers[j]
            /\ Shrinks(q, r, a) /\ current' = [current EXCEPT ![w] = a]
    BY <1>7, DequeueFacts
  <2>2. UNCHANGED <<producers, tail, sema>>
    BY <1>7 DEF DequeueMsg
  <2>3. LaneShrinks(q, r, a)
    BY <2>1, LaneFacts, QueueTyped
  <2>4. sub' = [sub EXCEPT ![a] = Tail(@)] /\ sub[a] # <<>>
    BY <2>1 DEF Shrinks
  <2>5. sub' \in [Threads -> Seq(AsyncMsgs)]
    BY <1>0, <2>4
  <2>6. current' \in [Workers -> Threads \cup {Nobody}]
    BY <1>0, <2>1
  <2>7. TypeOK'
    BY <1>0, <2>2, <2>5, <2>6 DEF TypeOK
  <2>8. Known'
    BY <1>0, <2>1, <2>2 DEF Known
  <2>9. Own'
    <3>1. /\ a \in Threads /\ \A b \in Threads \ {a} : sub'[b] = sub[b]
          /\ Len(sub[a]) \in Nat /\ Len(sub'[a]) = Len(sub[a]) - 1
          /\ \A i \in 1..Len(sub'[a]) : sub'[a][i] = sub[a][i + 1]
      BY <1>0, <2>3 DEF LaneShrinks, Places
    <3>2. \A i \in 1..Len(sub'[a]) : i + 1 \in 1..Len(sub[a])
      BY <3>1
    <3>3. tail' = tail /\ tail[a] \in Nat
      BY <1>0, <2>2
    <3>4. \A i \in 1..Len(sub'[a]) : sub'[a][i] \in LogMsgs => sub'[a][i].from = a
      BY <3>1, <3>2 DEF Own
    <3>5. Len(sub'[a]) <= tail'[a]
      <4>1. Len(sub[a]) <= tail[a]
        BY DEF Own
      <4> QED BY <3>1, <3>3, <4>1
    <3> QED BY <3>1, <3>3, <3>4, <3>5 DEF Own
  <2> QED BY <2>7, <2>8, <2>9
<1> QED BY <1>1, <1>3, <1>4, <1>5, <1>6, <1>7, StepCases

\* The steps that leave the queue alone give no worker a permit and take none away.
LEMMA ClaimsStay ==
    ASSUME AsyncTypeOK({"claimed"}), Roles, pool' # "crashed",
           \/ Aside
           \/ \E t \in Threads : EnqueueMsg(t) \/ EnqueueTerminate(t) \/ SpinEnqueue(t)
    PROVE  Claimed' = Claimed
<1> DEFINE Stays == \A w \in Workers : pc'[w] = "claimed" <=> pc[w] = "claimed"
<1>1. CASE Aside
  <2>1. Stays
    BY <1>1, AsideQuiet, ThreadKinds DEF Quiet
  <2> QED BY <2>1 DEF Claimed
<1>2. ASSUME NEW t \in Threads, EnqueueMsg(t)
      PROVE  Claimed' = Claimed
  <2>1. pc[t] = "enqueue" /\ \E p \in {"release", "await"} : GoTo(t, p)
    BY <1>2 DEF EnqueueMsg, Enqueued
  <2>2. Stays
    BY <2>1, GoToFacts, ThreadKinds
  <2> QED BY <2>2 DEF Claimed
<1>3. ASSUME NEW t \in Threads, EnqueueTerminate(t) \/ SpinEnqueue(t)
      PROVE  Claimed' = Claimed
  BY <1>3 DEF EnqueueTerminate, TerminateSent, SpinEnqueue, asyncVars, Claimed
<1> QED BY <1>1, <1>2, <1>3

\* A worker with a permit, or one that has used it up.
LEMMA ClaimsChange ==
    ASSUME AsyncTypeOK({"claimed"}), NEW w \in Workers, NEW p, GoTo(w, p)
    PROVE  /\ Cardinality(Claimed) \in 0..ThreadsNum
           /\ pc[w] # "claimed" /\ p = "claimed" => Cardinality(Claimed)' = Cardinality(Claimed) + 1
           /\ pc[w] = "claimed" /\ p # "claimed" => Cardinality(Claimed)' = Cardinality(Claimed) - 1
<1> DEFINE c == Claimed
           d == Claimed'
<1>1. pc'[w] = p /\ \A v \in Workers \ {w} : pc'[v] = pc[v]
  BY GoToFacts, ThreadKinds
<1>2. c \subseteq Workers /\ d \subseteq Workers
  BY DEF Claimed
<1>3. /\ IsFiniteSet(c) /\ Cardinality(c) \in Nat /\ Cardinality(c) <= ThreadsNum
      /\ IsFiniteSet(d) /\ Cardinality(d) \in Nat
  BY <1>2, ThreadsFinite, FS_Subset, FS_CardinalityType
<1>4. pc[w] # "claimed" /\ p = "claimed" => w \notin c /\ d = c \cup {w}
  BY <1>1 DEF Claimed
<1>5. pc[w] = "claimed" /\ p # "claimed" => w \in c /\ d = c \ {w}
  BY <1>1 DEF Claimed
<1> HIDE DEF c, d
<1>6. pc[w] # "claimed" /\ p = "claimed" => Cardinality(d) = Cardinality(c) + 1
  BY <1>3, <1>4, FS_AddElement
<1>7. pc[w] = "claimed" /\ p # "claimed" => Cardinality(d) = Cardinality(c) - 1
  BY <1>3, <1>5, FS_RemoveElement
<1>8. Cardinality(c) \in 0..ThreadsNum
  BY <1>3, ThreadsFinite
<1> QED BY <1>6, <1>7, <1>8 DEF c, d

\* The permits stand for the items.
LEMMA PermitsStep ==
    ASSUME PoolInv, [Next]_vars, pool # "crashed"
    PROVE  PermitsHaveItems'
<1> SUFFICES ASSUME pool' # "crashed"
             PROVE  PermitsHaveItems'
  BY DEF PermitsHaveItems
<1>p. PICK q : q = sub /\ AsyncInv(q)
  BY DEF PoolInv, Lanes
<1>q. PICK r : r = sub'
  OBVIOUS
<1>n. PICK n : n = tail
  OBVIOUS
<1>0. /\ TypeOK /\ Known /\ AsyncTypeOK({"claimed"}) /\ Roles /\ q \in SubQueues
      /\ n \in [Threads -> Nat] /\ sema \in Nat
  BY <1>p, <1>n, QueueTyped DEF PoolInv, AsyncInv
<1> DEFINE S(x) == SumFunction(LensOf(x))
           C == Cardinality(Claimed)
           Goal == S(r) = sema' + C'
<1>1. S(q) = sema + C
  BY <1>p, <1>n, SumsAre DEF PoolInv
<1>2. SUFFICES Goal
  <2>1. [t \in Threads |-> Len(sub'[t])] = LensOf(r)
    BY <1>q DEF LensOf
  <2> QED BY <2>1 DEF PermitsHaveItems
<1>3. ASSUME r = q, sema' = sema, Claimed' = Claimed
      PROVE  Goal
  BY <1>1, <1>3
<1>c. C \in Int
  <2>1. Claimed \subseteq Workers
    BY DEF Claimed
  <2>2. Cardinality(Claimed) \in Nat
    BY <2>1, ThreadsFinite, FS_Subset, FS_CardinalityType
  <2> QED BY <2>2
<1>4. ASSUME NEW t \in Threads, NEW m \in AsyncMsgs, TryEnqueue(t, m), Claimed' = Claimed
      PROVE  Goal
  <2>1. Grows(q, r, t, m) /\ sema' = sema + 1
    BY <1>0, <1>p, <1>q, <1>4, EnqueueFacts
  <2>2. S(r) = S(q) + 1 /\ S(q) \in Int
    <3>1. \A k : k = OneMore(n, t) => S(r) = S(q) + 1 /\ S(q) \in Int
      BY <1>0, <2>1, ItemMore
    <3> QED BY <3>1
  <2>3. C' = C
    BY <1>4
  <2> HIDE DEF S, C
  <2> QED BY <1>0, <1>1, <1>c, <2>1, <2>2, <2>3
<1>5. ASSUME NEW t \in Threads, EnqueueMsg(t)
      PROVE  Goal
  <2>1. Claimed' = Claimed
    BY <1>0, <1>5, ClaimsStay
  <2>2. TryEnqueue(t, msg[t]) /\ msg[t] \in AsyncMsgs
    BY <1>0, <1>5, Typed DEF EnqueueMsg
  <2> QED BY <1>4, <2>1, <2>2
<1>6. ASSUME NEW t \in Threads, EnqueueTerminate(t)
      PROVE  Goal
  <2>1. Claimed' = Claimed
    BY <1>0, <1>6, ClaimsStay
  <2>2. TryEnqueue(t, Terminate)
    BY <1>6 DEF EnqueueTerminate
  <2> QED BY <1>4, <2>1, <2>2, MsgKinds
<1>7. ASSUME NEW t \in Threads, SpinEnqueue(t)
      PROVE  Goal
  <2>1. Claimed' = Claimed
    BY <1>0, <1>7, ClaimsStay
  <2>2. sub' = sub /\ sema' = sema
    BY <1>7 DEF SpinEnqueue, FailEnqueue
  <2> QED BY <1>3, <1>p, <1>q, <2>1, <2>2
<1>8. ASSUME NEW w \in Workers, ClaimMsg(w)
      PROVE  Goal
  <2>1. pc[w] = "loop" /\ GoTo(w, "claimed") /\ sema' = sema - 1 /\ sub' = sub
    BY <1>8 DEF ClaimMsg
  <2>2. C' = C + 1
    BY <1>0, <2>1, ClaimsChange
  <2>3. S(r) = S(q)
    BY <1>p, <1>q, <2>1
  <2> HIDE DEF S, C
  <2> QED BY <1>0, <1>1, <1>c, <2>1, <2>2, <2>3
<1>9. ASSUME NEW w \in Workers, DequeueMsg(w)
      PROVE  Goal
  <2>1. PICK a \in Threads : Shrinks(q, r, a) /\ Received(w, q[a][1])
    BY <1>0, <1>p, <1>q, <1>9, DequeueFacts
  <2>2. q[a][1] \in AsyncMsgs /\ S(r) = S(q) - 1 /\ S(q) \in Int
    BY <1>0, <2>1, ItemLess
  <2>3. pc[w] = "claimed" /\ sema' = sema
    BY <1>9 DEF DequeueMsg
  <2>4. C' = C - 1
    <3> DEFINE m == q[a][1]
    <3>1. pc' = [pc EXCEPT ![w] = WorkOn(m)]
      BY <2>1, ReceivedFacts
    <3>2. GoTo(w, WorkOn(m)) /\ WorkOn(m) # "claimed"
      BY <2>2, <3>1, WorkOnFacts, MsgKinds DEF GoTo
    <3> QED BY <1>0, <2>3, <3>2, ClaimsChange
  <2> HIDE DEF S, C
  <2> QED BY <1>0, <1>1, <1>c, <2>2, <2>3, <2>4
<1>10. ASSUME UNCHANGED queueVars, Aside
       PROVE  Goal
  <2>1. Claimed' = Claimed
    BY <1>0, <1>10, ClaimsStay
  <2>2. sub' = sub /\ sema' = sema
    BY <1>10 DEF queueVars
  <2> QED BY <1>3, <1>p, <1>q, <2>1, <2>2
<1> HIDE DEF Goal
<1> QED BY <1>5, <1>6, <1>7, <1>8, <1>9, <1>10, StepCases

\* The blocks suffice.
LEMMA BlocksStep ==
    ASSUME TypeOK, Known, BlocksSuffice, [Next]_vars
    PROVE  BlocksSuffice'
<1>p. PICK q : q = sub
  OBVIOUS
<1>q. PICK r : r = sub'
  OBVIOUS
<1>n. PICK n : n = tail
  OBVIOUS
<1>k. PICK k : k = tail'
  OBVIOUS
<1>0. q \in SubQueues /\ n \in [Threads -> Nat] /\ Blocks \in Int
  BY <1>p, <1>n, QueueTyped, LockfreeThreadPoolAssumption
<1> DEFINE S(x, y) == SumFunction(HeldOf(x, y))
           Goal == Blocks - S(r, k) >= 0
<1>1. Blocks - S(q, n) >= 0 /\ FreeBlocks = Blocks - S(q, n)
  BY <1>p, <1>n, SumsAre
<1>2. SUFFICES Goal
  <2>1. [t \in Threads |-> (HeldBlocks(t))'] = HeldOf(r, k)
    BY <1>q, <1>k DEF HeldOf, HeldBlocks
  <2> QED BY <2>1 DEF BlocksSuffice, FreeBlocks
<1>3. ASSUME r = q, k = n
      PROVE  Goal
  BY <1>1, <1>3
<1>4. ASSUME NEW t \in Threads, NEW m \in AsyncMsgs, TryEnqueue(t, m)
      PROVE  Goal
  <2>1. Grows(q, r, t, m) /\ k = OneMore(n, t)
    BY <1>p, <1>q, <1>n, <1>k, <1>4, EnqueueFacts DEF OneMore
  <2>2. n[t] % BlockSize = 0 => FreeBlocks > 0
    BY <1>p, <1>q, <1>n, <1>4, EnqueueFacts
  <2>3. /\ S(q, n) \in Int
        /\ n[t] % BlockSize # 0 => S(r, k) = S(q, n)
        /\ n[t] % BlockSize = 0 => S(r, k) = S(q, n) + 1
    BY <1>0, <2>1, ItemMore
  <2> DEFINE x == n[t] % BlockSize
  <2> HIDE DEF S, x
  <2> QED BY <1>0, <1>1, <2>2, <2>3 DEF x
<1>5. ASSUME NEW t \in Threads, EnqueueMsg(t)
      PROVE  Goal
  <2>1. TryEnqueue(t, msg[t]) /\ msg[t] \in AsyncMsgs
    BY <1>5, Typed, QueueTyped DEF EnqueueMsg
  <2> QED BY <1>4, <2>1
<1>6. ASSUME NEW t \in Threads, EnqueueTerminate(t)
      PROVE  Goal
  BY <1>4, <1>6, MsgKinds DEF EnqueueTerminate
<1>7. ASSUME NEW t \in Threads, SpinEnqueue(t)
      PROVE  Goal
  BY <1>3, <1>p, <1>q, <1>n, <1>k, <1>7 DEF SpinEnqueue, FailEnqueue
<1>8. ASSUME NEW w \in Workers, ClaimMsg(w)
      PROVE  Goal
  BY <1>3, <1>p, <1>q, <1>n, <1>k, <1>8 DEF ClaimMsg
<1>9. ASSUME NEW w \in Workers, DequeueMsg(w)
      PROVE  Goal
  <2>1. PICK a \in Threads : Shrinks(q, r, a)
    BY <1>p, <1>q, <1>9, DequeueFacts
  <2>2. S(q, n) \in Int /\ S(r, n) \in Int /\ S(r, n) <= S(q, n)
    BY <1>0, <2>1, ItemLess
  <2>3. k = n
    BY <1>9, <1>n, <1>k DEF DequeueMsg
  <2> HIDE DEF S
  <2> QED BY <1>0, <1>1, <2>2, <2>3
<1>10. ASSUME UNCHANGED queueVars
       PROVE  Goal
  BY <1>3, <1>p, <1>q, <1>n, <1>k, <1>10 DEF queueVars
<1> HIDE DEF Goal
<1> QED BY <1>5, <1>6, <1>7, <1>8, <1>9, <1>10, StepCases

\* The messages of the specification are those of the lanes.
LEMMA QueuedIs ==
    ASSUME TypeOK, NEW q, q = sub
    PROVE  Queued = QueuedIn(q)
BY QueueTyped DEF Queued, QueuedIn

\* While no worker has a permit to spare, there are few messages.
LEMMA FewWithoutPermits ==
    ASSUME TypeOK, PermitsHaveItems, pool # "crashed", sema = 0, NEW q, q = sub
    PROVE  IsFiniteSet(QueuedIn(q)) /\ Cardinality(QueuedIn(q)) <= ThreadsNum
<1> DEFINE U == UNION {Elements(q[t]) : t \in Threads}
           Q == QueuedIn(q)
           n == SumFunction(LensOf(q))
<1>1. q \in SubQueues /\ DOMAIN q = Threads
  BY QueueTyped
<1>2. IsFiniteSet(U) /\ Cardinality(U) <= n
  BY <1>1, FewInLanes
<1>3. Q \subseteq U
  <2>1. Q = LogMsgs \cap U
    BY <1>1 DEF QueuedIn
  <2> HIDE DEF Q, U
  <2> QED BY <2>1
<1>4. n = sema + Cardinality(Claimed)
  <2>1. PICK k : k = tail
    OBVIOUS
  <2> QED BY <2>1, SumsAre
<1>5. Cardinality(Claimed) \in Nat /\ Cardinality(Claimed) <= ThreadsNum
  <2>1. Claimed \subseteq Workers
    BY DEF Claimed
  <2> QED BY <2>1, ThreadsFinite, FS_Subset, FS_CardinalityType
<1> HIDE DEF U, Q, n
<1>6. IsFiniteSet(Q) /\ Cardinality(Q) <= Cardinality(U)
  BY <1>2, <1>3, FS_Subset
<1>7. Cardinality(Q) \in Nat /\ Cardinality(U) \in Nat
  BY <1>2, <1>6, FS_CardinalityType
<1>8. n = Cardinality(Claimed)
  BY <1>4, <1>5
<1>9. Cardinality(Q) <= ThreadsNum
  BY <1>2, <1>5, <1>6, <1>7, <1>8, ThreadsFinite
<1> QED BY <1>6, <1>9 DEF Q

\* The messages left behind are few.
LEMMA FewLeftStep ==
    ASSUME PoolInv, TypeOK', [Next]_vars, pool # "crashed"
    PROVE  FewLeft'
<1>p. PICK q : q = sub /\ AsyncInv(q)
  BY DEF PoolInv, Lanes
<1>q. PICK r : r = sub'
  OBVIOUS
<1>0. /\ TypeOK /\ Known /\ PermitsHaveItems /\ AsyncTypeOK({"claimed"}) /\ LifeOfPool /\ FewLeft
      /\ LanesTyped(q) /\ DOMAIN q = Threads /\ to_stop \in 0..ThreadsNum
  BY <1>p, QueueTyped, Typed DEF PoolInv, AsyncInv, Running
<1> DEFINE Few(Q) == IsFiniteSet(Q) /\ Cardinality(Q) <= ThreadsNum
           P == QueuedIn(q)
           R == QueuedIn(r)
<1>1. Queued = P /\ Queued' = R
  <2>1. Queued = P
    BY <1>0, <1>p, QueuedIs
  <2>2. \A t \in Threads : Elements(sub'[t]) = Elements(r[t])
    BY <1>q
  <2>3. DOMAIN r = Threads
    BY <1>q DEF TypeOK
  <2>4. (Queued)' = R
    BY <1>q, <2>3 DEF Queued, QueuedIn, Elements
  <2> QED BY <2>1, <2>4
<1> HIDE DEF P, R, Few
<1> DEFINE Had == /\ pool = "destroyed" => to_stop < ThreadsNum
                  /\ pool \in {"dying", "destroyed"} /\ to_stop < ThreadsNum => Few(P)
           Has == /\ pool' = "destroyed" => to_stop' < ThreadsNum
                  /\ pool' \in {"dying", "destroyed"} /\ to_stop' < ThreadsNum => Few(R)
<1>2. Had
  BY <1>0, <1>1 DEF FewLeft, Few
<1>3. SUFFICES Has
  BY <1>1, Zenon DEF FewLeft, Few
<1>4. ASSUME pool' = pool, to_stop' = to_stop, R = P
      PROVE  Has
  BY <1>2, <1>4
<1>5. ASSUME NEW t \in Threads, EnqueueMsg(t)
      PROVE  Has
  <2>1. pc[t] = "enqueue" /\ pool' = pool
    BY <1>5 DEF EnqueueMsg, Enqueued, poolVars
  <2>2. pool = "alive"
    BY <1>0, <2>1 DEF LifeOfPool, Inside
  <2> QED BY <2>1, <2>2
<1>6. ASSUME NEW t \in Threads, EnqueueTerminate(t)
      PROVE  Has
  <2>1. /\ pc[t] = "terminate" /\ to_stop > 0 /\ (to_stop = ThreadsNum => sema = 0)
        /\ TryEnqueue(t, Terminate) /\ pool' = pool /\ to_stop' = to_stop - 1
    BY <1>6 DEF EnqueueTerminate, Terminating, TerminateSent
  <2>2. pool = "dying"
    BY <1>0, <2>1 DEF LifeOfPool
  <2>3. Grows(q, r, t, Terminate)
    BY <1>0, <1>p, <1>q, <2>1, EnqueueFacts
  <2>4. LaneGrows(q, r, t, Terminate) /\ Terminate \notin LogMsgs
    BY <1>0, <2>3, LaneFacts, MsgKinds
  <2>5. R = P
    BY <2>4, GrowFacts DEF R, P
  <2>6. Few(P)
    <3>1. CASE to_stop = ThreadsNum
      BY <1>0, <1>p, <2>1, <3>1, FewWithoutPermits DEF Few, P
    <3>2. CASE to_stop # ThreadsNum
      <4>1. to_stop < ThreadsNum
        BY <1>0, <3>2, ThreadsFinite
      <4> QED BY <1>2, <2>2, <4>1
    <3> QED BY <3>1, <3>2
  <2> QED BY <2>1, <2>2, <2>5, <2>6
<1>7. ASSUME NEW t \in Threads, SpinEnqueue(t)
      PROVE  Has
  <2>1. r = q /\ pool' = pool /\ to_stop' = to_stop
    BY <1>p, <1>q, <1>7 DEF SpinEnqueue, FailEnqueue, asyncVars, poolVars
  <2> QED BY <1>4, <2>1 DEF P, R
<1>8. ASSUME NEW w \in Workers, ClaimMsg(w)
      PROVE  Has
  <2>1. r = q /\ pool' = pool /\ to_stop' = to_stop
    BY <1>p, <1>q, <1>8 DEF ClaimMsg, poolVars
  <2> QED BY <1>4, <2>1 DEF P, R
<1>9. ASSUME NEW w \in Workers, DequeueMsg(w)
      PROVE  Has
  <2>1. PICK a \in Threads : Shrinks(q, r, a) /\ Received(w, q[a][1])
    BY <1>0, <1>p, <1>q, <1>9, DequeueFacts
  <2>2. LaneShrinks(q, r, a)
    BY <1>0, <2>1, LaneFacts
  <2>3. R \subseteq P
    BY <2>2, ShrinkFacts DEF R, P
  <2>4. Few(P) => Few(R)
    <3> SUFFICES ASSUME Few(P)
                 PROVE  Few(R)
      OBVIOUS
    <3>1. IsFiniteSet(R) /\ Cardinality(R) <= Cardinality(P) /\ Cardinality(P) <= ThreadsNum
      BY <2>3, FS_Subset DEF Few
    <3>2. Cardinality(R) \in Nat /\ Cardinality(P) \in Nat
      BY <3>1, FS_CardinalityType DEF Few
    <3> QED BY <3>1, <3>2, ThreadsFinite DEF Few
  <2>5. pool' = pool /\ to_stop' = to_stop
    BY <2>1 DEF Received, poolVars
  <2> QED BY <1>2, <2>4, <2>5
<1>10. ASSUME UNCHANGED queueVars, Aside
       PROVE  Has
  <2>1. R = P
    BY <1>p, <1>q, <1>10 DEF queueVars, R, P
  <2>2. Roles
    BY <1>p DEF AsyncInv
  <2>3. CASE pool' = pool /\ to_stop' = to_stop
    BY <1>4, <2>1, <2>3
  <2>4. CASE pool' = "dying" /\ to_stop' = ThreadsNum
    BY <2>4, ThreadsFinite
  <2>5. CASE pool = "dying" /\ to_stop = 0 /\ to_stop' = to_stop /\ pool' \in {"destroyed", "crashed"}
    <3>1. to_stop < ThreadsNum
      BY <2>5, ThreadsFinite
    <3> QED BY <1>2, <2>1, <2>5, <3>1
  <2> HIDE DEF Has
  <2> QED BY <1>0, <1>10, <2>2, <2>3, <2>4, <2>5, AsidePool
<1> HIDE DEF Has
<1> QED BY <1>5, <1>6, <1>7, <1>8, <1>9, <1>10, StepCases

-----------------------------------------------------------------------------
(***************************************************************************)
(* The invariant, and what it means.                                       *)
(***************************************************************************)

\* An empty queue.
LEMMA PoolInvInit == Init => PoolInv
<1> SUFFICES ASSUME Init
             PROVE  PoolInv
  OBVIOUS
<1>p. PICK q : q = sub
  OBVIOUS
<1>n. PICK n : n = tail
  OBVIOUS
<1>0. /\ producers = <<>> /\ q = [t \in Threads |-> <<>>] /\ n = [t \in Threads |-> 0] /\ sema = 0
      /\ current = [w \in Workers |-> Nobody] /\ AsyncInit("loop")
  BY <1>p, <1>n DEF Init
<1>1. AsyncTypeOK({"claimed"}) /\ AsyncInv(q) /\ Ordered /\ FlushDone
  BY <1>0, AsyncInvInit DEF PCs
<1>2. TypeOK
  <2>1. producers \in Seq(Threads) /\ IsInjective(producers)
    BY <1>0 DEF IsInjective
  <2>2. sub \in [Threads -> Seq(AsyncMsgs)] /\ tail \in [Threads -> Nat] /\ sema \in Nat
        /\ current \in [Workers -> Threads \cup {Nobody}]
    BY DEF Init
  <2> QED BY <1>1, <2>1, <2>2 DEF TypeOK
<1>3. Own /\ Known /\ Lanes
  BY <1>0, <1>1, <1>p, <1>n DEF Own, Known, Lanes
<1>4. pool = "alive" /\ \A t \in Threads : pc[t] # "claimed"
  <2>1. Roles /\ pool = "alive"
    BY <1>0, <1>1 DEF AsyncInv, AsyncInit
  <2>2. \A t \in Threads : pc[t] \in {"idle", "loop", "release"}
    BY <1>0, Zenon DEF AsyncInit
  <2> QED BY <2>1, <2>2
<1>5. FewLeft
  BY <1>4 DEF FewLeft
<1>6. \A t \in Threads : LensOf(q)[t] = 0 /\ HeldOf(q, n)[t] = 0
  <2>1. \A t \in Threads : q[t] = <<>> /\ n[t] = 0
    BY <1>0
  <2>2. (0 + BlockSize - 1) \div BlockSize = 0 /\ (0 - 0) \div BlockSize = 0
    <3> DEFINE B == BlockSize
               v == (0 + B - 1) \div B
               x == (0 + B - 1) % B
               d == (0 - 0) \div B
               y == (0 - 0) % B
    <3>1. B \in Nat \ {0}
      BY LockfreeThreadPoolAssumption
    <3>2. v \in Int /\ x \in 0..(B - 1) /\ 0 + B - 1 = B * v + x
      BY <3>1, BlockOf
    <3>3. d \in Int /\ y \in 0..(B - 1) /\ 0 - 0 = B * d + y
      BY <3>1, BlockOf
    <3> DEFINE z == B - 1
    <3>4. z \in 0..(B - 1) /\ 0 \in 0..(B - 1) /\ B * 0 = 0
      BY <3>1
    <3> HIDE DEF v, x, d, y
    <3>5. B * 0 + z = B * v + x /\ B * 0 + 0 = B * d + y /\ B * v \in Int /\ B * d \in Int
      BY <3>1, <3>2, <3>3, <3>4
    <3> HIDE DEF B, z
    <3>6. /\ B * 0 + z <= B * v + x /\ B * v + x <= B * 0 + z
          /\ B * 0 + 0 <= B * d + y /\ B * d + y <= B * 0 + 0
      BY <3>1, <3>2, <3>3, <3>4, <3>5
    <3>7. 0 <= v /\ v <= 0
      BY <3>1, <3>2, <3>4, <3>6, BlockIs
    <3>8. 0 <= d /\ d <= 0
      BY <3>1, <3>3, <3>4, <3>6, BlockIs
    <3>9. v = 0 /\ d = 0
      BY <3>2, <3>3, <3>7, <3>8
    <3> QED BY <3>9 DEF v, d, B
  <2> QED BY <2>1, <2>2 DEF LensOf, HeldOf
<1>7. SumFunction(LensOf(q)) = 0 /\ SumFunction(HeldOf(q, n)) = 0
  <2>1. LensOf(q) \in [Threads -> Nat] /\ HeldOf(q, n) \in [Threads -> Nat]
    BY <1>6 DEF LensOf, HeldOf
  <2> QED BY <1>6, <2>1, ThreadsFinite, SumNat
<1>8. BlocksSuffice
  BY <1>7, <1>p, <1>n, SumsAre, LockfreeThreadPoolAssumption
<1>9. PermitsHaveItems
  <2>1. Claimed = {}
    BY <1>4, ThreadKinds DEF Claimed
  <2>2. Cardinality(Claimed) = 0
    BY <2>1, FS_EmptySet
  <2> QED BY <1>0, <1>7, <1>p, <1>n, <2>2, SumsAre
<1> QED BY <1>1, <1>2, <1>3, <1>5, <1>8, <1>9 DEF PoolInv

\* Every step keeps the invariant.
LEMMA PoolInvStep == PoolInv /\ [Next]_vars => PoolInv'
<1> SUFFICES ASSUME PoolInv, [Next]_vars
             PROVE  PoolInv'
  OBVIOUS
<1>p. PICK q : q = sub /\ AsyncInv(q)
  BY DEF PoolInv, Lanes
<1>q. PICK r : r = sub'
  OBVIOUS
<1>0. /\ TypeOK /\ Own /\ Known /\ BlocksSuffice /\ PermitsHaveItems /\ FewLeft
      /\ AsyncTypeOK({"claimed"}) /\ LanesTyped(q) /\ Roles /\ Standstill
  BY <1>p, QueueTyped DEF PoolInv, AsyncInv
<1>1. AsyncMove({"claimed"}, q, r)
  BY <1>p, <1>q, MoveOf
<1>2. AsyncTypeOK({"claimed"})' /\ AsyncInv(r)'
  BY <1>0, <1>1, <1>p, AsyncInvStep
<1>3. TypeOK' /\ Own' /\ Known'
  BY <1>0, <1>2, QueueStep
<1>4. Lanes'
  <2>1. r = sub' /\ AsyncInv(r)'
    BY <1>q, <1>2
  <2> QED BY <2>1 DEF Lanes
<1>5. BlocksSuffice'
  BY <1>0, BlocksStep
<1>6. pool # "crashed" \/ (r = q /\ UNCHANGED asyncVars)
  BY <1>0, <1>1, CrashedStands, Steps
<1>7. PermitsHaveItems' /\ FewLeft'
  <2>1. CASE pool # "crashed"
    BY <1>3, <2>1, PermitsStep, FewLeftStep
  <2>2. CASE pool = "crashed"
    <3>1. pool' = "crashed"
      BY <1>6, <2>2 DEF asyncVars, poolVars
    <3> QED BY <3>1 DEF PermitsHaveItems, FewLeft
  <2> QED BY <2>1, <2>2
<1>8. ThreadsNum = 1 => Ordered' /\ FlushDone'
  <2> SUFFICES ASSUME ThreadsNum = 1
               PROVE  Ordered' /\ FlushDone'
    OBVIOUS
  <2>1. Sole
    BY DEF Sole, Workers
  <2>2. Ordered /\ FlushDone
    BY DEF PoolInv
  <2> QED BY <1>0, <1>1, <1>p, <2>1, <2>2, OrderStep
<1> QED BY <1>3, <1>4, <1>5, <1>7, <1>8 DEF PoolInv

\* The invariant holds.
LEMMA PoolInvHolds == Spec => []PoolInv
<1> QED BY PoolInvInit, PoolInvStep, PTL DEF Spec

\* The lock-free pool takes each message once, through permits that do not say which
\* item they stand for: the semaphore counts the items of the sub-queues, the blocks
\* suffice for them, and what the destructor leaves behind is no more than the workers
\* that had a permit (lockfree_thread_pool.cpp, ~lockfree_thread_pool).
THEOREM LockfreePoolDelivers == Spec => []Delivered
<1>1. PoolInv => Delivered
  <2> SUFFICES ASSUME PoolInv
               PROVE  Delivered
    OBVIOUS
  <2>p. PICK q : q = sub /\ AsyncInv(q)
    BY DEF PoolInv, Lanes
  <2>1. TypeOK /\ AsyncTypeOK({"claimed"}) /\ PermitsHaveItems /\ BlocksSuffice /\ FewLeft
    BY QueueTyped DEF PoolInv
  <2>2. EachOnce(QueuedIn(q)) /\ PoolOutlivesItsUsers
    BY <2>p, <2>1, AsyncInvMeans
  <2>3. Queued = QueuedIn(q)
    BY <2>p, <2>1, QueuedIs
  <2>4. EachMessageOnce
    BY <2>2, <2>3 DEF EachMessageOnce
  <2>5. LossIsBounded
    BY <2>1 DEF FewLeft, LossIsBounded
  <2> QED BY <2>1, <2>2, <2>4, <2>5 DEF Delivered, Consistent
<1> QED BY <1>1, PoolInvHolds, PTL

\* With one worker the sub-queues keep the order of each thread, and its flush comes
\* after what it logged (README.md, the table of the pools).
THEOREM LockfreeOrderKept == Spec => []OrderKept
<1>1. PoolInv => OrderKept
  BY DEF PoolInv, OrderKept, SingleWorkerOrder, FlushCoversEarlierLogs, Ordered, FlushDone
<1> QED BY <1>1, PoolInvHolds, PTL

=============================================================================
