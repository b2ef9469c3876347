----------------------------- MODULE QueueProofs -----------------------------
(***************************************************************************)
(* Proofs about the queues and the places where threads sleep at them: the *)
(* semaphore of the blocking queue, whose counter, waiters and wake-ups    *)
(* agree; the periodic flusher, whose threads do not outlive their calls;  *)
(* block_queue; and, of the lock-free queue, the pool of blocks and the    *)
(* hash of producers.  They hold for any number of threads, of blocks and  *)
(* of producers, any capacity and both variants of block_queue.            *)
(***************************************************************************)
EXTENDS BlockingConcurrentQueue, PeriodicFlusher, BlockQueue, BlockPool,
        ProducerRegistry, DataLemmas

(***************************************************************************)
(* The semaphore.  What every step preserves is PermitsAccounted itself,   *)
(* with the shape of what a thread holds at each place: the counts in hand *)
(* are positive, and a waiter takes its announcement back only from a      *)
(* counter it saw negative.                                                *)
(***************************************************************************)

Some == Nat \ {0}
Timeouts == {Forever, Instant, Positive}
SemPlaces ==
    {SemIdle}
      \cup [pc : {"spin", "sleep", "settle", "trysema"}, max : Some, timeout : Timeouts]
      \cup [pc : {"undo"}, max : Some, timeout : Timeouts, old : {n \in Int : n < 0}]
      \cup [pc : {"more"}, max : Some] \cup [pc : {"acquired"}, got : Some]
      \cup [pc : {"signal"}, count : Some] \cup [pc : {"post"}, left : Some]

PermitsInductive == semAt \in [SemThreads -> SemPlaces] /\ PermitsAccounted

\* What a thread holds at a place.
LEMMA PlaceFacts ==
  ASSUME NEW r \in SemPlaces
  PROVE  /\ r.pc \in {"spin", "sleep", "settle", "trysema", "undo"} =>
              r.max \in Some /\ r.timeout \in Timeouts
         /\ r.pc \in {"spin", "sleep", "settle", "trysema"} =>
              \A pc \in {"spin", "sleep", "settle", "trysema"} :
                 /\ [r EXCEPT !.pc = pc] \in SemPlaces
                 /\ [r EXCEPT !.pc = pc].pc = pc
         /\ r.pc = "undo" => r.old \in Int /\ r.old < 0
         /\ r.pc = "more" => r.max \in Some
         /\ r.pc = "acquired" => r.got \in Some
         /\ r.pc = "signal" => r.count \in Some
         /\ r.pc = "post" => r.left \in Some
PROOF
  <1>1. CASE r = SemIdle
    BY <1>1 DEF SemIdle
  <1>2. CASE r \in [pc : {"spin", "sleep", "settle", "trysema"}, max : Some, timeout : Timeouts]
    BY <1>2 DEF SemPlaces
  <1>3. CASE r \in [pc : {"undo"}, max : Some, timeout : Timeouts, old : {n \in Int : n < 0}]
    BY <1>3
  <1>4. CASE r \in [pc : {"more"}, max : Some]
    BY <1>4
  <1>5. CASE r \in [pc : {"acquired"}, got : Some]
    BY <1>5
  <1>6. CASE r \in [pc : {"signal"}, count : Some]
    BY <1>6
  <1>7. CASE r \in [pc : {"post"}, left : Some]
    BY <1>7
  <1> QED BY <1>1, <1>2, <1>3, <1>4, <1>5, <1>6, <1>7 DEF SemPlaces

\* The sums are natural numbers, and a thread's own part is not more than all of it.
LEMMA PermitSums ==
  ASSUME BlockingAssumption, semAt \in [SemThreads -> SemPlaces]
  PROVE  /\ ToSignal \in [SemThreads -> Nat] /\ ToPost \in [SemThreads -> Nat]
         /\ ToTake \in [SemThreads -> Nat]
         /\ Unsignalled \in Nat /\ Posting \in Nat /\ Held \in Nat
         /\ \A t \in SemThreads : ToTake[t] <= Held /\ ToPost[t] <= Posting
         /\ IsFiniteSet(Waiting) /\ Cardinality(Waiting) \in Nat
PROOF
  <1>1. IsFiniteSet(SemThreads)
    BY DEF BlockingAssumption
  <1>2. \A t \in SemThreads : semAt[t] \in SemPlaces
    OBVIOUS
  <1>3. \A t \in SemThreads : /\ SemIs(t, "signal") => semAt[t].count \in Nat
                              /\ SemIs(t, "post") => semAt[t].left \in Nat
                              /\ SemIs(t, "acquired") => semAt[t].got \in Nat
    BY <1>2, PlaceFacts DEF SemIs, Some
  <1>4. /\ ToSignal \in [SemThreads -> Nat] /\ ToPost \in [SemThreads -> Nat]
        /\ ToTake \in [SemThreads -> Nat]
    BY <1>3 DEF ToSignal, ToPost, ToTake
  <1> HIDE DEF ToSignal, ToPost, ToTake
  <1>5. Unsignalled \in Nat
    BY <1>1, <1>4, SumNat DEF Unsignalled
  <1>6. Posting \in Nat /\ \A t \in SemThreads : ToPost[t] <= Posting
    BY <1>1, <1>4, SumNat DEF Posting
  <1>7. Held \in Nat /\ \A t \in SemThreads : ToTake[t] <= Held
    BY <1>1, <1>4, SumNat DEF Held
  <1>8. Waiting \subseteq SemThreads
    BY DEF Waiting
  <1>9. IsFiniteSet(Waiting) /\ Cardinality(Waiting) \in Nat
    BY <1>1, <1>8, FS_Subset, FS_CardinalityType
  <1> QED BY <1>4, <1>5, <1>6, <1>7, <1>9

\* One thread goes from one place to another: the sums change by what it had and has.
LEMMA PermitsMove ==
  ASSUME BlockingAssumption, semAt \in [SemThreads -> SemPlaces],
         NEW t \in SemThreads, NEW r \in SemPlaces, SemGoTo(t, r)
  PROVE  /\ semAt' \in [SemThreads -> SemPlaces] /\ semAt'[t] = r
         /\ Unsignalled' \in Nat /\ Posting' \in Nat /\ Held' \in Nat
         /\ Cardinality(Waiting') \in Nat
         /\ Unsignalled' = Unsignalled - ToSignal[t] + (IF r.pc = "signal" THEN r.count ELSE 0)
         /\ Posting' = Posting - ToPost[t] + (IF r.pc = "post" THEN r.left ELSE 0)
         /\ Held' = Held - ToTake[t] + (IF r.pc = "acquired" THEN r.got
                                        ELSE IF r.pc = "more" THEN 1 ELSE 0)
         /\ Cardinality(Waiting') =
              Cardinality(Waiting) - (IF t \in Waiting THEN 1 ELSE 0)
                + (IF r.pc \in {"sleep", "settle", "trysema", "undo"} THEN 1 ELSE 0)
PROOF
  <1>1. /\ semAt' \in [SemThreads -> SemPlaces] /\ semAt'[t] = r
        /\ \A u \in SemThreads \ {t} : semAt'[u] = semAt[u]
    BY DEF SemGoTo
  <1>2. IsFiniteSet(SemThreads)
    BY DEF BlockingAssumption
  <1>3. /\ ToSignal \in [SemThreads -> Nat] /\ ToPost \in [SemThreads -> Nat]
        /\ ToTake \in [SemThreads -> Nat]
        /\ IsFiniteSet(Waiting) /\ Cardinality(Waiting) \in Nat
    BY PermitSums
  <1>4. \A u \in SemThreads : semAt'[u] \in SemPlaces
    BY <1>1
  <1>5. \A u \in SemThreads : /\ semAt'[u].pc = "signal" => semAt'[u].count \in Nat
                              /\ semAt'[u].pc = "post" => semAt'[u].left \in Nat
                              /\ semAt'[u].pc = "acquired" => semAt'[u].got \in Nat
    BY <1>4, PlaceFacts DEF Some
  <1>6. /\ ToSignal' \in [SemThreads -> Nat] /\ ToPost' \in [SemThreads -> Nat]
        /\ ToTake' \in [SemThreads -> Nat]
        /\ \A u \in SemThreads \ {t} : /\ ToSignal'[u] = ToSignal[u] /\ ToPost'[u] = ToPost[u]
                                       /\ ToTake'[u] = ToTake[u]
        /\ ToSignal'[t] = IF r.pc = "signal" THEN r.count ELSE 0
        /\ ToPost'[t] = IF r.pc = "post" THEN r.left ELSE 0
        /\ ToTake'[t] = IF r.pc = "acquired" THEN r.got ELSE IF r.pc = "more" THEN 1 ELSE 0
    BY <1>1, <1>5 DEF ToSignal, ToPost, ToTake, SemIs
  <1> DEFINE s == ToSignal'
             p == ToPost'
             k == ToTake'
  <1>7. /\ s \in [SemThreads -> Nat] /\ p \in [SemThreads -> Nat] /\ k \in [SemThreads -> Nat]
        /\ \A u \in SemThreads \ {t} : s[u] = ToSignal[u] /\ p[u] = ToPost[u] /\ k[u] = ToTake[u]
        /\ Unsignalled' = SumFunction(s) /\ Posting' = SumFunction(p) /\ Held' = SumFunction(k)
    BY <1>6 DEF Unsignalled, Posting, Held
  <1> HIDE DEF s, p, k
  <1>8. SumFunction(s) = SumFunction(ToSignal) - ToSignal[t] + s[t]
    BY <1>2, <1>3, <1>7, SumChange
  <1>9. SumFunction(p) = SumFunction(ToPost) - ToPost[t] + p[t]
    BY <1>2, <1>3, <1>7, SumChange
  <1>10. SumFunction(k) = SumFunction(ToTake) - ToTake[t] + k[t]
    BY <1>2, <1>3, <1>7, SumChange
  <1>11. Waiting' = IF r.pc \in {"sleep", "settle", "trysema", "undo"}
                    THEN Waiting \cup {t} ELSE Waiting \ {t}
    BY <1>1 DEF Waiting
  <1>12. Cardinality(Waiting') =
              Cardinality(Waiting) - (IF t \in Waiting THEN 1 ELSE 0)
                + (IF r.pc \in {"sleep", "settle", "trysema", "undo"} THEN 1 ELSE 0)
    <2> DEFINE w == Waiting'
    <2>1. /\ Cardinality(Waiting \cup {t}) = IF t \in Waiting THEN Cardinality(Waiting)
                                            ELSE Cardinality(Waiting) + 1
          /\ Cardinality(Waiting \ {t}) = IF t \in Waiting THEN Cardinality(Waiting) - 1
                                           ELSE Cardinality(Waiting)
      BY <1>3, FS_AddElement, FS_RemoveElement
    <2>2. CASE r.pc \in {"sleep", "settle", "trysema", "undo"}
      <3>1. w = Waiting \cup {t}
        BY <1>11, <2>2
      <3> HIDE DEF w
      <3> QED BY <1>3, <2>1, <2>2, <3>1 DEF w
    <2>3. CASE r.pc \notin {"sleep", "settle", "trysema", "undo"}
      <3>1. w = Waiting \ {t}
        BY <1>11, <2>3
      <3> HIDE DEF w
      <3> QED BY <1>3, <2>1, <2>3, <3>1 DEF w
    <2> QED BY <2>2, <2>3
  <1>13. SumFunction(s) \in Nat /\ SumFunction(p) \in Nat /\ SumFunction(k) \in Nat
    BY <1>2, <1>7, SumNat
  <1>14. Cardinality(Waiting') \in Nat
    BY <1>3, <1>11, FS_AddElement, FS_RemoveElement, FS_CardinalityType
  <1> QED BY <1>1, <1>6, <1>7, <1>8, <1>9, <1>10, <1>12, <1>13, <1>14 DEF s, p, k, Unsignalled, Posting, Held

\* The numbers of the invariant, for the steps of arithmetic below.
LEMMA PermitNumbers ==
  ASSUME BlockingAssumption, PermitsInductive
  PROVE  /\ items \in Nat /\ MaxCounted \in Nat /\ m_sema \in Nat /\ m_count \in Int
         /\ Unsignalled \in Nat /\ Posting \in Nat /\ Held \in Nat /\ Cardinality(Waiting) \in Nat
         /\ m_count = items - Unsignalled - Held - Cardinality(Waiting)
         /\ Cardinality(Waiting) = m_sema + Posting + (IF m_count < 0 THEN -m_count ELSE 0)
         /\ items <= MaxCounted /\ Held <= items
         /\ \A t \in SemThreads : /\ semAt[t] \in SemPlaces
                                  /\ ToTake[t] <= Held /\ ToPost[t] <= Posting
                                  /\ ToTake[t] \in Nat /\ ToPost[t] \in Nat
PROOF
  <1>1. PermitsAccounted /\ semAt \in [SemThreads -> SemPlaces]
    BY DEF PermitsInductive
  <1>2. items \in Nat /\ MaxCounted \in Nat /\ items <= MaxCounted
    BY <1>1 DEF PermitsAccounted, BlockingAssumption
  <1>3. /\ ToPost \in [SemThreads -> Nat] /\ ToTake \in [SemThreads -> Nat]
        /\ Unsignalled \in Nat /\ Posting \in Nat /\ Held \in Nat
        /\ \A t \in SemThreads : ToTake[t] <= Held /\ ToPost[t] <= Posting
        /\ Cardinality(Waiting) \in Nat
    BY <1>1, PermitSums
  <1> HIDE DEF PermitsInductive
  <1> QED BY <1>1, <1>2, <1>3 DEF PermitsAccounted

\* From the sums after a step to the invariant after it.
LEMMA PermitsAgain ==
  ASSUME items' \in Nat, items' <= MaxCounted, MaxCounted \in Nat, m_sema' \in Nat, m_count' \in Int,
         semAt' \in [SemThreads -> SemPlaces],
         NEW s \in Nat, NEW p \in Nat, NEW k \in Nat, NEW w \in Nat,
         Unsignalled' = s, Posting' = p, Held' = k, Cardinality(Waiting') = w,
         m_count' = items' - s - k - w,
         w = m_sema' + p + (IF m_count' < 0 THEN -m_count' ELSE 0),
         k <= items'
  PROVE  PermitsInductive'
PROOF
  <1>1. items' \in 0..MaxCounted
    OBVIOUS
  <1>2. PermitsAccounted'
    BY <1>1 DEF PermitsAccounted
  <1> QED BY <1>2 DEF PermitsInductive

\* What a thread at place r contributes to the sums and to the waiters.
Signals(r) == IF r.pc = "signal" THEN r.count ELSE 0
Posts(r) == IF r.pc = "post" THEN r.left ELSE 0
Takes(r) == IF r.pc = "acquired" THEN r.got ELSE IF r.pc = "more" THEN 1 ELSE 0
Waits(r) == IF r.pc \in {"sleep", "settle", "trysema", "undo"} THEN 1 ELSE 0

\* What a thread owes and is owed is told by its place.
LEMMA PlaceParts ==
  ASSUME NEW t \in SemThreads
  PROVE  /\ ToSignal[t] = Signals(semAt[t]) /\ ToPost[t] = Posts(semAt[t])
         /\ ToTake[t] = Takes(semAt[t])
         /\ (IF t \in Waiting THEN 1 ELSE 0) = Waits(semAt[t])
  BY DEF ToSignal, ToPost, ToTake, Waiting, SemIs, Signals, Posts, Takes, Waits

\* The counter changes by the items less what t newly holds, and the waiters by the
\* wake-ups, when t goes from its place to r.
Balanced(t, r) ==
  /\ items' \in 0..MaxCounted /\ m_count' \in Int /\ m_sema' \in Nat
  /\ m_count' - m_count = (items' - items) - (Signals(r) - Signals(semAt[t]))
                            - (Takes(r) - Takes(semAt[t])) - (Waits(r) - Waits(semAt[t]))
  /\ Held + (Takes(r) - Takes(semAt[t])) <= items'
  /\ Waits(r) - Waits(semAt[t]) =
       (m_sema' - m_sema) + (Posts(r) - Posts(semAt[t]))
         + (IF m_count' < 0 THEN -m_count' ELSE 0) - (IF m_count < 0 THEN -m_count ELSE 0)

\* A balanced step of one thread keeps the accounts.
LEMMA PermitStep ==
  ASSUME BlockingAssumption, PermitsInductive, NEW t \in SemThreads, NEW r \in SemPlaces,
         SemGoTo(t, r), Balanced(t, r)
  PROVE  PermitsInductive'
PROOF
  <1> DEFINE dsig == Signals(r) - ToSignal[t]
             dpost == Posts(r) - ToPost[t]
             dheld == Takes(r) - ToTake[t]
             dwait == Waits(r) - (IF t \in Waiting THEN 1 ELSE 0)
             s == Unsignalled + dsig
             p == Posting + dpost
             k == Held + dheld
             w == Cardinality(Waiting) + dwait
  <1>1. /\ items \in Nat /\ MaxCounted \in Nat /\ m_sema \in Nat /\ m_count \in Int
        /\ Unsignalled \in Nat /\ Posting \in Nat /\ Held \in Nat /\ Cardinality(Waiting) \in Nat
        /\ m_count = items - Unsignalled - Held - Cardinality(Waiting)
        /\ Cardinality(Waiting) = m_sema + Posting + (IF m_count < 0 THEN -m_count ELSE 0)
    BY PermitNumbers
  <1>2. semAt \in [SemThreads -> SemPlaces]
    BY DEF PermitsInductive
  <1>3. /\ ToSignal \in [SemThreads -> Nat] /\ ToPost \in [SemThreads -> Nat]
        /\ ToTake \in [SemThreads -> Nat]
    BY <1>2, PermitSums
  <1>3a. ToSignal[t] \in Nat /\ ToPost[t] \in Nat /\ ToTake[t] \in Nat
    BY <1>3
  <1>4. /\ semAt' \in [SemThreads -> SemPlaces]
        /\ Unsignalled' \in Nat /\ Posting' \in Nat /\ Held' \in Nat
        /\ Cardinality(Waiting') \in Nat
        /\ Unsignalled' = Unsignalled - ToSignal[t] + Signals(r)
        /\ Posting' = Posting - ToPost[t] + Posts(r)
        /\ Held' = Held - ToTake[t] + Takes(r)
        /\ Cardinality(Waiting') = Cardinality(Waiting) - (IF t \in Waiting THEN 1 ELSE 0) + Waits(r)
    BY <1>2, PermitsMove DEF Signals, Posts, Takes, Waits
  <1>5. /\ Signals(r) \in Int /\ Posts(r) \in Int /\ Takes(r) \in Int /\ Waits(r) \in Int
        /\ (IF t \in Waiting THEN 1 ELSE 0) \in Int
    <2>1. /\ r.pc = "acquired" => r.got \in Nat
          /\ r.pc = "signal" => r.count \in Nat
          /\ r.pc = "post" => r.left \in Nat
      BY PlaceFacts DEF Some
    <2> QED BY <2>1 DEF Signals, Posts, Takes, Waits
  <1>p. /\ ToSignal[t] = Signals(semAt[t]) /\ ToPost[t] = Posts(semAt[t])
        /\ ToTake[t] = Takes(semAt[t])
        /\ (IF t \in Waiting THEN 1 ELSE 0) = Waits(semAt[t])
    BY PlaceParts
  <1>d. dsig \in Int /\ dpost \in Int /\ dheld \in Int /\ dwait \in Int
    BY <1>3a, <1>5
  <1>6. Unsignalled' = s /\ Posting' = p /\ Held' = k /\ Cardinality(Waiting') = w
    BY <1>1, <1>3a, <1>4, <1>5
  <1>7. s \in Nat /\ p \in Nat /\ k \in Nat /\ w \in Nat
    BY <1>4, <1>6
  <1>c. /\ m_count' - m_count = (items' - items) - dsig - dheld - dwait
        /\ Held + dheld <= items'
        /\ dwait = (m_sema' - m_sema) + dpost
                    + (IF m_count' < 0 THEN -m_count' ELSE 0) - (IF m_count < 0 THEN -m_count ELSE 0)
    BY <1>p DEF Balanced
  <1>9. /\ items' \in Nat /\ items' <= MaxCounted /\ m_sema' \in Nat /\ m_count' \in Int
    BY <1>1 DEF Balanced
  <1>8. /\ m_count' = items' - s - k - w
        /\ w = m_sema' + p + (IF m_count' < 0 THEN -m_count' ELSE 0)
        /\ k <= items'
    <2> HIDE DEF dsig, dpost, dheld, dwait
    <2>1. m_count' = items' - s - k - w
      BY <1>1, <1>9, <1>c, <1>d
    <2>2. w = m_sema' + p + (IF m_count' < 0 THEN -m_count' ELSE 0)
      <3> DEFINE x == IF m_count < 0 THEN -m_count ELSE 0
                 y == IF m_count' < 0 THEN -m_count' ELSE 0
      <3>1. x \in Int /\ y \in Int
        BY <1>1, <1>9
      <3>2. Cardinality(Waiting) = m_sema + Posting + x /\ dwait = (m_sema' - m_sema) + dpost + y - x
        BY <1>1, <1>c
      <3> HIDE DEF x, y
      <3>3. /\ Cardinality(Waiting) \in Nat /\ Posting \in Nat /\ m_sema \in Nat /\ m_sema' \in Nat
            /\ dpost \in Int
        BY <1>1, <1>9, <1>d
      <3>4. w = m_sema' + p + y
        BY <3>1, <3>2, <3>3
      <3> QED BY <3>4 DEF y
    <2>3. k <= items'
      BY <1>c
    <2> QED BY <2>1, <2>2, <2>3
  <1> HIDE DEF s, p, k, w
  <1> QED BY <1>1, <1>4, <1>6, <1>7, <1>8, <1>9, PermitsAgain

\* The steps of the semaphore and of the queue around it, one after the other.
LEMMA TryWaitKeeps ==
  ASSUME BlockingAssumption, PermitsInductive, NEW t \in SemThreads, NEW max \in Some,
         semAt[t].pc \in {"outside", "spin"}, TryWaitMany(t, max), UNCHANGED items
  PROVE  PermitsInductive'
PROOF
  <1> DEFINE n == Least(max, m_count)
  <1>1. /\ items \in 0..MaxCounted /\ m_sema \in Nat /\ m_count \in Int /\ Held \in Nat
        /\ Held <= items /\ m_count = items - Unsignalled - Held - Cardinality(Waiting)
        /\ Unsignalled \in Nat /\ Cardinality(Waiting) \in Nat
    BY PermitNumbers DEF PermitsInductive, PermitsAccounted
  <1>2. Signals(semAt[t]) = 0 /\ Posts(semAt[t]) = 0 /\ Takes(semAt[t]) = 0 /\ Waits(semAt[t]) = 0
    BY DEF Signals, Posts, Takes, Waits
  <1>3. CASE m_count > 0
    <2>1. n \in Some /\ n <= m_count
      BY <1>1, <1>3 DEF Least, Some
    <2>2. [pc |-> "acquired", got |-> n] \in SemPlaces
      BY <2>1 DEF SemPlaces
    <2>3. SemGoTo(t, [pc |-> "acquired", got |-> n]) /\ m_count' = m_count - n /\ m_sema' = m_sema
      BY <1>3 DEF TryWaitMany, Acquired
    <2> HIDE DEF n
    <2>4. Balanced(t, [pc |-> "acquired", got |-> n])
      <3>1. PICK there : there = [pc |-> "acquired", got |-> n]
        OBVIOUS
      <3>2. Signals(there) = 0 /\ Posts(there) = 0 /\ Takes(there) = n /\ Waits(there) = 0
        BY <3>1 DEF Signals, Posts, Takes, Waits
      <3>3. Balanced(t, there)
        BY <1>1, <1>2, <2>1, <2>3, <3>2 DEF Balanced, Some
      <3> QED BY <3>1, <3>3
    <2> QED BY <2>2, <2>3, <2>4, PermitStep
  <1>4. CASE ~(m_count > 0)
    <2>1. SemGoTo(t, SemIdle) /\ UNCHANGED <<m_count, m_sema>>
      BY <1>4 DEF TryWaitMany, NotAcquired
    <2>2. Balanced(t, SemIdle)
      <3>1. Signals(SemIdle) = 0 /\ Posts(SemIdle) = 0 /\ Takes(SemIdle) = 0 /\ Waits(SemIdle) = 0
        BY DEF Signals, Posts, Takes, Waits, SemIdle
      <3> QED BY <1>1, <1>2, <2>1, <3>1 DEF Balanced
    <2>3. SemIdle \in SemPlaces
      BY DEF SemPlaces
    <2> QED BY <2>1, <2>2, <2>3, PermitStep
  <1> QED BY <1>3, <1>4

\* One permit more in hand.
LEMMA GrantedPlace ==
  ASSUME NEW t \in SemThreads, semAt[t].max \in Some, Granted(t)
  PROVE  \E r \in SemPlaces : /\ SemGoTo(t, r)
                              /\ Takes(r) = 1 /\ Signals(r) = 0 /\ Posts(r) = 0 /\ Waits(r) = 0
PROOF
  <1> DEFINE m == semAt[t].max - 1
  <1>1. CASE semAt[t].max > 1
    <2>1. m \in Some
      BY <1>1 DEF Some
    <2>2. SemGoTo(t, [pc |-> "more", max |-> m])
      BY <1>1 DEF Granted
    <2> HIDE DEF m
    <2>3. [pc |-> "more", max |-> m] \in SemPlaces
      BY <2>1 DEF SemPlaces
    <2>4. /\ Takes([pc |-> "more", max |-> m]) = 1 /\ Signals([pc |-> "more", max |-> m]) = 0
          /\ Posts([pc |-> "more", max |-> m]) = 0 /\ Waits([pc |-> "more", max |-> m]) = 0
      BY DEF Takes, Signals, Posts, Waits
    <2> QED BY <2>2, <2>3, <2>4
  <1>2. CASE ~(semAt[t].max > 1)
    <2>2. SemGoTo(t, [pc |-> "acquired", got |-> 1])
      BY <1>2 DEF Granted, Acquired
    <2>3. [pc |-> "acquired", got |-> 1] \in SemPlaces
      BY DEF SemPlaces, Some
    <2>4. /\ Takes([pc |-> "acquired", got |-> 1]) = 1 /\ Signals([pc |-> "acquired", got |-> 1]) = 0
          /\ Posts([pc |-> "acquired", got |-> 1]) = 0 /\ Waits([pc |-> "acquired", got |-> 1]) = 0
      BY DEF Takes, Signals, Posts, Waits
    <2> QED BY <2>2, <2>3, <2>4
  <1> QED BY <1>1, <1>2

\* A thread that announces that it waits is counted as a waiter ...
LEMMA AnnounceKeeps ==
  ASSUME BlockingAssumption, PermitsInductive, NEW t \in SemThreads, AnnounceWaiter(t),
         UNCHANGED items
  PROVE  PermitsInductive'
PROOF
  <1>1. /\ items \in 0..MaxCounted /\ m_sema \in Nat /\ m_count \in Int /\ Held \in Nat
        /\ Held <= items /\ m_count = items - Unsignalled - Held - Cardinality(Waiting)
        /\ Unsignalled \in Nat /\ Cardinality(Waiting) \in Nat
    BY PermitNumbers DEF PermitsInductive, PermitsAccounted
  <1>2. /\ semAt[t].pc = "spin" /\ semAt[t] \in SemPlaces
        /\ m_count' = m_count - 1 /\ m_sema' = m_sema /\ items' = items
    BY DEF AnnounceWaiter, SemIs, PermitsInductive
  <1>3. Takes(semAt[t]) = 0 /\ Signals(semAt[t]) = 0 /\ Posts(semAt[t]) = 0 /\ Waits(semAt[t]) = 0
    BY <1>2 DEF Takes, Signals, Posts, Waits
  <1>4. CASE m_count > 0
    <2>1. semAt[t].max \in Some
      BY <1>2, PlaceFacts
    <2>2. Granted(t)
      BY <1>4 DEF AnnounceWaiter
    <2>3. PICK r \in SemPlaces : /\ SemGoTo(t, r)
                                 /\ Takes(r) = 1 /\ Signals(r) = 0 /\ Posts(r) = 0 /\ Waits(r) = 0
      BY <2>1, <2>2, GrantedPlace
    <2>4. Balanced(t, r)
      BY <1>1, <1>2, <1>3, <1>4, <2>3 DEF Balanced
    <2> QED BY <2>3, <2>4, PermitStep
  <1>5. CASE ~(m_count > 0)
    <2>1. PICK pc \in {"settle", "sleep"} : SemGoTo(t, [semAt[t] EXCEPT !.pc = pc])
      BY <1>5 DEF AnnounceWaiter
    <2> DEFINE r == [semAt[t] EXCEPT !.pc = pc]
    <2>2. r \in SemPlaces /\ r.pc = pc
      BY <1>2, PlaceFacts
    <2>3. SemGoTo(t, r)
      BY <2>1
    <2> HIDE DEF r
    <2>4. Takes(r) = 0 /\ Signals(r) = 0 /\ Posts(r) = 0 /\ Waits(r) = 1
      BY <2>2 DEF Takes, Signals, Posts, Waits
    <2>5. Balanced(t, r)
      BY <1>1, <1>2, <1>3, <1>5, <2>4 DEF Balanced
    <2> QED BY <2>2, <2>3, <2>5, PermitStep
  <1> QED BY <1>4, <1>5

\* The system wakes the thread, or the thread takes a wake-up from the system: there is an
\* item for it.
LEMMA WakeKeeps ==
  ASSUME BlockingAssumption, PermitsInductive, NEW t \in SemThreads, UNCHANGED items,
         semAt[t].pc \in {"sleep", "trysema"}, m_sema > 0,
         m_sema' = m_sema - 1, m_count' = m_count, Granted(t)
  PROVE  PermitsInductive'
PROOF
  <1>1. /\ items \in 0..MaxCounted /\ m_sema \in Nat /\ m_count \in Int /\ Held \in Nat
        /\ m_count = items - Unsignalled - Held - Cardinality(Waiting)
        /\ Cardinality(Waiting) = m_sema + Posting + (IF m_count < 0 THEN -m_count ELSE 0)
        /\ Unsignalled \in Nat /\ Posting \in Nat /\ Cardinality(Waiting) \in Nat
        /\ semAt[t] \in SemPlaces
    BY PermitNumbers DEF PermitsInductive, PermitsAccounted
  <1>2. Takes(semAt[t]) = 0 /\ Signals(semAt[t]) = 0 /\ Posts(semAt[t]) = 0 /\ Waits(semAt[t]) = 1
    BY DEF Takes, Signals, Posts, Waits
  <1>3. items \in Int /\ Held + 1 <= items
    <2>1. CASE m_count < 0
      BY <1>1, <2>1
    <2>2. CASE ~(m_count < 0)
      BY <1>1, <2>2
    <2> QED BY <2>1, <2>2
  <1>4. PICK r \in SemPlaces : /\ SemGoTo(t, r)
                               /\ Takes(r) = 1 /\ Signals(r) = 0 /\ Posts(r) = 0 /\ Waits(r) = 0
    BY <1>1, PlaceFacts, GrantedPlace
  <1>5. Balanced(t, r)
    <2>1. /\ items \in 0..MaxCounted /\ m_sema \in Nat /\ m_count \in Int /\ Held \in Nat
          /\ m_sema - 1 \in Nat
      BY <1>1
    <2> QED BY <2>1, <1>2, <1>3, <1>4 DEF Balanced
  <1> QED BY <1>4, <1>5, PermitStep

\* A waiter goes from one place to another without touching a counter.
LEMMA WaiterMoves ==
  ASSUME BlockingAssumption, PermitsInductive, NEW t \in SemThreads, NEW r \in SemPlaces,
         SemGoTo(t, r), UNCHANGED <<items, m_count, m_sema>>,
         semAt[t].pc \in {"sleep", "settle", "trysema", "undo"},
         r.pc \in {"sleep", "settle", "trysema", "undo"}
  PROVE  PermitsInductive'
PROOF
  <1>1. /\ items \in 0..MaxCounted /\ m_sema \in Nat /\ m_count \in Int /\ Held \in Nat
        /\ Held <= items
    BY PermitNumbers DEF PermitsInductive, PermitsAccounted
  <1>2. Takes(semAt[t]) = 0 /\ Signals(semAt[t]) = 0 /\ Posts(semAt[t]) = 0 /\ Waits(semAt[t]) = 1
    BY DEF Takes, Signals, Posts, Waits
  <1>3. Takes(r) = 0 /\ Signals(r) = 0 /\ Posts(r) = 0 /\ Waits(r) = 1
    BY DEF Takes, Signals, Posts, Waits
  <1>4. Balanced(t, r)
    BY <1>1, <1>2, <1>3 DEF Balanced
  <1> QED BY <1>4, PermitStep

\* ... one that gives up takes its announcement back or owes a wake-up ...
LEMMA SettleKeeps ==
  ASSUME BlockingAssumption, PermitsInductive, NEW t \in SemThreads, UNCHANGED items,
         TimeOut(t) \/ Settle(t) \/ SettleTryWait(t)
  PROVE  PermitsInductive'
PROOF
  <1>1. semAt[t] \in SemPlaces /\ m_count \in Int
    BY DEF PermitsInductive, PermitsAccounted
  <1>2. ASSUME NEW pc \in {"settle", "trysema"}, semAt[t].pc \in {"sleep", "settle", "trysema"},
               SemGoTo(t, [semAt[t] EXCEPT !.pc = pc]), UNCHANGED <<m_count, m_sema>>
        PROVE  PermitsInductive'
    <2> DEFINE r == [semAt[t] EXCEPT !.pc = pc]
    <2>1. r \in SemPlaces /\ r.pc = pc
      BY <1>1, <1>2, PlaceFacts
    <2>2. SemGoTo(t, r)
      BY <1>2
    <2> HIDE DEF r
    <2> QED BY <1>2, <2>1, <2>2, WaiterMoves
  <1>3. CASE TimeOut(t)
    BY <1>2, <1>3 DEF TimeOut, SemIs
  <1>4. CASE Settle(t)
    <2>1. CASE m_count >= 0
      BY <1>2, <1>4, <2>1 DEF Settle, SemIs
    <2>2. CASE ~(m_count >= 0)
      <3> DEFINE r == [pc |-> "undo", max |-> semAt[t].max, timeout |-> semAt[t].timeout, old |-> m_count]
      <3>1. semAt[t].max \in Some /\ semAt[t].timeout \in Timeouts
        BY <1>1, <1>4, PlaceFacts DEF Settle, SemIs
      <3>2. m_count \in {n \in Int : n < 0}
        BY <1>1, <2>2
      <3>3. r \in SemPlaces /\ r.pc = "undo"
        BY <3>1, <3>2 DEF SemPlaces
      <3>4. SemGoTo(t, r) /\ semAt[t].pc = "settle" /\ UNCHANGED <<items, m_count, m_sema>>
        BY <1>4, <2>2 DEF Settle, SemIs
      <3> HIDE DEF r
      <3> QED BY <3>3, <3>4, WaiterMoves
    <2> QED BY <2>1, <2>2
  <1>5. CASE SettleTryWait(t)
    <2>1. CASE m_sema > 0
      BY <1>5, <2>1, WakeKeeps DEF SettleTryWait, SemIs
    <2>2. CASE ~(m_sema > 0)
      BY <1>2, <1>5, <2>2 DEF SettleTryWait, SemIs
    <2> QED BY <2>1, <2>2
  <1> QED BY <1>3, <1>4, <1>5

\* The announcement is taken back from a counter that is negative.
LEMMA UndoKeeps ==
  ASSUME BlockingAssumption, PermitsInductive, NEW t \in SemThreads, UNCHANGED items, SettleUndo(t)
  PROVE  PermitsInductive'
PROOF
  <1>1. /\ items \in 0..MaxCounted /\ m_sema \in Nat /\ m_count \in Int /\ Held \in Nat
        /\ Held <= items /\ semAt[t] \in SemPlaces
    BY PermitNumbers DEF PermitsInductive, PermitsAccounted
  <1>2. semAt[t].pc = "undo" /\ m_sema' = m_sema
    BY DEF SettleUndo, SemIs
  <1>3. /\ semAt[t].old \in Int /\ semAt[t].old < 0
        /\ semAt[t].max \in Some /\ semAt[t].timeout \in Timeouts
    BY <1>1, <1>2, PlaceFacts
  <1>4. Takes(semAt[t]) = 0 /\ Signals(semAt[t]) = 0 /\ Posts(semAt[t]) = 0 /\ Waits(semAt[t]) = 1
    BY <1>2 DEF Takes, Signals, Posts, Waits
  <1>5. CASE m_count = semAt[t].old
    <2>1. SemGoTo(t, SemIdle) /\ m_count' = m_count + 1 /\ m_count < 0
      BY <1>3, <1>5 DEF SettleUndo, NotAcquired
    <2>2. /\ SemIdle \in SemPlaces
          /\ Takes(SemIdle) = 0 /\ Signals(SemIdle) = 0 /\ Posts(SemIdle) = 0 /\ Waits(SemIdle) = 0
      BY DEF SemPlaces, SemIdle, Takes, Signals, Posts, Waits
    <2>3. /\ (IF m_count' < 0 THEN -m_count' ELSE 0) = -m_count - 1
          /\ (IF m_count < 0 THEN -m_count ELSE 0) = -m_count
      BY <1>1, <2>1
    <2>4. items' \in 0..MaxCounted /\ items' = items /\ m_count' \in Int /\ m_sema' \in Nat
      BY <1>1, <1>2, <2>1
    <2>5. Balanced(t, SemIdle)
      <3>1. m_count' - m_count = 1 /\ items' - items = 0 /\ m_sema' - m_sema = 0
        BY <1>1, <1>2, <2>1, <2>4
      <3>2. m_count' - m_count = (items' - items) - (Signals(SemIdle) - Signals(semAt[t]))
                - (Takes(SemIdle) - Takes(semAt[t])) - (Waits(SemIdle) - Waits(semAt[t]))
        BY <1>4, <2>2, <3>1
      <3>3. Held + (Takes(SemIdle) - Takes(semAt[t])) <= items'
        BY <1>1, <1>4, <2>2, <2>4
      <3>4. Waits(SemIdle) - Waits(semAt[t]) =
               (m_sema' - m_sema) + (Posts(SemIdle) - Posts(semAt[t]))
                 + (IF m_count' < 0 THEN -m_count' ELSE 0) - (IF m_count < 0 THEN -m_count ELSE 0)
        BY <1>1, <1>4, <2>2, <2>3, <3>1
      <3> QED BY <2>4, <3>2, <3>3, <3>4 DEF Balanced
    <2> QED BY <2>1, <2>2, <2>5, PermitStep
  <1>6. CASE m_count # semAt[t].old
    <2> DEFINE r == [pc |-> "settle", max |-> semAt[t].max, timeout |-> semAt[t].timeout]
    <2>1. SemGoTo(t, r) /\ UNCHANGED <<items, m_count, m_sema>>
      BY <1>6, <1>2 DEF SettleUndo
    <2>2. r \in SemPlaces /\ r.pc = "settle"
      BY <1>3 DEF SemPlaces
    <2> HIDE DEF r
    <2> QED BY <1>2, <2>1, <2>2, WaiterMoves
  <1> QED BY <1>5, <1>6

\* ... one that has a permit takes what more there is ...
LEMMA AcquireMoreKeeps ==
  ASSUME BlockingAssumption, PermitsInductive, NEW t \in SemThreads, UNCHANGED items, AcquireMore(t)
  PROVE  PermitsInductive'
PROOF
  <1> DEFINE n == IF m_count > 0 THEN Least(semAt[t].max, m_count) ELSE 0
             r == [pc |-> "acquired", got |-> 1 + n]
  <1>1. /\ items \in 0..MaxCounted /\ m_sema \in Nat /\ m_count \in Int /\ Held \in Nat
        /\ Held <= items /\ m_count = items - Unsignalled - Held - Cardinality(Waiting)
        /\ Unsignalled \in Nat /\ Cardinality(Waiting) \in Nat /\ semAt[t] \in SemPlaces
    BY PermitNumbers DEF PermitsInductive, PermitsAccounted
  <1>2. semAt[t].pc = "more" /\ m_sema' = m_sema /\ m_count' = m_count - n /\ SemGoTo(t, r)
    BY DEF AcquireMore, SemIs, Acquired
  <1>3. Takes(semAt[t]) = 1 /\ Signals(semAt[t]) = 0 /\ Posts(semAt[t]) = 0 /\ Waits(semAt[t]) = 0
    BY <1>2 DEF Takes, Signals, Posts, Waits
  <1>4. semAt[t].max \in Some
    BY <1>1, <1>2, PlaceFacts
  <1>5. n \in Nat /\ (n > 0 => n <= m_count)
    BY <1>1, <1>4 DEF Least, Some
  <1>6. 1 + n \in Some
    BY <1>5 DEF Some
  <1>7. Held + n <= items
    <2> HIDE DEF n
    <2>1. CASE n > 0
      BY <1>1, <1>5, <2>1
    <2>2. CASE ~(n > 0)
      BY <1>1, <1>5, <2>2
    <2> QED BY <2>1, <2>2
  <1>8. m_count' \in Int /\ (m_count' < 0 => m_count' = m_count) /\ (m_count < 0 => m_count' = m_count)
    <2> HIDE DEF n
    <2> QED BY <1>1, <1>2, <1>5
  <1> HIDE DEF n
  <1>9. r \in SemPlaces /\ Takes(r) = 1 + n /\ Signals(r) = 0 /\ Posts(r) = 0 /\ Waits(r) = 0
    BY <1>6 DEF SemPlaces, Takes, Signals, Posts, Waits
  <1> HIDE DEF r
  <1>10. Balanced(t, r)
    <2>1. /\ items \in 0..MaxCounted /\ m_sema \in Nat /\ m_count \in Int /\ Held \in Nat /\ items' = items
      BY <1>1
    <2> QED BY <2>1, <1>2, <1>3, <1>5, <1>7, <1>8, <1>9 DEF Balanced
  <1> QED BY <1>2, <1>9, <1>10, PermitStep

\* As many wake-ups as there were waiters, and the rest to the counter.
LEMMA SignalKeeps ==
  ASSUME BlockingAssumption, PermitsInductive, NEW t \in SemThreads, UNCHANGED items, Signal(t)
  PROVE  PermitsInductive'
PROOF
  <1> DEFINE c == semAt[t].count
             n == Least(-m_count, c)
  <1>1. /\ items \in 0..MaxCounted /\ m_sema \in Nat /\ m_count \in Int /\ Held \in Nat
        /\ Held <= items /\ semAt[t] \in SemPlaces
    BY PermitNumbers DEF PermitsInductive, PermitsAccounted
  <1>2. semAt[t].pc = "signal" /\ m_sema' = m_sema /\ m_count' = m_count + c
    BY DEF Signal, SemIs
  <1>3. c \in Some
    BY <1>1, <1>2, PlaceFacts
  <1>4. Takes(semAt[t]) = 0 /\ Signals(semAt[t]) = c /\ Posts(semAt[t]) = 0 /\ Waits(semAt[t]) = 0
    BY <1>2 DEF Takes, Signals, Posts, Waits
  <1>5. /\ n \in Int /\ (n = c \/ n = -m_count) /\ n <= c /\ n <= -m_count
    BY <1>1, <1>3 DEF Least, Some
  <1>6. CASE n > 0
    <2> DEFINE r == [pc |-> "post", left |-> n]
    <2>1. SemGoTo(t, r)
      BY <1>6 DEF Signal
    <2>2. n \in Some
      BY <1>5, <1>6 DEF Some
    <2> HIDE DEF n
    <2>3. r \in SemPlaces /\ Takes(r) = 0 /\ Signals(r) = 0 /\ Posts(r) = n /\ Waits(r) = 0
      BY <2>2 DEF SemPlaces, Takes, Signals, Posts, Waits
    <2> HIDE DEF r, c
    <2>4. Balanced(t, r)
      BY <1>1, <1>2, <1>3, <1>4, <1>5, <1>6, <2>3 DEF Balanced, Some
    <2> QED BY <2>1, <2>3, <2>4, PermitStep
  <1>7. CASE ~(n > 0)
    <2>1. SemGoTo(t, SemIdle)
      BY <1>7 DEF Signal
    <2>2. /\ SemIdle \in SemPlaces
          /\ Takes(SemIdle) = 0 /\ Signals(SemIdle) = 0 /\ Posts(SemIdle) = 0 /\ Waits(SemIdle) = 0
      BY DEF SemPlaces, SemIdle, Takes, Signals, Posts, Waits
    <2> HIDE DEF n, c
    <2>3. m_count >= 0
      BY <1>1, <1>3, <1>5, <1>7 DEF Some
    <2>4. Balanced(t, SemIdle)
      BY <1>1, <1>2, <1>3, <1>4, <2>2, <2>3 DEF Balanced, Some
    <2> QED BY <2>1, <2>2, <2>4, PermitStep
  <1> QED BY <1>6, <1>7

\* ... one that signals posts for as many as wait ...
LEMMA PostKeeps ==
  ASSUME BlockingAssumption, PermitsInductive, NEW t \in SemThreads, UNCHANGED items, Post(t)
  PROVE  PermitsInductive'
PROOF
  <1> DEFINE l == semAt[t].left
  <1>1. /\ items \in 0..MaxCounted /\ m_sema \in Nat /\ m_count \in Int /\ Held \in Nat
        /\ Held <= items /\ semAt[t] \in SemPlaces
    BY PermitNumbers DEF PermitsInductive, PermitsAccounted
  <1>2. semAt[t].pc = "post" /\ m_count' = m_count
    BY DEF Post, SemIs
  <1>3. l \in Some
    BY <1>1, <1>2, PlaceFacts
  <1>4. Takes(semAt[t]) = 0 /\ Signals(semAt[t]) = 0 /\ Posts(semAt[t]) = l /\ Waits(semAt[t]) = 0
    BY <1>2 DEF Takes, Signals, Posts, Waits
  <1>5. PICK n \in 1..l : /\ m_sema' = m_sema + n
                          /\ SemGoTo(t, IF n = l THEN SemIdle ELSE [pc |-> "post", left |-> l - n])
    BY DEF Post
  <1>6. n \in Int /\ l \in Int /\ n >= 1 /\ n <= l /\ m_sema' \in Nat
    BY <1>1, <1>3, <1>5 DEF Some
  <1> HIDE DEF l
  <1>7. CASE n = l
    <2>2. /\ SemIdle \in SemPlaces
          /\ Takes(SemIdle) = 0 /\ Signals(SemIdle) = 0 /\ Posts(SemIdle) = 0 /\ Waits(SemIdle) = 0
      BY DEF SemPlaces, SemIdle, Takes, Signals, Posts, Waits
    <2>3. Balanced(t, SemIdle)
      BY <1>1, <1>2, <1>4, <1>5, <1>6, <1>7, <2>2 DEF Balanced
    <2> QED BY <1>5, <1>7, <2>2, <2>3, PermitStep
  <1>8. CASE n # l
    <2> DEFINE k == l - n
               r == [pc |-> "post", left |-> k]
    <2>1. SemGoTo(t, r)
      BY <1>5, <1>8
    <2>2. k \in Some
      BY <1>6, <1>8 DEF Some
    <2>3. k = l - n
      OBVIOUS
    <2> HIDE DEF k
    <2>4. r \in SemPlaces /\ Takes(r) = 0 /\ Signals(r) = 0 /\ Posts(r) = k /\ Waits(r) = 0
      BY <2>2 DEF SemPlaces, Takes, Signals, Posts, Waits
    <2> HIDE DEF r
    <2>5. Balanced(t, r)
      BY <1>1, <1>2, <1>4, <1>5, <1>6, <2>3, <2>4 DEF Balanced
    <2> QED BY <2>1, <2>4, <2>5, PermitStep
  <1> QED BY <1>7, <1>8

\* Calls that begin, and the items taken for permits.
LEMMA CallKeeps ==
  ASSUME BlockingAssumption, PermitsInductive, NEW t \in SemThreads,
         EnqueueAndSignal(t) \/ TryDequeue(t) \/ WaitDequeue(t)
  PROVE  PermitsInductive'
PROOF
  <1>1. /\ items \in 0..MaxCounted /\ m_sema \in Nat /\ m_count \in Int /\ Held \in Nat
        /\ Held <= items /\ semAt[t] \in SemPlaces /\ MaxCounted \in Nat
    BY PermitNumbers DEF PermitsInductive, PermitsAccounted
  <1>2. semAt[t].pc = "outside"
    BY DEF EnqueueAndSignal, TryDequeue, WaitDequeue, SemIs
  <1>3. Takes(semAt[t]) = 0 /\ Signals(semAt[t]) = 0 /\ Posts(semAt[t]) = 0 /\ Waits(semAt[t]) = 0
    BY <1>2 DEF Takes, Signals, Posts, Waits
  <1>4. \A n \in BulkCounts : n \in Some
    BY DEF BlockingAssumption, Some
  <1>5. CASE EnqueueAndSignal(t)
    <2>1. PICK n \in BulkCounts : /\ items + n <= MaxCounted /\ items' = items + n
                                  /\ SemGoTo(t, [pc |-> "signal", count |-> n])
                                  /\ UNCHANGED <<m_count, m_sema>>
      BY <1>5 DEF EnqueueAndSignal
    <2> DEFINE r == [pc |-> "signal", count |-> n]
    <2>2. n \in Some
      BY <1>4
    <2>3. r \in SemPlaces /\ Takes(r) = 0 /\ Signals(r) = n /\ Posts(r) = 0 /\ Waits(r) = 0
      BY <2>2 DEF SemPlaces, Takes, Signals, Posts, Waits
    <2>4. SemGoTo(t, r)
      BY <2>1
    <2> HIDE DEF r
    <2>5. Balanced(t, r)
      BY <1>1, <1>3, <2>1, <2>2, <2>3 DEF Balanced, Some
    <2> QED BY <2>3, <2>4, <2>5, PermitStep
  <1>6. CASE TryDequeue(t)
    BY <1>2, <1>4, <1>6, TryWaitKeeps DEF TryDequeue
  <1>7. CASE WaitDequeue(t)
    <2>1. PICK max \in BulkCounts, timeout \in {Forever, Instant, Positive} :
             /\ SemGoTo(t, [pc |-> "spin", max |-> max, timeout |-> timeout])
             /\ UNCHANGED <<m_count, m_sema, items>>
      BY <1>7 DEF WaitDequeue, StartWait
    <2> DEFINE r == [pc |-> "spin", max |-> max, timeout |-> timeout]
    <2>2. max \in Some /\ timeout \in Timeouts
      BY <1>4 DEF Timeouts
    <2>3. r \in SemPlaces /\ Takes(r) = 0 /\ Signals(r) = 0 /\ Posts(r) = 0 /\ Waits(r) = 0
      BY <2>2 DEF SemPlaces, Takes, Signals, Posts, Waits
    <2>4. SemGoTo(t, r)
      BY <2>1
    <2> HIDE DEF r
    <2>5. Balanced(t, r)
      BY <1>1, <1>3, <2>1, <2>3 DEF Balanced
    <2> QED BY <2>3, <2>4, <2>5, PermitStep
  <1> QED BY <1>5, <1>6, <1>7

\* ... and one that has permits takes the items.
LEMMA DrainKeeps ==
  ASSUME BlockingAssumption, PermitsInductive, NEW t \in SemThreads, Drain(t)
  PROVE  PermitsInductive'
PROOF
  <1> DEFINE g == semAt[t].got
  <1>1. /\ items \in 0..MaxCounted /\ m_sema \in Nat /\ m_count \in Int /\ Held \in Nat
        /\ Held <= items /\ semAt[t] \in SemPlaces
    BY PermitNumbers DEF PermitsInductive, PermitsAccounted
  <1>2. semAt[t].pc = "acquired" /\ m_count' = m_count /\ m_sema' = m_sema
    BY DEF Drain, SemIs
  <1>3. g \in Some
    BY <1>1, <1>2, PlaceFacts
  <1>4. Takes(semAt[t]) = g /\ Signals(semAt[t]) = 0 /\ Posts(semAt[t]) = 0 /\ Waits(semAt[t]) = 0
    BY <1>2 DEF Takes, Signals, Posts, Waits
  <1>5. PICK n \in 1..Least(g, items) :
           /\ items' = items - n
           /\ SemGoTo(t, IF n = g THEN SemIdle ELSE [pc |-> "acquired", got |-> g - n])
    BY DEF Drain
  <1>6. g \in Int /\ n \in Int /\ n >= 1 /\ n <= g /\ n <= items /\ items' \in 0..MaxCounted
    BY <1>1, <1>3, <1>5 DEF Some, Least
  <1> HIDE DEF g
  <1>7. CASE n = g
    <2>2. /\ SemIdle \in SemPlaces
          /\ Takes(SemIdle) = 0 /\ Signals(SemIdle) = 0 /\ Posts(SemIdle) = 0 /\ Waits(SemIdle) = 0
      BY DEF SemPlaces, SemIdle, Takes, Signals, Posts, Waits
    <2>3. Balanced(t, SemIdle)
      BY <1>1, <1>2, <1>4, <1>5, <1>6, <1>7, <2>2 DEF Balanced
    <2> QED BY <1>5, <1>7, <2>2, <2>3, PermitStep
  <1>8. CASE n # g
    <2> DEFINE k == g - n
               r == [pc |-> "acquired", got |-> k]
    <2>1. SemGoTo(t, r)
      BY <1>5, <1>8
    <2>2. k \in Some
      BY <1>6, <1>8 DEF Some
    <2>3. k = g - n
      OBVIOUS
    <2> HIDE DEF k
    <2>4. r \in SemPlaces /\ Takes(r) = k /\ Signals(r) = 0 /\ Posts(r) = 0 /\ Waits(r) = 0
      BY <2>2 DEF SemPlaces, Takes, Signals, Posts, Waits
    <2> HIDE DEF r
    <2>5. Balanced(t, r)
      BY <1>1, <1>2, <1>4, <1>5, <1>6, <2>3, <2>4 DEF Balanced
    <2> QED BY <2>1, <2>4, <2>5, PermitStep
  <1> QED BY <1>7, <1>8

\* At the start there are as many permits as items: none.
LEMMA PermitsBegin == BlockingAssumption /\ BlockingInit => PermitsInductive
PROOF
  <1> SUFFICES ASSUME BlockingAssumption, BlockingInit PROVE PermitsInductive
    OBVIOUS
  <1>1. /\ m_count = 0 /\ m_sema = 0 /\ items = 0 /\ semAt = [t \in SemThreads |-> SemIdle]
        /\ MaxCounted \in Nat /\ IsFiniteSet(SemThreads)
    BY DEF BlockingInit, SemInit, BlockingAssumption
  <1>2. SemIdle \in SemPlaces /\ SemIdle.pc = "outside"
    BY DEF SemPlaces, SemIdle
  <1>3. semAt \in [SemThreads -> SemPlaces]
    BY <1>1, <1>2
  <1>4. \A t \in SemThreads : ToSignal[t] = 0 /\ ToPost[t] = 0 /\ ToTake[t] = 0
    BY <1>1, <1>2 DEF ToSignal, ToPost, ToTake, SemIs
  <1>5. /\ ToSignal \in [SemThreads -> Nat] /\ ToPost \in [SemThreads -> Nat]
        /\ ToTake \in [SemThreads -> Nat]
    BY <1>3, PermitSums
  <1>6. Unsignalled = 0
    BY <1>1, <1>4, <1>5, SumNat DEF Unsignalled
  <1>7. Posting = 0
    BY <1>1, <1>4, <1>5, SumNat DEF Posting
  <1>8. Held = 0
    BY <1>1, <1>4, <1>5, SumNat DEF Held
  <1>9. Cardinality(Waiting) = 0
    <2>1. Waiting = {}
      BY <1>1, <1>2 DEF Waiting
    <2> QED BY <2>1, FS_EmptySet
  <1> QED BY <1>1, <1>3, <1>6, <1>7, <1>8, <1>9 DEF PermitsInductive, PermitsAccounted

\* Every step keeps the accounts of the permits.
LEMMA PermitsKeep ==
  ASSUME BlockingAssumption
  PROVE  PermitsInductive /\ [BlockingNext]_blockingVars => PermitsInductive'
PROOF
  <1> SUFFICES ASSUME PermitsInductive, [BlockingNext]_blockingVars PROVE PermitsInductive'
    OBVIOUS
  <1>1. CASE UNCHANGED blockingVars
    <2>1. UNCHANGED <<m_count, m_sema, semAt, items>>
      BY <1>1 DEF blockingVars, semVars
    <2>2. /\ Unsignalled' = Unsignalled /\ Posting' = Posting /\ Held' = Held /\ Waiting' = Waiting
      BY <2>1 DEF Unsignalled, Posting, Held, Waiting, ToSignal, ToPost, ToTake, SemIs
    <2> QED BY <2>1, <2>2 DEF PermitsInductive, PermitsAccounted
  <1>2. ASSUME NEW t \in SemThreads, BlockingStep(t) PROVE PermitsInductive'
    <2>1. CASE Drain(t)
      BY <2>1, DrainKeeps
    <2>2. CASE Spin(t) /\ UNCHANGED items
      <3>1. semAt[t].max \in Some /\ semAt[t].pc = "spin" /\ TryWaitMany(t, semAt[t].max)
        BY <2>2, PlaceFacts DEF Spin, SemIs, PermitsInductive
      <3> QED BY <2>2, <3>1, TryWaitKeeps
    <2>3. CASE AnnounceWaiter(t) /\ UNCHANGED items
      BY <2>3, AnnounceKeeps
    <2>4. CASE Awake(t) /\ UNCHANGED items
      BY <2>4, WakeKeeps DEF Awake, SemIs
    <2>5. CASE (Settle(t) \/ SettleTryWait(t)) /\ UNCHANGED items
      BY <2>5, SettleKeeps
    <2>6. CASE SettleUndo(t) /\ UNCHANGED items
      BY <2>6, UndoKeeps
    <2>7. CASE AcquireMore(t) /\ UNCHANGED items
      BY <2>7, AcquireMoreKeeps
    <2>8. CASE Signal(t) /\ UNCHANGED items
      BY <2>8, SignalKeeps
    <2>9. CASE Post(t) /\ UNCHANGED items
      BY <2>9, PostKeeps
    <2> QED BY <1>2, <2>1, <2>2, <2>3, <2>4, <2>5, <2>6, <2>7, <2>8, <2>9 DEF BlockingStep, SemStep
  <1>3. CASE BlockingNext
    <2>1. Enqueuers \subseteq SemThreads /\ Dequeuers \subseteq SemThreads
      BY DEF BlockingAssumption
    <2> QED BY <1>2, <1>3, <2>1, CallKeeps, SettleKeeps DEF BlockingNext
  <1> QED BY <1>1, <1>3

\* The counter of the semaphore, the waiters and the wake-ups on their way agree, and every
\* permit handed out has its item, for any number of threads, any bulk counts and timeouts:
\* no consumer that was let through finds the queue empty for ever.
THEOREM PermitsAgree == BlockingSpec => []PermitsAccounted
PROOF
  <1>1. BlockingAssumption
    BY BlockingAssumption
  <1>2. BlockingInit => PermitsInductive
    BY <1>1, PermitsBegin
  <1>3. PermitsInductive /\ [BlockingNext]_blockingVars => PermitsInductive'
    BY <1>1, PermitsKeep
  <1>4. PermitsInductive => PermitsAccounted
    BY DEF PermitsInductive
  <1> QED BY <1>2, <1>3, <1>4, PTL DEF BlockingSpec

-----------------------------------------------------------------------------
(***************************************************************************)
(* The periodic flusher.  At most the registry's flusher, and one that a   *)
(* call has in hand, have a running thread, for any number of callers,     *)
(* flushers and calls.  Calls that change the flusher exclude each other,  *)
(* and a call lets go of a flusher only when it has none to join or has    *)
(* joined it.                                                              *)
(***************************************************************************)

Places == {"outside", "make", "assign", "reset", "destroy", "notify", "join", "unlock", "loggers"}
Phases == {"start", "sleep", "asleep", "woken", "late", "flush", "returned", "none"}

\* The call is in a section of flusher_mutex_.
Inside(u) == caller[u].at \notin {"outside", "loggers"}

FlushersTyped ==
    /\ IsFiniteSet(Made) /\ Made = 1..Cardinality(Made)
    /\ timer \in [Made -> Phases] /\ active_ \in [Made -> BOOLEAN]
    /\ global_flusher_ \in Made \cup {NoFlusher}
    /\ caller \in [FlushCallers -> [at : Places, flusher : Made \cup {NoFlusher}]]
    /\ closed \in BOOLEAN

OneInside == \A u, v \in FlushCallers : Inside(u) /\ Inside(v) => u = v

InHand == \A u \in FlushCallers :
              /\ caller[u].at \in {"notify", "join"} => caller[u].flusher \in Made
              /\ caller[u].at \notin {"assign", "destroy", "notify", "join"}
                    => caller[u].flusher = NoFlusher

Known == \A f \in Made : Running(f) =>
             f = global_flusher_ \/ \E u \in FlushCallers : caller[u].flusher = f

FlushersInductive ==
    /\ FlushersTyped /\ OneInside /\ InHand /\ Known
    /\ closed => global_flusher_ = NoFlusher

-----------------------------------------------------------------------------

\* There is no flusher at the start.
LEMMA FlushersBegin == FlusherInit => FlushersInductive
PROOF
  <1> SUFFICES ASSUME FlusherInit PROVE FlushersInductive
    OBVIOUS
  <1>1. Made = {} /\ DOMAIN active_ = {}
    BY DEF FlusherInit, Made
  <1>2. IsFiniteSet(Made) /\ Made = 1..Cardinality(Made)
    BY <1>1, FS_EmptySet
  <1>3. timer \in [Made -> Phases] /\ active_ \in [Made -> BOOLEAN]
    BY <1>1 DEF FlusherInit
  <1> QED BY <1>1, <1>2, <1>3
         DEF FlusherInit, FlushersInductive, FlushersTyped, OneInside, Inside, InHand, Known, Running,
             Outside, Places

\* The step of a flusher's thread: it may come to an end, and nothing else changes.
LEMMA TimerKeeps ==
  ASSUME FlushersInductive, NEW f \in Made, TimerStep(f)
  PROVE  FlushersInductive'
PROOF
  <1> USE DEF FlushersInductive
  <1>1. /\ Running(f)
        /\ \E p \in Phases : timer' = [timer EXCEPT ![f] = p]
        /\ UNCHANGED <<active_, global_flusher_, caller, closed>>
    BY DEF TimerStep, Test, Sleep, IntervalOver, FlushLoggers, TimerTo, Running, Phases
  <1>2. Made' = Made /\ timer' \in [Made -> Phases] /\ \A g \in Made \ {f} : timer'[g] = timer[g]
    BY <1>1 DEF FlushersTyped, Made
  <1>3. FlushersTyped'
    BY <1>1, <1>2 DEF FlushersTyped
  <1>4. \A g \in Made : Running(g)' => Running(g)
    BY <1>1, <1>2 DEF Running
  <1> QED BY <1>1, <1>2, <1>3, <1>4 DEF OneInside, Inside, InHand, Known

\* A caller that goes from one place to the next, while the flushers made stay the same.
LEMMA CallerMoves ==
  ASSUME FlushersTyped, NEW u \in FlushCallers, NEW where \in Places,
         NEW f \in Made \cup {NoFlusher}, CallerTo(u, where, f)
  PROVE  /\ caller' \in [FlushCallers -> [at : Places, flusher : Made \cup {NoFlusher}]]
         /\ caller'[u].at = where /\ caller'[u].flusher = f
         /\ \A v \in FlushCallers \ {u} : caller'[v] = caller[v]
  BY DEF FlushersTyped, CallerTo

\* Nobody else is inside when somebody goes in, or is already.
LEMMA StillOneInside ==
  ASSUME OneInside, NEW u \in FlushCallers,
         \A v \in FlushCallers \ {u} : caller'[v] = caller[v],
         Inside(u) \/ FlusherFree \/ caller'[u].at = "loggers"
  PROVE  OneInside'
  BY DEF OneInside, Inside, FlusherFree

\* Calls that begin.
LEMMA StartKeeps ==
  ASSUME FlushersInductive, NEW u \in FlushCallers,
         StartFlushEvery(u) \/ StartClose(u) \/ StartFlushAll(u)
  PROVE  FlushersInductive'
PROOF
  <1> USE DEF FlushersInductive
  <1>1. PICK where \in {"make", "reset", "loggers"} :
           /\ CallerTo(u, where, NoFlusher) /\ CallerIs(u, "outside")
           /\ FlusherFree \/ where = "loggers"
           /\ UNCHANGED <<active_, timer, global_flusher_, closed>>
    BY DEF StartFlushEvery, StartClose, StartFlushAll, CallRegistry
  <1>2. /\ caller' \in [FlushCallers -> [at : Places, flusher : Made \cup {NoFlusher}]]
        /\ caller'[u].at = where /\ caller'[u].flusher = NoFlusher
        /\ \A v \in FlushCallers \ {u} : caller'[v] = caller[v]
    BY <1>1, CallerMoves DEF Places
  <1>3. Made' = Made /\ FlushersTyped'
    BY <1>1, <1>2 DEF FlushersTyped, Made
  <1>4. OneInside'
    BY <1>1, <1>2, StillOneInside
  <1>5. InHand'
    BY <1>1, <1>2, <1>3 DEF InHand
  <1>6. caller[u].flusher = NoFlusher
    BY <1>1 DEF InHand, CallerIs
  <1>7. Known'
    BY <1>1, <1>2, <1>3, <1>6 DEF Known, Running, FlushersTyped, NoFlusher
  <1> QED BY <1>1, <1>3, <1>4, <1>5, <1>7

\* A flusher is made in the hand of the call that makes it.
LEMMA MakeKeeps ==
  ASSUME FlushersInductive, NEW u \in FlushCallers, MakeFlusher(u)
  PROVE  FlushersInductive'
PROOF
  <1> DEFINE f == Cardinality(Made) + 1
  <1> USE DEF FlushersInductive
  <1>1. PICK positive \in BOOLEAN :
           /\ CallerIs(u, "make")
           /\ active_' = [g \in Made \cup {f} |-> IF g = f THEN positive ELSE active_[g]]
           /\ timer' = [g \in Made \cup {f} |-> IF g # f THEN timer[g]
                                                ELSE IF positive THEN "start" ELSE "none"]
           /\ CallerTo(u, "assign", f)
           /\ UNCHANGED <<global_flusher_, closed>>
    BY DEF MakeFlusher
  <1>2. Cardinality(Made) \in Nat /\ f \notin Made /\ f # NoFlusher
    BY FS_CardinalityType DEF FlushersTyped, NoFlusher
  <1>3. Made' = Made \cup {f} /\ IsFiniteSet(Made') /\ Cardinality(Made') = f
    BY <1>1, <1>2, FS_AddElement DEF FlushersTyped, Made
  <1>4. Made' = 1..f
    BY <1>2, <1>3 DEF FlushersTyped
  <1>5. /\ caller' \in [FlushCallers -> [at : Places, flusher : Made' \cup {NoFlusher}]]
        /\ caller'[u].at = "assign" /\ caller'[u].flusher = f
        /\ \A v \in FlushCallers \ {u} : caller'[v] = caller[v]
    BY <1>1, <1>3 DEF FlushersTyped, CallerTo, Places
  <1>6. timer' \in [Made' -> Phases] /\ active_' \in [Made' -> BOOLEAN]
    BY <1>1, <1>3 DEF FlushersTyped, Phases
  <1>7. \A g \in Made : timer'[g] = timer[g]
    BY <1>1, <1>2
  <1> HIDE DEF f
  <1>8. FlushersTyped'
    BY <1>1, <1>3, <1>4, <1>5, <1>6 DEF FlushersTyped
  <1>9. OneInside'
    BY <1>1, <1>5, StillOneInside DEF Inside, CallerIs
  <1>10. InHand'
    BY <1>3, <1>5 DEF InHand
  <1>11. caller[u].flusher = NoFlusher
    BY <1>1 DEF InHand, CallerIs
  <1>12. Known'
    <2> SUFFICES ASSUME NEW g \in Made', Running(g)'
                 PROVE  g = global_flusher_' \/ \E v \in FlushCallers : caller'[v].flusher = g
      BY DEF Known
    <2>1. CASE g = f
      BY <2>1, <1>5
    <2>2. CASE g \in Made
      <3>1. g # NoFlusher
        BY <2>2, <1>2 DEF FlushersTyped, NoFlusher
      <3>2. g = global_flusher_ \/ \E v \in FlushCallers : caller[v].flusher = g
        BY <2>2, <1>7 DEF Known, Running
      <3> QED BY <3>1, <3>2, <1>1, <1>5, <1>11
    <2> QED BY <2>1, <2>2, <1>3
  <1> QED BY <1>1, <1>8, <1>9, <1>10, <1>12

\* The new flusher is the registry's, and the old one, or none, is in hand.
LEMMA ExchangeKeeps ==
  ASSUME FlushersInductive, NEW u \in FlushCallers, AssignFlusher(u) \/ ResetFlusher(u)
  PROVE  FlushersInductive'
PROOF
  <1> USE DEF FlushersInductive
  <1>1. /\ caller[u].at \in {"assign", "reset"}
        /\ global_flusher_' = caller[u].flusher
        /\ CallerTo(u, "destroy", global_flusher_)
        /\ closed' => closed /\ global_flusher_' = NoFlusher
        /\ closed' \in BOOLEAN
        /\ UNCHANGED <<active_, timer>>
    <2>1. CASE AssignFlusher(u)
      BY <2>1 DEF AssignFlusher, CallerIs
    <2>2. CASE ResetFlusher(u)
      BY <2>2 DEF ResetFlusher, CallerIs, InHand, FlushersTyped
    <2> QED BY <2>1, <2>2
  <1>2. /\ caller' \in [FlushCallers -> [at : Places, flusher : Made \cup {NoFlusher}]]
        /\ caller'[u].at = "destroy" /\ caller'[u].flusher = global_flusher_
        /\ \A v \in FlushCallers \ {u} : caller'[v] = caller[v]
    BY <1>1, CallerMoves DEF Places, FlushersTyped
  <1>3. Made' = Made /\ FlushersTyped'
    BY <1>1, <1>2 DEF FlushersTyped, Made
  <1>4. OneInside'
    BY <1>1, <1>2, StillOneInside DEF Inside
  <1>5. InHand'
    BY <1>2, <1>3 DEF InHand
  <1>6. Known'
    BY <1>1, <1>2, <1>3 DEF Known, Running
  <1> QED BY <1>1, <1>3, <1>4, <1>5, <1>6

\* The steps of the destructor, and what comes after: who lets go of a flusher leaves
\* no thread of it.
LEMMA DestroyKeeps ==
  ASSUME FlushersInductive, NEW u \in FlushCallers,
         Deactivate(u) \/ NotifyTimer(u) \/ JoinTimer(u) \/ UnlockFlusher(u) \/ UseLoggers(u)
  PROVE  FlushersInductive'
PROOF
  <1> DEFINE f == caller[u].flusher
  <1> USE DEF FlushersInductive
  <1>1. f \in Made \cup {NoFlusher}
    BY DEF FlushersTyped
  <1>2. ASSUME NEW where \in Places, NEW h \in {f, NoFlusher}, CallerTo(u, where, h)
        PROVE  /\ caller' \in [FlushCallers -> [at : Places, flusher : Made \cup {NoFlusher}]]
               /\ caller'[u].at = where /\ caller'[u].flusher = h
               /\ \A v \in FlushCallers \ {u} : caller'[v] = caller[v]
    BY <1>1, <1>2, CallerMoves
  <1> DEFINE where == caller'[u].at
             g == caller'[u].flusher
  <1>3. /\ caller' \in [FlushCallers -> [at : Places, flusher : Made \cup {NoFlusher}]]
        /\ \A v \in FlushCallers \ {u} : caller'[v] = caller[v]
        /\ where \in {"notify", "join"} => g = f /\ f \in Made
        /\ where \notin {"notify", "join"} => g = NoFlusher
        /\ g # f => f = NoFlusher \/ ~Running(f)
        /\ Inside(u) \/ where = "outside"
        /\ where \in {"notify", "join", "unlock", "outside", "loggers"}
        /\ timer' # timer => timer' = [timer EXCEPT ![f] = "woken"] /\ timer[f] = "asleep" /\ f \in Made
        /\ active_' # active_ => active_' = [active_ EXCEPT ![f] = FALSE] /\ f \in Made
        /\ UNCHANGED global_flusher_
        /\ closed' # closed => closed' = TRUE /\ global_flusher_ = NoFlusher
    <2>1. CASE Deactivate(u)
      <3>1. Inside(u) /\ UNCHANGED <<timer, global_flusher_, closed>>
        BY <2>1 DEF Deactivate, CallerIs, Inside
      <3>2. CASE f = NoFlusher \/ timer[f] = "none"
        <4>1. CallerTo(u, "unlock", NoFlusher) /\ active_' = active_
          BY <2>1, <3>2 DEF Deactivate
        <4> QED BY <3>1, <3>2, <4>1, <1>2 DEF Places, Running
      <3>3. CASE ~(f = NoFlusher \/ timer[f] = "none")
        <4>1. CallerTo(u, "notify", f) /\ active_' = [active_ EXCEPT ![f] = FALSE] /\ f \in Made
          BY <1>1, <2>1, <3>3 DEF Deactivate
        <4> QED BY <3>1, <4>1, <1>2 DEF Places
      <3> QED BY <3>2, <3>3
    <2>2. CASE NotifyTimer(u)
      <3>1. CallerTo(u, "join", f) /\ Inside(u) /\ f \in Made
        BY <2>2 DEF NotifyTimer, CallerIs, Inside, InHand
      <3>2. /\ timer' # timer => timer' = [timer EXCEPT ![f] = "woken"] /\ timer[f] = "asleep"
            /\ UNCHANGED <<active_, global_flusher_, closed>>
        BY <2>2 DEF NotifyTimer, TimerTo
      <3> QED BY <3>1, <3>2, <1>2 DEF Places
    <2>3. CASE JoinTimer(u)
      <3>1. CallerTo(u, "unlock", NoFlusher) /\ Inside(u) /\ ~Running(f)
        BY <2>3 DEF JoinTimer, CallerIs, Inside, Running
      <3>2. UNCHANGED <<active_, timer, global_flusher_, closed>>
        BY <2>3 DEF JoinTimer
      <3> QED BY <3>1, <3>2, <1>2 DEF Places
    <2>4. CASE UnlockFlusher(u)
      <3>1. /\ f = NoFlusher /\ Inside(u)
            /\ CallerTo(u, "loggers", NoFlusher) \/ CallerTo(u, "outside", NoFlusher)
        BY <2>4 DEF UnlockFlusher, CallerIs, Inside, InHand
      <3>2. /\ UNCHANGED <<active_, timer, global_flusher_>>
            /\ closed' # closed => closed' = TRUE /\ global_flusher_ = NoFlusher
        BY <2>4 DEF UnlockFlusher
      <3>3. where \in {"loggers", "outside"} /\ g = NoFlusher
        BY <3>1, <1>2 DEF Places
      <3> QED BY <3>1, <3>2, <3>3, <1>2 DEF Places
    <2>5. CASE UseLoggers(u)
      <3>1. /\ f = NoFlusher /\ CallerTo(u, "outside", NoFlusher)
            /\ UNCHANGED <<active_, timer, global_flusher_, closed>>
        BY <2>5 DEF UseLoggers, CallerIs, InHand
      <3> QED BY <3>1, <1>2 DEF Places
    <2> QED BY <2>1, <2>2, <2>3, <2>4, <2>5
  <1> HIDE DEF f, where, g
  <1>4. /\ Made' = Made /\ timer' \in [Made -> Phases] /\ active_' \in [Made -> BOOLEAN]
        /\ \A h \in Made : Running(h)' => Running(h)
    BY <1>3 DEF FlushersTyped, Made, Phases, Running
  <1>5. FlushersTyped'
    BY <1>3, <1>4 DEF FlushersTyped
  <1>6. OneInside'
    BY <1>3 DEF OneInside, Inside, where
  <1>7. InHand'
    BY <1>3, <1>4 DEF InHand, where, g
  <1>8. Known'
    BY <1>3, <1>4 DEF Known, f, g, NoFlusher, FlushersTyped
  <1> QED BY <1>3, <1>5, <1>6, <1>7, <1>8

\* Every step keeps at most one flusher at work.
LEMMA FlushersStep == FlushersInductive /\ [FlusherNext]_flusherVars => FlushersInductive'
PROOF
  <1> SUFFICES ASSUME FlushersInductive, [FlusherNext]_flusherVars PROVE FlushersInductive'
    OBVIOUS
  <1>1. CASE UNCHANGED flusherVars
    BY <1>1 DEF flusherVars, FlushersInductive, FlushersTyped, OneInside, InHand, Known, Inside,
                Running, Made
  <1>2. CASE FlusherNext
    BY <1>2, TimerKeeps, StartKeeps, MakeKeeps, ExchangeKeeps, DestroyKeeps
       DEF FlusherNext, CallerStep
  <1> QED BY <1>1, <1>2

\* flush_every and close_registry, however many threads call them and however often:
\* no periodic_function but the registry's and one that a call is about to destroy or
\* to put in place has a running thread, and none has once close_registry is done.
THEOREM AtMostOneFlusher == FlusherSpec => []OneFlusher
PROOF
  <1>1. FlushersInductive => OneFlusher
    <2> SUFFICES ASSUME FlushersInductive PROVE OneFlusher
      OBVIOUS
    <2>1. NoFlusher \notin Made
      BY FS_CardinalityType DEF FlushersInductive, FlushersTyped, NoFlusher
    <2>2. ASSUME closed, FlusherFree, NEW f \in Made PROVE ~Running(f)
      <3>1. \A u \in FlushCallers : caller[u].flusher = NoFlusher
        BY <2>2 DEF FlushersInductive, InHand, FlusherFree
      <3> QED BY <2>1, <2>2, <3>1 DEF FlushersInductive, Known
    <2> QED BY <2>2 DEF FlushersInductive, Known, OneFlusher
  <1> QED BY <1>1, FlushersBegin, FlushersStep, PTL DEF FlusherSpec

-----------------------------------------------------------------------------
(***************************************************************************)
(* block_queue.                                                            *)
(***************************************************************************)

USE BlockQueueAssumption

\* A call that is about to count a discard is an enqueue_if_have_room.
DiscardIsRefusal ==
    \A t \in Threads : at[t] = "discard" => op[t] = "enqueue_if_have_room"

Typed == TypeOK /\ DiscardIsRefusal

\* The queue holds at most what it has room for; full and empty are told by its length.
LEMMA TypedQueue ==
    ASSUME TypeOK
    PROVE  /\ queue_ \in Fifos(Values, MaxItems)
           /\ Len(queue_.items) \in Nat
           /\ Len(queue_.items) <= MaxItems
           /\ FifoFull(queue_) <=> Len(queue_.items) = MaxItems
           /\ FifoEmpty(queue_) <=> Len(queue_.items) = 0
<1>1. queue_ \in Fifos(Values, MaxItems)
  BY DEF TypeOK, Fifos
<1>2. queue_.items \in Seq(Values)
  BY <1>1 DEF Fifos
<1> QED BY <1>1, <1>2, FifoFullEmpty DEF TypeOK

\* notify_one and the end of an operation leave every thread in a state of its
\* type and start no discard.
LEMMA FinishTyped ==
    ASSUME Typed, NEW t \in Threads, Finish(t) \/ NotifyNext(t),
           at[t] \in {"ready", "notify"}
    PROVE  /\ op' \in [Threads -> PutOps \cup TakeOps \cup {"none"}]
           /\ at' \in [Threads -> States]
           /\ DiscardIsRefusal'
<1>1. CASE NotifyNext(t)
  <2>1. PICK waiters \in {PushWaiters, PopWaiters} : NotifyOneOf(t, waiters)
    BY <1>1 DEF NotifyNext
  <2>2. waiters \subseteq Threads /\ \A w \in waiters : at[w] = "waiting"
    BY <2>1 DEF PushWaiters, PopWaiters
  <2> QED BY <2>1, <2>2 DEF NotifyOneOf, Typed, TypeOK, DiscardIsRefusal, States
<1>2. CASE Become(t, "notify")
  BY <1>2 DEF Become, Typed, TypeOK, DiscardIsRefusal, States
<1> QED BY <1>1, <1>2 DEF Finish

\* Putting an item in keeps the types (block_queue::push).
LEMMA PushTyped ==
    ASSUME Typed, NEW t \in Threads, Push(t), at[t] = "ready", op[t] \in PutOps
    PROVE  Typed'
<1>1. Item(t) \in Values
  BY DEF Item, Values, Typed, TypeOK
<1>2. queue_' \in Fifos(Values, MaxItems) /\ Len(queue_'.items) <= MaxItems
  BY <1>1, TypedQueue, FifoPushFacts DEF Typed, Push
<1> QED BY <1>2, FinishTyped DEF Push, history, Typed, TypeOK, Fifos

\* Taking an item out keeps the types (block_queue::pop).
LEMMA PopTyped ==
    ASSUME Typed, NEW t \in Threads, Pop(t), at[t] = "ready", ~FifoEmpty(queue_)
    PROVE  Typed'
<1>1. /\ queue_' \in Fifos(Values, MaxItems) /\ Len(queue_'.items) <= MaxItems
      /\ FifoFront(queue_) \in Values
  BY TypedQueue, FifoPopFacts DEF Typed, Pop
<1>2. taken' \in Seq(Values)
  BY <1>1 DEF Pop, Typed, TypeOK
<1> QED BY <1>1, <1>2, FinishTyped DEF Pop, Typed, TypeOK, Fifos

\* An empty queue and idle threads have their types.
LEMMA TypedInit == Init => Typed
<1> SUFFICES ASSUME Init PROVE Typed
  OBVIOUS
<1>1. queue_.items = <<>> /\ queue_ \in Fifos(Values, MaxItems)
  BY DEF Init, NewFifo, Fifos
<1>2. TypeOK
  BY <1>1 DEF Init, TypeOK, Fifos, States
<1>3. DiscardIsRefusal
  BY DEF Init, DiscardIsRefusal
<1> QED BY <1>2, <1>3 DEF Typed

\* Every operation of the queue keeps the types.
LEMMA TypedStep == Typed /\ [Next]_vars => Typed'
<1> SUFFICES ASSUME Typed, [Next]_vars PROVE Typed'
  OBVIOUS
<1>1. ASSUME NEW t \in Threads, NEW o \in Calls[t], Call(t, o)
      PROVE  Typed'
  <2>1. o \in PutOps \cup TakeOps
    OBVIOUS
  <2>2. /\ op' = [op EXCEPT ![t] = o] /\ at' = [at EXCEPT ![t] = "ready"]
        /\ UNCHANGED <<queue_, discard_count_, taken, forgotten>>
    BY <1>1 DEF Call
  <2>3. sent' \in [Threads -> Nat] /\ issued' \in Nat
    BY <1>1 DEF Call, Typed, TypeOK
  <2>4. op' \in [Threads -> PutOps \cup TakeOps \cup {"none"}]
        /\ at' \in [Threads -> States]
    BY <2>1, <2>2 DEF Typed, TypeOK, States
  <2>5. TypeOK'
    BY <2>2, <2>3, <2>4 DEF Typed, TypeOK
  <2>6. DiscardIsRefusal'
    BY <2>2 DEF Typed, TypeOK, DiscardIsRefusal
  <2> QED BY <2>5, <2>6 DEF Typed
<1>2. ASSUME NEW t \in Threads, EnqueueIfHaveRoom(t) PROVE Typed'
  <2>1. at[t] = "ready" /\ op[t] = "enqueue_if_have_room"
    BY <1>2 DEF EnqueueIfHaveRoom, Ready
  <2>2. CASE Push(t)
    BY <2>1, <2>2, PushTyped DEF PutOps
  <2>3. CASE Become(t, "discard") /\ UNCHANGED <<queue_, discard_count_, history>>
    BY <2>1, <2>3 DEF Become, history, Typed, TypeOK, DiscardIsRefusal, States
  <2>4. CASE CountDiscard /\ Return(t) /\ UNCHANGED <<queue_, history>>
    BY <2>4 DEF CountDiscard, Return, history, Typed, TypeOK, DiscardIsRefusal,
       States
  <2> QED BY <1>2, <2>2, <2>3, <2>4 DEF EnqueueIfHaveRoom
<1>3. ASSUME NEW t \in Threads, DiscardItem(t) PROVE Typed'
  BY <1>3 DEF DiscardItem, CountDiscard, Return, history, Typed, TypeOK,
     DiscardIsRefusal, States
<1>4. ASSUME NEW t \in Threads, Enqueue(t) PROVE Typed'
  <2>1. at[t] = "ready" /\ op[t] = "enqueue"
    BY <1>4 DEF Enqueue, Ready
  <2>2. CASE Push(t)
    BY <2>1, <2>2, PushTyped DEF PutOps
  <2>3. CASE ~Push(t)
    BY <1>4, <2>3 DEF Enqueue, Become, history, Typed, TypeOK,
       DiscardIsRefusal, States
  <2> QED BY <2>2, <2>3
<1>5. ASSUME NEW t \in Threads, EnqueueNowait(t) PROVE Typed'
  BY <1>5, PushTyped DEF EnqueueNowait, Ready, PutOps
<1>6. ASSUME NEW t \in Threads, Dequeue(t) PROVE Typed'
  <2>1. CASE Pop(t) /\ ~FifoEmpty(queue_)
    BY <1>6, <2>1, PopTyped DEF Dequeue, Ready
  <2>2. CASE ~(Pop(t) /\ ~FifoEmpty(queue_))
    BY <1>6, <2>2 DEF Dequeue, Become, history, Typed, TypeOK,
       DiscardIsRefusal, States
  <2> QED BY <2>1, <2>2
<1>7. ASSUME NEW t \in Threads, DequeueFor(t) PROVE Typed'
  <2>1. CASE Pop(t) /\ ~FifoEmpty(queue_)
    BY <1>7, <2>1, PopTyped DEF DequeueFor, Ready
  <2>2. CASE ~(Pop(t) /\ ~FifoEmpty(queue_))
    BY <1>7, <2>2 DEF DequeueFor, Become, Return, history, Typed, TypeOK,
       DiscardIsRefusal, States
  <2> QED BY <2>1, <2>2
<1>8. ASSUME NEW t \in Threads, Notify(t) PROVE Typed'
  BY <1>8, FinishTyped DEF Notify, history, Typed, TypeOK
<1>9. ASSUME NEW t \in Threads, Wake(t) PROVE Typed'
  BY <1>9 DEF Wake, Become, history, Typed, TypeOK, DiscardIsRefusal, States
<1>10. CASE ResetOverrideCount
  BY <1>10, TypedQueue DEF ResetOverrideCount, FifoResetLost, Holding, Fifos,
     Typed, TypeOK, DiscardIsRefusal
<1>11. CASE ResetDiscardCount
  BY <1>11 DEF ResetDiscardCount, Typed, TypeOK, DiscardIsRefusal
<1>12. CASE UNCHANGED vars
  BY <1>12 DEF vars, history, Typed, TypeOK, DiscardIsRefusal
<1> QED BY <1>1, <1>2, <1>3, <1>4, <1>5, <1>6, <1>7, <1>8, <1>9, <1>10, <1>11,
           <1>12 DEF Next, Proceed

\* The queue never grows past its capacity, and every thread is in a state of
\* its call, whatever the interleaving of the operations of block_queue.
THEOREM TypeCorrect == Spec => []TypeOK
<1>1. Typed => TypeOK
  BY DEF Typed
<1> QED BY <1>1, TypedInit, TypedStep, PTL DEF Spec

-----------------------------------------------------------------------------

(***************************************************************************)
(* Cardinalities of the sets of threads.                                   *)
(***************************************************************************)
LEMMA ThreadSetsFinite ==
    ASSUME NEW A \in SUBSET Threads
    PROVE  IsFiniteSet(A) /\ Cardinality(A) \in Nat
BY FS_Subset, FS_CardinalityType

\* Counting sets of threads: a larger set has no fewer members ...
LEMMA NoFewer ==
    ASSUME NEW A \in SUBSET Threads, NEW B \in SUBSET Threads, A \subseteq B
    PROVE  Cardinality(A) <= Cardinality(B)
BY ThreadSetsFinite, FS_Subset

\* ... without a member it has one fewer ...
LEMMA OneFewer ==
    ASSUME NEW A \in SUBSET Threads, NEW t \in A
    PROVE  Cardinality(A \ {t}) = Cardinality(A) - 1
BY ThreadSetsFinite, FS_RemoveElement

\* ... and with a new one, one more.
LEMMA OneMore ==
    ASSUME NEW A \in SUBSET Threads, NEW t \in Threads, t \notin A
    PROVE  Cardinality(A \cup {t}) = Cardinality(A) + 1
BY ThreadSetsFinite, FS_AddElement

-----------------------------------------------------------------------------

(***************************************************************************)
(* No lost wakeup.  Each item pushed while a consumer sleeps brings one    *)
(* thread more into Alerted: the thread that will notify, or the one it    *)
(* notified; a thread leaves Alerted only with an item, with a             *)
(* notification for another thread, or because the queue is empty.         *)
(***************************************************************************)
LEMMA AlertedThreads ==
    /\ Alerted \in SUBSET Threads
    /\ Relieved \in SUBSET Threads
    /\ Alerted' \in SUBSET Threads
    /\ Relieved' \in SUBSET Threads
BY DEF Alerted, Relieved

\* The notification of an enqueue alerts one consumer more, if any sleeps.
LEMMA NotifyAlerts ==
    ASSUME Typed, NEW t \in Threads, op[t] \in PutOps, NotifyNext(t)
    PROVE  /\ PushWaiters' \subseteq PushWaiters
           /\ \/ PushWaiters' = {}
              \/ \E w \in Threads \ Alerted :
                    w # t /\ (Alerted \ {t}) \cup {w} \subseteq Alerted'
<1>1. NotifyOneOf(t, PushWaiters)
  BY DEF NotifyNext
<1>2. CASE PushWaiters = {} /\ at' = [at EXCEPT ![t] = "idle"]
  BY <1>1, <1>2 DEF NotifyOneOf, PushWaiters, Typed, TypeOK, TakeOps
<1>3. ASSUME NEW w \in PushWaiters,
             at' = [at EXCEPT ![t] = "idle", ![w] = "ready"]
      PROVE  /\ PushWaiters' \subseteq PushWaiters
             /\ w \in Threads \ Alerted /\ w # t
             /\ (Alerted \ {t}) \cup {w} \subseteq Alerted'
  BY <1>1, <1>3 DEF NotifyOneOf, PushWaiters, Alerted, Typed, TypeOK, TakeOps,
     PutOps
<1> QED BY <1>1, <1>2, <1>3 DEF NotifyOneOf

\* The notification of a dequeue relieves one producer more, if any sleeps.
LEMMA NotifyRelieves ==
    ASSUME Typed, NEW t \in Threads, op[t] \in TakeOps, NotifyNext(t)
    PROVE  /\ PopWaiters' \subseteq PopWaiters
           /\ \/ PopWaiters' = {}
              \/ \E w \in Threads \ Relieved :
                    w # t /\ (Relieved \ {t}) \cup {w} \subseteq Relieved'
<1>1. NotifyOneOf(t, PopWaiters)
  BY DEF NotifyNext, PutOps, TakeOps
<1>2. CASE PopWaiters = {} /\ at' = [at EXCEPT ![t] = "idle"]
  BY <1>1, <1>2 DEF NotifyOneOf, PopWaiters, Typed, TypeOK
<1>3. ASSUME NEW w \in PopWaiters,
             at' = [at EXCEPT ![t] = "idle", ![w] = "ready"]
      PROVE  /\ PopWaiters' \subseteq PopWaiters
             /\ w \in Threads \ Relieved /\ w # t
             /\ (Relieved \ {t}) \cup {w} \subseteq Relieved'
  BY <1>1, <1>3 DEF NotifyOneOf, PopWaiters, Relieved, Typed, TypeOK, TakeOps,
     PutOps
<1> QED BY <1>1, <1>2, <1>3 DEF NotifyOneOf

\* Neither notification touches the other side.
LEMMA NotifyFrame ==
    ASSUME Typed, NEW t \in Threads, NotifyNext(t)
    PROVE  /\ op[t] \notin PutOps =>
                 Alerted \ {t} \subseteq Alerted' /\ PushWaiters' \subseteq PushWaiters
           /\ op[t] \in PutOps =>
                 Relieved \ {t} \subseteq Relieved' /\ PopWaiters' \subseteq PopWaiters
<1>1. CASE op[t] \notin PutOps
  <2>1. NotifyOneOf(t, PopWaiters)
    BY <1>1 DEF NotifyNext
  <2>2. CASE at' = [at EXCEPT ![t] = "idle"]
    BY <1>1, <2>1, <2>2 DEF NotifyOneOf, Alerted, PushWaiters, TakeOps, PutOps,
       Typed, TypeOK
  <2>3. ASSUME NEW w \in PopWaiters,
               at' = [at EXCEPT ![t] = "idle", ![w] = "ready"]
        PROVE  Alerted \ {t} \subseteq Alerted' /\ PushWaiters' \subseteq PushWaiters
    BY <1>1, <2>1, <2>3 DEF NotifyOneOf, Alerted, PushWaiters, PopWaiters,
       TakeOps, PutOps, Typed, TypeOK
  <2> QED BY <1>1, <2>1, <2>2, <2>3 DEF NotifyOneOf
<1>2. CASE op[t] \in PutOps
  <2>1. NotifyOneOf(t, PushWaiters)
    BY <1>2 DEF NotifyNext
  <2>2. CASE at' = [at EXCEPT ![t] = "idle"]
    BY <1>2, <2>1, <2>2 DEF NotifyOneOf, Relieved, PopWaiters, TakeOps, PutOps,
       Typed, TypeOK
  <2>3. ASSUME NEW w \in PushWaiters,
               at' = [at EXCEPT ![t] = "idle", ![w] = "ready"]
        PROVE  Relieved \ {t} \subseteq Relieved' /\ PopWaiters' \subseteq PopWaiters
    BY <1>2, <2>1, <2>3 DEF NotifyOneOf, Relieved, PushWaiters, PopWaiters,
       TakeOps, PutOps, Typed, TypeOK
  <2> QED BY <1>2, <2>1, <2>2, <2>3 DEF NotifyOneOf
<1> QED BY <1>1, <1>2

\* What the end of a push does to the two sides.
LEMMA FinishPush ==
    ASSUME Typed, NEW t \in Threads, at[t] = "ready", op[t] \in PutOps, Finish(t)
    PROVE  /\ PushWaiters' \subseteq PushWaiters
           /\ PushWaiters' = {} \/ Cardinality(Alerted') >= Cardinality(Alerted) + 1
           /\ PopWaiters' \subseteq PopWaiters
           /\ Relieved \ {t} \subseteq Relieved'
<1>1. t \notin Alerted
  BY DEF Alerted, TakeOps, PutOps
<1>2. CASE NotifyNext(t)
  <2>1. ASSUME NEW w \in Threads \ Alerted,
               (Alerted \ {t}) \cup {w} \subseteq Alerted'
        PROVE  Cardinality(Alerted') >= Cardinality(Alerted) + 1
    <3>1. Cardinality(Alerted \cup {w}) = Cardinality(Alerted) + 1
      BY OneMore, AlertedThreads
    <3>2. Alerted \cup {w} \subseteq Alerted' /\ Alerted \cup {w} \in SUBSET Threads
      BY <1>1, <2>1, AlertedThreads
    <3> QED BY <3>1, <3>2, NoFewer, AlertedThreads, ThreadSetsFinite
  <2> QED BY <1>2, <2>1, NotifyAlerts, NotifyFrame
<1>3. CASE Become(t, "notify")
  <2>1. /\ PushWaiters' = PushWaiters /\ PopWaiters' \subseteq PopWaiters
        /\ Relieved \ {t} \subseteq Relieved'
        /\ Alerted \cup {t} \subseteq Alerted'
    BY <1>3 DEF Become, PushWaiters, PopWaiters, Relieved, Alerted, PutOps,
       TakeOps, Typed, TypeOK
  <2>2. Cardinality(Alerted \cup {t}) = Cardinality(Alerted) + 1
    BY <1>1, OneMore, AlertedThreads
  <2>3. Alerted \cup {t} \in SUBSET Threads
    BY AlertedThreads
  <2> QED BY <2>1, <2>2, <2>3, NoFewer, AlertedThreads, ThreadSetsFinite
<1> QED BY <1>2, <1>3 DEF Finish

\* What the end of a pop does to the two sides.
LEMMA FinishPop ==
    ASSUME Typed, NEW t \in Threads, at[t] = "ready", op[t] \in TakeOps, Finish(t)
    PROVE  /\ PopWaiters' \subseteq PopWaiters
           /\ PopWaiters' = {} \/ Cardinality(Relieved') >= Cardinality(Relieved) + 1
           /\ PushWaiters' \subseteq PushWaiters
           /\ Alerted \ {t} \subseteq Alerted'
<1>1. t \notin Relieved /\ op[t] \notin PutOps
  BY DEF Relieved, TakeOps, PutOps
<1>2. CASE NotifyNext(t)
  <2>1. ASSUME NEW w \in Threads \ Relieved,
               (Relieved \ {t}) \cup {w} \subseteq Relieved'
        PROVE  Cardinality(Relieved') >= Cardinality(Relieved) + 1
    <3>1. Cardinality(Relieved \cup {w}) = Cardinality(Relieved) + 1
      BY OneMore, AlertedThreads
    <3>2. Relieved \cup {w} \subseteq Relieved' /\ Relieved \cup {w} \in SUBSET Threads
      BY <1>1, <2>1, AlertedThreads
    <3> QED BY <3>1, <3>2, NoFewer, AlertedThreads, ThreadSetsFinite
  <2> QED BY <1>1, <1>2, <2>1, NotifyRelieves, NotifyFrame
<1>3. CASE Become(t, "notify")
  <2>1. /\ PopWaiters' = PopWaiters /\ PushWaiters' \subseteq PushWaiters
        /\ Alerted \ {t} \subseteq Alerted'
        /\ Relieved \cup {t} \subseteq Relieved'
    BY <1>3 DEF Become, PushWaiters, PopWaiters, Relieved, Alerted, PutOps,
       TakeOps, Typed, TypeOK
  <2>2. Cardinality(Relieved \cup {t}) = Cardinality(Relieved) + 1
    BY <1>1, OneMore, AlertedThreads
  <2>3. Relieved \cup {t} \in SUBSET Threads
    BY AlertedThreads
  <2> QED BY <2>1, <2>2, <2>3, NoFewer, AlertedThreads, ThreadSetsFinite
<1> QED BY <1>2, <1>3 DEF Finish

\* One place freed is paid for by one thread woken.
LEMMA PlaceFreed ==
    ASSUME NEW m \in Nat, NEW n \in Nat, NEW r \in Nat, NEW r1 \in Nat,
           m - n <= r, r1 >= r + 1
    PROVE  m - (n - 1) <= r1
OBVIOUS

\* A set that may lack one thread of another has at most one member fewer.
LEMMA AtMostOneFewer ==
    ASSUME NEW A \in SUBSET Threads, NEW B \in SUBSET Threads, NEW t,
           A \ {t} \subseteq B
    PROVE  Cardinality(B) >= Cardinality(A) - 1
<1>1. CASE t \in A
  BY <1>1, OneFewer, NoFewer, ThreadSetsFinite
<1>2. CASE t \notin A
  BY <1>2, NoFewer, ThreadSetsFinite
<1> QED BY <1>1, <1>2

\* An item put in comes with a wake-up for one that waits for items.
LEMMA PushWakes ==
    ASSUME Typed, Typed', NoLostWakeup, NEW t \in Threads, at[t] = "ready",
           op[t] \in PutOps, Push(t)
    PROVE  NoLostWakeup'
<1> DEFINE n  == Len(queue_.items)
           n1 == Len(queue_'.items)
<1>1. /\ n \in Nat /\ n1 \in Nat /\ n <= MaxItems /\ n1 <= MaxItems
      /\ MaxItems \in Nat
  <2>1. queue_.items \in Seq(Values) /\ queue_'.items \in Seq(Values)
    BY DEF Typed, TypeOK
  <2> QED BY <2>1 DEF Typed, TypeOK
<1>2. /\ n < MaxItems => n1 = n + 1
      /\ n = MaxItems => n1 = n
  <2>1. Item(t) \in Values
    BY DEF Item, Values, Typed, TypeOK
  <2>2. queue_ \in Fifos(Values, MaxItems) /\ queue_.items \in Seq(Values)
    BY TypedQueue DEF Typed, TypeOK
  <2> QED BY <1>1, <2>1, <2>2, FifoPushFacts DEF Push
<1>3. /\ PushWaiters' \subseteq PushWaiters
      /\ PushWaiters' = {} \/ Cardinality(Alerted') >= Cardinality(Alerted) + 1
      /\ PopWaiters' \subseteq PopWaiters
      /\ Cardinality(Relieved') >= Cardinality(Relieved) - 1
  BY FinishPush, AtMostOneFewer, AlertedThreads DEF Push
<1>4. /\ Cardinality(Alerted) \in Nat /\ Cardinality(Alerted') \in Nat
      /\ Cardinality(Relieved) \in Nat /\ Cardinality(Relieved') \in Nat
  BY AlertedThreads, ThreadSetsFinite
<1>5. ConsumersNotForgotten'
  BY <1>1, <1>2, <1>3, <1>4 DEF NoLostWakeup, ConsumersNotForgotten
<1>6. ProducersNotForgotten'
  BY <1>1, <1>2, <1>3, <1>4 DEF NoLostWakeup, ProducersNotForgotten
<1> QED BY <1>5, <1>6 DEF NoLostWakeup

\* A place freed comes with a wake-up for one that waits for places.
LEMMA PopWakes ==
    ASSUME Typed, Typed', NoLostWakeup, NEW t \in Threads, at[t] = "ready",
           op[t] \in TakeOps, ~FifoEmpty(queue_), Pop(t)
    PROVE  NoLostWakeup'
<1> DEFINE n  == Len(queue_.items)
           n1 == Len(queue_'.items)
<1>1. /\ n \in Nat /\ n1 \in Nat /\ n <= MaxItems /\ n1 <= MaxItems
      /\ MaxItems \in Nat
  <2>1. queue_.items \in Seq(Values) /\ queue_'.items \in Seq(Values)
    BY DEF Typed, TypeOK
  <2> QED BY <2>1 DEF Typed, TypeOK
<1>2. n1 = n - 1
  <2>1. queue_ \in Fifos(Values, MaxItems)
    BY TypedQueue DEF Typed
  <2> QED BY <2>1, FifoPopFacts DEF Pop
<1>3. /\ PopWaiters' \subseteq PopWaiters
      /\ PopWaiters' = {} \/ Cardinality(Relieved') >= Cardinality(Relieved) + 1
      /\ PushWaiters' \subseteq PushWaiters
      /\ Cardinality(Alerted') >= Cardinality(Alerted) - 1
  BY FinishPop, AtMostOneFewer, AlertedThreads DEF Pop
<1>4. /\ Cardinality(Alerted) \in Nat /\ Cardinality(Alerted') \in Nat
      /\ Cardinality(Relieved) \in Nat /\ Cardinality(Relieved') \in Nat
  BY AlertedThreads, ThreadSetsFinite
<1>5. ConsumersNotForgotten'
  BY <1>1, <1>2, <1>3, <1>4 DEF NoLostWakeup, ConsumersNotForgotten
<1>6. ProducersNotForgotten'
  <2>1. SUFFICES ASSUME PopWaiters' # {}
                 PROVE  MaxItems - n1 <= Cardinality(Relieved')
    BY DEF ProducersNotForgotten
  <2>2. MaxItems - n <= Cardinality(Relieved)
    BY <1>3, <2>1 DEF NoLostWakeup, ProducersNotForgotten
  <2>3. Cardinality(Relieved') >= Cardinality(Relieved) + 1
    BY <1>3, <2>1
  <2> HIDE DEF n, n1
  <2> QED BY <1>1, <1>2, <1>4, <2>2, <2>3, PlaceFreed
<1> QED BY <1>5, <1>6 DEF NoLostWakeup

\* A step that leaves the queue alone and makes neither Alerted nor Relieved
\* smaller while somebody sleeps, and puts nobody to sleep.
LEMMA CountedStep ==
    ASSUME NoLostWakeup, Typed, queue_'.items = queue_.items,
           PushWaiters' \subseteq PushWaiters, PopWaiters' \subseteq PopWaiters,
           PushWaiters' = {} \/ Cardinality(Alerted) <= Cardinality(Alerted'),
           PopWaiters' = {} \/ Cardinality(Relieved) <= Cardinality(Relieved')
    PROVE  NoLostWakeup'
<1>1. /\ Cardinality(Alerted) \in Nat /\ Cardinality(Alerted') \in Nat
      /\ Cardinality(Relieved) \in Nat /\ Cardinality(Relieved') \in Nat
  BY AlertedThreads, ThreadSetsFinite
<1>2. Len(queue_.items) \in Nat /\ MaxItems \in Nat
  BY TypedQueue DEF Typed
<1>3. ConsumersNotForgotten'
  BY <1>1, <1>2 DEF NoLostWakeup, ConsumersNotForgotten
<1>4. ProducersNotForgotten'
  BY <1>1, <1>2 DEF NoLostWakeup, ProducersNotForgotten
<1> QED BY <1>3, <1>4 DEF NoLostWakeup

\* No wake-up is lost where the queue stays and no more threads wait.
LEMMA QuietStep ==
    ASSUME NoLostWakeup, Typed, queue_'.items = queue_.items,
           PushWaiters' \subseteq PushWaiters, PopWaiters' \subseteq PopWaiters,
           Alerted \subseteq Alerted', Relieved \subseteq Relieved'
    PROVE  NoLostWakeup'
<1>1. /\ Cardinality(Alerted) <= Cardinality(Alerted')
      /\ Cardinality(Relieved) <= Cardinality(Relieved')
  BY AlertedThreads, NoFewer
<1> QED BY <1>1, CountedStep

\* A thread leaves the set and another one joins it.
LEMMA OneForOne ==
    ASSUME NEW A \in SUBSET Threads, NEW B \in SUBSET Threads,
           NEW t \in A, NEW w \in Threads \ A, (A \ {t}) \cup {w} \subseteq B
    PROVE  Cardinality(A) <= Cardinality(B)
<1>1. /\ Cardinality(A \ {t}) = Cardinality(A) - 1
      /\ A \ {t} \in SUBSET Threads
  BY OneFewer
<1>2. /\ Cardinality((A \ {t}) \cup {w}) = Cardinality(A \ {t}) + 1
      /\ (A \ {t}) \cup {w} \in SUBSET Threads
  BY <1>1, OneMore
<1>3. Cardinality((A \ {t}) \cup {w}) <= Cardinality(B)
  BY <1>2, NoFewer
<1>4. Cardinality(A) \in Nat /\ Cardinality(B) \in Nat
  BY ThreadSetsFinite
<1> QED BY <1>1, <1>2, <1>3, <1>4

\* A consumer that finds the queue empty falls asleep or gives up; a producer
\* that finds it full falls asleep.
LEMMA SleepStep ==
    ASSUME NoLostWakeup, Typed, Typed', NEW t \in Threads, at[t] = "ready",
           Become(t, "waiting") \/ Return(t), queue_' = queue_,
           \/ op[t] \in TakeOps /\ FifoEmpty(queue_)
           \/ op[t] = "enqueue" /\ FifoFull(queue_)
    PROVE  NoLostWakeup'
<1>1. /\ Len(queue_.items) \in Nat /\ MaxItems \in Nat
      /\ FifoEmpty(queue_) => Len(queue_.items) = 0
      /\ FifoFull(queue_) => Len(queue_.items) = MaxItems
  BY TypedQueue DEF Typed
<1>2. /\ Cardinality(Alerted) \in Nat /\ Cardinality(Alerted') \in Nat
      /\ Cardinality(Relieved) \in Nat /\ Cardinality(Relieved') \in Nat
  BY AlertedThreads, ThreadSetsFinite
<1>3. CASE op[t] \in TakeOps /\ FifoEmpty(queue_)
  <2>1. PopWaiters' \subseteq PopWaiters /\ Relieved \subseteq Relieved'
    BY <1>3 DEF Become, Return, PopWaiters, Relieved, TakeOps, PutOps, Typed,
       TypeOK
  <2>2. Cardinality(Relieved) <= Cardinality(Relieved')
    BY <2>1, AlertedThreads, NoFewer
  <2> QED BY <1>1, <1>2, <1>3, <2>1, <2>2 DEF NoLostWakeup,
             ConsumersNotForgotten, ProducersNotForgotten
<1>4. CASE op[t] = "enqueue" /\ FifoFull(queue_)
  <2>1. PushWaiters' \subseteq PushWaiters /\ Alerted \subseteq Alerted'
    BY <1>4 DEF Become, Return, PushWaiters, Alerted, TakeOps, PutOps, Typed,
       TypeOK
  <2>2. Cardinality(Alerted) <= Cardinality(Alerted')
    BY <2>1, AlertedThreads, NoFewer
  <2> QED BY <1>1, <1>2, <1>4, <2>1, <2>2 DEF NoLostWakeup,
             ConsumersNotForgotten, ProducersNotForgotten
<1> QED BY <1>3, <1>4

\* At the start nobody waits.
LEMMA NoLostWakeupInit == Init => NoLostWakeup
BY DEF Init, NoLostWakeup, ConsumersNotForgotten, ProducersNotForgotten,
   PushWaiters, PopWaiters

\* No operation loses a wake-up.
LEMMA NoLostWakeupStep ==
    Typed /\ Typed' /\ NoLostWakeup /\ [Next]_vars => NoLostWakeup'
<1> SUFFICES ASSUME Typed, Typed', NoLostWakeup, [Next]_vars
             PROVE  NoLostWakeup'
  OBVIOUS
<1> DEFINE Quiet == /\ PushWaiters' \subseteq PushWaiters
                    /\ PopWaiters' \subseteq PopWaiters
                    /\ Alerted \subseteq Alerted'
                    /\ Relieved \subseteq Relieved'
<1> USE DEF Typed, TypeOK
<1>1. ASSUME NEW t \in Threads, NEW o \in Calls[t], Call(t, o)
      PROVE  NoLostWakeup'
  <2>1. Quiet /\ queue_' = queue_
    BY <1>1 DEF Call, PushWaiters, PopWaiters, Alerted, Relieved
  <2> QED BY <2>1, QuietStep
<1>2. ASSUME NEW t \in Threads, EnqueueIfHaveRoom(t) PROVE NoLostWakeup'
  <2>1. at[t] = "ready" /\ op[t] = "enqueue_if_have_room"
    BY <1>2 DEF EnqueueIfHaveRoom, Ready
  <2>2. CASE Push(t)
    BY <2>1, <2>2, PushWakes DEF PutOps
  <2>3. CASE (Return(t) \/ Become(t, "discard")) /\ UNCHANGED queue_
    <3>1. Quiet
      BY <2>1, <2>3 DEF Return, Become, PushWaiters, PopWaiters, Alerted,
         Relieved, PutOps, TakeOps
    <3> QED BY <2>3, <3>1, QuietStep
  <2> QED BY <1>2, <2>2, <2>3 DEF EnqueueIfHaveRoom
<1>3. ASSUME NEW t \in Threads, DiscardItem(t) PROVE NoLostWakeup'
  <2>1. Quiet /\ queue_' = queue_
    BY <1>3 DEF DiscardItem, Return, PushWaiters, PopWaiters, Alerted, Relieved
  <2> QED BY <2>1, QuietStep
<1>4. ASSUME NEW t \in Threads, Enqueue(t) PROVE NoLostWakeup'
  <2>1. at[t] = "ready" /\ op[t] = "enqueue"
    BY <1>4 DEF Enqueue, Ready
  <2>2. CASE Push(t)
    BY <2>1, <2>2, PushWakes DEF PutOps
  <2>3. CASE FifoFull(queue_) /\ Become(t, "waiting") /\ UNCHANGED queue_
    BY <2>1, <2>3, SleepStep
  <2> QED BY <1>4, <2>2, <2>3 DEF Enqueue
<1>5. ASSUME NEW t \in Threads, EnqueueNowait(t) PROVE NoLostWakeup'
  BY <1>5, PushWakes DEF EnqueueNowait, Ready, PutOps
<1>6. ASSUME NEW t \in Threads, Dequeue(t) \/ DequeueFor(t) PROVE NoLostWakeup'
  <2>1. at[t] = "ready" /\ op[t] \in TakeOps
    BY <1>6 DEF Dequeue, DequeueFor, Ready, TakeOps
  <2>2. CASE Pop(t) /\ ~FifoEmpty(queue_)
    BY <2>1, <2>2, PopWakes
  <2>3. CASE /\ FifoEmpty(queue_)
             /\ Become(t, "waiting") \/ Return(t)
             /\ UNCHANGED queue_
    BY <2>1, <2>3, SleepStep
  <2> QED BY <1>6, <2>2, <2>3 DEF Dequeue, DequeueFor
<1>7. ASSUME NEW t \in Threads, Notify(t) PROVE NoLostWakeup'
  <2>1. at[t] = "notify" /\ NotifyNext(t) /\ UNCHANGED queue_
    BY <1>7 DEF Notify
  <2>2. CASE op[t] \in PutOps
    <3>1. t \in Alerted /\ t \notin Relieved
      BY <2>1, <2>2 DEF Alerted, Relieved, PutOps, TakeOps
    <3>2. PopWaiters' \subseteq PopWaiters /\ Relieved \subseteq Relieved'
      BY <2>1, <2>2, <3>1, NotifyFrame
    <3>3. ASSUME NEW w \in Threads \ Alerted,
                 w # t /\ (Alerted \ {t}) \cup {w} \subseteq Alerted'
          PROVE  Cardinality(Alerted) <= Cardinality(Alerted')
      BY <3>1, <3>3, OneForOne, AlertedThreads
    <3>4. /\ PushWaiters' \subseteq PushWaiters
          /\ PushWaiters' = {} \/ Cardinality(Alerted) <= Cardinality(Alerted')
      BY <2>1, <2>2, <3>3, NotifyAlerts
    <3>5. Cardinality(Relieved) <= Cardinality(Relieved')
      BY <3>2, NoFewer, AlertedThreads
    <3> QED BY <2>1, <3>2, <3>4, <3>5, CountedStep
  <2>3. CASE op[t] \in TakeOps
    <3>1. t \in Relieved /\ t \notin Alerted /\ op[t] \notin PutOps
      BY <2>1, <2>3 DEF Alerted, Relieved, PutOps, TakeOps
    <3>2. PushWaiters' \subseteq PushWaiters /\ Alerted \subseteq Alerted'
      BY <2>1, <3>1, NotifyFrame
    <3>3. ASSUME NEW w \in Threads \ Relieved,
                 w # t /\ (Relieved \ {t}) \cup {w} \subseteq Relieved'
          PROVE  Cardinality(Relieved) <= Cardinality(Relieved')
      BY <3>1, <3>3, OneForOne, AlertedThreads
    <3>4. /\ PopWaiters' \subseteq PopWaiters
          /\ PopWaiters' = {} \/ Cardinality(Relieved) <= Cardinality(Relieved')
      BY <2>1, <2>3, <3>3, NotifyRelieves
    <3>5. Cardinality(Alerted) <= Cardinality(Alerted')
      BY <3>2, NoFewer, AlertedThreads
    <3> QED BY <2>1, <3>2, <3>4, <3>5, CountedStep
  <2>4. CASE op[t] \notin PutOps \cup TakeOps
    <3>1. t \notin Alerted /\ t \notin Relieved
      BY <2>1, <2>4 DEF Alerted, Relieved
    <3>2. PushWaiters' \subseteq PushWaiters /\ Alerted \subseteq Alerted'
      BY <2>1, <2>4, <3>1, NotifyFrame
    <3>3. NotifyOneOf(t, PopWaiters)
      BY <2>1, <2>4 DEF NotifyNext
    <3>4. PopWaiters' \subseteq PopWaiters /\ Relieved \subseteq Relieved'
      BY <2>4, <3>1, <3>3 DEF NotifyOneOf, PopWaiters, Relieved, PutOps, TakeOps
    <3> QED BY <2>1, <3>2, <3>4, QuietStep
  <2> QED BY <2>2, <2>3, <2>4
<1>8. ASSUME NEW t \in Threads, Wake(t) PROVE NoLostWakeup'
  <2>1. Quiet /\ queue_' = queue_
    BY <1>8 DEF Wake, Become, PushWaiters, PopWaiters, Alerted, Relieved
  <2> QED BY <2>1, QuietStep
<1>9. CASE ResetOverrideCount \/ ResetDiscardCount \/ UNCHANGED vars
  <2>1. Quiet /\ queue_'.items = queue_.items
    BY <1>9 DEF ResetOverrideCount, ResetDiscardCount, FifoResetLost, Holding,
       vars, PushWaiters, PopWaiters, Alerted, Relieved
  <2> QED BY <2>1, QuietStep
<1> QED BY <1>1, <1>2, <1>3, <1>4, <1>5, <1>6, <1>7, <1>8, <1>9
        DEF Next, Proceed

\* No wakeup is lost: notify_one after the unlock is enough, for consumers and
\* for producers, with spurious wakeups, timeouts and mixed operations.
THEOREM WakeupsNotLost == Spec => []NoLostWakeup
<1> DEFINE IInv == Typed /\ NoLostWakeup
<1>1. Init => IInv
  BY TypedInit, NoLostWakeupInit
<1>2. IInv /\ [Next]_vars => IInv'
  BY TypedStep, NoLostWakeupStep
<1>3. IInv => NoLostWakeup
  OBVIOUS
<1> QED BY <1>1, <1>2, <1>3, PTL DEF Spec

-----------------------------------------------------------------------------

(***************************************************************************)
(* Conservation.  Every step moves at most one item from one term of the   *)
(* sum to another.                                                         *)
(***************************************************************************)
LEMMA UndecidedThreads ==
    /\ Undecided \in SUBSET Threads
    /\ Undecided' \in SUBSET Threads
    /\ Cardinality(Undecided) \in Nat
BY ThreadSetsFinite DEF Undecided

\* The end of an operation decides the call of its thread and no other.
LEMMA FinishDecides ==
    ASSUME Typed, NEW t \in Threads, Finish(t) \/ NotifyNext(t),
           at[t] \in {"ready", "notify"}
    PROVE  Undecided' = Undecided \ {t}
<1> USE DEF Typed, TypeOK
<1>1. CASE NotifyNext(t)
  <2>1. PICK waiters \in {PushWaiters, PopWaiters} : NotifyOneOf(t, waiters)
    BY <1>1 DEF NotifyNext
  <2>2. CASE at' = [at EXCEPT ![t] = "idle"]
    BY <2>1, <2>2 DEF NotifyOneOf, Undecided, PutOps, TakeOps
  <2>3. ASSUME NEW w \in waiters, at' = [at EXCEPT ![t] = "idle", ![w] = "ready"]
        PROVE  Undecided' = Undecided \ {t}
    <3>1. w \in Threads /\ at[w] = "waiting" /\ w # t
      BY DEF PushWaiters, PopWaiters
    <3> QED BY <2>1, <2>3, <3>1 DEF NotifyOneOf, Undecided, PutOps, TakeOps
  <2> QED BY <2>1, <2>2, <2>3 DEF NotifyOneOf
<1>2. CASE Become(t, "notify")
  BY <1>2 DEF Become, Undecided
<1> QED BY <1>1, <1>2 DEF Finish

\* At the start nothing was put in.
LEMMA ConservationInit == Init => Conservation
<1> SUFFICES ASSUME Init PROVE Conservation
  OBVIOUS
<1>1. Undecided = {} /\ Len(taken) = 0 /\ Len(queue_.items) = 0
  BY DEF Init, Undecided, NewFifo
<1>2. Cardinality({}) = 0
  BY FS_EmptySet
<1> QED BY <1>1, <1>2 DEF Init, Conservation, NewFifo

\* The terms of the sum are numbers.
Terms ==
    /\ queue_.lost \in Nat /\ Len(queue_.items) \in Nat /\ Len(taken) \in Nat
    /\ discard_count_ \in Nat /\ forgotten \in Nat /\ issued \in Nat
    /\ Cardinality(Undecided) \in Nat

\* What is counted are natural numbers.
LEMMA TermsAreNumbers == Typed => Terms
<1> SUFFICES ASSUME Typed PROVE Terms
  OBVIOUS
<1>1. queue_.items \in Seq(Values) /\ taken \in Seq(Values)
  BY DEF Typed, TypeOK
<1> QED BY <1>1, UndecidedThreads DEF Terms, Typed, TypeOK

\* An item put in is counted once: it is held, or drives out the oldest.
LEMMA PushConserves ==
    ASSUME Typed, Conservation, NEW t \in Threads, at[t] = "ready",
           op[t] \in PutOps, Push(t)
    PROVE  Conservation'
<1> DEFINE a == Len(taken)
           b == Len(queue_.items)
           l == queue_.lost
           d == discard_count_
           f == forgotten
           u == Cardinality(Undecided)
<1>n. a \in Nat /\ b \in Nat /\ l \in Nat /\ d \in Nat /\ f \in Nat /\ u \in Nat
  BY TermsAreNumbers DEF Terms
<1>s. issued = a + b + l + d + f + u
  BY DEF Conservation
<1>1. t \in Undecided
  BY DEF Undecided
<1>2. Cardinality(Undecided') = Cardinality(Undecided) - 1
  BY <1>1, FinishDecides, OneFewer, UndecidedThreads DEF Push
<1>3. Len(queue_'.items) + queue_'.lost = Len(queue_.items) + queue_.lost + 1
  <2>1. Item(t) \in Values
    BY DEF Item, Values, Typed, TypeOK
  <2>2. queue_ \in Fifos(Values, MaxItems) /\ queue_.items \in Seq(Values)
    BY TypedQueue DEF Typed, TypeOK
  <2>3. queue_.lost \in Nat /\ Len(queue_.items) \in Nat
    BY <2>2 DEF Fifos
  <2>4. CASE Len(queue_.items) < MaxItems
    <3>1. queue_' = FifoPush(queue_, Item(t))
      BY DEF Push
    <3>2. MaxItems \in Nat /\ Len(queue_.items) <= MaxItems
      BY TypedQueue DEF Typed
    <3>3. /\ FifoPush(queue_, Item(t)).items = Append(queue_.items, Item(t))
          /\ FifoPush(queue_, Item(t)).lost = queue_.lost
      BY <2>1, <2>2, <2>4, <3>2, FifoPushFacts
    <3>4. Len(queue_'.items) = Len(queue_.items) + 1
      BY <2>1, <2>2, <3>1, <3>3
    <3>5. queue_'.lost = queue_.lost
      BY <3>1, <3>3
    <3> QED BY <2>3, <3>4, <3>5
  <2>5. CASE Len(queue_.items) = MaxItems
    BY <2>1, <2>2, <2>3, <2>5, TypedQueue, FifoPushFacts DEF Push, Typed
  <2> QED BY <2>3, <2>4, <2>5, TypedQueue DEF Typed
<1>4. /\ queue_.lost \in Nat /\ Len(queue_.items) \in Nat /\ Len(taken) \in Nat
      /\ discard_count_ \in Nat /\ forgotten \in Nat /\ issued \in Nat
  BY DEF Typed, TypeOK
<1>5. queue_'.lost \in Nat /\ Len(queue_'.items) \in Nat
  <2>1. queue_' \in Fifos(Values, MaxItems)
    BY PushTyped DEF Typed, TypeOK, Fifos
  <2> QED BY <2>1 DEF Fifos
<1>6. UNCHANGED <<discard_count_, issued, taken, forgotten>>
  BY DEF Push, history
<1>7. ASSUME NEW b1 \in Nat, NEW l1 \in Nat, b1 + l1 = b + l + 1
      PROVE  issued = a + b1 + l1 + d + f + (u - 1)
  <2> HIDE DEF a, b, l, d, f, u
  <2> QED BY <1>n, <1>s, <1>7
<1>8. issued = a + Len(queue_'.items) + queue_'.lost + d + f + (u - 1)
  BY <1>3, <1>5, <1>7
<1> QED BY <1>2, <1>6, <1>8 DEF Conservation

\* An item taken out is counted as taken.
LEMMA PopConserves ==
    ASSUME Typed, Conservation, NEW t \in Threads, at[t] = "ready",
           op[t] \in TakeOps, ~FifoEmpty(queue_), Pop(t)
    PROVE  Conservation'
<1> DEFINE a == Len(taken)
           b == Len(queue_.items)
           l == queue_.lost
           d == discard_count_
           f == forgotten
           u == Cardinality(Undecided)
<1>n. a \in Nat /\ b \in Nat /\ l \in Nat /\ d \in Nat /\ f \in Nat /\ u \in Nat
  BY TermsAreNumbers DEF Terms
<1>s. issued = a + b + l + d + f + u
  BY DEF Conservation
<1>1. Undecided' = Undecided
  <2>1. t \notin Undecided
    BY DEF Undecided, PutOps, TakeOps
  <2> QED BY <2>1, FinishDecides DEF Pop
<1>2. /\ Len(queue_'.items) = Len(queue_.items) - 1
      /\ queue_'.lost = queue_.lost
      /\ FifoFront(queue_) \in Values
  <2>1. queue_ \in Fifos(Values, MaxItems)
    BY TypedQueue DEF Typed
  <2> QED BY <2>1, FifoPopFacts DEF Pop
<1>3. Len(taken') = Len(taken) + 1
  BY <1>2 DEF Pop, Typed, TypeOK
<1>4. /\ queue_.lost \in Nat /\ Len(queue_.items) \in Nat /\ Len(taken) \in Nat
      /\ discard_count_ \in Nat /\ forgotten \in Nat /\ issued \in Nat
  BY DEF Typed, TypeOK
<1>5. UNCHANGED <<discard_count_, issued, forgotten>>
  BY DEF Pop
<1>6. issued = (a + 1) + (b - 1) + l + d + f + u
  <2> HIDE DEF a, b, l, d, f, u
  <2> QED BY <1>n, <1>s
<1> QED BY <1>1, <1>2, <1>3, <1>5, <1>6 DEF Conservation

\* A step that moves nothing.
LEMMA SameSum ==
    ASSUME Conservation, Undecided' = Undecided, queue_' = queue_,
           UNCHANGED <<discard_count_, issued, taken, forgotten>>
    PROVE  Conservation'
BY DEF Conservation

\* An item discarded is counted when its thread returns.
LEMMA DiscardConserves ==
    ASSUME Typed, Conservation, NEW t \in Undecided, CountDiscard, Return(t),
           UNCHANGED <<queue_, history>>
    PROVE  Conservation'
<1>1. Undecided' = Undecided \ {t}
  BY DEF Return, Undecided, Typed, TypeOK, PutOps
<1>2. Cardinality(Undecided') = Cardinality(Undecided) - 1
  BY <1>1, OneFewer, UndecidedThreads
<1> DEFINE a == Len(taken)
           b == Len(queue_.items)
           l == queue_.lost
           d == discard_count_
           f == forgotten
           u == Cardinality(Undecided)
<1>3. a \in Nat /\ b \in Nat /\ l \in Nat /\ d \in Nat /\ f \in Nat /\ u \in Nat
  BY TermsAreNumbers DEF Terms
<1>4. issued = a + b + l + d + f + u
  BY DEF Conservation
<1>5. queue_' = queue_ /\ UNCHANGED <<issued, taken, forgotten>> /\ discard_count_' = discard_count_ + 1
  BY DEF CountDiscard, history
<1>6. issued = a + b + l + (d + 1) + f + (u - 1)
  <2> HIDE DEF a, b, l, d, f, u
  <2> QED BY <1>3, <1>4
<1> QED BY <1>2, <1>5, <1>6 DEF Conservation

\* No operation loses an item or makes one up.
LEMMA ConservationStep == Typed /\ Conservation /\ [Next]_vars => Conservation'
<1> SUFFICES ASSUME Typed, Conservation, [Next]_vars PROVE Conservation'
  OBVIOUS
<1>0. /\ queue_.lost \in Nat /\ Len(queue_.items) \in Nat /\ Len(taken) \in Nat
      /\ discard_count_ \in Nat /\ forgotten \in Nat /\ issued \in Nat
  BY DEF Typed, TypeOK
<1> DEFINE a == Len(taken)
           b == Len(queue_.items)
           l == queue_.lost
           d == discard_count_
           f == forgotten
           u == Cardinality(Undecided)
<1>n. a \in Nat /\ b \in Nat /\ l \in Nat /\ d \in Nat /\ f \in Nat /\ u \in Nat
  BY TermsAreNumbers DEF Terms
<1>s. issued = a + b + l + d + f + u
  BY DEF Conservation
<1>1. ASSUME NEW t \in Threads, NEW o \in Calls[t], Call(t, o)
      PROVE  Conservation'
  <2>1. CASE o \in PutOps
    <3>1. Undecided' = Undecided \cup {t} /\ t \notin Undecided
      BY <1>1, <2>1 DEF Call, Undecided, Typed, TypeOK
    <3>2. Cardinality(Undecided') = Cardinality(Undecided) + 1
      BY <3>1, OneMore, UndecidedThreads
    <3>3. issued + 1 = a + b + l + d + f + (u + 1)
      <4> HIDE DEF a, b, l, d, f, u
      <4> QED BY <1>n, <1>s
    <3> QED BY <1>1, <2>1, <3>2, <3>3 DEF Call, Conservation
  <2>2. CASE o \notin PutOps
    <3>1. Undecided' = Undecided
      BY <1>1, <2>2 DEF Call, Undecided, Typed, TypeOK
    <3> QED BY <1>1, <2>2, <3>1, SameSum DEF Call
  <2> QED BY <2>1, <2>2
<1>2. ASSUME NEW t \in Threads, EnqueueIfHaveRoom(t) PROVE Conservation'
  <2>1. /\ at[t] = "ready" /\ op[t] = "enqueue_if_have_room" /\ op[t] \in PutOps
        /\ t \in Undecided
    BY <1>2 DEF EnqueueIfHaveRoom, Ready, PutOps, Undecided
  <2>2. CASE Push(t)
    BY <2>1, <2>2, PushConserves
  <2>3. CASE Become(t, "discard") /\ UNCHANGED <<queue_, discard_count_, history>>
    <3>1. Undecided' = Undecided
      BY <2>1, <2>3 DEF Become, Undecided, Typed, TypeOK
    <3> QED BY <2>3, <3>1, SameSum DEF history
  <2>4. CASE CountDiscard /\ Return(t) /\ UNCHANGED <<queue_, history>>
    BY <2>1, <2>4, DiscardConserves
  <2> QED BY <1>2, <2>2, <2>3, <2>4 DEF EnqueueIfHaveRoom
<1>3. ASSUME NEW t \in Threads, DiscardItem(t) PROVE Conservation'
  <2>1. t \in Undecided
    BY <1>3 DEF DiscardItem, Undecided, Typed, DiscardIsRefusal, PutOps
  <2> QED BY <1>3, <2>1, DiscardConserves DEF DiscardItem
<1>4. ASSUME NEW t \in Threads, Enqueue(t) PROVE Conservation'
  <2>1. at[t] = "ready" /\ op[t] = "enqueue" /\ op[t] \in PutOps
    BY <1>4 DEF Enqueue, Ready, PutOps
  <2>2. CASE Push(t)
    BY <2>1, <2>2, PushConserves
  <2>3. CASE Become(t, "waiting") /\ UNCHANGED <<queue_, discard_count_, history>>
    <3>1. Undecided' = Undecided
      BY <2>1, <2>3 DEF Become, Undecided, Typed, TypeOK
    <3> QED BY <2>3, <3>1, SameSum DEF history
  <2> QED BY <1>4, <2>2, <2>3 DEF Enqueue
<1>5. ASSUME NEW t \in Threads, EnqueueNowait(t) PROVE Conservation'
  BY <1>5, PushConserves DEF EnqueueNowait, Ready, PutOps
<1>6. ASSUME NEW t \in Threads, Dequeue(t) \/ DequeueFor(t) PROVE Conservation'
  <2>1. at[t] = "ready" /\ op[t] \in TakeOps /\ op[t] \notin PutOps
    BY <1>6 DEF Dequeue, DequeueFor, Ready, TakeOps, PutOps
  <2>2. CASE Pop(t) /\ ~FifoEmpty(queue_)
    BY <2>1, <2>2, PopConserves
  <2>3. CASE /\ Become(t, "waiting") \/ Return(t)
             /\ UNCHANGED <<queue_, discard_count_, history>>
    <3>1. Undecided' = Undecided
      BY <2>1, <2>3 DEF Become, Return, Undecided, Typed, TypeOK, PutOps
    <3> QED BY <2>3, <3>1, SameSum DEF history
  <2> QED BY <1>6, <2>2, <2>3 DEF Dequeue, DequeueFor
<1>7. ASSUME NEW t \in Threads, Notify(t) PROVE Conservation'
  <2>1. Undecided' = Undecided
    <3>1. t \notin Undecided
      BY <1>7 DEF Notify, Undecided
    <3> QED BY <1>7, <3>1, FinishDecides DEF Notify
  <2> QED BY <1>7, <2>1, SameSum DEF Notify, history
<1>8. ASSUME NEW t \in Threads, Wake(t) PROVE Conservation'
  <2>1. Undecided' = Undecided
    BY <1>8 DEF Wake, Become, Undecided, Typed, TypeOK
  <2> QED BY <1>8, <2>1, SameSum DEF Wake, history
<1>9. CASE ResetOverrideCount
  <2>1. Undecided' = Undecided
    BY <1>9 DEF ResetOverrideCount, Undecided
  <2>2. queue_'.items = queue_.items /\ queue_'.lost = 0
    BY <1>9 DEF ResetOverrideCount, FifoResetLost, Holding
  <2> QED BY <1>0, <1>9, <2>1, <2>2, UndecidedThreads
          DEF ResetOverrideCount, Conservation
<1>10. CASE ResetDiscardCount
  <2>1. Undecided' = Undecided
    BY <1>10 DEF ResetDiscardCount, Undecided
  <2> QED BY <1>0, <1>10, <2>1, UndecidedThreads
          DEF ResetDiscardCount, Conservation
<1>11. CASE UNCHANGED vars
  <2>1. Undecided' = Undecided
    BY <1>11 DEF vars, Undecided
  <2> QED BY <1>11, <2>1, SameSum DEF vars
<1> QED BY <1>1, <1>2, <1>3, <1>4, <1>5, <1>6, <1>7, <1>8, <1>9, <1>10, <1>11
        DEF Next, Proceed

\* No item given to the queue disappears without being counted and none is
\* counted twice, with any number of threads and at every step.
THEOREM ItemsConserved == Spec => []Conservation
<1>1. Init => Typed /\ Conservation
  BY TypedInit, ConservationInit
<1>2. Typed /\ Conservation /\ [Next]_vars => (Typed /\ Conservation)'
  BY TypedStep, ConservationStep
<1> QED BY <1>1, <1>2, PTL DEF Spec

\* All of it at once: well formed, nothing uncounted and no wakeup lost, at every step
\* of any number of threads.
THEOREM QueueIsSafe == Spec => []QueueSafe
<1>1. TypeOK /\ Conservation /\ NoLostWakeup => QueueSafe
  BY DEF QueueSafe
<1> QED BY TypeCorrect, ItemsConserved, WakeupsNotLost, <1>1, PTL

-----------------------------------------------------------------------------

(***************************************************************************)
(* The detailed queue implements the channel.                              *)
(***************************************************************************)

\* The items of the calls in progress are among the channel's values.
SentBounds ==
    \A t \in Threads :
        sent[t] <= MaxSends /\ (op[t] \in PutOps => sent[t] >= 1)

\* At the start no call is in progress.
LEMMA SentBoundsInit == Init => SentBounds
BY DEF Init, SentBounds, PutOps

\* Every call keeps to the bound on what a thread sends.
LEMMA SentBoundsStep == Typed /\ SentBounds /\ [Next]_vars => SentBounds'
<1> SUFFICES ASSUME Typed, SentBounds, [Next]_vars PROVE SentBounds'
  OBVIOUS
<1> USE DEF Typed, TypeOK
<1>1. ASSUME NEW t \in Threads, NEW o \in Calls[t], Call(t, o)
      PROVE  SentBounds'
  BY <1>1 DEF Call, SentBounds
<1>2. ASSUME UNCHANGED sent,
             \A t \in Threads : op'[t] = op[t] \/ op'[t] = "none"
      PROVE  SentBounds'
  BY <1>2 DEF SentBounds, PutOps
<1>3. ASSUME NEW t \in Threads, NotifyNext(t) \/ Return(t) \/ UNCHANGED op
      PROVE  \A s \in Threads : op'[s] = op[s] \/ op'[s] = "none"
  BY <1>3 DEF NotifyNext, NotifyOneOf, Return
<1>4. ASSUME NEW t \in Threads, Finish(t)
      PROVE  \A s \in Threads : op'[s] = op[s] \/ op'[s] = "none"
  BY <1>3, <1>4 DEF Finish, Become
<1>5. ASSUME NEW t \in Threads, Proceed(t) PROVE SentBounds'
  <2>1. UNCHANGED sent
    BY <1>5 DEF Proceed, EnqueueIfHaveRoom, DiscardItem, Enqueue, EnqueueNowait,
       Dequeue, DequeueFor, Notify, Push, Pop, history
  <2>2. Finish(t) \/ NotifyNext(t) \/ Return(t) \/ UNCHANGED op
    BY <1>5 DEF Proceed, EnqueueIfHaveRoom, DiscardItem, Enqueue, EnqueueNowait,
       Dequeue, DequeueFor, Notify, Push, Pop, Become
  <2> QED BY <1>2, <1>3, <1>4, <2>1, <2>2
<1>6. ASSUME NEW t \in Threads, Wake(t) PROVE SentBounds'
  BY <1>2, <1>6 DEF Wake, Become, history
<1>7. CASE ResetOverrideCount \/ ResetDiscardCount \/ UNCHANGED vars
  BY <1>2, <1>7 DEF ResetOverrideCount, ResetDiscardCount, vars
<1> QED BY <1>1, <1>5, <1>6, <1>7 DEF Next

\* The threads about to count a discarded item are finitely many.
LEMMA DiscardingThreads ==
    /\ Discarding \in SUBSET Threads
    /\ Discarding' \in SUBSET Threads
    /\ Cardinality(Discarding) \in Nat
BY ThreadSetsFinite DEF Discarding

\* A step that neither changes the queue nor the discards is a stutter.
LEMMA ChannelStutter ==
    ASSUME queue_' = queue_, discard_count_' = discard_count_,
           Discarding' = Discarding
    PROVE  UNCHANGED Channel!chanVars
BY DEF Channel!chanVars

\* A thread that finishes or notifies is not about to count one.
LEMMA FinishDiscarding ==
    ASSUME Typed, NEW t \in Threads, Finish(t) \/ NotifyNext(t),
           at[t] \in {"ready", "notify"}
    PROVE  Discarding' = Discarding
<1> USE DEF Typed, TypeOK
<1>1. CASE NotifyNext(t)
  <2>1. PICK waiters \in {PushWaiters, PopWaiters} : NotifyOneOf(t, waiters)
    BY <1>1 DEF NotifyNext
  <2>2. \A w \in waiters : w \in Threads /\ at[w] = "waiting"
    BY DEF PushWaiters, PopWaiters
  <2> QED BY <2>1, <2>2 DEF NotifyOneOf, Discarding
<1>2. CASE Become(t, "notify")
  BY <1>2 DEF Become, Discarding
<1> QED BY <1>1, <1>2 DEF Finish

\* The operators of Fifo are the same inside the instance.
LEMMA SameFifo ==
    /\ \A n : NewFifo(n) = Channel!NewFifo(n)
    /\ \A q : FifoPop(q) = Channel!FifoPop(q)
    /\ \A q : FifoResetLost(q) = Channel!FifoResetLost(q)
    /\ \A q, x : FifoPush(q, x) = Channel!FifoPush(q, x)
BY DEF NewFifo, Channel!NewFifo, FifoPop, Channel!FifoPop, FifoResetLost,
   Channel!FifoResetLost, FifoPush, Channel!FifoPush, Holding, Channel!Holding,
   NoCap, Channel!NoCap

\* Putting an item in is a step of the bounded channel ...
LEMMA PushIsChannelStep ==
    ASSUME Typed, SentBounds, NEW t \in Threads, at[t] = "ready",
           op[t] \in PutOps, Push(t), FifoFull(queue_) => op[t] = "enqueue_nowait"
    PROVE  Channel!Next
<1>1. UNCHANGED (discard_count_ + Cardinality(Discarding))
  BY FinishDiscarding DEF Push
<1>2. Item(t) \in Threads \X (1..MaxSends) \X PutOps
  BY DEF Item, SentBounds, Typed, TypeOK
<1>3. CASE FifoFull(queue_)
  <2>1. Item(t) \in Threads \X (1..MaxSends) \X {"enqueue_nowait"}
    BY <1>2, <1>3 DEF Item
  <2>2. Channel!Overwrite(Item(t))
    BY <1>1, <1>3, SameFifo
       DEF Push, Channel!Overwrite, FifoFull, Channel!FifoFull, NoCap, Channel!NoCap
  <2> QED BY <2>1, <2>2 DEF Channel!Next
<1>4. CASE ~FifoFull(queue_)
  <2>1. Channel!Put(Item(t))
    BY <1>1, <1>4, SameFifo
       DEF Push, Channel!Put, FifoFull, Channel!FifoFull, NoCap, Channel!NoCap
  <2> QED BY <1>2, <2>1 DEF Channel!Next
<1> QED BY <1>3, <1>4

\* ... and so is taking one out.
LEMMA PopIsChannelStep ==
    ASSUME Typed, NEW t \in Threads, at[t] = "ready", ~FifoEmpty(queue_), Pop(t)
    PROVE  Channel!Next
<1>1. UNCHANGED (discard_count_ + Cardinality(Discarding))
  BY FinishDiscarding DEF Pop
<1>2. Channel!Take
  BY <1>1, SameFifo
     DEF Pop, Channel!Take, FifoEmpty, Channel!FifoEmpty
<1> QED BY <1>2 DEF Channel!Next

\* The channel starts empty.
LEMMA ChannelInit == Init => Channel!Init
<1> SUFFICES ASSUME Init PROVE Channel!Init
  OBVIOUS
<1>1. Discarding = {}
  BY DEF Init, Discarding
<1>2. Cardinality(Discarding) = 0
  BY <1>1, FS_EmptySet
<1> QED BY <1>2, SameFifo DEF Init, Channel!Init

\* Every step of the queue is a step of the channel or leaves it as it is.
LEMMA ChannelStep ==
    Typed /\ SentBounds /\ [Next]_vars => [Channel!Next]_(Channel!chanVars)
<1> SUFFICES ASSUME Typed, SentBounds, [Next]_vars
             PROVE  Channel!Next \/ UNCHANGED Channel!chanVars
  OBVIOUS
<1>1. ASSUME NEW t \in Threads, NEW o \in Calls[t], Call(t, o)
      PROVE  UNCHANGED Channel!chanVars
  <2>1. Discarding' = Discarding
    BY <1>1 DEF Call, Discarding, Typed, TypeOK
  <2> QED BY <1>1, <2>1, ChannelStutter DEF Call
<1>2. ASSUME NEW t \in Threads, EnqueueIfHaveRoom(t)
      PROVE  Channel!Next
  <2>1. at[t] = "ready" /\ op[t] = "enqueue_if_have_room" /\ op[t] \in PutOps
    BY <1>2 DEF EnqueueIfHaveRoom, Ready, PutOps
  <2>2. CASE ~FifoFull(queue_) /\ Push(t)
    BY <2>1, <2>2, PushIsChannelStep
  <2>3. ASSUME FifoFull(queue_), UNCHANGED queue_,
               Cardinality(Discarding') + discard_count_'
                   = Cardinality(Discarding) + discard_count_ + 1,
               discard_count_ \in Nat, discard_count_' \in Nat,
               Cardinality(Discarding') \in Nat
        PROVE  Channel!Next
    <3>1. Channel!Discard
      BY <2>3, DiscardingThreads, SameFifo
         DEF Channel!Discard, FifoFull, Channel!FifoFull, NoCap, Channel!NoCap
    <3> QED BY <3>1 DEF Channel!Next
  <2>4. CASE FifoFull(queue_) /\ Become(t, "discard") /\ UNCHANGED discard_count_
             /\ UNCHANGED queue_
    <3>1. Discarding' = Discarding \cup {t} /\ t \notin Discarding
      BY <2>1, <2>4 DEF Become, Discarding, Typed, TypeOK
    <3>2. Cardinality(Discarding') = Cardinality(Discarding) + 1
      BY <3>1, OneMore, DiscardingThreads
    <3>3. discard_count_ \in Nat
      BY DEF Typed, TypeOK
    <3> QED BY <2>3, <2>4, <3>2, <3>3, DiscardingThreads
  <2>5. CASE FifoFull(queue_) /\ CountDiscard /\ Return(t) /\ UNCHANGED queue_
    <3>1. Discarding' = Discarding
      BY <2>1, <2>5 DEF Return, Discarding, Typed, TypeOK
    <3>2. discard_count_ \in Nat
      BY DEF Typed, TypeOK
    <3> QED BY <2>3, <2>5, <3>1, <3>2, DiscardingThreads DEF CountDiscard
  <2> QED BY <1>2, <2>2, <2>4, <2>5 DEF EnqueueIfHaveRoom
<1>3. ASSUME NEW t \in Threads, DiscardItem(t)
      PROVE  UNCHANGED Channel!chanVars
  <2>1. Discarding' = Discarding \ {t} /\ t \in Discarding
    BY <1>3 DEF DiscardItem, Return, Discarding, Typed, TypeOK
  <2>2. Cardinality(Discarding') = Cardinality(Discarding) - 1
    BY <2>1, OneFewer, DiscardingThreads
  <2>3. discard_count_' + Cardinality(Discarding')
            = discard_count_ + Cardinality(Discarding)
    BY <1>3, <2>2, DiscardingThreads DEF DiscardItem, CountDiscard, Typed, TypeOK
  <2> QED BY <1>3, <2>3 DEF DiscardItem, Channel!chanVars
<1>4. ASSUME NEW t \in Threads, Enqueue(t)
      PROVE  Channel!Next \/ UNCHANGED Channel!chanVars
  <2>1. at[t] = "ready" /\ op[t] \in PutOps
    BY <1>4 DEF Enqueue, Ready, PutOps
  <2>2. CASE ~FifoFull(queue_) /\ Push(t)
    BY <2>1, <2>2, PushIsChannelStep
  <2>3. CASE Become(t, "waiting") /\ UNCHANGED <<queue_, discard_count_>>
    <3>1. Discarding' = Discarding
      BY <2>1, <2>3 DEF Become, Discarding, Typed, TypeOK
    <3> QED BY <2>3, <3>1, ChannelStutter
  <2> QED BY <1>4, <2>2, <2>3 DEF Enqueue
<1>5. ASSUME NEW t \in Threads, EnqueueNowait(t) PROVE Channel!Next
  BY <1>5, PushIsChannelStep DEF EnqueueNowait, Ready, PutOps
<1>6. ASSUME NEW t \in Threads, Dequeue(t) \/ DequeueFor(t)
      PROVE  Channel!Next \/ UNCHANGED Channel!chanVars
  <2>1. at[t] = "ready"
    BY <1>6 DEF Dequeue, DequeueFor, Ready
  <2>2. CASE Pop(t) /\ ~FifoEmpty(queue_)
    BY <2>1, <2>2, PopIsChannelStep
  <2>3. CASE /\ Become(t, "waiting") \/ Return(t)
             /\ UNCHANGED <<queue_, discard_count_>>
    <3>1. Discarding' = Discarding
      BY <2>1, <2>3 DEF Become, Return, Discarding, Typed, TypeOK
    <3> QED BY <2>3, <3>1, ChannelStutter
  <2> QED BY <1>6, <2>2, <2>3 DEF Dequeue, DequeueFor
<1>7. ASSUME NEW t \in Threads, Notify(t)
      PROVE  UNCHANGED Channel!chanVars
  <2>1. Discarding' = Discarding
    BY <1>7, FinishDiscarding DEF Notify
  <2> QED BY <1>7, <2>1, ChannelStutter DEF Notify
<1>8. ASSUME NEW t \in Threads, Wake(t)
      PROVE  UNCHANGED Channel!chanVars
  <2>1. Discarding' = Discarding
    BY <1>8 DEF Wake, Become, Discarding, Typed, TypeOK
  <2> QED BY <1>8, <2>1, ChannelStutter DEF Wake
<1>9. CASE ResetOverrideCount
  <2>1. Discarding' = Discarding
    BY <1>9 DEF ResetOverrideCount, Discarding
  <2>2. Channel!ResetLost
    BY <1>9, <2>1, SameFifo DEF ResetOverrideCount, Channel!ResetLost
  <2> QED BY <2>2 DEF Channel!Next
<1>10. CASE ResetDiscardCount
  <2>1. Discarding' = Discarding
    BY <1>10 DEF ResetDiscardCount, Discarding
  <2>2. 0 + Cardinality(Discarding) \in 0..(discard_count_ + Cardinality(Discarding))
    BY DiscardingThreads DEF Typed, TypeOK
  <2>3. Channel!ResetDiscarded
    BY <1>10, <2>1, <2>2 DEF ResetDiscardCount, Channel!ResetDiscarded
  <2> QED BY <2>3 DEF Channel!Next
<1>11. CASE UNCHANGED vars
  <2>1. Discarding' = Discarding
    BY <1>11 DEF vars, Discarding
  <2> QED BY <1>11, <2>1, ChannelStutter DEF vars
<1> QED BY <1>1, <1>2, <1>3, <1>4, <1>5, <1>6, <1>7, <1>8, <1>9, <1>10, <1>11
        DEF Next, Proceed

\* Every operation of block_queue takes effect in one step on a bounded FIFO:
\* enqueue only with room, dequeue only with an item, and only enqueue_nowait
\* overwrites.
THEOREM ImplementsChannel == Spec => RefinesChannel
<1>1. Init => Typed /\ SentBounds
  BY TypedInit, SentBoundsInit
<1>2. Typed /\ SentBounds /\ [Next]_vars => (Typed /\ SentBounds)'
  BY TypedStep, SentBoundsStep
<1> QED BY <1>1, <1>2, ChannelInit, ChannelStep, PTL
        DEF Spec, RefinesChannel, Channel!Spec

-----------------------------------------------------------------------------
(***************************************************************************)
(* The blocks of the queues (BlockPool): every block of the initial pool   *)
(* is in one place.                                                        *)
(***************************************************************************)

Pointers == InitialBlocks \cup {NoBlock}
Thens == {OutsidePool, Load, [pc |-> "create"]} \cup [pc : {"reference"}, head : InitialBlocks]
PoolPlaces ==
  Thens \cup {[pc |-> "initial"]}
  \cup [pc : {"next", "taken"}, head : InitialBlocks]
  \cup [pc : {"swap"}, head : InitialBlocks, next : Pointers]
  \cup [pc : {"unreference"}, head : InitialBlocks, seen : Pointers]
  \cup [pc : {"link"}, node : InitialBlocks, then : Thens]
  \cup [pc : {"store", "publish", "push", "retract"}, node : InitialBlocks, then : Thens, seen : Pointers]

RefsKind == [InitialBlocks -> [count : Int, should : BOOLEAN]]
PoolTyped ==
  /\ poolIndex \in Nat
  /\ freeListHead \in Pointers
  /\ freeListNext \in [InitialBlocks -> Pointers]
  /\ refs \in RefsKind
  /\ inUse \subseteq Blocks
  /\ poolAt \in [PoolThreads -> PoolPlaces]

\* What a thread read of the list and still relies on: the successor of a node it
\* has referenced, and the one it stored in a node it has not given away yet.
ReadsRight(p, successor) ==
  /\ p.pc = "swap" => p.next = successor[p.head]
  /\ p.pc \in {"publish", "push"} => p.seen = successor[p.node]
ReadsHold == \A t \in PoolThreads : ReadsRight(poolAt[t], freeListNext)

\* The sequence "list" runs from the head h along the successors, without a loop.
ListFrom(list, h, successor) ==
  /\ list \in Seq(InitialBlocks)
  /\ \A i, j \in 1..Len(list) : list[i] = list[j] => i = j
  /\ h = IF Len(list) = 0 THEN NoBlock ELSE list[1]
  /\ \A i \in 1..Len(list) :
       successor[list[i]] = IF i = Len(list) THEN NoBlock ELSE list[i + 1]
On(list) == {list[i] : i \in 1..Len(list)}

\* The threads that, being where f says, reference, link, push or take block b.
Refers(p, b) == p.pc \in {"next", "swap", "unreference", "taken"} /\ p.head = b
Links(p, b) == p.pc \in {"link", "store", "publish", "push", "retract"} /\ p.node = b
Pushes(p, b) == p.pc \in {"push", "retract"} /\ p.node = b
TakesBlock(p, b) == p.pc = "taken" /\ p.head = b
Same(p, q, b) == /\ Refers(p, b) <=> Refers(q, b)
                 /\ Links(p, b) <=> Links(q, b)
                 /\ Pushes(p, b) <=> Pushes(q, b)
                 /\ TakesBlock(p, b) <=> TakesBlock(q, b)
Referrers(f, b) == {t \in PoolThreads : Refers(f[t], b)}
Linkers(f, b) == {t \in PoolThreads : Links(f[t], b)}
Pushers(f, b) == {t \in PoolThreads : Pushes(f[t], b)}
Takers(f, b) == {t \in PoolThreads : TakesBlock(f[t], b)}
MarkedIn(r) == {b \in InitialBlocks : r[b].should}

\* Block b is in one place when those after I are not handed out, those in U are used,
\* those in S listed and those in M marked; one thread at most links it (L, of which
\* P push) or takes it (K); n is the number of its references (R); and nobody looks
\* at a block that is to be linked but not published yet.
Account(b, I, U, S, M, n, R, L, P, K) ==
  /\ \E place \in {"new", "used", "listed", "marked", "pushed", "taken"} :
       /\ b > I <=> place = "new"
       /\ b \in U <=> place = "used"
       /\ b \in S <=> place = "listed"
       /\ b \in M <=> place = "marked"
       /\ P # {} <=> place = "pushed"
       /\ K # {} <=> place = "taken"
  /\ \A t, u \in L : t = u
  /\ \A t, u \in K : t = u
  /\ n = Cardinality(R) + Cardinality(K) + (IF b \in S \/ P # {} THEN 1 ELSE 0)
  /\ b \in M => R # {} \/ L # {}
  /\ L \ P # {} => b \in M /\ n = 0

Sound(b, S, I, U, r, f) ==
  Account(b, I, U, S, MarkedIn(r), r[b].count,
          Referrers(f, b), Linkers(f, b), Pushers(f, b), Takers(f, b))

BlocksSound ==
  \E list \in Seq(InitialBlocks) :
    /\ ListFrom(list, freeListHead, freeListNext)
    /\ \A b \in InitialBlocks : Sound(b, On(list), poolIndex, inUse, refs, poolAt)

PoolInductive == PoolTyped /\ ReadsHold /\ BlocksSound

-----------------------------------------------------------------------------
\* A finite set counts one more with an element more and one less without one.
LEMMA Counting ==
    ASSUME NEW A, IsFiniteSet(A), NEW t
    PROVE  /\ Cardinality(A) \in Nat
           /\ Cardinality(A) = 0 <=> A = {}
           /\ t \in A => Cardinality(A \ {t}) = Cardinality(A) - 1
           /\ t \notin A => Cardinality(A \cup {t}) = Cardinality(A) + 1
           /\ IsFiniteSet(A \ {t})
<1>1. Cardinality(A) \in Nat
  BY FS_CardinalityType
<1>2. Cardinality(A) = 0 <=> A = {}
  BY FS_EmptySet
<1>3. t \in A => Cardinality(A \ {t}) = Cardinality(A) - 1
  BY FS_RemoveElement
<1>4. t \notin A => Cardinality(A \cup {t}) = Cardinality(A) + 1
  BY FS_AddElement
<1>5. IsFiniteSet(A \ {t})
  BY FS_Subset
<1> QED BY <1>1, <1>2, <1>3, <1>4, <1>5

\* A set whose members are all t is {t} without t empty, and one that counts one is.
LEMMA OneOnly ==
    ASSUME NEW A, IsFiniteSet(A), NEW t \in A
    PROVE  /\ (\A u, v \in A : u = v) => A = {t} /\ Cardinality(A) = 1
           /\ Cardinality(A) = 1 => A = {t}
           /\ Cardinality(A) > 1 => A \ {t} # {}
<1>1. /\ Cardinality(A) \in Nat /\ Cardinality(A \ {t}) = Cardinality(A) - 1
      /\ Cardinality(A \ {t}) = 0 <=> A \ {t} = {}
  BY Counting
<1>2. A \ {t} = {} <=> A = {t}
  OBVIOUS
<1> QED BY <1>1, <1>2

\* The threads about a block are among the finitely many there are.
LEMMA ThreadsAbout ==
    ASSUME NEW f, NEW b
    PROVE  /\ IsFiniteSet(Referrers(f, b)) /\ IsFiniteSet(Linkers(f, b))
           /\ IsFiniteSet(Pushers(f, b)) /\ IsFiniteSet(Takers(f, b))
           /\ Pushers(f, b) \subseteq Linkers(f, b)
           /\ Takers(f, b) \subseteq Referrers(f, b)
<1>1. IsFiniteSet(PoolThreads)
  BY PoolAssumption
<1>2. \A A \in SUBSET PoolThreads : IsFiniteSet(A)
  BY <1>1, FS_Subset
<1>3. /\ Referrers(f, b) \in SUBSET PoolThreads /\ Linkers(f, b) \in SUBSET PoolThreads
      /\ Pushers(f, b) \in SUBSET PoolThreads /\ Takers(f, b) \in SUBSET PoolThreads
  BY DEF Referrers, Linkers, Pushers, Takers
<1>4. Pushers(f, b) \subseteq Linkers(f, b)
  BY DEF Pushers, Linkers, Pushes, Links
<1>5. Takers(f, b) \subseteq Referrers(f, b)
  BY DEF Takers, Referrers, TakesBlock, Refers
<1> QED BY <1>2, <1>3, <1>4, <1>5

\* Nothing becomes of them when every thread is where it was, to this block.
LEMMA ThreadsStay ==
    ASSUME NEW f, NEW g, NEW b, \A t \in PoolThreads : Same(f[t], g[t], b)
    PROVE  /\ Referrers(g, b) = Referrers(f, b) /\ Linkers(g, b) = Linkers(f, b)
           /\ Pushers(g, b) = Pushers(f, b) /\ Takers(g, b) = Takers(f, b)
<1>1. Referrers(g, b) = Referrers(f, b)
  BY DEF Same, Referrers
<1>2. Linkers(g, b) = Linkers(f, b)
  BY DEF Same, Linkers
<1>3. Pushers(g, b) = Pushers(f, b)
  BY DEF Same, Pushers
<1>4. Takers(g, b) = Takers(f, b)
  BY DEF Same, Takers
<1> QED BY <1>1, <1>2, <1>3, <1>4

\* A block that nothing happens to keeps its account.
LEMMA AccountKept ==
    ASSUME NEW b, NEW I, NEW U, NEW S, NEW M, NEW n, NEW R, NEW L, NEW P, NEW K,
           Account(b, I, U, S, M, n, R, L, P, K),
           NEW I2, b > I2 <=> b > I, NEW U2, b \in U2 <=> b \in U,
           NEW S2, b \in S2 <=> b \in S, NEW M2, b \in M2 <=> b \in M
    PROVE  Account(b, I2, U2, S2, M2, n, R, L, P, K)
BY DEF Account

-----------------------------------------------------------------------------
(***************************************************************************)
(* What a step makes of the account of the block it is about.              *)
(***************************************************************************)

\* The block of the pool that the counter passes goes to a sub-queue.
LEMMA AccountHandedOut ==
    ASSUME NEW b, NEW I, NEW U, NEW S, NEW M, NEW n \in Int, NEW R, NEW L, NEW P, NEW K,
           IsFiniteSet(R), IsFiniteSet(L), IsFiniteSet(K), P \subseteq L, K \subseteq R,
           Account(b, I, U, S, M, n, R, L, P, K),
           NEW I2, NEW U2, b > I, ~(b > I2), b \in U2
    PROVE  Account(b, I2, U2, S, M, n, R, L, P, K)
BY DEF Account

\* A thread references a block that is referenced or listed.
LEMMA AccountReference ==
    ASSUME NEW b, NEW I, NEW U, NEW S, NEW M, NEW n \in Int, NEW R, NEW L, NEW P, NEW K,
           IsFiniteSet(R), IsFiniteSet(L), IsFiniteSet(K), P \subseteq L, K \subseteq R,
           Account(b, I, U, S, M, n, R, L, P, K),
           n # 0, NEW t, t \notin R, NEW R2, R2 = R \cup {t}
    PROVE  Account(b, I, U, S, M, n + 1, R2, L, P, K)
<1>1. Cardinality(R2) = Cardinality(R) + 1 /\ Cardinality(R) \in Nat /\ Cardinality(K) \in Nat /\ R2 # {}
  BY Counting
<1> QED BY <1>1 DEF Account

\* A thread takes the first of the list off.
LEMMA AccountTake ==
    ASSUME NEW b, NEW I, NEW U, NEW S, NEW M, NEW n \in Int, NEW R, NEW L, NEW P, NEW K,
           IsFiniteSet(R), IsFiniteSet(L), IsFiniteSet(K), P \subseteq L, K \subseteq R,
           Account(b, I, U, S, M, n, R, L, P, K),
           NEW t \in R, b \in S, NEW S2, b \notin S2, NEW K2, K2 = K \cup {t}
    PROVE  Account(b, I, U, S2, M, n, R, L, P, K2)
<1>1. K = {} /\ P = {} /\ n = Cardinality(R) + Cardinality(K) + 1
  BY DEF Account
<1>2. Cardinality(K) = 0 /\ Cardinality(K \cup {t}) = Cardinality(K) + 1 /\ Cardinality(R) \in Nat
  BY <1>1, Counting
<1>3. K2 = {t} /\ Cardinality(K2) = 1
  BY <1>1, <1>2
<1> QED BY <1>1, <1>2, <1>3 DEF Account

\* ... and gives it to a sub-queue: its reference and that of the list go.
LEMMA AccountTaken ==
    ASSUME NEW b, NEW I, NEW U, NEW S, NEW M, NEW n \in Int, NEW R, NEW L, NEW P, NEW K,
           IsFiniteSet(R), IsFiniteSet(L), IsFiniteSet(K), P \subseteq L, K \subseteq R,
           Account(b, I, U, S, M, n, R, L, P, K),
           NEW t \in K, NEW U2, b \in U2, NEW R2, R2 = R \ {t}, NEW K2, K2 = K \ {t}
    PROVE  Account(b, I, U2, S, M, n - 2, R2, L, P, K2)
<1>1. K = {t} /\ Cardinality(K) = 1 /\ K2 = {} /\ Cardinality(K2) = 0
  <2>1. \A u, v \in K : u = v
    BY DEF Account
  <2>2. K = {t} /\ Cardinality(K) = 1
    BY <2>1, OneOnly
  <2> QED BY <2>2, FS_EmptySet
<1>2. Cardinality(R2) = Cardinality(R) - 1 /\ Cardinality(R) \in Nat
  BY Counting
<1>3. b \notin M /\ b \notin S /\ P = {} /\ L \ P = {}
  BY DEF Account
<1> QED BY <1>1, <1>2, <1>3 DEF Account

\* A thread lets go of a block that it need not link.
LEMMA AccountUnreference ==
    ASSUME NEW b, NEW I, NEW U, NEW S, NEW M, NEW n \in Int, NEW R, NEW L, NEW P, NEW K,
           IsFiniteSet(R), IsFiniteSet(L), IsFiniteSet(K), P \subseteq L, K \subseteq R,
           Account(b, I, U, S, M, n, R, L, P, K),
           NEW t \in R, t \notin K, ~(n = 1 /\ b \in M), NEW R2, R2 = R \ {t}
    PROVE  Account(b, I, U, S, M, n - 1, R2, L, P, K)
<1>1. /\ Cardinality(R2) = Cardinality(R) - 1 /\ Cardinality(R) \in Nat /\ Cardinality(R) # 0
      /\ Cardinality(K) \in Nat /\ (Cardinality(R) > 1 => R2 # {})
  BY Counting, OneOnly
<1>2. n # 0 /\ L \ P = {}
  BY <1>1 DEF Account
<1>3. b \in M => n = Cardinality(R)
  <2>1. b \in M => K = {} /\ P = {} /\ b \notin S
    BY DEF Account
  <2>2. K = {} => Cardinality(K) = 0
    BY Counting
  <2> QED BY <1>1, <2>1, <2>2 DEF Account
<1>4. b \in M => R2 # {}
  BY <1>1, <1>2, <1>3
<1> QED BY <1>1, <1>2, <1>4 DEF Account

\* The last one lets go of a marked block, and links it.
LEMMA AccountLinkLast ==
    ASSUME NEW b, NEW I, NEW U, NEW S, NEW M, NEW n \in Int, NEW R, NEW L, NEW P, NEW K,
           IsFiniteSet(R), IsFiniteSet(L), IsFiniteSet(K), P \subseteq L, K \subseteq R,
           Account(b, I, U, S, M, n, R, L, P, K),
           NEW t \in R, t \notin K, n = 1, b \in M, NEW R2, R2 = R \ {t}, NEW L2, L2 = L \cup {t}
    PROVE  Account(b, I, U, S, M, n - 1, R2, L2, P, K)
<1>1. K = {} /\ P = {} /\ b \notin S /\ L = {}
  BY DEF Account
<1>2. /\ Cardinality(R2) = Cardinality(R) - 1 /\ Cardinality(R) \in Nat
      /\ Cardinality(K) = 0
  BY <1>1, Counting, FS_EmptySet
<1>3. L2 = {t}
  BY <1>1
<1> QED BY <1>1, <1>2, <1>3 DEF Account

\* A block is given back while it is referenced: whoever does must link it.
LEMMA AccountMark ==
    ASSUME NEW b, NEW I, NEW U, NEW S, NEW M, NEW n \in Int, NEW R, NEW L, NEW P, NEW K,
           IsFiniteSet(R), IsFiniteSet(L), IsFiniteSet(K), P \subseteq L, K \subseteq R,
           Account(b, I, U, S, M, n, R, L, P, K),
           b \in U, n # 0, NEW U2, b \notin U2, NEW M2, b \in M2
    PROVE  Account(b, I, U2, S, M2, n, R, L, P, K)
<1>1. K = {} /\ P = {} /\ b \notin S /\ b \notin M
  BY DEF Account
<1>2. Cardinality(K) = 0 /\ (R = {} => Cardinality(R) = 0)
  BY <1>1, FS_EmptySet
<1>3. R # {}
  BY <1>1, <1>2 DEF Account
<1>4. L \ P = {}
  BY <1>1 DEF Account
<1> QED BY <1>1, <1>3, <1>4 DEF Account

\* A block is given back that nobody references: this thread links it.
LEMMA AccountMarkAndLink ==
    ASSUME NEW b, NEW I, NEW U, NEW S, NEW M, NEW n \in Int, NEW R, NEW L, NEW P, NEW K,
           IsFiniteSet(R), IsFiniteSet(L), IsFiniteSet(K), P \subseteq L, K \subseteq R,
           Account(b, I, U, S, M, n, R, L, P, K),
           b \in U, n = 0, NEW U2, b \notin U2, NEW M2, b \in M2, NEW t, t \notin L, NEW L2, L2 = L \cup {t}
    PROVE  Account(b, I, U2, S, M2, n, R, L2, P, K)
<1>1. K = {} /\ P = {} /\ b \notin S /\ b \notin M
  BY DEF Account
<1>2. L = {}
  BY <1>1 DEF Account
<1>3. L2 = {t}
  BY <1>2
<1> QED BY <1>1, <1>3 DEF Account

\* The linker clears the mark and gives the list's reference.
LEMMA AccountPublish ==
    ASSUME NEW b, NEW I, NEW U, NEW S, NEW M, NEW n \in Int, NEW R, NEW L, NEW P, NEW K,
           IsFiniteSet(R), IsFiniteSet(L), IsFiniteSet(K), P \subseteq L, K \subseteq R,
           Account(b, I, U, S, M, n, R, L, P, K),
           NEW t \in L, t \notin P, NEW M2, b \notin M2, NEW P2, P2 = P \cup {t}
    PROVE  Account(b, I, U, S, M2, 1, R, L, P2, K)
<1>1. n = 0 /\ b \in M /\ K = {} /\ P = {} /\ b \notin S /\ L = {t}
  BY DEF Account
<1>2. Cardinality(K) = 0 /\ Cardinality(R) \in Nat
  BY <1>1, FS_EmptySet, Counting
<1>3. Cardinality(R) = 0
  BY <1>1, <1>2 DEF Account
<1>4. P2 = {t} /\ L \ P2 = {}
  BY <1>1
<1> QED BY <1>1, <1>2, <1>3, <1>4 DEF Account

\* The swap of the head: the block is on the list.
LEMMA AccountPush ==
    ASSUME NEW b, NEW I, NEW U, NEW S, NEW M, NEW n \in Int, NEW R, NEW L, NEW P, NEW K,
           IsFiniteSet(R), IsFiniteSet(L), IsFiniteSet(K), P \subseteq L, K \subseteq R,
           Account(b, I, U, S, M, n, R, L, P, K),
           NEW t \in P, NEW S2, b \in S2, NEW L2, L2 = L \ {t}, NEW P2, P2 = P \ {t}
    PROVE  Account(b, I, U, S2, M, n, R, L2, P2, K)
<1>1. L = {t} /\ P = {t} /\ K = {} /\ b \notin M
  BY DEF Account
<1>2. L2 = {} /\ P2 = {}
  BY <1>1
<1> QED BY <1>1, <1>2 DEF Account

\* The swap failed and nobody references the block: marked, and linked again.
LEMMA AccountRetract ==
    ASSUME NEW b, NEW I, NEW U, NEW S, NEW M, NEW n \in Int, NEW R, NEW L, NEW P, NEW K,
           IsFiniteSet(R), IsFiniteSet(L), IsFiniteSet(K), P \subseteq L, K \subseteq R,
           Account(b, I, U, S, M, n, R, L, P, K),
           NEW t \in P, n = 1, NEW M2, b \in M2, NEW P2, P2 = P \ {t}
    PROVE  Account(b, I, U, S, M2, n - 1, R, L, P2, K)
<1>1. L = {t} /\ P = {t} /\ K = {} /\ b \notin S
  BY DEF Account
<1>2. P2 = {} /\ L \ P = {} /\ Cardinality(R) \in Nat /\ Cardinality(K) \in Nat
  BY <1>1, Counting
<1>3. n = Cardinality(R) + Cardinality(K) + 1
  BY <1>1 DEF Account
<1>4. n - 1 = Cardinality(R) + Cardinality(K) + 0 /\ n - 1 = 0
  BY <1>2, <1>3
<1>5. b \notin U /\ ~(b > I)
  BY <1>1 DEF Account
<1> QED BY <1>1, <1>2, <1>4, <1>5 DEF Account

\* The swap failed and somebody references the block: it is left to them, marked.
LEMMA AccountLeave ==
    ASSUME NEW b, NEW I, NEW U, NEW S, NEW M, NEW n \in Int, NEW R, NEW L, NEW P, NEW K,
           IsFiniteSet(R), IsFiniteSet(L), IsFiniteSet(K), P \subseteq L, K \subseteq R,
           Account(b, I, U, S, M, n, R, L, P, K),
           NEW t \in P, n # 1, NEW M2, b \in M2, NEW L2, L2 = L \ {t}, NEW P2, P2 = P \ {t}
    PROVE  Account(b, I, U, S, M2, n - 1, R, L2, P2, K)
<1>1. L = {t} /\ P = {t} /\ K = {} /\ b \notin S
  BY DEF Account
<1>2. /\ L2 = {} /\ P2 = {} /\ Cardinality(K) = 0
      /\ Cardinality(R) \in Nat /\ (R = {} => Cardinality(R) = 0)
  BY <1>1, Counting
<1>3. n = Cardinality(R) + Cardinality(K) + 1
  BY <1>1 DEF Account
<1>4. R # {} /\ n - 1 = Cardinality(R) + Cardinality(K) + 0
  BY <1>2, <1>3
<1>5. b \notin U /\ ~(b > I)
  BY <1>1 DEF Account
<1> QED BY <1>1, <1>2, <1>4, <1>5 DEF Account

-----------------------------------------------------------------------------
(***************************************************************************)
(* What a step makes of the list.                                          *)
(***************************************************************************)

\* Taking the first off.
LEMMA ListTail ==
    ASSUME NEW list, NEW h \in InitialBlocks, NEW successor, ListFrom(list, h, successor)
    PROVE  /\ ListFrom(Tail(list), successor[h], successor)
           /\ On(Tail(list)) = On(list) \ {h} /\ h \in On(list)
<1> DEFINE m == Len(list)
           rest == Tail(list)
<1>1. /\ list \in Seq(InitialBlocks) /\ m \in Nat
      /\ \A i, j \in 1..m : list[i] = list[j] => i = j
      /\ h = IF m = 0 THEN NoBlock ELSE list[1]
      /\ \A i \in 1..m : successor[list[i]] = IF i = m THEN NoBlock ELSE list[i + 1]
  BY DEF ListFrom
<1>2. m > 0 /\ h = list[1]
  <2>1. h # NoBlock
    BY PoolAssumption DEF InitialBlocks, NoBlock
  <2> QED BY <1>1, <2>1
<1>3. rest \in Seq(InitialBlocks) /\ Len(rest) = m - 1 /\ \A i \in 1..(m - 1) : rest[i] = list[i + 1]
  BY <1>1, <1>2
<1> HIDE DEF m, rest
<1>4. \A i, j \in 1..(m - 1) : rest[i] = rest[j] => i = j
  <2> SUFFICES ASSUME NEW i \in 1..(m - 1), NEW j \in 1..(m - 1), rest[i] = rest[j]
               PROVE  i = j
    OBVIOUS
  <2>1. i + 1 \in 1..m /\ j + 1 \in 1..m /\ list[i + 1] = list[j + 1]
    BY <1>1, <1>3
  <2>2. i + 1 = j + 1
    BY <1>1, <2>1
  <2> QED BY <2>2
<1>5. successor[h] = IF m - 1 = 0 THEN NoBlock ELSE rest[1]
  BY <1>1, <1>2, <1>3
<1>6. \A i \in 1..(m - 1) : successor[rest[i]] = IF i = m - 1 THEN NoBlock ELSE rest[i + 1]
  <2> SUFFICES ASSUME NEW i \in 1..(m - 1)
               PROVE  successor[rest[i]] = IF i = m - 1 THEN NoBlock ELSE rest[i + 1]
    OBVIOUS
  <2>1. rest[i] = list[i + 1] /\ i + 1 \in 1..m /\ (i # m - 1 => i + 1 \in 1..(m - 1))
    BY <1>1, <1>3
  <2>2. successor[list[i + 1]] = IF i + 1 = m THEN NoBlock ELSE list[(i + 1) + 1]
    BY <1>1, <2>1
  <2>3. i # m - 1 => rest[i + 1] = list[(i + 1) + 1]
    BY <1>3, <2>1
  <2> QED BY <1>1, <2>1, <2>2, <2>3
<1>7. ListFrom(rest, successor[h], successor)
  BY <1>3, <1>4, <1>5, <1>6 DEF ListFrom
<1>8. \A i \in 2..m : i - 1 \in 1..(m - 1) /\ list[i] = rest[i - 1] /\ list[i] # h
  <2> SUFFICES ASSUME NEW i \in 2..m
               PROVE  i - 1 \in 1..(m - 1) /\ list[i] = rest[i - 1] /\ list[i] # h
    OBVIOUS
  <2>1. i - 1 \in 1..(m - 1) /\ i \in 1..m /\ 1 \in 1..m /\ i # 1 /\ (i - 1) + 1 = i
    BY <1>1
  <2>2. list[i] = rest[i - 1]
    BY <1>3, <2>1
  <2> QED BY <1>1, <1>2, <2>1, <2>2
<1>9. \A i \in 1..(m - 1) : i + 1 \in 2..m /\ rest[i] = list[i + 1]
  BY <1>1, <1>3
<1>10. On(list) = {list[i] : i \in 1..m} /\ On(rest) = {rest[i] : i \in 1..(m - 1)}
  BY <1>3 DEF On, m
<1>11. h \in On(list)
  BY <1>1, <1>2, <1>10
<1>12. ASSUME NEW x \in On(list) \ {h}
       PROVE  x \in On(rest)
  <2>1. PICK i \in 1..m : x = list[i]
    BY <1>10
  <2>2. i \in 2..m
    BY <1>1, <1>2, <1>12, <2>1
  <2> QED BY <1>8, <1>10, <2>1, <2>2
<1>13. ASSUME NEW x \in On(rest)
       PROVE  x \in On(list) /\ x # h
  <2>1. PICK i \in 1..(m - 1) : x = rest[i]
    BY <1>10
  <2>2. i + 1 \in 2..m /\ x = list[i + 1] /\ i + 1 \in 1..m
    BY <1>1, <1>9, <2>1
  <2> QED BY <1>8, <1>10, <2>2
<1>14. On(rest) = On(list) \ {h}
  BY <1>12, <1>13
<1> QED BY <1>7, <1>11, <1>14 DEF rest

\* Pushing one before it.
LEMMA ListCons ==
    ASSUME NEW list, NEW h, NEW successor, ListFrom(list, h, successor),
           NEW b \in InitialBlocks, b \notin On(list), successor[b] = h
    PROVE  \E longer \in Seq(InitialBlocks) :
             ListFrom(longer, b, successor) /\ On(longer) = On(list) \cup {b}
<1> DEFINE m == Len(list)
           longer == <<b>> \o list
<1>1. /\ list \in Seq(InitialBlocks) /\ m \in Nat
      /\ \A i, j \in 1..m : list[i] = list[j] => i = j
      /\ h = IF m = 0 THEN NoBlock ELSE list[1]
      /\ \A i \in 1..m : successor[list[i]] = IF i = m THEN NoBlock ELSE list[i + 1]
  BY DEF ListFrom
<1>2. /\ longer \in Seq(InitialBlocks) /\ Len(longer) = m + 1 /\ longer[1] = b
      /\ \A i \in 2..(m + 1) : longer[i] = list[i - 1]
  BY <1>1
<1>3. \A i \in 1..m : list[i] # b
  BY DEF On
<1>4. On(list) = {list[i] : i \in 1..m} /\ On(longer) = {longer[i] : i \in 1..(m + 1)}
  BY <1>2 DEF On
<1> HIDE DEF m, longer
<1>5. \A i \in 1..(m + 1) : i = 1 \/ (i \in 2..(m + 1) /\ i - 1 \in 1..m /\ longer[i] = list[i - 1])
  BY <1>1, <1>2
<1>6. \A i, j \in 1..(m + 1) : longer[i] = longer[j] => i = j
  <2> SUFFICES ASSUME NEW i \in 1..(m + 1), NEW j \in 1..(m + 1), longer[i] = longer[j]
               PROVE  i = j
    OBVIOUS
  <2>1. CASE i = 1 \/ j = 1
    BY <1>2, <1>3, <1>5, <2>1
  <2>2. CASE i # 1 /\ j # 1
    <3>1. i - 1 \in 1..m /\ j - 1 \in 1..m /\ list[i - 1] = list[j - 1]
      BY <1>5, <2>2
    <3>2. i - 1 = j - 1
      BY <1>1, <3>1
    <3> QED BY <3>2
  <2> QED BY <2>1, <2>2
<1>7. \A i \in 1..(m + 1) : successor[longer[i]] = IF i = m + 1 THEN NoBlock ELSE longer[i + 1]
  <2> SUFFICES ASSUME NEW i \in 1..(m + 1)
               PROVE  successor[longer[i]] = IF i = m + 1 THEN NoBlock ELSE longer[i + 1]
    OBVIOUS
  <2>1. CASE i = 1
    <3>1. m # 0 => 2 \in 2..(m + 1) /\ longer[2] = list[1]
      BY <1>1, <1>2
    <3> QED BY <1>1, <1>2, <2>1, <3>1
  <2>2. CASE i # 1
    <3>1. i - 1 \in 1..m /\ longer[i] = list[i - 1]
      BY <1>5, <2>2
    <3>2. successor[list[i - 1]] = IF i - 1 = m THEN NoBlock ELSE list[(i - 1) + 1]
      BY <1>1, <3>1
    <3>3. i # m + 1 => i + 1 \in 2..(m + 1) /\ longer[i + 1] = list[(i + 1) - 1]
      BY <1>1, <1>2
    <3> QED BY <1>1, <3>1, <3>2, <3>3
  <2> QED BY <2>1, <2>2
<1>8. ListFrom(longer, b, successor)
  BY <1>1, <1>2, <1>6, <1>7 DEF ListFrom
<1>9. ASSUME NEW x \in On(longer)
      PROVE  x \in On(list) \cup {b}
  <2>1. PICK i \in 1..(m + 1) : x = longer[i]
    BY <1>4
  <2> QED BY <1>2, <1>4, <1>5, <2>1
<1>10. ASSUME NEW x \in On(list)
       PROVE  x \in On(longer)
  <2>1. PICK i \in 1..m : x = list[i]
    BY <1>4
  <2>2. i + 1 \in 2..(m + 1) /\ i + 1 \in 1..(m + 1) /\ longer[i + 1] = list[(i + 1) - 1]
    BY <1>1, <1>2
  <2> QED BY <1>1, <1>4, <2>1, <2>2
<1>11. b \in On(longer)
  BY <1>1, <1>2, <1>4
<1>12. On(longer) = On(list) \cup {b}
  BY <1>9, <1>10, <1>11
<1> QED BY <1>2, <1>8, <1>12

\* The successor of a block that is not on it is nothing to the list.
LEMMA ListStore ==
    ASSUME NEW list, NEW h, NEW successor, ListFrom(list, h, successor),
           NEW b, b \notin On(list),
           NEW other, \A c \in InitialBlocks : c # b => other[c] = successor[c]
    PROVE  ListFrom(list, h, other)
<1>1. list \in Seq(InitialBlocks)
  BY DEF ListFrom
<1>2. \A i \in 1..Len(list) : list[i] \in InitialBlocks /\ list[i] # b
  BY <1>1 DEF On
<1>3. \A i \in 1..Len(list) : other[list[i]] = successor[list[i]]
  BY <1>2
<1> QED BY <1>3 DEF ListFrom

-----------------------------------------------------------------------------
(***************************************************************************)
(* Places, and the counts and marks of the blocks.                         *)
(***************************************************************************)

Idle == {"outside", "load", "create", "reference", "initial"}

\* A thread in one of these places has nothing to do with any block.
LEMMA IdleFacts ==
    ASSUME NEW q, q.pc \in Idle, NEW b, NEW successor
    PROVE  /\ ~Refers(q, b) /\ ~Links(q, b) /\ ~Pushes(q, b) /\ ~TakesBlock(q, b)
           /\ ReadsRight(q, successor)
BY DEF Idle, Refers, Links, Pushes, TakesBlock, ReadsRight

LEMMA ThensIdle ==
    ASSUME NEW q \in Thens
    PROVE  q \in PoolPlaces /\ q.pc \in Idle
BY DEF Thens, PoolPlaces, Idle, OutsidePool, Load

LEMMA LookAtThens ==
    ASSUME NEW h \in Pointers
    PROVE  LookAt(h) \in Thens
BY DEF LookAt, Thens, Pointers

\* What a place holds, by its counter.
LEMMA PlaceShape ==
    ASSUME NEW p \in PoolPlaces
    PROVE  /\ p.pc \in {"reference", "next", "swap", "unreference", "taken"} => p.head \in InitialBlocks
           /\ p.pc = "swap" => p.next \in Pointers
           /\ p.pc = "unreference" => p.seen \in Pointers
           /\ p.pc \in {"link", "store", "publish", "push", "retract"} => p.node \in InitialBlocks /\ p.then \in Thens
           /\ p.pc \in {"store", "publish", "push", "retract"} => p.seen \in Pointers
<1>1. CASE p \in Thens
  BY <1>1 DEF Thens, OutsidePool, Load
<1>2. CASE p = [pc |-> "initial"]
  BY <1>2
<1>3. CASE p \in [pc : {"next", "taken"}, head : InitialBlocks]
  BY <1>3
<1>4. CASE p \in [pc : {"swap"}, head : InitialBlocks, next : Pointers]
  BY <1>4
<1>5. CASE p \in [pc : {"unreference"}, head : InitialBlocks, seen : Pointers]
  BY <1>5
<1>6. CASE p \in [pc : {"link"}, node : InitialBlocks, then : Thens]
  BY <1>6
<1>7. CASE p \in [pc : {"store", "publish", "push", "retract"}, node : InitialBlocks, then : Thens, seen : Pointers]
  BY <1>7
<1> QED BY <1>1, <1>2, <1>3, <1>4, <1>5, <1>6, <1>7 DEF PoolPlaces

\* The steps of add_knowing_refcount_is_zero turn one place into the next.
LEMMA PlaceTurns ==
    ASSUME NEW p \in PoolPlaces, p.pc \in {"store", "publish", "push", "retract"},
           NEW c \in {"store", "publish", "push", "retract"}, NEW h \in Pointers
    PROVE  /\ [p EXCEPT !.pc = c] \in PoolPlaces
           /\ [p EXCEPT !.pc = c].pc = c /\ [p EXCEPT !.pc = c].node = p.node
           /\ [p EXCEPT !.pc = c].seen = p.seen
           /\ [p EXCEPT !.pc = c, !.seen = h] \in PoolPlaces
           /\ [p EXCEPT !.pc = c, !.seen = h].pc = c /\ [p EXCEPT !.pc = c, !.seen = h].node = p.node
<1> DEFINE Turning == [pc : {"store", "publish", "push", "retract"}, node : InitialBlocks, then : Thens, seen : Pointers]
<1>1. p \in Turning
  BY DEF PoolPlaces, Thens, OutsidePool, Load
<1>2. [p EXCEPT !.pc = c] \in Turning /\ [p EXCEPT !.pc = c, !.seen = h] \in Turning
  BY <1>1
<1>3. \A x \in Turning : x \in PoolPlaces
  BY DEF PoolPlaces
<1> QED BY <1>1, <1>2, <1>3

Recounted(r, h, k) == [r EXCEPT ![h] = [r[h] EXCEPT !.count = k]]
Marked(r, h) == [r EXCEPT ![h] = [r[h] EXCEPT !.should = TRUE]]
Remarked(r, h, k) == [r EXCEPT ![h] = [count |-> k, should |-> TRUE]]
Unmarked(r, h, k) == [r EXCEPT ![h] = [count |-> k, should |-> FALSE]]

LEMMA CountChange ==
    ASSUME NEW r \in RefsKind, NEW h \in InitialBlocks, NEW k \in Int
    PROVE  /\ Recounted(r, h, k) \in RefsKind /\ Recounted(r, h, k)[h].count = k
           /\ MarkedIn(Recounted(r, h, k)) = MarkedIn(r)
           /\ \A c \in InitialBlocks : c # h => Recounted(r, h, k)[c] = r[c]
BY DEF RefsKind, MarkedIn, Recounted

LEMMA MarkChange ==
    ASSUME NEW r \in RefsKind, NEW h \in InitialBlocks
    PROVE  /\ Marked(r, h) \in RefsKind /\ Marked(r, h)[h].count = r[h].count
           /\ h \in MarkedIn(Marked(r, h))
           /\ \A c \in InitialBlocks : c # h => Marked(r, h)[c] = r[c]
BY DEF RefsKind, MarkedIn, Marked

LEMMA Remarking ==
    ASSUME NEW r \in RefsKind, NEW h \in InitialBlocks, NEW k \in Int
    PROVE  /\ Remarked(r, h, k) \in RefsKind /\ Remarked(r, h, k)[h].count = k
           /\ h \in MarkedIn(Remarked(r, h, k))
           /\ \A c \in InitialBlocks : c # h => Remarked(r, h, k)[c] = r[c]
BY DEF RefsKind, MarkedIn, Remarked

LEMMA Unmarking ==
    ASSUME NEW r \in RefsKind, NEW h \in InitialBlocks, NEW k \in Int
    PROVE  /\ Unmarked(r, h, k) \in RefsKind /\ Unmarked(r, h, k)[h].count = k
           /\ h \notin MarkedIn(Unmarked(r, h, k))
           /\ \A c \in InitialBlocks : c # h => Unmarked(r, h, k)[c] = r[c]
BY DEF RefsKind, MarkedIn, Unmarked

LEMMA BothAre ==
    ASSUME NEW r \in RefsKind, NEW h \in InitialBlocks
    PROVE  /\ (r[h] = [count |-> 1, should |-> TRUE]) <=> (r[h].count = 1 /\ h \in MarkedIn(r))
           /\ (r[h] = [count |-> 1, should |-> FALSE]) <=> (r[h].count = 1 /\ h \notin MarkedIn(r))
           /\ r[h].count \in Int
BY DEF RefsKind, MarkedIn

-----------------------------------------------------------------------------
(***************************************************************************)
(* A step of thread t, from its place to q, about block b.                 *)
(***************************************************************************)

\* The other blocks stay as they are.
Alike(c, S, I, U, r, f, S2, I2, U2, r2, g) ==
  /\ c \in S2 <=> c \in S
  /\ c > I2 <=> c > I
  /\ c \in U2 <=> c \in U
  /\ r2[c] = r[c]
  /\ \A t \in PoolThreads : Same(f[t], g[t], c)

LEMMA SoundKept ==
    ASSUME NEW c \in InitialBlocks, NEW S, NEW I, NEW U, NEW r, NEW f, Sound(c, S, I, U, r, f),
           NEW S2, NEW I2, NEW U2, NEW r2, NEW g, Alike(c, S, I, U, r, f, S2, I2, U2, r2, g)
    PROVE  Sound(c, S2, I2, U2, r2, g)
<1>1. /\ Referrers(g, c) = Referrers(f, c) /\ Linkers(g, c) = Linkers(f, c)
      /\ Pushers(g, c) = Pushers(f, c) /\ Takers(g, c) = Takers(f, c)
  BY ThreadsStay DEF Alike
<1>2. c \in MarkedIn(r2) <=> c \in MarkedIn(r)
  BY DEF MarkedIn, Alike
<1>3. Account(c, I, U, S, MarkedIn(r), r[c].count,
              Referrers(f, c), Linkers(f, c), Pushers(f, c), Takers(f, c))
  BY DEF Sound
<1>4. Account(c, I2, U2, S2, MarkedIn(r2), r[c].count,
              Referrers(f, c), Linkers(f, c), Pushers(f, c), Takers(f, c))
  BY <1>2, <1>3, AccountKept DEF Alike
<1>5. r2[c] = r[c]
  BY DEF Alike
<1> QED BY <1>1, <1>4, <1>5 DEF Sound

\* So the step keeps the invariant when it keeps the account of the block it is about.
LEMMA BlockStep ==
    ASSUME PoolTyped, ReadsHold,
           NEW list, \A c \in InitialBlocks : Sound(c, On(list), poolIndex, inUse, refs, poolAt),
           NEW t \in PoolThreads, NEW q \in PoolPlaces, poolAt' = [poolAt EXCEPT ![t] = q],
           ReadsRight(q, freeListNext), freeListNext' = freeListNext,
           NEW b \in InitialBlocks,
           \A c \in InitialBlocks : c # b => /\ Same(poolAt[t], q, c) /\ refs'[c] = refs[c]
                                             /\ c \in inUse' <=> c \in inUse
                                             /\ c > poolIndex' <=> c > poolIndex,
           poolIndex' \in Nat, freeListHead' \in Pointers, refs' \in RefsKind, inUse' \subseteq Blocks,
           NEW longer \in Seq(InitialBlocks), ListFrom(longer, freeListHead', freeListNext),
           \A c \in InitialBlocks : c # b => (c \in On(longer) <=> c \in On(list)),
           Sound(b, On(longer), poolIndex', inUse', refs', poolAt')
    PROVE  PoolInductive'
<1>1. DOMAIN poolAt = PoolThreads /\ poolAt' \in [PoolThreads -> PoolPlaces]
  BY DEF PoolTyped
<1>2. PoolTyped'
  BY <1>1 DEF PoolTyped
<1>3. ReadsHold'
  BY <1>1 DEF ReadsHold
<1>4. ASSUME NEW c \in InitialBlocks
      PROVE  Sound(c, On(longer), poolIndex', inUse', refs', poolAt')
  <2>1. CASE c = b
    BY <2>1
  <2>2. CASE c # b
    <3>1. Sound(c, On(list), poolIndex, inUse, refs, poolAt)
      OBVIOUS
    <3>3. \A u \in PoolThreads : Same(poolAt[u], poolAt'[u], c)
      BY <1>1, <2>2 DEF Same
    <3>2. /\ c \in On(longer) <=> c \in On(list)
          /\ c > poolIndex' <=> c > poolIndex
          /\ c \in inUse' <=> c \in inUse
          /\ refs'[c] = refs[c]
      BY <2>2
    <3>4. Alike(c, On(list), poolIndex, inUse, refs, poolAt, On(longer), poolIndex', inUse', refs', poolAt')
      BY <3>2, <3>3 DEF Alike
    <3> QED BY <3>1, <3>4, SoundKept
  <2> QED BY <2>1, <2>2
<1>5. BlocksSound'
  BY <1>4 DEF BlocksSound
<1> QED BY <1>2, <1>3, <1>5 DEF PoolInductive

\* A step that is about no block, or that leaves the thread where it is to each.
LEMMA PlainStep ==
    ASSUME PoolInductive,
           NEW t \in PoolThreads, NEW q \in PoolPlaces, poolAt' = [poolAt EXCEPT ![t] = q],
           ReadsRight(q, freeListNext), \A c \in InitialBlocks : Same(poolAt[t], q, c),
           freeListHead' = freeListHead, freeListNext' = freeListNext, refs' = refs,
           inUse' \subseteq Blocks, \A c \in InitialBlocks : c \in inUse' <=> c \in inUse,
           poolIndex' \in Nat, \A c \in InitialBlocks : c > poolIndex' <=> c > poolIndex
    PROVE  PoolInductive'
<1>1. PoolTyped /\ ReadsHold /\ DOMAIN poolAt = PoolThreads /\ poolAt' \in [PoolThreads -> PoolPlaces]
  BY DEF PoolInductive, PoolTyped
<1>2. PoolTyped'
  BY <1>1 DEF PoolTyped
<1>3. ReadsHold'
  BY <1>1 DEF ReadsHold
<1>4. PICK list \in Seq(InitialBlocks) :
        /\ ListFrom(list, freeListHead, freeListNext)
        /\ \A c \in InitialBlocks : Sound(c, On(list), poolIndex, inUse, refs, poolAt)
  BY DEF PoolInductive, BlocksSound
<1>5. ASSUME NEW c \in InitialBlocks
      PROVE  Sound(c, On(list), poolIndex', inUse', refs', poolAt')
  <2>1. Sound(c, On(list), poolIndex, inUse, refs, poolAt)
    BY <1>4
  <2>3. \A u \in PoolThreads : Same(poolAt[u], poolAt'[u], c)
    BY <1>1 DEF Same
  <2>2. /\ c \in On(list) <=> c \in On(list)
        /\ c > poolIndex' <=> c > poolIndex
        /\ c \in inUse' <=> c \in inUse
        /\ refs'[c] = refs[c]
    OBVIOUS
  <2>4. Alike(c, On(list), poolIndex, inUse, refs, poolAt, On(list), poolIndex', inUse', refs', poolAt')
    BY <2>2, <2>3 DEF Alike
  <2> QED BY <2>1, <2>4, SoundKept
<1>6. BlocksSound'
  BY <1>4, <1>5 DEF BlocksSound
<1> QED BY <1>2, <1>3, <1>6 DEF PoolInductive

-----------------------------------------------------------------------------
(***************************************************************************)
(* The actions, one by one.                                                *)
(***************************************************************************)

\* What the invariant says of the thread that moves, and of the list.
LEMMA AtStep ==
    ASSUME PoolInductive, NEW t \in PoolThreads
    PROVE  /\ PoolTyped /\ ReadsHold /\ DOMAIN poolAt = PoolThreads
           /\ poolAt[t] \in PoolPlaces /\ ReadsRight(poolAt[t], freeListNext)
           /\ poolIndex \in Nat /\ freeListHead \in Pointers /\ refs \in RefsKind /\ inUse \subseteq Blocks
           /\ freeListNext \in [InitialBlocks -> Pointers]
BY DEF PoolInductive, PoolTyped, ReadsHold

LEMMA RequisitionKeeps ==
    ASSUME PoolInductive, NEW t \in PoolThreads, Requisition(t)
    PROVE  PoolInductive'
<1> DEFINE q == IF poolIndex < PoolSize THEN [pc |-> "initial"] ELSE Load
<1>1. poolAt[t].pc \in Idle /\ poolAt' = [poolAt EXCEPT ![t] = q]
  BY DEF Requisition, Is, GoTo, Idle
<1>2. q \in PoolPlaces /\ q.pc \in Idle
  BY DEF PoolPlaces, Thens, Idle, Load
<1> HIDE DEF q
<1>3. ReadsRight(q, freeListNext) /\ \A c \in InitialBlocks : Same(poolAt[t], q, c)
  BY <1>1, <1>2, IdleFacts DEF Same
<1>4. /\ freeListHead' = freeListHead /\ freeListNext' = freeListNext /\ refs' = refs
      /\ inUse' = inUse /\ poolIndex' = poolIndex
  BY DEF Requisition
<1> QED BY <1>1, <1>2, <1>3, <1>4, AtStep, PlainStep

\* A node that somebody references, or that is on the list, gets one reference more.
LEMMA ReferenceCounts ==
    ASSUME PoolInductive, NEW t \in PoolThreads, Reference(t), NEW b, b = poolAt[t].head, refs[b].count # 0
    PROVE  PoolInductive'
<1> DEFINE q == [pc |-> "next", head |-> b]
<1>1. /\ PoolTyped /\ ReadsHold /\ DOMAIN poolAt = PoolThreads
      /\ poolAt[t] \in PoolPlaces /\ ReadsRight(poolAt[t], freeListNext)
      /\ poolIndex \in Nat /\ freeListHead \in Pointers /\ refs \in RefsKind /\ inUse \subseteq Blocks
  BY AtStep
<1>2. b \in InitialBlocks /\ poolAt[t].pc = "reference"
  BY <1>1, PlaceShape DEF Reference, Is
<1>3. /\ poolAt' = [poolAt EXCEPT ![t] = q]
      /\ freeListHead' = freeListHead /\ freeListNext' = freeListNext
      /\ inUse' = inUse /\ poolIndex' = poolIndex
  BY <1>1, <1>2 DEF Reference, GoTo, TakeBlock
<1>4. refs' = Recounted(refs, b, refs[b].count + 1)
  BY <1>2, Zenon DEF Reference, Recounted
<1>5. q \in PoolPlaces /\ ReadsRight(q, freeListNext)
  BY <1>1, <1>2, ThensIdle, IdleFacts DEF PoolPlaces, Thens, ReadsRight, OutsidePool
<1>6. /\ Refers(q, b) /\ ~Links(q, b) /\ ~Pushes(q, b) /\ ~TakesBlock(q, b)
      /\ ~Refers(poolAt[t], b) /\ ~Links(poolAt[t], b) /\ ~Pushes(poolAt[t], b) /\ ~TakesBlock(poolAt[t], b)
  BY <1>1, <1>2 DEF Refers, Links, Pushes, TakesBlock, OutsidePool
<1>7. \A c \in InitialBlocks : c # b => Same(poolAt[t], q, c)
  BY <1>1, <1>2 DEF Same, Refers, Links, Pushes, TakesBlock, OutsidePool
<1> HIDE DEF q
<1>8. /\ refs[b].count \in Int /\ refs' \in RefsKind /\ refs'[b].count = refs[b].count + 1
      /\ MarkedIn(refs') = MarkedIn(refs) /\ \A c \in InitialBlocks : c # b => refs'[c] = refs[c]
  <2>1. refs \in RefsKind /\ b \in InitialBlocks
    BY <1>1, <1>2
  <2>2. refs[b].count \in Int
    BY <2>1, BothAre
  <2>3. PICK k \in Int : k = refs[b].count + 1
    BY <2>2
  <2>4. refs' = Recounted(refs, b, k)
    BY <1>4, <2>3
  <2>5. /\ Recounted(refs, b, k) \in RefsKind /\ Recounted(refs, b, k)[b].count = k
        /\ MarkedIn(Recounted(refs, b, k)) = MarkedIn(refs)
        /\ \A c \in InitialBlocks : c # b => Recounted(refs, b, k)[c] = refs[c]
    BY <2>1, CountChange
  <2> QED BY <2>2, <2>3, <2>4, <2>5
<1>9. PICK list \in Seq(InitialBlocks) :
        /\ ListFrom(list, freeListHead, freeListNext)
        /\ \A c \in InitialBlocks : Sound(c, On(list), poolIndex, inUse, refs, poolAt)
  BY DEF PoolInductive, BlocksSound
<1>10. poolAt'[t] = q /\ \A u \in PoolThreads : u # t => poolAt'[u] = poolAt[u]
  BY <1>1, <1>3
<1>11. Referrers(poolAt', b) = Referrers(poolAt, b) \cup {t} /\ t \notin Referrers(poolAt, b)
  BY <1>6, <1>10 DEF Referrers
<1>12. Linkers(poolAt', b) = Linkers(poolAt, b) /\ t \notin Linkers(poolAt, b)
  BY <1>6, <1>10 DEF Linkers
<1>13. Pushers(poolAt', b) = Pushers(poolAt, b) /\ t \notin Pushers(poolAt, b)
  BY <1>6, <1>10 DEF Pushers
<1>14. Takers(poolAt', b) = Takers(poolAt, b) /\ t \notin Takers(poolAt, b)
  BY <1>6, <1>10 DEF Takers
<1>15. /\ list \in Seq(InitialBlocks) /\ ListFrom(list, freeListHead', freeListNext)
       /\ \A c \in InitialBlocks : c # b => (c \in On(list) <=> c \in On(list))
  BY <1>3, <1>9
<1>16. Account(b, poolIndex, inUse, On(list), MarkedIn(refs), refs[b].count + 1,
               Referrers(poolAt', b), Linkers(poolAt, b), Pushers(poolAt, b), Takers(poolAt, b))
  <2>1. Account(b, poolIndex, inUse, On(list), MarkedIn(refs), refs[b].count,
                Referrers(poolAt, b), Linkers(poolAt, b), Pushers(poolAt, b), Takers(poolAt, b))
    BY <1>2, <1>9 DEF Sound
  <2> QED BY <1>2, <1>8, <1>11, <1>12, <1>13, <1>14, <1>15, <2>1, ThreadsAbout, AccountReference
<1>17. Sound(b, On(list), poolIndex', inUse', refs', poolAt')
  BY <1>3, <1>8, <1>11, <1>12, <1>13, <1>14, <1>16 DEF Sound
<1>18. \A c \in InitialBlocks :
         c # b => /\ Same(poolAt[t], q, c) /\ refs'[c] = refs[c]
                  /\ c \in inUse' <=> c \in inUse
                  /\ c > poolIndex' <=> c > poolIndex
  BY <1>1, <1>2, <1>3, <1>7, <1>8 DEF InitialBlocks
<1>19. freeListHead' \in Pointers /\ inUse' \subseteq Blocks /\ poolIndex' \in Nat
  BY <1>1, <1>2, <1>3, PlaceShape DEF Blocks, Pointers
<1> QED BY <1>1, <1>2, <1>3, <1>5, <1>8, <1>9, <1>15, <1>17, <1>18, <1>19, BlockStep

\* The head of the list is taken off.
LEMMA SwapTakes ==
    ASSUME PoolInductive, NEW t \in PoolThreads, SwapHead(t), NEW b, b = poolAt[t].head, b = freeListHead
    PROVE  PoolInductive'
<1> DEFINE q == [pc |-> "taken", head |-> b]
<1>1. /\ PoolTyped /\ ReadsHold /\ DOMAIN poolAt = PoolThreads
      /\ poolAt[t] \in PoolPlaces /\ ReadsRight(poolAt[t], freeListNext)
      /\ poolIndex \in Nat /\ freeListHead \in Pointers /\ refs \in RefsKind /\ inUse \subseteq Blocks
  BY AtStep
<1>2. b \in InitialBlocks /\ poolAt[t].pc = "swap"
  BY <1>1, PlaceShape DEF SwapHead, Is
<1>3. /\ poolAt' = [poolAt EXCEPT ![t] = q]
      /\ freeListHead' = poolAt[t].next /\ freeListNext' = freeListNext
      /\ inUse' = inUse /\ poolIndex' = poolIndex
  BY <1>1, <1>2 DEF SwapHead, GoTo, TakeBlock
<1>4. refs' = refs
  BY <1>1, <1>2 DEF SwapHead
<1>5. q \in PoolPlaces /\ ReadsRight(q, freeListNext)
  BY <1>1, <1>2, ThensIdle, IdleFacts DEF PoolPlaces, Thens, ReadsRight, OutsidePool
<1>6. /\ Refers(q, b) /\ ~Links(q, b) /\ ~Pushes(q, b) /\ TakesBlock(q, b)
      /\ Refers(poolAt[t], b) /\ ~Links(poolAt[t], b) /\ ~Pushes(poolAt[t], b) /\ ~TakesBlock(poolAt[t], b)
  BY <1>1, <1>2 DEF Refers, Links, Pushes, TakesBlock, OutsidePool
<1>7. \A c \in InitialBlocks : c # b => Same(poolAt[t], q, c)
  BY <1>1, <1>2 DEF Same, Refers, Links, Pushes, TakesBlock, OutsidePool
<1> HIDE DEF q
<1>8. /\ refs[b].count \in Int /\ refs' \in RefsKind /\ refs'[b].count = refs[b].count
      /\ MarkedIn(refs') = MarkedIn(refs) /\ \A c \in InitialBlocks : c # b => refs'[c] = refs[c]
  BY <1>1, <1>2, <1>4, BothAre
<1>9. PICK list \in Seq(InitialBlocks) :
        /\ ListFrom(list, freeListHead, freeListNext)
        /\ \A c \in InitialBlocks : Sound(c, On(list), poolIndex, inUse, refs, poolAt)
  BY DEF PoolInductive, BlocksSound
<1>10. poolAt'[t] = q /\ \A u \in PoolThreads : u # t => poolAt'[u] = poolAt[u]
  BY <1>1, <1>3
<1>11. Referrers(poolAt', b) = Referrers(poolAt, b) /\ t \in Referrers(poolAt, b)
  BY <1>6, <1>10 DEF Referrers
<1>12. Linkers(poolAt', b) = Linkers(poolAt, b) /\ t \notin Linkers(poolAt, b)
  BY <1>6, <1>10 DEF Linkers
<1>13. Pushers(poolAt', b) = Pushers(poolAt, b) /\ t \notin Pushers(poolAt, b)
  BY <1>6, <1>10 DEF Pushers
<1>14. Takers(poolAt', b) = Takers(poolAt, b) \cup {t} /\ t \notin Takers(poolAt, b)
  BY <1>6, <1>10 DEF Takers
<1>20. b = freeListHead /\ freeListHead' = freeListNext[b]
  BY <1>1, <1>2, <1>3 DEF ReadsRight
<1>15. PICK longer \in Seq(InitialBlocks) :
         /\ ListFrom(longer, freeListHead', freeListNext) /\ b \in On(list) /\ b \notin On(longer)
         /\ \A c \in InitialBlocks : c # b => (c \in On(longer) <=> c \in On(list))
  <2>1. /\ ListFrom(Tail(list), freeListNext[b], freeListNext)
        /\ On(Tail(list)) = On(list) \ {b} /\ b \in On(list)
    BY <1>2, <1>9, <1>20, ListTail
  <2>2. Tail(list) \in Seq(InitialBlocks)
    BY <2>1 DEF ListFrom
  <2> QED BY <1>20, <2>1, <2>2
<1>16. Account(b, poolIndex, inUse, On(longer), MarkedIn(refs), refs[b].count,
               Referrers(poolAt, b), Linkers(poolAt, b), Pushers(poolAt, b), Takers(poolAt', b))
  <2>1. Account(b, poolIndex, inUse, On(list), MarkedIn(refs), refs[b].count,
                Referrers(poolAt, b), Linkers(poolAt, b), Pushers(poolAt, b), Takers(poolAt, b))
    BY <1>2, <1>9 DEF Sound
  <2> QED BY <1>2, <1>8, <1>11, <1>12, <1>13, <1>14, <1>15, <2>1, ThreadsAbout, AccountTake
<1>17. Sound(b, On(longer), poolIndex', inUse', refs', poolAt')
  BY <1>3, <1>8, <1>11, <1>12, <1>13, <1>14, <1>16 DEF Sound
<1>18. \A c \in InitialBlocks :
         c # b => /\ Same(poolAt[t], q, c) /\ refs'[c] = refs[c]
                  /\ c \in inUse' <=> c \in inUse
                  /\ c > poolIndex' <=> c > poolIndex
  BY <1>1, <1>2, <1>3, <1>7, <1>8 DEF InitialBlocks
<1>19. freeListHead' \in Pointers /\ inUse' \subseteq Blocks /\ poolIndex' \in Nat
  BY <1>1, <1>2, <1>3, PlaceShape DEF Blocks, Pointers
<1> QED BY <1>1, <1>2, <1>3, <1>5, <1>8, <1>9, <1>15, <1>17, <1>18, <1>19, BlockStep

\* What is taken off belongs to a sub-queue.
LEMMA TakenKeeps ==
    ASSUME PoolInductive, NEW t \in PoolThreads, Taken(t), NEW b, b = poolAt[t].head
    PROVE  PoolInductive'
<1> DEFINE q == OutsidePool
<1>1. /\ PoolTyped /\ ReadsHold /\ DOMAIN poolAt = PoolThreads
      /\ poolAt[t] \in PoolPlaces /\ ReadsRight(poolAt[t], freeListNext)
      /\ poolIndex \in Nat /\ freeListHead \in Pointers /\ refs \in RefsKind /\ inUse \subseteq Blocks
  BY AtStep
<1>2. b \in InitialBlocks /\ poolAt[t].pc = "taken"
  BY <1>1, PlaceShape DEF Taken, Is
<1>3. /\ poolAt' = [poolAt EXCEPT ![t] = q]
      /\ freeListHead' = freeListHead /\ freeListNext' = freeListNext
      /\ inUse' = inUse \cup {b} /\ poolIndex' = poolIndex
  BY <1>1, <1>2 DEF Taken, GoTo, TakeBlock
<1>4. refs' = Recounted(refs, b, refs[b].count - 2)
  BY <1>2, Zenon DEF Taken, Recounted
<1>5. q \in PoolPlaces /\ ReadsRight(q, freeListNext)
  BY <1>1, <1>2, ThensIdle, IdleFacts DEF PoolPlaces, Thens, ReadsRight, OutsidePool
<1>6. /\ ~Refers(q, b) /\ ~Links(q, b) /\ ~Pushes(q, b) /\ ~TakesBlock(q, b)
      /\ Refers(poolAt[t], b) /\ ~Links(poolAt[t], b) /\ ~Pushes(poolAt[t], b) /\ TakesBlock(poolAt[t], b)
  BY <1>1, <1>2 DEF Refers, Links, Pushes, TakesBlock, OutsidePool
<1>7. \A c \in InitialBlocks : c # b => Same(poolAt[t], q, c)
  BY <1>1, <1>2 DEF Same, Refers, Links, Pushes, TakesBlock, OutsidePool
<1> HIDE DEF q
<1>8. /\ refs[b].count \in Int /\ refs' \in RefsKind /\ refs'[b].count = refs[b].count - 2
      /\ MarkedIn(refs') = MarkedIn(refs) /\ \A c \in InitialBlocks : c # b => refs'[c] = refs[c]
  <2>1. refs \in RefsKind /\ b \in InitialBlocks
    BY <1>1, <1>2
  <2>2. refs[b].count \in Int
    BY <2>1, BothAre
  <2>3. PICK k \in Int : k = refs[b].count - 2
    BY <2>2
  <2>4. refs' = Recounted(refs, b, k)
    BY <1>4, <2>3
  <2>5. /\ Recounted(refs, b, k) \in RefsKind /\ Recounted(refs, b, k)[b].count = k
        /\ MarkedIn(Recounted(refs, b, k)) = MarkedIn(refs)
        /\ \A c \in InitialBlocks : c # b => Recounted(refs, b, k)[c] = refs[c]
    BY <2>1, CountChange
  <2> QED BY <2>2, <2>3, <2>4, <2>5
<1>9. PICK list \in Seq(InitialBlocks) :
        /\ ListFrom(list, freeListHead, freeListNext)
        /\ \A c \in InitialBlocks : Sound(c, On(list), poolIndex, inUse, refs, poolAt)
  BY DEF PoolInductive, BlocksSound
<1>10. poolAt'[t] = q /\ \A u \in PoolThreads : u # t => poolAt'[u] = poolAt[u]
  BY <1>1, <1>3
<1>11. Referrers(poolAt', b) = Referrers(poolAt, b) \ {t} /\ t \in Referrers(poolAt, b)
  BY <1>6, <1>10 DEF Referrers
<1>12. Linkers(poolAt', b) = Linkers(poolAt, b) /\ t \notin Linkers(poolAt, b)
  BY <1>6, <1>10 DEF Linkers
<1>13. Pushers(poolAt', b) = Pushers(poolAt, b) /\ t \notin Pushers(poolAt, b)
  BY <1>6, <1>10 DEF Pushers
<1>14. Takers(poolAt', b) = Takers(poolAt, b) \ {t} /\ t \in Takers(poolAt, b)
  BY <1>6, <1>10 DEF Takers
<1>15. /\ list \in Seq(InitialBlocks) /\ ListFrom(list, freeListHead', freeListNext)
       /\ \A c \in InitialBlocks : c # b => (c \in On(list) <=> c \in On(list))
  BY <1>3, <1>9
<1>16. Account(b, poolIndex, inUse', On(list), MarkedIn(refs), refs[b].count - 2,
               Referrers(poolAt', b), Linkers(poolAt, b), Pushers(poolAt, b), Takers(poolAt', b))
  <2>1. Account(b, poolIndex, inUse, On(list), MarkedIn(refs), refs[b].count,
                Referrers(poolAt, b), Linkers(poolAt, b), Pushers(poolAt, b), Takers(poolAt, b))
    BY <1>2, <1>9 DEF Sound
  <2>2. b \in inUse'
    BY <1>3
  <2> QED BY <1>2, <1>8, <1>11, <1>12, <1>13, <1>14, <1>15, <2>1, ThreadsAbout, <2>2, AccountTaken
<1>17. Sound(b, On(list), poolIndex', inUse', refs', poolAt')
  BY <1>3, <1>8, <1>11, <1>12, <1>13, <1>14, <1>16 DEF Sound
<1>18. \A c \in InitialBlocks :
         c # b => /\ Same(poolAt[t], q, c) /\ refs'[c] = refs[c]
                  /\ c \in inUse' <=> c \in inUse
                  /\ c > poolIndex' <=> c > poolIndex
  BY <1>1, <1>2, <1>3, <1>7, <1>8 DEF InitialBlocks
<1>19. freeListHead' \in Pointers /\ inUse' \subseteq Blocks /\ poolIndex' \in Nat
  BY <1>1, <1>2, <1>3, PlaceShape DEF Blocks, Pointers
<1> QED BY <1>1, <1>2, <1>3, <1>5, <1>8, <1>9, <1>15, <1>17, <1>18, <1>19, BlockStep

\* A thread lets go of a node that others reference or that need not be listed.
LEMMA UnreferenceLets ==
    ASSUME PoolInductive, NEW t \in PoolThreads, Unreference(t), NEW b, b = poolAt[t].head, ~(refs[b].count = 1 /\ b \in MarkedIn(refs))
    PROVE  PoolInductive'
<1> DEFINE q == LookAt(poolAt[t].seen)
<1>1. /\ PoolTyped /\ ReadsHold /\ DOMAIN poolAt = PoolThreads
      /\ poolAt[t] \in PoolPlaces /\ ReadsRight(poolAt[t], freeListNext)
      /\ poolIndex \in Nat /\ freeListHead \in Pointers /\ refs \in RefsKind /\ inUse \subseteq Blocks
  BY AtStep
<1>2. b \in InitialBlocks /\ poolAt[t].pc = "unreference"
  BY <1>1, PlaceShape DEF Unreference, Is
<1>3. /\ poolAt' = [poolAt EXCEPT ![t] = q]
      /\ freeListHead' = freeListHead /\ freeListNext' = freeListNext
      /\ inUse' = inUse /\ poolIndex' = poolIndex
  BY <1>1, <1>2, BothAre DEF Unreference, GoTo, TakeBlock
<1>4. refs' = Recounted(refs, b, refs[b].count - 1)
  BY <1>2, BothAre, Zenon DEF Unreference, Recounted
<1>5. q \in PoolPlaces /\ q.pc \in Idle /\ ReadsRight(q, freeListNext)
  <2>1. q \in Thens
    BY <1>1, <1>2, PlaceShape, LookAtThens
  <2> HIDE DEF q
  <2> QED BY <2>1, ThensIdle, IdleFacts
<1>6. /\ ~Refers(q, b) /\ ~Links(q, b) /\ ~Pushes(q, b) /\ ~TakesBlock(q, b)
      /\ Refers(poolAt[t], b) /\ ~Links(poolAt[t], b) /\ ~Pushes(poolAt[t], b) /\ ~TakesBlock(poolAt[t], b)
  <2>1. ~Refers(q, b) /\ ~Links(q, b) /\ ~Pushes(q, b) /\ ~TakesBlock(q, b)
    BY <1>5, IdleFacts
  <2>2. Refers(poolAt[t], b) /\ ~Links(poolAt[t], b) /\ ~Pushes(poolAt[t], b) /\ ~TakesBlock(poolAt[t], b)
    BY <1>1, <1>2 DEF Refers, Links, Pushes, TakesBlock
  <2> QED BY <2>1, <2>2
<1>7. \A c \in InitialBlocks : c # b => Same(poolAt[t], q, c)
  <2>1. \A c \in InitialBlocks : ~Refers(q, c) /\ ~Links(q, c) /\ ~Pushes(q, c) /\ ~TakesBlock(q, c)
    BY <1>5, IdleFacts
  <2>2. \A c \in InitialBlocks :
          c # b => /\ ~Refers(poolAt[t], c) /\ ~Links(poolAt[t], c)
                   /\ ~Pushes(poolAt[t], c) /\ ~TakesBlock(poolAt[t], c)
    BY <1>1, <1>2 DEF Refers, Links, Pushes, TakesBlock
  <2> QED BY <2>1, <2>2 DEF Same
<1> HIDE DEF q
<1>8. /\ refs[b].count \in Int /\ refs' \in RefsKind /\ refs'[b].count = refs[b].count - 1
      /\ MarkedIn(refs') = MarkedIn(refs) /\ \A c \in InitialBlocks : c # b => refs'[c] = refs[c]
  <2>1. refs \in RefsKind /\ b \in InitialBlocks
    BY <1>1, <1>2
  <2>2. refs[b].count \in Int
    BY <2>1, BothAre
  <2>3. PICK k \in Int : k = refs[b].count - 1
    BY <2>2
  <2>4. refs' = Recounted(refs, b, k)
    BY <1>4, <2>3
  <2>5. /\ Recounted(refs, b, k) \in RefsKind /\ Recounted(refs, b, k)[b].count = k
        /\ MarkedIn(Recounted(refs, b, k)) = MarkedIn(refs)
        /\ \A c \in InitialBlocks : c # b => Recounted(refs, b, k)[c] = refs[c]
    BY <2>1, CountChange
  <2> QED BY <2>2, <2>3, <2>4, <2>5
<1>9. PICK list \in Seq(InitialBlocks) :
        /\ ListFrom(list, freeListHead, freeListNext)
        /\ \A c \in InitialBlocks : Sound(c, On(list), poolIndex, inUse, refs, poolAt)
  BY DEF PoolInductive, BlocksSound
<1>10. poolAt'[t] = q /\ \A u \in PoolThreads : u # t => poolAt'[u] = poolAt[u]
  BY <1>1, <1>3
<1>11. Referrers(poolAt', b) = Referrers(poolAt, b) \ {t} /\ t \in Referrers(poolAt, b)
  BY <1>6, <1>10 DEF Referrers
<1>12. Linkers(poolAt', b) = Linkers(poolAt, b) /\ t \notin Linkers(poolAt, b)
  BY <1>6, <1>10 DEF Linkers
<1>13. Pushers(poolAt', b) = Pushers(poolAt, b) /\ t \notin Pushers(poolAt, b)
  BY <1>6, <1>10 DEF Pushers
<1>14. Takers(poolAt', b) = Takers(poolAt, b) /\ t \notin Takers(poolAt, b)
  BY <1>6, <1>10 DEF Takers
<1>15. /\ list \in Seq(InitialBlocks) /\ ListFrom(list, freeListHead', freeListNext)
       /\ \A c \in InitialBlocks : c # b => (c \in On(list) <=> c \in On(list))
  BY <1>3, <1>9
<1>16. Account(b, poolIndex, inUse, On(list), MarkedIn(refs), refs[b].count - 1,
               Referrers(poolAt', b), Linkers(poolAt, b), Pushers(poolAt, b), Takers(poolAt, b))
  <2>1. Account(b, poolIndex, inUse, On(list), MarkedIn(refs), refs[b].count,
                Referrers(poolAt, b), Linkers(poolAt, b), Pushers(poolAt, b), Takers(poolAt, b))
    BY <1>2, <1>9 DEF Sound
  <2> QED BY <1>2, <1>8, <1>11, <1>12, <1>13, <1>14, <1>15, <2>1, ThreadsAbout, AccountUnreference
<1>17. Sound(b, On(list), poolIndex', inUse', refs', poolAt')
  BY <1>3, <1>8, <1>11, <1>12, <1>13, <1>14, <1>16 DEF Sound
<1>18. \A c \in InitialBlocks :
         c # b => /\ Same(poolAt[t], q, c) /\ refs'[c] = refs[c]
                  /\ c \in inUse' <=> c \in inUse
                  /\ c > poolIndex' <=> c > poolIndex
  BY <1>1, <1>2, <1>3, <1>7, <1>8 DEF InitialBlocks
<1>19. freeListHead' \in Pointers /\ inUse' \subseteq Blocks /\ poolIndex' \in Nat
  BY <1>1, <1>2, <1>3, PlaceShape DEF Blocks, Pointers
<1> QED BY <1>1, <1>2, <1>3, <1>5, <1>8, <1>9, <1>15, <1>17, <1>18, <1>19, BlockStep

\* The last one lets go of a marked node, and links it.
LEMMA UnreferenceLinks ==
    ASSUME PoolInductive, NEW t \in PoolThreads, Unreference(t), NEW b, b = poolAt[t].head, refs[b].count = 1, b \in MarkedIn(refs)
    PROVE  PoolInductive'
<1> DEFINE q == [pc |-> "link", node |-> b, then |-> LookAt(poolAt[t].seen)]
<1>1. /\ PoolTyped /\ ReadsHold /\ DOMAIN poolAt = PoolThreads
      /\ poolAt[t] \in PoolPlaces /\ ReadsRight(poolAt[t], freeListNext)
      /\ poolIndex \in Nat /\ freeListHead \in Pointers /\ refs \in RefsKind /\ inUse \subseteq Blocks
  BY AtStep
<1>2. b \in InitialBlocks /\ poolAt[t].pc = "unreference"
  BY <1>1, PlaceShape DEF Unreference, Is
<1>3. /\ poolAt' = [poolAt EXCEPT ![t] = q]
      /\ freeListHead' = freeListHead /\ freeListNext' = freeListNext
      /\ inUse' = inUse /\ poolIndex' = poolIndex
  BY <1>1, <1>2, BothAre DEF Unreference, GoTo, TakeBlock
<1>4. refs' = Recounted(refs, b, refs[b].count - 1)
  BY <1>2, BothAre, Zenon DEF Unreference, Recounted
<1>5. q \in PoolPlaces /\ ReadsRight(q, freeListNext)
  BY <1>1, <1>2, PlaceShape, LookAtThens DEF PoolPlaces, ReadsRight
<1>6. /\ ~Refers(q, b) /\ Links(q, b) /\ ~Pushes(q, b) /\ ~TakesBlock(q, b)
      /\ Refers(poolAt[t], b) /\ ~Links(poolAt[t], b) /\ ~Pushes(poolAt[t], b) /\ ~TakesBlock(poolAt[t], b)
  BY <1>1, <1>2 DEF Refers, Links, Pushes, TakesBlock, OutsidePool
<1>7. \A c \in InitialBlocks : c # b => Same(poolAt[t], q, c)
  BY <1>1, <1>2 DEF Same, Refers, Links, Pushes, TakesBlock, OutsidePool
<1> HIDE DEF q
<1>8. /\ refs[b].count \in Int /\ refs' \in RefsKind /\ refs'[b].count = refs[b].count - 1
      /\ MarkedIn(refs') = MarkedIn(refs) /\ \A c \in InitialBlocks : c # b => refs'[c] = refs[c]
  <2>1. refs \in RefsKind /\ b \in InitialBlocks
    BY <1>1, <1>2
  <2>2. refs[b].count \in Int
    BY <2>1, BothAre
  <2>3. PICK k \in Int : k = refs[b].count - 1
    BY <2>2
  <2>4. refs' = Recounted(refs, b, k)
    BY <1>4, <2>3
  <2>5. /\ Recounted(refs, b, k) \in RefsKind /\ Recounted(refs, b, k)[b].count = k
        /\ MarkedIn(Recounted(refs, b, k)) = MarkedIn(refs)
        /\ \A c \in InitialBlocks : c # b => Recounted(refs, b, k)[c] = refs[c]
    BY <2>1, CountChange
  <2> QED BY <2>2, <2>3, <2>4, <2>5
<1>9. PICK list \in Seq(InitialBlocks) :
        /\ ListFrom(list, freeListHead, freeListNext)
        /\ \A c \in InitialBlocks : Sound(c, On(list), poolIndex, inUse, refs, poolAt)
  BY DEF PoolInductive, BlocksSound
<1>10. poolAt'[t] = q /\ \A u \in PoolThreads : u # t => poolAt'[u] = poolAt[u]
  BY <1>1, <1>3
<1>11. Referrers(poolAt', b) = Referrers(poolAt, b) \ {t} /\ t \in Referrers(poolAt, b)
  BY <1>6, <1>10 DEF Referrers
<1>12. Linkers(poolAt', b) = Linkers(poolAt, b) \cup {t} /\ t \notin Linkers(poolAt, b)
  BY <1>6, <1>10 DEF Linkers
<1>13. Pushers(poolAt', b) = Pushers(poolAt, b) /\ t \notin Pushers(poolAt, b)
  BY <1>6, <1>10 DEF Pushers
<1>14. Takers(poolAt', b) = Takers(poolAt, b) /\ t \notin Takers(poolAt, b)
  BY <1>6, <1>10 DEF Takers
<1>15. /\ list \in Seq(InitialBlocks) /\ ListFrom(list, freeListHead', freeListNext)
       /\ \A c \in InitialBlocks : c # b => (c \in On(list) <=> c \in On(list))
  BY <1>3, <1>9
<1>16. Account(b, poolIndex, inUse, On(list), MarkedIn(refs), refs[b].count - 1,
               Referrers(poolAt', b), Linkers(poolAt', b), Pushers(poolAt, b), Takers(poolAt, b))
  <2>1. Account(b, poolIndex, inUse, On(list), MarkedIn(refs), refs[b].count,
                Referrers(poolAt, b), Linkers(poolAt, b), Pushers(poolAt, b), Takers(poolAt, b))
    BY <1>2, <1>9 DEF Sound
  <2> QED BY <1>2, <1>8, <1>11, <1>12, <1>13, <1>14, <1>15, <2>1, ThreadsAbout, AccountLinkLast
<1>17. Sound(b, On(list), poolIndex', inUse', refs', poolAt')
  BY <1>3, <1>8, <1>11, <1>12, <1>13, <1>14, <1>16 DEF Sound
<1>18. \A c \in InitialBlocks :
         c # b => /\ Same(poolAt[t], q, c) /\ refs'[c] = refs[c]
                  /\ c \in inUse' <=> c \in inUse
                  /\ c > poolIndex' <=> c > poolIndex
  BY <1>1, <1>2, <1>3, <1>7, <1>8 DEF InitialBlocks
<1>19. freeListHead' \in Pointers /\ inUse' \subseteq Blocks /\ poolIndex' \in Nat
  BY <1>1, <1>2, <1>3, PlaceShape DEF Blocks, Pointers
<1> QED BY <1>1, <1>2, <1>3, <1>5, <1>8, <1>9, <1>15, <1>17, <1>18, <1>19, BlockStep

LEMMA OfThePool ==
    ASSUME NEW b \in InitialBlocks
    PROVE  b \notin HeapBlocks
BY PoolAssumption DEF InitialBlocks, HeapBlocks

\* A block is given back that some thread still references: it is marked.
LEMMA AddLeaves ==
    ASSUME PoolInductive, NEW t \in PoolThreads, NEW b \in InitialBlocks, refs[b].count # 0, AddBlock(t, b)
    PROVE  PoolInductive'
<1> DEFINE q == OutsidePool
<1>1. /\ PoolTyped /\ ReadsHold /\ DOMAIN poolAt = PoolThreads
      /\ poolAt[t] \in PoolPlaces /\ ReadsRight(poolAt[t], freeListNext)
      /\ poolIndex \in Nat /\ freeListHead \in Pointers /\ refs \in RefsKind /\ inUse \subseteq Blocks
  BY AtStep
<1>2. b \in InitialBlocks /\ poolAt[t].pc = "outside"
  BY DEF AddBlock, Is
<1>3. /\ poolAt' = [poolAt EXCEPT ![t] = q]
      /\ freeListHead' = freeListHead /\ freeListNext' = freeListNext
      /\ inUse' = inUse \ {b} /\ poolIndex' = poolIndex
  BY <1>1, <1>2, OfThePool DEF AddBlock, GoTo, TakeBlock
<1>4. refs' = Marked(refs, b)
  BY <1>2, OfThePool, Zenon DEF AddBlock, Marked
<1>5. q \in PoolPlaces /\ ReadsRight(q, freeListNext)
  BY <1>1, <1>2, ThensIdle, IdleFacts DEF PoolPlaces, Thens, ReadsRight, OutsidePool
<1>6. /\ ~Refers(q, b) /\ ~Links(q, b) /\ ~Pushes(q, b) /\ ~TakesBlock(q, b)
      /\ ~Refers(poolAt[t], b) /\ ~Links(poolAt[t], b) /\ ~Pushes(poolAt[t], b) /\ ~TakesBlock(poolAt[t], b)
  BY <1>1, <1>2 DEF Refers, Links, Pushes, TakesBlock, OutsidePool
<1>7. \A c \in InitialBlocks : c # b => Same(poolAt[t], q, c)
  BY <1>1, <1>2 DEF Same, Refers, Links, Pushes, TakesBlock, OutsidePool
<1> HIDE DEF q
<1>8. /\ refs[b].count \in Int /\ refs' \in RefsKind /\ refs'[b].count = refs[b].count
      /\ b \in MarkedIn(refs') /\ \A c \in InitialBlocks : c # b => refs'[c] = refs[c]
  BY <1>1, <1>2, <1>4, BothAre, MarkChange
<1>9. PICK list \in Seq(InitialBlocks) :
        /\ ListFrom(list, freeListHead, freeListNext)
        /\ \A c \in InitialBlocks : Sound(c, On(list), poolIndex, inUse, refs, poolAt)
  BY DEF PoolInductive, BlocksSound
<1>10. poolAt'[t] = q /\ \A u \in PoolThreads : u # t => poolAt'[u] = poolAt[u]
  BY <1>1, <1>3
<1>11. Referrers(poolAt', b) = Referrers(poolAt, b) /\ t \notin Referrers(poolAt, b)
  BY <1>6, <1>10 DEF Referrers
<1>12. Linkers(poolAt', b) = Linkers(poolAt, b) /\ t \notin Linkers(poolAt, b)
  BY <1>6, <1>10 DEF Linkers
<1>13. Pushers(poolAt', b) = Pushers(poolAt, b) /\ t \notin Pushers(poolAt, b)
  BY <1>6, <1>10 DEF Pushers
<1>14. Takers(poolAt', b) = Takers(poolAt, b) /\ t \notin Takers(poolAt, b)
  BY <1>6, <1>10 DEF Takers
<1>15. /\ list \in Seq(InitialBlocks) /\ ListFrom(list, freeListHead', freeListNext)
       /\ \A c \in InitialBlocks : c # b => (c \in On(list) <=> c \in On(list))
  BY <1>3, <1>9
<1>16. Account(b, poolIndex, inUse', On(list), MarkedIn(refs'), refs[b].count,
               Referrers(poolAt, b), Linkers(poolAt, b), Pushers(poolAt, b), Takers(poolAt, b))
  <2>1. Account(b, poolIndex, inUse, On(list), MarkedIn(refs), refs[b].count,
                Referrers(poolAt, b), Linkers(poolAt, b), Pushers(poolAt, b), Takers(poolAt, b))
    BY <1>2, <1>9 DEF Sound
  <2>2. b \in inUse /\ b \notin inUse'
    BY <1>3 DEF AddBlock
  <2> QED BY <1>2, <1>8, <1>11, <1>12, <1>13, <1>14, <1>15, <2>1, ThreadsAbout, <2>2, AccountMark
<1>17. Sound(b, On(list), poolIndex', inUse', refs', poolAt')
  BY <1>3, <1>8, <1>11, <1>12, <1>13, <1>14, <1>16 DEF Sound
<1>18. \A c \in InitialBlocks :
         c # b => /\ Same(poolAt[t], q, c) /\ refs'[c] = refs[c]
                  /\ c \in inUse' <=> c \in inUse
                  /\ c > poolIndex' <=> c > poolIndex
  BY <1>1, <1>2, <1>3, <1>7, <1>8 DEF InitialBlocks
<1>19. freeListHead' \in Pointers /\ inUse' \subseteq Blocks /\ poolIndex' \in Nat
  BY <1>1, <1>2, <1>3, PlaceShape DEF Blocks, Pointers
<1> QED BY <1>1, <1>2, <1>3, <1>5, <1>8, <1>9, <1>15, <1>17, <1>18, <1>19, BlockStep

\* A block is given back that nobody references: this thread links it.
LEMMA AddLinks ==
    ASSUME PoolInductive, NEW t \in PoolThreads, NEW b \in InitialBlocks, refs[b].count = 0, AddBlock(t, b)
    PROVE  PoolInductive'
<1> DEFINE q == [pc |-> "link", node |-> b, then |-> OutsidePool]
<1>1. /\ PoolTyped /\ ReadsHold /\ DOMAIN poolAt = PoolThreads
      /\ poolAt[t] \in PoolPlaces /\ ReadsRight(poolAt[t], freeListNext)
      /\ poolIndex \in Nat /\ freeListHead \in Pointers /\ refs \in RefsKind /\ inUse \subseteq Blocks
  BY AtStep
<1>2. b \in InitialBlocks /\ poolAt[t].pc = "outside"
  BY DEF AddBlock, Is
<1>3. /\ poolAt' = [poolAt EXCEPT ![t] = q]
      /\ freeListHead' = freeListHead /\ freeListNext' = freeListNext
      /\ inUse' = inUse \ {b} /\ poolIndex' = poolIndex
  BY <1>1, <1>2, OfThePool DEF AddBlock, GoTo, TakeBlock
<1>4. refs' = Marked(refs, b)
  BY <1>2, OfThePool, Zenon DEF AddBlock, Marked
<1>5. q \in PoolPlaces /\ ReadsRight(q, freeListNext)
  BY <1>1, <1>2, ThensIdle, IdleFacts DEF PoolPlaces, Thens, ReadsRight, OutsidePool
<1>6. /\ ~Refers(q, b) /\ Links(q, b) /\ ~Pushes(q, b) /\ ~TakesBlock(q, b)
      /\ ~Refers(poolAt[t], b) /\ ~Links(poolAt[t], b) /\ ~Pushes(poolAt[t], b) /\ ~TakesBlock(poolAt[t], b)
  BY <1>1, <1>2 DEF Refers, Links, Pushes, TakesBlock, OutsidePool
<1>7. \A c \in InitialBlocks : c # b => Same(poolAt[t], q, c)
  BY <1>1, <1>2 DEF Same, Refers, Links, Pushes, TakesBlock, OutsidePool
<1> HIDE DEF q
<1>8. /\ refs[b].count \in Int /\ refs' \in RefsKind /\ refs'[b].count = refs[b].count
      /\ b \in MarkedIn(refs') /\ \A c \in InitialBlocks : c # b => refs'[c] = refs[c]
  BY <1>1, <1>2, <1>4, BothAre, MarkChange
<1>9. PICK list \in Seq(InitialBlocks) :
        /\ ListFrom(list, freeListHead, freeListNext)
        /\ \A c \in InitialBlocks : Sound(c, On(list), poolIndex, inUse, refs, poolAt)
  BY DEF PoolInductive, BlocksSound
<1>10. poolAt'[t] = q /\ \A u \in PoolThreads : u # t => poolAt'[u] = poolAt[u]
  BY <1>1, <1>3
<1>11. Referrers(poolAt', b) = Referrers(poolAt, b) /\ t \notin Referrers(poolAt, b)
  BY <1>6, <1>10 DEF Referrers
<1>12. Linkers(poolAt', b) = Linkers(poolAt, b) \cup {t} /\ t \notin Linkers(poolAt, b)
  BY <1>6, <1>10 DEF Linkers
<1>13. Pushers(poolAt', b) = Pushers(poolAt, b) /\ t \notin Pushers(poolAt, b)
  BY <1>6, <1>10 DEF Pushers
<1>14. Takers(poolAt', b) = Takers(poolAt, b) /\ t \notin Takers(poolAt, b)
  BY <1>6, <1>10 DEF Takers
<1>15. /\ list \in Seq(InitialBlocks) /\ ListFrom(list, freeListHead', freeListNext)
       /\ \A c \in InitialBlocks : c # b => (c \in On(list) <=> c \in On(list))
  BY <1>3, <1>9
<1>16. Account(b, poolIndex, inUse', On(list), MarkedIn(refs'), refs[b].count,
               Referrers(poolAt, b), Linkers(poolAt', b), Pushers(poolAt, b), Takers(poolAt, b))
  <2>1. Account(b, poolIndex, inUse, On(list), MarkedIn(refs), refs[b].count,
                Referrers(poolAt, b), Linkers(poolAt, b), Pushers(poolAt, b), Takers(poolAt, b))
    BY <1>2, <1>9 DEF Sound
  <2>2. b \in inUse /\ b \notin inUse'
    BY <1>3 DEF AddBlock
  <2> QED BY <1>2, <1>8, <1>11, <1>12, <1>13, <1>14, <1>15, <2>1, ThreadsAbout, <2>2, AccountMarkAndLink
<1>17. Sound(b, On(list), poolIndex', inUse', refs', poolAt')
  BY <1>3, <1>8, <1>11, <1>12, <1>13, <1>14, <1>16 DEF Sound
<1>18. \A c \in InitialBlocks :
         c # b => /\ Same(poolAt[t], q, c) /\ refs'[c] = refs[c]
                  /\ c \in inUse' <=> c \in inUse
                  /\ c > poolIndex' <=> c > poolIndex
  BY <1>1, <1>2, <1>3, <1>7, <1>8 DEF InitialBlocks
<1>19. freeListHead' \in Pointers /\ inUse' \subseteq Blocks /\ poolIndex' \in Nat
  BY <1>1, <1>2, <1>3, PlaceShape DEF Blocks, Pointers
<1> QED BY <1>1, <1>2, <1>3, <1>5, <1>8, <1>9, <1>15, <1>17, <1>18, <1>19, BlockStep

\* The linker gives the reference of the list and takes the mark away.
LEMMA PublishKeeps ==
    ASSUME PoolInductive, NEW t \in PoolThreads, StoreRefs(t), NEW b, b = poolAt[t].node
    PROVE  PoolInductive'
<1> DEFINE q == [poolAt[t] EXCEPT !.pc = "push"]
<1>1. /\ PoolTyped /\ ReadsHold /\ DOMAIN poolAt = PoolThreads
      /\ poolAt[t] \in PoolPlaces /\ ReadsRight(poolAt[t], freeListNext)
      /\ poolIndex \in Nat /\ freeListHead \in Pointers /\ refs \in RefsKind /\ inUse \subseteq Blocks
  BY AtStep
<1>2. b \in InitialBlocks /\ poolAt[t].pc = "publish"
  BY <1>1, PlaceShape DEF StoreRefs, Is
<1>3. /\ poolAt' = [poolAt EXCEPT ![t] = q]
      /\ freeListHead' = freeListHead /\ freeListNext' = freeListNext
      /\ inUse' = inUse /\ poolIndex' = poolIndex
  BY <1>1, <1>2 DEF StoreRefs, GoTo, TakeBlock
<1>4. refs' = Unmarked(refs, b, 1)
  BY <1>2, Zenon DEF StoreRefs, Unmarked
<1>5. q \in PoolPlaces /\ ReadsRight(q, freeListNext) /\ q.pc = "push" /\ q.node = b
  BY <1>1, <1>2, PlaceTurns DEF ReadsRight
<1>6. /\ ~Refers(q, b) /\ Links(q, b) /\ Pushes(q, b) /\ ~TakesBlock(q, b)
      /\ ~Refers(poolAt[t], b) /\ Links(poolAt[t], b) /\ ~Pushes(poolAt[t], b) /\ ~TakesBlock(poolAt[t], b)
  <2> HIDE DEF q
  <2>1. ~Refers(q, b) /\ Links(q, b) /\ Pushes(q, b) /\ ~TakesBlock(q, b)
    BY <1>5 DEF Refers, Links, Pushes, TakesBlock
  <2>2. ~Refers(poolAt[t], b) /\ Links(poolAt[t], b) /\ ~Pushes(poolAt[t], b) /\ ~TakesBlock(poolAt[t], b)
    BY <1>1, <1>2 DEF Refers, Links, Pushes, TakesBlock
  <2> QED BY <2>1, <2>2
<1>7. \A c \in InitialBlocks : c # b => Same(poolAt[t], q, c)
  <2> HIDE DEF q
  <2> QED BY <1>1, <1>2, <1>5 DEF Same, Refers, Links, Pushes, TakesBlock
<1> HIDE DEF q
<1>8. /\ refs[b].count \in Int /\ refs' \in RefsKind /\ refs'[b].count = 1
      /\ b \notin MarkedIn(refs') /\ \A c \in InitialBlocks : c # b => refs'[c] = refs[c]
  <2>1. refs \in RefsKind /\ b \in InitialBlocks
    BY <1>1, <1>2
  <2>2. refs[b].count \in Int
    BY <2>1, BothAre
  <2>3. PICK k \in Int : k = 1
    BY <2>2
  <2>4. refs' = Unmarked(refs, b, k)
    BY <1>4, <2>3
  <2>5. /\ Unmarked(refs, b, k) \in RefsKind /\ Unmarked(refs, b, k)[b].count = k
        /\ b \notin MarkedIn(Unmarked(refs, b, k))
        /\ \A c \in InitialBlocks : c # b => Unmarked(refs, b, k)[c] = refs[c]
    BY <2>1, Unmarking
  <2> QED BY <2>2, <2>3, <2>4, <2>5
<1>9. PICK list \in Seq(InitialBlocks) :
        /\ ListFrom(list, freeListHead, freeListNext)
        /\ \A c \in InitialBlocks : Sound(c, On(list), poolIndex, inUse, refs, poolAt)
  BY DEF PoolInductive, BlocksSound
<1>10. poolAt'[t] = q /\ \A u \in PoolThreads : u # t => poolAt'[u] = poolAt[u]
  BY <1>1, <1>3
<1>11. Referrers(poolAt', b) = Referrers(poolAt, b) /\ t \notin Referrers(poolAt, b)
  BY <1>6, <1>10 DEF Referrers
<1>12. Linkers(poolAt', b) = Linkers(poolAt, b) /\ t \in Linkers(poolAt, b)
  BY <1>6, <1>10 DEF Linkers
<1>13. Pushers(poolAt', b) = Pushers(poolAt, b) \cup {t} /\ t \notin Pushers(poolAt, b)
  BY <1>6, <1>10 DEF Pushers
<1>14. Takers(poolAt', b) = Takers(poolAt, b) /\ t \notin Takers(poolAt, b)
  BY <1>6, <1>10 DEF Takers
<1>15. /\ list \in Seq(InitialBlocks) /\ ListFrom(list, freeListHead', freeListNext)
       /\ \A c \in InitialBlocks : c # b => (c \in On(list) <=> c \in On(list))
  BY <1>3, <1>9
<1>16. Account(b, poolIndex, inUse, On(list), MarkedIn(refs'), 1,
               Referrers(poolAt, b), Linkers(poolAt, b), Pushers(poolAt', b), Takers(poolAt, b))
  <2>1. Account(b, poolIndex, inUse, On(list), MarkedIn(refs), refs[b].count,
                Referrers(poolAt, b), Linkers(poolAt, b), Pushers(poolAt, b), Takers(poolAt, b))
    BY <1>2, <1>9 DEF Sound
  <2> QED BY <1>2, <1>8, <1>11, <1>12, <1>13, <1>14, <1>15, <2>1, ThreadsAbout, AccountPublish
<1>17. Sound(b, On(list), poolIndex', inUse', refs', poolAt')
  BY <1>3, <1>8, <1>11, <1>12, <1>13, <1>14, <1>16 DEF Sound
<1>18. \A c \in InitialBlocks :
         c # b => /\ Same(poolAt[t], q, c) /\ refs'[c] = refs[c]
                  /\ c \in inUse' <=> c \in inUse
                  /\ c > poolIndex' <=> c > poolIndex
  BY <1>1, <1>2, <1>3, <1>7, <1>8 DEF InitialBlocks
<1>19. freeListHead' \in Pointers /\ inUse' \subseteq Blocks /\ poolIndex' \in Nat
  BY <1>1, <1>2, <1>3, PlaceShape DEF Blocks, Pointers
<1> QED BY <1>1, <1>2, <1>3, <1>5, <1>8, <1>9, <1>15, <1>17, <1>18, <1>19, BlockStep

\* The swap of the head puts the node on the list.
LEMMA PushLists ==
    ASSUME PoolInductive, NEW t \in PoolThreads, PushHead(t), NEW b, b = poolAt[t].node, freeListHead = poolAt[t].seen
    PROVE  PoolInductive'
<1> DEFINE q == poolAt[t].then
<1>1. /\ PoolTyped /\ ReadsHold /\ DOMAIN poolAt = PoolThreads
      /\ poolAt[t] \in PoolPlaces /\ ReadsRight(poolAt[t], freeListNext)
      /\ poolIndex \in Nat /\ freeListHead \in Pointers /\ refs \in RefsKind /\ inUse \subseteq Blocks
  BY AtStep
<1>2. b \in InitialBlocks /\ poolAt[t].pc = "push"
  BY <1>1, PlaceShape DEF PushHead, Is
<1>3. /\ poolAt' = [poolAt EXCEPT ![t] = q]
      /\ freeListHead' = b /\ freeListNext' = freeListNext
      /\ inUse' = inUse /\ poolIndex' = poolIndex
  BY <1>1, <1>2 DEF PushHead, GoTo, TakeBlock
<1>4. refs' = refs
  BY <1>1, <1>2 DEF PushHead
<1>5. q \in PoolPlaces /\ q.pc \in Idle /\ ReadsRight(q, freeListNext)
  <2>1. q \in Thens
    BY <1>1, <1>2, PlaceShape
  <2> HIDE DEF q
  <2> QED BY <2>1, ThensIdle, IdleFacts
<1>6. /\ ~Refers(q, b) /\ ~Links(q, b) /\ ~Pushes(q, b) /\ ~TakesBlock(q, b)
      /\ ~Refers(poolAt[t], b) /\ Links(poolAt[t], b) /\ Pushes(poolAt[t], b) /\ ~TakesBlock(poolAt[t], b)
  <2>1. ~Refers(q, b) /\ ~Links(q, b) /\ ~Pushes(q, b) /\ ~TakesBlock(q, b)
    BY <1>5, IdleFacts
  <2>2. ~Refers(poolAt[t], b) /\ Links(poolAt[t], b) /\ Pushes(poolAt[t], b) /\ ~TakesBlock(poolAt[t], b)
    BY <1>1, <1>2 DEF Refers, Links, Pushes, TakesBlock
  <2> QED BY <2>1, <2>2
<1>7. \A c \in InitialBlocks : c # b => Same(poolAt[t], q, c)
  <2>1. \A c \in InitialBlocks : ~Refers(q, c) /\ ~Links(q, c) /\ ~Pushes(q, c) /\ ~TakesBlock(q, c)
    BY <1>5, IdleFacts
  <2>2. \A c \in InitialBlocks :
          c # b => /\ ~Refers(poolAt[t], c) /\ ~Links(poolAt[t], c)
                   /\ ~Pushes(poolAt[t], c) /\ ~TakesBlock(poolAt[t], c)
    BY <1>1, <1>2 DEF Refers, Links, Pushes, TakesBlock
  <2> QED BY <2>1, <2>2 DEF Same
<1> HIDE DEF q
<1>8. /\ refs[b].count \in Int /\ refs' \in RefsKind /\ refs'[b].count = refs[b].count
      /\ MarkedIn(refs') = MarkedIn(refs) /\ \A c \in InitialBlocks : c # b => refs'[c] = refs[c]
  BY <1>1, <1>2, <1>4, BothAre
<1>9. PICK list \in Seq(InitialBlocks) :
        /\ ListFrom(list, freeListHead, freeListNext)
        /\ \A c \in InitialBlocks : Sound(c, On(list), poolIndex, inUse, refs, poolAt)
  BY DEF PoolInductive, BlocksSound
<1>10. poolAt'[t] = q /\ \A u \in PoolThreads : u # t => poolAt'[u] = poolAt[u]
  BY <1>1, <1>3
<1>11. Referrers(poolAt', b) = Referrers(poolAt, b) /\ t \notin Referrers(poolAt, b)
  BY <1>6, <1>10 DEF Referrers
<1>12. Linkers(poolAt', b) = Linkers(poolAt, b) \ {t} /\ t \in Linkers(poolAt, b)
  BY <1>6, <1>10 DEF Linkers
<1>13. Pushers(poolAt', b) = Pushers(poolAt, b) \ {t} /\ t \in Pushers(poolAt, b)
  BY <1>6, <1>10 DEF Pushers
<1>14. Takers(poolAt', b) = Takers(poolAt, b) /\ t \notin Takers(poolAt, b)
  BY <1>6, <1>10 DEF Takers
<1>20. freeListNext[b] = freeListHead /\ freeListHead' = b
  BY <1>1, <1>2, <1>3 DEF ReadsRight
<1>21. b \notin On(list)
  BY <1>2, <1>9, <1>13 DEF Sound, Account
<1>15. PICK longer \in Seq(InitialBlocks) :
         /\ ListFrom(longer, freeListHead', freeListNext) /\ b \in On(longer)
         /\ \A c \in InitialBlocks : c # b => (c \in On(longer) <=> c \in On(list))
  <2>1. PICK longer \in Seq(InitialBlocks) :
          ListFrom(longer, b, freeListNext) /\ On(longer) = On(list) \cup {b}
    BY <1>2, <1>9, <1>20, <1>21, ListCons
  <2> QED BY <1>20, <2>1
<1>16. Account(b, poolIndex, inUse, On(longer), MarkedIn(refs), refs[b].count,
               Referrers(poolAt, b), Linkers(poolAt', b), Pushers(poolAt', b), Takers(poolAt, b))
  <2>1. Account(b, poolIndex, inUse, On(list), MarkedIn(refs), refs[b].count,
                Referrers(poolAt, b), Linkers(poolAt, b), Pushers(poolAt, b), Takers(poolAt, b))
    BY <1>2, <1>9 DEF Sound
  <2> QED BY <1>2, <1>8, <1>11, <1>12, <1>13, <1>14, <1>15, <2>1, ThreadsAbout, AccountPush
<1>17. Sound(b, On(longer), poolIndex', inUse', refs', poolAt')
  BY <1>3, <1>8, <1>11, <1>12, <1>13, <1>14, <1>16 DEF Sound
<1>18. \A c \in InitialBlocks :
         c # b => /\ Same(poolAt[t], q, c) /\ refs'[c] = refs[c]
                  /\ c \in inUse' <=> c \in inUse
                  /\ c > poolIndex' <=> c > poolIndex
  BY <1>1, <1>2, <1>3, <1>7, <1>8 DEF InitialBlocks
<1>19. freeListHead' \in Pointers /\ inUse' \subseteq Blocks /\ poolIndex' \in Nat
  BY <1>1, <1>2, <1>3, PlaceShape DEF Blocks, Pointers
<1> QED BY <1>1, <1>2, <1>3, <1>5, <1>8, <1>9, <1>15, <1>17, <1>18, <1>19, BlockStep

\* The swap failed and nobody references the node: it is linked again.
LEMMA RetractAgain ==
    ASSUME PoolInductive, NEW t \in PoolThreads, Retract(t), NEW b, b = poolAt[t].node, refs[b].count = 1, b \notin MarkedIn(refs)
    PROVE  PoolInductive'
<1> DEFINE q == [poolAt[t] EXCEPT !.pc = "store"]
<1>1. /\ PoolTyped /\ ReadsHold /\ DOMAIN poolAt = PoolThreads
      /\ poolAt[t] \in PoolPlaces /\ ReadsRight(poolAt[t], freeListNext)
      /\ poolIndex \in Nat /\ freeListHead \in Pointers /\ refs \in RefsKind /\ inUse \subseteq Blocks
  BY AtStep
<1>2. b \in InitialBlocks /\ poolAt[t].pc = "retract"
  BY <1>1, PlaceShape DEF Retract, Is
<1>3. /\ poolAt' = [poolAt EXCEPT ![t] = q]
      /\ freeListHead' = freeListHead /\ freeListNext' = freeListNext
      /\ inUse' = inUse /\ poolIndex' = poolIndex
  BY <1>1, <1>2, BothAre DEF Retract, GoTo, TakeBlock
<1>4. refs' = Remarked(refs, b, refs[b].count - 1)
  BY <1>2, BothAre, Zenon DEF Retract, Remarked
<1>5. q \in PoolPlaces /\ ReadsRight(q, freeListNext) /\ q.pc = "store" /\ q.node = b
  BY <1>1, <1>2, PlaceTurns DEF ReadsRight
<1>6. /\ ~Refers(q, b) /\ Links(q, b) /\ ~Pushes(q, b) /\ ~TakesBlock(q, b)
      /\ ~Refers(poolAt[t], b) /\ Links(poolAt[t], b) /\ Pushes(poolAt[t], b) /\ ~TakesBlock(poolAt[t], b)
  <2> HIDE DEF q
  <2>1. ~Refers(q, b) /\ Links(q, b) /\ ~Pushes(q, b) /\ ~TakesBlock(q, b)
    BY <1>5 DEF Refers, Links, Pushes, TakesBlock
  <2>2. ~Refers(poolAt[t], b) /\ Links(poolAt[t], b) /\ Pushes(poolAt[t], b) /\ ~TakesBlock(poolAt[t], b)
    BY <1>1, <1>2 DEF Refers, Links, Pushes, TakesBlock
  <2> QED BY <2>1, <2>2
<1>7. \A c \in InitialBlocks : c # b => Same(poolAt[t], q, c)
  <2> HIDE DEF q
  <2> QED BY <1>1, <1>2, <1>5 DEF Same, Refers, Links, Pushes, TakesBlock
<1> HIDE DEF q
<1>8. /\ refs[b].count \in Int /\ refs' \in RefsKind /\ refs'[b].count = refs[b].count - 1
      /\ b \in MarkedIn(refs') /\ \A c \in InitialBlocks : c # b => refs'[c] = refs[c]
  <2>1. refs \in RefsKind /\ b \in InitialBlocks
    BY <1>1, <1>2
  <2>2. refs[b].count \in Int
    BY <2>1, BothAre
  <2>3. PICK k \in Int : k = refs[b].count - 1
    BY <2>2
  <2>4. refs' = Remarked(refs, b, k)
    BY <1>4, <2>3
  <2>5. /\ Remarked(refs, b, k) \in RefsKind /\ Remarked(refs, b, k)[b].count = k
        /\ b \in MarkedIn(Remarked(refs, b, k))
        /\ \A c \in InitialBlocks : c # b => Remarked(refs, b, k)[c] = refs[c]
    BY <2>1, Remarking
  <2> QED BY <2>2, <2>3, <2>4, <2>5
<1>9. PICK list \in Seq(InitialBlocks) :
        /\ ListFrom(list, freeListHead, freeListNext)
        /\ \A c \in InitialBlocks : Sound(c, On(list), poolIndex, inUse, refs, poolAt)
  BY DEF PoolInductive, BlocksSound
<1>10. poolAt'[t] = q /\ \A u \in PoolThreads : u # t => poolAt'[u] = poolAt[u]
  BY <1>1, <1>3
<1>11. Referrers(poolAt', b) = Referrers(poolAt, b) /\ t \notin Referrers(poolAt, b)
  BY <1>6, <1>10 DEF Referrers
<1>12. Linkers(poolAt', b) = Linkers(poolAt, b) /\ t \in Linkers(poolAt, b)
  BY <1>6, <1>10 DEF Linkers
<1>13. Pushers(poolAt', b) = Pushers(poolAt, b) \ {t} /\ t \in Pushers(poolAt, b)
  BY <1>6, <1>10 DEF Pushers
<1>14. Takers(poolAt', b) = Takers(poolAt, b) /\ t \notin Takers(poolAt, b)
  BY <1>6, <1>10 DEF Takers
<1>15. /\ list \in Seq(InitialBlocks) /\ ListFrom(list, freeListHead', freeListNext)
       /\ \A c \in InitialBlocks : c # b => (c \in On(list) <=> c \in On(list))
  BY <1>3, <1>9
<1>16. Account(b, poolIndex, inUse, On(list), MarkedIn(refs'), refs[b].count - 1,
               Referrers(poolAt, b), Linkers(poolAt, b), Pushers(poolAt', b), Takers(poolAt, b))
  <2>1. Account(b, poolIndex, inUse, On(list), MarkedIn(refs), refs[b].count,
                Referrers(poolAt, b), Linkers(poolAt, b), Pushers(poolAt, b), Takers(poolAt, b))
    BY <1>2, <1>9 DEF Sound
  <2> QED BY <1>2, <1>8, <1>11, <1>12, <1>13, <1>14, <1>15, <2>1, ThreadsAbout, AccountRetract
<1>17. Sound(b, On(list), poolIndex', inUse', refs', poolAt')
  BY <1>3, <1>8, <1>11, <1>12, <1>13, <1>14, <1>16 DEF Sound
<1>18. \A c \in InitialBlocks :
         c # b => /\ Same(poolAt[t], q, c) /\ refs'[c] = refs[c]
                  /\ c \in inUse' <=> c \in inUse
                  /\ c > poolIndex' <=> c > poolIndex
  BY <1>1, <1>2, <1>3, <1>7, <1>8 DEF InitialBlocks
<1>19. freeListHead' \in Pointers /\ inUse' \subseteq Blocks /\ poolIndex' \in Nat
  BY <1>1, <1>2, <1>3, PlaceShape DEF Blocks, Pointers
<1> QED BY <1>1, <1>2, <1>3, <1>5, <1>8, <1>9, <1>15, <1>17, <1>18, <1>19, BlockStep

\* The swap failed and somebody references the node: it is left to them, marked.
LEMMA RetractLeaves ==
    ASSUME PoolInductive, NEW t \in PoolThreads, Retract(t), NEW b, b = poolAt[t].node, refs[b].count # 1
    PROVE  PoolInductive'
<1> DEFINE q == poolAt[t].then
<1>1. /\ PoolTyped /\ ReadsHold /\ DOMAIN poolAt = PoolThreads
      /\ poolAt[t] \in PoolPlaces /\ ReadsRight(poolAt[t], freeListNext)
      /\ poolIndex \in Nat /\ freeListHead \in Pointers /\ refs \in RefsKind /\ inUse \subseteq Blocks
  BY AtStep
<1>2. b \in InitialBlocks /\ poolAt[t].pc = "retract"
  BY <1>1, PlaceShape DEF Retract, Is
<1>3. /\ poolAt' = [poolAt EXCEPT ![t] = q]
      /\ freeListHead' = freeListHead /\ freeListNext' = freeListNext
      /\ inUse' = inUse /\ poolIndex' = poolIndex
  BY <1>1, <1>2, BothAre DEF Retract, GoTo, TakeBlock
<1>4. refs' = Remarked(refs, b, refs[b].count - 1)
  BY <1>2, BothAre, Zenon DEF Retract, Remarked
<1>5. q \in PoolPlaces /\ q.pc \in Idle /\ ReadsRight(q, freeListNext)
  <2>1. q \in Thens
    BY <1>1, <1>2, PlaceShape
  <2> HIDE DEF q
  <2> QED BY <2>1, ThensIdle, IdleFacts
<1>6. /\ ~Refers(q, b) /\ ~Links(q, b) /\ ~Pushes(q, b) /\ ~TakesBlock(q, b)
      /\ ~Refers(poolAt[t], b) /\ Links(poolAt[t], b) /\ Pushes(poolAt[t], b) /\ ~TakesBlock(poolAt[t], b)
  <2>1. ~Refers(q, b) /\ ~Links(q, b) /\ ~Pushes(q, b) /\ ~TakesBlock(q, b)
    BY <1>5, IdleFacts
  <2>2. ~Refers(poolAt[t], b) /\ Links(poolAt[t], b) /\ Pushes(poolAt[t], b) /\ ~TakesBlock(poolAt[t], b)
    BY <1>1, <1>2 DEF Refers, Links, Pushes, TakesBlock
  <2> QED BY <2>1, <2>2
<1>7. \A c \in InitialBlocks : c # b => Same(poolAt[t], q, c)
  <2>1. \A c \in InitialBlocks : ~Refers(q, c) /\ ~Links(q, c) /\ ~Pushes(q, c) /\ ~TakesBlock(q, c)
    BY <1>5, IdleFacts
  <2>2. \A c \in InitialBlocks :
          c # b => /\ ~Refers(poolAt[t], c) /\ ~Links(poolAt[t], c)
                   /\ ~Pushes(poolAt[t], c) /\ ~TakesBlock(poolAt[t], c)
    BY <1>1, <1>2 DEF Refers, Links, Pushes, TakesBlock
  <2> QED BY <2>1, <2>2 DEF Same
<1> HIDE DEF q
<1>8. /\ refs[b].count \in Int /\ refs' \in RefsKind /\ refs'[b].count = refs[b].count - 1
      /\ b \in MarkedIn(refs') /\ \A c \in InitialBlocks : c # b => refs'[c] = refs[c]
  <2>1. refs \in RefsKind /\ b \in InitialBlocks
    BY <1>1, <1>2
  <2>2. refs[b].count \in Int
    BY <2>1, BothAre
  <2>3. PICK k \in Int : k = refs[b].count - 1
    BY <2>2
  <2>4. refs' = Remarked(refs, b, k)
    BY <1>4, <2>3
  <2>5. /\ Remarked(refs, b, k) \in RefsKind /\ Remarked(refs, b, k)[b].count = k
        /\ b \in MarkedIn(Remarked(refs, b, k))
        /\ \A c \in InitialBlocks : c # b => Remarked(refs, b, k)[c] = refs[c]
    BY <2>1, Remarking
  <2> QED BY <2>2, <2>3, <2>4, <2>5
<1>9. PICK list \in Seq(InitialBlocks) :
        /\ ListFrom(list, freeListHead, freeListNext)
        /\ \A c \in InitialBlocks : Sound(c, On(list), poolIndex, inUse, refs, poolAt)
  BY DEF PoolInductive, BlocksSound
<1>10. poolAt'[t] = q /\ \A u \in PoolThreads : u # t => poolAt'[u] = poolAt[u]
  BY <1>1, <1>3
<1>11. Referrers(poolAt', b) = Referrers(poolAt, b) /\ t \notin Referrers(poolAt, b)
  BY <1>6, <1>10 DEF Referrers
<1>12. Linkers(poolAt', b) = Linkers(poolAt, b) \ {t} /\ t \in Linkers(poolAt, b)
  BY <1>6, <1>10 DEF Linkers
<1>13. Pushers(poolAt', b) = Pushers(poolAt, b) \ {t} /\ t \in Pushers(poolAt, b)
  BY <1>6, <1>10 DEF Pushers
<1>14. Takers(poolAt', b) = Takers(poolAt, b) /\ t \notin Takers(poolAt, b)
  BY <1>6, <1>10 DEF Takers
<1>15. /\ list \in Seq(InitialBlocks) /\ ListFrom(list, freeListHead', freeListNext)
       /\ \A c \in InitialBlocks : c # b => (c \in On(list) <=> c \in On(list))
  BY <1>3, <1>9
<1>16. Account(b, poolIndex, inUse, On(list), MarkedIn(refs'), refs[b].count - 1,
               Referrers(poolAt, b), Linkers(poolAt', b), Pushers(poolAt', b), Takers(poolAt, b))
  <2>1. Account(b, poolIndex, inUse, On(list), MarkedIn(refs), refs[b].count,
                Referrers(poolAt, b), Linkers(poolAt, b), Pushers(poolAt, b), Takers(poolAt, b))
    BY <1>2, <1>9 DEF Sound
  <2> QED BY <1>2, <1>8, <1>11, <1>12, <1>13, <1>14, <1>15, <2>1, ThreadsAbout, AccountLeave
<1>17. Sound(b, On(list), poolIndex', inUse', refs', poolAt')
  BY <1>3, <1>8, <1>11, <1>12, <1>13, <1>14, <1>16 DEF Sound
<1>18. \A c \in InitialBlocks :
         c # b => /\ Same(poolAt[t], q, c) /\ refs'[c] = refs[c]
                  /\ c \in inUse' <=> c \in inUse
                  /\ c > poolIndex' <=> c > poolIndex
  BY <1>1, <1>2, <1>3, <1>7, <1>8 DEF InitialBlocks
<1>19. freeListHead' \in Pointers /\ inUse' \subseteq Blocks /\ poolIndex' \in Nat
  BY <1>1, <1>2, <1>3, PlaceShape DEF Blocks, Pointers
<1> QED BY <1>1, <1>2, <1>3, <1>5, <1>8, <1>9, <1>15, <1>17, <1>18, <1>19, BlockStep

\* The counter hands out the next block of the pool.
LEMMA HandedOut ==
    ASSUME PoolInductive, NEW t \in PoolThreads, TryGetFromInitialPool(t), NEW b, b = poolIndex + 1, poolIndex < PoolSize
    PROVE  PoolInductive'
<1> DEFINE q == OutsidePool
<1>1. /\ PoolTyped /\ ReadsHold /\ DOMAIN poolAt = PoolThreads
      /\ poolAt[t] \in PoolPlaces /\ ReadsRight(poolAt[t], freeListNext)
      /\ poolIndex \in Nat /\ freeListHead \in Pointers /\ refs \in RefsKind /\ inUse \subseteq Blocks
  BY AtStep
<1>2. b \in InitialBlocks /\ poolAt[t].pc = "initial"
  BY <1>1, PoolAssumption DEF TryGetFromInitialPool, Is, InitialBlocks
<1>3. /\ poolAt' = [poolAt EXCEPT ![t] = q]
      /\ freeListHead' = freeListHead /\ freeListNext' = freeListNext
      /\ inUse' = inUse \cup {b} /\ poolIndex' = poolIndex + 1
  BY <1>1, <1>2 DEF TryGetFromInitialPool, GoTo, TakeBlock
<1>4. refs' = refs
  BY <1>1, <1>2 DEF TryGetFromInitialPool
<1>5. q \in PoolPlaces /\ ReadsRight(q, freeListNext)
  BY <1>1, <1>2, ThensIdle, IdleFacts DEF PoolPlaces, Thens, ReadsRight, OutsidePool
<1>6. /\ ~Refers(q, b) /\ ~Links(q, b) /\ ~Pushes(q, b) /\ ~TakesBlock(q, b)
      /\ ~Refers(poolAt[t], b) /\ ~Links(poolAt[t], b) /\ ~Pushes(poolAt[t], b) /\ ~TakesBlock(poolAt[t], b)
  BY <1>1, <1>2 DEF Refers, Links, Pushes, TakesBlock, OutsidePool
<1>7. \A c \in InitialBlocks : c # b => Same(poolAt[t], q, c)
  BY <1>1, <1>2 DEF Same, Refers, Links, Pushes, TakesBlock, OutsidePool
<1> HIDE DEF q
<1>8. /\ refs[b].count \in Int /\ refs' \in RefsKind /\ refs'[b].count = refs[b].count
      /\ MarkedIn(refs') = MarkedIn(refs) /\ \A c \in InitialBlocks : c # b => refs'[c] = refs[c]
  BY <1>1, <1>2, <1>4, BothAre
<1>9. PICK list \in Seq(InitialBlocks) :
        /\ ListFrom(list, freeListHead, freeListNext)
        /\ \A c \in InitialBlocks : Sound(c, On(list), poolIndex, inUse, refs, poolAt)
  BY DEF PoolInductive, BlocksSound
<1>10. poolAt'[t] = q /\ \A u \in PoolThreads : u # t => poolAt'[u] = poolAt[u]
  BY <1>1, <1>3
<1>11. Referrers(poolAt', b) = Referrers(poolAt, b) /\ t \notin Referrers(poolAt, b)
  BY <1>6, <1>10 DEF Referrers
<1>12. Linkers(poolAt', b) = Linkers(poolAt, b) /\ t \notin Linkers(poolAt, b)
  BY <1>6, <1>10 DEF Linkers
<1>13. Pushers(poolAt', b) = Pushers(poolAt, b) /\ t \notin Pushers(poolAt, b)
  BY <1>6, <1>10 DEF Pushers
<1>14. Takers(poolAt', b) = Takers(poolAt, b) /\ t \notin Takers(poolAt, b)
  BY <1>6, <1>10 DEF Takers
<1>15. /\ list \in Seq(InitialBlocks) /\ ListFrom(list, freeListHead', freeListNext)
       /\ \A c \in InitialBlocks : c # b => (c \in On(list) <=> c \in On(list))
  BY <1>3, <1>9
<1>16. Account(b, poolIndex', inUse', On(list), MarkedIn(refs), refs[b].count,
               Referrers(poolAt, b), Linkers(poolAt, b), Pushers(poolAt, b), Takers(poolAt, b))
  <2>1. Account(b, poolIndex, inUse, On(list), MarkedIn(refs), refs[b].count,
                Referrers(poolAt, b), Linkers(poolAt, b), Pushers(poolAt, b), Takers(poolAt, b))
    BY <1>2, <1>9 DEF Sound
  <2>2. b > poolIndex /\ ~(b > poolIndex') /\ b \in inUse'
    BY <1>1, <1>3
  <2> QED BY <1>2, <1>8, <1>11, <1>12, <1>13, <1>14, <1>15, <2>1, ThreadsAbout, <2>2, AccountHandedOut
<1>17. Sound(b, On(list), poolIndex', inUse', refs', poolAt')
  BY <1>3, <1>8, <1>11, <1>12, <1>13, <1>14, <1>16 DEF Sound
<1>18. \A c \in InitialBlocks :
         c # b => /\ Same(poolAt[t], q, c) /\ refs'[c] = refs[c]
                  /\ c \in inUse' <=> c \in inUse
                  /\ c > poolIndex' <=> c > poolIndex
  BY <1>1, <1>2, <1>3, <1>7, <1>8 DEF InitialBlocks
<1>19. freeListHead' \in Pointers /\ inUse' \subseteq Blocks /\ poolIndex' \in Nat
  BY <1>1, <1>2, <1>3, PlaceShape DEF Blocks, Pointers
<1> QED BY <1>1, <1>2, <1>3, <1>5, <1>8, <1>9, <1>15, <1>17, <1>18, <1>19, BlockStep

\* Others have passed the test before the counter overshot.
LEMMA PoolUsedUp ==
    ASSUME PoolInductive, NEW t \in PoolThreads, TryGetFromInitialPool(t), ~(poolIndex < PoolSize)
    PROVE  PoolInductive'
<1> DEFINE q == Load
<1>1. /\ poolAt[t] \in PoolPlaces /\ ReadsRight(poolAt[t], freeListNext)
      /\ poolIndex \in Nat /\ freeListHead \in Pointers /\ refs \in RefsKind /\ inUse \subseteq Blocks
      /\ DOMAIN poolAt = PoolThreads /\ freeListNext \in [InitialBlocks -> Pointers]
  BY AtStep
<1>2. /\ poolAt' = [poolAt EXCEPT ![t] = q]
      /\ freeListHead' = freeListHead /\ freeListNext' = freeListNext /\ refs' = refs
      /\ inUse' \subseteq Blocks /\ \A c \in InitialBlocks : c \in inUse' <=> c \in inUse
      /\ poolIndex' \in Nat /\ \A c \in InitialBlocks : c > poolIndex' <=> c > poolIndex
  BY <1>1, PoolAssumption DEF TryGetFromInitialPool, GoTo, InitialBlocks
<1>3. q \in PoolPlaces /\ ReadsRight(q, freeListNext) /\ q.pc \in Idle
  BY <1>1, LookAtThens, ThensIdle, IdleFacts DEF Thens
<1>4. \A c \in InitialBlocks : Same(poolAt[t], q, c)
  <2>1. poolAt[t].pc \in Idle
    BY DEF TryGetFromInitialPool, Is, Idle
  <2> HIDE DEF q
  <2> QED BY <1>3, <2>1, IdleFacts DEF Same
<1> HIDE DEF q
<1> QED BY <1>2, <1>3, <1>4, PlainStep

\* No block is made.
LEMMA NothingMade ==
    ASSUME PoolInductive, NEW t \in PoolThreads, Create(t), inUse' = inUse
    PROVE  PoolInductive'
<1> DEFINE q == OutsidePool
<1>1. /\ poolAt[t] \in PoolPlaces /\ ReadsRight(poolAt[t], freeListNext)
      /\ poolIndex \in Nat /\ freeListHead \in Pointers /\ refs \in RefsKind /\ inUse \subseteq Blocks
      /\ DOMAIN poolAt = PoolThreads /\ freeListNext \in [InitialBlocks -> Pointers]
  BY AtStep
<1>2. /\ poolAt' = [poolAt EXCEPT ![t] = q]
      /\ freeListHead' = freeListHead /\ freeListNext' = freeListNext /\ refs' = refs
      /\ inUse' \subseteq Blocks /\ \A c \in InitialBlocks : c \in inUse' <=> c \in inUse
      /\ poolIndex' \in Nat /\ \A c \in InitialBlocks : c > poolIndex' <=> c > poolIndex
  BY <1>1 DEF Create, GoTo, TakeBlock
<1>3. q \in PoolPlaces /\ ReadsRight(q, freeListNext) /\ q.pc \in Idle
  BY <1>1, LookAtThens, ThensIdle, IdleFacts DEF Thens
<1>4. \A c \in InitialBlocks : Same(poolAt[t], q, c)
  <2>1. poolAt[t].pc \in Idle
    BY DEF Create, Is, Idle
  <2> HIDE DEF q
  <2> QED BY <1>3, <2>1, IdleFacts DEF Same
<1> HIDE DEF q
<1> QED BY <1>2, <1>3, <1>4, PlainStep

\* A block of the heap is made.
LEMMA OneMade ==
    ASSUME PoolInductive, NEW t \in PoolThreads, Create(t), NEW b \in HeapBlocks, inUse' = inUse \cup {b}
    PROVE  PoolInductive'
<1> DEFINE q == OutsidePool
<1>1. /\ poolAt[t] \in PoolPlaces /\ ReadsRight(poolAt[t], freeListNext)
      /\ poolIndex \in Nat /\ freeListHead \in Pointers /\ refs \in RefsKind /\ inUse \subseteq Blocks
      /\ DOMAIN poolAt = PoolThreads /\ freeListNext \in [InitialBlocks -> Pointers]
  BY AtStep
<1>2. /\ poolAt' = [poolAt EXCEPT ![t] = q]
      /\ freeListHead' = freeListHead /\ freeListNext' = freeListNext /\ refs' = refs
      /\ inUse' \subseteq Blocks /\ \A c \in InitialBlocks : c \in inUse' <=> c \in inUse
      /\ poolIndex' \in Nat /\ \A c \in InitialBlocks : c > poolIndex' <=> c > poolIndex
  BY <1>1, OfThePool DEF Create, GoTo, TakeBlock, Blocks
<1>3. q \in PoolPlaces /\ ReadsRight(q, freeListNext) /\ q.pc \in Idle
  BY <1>1, LookAtThens, ThensIdle, IdleFacts DEF Thens
<1>4. \A c \in InitialBlocks : Same(poolAt[t], q, c)
  <2>1. poolAt[t].pc \in Idle
    BY DEF Create, Is, Idle
  <2> HIDE DEF q
  <2> QED BY <1>3, <2>1, IdleFacts DEF Same
<1> HIDE DEF q
<1> QED BY <1>2, <1>3, <1>4, PlainStep

\* A look at the head.
LEMMA LoadHeadKeeps ==
    ASSUME PoolInductive, NEW t \in PoolThreads, LoadHead(t)
    PROVE  PoolInductive'
<1> DEFINE q == LookAt(freeListHead)
<1>1. /\ poolAt[t] \in PoolPlaces /\ ReadsRight(poolAt[t], freeListNext)
      /\ poolIndex \in Nat /\ freeListHead \in Pointers /\ refs \in RefsKind /\ inUse \subseteq Blocks
      /\ DOMAIN poolAt = PoolThreads /\ freeListNext \in [InitialBlocks -> Pointers]
  BY AtStep
<1>2. /\ poolAt' = [poolAt EXCEPT ![t] = q]
      /\ freeListHead' = freeListHead /\ freeListNext' = freeListNext /\ refs' = refs
      /\ inUse' \subseteq Blocks /\ \A c \in InitialBlocks : c \in inUse' <=> c \in inUse
      /\ poolIndex' \in Nat /\ \A c \in InitialBlocks : c > poolIndex' <=> c > poolIndex
  BY <1>1 DEF LoadHead, GoTo
<1>3. q \in PoolPlaces /\ ReadsRight(q, freeListNext) /\ q.pc \in Idle
  BY <1>1, LookAtThens, ThensIdle, IdleFacts DEF Thens
<1>4. \A c \in InitialBlocks : Same(poolAt[t], q, c)
  <2>1. poolAt[t].pc \in Idle
    BY DEF LoadHead, Is, Idle
  <2> HIDE DEF q
  <2> QED BY <1>3, <2>1, IdleFacts DEF Same
<1> HIDE DEF q
<1> QED BY <1>2, <1>3, <1>4, PlainStep

\* A node that nobody references may be about to change.
LEMMA ReferenceAgain ==
    ASSUME PoolInductive, NEW t \in PoolThreads, Reference(t), refs[poolAt[t].head].count = 0
    PROVE  PoolInductive'
<1> DEFINE q == Load
<1>1. /\ poolAt[t] \in PoolPlaces /\ ReadsRight(poolAt[t], freeListNext)
      /\ poolIndex \in Nat /\ freeListHead \in Pointers /\ refs \in RefsKind /\ inUse \subseteq Blocks
      /\ DOMAIN poolAt = PoolThreads /\ freeListNext \in [InitialBlocks -> Pointers]
  BY AtStep
<1>2. /\ poolAt' = [poolAt EXCEPT ![t] = q]
      /\ freeListHead' = freeListHead /\ freeListNext' = freeListNext /\ refs' = refs
      /\ inUse' \subseteq Blocks /\ \A c \in InitialBlocks : c \in inUse' <=> c \in inUse
      /\ poolIndex' \in Nat /\ \A c \in InitialBlocks : c > poolIndex' <=> c > poolIndex
  BY <1>1 DEF Reference, GoTo
<1>3. q \in PoolPlaces /\ ReadsRight(q, freeListNext) /\ q.pc \in Idle
  BY <1>1, LookAtThens, ThensIdle, IdleFacts DEF Thens
<1>4. \A c \in InitialBlocks : Same(poolAt[t], q, c)
  <2>1. poolAt[t].pc \in Idle
    BY DEF Reference, Is, Idle
  <2> HIDE DEF q
  <2> QED BY <1>3, <2>1, IdleFacts DEF Same
<1> HIDE DEF q
<1> QED BY <1>2, <1>3, <1>4, PlainStep

\* The successor of a node that this thread references.
LEMMA ReadNextKeeps ==
    ASSUME PoolInductive, NEW t \in PoolThreads, ReadNext(t)
    PROVE  PoolInductive'
<1> DEFINE q == [pc |-> "swap", head |-> poolAt[t].head, next |-> freeListNext[poolAt[t].head]]
<1>1. /\ poolAt[t] \in PoolPlaces /\ ReadsRight(poolAt[t], freeListNext)
      /\ poolIndex \in Nat /\ freeListHead \in Pointers /\ refs \in RefsKind /\ inUse \subseteq Blocks
      /\ DOMAIN poolAt = PoolThreads /\ freeListNext \in [InitialBlocks -> Pointers]
  BY AtStep
<1>5. poolAt[t].pc = "next" /\ poolAt[t].head \in InitialBlocks
  BY <1>1, PlaceShape DEF ReadNext, Is
<1>2. /\ poolAt' = [poolAt EXCEPT ![t] = q]
      /\ freeListHead' = freeListHead /\ freeListNext' = freeListNext /\ refs' = refs
      /\ inUse' \subseteq Blocks /\ \A c \in InitialBlocks : c \in inUse' <=> c \in inUse
      /\ poolIndex' \in Nat /\ \A c \in InitialBlocks : c > poolIndex' <=> c > poolIndex
  BY <1>1 DEF ReadNext, GoTo
<1>3. q \in PoolPlaces /\ ReadsRight(q, freeListNext)
  BY <1>1, <1>5 DEF PoolPlaces, ReadsRight, Pointers
<1>4. \A c \in InitialBlocks : Same(poolAt[t], q, c)
  BY <1>1, <1>5 DEF Same, Refers, Links, Pushes, TakesBlock
<1> HIDE DEF q
<1> QED BY <1>2, <1>3, <1>4, PlainStep

\* The head is another one by now.
LEMMA SwapFails ==
    ASSUME PoolInductive, NEW t \in PoolThreads, SwapHead(t), freeListHead # poolAt[t].head
    PROVE  PoolInductive'
<1> DEFINE q == [pc |-> "unreference", head |-> poolAt[t].head, seen |-> freeListHead]
<1>1. /\ poolAt[t] \in PoolPlaces /\ ReadsRight(poolAt[t], freeListNext)
      /\ poolIndex \in Nat /\ freeListHead \in Pointers /\ refs \in RefsKind /\ inUse \subseteq Blocks
      /\ DOMAIN poolAt = PoolThreads /\ freeListNext \in [InitialBlocks -> Pointers]
  BY AtStep
<1>5. poolAt[t].pc = "swap" /\ poolAt[t].head \in InitialBlocks
  BY <1>1, PlaceShape DEF SwapHead, Is
<1>2. /\ poolAt' = [poolAt EXCEPT ![t] = q]
      /\ freeListHead' = freeListHead /\ freeListNext' = freeListNext /\ refs' = refs
      /\ inUse' \subseteq Blocks /\ \A c \in InitialBlocks : c \in inUse' <=> c \in inUse
      /\ poolIndex' \in Nat /\ \A c \in InitialBlocks : c > poolIndex' <=> c > poolIndex
  BY <1>1 DEF SwapHead, GoTo
<1>3. q \in PoolPlaces /\ ReadsRight(q, freeListNext)
  BY <1>1, <1>5 DEF PoolPlaces, ReadsRight, Pointers
<1>4. \A c \in InitialBlocks : Same(poolAt[t], q, c)
  BY <1>1, <1>5 DEF Same, Refers, Links, Pushes, TakesBlock
<1> HIDE DEF q
<1> QED BY <1>2, <1>3, <1>4, PlainStep

\* A block of the heap is freed.
LEMMA HeapBlockFreed ==
    ASSUME PoolInductive, NEW t \in PoolThreads, NEW b \in HeapBlocks, AddBlock(t, b)
    PROVE  PoolInductive'
<1> DEFINE q == poolAt[t]
<1>1. /\ poolAt[t] \in PoolPlaces /\ ReadsRight(poolAt[t], freeListNext)
      /\ poolIndex \in Nat /\ freeListHead \in Pointers /\ refs \in RefsKind /\ inUse \subseteq Blocks
      /\ DOMAIN poolAt = PoolThreads /\ freeListNext \in [InitialBlocks -> Pointers]
  BY AtStep
<1>2. /\ poolAt' = [poolAt EXCEPT ![t] = q]
      /\ freeListHead' = freeListHead /\ freeListNext' = freeListNext /\ refs' = refs
      /\ inUse' \subseteq Blocks /\ \A c \in InitialBlocks : c \in inUse' <=> c \in inUse
      /\ poolIndex' \in Nat /\ \A c \in InitialBlocks : c > poolIndex' <=> c > poolIndex
  <2>1. poolAt = [poolAt EXCEPT ![t] = poolAt[t]]
    BY DEF PoolInductive, PoolTyped
  <2>2. poolAt' = poolAt /\ refs' = refs /\ inUse' = inUse \ {b}
    BY DEF AddBlock
  <2>3. freeListHead' = freeListHead /\ freeListNext' = freeListNext /\ poolIndex' = poolIndex
    BY DEF AddBlock
  <2>4. \A c \in InitialBlocks : c \in inUse' <=> c \in inUse
    BY <2>2, OfThePool
  <2> QED BY <1>1, <2>1, <2>2, <2>3, <2>4
<1>3. q \in PoolPlaces /\ ReadsRight(q, freeListNext)
  BY <1>1
<1>4. \A c \in InitialBlocks : Same(poolAt[t], q, c)
  BY DEF Same
<1> HIDE DEF q
<1> QED BY <1>2, <1>3, <1>4, PlainStep

\* The linker looks at the head.
LEMMA LinkKeeps ==
    ASSUME PoolInductive, NEW t \in PoolThreads, Link(t)
    PROVE  PoolInductive'
<1> DEFINE q == [pc |-> "store", node |-> poolAt[t].node, then |-> poolAt[t].then, seen |-> freeListHead]
<1>1. /\ poolAt[t] \in PoolPlaces /\ ReadsRight(poolAt[t], freeListNext)
      /\ poolIndex \in Nat /\ freeListHead \in Pointers /\ refs \in RefsKind /\ inUse \subseteq Blocks
      /\ DOMAIN poolAt = PoolThreads /\ freeListNext \in [InitialBlocks -> Pointers]
  BY AtStep
<1>5. poolAt[t].pc = "link" /\ poolAt[t].node \in InitialBlocks
  BY <1>1, PlaceShape DEF Link, Is
<1>2. /\ poolAt' = [poolAt EXCEPT ![t] = q]
      /\ freeListHead' = freeListHead /\ freeListNext' = freeListNext /\ refs' = refs
      /\ inUse' \subseteq Blocks /\ \A c \in InitialBlocks : c \in inUse' <=> c \in inUse
      /\ poolIndex' \in Nat /\ \A c \in InitialBlocks : c > poolIndex' <=> c > poolIndex
  BY <1>1 DEF Link, GoTo
<1>3. q \in PoolPlaces /\ ReadsRight(q, freeListNext)
  BY <1>1, <1>5, PlaceShape DEF PoolPlaces, ReadsRight
<1>4. \A c \in InitialBlocks : Same(poolAt[t], q, c)
  BY <1>1, <1>5 DEF Same, Refers, Links, Pushes, TakesBlock
<1> HIDE DEF q
<1> QED BY <1>2, <1>3, <1>4, PlainStep

\* The head is another one by now.
LEMMA PushFails ==
    ASSUME PoolInductive, NEW t \in PoolThreads, PushHead(t), freeListHead # poolAt[t].seen
    PROVE  PoolInductive'
<1> DEFINE q == [poolAt[t] EXCEPT !.pc = "retract", !.seen = freeListHead]
<1>1. /\ poolAt[t] \in PoolPlaces /\ ReadsRight(poolAt[t], freeListNext)
      /\ poolIndex \in Nat /\ freeListHead \in Pointers /\ refs \in RefsKind /\ inUse \subseteq Blocks
      /\ DOMAIN poolAt = PoolThreads /\ freeListNext \in [InitialBlocks -> Pointers]
  BY AtStep
<1>5. poolAt[t].pc = "push" /\ poolAt[t].node \in InitialBlocks
  BY <1>1, PlaceShape DEF PushHead, Is
<1>2. /\ poolAt' = [poolAt EXCEPT ![t] = q]
      /\ freeListHead' = freeListHead /\ freeListNext' = freeListNext /\ refs' = refs
      /\ inUse' \subseteq Blocks /\ \A c \in InitialBlocks : c \in inUse' <=> c \in inUse
      /\ poolIndex' \in Nat /\ \A c \in InitialBlocks : c > poolIndex' <=> c > poolIndex
  BY <1>1 DEF PushHead, GoTo
<1>3. q \in PoolPlaces /\ ReadsRight(q, freeListNext)
  BY <1>1, <1>5, PlaceTurns DEF ReadsRight
<1>4. \A c \in InitialBlocks : Same(poolAt[t], q, c)
  <2>1. q.pc = "retract" /\ q.node = poolAt[t].node
    BY <1>1, <1>5 DEF PoolPlaces, Thens, OutsidePool, Load
  <2> HIDE DEF q
  <2> QED BY <1>1, <1>5, <2>1 DEF Same, Refers, Links, Pushes, TakesBlock
<1> HIDE DEF q
<1> QED BY <1>2, <1>3, <1>4, PlainStep

\* The linker stores the successor of a node that only it knows.
LEMMA StoreNextKeeps ==
    ASSUME PoolInductive, NEW t \in PoolThreads, StoreNext(t)
    PROVE  PoolInductive'
<1> DEFINE q == [poolAt[t] EXCEPT !.pc = "publish"]
<1>1. /\ poolAt[t] \in PoolPlaces /\ ReadsHold /\ poolAt \in [PoolThreads -> PoolPlaces]
      /\ freeListNext \in [InitialBlocks -> Pointers]
  BY DEF PoolInductive, PoolTyped
<1>2. PICK b : b = poolAt[t].node
  OBVIOUS
<1>3. poolAt[t].pc = "store" /\ b \in InitialBlocks /\ poolAt[t].seen \in Pointers
  BY <1>1, <1>2, PlaceShape DEF StoreNext, Is
<1>4. /\ poolAt' = [poolAt EXCEPT ![t] = q]
      /\ freeListNext' = [freeListNext EXCEPT ![b] = poolAt[t].seen]
      /\ poolIndex' = poolIndex /\ freeListHead' = freeListHead /\ refs' = refs /\ inUse' = inUse
  BY <1>2 DEF StoreNext, GoTo
<1>5. q \in PoolPlaces /\ q.pc = "publish" /\ q.node = b /\ q.seen = poolAt[t].seen
  BY <1>1, <1>2, <1>3, PlaceTurns
<1> HIDE DEF q
<1>6. \A c \in InitialBlocks : Same(poolAt[t], q, c)
  BY <1>2, <1>3, <1>5 DEF Same, Refers, Links, Pushes, TakesBlock
<1>7. PICK list \in Seq(InitialBlocks) :
        /\ ListFrom(list, freeListHead, freeListNext)
        /\ \A c \in InitialBlocks : Sound(c, On(list), poolIndex, inUse, refs, poolAt)
  BY DEF PoolInductive, BlocksSound
<1>8. Account(b, poolIndex, inUse, On(list), MarkedIn(refs), refs[b].count,
              Referrers(poolAt, b), Linkers(poolAt, b), Pushers(poolAt, b), Takers(poolAt, b))
  BY <1>3, <1>7 DEF Sound
<1>9. t \in Linkers(poolAt, b) /\ t \notin Pushers(poolAt, b)
  BY <1>2, <1>3 DEF Linkers, Pushers, Links, Pushes
<1>10. b \notin On(list) /\ Referrers(poolAt, b) = {} /\ \A u \in Linkers(poolAt, b) : u = t
  <2>1. Linkers(poolAt, b) \ Pushers(poolAt, b) # {}
    BY <1>9
  <2>2. refs[b].count = 0 /\ b \in MarkedIn(refs)
    BY <1>8, <2>1 DEF Account
  <2>3. b \notin On(list) /\ Pushers(poolAt, b) = {}
    BY <1>8, <2>2 DEF Account
  <2>4. refs[b].count = Cardinality(Referrers(poolAt, b)) + Cardinality(Takers(poolAt, b)) + 0
    BY <1>8, <2>3 DEF Account
  <2>5. /\ Cardinality(Referrers(poolAt, b)) \in Nat /\ Cardinality(Takers(poolAt, b)) \in Nat
        /\ Cardinality(Referrers(poolAt, b)) = 0 <=> Referrers(poolAt, b) = {}
    BY ThreadsAbout, Counting
  <2>6. Referrers(poolAt, b) = {}
    BY <2>2, <2>4, <2>5
  <2>7. \A u \in Linkers(poolAt, b) : u = t
    BY <1>8, <1>9 DEF Account
  <2> QED BY <2>3, <2>6, <2>7
<1>11. ReadsHold'
  <2> SUFFICES ASSUME NEW u \in PoolThreads
               PROVE  ReadsRight(poolAt'[u], freeListNext')
    BY DEF ReadsHold
  <2>1. CASE u = t
    <3>1. poolAt'[u] = q /\ freeListNext'[b] = poolAt[t].seen
      BY <1>1, <1>3, <1>4, <2>1
    <3> QED BY <1>5, <3>1 DEF ReadsRight
  <2>2. CASE u # t
    <3>1. poolAt'[u] = poolAt[u] /\ ReadsRight(poolAt[u], freeListNext) /\ poolAt[u] \in PoolPlaces
      BY <1>1, <1>4, <2>2 DEF ReadsHold
    <3>2. \A c \in InitialBlocks : c # b => freeListNext'[c] = freeListNext[c]
      BY <1>1, <1>4
    <3>3. ~Refers(poolAt[u], b) /\ ~Links(poolAt[u], b)
      BY <1>10, <2>2 DEF Referrers, Linkers
    <3>4. poolAt[u].pc = "swap" => poolAt[u].head \in InitialBlocks /\ poolAt[u].head # b
      BY <3>1, <3>3, PlaceShape DEF Refers
    <3>5. poolAt[u].pc \in {"publish", "push"} => poolAt[u].node \in InitialBlocks /\ poolAt[u].node # b
      BY <3>1, <3>3, PlaceShape DEF Links
    <3> QED BY <3>1, <3>2, <3>4, <3>5 DEF ReadsRight
  <2> QED BY <2>1, <2>2
<1>12. ListFrom(list, freeListHead', freeListNext')
  <2>1. \A c \in InitialBlocks : c # b => freeListNext'[c] = freeListNext[c]
    BY <1>1, <1>4
  <2> QED BY <1>4, <1>7, <1>10, <2>1, ListStore
<1>13. ASSUME NEW c \in InitialBlocks
       PROVE  Sound(c, On(list), poolIndex', inUse', refs', poolAt')
  <2>1. \A u \in PoolThreads : Same(poolAt[u], poolAt'[u], c)
    BY <1>1, <1>4, <1>6 DEF Same
  <2>2. Alike(c, On(list), poolIndex, inUse, refs, poolAt, On(list), poolIndex', inUse', refs', poolAt')
    BY <1>4, <2>1 DEF Alike
  <2>3. Sound(c, On(list), poolIndex, inUse, refs, poolAt)
    BY <1>7
  <2> QED BY <2>2, <2>3, SoundKept
<1>14. PoolTyped'
  <2>1. PoolTyped
    BY DEF PoolInductive
  <2> QED BY <1>1, <1>3, <1>4, <1>5, <2>1 DEF PoolTyped
<1>15. BlocksSound'
  BY <1>7, <1>12, <1>13 DEF BlocksSound
<1> QED BY <1>11, <1>14, <1>15 DEF PoolInductive

\* What is being pushed is not marked.
LEMMA PushedNotMarked ==
    ASSUME PoolInductive, NEW t \in PoolThreads, poolAt[t].pc \in {"push", "retract"},
           NEW b \in InitialBlocks, b = poolAt[t].node
    PROVE  b \notin MarkedIn(refs)
<1>1. PICK list \in Seq(InitialBlocks) :
        \A c \in InitialBlocks : Sound(c, On(list), poolIndex, inUse, refs, poolAt)
  BY DEF PoolInductive, BlocksSound
<1>2. Account(b, poolIndex, inUse, On(list), MarkedIn(refs), refs[b].count,
              Referrers(poolAt, b), Linkers(poolAt, b), Pushers(poolAt, b), Takers(poolAt, b))
  BY <1>1 DEF Sound
<1>3. t \in Pushers(poolAt, b)
  BY DEF Pushers, Pushes
<1> QED BY <1>2, <1>3 DEF Account

-----------------------------------------------------------------------------
(***************************************************************************)
(* The behaviour.                                                          *)
(***************************************************************************)

LEMMA PoolInitInductive == PoolInit => PoolInductive
<1> SUFFICES ASSUME PoolInit
             PROVE  PoolInductive
  OBVIOUS
<1>1. \A t \in PoolThreads : poolAt[t] = OutsidePool /\ poolAt[t].pc \in Idle
  BY DEF PoolInit, OutsidePool, Idle
<1>2. PoolTyped
  <2>1. OutsidePool \in PoolPlaces
    BY DEF PoolPlaces, Thens
  <2> QED BY <2>1 DEF PoolInit, PoolTyped, Pointers, RefsKind
<1>3. ReadsHold
  BY <1>1, IdleFacts DEF ReadsHold
<1>4. ListFrom(<<>>, freeListHead, freeListNext) /\ On(<<>>) = {}
  BY DEF ListFrom, On, PoolInit
<1>5. ASSUME NEW b \in InitialBlocks
      PROVE  Sound(b, On(<<>>), poolIndex, inUse, refs, poolAt)
  <2>1. /\ Referrers(poolAt, b) = {} /\ Linkers(poolAt, b) = {}
        /\ Pushers(poolAt, b) = {} /\ Takers(poolAt, b) = {}
    BY <1>1, IdleFacts DEF Referrers, Linkers, Pushers, Takers
  <2>2. b \notin MarkedIn(refs) /\ refs[b].count = 0
    BY DEF MarkedIn, PoolInit
  <2>3. b > poolIndex /\ b \notin inUse
    BY PoolAssumption DEF PoolInit, InitialBlocks
  <2>4. Cardinality({}) = 0
    BY FS_EmptySet
  <2>5. Account(b, poolIndex, inUse, {}, MarkedIn(refs), 0, {}, {}, {}, {})
    BY <2>2, <2>3, <2>4 DEF Account
  <2> QED BY <1>4, <2>1, <2>2, <2>5 DEF Sound
<1>6. BlocksSound
  <2>1. <<>> \in Seq(InitialBlocks)
    OBVIOUS
  <2> QED BY <1>4, <1>5, <2>1 DEF BlocksSound
<1> QED BY <1>2, <1>3, <1>6 DEF PoolInductive

LEMMA PoolStepInductive ==
    ASSUME PoolInductive, NEW t \in PoolThreads, PoolStep(t)
    PROVE  PoolInductive'
<1>0. poolAt[t] \in PoolPlaces /\ refs \in RefsKind
  BY AtStep
<1>1. CASE Requisition(t)
  BY <1>1, RequisitionKeeps
<1>2. CASE TryGetFromInitialPool(t)
  <2>1. CASE poolIndex < PoolSize
    BY <1>2, <2>1, HandedOut
  <2>2. CASE ~(poolIndex < PoolSize)
    BY <1>2, <2>2, PoolUsedUp
  <2> QED BY <2>1, <2>2
<1>3. CASE Create(t)
  <2>1. inUse' = inUse \/ \E b \in HeapBlocks : inUse' = inUse \cup {b}
    BY <1>3 DEF Create, TakeBlock
  <2> QED BY <1>3, <2>1, NothingMade, OneMade
<1>4. CASE LoadHead(t)
  BY <1>4, LoadHeadKeeps
<1>5. CASE Reference(t)
  BY <1>5, ReferenceAgain, ReferenceCounts
<1>6. CASE ReadNext(t)
  BY <1>6, ReadNextKeeps
<1>7. CASE SwapHead(t)
  BY <1>7, SwapTakes, SwapFails
<1>8. CASE Taken(t)
  BY <1>8, TakenKeeps
<1>9. CASE Unreference(t)
  BY <1>9, UnreferenceLets, UnreferenceLinks
<1>10. CASE \E b \in Blocks : AddBlock(t, b)
  <2>1. PICK b \in Blocks : AddBlock(t, b)
    BY <1>10
  <2>2. CASE b \in HeapBlocks
    BY <2>1, <2>2, HeapBlockFreed
  <2>3. CASE b \in InitialBlocks
    BY <2>1, <2>3, AddLeaves, AddLinks
  <2> QED BY <2>2, <2>3 DEF Blocks
<1>11. CASE Link(t)
  BY <1>11, LinkKeeps
<1>12. CASE StoreNext(t)
  BY <1>12, StoreNextKeeps
<1>13. CASE StoreRefs(t)
  BY <1>13, PublishKeeps
<1>14. CASE PushHead(t)
  BY <1>14, PushLists, PushFails
<1>15. CASE Retract(t)
  <2>1. PICK b : b = poolAt[t].node
    OBVIOUS
  <2>2. b \in InitialBlocks /\ poolAt[t].pc \in {"push", "retract"}
    BY <1>0, <1>15, <2>1, PlaceShape DEF Retract, Is
  <2>3. b \notin MarkedIn(refs)
    BY <2>1, <2>2, PushedNotMarked
  <2> QED BY <1>15, <2>1, <2>3, RetractAgain, RetractLeaves
<1> QED BY <1>1, <1>2, <1>3, <1>4, <1>5, <1>6, <1>7, <1>8, <1>9, <1>10, <1>11, <1>12, <1>13, <1>14, <1>15
        DEF PoolStep

LEMMA PoolStutters ==
    ASSUME PoolInductive, UNCHANGED poolVars
    PROVE  PoolInductive'
BY DEF PoolInductive, PoolTyped, ReadsHold, BlocksSound, poolVars

-----------------------------------------------------------------------------
(***************************************************************************)
(* From the invariant to the property.                                     *)
(***************************************************************************)

\* A list without a loop is no longer than the pool.
LEMMA ListLength ==
    ASSUME NEW list, NEW h, NEW successor, ListFrom(list, h, successor)
    PROVE  Len(list) \in 0..PoolSize
<1> DEFINE m == Len(list)
<1>1. m \in Nat /\ list \in [1..m -> InitialBlocks] /\ \A i, j \in 1..m : list[i] = list[j] => i = j
  BY DEF ListFrom
<1>2. IsFiniteSet(InitialBlocks) /\ Cardinality(InitialBlocks) = PoolSize
  BY PoolAssumption, FS_Interval DEF InitialBlocks
<1>3. IsFiniteSet(1..m) /\ Cardinality(1..m) = m
  BY <1>1, FS_Interval
<1> HIDE DEF m
<1>4. ~(Cardinality(InitialBlocks) < Cardinality(1..m))
  BY <1>1, <1>2, <1>3, FS_PigeonHole
<1> QED BY <1>1, <1>2, <1>3, <1>4, PoolAssumption DEF m

\* The chain of the free list is that sequence, and ends.
LEMMA ChainIs ==
    ASSUME NEW list, ListFrom(list, freeListHead, freeListNext)
    PROVE  \A n \in 0..PoolSize : Chain[n] = IF n < Len(list) THEN list[n + 1] ELSE NoBlock
<1> DEFINE Body(g) == [n \in 0..PoolSize |->
                         IF n = 0 THEN freeListHead
                         ELSE IF g[n - 1] \in InitialBlocks THEN freeListNext[g[n - 1]] ELSE NoBlock]
           w == [n \in 0..PoolSize |-> IF n < Len(list) THEN list[n + 1] ELSE NoBlock]
<1>1. /\ Len(list) \in Nat /\ \A i \in 1..Len(list) : list[i] \in InitialBlocks
      /\ freeListHead = IF Len(list) = 0 THEN NoBlock ELSE list[1]
      /\ \A i \in 1..Len(list) : freeListNext[list[i]] = IF i = Len(list) THEN NoBlock ELSE list[i + 1]
      /\ PoolSize \in Nat /\ NoBlock \notin InitialBlocks
  BY PoolAssumption DEF ListFrom, NoBlock, InitialBlocks
<1>2. ASSUME NEW n \in 0..PoolSize
      PROVE  w[n] = IF n = 0 THEN freeListHead
                    ELSE IF w[n - 1] \in InitialBlocks THEN freeListNext[w[n - 1]] ELSE NoBlock
  <2>1. CASE n = 0
    BY <1>1, <2>1
  <2>2. CASE n # 0 /\ n - 1 < Len(list)
    <3>1. n - 1 \in 0..PoolSize /\ w[n - 1] = list[(n - 1) + 1] /\ (n - 1) + 1 = n /\ n \in 1..Len(list)
      BY <1>1, <2>2
    <3> QED BY <1>1, <2>2, <3>1
  <2>3. CASE n # 0 /\ ~(n - 1 < Len(list))
    BY <1>1, <2>3
  <2> QED BY <2>1, <2>2, <2>3
<1>3. w = Body(w)
  BY <1>2
<1>4. Chain = CHOOSE g : g = Body(g)
  BY DEF Chain
<1>5. Chain = Body(Chain)
  <2> HIDE DEF Body, w
  <2> QED BY <1>3, <1>4, Zenon
<1>6. \A n \in 0..PoolSize : Chain[n] = IF n = 0 THEN freeListHead
                                        ELSE IF Chain[n - 1] \in InitialBlocks THEN freeListNext[Chain[n - 1]]
                                             ELSE NoBlock
  BY <1>5
<1> HIDE DEF w, Body
<1> DEFINE Bad == {n \in 0..PoolSize : Chain[n] # w[n]}
<1>7. Bad = {}
  <2> SUFFICES ASSUME Bad # {}
               PROVE  FALSE
    OBVIOUS
  <2>1. Bad \subseteq Nat
    BY <1>1
  <2> HIDE DEF Bad
  <2>2. PICK n \in Bad : \A k \in Bad : n <= k
    BY <2>1, LeastNumber
  <2>3. n \in 0..PoolSize /\ Chain[n] # w[n]
    BY <2>2 DEF Bad
  <2>4. n # 0
    BY <1>2, <1>6, <2>3
  <2>5. n - 1 \in 0..PoolSize /\ n - 1 \notin Bad
    BY <1>1, <2>2, <2>3, <2>4
  <2>6. Chain[n - 1] = w[n - 1]
    BY <2>5 DEF Bad
  <2> QED BY <1>2, <1>6, <2>3, <2>4, <2>6
<1>8. \A n \in 0..PoolSize : Chain[n] = w[n]
  BY <1>7
<1> QED BY <1>8 DEF w

LEMMA BlocksAre == PoolInductive => BlocksAccounted
<1> SUFFICES ASSUME PoolInductive
             PROVE  BlocksAccounted
  OBVIOUS
<1>1. PICK list \in Seq(InitialBlocks) :
        /\ ListFrom(list, freeListHead, freeListNext)
        /\ \A c \in InitialBlocks : Sound(c, On(list), poolIndex, inUse, refs, poolAt)
  BY DEF PoolInductive, BlocksSound
<1>2. Len(list) \in 0..PoolSize
  BY <1>1, ListLength
<1>3. \A n \in 0..PoolSize : Chain[n] = IF n < Len(list) THEN list[n + 1] ELSE NoBlock
  BY <1>1, ChainIs
<1>4. Chain[PoolSize] = NoBlock
  BY <1>2, <1>3, PoolAssumption
<1>5. Listed = On(list)
  <2>1. ASSUME NEW x \in Listed
        PROVE  x \in On(list)
    <3>1. PICK n \in 0..PoolSize : x = Chain[n] /\ x # NoBlock
      BY <2>1 DEF Listed
    <3>2. n < Len(list) /\ x = list[n + 1]
      BY <1>3, <3>1
    <3> QED BY <1>2, <3>1, <3>2 DEF On
  <2>2. ASSUME NEW x \in On(list)
        PROVE  x \in Listed
    <3>1. PICK i \in 1..Len(list) : x = list[i]
      BY <2>2 DEF On
    <3>2. i - 1 \in 0..PoolSize /\ i - 1 < Len(list) /\ (i - 1) + 1 = i
      BY <1>2, <3>1, PoolAssumption
    <3>3. Chain[i - 1] = x
      BY <1>3, <3>1, <3>2
    <3>4. x # NoBlock
      BY <1>1, <3>1, PoolAssumption DEF InitialBlocks, NoBlock
    <3> QED BY <3>2, <3>3, <3>4 DEF Listed
  <2> QED BY <2>1, <2>2
<1> SUFFICES ASSUME NEW b \in InitialBlocks
             PROVE  /\ \E place \in {"new", "used", "listed", "marked", "pushed", "taken"} :
                         /\ b > poolIndex <=> place = "new"
                         /\ b \in inUse <=> place = "used"
                         /\ b \in Listed <=> place = "listed"
                         /\ refs[b].should <=> place = "marked"
                         /\ Pushing(b) # {} <=> place = "pushed"
                         /\ Taking(b) # {} <=> place = "taken"
                    /\ Cardinality(Linking(b)) <= 1 /\ Cardinality(Taking(b)) <= 1
                    /\ refs[b].count = Cardinality(Referencing(b)) + Cardinality(Taking(b))
                                       + (IF b \in Listed \/ Pushing(b) # {} THEN 1 ELSE 0)
                    /\ refs[b].should => Referencing(b) # {} \/ Linking(b) # {}
  BY <1>4 DEF BlocksAccounted
<1>6. /\ Referencing(b) = Referrers(poolAt, b) /\ Linking(b) = Linkers(poolAt, b)
      /\ Pushing(b) = Pushers(poolAt, b) /\ Taking(b) = Takers(poolAt, b)
  <2>1. Referencing(b) = Referrers(poolAt, b)
    BY DEF Referencing, Referrers, Refers
  <2>2. Linking(b) = Linkers(poolAt, b)
    BY DEF Linking, Linkers, Links
  <2>3. Pushing(b) = Pushers(poolAt, b)
    BY DEF Pushing, Linking, Pushers, Pushes
  <2>4. Taking(b) = Takers(poolAt, b)
    BY DEF Taking, Takers, TakesBlock
  <2> QED BY <2>1, <2>2, <2>3, <2>4
<1>7. refs[b].should <=> b \in MarkedIn(refs)
  BY DEF MarkedIn
<1>8. Account(b, poolIndex, inUse, Listed, MarkedIn(refs), refs[b].count,
              Referencing(b), Linking(b), Pushing(b), Taking(b))
  BY <1>1, <1>5, <1>6 DEF Sound
<1>9. \A A : IsFiniteSet(A) /\ (\A x, y \in A : x = y) => Cardinality(A) <= 1
  <2> SUFFICES ASSUME NEW A, IsFiniteSet(A), \A x, y \in A : x = y
               PROVE  Cardinality(A) <= 1
    OBVIOUS
  <2>1. CASE A = {}
    BY <2>1, FS_EmptySet
  <2>2. CASE A # {}
    <3>1. PICK x \in A : TRUE
      BY <2>2
    <3>2. Cardinality(A) = 1
      BY <3>1, OneOnly
    <3> QED BY <3>2
  <2> QED BY <2>1, <2>2
<1>10. IsFiniteSet(Linking(b)) /\ IsFiniteSet(Taking(b))
  BY <1>6, ThreadsAbout
<1>11. Cardinality(Linking(b)) <= 1 /\ Cardinality(Taking(b)) <= 1
  BY <1>8, <1>9, <1>10 DEF Account
<1>12. \E place \in {"new", "used", "listed", "marked", "pushed", "taken"} :
         /\ b > poolIndex <=> place = "new"
         /\ b \in inUse <=> place = "used"
         /\ b \in Listed <=> place = "listed"
         /\ refs[b].should <=> place = "marked"
         /\ Pushing(b) # {} <=> place = "pushed"
         /\ Taking(b) # {} <=> place = "taken"
  BY <1>7, <1>8 DEF Account
<1>13. refs[b].should => Referencing(b) # {} \/ Linking(b) # {}
  BY <1>7, <1>8 DEF Account
<1>14. refs[b].count = Cardinality(Referencing(b)) + Cardinality(Taking(b))
                       + (IF b \in Listed \/ Pushing(b) # {} THEN 1 ELSE 0)
  BY <1>8 DEF Account
<1> QED BY <1>11, <1>12, <1>13, <1>14

\* Every block of the initial pool is at every moment in exactly one place, the free
\* list ends, the counts are right and no block marked for the list is forgotten,
\* however many threads take blocks and give them back (requisition_block,
\* add_block_to_free_list and the FreeList of concurrentqueue.h).
THEOREM BlocksAlwaysAccounted == PoolInit /\ [][PoolNext]_poolVars => []BlocksAccounted
<1>1. PoolInductive /\ [PoolNext]_poolVars => PoolInductive'
  BY PoolStepInductive, PoolStutters DEF PoolNext
<1> QED BY <1>1, PoolInitInductive, BlocksAre, PTL

-----------------------------------------------------------------------------
Ids == HashThreads \cup {invalid_thread_id, invalid_thread_id2}
TablesOf(c) == [0..c-1 -> [key : Ids, value : Nat]]
Registrants == HashThreads \cup TokenThreads

\* Where a thread can be, with the local variables it has there, when there are
\* n tables.
HashPlaces(n) ==
  {Unborn}
  \cup [pc : {"count"}, main : 1..n]
  \cup [pc : {"room", "resize", "add"}, main : 1..n, n : Int]
  \cup [pc : {"insert", "copy"}, main : 1..n, producer : Nat]
  \cup [pc : {"registered"}, producer : Nat]
  \cup [pc : {"exit"}, table : 0..n, producer : Nat]
TokenPlaces == {Unborn} \cup [pc : {"token"}, producer : Nat]

RegistryTyped ==
  /\ tables \in Seq(UNION {TablesOf(c) : c \in Nat \ {0}}) /\ Len(tables) > 0
  /\ hashCount \in Int
  /\ producers \in Seq([explicit : BOOLEAN, inactive : BOOLEAN])
  /\ DOMAIN registrant = Registrants
  /\ \A t \in HashThreads : registrant[t] \in HashPlaces(Len(tables))
  /\ \A t \in TokenThreads : registrant[t] \in TokenPlaces

\* Whoever has a sub-queue has it alone.
OwnersTold ==
  \A t \in Registrants : Has(t) =>
    /\ registrant[t].producer \in DOMAIN producers
    /\ producers[registrant[t].producer] = [explicit |-> t \in TokenThreads, inactive |-> FALSE]
    /\ \A u \in Registrants : u # t /\ Has(u) => registrant[u].producer # registrant[t].producer

\* The places from which a thread can be found in a table, and what is then found:
\* a thread that exits has left the tables from the main one down to its present one.
KeyPlaces == {"registered", "copy", "exit"}
KeysTold ==
  \A h \in DOMAIN tables : \A s \in DOMAIN tables[h] : \A t \in HashThreads :
    tables[h][s].key = t =>
      /\ registrant[t].pc \in KeyPlaces
      /\ tables[h][s].value = registrant[t].producer
      /\ registrant[t].pc = "exit" => h <= registrant[t].table

RegistryInductive == RegistryTyped /\ OwnersTold /\ KeysTold

Tables == UNION {TablesOf(c) : c \in Nat \ {0}}
Moved(t, there) == [registrant EXCEPT ![t] = there]

\* What is known of a registrant by its place.
LEMMA HashPlaceFacts ==
  ASSUME RegistryTyped, NEW t \in HashThreads
  PROVE  LET r == registrant[t] IN
         /\ Has(t) <=> r.pc \in {"insert", "copy", "registered", "exit"}
         /\ r.pc \in {"count", "room", "resize", "add", "insert", "copy"} => r.main \in DOMAIN tables
         /\ r.pc \in {"room", "resize", "add"} => r.n \in Int
         /\ r.pc = "exit" => r.table \in 0..Len(tables)
         /\ Has(t) => r.producer \in Nat
         /\ Len(tables) \in Nat \ {0} /\ DOMAIN tables = 1..Len(tables)
         /\ r \in HashPlaces(Len(tables))
<1> DEFINE r == registrant[t]
           n == Len(tables)
<1>1. /\ n \in Nat \ {0} /\ DOMAIN tables = 1..n /\ r \in HashPlaces(n)
  BY DEF RegistryTyped
<1>2. r \in HashPlaces(n)
  BY <1>1
<1> HIDE DEF r, n
<1>3. \/ r = Unborn
      \/ r \in [pc : {"count"}, main : 1..n]
      \/ r \in [pc : {"room", "resize", "add"}, main : 1..n, n : Int]
      \/ r \in [pc : {"insert", "copy"}, main : 1..n, producer : Nat]
      \/ r \in [pc : {"registered"}, producer : Nat]
      \/ r \in [pc : {"exit"}, table : 0..n, producer : Nat]
  BY <1>2 DEF HashPlaces
<1>4. /\ "producer" \in DOMAIN r <=> r.pc \in {"insert", "copy", "registered", "exit"}
      /\ r.pc \in {"count", "room", "resize", "add", "insert", "copy"} => r.main \in 1..n
      /\ r.pc \in {"room", "resize", "add"} => r.n \in Int
      /\ r.pc = "exit" => r.table \in 0..n
      /\ "producer" \in DOMAIN r => r.producer \in Nat
  <2>1. CASE r = Unborn
    BY <2>1 DEF Unborn
  <2>2. CASE r \in [pc : {"count"}, main : 1..n]
    BY <2>2
  <2>3. CASE r \in [pc : {"room", "resize", "add"}, main : 1..n, n : Int]
    BY <2>3
  <2>4. CASE r \in [pc : {"insert", "copy"}, main : 1..n, producer : Nat]
    BY <2>4
  <2>5. CASE r \in [pc : {"registered"}, producer : Nat]
    BY <2>5
  <2>6. CASE r \in [pc : {"exit"}, table : 0..n, producer : Nat]
    BY <2>6
  <2> QED BY <1>3, <2>1, <2>2, <2>3, <2>4, <2>5, <2>6
<1> QED BY <1>1, <1>4 DEF r, n, Has

LEMMA TokenPlaceFacts ==
  ASSUME RegistryTyped, NEW t \in TokenThreads
  PROVE  /\ Has(t) <=> registrant[t].pc = "token"
         /\ Has(t) => registrant[t].producer \in Nat
<1>1. registrant[t] = Unborn \/ registrant[t] \in [pc : {"token"}, producer : Nat]
  BY DEF RegistryTyped, TokenPlaces
<1> QED BY <1>1 DEF Unborn, Has

\* Nobody's place changes but that of the one who moves.
LEMMA MovedFacts ==
  ASSUME RegistryTyped, NEW t \in Registrants, NEW there, RegistrantTo(t, there)
  PROVE  /\ DOMAIN registrant' = Registrants
         /\ registrant'[t] = there
         /\ Has(t)' <=> "producer" \in DOMAIN there
         /\ \A u \in Registrants : u # t => registrant'[u] = registrant[u] /\ (Has(u)' <=> Has(u))
<1>1. DOMAIN registrant = Registrants /\ registrant' = [registrant EXCEPT ![t] = there]
  BY DEF RegistryTyped, RegistrantTo
<1>2. /\ DOMAIN registrant' = Registrants /\ registrant'[t] = there
      /\ \A u \in Registrants : u # t => registrant'[u] = registrant[u]
  BY <1>1
<1> QED BY <1>2 DEF Has

\* Types after a step of a thread without a token: more tables do no harm.
LEMMA HashTypes ==
  ASSUME RegistryTyped, NEW t \in HashThreads, NEW there, RegistrantTo(t, there),
         RegistryAssumption,
         tables' \in Seq(Tables), Len(tables) <= Len(tables)', there \in HashPlaces(Len(tables)'),
         hashCount' \in Int, producers' \in Seq([explicit : BOOLEAN, inactive : BOOLEAN])
  PROVE  RegistryTyped'
<1>1. /\ DOMAIN registrant' = Registrants /\ registrant'[t] = there
      /\ \A u \in Registrants : u # t => registrant'[u] = registrant[u]
  BY MovedFacts DEF Registrants
<1>2. Len(tables) \in Nat \ {0} /\ Len(tables)' \in Nat
  BY DEF RegistryTyped
<1>3. ASSUME NEW u \in HashThreads
      PROVE  registrant'[u] \in HashPlaces(Len(tables)')
  <2>1. CASE u = t
    BY <1>1, <2>1
  <2>2. CASE u # t
    <3>1. registrant'[u] = registrant[u] /\ registrant[u] \in HashPlaces(Len(tables))
      BY <1>1, <2>2 DEF Registrants, RegistryTyped
    <3> DEFINE m == Len(tables)
               n == Len(tables)'
    <3>2. m \in Nat /\ n \in Nat /\ m <= n
      BY <1>2
    <3> HIDE DEF m, n
    <3>3. 1..m \subseteq 1..n /\ 0..m \subseteq 0..n
      BY <3>2
    <3>4. HashPlaces(m) \subseteq HashPlaces(n)
      BY <3>3 DEF HashPlaces
    <3> QED BY <3>1, <3>4 DEF m, n
  <2> QED BY <2>1, <2>2
<1>4. ASSUME NEW u \in TokenThreads
      PROVE  registrant'[u] \in TokenPlaces
  <2>1. u # t /\ u \in Registrants
    BY DEF RegistryAssumption, Registrants
  <2> QED BY <1>1, <2>1 DEF RegistryTyped
<1> QED BY <1>1, <1>2, <1>3, <1>4 DEF RegistryTyped, Tables

LEMMA FlagsOf ==
  ASSUME NEW e, NEW i, NEW r, r = [explicit |-> e, inactive |-> i]
  PROVE  r.explicit = e /\ r.inactive = i
OBVIOUS

\* A producer that is taken or given back stays of its kind.
LEMMA FlagChanged ==
  ASSUME NEW E, NEW I, NEW s \in Seq([explicit : E, inactive : I]), NEW p \in DOMAIN s, NEW b \in I,
         NEW z, z = [s EXCEPT ![p].inactive = b]
  PROVE  /\ z \in Seq([explicit : E, inactive : I])
         /\ DOMAIN z = DOMAIN s
         /\ z[p] = [explicit |-> s[p].explicit, inactive |-> b]
         /\ \A r \in DOMAIN s : r # p => z[r] = s[r]
<1> DEFINE D == [explicit : E, inactive : I]
           new == [explicit |-> s[p].explicit, inactive |-> b]
<1>1. s \in Seq(D) /\ p \in DOMAIN s
  OBVIOUS
<1>2. ASSUME NEW r \in D
      PROVE  [r EXCEPT !.inactive = b] = [explicit |-> r.explicit, inactive |-> b]
  BY <1>2
<1>3. \A r \in D : [explicit |-> r.explicit, inactive |-> b] \in D
  OBVIOUS
<1>4. z = [s EXCEPT ![p] = [s[p] EXCEPT !.inactive = b]]
  OBVIOUS
<1> HIDE DEF D
<1>5. DOMAIN s = 1..Len(s) /\ Len(s) \in Nat /\ s[p] \in D /\ s \in [1..Len(s) -> D]
  BY <1>1
<1>6. z = [s EXCEPT ![p] = new] /\ new \in D
  BY <1>2, <1>3, <1>4, <1>5
<1> HIDE DEF new
<1>7. z \in [1..Len(s) -> D]
  BY <1>5, <1>6
<1>8. z \in Seq(D)
  BY <1>5, <1>7
<1> QED BY <1>5, <1>6, <1>8 DEF D, new

\* The owners are told apart when nobody gets a sub-queue,
LEMMA OwnersKept ==
  ASSUME RegistryTyped, OwnersTold, NEW t \in Registrants, NEW there, RegistrantTo(t, there),
         producers' = producers,
         "producer" \in DOMAIN there => Has(t) /\ there.producer = registrant[t].producer
  PROVE  OwnersTold'
<1>1. /\ DOMAIN registrant' = Registrants /\ registrant'[t] = there
      /\ Has(t)' <=> "producer" \in DOMAIN there
      /\ \A u \in Registrants : u # t => registrant'[u] = registrant[u] /\ (Has(u)' <=> Has(u))
  BY MovedFacts
<1>2. \A u \in Registrants : Has(u)' => Has(u) /\ registrant'[u].producer = registrant[u].producer
  BY <1>1
<1> QED BY <1>2 DEF OwnersTold

\* when somebody gets a new one or one that is up for recycling,
LEMMA OwnersGain ==
  ASSUME RegistryTyped, OwnersTold, NEW t \in Registrants, NEW there, RegistrantTo(t, there),
         ~Has(t), NEW p \in Nat, there.producer = p, RecycleOrCreate(t \in TokenThreads, p)
  PROVE  OwnersTold' /\ producers' \in Seq([explicit : BOOLEAN, inactive : BOOLEAN])
<1> DEFINE kind == t \in TokenThreads
           D == [explicit : BOOLEAN, inactive : BOOLEAN]
<1>1. /\ DOMAIN registrant' = Registrants /\ registrant'[t] = there
      /\ \A u \in Registrants : u # t => registrant'[u] = registrant[u] /\ (Has(u)' <=> Has(u))
  BY MovedFacts
<1>2. producers \in Seq(D)
  BY DEF RegistryTyped
<1>3. /\ producers' \in Seq(D)
      /\ p \in DOMAIN producers' /\ DOMAIN producers \subseteq DOMAIN producers'
      /\ producers'[p] = [explicit |-> kind, inactive |-> FALSE]
      /\ \A r \in DOMAIN producers : r # p => producers'[r] = producers[r]
      /\ p \in DOMAIN producers => producers[p].inactive = TRUE
  <2> DEFINE idle == {r \in DOMAIN producers : producers[r] = [explicit |-> kind, inactive |-> TRUE]}
             new == [explicit |-> kind, inactive |-> FALSE]
  <2>1. CASE idle = {}
    <3>1. p = Len(producers) + 1 /\ producers' = Append(producers, new) /\ new \in D
      BY <2>1 DEF RecycleOrCreate
    <3> QED BY <1>2, <3>1
  <2>2. CASE idle # {}
    <3>1. p \in idle /\ producers' = [producers EXCEPT ![p].inactive = FALSE]
      BY <2>2 DEF RecycleOrCreate
    <3>2. p \in DOMAIN producers /\ producers[p] = [explicit |-> kind, inactive |-> TRUE]
      BY <3>1
    <3>3. producers[p].explicit = kind /\ producers[p].inactive = TRUE
      BY <3>2, FlagsOf, Zenon
    <3>4. /\ producers' \in Seq(D) /\ DOMAIN producers' = DOMAIN producers
          /\ producers'[p] = [explicit |-> producers[p].explicit, inactive |-> FALSE]
          /\ \A r \in DOMAIN producers : r # p => producers'[r] = producers[r]
      BY <1>2, <3>1, <3>2, FlagChanged
    <3>5. producers'[p] = [explicit |-> kind, inactive |-> FALSE]
      BY <3>3, <3>4, Zenon
    <3> QED BY <3>2, <3>3, <3>4, <3>5, Zenon
  <2> QED BY <2>1, <2>2
<1>4. \A u \in Registrants : u # t /\ Has(u) =>
        /\ registrant[u].producer \in DOMAIN producers
        /\ registrant[u].producer # p
  <2> SUFFICES ASSUME NEW u \in Registrants, u # t, Has(u)
               PROVE  registrant[u].producer \in DOMAIN producers /\ registrant[u].producer # p
    OBVIOUS
  <2>1. /\ registrant[u].producer \in DOMAIN producers
        /\ producers[registrant[u].producer] = [explicit |-> u \in TokenThreads, inactive |-> FALSE]
    BY DEF OwnersTold
  <2>2. \A e : producers[registrant[u].producer] = [explicit |-> e, inactive |-> FALSE]
               => producers[registrant[u].producer].inactive = FALSE
    BY FlagsOf
  <2>3. producers[registrant[u].producer].inactive = FALSE
    BY <2>1, <2>2, Zenon
  <2> QED BY <1>3, <2>1, <2>3, Zenon
<1>5. \A u \in Registrants : u # t /\ Has(u) =>
        /\ registrant[u].producer \in DOMAIN producers'
        /\ producers'[registrant[u].producer] = [explicit |-> u \in TokenThreads, inactive |-> FALSE]
  BY <1>3, <1>4 DEF OwnersTold
<1>6. \A u, v \in Registrants : u # v /\ u # t /\ v # t /\ Has(u) /\ Has(v) =>
        registrant[v].producer # registrant[u].producer
  BY DEF OwnersTold
<1>7. OwnersTold'
  <2> SUFFICES ASSUME NEW u \in Registrants, Has(u)'
               PROVE  /\ registrant'[u].producer \in DOMAIN producers'
                      /\ producers'[registrant'[u].producer] = [explicit |-> u \in TokenThreads, inactive |-> FALSE]
                      /\ \A v \in Registrants : v # u /\ Has(v)' => registrant'[v].producer # registrant'[u].producer
    BY DEF OwnersTold
  <2>1. CASE u = t
    <3>1. registrant'[u].producer = p
      BY <1>1, <2>1
    <3>2. \A v \in Registrants : v # u /\ Has(v)' => registrant'[v].producer # p
      BY <1>1, <1>4, <2>1
    <3> QED BY <1>3, <2>1, <3>1, <3>2, Zenon
  <2>2. CASE u # t
    <3>1. Has(u) /\ registrant'[u] = registrant[u]
      BY <1>1, <2>2
    <3>2. \A v \in Registrants : v # u /\ Has(v)' => registrant'[v].producer # registrant[u].producer
      <4> SUFFICES ASSUME NEW v \in Registrants, v # u, Has(v)'
                   PROVE  registrant'[v].producer # registrant[u].producer
        OBVIOUS
      <4>1. CASE v = t
        BY <1>1, <1>4, <2>2, <3>1, <4>1
      <4>2. CASE v # t
        BY <1>1, <1>6, <2>2, <3>1, <4>2
      <4> QED BY <4>1, <4>2
    <3> QED BY <1>5, <2>2, <3>1, <3>2, Zenon
  <2> QED BY <2>1, <2>2
<1> QED BY <1>3, <1>7

\* and when somebody gives his back.
LEMMA OwnersLose ==
  ASSUME RegistryTyped, OwnersTold, NEW t \in Registrants, RegistrantTo(t, Unborn), Has(t),
         NEW p, p = registrant[t].producer, producers' = [producers EXCEPT ![p].inactive = TRUE]
  PROVE  OwnersTold' /\ producers' \in Seq([explicit : BOOLEAN, inactive : BOOLEAN])
<1> DEFINE D == [explicit : BOOLEAN, inactive : BOOLEAN]
<1>1. /\ DOMAIN registrant' = Registrants /\ ~Has(t)'
      /\ \A u \in Registrants : u # t => registrant'[u] = registrant[u] /\ (Has(u)' <=> Has(u))
  BY MovedFacts DEF Unborn
<1>3. producers \in Seq(D) /\ p \in DOMAIN producers
  BY DEF RegistryTyped, OwnersTold
<1>4. producers' \in Seq(D) /\ DOMAIN producers' = DOMAIN producers
      /\ \A r \in DOMAIN producers : r # p => producers'[r] = producers[r]
  BY <1>3, FlagChanged
<1>5. \A u \in Registrants : u # t /\ Has(u) => registrant[u].producer # p
  BY DEF OwnersTold
<1>6. \A u \in Registrants : u # t /\ Has(u) =>
        /\ registrant[u].producer \in DOMAIN producers'
        /\ producers'[registrant[u].producer] = [explicit |-> u \in TokenThreads, inactive |-> FALSE]
  BY <1>4, <1>5 DEF OwnersTold
<1>7. OwnersTold'
  BY <1>1, <1>6 DEF OwnersTold
<1> QED BY <1>4, <1>7

-----------------------------------------------------------------------------
\* The tables hold what they held, as long as who is in them keeps what it has.
LEMMA KeysKept ==
  ASSUME RegistryTyped, KeysTold, NEW t \in Registrants, NEW there, RegistrantTo(t, there),
         tables' = tables,
         t \in HashThreads =>
           \/ registrant[t].pc \notin KeyPlaces
           \/ /\ there.pc \in KeyPlaces /\ there.producer = registrant[t].producer
              /\ there.pc = "exit" =>
                   \/ there.table = Len(tables)
                   \/ registrant[t].pc = "exit" /\ there.table = registrant[t].table
  PROVE  KeysTold'
<1>1. /\ registrant'[t] = there
      /\ \A u \in Registrants : u # t => registrant'[u] = registrant[u]
  BY MovedFacts
<1> SUFFICES ASSUME NEW h \in DOMAIN tables, NEW s \in DOMAIN tables[h], NEW u \in HashThreads,
                    tables[h][s].key = u
             PROVE  /\ registrant'[u].pc \in KeyPlaces
                    /\ tables[h][s].value = registrant'[u].producer
                    /\ registrant'[u].pc = "exit" => h <= registrant'[u].table
  BY DEF KeysTold
<1>2. /\ registrant[u].pc \in KeyPlaces
      /\ tables[h][s].value = registrant[u].producer
      /\ registrant[u].pc = "exit" => h <= registrant[u].table
  BY DEF KeysTold
<1>3. h <= Len(tables)
  BY DEF RegistryTyped
<1>4. CASE u = t
  BY <1>1, <1>2, <1>3, <1>4
<1>5. CASE u # t
  BY <1>1, <1>2, <1>5 DEF Registrants
<1> QED BY <1>4, <1>5

\* A table names nobody who is in none.
LEMMA NoKey ==
  ASSUME RegistryTyped, KeysTold, NEW t \in HashThreads, NEW h \in DOMAIN tables,
         registrant[t].pc \notin KeyPlaces
  PROVE  \A s \in DOMAIN tables[h] : tables[h][s].key # t
BY DEF KeysTold

\* A new table names nobody.
LEMMA KeysGrow ==
  ASSUME RegistryTyped, KeysTold, RegistryAssumption, NEW t \in HashThreads, NEW there,
         RegistrantTo(t, there), registrant[t].pc \notin KeyPlaces,
         NEW c \in Nat \ {0}, tables' = Append(tables, Table(c))
  PROVE  KeysTold' /\ tables' \in Seq(Tables) /\ Len(tables)' = Len(tables) + 1
<1>1. /\ \A u \in Registrants : u # t => registrant'[u] = registrant[u]
      /\ t \in Registrants
  BY MovedFacts DEF Registrants
<1>2. tables \in Seq(Tables)
  BY DEF RegistryTyped, Tables
<1>3. Table(c) \in TablesOf(c)
  <2>1. [key |-> invalid_thread_id, value |-> NoProducer] \in [key : Ids, value : Nat]
    BY DEF Ids, NoProducer
  <2> QED BY <2>1 DEF Table, TablesOf
<1>4. Table(c) \in Tables
  BY <1>3 DEF Tables
<1> DEFINE new == Table(c)
<1>5. /\ tables' \in Seq(Tables) /\ Len(tables') = Len(tables) + 1
      /\ DOMAIN tables' = 1..Len(tables) + 1 /\ DOMAIN tables = 1..Len(tables) /\ Len(tables) \in Nat
      /\ tables'[Len(tables) + 1] = new
      /\ \A h \in DOMAIN tables : tables'[h] = tables[h]
  <2> HIDE DEF new
  <2> QED BY <1>2, <1>4 DEF new
<1>6. \A s \in DOMAIN new : new[s].key \notin HashThreads
  BY DEF Table, RegistryAssumption
<1>7. KeysTold'
  <2> SUFFICES ASSUME NEW h \in DOMAIN tables', NEW s \in DOMAIN tables'[h], NEW u \in HashThreads,
                      tables'[h][s].key = u
               PROVE  /\ registrant'[u].pc \in KeyPlaces
                      /\ tables'[h][s].value = registrant'[u].producer
                      /\ registrant'[u].pc = "exit" => h <= registrant'[u].table
    BY DEF KeysTold
  <2> HIDE DEF new
  <2>1. h \in DOMAIN tables
    BY <1>5, <1>6
  <2>2. tables'[h] = tables[h]
    BY <1>5, <2>1
  <2>3. u # t
    BY <2>1, <2>2 DEF KeysTold
  <2> QED BY <1>1, <2>1, <2>2, <2>3 DEF KeysTold, Registrants
<1> QED BY <1>5, <1>7

LEMMA TableSize ==
  ASSUME RegistryTyped, NEW h \in DOMAIN tables
  PROVE  \E c \in Nat \ {0} : tables[h] \in TablesOf(c)
BY DEF RegistryTyped

\* The slot a thread takes is a free one, if there is one.
LEMMA SlotIsFree ==
  ASSUME RegistryTyped, RegistryAssumption, NEW t \in HashThreads, NEW h \in DOMAIN tables, Free(h) # {}
  PROVE  SlotFor(h, t) \in Free(h)
<1>1. PICK c \in Nat \ {0} : tables[h] \in TablesOf(c)
  BY DEF RegistryTyped
<1>2. DOMAIN tables[h] = 0..c-1
  BY <1>1 DEF TablesOf
<1>3. CapacityOf(h) = c
  BY <1>2, FS_Interval DEF CapacityOf
<1>4. \A s \in Free(h) : Distance(h, t, s) \in Nat
  <2> SUFFICES ASSUME NEW s \in Free(h)
               PROVE  Distance(h, t, s) \in Nat
    OBVIOUS
  <2>1. s \in Int /\ HashOf[t] \in Nat
    BY <1>2 DEF Free, RegistryAssumption
  <2>2. (s - HashOf[t]) % c \in Nat
    BY <2>1
  <2> QED BY <1>3, <2>2 DEF Distance
<1> DEFINE T == {Distance(h, t, s) : s \in Free(h)}
<1>5. T \subseteq Nat /\ T # {}
  BY <1>4
<1>6. PICK n \in T : \A m \in T : n <= m
  BY <1>5, LeastNumber
<1>7. PICK s \in Free(h) : n = Distance(h, t, s)
  BY <1>6
<1>8. \A r \in Free(h) : Distance(h, t, s) <= Distance(h, t, r)
  BY <1>6, <1>7
<1> QED BY <1>8 DEF SlotFor

\* One entry of a table is written.
LEMMA EntryWritten ==
  ASSUME RegistryTyped, NEW h \in DOMAIN tables, NEW r \in DOMAIN tables[h],
         NEW e \in [key : Ids, value : Nat], tables' = [tables EXCEPT ![h][r] = e]
  PROVE  /\ tables' \in Seq(Tables) /\ Len(tables)' = Len(tables) /\ DOMAIN tables' = DOMAIN tables
         /\ \A g \in DOMAIN tables : DOMAIN tables'[g] = DOMAIN tables[g]
         /\ tables'[h][r] = e
         /\ \A g \in DOMAIN tables : \A s \in DOMAIN tables[g] :
              <<g, s>> # <<h, r>> => tables'[g][s] = tables[g][s]
<1>1. PICK c \in Nat \ {0} : tables[h] \in TablesOf(c)
  BY TableSize
<1>2. tables \in Seq(Tables)
  BY DEF RegistryTyped, Tables
<1> DEFINE new == [tables[h] EXCEPT ![r] = e]
<1>3. new \in TablesOf(c) /\ DOMAIN new = DOMAIN tables[h] /\ new[r] = e
      /\ \A s \in DOMAIN tables[h] : s # r => new[s] = tables[h][s]
  BY <1>1 DEF TablesOf
<1>4. new \in Tables
  BY <1>3 DEF Tables
<1>5. tables' = [tables EXCEPT ![h] = new]
  OBVIOUS
<1> HIDE DEF new
<1>6. DOMAIN tables = 1..Len(tables) /\ Len(tables) \in Nat /\ tables \in [1..Len(tables) -> Tables]
  BY <1>2
<1>7. tables' \in [1..Len(tables) -> Tables]
  BY <1>4, <1>5, <1>6
<1>8. tables' \in Seq(Tables) /\ Len(tables') = Len(tables)
  BY <1>6, <1>7
<1> QED BY <1>3, <1>5, <1>6, <1>8

\* Who enters a table is named there with the sub-queue it has.
LEMMA KeysPut ==
  ASSUME RegistryTyped, KeysTold, RegistryAssumption, NEW t \in HashThreads, NEW h \in DOMAIN tables,
         NEW p \in Nat, PutIn(h, t, p), Free(h) # {},
         RegistrantTo(t, [pc |-> "registered", producer |-> p]),
         registrant[t].pc \notin KeyPlaces \/ registrant[t].producer = p
  PROVE  KeysTold' /\ tables' \in Seq(Tables) /\ Len(tables)' = Len(tables)
<1>1. /\ \A u \in Registrants : u # t => registrant'[u] = registrant[u]
      /\ t \in Registrants /\ registrant'[t] = [pc |-> "registered", producer |-> p]
  BY MovedFacts DEF Registrants
<1>2. PICK r : r = SlotFor(h, t)
  OBVIOUS
<1>3. r \in Free(h)
  BY <1>2, SlotIsFree
<1>4. r \in DOMAIN tables[h] /\ tables[h][r].key \notin HashThreads
  BY <1>3 DEF Free, RegistryAssumption
<1> DEFINE e == [key |-> t, value |-> p]
<1>5. e \in [key : Ids, value : Nat] /\ tables' = [tables EXCEPT ![h][r] = e]
  BY <1>2 DEF PutIn, Ids
<1> HIDE DEF e
<1>6. /\ tables' \in Seq(Tables) /\ Len(tables)' = Len(tables) /\ DOMAIN tables' = DOMAIN tables
      /\ \A g \in DOMAIN tables : DOMAIN tables'[g] = DOMAIN tables[g]
      /\ tables'[h][r] = e
      /\ \A g \in DOMAIN tables : \A s \in DOMAIN tables[g] :
              <<g, s>> # <<h, r>> => tables'[g][s] = tables[g][s]
  BY <1>4, <1>5, EntryWritten
<1>7. KeysTold'
  <2> SUFFICES ASSUME NEW g \in DOMAIN tables', NEW s \in DOMAIN tables'[g], NEW u \in HashThreads,
                      tables'[g][s].key = u
               PROVE  /\ registrant'[u].pc \in KeyPlaces
                      /\ tables'[g][s].value = registrant'[u].producer
                      /\ registrant'[u].pc = "exit" => g <= registrant'[u].table
    BY DEF KeysTold
  <2>1. CASE <<g, s>> = <<h, r>>
    <3>1. tables'[g][s] = e /\ u = t
      BY <1>6, <2>1 DEF e
    <3> QED BY <1>1, <3>1 DEF e, KeyPlaces
  <2>2. CASE <<g, s>> # <<h, r>>
    <3>1. g \in DOMAIN tables /\ s \in DOMAIN tables[g] /\ tables'[g][s] = tables[g][s]
      BY <1>6, <2>2
    <3>2. /\ registrant[u].pc \in KeyPlaces
          /\ tables[g][s].value = registrant[u].producer
          /\ registrant[u].pc = "exit" => g <= registrant[u].table
      BY <3>1 DEF KeysTold
    <3>3. CASE u = t
      BY <1>1, <3>1, <3>2, <3>3 DEF KeyPlaces
    <3>4. CASE u # t
      BY <1>1, <3>1, <3>2, <3>4 DEF Registrants
    <3> QED BY <3>3, <3>4
  <2> QED BY <2>1, <2>2
<1> QED BY <1>6, <1>7

\* Who has left a table is not named there.
LEMMA KeysReleased ==
  ASSUME RegistryTyped, OwnersTold, KeysTold, RegistryAssumption, NEW t \in HashThreads, ReleaseKey(t)
  PROVE  KeysTold' /\ tables' \in Seq(Tables) /\ Len(tables)' = Len(tables)
<1>1. PICK h : h = registrant[t].table
  OBVIOUS
<1>2. registrant[t].pc = "exit" /\ h \in 0..Len(tables) /\ h > 0 /\ DOMAIN tables = 1..Len(tables)
      /\ Len(tables) \in Nat
  BY <1>1, HashPlaceFacts DEF ReleaseKey, RegistrantIs
<1>3. h \in DOMAIN tables
  BY <1>2
<1> DEFINE there == [registrant[t] EXCEPT !.table = @ - 1]
           Gone(e) == IF e.key = t THEN [e EXCEPT !.key = invalid_thread_id2] ELSE e
           new == [s \in DOMAIN tables[h] |-> Gone(tables[h][s])]
<1>4. RegistrantTo(t, there) /\ tables' = [tables EXCEPT ![h] = new]
  BY <1>1 DEF ReleaseKey
<1>5. /\ \A u \in Registrants : u # t => registrant'[u] = registrant[u]
      /\ t \in Registrants /\ registrant'[t] = there
  BY <1>4, MovedFacts DEF Registrants
<1>6. there.pc = "exit" /\ there.producer = registrant[t].producer /\ there.table = h - 1
  <2>1. registrant[t] \in [pc : {"exit"}, table : 0..Len(tables), producer : Nat]
    <3>1. registrant[t] \in HashPlaces(Len(tables)) /\ registrant[t].pc = "exit"
      BY <1>2, HashPlaceFacts
    <3> QED BY <3>1 DEF HashPlaces, Unborn
  <2> QED BY <1>1, <2>1
<1>7. PICK c \in Nat \ {0} : tables[h] \in TablesOf(c)
  BY <1>3 DEF RegistryTyped
<1>8. \A e \in [key : Ids, value : Nat] : Gone(e) \in [key : Ids, value : Nat]
                                          /\ Gone(e).value = e.value
                                          /\ (Gone(e).key = e.key \/ Gone(e).key = invalid_thread_id2)
                                          /\ Gone(e).key # t
  <2> SUFFICES ASSUME NEW e \in [key : Ids, value : Nat]
               PROVE  /\ Gone(e) \in [key : Ids, value : Nat]
                      /\ Gone(e).value = e.value
                      /\ (Gone(e).key = e.key \/ Gone(e).key = invalid_thread_id2)
                      /\ Gone(e).key # t
    OBVIOUS
  <2>1. invalid_thread_id2 # t /\ invalid_thread_id2 \in Ids
    BY DEF RegistryAssumption, Ids
  <2> HIDE DEF there, new
  <2>2. CASE e.key = t
    BY <2>1, <2>2
  <2>3. CASE e.key # t
    BY <2>3
  <2> QED BY <2>2, <2>3
<1> HIDE DEF Gone
<1>9. new \in TablesOf(c) /\ DOMAIN new = DOMAIN tables[h]
      /\ \A s \in DOMAIN tables[h] : /\ new[s].key \in HashThreads => tables[h][s].key = new[s].key
                                     /\ new[s].value = tables[h][s].value /\ new[s].key # t
  <2>1. \A s \in DOMAIN tables[h] : tables[h][s] \in [key : Ids, value : Nat]
    BY <1>7 DEF TablesOf
  <2>2. invalid_thread_id2 \notin HashThreads
    BY DEF RegistryAssumption
  <2>3. \A s \in DOMAIN tables[h] : new[s] = Gone(tables[h][s])
    OBVIOUS
  <2>4. new \in TablesOf(c) /\ DOMAIN new = DOMAIN tables[h]
    BY <1>7, <1>8, <2>1 DEF TablesOf
  <2> HIDE DEF new
  <2> QED BY <1>8, <2>1, <2>2, <2>3, <2>4
<1>10. tables \in Seq(Tables) /\ new \in Tables
  BY <1>9 DEF RegistryTyped, Tables
<1> HIDE DEF new, there
<1>11. /\ tables' \in Seq(Tables) /\ Len(tables') = Len(tables) /\ DOMAIN tables' = DOMAIN tables
       /\ tables'[h] = new /\ \A g \in DOMAIN tables : g # h => tables'[g] = tables[g]
  <2>1. tables \in [1..Len(tables) -> Tables]
    BY <1>2, <1>10
  <2>2. tables' \in [1..Len(tables) -> Tables]
    BY <1>2, <1>4, <1>10, <2>1
  <2>3. tables' \in Seq(Tables) /\ Len(tables') = Len(tables)
    BY <1>2, <2>2
  <2> QED BY <1>3, <1>4, <2>3, <1>10, <2>2, <1>2
<1>12. KeysTold'
  <2> SUFFICES ASSUME NEW g \in DOMAIN tables', NEW s \in DOMAIN tables'[g], NEW u \in HashThreads,
                      tables'[g][s].key = u
               PROVE  /\ registrant'[u].pc \in KeyPlaces
                      /\ tables'[g][s].value = registrant'[u].producer
                      /\ registrant'[u].pc = "exit" => g <= registrant'[u].table
    BY DEF KeysTold
  <2>1. /\ g \in DOMAIN tables /\ s \in DOMAIN tables[g] /\ tables[g][s].key = u
        /\ tables'[g][s].value = tables[g][s].value
        /\ g = h => u # t
    <3>1. CASE g = h
      BY <1>3, <1>9, <1>11, <3>1
    <3>2. CASE g # h
      BY <1>11, <3>2
    <3> QED BY <3>1, <3>2
  <2>2. /\ registrant[u].pc \in KeyPlaces
        /\ tables[g][s].value = registrant[u].producer
        /\ registrant[u].pc = "exit" => g <= registrant[u].table
    BY <2>1 DEF KeysTold
  <2>3. CASE u = t
    <3>1. g \in Int /\ h \in Int /\ g <= h /\ g # h
      BY <1>1, <1>2, <2>1, <2>2, <2>3
    <3> QED BY <1>5, <1>6, <2>1, <2>2, <2>3, <3>1 DEF KeyPlaces
  <2>4. CASE u # t
    BY <1>5, <2>1, <2>2, <2>4 DEF Registrants
  <2> QED BY <2>3, <2>4
<1> QED BY <1>11, <1>12

-----------------------------------------------------------------------------
\* Each step keeps the invariant.
LEMMA RegistryBegins == RegistryAssumption /\ RegistryInit => RegistryInductive
<1> SUFFICES ASSUME RegistryAssumption, RegistryInit
             PROVE  RegistryInductive
  OBVIOUS
<1> DEFINE c == HashCapacity
           new == Table(c)
<1>1. c \in Nat \ {0}
  BY DEF RegistryAssumption
<1>2. [key |-> invalid_thread_id, value |-> NoProducer] \in [key : Ids, value : Nat]
  BY DEF Ids, NoProducer
<1>3. new \in TablesOf(c)
  BY <1>2 DEF Table, TablesOf
<1>4. new \in Tables
  BY <1>1, <1>3 DEF Tables
<1>5. \A s \in DOMAIN new : new[s].key \notin HashThreads
  BY DEF Table, RegistryAssumption
<1> HIDE DEF new
<1>6. tables = <<new>> /\ tables \in Seq(Tables) /\ Len(tables) = 1 /\ tables[1] = new /\ DOMAIN tables = {1}
  BY <1>4 DEF RegistryInit, new
<1>7. DOMAIN registrant = Registrants /\ \A t \in Registrants : registrant[t] = Unborn
  BY DEF RegistryInit, Registrants
<1>8. RegistryTyped
  <2>1. \A t \in Registrants : registrant[t] \in HashPlaces(Len(tables)) /\ registrant[t] \in TokenPlaces
    BY <1>7 DEF HashPlaces, TokenPlaces
  <2>2. hashCount \in Int /\ producers \in Seq([explicit : BOOLEAN, inactive : BOOLEAN])
    BY DEF RegistryInit
  <2> QED BY <1>6, <1>7, <2>1, <2>2 DEF RegistryTyped, Tables, Registrants
<1>9. OwnersTold
  BY <1>7 DEF OwnersTold, Has, Unborn
<1>10. KeysTold
  BY <1>5, <1>6 DEF KeysTold
<1> QED BY <1>8, <1>9, <1>10 DEF RegistryInductive

LEMMA TokenKeeps ==
  ASSUME RegistryInductive, RegistryAssumption, NEW t \in TokenThreads, MakeToken(t) \/ DropToken(t)
  PROVE  RegistryInductive'
<1>1. RegistryTyped /\ OwnersTold /\ KeysTold /\ t \in Registrants /\ t \notin HashThreads
  BY DEF RegistryInductive, Registrants, RegistryAssumption
<1>2. tables' = tables /\ hashCount' = hashCount
  BY DEF MakeToken, DropToken
<1>3. ASSUME NEW there \in TokenPlaces, RegistrantTo(t, there), OwnersTold',
             producers' \in Seq([explicit : BOOLEAN, inactive : BOOLEAN])
      PROVE  RegistryInductive'
  <2>1. /\ DOMAIN registrant' = Registrants /\ registrant'[t] = there
        /\ \A u \in Registrants : u # t => registrant'[u] = registrant[u]
    BY <1>1, <1>3, MovedFacts
  <2>2. KeysTold'
    BY <1>1, <1>2, <1>3, KeysKept
  <2>3. \A u \in HashThreads : registrant'[u] \in HashPlaces(Len(tables)')
    BY <1>1, <1>2, <2>1 DEF RegistryTyped, Registrants
  <2>4. \A u \in TokenThreads : registrant'[u] \in TokenPlaces
    BY <1>1, <1>3, <2>1 DEF RegistryTyped, Registrants
  <2>5. RegistryTyped'
    BY <1>1, <1>2, <1>3, <2>1, <2>3, <2>4 DEF RegistryTyped
  <2> QED BY <1>3, <2>2, <2>5 DEF RegistryInductive
<1>4. CASE MakeToken(t)
  <2>1. PICK p \in 1..Len(producers)+1 : RecycleOrCreate(TRUE, p) /\ RegistrantTo(t, [pc |-> "token", producer |-> p])
    BY <1>4 DEF MakeToken
  <2>2. p \in Nat
    BY <1>1 DEF RegistryTyped
  <2>3. ~Has(t)
    BY <1>1, <1>4, TokenPlaceFacts DEF MakeToken, Live, RegistrantIs
  <2>4. TRUE = (t \in TokenThreads)
    OBVIOUS
  <2>5. RecycleOrCreate(t \in TokenThreads, p)
    BY <2>1, <2>4, Zenon
  <2> DEFINE there == [pc |-> "token", producer |-> p]
  <2>6. there \in TokenPlaces /\ there.producer = p /\ RegistrantTo(t, there)
    BY <2>1, <2>2 DEF TokenPlaces
  <2> HIDE DEF there
  <2>7. OwnersTold' /\ producers' \in Seq([explicit : BOOLEAN, inactive : BOOLEAN])
    BY <1>1, <2>2, <2>3, <2>5, <2>6, OwnersGain
  <2> QED BY <1>3, <2>6, <2>7
<1>5. CASE DropToken(t)
  <2>1. PICK p : p = registrant[t].producer
    OBVIOUS
  <2>2. producers' = [producers EXCEPT ![p].inactive = TRUE] /\ RegistrantTo(t, Unborn)
    BY <1>5, <2>1, Zenon DEF DropToken
  <2>3. Has(t)
    BY <1>1, <1>5, TokenPlaceFacts DEF DropToken, RegistrantIs
  <2>4. OwnersTold' /\ producers' \in Seq([explicit : BOOLEAN, inactive : BOOLEAN])
    BY <1>1, <2>1, <2>2, <2>3, OwnersLose
  <2>5. Unborn \in TokenPlaces
    BY DEF TokenPlaces
  <2> QED BY <1>3, <2>2, <2>4, <2>5
<1> QED BY <1>4, <1>5

\* A thread moves without touching tables or producers.
LEMMA RegistrantMoves ==
  ASSUME RegistryInductive, RegistryAssumption, NEW t \in HashThreads,
         NEW there \in HashPlaces(Len(tables)), RegistrantTo(t, there),
         tables' = tables, producers' = producers, hashCount' \in Int,
         "producer" \in DOMAIN there => Has(t) /\ there.producer = registrant[t].producer,
         \/ registrant[t].pc \notin KeyPlaces
         \/ /\ there.pc \in KeyPlaces /\ there.producer = registrant[t].producer
            /\ there.pc = "exit" => there.table = Len(tables)
  PROVE  RegistryInductive'
<1>1. RegistryTyped /\ OwnersTold /\ KeysTold /\ t \in Registrants
  BY DEF RegistryInductive, Registrants
<1>2. KeysTold'
  BY <1>1, KeysKept
<1>3. OwnersTold'
  BY <1>1, OwnersKept
<1>4. tables \in Seq(Tables) /\ producers \in Seq([explicit : BOOLEAN, inactive : BOOLEAN])
      /\ Len(tables) \in Nat
  BY <1>1 DEF RegistryTyped, Tables
<1>5. RegistryTyped'
  BY <1>1, <1>4, HashTypes
<1> QED BY <1>2, <1>3, <1>5 DEF RegistryInductive

\* A step that leaves tables and producers alone only takes the thread further.
LEMMA QuietKeeps ==
  ASSUME RegistryInductive, RegistryAssumption, NEW t \in HashThreads,
         \/ FirstEnqueue(t) \/ LaterEnqueue(t) \/ CountMe(t) \/ LockResize(t)
         \/ FailToResize(t) \/ ReloadMain(t) \/ ExitThread(t)
  PROVE  RegistryInductive'
<1> DEFINE r == registrant[t]
           n == Len(tables)
<1>1. RegistryTyped /\ hashCount \in Int
  BY DEF RegistryInductive, RegistryTyped
<1>2. /\ Has(t) <=> r.pc \in {"insert", "copy", "registered", "exit"}
      /\ r.pc \in {"count", "room", "resize", "add", "insert", "copy"} => r.main \in 1..n
      /\ r.pc \in {"room", "resize", "add"} => r.n \in Int
      /\ Has(t) => r.producer \in Nat
      /\ n \in Nat \ {0} /\ MainTable = n /\ n \in 1..n /\ n \in 0..n
      /\ r \in HashPlaces(n)
  BY <1>1, HashPlaceFacts DEF MainTable
<1>3. tables' = tables /\ producers' = producers
  BY DEF FirstEnqueue, LaterEnqueue, CountMe, LockResize, FailToResize, ReloadMain, ExitThread
<1>4. hashCount' \in Int
  BY <1>1 DEF FirstEnqueue, LaterEnqueue, CountMe, LockResize, FailToResize, ReloadMain, ExitThread
<1> DEFINE Good(there) == /\ there \in HashPlaces(n) /\ RegistrantTo(t, there)
                          /\ "producer" \in DOMAIN there => Has(t) /\ there.producer = r.producer
                          /\ \/ r.pc \notin KeyPlaces
                             \/ /\ there.pc \in KeyPlaces /\ there.producer = r.producer
                                /\ there.pc = "exit" => there.table = n
<1>5. ASSUME NEW there, Good(there)
      PROVE  RegistryInductive'
  BY <1>3, <1>4, <1>5, RegistrantMoves
<1>6. CASE FirstEnqueue(t)
  <2> DEFINE there == [pc |-> "count", main |-> n]
  <2>1. r.pc = "unborn" /\ RegistrantTo(t, there)
    BY <1>2, <1>6 DEF FirstEnqueue, Live, RegistrantIs
  <2>2. there \in HashPlaces(n)
    BY <1>2 DEF HashPlaces
  <2>3. Good(there)
    BY <2>1, <2>2 DEF KeyPlaces
  <2> QED BY <1>5, <2>3
<1>7. CASE LaterEnqueue(t)
  <2> DEFINE there == [pc |-> "copy", main |-> n, producer |-> r.producer]
  <2>1. r.pc = "registered" /\ RegistrantTo(t, there)
    BY <1>2, <1>7 DEF LaterEnqueue, RegistrantIs
  <2>2. Has(t) /\ r.producer \in Nat
    BY <1>2, <2>1
  <2>3. there \in HashPlaces(n)
    BY <1>2, <2>2 DEF HashPlaces
  <2>4. Good(there)
    BY <2>1, <2>2, <2>3 DEF KeyPlaces
  <2> QED BY <1>5, <2>4
<1>8. CASE CountMe(t)
  <2> DEFINE there == [pc |-> "room", main |-> r.main, n |-> hashCount + 1]
  <2>1. r.pc = "count" /\ RegistrantTo(t, there)
    BY <1>2, <1>8 DEF CountMe, RegistrantIs
  <2>2. there \in [pc : {"room", "resize", "add"}, main : 1..n, n : Int]
    BY <1>1, <1>2, <2>1
  <2>3. Good(there)
    BY <2>1, <2>2 DEF KeyPlaces, HashPlaces
  <2> QED BY <1>5, <2>3
<1>r. ASSUME r.pc \in {"room", "resize", "add"}
      PROVE  r \in [pc : {"room", "resize", "add"}, main : 1..n, n : Int]
  BY <1>r, <1>2 DEF HashPlaces, Unborn
<1>9. CASE LockResize(t)
  <2> DEFINE there == [r EXCEPT !.pc = "resize", !.main = n]
  <2>1. r.pc = "room" /\ RegistrantTo(t, there)
    BY <1>2, <1>9 DEF LockResize, RegistrantIs
  <2>2. there \in [pc : {"room", "resize", "add"}, main : 1..n, n : Int]
    BY <1>2, <1>r, <2>1
  <2>3. Good(there)
    BY <2>1, <2>2 DEF KeyPlaces, HashPlaces
  <2> QED BY <1>5, <2>3
<1>10. CASE FailToResize(t)
  <2>1. r.pc = "resize" /\ RegistrantTo(t, Unborn)
    BY <1>10 DEF FailToResize, RegistrantIs
  <2>2. Good(Unborn)
    BY <2>1 DEF KeyPlaces, HashPlaces, Unborn
  <2> QED BY <1>5, <2>2
<1>11. CASE ReloadMain(t)
  <2> DEFINE there == [r EXCEPT !.pc = "room", !.main = n]
  <2>1. r.pc \in {"room", "add"} /\ RegistrantTo(t, there)
    BY <1>2, <1>11 DEF ReloadMain, RegistrantIs
  <2>2. there \in [pc : {"room", "resize", "add"}, main : 1..n, n : Int]
    BY <1>2, <1>r, <2>1
  <2>3. Good(there)
    BY <2>1, <2>2 DEF KeyPlaces, HashPlaces
  <2> QED BY <1>5, <2>3
<1>12. CASE ExitThread(t)
  <2> DEFINE there == [pc |-> "exit", table |-> n, producer |-> r.producer]
  <2>1. r.pc = "registered" /\ RegistrantTo(t, there)
    BY <1>2, <1>12 DEF ExitThread, RegistrantIs
  <2>2. Has(t) /\ r.producer \in Nat
    BY <1>2, <2>1
  <2>3. there \in HashPlaces(n)
    BY <1>2, <2>2 DEF HashPlaces
  <2>4. Good(there)
    BY <2>1, <2>2, <2>3 DEF KeyPlaces
  <2> QED BY <1>5, <2>4
<1> QED BY <1>6, <1>7, <1>8, <1>9, <1>10, <1>11, <1>12

LEMMA ResizeKeeps ==
  ASSUME RegistryInductive, RegistryAssumption, NEW t \in HashThreads, Resize(t)
  PROVE  RegistryInductive'
<1> DEFINE r == registrant[t]
           n == Len(tables)
<1>1. RegistryTyped /\ OwnersTold /\ KeysTold /\ hashCount' = hashCount /\ hashCount \in Int
      /\ producers' = producers /\ r.pc = "resize" /\ t \in Registrants
  BY DEF RegistryInductive, RegistryTyped, Resize, RegistrantIs, Registrants
<1>2. /\ ~Has(t) /\ r.main \in 1..n /\ n \in Nat \ {0} /\ MainTable = n
      /\ r \in [pc : {"room", "resize", "add"}, main : 1..n, n : Int]
  <2>1. /\ ~Has(t) /\ r.main \in 1..n /\ n \in Nat \ {0} /\ r \in HashPlaces(n)
    BY <1>1, HashPlaceFacts
  <2> QED BY <1>1, <2>1 DEF HashPlaces, Unborn, MainTable
<1>3. tables \in Seq(Tables) /\ producers \in Seq([explicit : BOOLEAN, inactive : BOOLEAN])
  BY <1>1 DEF RegistryTyped, Tables
<1>4. CASE TooFull(r.n, r.main)
  <2>1. PICK c \in 1..4 * (CapacityOf(r.main) + r.n) : tables' = Append(tables, Table(c))
    BY <1>4 DEF Resize
  <2>2. PICK d \in Nat \ {0} : tables[r.main] \in TablesOf(d)
    BY <1>1, <1>2, TableSize DEF RegistryTyped
  <2>3. CapacityOf(r.main) = d
    <3>1. DOMAIN tables[r.main] = 0..d-1
      BY <2>2 DEF TablesOf
    <3>2. Cardinality(0..d-1) = d
      BY FS_Interval
    <3> QED BY <3>1, <3>2 DEF CapacityOf
  <2>4. c \in Nat \ {0}
    BY <1>2, <2>1, <2>3
  <2> PICK m : m = n + 1
    OBVIOUS
  <2>m. m \in Nat /\ m \in 1..m
    BY <1>2
  <2> DEFINE there == [r EXCEPT !.pc = "add", !.main = m]
  <2>5. RegistrantTo(t, there)
    BY <1>2, <1>4 DEF Resize
  <2>6. there \in [pc : {"room", "resize", "add"}, main : 1..m, n : Int]
    BY <1>2, <2>m
  <2>7. "producer" \notin DOMAIN there /\ there \in HashPlaces(m)
    BY <2>6 DEF HashPlaces
  <2> HIDE DEF there
  <2>8. KeysTold' /\ tables' \in Seq(Tables) /\ Len(tables)' = n + 1
    BY <1>1, <2>1, <2>4, <2>5, KeysGrow DEF KeyPlaces
  <2>9. OwnersTold'
    BY <1>1, <2>5, <2>7, OwnersKept
  <2>10. n <= Len(tables)' /\ there \in HashPlaces(Len(tables)')
    BY <1>2, <2>7, <2>8
  <2>11. RegistryTyped'
    BY <1>1, <1>3, <2>5, <2>8, <2>10, HashTypes
  <2> QED BY <2>8, <2>9, <2>11 DEF RegistryInductive
<1>5. CASE ~TooFull(r.n, r.main)
  <2> DEFINE there == [r EXCEPT !.pc = "add"]
  <2>1. RegistrantTo(t, there) /\ tables' = tables
    BY <1>5 DEF Resize
  <2>2. there \in [pc : {"room", "resize", "add"}, main : 1..n, n : Int]
    BY <1>2
  <2>3. "producer" \notin DOMAIN there /\ there \in HashPlaces(n)
    BY <2>2 DEF HashPlaces
  <2> HIDE DEF there
  <2> QED BY <1>1, <2>1, <2>3, RegistrantMoves DEF KeyPlaces
<1> QED BY <1>4, <1>5

LEMMA RecycleKeeps ==
  ASSUME RegistryInductive, RegistryAssumption, NEW t \in HashThreads, Recycle(t)
  PROVE  RegistryInductive'
<1> DEFINE r == registrant[t]
           n == Len(tables)
<1>1. RegistryTyped /\ OwnersTold /\ KeysTold /\ hashCount' = hashCount /\ hashCount \in Int
      /\ tables' = tables /\ r.pc \in {"room", "add"} /\ t \in Registrants
  BY DEF RegistryInductive, RegistryTyped, Recycle, RegistrantIs, Registrants
<1>2. ~Has(t) /\ r.main \in 1..n /\ n \in Nat \ {0}
  BY <1>1, HashPlaceFacts
<1>3. PICK p \in 1..Len(producers)+1 :
        RecycleOrCreate(FALSE, p) /\ RegistrantTo(t, [pc |-> "insert", main |-> r.main, producer |-> p])
  BY DEF Recycle
<1>4. p \in Nat
  BY <1>1 DEF RegistryTyped
<1>5. FALSE = (t \in TokenThreads)
  BY DEF RegistryAssumption
<1>6. RecycleOrCreate(t \in TokenThreads, p)
  BY <1>3, <1>5, Zenon
<1> DEFINE there == [pc |-> "insert", main |-> r.main, producer |-> p]
<1>7. there \in HashPlaces(n) /\ there.producer = p /\ there.pc = "insert"
  BY <1>2, <1>4 DEF HashPlaces
<1>8. RegistrantTo(t, there)
  BY <1>3
<1> HIDE DEF there
<1>9. OwnersTold' /\ producers' \in Seq([explicit : BOOLEAN, inactive : BOOLEAN])
  BY <1>1, <1>2, <1>4, <1>6, <1>7, <1>8, OwnersGain
<1>10. KeysTold'
  BY <1>1, <1>8, KeysKept DEF KeyPlaces
<1>11. tables \in Seq(Tables) /\ n \in Nat
  BY <1>1, <1>2 DEF RegistryTyped, Tables
<1>12. RegistryTyped'
  BY <1>1, <1>7, <1>8, <1>9, <1>11, HashTypes
<1> QED BY <1>9, <1>10, <1>12 DEF RegistryInductive

\* A thread enters a table for the first time, or the main one as well.
LEMMA InsertKeeps ==
  ASSUME RegistryInductive, RegistryAssumption, NEW t \in HashThreads, InsertMe(t) \/ CopyToMain(t)
  PROVE  RegistryInductive'
<1> DEFINE r == registrant[t]
           n == Len(tables)
<1>1. RegistryTyped /\ OwnersTold /\ KeysTold /\ hashCount \in Int
      /\ producers' = producers /\ r.pc \in {"insert", "copy"} /\ t \in Registrants
  BY DEF RegistryInductive, RegistryTyped, InsertMe, CopyToMain, RegistrantIs, Registrants
<1>2. hashCount' \in Int
  BY <1>1 DEF InsertMe, CopyToMain
<1>3. Has(t) /\ r.main \in DOMAIN tables /\ r.producer \in Nat /\ n \in Nat \ {0}
  BY <1>1, HashPlaceFacts
<1>4. PICK h \in DOMAIN tables : h = r.main
  BY <1>3
<1>5. PICK p \in Nat : p = r.producer
  BY <1>3
<1> DEFINE there == [pc |-> "registered", producer |-> p]
<1>6. PutIn(h, t, p) /\ Free(h) # {} /\ RegistrantTo(t, there)
  BY <1>4, <1>5 DEF InsertMe, CopyToMain
<1>7. KeysTold' /\ tables' \in Seq(Tables) /\ Len(tables)' = n
  BY <1>1, <1>5, <1>6, KeysPut
<1>8. there \in HashPlaces(n) /\ there.producer = p
  BY DEF HashPlaces
<1> HIDE DEF there
<1>9. OwnersTold'
  BY <1>1, <1>3, <1>5, <1>6, <1>8, OwnersKept
<1>10. producers \in Seq([explicit : BOOLEAN, inactive : BOOLEAN])
  BY <1>1 DEF RegistryTyped
<1>11. RegistryTyped'
  BY <1>1, <1>2, <1>3, <1>6, <1>7, <1>8, <1>10, HashTypes
<1> QED BY <1>7, <1>9, <1>11 DEF RegistryInductive

LEMMA ReleaseKeeps ==
  ASSUME RegistryInductive, RegistryAssumption, NEW t \in HashThreads, ReleaseKey(t)
  PROVE  RegistryInductive'
<1> DEFINE r == registrant[t]
           n == Len(tables)
           there == [r EXCEPT !.table = @ - 1]
<1>1. RegistryTyped /\ OwnersTold /\ KeysTold /\ hashCount' = hashCount /\ hashCount \in Int
      /\ producers' = producers /\ r.pc = "exit" /\ r.table > 0 /\ t \in Registrants
      /\ RegistrantTo(t, there)
  BY DEF RegistryInductive, RegistryTyped, ReleaseKey, RegistrantIs, Registrants
<1>2. Has(t) /\ n \in Nat \ {0} /\ r \in HashPlaces(n)
  BY <1>1, HashPlaceFacts
<1>3. r \in [pc : {"exit"}, table : 0..n, producer : Nat]
  BY <1>1, <1>2 DEF HashPlaces, Unborn
<1>4. there \in [pc : {"exit"}, table : 0..n, producer : Nat] /\ there.producer = r.producer
  BY <1>1, <1>2, <1>3
<1>5. there \in HashPlaces(n)
  BY <1>4 DEF HashPlaces
<1> HIDE DEF there
<1>6. KeysTold' /\ tables' \in Seq(Tables) /\ Len(tables)' = n
  BY <1>1, KeysReleased
<1>7. OwnersTold'
  BY <1>1, <1>2, <1>4, OwnersKept
<1>8. producers \in Seq([explicit : BOOLEAN, inactive : BOOLEAN])
  BY <1>1 DEF RegistryTyped
<1>9. RegistryTyped'
  BY <1>1, <1>2, <1>5, <1>6, <1>8, HashTypes
<1> QED BY <1>6, <1>7, <1>9 DEF RegistryInductive

LEMMA DeactivateKeeps ==
  ASSUME RegistryInductive, RegistryAssumption, NEW t \in HashThreads, DeactivateProducer(t)
  PROVE  RegistryInductive'
<1> DEFINE r == registrant[t]
           n == Len(tables)
<1>1. RegistryTyped /\ OwnersTold /\ KeysTold /\ hashCount' = hashCount /\ hashCount \in Int
      /\ tables' = tables /\ r.pc = "exit" /\ r.table = 0 /\ t \in Registrants
      /\ RegistrantTo(t, Unborn)
  BY DEF RegistryInductive, RegistryTyped, DeactivateProducer, RegistrantIs, Registrants
<1>2. Has(t) /\ n \in Nat \ {0} /\ DOMAIN tables = 1..n
  BY <1>1, HashPlaceFacts
<1>3. PICK p : p = r.producer
  OBVIOUS
<1>4. producers' = [producers EXCEPT ![p].inactive = TRUE]
  BY <1>3, Zenon DEF DeactivateProducer
<1>5. OwnersTold' /\ producers' \in Seq([explicit : BOOLEAN, inactive : BOOLEAN])
  BY <1>1, <1>2, <1>3, <1>4, OwnersLose
<1>6. \A h \in DOMAIN tables : \A s \in DOMAIN tables[h] : tables[h][s].key # t
  <2> SUFFICES ASSUME NEW h \in DOMAIN tables, NEW s \in DOMAIN tables[h], tables[h][s].key = t
               PROVE  FALSE
    OBVIOUS
  <2>1. h <= 0
    BY <1>1 DEF KeysTold
  <2> QED BY <1>2, <2>1
<1>7. KeysTold'
  <2>1. \A u \in Registrants : u # t => registrant'[u] = registrant[u]
    BY <1>1, MovedFacts
  <2> QED BY <1>1, <1>6, <2>1 DEF KeysTold, Registrants
<1>8. tables \in Seq(Tables) /\ Unborn \in HashPlaces(n) /\ n \in Nat
  BY <1>1, <1>2 DEF RegistryTyped, Tables, HashPlaces
<1>9. RegistryTyped'
  BY <1>1, <1>5, <1>8, HashTypes
<1> QED BY <1>5, <1>7, <1>9 DEF RegistryInductive

LEMMA RegistryKeeps ==
  RegistryAssumption /\ RegistryInductive /\ [RegistryNext]_registryVars => RegistryInductive'
<1> SUFFICES ASSUME RegistryAssumption, RegistryInductive, [RegistryNext]_registryVars
             PROVE  RegistryInductive'
  OBVIOUS
<1>1. CASE UNCHANGED registryVars
  BY <1>1 DEF registryVars, RegistryInductive, RegistryTyped, OwnersTold, KeysTold, Has
<1>2. ASSUME NEW t \in TokenThreads, MakeToken(t) \/ DropToken(t)
      PROVE  RegistryInductive'
  BY <1>2, TokenKeeps
<1>3. ASSUME NEW t \in HashThreads,
             \/ FirstEnqueue(t) \/ LaterEnqueue(t) \/ CopyToMain(t) \/ CountMe(t) \/ LockResize(t)
             \/ Resize(t) \/ FailToResize(t) \/ Recycle(t) \/ ReloadMain(t) \/ InsertMe(t)
             \/ ExitThread(t) \/ ReleaseKey(t) \/ DeactivateProducer(t)
      PROVE  RegistryInductive'
  BY <1>3, QuietKeeps, ResizeKeeps, RecycleKeeps, InsertKeeps, ReleaseKeeps, DeactivateKeeps
<1> QED BY <1>1, <1>2, <1>3 DEF RegistryNext

\* However many threads enqueue without a token, make tokens, exit and are born
\* again while the hash table grows: every sub-queue has one producer at a time,
\* the tables lead every thread to its own.
THEOREM OneProducerToASubqueue ==
  RegistryInit /\ [][RegistryNext]_registryVars => []OneProducerEach
<1>1. RegistryInductive => OneProducerEach
  <2> SUFFICES ASSUME RegistryInductive
               PROVE  OneProducerEach
    OBVIOUS
  <2>1. RegistryTyped /\ OwnersTold /\ KeysTold
    BY DEF RegistryInductive
  <2>2. \A t \in HashThreads : \A h \in DOMAIN tables :
          KeyIn(h, t) => Has(t) /\ Producer(h, t) = registrant[t].producer
    <3> SUFFICES ASSUME NEW t \in HashThreads, NEW h \in DOMAIN tables, KeyIn(h, t)
                 PROVE  Has(t) /\ Producer(h, t) = registrant[t].producer
      OBVIOUS
    <3>1. PICK s \in DOMAIN tables[h] : /\ s = CHOOSE z \in DOMAIN tables[h] : tables[h][z].key = t
                                       /\ tables[h][s].key = t
      BY DEF KeyIn
    <3>2. registrant[t].pc \in KeyPlaces /\ tables[h][s].value = registrant[t].producer
      BY <2>1, <3>1 DEF KeysTold
    <3>3. Has(t)
      BY <2>1, <3>2, HashPlaceFacts DEF KeyPlaces
    <3> QED BY <3>1, <3>2, <3>3 DEF Producer
  <2> QED BY <2>1, <2>2 DEF OneProducerEach, OwnersTold, Registrants
<1>2. RegistryInit => RegistryInductive
  BY RegistryBegins, RegistryAssumption
<1>3. RegistryInductive /\ [RegistryNext]_registryVars => RegistryInductive'
  BY RegistryKeeps, RegistryAssumption
<1> QED BY <1>1, <1>2, <1>3, PTL
=============================================================================
