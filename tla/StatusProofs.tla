----------------------------- MODULE StatusProofs -----------------------------
(***************************************************************************)
(* What the status page shows besides presence, the weather and the         *)
(* occupancy of the fields: two components whose names are disjoint, proved *)
(* about side by side.                                                      *)
(*                                                                         *)
(* WeatherCache.  The coalescing cache, for any number of callers, any TTL  *)
(* and any clock bound.  CacheInv is inductive as it stands: the flag       *)
(* mirrors the one thread that fetches, so whoever waits is woken when that *)
(* thread ends.                                                             *)
(*                                                                         *)
(* Occupancy.  For any plans and calendars, any length of the week and of   *)
(* the year, and whenever the clock passes midnight: a day has the events   *)
(* that its weekday has in the plan, once each, and an answer is what the   *)
(* documentation says.  The invariant says of the list that it is the plan, *)
(* its rows parsed each on some day between two, repeated.  What that means *)
(* for a day is arithmetic: the repetitions of a row are a week apart, and  *)
(* one of them falls on each day with its weekday.                          *)
(***************************************************************************)
EXTENDS WeatherCache, Occupancy, FiniteSetTheorems, TLAPS

-------------------------------------------------------------------------------
(* WeatherCache                                                            *)

\* Waking threads neither starts nor ends a fetch, and leaves nobody waiting.
LEMMA WakeFacts ==
    ASSUME NEW f, f \in [Thread -> {"idle", "fetch", "wait", "woken"}]
    PROVE  /\ Wake(f) \in [Thread -> {"idle", "fetch", "wait", "woken"}]
           /\ \A t \in Thread : Wake(f)[t] = "fetch" <=> f[t] = "fetch"
           /\ \A t \in Thread : Wake(f)[t] # "wait"
  BY DEF Wake

LEMMA InitCache == Init => CacheInv
  <1> SUFFICES ASSUME Init PROVE CacheInv
    OBVIOUS
  <1>1. NoFetch \in [weather : Weather \cup {NoWeather}, at : 0..MaxNow \cup {Never}]
    BY DEF NoFetch
  <1>2. 0 \in 0..MaxNow
    BY WeatherCacheAssumption DEF WeatherCacheAssumption
  <1>3. TypeOK
    BY <1>1, <1>2 DEF Init, TypeOK
  <1>4. SingleFlight /\ WaitersAreServed /\ CacheIsLatest
    BY DEF Init, NoFetch, SingleFlight, WaitersAreServed, CacheIsLatest
  <1> QED BY <1>3, <1>4 DEF CacheInv

\* A look under the lock.
LEMMA LookStep ==
    ASSUME CacheInv, NEW t \in Thread, pc[t] \in {"idle", "woken"}, Look(t)
    PROVE  CacheInv'
  <1> USE DEF CacheInv, TypeOK
  <1>1. CASE IsCacheValid
    BY <1>1 DEF Look, Return, SingleFlight, WaitersAreServed, CacheIsLatest
  <1>2. CASE ~IsCacheValid /\ inProgress
    BY <1>2 DEF Look, MustWait, SingleFlight, WaitersAreServed, CacheIsLatest
  <1>3. CASE ~IsCacheValid /\ ~inProgress
    BY <1>3 DEF Look, MustWait, SingleFlight, WaitersAreServed, CacheIsLatest
  <1> QED BY <1>1, <1>2, <1>3

\* A fetch that is over.
LEMMA EndFetchStep ==
    ASSUME CacheInv, NEW t \in Thread, EndFetch(t)
    PROVE  /\ pc' \in [Thread -> {"idle", "fetch", "wait", "woken"}]
           /\ inProgress' = FALSE
           /\ \A u \in Thread : pc'[u] \notin {"fetch", "wait"}
  <1> DEFINE f == [pc EXCEPT ![t] = "idle"]
  <1>1. f \in [Thread -> {"idle", "fetch", "wait", "woken"}]
    BY DEF CacheInv, TypeOK
  <1>2. \A u \in Thread : f[u] # "fetch"
    BY DEF CacheInv, TypeOK, SingleFlight, EndFetch
  <1>3. pc' = Wake(f) /\ inProgress' = FALSE
    BY DEF EndFetch
  <1> HIDE DEF f
  <1> QED BY <1>1, <1>2, <1>3, WakeFacts

LEMMA NextCache == CacheInv /\ [Next]_vars => CacheInv'
  <1> SUFFICES ASSUME CacheInv, [Next]_vars PROVE CacheInv'
    OBVIOUS
  <1>1. ASSUME NEW t \in Thread, GetCondition(t) PROVE CacheInv'
    BY <1>1, LookStep DEF GetCondition
  <1>2. ASSUME NEW t \in Thread, WakeUp(t) PROVE CacheInv'
    BY <1>2, LookStep DEF WakeUp
  <1>3. ASSUME NEW t \in Thread, NEW w \in Weather \cup {NoWeather}, Fetched(t, w) PROVE CacheInv'
    <2>1. EndFetch(t)
      BY <1>3 DEF Fetched
    <2> QED
      BY <1>3, <2>1, EndFetchStep
         DEF Fetched, Fill, Return, CacheInv, TypeOK, SingleFlight, WaitersAreServed, CacheIsLatest
  <1>4. ASSUME NEW t \in Thread, FetchRaises(t) PROVE CacheInv'
    <2>1. EndFetch(t)
      BY <1>4 DEF FetchRaises
    <2> QED
      BY <1>4, <2>1, EndFetchStep
         DEF FetchRaises, CacheInv, TypeOK, SingleFlight, WaitersAreServed, CacheIsLatest
  <1>5. CASE InvalidateCache
    <2>1. pc' = Wake(pc) /\ pc \in [Thread -> {"idle", "fetch", "wait", "woken"}]
      BY <1>5 DEF InvalidateCache, CacheInv, TypeOK
    <2> QED
      BY <1>5, <2>1, WakeFacts
         DEF InvalidateCache, NoFetch, CacheInv, TypeOK, SingleFlight, WaitersAreServed, CacheIsLatest
  <1>6. CASE Tick
    BY <1>6, WeatherCacheAssumption
       DEF WeatherCacheAssumption, Tick, CacheInv, TypeOK, SingleFlight, WaitersAreServed, CacheIsLatest
  <1>7. CASE UNCHANGED vars
    BY <1>7 DEF vars, CacheInv, TypeOK, SingleFlight, WaitersAreServed, CacheIsLatest
  <1> QED BY <1>1, <1>2, <1>3, <1>4, <1>5, <1>6, <1>7 DEF Next, FetchEnds

\* At most one thread fetches, no wake-up is lost, and the cached weather and
\* its timestamp belong together.
THEOREM CacheInvariant == Spec => []CacheInv
  BY InitCache, NextCache, PTL DEF Spec

\* A call returns the outcome of the latest fetch, and a recent one.
THEOREM RecentAnswers == Spec => AnswersAreRecent
  <1> DEFINE Recent ==
        \A t \in Thread : answer'[t] # answer[t] =>
            /\ latest'.at # Never
            /\ answer'[t].weather = latest'.weather
            /\ now - latest'.at < TTL \/ latest'.at = now
  <1>1. CacheInv /\ [Next]_vars => [Recent]_vars
    <2> SUFFICES ASSUME CacheInv, [Next]_vars PROVE Recent \/ UNCHANGED vars
      BY DEF Recent
    <2>1. ASSUME NEW t \in Thread, Look(t) PROVE Recent
      BY <2>1 DEF Look, Return, IsCacheValid, CacheInv, TypeOK, CacheIsLatest
    <2>2. ASSUME NEW t \in Thread, NEW w \in Weather \cup {NoWeather}, Fetched(t, w) PROVE Recent
      BY <2>2, WeatherCacheAssumption DEF WeatherCacheAssumption, Fetched, Return, CacheInv, TypeOK
    <2>3. ASSUME NEW t \in Thread, FetchRaises(t) PROVE Recent
      BY <2>3 DEF FetchRaises
    <2>4. CASE InvalidateCache
      BY <2>4 DEF InvalidateCache
    <2>5. CASE Tick
      BY <2>5 DEF Tick
    <2> QED
      BY <2>1, <2>2, <2>3, <2>4, <2>5 DEF Next, FetchEnds, GetCondition, WakeUp
  <1> QED BY <1>1, CacheInvariant, PTL DEF Spec, AnswersAreRecent

\* Between two fetches there is a TTL, an invalidation or an exception.
THEOREM FetchesAreSpaced == Spec => NoHammering
  <1> DEFINE Spaced ==
        \A t \in Thread : pc[t] # "fetch" /\ pc'[t] = "fetch" =>
            latest.at = Never \/ now - latest.at >= TTL
  <1>1. CacheInv /\ [Next]_vars => [Spaced]_vars
    <2> SUFFICES ASSUME CacheInv, [Next]_vars PROVE Spaced \/ UNCHANGED vars
      BY DEF Spaced
    <2>1. ASSUME NEW t \in Thread, Look(t) PROVE Spaced
      BY <2>1, WeatherCacheAssumption DEF WeatherCacheAssumption, Look, IsCacheValid, CacheInv, TypeOK, CacheIsLatest
    <2>2. ASSUME NEW t \in Thread, EndFetch(t) PROVE Spaced
      BY <2>2, EndFetchStep
    <2>3. CASE InvalidateCache
      BY <2>3, WakeFacts DEF InvalidateCache, CacheInv, TypeOK
    <2>4. CASE Tick
      BY <2>4 DEF Tick
    <2> QED
      BY <2>1, <2>2, <2>3, <2>4 DEF Next, FetchEnds, Fetched, FetchRaises, GetCondition, WakeUp
  <1> QED BY <1>1, CacheInvariant, PTL DEF Spec, NoHammering

-------------------------------------------------------------------------------
(* Occupancy: counting up                                                  *)

\* A set of numbers that is not empty has a least one.  (Its members up to n,
\* one of them, give finite intervals, which strict inclusion orders well.)
LEMMA Least == ASSUME NEW T, T \subseteq Nat, T # {} PROVE \E x \in T : \A y \in T : x <= y
  <1>1. PICK n \in T : TRUE
    OBVIOUS
  <1> DEFINE U == {0..k : k \in {j \in T : j <= n}}
  <1>2. U \subseteq SUBSET (0..n) /\ 0..n \in U
    BY <1>1
  <1>3. IsWellFoundedOn(StrictSubsetOrdering(0..n), SUBSET (0..n))
    <2>1. IsFiniteSet(0..n)
      BY <1>1, FS_Interval
    <2> QED BY <2>1, FS_StrictSubsetOrderingWellFounded, FS_FiniteSubsetsOfFinite
  <1>4. PICK x \in U : \A y \in U : <<y, x>> \notin StrictSubsetOrdering(0..n)
    <2> HIDE DEF U
    <2> QED BY <1>2, <1>3, WFMin
  <1>5. PICK k \in T : k <= n /\ x = 0..k
    BY <1>4
  <1>6. ASSUME NEW y \in T, ~(k <= y) PROVE FALSE
    <2>1. 0..y \in U
      BY <1>1, <1>5, <1>6
    <2>2. 0..y \subseteq x /\ 0..y # x
      BY <1>1, <1>5, <1>6
    <2>3. <<0..y, x>> \in StrictSubsetOrdering(0..n)
      BY <1>2, <1>4, <2>1, <2>2 DEF StrictSubsetOrdering
    <2> QED BY <1>4, <2>1, <2>3
  <1> QED BY <1>5, <1>6

\* Induction over the numbers up to n, for what can be said of them as a set.
LEMMA CountingUp ==
  ASSUME NEW n \in Nat, NEW G, 0 \in G, \A m \in 1..n : m - 1 \in G => m \in G
  PROVE  0..n \subseteq G
  <1> DEFINE T == 0..n \ G
  <1>1. SUFFICES ASSUME T # {} PROVE FALSE
    OBVIOUS
  <1>2. PICK m \in T : \A k \in T : m <= k
    <2>1. T \subseteq Nat
      OBVIOUS
    <2> HIDE DEF T
    <2> QED BY <1>1, <2>1, Least
  <1>3. m \in 1..n /\ m - 1 \in 0..n /\ m - 1 \notin T
    BY <1>2
  <1> QED BY <1>2, <1>3

-------------------------------------------------------------------------------
(* Occupancy: days and weekdays                                            *)

LEMMA Bounds == WeekLength \in Nat \ {0} /\ Year \in Nat /\ Year >= WeekLength /\ MaxDay \in Nat /\ MaxRound \in Nat
  BY OccupancyAssumption DEF OccupancyAssumption

\* Euclid: quotient and remainder, and that there are no others.
LEMMA Division ==
  ASSUME NEW n \in Nat \ {0}, NEW x \in Int
  PROVE  x % n \in 0..(n - 1) /\ x \div n \in Int /\ x = n * (x \div n) + (x % n)
  OBVIOUS

LEMMA OneDivision ==
  ASSUME NEW n \in Nat \ {0}, NEW x \in Int, NEW q \in Int, NEW r \in 0..(n - 1), x = n * q + r
  PROVE  r = x % n
  BY Division

\* DateOf is the one day of the week from today on that has the weekday.
LEMMA DateFacts ==
  ASSUME NEW w \in 0..(WeekLength - 1), NEW t \in Nat
  PROVE  DateOf(w, t) \in t..(t + WeekLength - 1) /\ DateOf(w, t) % WeekLength = w
  <1>1. WeekLength \in Nat \ {0}
    BY Bounds
  <1>2. w - t \in Int /\ w \in Nat /\ t \in Nat
    BY <1>1
  <1> DEFINE r == (w - t) % WeekLength
             q == (w - t) \div WeekLength
  <1>3. r \in 0..(WeekLength - 1) /\ w - t = WeekLength * q + r /\ q \in Int
    BY <1>1, <1>2, Division
  <1>4. DateOf(w, t) = t + r
    BY DEF DateOf
  <1> HIDE DEF r, q
  <1>5. DateOf(w, t) \in t..(t + WeekLength - 1)
    BY <1>1, <1>2, <1>3, <1>4
  <1>6. t + r = WeekLength * (0 - q) + w
    <2>1. WeekLength * q + WeekLength * (0 - q) = 0
      BY <1>1, <1>3
    <2> QED BY <1>1, <1>2, <1>3, <2>1
  <1>7. w = (t + r) % WeekLength
    <2>1. t + r \in Int /\ 0 - q \in Int
      BY <1>1, <1>2, <1>3
    <2> QED BY <1>1, <1>6, <2>1, OneDivision
  <1> QED BY <1>4, <1>5, <1>7

-------------------------------------------------------------------------------
(* Occupancy: sorting                                                      *)

Entry == Weekly \cup Special

LEMMA EntryFacts ==
  ASSUME NEW e \in Entry
  PROVE  e.date \in Int /\ e.from \in Int
  <1>1. e \in Weekly => e.date \in Nat /\ e.from \in Hours
    BY DEF Weekly
  <1>2. e \in Special => e.date \in Int /\ e.from \in Hours
    BY DEF Special
  <1>3. \A h \in Hours : h \in Int
    BY DEF Hours
  <1> QED BY <1>1, <1>2, <1>3 DEF Entry

\* The order in which events are sorted is a strict total order.
LEMMA BeforeIsOrder ==
  ASSUME NEW s \in Seq(Entry)
  PROVE  /\ \A i \in DOMAIN s : ~GoesBefore(s, i, i)
         /\ \A i, j \in DOMAIN s : i = j \/ GoesBefore(s, i, j) \/ GoesBefore(s, j, i)
         /\ \A i, j, k \in DOMAIN s : GoesBefore(s, i, j) /\ GoesBefore(s, j, k) => GoesBefore(s, i, k)
         /\ \A i, j \in DOMAIN s : GoesBefore(s, i, j) => ~EarlierDay(s[j], s[i])
  <1>1. \A i \in DOMAIN s : i \in Int /\ s[i].date \in Int /\ s[i].from \in Int
    <2>1. \A i \in DOMAIN s : i \in Int /\ s[i] \in Entry
      OBVIOUS
    <2> QED BY <2>1, EntryFacts
  <1> QED BY <1>1 DEF GoesBefore, EarlierDay

\* SortedByBegin permutes, and leaves none before one that it goes after.
LEMMA Sorting ==
  ASSUME NEW s \in Seq(Entry)
  PROVE  \E p \in [1..Len(s) -> 1..Len(s)] :
            /\ \A i, j \in 1..Len(s) : p[i] = p[j] => i = j
            /\ \A i \in 1..Len(s) : \E k \in 1..Len(s) : p[k] = i
            /\ SortedByBegin(s) = [k \in 1..Len(s) |-> s[p[k]]]
            /\ \A j, k \in 1..Len(s) : j < k => GoesBefore(s, p[j], p[k])
  <1> DEFINE n == Len(s)
             D == 1..n
             before(i) == {j \in D : GoesBefore(s, j, i)}
             place == [i \in D |-> Cardinality(before(i)) + 1]
             p == [k \in D |-> CHOOSE i \in D : Cardinality(before(i)) + 1 = k]
  <1>1. n \in Nat /\ DOMAIN s = D /\ IsFiniteSet(D) /\ Cardinality(D) = n
    <2>1. n \in Nat /\ DOMAIN s = D
      OBVIOUS
    <2> HIDE DEF n
    <2> QED BY <2>1, FS_Interval
  <1>2. /\ \A i \in D : ~GoesBefore(s, i, i)
        /\ \A i, j \in D : i = j \/ GoesBefore(s, i, j) \/ GoesBefore(s, j, i)
        /\ \A i, j, k \in D : GoesBefore(s, i, j) /\ GoesBefore(s, j, k) => GoesBefore(s, i, k)
    BY <1>1, BeforeIsOrder
  <1> HIDE DEF n
  <1>3. \A i \in D : IsFiniteSet(before(i)) /\ Cardinality(before(i)) \in 0..(n - 1)
    <2> TAKE i \in D
    <2>1. before(i) \subseteq D /\ before(i) # D
      BY <1>2
    <2> HIDE DEF before, D
    <2>2. IsFiniteSet(before(i)) /\ Cardinality(before(i)) <= n /\ Cardinality(before(i)) # n
      BY <1>1, <2>1, FS_Subset
    <2> QED BY <1>1, <2>2, FS_CardinalityType
  <1>4. \A i, j \in D : GoesBefore(s, i, j) => place[i] < place[j]
    <2> SUFFICES ASSUME NEW i \in D, NEW j \in D, GoesBefore(s, i, j) PROVE place[i] < place[j]
      OBVIOUS
    <2>1. before(i) \subseteq before(j) /\ before(i) # before(j)
      BY <1>2
    <2>2. place[i] = Cardinality(before(i)) + 1 /\ place[j] = Cardinality(before(j)) + 1
      OBVIOUS
    <2> HIDE DEF before, D, place
    <2>3. Cardinality(before(i)) <= Cardinality(before(j)) /\ Cardinality(before(i)) # Cardinality(before(j))
      BY <1>3, <2>1, FS_Subset
    <2> QED BY <1>1, <1>3, <2>2, <2>3
  <1>5. place \in [D -> D]
    <2> HIDE DEF before
    <2> QED BY <1>1, <1>3
  <1> HIDE DEF place, before
  <1>6. \A i, j \in D : place[i] = place[j] => i = j
    <2>1. \A i \in D : place[i] \in Int
      BY <1>1, <1>5
    <2> QED BY <1>2, <1>4, <2>1
  <1>7. \A k \in D : \E i \in D : place[i] = k
    <2> HIDE DEF D
    <2>1. place \in Injection(D, D)
      BY <1>5, <1>6 DEF Injection, IsInjective
    <2>2. place \in Surjection(D, D)
      BY <1>1, <2>1, FS_Injection
    <2> QED BY <2>2 DEF Surjection
  <1>8. \A k \in D : p[k] \in D /\ place[p[k]] = k
    <2>1. \A i \in D : place[i] = Cardinality(before(i)) + 1
      BY DEF place
    <2> QED BY <1>7, <2>1
  <1>9. SortedByBegin(s) = [k \in D |-> s[p[k]]]
    BY <1>1 DEF SortedByBegin, before
  <1> HIDE DEF p
  <1>10. p \in [D -> D]
    BY <1>8 DEF p
  <1>11. \A i \in D : place[i] \in D /\ p[place[i]] = i
    BY <1>5, <1>6, <1>8
  <1>12. \A j, k \in D : j < k => GoesBefore(s, p[j], p[k])
    BY <1>1, <1>2, <1>4, <1>8
  <1> QED BY <1>8, <1>9, <1>10, <1>11, <1>12 DEF n

\* So the events stay what they are.
LEMMA SortedSeq ==
  ASSUME NEW S, S \subseteq Entry, NEW s \in Seq(S)
  PROVE  /\ SortedByBegin(s) \in Seq(S) /\ Len(SortedByBegin(s)) = Len(s)
         /\ ToSet(SortedByBegin(s)) = ToSet(s)
         /\ \A j, k \in 1..Len(s) : j < k => ~EarlierDay(SortedByBegin(s)[k], SortedByBegin(s)[j])
  <1>1. s \in Seq(Entry) /\ DOMAIN s = 1..Len(s) /\ Len(s) \in Nat
    OBVIOUS
  <1>2. PICK p \in [1..Len(s) -> 1..Len(s)] :
            /\ \A i \in 1..Len(s) : \E k \in 1..Len(s) : p[k] = i
            /\ SortedByBegin(s) = [k \in 1..Len(s) |-> s[p[k]]]
            /\ \A j, k \in 1..Len(s) : j < k => GoesBefore(s, p[j], p[k])
    BY <1>1, Sorting
  <1> DEFINE t == SortedByBegin(s)
  <1>3. t = [k \in 1..Len(s) |-> s[p[k]]]
    BY <1>2
  <1> HIDE DEF t
  <1>4. t \in Seq(S) /\ Len(t) = Len(s)
    BY <1>1, <1>3
  <1>5. ToSet(t) = ToSet(s)
    BY <1>1, <1>2, <1>3, <1>4 DEF ToSet
  <1>6. \A j, k \in 1..Len(s) : j < k => ~EarlierDay(t[k], t[j])
    BY <1>1, <1>2, <1>3, BeforeIsOrder
  <1> QED BY <1>4, <1>5, <1>6 DEF t

-------------------------------------------------------------------------------
(* Occupancy: the events of a day, and what a request is answered          *)

\* OfDay picks events of a list.  (The function it is defined by exists: it is
\* extended by one position at a time.)
LEMMA OfDaySeq ==
  ASSUME NEW S, NEW s \in Seq(S), NEW d
  PROVE  OfDay(s, d) \in Seq(S)
  <1> DEFINE n == Len(s)
             Longer(t, i) == IF s[i].date = d THEN Append(t, s[i]) ELSE t
             IsFound(f, m) == f = [i \in 0..m |-> IF i = 0 THEN <<>> ELSE Longer(f[i - 1], i)]
  <1>1. n \in Nat /\ \A i \in 1..n : s[i] \in S
    OBVIOUS
  <1>2. \E f : IsFound(f, n)
    <2> DEFINE G == {m \in 0..n : \E f : IsFound(f, m)}
    <2>1. 0 \in G
      <3>1. IsFound([i \in 0..0 |-> <<>>], 0)
        OBVIOUS
      <3> HIDE DEF IsFound
      <3> QED BY <1>1, <3>1
    <2>2. ASSUME NEW m \in 1..n, m - 1 \in G PROVE m \in G
      <3>1. PICK f : IsFound(f, m - 1)
        BY <2>2
      <3> DEFINE g == [i \in 0..m |-> IF i = m THEN Longer(f[m - 1], m) ELSE f[i]]
      <3>2. m \in Nat /\ m # 0
        BY <1>1
      <3>3. ASSUME NEW i \in 0..m PROVE g[i] = IF i = 0 THEN <<>> ELSE Longer(g[i - 1], i)
        <4> HIDE DEF Longer, n
        <4>1. CASE i = m
          BY <3>2, <4>1
        <4>2. CASE i # m
          <5>1. f[i] = IF i = 0 THEN <<>> ELSE Longer(f[i - 1], i)
            BY <3>1, <3>2, <4>2
          <5>2. g[i] = f[i] /\ (i # 0 => g[i - 1] = f[i - 1])
            BY <3>2, <4>2
          <5> HIDE DEF g
          <5> QED BY <5>1, <5>2
        <4> QED BY <4>1, <4>2
      <3>4. IsFound(g, m)
        <4> HIDE DEF Longer, n
        <4>1. g = [i \in 0..m |-> g[i]]
          OBVIOUS
        <4> HIDE DEF g
        <4> QED BY <3>3, <4>1
      <3> HIDE DEF IsFound
      <3> QED BY <1>1, <3>4
    <2> HIDE DEF G
    <2>3. 0..n \subseteq G
      BY <1>1, <2>1, <2>2, CountingUp
    <2>4. n \in G
      BY <1>1, <2>3
    <2> QED BY <2>4 DEF G
  <1>3. PICK f : IsFound(f, n) /\ OfDay(s, d) = f[n]
    <2> HIDE DEF n
    <2> QED BY <1>2, Zenon DEF OfDay, n
  <1> DEFINE G == {m \in 0..n : f[m] \in Seq(S)}
  <1>4. 0 \in G
    BY <1>1, <1>3
  <1>5. ASSUME NEW m \in 1..n, m - 1 \in G PROVE m \in G
    <2>1. f[m] = Longer(f[m - 1], m)
      <3> HIDE DEF Longer
      <3> QED BY <1>1, <1>3
    <2>2. Longer(f[m - 1], m) \in Seq(S)
      BY <1>1, <1>5
    <2> HIDE DEF Longer
    <2> QED BY <1>1, <2>1, <2>2
  <1> HIDE DEF G, n, IsFound
  <1>6. 0..n \subseteq G
    BY <1>1, <1>4, <1>5, CountingUp
  <1> QED BY <1>1, <1>3, <1>6 DEF G

\* Max is the greatest member of a set of positions.
LEMMA GreatestPosition ==
  ASSUME NEW n \in Nat, NEW u \in SUBSET (1..n), u # {}
  PROVE  Max(u) \in u /\ \A i \in u : i <= Max(u)
  <1> DEFINE T == {k \in 0..n : \A i \in u : i <= k}
  <1>1. PICK k \in T : \A j \in T : k <= j
    <2>1. T \subseteq Nat /\ n \in T
      OBVIOUS
    <2> HIDE DEF T
    <2> QED BY <2>1, Least
  <1>2. k \in u
    <2>1. k \in 0..n /\ \A i \in u : i \in 1..n /\ i <= k
      OBVIOUS
    <2>2. k # 0
      <3>1. PICK i \in u : TRUE
        OBVIOUS
      <3> QED BY <2>1, <3>1
    <2>3. k - 1 \in T \/ k \in u
      BY <2>1, <2>2
    <2> HIDE DEF T
    <2> QED BY <1>1, <2>1, <2>3
  <1>3. \E x \in u : \A y \in u : x >= y
    BY <1>2
  <1>4. Max(u) \in u /\ \A y \in u : Max(u) >= y
    BY <1>3 DEF Max
  <1> QED BY <1>4

\* One turn after another: what FoldLeft makes of the first events.
LEMMA Turns ==
  ASSUME NEW b, NEW S, NEW s \in Seq(S)
  PROVE  \E a : /\ a[0] = b
                /\ \A m \in 1..Len(s) : a[m] = AddEvent(a[m - 1], s[m])
                /\ FoldLeft(AddEvent, b, s) = a[Len(s)]
  <1> DEFINE n == Len(s)
             D == 1..n
             Turn(h, u) == IF u = {} THEN b ELSE AddEvent(h[u \ {Max(u)}], s[Max(u)])
             Upto(k) == {u \in SUBSET D : Cardinality(u) <= k}
             IsFold(h, k) == h = [u \in Upto(k) |-> Turn(h, u)]
  <1>1. n \in Nat /\ DOMAIN s = D
    OBVIOUS
  <1> HIDE DEF n
  <1>2. IsFiniteSet(D) /\ Cardinality(D) = n
    BY <1>1, FS_Interval
  <1>3. \A u \in SUBSET D : u # {} => Max(u) \in u /\ u \ {Max(u)} \in SUBSET D
    BY <1>1, GreatestPosition
  <1>4. \A u \in SUBSET D : IsFiniteSet(u) /\ Cardinality(u) \in 0..n
    <2> TAKE u \in SUBSET D
    <2> HIDE DEF D
    <2>1. IsFiniteSet(u) /\ Cardinality(u) <= n
      BY <1>2, FS_Subset
    <2> QED BY <1>1, <2>1, FS_CardinalityType
  <1>5. \A u \in SUBSET D : u # {} => Cardinality(u \ {Max(u)}) = Cardinality(u) - 1
    BY <1>3, <1>4, FS_RemoveElement
  <1> HIDE DEF D
  <1>6. \E h : IsFold(h, n)
    <2> DEFINE G == {k \in 0..n : \E h : IsFold(h, k)}
    <2>1. 0 \in G
      <3>1. \A u \in Upto(0) : u = {}
        BY <1>4, FS_EmptySet
      <3>2. IsFold([u \in Upto(0) |-> b], 0)
        BY <3>1
      <3> HIDE DEF IsFold
      <3> QED BY <1>1, <3>2
    <2>2. ASSUME NEW k \in 1..n, k - 1 \in G PROVE k \in G
      <3>1. PICK f : IsFold(f, k - 1)
        BY <2>2
      <3> DEFINE g == [u \in Upto(k) |-> Turn(f, u)]
      <3>2. ASSUME NEW u \in Upto(k) PROVE g[u] = Turn(g, u)
        <4>1. CASE u = {}
          BY <4>1
        <4>2. CASE u # {}
          <5> DEFINE v == u \ {Max(u)}
          <5>1. v \in Upto(k - 1) /\ v \in Upto(k)
            BY <1>1, <1>3, <1>4, <1>5, <4>2
          <5>2. f[v] = Turn(f, v)
            <6> HIDE DEF Turn, Upto, v
            <6> QED BY <3>1, <5>1
          <5>3. g[v] = Turn(f, v)
            <6> HIDE DEF Turn, Upto, v
            <6> QED BY <5>1
          <5>4. g[u] = Turn(f, u)
            <6> HIDE DEF Turn, Upto
            <6> QED OBVIOUS
          <5> HIDE DEF g, Upto
          <5> QED BY <4>2, <5>2, <5>3, <5>4
        <4> QED BY <4>1, <4>2
      <3>3. IsFold(g, k)
        <4> HIDE DEF Turn, Upto
        <4>1. g = [u \in Upto(k) |-> g[u]]
          OBVIOUS
        <4> HIDE DEF g
        <4> QED BY <3>2, <4>1
      <3> HIDE DEF IsFold
      <3> QED BY <1>1, <3>3
    <2> HIDE DEF G
    <2>3. 0..n \subseteq G
      BY <1>1, <2>1, <2>2, CountingUp
    <2>4. n \in G
      BY <1>1, <2>3
    <2> QED BY <2>4 DEF G
  <1>7. Upto(n) = SUBSET D
    BY <1>1, <1>4
  <1> DEFINE IsIter(h) == h = [u \in SUBSET D |-> Turn(h, u)]
  <1>8. \E h : IsIter(h)
    <2> HIDE DEF Turn, Upto
    <2> QED BY <1>6, <1>7
  <1>9. FoldLeft(AddEvent, b, s) = (CHOOSE h : IsIter(h))[D]
    BY <1>1, Zenon DEF FoldLeft, MapThenFoldSet, D
  <1>10. PICK h : IsIter(h) /\ FoldLeft(AddEvent, b, s) = h[D]
    <2> HIDE DEF IsIter
    <2> QED BY <1>8, <1>9
  <1> DEFINE a == [m \in 0..n |-> h[1..m]]
  <1>11. a[0] = b
    <2>1. 0 \in 0..n /\ 1..0 = {} /\ 1..0 \in SUBSET D
      BY <1>1
    <2>2. h[1..0] = Turn(h, 1..0)
      <3> HIDE DEF Turn
      <3> QED BY <1>10, <2>1
    <2> QED BY <2>1, <2>2
  <1>12. ASSUME NEW m \in 1..n PROVE a[m] = AddEvent(a[m - 1], s[m])
    <2>1. m \in 0..n /\ m - 1 \in 0..n /\ 1..m \in SUBSET D /\ m \in 1..m
      BY <1>1 DEF D
    <2>2. Max(1..m) = m
      <3>1. 1..m # {} /\ 1..m \in SUBSET (1..n)
        BY <2>1 DEF D
      <3>2. Max(1..m) \in 1..m /\ m <= Max(1..m)
        BY <1>1, <2>1, <3>1, GreatestPosition
      <3> QED BY <1>1, <3>2
    <2>3. (1..m) \ {m} = 1..(m - 1)
      BY <1>1
    <2>4. h[1..m] = Turn(h, 1..m)
      <3> HIDE DEF Turn
      <3> QED BY <1>10, <2>1
    <2>5. Turn(h, 1..m) = AddEvent(h[1..(m - 1)], s[m])
      BY <2>1, <2>2, <2>3
    <2> QED BY <2>1, <2>4, <2>5
  <1>13. FoldLeft(AddEvent, b, s) = a[n]
    <2>1. a[n] = h[1..n]
      BY <1>1
    <2> QED BY <1>10, <2>1 DEF D
  <1> HIDE DEF a
  <1> QED BY <1>11, <1>12, <1>13 DEF n

\* What an answer says after the first m of the events in their order.
SaysOf(x, s, m) ==
    /\ x.done \in BOOLEAN
    /\ x.done <=> \E i \in 1..m : Overrules(s[i])
    /\ x.type = IF \E i \in 1..m : s[i].type = "fully" THEN "fully" ELSE "partially"
    /\ x.source = IF \E i \in 1..m : s[i].source = "event calendar" THEN "event calendar" ELSE "weekly plan"
    /\ ~x.done => x.events = [i \in 1..m |-> s[i]]
    /\ x.done => \E k \in 1..m : /\ Overrules(s[k]) /\ x.events = <<s[k]>>
                                 /\ \A i \in 1..m : Overrules(s[i]) => k <= i

\* A turn.
LEMMA TurnSays ==
  ASSUME NEW s \in Seq(Entry), NEW m \in 1..Len(s), NEW x, SaysOf(x, s, m - 1)
  PROVE  SaysOf(AddEvent(x, s[m]), s, m)
  <1> DEFINE o == s[m]
             y == AddEvent(x, o)
  <1>1. m \in Nat /\ \A i : i \in 1..m <=> (i \in 1..(m - 1) \/ i = m)
    OBVIOUS
  <1>2. CASE x.done
    <2>1. y = x
      BY <1>2 DEF AddEvent
    <2>2. PICK k \in 1..(m - 1) : /\ Overrules(s[k]) /\ x.events = <<s[k]>>
                                  /\ \A i \in 1..(m - 1) : Overrules(s[i]) => k <= i
      BY <1>2 DEF SaysOf
    <2>3. k \in 1..m /\ k <= m /\ s[k].type = "fully" /\ s[k].source = "event calendar"
      <3>1. k \in 1..m /\ k <= m
        BY <1>1
      <3>2. Overrules(s[k])
        BY <2>2
      <3> QED BY <3>1, <3>2 DEF Overrules
    <2>4. x.type = "fully" /\ x.source = "event calendar"
      BY <2>2, <2>3 DEF SaysOf
    <2> QED BY <1>1, <1>2, <2>1, <2>2, <2>3, <2>4 DEF SaysOf
  <1>3. CASE ~x.done
    <2>1. /\ y.events = IF Overrules(o) THEN <<o>> ELSE Append(x.events, o)
          /\ y.type = IF o.type = "fully" THEN "fully" ELSE x.type
          /\ y.source = IF o.source = "event calendar" THEN o.source ELSE x.source
          /\ y.done = Overrules(o)
      BY <1>3 DEF AddEvent
    <2>2. \A i \in 1..(m - 1) : ~Overrules(s[i])
      BY <1>3 DEF SaysOf
    <2>3. x.events = [i \in 1..(m - 1) |-> s[i]]
      BY <1>3 DEF SaysOf
    <2>4. /\ x.type = IF \E i \in 1..(m - 1) : s[i].type = "fully" THEN "fully" ELSE "partially"
          /\ x.source = IF \E i \in 1..(m - 1) : s[i].source = "event calendar" THEN "event calendar" ELSE "weekly plan"
      BY DEF SaysOf
    <2> HIDE DEF y
    <2>5. y.done \in BOOLEAN /\ (y.done <=> \E i \in 1..m : Overrules(s[i]))
      BY <1>1, <2>1, <2>2 DEF Overrules
    <2>6. y.type = IF \E i \in 1..m : s[i].type = "fully" THEN "fully" ELSE "partially"
      BY <1>1, <2>1, <2>4
    <2>7. y.source = IF \E i \in 1..m : s[i].source = "event calendar" THEN "event calendar" ELSE "weekly plan"
      BY <1>1, <2>1, <2>4
    <2>8. ~y.done => y.events = [i \in 1..m |-> s[i]]
      <3>1. Append(x.events, o) = [i \in 1..m |-> s[i]]
        BY <1>1, <2>3
      <3> QED BY <2>1, <3>1
    <2>9. y.done => \E k \in 1..m : /\ Overrules(s[k]) /\ y.events = <<s[k]>>
                                    /\ \A i \in 1..m : Overrules(s[i]) => k <= i
      <3>1. SUFFICES ASSUME y.done PROVE Overrules(s[m]) /\ y.events = <<s[m]>> /\ \A i \in 1..m : Overrules(s[i]) => m <= i
        BY <1>1
      <3>2. Overrules(o)
        BY <2>1, <3>1
      <3>3. \A i \in 1..m : Overrules(s[i]) => i = m
        BY <1>1, <2>2
      <3>4. y.events = <<o>>
        BY <2>1, <3>2
      <3>5. \A i \in 1..m : i = m => m <= i
        BY <1>1
      <3> QED BY <3>2, <3>3, <3>4, <3>5
    <2> QED BY <2>5, <2>6, <2>7, <2>8, <2>9 DEF SaysOf, y
  <1>4. x.done \in BOOLEAN
    BY DEF SaysOf
  <1> QED BY <1>2, <1>3, <1>4

\* All turns.
LEMMA FoldSays ==
  ASSUME NEW s \in Seq(Entry), NEW b, SaysOf(b, s, 0)
  PROVE  SaysOf(FoldLeft(AddEvent, b, s), s, Len(s))
  <1>1. Len(s) \in Nat
    OBVIOUS
  <1>2. PICK a : /\ a[0] = b
                 /\ \A m \in 1..Len(s) : a[m] = AddEvent(a[m - 1], s[m])
                 /\ FoldLeft(AddEvent, b, s) = a[Len(s)]
    BY Turns
  <1> DEFINE G == {m \in 0..Len(s) : SaysOf(a[m], s, m)}
  <1>3. 0 \in G
    BY <1>1, <1>2
  <1>4. ASSUME NEW m \in 1..Len(s), m - 1 \in G PROVE m \in G
    BY <1>2, <1>4, TurnSays
  <1> HIDE DEF G
  <1>5. 0..Len(s) \subseteq G
    BY <1>1, <1>3, <1>4, CountingUp
  <1>6. Len(s) \in G
    BY <1>1, <1>5
  <1> QED BY <1>2, <1>6 DEF G

\* What get_occupancy answers for a day, whatever the two lists are.
LEMMA AnswerOf ==
  ASSUME week \in Seq(Weekly), events \in Seq(Special), NEW d
  PROVE  LET says == GetOccupancy(d)
             found == OfDay(week \o events, d)
             overruling == {o \in ToSet(found) : Overrules(o)}
         IN /\ says.type = IF found = <<>> THEN "none"
                             ELSE IF \E o \in ToSet(found) : o.type = "fully" THEN "fully" ELSE "partially"
            /\ says.source = "event calendar" <=> \E o \in ToSet(found) : o.source = "event calendar"
            /\ IF overruling = {}
               THEN /\ ToSet(says.events) = ToSet(found) /\ Len(says.events) = Len(found)
                    /\ IsSorted(says.events, LAMBDA o, p : ~EarlierDay(p, o))
               ELSE /\ Len(says.events) = 1 /\ says.events[1] \in overruling
                    /\ \A o \in overruling : ~EarlierDay(o, says.events[1])
  <1> DEFINE found == OfDay(week \o events, d)
             says == GetOccupancy(d)
             overruling == {o \in ToSet(found) : Overrules(o)}
             start(type) == [events |-> <<>>, type |-> type, source |-> "weekly plan", done |-> FALSE]
             t == SortedByBegin(found)
             n == Len(found)
  <1>1. found \in Seq(Entry)
    <2>1. week \in Seq(Entry) /\ events \in Seq(Entry)
      BY DEF Entry
    <2>2. week \o events \in Seq(Entry)
      BY <2>1
    <2> QED BY <2>2, OfDaySeq
  <1>2. says = IF found = <<>> THEN start("none") ELSE FoldLeft(AddEvent, start("partially"), t)
    BY DEF GetOccupancy
  <1> HIDE DEF found, says
  <1>3. CASE found = <<>>
    <2>1. ToSet(found) = {}
      BY <1>3 DEF ToSet
    <2>2. says = start("none")
      BY <1>2, <1>3
    <2>3. ToSet(says.events) = {} /\ Len(says.events) = 0
      <3>1. says.events = found
        BY <1>3, <2>2
      <3> QED BY <1>3, <2>1, <3>1
    <2>4. says.type = "none" /\ says.source = "weekly plan"
      BY <2>2
    <2>5. IsSorted(says.events, LAMBDA o, p : ~EarlierDay(p, o))
      BY <2>3 DEF IsSorted
    <2>6. overruling = {} /\ Len(found) = 0
      BY <1>3, <2>1
    <2> QED BY <1>3, <2>1, <2>3, <2>4, <2>5, <2>6 DEF found, says
  <1>4. CASE found # <<>>
    <2>1. /\ t \in Seq(Entry) /\ Len(t) = n /\ ToSet(t) = ToSet(found) /\ n \in Nat
          /\ \A j, k \in 1..n : j < k => ~EarlierDay(t[k], t[j])
      BY <1>1, SortedSeq
    <2> HIDE DEF t, n
    <2>2. SaysOf(says, t, n)
      <3> DEFINE b == start("partially")
      <3>1. says = FoldLeft(AddEvent, b, t)
        BY <1>2, <1>4
      <3>2. SaysOf(b, t, 0)
        <4>1. 1..0 = {} /\ b.events = [i \in 1..0 |-> t[i]]
          OBVIOUS
        <4> QED BY <4>1 DEF SaysOf
      <3> HIDE DEF b
      <3> QED BY <2>1, <3>1, <3>2, FoldSays
    <2>3. \A o : o \in ToSet(found) <=> \E i \in 1..n : o = t[i]
      <3>1. ToSet(found) = {t[i] : i \in DOMAIN t} /\ DOMAIN t = 1..n
        <4>1. ToSet(t) = {t[i] : i \in DOMAIN t}
          BY DEF ToSet
        <4> QED BY <2>1, <4>1
      <3> QED BY <3>1
    <2>4. says.type = IF found = <<>> THEN "none"
                        ELSE IF \E o \in ToSet(found) : o.type = "fully" THEN "fully" ELSE "partially"
      <3>1. (\E o \in ToSet(found) : o.type = "fully") <=> \E i \in 1..n : t[i].type = "fully"
        BY <2>3
      <3>2. says.type = IF \E i \in 1..n : t[i].type = "fully" THEN "fully" ELSE "partially"
        BY <2>2 DEF SaysOf
      <3> QED BY <1>4, <3>1, <3>2
    <2>5. says.source = "event calendar" <=> \E o \in ToSet(found) : o.source = "event calendar"
      <3>1. (\E o \in ToSet(found) : o.source = "event calendar") <=> \E i \in 1..n : t[i].source = "event calendar"
        BY <2>3
      <3>2. says.source = IF \E i \in 1..n : t[i].source = "event calendar" THEN "event calendar" ELSE "weekly plan"
        BY <2>2 DEF SaysOf
      <3> QED BY <3>1, <3>2
    <2>6. CASE overruling = {}
      <3>1. says.events = [i \in 1..n |-> t[i]]
        BY <2>2, <2>3, <2>6 DEF SaysOf
      <3>2. says.events = t
        BY <2>1, <3>1
      <3>3. IsSorted(t, LAMBDA o, p : ~EarlierDay(p, o))
        BY <2>1 DEF IsSorted
      <3>4. /\ ToSet(says.events) = ToSet(found) /\ Len(says.events) = Len(found)
            /\ IsSorted(says.events, LAMBDA o, p : ~EarlierDay(p, o))
        BY <2>1, <3>2, <3>3 DEF n
      <3> QED BY <2>4, <2>5, <2>6, <3>4 DEF found, says
    <2>7. CASE overruling # {}
      <3>1. PICK k \in 1..n : /\ Overrules(t[k]) /\ says.events = <<t[k]>>
                              /\ \A i \in 1..n : Overrules(t[i]) => k <= i
        <4>1. \E i \in 1..n : Overrules(t[i])
          BY <2>3, <2>7
        <4> QED BY <2>2, <4>1 DEF SaysOf
      <3>2. Len(says.events) = 1 /\ says.events[1] = t[k] /\ t[k] \in overruling
        BY <2>3, <3>1
      <3>3. ASSUME NEW o \in overruling PROVE ~EarlierDay(o, t[k])
        <4>1. PICK i \in 1..n : o = t[i] /\ k <= i
          BY <2>3, <3>1
        <4>2. CASE i = k
          <5>1. o.date \in Int /\ o.from \in Int
            BY <2>1, <4>1, EntryFacts
          <5> QED BY <4>1, <4>2, <5>1 DEF EarlierDay
        <4>3. CASE i # k
          BY <2>1, <4>1, <4>3
        <4> QED BY <4>2, <4>3
      <3>4. /\ Len(says.events) = 1 /\ says.events[1] \in overruling
            /\ \A o \in overruling : ~EarlierDay(o, says.events[1])
        BY <3>2, <3>3
      <3> QED BY <2>4, <2>5, <2>7, <3>4 DEF found, says
    <2> QED BY <2>6, <2>7
  <1> QED BY <1>3, <1>4

-------------------------------------------------------------------------------
(* Occupancy: the plan repeated                                            *)

\* Multiplication, as the next lemmas use it.
LEMMA Commutes ==
  ASSUME NEW a \in Nat, NEW b \in Nat
  PROVE  a * b \in Nat /\ a * b = b * a
  OBVIOUS

LEMMA Times ==
  ASSUME NEW a \in Nat, NEW b \in Nat, NEW m \in Nat
  PROVE  /\ a * m \in Nat /\ (a + 1) * m = a * m + m
         /\ a <= b => a * m <= b * m
         /\ a < b => a * m + m <= b * m
  <1>1. a * m \in Nat /\ b * m \in Nat /\ (a + 1) * m = a * m + m
    OBVIOUS
  <1>2. a <= b => a * m <= b * m
    <2>1. SUFFICES ASSUME a <= b PROVE a * m <= b * m
      OBVIOUS
    <2>2. (b - a) \in Nat /\ b = a + (b - a)
      BY <2>1
    <2>3. (b - a) * m \in Nat /\ b * m = a * m + (b - a) * m
      BY <2>2
    <2> QED BY <1>1, <2>3
  <1>3. a < b => (a + 1) * m <= b * m
    <2>1. SUFFICES ASSUME a < b PROVE (a + 1) * m <= b * m
      OBVIOUS
    <2>2. b - (a + 1) \in Nat /\ b = (a + 1) + (b - (a + 1))
      BY <2>1
    <2>3. (b - (a + 1)) * m \in Nat /\ b * m = (a + 1) * m + (b - (a + 1)) * m
      BY <2>2
    <2>4. (a + 1) * m \in Nat
      BY <1>1
    <2> QED BY <1>1, <2>3, <2>4
  <1> QED BY <1>1, <1>2, <1>3

\* Each position of w blocks of length m is a position of one block.
LEMMA BlockOf ==
  ASSUME NEW w \in Nat, NEW m \in Nat, NEW k \in 1..(w * m)
  PROVE  \E q \in 0..(w - 1), j \in 1..m : k = q * m + j
  <1>1. w * m \in Nat /\ k \in Nat /\ k >= 1 /\ k <= w * m
    OBVIOUS
  <1>2. m # 0
    <2>1. m = 0 => w * m = 0
      OBVIOUS
    <2> QED BY <1>1, <2>1
  <1> DEFINE q == (k - 1) \div m
             r == (k - 1) % m
  <1>3. r \in 0..(m - 1) /\ q \in Int /\ k - 1 = m * q + r
    BY <1>1, <1>2, Division
  <1> HIDE DEF q, r
  <1>4. q >= 0
    <2>1. CASE q < 0
      <3>1. 0 - q - 1 \in Nat /\ m * (0 - q - 1) \in Nat
        BY <1>3, <2>1
      <3>2. m * (0 - q - 1) = 0 - m * q - m
        BY <1>3
      <3> QED BY <1>1, <1>3, <3>1, <3>2
    <2> QED BY <1>3, <2>1
  <1>5. q < w
    <2>1. CASE w <= q
      <3>1. w * m <= q * m
        BY <1>3, <1>4, <2>1, Times
      <3>2. q * m = m * q
        BY <1>3
      <3> QED BY <1>1, <1>3, <3>1, <3>2
    <2> QED BY <1>3, <2>1
  <1>6. k = q * m + (r + 1)
    <2>1. q * m = m * q /\ m * q \in Int
      BY <1>3
    <2> QED BY <1>1, <1>3, <2>1
  <1>7. q \in 0..(w - 1) /\ r + 1 \in 1..m
    BY <1>3, <1>4, <1>5
  <1> QED BY <1>6, <1>7

\* And of no other.
LEMMA OneBlock ==
  ASSUME NEW m \in Nat, NEW q \in Nat, NEW p \in Nat, NEW i \in 1..m, NEW j \in 1..m, q * m + i = p * m + j
  PROVE  q = p /\ i = j
  <1>1. q * m \in Nat /\ p * m \in Nat
    BY Times
  <1>2. ~(q < p)
    <2>1. q < p => q * m + m <= p * m
      BY Times
    <2> QED BY <1>1, <2>1
  <1>3. ~(p < q)
    <2>1. p < q => p * m + m <= q * m
      BY Times
    <2> QED BY <1>1, <2>1
  <1>4. q = p
    BY <1>2, <1>3
  <1> QED BY <1>1, <1>4

\* Two sequences, one after the other.
LEMMA Joined ==
  ASSUME NEW S, NEW s \in Seq(S), NEW t \in Seq(S)
  PROVE  /\ s \o t \in Seq(S) /\ Len(s \o t) = Len(s) + Len(t)
         /\ \A i \in 1..Len(s) : (s \o t)[i] = s[i]
         /\ \A j \in 1..Len(t) : (s \o t)[Len(s) + j] = t[j]
  OBVIOUS

\* t is n blocks of length m, one after the other.
InBlocks(t, b, n, m) ==
    /\ Len(t) = n * m
    /\ \A q \in 0..(n - 1), j \in 1..m, k \in Nat : k = q * m + j => t[k] = b[q + 1][j]

\* FlattenSeq of blocks of the same length.
LEMMA Flattening ==
  ASSUME NEW S, NEW n \in Nat \ {0}, NEW m \in Nat, NEW b \in [1..n -> Seq(S)], \A i \in 1..n : Len(b[i]) = m
  PROVE  FlattenSeq(b) \in Seq(S) /\ InBlocks(FlattenSeq(b), b, n, m)
  <1> DEFINE Step(f, i) == IF i = 1 THEN b[i] ELSE f[i - 1] \o b[i]
             IsFlat(f, k) == f = [i \in 1..k |-> Step(f, i)]
             Good(t, k) == /\ t \in Seq(S) /\ Len(t) = k * m
                           /\ \A q \in 0..(k - 1), j \in 1..m : t[q * m + j] = b[q + 1][j]
  <1>1. b \in Seq(Seq(S)) /\ Len(b) = n /\ \A i \in 1..n : b[i] \in Seq(S)
    OBVIOUS
  <1>2. \E f : IsFlat(f, n)
    <2> DEFINE G == {k \in 0..n : \E f : IsFlat(f, k)}
    <2>1. 0 \in G
      <3>1. IsFlat([i \in 1..0 |-> <<>>], 0)
        OBVIOUS
      <3> HIDE DEF IsFlat
      <3> QED BY <3>1
    <2>2. ASSUME NEW k \in 1..n, k - 1 \in G PROVE k \in G
      <3>1. PICK f : IsFlat(f, k - 1)
        BY <2>2
      <3> DEFINE g == [i \in 1..k |-> IF i = k THEN Step(f, k) ELSE f[i]]
      <3>2. ASSUME NEW i \in 1..k PROVE g[i] = Step(g, i)
        <4>1. CASE i = k
          <5>1. g[i] = Step(f, k)
            BY <4>1
          <5>2. k # 1 => g[k - 1] = f[k - 1]
            OBVIOUS
          <5> HIDE DEF g
          <5> QED BY <4>1, <5>1, <5>2
        <4>2. CASE i # k
          <5>1. f[i] = Step(f, i)
            <6>1. i \in 1..(k - 1)
              BY <4>2
            <6> HIDE DEF Step
            <6> QED BY <3>1, <6>1
          <5>2. g[i] = f[i] /\ (i # 1 => g[i - 1] = f[i - 1])
            BY <4>2
          <5> HIDE DEF g
          <5> QED BY <5>1, <5>2
        <4> QED BY <4>1, <4>2
      <3>3. IsFlat(g, k)
        <4> HIDE DEF Step
        <4>1. g = [i \in 1..k |-> g[i]]
          OBVIOUS
        <4> HIDE DEF g
        <4> QED BY <3>2, <4>1
      <3> HIDE DEF IsFlat
      <3> QED BY <3>3
    <2> HIDE DEF G
    <2>3. 0..n \subseteq G
      BY <2>1, <2>2, CountingUp
    <2>4. n \in G
      BY <2>3
    <2> QED BY <2>4 DEF G
  <1>3. PICK f : IsFlat(f, n) /\ FlattenSeq(b) = f[n]
    <2>1. Len(b) # 0
      BY <1>1
    <2>2. FlattenSeq(b) = (CHOOSE f : f = [i \in 1..Len(b) |-> Step(f, i)])[Len(b)]
      BY <2>1, Zenon DEF FlattenSeq
    <2> DEFINE c == CHOOSE f : IsFlat(f, n)
    <2>3. FlattenSeq(b) = c[n]
      BY <1>1, <2>2
    <2>4. IsFlat(c, n)
      <3> HIDE DEF IsFlat
      <3> QED BY <1>2
    <2> HIDE DEF IsFlat, c
    <2> QED BY <2>3, <2>4
  <1> DEFINE G == {k \in 0..n : k = 0 \/ Good(f[k], k)}
  <1>4. ASSUME NEW k \in 1..n, k - 1 \in G PROVE k \in G
    <2> HIDE DEF IsFlat
    <2>1. f[k] = Step(f, k)
      <3> HIDE DEF Step, Good
      <3> QED BY <1>3 DEF IsFlat
    <2>2. b[k] \in Seq(S) /\ Len(b[k]) = m
      BY <1>1
    <2>3. CASE k = 1
      <3>1. f[k] = b[1]
        BY <2>1, <2>3
      <3>2. 1 * m = m /\ \A j \in 1..m : 0 * m + j = j
        OBVIOUS
      <3>3. Good(f[k], k)
        BY <2>2, <2>3, <3>1, <3>2
      <3> HIDE DEF Good
      <3> QED BY <3>3
    <2>4. CASE k # 1
      <3>1. f[k] = f[k - 1] \o b[k] /\ k - 1 \in Nat /\ k - 1 # 0
        BY <2>1, <2>4
      <3>2. Good(f[k - 1], k - 1)
        <4> HIDE DEF Good
        <4> QED BY <1>4, <3>1
      <3> DEFINE t == f[k - 1]
      <3>3. /\ t \in Seq(S) /\ Len(t) = (k - 1) * m
            /\ \A q \in 0..(k - 2), j \in 1..m : t[q * m + j] = b[q + 1][j]
        <4>1. (k - 1) - 1 = k - 2
          OBVIOUS
        <4> QED BY <3>2, <4>1
      <3>4. (k - 1) * m \in Nat /\ k * m = (k - 1) * m + m
        <4>1. (k - 1) + 1 = k
          OBVIOUS
        <4> QED BY <3>1, <4>1, Times
      <3> HIDE DEF Good, t
      <3>5. f[k] \in Seq(S) /\ Len(f[k]) = k * m
        <4> DEFINE c == (k - 1) * m
        <4>1. c \in Nat /\ k * m = c + m /\ Len(t) = c /\ t \in Seq(S) /\ f[k] = t \o b[k]
          BY <3>1, <3>3, <3>4 DEF t
        <4> HIDE DEF c
        <4>2. t \o b[k] \in Seq(S) /\ Len(t \o b[k]) = c + m
          BY <2>2, <4>1, Joined
        <4> QED BY <4>1, <4>2
      <3>6. ASSUME NEW q \in 0..(k - 1), NEW j \in 1..m PROVE f[k][q * m + j] = b[q + 1][j]
        <4>1. CASE q = k - 1
          <5>1. (t \o b[k])[(k - 1) * m + j] = b[k][j]
            <6> DEFINE c == (k - 1) * m
            <6>1. c \in Nat /\ Len(t) = c /\ t \in Seq(S)
              BY <3>3, <3>4
            <6> HIDE DEF c
            <6>2. (t \o b[k])[c + j] = b[k][j]
              BY <2>2, <6>1, Joined
            <6> QED BY <6>2 DEF c
          <5>2. q + 1 = k
            BY <4>1
          <5> QED BY <3>1, <4>1, <5>1, <5>2 DEF t
        <4>2. CASE q # k - 1
          <5>1. q \in 0..(k - 2) /\ q < k - 1 /\ q \in Nat
            BY <4>2
          <5>2. q * m \in Nat /\ q * m + m <= (k - 1) * m
            BY <3>1, <5>1, Times
          <5>3. q * m + j \in 1..Len(t)
            <6> DEFINE c == (k - 1) * m
                       x == q * m
            <6>1. c \in Nat /\ x \in Nat /\ x + m <= c /\ Len(t) = c
              BY <3>3, <3>4, <5>2
            <6> HIDE DEF c, x
            <6>2. x + j \in 1..Len(t)
              BY <6>1
            <6> QED BY <6>2 DEF x
          <5>4. (t \o b[k])[q * m + j] = t[q * m + j]
            BY <2>2, <3>3, <5>3
          <5> QED BY <3>1, <3>3, <5>1, <5>4 DEF t
        <4> QED BY <4>1, <4>2
      <3>7. Good(f[k], k)
        BY <3>5, <3>6 DEF Good
      <3> QED BY <3>7
    <2> QED BY <2>3, <2>4
  <1> HIDE DEF G
  <1>5. 0 \in G
    BY DEF G
  <1>6. 0..n \subseteq G
    BY <1>4, <1>5, CountingUp
  <1>7. n \in G
    BY <1>6
  <1>8. Good(f[n], n)
    <2> HIDE DEF Good
    <2> QED BY <1>7 DEF G
  <1> QED BY <1>3, <1>8 DEF InBlocks

LEMMA SomeWeeks == Weeks \in Nat \ {0}
  <1>1. WeekLength \in Nat \ {0} /\ Year \in Nat /\ Year >= WeekLength
    BY Bounds
  <1>2. Weeks \in Int /\ Year % WeekLength < WeekLength /\ Year = WeekLength * Weeks + (Year % WeekLength) /\ Year % WeekLength \in Nat
    BY <1>1, Division DEF Weeks
  <1>3. CASE Weeks <= 0
    <2>1. 0 - Weeks \in Nat /\ WeekLength * (0 - Weeks) \in Nat
      BY <1>1, <1>2, <1>3
    <2>2. WeekLength * (0 - Weeks) = 0 - WeekLength * Weeks /\ WeekLength * Weeks \in Int
      BY <1>1, <1>2
    <2> QED BY <1>1, <1>2, <2>1, <2>2
  <1> QED BY <1>2, <1>3

\* An event some weeks later is still an event.
LEMMA Later ==
  ASSUME NEW e \in Weekly, NEW k \in Nat
  PROVE  /\ [e EXCEPT !.date = @ + k] \in Weekly
         /\ [e EXCEPT !.date = @ + k].date = e.date + k
         /\ [e EXCEPT !.date = @ + k].name = e.name
  <1>1. e.date \in Nat /\ e.date + k \in Nat
    <2>1. e.date \in Nat
      BY DEF Weekly
    <2> QED BY <2>1
  <1> DEFINE n == e.date + k
  <1>2. [e EXCEPT !.date = @ + k] = [e EXCEPT !.date = n]
    OBVIOUS
  <1>3. n \in Nat
    BY <1>1
  <1> HIDE DEF n
  <1>4. [e EXCEPT !.date = n] \in Weekly
    BY <1>3 DEF Weekly
  <1>5. [e EXCEPT !.date = n].date = n /\ [e EXCEPT !.date = n].name = e.name
    BY DEF Weekly
  <1> QED BY <1>2, <1>4, <1>5 DEF n

\* And so is a list of them.
LEMMA Shifting ==
  ASSUME NEW t \in Seq(Weekly), NEW i \in Nat
  PROVE  /\ Shifted(t, i) \in Seq(Weekly) /\ Len(Shifted(t, i)) = Len(t)
         /\ \A j \in 1..Len(t) : /\ Shifted(t, i)[j].date = t[j].date + WeekLength * i
                                 /\ Shifted(t, i)[j].name = t[j].name
  <1>1. WeekLength * i \in Nat
    BY Bounds
  <1>2. Len(t) \in Nat /\ DOMAIN t = 1..Len(t) /\ \A j \in 1..Len(t) : t[j] \in Weekly
    OBVIOUS
  <1>3. Shifted(t, i) = [j \in 1..Len(t) |-> [t[j] EXCEPT !.date = @ + WeekLength * i]]
    BY <1>2 DEF Shifted
  <1>4. \A j \in 1..Len(t) : /\ [t[j] EXCEPT !.date = @ + WeekLength * i] \in Weekly
                             /\ [t[j] EXCEPT !.date = @ + WeekLength * i].date = t[j].date + WeekLength * i
                             /\ [t[j] EXCEPT !.date = @ + WeekLength * i].name = t[j].name
    BY <1>1, <1>2, Later
  <1> DEFINE F(j) == [t[j] EXCEPT !.date = @ + WeekLength * i]
  <1>5. Shifted(t, i) = [j \in 1..Len(t) |-> F(j)] /\ \A j \in 1..Len(t) : F(j) \in Weekly
    BY <1>3, <1>4
  <1>6. \A j \in 1..Len(t) : F(j).date = t[j].date + WeekLength * i /\ F(j).name = t[j].name
    BY <1>4
  <1> HIDE DEF F
  <1> QED BY <1>2, <1>5, <1>6

\* t is the list s of length m, permuted by p, w times, each time a week later.
WeekByWeek(t, s, p, w, m) ==
    \A q \in 0..(w - 1), j \in 1..m, k \in Nat :
        k = q * m + j => t[k].date = s[p[j]].date + WeekLength * q /\ t[k].name = s[p[j]].name

\* The extended list consists of blocks, a week apart, each of which has every
\* event once.
LEMMA ExtendedBlocks ==
  ASSUME NEW s \in Seq(Weekly)
  PROVE  /\ Extended(s) \in Seq(Weekly) /\ Len(Extended(s)) = Repeated(s) * Len(s)
         /\ \E p \in [1..Len(s) -> 1..Len(s)] :
               /\ \A i, j \in 1..Len(s) : p[i] = p[j] => i = j
               /\ \A i \in 1..Len(s) : \E j \in 1..Len(s) : p[j] = i
               /\ WeekByWeek(Extended(s), s, p, Repeated(s), Len(s))
  <1> DEFINE m == Len(s)
             IsPlan(p) ==
               /\ \A i, j \in 1..m : p[i] = p[j] => i = j
               /\ \A i \in 1..m : \E j \in 1..m : p[j] = i
               /\ WeekByWeek(Extended(s), s, p, Repeated(s), m)
             Blocks == /\ Extended(s) \in Seq(Weekly) /\ Len(Extended(s)) = Repeated(s) * m
                       /\ \E p \in [1..m -> 1..m] : IsPlan(p)
  <1> SUFFICES Blocks
    OBVIOUS
  <1>1. m \in Nat /\ DOMAIN s = 1..m /\ \A j \in 1..m : s[j] \in Weekly /\ s[j].date \in Nat
    <2>1. \A e \in Weekly : e.date \in Nat
      BY DEF Weekly
    <2> QED BY <2>1
  <1>2. CASE m >= Year
    <2> DEFINE p == [j \in 1..m |-> j]
    <2>1. Extended(s) = s /\ Repeated(s) = 1
      BY <1>2 DEF Extended, Repeated
    <2>2. 1 * m = m /\ \A j \in 1..m : 0 * m + j = j
      <3>1. m \in Nat
        BY <1>1
      <3> HIDE DEF m
      <3> QED BY <3>1
    <2>3. \A j \in 1..m : s[j].date + WeekLength * 0 = s[j].date
      BY <1>1, Bounds
    <2>4. p \in [1..m -> 1..m] /\ \A j \in 1..m : p[j] = j
      OBVIOUS
    <2>5. \A q \in 0..(1 - 1), j \in 1..m : q = 0
      OBVIOUS
    <2> HIDE DEF p, m
    <2>6. \A q \in 0..(1 - 1), j \in 1..m, k \in Nat :
            k = q * m + j => s[k].date = s[p[j]].date + WeekLength * q /\ s[k].name = s[p[j]].name
      BY <2>2, <2>3, <2>4, <2>5
    <2>7. IsPlan(p)
      <3>1. WeekByWeek(s, s, p, 1, m)
        BY <2>6 DEF WeekByWeek
      <3> QED BY <2>1, <2>4, <3>1
    <2>8. Extended(s) \in Seq(Weekly) /\ Len(Extended(s)) = Repeated(s) * m
      BY <2>1, <2>2 DEF m
    <2> HIDE DEF IsPlan
    <2> QED BY <2>4, <2>7, <2>8
  <1>3. CASE m < Year
    <2> DEFINE t == SortedByBegin(s)
               b == [i \in 1..Weeks |-> Shifted(t, i - 1)]
    <2>1. Extended(s) = FlattenSeq(b) /\ Repeated(s) = Weeks
      BY <1>1, <1>3, Bounds DEF Extended, Repeated
    <2>2. s \in Seq(Entry)
      BY DEF Entry
    <2>3. t \in Seq(Weekly) /\ Len(t) = m
      BY SortedSeq DEF Entry
    <2>4. PICK p \in [1..m -> 1..m] :
            /\ \A i, j \in 1..m : p[i] = p[j] => i = j
            /\ \A i \in 1..m : \E k \in 1..m : p[k] = i
            /\ t = [k \in 1..m |-> s[p[k]]]
      BY <2>2, Sorting
    <2> HIDE DEF t, m
    <2>5. \A i \in 1..Weeks : /\ b[i] \in Seq(Weekly) /\ Len(b[i]) = m
                              /\ \A j \in 1..m : /\ b[i][j].date = t[j].date + WeekLength * (i - 1)
                                                 /\ b[i][j].name = t[j].name
      <3> TAKE i \in 1..Weeks
      <3>1. PICK k \in Nat : k = i - 1
        BY SomeWeeks
      <3>2. b[i] = Shifted(t, k)
        BY <3>1
      <3> HIDE DEF b
      <3>3. /\ b[i] \in Seq(Weekly) /\ Len(b[i]) = m
            /\ \A j \in 1..m : /\ b[i][j].date = t[j].date + WeekLength * k
                               /\ b[i][j].name = t[j].name
        <4>1. /\ Shifted(t, k) \in Seq(Weekly) /\ Len(Shifted(t, k)) = Len(t)
              /\ \A j \in 1..Len(t) : /\ Shifted(t, k)[j].date = t[j].date + WeekLength * k
                                      /\ Shifted(t, k)[j].name = t[j].name
          BY <2>3, Shifting
        <4> QED BY <2>3, <3>2, <4>1, Zenon
      <3> QED BY <3>1, <3>3
    <2>6. /\ FlattenSeq(b) \in Seq(Weekly) /\ Len(FlattenSeq(b)) = Weeks * m
          /\ \A q \in 0..(Weeks - 1), j \in 1..m, k \in Nat : k = q * m + j => FlattenSeq(b)[k] = b[q + 1][j]
      <3>1. b \in [1..Weeks -> Seq(Weekly)] /\ \A i \in 1..Weeks : Len(b[i]) = m
        BY <2>5
      <3>2. m \in Nat
        BY <1>1
      <3> HIDE DEF b
      <3>3. FlattenSeq(b) \in Seq(Weekly) /\ InBlocks(FlattenSeq(b), b, Weeks, m)
        BY <3>1, <3>2, SomeWeeks, Flattening
      <3> QED BY <3>3 DEF InBlocks
    <2> HIDE DEF b
    <2>7. \A j \in 1..m : t[j] = s[p[j]]
      BY <2>4
    <2>8. ASSUME NEW q \in 0..(Weeks - 1), NEW j \in 1..m, NEW k \in Nat, k = q * m + j
          PROVE  /\ FlattenSeq(b)[k].date = s[p[j]].date + WeekLength * q
                 /\ FlattenSeq(b)[k].name = s[p[j]].name
      <3>1. q + 1 \in 1..Weeks /\ (q + 1) - 1 = q
        BY SomeWeeks
      <3>2. FlattenSeq(b)[k] = b[q + 1][j]
        BY <2>6, <2>8
      <3>3. b[q + 1][j].date = t[j].date + WeekLength * ((q + 1) - 1) /\ b[q + 1][j].name = t[j].name
        BY <2>5, <3>1
      <3> QED BY <2>7, <3>1, <3>2, <3>3
    <2>9. IsPlan(p)
      <3>1. WeekByWeek(FlattenSeq(b), s, p, Weeks, m)
        BY <2>8 DEF WeekByWeek
      <3> QED BY <2>1, <2>4, <3>1
    <2> HIDE DEF IsPlan
    <2> QED BY <2>1, <2>6, <2>9
  <1> HIDE DEF Blocks, m
  <1> QED BY <1>1, <1>2, <1>3, Bounds

\* Different numbers of weeks later is not the same day.
LEMMA SameWeeks ==
  ASSUME NEW q \in Nat, NEW r \in Nat, NEW x \in Nat, x + WeekLength * q = x + WeekLength * r
  PROVE  q = r
  <1>1. WeekLength \in Nat /\ 1 \in 1..WeekLength
    BY Bounds
  <1>2. /\ q * WeekLength = WeekLength * q /\ r * WeekLength = WeekLength * r
        /\ WeekLength * q \in Nat /\ WeekLength * r \in Nat
    BY <1>1, Commutes
  <1>3. q * WeekLength + 1 = r * WeekLength + 1
    BY <1>2
  <1> QED BY <1>1, <1>3, OneBlock

\* A row parsed on some day.
LEMMA ParsedRow ==
  ASSUME NEW row \in PlanRows, NEW t \in Nat, row.later = 0
  PROVE  LET o == WeeklyOccupancy(row, t)
         IN /\ o.date \in t..(t + WeekLength - 1) /\ o.date % WeekLength = row.weekday
            /\ o.name = row.name
  <1>1. row.weekday \in 0..(WeekLength - 1)
    BY DEF PlanRows
  <1>2. /\ WeeklyOccupancy(row, t).date = DateOf(row.weekday, t) + row.later
        /\ WeeklyOccupancy(row, t).name = row.name
    BY DEF WeeklyOccupancy
  <1>3. DateOf(row.weekday, t) \in Nat
    BY <1>1, DateFacts, Bounds
  <1>4. WeeklyOccupancy(row, t).date = DateOf(row.weekday, t)
    BY <1>2, <1>3
  <1> QED BY <1>1, <1>2, <1>4, DateFacts

\* A day with the weekday of a date is a number of weeks away from it; within the
\* time for which the plan is repeated the number is one of the repetitions.
LEMMA WeeksApart ==
  ASSUME NEW w \in Nat \ {0}, NEW e \in Nat, NEW d \in Nat, e % WeekLength = d % WeekLength,
         NEW first \in Nat, NEW last \in Nat, NEW t \in first..last, e \in t..(t + WeekLength - 1),
         d \in last..(first + WeekLength * w - 1)
  PROVE  \E q \in 0..(w - 1) : d = e + WeekLength * q
  <1>1. WeekLength \in Nat \ {0}
    BY Bounds
  <1> DEFINE x == e \div WeekLength
             y == d \div WeekLength
             q == y - x
  <1>2. /\ x \in Int /\ y \in Int /\ q \in Int
        /\ e = WeekLength * x + (e % WeekLength) /\ d = WeekLength * y + (d % WeekLength)
        /\ e % WeekLength \in Nat
    BY <1>1, Division
  <1>3. WeekLength * q = WeekLength * y - WeekLength * x /\ WeekLength * x \in Int /\ WeekLength * y \in Int
    BY <1>1, <1>2
  <1> HIDE DEF x, y, q
  <1>4. d - e = WeekLength * q
    BY <1>2, <1>3
  <1>5. d - e > 0 - WeekLength /\ d - e <= WeekLength * w - 1 /\ WeekLength * w \in Nat
    <2>1. WeekLength * w \in Nat
      BY <1>1
    <2> QED BY <1>1, <2>1
  <1>6. q >= 0
    <2>1. CASE q < 0
      <3>1. 0 - q - 1 \in Nat /\ WeekLength * (0 - q - 1) \in Nat
        BY <1>1, <1>2, <2>1
      <3>2. WeekLength * (0 - q - 1) = 0 - WeekLength * q - WeekLength
        BY <1>1, <1>2
      <3> QED BY <1>1, <1>4, <1>5, <3>1, <3>2
    <2> QED BY <1>2, <2>1
  <1>7. q < w
    <2>1. CASE w <= q
      <3>1. w * WeekLength <= q * WeekLength
        BY <1>1, <1>2, <1>6, <2>1, Times
      <3>2. w * WeekLength = WeekLength * w /\ q * WeekLength = WeekLength * q
        BY <1>1, <1>2
      <3> QED BY <1>4, <1>5, <3>1, <3>2
    <2> QED BY <1>2, <2>1
  <1>8. q \in 0..(w - 1) /\ d = e + WeekLength * q
    BY <1>2, <1>4, <1>6, <1>7
  <1> QED BY <1>8

\* And conversely.
LEMMA SameWeekday ==
  ASSUME NEW e \in Nat, NEW q \in Nat
  PROVE  (e + WeekLength * q) % WeekLength = e % WeekLength
  <1>1. WeekLength \in Nat \ {0}
    BY Bounds
  <1>2. e = WeekLength * (e \div WeekLength) + (e % WeekLength) /\ e \div WeekLength \in Int
        /\ e % WeekLength \in 0..(WeekLength - 1)
    BY <1>1, Division
  <1> DEFINE x == e \div WeekLength
             r == e % WeekLength
  <1>3. x \in Int /\ r \in 0..(WeekLength - 1) /\ e = WeekLength * x + r
    BY <1>2
  <1> HIDE DEF x, r
  <1>4. WeekLength * (x + q) = WeekLength * x + WeekLength * q /\ WeekLength * x \in Int /\ WeekLength * q \in Int
    BY <1>1, <1>3
  <1>5. e + WeekLength * q = WeekLength * (x + q) + r /\ x + q \in Int /\ e + WeekLength * q \in Int
    BY <1>1, <1>3, <1>4
  <1>6. r = (e + WeekLength * q) % WeekLength
    BY <1>1, <1>3, <1>5, OneDivision
  <1> QED BY <1>6 DEF r

\* Extended, of a plan whose rows were parsed between two days: each day from the
\* second on, for as long as the plan is repeated since the first, has one event for
\* each row of its weekday, and no others.
LEMMA PlanKept ==
  ASSUME NEW plan \in Seq(PlanRows), NEW first \in Nat, NEW last \in Nat,
         NEW on \in [1..Len(plan) -> first..last], ParsedOn(plan, on) \in Seq(Weekly), NoneMoved(plan),
         NEW d \in last..(End(plan, first) - 1),
         NEW w, w = Extended(ParsedOn(plan, on))
  PROVE  Lists(w, plan, d)
  <1> DEFINE s == ParsedOn(plan, on)
             m == Len(plan)
             n == Repeated(plan)
             due == {i \in DOMAIN plan : plan[i].weekday = d % WeekLength}
             listed == {k \in DOMAIN w : w[k].date = d}
  <1>1. /\ m \in Nat /\ DOMAIN plan = 1..m /\ Len(s) = m /\ s \in Seq(Weekly)
        /\ WeekLength \in Nat \ {0} /\ d \in Nat
    <2>1. Len(s) = m
      BY DEF ParsedOn
    <2>2. WeekLength * n \in Int
      <3>1. n \in Int
        BY SomeWeeks DEF Repeated
      <3> QED BY <3>1, Bounds
    <2>3. d \in Nat
      <3> HIDE DEF n
      <3> QED BY <2>2 DEF n
    <2> QED BY <2>1, <2>3, Bounds
  <1>2. n \in Nat \ {0} /\ Repeated(s) = n
    BY <1>1, SomeWeeks DEF Repeated
  <1>3. \A i \in 1..m : /\ on[i] \in first..last /\ on[i] \in Nat
                        /\ s[i].date \in Nat /\ s[i].date \in on[i]..(on[i] + WeekLength - 1)
                        /\ s[i].date % WeekLength = plan[i].weekday /\ s[i].name = plan[i].name
    <2> TAKE i \in 1..m
    <2>1. on[i] \in first..last /\ on[i] \in Nat /\ plan[i] \in PlanRows /\ plan[i].later = 0
      BY <1>1 DEF NoneMoved
    <2>2. s[i] = WeeklyOccupancy(plan[i], on[i])
      BY DEF ParsedOn
    <2> HIDE DEF s
    <2>3. /\ s[i].date \in on[i]..(on[i] + WeekLength - 1)
          /\ s[i].date % WeekLength = plan[i].weekday /\ s[i].name = plan[i].name
      BY <2>1, <2>2, ParsedRow
    <2> QED BY <1>1, <2>1, <2>3
  <1>4. PICK p \in [1..m -> 1..m] :
           /\ \A i, j \in 1..m : p[i] = p[j] => i = j
           /\ \A i \in 1..m : \E j \in 1..m : p[j] = i
           /\ WeekByWeek(w, s, p, n, m)
    <2> HIDE DEF s, m, n
    <2> QED BY <1>1, <1>2, ExtendedBlocks DEF s
  <1>5. DOMAIN w = 1..(n * m)
    <2>1. w \in Seq(Weekly) /\ Len(w) = n * m
      <3> HIDE DEF s, m, n
      <3> QED BY <1>1, <1>2, ExtendedBlocks DEF s
    <2>2. DOMAIN w = 1..Len(w)
      BY <2>1
    <2> QED BY <2>1, <2>2
  <1> HIDE DEF s, m, n
  <1>6. \A q \in 0..(n - 1), j \in 1..m, k \in Nat :
           k = q * m + j => w[k].date = s[p[j]].date + WeekLength * q /\ w[k].name = s[p[j]].name
    BY <1>4 DEF WeekByWeek
  <1> DEFINE At(k, q, j) == q \in 0..(n - 1) /\ j \in 1..m /\ k = q * m + j
             g == [k \in listed |-> p[CHOOSE j \in 1..m : \E q \in 0..(n - 1) : At(k, q, j)]]
  <1>7. \A k \in listed : \E q \in 0..(n - 1), j \in 1..m : At(k, q, j) /\ g[k] = p[j]
    <2> TAKE k \in listed
    <2>1. \E q \in 0..(n - 1), j \in 1..m : At(k, q, j)
      <3>1. k \in 1..(n * m)
        BY <1>5
      <3>2. \E q \in 0..(n - 1), j \in 1..m : k = q * m + j
        <4>1. n \in Nat
          BY <1>2
        <4> QED BY <1>1, <3>1, <4>1, BlockOf, Zenon
      <3> QED BY <3>2
    <2> HIDE DEF At
    <2> QED BY <2>1
  <1>8. \A k, q, j : k \in Nat /\ At(k, q, j) =>
           w[k].date = s[p[j]].date + WeekLength * q /\ w[k].name = plan[p[j]].name
    <2> TAKE k, q, j
    <2> HAVE k \in Nat /\ At(k, q, j)
    <2>1. w[k].date = s[p[j]].date + WeekLength * q /\ w[k].name = s[p[j]].name
      BY <1>6
    <2>2. p[j] \in 1..m
      BY <1>4
    <2> QED BY <1>3, <2>1, <2>2
  <1>9. \A k \in listed : k \in Nat
    BY <1>5
  <1> HIDE DEF g, At
  <1>10. ASSUME NEW k \in listed PROVE g[k] \in due /\ w[k].name = plan[g[k]].name
    <2>1. PICK q \in 0..(n - 1), j \in 1..m : At(k, q, j) /\ g[k] = p[j]
      BY <1>7
    <2>2. w[k].date = s[p[j]].date + WeekLength * q /\ w[k].name = plan[p[j]].name /\ w[k].date = d
      BY <1>8, <1>9, <2>1
    <2>3. p[j] \in 1..m /\ q \in Nat
      BY <1>4
    <2>4. s[p[j]].date \in Nat /\ s[p[j]].date % WeekLength = plan[p[j]].weekday
      BY <1>3, <2>3
    <2>5. d % WeekLength = plan[p[j]].weekday
      BY <2>2, <2>3, <2>4, SameWeekday
    <2> QED BY <1>1, <2>1, <2>2, <2>3, <2>5
  <1>11. ASSUME NEW k \in listed, NEW l \in listed, g[k] = g[l] PROVE k = l
    <2>1. PICK q \in 0..(n - 1), j \in 1..m : At(k, q, j) /\ g[k] = p[j]
      BY <1>7
    <2>2. PICK r \in 0..(n - 1), i \in 1..m : At(l, r, i) /\ g[l] = p[i]
      BY <1>7
    <2>3. i = j
      BY <1>4, <1>11, <2>1, <2>2
    <2>4. s[p[j]].date + WeekLength * q = s[p[j]].date + WeekLength * r
      <3>1. w[k].date = s[p[j]].date + WeekLength * q /\ w[k].date = d
        BY <1>8, <1>9, <2>1
      <3>2. w[l].date = s[p[j]].date + WeekLength * r /\ w[l].date = d
        BY <1>8, <1>9, <2>2, <2>3
      <3> QED BY <3>1, <3>2
    <2>5. q \in Nat /\ r \in Nat /\ s[p[j]].date \in Nat
      <3>1. p[j] \in 1..m
        BY <1>4
      <3> QED BY <1>2, <1>3, <3>1
    <2>6. q = r
      BY <2>4, <2>5, SameWeeks
    <2> QED BY <2>1, <2>2, <2>3, <2>6 DEF At
  <1>12. ASSUME NEW i \in due PROVE \E k \in listed : g[k] = i
    <2>1. i \in 1..m /\ plan[i].weekday = d % WeekLength
      BY <1>1
    <2>2. PICK q \in 0..(n - 1) : d = s[i].date + WeekLength * q
      <3>1. /\ on[i] \in first..last /\ s[i].date \in Nat /\ s[i].date \in on[i]..(on[i] + WeekLength - 1)
            /\ s[i].date % WeekLength = d % WeekLength
        BY <1>3, <2>1
      <3>2. d \in last..(first + WeekLength * n - 1)
        <4> DEFINE x == WeekLength * n
        <4>1. End(plan, first) = first + x
          BY DEF End, n
        <4>2. x \in Nat
          BY <1>1, <1>2, Commutes DEF n
        <4> HIDE DEF x, n
        <4>3. d \in last..(first + x - 1)
          BY <4>1, <4>2
        <4> QED BY <4>3 DEF x
      <3>3. d \in Nat /\ n \in Nat \ {0}
        BY <1>1, <1>2
      <3>4. \E q \in 0..(n - 1) : d = s[i].date + WeekLength * q
        BY <3>1, <3>2, <3>3, WeeksApart, Zenon
      <3> QED BY <3>4
    <2>3. PICK j \in 1..m : p[j] = i
      BY <1>4, <2>1
    <2> DEFINE k == q * m + j
    <2>4. k \in 1..(n * m) /\ k \in Nat
      <3>1. q \in Nat /\ n \in Nat /\ q < n
        BY <1>2
      <3>2. q * m \in Nat /\ q * m + m <= n * m /\ n * m \in Nat
        BY <1>1, <3>1, Times
      <3> DEFINE x == q * m
                 y == n * m
      <3>3. x \in Nat /\ x + m <= y /\ y \in Nat
        BY <3>2
      <3> HIDE DEF x, y
      <3>4. x + j \in 1..y /\ x + j \in Nat
        BY <1>1, <3>3
      <3> QED BY <3>4 DEF x, y
    <2>5. At(k, q, j)
      BY DEF At
    <2> HIDE DEF k
    <2>6. k \in listed
      <3>1. w[k].date = d
        BY <1>8, <2>2, <2>3, <2>4, <2>5
      <3> QED BY <1>5, <2>4, <3>1
    <2>7. PICK r \in 0..(n - 1), l \in 1..m : At(k, r, l) /\ g[k] = p[l]
      BY <1>7, <2>6
    <2>8. l = j
      <3>1. q \in Nat /\ r \in Nat /\ q * m + j = r * m + l
        BY <2>5, <2>7 DEF At
      <3>2. m \in Nat /\ j \in 1..m /\ l \in 1..m
        BY <1>1
      <3> HIDE DEF m, n
      <3> QED BY <3>1, <3>2, OneBlock, ZenonT(60)
    <2> QED BY <2>3, <2>6, <2>7, <2>8
  <1>13. {w[i].name : i \in listed} = {plan[i].name : i \in due}
    BY <1>10, <1>12
  <1>14. Cardinality(listed) = Cardinality(due)
    <2>1. g \in [listed -> due]
      BY <1>10 DEF g
    <2> HIDE DEF listed, due
    <2>2. g \in Surjection(listed, due) /\ g \in Injection(listed, due)
      BY <1>11, <1>12, <2>1 DEF Surjection, Injection, IsInjective
    <2>3. IsFiniteSet(listed)
      <3>1. n * m \in Nat
        BY <1>1, <1>2
      <3>2. listed \subseteq 1..(n * m) /\ IsFiniteSet(1..(n * m))
        BY <1>5, <3>1, FS_Interval DEF listed
      <3> QED BY <3>2, FS_Subset
    <2> QED BY <2>2, <2>3, FS_Surjection
  <1> QED BY <1>13, <1>14 DEF Lists, listed, due

-------------------------------------------------------------------------------
(* Occupancy: the refresh                                                  *)

\* What a parsed row is.
LEMMA RowTypes ==
  ASSUME NEW row \in PlanRows, NEW t \in Nat, ~IsSkipped(row)
  PROVE  WeeklyOccupancy(row, t) \in Weekly
  <1>1. /\ row.weekday \in 0..(WeekLength - 1) /\ row.later \in Nat
        /\ row.from \in Hours /\ row.name \in STRING
    BY DEF PlanRows
  <1>2. DateOf(row.weekday, t) + row.later \in Nat
    <2>1. DateOf(row.weekday, t) \in t..(t + WeekLength - 1)
      BY <1>1, DateFacts
    <2> QED BY <1>1, <2>1, Bounds
  <1>3. WeeklyType(row) \in Types \ {"none"}
    BY DEF IsSkipped, WeeklyType, FullyIfLate, Types
  <1> QED BY <1>1, <1>2, <1>3 DEF WeeklyOccupancy, Weekly

LEMMA EventTypes ==
  ASSUME NEW row \in CalendarRows, NEW t \in Nat
  PROVE  CalendarOccupancy(row, t) \in Special
  <1>1. /\ row.date \in Int /\ row.later \in Nat /\ YearOf(t) \in Int
        /\ row.from \in Hours /\ row.name \in STRING
    BY OccupancyAssumption DEF OccupancyAssumption, CalendarRows, YearOf
  <1>2. CalendarType(row) \in Types
    BY DEF CalendarType, FullyIfLate, Types
  <1> QED BY <1>1, <1>2 DEF CalendarOccupancy, Special

\* A row taken off the page leaves those before it where they were.
LEMMA Removing ==
  ASSUME NEW S, NEW s \in Seq(S), NEW i \in 1..Len(s)
  PROVE  /\ RemoveAt(s, i) \in Seq(S) /\ Len(RemoveAt(s, i)) = Len(s) - 1
         /\ \A j \in 1..(i - 1) : RemoveAt(s, i)[j] = s[j]
  <1> DEFINE a == SubSeq(s, 1, i - 1)
             b == SubSeq(s, i + 1, Len(s))
  <1>1. a \in Seq(S) /\ Len(a) = i - 1 /\ \A j \in 1..(i - 1) : a[j] = s[j]
    OBVIOUS
  <1>2. b \in Seq(S) /\ Len(b) = Len(s) - i
    OBVIOUS
  <1>3. RemoveAt(s, i) = a \o b
    BY DEF RemoveAt
  <1>4. Len(s) \in Nat
    OBVIOUS
  <1> HIDE DEF a, b
  <1> QED BY <1>1, <1>2, <1>3, <1>4, Joined

\* The invariant, step by step.
LEMMA OccupancyStarts == OccupancyInit => OccupancyInv
  <1> SUFFICES ASSUME OccupancyInit PROVE OccupancyInv
    OBVIOUS
  <1> USE DEF OccupancyInit
  <1>1. 0 \in Days /\ 0 \in Rounds
    BY Bounds DEF Days, Rounds
  <1>2. AtRest \in [step : Steps, plan : Seq(PlanRows), calendar : Seq(CalendarRows),
                    parsed : Seq(Weekly), began : Days, listed : Seq(Special)]
    BY <1>1 DEF AtRest, Steps
  <1>3. OccupancyTypeOK
    <2>1. day \in Days /\ lastUpdated \in Days /\ round \in Rounds /\ error \in BOOLEAN
      BY <1>1
    <2>2. week \in Seq(Weekly) /\ events \in Seq(Special)
      OBVIOUS
    <2>3. <<>> \in Seq(PlanRows)
      OBVIOUS
    <2>4. shown \in [plan : Seq(PlanRows), began : Days, ended : Days, week : Rounds, events : Rounds]
      BY <1>1, <2>3
    <2> QED BY <1>2, <2>1, <2>2, <2>4 DEF OccupancyTypeOK
  <1>4. ErrorIsShown /\ ListsSoFar /\ ParsedSoFar /\ WeekIsParsed
    BY DEF ErrorIsShown, ListsSoFar, ParsedSoFar, WeekIsParsed, AtRest
  <1> QED BY <1>3, <1>4 DEF OccupancyInv

LEMMA FetchKeeps == OccupancyInv /\ Fetch => OccupancyInv'
  <1> SUFFICES ASSUME OccupancyInv, Fetch PROVE OccupancyInv'
    OBVIOUS
  <1> USE DEF OccupancyInv, OccupancyTypeOK, Fetch, service
  <1>1. PICK p \in Plans, c \in Calendars :
           refresh' = [step |-> "plan", plan |-> p, calendar |-> c, parsed |-> <<>>, began |-> day, listed |-> <<>>]
    OBVIOUS
  <1>2. p \in Seq(PlanRows) /\ c \in Seq(CalendarRows)
    BY OccupancyAssumption DEF OccupancyAssumption
  <1>3. round' \in Rounds /\ round \in Nat /\ round' = round + 1
    BY Bounds DEF Rounds
  <1>4. OccupancyTypeOK'
    BY <1>1, <1>2, <1>3 DEF Steps
  <1>5. ErrorIsShown'
    BY <1>1 DEF ErrorIsShown
  <1>6. ListsSoFar'
    BY <1>1, <1>3 DEF ListsSoFar, Rounds
  <1>7. ParsedSoFar'
    <2>1. day \in Nat /\ Len(p) \in Nat
      BY <1>2, Bounds DEF Days
    <2> QED BY <1>1, <2>1 DEF ParsedSoFar
  <1>8. WeekIsParsed'
    BY DEF WeekIsParsed
  <1> QED BY <1>4, <1>5, <1>6, <1>7, <1>8

LEMMA ParseKeeps == OccupancyInv /\ ParseNext => OccupancyInv'
  <1> SUFFICES ASSUME OccupancyInv, ParseNext PROVE OccupancyInv'
    OBVIOUS
  <1> USE DEF OccupancyInv, service
  <1> DEFINE n == Len(refresh.parsed)
             i == n + 1
             row == refresh.plan[i]
             o == WeeklyOccupancy(row, day)
  <1>1. /\ refresh \in [step : Steps, plan : Seq(PlanRows), calendar : Seq(CalendarRows),
                        parsed : Seq(Weekly), began : Days, listed : Seq(Special)]
        /\ day \in Nat /\ refresh.began \in Nat
    BY Bounds DEF OccupancyTypeOK, Days
  <1>2. refresh.plan \in Seq(PlanRows) /\ refresh.parsed \in Seq(Weekly) /\ refresh.step = "plan"
    BY <1>1 DEF ParseNext
  <1>3. n \in Nat /\ Len(refresh.plan) \in Nat /\ n < Len(refresh.plan) /\ i \in 1..Len(refresh.plan) /\ row \in PlanRows
    <2>1. Len(refresh.plan) - Len(refresh.parsed) > 0
      BY DEF ParseNext, Remaining
    <2>2. n \in Nat /\ Len(refresh.plan) \in Nat
      BY <1>2
    <2>3. i \in 1..Len(refresh.plan) /\ n < Len(refresh.plan)
      <3> DEFINE x == Len(refresh.plan)
      <3>1. n \in Nat /\ x \in Nat /\ x - n > 0
        BY <2>1, <2>2
      <3> HIDE DEF n, x
      <3>2. n + 1 \in 1..x /\ n < x
        BY <3>1
      <3> QED BY <3>2 DEF x
    <2> DEFINE p == refresh.plan
    <2>4. p \in Seq(PlanRows) /\ i \in 1..Len(p)
      BY <1>2, <2>3
    <2> HIDE DEF p, n, i
    <2>5. p[i] \in PlanRows
      BY <2>4
    <2>6. i \in 1..Len(refresh.plan) /\ row \in PlanRows
      BY <2>3, <2>5 DEF p, i
    <2> QED BY <2>2, <2>3, <2>6 DEF n
  <1>4. /\ refresh.began <= day
        /\ \A j \in 1..n : \E t \in refresh.began..day : refresh.parsed[j] = WeeklyOccupancy(refresh.plan[j], t)
    BY <1>2 DEF ParsedSoFar
  <1>5. UNCHANGED <<day, week, events, lastUpdated, error, round, shown>>
    BY DEF ParseNext
  <1>6. refresh' = IF IsSkipped(row) THEN [refresh EXCEPT !.plan = RemoveAt(@, i)]
                                     ELSE [refresh EXCEPT !.parsed = Append(@, o)]
    BY DEF ParseNext
  <1> HIDE DEF n, row, o
  <1>7. refresh'.step = "plan" /\ refresh'.began = refresh.began
    BY <1>1, <1>2, <1>6
  <1>8. OccupancyTypeOK' /\ ParsedSoFar'
    <2>1. CASE IsSkipped(row)
      <3> DEFINE r == RemoveAt(refresh.plan, i)
      <3>1. r \in Seq(PlanRows) /\ Len(r) = Len(refresh.plan) - 1 /\ \A j \in 1..n : r[j] = refresh.plan[j]
        <4>1. (n + 1) - 1 = n
          BY <1>3
        <4> QED BY <1>2, <1>3, <4>1, Removing
      <3>2. refresh' = [refresh EXCEPT !.plan = r]
        BY <1>6, <2>1
      <3> HIDE DEF r
      <3>3. /\ refresh' \in [step : Steps, plan : Seq(PlanRows), calendar : Seq(CalendarRows),
                             parsed : Seq(Weekly), began : Days, listed : Seq(Special)]
            /\ refresh'.plan = r /\ refresh'.parsed = refresh.parsed
        BY <1>1, <3>1, <3>2
      <3>4. OccupancyTypeOK'
        BY <1>5, <3>3 DEF OccupancyTypeOK
      <3>5. \A j \in 1..n : \E t \in refresh.began..day : refresh.parsed[j] = WeeklyOccupancy(r[j], t)
        BY <1>4, <3>1
      <3>6. n <= Len(r)
        BY <1>3, <3>1
      <3> QED BY <1>4, <1>5, <1>7, <3>3, <3>4, <3>5, <3>6 DEF ParsedSoFar, n
    <2>2. CASE ~IsSkipped(row)
      <3> DEFINE s == Append(refresh.parsed, o)
      <3>1. o \in Weekly
        BY <1>1, <1>3, <2>2, RowTypes DEF o
      <3>2. s \in Seq(Weekly) /\ Len(s) = n + 1 /\ s[n + 1] = o /\ \A j \in 1..n : s[j] = refresh.parsed[j]
        BY <1>2, <3>1 DEF n
      <3>3. refresh' = [refresh EXCEPT !.parsed = s]
        BY <1>6, <2>2
      <3> HIDE DEF s
      <3>4. /\ refresh' \in [step : Steps, plan : Seq(PlanRows), calendar : Seq(CalendarRows),
                             parsed : Seq(Weekly), began : Days, listed : Seq(Special)]
            /\ refresh'.parsed = s /\ refresh'.plan = refresh.plan
        BY <1>1, <3>2, <3>3
      <3>5. OccupancyTypeOK'
        BY <1>5, <3>4 DEF OccupancyTypeOK
      <3>6. \A j \in 1..(n + 1) : \E t \in refresh.began..day : s[j] = WeeklyOccupancy(refresh.plan[j], t)
        <4> TAKE j \in 1..(n + 1)
        <4>1. CASE j \in 1..n
          BY <1>4, <3>2, <4>1
        <4>2. CASE j = n + 1
          <5>1. day \in refresh.began..day
            BY <1>1, <1>4
          <5> QED BY <3>2, <4>2, <5>1 DEF o, row
        <4> QED BY <1>3, <4>1, <4>2
      <3>7. n + 1 <= Len(refresh.plan)
        BY <1>3
      <3> QED BY <1>4, <1>5, <1>7, <3>2, <3>4, <3>5, <3>6, <3>7 DEF ParsedSoFar
    <2> QED BY <2>1, <2>2
  <1>9. ErrorIsShown' /\ ListsSoFar'
    BY <1>5, <1>7 DEF ErrorIsShown, ListsSoFar
  <1>10. WeekIsParsed'
    BY <1>5 DEF WeekIsParsed
  <1> QED BY <1>8, <1>9, <1>10

LEMMA StoreWeekKeeps == OccupancyInv /\ StoreWeek => OccupancyInv'
  <1> SUFFICES ASSUME OccupancyInv, StoreWeek PROVE OccupancyInv'
    OBVIOUS
  <1> USE DEF OccupancyInv
  <1> DEFINE s == refresh.parsed
             plan == refresh.plan
             m == Len(plan)
  <1>1. /\ refresh \in [step : Steps, plan : Seq(PlanRows), calendar : Seq(CalendarRows),
                        parsed : Seq(Weekly), began : Days, listed : Seq(Special)]
        /\ day \in Days /\ refresh.began \in Days /\ round \in Rounds
        /\ shown \in [plan : Seq(PlanRows), began : Days, ended : Days, week : Rounds, events : Rounds]
    BY DEF OccupancyTypeOK
  <1>2. plan \in Seq(PlanRows) /\ s \in Seq(Weekly) /\ refresh.step = "plan"
    BY <1>1 DEF StoreWeek
  <1>3. m \in Nat /\ Len(s) = m
    <2>1. Len(plan) - Len(s) = 0
      BY DEF StoreWeek, Remaining
    <2> QED BY <1>2, <2>1
  <1>4. refresh.began <= day /\ \A j \in 1..m : \E t \in refresh.began..day : s[j] = WeeklyOccupancy(plan[j], t)
    BY <1>2, <1>3 DEF ParsedSoFar
  <1>5. /\ UNCHANGED <<day, events, lastUpdated, error, round>> /\ week' = Extended(s)
        /\ refresh' = [refresh EXCEPT !.step = "calendar"]
        /\ shown' = [shown EXCEPT !.plan = plan, !.began = refresh.began, !.ended = day, !.week = round]
    BY DEF StoreWeek, Goto
  <1> HIDE DEF s, plan, m
  <1>6. /\ refresh' \in [step : Steps, plan : Seq(PlanRows), calendar : Seq(CalendarRows),
                         parsed : Seq(Weekly), began : Days, listed : Seq(Special)]
        /\ refresh'.step = "calendar"
    BY <1>1, <1>5 DEF Steps
  <1>7. /\ shown' \in [plan : Seq(PlanRows), began : Days, ended : Days, week : Rounds, events : Rounds]
        /\ shown'.plan = plan /\ shown'.began = refresh.began /\ shown'.ended = day /\ shown'.week = round
        /\ shown'.events = shown.events
    BY <1>1, <1>2, <1>5
  <1>8. week' \in Seq(Weekly)
    BY <1>2, <1>5, ExtendedBlocks
  <1>9. OccupancyTypeOK'
    BY <1>5, <1>6, <1>7, <1>8 DEF OccupancyTypeOK
  <1>10. ErrorIsShown' /\ ListsSoFar'
    <2>1. shown.events \in Nat /\ shown.week \in Nat /\ round \in Nat
      BY <1>1, Bounds DEF Rounds
    <2> QED BY <1>5, <1>6, <1>7, <2>1 DEF ErrorIsShown, ListsSoFar
  <1>11. ParsedSoFar'
    BY <1>6 DEF ParsedSoFar
  <1>12. WeekIsParsed'
    <2> DEFINE on == [j \in 1..m |-> CHOOSE t \in refresh.began..day : s[j] = WeeklyOccupancy(plan[j], t)]
    <2>1. \A j \in 1..m : on[j] \in refresh.began..day /\ s[j] = WeeklyOccupancy(plan[j], on[j])
      BY <1>4
    <2>2. on \in [1..m -> refresh.began..day]
      BY <2>1
    <2> HIDE DEF on
    <2>3. s = ParsedOn(plan, on)
      <3>1. s = [j \in 1..m |-> s[j]]
        BY <1>2, <1>3
      <3>2. ParsedOn(plan, on) = [j \in 1..m |-> WeeklyOccupancy(plan[j], on[j])]
        BY DEF ParsedOn, m
      <3> QED BY <2>1, <3>1, <3>2
    <2>4. ParsedOn(plan, on) \in Seq(Weekly) /\ week' = Extended(ParsedOn(plan, on))
      BY <1>2, <1>5, <2>3
    <2> QED BY <1>4, <1>7, <2>2, <2>4 DEF WeekIsParsed, m
  <1> QED BY <1>9, <1>10, <1>11, <1>12

LEMMA ParseEventKeeps == OccupancyInv /\ ParseEvent => OccupancyInv'
  <1> SUFFICES ASSUME OccupancyInv, ParseEvent PROVE OccupancyInv'
    OBVIOUS
  <1> USE DEF OccupancyInv, service
  <1> DEFINE s == refresh.listed
             c == refresh.calendar
             i == Len(s) + 1
             o == CalendarOccupancy(c[i], day)
  <1>1. /\ refresh \in [step : Steps, plan : Seq(PlanRows), calendar : Seq(CalendarRows),
                        parsed : Seq(Weekly), began : Days, listed : Seq(Special)]
        /\ day \in Nat
    BY Bounds DEF OccupancyTypeOK, Days
  <1>2. s \in Seq(Special) /\ c \in Seq(CalendarRows)
    BY <1>1
  <1>3. /\ Len(s) < Len(c) /\ refresh.step = "calendar" /\ refresh' = [refresh EXCEPT !.listed = Append(s, o)]
        /\ UNCHANGED <<day, week, events, lastUpdated, error, round, shown>>
    BY DEF ParseEvent
  <1> HIDE DEF s, c
  <1>4. c[i] \in CalendarRows
    <2>1. i \in 1..Len(c)
      BY <1>2, <1>3
    <2> QED BY <1>2, <2>1
  <1>5. o \in Special
    BY <1>1, <1>4, EventTypes
  <1> HIDE DEF i, o
  <1>6. Append(s, o) \in Seq(Special)
    BY <1>2, <1>5
  <1>7. /\ refresh' \in [step : Steps, plan : Seq(PlanRows), calendar : Seq(CalendarRows),
                         parsed : Seq(Weekly), began : Days, listed : Seq(Special)]
        /\ refresh'.step = "calendar"
    BY <1>1, <1>3, <1>6
  <1>8. OccupancyTypeOK' /\ WeekIsParsed'
    BY <1>3, <1>7 DEF OccupancyTypeOK, WeekIsParsed
  <1>9. ErrorIsShown' /\ ListsSoFar' /\ ParsedSoFar'
    BY <1>3, <1>7 DEF ErrorIsShown, ListsSoFar, ParsedSoFar
  <1> QED BY <1>8, <1>9

LEMMA StoreEventsKeeps == OccupancyInv /\ StoreEvents => OccupancyInv'
  <1> SUFFICES ASSUME OccupancyInv, StoreEvents PROVE OccupancyInv'
    OBVIOUS
  <1> USE DEF OccupancyInv
  <1>1. /\ refresh \in [step : Steps, plan : Seq(PlanRows), calendar : Seq(CalendarRows),
                        parsed : Seq(Weekly), began : Days, listed : Seq(Special)]
        /\ round \in Rounds /\ refresh.step = "calendar"
        /\ shown \in [plan : Seq(PlanRows), began : Days, ended : Days, week : Rounds, events : Rounds]
    BY DEF OccupancyTypeOK, StoreEvents
  <1>2. /\ UNCHANGED <<day, week, lastUpdated, error, round>>
        /\ events' = refresh.listed
        /\ refresh' = [refresh EXCEPT !.step = "stamp"]
        /\ shown' = [shown EXCEPT !.events = round]
    BY DEF StoreEvents, Goto
  <1>3. /\ refresh' \in [step : Steps, plan : Seq(PlanRows), calendar : Seq(CalendarRows),
                         parsed : Seq(Weekly), began : Days, listed : Seq(Special)]
        /\ refresh'.step = "stamp"
    BY <1>1, <1>2 DEF Steps
  <1>4. /\ shown' \in [plan : Seq(PlanRows), began : Days, ended : Days, week : Rounds, events : Rounds]
        /\ shown'.plan = shown.plan /\ shown'.began = shown.began /\ shown'.ended = shown.ended
        /\ shown'.week = shown.week /\ shown'.events = round
    BY <1>1, <1>2
  <1>5. events' \in Seq(Special)
    BY <1>1, <1>2
  <1>6. OccupancyTypeOK'
    BY <1>2, <1>3, <1>4, <1>5 DEF OccupancyTypeOK
  <1>7. ErrorIsShown' /\ ListsSoFar'
    <2>1. shown.week = round /\ round \in Nat
      BY <1>1, Bounds DEF ListsSoFar, Rounds
    <2> QED BY <1>2, <1>3, <1>4, <2>1 DEF ErrorIsShown, ListsSoFar
  <1>8. ParsedSoFar'
    BY <1>3 DEF ParsedSoFar
  <1>9. WeekIsParsed'
    BY <1>2, <1>4 DEF WeekIsParsed
  <1> QED BY <1>6, <1>7, <1>8, <1>9

\* The other steps touch neither list.
LEMMA RestKeeps == OccupancyInv /\ (Stamp \/ Raises \/ RecordError \/ UNCHANGED occupancyVars) => OccupancyInv'
  <1> SUFFICES ASSUME OccupancyInv, Stamp \/ Raises \/ RecordError \/ UNCHANGED occupancyVars PROVE OccupancyInv'
    OBVIOUS
  <1> USE DEF OccupancyInv, service, occupancyVars
  <1>1. /\ UNCHANGED <<day, week, events, round, shown>>
        /\ lastUpdated' \in {lastUpdated, day} /\ error' \in BOOLEAN
        /\ refresh' \in {refresh, AtRest, [AtRest EXCEPT !.step = "failed"]}
    BY DEF Stamp, Raises, RecordError, OccupancyTypeOK
  <1>2. \A r \in {AtRest, [AtRest EXCEPT !.step = "failed"]} :
           r \in [step : Steps, plan : Seq(PlanRows), calendar : Seq(CalendarRows),
                  parsed : Seq(Weekly), began : Days, listed : Seq(Special)]
    <2>1. 0 \in Days
      BY Bounds DEF Days
    <2>2. /\ AtRest \in [step : Steps, plan : Seq(PlanRows), calendar : Seq(CalendarRows),
                         parsed : Seq(Weekly), began : Days, listed : Seq(Special)]
          /\ "failed" \in Steps
      BY <2>1 DEF AtRest, Steps
    <2> QED BY <2>2
  <1>3. OccupancyTypeOK'
    BY <1>1, <1>2 DEF OccupancyTypeOK
  <1>4. ErrorIsShown' /\ ListsSoFar'
    BY DEF Stamp, Raises, RecordError, ErrorIsShown, ListsSoFar, AtRest
  <1>5. ParsedSoFar'
    <2>1. CASE refresh' = refresh
      BY <1>1, <2>1 DEF ParsedSoFar
    <2>2. CASE refresh'.step # "plan"
      BY <2>2 DEF ParsedSoFar
    <2>3. refresh' = refresh \/ refresh'.step # "plan"
      BY <1>1 DEF AtRest
    <2> QED BY <2>1, <2>2, <2>3
  <1>6. WeekIsParsed'
    BY <1>1 DEF WeekIsParsed
  <1> QED BY <1>3, <1>4, <1>5, <1>6

LEMMA MidnightKeeps == OccupancyInv /\ Midnight => OccupancyInv'
  <1> SUFFICES ASSUME OccupancyInv, Midnight PROVE OccupancyInv'
    OBVIOUS
  <1> USE DEF OccupancyInv, service, Midnight
  <1>1. day \in Nat /\ day' = day + 1 /\ day' \in Days
    BY Bounds DEF OccupancyTypeOK, Days
  <1>2. OccupancyTypeOK'
    BY <1>1 DEF OccupancyTypeOK
  <1>3. ErrorIsShown' /\ ListsSoFar' /\ WeekIsParsed'
    BY DEF ErrorIsShown, ListsSoFar, WeekIsParsed
  <1>4. ParsedSoFar'
    <2> SUFFICES ASSUME refresh.step = "plan" PROVE ParsedSoFar'
      BY DEF ParsedSoFar
    <2>1. refresh.began \in Nat /\ refresh.began <= day
      BY Bounds DEF OccupancyTypeOK, Days, ParsedSoFar
    <2>2. \A t \in refresh.began..day : t \in refresh.began..day'
      BY <1>1, <2>1
    <2>3. UNCHANGED <<refresh, shown>> /\ refresh.began <= day'
      BY <1>1, <2>1
    <2>4. /\ Len(refresh.parsed) <= Len(refresh.plan)
          /\ \A i \in 1..Len(refresh.parsed) :
                \E t \in refresh.began..day' : refresh.parsed[i] = WeeklyOccupancy(refresh.plan[i], t)
      BY <2>2 DEF ParsedSoFar
    <2> HIDE DEF Midnight
    <2> QED BY <2>3, <2>4 DEF ParsedSoFar
  <1> QED BY <1>2, <1>3, <1>4

\* OccupancyInv: the types, and whoever is shown no error sees the two lists of one
\* refresh, the last (occupancy_service.py, _run_get_latest_occupancy).
THEOREM OccupancyInvariant == OccupancySpec => []OccupancyInv
  <1>1. OccupancyInv /\ [OccupancyNext]_occupancyVars => OccupancyInv'
    BY FetchKeeps, ParseKeeps, StoreWeekKeeps, ParseEventKeeps, StoreEventsKeeps, RestKeeps, MidnightKeeps
       DEF OccupancyNext, Poll
  <1> QED BY OccupancyStarts, <1>1, PTL DEF OccupancySpec

\* PlanIsRight: whatever the days on which the rows of a plan were parsed, each day
\* has its events once (_parse_weekly_plan_row, _extend_to).
THEOREM PlanStaysRight == OccupancySpec => []PlanIsRight
  <1>1. OccupancyInv => PlanIsRight
    <2> SUFFICES ASSUME OccupancyInv, shown.week > 0, NoneMoved(shown.plan),
                        NEW d \in shown.ended..(End(shown.plan, shown.began) - 1)
                 PROVE  Lists(week, shown.plan, d)
      BY DEF PlanIsRight
    <2>1. shown.plan \in Seq(PlanRows) /\ shown.began \in Nat /\ shown.ended \in Nat
      BY Bounds DEF OccupancyInv, OccupancyTypeOK, Days
    <2>2. PICK on \in [1..Len(shown.plan) -> shown.began..shown.ended] :
             ParsedOn(shown.plan, on) \in Seq(Weekly) /\ week = Extended(ParsedOn(shown.plan, on))
      BY DEF OccupancyInv, WeekIsParsed
    <2> QED BY <2>1, <2>2, PlanKept
  <1> QED BY <1>1, OccupancyInvariant, PTL

\* AnswerIsRight: what get_occupancy answers for a day, as its documentation says.
THEOREM AnswersStayRight == OccupancySpec => []AnswerIsRight
  <1>1. OccupancyInv => AnswerIsRight
    <2> SUFFICES ASSUME OccupancyInv PROVE AnswerIsRight
      OBVIOUS
    <2>1. week \in Seq(Weekly) /\ events \in Seq(Special)
      BY DEF OccupancyInv, OccupancyTypeOK
    <2> QED BY <2>1, AnswerOf DEF AnswerIsRight
  <1> QED BY <1>1, OccupancyInvariant, PTL
===============================================================================
