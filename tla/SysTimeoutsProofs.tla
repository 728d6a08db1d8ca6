------------------------- MODULE SysTimeoutsProofs -------------------------
(***************************************************************************)
(* Proofs about the timers, for any number of cyclic timers with any       *)
(* intervals, as long as connections are made and ended by main.           *)
(***************************************************************************)
EXTENDS SysTimeouts, FiniteSetTheorems, TLAPS

\* The pointers R run through L[1], ..., L[n] and end there.
IsList(R, L, n) ==
  /\ n \in 0 .. PoolSize /\ L[0] = 0
  /\ \A k \in 1 .. n : L[k] \in Nodes /\ R[L[k - 1]] = L[k]
  /\ R[L[n]] = 0
  /\ \A j, k \in 1 .. n : L[j] = L[k] => j = k

\* main holds an entry that is neither in the pool nor in the list.
Holding == pc \in {"find", "read", "link"}

\* The entries: where they are and whose.
EntriesInv ==
  /\ IsList(next, Hop, ListLen)
  /\ Listed \cap free = {}
  /\ Nodes \ (free \union Listed) = IF Holding THEN {tmp} ELSE {}
  /\ \A m, n \in Listed : who[m] = who[n] => m = n
  /\ \A x \in Timers : (\E n \in Listed : who[n] = x) <=> ~InHand(x) /\ (x \in Cyclic \/ active)

\* Due time t of timer x has passed at most MaxLag ago, or lies within an interval.
Near(t, x) == (now - t) % M <= MaxLag \/ (t - now) % M <= Interval[x]

\* The list is sorted, and its due times are close enough to the clock to be
\* compared with each other.
OrderInv ==
  /\ \A n \in Listed : Near(time[n], who[n])
  /\ \A k \in 1 .. ListLen - 1 : ~TimeLess(time[Hop[k + 1]], time[Hop[k]])

\* How late main is.
LagInv ==
  /\ pc # "idle" => (now - start) % M <= MaxLag
  /\ Holding => Near(time[tmp], job) /\ (time[tmp] - start) % M <= Interval[job] + MaxLag
  /\ pc = "run" => (start - due) % M <= MaxLag

\* An entry with due time t belongs behind place i of the list.
Between(t, i) ==
  /\ i # 0 => ~TimeLess(t, time[Hop[i]])
  /\ i # ListLen => TimeLess(t, time[Hop[i + 1]])

\* The place of main in sys_check_timeouts and in sys_timeout_abs.
MainInv ==
  /\ pc = "unlink" => tmp = next[0] /\ tmp # 0 /\ ~TimeLess(start, time[tmp])
  /\ pc = "run" => free # {}
  /\ Holding => tmp \in Nodes /\ who[tmp] = job
  /\ pc \in {"read", "link"} => \E i \in 0 .. ListLen : pred = Hop[i] /\ Between(time[tmp], i)
  /\ pc = "link" => next[tmp] = next[pred]
  /\ pc = "off" => job = Tcp /\ ~pcbs
  /\ (InHand(Tcp) \/ pcbs) => active

\* The inductive invariant.
TimersInv == TypeOK /\ EntriesInv /\ OrderInv /\ LagInv /\ MainInv
-----------------------------------------------------------------------------
(* Constants and the clock. *)

\* The constants are numbers, and intervals and lag fit into half the clock.
LEMMA ConstantFacts ==
  /\ M \in Nat /\ PoolSize \in Nat /\ MaxLag \in Nat /\ Tcp \in Timers /\ Tcp \notin Cyclic
  /\ Cyclic \subseteq Timers /\ Timers = Cyclic \union {Tcp}
  /\ \A x \in Timers : Interval[x] \in Nat \ {0} /\ 2 * (Interval[x] + 2 * MaxLag) < M
BY TimeoutsAssumption DEF TimeoutsAssumption, Timers

\* Differences and sums on the clock.
LEMMA ClockMinus ==
  \A t, u \in 0 .. M - 1 : (t - u) % M = IF t >= u THEN t - u ELSE t - u + M
BY ConstantFacts

\* A sum on the clock wraps at most once.
LEMMA ClockPlus ==
  \A t, d \in 0 .. M - 1 : (t + d) % M = IF t + d < M THEN t + d ELSE t + d - M
BY ConstantFacts

\* TIME_LESS_THAN without the modulus.
LEMMA ClockLess ==
  \A t, u \in 0 .. M - 1 :
    TimeLess(t, u) <=> (IF t >= u THEN t - u ELSE t - u + M) > (M - 1) \div 2
BY ClockMinus DEF TimeLess

\* The distance d of due time t from the clock, with its sign.
Distance(clk, t, d) == t = clk + d \/ t = clk + d + M \/ t = clk + d - M

\* A time that is not long past nor far ahead has a small signed distance from the clock.
LEMMA NearDistance ==
  ASSUME NEW clk \in 0 .. M - 1, NEW t \in 0 .. M - 1, NEW b \in Nat,
         (clk - t) % M <= MaxLag \/ (t - clk) % M <= b
  PROVE  \E d \in Int : 0 - MaxLag <= d /\ d <= b /\ Distance(clk, t, d)
<1> DEFINE e == (clk - t) % M
           f == (t - clk) % M
<1>1. /\ e = (IF clk >= t THEN clk - t ELSE clk - t + M)
      /\ f = (IF t >= clk THEN t - clk ELSE t - clk + M)
  BY ClockMinus
<1>2. M \in Nat /\ MaxLag \in Nat /\ (e <= MaxLag \/ f <= b)
  BY ConstantFacts
<1> HIDE DEF e, f
<1>3. CASE e <= MaxLag
  <2>1. 0 - e \in Int /\ 0 - MaxLag <= 0 - e /\ 0 - e <= b
    BY <1>1, <1>2, <1>3
  <2>2. Distance(clk, t, 0 - e)
    BY <1>1, <1>2 DEF Distance
  <2> QED BY <2>1, <2>2
<1>4. CASE f <= b
  <2>1. f \in Int /\ 0 - MaxLag <= f /\ f <= b
    BY <1>1, <1>2, <1>4
  <2>2. Distance(clk, t, f)
    BY <1>1, <1>2 DEF Distance
  <2> QED BY <2>1, <2>2
<1> QED BY <1>2, <1>3, <1>4

\* TIME_LESS_THAN compares due times by their distances from the clock, if these
\* differ by less than half the range of the clock.
LEMMA LessByDistance ==
  ASSUME NEW clk \in 0 .. M - 1, NEW t \in 0 .. M - 1, NEW u \in 0 .. M - 1,
         NEW d \in Int, NEW e \in Int, Distance(clk, t, d), Distance(clk, u, e),
         2 * (d - e) < M, 2 * (e - d) < M
  PROVE  TimeLess(t, u) <=> d < e
<1>1. M \in Nat
  BY ConstantFacts
<1>2. PICK h \in Nat : h = (M - 1) \div 2 /\ 2 * h <= M - 1 /\ M <= 2 * h + 2
  BY <1>1
<1>3. t - u = d - e \/ t - u = d - e + M \/ t - u = d - e - M \/ t - u = d - e + M + M \/ t - u = d - e - M - M
  BY <1>1 DEF Distance
<1>4. TimeLess(t, u) <=> (IF t >= u THEN t - u ELSE t - u + M) > h
  BY <1>2, ClockLess
<1> QED BY <1>1, <1>2, <1>3, <1>4

\* The intervals of three timers and the lag have a common bound.
LEMMA IntervalBound ==
  ASSUME NEW w \in Timers, NEW x \in Timers, NEW y \in Timers
  PROVE  \E b \in Nat : /\ 2 * (b + 2 * MaxLag) < M
                        /\ Interval[w] <= b /\ Interval[x] <= b /\ Interval[y] <= b
<1>1. /\ Interval[w] \in Nat /\ 2 * (Interval[w] + 2 * MaxLag) < M
      /\ Interval[x] \in Nat /\ 2 * (Interval[x] + 2 * MaxLag) < M
      /\ Interval[y] \in Nat /\ 2 * (Interval[y] + 2 * MaxLag) < M /\ MaxLag \in Nat
  BY ConstantFacts
<1>2. CASE Interval[x] <= Interval[w] /\ Interval[y] <= Interval[w]
  BY <1>1, <1>2
<1>3. CASE Interval[w] <= Interval[x] /\ Interval[y] <= Interval[x]
  BY <1>1, <1>3
<1>4. CASE Interval[x] <= Interval[y] /\ Interval[w] <= Interval[y]
  BY <1>1, <1>4
<1> QED BY <1>1, <1>2, <1>3, <1>4

\* Due times near the clock are compared as one expects: the order is transitive.
LEMMA NearOrder ==
  ASSUME NEW clk \in 0 .. M - 1,
         NEW t \in 0 .. M - 1, NEW u \in 0 .. M - 1, NEW v \in 0 .. M - 1,
         NEW w \in Timers, NEW x \in Timers, NEW y \in Timers,
         (clk - t) % M <= MaxLag \/ (t - clk) % M <= Interval[w],
         (clk - u) % M <= MaxLag \/ (u - clk) % M <= Interval[x],
         (clk - v) % M <= MaxLag \/ (v - clk) % M <= Interval[y]
  PROVE  /\ ~TimeLess(u, t) /\ ~TimeLess(v, u) => ~TimeLess(v, t)
         /\ TimeLess(t, u) => ~TimeLess(u, t)
         /\ TimeLess(t, u) /\ ~TimeLess(v, u) => TimeLess(t, v)
<1>1. PICK b \in Nat : /\ 2 * (b + 2 * MaxLag) < M
                       /\ Interval[w] <= b /\ Interval[x] <= b /\ Interval[y] <= b
  BY IntervalBound
<1>2. /\ Interval[w] \in Nat /\ Interval[x] \in Nat /\ Interval[y] \in Nat
      /\ MaxLag \in Nat /\ M \in Nat
  BY ConstantFacts
<1>3. PICK d \in Int : 0 - MaxLag <= d /\ d <= Interval[w] /\ Distance(clk, t, d)
  BY <1>2, NearDistance
<1>4. PICK e \in Int : 0 - MaxLag <= e /\ e <= Interval[x] /\ Distance(clk, u, e)
  BY <1>2, NearDistance
<1>5. PICK f \in Int : 0 - MaxLag <= f /\ f <= Interval[y] /\ Distance(clk, v, f)
  BY <1>2, NearDistance
<1>6. /\ 2 * (d - e) < M /\ 2 * (e - d) < M
      /\ 2 * (d - f) < M /\ 2 * (f - d) < M
      /\ 2 * (f - e) < M /\ 2 * (e - f) < M
  BY <1>1, <1>2, <1>3, <1>4, <1>5
<1>7. /\ TimeLess(t, u) <=> d < e
      /\ TimeLess(u, t) <=> e < d
      /\ TimeLess(v, u) <=> f < e
      /\ TimeLess(v, t) <=> f < d
      /\ TimeLess(t, v) <=> d < f
  BY <1>3, <1>4, <1>5, <1>6, LessByDistance
<1> QED BY <1>7

\* Of two times near each other not both are earlier.
LEMMA NearAsymmetric ==
  ASSUME NEW clk \in 0 .. M - 1, NEW t \in 0 .. M - 1, NEW u \in 0 .. M - 1,
         NEW w \in Timers, NEW x \in Timers,
         (clk - t) % M <= MaxLag \/ (t - clk) % M <= Interval[w],
         (clk - u) % M <= MaxLag \/ (u - clk) % M <= Interval[x],
         TimeLess(t, u)
  PROVE  ~TimeLess(u, t)
BY NearOrder
-----------------------------------------------------------------------------
(* The list of entries. *)

\* A set of numbers that is not empty has a least member, which is its Min.
LEMMA LeastMember ==
  ASSUME NEW T \in SUBSET Nat, T # {}
  PROVE  Min(T) \in T /\ \A y \in T : Min(T) <= y
<1>1. PICK x \in T : \A y \in T : ~(<<y, x>> \in OpToRel(<, Nat))
  BY NatLessThanWellFounded, WFMin, Zenon
<1>2. \A y \in T : ~(y < x)
  BY <1>1, Zenon DEF OpToRel
<1>3. \E z \in T : \A y \in T : z <= y
  BY <1>2
<1> QED BY <1>3, Zenon DEF Min

\* Hop follows the pointers.
LEMMA HopFollows ==
  Hop[0] = 0 /\ \A k \in 1 .. PoolSize : Hop[k] = next[Hop[k - 1]]
<1> DEFINE IsHop(f, m) == f = [k \in 0 .. m |-> IF k = 0 THEN 0 ELSE next[f[k - 1]]]
           Without == {m \in Nat : ~\E f : IsHop(f, m)}
<1>1. \A m \in Nat : \E f : IsHop(f, m)
  <2> SUFFICES ASSUME Without # {} PROVE FALSE
    BY Zenon
  <2>1. PICK m \in Without : \A j \in Without : m <= j
    BY LeastMember, Zenon
  <2>2. CASE m = 0
    <3> DEFINE g == [k \in 0 .. m |-> 0]
    <3>1. g = [k \in 0 .. m |-> IF k = 0 THEN 0 ELSE next[g[k - 1]]]
      BY <2>2
    <3> QED BY <2>1, <3>1
  <2>3. CASE m # 0
    <3>1. m - 1 \in Nat /\ m - 1 \notin Without
      <4>1. m - 1 \in Nat /\ ~(m <= m - 1)
        BY <2>3
      <4> HIDE DEF Without
      <4> QED BY <2>1, <4>1
    <3>2. PICK f : IsHop(f, m - 1)
      BY <3>1
    <3> DEFINE g == [k \in 0 .. m |-> IF k = m THEN next[f[m - 1]] ELSE f[k]]
    <3>3. \A k \in 0 .. m : g[k] = IF k = 0 THEN 0 ELSE next[g[k - 1]]
      BY <2>3, <3>1, <3>2
    <3>4. g = [k \in 0 .. m |-> g[k]]
      OBVIOUS
    <3> HIDE DEF g
    <3>5. IsHop(g, m)
      BY <3>3, <3>4, Zenon
    <3> QED BY <2>1, <3>5
  <2> QED BY <2>2, <2>3
<1>2. IsHop(Hop, PoolSize)
  BY <1>1, ConstantFacts, Zenon DEF Hop
<1> HIDE DEF Without
<1> QED BY <1>2, ConstantFacts

\* Two walks along the same pointers are the same.
IsWalk(R, L, n) == L[0] = 0 /\ \A k \in 1 .. n : L[k] = R[L[k - 1]]

\* Two walks along the same pointers are the same.
LEMMA WalkUnique ==
  ASSUME NEW R, NEW L, NEW H, NEW n \in Nat, IsWalk(R, L, n), IsWalk(R, H, n)
  PROVE  \A k \in 0 .. n : H[k] = L[k]
<1> USE DEF IsWalk
<1> DEFINE Differ == {k \in 0 .. n : H[k] # L[k]}
<1> SUFFICES ASSUME Differ # {} PROVE FALSE
  OBVIOUS
<1>1. PICK k \in Differ : \A j \in Differ : k <= j
  <2>1. Differ \in SUBSET Nat
    OBVIOUS
  <2> HIDE DEF Differ
  <2> QED BY <2>1, LeastMember, Zenon
<1>2. k \in 1 .. n /\ k - 1 \in 0 .. n /\ k - 1 \notin Differ
  BY <1>1
<1>3. H[k - 1] = L[k - 1]
  BY <1>2
<1> QED BY <1>1, <1>2, <1>3

\* A list that the pointers run through is what Hop, ListLen and Listed say.
ListMeans ==
  \A L, n : IsList(next, L, n) =>
    /\ ListLen = n /\ IsList(next, Hop, n) /\ Listed = {L[k] : k \in 1 .. n}
    /\ \A k \in 0 .. n : Hop[k] = L[k]

\* The walk of the model along next is a walk to the end of the list.
LEMMA ListIs == ListMeans
<1> SUFFICES ASSUME NEW L, NEW n, IsList(next, L, n)
             PROVE  /\ ListLen = n /\ IsList(next, Hop, n) /\ Listed = {L[k] : k \in 1 .. n}
                    /\ \A k \in 0 .. n : Hop[k] = L[k]
  BY DEF ListMeans
<1>1. n \in Nat /\ n <= PoolSize
  BY ConstantFacts DEF IsList
<1>2. \A k \in 0 .. n : Hop[k] = L[k]
  <2>1. \A k \in 1 .. n : Hop[k] = next[Hop[k - 1]]
    BY <1>1, HopFollows, ConstantFacts
  <2>2. \A k \in 1 .. n : L[k] = next[L[k - 1]]
    BY DEF IsList
  <2>3. L[0] = 0 /\ Hop[0] = 0
    BY HopFollows DEF IsList
  <2>4. IsWalk(next, L, n) /\ IsWalk(next, Hop, n)
    BY <2>1, <2>2, <2>3 DEF IsWalk
  <2> QED BY <1>1, <2>4, WalkUnique
<1>3. IsList(next, Hop, n)
  BY <1>1, <1>2 DEF IsList
<1>4. ListLen = n
  <2> DEFINE Ends == {k \in 0 .. PoolSize : next[Hop[k]] = 0}
  <2>1. Ends \in SUBSET Nat /\ n \in Ends
    BY <1>1, <1>3, ConstantFacts DEF IsList
  <2>2. ASSUME NEW k \in Ends, k < n PROVE FALSE
    <3>1. k + 1 \in 1 .. n /\ (k + 1) - 1 = k
      BY <1>1, <2>2
    <3>2. next[Hop[k]] \in Nodes
      <4>1. Hop[k + 1] \in Nodes /\ next[Hop[(k + 1) - 1]] = Hop[k + 1]
        BY <1>3, <3>1 DEF IsList
      <4> QED BY <3>1, <4>1
    <3> QED BY <2>2, <3>2, ConstantFacts DEF Nodes
  <2> HIDE DEF Ends
  <2>3. Min(Ends) \in Ends /\ Min(Ends) <= n
    BY <2>1, LeastMember
  <2>4. Min(Ends) = n
    <3>1. Min(Ends) \in Nat /\ ~(Min(Ends) < n)
      BY <2>1, <2>2, <2>3, Zenon
    <3> QED BY <1>1, <2>3, <3>1
  <2> QED BY <2>4 DEF ListLen, Ends
<1>5. Listed = {L[k] : k \in 1 .. n}
  BY <1>1, <1>2, <1>4 DEF Listed
<1> QED BY <1>2, <1>3, <1>4, <1>5

\* The place that sys_timeout_abs finds.
LEMMA PlaceIs ==
  \A t : IsList(next, Hop, ListLen) =>
    \E i \in 0 .. ListLen :
      /\ Place(t) = Hop[i]
      /\ i # ListLen => TimeLess(t, time[Hop[i + 1]])
      /\ \A k \in 1 .. i : ~TimeLess(t, time[Hop[k]])
<1> SUFFICES ASSUME NEW t, IsList(next, Hop, ListLen)
             PROVE  \E i \in 0 .. ListLen :
                      /\ Place(t) = Hop[i]
                      /\ i # ListLen => TimeLess(t, time[Hop[i + 1]])
                      /\ \A k \in 1 .. i : ~TimeLess(t, time[Hop[k]])
  OBVIOUS
<1> DEFINE Fit == {k \in 0 .. ListLen : next[Hop[k]] = 0 \/ TimeLess(t, time[next[Hop[k]]])}
           i == Min(Fit)
<1>1. ListLen \in Nat /\ next[Hop[ListLen]] = 0
  BY ConstantFacts DEF IsList
<1>2. Fit \in SUBSET Nat /\ ListLen \in Fit
  BY <1>1
<1>3. i \in Fit /\ \A k \in Fit : i <= k
  <2> HIDE DEF Fit
  <2> QED BY <1>2, LeastMember
<1>4. \A k \in 0 .. ListLen - 1 : next[Hop[k]] = Hop[k + 1] /\ Hop[k + 1] # 0
  <2> SUFFICES ASSUME NEW k \in 0 .. ListLen - 1 PROVE next[Hop[k]] = Hop[k + 1] /\ Hop[k + 1] # 0
    OBVIOUS
  <2>1. k + 1 \in 1 .. ListLen /\ (k + 1) - 1 = k
    BY <1>1
  <2>2. Hop[k + 1] \in Nodes /\ next[Hop[k]] = Hop[k + 1]
    BY <2>1 DEF IsList
  <2> QED BY <2>2, ConstantFacts DEF Nodes
<1>5. Place(t) = Hop[i]
  BY DEF Place
<1>6. i \in 0 .. ListLen /\ (i # ListLen => TimeLess(t, time[Hop[i + 1]]))
  <2> HIDE DEF i
  <2> QED BY <1>1, <1>3, <1>4
<1>7. ASSUME NEW k \in 1 .. i PROVE ~TimeLess(t, time[Hop[k]])
  <2> HIDE DEF i
  <2>1. k - 1 \in 0 .. ListLen - 1 /\ (k - 1) + 1 = k /\ k - 1 < i
    BY <1>1, <1>6
  <2>2. k - 1 \notin Fit
    BY <1>3, <1>6, <2>1
  <2> QED BY <1>1, <1>4, <2>1, <2>2
<1> QED BY <1>5, <1>6, <1>7, Zenon

\* An entry that is not in the list leaves room for it there.
LEMMA RoomInList ==
  ASSUME NEW R, NEW L, NEW n, IsList(R, L, n), NEW e \in Nodes, \A k \in 1 .. n : L[k] # e
  PROVE  n < PoolSize
<1> DEFINE f == [k \in 1 .. n |-> L[k]]
           Rest == Nodes \ {e}
<1>1. n \in Nat /\ PoolSize \in Nat /\ 1 <= PoolSize
  BY ConstantFacts DEF IsList, Nodes
<1>2. IsFiniteSet(Nodes) /\ Cardinality(Nodes) = PoolSize
  BY <1>1, FS_Interval DEF Nodes
<1>3. IsFiniteSet(Rest) /\ Cardinality(Rest) = PoolSize - 1
  BY <1>2, FS_RemoveElement
<1>4. f \in Injection(1 .. n, Rest)
  BY SMTT(30) DEF IsList, Injection, IsInjective
<1>5. Cardinality(1 .. n) = n
  BY <1>1, FS_Interval
<1> HIDE DEF f, Rest
<1>6. Cardinality(1 .. n) <= Cardinality(Rest)
  BY <1>3, <1>4, FS_Injection
<1> QED BY <1>1, <1>3, <1>5, <1>6

\* L2 is L with entry e behind place i.
IsInserted(L2, L, n, i, e) ==
  \A k \in 0 .. n + 1 : L2[k] = IF k <= i THEN L[k] ELSE IF k = i + 1 THEN e ELSE L[k - 1]

\* The list with one more entry behind a given one.
LEMMA ListInsert ==
  ASSUME NEW R, NEW L, NEW n, IsList(R, L, n), NEW i \in 0 .. n,
         NEW e \in Nodes, \A k \in 1 .. n : L[k] # e,
         NEW R2, R2[e] = R[L[i]], R2[L[i]] = e,
         \A k \in 0 .. n : k # i => R2[L[k]] = R[L[k]],
         NEW L2, IsInserted(L2, L, n, i, e)
  PROVE  IsList(R2, L2, n + 1)
<1>1. n \in Nat /\ i \in Nat /\ i <= n /\ n + 1 \in 0 .. PoolSize
  <2>1. n < PoolSize
    BY RoomInList
  <2>2. n \in 0 .. PoolSize
    BY DEF IsList
  <2> QED BY <2>1, <2>2, ConstantFacts
<1>2. L2[0] = 0
  BY <1>1 DEF IsInserted, IsList
<1>3. ASSUME NEW k \in 1 .. n + 1 PROVE L2[k] \in Nodes /\ R2[L2[k - 1]] = L2[k]
  <2>1. k - 1 \in 0 .. n + 1 /\ k \in 0 .. n + 1
    BY <1>1
  <2>2. CASE k <= i
    <3>1. k \in 1 .. n /\ k - 1 \in 0 .. n /\ k - 1 # i /\ k - 1 <= i
      BY <1>1, <2>2
    <3>2. L2[k] = L[k] /\ L2[k - 1] = L[k - 1]
      BY <2>1, <2>2, <3>1 DEF IsInserted
    <3> QED BY <3>1, <3>2 DEF IsList
  <2>3. CASE k = i + 1
    <3>1. ~(k <= i) /\ k - 1 = i
      BY <1>1, <2>3
    <3>2. L2[k] = e /\ L2[k - 1] = L[i]
      BY <1>1, <2>1, <2>3, <3>1 DEF IsInserted
    <3> QED BY <3>2
  <2>4. CASE k = i + 2
    <3>1. ~(k <= i) /\ k # i + 1 /\ k - 1 = i + 1 /\ ~(k - 1 <= i) /\ k - 1 \in 1 .. n /\ (k - 1) - 1 = i
      BY <1>1, <2>4
    <3>2. L2[k] = L[k - 1] /\ L2[k - 1] = e
      BY <2>1, <3>1 DEF IsInserted
    <3>3. L[k - 1] \in Nodes /\ R[L[i]] = L[k - 1]
      BY <3>1 DEF IsList
    <3> QED BY <3>2, <3>3
  <2>5. CASE k > i + 2
    <3>1. /\ ~(k <= i) /\ k # i + 1 /\ ~(k - 1 <= i) /\ k - 1 # i + 1
          /\ k - 1 \in 1 .. n /\ (k - 1) - 1 \in 0 .. n /\ (k - 1) - 1 # i
      BY <1>1, <2>5
    <3>2. L2[k] = L[k - 1] /\ L2[k - 1] = L[(k - 1) - 1]
      BY <2>1, <3>1 DEF IsInserted
    <3>3. L[k - 1] \in Nodes /\ R[L[(k - 1) - 1]] = L[k - 1]
      BY <3>1 DEF IsList
    <3> QED BY <3>1, <3>2, <3>3
  <2> QED BY <1>1, <2>2, <2>3, <2>4, <2>5
<1>4. R2[L2[n + 1]] = 0
  <2>1. R[L[n]] = 0
    BY DEF IsList
  <2>2. CASE i = n
    <3>1. L2[n + 1] = e
      BY <1>1, <2>2 DEF IsInserted
    <3> QED BY <2>1, <2>2, <3>1
  <2>3. CASE i # n
    <3>1. L2[n + 1] = L[(n + 1) - 1] /\ (n + 1) - 1 = n /\ n \in 0 .. n
      BY <1>1, <2>3 DEF IsInserted
    <3> QED BY <2>1, <2>3, <3>1
  <2> QED BY <2>2, <2>3
<1>5. ASSUME NEW j \in 1 .. n + 1, NEW k \in 1 .. n + 1, L2[j] = L2[k] PROVE j = k
  <2>1. ASSUME NEW l \in 1 .. n + 1
        PROVE  \/ l <= i /\ l \in 1 .. n /\ L2[l] = L[l]
               \/ l = i + 1 /\ L2[l] = e
               \/ l > i + 1 /\ l - 1 \in 1 .. n /\ L2[l] = L[l - 1]
    BY <1>1 DEF IsInserted
  <2>2. \A a, b \in 1 .. n : L[a] = L[b] => a = b
    BY DEF IsList
  <2>3. \A a \in 1 .. n : L[a] # e
    OBVIOUS
  <2>4. /\ \/ j <= i /\ j \in 1 .. n /\ L2[j] = L[j]
           \/ j = i + 1 /\ L2[j] = e
           \/ j > i + 1 /\ j - 1 \in 1 .. n /\ L2[j] = L[j - 1]
        /\ \/ k <= i /\ k \in 1 .. n /\ L2[k] = L[k]
           \/ k = i + 1 /\ L2[k] = e
           \/ k > i + 1 /\ k - 1 \in 1 .. n /\ L2[k] = L[k - 1]
    BY <2>1
  <2>5. CASE j = i + 1 \/ k = i + 1
    BY <1>1, <1>5, <2>3, <2>4, <2>5
  <2>6. CASE j <= i /\ k <= i
    BY <1>1, <1>5, <2>2, <2>4, <2>6
  <2>7. CASE j > i + 1 /\ k > i + 1
    <3>1. j - 1 = k - 1
      BY <1>1, <1>5, <2>2, <2>4, <2>7
    <3> QED BY <3>1
  <2>8. CASE j <= i /\ k > i + 1
    <3>1. j = k - 1
      BY <1>1, <1>5, <2>2, <2>4, <2>8
    <3> QED BY <1>1, <2>8, <3>1
  <2>9. CASE j > i + 1 /\ k <= i
    <3>1. j - 1 = k
      BY <1>1, <1>5, <2>2, <2>4, <2>9
    <3> QED BY <1>1, <2>9, <3>1
  <2> QED BY <1>1, <2>5, <2>6, <2>7, <2>8, <2>9
<1> QED BY <1>1, <1>2, <1>3, <1>4, <1>5 DEF IsList

\* The list without its first entry.
LEMMA ListBehead ==
  ASSUME NEW R, NEW L, NEW n, IsList(R, L, n), n # 0,
         NEW R2, R2[0] = R[L[1]], \A k \in 2 .. n : R2[L[k]] = R[L[k]],
         NEW L2, L2[0] = 0, \A k \in 1 .. n - 1 : L2[k] = L[k + 1]
  PROVE  IsList(R2, L2, n - 1)
<1>1. n \in Nat /\ 1 \in 1 .. n /\ n - 1 \in 0 .. PoolSize
  BY ConstantFacts DEF IsList
<1>2. ASSUME NEW k \in 1 .. n - 1 PROVE L2[k] \in Nodes /\ R2[L2[k - 1]] = L2[k]
  <2>1. k + 1 \in 1 .. n /\ (k + 1) - 1 = k
    BY <1>1
  <2>2. L2[k] = L[k + 1] /\ L[k + 1] \in Nodes /\ R[L[k]] = L[k + 1]
    BY <2>1 DEF IsList
  <2>3. CASE k = 1
    <3>1. L2[k - 1] = 0
      BY <2>3
    <3> QED BY <2>2, <2>3, <3>1
  <2>4. CASE k # 1
    <3>1. k - 1 \in 1 .. n - 1 /\ (k - 1) + 1 = k /\ k \in 2 .. n
      BY <1>1, <2>4
    <3>2. L2[k - 1] = L[k] /\ R2[L[k]] = R[L[k]]
      BY <3>1
    <3> QED BY <2>2, <3>2
  <2> QED BY <2>3, <2>4
<1>3. R2[L2[n - 1]] = 0
  <2>1. R[L[n]] = 0
    BY DEF IsList
  <2>2. CASE n = 1
    <3>1. L2[n - 1] = 0
      BY <2>2
    <3> QED BY <2>1, <2>2, <3>1
  <2>3. CASE n # 1
    <3>1. n - 1 \in 1 .. n - 1 /\ (n - 1) + 1 = n /\ n \in 2 .. n
      BY <1>1, <2>3
    <3>2. L2[n - 1] = L[n] /\ R2[L[n]] = R[L[n]]
      BY <3>1
    <3> QED BY <2>1, <3>2
  <2> QED BY <2>2, <2>3
<1>4. ASSUME NEW j \in 1 .. n - 1, NEW k \in 1 .. n - 1, L2[j] = L2[k] PROVE j = k
  <2>1. j + 1 \in 1 .. n /\ k + 1 \in 1 .. n
    BY <1>1
  <2>2. L[j + 1] = L[k + 1]
    BY <1>4
  <2>3. j + 1 = k + 1
    BY <2>1, <2>2 DEF IsList
  <2> QED BY <2>3
<1> QED BY <1>1, <1>2, <1>3, <1>4 DEF IsList

\* Pointers that agree on the entries of a list run through the same list.
LEMMA ListSame ==
  ASSUME NEW R, NEW L, NEW n, IsList(R, L, n), NEW R2, \A k \in 0 .. n : R2[L[k]] = R[L[k]]
  PROVE  IsList(R2, L, n)
<1>1. n \in Nat
  BY ConstantFacts DEF IsList
<1>2. ASSUME NEW k \in 1 .. n PROVE R2[L[k - 1]] = L[k]
  <2>1. k - 1 \in 0 .. n
    BY <1>1
  <2> QED BY <2>1 DEF IsList
<1>3. n \in 0 .. n
  BY <1>1
<1> QED BY <1>2, <1>3 DEF IsList
-----------------------------------------------------------------------------
(* The list in a step. *)

\* What the list of the invariant consists of.
LEMMA ListedFacts ==
  ASSUME IsList(next, Hop, ListLen)
  PROVE  /\ ListLen \in Nat /\ ListLen <= PoolSize /\ Hop[0] = 0 /\ Listed \subseteq Nodes
         /\ \A k \in 1 .. ListLen : Hop[k] \in Listed
         /\ \A n \in Listed : \E k \in 1 .. ListLen : n = Hop[k]
         /\ 0 \notin Nodes
BY ConstantFacts DEF IsList, Listed, Nodes

SameList ==
  /\ ListLen' = ListLen /\ Listed' = Listed /\ IsList(next', Hop', ListLen')
  /\ \A k \in 0 .. ListLen : Hop'[k] = Hop[k]

\* The list stays if none of its pointers changes.
LEMMA ListKept ==
  ASSUME IsList(next, Hop, ListLen), \A k \in 0 .. ListLen : next'[Hop[k]] = next[Hop[k]]
  PROVE  SameList
<1>1. IsList(next', Hop, ListLen)
  BY ListSame
<1>2. ListMeans'
  BY ListIs, PTL
<1>3. /\ ListLen' = ListLen /\ IsList(next', Hop', ListLen)
      /\ Listed' = {Hop[k] : k \in 1 .. ListLen} /\ \A k \in 0 .. ListLen : Hop'[k] = Hop[k]
  BY <1>1, <1>2 DEF ListMeans
<1> QED BY <1>3 DEF SameList, Listed

\* An entry comes in behind place i.
LEMMA ListGrows ==
  ASSUME IsList(next, Hop, ListLen), NEW i \in 0 .. ListLen, NEW e \in Nodes, e \notin Listed,
         next'[e] = next[Hop[i]], next'[Hop[i]] = e,
         \A k \in 0 .. ListLen : k # i => next'[Hop[k]] = next[Hop[k]]
  PROVE  /\ ListLen' = ListLen + 1 /\ Listed' = Listed \union {e} /\ IsList(next', Hop', ListLen')
         /\ IsInserted(Hop', Hop, ListLen, i, e)
<1> DEFINE n == ListLen
           L2 == [k \in 0 .. n + 1 |-> IF k <= i THEN Hop[k] ELSE IF k = i + 1 THEN e ELSE Hop[k - 1]]
<1>1. n \in Nat /\ \A k \in 1 .. n : Hop[k] # e
  BY ListedFacts
<1>2. IsInserted(L2, Hop, n, i, e)
  BY DEF IsInserted
<1> HIDE DEF L2
<1>3. IsList(next', L2, n + 1)
  BY <1>1, <1>2, ListInsert
<1>4. ListMeans'
  BY ListIs, PTL
<1>5. /\ ListLen' = n + 1 /\ IsList(next', Hop', n + 1)
      /\ Listed' = {L2[k] : k \in 1 .. n + 1} /\ \A k \in 0 .. n + 1 : Hop'[k] = L2[k]
  BY <1>3, <1>4 DEF ListMeans
<1>6. IsInserted(Hop', Hop, n, i, e)
  BY <1>2, <1>5 DEF IsInserted
<1>7. Listed' = Listed \union {e}
  <2>1. ASSUME NEW x \in Listed' PROVE x \in Listed \union {e}
    <3>1. PICK k \in 1 .. n + 1 : x = L2[k]
      BY <1>5, <2>1
    <3>2. L2[k] = e \/ (k \in 1 .. n /\ L2[k] = Hop[k]) \/ (k - 1 \in 1 .. n /\ L2[k] = Hop[k - 1])
      BY <1>1, <1>2 DEF IsInserted
    <3> QED BY <3>1, <3>2, ListedFacts
  <2>2. ASSUME NEW x \in Listed PROVE x \in Listed'
    <3>1. PICK k \in 1 .. n : x = Hop[k]
      BY <2>2, ListedFacts
    <3>2. CASE k <= i
      <4>1. L2[k] = Hop[k] /\ k \in 1 .. n + 1
        BY <1>1, <1>2, <3>2 DEF IsInserted
      <4> QED BY <1>5, <3>1, <4>1
    <3>3. CASE ~(k <= i)
      <4>1. k + 1 \in 1 .. n + 1 /\ (k + 1) - 1 = k /\ ~(k + 1 <= i) /\ k + 1 # i + 1
        BY <1>1, <3>3
      <4>2. L2[k + 1] = Hop[k]
        BY <1>2, <4>1 DEF IsInserted
      <4> QED BY <1>5, <3>1, <4>1, <4>2
    <3> QED BY <3>2, <3>3
  <2>3. e \in Listed'
    <3>1. i + 1 \in 1 .. n + 1 /\ ~(i + 1 <= i)
      BY <1>1
    <3>2. L2[i + 1] = e
      BY <1>2, <3>1 DEF IsInserted
    <3> QED BY <1>5, <3>1, <3>2
  <2> QED BY <2>1, <2>2, <2>3
<1> QED BY <1>5, <1>6, <1>7

\* The first entry goes.
LEMMA ListShrinks ==
  ASSUME IsList(next, Hop, ListLen), next[0] # 0,
         next'[0] = next[next[0]], \A k \in 2 .. ListLen : next'[Hop[k]] = next[Hop[k]]
  PROVE  /\ ListLen # 0 /\ next[0] = Hop[1] /\ next[0] \in Listed
         /\ ListLen' = ListLen - 1 /\ Listed' = Listed \ {next[0]} /\ IsList(next', Hop', ListLen')
         /\ \A k \in 1 .. ListLen - 1 : Hop'[k] = Hop[k + 1]
<1> DEFINE n == ListLen
           L2 == [k \in 0 .. n - 1 |-> IF k = 0 THEN 0 ELSE Hop[k + 1]]
<1>1. n \in Nat /\ n # 0 /\ next[0] = Hop[1] /\ 1 \in 1 .. n
  <2>1. n \in Nat /\ Hop[0] = 0 /\ next[Hop[n]] = 0
    BY ListedFacts DEF IsList
  <2>2. n # 0 /\ 1 \in 1 .. n /\ 1 - 1 = 0
    BY <2>1
  <2>3. next[Hop[1 - 1]] = Hop[1]
    BY <2>2 DEF IsList
  <2> QED BY <2>1, <2>2, <2>3
<1>2. L2[0] = 0 /\ \A k \in 1 .. n - 1 : L2[k] = Hop[k + 1]
  BY <1>1
<1> HIDE DEF L2
<1>3. IsList(next', L2, n - 1)
  BY <1>1, <1>2, ListBehead
<1>4. ListMeans'
  BY ListIs, PTL
<1>5. /\ ListLen' = n - 1 /\ IsList(next', Hop', n - 1)
      /\ Listed' = {L2[k] : k \in 1 .. n - 1} /\ \A k \in 0 .. n - 1 : Hop'[k] = L2[k]
  BY <1>3, <1>4 DEF ListMeans
<1>6. \A k \in 1 .. n - 1 : Hop'[k] = Hop[k + 1]
  BY <1>1, <1>2, <1>5
<1>7. Listed' = Listed \ {next[0]}
  <2>1. ASSUME NEW x \in Listed' PROVE x \in Listed \ {next[0]}
    <3>1. PICK k \in 1 .. n - 1 : x = L2[k]
      BY <1>5, <2>1
    <3>2. x = Hop[k + 1] /\ k + 1 \in 1 .. n /\ k + 1 # 1
      BY <1>1, <1>2, <3>1
    <3>3. Hop[k + 1] # Hop[1]
      BY <1>1, <3>2 DEF IsList
    <3> QED BY <1>1, <3>2, <3>3, ListedFacts
  <2>2. ASSUME NEW x \in Listed \ {next[0]} PROVE x \in Listed'
    <3>1. PICK k \in 1 .. n : x = Hop[k]
      BY <2>2, ListedFacts
    <3>2. k - 1 \in 1 .. n - 1 /\ (k - 1) + 1 = k
      BY <1>1, <2>2, <3>1
    <3>3. L2[k - 1] = Hop[k]
      BY <1>2, <3>2
    <3> QED BY <1>5, <3>1, <3>2, <3>3
  <2> QED BY <2>1, <2>2
<1>8. Hop[1] \in Listed
  BY <1>1, ListedFacts
<1> QED BY <1>1, <1>5, <1>6, <1>7, <1>8
-----------------------------------------------------------------------------
(* The clock in a step. *)

\* A tick, when main is not later than it may be.
LEMMA TickNear ==
  ASSUME NEW clk \in 0 .. M - 1, NEW t \in 0 .. M - 1, NEW x \in Timers, NEW clk2, clk2 = (clk + 1) % M,
         (clk - t) % M <= MaxLag \/ (t - clk) % M <= Interval[x],
         TimeLess(clk, t) \/ (clk - t) % M < MaxLag
  PROVE  (clk2 - t) % M <= MaxLag \/ (t - clk2) % M <= Interval[x]
<1>1. /\ M \in Nat /\ MaxLag \in Nat /\ Interval[x] \in Nat /\ Interval[x] > 0
      /\ 2 * (Interval[x] + 2 * MaxLag) < M
  BY ConstantFacts
<1>2. 1 \in 0 .. M - 1
  BY <1>1
<1>3. clk2 = (IF clk + 1 < M THEN clk + 1 ELSE clk + 1 - M) /\ clk2 \in 0 .. M - 1
  BY <1>1, <1>2, ClockPlus
<1>4. /\ (clk - t) % M = (IF clk >= t THEN clk - t ELSE clk - t + M)
      /\ (t - clk) % M = (IF t >= clk THEN t - clk ELSE t - clk + M)
      /\ (clk2 - t) % M = (IF clk2 >= t THEN clk2 - t ELSE clk2 - t + M)
      /\ (t - clk2) % M = (IF t >= clk2 THEN t - clk2 ELSE t - clk2 + M)
  BY <1>3, ClockMinus
<1>5. PICK h \in Nat : h = (M - 1) \div 2 /\ 2 * h <= M - 1 /\ M <= 2 * h + 2
  BY <1>1
<1>6. TimeLess(clk, t) <=> (clk - t) % M > h
  BY <1>5 DEF TimeLess
<1> QED BY <1>1, <1>3, <1>4, <1>5, <1>6

\* A tick that the bound on main allows keeps main within the bound.
LEMMA TickLag ==
  ASSUME NEW clk \in 0 .. M - 1, NEW s \in 0 .. M - 1, NEW clk2, clk2 = (clk + 1) % M,
         (clk - s) % M < MaxLag
  PROVE  (clk2 - s) % M <= MaxLag
<1>1. M \in Nat /\ MaxLag \in Nat /\ 2 * MaxLag < M /\ 1 \in 0 .. M - 1
  <2>1. Interval[Tcp] \in Nat /\ Interval[Tcp] > 0 /\ 2 * (Interval[Tcp] + 2 * MaxLag) < M
    BY ConstantFacts
  <2> QED BY <2>1, ConstantFacts
<1>2. clk2 = (IF clk + 1 < M THEN clk + 1 ELSE clk + 1 - M) /\ clk2 \in 0 .. M - 1
  BY <1>1, ClockPlus
<1>3. /\ (clk - s) % M = (IF clk >= s THEN clk - s ELSE clk - s + M)
      /\ (clk2 - s) % M = (IF clk2 >= s THEN clk2 - s ELSE clk2 - s + M)
  BY <1>2, ClockMinus
<1> QED BY <1>1, <1>2, <1>3

\* The same for an entry in main's hands: it is due after the start of the round.
LEMMA TickHeld ==
  ASSUME NEW clk2 \in 0 .. M - 1, NEW s \in 0 .. M - 1, NEW t \in 0 .. M - 1, NEW x \in Timers,
         (clk2 - s) % M <= MaxLag, (t - s) % M <= Interval[x] + MaxLag,
         NEW clk \in 0 .. M - 1, clk2 = (clk + 1) % M,
         (clk - t) % M <= MaxLag \/ (t - clk) % M <= Interval[x]
  PROVE  (clk2 - t) % M <= MaxLag \/ (t - clk2) % M <= Interval[x]
<1>1. /\ M \in Nat /\ MaxLag \in Nat /\ Interval[x] \in Nat /\ Interval[x] > 0
      /\ 2 * (Interval[x] + 2 * MaxLag) < M
  BY ConstantFacts
<1>2. 1 \in 0 .. M - 1
  BY <1>1
<1>3. clk2 = (IF clk + 1 < M THEN clk + 1 ELSE clk + 1 - M)
  BY <1>1, <1>2, ClockPlus
<1>4. /\ (clk - t) % M = (IF clk >= t THEN clk - t ELSE clk - t + M)
      /\ (t - clk) % M = (IF t >= clk THEN t - clk ELSE t - clk + M)
      /\ (clk2 - t) % M = (IF clk2 >= t THEN clk2 - t ELSE clk2 - t + M)
      /\ (t - clk2) % M = (IF t >= clk2 THEN t - clk2 ELSE t - clk2 + M)
      /\ (clk2 - s) % M = (IF clk2 >= s THEN clk2 - s ELSE clk2 - s + M)
      /\ (t - s) % M = (IF t >= s THEN t - s ELSE t - s + M)
  BY ClockMinus
<1> QED BY <1>1, <1>3, <1>4

\* An entry that has expired at the start of the round is not long overdue.
LEMMA ExpiredLag ==
  ASSUME NEW clk \in 0 .. M - 1, NEW s \in 0 .. M - 1, NEW t \in 0 .. M - 1, NEW x \in Timers,
         (clk - t) % M <= MaxLag \/ (t - clk) % M <= Interval[x],
         (clk - s) % M <= MaxLag, ~TimeLess(s, t)
  PROVE  (s - t) % M <= MaxLag
<1>1. /\ M \in Nat /\ MaxLag \in Nat /\ Interval[x] \in Nat /\ Interval[x] > 0
      /\ 2 * (Interval[x] + 2 * MaxLag) < M
  BY ConstantFacts
<1>2. /\ (clk - t) % M = (IF clk >= t THEN clk - t ELSE clk - t + M)
      /\ (t - clk) % M = (IF t >= clk THEN t - clk ELSE t - clk + M)
      /\ (clk - s) % M = (IF clk >= s THEN clk - s ELSE clk - s + M)
      /\ (s - t) % M = (IF s >= t THEN s - t ELSE s - t + M)
  BY ClockMinus
<1>3. PICK h \in Nat : h = (M - 1) \div 2 /\ 2 * h <= M - 1 /\ M <= 2 * h + 2
  BY <1>1
<1>4. ~((s - t) % M > h)
  BY <1>3 DEF TimeLess
<1> QED BY <1>1, <1>2, <1>3, <1>4

\* The due time that a timer is given when its handler has run.
Due(x) == IF x = Tcp THEN (now + Interval[Tcp]) % M ELSE NextDue(x)

\* The next due time of a cyclic timer, in both branches of lwip_cyclic_timer.
LEMMA DueRight ==
  ASSUME TypeOK, NEW x \in Timers, (now - start) % M <= MaxLag, (start - due) % M <= MaxLag
  PROVE  /\ Due(x) \in 0 .. M - 1
         /\ (Due(x) - now) % M <= Interval[x]
         /\ (Due(x) - start) % M <= Interval[x] + MaxLag
         /\ TimeLess(due, Due(x))
         /\ ~TimeLess((now + Interval[x]) % M, Due(x))
         /\ ~TimeLess(Due(x), now)
<1> DEFINE i == Interval[x]
           a == (now - start) % M
           c == (start - due) % M
           p == (due + i) % M
           q == (now + i) % M
<1>1. /\ M \in Nat /\ MaxLag \in Nat /\ i \in Nat /\ i > 0 /\ 2 * (i + 2 * MaxLag) < M
      /\ i \in 0 .. M - 1
  BY ConstantFacts
<1>2. now \in 0 .. M - 1 /\ start \in 0 .. M - 1 /\ due \in 0 .. M - 1
  BY DEF TypeOK
<1>3. /\ a = (IF now >= start THEN now - start ELSE now - start + M) /\ a \in 0 .. MaxLag
      /\ c = (IF start >= due THEN start - due ELSE start - due + M) /\ c \in 0 .. MaxLag
  <2>1. /\ a = (IF now >= start THEN now - start ELSE now - start + M) /\ a <= MaxLag
        /\ c = (IF start >= due THEN start - due ELSE start - due + M) /\ c <= MaxLag
    BY <1>2, ClockMinus
  <2> HIDE DEF a, c
  <2> QED BY <1>1, <1>2, <2>1
<1>4. /\ p = (IF due + i < M THEN due + i ELSE due + i - M) /\ p \in 0 .. M - 1
      /\ q = (IF now + i < M THEN now + i ELSE now + i - M) /\ q \in 0 .. M - 1
  <2>1. /\ p = (IF due + i < M THEN due + i ELSE due + i - M)
        /\ q = (IF now + i < M THEN now + i ELSE now + i - M)
    BY <1>1, <1>2, ClockPlus, Zenon
  <2> HIDE DEF p, q, i
  <2> QED BY <1>1, <1>2, <2>1
<1>5. Due(x) = q \/ (Due(x) = p /\ ~TimeLess(p, now))
  BY DEF Due, NextDue
<1> HIDE DEF i, a, c, p, q
\* Distances from the clock.
<1>6. /\ Distance(now, due, 0 - (a + c)) /\ Distance(now, p, i - (a + c))
      /\ Distance(now, q, i) /\ Distance(now, now, 0)
  BY <1>1, <1>2, <1>3, <1>4 DEF Distance
<1>7. ~TimeLess(p, now) => i - (a + c) >= 0
  BY <1>1, <1>2, <1>3, <1>4, <1>6, LessByDistance
<1>8. PICK d \in 0 .. i : Distance(now, Due(x), d) /\ Due(x) \in 0 .. M - 1 /\ d > 0 - (a + c)
  <2>1. CASE Due(x) = q
    <3>1. i \in 0 .. i /\ i > 0 - (a + c)
      BY <1>1, <1>3
    <3> QED BY <1>4, <1>6, <2>1, <3>1
  <2>2. CASE Due(x) = p /\ ~TimeLess(p, now)
    <3>1. i - (a + c) \in 0 .. i /\ i - (a + c) > 0 - (a + c)
      BY <1>1, <1>3, <1>7, <2>2
    <3> QED BY <1>4, <1>6, <2>2, <3>1
  <2> QED BY <1>5, <2>1, <2>2
<1> DEFINE t == Due(x)
<1> HIDE DEF t
<1>9. t \in 0 .. M - 1 /\ Distance(now, t, d)
  BY <1>8 DEF t
<1>10. /\ (t - now) % M = (IF t >= now THEN t - now ELSE t - now + M)
       /\ (t - start) % M = (IF t >= start THEN t - start ELSE t - start + M)
  BY <1>2, <1>9, ClockMinus
<1>11. (t - now) % M <= i
  BY <1>1, <1>2, <1>8, <1>9, <1>10 DEF Distance
<1>12. (t - start) % M <= i + MaxLag
  BY <1>1, <1>2, <1>3, <1>8, <1>9, <1>10 DEF Distance
<1>13. /\ TimeLess(due, t) <=> 0 - (a + c) < d
       /\ TimeLess(q, t) <=> i < d
       /\ TimeLess(t, now) <=> d < 0
  <2>1. d \in Int /\ i \in Int /\ 0 - (a + c) \in Int /\ 0 \in Int
    BY <1>1, <1>3, <1>8
  <2>2. /\ 2 * (d - (0 - (a + c))) < M /\ 2 * ((0 - (a + c)) - d) < M
        /\ 2 * (d - i) < M /\ 2 * (i - d) < M /\ 2 * (d - 0) < M /\ 2 * (0 - d) < M
    BY <1>1, <1>3, <1>8
  <2>3. TimeLess(due, t) <=> 0 - (a + c) < d
    BY <1>2, <1>6, <1>9, <2>1, <2>2, LessByDistance, SMTT(30)
  <2>4. TimeLess(q, t) <=> i < d
    BY <1>2, <1>4, <1>6, <1>9, <2>1, <2>2, LessByDistance, SMTT(30)
  <2>5. TimeLess(t, now) <=> d < 0
    BY <1>2, <1>6, <1>9, <2>1, <2>2, LessByDistance
  <2> QED BY <2>3, <2>4, <2>5
<1>14. TimeLess(due, t) /\ ~TimeLess(q, t) /\ ~TimeLess(t, now)
  BY <1>1, <1>3, <1>8, <1>13
<1> QED BY <1>9, <1>11, <1>12, <1>14 DEF t, q, i
-----------------------------------------------------------------------------
(* The steps. *)

\* The parts of the type invariant.
LEMMA TimersTypes ==
  ASSUME TimersInv
  PROVE  /\ now \in 0 .. M - 1 /\ start \in 0 .. M - 1 /\ due \in 0 .. M - 1 /\ job \in Timers
         /\ IsList(next, Hop, ListLen) /\ Listed \subseteq Nodes /\ 0 \notin Nodes
         /\ \A n \in Nodes : time[n] \in 0 .. M - 1 /\ who[n] \in Timers
         /\ DOMAIN next = 0 .. PoolSize /\ Nodes \subseteq 0 .. PoolSize
         /\ DOMAIN time = Nodes /\ DOMAIN who = Nodes
         /\ \A k \in 0 .. ListLen : Hop[k] \in Listed \union {0}
         /\ ListLen \in Nat
<1>1. IsList(next, Hop, ListLen) /\ TypeOK
  BY DEF TimersInv, EntriesInv
<1>2. \A k \in 0 .. ListLen : Hop[k] \in Listed \union {0}
  <2> SUFFICES ASSUME NEW k \in 0 .. ListLen PROVE Hop[k] \in Listed \union {0}
    OBVIOUS
  <2>1. k = 0 \/ k \in 1 .. ListLen
    BY <1>1, ListedFacts
  <2> QED BY <1>1, <2>1, ListedFacts
<1>3. Listed \subseteq Nodes /\ 0 \notin Nodes /\ ListLen \in Nat
  BY <1>1, ListedFacts
<1>4. Nodes \subseteq 0 .. PoolSize
  BY ConstantFacts DEF Nodes
<1> QED BY <1>1, <1>2, <1>3, <1>4 DEF TypeOK

\* What a step that leaves the list and its entries alone has to show.
LEMMA EntriesKept ==
  ASSUME EntriesInv, SameList, UNCHANGED <<free, active>>, \A n \in Listed : who'[n] = who[n],
         Holding' <=> Holding, Holding => tmp' = tmp,
         \A x \in Timers : InHand(x)' <=> InHand(x)
  PROVE  EntriesInv'
<1>1. Listed' = Listed /\ IsList(next, Hop, ListLen)'
  BY DEF SameList, IsList
<1> QED BY <1>1 DEF EntriesInv

\* The order of the list depends on the times of its entries only.
LEMMA OrderKept ==
  ASSUME TimersInv, SameList, now' = now, \A n \in Listed : who'[n] = who[n] /\ time'[n] = time[n]
  PROVE  OrderInv'
<1>1. Listed' = Listed /\ ListLen' = ListLen /\ \A k \in 0 .. ListLen : Hop'[k] = Hop[k]
  BY DEF SameList
<1>2. \A n \in Listed' : Near(time[n], who[n])'
  BY <1>1 DEF TimersInv, OrderInv, Near
<1>3. ASSUME NEW k \in 1 .. ListLen' - 1 PROVE ~TimeLess(time'[Hop'[k + 1]], time'[Hop'[k]])
  <2>1. ListLen \in Nat
    BY TimersTypes
  <2>2. k \in 1 .. ListLen /\ k + 1 \in 1 .. ListLen /\ k \in 1 .. ListLen - 1
    BY <1>1, <2>1
  <2>3. Hop'[k] = Hop[k] /\ Hop'[k + 1] = Hop[k + 1] /\ Hop[k] \in Listed /\ Hop[k + 1] \in Listed
    <3>1. k \in 0 .. ListLen /\ k + 1 \in 0 .. ListLen
      BY <2>1, <2>2
    <3>2. IsList(next, Hop, ListLen)
      BY TimersTypes, Zenon
    <3> QED BY <1>1, <2>2, <3>1, <3>2, ListedFacts, Zenon
  <2>4. ~TimeLess(time[Hop[k + 1]], time[Hop[k]])
    BY <2>2 DEF TimersInv, OrderInv
  <2> QED BY <2>3, <2>4, SMTT(30)
<1> QED BY <1>2, <1>3 DEF OrderInv, TimeLess

\* And so does the place of a new entry between two others.
LEMMA BetweenKept ==
  ASSUME TimersInv, SameList, \A n \in Listed : time'[n] = time[n], NEW i \in 0 .. ListLen, NEW t, NEW t2, t2 = t
  PROVE  Between(t, i) => (/\ i # 0 => ~TimeLess(t2, time'[Hop'[i]])
                           /\ i # ListLen' => TimeLess(t2, time'[Hop'[i + 1]]))
<1>1. ListLen' = ListLen /\ \A k \in 0 .. ListLen : Hop'[k] = Hop[k]
  BY DEF SameList
<1>2. ListLen \in Nat
  BY TimersTypes
<1>3. i # 0 => i \in 1 .. ListLen /\ Hop'[i] = Hop[i] /\ Hop[i] \in Listed
  BY <1>1, <1>2, TimersTypes, ListedFacts
<1>4. i # ListLen => i + 1 \in 1 .. ListLen /\ Hop'[i + 1] = Hop[i + 1] /\ Hop[i + 1] \in Listed
  BY <1>1, <1>2, TimersTypes, ListedFacts
<1> QED BY <1>1, <1>3, <1>4 DEF Between

\* TMR0_IRQHandler.
LEMMA TickStep == ASSUME TimersInv, TMR0_IRQHandler PROVE TimersInv'
<1> DEFINE clk == now'
<1>1. /\ UNCHANGED <<next, who, time, free, active, pcbs, pc, start, job, due, tmp, pred>>
      /\ now' = (now + 1) % M
      /\ \A n \in Listed : TimeLess(now, time[n]) \/ (now - time[n]) % M < MaxLag
      /\ pc # "idle" => (now - start) % M < MaxLag
  BY DEF TMR0_IRQHandler, listVars, mainVars
<1>2. now' \in 0 .. M - 1
  BY <1>1, TimersTypes, ConstantFacts
<1>3. TypeOK'
  BY <1>1, <1>2 DEF TimersInv, TypeOK
<1>4. SameList
  BY <1>1, TimersTypes, ListKept
<1>5. EntriesInv'
  <2>1. EntriesInv
    BY DEF TimersInv
  <2> QED BY <1>1, <1>4, <2>1, EntriesKept DEF Holding, InHand
<1>6. OrderInv'
  <2>1. ASSUME NEW n \in Listed PROVE Near(time[n], who[n])'
    <3>1. Near(time[n], who[n])
      BY DEF TimersInv, OrderInv
    <3>2. now \in 0 .. M - 1 /\ time[n] \in 0 .. M - 1 /\ who[n] \in Timers
      BY TimersTypes
    <3>3. (now - time[n]) % M <= MaxLag \/ (time[n] - now) % M <= Interval[who[n]]
      BY <3>1 DEF Near
    <3>4. TimeLess(now, time[n]) \/ (now - time[n]) % M < MaxLag
      BY <1>1
    <3>5. (now' - time[n]) % M <= MaxLag \/ (time[n] - now') % M <= Interval[who[n]]
      BY <1>1, <3>2, <3>3, <3>4, TickNear
    <3> QED BY <1>1, <3>5 DEF Near
  <2>2. Listed' = Listed /\ ListLen' = ListLen /\ \A k \in 0 .. ListLen : Hop'[k] = Hop[k]
    BY <1>4 DEF SameList
  <2>3. ASSUME NEW k \in 1 .. ListLen' - 1 PROVE ~TimeLess(time'[Hop'[k + 1]], time'[Hop'[k]])
    <3>1. k \in 0 .. ListLen /\ k + 1 \in 0 .. ListLen /\ k \in 1 .. ListLen - 1
      BY <2>2, TimersTypes
    <3>2. ~TimeLess(time[Hop[k + 1]], time[Hop[k]])
      BY <3>1 DEF TimersInv, OrderInv
    <3> QED BY <1>1, <2>2, <3>1, <3>2
  <2> QED BY <2>1, <2>2, <2>3 DEF OrderInv, TimeLess
<1>7. LagInv'
  <2>1. pc' # "idle" => (now' - start') % M <= MaxLag
    BY <1>1, TimersTypes, TickLag
  <2>2. ASSUME Holding PROVE Near(time[tmp], job)'
    <3>1. Near(time[tmp], job) /\ (time[tmp] - start) % M <= Interval[job] + MaxLag /\ tmp \in Nodes /\ pc # "idle"
      BY <2>2 DEF TimersInv, LagInv, MainInv, Holding
    <3>2. (now' - start) % M <= MaxLag
      BY <1>1, <2>1, <3>1
    <3>3. (now' - time[tmp]) % M <= MaxLag \/ (time[tmp] - now') % M <= Interval[job]
      BY <1>1, <1>2, <3>1, <3>2, TimersTypes, TickHeld, Zenon DEF Near
    <3> QED BY <1>1, <3>3, Zenon DEF Near
  <2> QED BY <1>1, <2>1, <2>2 DEF LagInv, TimersInv, Holding
<1>8. MainInv'
  <2>1. ASSUME NEW i \in 0 .. ListLen, pred = Hop[i], Between(time[tmp], i)
        PROVE  i \in 0 .. ListLen' /\ pred' = Hop'[i] /\ Between(time[tmp], i)'
    <3>1. /\ i # 0 => ~TimeLess(time'[tmp'], time'[Hop'[i]])
          /\ i # ListLen' => TimeLess(time'[tmp'], time'[Hop'[i + 1]])
      BY <1>1, <1>4, <2>1, BetweenKept
    <3> QED BY <1>1, <1>4, <2>1, <3>1, ZenonT(30) DEF SameList, Between, TimeLess
  <2> QED BY <1>1, <2>1, Zenon DEF MainInv, TimersInv, Holding, InHand, TimeLess
<1> QED BY <1>3, <1>5, <1>6, <1>7, <1>8 DEF TimersInv

\* The last connection goes; sys_check_timeouts begins, looks at the first entry,
\* and turns the TCP timer off.
LEMMA QuietStep ==
  ASSUME TcpContext = "main", TimersInv, LastPcbRemoved \/ CheckStart \/ ReadHead \/ TcpTimerOff
  PROVE  TimersInv'
<1>1. UNCHANGED <<now, next, who, time, free, job, pred>>
  BY DEF LastPcbRemoved, CheckStart, ReadHead, TcpTimerOff, listVars, mainVars
<1>2. SameList
  BY <1>1, TimersTypes, ListKept
<1>3. OrderInv'
  BY <1>1, <1>2, OrderKept
<1>4. TypeOK /\ EntriesInv /\ LagInv /\ MainInv
  BY DEF TimersInv
<1>5. CASE LastPcbRemoved
  <2>1. UNCHANGED <<active, pc, start, due, tmp>> /\ pcbs' = FALSE /\ pc \in {"idle", "run"}
    BY <1>5 DEF LastPcbRemoved, mainVars
  <2>2. TypeOK'
    BY <1>1, <1>4, <2>1, Zenon DEF TypeOK
  <2>3. EntriesInv'
    BY <1>1, <1>2, <1>4, <2>1, EntriesKept, ZenonT(30) DEF Holding, InHand
  <2>4. LagInv'
    BY <1>1, <1>4, <2>1 DEF LagInv, Holding, Near
  <2>5. MainInv'
    BY <1>1, <1>4, <2>1, ZenonT(30) DEF MainInv, Holding, InHand
  <2> QED BY <1>3, <2>2, <2>3, <2>4, <2>5 DEF TimersInv
<1>6. CASE CheckStart
  <2>1. UNCHANGED <<active, pcbs, due, tmp>> /\ pc = "idle" /\ pc' = "head" /\ start' = now
    BY <1>6 DEF CheckStart, Main
  <2>2. TypeOK'
    BY <1>1, <1>4, <2>1 DEF TypeOK
  <2>3. EntriesInv'
    BY <1>1, <1>2, <1>4, <2>1, EntriesKept DEF Holding, InHand
  <2>4. (now' - start') % M = 0
    BY <1>1, <2>1, TimersTypes, ClockMinus
  <2>5. LagInv'
    BY <2>1, <2>4, ConstantFacts DEF LagInv, Holding
  <2>6. MainInv'
    BY <1>1, <1>4, <2>1, ZenonT(30) DEF MainInv, Holding, InHand
  <2> QED BY <1>3, <2>2, <2>3, <2>5, <2>6 DEF TimersInv
<1>7. CASE ReadHead
  <2> DEFINE expired == next[0] # 0 /\ ~TimeLess(start, time[next[0]])
  <2>1. /\ UNCHANGED <<active, pcbs, due>> /\ pc = "head"
        /\ pc' = (IF expired THEN "unlink" ELSE "idle")
        /\ tmp' = (IF expired THEN next[0] ELSE 0)
        /\ start' = (IF expired THEN start ELSE 0)
    BY <1>7 DEF ReadHead, Main, Expired
  <2>2. 0 \in 0 .. M - 1 /\ 0 \in 0 .. PoolSize /\ next[0] \in 0 .. PoolSize
    BY <1>4, TimersTypes, ConstantFacts, SMTT(30) DEF TypeOK
  <2>3. TypeOK'
    BY <1>1, <1>4, <2>1, <2>2 DEF TypeOK
  <2>4. EntriesInv'
    BY <1>1, <1>2, <1>4, <2>1, EntriesKept, Zenon DEF Holding, InHand
  <2>5. LagInv'
    BY <1>1, <1>4, <2>1, Zenon DEF LagInv, Holding, Near
  <2>6. MainInv'
    BY <1>1, <1>4, <2>1, Zenon DEF MainInv, Holding, InHand, TimeLess
  <2> QED BY <1>3, <2>3, <2>4, <2>5, <2>6 DEF TimersInv
<1>8. CASE TcpTimerOff
  <2>1. UNCHANGED <<pcbs, start, tmp>> /\ pc = "off" /\ pc' = "head" /\ active' = FALSE /\ due' = 0
    BY <1>8 DEF TcpTimerOff, Main, Deactivate
  <2>2. job = Tcp /\ ~pcbs
    BY <1>4, <2>1 DEF MainInv
  <2>3. 0 \in 0 .. M - 1
    BY TimersTypes, ConstantFacts
  <2>4. TypeOK'
    BY <1>1, <1>4, <2>1, <2>3, Zenon DEF TypeOK
  <2>5. EntriesInv'
    <3>1. Listed' = Listed /\ IsList(next, Hop, ListLen)'
      BY <1>2 DEF SameList, IsList
    <3>2. ASSUME NEW x \in Timers
          PROVE  (\E n \in Listed' : who'[n] = x) <=> ~InHand(x)' /\ (x \in Cyclic \/ active')
      <4>1. (\E n \in Listed : who[n] = x) <=> ~InHand(x) /\ (x \in Cyclic \/ active)
        BY <1>4 DEF EntriesInv
      <4>2. InHand(x) <=> x = Tcp
        BY <2>1, <2>2 DEF InHand
      <4>3. ~InHand(x)'
        BY <2>1 DEF InHand
      <4>4. x \in Cyclic <=> x # Tcp
        BY ConstantFacts
      <4> QED BY <1>1, <2>1, <3>1, <4>1, <4>2, <4>3, <4>4
    <3> QED BY <1>1, <1>4, <2>1, <3>1, <3>2 DEF EntriesInv, Holding
  <2>6. LagInv'
    BY <1>1, <1>4, <2>1 DEF LagInv, Holding, Near
  <2>7. MainInv'
    BY <1>1, <1>4, <2>1, <2>2, ZenonT(30) DEF MainInv, Holding, InHand
  <2> QED BY <1>3, <2>4, <2>5, <2>6, <2>7 DEF TimersInv
<1> QED BY <1>5, <1>6, <1>7, <1>8

\* The first entry goes back to the pool.
LEMMA UnlinkStep == ASSUME TimersInv, Unlink PROVE TimersInv'
<1>1. TypeOK /\ EntriesInv /\ OrderInv /\ LagInv /\ MainInv
  BY DEF TimersInv
<1>2. /\ pc = "unlink" /\ pc' = "run" /\ UNCHANGED <<now, active, pcbs, start, pred>>
      /\ next' = [next EXCEPT ![0] = next[tmp], ![tmp] = 0]
      /\ free' = free \union {tmp} /\ job' = who[tmp] /\ due' = time[tmp] /\ tmp' = 0
      /\ who' = [who EXCEPT ![tmp] = Tcp] /\ time' = [time EXCEPT ![tmp] = 0]
  BY DEF Unlink, Main
<1>3. tmp = next[0] /\ tmp # 0 /\ ~TimeLess(start, time[tmp])
  BY <1>1, <1>2 DEF MainInv
<1>4. tmp \in 0 .. PoolSize /\ 0 \in 0 .. PoolSize
  BY <1>1, ConstantFacts DEF TypeOK
<1>5. next'[0] = next[next[0]] /\ \A x \in 0 .. PoolSize : x # 0 /\ x # tmp => next'[x] = next[x]
  BY <1>2, <1>3, <1>4, TimersTypes
<1>6. IsList(next, Hop, ListLen) /\ ListLen \in Nat
  BY TimersTypes
<1>7. \A k \in 2 .. ListLen : next'[Hop[k]] = next[Hop[k]]
  <2> SUFFICES ASSUME NEW k \in 2 .. ListLen PROVE next'[Hop[k]] = next[Hop[k]]
    OBVIOUS
  <2>1. k \in 1 .. ListLen /\ 1 \in 1 .. ListLen /\ 1 - 1 = 0 /\ k # 1
    BY <1>6
  <2>2. next[Hop[1 - 1]] = Hop[1] /\ Hop[0] = 0 /\ Hop[k] # Hop[1] /\ Hop[k] \in Nodes
    BY <1>6, <2>1, Zenon DEF IsList
  <2>3. Hop[k] # tmp /\ Hop[k] # 0 /\ Hop[k] \in 0 .. PoolSize
    BY <1>3, <2>1, <2>2, TimersTypes, Zenon
  <2> QED BY <1>5, <2>3
<1>8. /\ ListLen # 0 /\ tmp = Hop[1] /\ tmp \in Listed
      /\ ListLen' = ListLen - 1 /\ Listed' = Listed \ {tmp} /\ IsList(next', Hop', ListLen')
      /\ \A k \in 1 .. ListLen - 1 : Hop'[k] = Hop[k + 1]
  BY <1>3, <1>5, <1>6, <1>7, ListShrinks, Zenon
<1>9. tmp \in Nodes /\ \A n \in Nodes \ {tmp} : who'[n] = who[n] /\ time'[n] = time[n]
  BY <1>2, <1>8, TimersTypes, Zenon
<1>10. who[tmp] \in Timers /\ time[tmp] \in 0 .. M - 1 /\ 0 \in 0 .. M - 1
  BY <1>9, TimersTypes, ConstantFacts, SMTT(30)
<1>11. TypeOK'
  <2>1. next' \in [0 .. PoolSize -> 0 .. PoolSize]
    BY <1>1, <1>2, <1>4, Zenon DEF TypeOK
  <2>2. who' \in [Nodes -> Timers] /\ time' \in [Nodes -> 0 .. M - 1] /\ free' \subseteq Nodes
    BY <1>1, <1>2, <1>9, <1>10, ConstantFacts, Zenon DEF TypeOK
  <2> QED BY <1>1, <1>2, <1>4, <1>10, <2>1, <2>2 DEF TypeOK
<1>12. EntriesInv'
  <2>1. IsList(next, Hop, ListLen)'
    BY <1>8 DEF IsList
  <2>2. Listed' \cap free' = {} /\ Nodes \ (free' \union Listed') = {} /\ ~Holding'
    BY <1>1, <1>2, <1>8, <1>9, Zenon DEF EntriesInv, Holding
  <2>3. \A m, n \in Listed' : who'[m] = who'[n] => m = n
    BY <1>1, <1>8, <1>9, TimersTypes DEF EntriesInv
  <2>4. ASSUME NEW x \in Timers
        PROVE  (\E n \in Listed' : who'[n] = x) <=> ~InHand(x)' /\ (x \in Cyclic \/ active')
    <3>1. (\E n \in Listed : who[n] = x) <=> ~InHand(x) /\ (x \in Cyclic \/ active)
      BY <1>1 DEF EntriesInv
    <3>2. ~InHand(x) /\ (InHand(x)' <=> x = who[tmp])
      BY <1>2 DEF InHand
    <3>3. (\E n \in Listed' : who'[n] = x) <=> (\E n \in Listed : who[n] = x) /\ x # who[tmp]
      <4>1. \A n \in Listed' : n \in Listed /\ n # tmp /\ who'[n] = who[n]
        BY <1>8, <1>9, TimersTypes, ZenonT(30)
      <4>2. \A n \in Listed : n # tmp => n \in Listed' /\ who'[n] = who[n] /\ who[n] # who[tmp]
        BY <1>1, <1>8, <1>9, TimersTypes DEF EntriesInv
      <4> QED BY <4>1, <4>2, Zenon
    <3> QED BY <1>2, <3>1, <3>2, <3>3
  <2> QED BY <2>1, <2>2, <2>3, <2>4 DEF EntriesInv
<1>13. OrderInv'
  <2>1. \A n \in Listed' : Near(time[n], who[n])'
    <3>1. \A n \in Listed' : n \in Listed /\ who'[n] = who[n] /\ time'[n] = time[n]
      BY <1>8, <1>9, TimersTypes
    <3> QED BY <1>1, <1>2, <3>1, ZenonT(30) DEF OrderInv, Near
  <2>2. ASSUME NEW k \in 1 .. ListLen' - 1 PROVE ~TimeLess(time'[Hop'[k + 1]], time'[Hop'[k]])
    <3>1. k \in 1 .. ListLen - 1 /\ k + 1 \in 1 .. ListLen - 1 /\ k + 1 \in 1 .. ListLen /\ (k + 1) + 1 \in 1 .. ListLen
      BY <1>6, <1>8
    <3>2. Hop'[k] = Hop[k + 1] /\ Hop'[k + 1] = Hop[(k + 1) + 1]
      BY <1>8, <3>1
    <3>3. ~TimeLess(time[Hop[(k + 1) + 1]], time[Hop[k + 1]])
      BY <1>1, <3>1 DEF OrderInv
    <3>4. Hop[k + 1] # tmp /\ Hop[(k + 1) + 1] # tmp
      <4>1. 1 \in 1 .. ListLen /\ k + 1 # 1 /\ (k + 1) + 1 # 1
        BY <1>6, <1>8
      <4> QED BY <1>6, <1>8, <3>1, <4>1 DEF IsList
    <3>5. Hop[k + 1] \in Nodes /\ Hop[(k + 1) + 1] \in Nodes
      BY <1>6, <3>1 DEF IsList
    <3> QED BY <1>9, <3>2, <3>3, <3>4, <3>5
  <2> QED BY <2>1, <2>2 DEF OrderInv, TimeLess
<1>14. LagInv'
  <2>1. (now - start) % M <= MaxLag
    BY <1>1, <1>2, Zenon DEF LagInv
  <2>2. (start - time[tmp]) % M <= MaxLag
    <3>1. Near(time[tmp], who[tmp])
      BY <1>1, <1>8 DEF OrderInv
    <3> QED BY <1>3, <1>10, <2>1, <3>1, TimersTypes, ExpiredLag, ZenonT(30) DEF Near
  <2> QED BY <1>2, <2>1, <2>2 DEF LagInv, Holding
<1>15. MainInv'
  <2>1. who[tmp] = Tcp => active
    BY <1>1, <1>8, ConstantFacts DEF EntriesInv
  <2> QED BY <1>1, <1>2, <2>1, Zenon DEF MainInv, Holding, InHand
<1> QED BY <1>11, <1>12, <1>13, <1>14, <1>15 DEF TimersInv

\* The handler has run.
LEMMA RunStep == ASSUME TimersInv, RunHandler PROVE TimersInv'
<1> DEFINE again == job \in Cyclic \/ pcbs
           new == Min(free)
<1>1. TypeOK /\ EntriesInv /\ OrderInv /\ LagInv /\ MainInv
  BY DEF TimersInv
<1>2. pc = "run" /\ free # {} /\ UNCHANGED <<now, next, active, pcbs, start, job, due, pred>>
  BY <1>1 DEF RunHandler, Main, MainInv
<1>3. CASE ~again
  <2>1. pc' = "off" /\ UNCHANGED <<tmp, free, who, time>>
    BY <1>2, <1>3 DEF RunHandler, Main
  <2>2. job = Tcp /\ ~pcbs
    BY <1>3, TimersTypes, ConstantFacts
  <2>3. SameList
    BY <1>2, TimersTypes, ListKept
  <2>4. TypeOK'
    BY <1>1, <1>2, <2>1 DEF TypeOK
  <2>5. EntriesInv'
    BY <1>1, <1>2, <2>1, <2>3, EntriesKept DEF Holding, InHand
  <2>6. OrderInv'
    BY <1>2, <2>1, <2>3, OrderKept
  <2>7. LagInv'
    BY <1>1, <1>2, <2>1 DEF LagInv, Holding
  <2>8. MainInv'
    BY <1>1, <1>2, <2>1, <2>2 DEF MainInv, Holding, InHand
  <2> QED BY <2>4, <2>5, <2>6, <2>7, <2>8 DEF TimersInv
<1>4. CASE again
  <2>1. new \in free /\ new \in Nodes
    <3>1. free \in SUBSET Nat /\ free \subseteq Nodes
      BY <1>1 DEF TypeOK, Nodes
    <3> QED BY <1>2, <3>1, LeastMember, Zenon
  <2>2. new \notin Listed
    BY <1>1, <2>1 DEF EntriesInv
  <2> HIDE DEF new
  <2>3. /\ pc' = "find" /\ tmp' = new /\ free' = free \ {new}
        /\ who' = [who EXCEPT ![new] = job] /\ time' = [time EXCEPT ![new] = Due(job)]
    BY <1>2, <1>4 DEF RunHandler, Main, Due, new
  <2>4. \A n \in Nodes : who'[n] = (IF n = new THEN job ELSE who[n]) /\ time'[n] = (IF n = new THEN Due(job) ELSE time[n])
    BY <2>3, TimersTypes, Zenon
  <2>5. /\ Due(job) \in 0 .. M - 1 /\ (Due(job) - now) % M <= Interval[job]
        /\ (Due(job) - start) % M <= Interval[job] + MaxLag
    BY <1>1, <1>2, TimersTypes, DueRight, ZenonT(30) DEF LagInv
  <2>6. SameList
    BY <1>2, TimersTypes, ListKept
  <2>7. TypeOK'
    <3>1. who' \in [Nodes -> Timers] /\ time' \in [Nodes -> 0 .. M - 1]
      BY <1>1, <2>3, <2>5, TimersTypes, ZenonT(30) DEF TypeOK
    <3> QED BY <1>1, <1>2, <2>1, <2>3, <3>1, TimersTypes DEF TypeOK
  <2>8. EntriesInv'
    <3>1. Listed' = Listed /\ IsList(next, Hop, ListLen)'
      BY <2>6 DEF SameList, IsList
    <3>2. \A n \in Listed : who'[n] = who[n]
      BY <2>2, <2>4, TimersTypes
    <3>3. \A x \in Timers : InHand(x)' <=> InHand(x)
      BY <1>2, <2>3 DEF InHand
    <3>4. Nodes \ (free \union Listed) = {}
      BY <1>1, <1>2 DEF EntriesInv, Holding
    <3>5. Nodes \ (free' \union Listed') = {tmp'} /\ Listed' \cap free' = {} /\ Holding'
      BY <1>1, <2>1, <2>2, <2>3, <3>1, <3>4, SMTT(30) DEF EntriesInv, Holding
    <3>6. /\ \A m, n \in Listed' : who'[m] = who'[n] => m = n
          /\ \A x \in Timers : (\E n \in Listed' : who'[n] = x) <=> ~InHand(x)' /\ (x \in Cyclic \/ active')
      BY <1>1, <1>2, <3>1, <3>2, <3>3 DEF EntriesInv
    <3> QED BY <3>1, <3>5, <3>6 DEF EntriesInv
  <2>9. OrderInv'
    <3>1. \A n \in Listed : who'[n] = who[n] /\ time'[n] = time[n]
      BY <2>2, <2>4, TimersTypes, Zenon
    <3> QED BY <1>2, <2>6, <3>1, OrderKept, Zenon
  <2>10. LagInv'
    <3>1. time'[tmp'] = Due(job)
      BY <2>1, <2>3, <2>4
    <3>2. (now' - start') % M <= MaxLag
      BY <1>1, <1>2, ZenonT(30) DEF LagInv
    <3> QED BY <1>2, <2>3, <2>5, <3>1, <3>2 DEF LagInv, Near
  <2>11. MainInv'
    <3>1. tmp' \in Nodes /\ who'[tmp'] = job'
      BY <1>2, <2>1, <2>3, <2>4, Zenon
    <3>2. (InHand(Tcp) \/ pcbs)' => active'
      BY <1>1, <1>2, <2>3 DEF MainInv, InHand
    <3> QED BY <1>2, <2>3, <3>1, <3>2 DEF MainInv
  <2> QED BY <2>7, <2>8, <2>9, <2>10, <2>11 DEF TimersInv
<1> QED BY <1>3, <1>4

\* sys_timeout_abs finds the place.
LEMMA FindStep == ASSUME TimersInv, Find PROVE TimersInv'
<1>1. TypeOK /\ EntriesInv /\ OrderInv /\ LagInv /\ MainInv
  BY DEF TimersInv
<1>2. /\ pc = "find" /\ pc' = "read" /\ pred' = Place(time[tmp])
      /\ UNCHANGED <<now, next, who, time, free, active, pcbs, start, job, due, tmp>>
  BY DEF Find, Main, listVars
<1>3. SameList
  BY <1>2, TimersTypes, ListKept
<1>4. PICK i \in 0 .. ListLen :
        /\ Place(time[tmp]) = Hop[i]
        /\ i # ListLen => TimeLess(time[tmp], time[Hop[i + 1]])
        /\ \A k \in 1 .. i : ~TimeLess(time[tmp], time[Hop[k]])
  BY TimersTypes, PlaceIs, Zenon
<1>5. Between(time[tmp], i)
  <2>1. i # 0 => i \in 1 .. i
    BY TimersTypes
  <2> QED BY <1>4, <2>1 DEF Between
<1>6. Hop[i] \in 0 .. PoolSize
  BY TimersTypes, ConstantFacts, SMTT(30)
<1>7. TypeOK'
  BY <1>1, <1>2, <1>4, <1>6 DEF TypeOK
<1>8. EntriesInv'
  BY <1>1, <1>2, <1>3, EntriesKept, Zenon DEF Holding, InHand
<1>9. OrderInv'
  BY <1>2, <1>3, OrderKept, Zenon
<1>10. LagInv'
  BY <1>1, <1>2, Zenon DEF LagInv, Holding, Near
<1>11. MainInv'
  <2>1. i \in 0 .. ListLen' /\ pred' = Hop'[i]
    BY <1>2, <1>3, <1>4, Zenon DEF SameList
  <2>2. Between(time[tmp], i)'
    <3>1. /\ i # 0 => ~TimeLess(time'[tmp'], time'[Hop'[i]])
          /\ i # ListLen' => TimeLess(time'[tmp'], time'[Hop'[i + 1]])
      BY <1>2, <1>3, <1>5, BetweenKept, Zenon
    <3> QED BY <3>1, Zenon DEF Between, TimeLess
  <2>3. (InHand(Tcp) \/ pcbs)' => active'
    BY <1>1, <1>2 DEF MainInv, InHand
  <2>4. tmp' \in Nodes /\ who'[tmp'] = job'
    BY <1>1, <1>2, ZenonT(30) DEF MainInv, Holding
  <2> QED BY <1>2, <2>1, <2>2, <2>3, <2>4, Zenon DEF MainInv
<1> QED BY <1>7, <1>8, <1>9, <1>10, <1>11 DEF TimersInv

\* It reads the pointer there.
LEMMA ReadStep == ASSUME TimersInv, ReadNext PROVE TimersInv'
<1>1. TypeOK /\ EntriesInv /\ OrderInv /\ LagInv /\ MainInv
  BY DEF TimersInv
<1>2. /\ pc = "read" /\ pc' = "link" /\ next' = [next EXCEPT ![tmp] = next[pred]]
      /\ UNCHANGED <<now, who, time, free, active, pcbs, start, job, due, tmp, pred>>
  BY DEF ReadNext, Main
<1>3. tmp \in Nodes /\ tmp \notin Listed /\ tmp # 0
  <2>1. Holding
    BY <1>2 DEF Holding
  <2>2. tmp \in Nodes /\ tmp \in Nodes \ (free \union Listed)
    BY <1>1, <2>1 DEF MainInv, EntriesInv
  <2> QED BY <2>2, TimersTypes
<1>4. PICK i \in 0 .. ListLen : pred = Hop[i] /\ Between(time[tmp], i)
  BY <1>1, <1>2, Zenon DEF MainInv
<1>5. pred # tmp /\ next'[tmp] = next[pred] /\ next'[pred] = next[pred]
  BY <1>1, <1>2, <1>3, <1>4, TimersTypes, ZenonT(30) DEF TypeOK
<1>6. \A k \in 0 .. ListLen : next'[Hop[k]] = next[Hop[k]]
  <2> SUFFICES ASSUME NEW k \in 0 .. ListLen PROVE next'[Hop[k]] = next[Hop[k]]
    OBVIOUS
  <2>1. Hop[k] # tmp
    BY <1>3, TimersTypes
  <2> QED BY <1>2, <2>1, TimersTypes
<1>7. SameList
  BY <1>6, TimersTypes, ListKept, ZenonT(30)
<1>8. TypeOK'
  BY <1>1, <1>2 DEF TypeOK
<1>9. EntriesInv'
  BY <1>1, <1>2, <1>7, EntriesKept DEF Holding, InHand
<1>10. OrderInv'
  BY <1>2, <1>7, OrderKept, Zenon
<1>11. LagInv'
  BY <1>1, <1>2 DEF LagInv, Holding, Near
<1>12. MainInv'
  <2>1. i \in 0 .. ListLen' /\ pred' = Hop'[i]
    BY <1>2, <1>4, <1>7 DEF SameList
  <2>2. Between(time[tmp], i)'
    <3>1. /\ i # 0 => ~TimeLess(time'[tmp'], time'[Hop'[i]])
          /\ i # ListLen' => TimeLess(time'[tmp'], time'[Hop'[i + 1]])
      BY <1>2, <1>4, <1>7, BetweenKept
    <3> QED BY <3>1 DEF Between, TimeLess
  <2>3. (InHand(Tcp) \/ pcbs)' => active'
    BY <1>1, <1>2 DEF MainInv, InHand
  <2>4. tmp' \in Nodes /\ who'[tmp'] = job' /\ next'[tmp'] = next'[pred']
    BY <1>1, <1>2, <1>5, Zenon DEF MainInv, Holding
  <2> QED BY <1>2, <2>1, <2>2, <2>3, <2>4, ZenonT(30) DEF MainInv
<1> QED BY <1>8, <1>9, <1>10, <1>11, <1>12 DEF TimersInv

\* An entry e for timer x has come in behind place i, where it belongs: the list is
\* sorted again.
LEMMA OrderGrows ==
  ASSUME TimersInv, NEW i \in 0 .. ListLen, NEW e \in Nodes, NEW x \in Timers,
         ListLen' = ListLen + 1, Listed' = Listed \union {e}, IsInserted(Hop', Hop, ListLen, i, e),
         now' = now, \A n \in Listed : who'[n] = who[n] /\ time'[n] = time[n],
         time'[e] \in 0 .. M - 1, who'[e] = x, Near(time'[e], x), Between(time'[e], i)
  PROVE  OrderInv'
<1> DEFINE t == time'[e]
           n == ListLen
<1>1. n \in Nat /\ i \in 0 .. n
  BY TimersTypes, ZenonT(30)
<1>2. \A m \in Listed' : Near(time[m], who[m])'
  BY DEF TimersInv, OrderInv, Near
<1>3. ASSUME NEW k \in 1 .. n PROVE ~TimeLess(time'[Hop'[k + 1]], time'[Hop'[k]])
  <2>1. /\ Hop'[k] = IF k <= i THEN Hop[k] ELSE IF k = i + 1 THEN e ELSE Hop[k - 1]
        /\ Hop'[k + 1] = IF k + 1 <= i THEN Hop[k + 1] ELSE IF k + 1 = i + 1 THEN e ELSE Hop[(k + 1) - 1]
    <3>1. k \in 0 .. n + 1 /\ k + 1 \in 0 .. n + 1
      BY <1>1
    <3> QED BY <3>1, ZenonT(30) DEF IsInserted
  <2>2. \A j \in 1 .. n : Hop[j] \in Listed /\ time'[Hop[j]] = time[Hop[j]]
    BY TimersTypes, ListedFacts, Zenon
  <2>3. \A j \in 1 .. n - 1 : ~TimeLess(time[Hop[j + 1]], time[Hop[j]])
    BY ZenonT(30) DEF TimersInv, OrderInv
  <2>4. CASE k < i
    <3>1. k \in 1 .. n - 1 /\ k + 1 \in 1 .. n /\ k \in 1 .. n /\ k <= i /\ k + 1 <= i
      BY <1>1, <2>4, SMTT(30)
    <3> QED BY <2>1, <2>2, <2>3, <3>1, Zenon
  <2>5. CASE k = i
    <3>1. Hop'[k + 1] = e /\ Hop'[k] = Hop[i] /\ i # 0 /\ i \in 1 .. n
      BY ONLY <1>1, <2>1, <2>5, k \in 1 .. n
    <3>2. ~TimeLess(t, time[Hop[i]])
      BY <3>1, Zenon DEF Between
    <3>3. time'[Hop[i]] = time[Hop[i]]
      BY <2>2, <3>1, Zenon
    <3> QED BY <2>5, <3>1, <3>2, <3>3, Zenon
  <2>6. CASE k = i + 1
    <3>1. Hop'[k + 1] = Hop[i + 1] /\ Hop'[k] = e /\ i # n /\ i + 1 \in 1 .. n
      BY <1>1, <2>1, <2>6, SMTT(30)
    <3>2. TimeLess(t, time[Hop[i + 1]]) /\ Hop[i + 1] \in Listed /\ time'[Hop[i + 1]] = time[Hop[i + 1]]
      BY <2>2, <3>1, Zenon DEF Between
    <3> DEFINE u == time[Hop[i + 1]]
    <3>3. u \in 0 .. M - 1 /\ who[Hop[i + 1]] \in Timers /\ Near(u, who[Hop[i + 1]])
      BY <3>2, TimersTypes, Zenon DEF TimersInv, OrderInv
    <3> HIDE DEF u
    <3>4. /\ (now - t) % M <= MaxLag \/ (t - now) % M <= Interval[x]
          /\ (now - u) % M <= MaxLag \/ (u - now) % M <= Interval[who[Hop[i + 1]]]
      BY <3>3, Zenon DEF Near
    <3>5. now \in 0 .. M - 1 /\ t \in 0 .. M - 1 /\ TimeLess(t, u)
      BY <3>2, TimersTypes, ZenonT(30) DEF u
    <3>6. ~TimeLess(u, t)
      <4> HIDE DEF t
      <4> QED BY <3>3, <3>4, <3>5, NearAsymmetric
    <3> QED BY <3>1, <3>2, <3>6, Zenon DEF u
  <2>7. CASE k > i + 1
    <3>1. k - 1 \in 1 .. n - 1 /\ k - 1 \in 1 .. n /\ (k - 1) + 1 = k /\ (k + 1) - 1 = k /\ k \in 1 .. n
          /\ ~(k <= i) /\ k # i + 1 /\ ~(k + 1 <= i) /\ k + 1 # i + 1
      BY <1>1, <2>7
    <3>2. Hop'[k] = Hop[k - 1] /\ Hop'[k + 1] = Hop[k]
      BY ONLY <2>1, <3>1, SMTT(30)
    <3>3. ~TimeLess(time[Hop[k]], time[Hop[k - 1]])
      BY <2>3, <3>1, ZenonT(30)
    <3>4. time'[Hop[k]] = time[Hop[k]] /\ time'[Hop[k - 1]] = time[Hop[k - 1]]
      BY <2>2, <3>1
    <3> QED BY <3>2, <3>3, <3>4, Zenon
  <2>8. k < i \/ k = i \/ k = i + 1 \/ k > i + 1
    BY ONLY <1>1, k \in 1 .. n, SMTT(30)
  <2> QED BY <2>4, <2>5, <2>6, <2>7, <2>8, ZenonT(30)
<1>4. ListLen' - 1 = n
  BY <1>1, SMTT(30)
<1> QED BY <1>2, <1>3, <1>4, Zenon DEF OrderInv, TimeLess

\* The entry is in the list.
LEMMA LinkStep == ASSUME TimersInv, Link PROVE TimersInv'
<1>1. TypeOK /\ EntriesInv /\ OrderInv /\ LagInv /\ MainInv
  BY DEF TimersInv
<1>2. /\ pc = "link" /\ pc' = "head" /\ next' = [next EXCEPT ![pred] = tmp]
      /\ job' = Tcp /\ due' = 0 /\ tmp' = 0 /\ pred' = 0
      /\ UNCHANGED <<now, who, time, free, active, pcbs, start>>
  BY DEF Link, Main
<1>3. /\ Holding /\ tmp \in Nodes /\ who[tmp] = job /\ next[tmp] = next[pred]
      /\ Nodes \ (free \union Listed) = {tmp}
  BY <1>1, <1>2 DEF MainInv, Holding, EntriesInv
<1>4. tmp \notin Listed /\ tmp # 0 /\ tmp \notin free
  BY <1>3, TimersTypes
<1>5. PICK i \in 0 .. ListLen : pred = Hop[i] /\ Between(time[tmp], i)
  BY <1>1, <1>2, Zenon DEF MainInv
<1>6. pred \in 0 .. PoolSize /\ pred # tmp
  BY <1>1, <1>4, <1>5, TimersTypes, Zenon DEF TypeOK
<1>7. next'[tmp] = next[Hop[i]] /\ next'[Hop[i]] = tmp
  BY <1>2, <1>3, <1>5, <1>6, TimersTypes, Zenon
<1>8. \A k \in 0 .. ListLen : k # i => next'[Hop[k]] = next[Hop[k]]
  <2> SUFFICES ASSUME NEW k \in 0 .. ListLen, k # i PROVE next'[Hop[k]] = next[Hop[k]]
    OBVIOUS
  <2>1. Hop[k] # Hop[i]
    <3>1. k = 0 \/ k \in 1 .. ListLen
      BY TimersTypes
    <3>2. i = 0 \/ i \in 1 .. ListLen
      BY TimersTypes, SMTT(30)
    <3> QED BY <3>1, <3>2, TimersTypes DEF IsList
  <2>2. Hop[k] \in 0 .. PoolSize
    BY TimersTypes, ConstantFacts
  <2> QED BY <1>2, <1>5, <2>1, <2>2, TimersTypes, ZenonT(30)
<1>9. /\ ListLen' = ListLen + 1 /\ Listed' = Listed \union {tmp} /\ IsList(next', Hop', ListLen')
      /\ IsInserted(Hop', Hop, ListLen, i, tmp)
  BY <1>3, <1>4, <1>7, <1>8, TimersTypes, ListGrows, Zenon
<1>10. TypeOK'
  <2>1. next' \in [0 .. PoolSize -> 0 .. PoolSize]
    BY <1>1, <1>2, Zenon DEF TypeOK
  <2>2. 0 \in 0 .. PoolSize /\ 0 \in 0 .. M - 1 /\ Tcp \in Timers
    BY ConstantFacts, TimersTypes, SMTT(30)
  <2> QED BY <1>1, <1>2, <2>1, <2>2, Zenon DEF TypeOK
<1>11. EntriesInv'
  <2>1. IsList(next, Hop, ListLen)' /\ ~Holding'
    BY <1>2, <1>9, Zenon DEF IsList, Holding
  <2>2. Listed' \cap free' = {} /\ Nodes \ (free' \union Listed') = {}
    BY <1>1, <1>2, <1>3, <1>4, <1>9, Zenon DEF EntriesInv
  <2>3. \A x \in Timers : (\E n \in Listed : who[n] = x) <=> x # job /\ (x \in Cyclic \/ active)
    BY <1>1, <1>2 DEF EntriesInv, InHand
  <2>4. job = Tcp => active
    BY <1>1, <1>2, Zenon DEF MainInv, InHand
  <2>5. job \in Cyclic \/ active
    BY <2>4, TimersTypes, ConstantFacts, Zenon
  <2>6. \A n \in Listed : who[n] # job
    BY <2>3, TimersTypes, Zenon
  <2>7. \A m, n \in Listed' : who'[m] = who'[n] => m = n
    BY <1>1, <1>2, <1>3, <1>9, <2>6, ZenonT(30) DEF EntriesInv
  <2>8. ASSUME NEW x \in Timers
        PROVE  (\E n \in Listed' : who'[n] = x) <=> ~InHand(x)' /\ (x \in Cyclic \/ active')
    <3>1. ~InHand(x)'
      BY <1>2, ZenonT(30) DEF InHand
    <3>2. (\E n \in Listed' : who'[n] = x) <=> (\E n \in Listed : who[n] = x) \/ x = job
      BY <1>2, <1>3, <1>9
    <3> QED BY <1>2, <2>3, <2>5, <3>1, <3>2
  <2> QED BY <2>1, <2>2, <2>7, <2>8, Zenon DEF EntriesInv
<1>12. OrderInv'
  <2>1. time'[tmp] \in 0 .. M - 1 /\ who'[tmp] = job /\ Near(time'[tmp], job) /\ Between(time'[tmp], i) /\ job \in Timers
    BY <1>1, <1>2, <1>3, <1>5, TimersTypes, Zenon DEF LagInv
  <2> QED BY <1>2, <1>3, <1>9, <2>1, OrderGrows, Zenon
<1>13. LagInv'
  BY <1>1, <1>2, ZenonT(30) DEF LagInv, Holding
<1>14. MainInv'
  BY <1>1, <1>2 DEF MainInv, Holding, InHand
<1> QED BY <1>10, <1>11, <1>12, <1>13, <1>14 DEF TimersInv

\* The pool has an entry for the TCP timer, as every cyclic timer has only one.
LEMMA PoolHasRoom ==
  ASSUME TimersInv, pc = "idle", ~active
  PROVE  free # {}
<1> SUFFICES ASSUME free = {} PROVE FALSE
  OBVIOUS
<1>1. EntriesInv /\ TypeOK
  BY DEF TimersInv
<1>2. Listed = Nodes
  BY <1>1, TimersTypes, ZenonT(30) DEF EntriesInv, Holding
<1>3. \A n \in Nodes : who[n] \in Cyclic
  BY <1>1, <1>2, TimersTypes, ConstantFacts, Zenon DEF EntriesInv
<1>4. who \in Injection(Nodes, Cyclic)
  BY <1>1, <1>2, <1>3, Zenon DEF EntriesInv, TypeOK, Injection, IsInjective
<1>5. IsFiniteSet(Cyclic) /\ PoolSize \in Nat /\ PoolSize > Cardinality(Cyclic)
  BY TimeoutsAssumption DEF TimeoutsAssumption
<1>6. Cardinality(Nodes) <= Cardinality(Cyclic)
  BY <1>4, <1>5, FS_Injection
<1>7. Cardinality(Nodes) = PoolSize
  BY <1>5, FS_Interval DEF Nodes
<1>8. Cardinality(Cyclic) \in Nat
  BY <1>5, FS_CardinalityType
<1> QED BY <1>5, <1>6, <1>7, <1>8

\* tcp_timer_needed.
LEMMA NeededStep == ASSUME TcpContext = "main", TimersInv, tcp_timer_needed PROVE TimersInv'
<1>1. TypeOK /\ EntriesInv /\ OrderInv /\ LagInv /\ MainInv
  BY DEF TimersInv
<1>2. /\ pc = "idle" /\ pcbs' = TRUE /\ active' = TRUE
      /\ UNCHANGED <<now, pc, start, job, due, tmp, pred>>
  BY ZenonT(30) DEF tcp_timer_needed, mainVars
<1>3. LagInv' /\ MainInv'
  BY <1>2 DEF LagInv, MainInv, Holding, InHand
<1>4. CASE active
  <2>1. UNCHANGED <<next, who, time, free, active>>
    BY <1>1, <1>2, <1>4 DEF tcp_timer_needed, listVars, TypeOK
  <2>2. SameList
    BY <2>1, TimersTypes, ListKept, Zenon
  <2>3. TypeOK'
    BY <1>1, <1>2, <2>1 DEF TypeOK
  <2>4. EntriesInv'
    BY <1>1, <1>2, <2>1, <2>2, EntriesKept, ZenonT(30) DEF Holding, InHand
  <2>5. OrderInv'
    BY <1>2, <2>1, <2>2, OrderKept
  <2> QED BY <1>3, <2>3, <2>4, <2>5, ZenonT(30) DEF TimersInv
<1>5. CASE ~active
  <2> DEFINE new == Min(free)
             t == (now + Interval[Tcp]) % M
             p == Place(t)
  <2>1. new \in free /\ new \in Nodes
    <3>1. free \in SUBSET Nat /\ free \subseteq Nodes /\ free # {}
      BY <1>1, <1>2, <1>5, PoolHasRoom, SMTT(30) DEF TypeOK, Nodes
    <3> QED BY <3>1, LeastMember, Zenon
  <2>2. new \notin Listed /\ new # 0 /\ new \in 0 .. PoolSize
    BY <1>1, <2>1, TimersTypes DEF EntriesInv
  <2>3. PICK i \in 0 .. ListLen :
          /\ p = Hop[i]
          /\ i # ListLen => TimeLess(t, time[Hop[i + 1]])
          /\ \A k \in 1 .. i : ~TimeLess(t, time[Hop[k]])
    BY TimersTypes, PlaceIs, ZenonT(30)
  <2>4. Between(t, i)
    <3>1. i # 0 => i \in 1 .. i
      BY TimersTypes
    <3> QED BY <2>3, <3>1 DEF Between
  <2>5. t \in 0 .. M - 1 /\ Near(t, Tcp)
    <3>1. Interval[Tcp] \in 0 .. M - 1 /\ M \in Nat /\ Tcp \in Timers
      BY ConstantFacts
    <3>2. t = IF now + Interval[Tcp] < M THEN now + Interval[Tcp] ELSE now + Interval[Tcp] - M
      BY <3>1, TimersTypes, ClockPlus, Zenon
    <3> HIDE DEF t
    <3>3. t \in 0 .. M - 1
      <4>1. now \in 0 .. M - 1
        BY TimersTypes, Zenon
      <4> QED BY <3>1, <3>2, <4>1
    <3>4. (t - now) % M = IF t >= now THEN t - now ELSE t - now + M
      BY <3>3, TimersTypes, ClockMinus, Zenon
    <3> DEFINE d == (t - now) % M
    <3>5. d = (IF t >= now THEN t - now ELSE t - now + M) /\ now \in 0 .. M - 1
      BY <3>4, TimersTypes
    <3> HIDE DEF d
    <3>6. d <= Interval[Tcp]
      BY <3>1, <3>2, <3>3, <3>5, SMTT(30)
    <3> QED BY <3>3, <3>6 DEF Near, d
  <2>6. /\ who' = [who EXCEPT ![new] = Tcp] /\ time' = [time EXCEPT ![new] = t]
        /\ next' = [next EXCEPT ![new] = next[p], ![p] = new] /\ free' = free \ {new}
    BY <1>5, <2>1, Zenon DEF tcp_timer_needed
  <2> HIDE DEF new, t, p
  <2>7. p \in 0 .. PoolSize /\ p # new
    BY <2>2, <2>3, TimersTypes, ConstantFacts, SMTT(30)
  <2>8. next'[new] = next[Hop[i]] /\ next'[Hop[i]] = new
    BY <2>2, <2>3, <2>6, <2>7, TimersTypes, Zenon
  <2>9. \A k \in 0 .. ListLen : k # i => next'[Hop[k]] = next[Hop[k]]
    <3> SUFFICES ASSUME NEW k \in 0 .. ListLen, k # i PROVE next'[Hop[k]] = next[Hop[k]]
      OBVIOUS
    <3>1. Hop[k] # Hop[i]
      <4>1. k = 0 \/ k \in 1 .. ListLen
        BY TimersTypes
      <4>2. i = 0 \/ i \in 1 .. ListLen
        BY TimersTypes
      <4> QED BY <4>1, <4>2, TimersTypes DEF IsList
    <3>2. Hop[k] \in 0 .. PoolSize /\ Hop[k] # new
      BY <2>2, TimersTypes, ConstantFacts, SMTT(30)
    <3> QED BY <2>3, <2>6, <3>1, <3>2, TimersTypes, Zenon
  <2>10. /\ ListLen' = ListLen + 1 /\ Listed' = Listed \union {new} /\ IsList(next', Hop', ListLen')
         /\ IsInserted(Hop', Hop, ListLen, i, new)
    BY <2>1, <2>2, <2>8, <2>9, TimersTypes, ListGrows, Zenon
  <2>11. \A n \in Nodes : /\ who'[n] = (IF n = new THEN Tcp ELSE who[n])
                          /\ time'[n] = (IF n = new THEN t ELSE time[n])
    BY <2>6, TimersTypes, Zenon
  <2>12. TypeOK'
    <3>1. next' \in [0 .. PoolSize -> 0 .. PoolSize]
      BY <1>1, <2>2, <2>6, <2>7, Zenon DEF TypeOK
    <3>2. who' \in [Nodes -> Timers] /\ time' \in [Nodes -> 0 .. M - 1] /\ free' \subseteq Nodes
      BY <1>1, <2>5, <2>6, ConstantFacts, ZenonT(30) DEF TypeOK
    <3> QED BY <1>1, <1>2, <3>1, <3>2 DEF TypeOK
  <2>13. EntriesInv'
    <3>1. IsList(next, Hop, ListLen)' /\ ~Holding' /\ ~Holding
      BY <1>2, <2>10, ZenonT(30) DEF IsList, Holding
    <3>2. Listed' \cap free' = {} /\ Nodes \ (free' \union Listed') = {}
      BY <1>1, <2>1, <2>6, <2>10, <3>1 DEF EntriesInv
    <3>3. \A x \in Timers : ~InHand(x) /\ ~InHand(x)'
      BY <1>2 DEF InHand
    <3>4. \A x \in Timers : (\E n \in Listed : who[n] = x) <=> x \in Cyclic
      BY <1>1, <1>5, <3>3 DEF EntriesInv
    <3>5. /\ \A n \in Listed : who'[n] = who[n] /\ who[n] # Tcp /\ n # new
          /\ who'[new] = Tcp
      BY <2>1, <2>2, <2>11, <3>4, TimersTypes, ConstantFacts, ZenonT(30)
    <3>6. \A m, n \in Listed' : who'[m] = who'[n] => m = n
      <4>1. \A m, n \in Listed : who[m] = who[n] => m = n
        BY <1>1 DEF EntriesInv
      <4>2. Listed' = Listed \union {new}
        BY <2>10
      <4> QED BY <3>5, <4>1, <4>2, ZenonT(30)
    <3>7. ASSUME NEW x \in Timers
          PROVE  (\E n \in Listed' : who'[n] = x) <=> ~InHand(x)' /\ (x \in Cyclic \/ active')
      <4>1. (\E n \in Listed' : who'[n] = x) <=> (\E n \in Listed : who[n] = x) \/ x = Tcp
        BY <2>10, <3>5
      <4> QED BY <1>2, <3>3, <3>4, <4>1, ConstantFacts
    <3> QED BY <3>1, <3>2, <3>6, <3>7, Zenon DEF EntriesInv
  <2>14. OrderInv'
    <3>1. \A n \in Listed : who'[n] = who[n] /\ time'[n] = time[n]
      BY <2>2, <2>11, TimersTypes
    <3>2. time'[new] = t /\ who'[new] = Tcp /\ Tcp \in Timers
      BY <2>1, <2>11, ConstantFacts
    <3> QED BY <1>2, <2>1, <2>4, <2>5, <2>10, <3>1, <3>2, OrderGrows, ZenonT(30)
  <2> QED BY <1>3, <2>12, <2>13, <2>14 DEF TimersInv
<1> QED BY <1>4, <1>5

\* sys_timeouts_init.
LEMMA TimersInit == Init => TimersInv
<1> SUFFICES ASSUME Init PROVE TimersInv
  OBVIOUS
<1> DEFINE c == Cardinality(Cyclic)
<1>1. c \in Nat /\ c < PoolSize /\ PoolSize \in Nat /\ IsFiniteSet(Cyclic)
  BY TimeoutsAssumption, FS_CardinalityType DEF TimeoutsAssumption
<1>2. PICK order \in [1 .. c -> Cyclic] :
       /\ \A i, j \in DOMAIN order : i < j =>
            order[i] # order[j] /\ Interval[order[i]] <= Interval[order[j]]
       /\ who = [n \in Nodes |-> IF n \in DOMAIN order THEN order[n] ELSE Tcp]
       /\ time = [n \in Nodes |-> IF n \in DOMAIN order THEN Interval[order[n]] ELSE 0]
       /\ next = [n \in 0 .. PoolSize |-> IF n + 1 \in DOMAIN order THEN n + 1 ELSE 0]
       /\ free = Nodes \ DOMAIN order
  BY Zenon DEF Init
<1>3. /\ now = 0 /\ start = 0 /\ due = 0 /\ active = FALSE /\ pcbs = FALSE
      /\ pc = "idle" /\ job = Tcp /\ tmp = 0 /\ pred = 0
  BY Zenon DEF Init
<1> HIDE DEF c
<1>4. /\ DOMAIN order = 1 .. c /\ 1 .. c \subseteq Nodes
      /\ \A n \in 1 .. c : order[n] \in Cyclic /\ order[n] \in Timers /\ who[n] = order[n] /\ time[n] = Interval[order[n]]
  BY <1>1, <1>2, ConstantFacts DEF Nodes
<1>5. M \in Nat /\ M > 0 /\ \A x \in Timers : Interval[x] \in 0 .. M - 1
  <2>1. \A x \in Timers : Interval[x] \in Nat /\ 2 * (Interval[x] + 2 * MaxLag) < M
    BY ConstantFacts
  <2> QED BY <2>1, ConstantFacts
<1>6. TypeOK
  <2>1. who \in [Nodes -> Timers]
    BY <1>2, <1>4, ConstantFacts
  <2>2. time \in [Nodes -> 0 .. M - 1]
    <3>1. ASSUME NEW n \in Nodes PROVE (IF n \in DOMAIN order THEN Interval[order[n]] ELSE 0) \in 0 .. M - 1
      <4>1. n \in DOMAIN order => Interval[order[n]] \in 0 .. M - 1
        BY <1>4, <1>5
      <4>2. 0 \in 0 .. M - 1
        BY <1>5
      <4> QED BY <4>1, <4>2
    <3> QED BY <1>2, <3>1
  <2>3. next \in [0 .. PoolSize -> 0 .. PoolSize]
    BY <1>1, <1>2, <1>4
  <2>4. free \subseteq Nodes /\ 0 \in 0 .. M - 1 /\ 0 \in 0 .. PoolSize /\ Tcp \in Timers
    BY <1>1, <1>2, <1>5, ConstantFacts
  <2> QED BY <1>3, <2>1, <2>2, <2>3, <2>4, Zenon DEF TypeOK
<1>7. ListLen = c /\ IsList(next, Hop, ListLen) /\ Listed = 1 .. c /\ \A k \in 0 .. c : Hop[k] = k
  <2> DEFINE L == [k \in 0 .. c |-> k]
  <2>1. \A k \in 0 .. c : L[k] = k /\ next[k] = IF k < c THEN k + 1 ELSE 0
    BY <1>1, <1>2, <1>4
  <2> HIDE DEF L
  <2>2. ASSUME NEW k \in 1 .. c PROVE L[k] \in Nodes /\ next[L[k - 1]] = L[k]
    <3>1. k \in 0 .. c /\ k - 1 \in 0 .. c /\ k - 1 < c /\ (k - 1) + 1 = k
      BY <1>1
    <3> QED BY <1>4, <2>1, <3>1
  <2>3. c \in 0 .. PoolSize /\ L[0] = 0 /\ next[L[c]] = 0 /\ \A j, k \in 1 .. c : L[j] = L[k] => j = k
    BY <1>1, <2>1
  <2>4. IsList(next, L, c)
    BY <2>2, <2>3 DEF IsList
  <2>5. /\ ListLen = c /\ IsList(next, Hop, c) /\ Listed = {L[k] : k \in 1 .. c}
        /\ \A k \in 0 .. c : Hop[k] = L[k]
    BY <2>4, ListIs DEF ListMeans
  <2>6. {L[k] : k \in 1 .. c} = 1 .. c
    BY <1>1, <2>1
  <2> QED BY <2>1, <2>5, <2>6
<1>8. \A i, j \in 1 .. c : order[i] = order[j] => i = j
  BY <1>1, <1>2, <1>4
<1>9. \A x \in Cyclic : \E n \in 1 .. c : order[n] = x
  <2>1. order \in Injection(1 .. c, Cyclic)
    BY <1>8 DEF Injection, IsInjective
  <2>2. Cardinality(1 .. c) = c
    BY <1>1, FS_Interval
  <2>3. order \in Surjection(1 .. c, Cyclic)
    BY <1>1, <2>1, <2>2, FS_Injection DEF c
  <2> QED BY <2>3 DEF Surjection
<1>10. EntriesInv
  <2>1. ~Holding /\ \A x : ~InHand(x)
    BY <1>3 DEF Holding, InHand
  <2>2. Listed \cap free = {} /\ Nodes \ (free \union Listed) = {}
    BY <1>2, <1>4, <1>7
  <2>3. \A m, n \in Listed : who[m] = who[n] => m = n
    BY <1>4, <1>7, <1>8, SMTT(30)
  <2>4. \A x \in Timers : (\E n \in Listed : who[n] = x) <=> x \in Cyclic
    BY <1>4, <1>7, <1>9
  <2> QED BY <1>3, <1>7, <2>1, <2>2, <2>3, <2>4 DEF EntriesInv
<1>11. OrderInv
  <2>1. ASSUME NEW n \in Listed PROVE Near(time[n], who[n])
    <3>1. time[n] = Interval[who[n]] /\ time[n] \in 0 .. M - 1 /\ 0 \in 0 .. M - 1
      BY <1>4, <1>5, <1>7
    <3>2. (time[n] - 0) % M = IF time[n] >= 0 THEN time[n] - 0 ELSE time[n] - 0 + M
      BY <3>1, ClockMinus
    <3>3. (time[n] - now) % M <= Interval[who[n]]
      BY <1>3, <3>1, <3>2
    <3> QED BY <3>3 DEF Near
  <2>2. ASSUME NEW k \in 1 .. ListLen - 1 PROVE ~TimeLess(time[Hop[k + 1]], time[Hop[k]])
    <3>1. k \in 1 .. c /\ k + 1 \in 1 .. c /\ k < k + 1 /\ k \in 0 .. c /\ k + 1 \in 0 .. c
      BY <1>1, <1>7
    <3> DEFINE a == Interval[order[k]]
               b == Interval[order[k + 1]]
    <3>2. Hop[k] = k /\ Hop[k + 1] = k + 1 /\ time[k] = a /\ time[k + 1] = b
      BY <1>4, <1>7, <3>1
    <3>3. a <= b
      BY <1>2, <1>4, <3>1
    <3>4. a \in 0 .. M - 1 /\ b \in 0 .. M - 1 /\ b \in Nat /\ 2 * (b + 2 * MaxLag) < M /\ MaxLag \in Nat
      BY <1>4, <1>5, <3>1, ConstantFacts
    <3> HIDE DEF a, b
    <3>5. PICK h \in Nat : h = (M - 1) \div 2 /\ 2 * h <= M - 1 /\ M <= 2 * h + 2
      BY <1>5
    <3>6. TimeLess(b, a) <=> (IF b >= a THEN b - a ELSE b - a + M) > h
      BY <3>4, <3>5, ClockLess
    <3>7. ~TimeLess(b, a)
      BY <1>5, <3>3, <3>4, <3>5, <3>6
    <3> QED BY <3>2, <3>7
  <2> QED BY <2>1, <2>2 DEF OrderInv
<1>12. LagInv /\ MainInv
  BY <1>3, Zenon DEF LagInv, MainInv, Holding, InHand
<1> QED BY <1>6, <1>10, <1>11, <1>12 DEF TimersInv

\* Every step keeps the invariant.
LEMMA TimersNext == ASSUME TcpContext = "main", TimersInv, [Next]_vars PROVE TimersInv'
<1>1. CASE UNCHANGED vars
  <2>1. UNCHANGED <<now, next, who, time, free, active, pcbs, pc, start, job, due, tmp, pred>>
    BY <1>1 DEF vars
  <2>2. TypeOK /\ EntriesInv /\ OrderInv /\ LagInv /\ MainInv
    BY DEF TimersInv
  <2>3. SameList
    BY <2>1, TimersTypes, ListKept
  <2>4. EntriesInv'
    BY <2>1, <2>2, <2>3, EntriesKept DEF Holding, InHand
  <2>5. OrderInv'
    BY <2>1, <2>3, OrderKept, Zenon
  <2>6. TypeOK' /\ LagInv'
    BY <2>1, <2>2, ZenonT(30) DEF TypeOK, LagInv, Holding, Near
  <2>7. MainInv'
    <3>1. ASSUME NEW i \in 0 .. ListLen, pred = Hop[i], Between(time[tmp], i)
          PROVE  i \in 0 .. ListLen' /\ pred' = Hop'[i] /\ Between(time[tmp], i)'
      <4>1. /\ i # 0 => ~TimeLess(time'[tmp'], time'[Hop'[i]])
            /\ i # ListLen' => TimeLess(time'[tmp'], time'[Hop'[i + 1]])
        BY <2>1, <2>3, <3>1, BetweenKept, Zenon
      <4> QED BY <2>1, <2>3, <3>1, <4>1, Zenon DEF SameList, Between, TimeLess
    <3> QED BY <2>1, <2>2, <3>1 DEF MainInv, Holding, InHand, TimeLess
  <2> QED BY <2>4, <2>5, <2>6, <2>7, Zenon DEF TimersInv
<1>2. CASE TMR0_IRQHandler
  BY <1>2, TickStep
<1>3. CASE tcp_timer_needed
  BY <1>3, NeededStep
<1>4. CASE LastPcbRemoved \/ CheckStart \/ ReadHead \/ TcpTimerOff
  BY <1>4, QuietStep, ZenonT(30)
<1>5. CASE Unlink
  BY <1>5, UnlinkStep
<1>6. CASE RunHandler
  BY <1>6, RunStep
<1>7. CASE Find
  BY <1>7, FindStep
<1>8. CASE ReadNext
  BY <1>8, ReadStep
<1>9. CASE Link
  BY <1>9, LinkStep
<1> QED BY <1>1, <1>2, <1>3, <1>4, <1>5, <1>6, <1>7, <1>8, <1>9, Zenon DEF Next, sys_check_timeouts
-----------------------------------------------------------------------------
(* Theorems. *)

\* The entries, their order, the lag and the place of main fit together always, if
\* connections are made and ended by main.
THEOREM TimersInvariant == ASSUME TcpContext = "main" PROVE Spec => []TimersInv
<1>1. Init => TimersInv
  BY TimersInit
<1>2. TimersInv /\ [Next]_vars => TimersInv'
  BY TimersNext
<1> QED BY <1>1, <1>2, PTL DEF Spec

\* Every variable keeps its type.
THEOREM TimersTypeOK == ASSUME TcpContext = "main" PROVE Spec => []TypeOK
<1>1. Spec => []TimersInv
  BY TimersInvariant
<1>2. TimersInv => TypeOK
  BY DEF TimersInv
<1> QED BY <1>1, <1>2, PTL

\* The list of timeouts is sorted across the wrap-around of the clock, has exactly
\* one entry for every timer that is scheduled, and no entry of the pool leaks.
THEOREM TimersListSound == ASSUME TcpContext = "main" PROVE Spec => []ListSound
<1>1. Spec => []TimersInv
  BY TimersInvariant
<1>2. TimersInv => ListSound
  <2> SUFFICES ASSUME TimersInv PROVE ListSound
    OBVIOUS
  <2>1. EntriesInv /\ OrderInv /\ MainInv
    BY DEF TimersInv
  <2>2. ASSUME NEW x \in Timers
        PROVE  Cardinality({n \in Listed : who[n] = x}) =
                 IF InHand(x) THEN 0 ELSE IF x \in Cyclic \/ active THEN 1 ELSE 0
    <3> DEFINE Own == {n \in Listed : who[n] = x}
    <3>1. \A m, n \in Own : m = n
      BY <2>1 DEF EntriesInv
    <3>2. Own # {} <=> ~InHand(x) /\ (x \in Cyclic \/ active)
      BY <2>1 DEF EntriesInv
    <3>3. CASE Own = {}
      BY <3>2, <3>3, FS_EmptySet
    <3>4. CASE Own # {}
      <4>1. PICK m \in Own : TRUE
        BY <3>4
      <4>2. Own = {m}
        BY <3>1, <4>1
      <4>3. Cardinality(Own) = 1
        BY <4>2, FS_Singleton
      <4> QED BY <3>2, <3>4, <4>3
    <3> QED BY <3>3, <3>4
  <2>3. Cardinality(Nodes \ (free \union Listed)) = IF pc \in {"find", "read", "link"} THEN 1 ELSE 0
    <3>1. CASE Holding
      <4>1. Nodes \ (free \union Listed) = {tmp}
        BY <2>1, <3>1 DEF EntriesInv
      <4> QED BY <3>1, <4>1, FS_Singleton, Zenon DEF Holding
    <3>2. CASE ~Holding
      <4>1. Nodes \ (free \union Listed) = {}
        BY <2>1, <3>2 DEF EntriesInv
      <4> QED BY <3>2, <4>1, FS_EmptySet DEF Holding
    <3> QED BY <3>1, <3>2
  <2>4. /\ \A k \in 1 .. ListLen - 1 : ~TimeLess(time[Hop[k + 1]], time[Hop[k]])
        /\ InHand(Tcp) => active
        /\ Listed \cap free = {}
    BY <2>1 DEF EntriesInv, OrderInv, MainInv
  <2>5. TypeOK
    BY ZenonT(30) DEF TimersInv
  <2> QED BY <2>2, <2>3, <2>4, <2>5, Zenon DEF ListSound
<1> QED BY <1>1, <1>2, PTL

\* Between two rounds of sys_check_timeouts the TCP timer is scheduled while there
\* are connections.
THEOREM TimersTcpScheduled == ASSUME TcpContext = "main" PROVE Spec => []TcpTimerScheduled
<1>1. Spec => []TimersInv
  BY TimersInvariant
<1>2. TimersInv => TcpTimerScheduled
  BY ConstantFacts DEF TimersInv, MainInv, EntriesInv, InHand, TcpTimerScheduled
<1> QED BY <1>1, <1>2, PTL

\* A handler runs only for a due time that had come when the round began.
THEOREM TimersNeverEarly == ASSUME TcpContext = "main" PROVE Spec => []NeverEarly
<1>1. Spec => []TimersInv
  BY TimersInvariant
<1>2. ASSUME TimersInv, pc = "run" PROVE ~TimeLess(start, due) /\ ~TimeLess(now, due)
  <2>1. (now - start) % M <= MaxLag /\ (start - due) % M <= MaxLag
    BY <1>2 DEF TimersInv, LagInv
  <2>2. now \in 0 .. M - 1 /\ start \in 0 .. M - 1 /\ due \in 0 .. M - 1
    BY <1>2 DEF TimersInv, TypeOK
  <2>3. M \in Nat /\ MaxLag \in Nat /\ 4 * MaxLag < M
    BY ConstantFacts
  <2>4. PICK h \in Nat : h = (M - 1) \div 2 /\ 2 * h <= M - 1 /\ M <= 2 * h + 2
    BY <2>3
  <2>5. /\ (IF now >= start THEN now - start ELSE now - start + M) <= MaxLag
        /\ (IF start >= due THEN start - due ELSE start - due + M) <= MaxLag
    BY <2>1, <2>2, ClockMinus
  <2>6. TimeLess(now, due) <=> (IF now >= due THEN now - due ELSE now - due + M) > h
    BY <2>2, <2>4, ClockLess
  <2>7. TimeLess(start, due) <=> (IF start >= due THEN start - due ELSE start - due + M) > h
    BY <2>2, <2>4, ClockLess
  <2>8. ~TimeLess(now, due)
    BY <2>2, <2>3, <2>4, <2>5, <2>6
  <2>9. ~TimeLess(start, due)
    BY <2>2, <2>3, <2>4, <2>5, <2>7
  <2> QED BY <2>8, <2>9
<1> QED BY <1>1, <1>2, PTL DEF NeverEarly

\* No entry is due before the first one.
LEMMA FirstIsLeast ==
  ASSUME TimersInv
  PROVE  \A k \in 1 .. ListLen : ~TimeLess(time[Hop[k]], time[Hop[1]])
<1> DEFINE Early == {k \in 1 .. ListLen : TimeLess(time[Hop[k]], time[Hop[1]])}
<1> SUFFICES ASSUME Early # {} PROVE FALSE
  OBVIOUS
<1>1. PICK k \in Early : \A j \in Early : k <= j
  <2>1. Early \in SUBSET Nat
    BY TimersTypes, SMTT(30)
  <2> HIDE DEF Early
  <2> QED BY <2>1, LeastMember, Zenon
<1>2. ListLen \in Nat /\ k \in 1 .. ListLen /\ TimeLess(time[Hop[k]], time[Hop[1]]) /\ 1 \in 1 .. ListLen
  BY <1>1, TimersTypes
<1>3. ASSUME NEW j \in 1 .. ListLen
      PROVE  /\ time[Hop[j]] \in 0 .. M - 1 /\ who[Hop[j]] \in Timers
             /\ (now - time[Hop[j]]) % M <= MaxLag \/ (time[Hop[j]] - now) % M <= Interval[who[Hop[j]]]
  <2>1. Hop[j] \in Listed /\ Hop[j] \in Nodes
    BY TimersTypes, ListedFacts, Zenon
  <2> QED BY <2>1, TimersTypes, Zenon DEF TimersInv, OrderInv, Near
<1>4. k # 1
  <2>1. ~TimeLess(time[Hop[1]], time[Hop[1]])
    <3> DEFINE t == time[Hop[1]]
    <3>1. t \in 0 .. M - 1 /\ M \in Nat
      BY <1>2, <1>3, ConstantFacts
    <3> HIDE DEF t
    <3>2. ~TimeLess(t, t)
      BY <3>1, ClockLess
    <3> QED BY <3>2, Zenon DEF t
  <2> QED BY <1>2, <2>1
<1>5. k - 1 \in 1 .. ListLen /\ k - 1 \in 1 .. ListLen - 1 /\ (k - 1) + 1 = k /\ ~(k <= k - 1)
  BY <1>2, <1>4, SMTT(30)
<1>6. ~TimeLess(time[Hop[k - 1]], time[Hop[1]]) /\ ~TimeLess(time[Hop[k]], time[Hop[k - 1]])
  <2>1. ~TimeLess(time[Hop[(k - 1) + 1]], time[Hop[k - 1]])
    BY <1>5 DEF TimersInv, OrderInv
  <2> QED BY <1>1, <1>5, <2>1, ZenonT(30)
<1>7. ~TimeLess(time[Hop[k]], time[Hop[1]])
  <2> DEFINE t == time[Hop[1]]
             u == time[Hop[k - 1]]
             v == time[Hop[k]]
             w == who[Hop[1]]
             x == who[Hop[k - 1]]
             y == who[Hop[k]]
  <2>1. /\ t \in 0 .. M - 1 /\ w \in Timers /\ ((now - t) % M <= MaxLag \/ (t - now) % M <= Interval[w])
        /\ u \in 0 .. M - 1 /\ x \in Timers /\ ((now - u) % M <= MaxLag \/ (u - now) % M <= Interval[x])
        /\ v \in 0 .. M - 1 /\ y \in Timers /\ ((now - v) % M <= MaxLag \/ (v - now) % M <= Interval[y])
    BY <1>2, <1>3, <1>5, Zenon
  <2>2. ~TimeLess(u, t) /\ ~TimeLess(v, u) /\ now \in 0 .. M - 1
    BY <1>6, TimersTypes, ZenonT(30)
  <2> HIDE DEF t, u, v, w, x, y
  <2>3. ~TimeLess(v, t)
    BY <2>1, <2>2, NearOrder
  <2> QED BY <2>3, Zenon DEF t, v
<1> QED BY <1>2, <1>7

\* When sys_check_timeouts returns, every timer left is due after its start.
THEOREM TimersAllExpiredRun == ASSUME TcpContext = "main" PROVE Spec => AllExpiredRun
<1>1. Spec => []TimersInv
  BY TimersInvariant
<1>2. TimersInv /\ [Next]_vars =>
        [pc = "head" /\ pc' = "idle" => \A n \in Listed : TimeLess(start, time[n])]_vars
  <2> SUFFICES ASSUME TimersInv, Next, pc = "head", pc' = "idle", NEW n \in Listed
               PROVE  TimeLess(start, time[n])
    BY Zenon DEF vars
  <2>1. ReadHead
    BY Zenon DEF Next, sys_check_timeouts, TMR0_IRQHandler, tcp_timer_needed, LastPcbRemoved, mainVars, Main,
           CheckStart, Unlink, RunHandler, Find, ReadNext, Link, TcpTimerOff
  <2>2. next[0] = 0 \/ TimeLess(start, time[next[0]])
    BY <2>1 DEF ReadHead, Main, Expired
  <2>3. PICK k \in 1 .. ListLen : n = Hop[k]
    BY TimersTypes, ListedFacts
  <2>4. next[0] = Hop[1] /\ 1 \in 1 .. ListLen /\ Hop[1] \in Nodes /\ Hop[1] # 0 /\ Hop[1] \in Listed
    <3>1. 1 \in 1 .. ListLen /\ 1 - 1 = 0
      BY <2>3, TimersTypes
    <3>2. next[Hop[1 - 1]] = Hop[1] /\ Hop[0] = 0 /\ Hop[1] \in Nodes
      BY <3>1, TimersTypes DEF IsList
    <3> QED BY <3>1, <3>2, TimersTypes, ListedFacts, Zenon
  <2> DEFINE u == time[Hop[1]]
             v == time[n]
  <2>5. TimeLess(start, u) /\ ~TimeLess(v, u)
    BY <2>2, <2>3, <2>4, FirstIsLeast
  <2>6. /\ u \in 0 .. M - 1 /\ v \in 0 .. M - 1 /\ start \in 0 .. M - 1 /\ now \in 0 .. M - 1
        /\ who[Hop[1]] \in Timers /\ who[n] \in Timers /\ Tcp \in Timers
    BY <2>4, TimersTypes, ConstantFacts, ZenonT(30)
  <2>7. /\ (now - start) % M <= MaxLag
        /\ (now - u) % M <= MaxLag \/ (u - now) % M <= Interval[who[Hop[1]]]
        /\ (now - v) % M <= MaxLag \/ (v - now) % M <= Interval[who[n]]
    BY <2>4, Zenon DEF TimersInv, LagInv, OrderInv, Near
  <2> HIDE DEF u, v
  <2>8. TimeLess(start, v)
    BY <2>5, <2>6, <2>7, NearOrder, SMTT(30)
  <2> QED BY <2>8 DEF v
<1> QED BY <1>1, <1>2, PTL DEF Spec, AllExpiredRun

\* The due time a timer is given lies after the one just served, no later than one
\* interval from now, and not in the past.
THEOREM TimersDueAdvances == ASSUME TcpContext = "main" PROVE Spec => DueAdvances
<1>1. Spec => []TimersInv
  BY TimersInvariant
<1>2. TimersInv /\ [Next]_vars =>
        [pc = "run" /\ pc' = "find" =>
           /\ TimeLess(due, time'[tmp'])
           /\ ~TimeLess((now + Interval[job]) % M, time'[tmp'])
           /\ ~TimeLess(time'[tmp'], now)]_vars
  <2> SUFFICES ASSUME TimersInv, Next, pc = "run", pc' = "find"
               PROVE  /\ TimeLess(due, time'[tmp'])
                      /\ ~TimeLess((now + Interval[job]) % M, time'[tmp'])
                      /\ ~TimeLess(time'[tmp'], now)
    BY Zenon DEF vars
  <2>1. RunHandler
    BY Zenon DEF Next, sys_check_timeouts, TMR0_IRQHandler, tcp_timer_needed, LastPcbRemoved, mainVars, Main,
           CheckStart, ReadHead, Unlink, Find, ReadNext, Link, TcpTimerOff
  <2> DEFINE new == Min(free)
  <2>2. TypeOK /\ free # {} /\ (now - start) % M <= MaxLag /\ (start - due) % M <= MaxLag
    BY Zenon DEF TimersInv, MainInv, LagInv
  <2>3. tmp' = new /\ time' = [time EXCEPT ![new] = Due(job)]
    BY <2>1, <2>2 DEF RunHandler, Main, Due
  <2>4. new \in Nodes
    <3>1. free \in SUBSET Nat /\ free \subseteq Nodes
      BY <2>2, SMTT(30) DEF TypeOK, Nodes
    <3> QED BY <2>2, <3>1, LeastMember, Zenon
  <2>5. time'[tmp'] = Due(job)
    BY <2>3, <2>4, TimersTypes
  <2> QED BY <2>2, <2>5, TimersTypes, DueRight, Zenon
<1> QED BY <1>1, <1>2, PTL DEF Spec, DueAdvances
=============================================================================
