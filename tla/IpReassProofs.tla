---------------------------- MODULE IpReassProofs ----------------------------
(***************************************************************************)
(* Proofs about reassembly, for any number of datagrams of any length and  *)
(* for any limits.                                                         *)
(***************************************************************************)
EXTENDS IpReass, WellFoundedInduction, TLAPS

\* The fragments of an entry: in order, without overlap.
Sorted(frags) == \A j, k \in 1 .. Len(frags) : j < k => frags[j].end <= frags[k].start

\* They are a whole datagram.
Complete(frags) ==
  frags # <<>> /\ frags[1].start = 0 /\ Joined(frags, 1, Len(frags)) /\ frags[Len(frags)].end = Size

\* What holds of an entry also while it is being made: the flag is set exactly when
\* the last fragment is there, the datagram is not complete, the header is right.
EntryOk(e) ==
  /\ e \in Entries /\ Sorted(e.frags)
  /\ e.last <=> e.frags # <<>> /\ e.frags[Len(e.frags)].end = Size
  /\ ~Complete(e.frags)
  /\ e.frags # <<>> /\ e.frags[1].start = 0 => e.hdr = 0

ListOk(l) ==
  /\ l \in Seq(Entries)
  /\ \A k \in 1 .. Len(l) : EntryOk(l[k])
  /\ \A j, k \in 1 .. Len(l) : l[j].id = l[k].id => j = k

NoneEmpty(l) == \A k \in 1 .. Len(l) : l[k].frags # <<>>

\* A list and a count that fit together.
StateOk(s) ==
  s = [list |-> s.list, count |-> s.count] /\ ListOk(s.list) /\ s.count = AllPbufs(s.list)

\* The inductive invariant.
Good(l, c, u) ==
  /\ StateOk([list |-> l, count |-> c]) /\ NoneEmpty(l)
  /\ Len(l) <= NumReass /\ c <= MaxPbufs
  /\ u \in Seq(Fragments) /\ Sorted(u) /\ (u # <<>> => Complete(u))

ReassInv == Good(list, count, up)
-----------------------------------------------------------------------------
(* Numbers and sequences. *)

\* The constants are numbers.
LEMMA ConstantFacts == Size \in Nat /\ MaxPbufs \in Nat /\ NumReass \in Nat /\ MaxAge \in Nat
BY ReassAssumption DEF ReassAssumption

\* A set of numbers that is not empty has a least member, which Least finds.
LEMMA LeastMember ==
  ASSUME NEW T \in SUBSET Nat, T # {}
  PROVE  Least(T) \in T /\ \A y \in T : Least(T) <= y
<1>1. PICK x \in T : \A y \in T : ~(<<y, x>> \in OpToRel(<, Nat))
  BY NatLessThanWellFounded, WFMin, Zenon
<1>2. \A y \in T : ~(y < x)
  BY <1>1, Zenon DEF OpToRel
<1>3. \E z \in T : \A y \in T : z <= y
  BY <1>2
<1> QED BY <1>3, Zenon DEF Least

\* The length and the domain of a sequence.
LEMMA SeqLen ==
  ASSUME NEW S, NEW s \in Seq(S)
  PROVE  Len(s) \in Nat /\ DOMAIN s = 1 .. Len(s)
OBVIOUS

\* Sequences with the same members are the same.
LEMMA SeqSame ==
  ASSUME NEW S, NEW s \in Seq(S), NEW t \in Seq(S), Len(s) = Len(t),
         \A i \in 1 .. Len(s) : s[i] = t[i]
  PROVE  s = t
OBVIOUS

\* A part of a sequence.
LEMMA SubSeqIs ==
  ASSUME NEW S, NEW s, NEW m \in Int, NEW n \in Int, \A i \in m .. n : s[i] \in S
  PROVE  /\ SubSeq(s, m, n) \in Seq(S)
         /\ Len(SubSeq(s, m, n)) = IF m <= n THEN n - m + 1 ELSE 0
         /\ \A i \in 1 .. n - m + 1 : SubSeq(s, m, n)[i] = s[m + i - 1]
OBVIOUS

\* Two sequences in a row.
LEMMA ConcatIs ==
  ASSUME NEW S, NEW s \in Seq(S), NEW t \in Seq(S)
  PROVE  /\ s \o t \in Seq(S) /\ Len(s \o t) = Len(s) + Len(t)
         /\ \A i \in 1 .. Len(s) + Len(t) :
              (s \o t)[i] = IF i <= Len(s) THEN s[i] ELSE t[i - Len(s)]
OBVIOUS

\* Sequence t is s with e at place i.
IsInserted(t, s, i, e) ==
  /\ Len(t) = Len(s) + 1
  /\ \A k \in 1 .. Len(t) : t[k] = IF k < i THEN s[k] ELSE IF k = i THEN e ELSE s[k - 1]

\* What InsertAt and RemoveAt do.
LEMMA InsertAtIs ==
  ASSUME NEW S, NEW s \in Seq(S), NEW i \in 1 .. Len(s) + 1, NEW e \in S
  PROVE  InsertAt(s, i, e) \in Seq(S) /\ IsInserted(InsertAt(s, i, e), s, i, e)
<1> DEFINE a == SubSeq(s, 1, i - 1)
           b == SubSeq(s, i, Len(s))
<1>1. Len(s) \in Nat /\ i \in Int
  OBVIOUS
<1>2. a \in Seq(S) /\ Len(a) = i - 1 /\ \A k \in 1 .. i - 1 : a[k] = s[k]
  <2>1. \A k \in 1 .. i - 1 : s[k] \in S
    BY <1>1
  <2> QED BY <1>1, <2>1, SubSeqIs
<1>3. b \in Seq(S) /\ Len(b) = Len(s) - i + 1 /\ \A k \in 1 .. Len(s) - i + 1 : b[k] = s[i + k - 1]
  <2>1. \A k \in i .. Len(s) : s[k] \in S
    BY <1>1
  <2> QED BY <1>1, <2>1, SubSeqIs
<1> HIDE DEF a, b
<1>4. <<e>> \in Seq(S) /\ Len(<<e>>) = 1 /\ <<e>>[1] = e
  OBVIOUS
<1> DEFINE c == a \o <<e>>
<1>5. c \in Seq(S) /\ Len(c) = i /\ \A k \in 1 .. i : c[k] = IF k < i THEN s[k] ELSE e
  BY <1>1, <1>2, <1>4
<1> HIDE DEF c
<1>6. /\ c \o b \in Seq(S) /\ Len(c \o b) = Len(s) + 1
      /\ \A k \in 1 .. Len(s) + 1 : (c \o b)[k] = IF k <= i THEN c[k] ELSE b[k - i]
  <2>1. /\ c \o b \in Seq(S) /\ Len(c \o b) = Len(c) + Len(b)
        /\ \A k \in 1 .. Len(c) + Len(b) : (c \o b)[k] = IF k <= Len(c) THEN c[k] ELSE b[k - Len(c)]
    BY <1>3, <1>5, ConcatIs
  <2>2. Len(c) + Len(b) = Len(s) + 1
    BY <1>1, <1>3, <1>5
  <2> QED BY <1>5, <2>1, <2>2
<1> DEFINE r == c \o b
<1> HIDE DEF r
<1>7. ASSUME NEW k \in 1 .. Len(s) + 1
      PROVE  r[k] = IF k < i THEN s[k] ELSE IF k = i THEN e ELSE s[k - 1]
  <2>0. r[k] = IF k <= i THEN c[k] ELSE b[k - i]
    BY <1>6 DEF r
  <2>1. CASE k <= i
    BY <1>5, <2>0, <2>1
  <2>2. CASE k > i
    <3>1. k - i \in 1 .. Len(s) - i + 1 /\ i + (k - i) - 1 = k - 1
      BY <1>1, <2>2
    <3>2. b[k - i] = s[i + (k - i) - 1]
      BY <1>3, <3>1
    <3>3. r[k] = s[k - 1] /\ ~(k < i) /\ k # i
      BY <1>1, <2>0, <2>2, <3>1, <3>2
    <3> QED BY <3>3
  <2> QED BY <1>1, <2>1, <2>2
<1>8. InsertAt(s, i, e) = r
  BY DEF InsertAt, a, b, c, r
<1>9. r \in Seq(S) /\ Len(r) = Len(s) + 1
  BY <1>6 DEF r
<1> QED BY <1>7, <1>8, <1>9 DEF IsInserted

\* The shorter sequence in terms of the longer one.
LEMMA InsertedInverse ==
  ASSUME NEW s, NEW t, NEW i, NEW e, Len(s) \in Nat, i \in 1 .. Len(s) + 1, IsInserted(t, s, i, e)
  PROVE  \A j \in 1 .. Len(s) : s[j] = IF j < i THEN t[j] ELSE t[j + 1]
<1> SUFFICES ASSUME NEW j \in 1 .. Len(s) PROVE s[j] = IF j < i THEN t[j] ELSE t[j + 1]
  OBVIOUS
<1>1. Len(t) = Len(s) + 1 /\ j \in 1 .. Len(t) /\ j + 1 \in 1 .. Len(t) /\ (j + 1) - 1 = j
  BY DEF IsInserted
<1>2. /\ t[j] = IF j < i THEN s[j] ELSE IF j = i THEN e ELSE s[j - 1]
      /\ t[j + 1] = IF j + 1 < i THEN s[j + 1] ELSE IF j + 1 = i THEN e ELSE s[(j + 1) - 1]
  BY <1>1 DEF IsInserted
<1>3. ~(j < i) => ~(j + 1 < i) /\ j + 1 # i
  BY <1>1
<1> QED BY <1>1, <1>2, <1>3

\* The inverse: the sequence without its i-th member.
LEMMA RemoveAtIs ==
  ASSUME NEW S, NEW s \in Seq(S), NEW i \in 1 .. Len(s)
  PROVE  RemoveAt(s, i) \in Seq(S) /\ IsInserted(s, RemoveAt(s, i), i, s[i])
<1> DEFINE a == SubSeq(s, 1, i - 1)
           b == SubSeq(s, i + 1, Len(s))
<1>1. Len(s) \in Nat /\ i \in Int
  OBVIOUS
<1>2. a \in Seq(S) /\ Len(a) = i - 1 /\ \A k \in 1 .. i - 1 : a[k] = s[k]
  <2>1. \A k \in 1 .. i - 1 : s[k] \in S
    BY <1>1
  <2> QED BY <1>1, <2>1, SubSeqIs
<1>3. b \in Seq(S) /\ Len(b) = Len(s) - i /\ \A k \in 1 .. Len(s) - i : b[k] = s[i + k]
  <2>1. \A k \in i + 1 .. Len(s) : s[k] \in S
    BY <1>1
  <2>2. /\ b \in Seq(S) /\ Len(b) = IF i + 1 <= Len(s) THEN Len(s) - (i + 1) + 1 ELSE 0
        /\ \A k \in 1 .. Len(s) - (i + 1) + 1 : b[k] = s[(i + 1) + k - 1]
    BY <1>1, <2>1, SubSeqIs
  <2> QED BY <1>1, <2>2
<1> HIDE DEF a, b
<1>4. /\ a \o b \in Seq(S) /\ Len(a \o b) = Len(s) - 1
      /\ \A k \in 1 .. Len(s) - 1 : (a \o b)[k] = IF k <= i - 1 THEN a[k] ELSE b[k - (i - 1)]
  <2>1. /\ a \o b \in Seq(S) /\ Len(a \o b) = Len(a) + Len(b)
        /\ \A k \in 1 .. Len(a) + Len(b) : (a \o b)[k] = IF k <= Len(a) THEN a[k] ELSE b[k - Len(a)]
    BY <1>2, <1>3, ConcatIs, Zenon
  <2>2. Len(a) + Len(b) = Len(s) - 1
    BY <1>1, <1>2, <1>3
  <2> QED BY <1>2, <2>1, <2>2
<1>5. ASSUME NEW k \in 1 .. Len(s) - 1 PROVE (a \o b)[k] = IF k < i THEN s[k] ELSE s[k + 1]
  <2>1. CASE k < i
    BY <1>1, <1>2, <1>4, <2>1
  <2>2. CASE ~(k < i)
    <3>1. k - (i - 1) \in 1 .. Len(s) - i /\ i + (k - (i - 1)) = k + 1 /\ ~(k <= i - 1)
      BY <1>1, <2>2
    <3> QED BY <1>3, <1>4, <2>2, <3>1, Zenon
  <2> QED BY <2>1, <2>2, Zenon
<1> DEFINE r == a \o b
<1>6. r = RemoveAt(s, i) /\ Len(r) = Len(s) - 1 /\ \A k \in 1 .. Len(s) - 1 : r[k] = IF k < i THEN s[k] ELSE s[k + 1]
  BY <1>4, <1>5, Zenon DEF RemoveAt, a, b
<1> HIDE DEF r
<1>7. ASSUME NEW k \in 1 .. Len(s)
      PROVE  s[k] = IF k < i THEN r[k] ELSE IF k = i THEN s[i] ELSE r[k - 1]
  <2>1. CASE k < i
    BY <1>1, <1>6, <2>1
  <2>2. CASE k > i
    <3>1. k - 1 \in 1 .. Len(s) - 1 /\ ~(k - 1 < i) /\ (k - 1) + 1 = k
      BY <1>1, <2>2
    <3> QED BY <1>6, <2>2, <3>1
  <2> QED BY <1>1, <2>1, <2>2
<1> QED BY <1>1, <1>4, <1>6, <1>7 DEF IsInserted, r
-----------------------------------------------------------------------------
(* Sums. *)

\* u[k] is the sum of the first k numbers of w.
IsSums(u, w, n) == u[0] = 0 /\ \A k \in 1 .. n : u[k] = u[k - 1] + w[k]

\* The sum of w is the last of its partial sums.
LEMMA TotalIs ==
  ASSUME NEW w, Len(w) \in Nat
  PROVE  \E u : IsSums(u, w, Len(w)) /\ Total(w) = u[Len(w)]
<1> DEFINE IsUpTo(u, m) == u = [n \in 0 .. m |-> IF n = 0 THEN 0 ELSE u[n - 1] + w[n]]
           Without == {m \in Nat : ~\E u : IsUpTo(u, m)}
<1>1. \A m \in Nat : \E u : IsUpTo(u, m)
  <2> SUFFICES ASSUME Without # {} PROVE FALSE
    BY Zenon
  <2>1. PICK m \in Without : \A j \in Without : m <= j
    BY LeastMember, Zenon
  <2>2. CASE m = 0
    <3> DEFINE g == [n \in 0 .. m |-> 0]
    <3>1. g = [n \in 0 .. m |-> IF n = 0 THEN 0 ELSE g[n - 1] + w[n]]
      BY <2>2
    <3> QED BY <2>1, <3>1
  <2>3. CASE m # 0
    <3>1. m - 1 \in Nat /\ m - 1 \notin Without
      <4>1. m - 1 \in Nat /\ ~(m <= m - 1)
        BY <2>3
      <4> HIDE DEF Without
      <4> QED BY <2>1, <4>1
    <3>2. PICK u : IsUpTo(u, m - 1)
      BY <3>1
    <3> DEFINE g == [n \in 0 .. m |-> IF n = m THEN u[m - 1] + w[m] ELSE u[n]]
    <3>3. \A n \in 0 .. m : g[n] = IF n = 0 THEN 0 ELSE g[n - 1] + w[n]
      BY <2>3, <3>1, <3>2
    <3>4. g = [n \in 0 .. m |-> g[n]]
      OBVIOUS
    <3> HIDE DEF g
    <3>5. IsUpTo(g, m)
      BY <3>3, <3>4, Zenon
    <3> QED BY <2>1, <3>5, Zenon
  <2> QED BY <2>2, <2>3
<1> DEFINE upTo == CHOOSE u : IsUpTo(u, Len(w))
<1>2. IsUpTo(upTo, Len(w))
  BY <1>1, Zenon
<1>3. Total(w) = upTo[Len(w)]
  BY DEF Total
<1> HIDE DEF upTo, Without
<1>4. IsSums(upTo, w, Len(w))
  BY <1>2 DEF IsSums
<1> QED BY <1>3, <1>4

\* The sums are numbers.
LEMMA SumsAreNat ==
  ASSUME NEW n \in Nat, NEW u, NEW w, IsSums(u, w, n), \A k \in 1 .. n : w[k] \in Nat
  PROVE  \A k \in 0 .. n : u[k] \in Nat
<1> DEFINE Not == {k \in 0 .. n : u[k] \notin Nat}
<1> SUFFICES ASSUME Not # {} PROVE FALSE
  OBVIOUS
<1>1. PICK k \in Not : \A j \in Not : k <= j
  <2>1. Not \in SUBSET Nat
    OBVIOUS
  <2> HIDE DEF Not
  <2> QED BY <2>1, LeastMember, Zenon
<1>2. k \in 1 .. n /\ k - 1 \in 0 .. n /\ k - 1 \notin Not
  BY <1>1 DEF IsSums
<1>3. u[k - 1] \in Nat /\ u[k] = u[k - 1] + w[k] /\ w[k] \in Nat
  BY <1>2 DEF IsSums
<1> QED BY <1>1, <1>3

\* A sum of natural numbers is one.
LEMMA TotalNat == ASSUME NEW w \in Seq(Nat) PROVE Total(w) \in Nat
<1>1. PICK u : IsSums(u, w, Len(w)) /\ Total(w) = u[Len(w)]
  BY TotalIs
<1>2. \A k \in 1 .. Len(w) : w[k] \in Nat
  OBVIOUS
<1>3. \A k \in 0 .. Len(w) : u[k] \in Nat
  BY <1>1, <1>2, SumsAreNat
<1> QED BY <1>1, <1>3

\* A number more.
LEMMA TotalInsert ==
  ASSUME NEW w \in Seq(Nat), NEW v \in Seq(Nat), NEW i \in 1 .. Len(w) + 1, NEW x \in Nat,
         IsInserted(v, w, i, x)
  PROVE  Total(v) = Total(w) + x
<1> DEFINE n == Len(w)
<1>1. n \in Nat /\ Len(v) = n + 1 /\ Len(v) \in Nat
  BY DEF IsInserted
<1>2. PICK u : IsSums(u, w, n) /\ Total(w) = u[n]
  BY TotalIs
<1>3. PICK t : IsSums(t, v, n + 1) /\ Total(v) = t[n + 1]
  BY <1>1, TotalIs, Zenon
<1>4. (\A k \in 0 .. n : u[k] \in Nat) /\ (\A k \in 0 .. n + 1 : t[k] \in Nat)
  <2>1. (\A k \in 1 .. n : w[k] \in Nat) /\ (\A k \in 1 .. Len(v) : v[k] \in Nat)
    BY SMTT(30)
  <2> QED BY <1>1, <1>2, <1>3, <2>1, SumsAreNat, Zenon
<1> DEFINE Right(k) == t[k] = IF k < i THEN u[k] ELSE u[k - 1] + x
           Wrong == {k \in 0 .. n + 1 : ~Right(k)}
<1>5. Wrong = {}
  <2> SUFFICES ASSUME Wrong # {} PROVE FALSE
    OBVIOUS
  <2>1. PICK k \in Wrong : \A j \in Wrong : k <= j
    <3>1. Wrong \in SUBSET Nat
      BY <1>1
    <3> HIDE DEF Wrong
    <3> QED BY <3>1, LeastMember, Zenon
  <2>2. k # 0
    BY <1>2, <1>3, <2>1 DEF IsSums
  <2>3. k \in 1 .. n + 1 /\ k - 1 \in 0 .. n + 1 /\ Right(k - 1)
    <3>1. k \in 1 .. n + 1 /\ k - 1 \in 0 .. n + 1 /\ ~(k <= k - 1)
      BY <1>1, <2>1, <2>2
    <3> QED BY <2>1, <3>1
  <2>4. t[k] = t[k - 1] + v[k] /\ v[k] = IF k < i THEN w[k] ELSE IF k = i THEN x ELSE w[k - 1]
    BY <1>1, <1>3, <2>3, Zenon DEF IsSums, IsInserted
  <2>5. CASE k < i
    <3>1. k \in 1 .. n /\ k - 1 < i
      BY <1>1, <2>3, <2>5
    <3>2. u[k] = u[k - 1] + w[k]
      BY <1>2, <3>1 DEF IsSums
    <3> QED BY <2>1, <2>3, <2>4, <2>5, <3>1, <3>2
  <2>6. CASE k = i
    <3>1. k - 1 < i /\ ~(k < i)
      BY <1>1, <2>3, <2>6
    <3>2. t[k] = u[k - 1] + x
      <4>1. t[k - 1] = u[k - 1] /\ v[k] = x
        BY <2>3, <2>4, <2>6, <3>1
      <4> QED BY <2>4, <4>1
    <3> QED BY <2>1, <3>1, <3>2
  <2>7. CASE k > i
    <3>1. k - 1 \in 1 .. n /\ ~(k - 1 < i) /\ ~(k < i) /\ k # i /\ (k - 1) - 1 \in 0 .. n /\ k - 1 \in 0 .. n
      BY <1>1, <2>3, <2>7
    <3>2. u[k - 1] = u[(k - 1) - 1] + w[k - 1] /\ w[k - 1] \in Nat
      BY <1>2, <3>1, SMTT(30) DEF IsSums
    <3>3. t[k] = (u[(k - 1) - 1] + x) + w[k - 1]
      BY <2>3, <2>4, <3>1
    <3>4. t[k] = u[k - 1] + x
      <4>1. u[(k - 1) - 1] \in Nat
        BY <1>4, <3>1
      <4> QED BY <3>2, <3>3, <4>1, SMTT(30)
    <3> QED BY <2>1, <3>1, <3>4
  <2> QED BY <1>1, <2>3, <2>5, <2>6, <2>7
<1>6. Right(n + 1) /\ ~(n + 1 < i) /\ (n + 1) - 1 = n
  <2>1. n + 1 \in 0 .. n + 1 /\ ~(n + 1 < i) /\ (n + 1) - 1 = n
    BY <1>1
  <2> QED BY <1>5, <2>1, Zenon
<1> QED BY <1>2, <1>3, <1>6

-----------------------------------------------------------------------------
(* Counting pbufs. *)

\* A fragment has at least one pbuf.
LEMMA ClenNat == ASSUME NEW f \in Fragments PROVE Clen(f) \in Nat /\ Clen(f) > 0
BY ConstantFacts DEF Fragments, Clen

\* A fragment that comes in has pbufs as well.
LEMMA IncomingClen == ASSUME NEW f \in Incoming PROVE Clen(f) \in Nat /\ Clen(f) > 0
<1>1. CASE f \in Fragments
  BY <1>1, ClenNat
<1>2. CASE f \in Overlong
  BY <1>2, ConstantFacts DEF Overlong, Clen
<1> QED BY <1>1, <1>2 DEF Incoming

\* An entry and a fragment more.
LEMMA PbufsNat == ASSUME NEW e, e.frags \in Seq(Fragments) PROVE Pbufs(e) \in Nat
<1> DEFINE w == [k \in 1 .. Len(e.frags) |-> Clen(e.frags[k])]
<1>1. \A k \in 1 .. Len(e.frags) : Clen(e.frags[k]) \in Nat
  <2>1. \A k \in 1 .. Len(e.frags) : e.frags[k] \in Fragments
    OBVIOUS
  <2> QED BY <2>1, ClenNat
<1>2. w \in Seq(Nat)
  BY <1>1
<1> HIDE DEF w
<1>3. Total(w) \in Nat
  BY <1>2, TotalNat
<1> QED BY <1>3 DEF Pbufs, w

\* A new entry has no pbufs.
LEMMA PbufsEmpty == ASSUME NEW e, e.frags = <<>> PROVE Pbufs(e) = 0
<1> DEFINE w == [k \in 1 .. Len(e.frags) |-> Clen(e.frags[k])]
<1>1. Len(w) = 0
  OBVIOUS
<1> HIDE DEF w
<1>2. PICK u : IsSums(u, w, Len(w)) /\ Total(w) = u[Len(w)]
  BY <1>1, TotalIs
<1>3. Total(w) = 0
  BY <1>1, <1>2 DEF IsSums
<1> QED BY <1>3 DEF Pbufs, w

\* One more fragment, so many more pbufs.
LEMMA PbufsInsert ==
  ASSUME NEW d, NEW e, d.frags \in Seq(Fragments), e.frags \in Seq(Fragments),
         NEW i \in 1 .. Len(d.frags) + 1, NEW f \in Fragments, IsInserted(e.frags, d.frags, i, f)
  PROVE  Pbufs(e) = Pbufs(d) + Clen(f)
<1> DEFINE w == [k \in 1 .. Len(d.frags) |-> Clen(d.frags[k])]
           v == [k \in 1 .. Len(e.frags) |-> Clen(e.frags[k])]
<1>1. /\ Len(d.frags) \in Nat /\ Len(e.frags) = Len(d.frags) + 1 /\ Len(e.frags) \in Nat
      /\ \A k \in 1 .. Len(d.frags) : Clen(d.frags[k]) \in Nat
      /\ \A k \in 1 .. Len(e.frags) : Clen(e.frags[k]) \in Nat
  <2>1. /\ \A k \in 1 .. Len(d.frags) : d.frags[k] \in Fragments
        /\ \A k \in 1 .. Len(e.frags) : e.frags[k] \in Fragments
    OBVIOUS
  <2>2. Len(d.frags) \in Nat /\ Len(e.frags) \in Nat
    OBVIOUS
  <2>3. Len(e.frags) = Len(d.frags) + 1
    BY DEF IsInserted
  <2> HIDE DEF IsInserted
  <2> QED BY <2>1, <2>2, <2>3, ClenNat, Zenon
<1>2. w \in Seq(Nat) /\ v \in Seq(Nat) /\ Len(w) = Len(d.frags) /\ Len(v) = Len(e.frags)
  BY <1>1
<1>3. IsInserted(v, w, i, Clen(f))
  <2> SUFFICES ASSUME NEW k \in 1 .. Len(v)
               PROVE  v[k] = IF k < i THEN w[k] ELSE IF k = i THEN Clen(f) ELSE w[k - 1]
    BY <1>1, <1>2 DEF IsInserted
  <2>1. e.frags[k] = IF k < i THEN d.frags[k] ELSE IF k = i THEN f ELSE d.frags[k - 1]
    BY <1>2 DEF IsInserted
  <2>2. v[k] = Clen(e.frags[k])
    BY <1>2
  <2>3. k < i => k \in 1 .. Len(d.frags)
    BY <1>1, <1>2
  <2>4. ~(k < i) /\ k # i => k - 1 \in 1 .. Len(d.frags)
    BY <1>1, <1>2
  <2> QED BY <2>1, <2>2, <2>3, <2>4
<1>4. Clen(f) \in Nat
  BY ClenNat
<1> HIDE DEF w, v
<1>5. Total(v) = Total(w) + Clen(f)
  BY <1>2, <1>3, <1>4, TotalInsert
<1> QED BY <1>5 DEF Pbufs, w, v

\* A list and an entry more, or another entry in its place.
LEMMA EntryFrags ==
  ASSUME NEW l \in Seq(Entries)
  PROVE  /\ Len(l) \in Nat /\ DOMAIN l = 1 .. Len(l)
         /\ \A k \in 1 .. Len(l) : l[k] \in Entries /\ l[k].frags \in Seq(Fragments) /\ Pbufs(l[k]) \in Nat
<1>1. \A k \in 1 .. Len(l) : l[k] \in Entries
  OBVIOUS
<1>2. \A e \in Entries : e.frags \in Seq(Fragments)
  BY DEF Entries
<1> QED BY <1>1, <1>2, PbufsNat

\* The number of all pbufs is a natural number.
LEMMA AllPbufsNat == ASSUME NEW l \in Seq(Entries) PROVE AllPbufs(l) \in Nat
<1> DEFINE w == [k \in 1 .. Len(l) |-> Pbufs(l[k])]
<1>1. w \in Seq(Nat)
  BY EntryFrags
<1> QED BY <1>1, TotalNat DEF AllPbufs

\* One more entry, so many more pbufs.
LEMMA AllPbufsInsert ==
  ASSUME NEW l \in Seq(Entries), NEW m \in Seq(Entries), NEW i \in 1 .. Len(l) + 1, NEW e \in Entries,
         IsInserted(m, l, i, e)
  PROVE  AllPbufs(m) = AllPbufs(l) + Pbufs(e)
<1> DEFINE w == [k \in 1 .. Len(l) |-> Pbufs(l[k])]
           v == [k \in 1 .. Len(m) |-> Pbufs(m[k])]
<1>1. /\ Len(l) \in Nat /\ Len(m) = Len(l) + 1 /\ Len(m) \in Nat
      /\ \A k \in 1 .. Len(l) : Pbufs(l[k]) \in Nat
      /\ \A k \in 1 .. Len(m) : Pbufs(m[k]) \in Nat
  BY EntryFrags, Zenon DEF IsInserted
<1>2. w \in Seq(Nat) /\ v \in Seq(Nat) /\ Len(w) = Len(l) /\ Len(v) = Len(m)
  BY <1>1
<1>3. IsInserted(v, w, i, Pbufs(e))
  <2> SUFFICES ASSUME NEW k \in 1 .. Len(v)
               PROVE  v[k] = IF k < i THEN w[k] ELSE IF k = i THEN Pbufs(e) ELSE w[k - 1]
    BY <1>1, <1>2, Zenon DEF IsInserted
  <2>1. m[k] = IF k < i THEN l[k] ELSE IF k = i THEN e ELSE l[k - 1]
    BY <1>2 DEF IsInserted
  <2>2. v[k] = Pbufs(m[k])
    BY <1>2
  <2>3. k < i => k \in 1 .. Len(l)
    BY <1>1, <1>2
  <2>4. ~(k < i) /\ k # i => k - 1 \in 1 .. Len(l)
    BY <1>1, <1>2
  <2> QED BY <2>1, <2>2, <2>3, <2>4
<1>4. Pbufs(e) \in Nat
  <2>1. e.frags \in Seq(Fragments)
    BY DEF Entries
  <2> QED BY <2>1, PbufsNat
<1> HIDE DEF w, v
<1>5. Total(v) = Total(w) + Pbufs(e)
  BY <1>2, <1>3, <1>4, TotalInsert, Zenon
<1> QED BY <1>5 DEF AllPbufs, w, v

\* Another entry in place of the k-th.
LEMMA AllPbufsReplace ==
  ASSUME NEW l \in Seq(Entries), NEW i \in 1 .. Len(l), NEW e \in Entries
  PROVE  /\ [l EXCEPT ![i] = e] \in Seq(Entries) /\ Len([l EXCEPT ![i] = e]) = Len(l)
         /\ AllPbufs([l EXCEPT ![i] = e]) = AllPbufs(l) - Pbufs(l[i]) + Pbufs(e)
<1> DEFINE m == [l EXCEPT ![i] = e]
           r == RemoveAt(l, i)
<1>1. Len(l) \in Nat /\ m \in Seq(Entries) /\ Len(m) = Len(l) /\ \A k \in 1 .. Len(l) : m[k] = IF k = i THEN e ELSE l[k]
  OBVIOUS
<1>2. r \in Seq(Entries) /\ IsInserted(l, r, i, l[i])
  BY RemoveAtIs
<1> HIDE DEF m, r
<1>3. Len(r) = Len(l) - 1 /\ i \in 1 .. Len(r) + 1 /\ Len(r) \in Nat
  BY <1>1, <1>2 DEF IsInserted
<1>4. IsInserted(m, r, i, e)
  BY <1>1, <1>2 DEF IsInserted
<1>5. l[i] \in Entries /\ Pbufs(l[i]) \in Nat /\ Pbufs(e) \in Nat
  <2>1. e.frags \in Seq(Fragments)
    BY DEF Entries
  <2> QED BY <2>1, EntryFrags, PbufsNat
<1>6. AllPbufs(l) = AllPbufs(r) + Pbufs(l[i])
  BY <1>2, <1>3, <1>5, AllPbufsInsert
<1>7. AllPbufs(m) = AllPbufs(r) + Pbufs(e)
  BY <1>1, <1>2, <1>3, <1>4, AllPbufsInsert
<1>8. AllPbufs(r) \in Nat
  BY <1>2, AllPbufsNat
<1>9. AllPbufs(m) = AllPbufs(l) - Pbufs(l[i]) + Pbufs(e)
  BY <1>5, <1>6, <1>7, <1>8
<1> QED BY <1>1, <1>9 DEF m
-----------------------------------------------------------------------------
(* Freeing entries. *)

\* ip_reass_free_complete_datagram.
LEMMA FreeIs ==
  ASSUME NEW s, StateOk(s), NEW k \in 1 .. Len(s.list)
  PROVE  LET t == Free(s, k) IN
         /\ StateOk(t) /\ t.count <= s.count /\ Len(t.list) = Len(s.list) - 1
         /\ IsInserted(s.list, t.list, k, s.list[k])
         /\ NoneEmpty(s.list) => NoneEmpty(t.list)
<1> DEFINE l == s.list
           r == RemoveAt(s.list, k)
<1>1. l \in Seq(Entries) /\ s.count = AllPbufs(l)
  BY DEF StateOk, ListOk
<1>2. r \in Seq(Entries) /\ IsInserted(l, r, k, l[k])
  BY <1>1, RemoveAtIs
<1>3. Free(s, k).list = r /\ Free(s, k).count = s.count - Pbufs(l[k])
  BY DEF Free
<1>4. \A j \in 1 .. Len(l) : EntryOk(l[j]) /\ \A i \in 1 .. Len(l) : l[i].id = l[j].id => i = j
  BY DEF StateOk, ListOk
<1>5. NoneEmpty(s.list) => \A j \in 1 .. Len(l) : l[j].frags # <<>>
  BY DEF NoneEmpty
<1> HIDE DEF l, r
<1>6. Len(r) = Len(l) - 1 /\ k \in 1 .. Len(r) + 1 /\ Len(r) \in Nat /\ Len(l) \in Nat /\ k \in 1 .. Len(l)
  BY <1>1, <1>2 DEF IsInserted, l
<1>7. Pbufs(l[k]) \in Nat /\ l[k] \in Entries
  BY <1>1, <1>6, EntryFrags
<1>8. AllPbufs(l) = AllPbufs(r) + Pbufs(l[k]) /\ AllPbufs(r) \in Nat
  BY <1>1, <1>2, <1>6, <1>7, AllPbufsInsert, AllPbufsNat
<1>9. s.count - Pbufs(l[k]) = AllPbufs(r) /\ AllPbufs(r) <= s.count
  BY <1>1, <1>7, <1>8
<1>10. ASSUME NEW j \in 1 .. Len(r)
       PROVE  r[j] = (IF j < k THEN l[j] ELSE l[j + 1]) /\ j \in 1 .. Len(l) /\ j + 1 \in 1 .. Len(l)
  <2>1. j \in 1 .. Len(l) /\ j + 1 \in 1 .. Len(l) /\ (j + 1) - 1 = j
    BY <1>6
  <2>2. /\ l[j] = IF j < k THEN r[j] ELSE IF j = k THEN l[k] ELSE r[j - 1]
        /\ l[j + 1] = IF j + 1 < k THEN r[j + 1] ELSE IF j + 1 = k THEN l[k] ELSE r[(j + 1) - 1]
    BY <1>2, <2>1 DEF IsInserted
  <2>3. CASE j < k
    BY <2>1, <2>2, <2>3
  <2>4. CASE ~(j < k)
    <3>1. ~(j + 1 < k) /\ j + 1 # k
      BY <1>6, <2>4
    <3> QED BY <2>1, <2>2, <2>4, <3>1
  <2> QED BY <2>3, <2>4
<1>11. ListOk(r)
  <2>1. \A j \in 1 .. Len(r) : EntryOk(r[j])
    BY <1>4, <1>10
  <2>2. ASSUME NEW i \in 1 .. Len(r), NEW j \in 1 .. Len(r), r[i].id = r[j].id PROVE i = j
    <3> DEFINE a == IF i < k THEN i ELSE i + 1
               b == IF j < k THEN j ELSE j + 1
    <3>1. r[i] = l[a] /\ r[j] = l[b] /\ a \in 1 .. Len(l) /\ b \in 1 .. Len(l)
      BY <1>10
    <3>2. a = b
      BY <1>4, <2>2, <3>1
    <3> QED BY <1>6, <3>2
  <2> QED BY <1>2, <2>1, <2>2 DEF ListOk
<1>12. NoneEmpty(s.list) => NoneEmpty(r)
  BY <1>5, <1>10 DEF NoneEmpty
<1>13. Free(s, k) = [list |-> Free(s, k).list, count |-> Free(s, k).count]
  BY DEF Free
<1> QED BY <1>2, <1>3, <1>6, <1>9, <1>11, <1>12, <1>13 DEF StateOk, l

\* There is an oldest datagram among the others.
LEMMA OldestIs ==
  ASSUME NEW l \in Seq(Entries), NEW id, Others(l, id) # {}
  PROVE  /\ Oldest(l, id) \in Others(l, id)
         /\ \A j \in Others(l, id) : l[Oldest(l, id)].timer <= l[j].timer
<1> DEFINE O == Others(l, id)
           T == {l[k].timer : k \in O}
<1>1. Len(l) \in Nat /\ O \subseteq 1 .. Len(l) /\ \A k \in O : l[k].timer \in Nat
  <2>1. \A e \in Entries : e.timer \in Nat
    BY ConstantFacts DEF Entries
  <2> QED BY <2>1, EntryFrags DEF Others
<1>2. T \in SUBSET Nat /\ T # {}
  BY <1>1
<1>3. PICK m \in T : \A y \in T : m <= y
  <2> HIDE DEF T
  <2> QED BY <1>2, LeastMember, Zenon
<1> DEFINE D == {d \in Nat : \E k \in O : l[k].timer = m /\ d = Len(l) - k}
<1>4. D \in SUBSET Nat /\ D # {}
  <2>1. PICK k \in O : l[k].timer = m
    BY <1>3
  <2>2. Len(l) - k \in Nat
    BY <1>1
  <2> QED BY <2>1, <2>2
<1>5. PICK d \in D : \A y \in D : d <= y
  <2> HIDE DEF D
  <2> QED BY <1>4, LeastMember, Zenon
<1>6. PICK k \in O : l[k].timer = m /\ d = Len(l) - k
  BY <1>5
<1>7. ASSUME NEW j \in O \ {k}
      PROVE  l[k].timer < l[j].timer \/ (l[k].timer = l[j].timer /\ j < k)
  <2>1. m <= l[j].timer /\ m \in Nat /\ l[j].timer \in Nat /\ j \in 1 .. Len(l) /\ k \in 1 .. Len(l) /\ j # k
    BY <1>1, <1>2, <1>3, Zenon
  <2>2. CASE l[j].timer = m
    <3>1. Len(l) - j \in D
      <4>1. Len(l) - j \in Nat /\ j \in O
        BY <1>1, <2>1
      <4> QED BY <2>2, <4>1
    <3>2. Len(l) - k <= Len(l) - j
      BY <1>5, <1>6, <3>1
    <3> QED BY <1>1, <1>6, <2>1, <2>2, <3>2
  <2>3. CASE l[j].timer # m
    BY <1>6, <2>1, <2>3, SMTT(30)
  <2> QED BY <2>2, <2>3
<1>8. \E q \in O : \A j \in O \ {q} :
        l[q].timer < l[j].timer \/ (l[q].timer = l[j].timer /\ j < q)
  BY <1>7
<1> DEFINE o == Oldest(l, id)
<1>9. o \in O /\ \A j \in O \ {o} : l[o].timer < l[j].timer \/ (l[o].timer = l[j].timer /\ j < o)
  BY <1>8 DEF Oldest
<1> HIDE DEF o, O
<1>10. ASSUME NEW j \in O PROVE l[o].timer <= l[j].timer
  <2>1. l[o].timer \in Nat /\ l[j].timer \in Nat
    BY <1>1, <1>9, Zenon
  <2>2. l[o].timer < l[j].timer \/ l[o].timer = l[j].timer
    BY <1>9, Zenon
  <2> QED BY ONLY <2>1, <2>2
<1> QED BY <1>9, <1>10 DEF o, O

\* Entry e is in list l.
In(e, l) == \E q \in 1 .. Len(l) : l[q] = e

\* From list l to list m: the entries of datagrams other than id are still there;
\* none has come; those that have gone are no younger than any that is there.
OthersStay(l, m, id) == \A k \in 1 .. Len(l) : l[k].id # id => In(l[k], m)
OthersFrom(l, m, id) == \A j \in 1 .. Len(m) : m[j].id # id => In(m[j], l)
NoYounger(e, m, id) == \A j \in 1 .. Len(m) : m[j].id # id => e.timer <= m[j].timer
OldestGo(l, m, id) ==
  \A k \in 1 .. Len(l) : l[k].id # id => In(l[k], m) \/ NoYounger(l[k], m, id)

\* These hold over several steps.
LEMMA OthersCompose ==
  ASSUME NEW l, NEW m, NEW n, NEW id
  PROVE  /\ OthersStay(l, m, id) /\ OthersStay(m, n, id) => OthersStay(l, n, id)
         /\ OthersFrom(l, m, id) /\ OthersFrom(m, n, id) => OthersFrom(l, n, id)
         /\ OldestGo(l, m, id) /\ OldestGo(m, n, id) /\ OthersFrom(m, n, id) => OldestGo(l, n, id)
         /\ OthersStay(m, n, id) => OldestGo(m, n, id)
<1>1. OthersStay(l, m, id) /\ OthersStay(m, n, id) => OthersStay(l, n, id)
  BY Zenon DEF OthersStay, In
<1>2. OthersFrom(l, m, id) /\ OthersFrom(m, n, id) => OthersFrom(l, n, id)
  BY Zenon DEF OthersFrom, In
<1>3. ASSUME OldestGo(l, m, id), OldestGo(m, n, id), OthersFrom(m, n, id) PROVE OldestGo(l, n, id)
  <2> SUFFICES ASSUME NEW k \in 1 .. Len(l), l[k].id # id PROVE In(l[k], n) \/ NoYounger(l[k], n, id)
    BY Zenon DEF OldestGo
  <2>1. CASE In(l[k], m)
    BY <1>3, <2>1, Zenon DEF OldestGo, In
  <2>2. CASE NoYounger(l[k], m, id)
    BY <1>3, <2>2, Zenon DEF OthersFrom, In, NoYounger
  <2> QED BY <1>3, <2>1, <2>2, Zenon DEF OldestGo
<1>4. OthersStay(m, n, id) => OldestGo(m, n, id)
  BY Zenon DEF OthersStay, OldestGo
<1> QED BY <1>1, <1>2, <1>3, <1>4, Zenon

\* Nothing happens to the list.
LEMMA OthersSame == ASSUME NEW l, NEW id PROVE OthersStay(l, l, id) /\ OthersFrom(l, l, id)
BY Zenon DEF OthersStay, OthersFrom, In

\* From s to t entries have gone, none of them of datagram id, the oldest first.
Kept(s, t, id) ==
  /\ StateOk(t) /\ t.count <= s.count /\ (NoneEmpty(s.list) => NoneEmpty(t.list))
  /\ (t.list = s.list /\ t.count = s.count) \/ Len(t.list) < Len(s.list)
  /\ \A k \in 1 .. Len(s.list) : s.list[k].id = id => \E j \in 1 .. Len(t.list) : t.list[j] = s.list[k]
  /\ \A j \in 1 .. Len(t.list) : \E k \in 1 .. Len(s.list) : t.list[j] = s.list[k]
  /\ OldestGo(s.list, t.list, id)

\* At first none has gone.
LEMMA KeptAll == ASSUME NEW s, NEW id, StateOk(s) PROVE Kept(s, s, id)
<1>1. s.count \in Nat
  BY AllPbufsNat DEF StateOk, ListOk
<1>2. s.count <= s.count
  BY <1>1
<1>3. OldestGo(s.list, s.list, id)
  BY OthersSame, OthersCompose, Zenon
<1> QED BY <1>2, <1>3, Zenon DEF Kept

\* Freeing the oldest entry of another datagram keeps this.
LEMMA KeptFree ==
  ASSUME NEW s, NEW t, NEW id, StateOk(s), Kept(s, t, id), NEW k \in 1 .. Len(t.list), t.list[k].id # id,
         NoYounger(t.list[k], t.list, id)
  PROVE  Kept(s, Free(t, k), id)
<1> DEFINE r == Free(t, k)
<1>1. StateOk(t)
  BY DEF Kept
<1>2. /\ StateOk(r) /\ r.count <= t.count /\ Len(r.list) = Len(t.list) - 1
      /\ IsInserted(t.list, r.list, k, t.list[k]) /\ (NoneEmpty(t.list) => NoneEmpty(r.list))
  BY <1>1, FreeIs
<1> HIDE DEF r
<1>3. Len(s.list) \in Nat /\ Len(t.list) \in Nat /\ Len(r.list) \in Nat
  BY <1>1, <1>2, EntryFrags DEF StateOk, ListOk
<1>4. s.count \in Nat /\ t.count \in Nat /\ r.count \in Nat
  BY <1>1, <1>2, AllPbufsNat DEF StateOk, ListOk
<1>5. r.count <= s.count /\ Len(r.list) < Len(s.list) /\ (NoneEmpty(s.list) => NoneEmpty(r.list))
  BY <1>2, <1>3, <1>4, SMTT(30) DEF Kept
<1>6. ASSUME NEW j \in 1 .. Len(t.list), j # k PROVE \E i \in 1 .. Len(r.list) : r.list[i] = t.list[j]
  <2>1. t.list[j] = IF j < k THEN r.list[j] ELSE r.list[j - 1]
    BY <1>2, <1>6 DEF IsInserted
  <2>2. j < k => j \in 1 .. Len(r.list)
    BY <1>2, <1>3
  <2>3. ~(j < k) => j - 1 \in 1 .. Len(r.list)
    BY <1>2, <1>3, <1>6
  <2> QED BY <2>1, <2>2, <2>3
<1>7. ASSUME NEW i \in 1 .. Len(r.list) PROVE \E j \in 1 .. Len(t.list) : r.list[i] = t.list[j]
  <2>1. i \in 1 .. Len(t.list) /\ i + 1 \in 1 .. Len(t.list) /\ (i + 1) - 1 = i
    BY <1>2, <1>3
  <2>2. i < k => t.list[i] = r.list[i]
    BY <1>2, <2>1 DEF IsInserted
  <2>3. ~(i < k) => ~(i + 1 < k) /\ i + 1 # k
    BY <2>1
  <2>4. ~(i < k) => t.list[i + 1] = r.list[i]
    BY <1>2, <2>1, <2>3 DEF IsInserted
  <2> QED BY <2>1, <2>2, <2>4
<1>8. \A q \in 1 .. Len(s.list) : s.list[q].id = id => \E i \in 1 .. Len(r.list) : r.list[i] = s.list[q]
  <2>1. \A q \in 1 .. Len(s.list) : s.list[q].id = id => \E j \in 1 .. Len(t.list) : t.list[j] = s.list[q]
    BY Zenon DEF Kept
  <2> QED BY <1>6, <2>1, Zenon
<1>9. \A i \in 1 .. Len(r.list) : \E q \in 1 .. Len(s.list) : r.list[i] = s.list[q]
  <2>1. \A j \in 1 .. Len(t.list) : \E q \in 1 .. Len(s.list) : t.list[j] = s.list[q]
    BY Zenon DEF Kept
  <2> SUFFICES ASSUME NEW i \in 1 .. Len(r.list) PROVE \E q \in 1 .. Len(s.list) : r.list[i] = s.list[q]
    BY Zenon
  <2>2. PICK j \in 1 .. Len(t.list) : r.list[i] = t.list[j]
    BY <1>7, Zenon
  <2> QED BY <2>1, <2>2, Zenon
<1>10. OthersFrom(t.list, r.list, id)
  BY <1>7, Zenon DEF OthersFrom, In
<1>11. NoYounger(t.list[k], r.list, id)
  BY <1>7, Zenon DEF NoYounger
<1>12. OldestGo(t.list, r.list, id)
  BY <1>6, <1>11, Zenon DEF OldestGo, In
<1>13. OldestGo(s.list, t.list, id)
  BY Zenon DEF Kept
<1>14. OldestGo(s.list, r.list, id)
  BY <1>10, <1>12, <1>13, OthersCompose, Zenon
<1>15. Kept(s, r, id)
  BY <1>2, <1>5, <1>8, <1>9, <1>14, Zenon DEF Kept
<1> QED BY <1>15 DEF r

\* ip_reass_remove_oldest_datagram.
LEMMA RemoveOldestKeeps ==
  ASSUME NEW s, StateOk(s), NEW id, NEW needed
  PROVE  Kept(s, RemoveOldest(s, id, needed), id)
<1> DEFINE Round(t) == IF Others(t.list, id) = {} \/ s.count - t.count >= needed THEN t
                       ELSE Free(t, Oldest(t.list, id))
           IsAfter(g, m) == g = [n \in 0 .. m |-> IF n = 0 THEN s ELSE Round(g[n - 1])]
           Without == {m \in Nat : ~\E g : IsAfter(g, m)}
<1>1. \A m \in Nat : \E g : IsAfter(g, m)
  <2> HIDE DEF Round
  <2> SUFFICES ASSUME Without # {} PROVE FALSE
    BY Zenon
  <2>1. PICK m \in Without : \A j \in Without : m <= j
    BY LeastMember, Zenon
  <2>2. CASE m = 0
    <3> DEFINE g == [n \in 0 .. m |-> s]
    <3>1. g = [n \in 0 .. m |-> IF n = 0 THEN s ELSE Round(g[n - 1])]
      BY <2>2
    <3> QED BY <2>1, <3>1
  <2>3. CASE m # 0
    <3>1. m - 1 \in Nat /\ m - 1 \notin Without
      <4>1. m - 1 \in Nat /\ ~(m <= m - 1)
        BY <2>3
      <4> HIDE DEF Without
      <4> QED BY <2>1, <4>1
    <3>2. PICK f : IsAfter(f, m - 1)
      BY <3>1
    <3> DEFINE g == [n \in 0 .. m |-> IF n = m THEN Round(f[m - 1]) ELSE f[n]]
    <3>3. \A n \in 0 .. m : g[n] = IF n = 0 THEN s ELSE Round(g[n - 1])
      BY <2>3, <3>1, <3>2
    <3>4. g = [n \in 0 .. m |-> g[n]]
      OBVIOUS
    <3> HIDE DEF g
    <3>5. IsAfter(g, m)
      BY <3>3, <3>4, Zenon
    <3> QED BY <2>1, <3>5
  <2> QED BY <2>2, <2>3
<1>2. Len(s.list) \in Nat
  BY EntryFrags DEF StateOk, ListOk
<1> DEFINE after == CHOOSE g : IsAfter(g, Len(s.list))
<1>3. IsAfter(after, Len(s.list))
  BY <1>1, <1>2, Zenon
<1>4. RemoveOldest(s, id, needed) = after[Len(s.list)]
  BY DEF RemoveOldest
<1> HIDE DEF after, Without, Round
<1>5. after[0] = s /\ \A n \in 1 .. Len(s.list) : after[n] = Round(after[n - 1])
  BY <1>2, <1>3, SMTT(30)
<1>6. ASSUME NEW t, Kept(s, t, id) PROVE Kept(s, Round(t), id)
  <2>1. CASE Round(t) = t
    BY <1>6, <2>1
  <2>2. CASE Others(t.list, id) # {} /\ Round(t) = Free(t, Oldest(t.list, id))
    <3>1. t.list \in Seq(Entries)
      BY <1>6 DEF Kept, StateOk, ListOk
    <3> DEFINE k == Oldest(t.list, id)
    <3>2. k \in Others(t.list, id) /\ \A j \in Others(t.list, id) : t.list[k].timer <= t.list[j].timer
      BY <2>2, <3>1, OldestIs
    <3> HIDE DEF k
    <3>3. Others(t.list, id) = {j \in 1 .. Len(t.list) : t.list[j].id # id}
      BY <3>1, SeqLen DEF Others
    <3>4. k \in 1 .. Len(t.list) /\ t.list[k].id # id /\ NoYounger(t.list[k], t.list, id)
      BY <3>2, <3>3, Zenon DEF NoYounger
    <3>5. Kept(s, Free(t, k), id)
      BY <1>6, <3>4, KeptFree, Zenon
    <3> QED BY <2>2, <3>5 DEF k
  <2> QED BY <2>1, <2>2 DEF Round
<1> DEFINE Lost == {n \in 0 .. Len(s.list) : ~Kept(s, after[n], id)}
<1>7. Lost = {}
  <2> SUFFICES ASSUME Lost # {} PROVE FALSE
    OBVIOUS
  <2>1. PICK n \in Lost : \A j \in Lost : n <= j
    <3>1. Lost \in SUBSET Nat
      BY <1>2
    <3> HIDE DEF Lost
    <3> QED BY <3>1, LeastMember, Zenon
  <2>2. n # 0
    <3>1. Kept(s, s, id)
      BY KeptAll
    <3> QED BY <1>5, <2>1, <3>1
  <2>3. n \in 1 .. Len(s.list) /\ n - 1 \in 0 .. Len(s.list) /\ ~(n <= n - 1)
    BY <1>2, <2>1, <2>2
  <2>4. Kept(s, after[n - 1], id)
    BY <2>1, <2>3
  <2>5. Kept(s, after[n], id)
    BY <1>5, <1>6, <2>3, <2>4
  <2> QED BY <2>1, <2>5
<1>8. Len(s.list) \in 0 .. Len(s.list)
  BY <1>2
<1> QED BY <1>4, <1>7, <1>8

\* Another entry for the same datagram.
LEMMA ReplaceOk ==
  ASSUME NEW s, StateOk(s), NEW k \in 1 .. Len(s.list), NEW e, EntryOk(e), e.id = s.list[k].id,
         NEW c, c = s.count - Pbufs(s.list[k]) + Pbufs(e)
  PROVE  LET m == [s.list EXCEPT ![k] = e] IN
         /\ StateOk([list |-> m, count |-> c]) /\ Len(m) = Len(s.list)
         /\ \A j \in 1 .. Len(m) : m[j] = IF j = k THEN e ELSE s.list[j]
<1> DEFINE m == [s.list EXCEPT ![k] = e]
<1>1. ListOk(s.list) /\ s.list \in Seq(Entries) /\ e \in Entries /\ s.count = AllPbufs(s.list)
  BY DEF StateOk, ListOk, EntryOk
<1>2. m \in Seq(Entries) /\ Len(m) = Len(s.list) /\ AllPbufs(m) = AllPbufs(s.list) - Pbufs(s.list[k]) + Pbufs(e)
  BY <1>1, AllPbufsReplace
<1>3. \A j \in 1 .. Len(s.list) : m[j] = IF j = k THEN e ELSE s.list[j]
  BY <1>1
<1> HIDE DEF m
<1>4. ListOk(m)
  BY <1>1, <1>2, <1>3, Zenon DEF ListOk
<1>5. StateOk([list |-> m, count |-> c])
  BY <1>1, <1>2, <1>4 DEF StateOk
<1> QED BY <1>2, <1>3, <1>5, Zenon DEF m

\* Entry e is d a second later.
SecondOlder(e, d) == e.id = d.id /\ d.timer = e.timer + 1

\* A turn of ip_reass_tmr.
LEMMA AgeOk ==
  ASSUME NEW s, StateOk(s), NEW k \in 1 .. Len(s.list)
  PROVE  LET t == AgeOrFree(s, k) IN
         /\ StateOk(t) /\ t.count <= s.count
         /\ Len(t.list) <= Len(s.list) /\ Len(s.list) - Len(t.list) <= 1
         /\ NoneEmpty(s.list) => NoneEmpty(t.list)
         /\ \/ IsInserted(s.list, t.list, k, s.list[k])
            \/ /\ Len(t.list) = Len(s.list) /\ SecondOlder(t.list[k], s.list[k])
               /\ \A j \in 1 .. Len(s.list) : j # k => t.list[j] = s.list[j]
<1>1. Len(s.list) \in Nat /\ s.list[k] \in Entries /\ EntryOk(s.list[k]) /\ s.list \in Seq(Entries)
  BY EntryFrags DEF StateOk, ListOk
<1>2. CASE Expired(s.list[k])
  <2>1. AgeOrFree(s, k) = Free(s, k)
    BY <1>2 DEF AgeOrFree
  <2> QED BY <1>1, <2>1, FreeIs
<1>3. CASE ~Expired(s.list[k])
  <2> DEFINE d == s.list[k]
             e == [d EXCEPT !.timer = IF d.timer > 0 THEN d.timer - 1 ELSE 0]
             m == [s.list EXCEPT ![k] = e]
  <2>1. e \in Entries /\ e.frags = d.frags /\ e.last = d.last /\ e.hdr = d.hdr /\ SecondOlder(e, d)
    <3> DEFINE tm == IF d.timer > 0 THEN d.timer - 1 ELSE 0
    <3>1. d.timer \in 0 .. MaxAge
      BY <1>1, Zenon DEF Entries
    <3>2. tm \in 0 .. MaxAge /\ d.timer = tm + 1
      BY <1>3, <3>1, ConstantFacts, SMTT(30) DEF Expired
    <3>3. e = [d EXCEPT !.timer = tm]
      OBVIOUS
    <3> HIDE DEF tm, e
    <3>4. e \in Entries /\ e.frags = d.frags /\ e.last = d.last /\ e.hdr = d.hdr
          /\ e.id = d.id /\ e.timer = tm
      BY <1>1, <3>2, <3>3, Zenon DEF Entries
    <3> QED BY <3>2, <3>4 DEF SecondOlder
  <2>2. AgeOrFree(s, k) = [list |-> m, count |-> s.count]
    BY <1>1, <1>3, Zenon DEF AgeOrFree, StateOk
  <2> HIDE DEF e
  <2>3. EntryOk(e) /\ Pbufs(e) = Pbufs(d) /\ Pbufs(d) \in Nat
    BY <1>1, <2>1, EntryFrags DEF EntryOk, Pbufs
  <2>4. s.count \in Nat /\ s.count = s.count - Pbufs(s.list[k]) + Pbufs(e)
    BY <1>1, <2>3, AllPbufsNat DEF StateOk
  <2>5. /\ StateOk([list |-> m, count |-> s.count]) /\ Len(m) = Len(s.list)
        /\ \A j \in 1 .. Len(m) : m[j] = IF j = k THEN e ELSE s.list[j]
    BY <2>1, <2>3, <2>4, ReplaceOk DEF SecondOlder
  <2> HIDE DEF m
  <2>6. NoneEmpty(s.list) => NoneEmpty(m)
    BY <2>1, <2>5 DEF NoneEmpty
  <2>7. SecondOlder(m[k], s.list[k]) /\ \A j \in 1 .. Len(s.list) : j # k => m[j] = s.list[j]
    BY <2>1, <2>5
  <2> QED BY <1>1, <2>2, <2>4, <2>5, <2>6, <2>7
<1> QED BY <1>2, <1>3

\* Entry j of list m came from list l: as it was or, if it is one of the first n of
\* l, a second older.
Aging(l, m, n, j) ==
  LET gone == Len(l) - Len(m) IN
  IF j + gone <= n THEN \E q \in 1 .. Len(l) : SecondOlder(m[j], l[q]) ELSE m[j] = l[j + gone]

\* From s to t the first n entries have aged or gone.
Aged(s, t, n) ==
  /\ \A j \in 1 .. Len(t.list) : Aging(s.list, t.list, n, j)
  /\ StateOk(t) /\ t.count <= s.count /\ (NoneEmpty(s.list) => NoneEmpty(t.list))
  /\ Len(t.list) <= Len(s.list) /\ Len(s.list) - Len(t.list) <= n

\* ip_reass_tmr.
LEMMA FreeExpiredAges ==
  ASSUME NEW s, StateOk(s)
  PROVE  Aged(s, FreeExpired(s), Len(s.list))
<1> DEFINE Turn(t, n) == AgeOrFree(t, n - (Len(s.list) - Len(t.list)))
           IsAfter(g, m) == g = [n \in 0 .. m |-> IF n = 0 THEN s ELSE Turn(g[n - 1], n)]
           Without == {m \in Nat : ~\E g : IsAfter(g, m)}
<1>1. \A m \in Nat : \E g : IsAfter(g, m)
  <2> HIDE DEF Turn
  <2> SUFFICES ASSUME Without # {} PROVE FALSE
    BY Zenon
  <2>1. PICK m \in Without : \A j \in Without : m <= j
    BY LeastMember, Zenon
  <2>2. CASE m = 0
    <3> DEFINE g == [n \in 0 .. m |-> s]
    <3>1. g = [n \in 0 .. m |-> IF n = 0 THEN s ELSE Turn(g[n - 1], n)]
      BY <2>2
    <3> QED BY <2>1, <3>1
  <2>3. CASE m # 0
    <3>1. m - 1 \in Nat /\ m - 1 \notin Without
      <4>1. m - 1 \in Nat /\ ~(m <= m - 1)
        BY <2>3
      <4> HIDE DEF Without
      <4> QED BY <2>1, <4>1
    <3>2. PICK f : IsAfter(f, m - 1)
      BY <3>1
    <3> DEFINE g == [n \in 0 .. m |-> IF n = m THEN Turn(f[m - 1], m) ELSE f[n]]
    <3>3. \A n \in 0 .. m : g[n] = IF n = 0 THEN s ELSE Turn(g[n - 1], n)
      BY <2>3, <3>1, <3>2
    <3>4. g = [n \in 0 .. m |-> g[n]]
      OBVIOUS
    <3> HIDE DEF g
    <3>5. IsAfter(g, m)
      BY <3>3, <3>4, Zenon
    <3> QED BY <2>1, <3>5
  <2> QED BY <2>2, <2>3
<1>2. Len(s.list) \in Nat /\ s.count \in Nat
  BY EntryFrags, AllPbufsNat DEF StateOk, ListOk
<1> DEFINE after == CHOOSE g : IsAfter(g, Len(s.list))
<1>3. IsAfter(after, Len(s.list))
  BY <1>1, <1>2, Zenon
<1>4. FreeExpired(s) = after[Len(s.list)]
  BY DEF FreeExpired
<1> HIDE DEF after, Without, Turn
<1>5. after[0] = s /\ \A n \in 1 .. Len(s.list) : after[n] = Turn(after[n - 1], n)
  <2>1. after = [n \in 0 .. Len(s.list) |-> IF n = 0 THEN s ELSE Turn(after[n - 1], n)]
    BY <1>3
  <2>2. \A n \in 0 .. Len(s.list) : after[n] = IF n = 0 THEN s ELSE Turn(after[n - 1], n)
    BY <2>1, Zenon
  <2> QED BY <1>2, <2>2
<1>6. ASSUME NEW n \in 1 .. Len(s.list), NEW t, Aged(s, t, n - 1) PROVE Aged(s, Turn(t, n), n)
  <2> DEFINE k == n - (Len(s.list) - Len(t.list))
             r == AgeOrFree(t, k)
  <2>1. StateOk(t) /\ Len(t.list) \in Nat /\ t.count \in Nat
    BY <1>6, EntryFrags, AllPbufsNat DEF Aged, StateOk, ListOk
  <2> DEFINE a == Len(s.list)
             b == Len(t.list)
  <2>2. a \in Nat /\ b \in Nat /\ n \in 1 .. a /\ b <= a /\ a - b <= n - 1 /\ k = n - (a - b)
    BY <1>2, <1>6, <2>1 DEF Aged
  <2> HIDE DEF k, a, b
  <2>3. k \in 1 .. b
    BY <2>2
  <2>4. /\ StateOk(r) /\ r.count <= t.count /\ Len(r.list) <= Len(t.list)
        /\ Len(t.list) - Len(r.list) <= 1 /\ (NoneEmpty(t.list) => NoneEmpty(r.list))
        /\ \/ IsInserted(t.list, r.list, k, t.list[k])
           \/ /\ Len(r.list) = Len(t.list) /\ SecondOlder(r.list[k], t.list[k])
              /\ \A j \in 1 .. Len(t.list) : j # k => r.list[j] = t.list[j]
    BY <2>1, <2>3, AgeOk, Zenon DEF b
  <2>5. Len(r.list) \in Nat /\ r.count \in Nat
    BY <2>4, EntryFrags, AllPbufsNat DEF StateOk, ListOk
  <2>6. Turn(t, n) = r
    BY DEF Turn, k
  <2> HIDE DEF r
  <2>7. Aged(s, r, n)
    <3>1. t.count <= s.count /\ (NoneEmpty(s.list) => NoneEmpty(t.list))
      BY <1>6 DEF Aged
    <3>2. r.count <= s.count /\ (NoneEmpty(s.list) => NoneEmpty(r.list))
      BY <1>2, <2>1, <2>4, <2>5, <3>1, SMTT(30)
    <3> DEFINE c == Len(r.list)
    <3>3. c \in Nat /\ c <= b /\ b - c <= 1
      BY <2>4, <2>5 DEF b
    <3> HIDE DEF c
    <3>4. c <= a /\ a - c <= n
      BY <2>2, <3>3, SMTT(30)
    <3>5. ASSUME NEW j \in 1 .. c PROVE Aging(s.list, r.list, n, j)
      <4>1. \A i \in 1 .. b : IF i + (a - b) <= n - 1 THEN \E q \in 1 .. a : SecondOlder(t.list[i], s.list[q])
                             ELSE t.list[i] = s.list[i + (a - b)]
        BY <1>6, Zenon DEF Aged, Aging, a, b
      <4> SUFFICES IF j + (a - c) <= n THEN \E q \in 1 .. a : SecondOlder(r.list[j], s.list[q])
                   ELSE r.list[j] = s.list[j + (a - c)]
        BY Zenon DEF Aging, a, c
      <4>2. CASE IsInserted(t.list, r.list, k, t.list[k])
        <5>1. b = c + 1 /\ k \in 1 .. c + 1
          BY <2>3, <4>2 DEF IsInserted, b, c
        <5>2. r.list[j] = IF j < k THEN t.list[j] ELSE t.list[j + 1]
          BY <2>5, <4>2, <5>1, InsertedInverse, ZenonT(30) DEF c
        <5>3. CASE j < k
          <6>1. j \in 1 .. b /\ j + (a - b) <= n - 1 /\ j + (a - c) <= n
            BY <2>2, <3>3, <5>1, <5>3
          <6> QED BY <4>1, <5>2, <5>3, <6>1
        <5>4. CASE ~(j < k)
          <6>1. /\ j + 1 \in 1 .. b /\ ~((j + 1) + (a - b) <= n - 1) /\ ~(j + (a - c) <= n)
                /\ (j + 1) + (a - b) = j + (a - c)
            BY <2>2, <3>3, <5>1, <5>4
          <6>2. t.list[j + 1] = s.list[(j + 1) + (a - b)]
            BY <4>1, <6>1
          <6> QED BY <5>2, <5>4, <6>1, <6>2, Zenon
        <5> QED BY <5>3, <5>4
      <4>3. CASE /\ c = b /\ SecondOlder(r.list[k], t.list[k])
                 /\ \A i \in 1 .. b : i # k => r.list[i] = t.list[i]
        <5>1. CASE j = k
          <6>1. ~(k + (a - b) <= n - 1) /\ k + (a - c) <= n /\ k + (a - b) \in 1 .. a
            BY <2>2, <4>3
          <6>2. t.list[k] = s.list[k + (a - b)]
            BY <2>3, <4>1, <6>1
          <6> QED BY <4>3, <5>1, <6>1, <6>2
        <5>2. CASE j # k
          <6>1. j \in 1 .. b /\ (j + (a - b) <= n - 1 <=> j + (a - c) <= n)
            BY <2>2, <4>3, <5>2
          <6>2. r.list[j] = t.list[j]
            BY <4>3, <5>2
          <6> QED BY <4>1, <4>3, <6>1, <6>2
        <5> QED BY <5>1, <5>2
      <4> QED BY <2>4, <4>2, <4>3 DEF b, c
    <3> QED BY <2>4, <3>2, <3>4, <3>5, Zenon DEF Aged, a, c
  <2> QED BY <2>6, <2>7
<1> DEFINE Lost == {n \in 0 .. Len(s.list) : ~Aged(s, after[n], n)}
<1>7. Lost = {}
  <2> SUFFICES ASSUME Lost # {} PROVE FALSE
    OBVIOUS
  <2>1. PICK n \in Lost : \A j \in Lost : n <= j
    <3>1. Lost \in SUBSET Nat
      BY <1>2
    <3> HIDE DEF Lost
    <3> QED BY <3>1, LeastMember, Zenon
  <2>2. n # 0
    <3>1. \A j \in 1 .. Len(s.list) : Aging(s.list, s.list, 0, j)
      BY <1>2 DEF Aging
    <3>2. Aged(s, s, 0)
      BY <1>2, <3>1 DEF Aged
    <3> QED BY <1>5, <2>1, <3>2
  <2>3. n \in 1 .. Len(s.list) /\ n - 1 \in 0 .. Len(s.list) /\ ~(n <= n - 1)
    BY <1>2, <2>1, <2>2
  <2>4. Aged(s, after[n - 1], n - 1)
    BY <2>1, <2>3
  <2>5. Aged(s, after[n], n)
    BY <1>5, <1>6, <2>3, <2>4
  <2> QED BY <2>1, <2>5
<1>8. Len(s.list) \in 0 .. Len(s.list)
  BY <1>2
<1> QED BY <1>4, <1>7, <1>8
-----------------------------------------------------------------------------
(* Chaining a fragment into its entry. *)

\* The numbers in a list of fragments.
LEMMA FragmentFacts ==
  ASSUME NEW frags \in Seq(Fragments)
  PROVE  /\ Len(frags) \in Nat /\ DOMAIN frags = 1 .. Len(frags)
         /\ \A k \in 1 .. Len(frags) : frags[k] \in Fragments
         /\ \A f \in Fragments : f.start \in Nat /\ f.end \in Nat /\ f.start < f.end /\ f.end <= Size /\ f.start < Size
<1>1. Len(frags) \in Nat /\ DOMAIN frags = 1 .. Len(frags) /\ \A k \in 1 .. Len(frags) : frags[k] \in Fragments
  OBVIOUS
<1>2. \A f \in Fragments : f.start \in Nat /\ f.end \in Nat /\ f.start < f.end /\ f.end <= Size /\ f.start < Size
  BY ConstantFacts DEF Fragments
<1> QED BY <1>1, <1>2

\* The place of a fragment: all before it start earlier.
LEMMA PlaceFits ==
  ASSUME NEW frags \in Seq(Fragments), NEW f \in Fragments
  PROVE  LET i == Place(frags, f) IN
         /\ i \in 1 .. Len(frags) + 1
         /\ \A k \in 1 .. i - 1 : frags[k].start < f.start
<1> DEFINE T == {i \in 1 .. Len(frags) + 1 : i <= Len(frags) => f.start <= frags[i].start}
           i == Least(T)
<1>1. Len(frags) \in Nat
  OBVIOUS
<1>2. T \in SUBSET Nat /\ Len(frags) + 1 \in T
  BY <1>1
<1>3. i \in T /\ \A j \in T : i <= j
  <2> HIDE DEF T
  <2> QED BY <1>2, LeastMember
<1>4. i = Place(frags, f)
  BY DEF Place
<1> HIDE DEF i
<1>5. ASSUME NEW k \in 1 .. i - 1 PROVE frags[k].start < f.start
  <2>1. k \in 1 .. Len(frags) /\ ~(i <= k) /\ k \in 1 .. Len(frags) + 1
    BY <1>1, <1>3
  <2>2. ~(f.start <= frags[k].start)
    BY <1>3, <2>1, Zenon
  <2> QED BY <2>1, <2>2, FragmentFacts
<1> QED BY <1>3, <1>4, <1>5

\* A fragment that is not dropped keeps the order, and the test finds out whether
\* the datagram is complete.
LEMMA ChainFrags ==
  ASSUME NEW e, EntryOk(e), NEW f \in Fragments, ~Dropped(e.frags, f, Place(e.frags, f))
  PROVE  LET i == Place(e.frags, f)
             g == InsertAt(e.frags, i, f)
             last == e.last \/ f.end = Size
         IN /\ i \in 1 .. Len(e.frags) + 1 /\ g \in Seq(Fragments) /\ IsInserted(g, e.frags, i, f)
            /\ g # <<>> /\ Sorted(g) /\ (last <=> g[Len(g)].end = Size)
            /\ Complete(g) <=> last /\ Finished(g, i)
            /\ g[1].start = 0 => Header(e, f) = 0
<1> DEFINE i == Place(e.frags, f)
           g == InsertAt(e.frags, i, f)
           last == e.last \/ f.end = Size
           h == e.frags
           n == Len(e.frags)
<1>1. e.frags \in Seq(Fragments)
  BY DEF EntryOk, Entries
<1>2. i \in 1 .. n + 1
  BY <1>1, PlaceFits
<1>3. (i > 1 => h[i - 1].end <= f.start) /\ (i <= n => f.end <= h[i].start)
  <2>1. ~(i > 1 /\ h[i - 1].end > f.start) /\ ~(i <= n /\ h[i].start < f.end)
    BY DEF Dropped
  <2>2. (i > 1 => i - 1 \in 1 .. n) /\ (i <= n => i \in 1 .. n) /\ n \in Nat
    BY <1>1, <1>2
  <2> HIDE DEF i
  <2> QED BY <1>1, <2>1, <2>2, FragmentFacts
<1> HIDE DEF i
<1>4. g \in Seq(Fragments) /\ IsInserted(g, h, i, f)
  BY <1>1, <1>2, InsertAtIs
<1>5. Sorted(h) /\ (e.last <=> h # <<>> /\ h[Len(h)].end = Size) /\ (h # <<>> /\ h[1].start = 0 => e.hdr = 0)
  BY DEF EntryOk
<1>6. h \in Seq(Fragments) /\ n = Len(h) /\ n \in Nat /\ (h # <<>> <=> n > 0)
  BY <1>1
<1> HIDE DEF g, h, n
<1>7. Len(g) = n + 1 /\ \A k \in 1 .. n + 1 : g[k] = IF k < i THEN h[k] ELSE IF k = i THEN f ELSE h[k - 1]
  BY <1>4, <1>6 DEF IsInserted
<1>8. \A k \in 1 .. n : /\ h[k].start \in Nat /\ h[k].end \in Nat
                        /\ h[k].start < h[k].end /\ h[k].end <= Size /\ h[k].start < Size
  BY <1>6, FragmentFacts
<1>9. f.start \in Nat /\ f.end \in Nat /\ f.start < f.end /\ f.end <= Size /\ f.start < Size /\ Size \in Nat
  BY <1>1, FragmentFacts, ConstantFacts
<1>10. \A j, k \in 1 .. n : j < k => h[j].end <= h[k].start
  BY <1>5, <1>6 DEF Sorted
<1>11. \A j \in 1 .. n : j < i => h[j].end <= f.start
  <2> SUFFICES ASSUME NEW j \in 1 .. n, j < i PROVE h[j].end <= f.start
    OBVIOUS
  <2>1. i > 1 /\ i - 1 \in 1 .. n /\ (j = i - 1 \/ j < i - 1)
    BY <1>2, <1>6
  <2>2. j < i - 1 => h[j].end <= h[i - 1].start
    BY <1>10, <2>1
  <2>3. h[i - 1].end <= f.start /\ h[i - 1].start < h[i - 1].end
    BY <1>3, <1>8, <2>1
  <2>4. h[j].end \in Nat /\ h[i - 1].start \in Nat /\ h[i - 1].end \in Nat
    BY <1>8, <2>1
  <2> QED BY <1>9, <2>1, <2>2, <2>3, <2>4
<1>12. \A k \in 1 .. n : i <= k => f.end <= h[k].start
  <2> SUFFICES ASSUME NEW k \in 1 .. n, i <= k PROVE f.end <= h[k].start
    OBVIOUS
  <2>1. i <= n /\ i \in 1 .. n /\ (k = i \/ i < k)
    BY <1>2, <1>6
  <2>2. i < k => h[i].end <= h[k].start
    BY <1>10, <2>1
  <2>3. f.end <= h[i].start /\ h[i].start < h[i].end
    BY <1>3, <1>8, <2>1
  <2>4. h[k].start \in Nat /\ h[i].start \in Nat /\ h[i].end \in Nat
    BY <1>8, <2>1
  <2> QED BY <1>9, <2>1, <2>2, <2>3, <2>4
<1>13. Sorted(g)
  <2> SUFFICES ASSUME NEW j \in 1 .. n + 1, NEW k \in 1 .. n + 1, j < k PROVE g[j].end <= g[k].start
    BY <1>7 DEF Sorted
  <2>1. CASE k < i
    <3>1. j \in 1 .. n /\ k \in 1 .. n /\ j < i
      BY <1>2, <1>6, <2>1
    <3> QED BY <1>7, <1>10, <2>1, <3>1
  <2>2. CASE k = i
    <3>1. j \in 1 .. n /\ j < i /\ ~(k < i)
      BY <1>2, <1>6, <2>2
    <3> QED BY <1>7, <1>11, <2>2, <3>1
  <2>3. CASE k > i
    <3>1. k - 1 \in 1 .. n /\ ~(k < i) /\ k # i /\ i <= k - 1
      BY <1>2, <1>6, <2>3
    <3>2. g[k] = h[k - 1]
      BY <1>7, <3>1
    <3>3. CASE j < i
      <4>1. j \in 1 .. n /\ j < k - 1
        BY <1>2, <1>6, <2>3, <3>1, <3>3
      <4>2. g[j] = h[j]
        BY <1>7, <3>3
      <4>3. h[j].end <= h[k - 1].start
        BY <1>10, <3>1, <4>1
      <4> QED BY <3>2, <4>2, <4>3
    <3>4. CASE j = i
      <4>1. g[j] = f
        BY <1>7, <3>4
      <4>2. f.end <= h[k - 1].start
        BY <1>12, <3>1
      <4> QED BY <3>2, <4>1, <4>2
    <3>5. CASE j > i
      <4>1. j - 1 \in 1 .. n /\ ~(j < i) /\ j # i /\ j - 1 < k - 1
        BY <1>2, <1>6, <3>1, <3>5
      <4>2. g[j] = h[j - 1]
        BY <1>7, <4>1
      <4>3. h[j - 1].end <= h[k - 1].start
        BY <1>10, <3>1, <4>1
      <4> QED BY <3>2, <4>2, <4>3
    <3> QED BY <1>2, <3>3, <3>4, <3>5
  <2> QED BY <1>2, <2>1, <2>2, <2>3
<1>14. last <=> g[Len(g)].end = Size
  <2>1. e.last <=> n > 0 /\ h[n].end = Size
    BY <1>5, <1>6
  <2>2. CASE i = n + 1
    <3>1. g[n + 1] = f
      BY <1>6, <1>7, <2>2
    <3>2. ~e.last
      <4> SUFFICES ASSUME n > 0, h[n].end = Size PROVE FALSE
        BY <2>1
      <4>1. n \in 1 .. n /\ n < i
        BY <1>6, <2>2
      <4>2. h[n].end <= f.start
        BY <1>11, <4>1, Zenon
      <4> QED BY <1>9, <4>2
    <3> QED BY <1>7, <3>1, <3>2
  <2>3. CASE i # n + 1
    <3>1. i <= n /\ n \in 1 .. n /\ n + 1 \in 1 .. n + 1 /\ ~(n + 1 < i) /\ n + 1 # i /\ (n + 1) - 1 = n /\ n > 0
      BY <1>2, <1>6, <2>3
    <3>2. g[n + 1] = h[n]
      BY <1>7, <3>1
    <3>3. f.end <= h[n].start /\ h[n].start < Size /\ h[n].start \in Nat
      BY <1>8, <1>12, <3>1
    <3>4. f.end # Size
      BY <1>9, <3>3
    <3> QED BY <1>7, <2>1, <3>1, <3>2, <3>4
  <2> QED BY <2>2, <2>3
<1>15. g # <<>>
  BY <1>4, <1>6, <1>7, SMTT(30)
<1> HIDE DEF last
<1>16. Complete(g) <=> last /\ Finished(g, i)
  <2>1. Complete(g) <=> g[1].start = 0 /\ Joined(g, 1, n + 1) /\ last
    BY <1>7, <1>14, <1>15 DEF Complete
  <2>2. Joined(g, 1, n + 1) <=> Joined(g, 1, i) /\ Joined(g, i, n + 1)
    BY <1>2, <1>6 DEF Joined
  <2> QED BY <1>7, <2>1, <2>2 DEF Finished
<1>17. g[1].start = 0 => Header(e, f) = 0
  <2> SUFFICES ASSUME g[1].start = 0, f.start # 0 PROVE e.hdr = 0
    BY DEF Header
  <2>1. 1 \in 1 .. n + 1 /\ i # 1
    BY <1>2, <1>6, <1>7
  <2>2. 1 < i /\ n > 0
    BY <1>2, <1>6, <2>1
  <2>3. g[1] = h[1]
    BY <1>7, <2>1, <2>2
  <2> QED BY <1>5, <1>6, <2>2, <2>3
<1> QED BY <1>2, <1>4, <1>13, <1>14, <1>15, <1>16, <1>17, Zenon DEF g, h, n, i, last

\* What becomes of datagram d when the list is l and the datagram u is returned.
Survives(d, l, u) ==
  u # <<>> \/ \E j \in 1 .. Len(l) : l[j].id = d.id /\ Members(d.frags) \subseteq Members(l[j].frags)

\* The entries of list m are of datagrams of list l, with their timers.
HasTimer(e, l) == \E q \in 1 .. Len(l) : e.id = l[q].id /\ e.timer = l[q].timer
SameTimers(l, m) == \A j \in 1 .. Len(m) : HasTimer(m[j], l)

\* The same of a list that has more entries.
LEMMA HasTimerLonger ==
  ASSUME NEW e, NEW l, NEW m, HasTimer(e, l), \A j \in 1 .. Len(l) : \E q \in 1 .. Len(m) : l[j] = m[q]
  PROVE  HasTimer(e, m)
<1>1. PICK j \in 1 .. Len(l) : e.id = l[j].id /\ e.timer = l[j].timer
  BY DEF HasTimer
<1>2. PICK q \in 1 .. Len(m) : l[j] = m[q]
  BY Zenon
<1> QED BY <1>1, <1>2 DEF HasTimer

\* A removed entry does not matter.
LEMMA RemoveReplaced ==
  ASSUME NEW l \in Seq(Entries), NEW k \in 1 .. Len(l), NEW e \in Entries
  PROVE  RemoveAt([l EXCEPT ![k] = e], k) = RemoveAt(l, k)
<1> DEFINE m == [l EXCEPT ![k] = e]
           a == RemoveAt(m, k)
           b == RemoveAt(l, k)
<1>1. m \in Seq(Entries) /\ Len(m) = Len(l) /\ k \in 1 .. Len(m)
  BY EntryFrags
<1>2. \A j \in 1 .. Len(l) : j # k => m[j] = l[j]
  OBVIOUS
<1> HIDE DEF m
<1>3. a \in Seq(Entries) /\ IsInserted(m, a, k, m[k])
  BY <1>1, RemoveAtIs
<1>4. b \in Seq(Entries) /\ IsInserted(l, b, k, l[k])
  BY RemoveAtIs
<1> HIDE DEF a, b
<1>5. Len(a) = Len(b) /\ Len(b) = Len(l) - 1 /\ Len(a) \in Nat /\ Len(b) \in Nat
      /\ k \in 1 .. Len(a) + 1 /\ k \in 1 .. Len(b) + 1
  <2>1. Len(m) = Len(a) + 1 /\ Len(l) = Len(b) + 1
    BY <1>3, <1>4 DEF IsInserted
  <2>2. Len(a) \in Nat /\ Len(b) \in Nat
    BY <1>3, <1>4, SeqLen
  <2> DEFINE x == Len(a)
             y == Len(b)
             z == Len(l)
  <2>3. x \in Nat /\ y \in Nat /\ z \in Nat /\ z = x + 1 /\ z = y + 1 /\ k \in 1 .. z
    BY <1>1, <2>1, <2>2, SeqLen, Zenon
  <2> HIDE DEF x, y, z
  <2>4. x = y /\ y = z - 1 /\ k \in 1 .. x + 1 /\ k \in 1 .. y + 1
    BY <2>3
  <2> QED BY <2>3, <2>4 DEF x, y, z
<1>6. /\ \A j \in 1 .. Len(a) : a[j] = IF j < k THEN m[j] ELSE m[j + 1]
      /\ \A j \in 1 .. Len(b) : b[j] = IF j < k THEN l[j] ELSE l[j + 1]
  BY <1>3, <1>4, <1>5, InsertedInverse, Zenon
<1>7. ASSUME NEW j \in 1 .. Len(a) PROVE a[j] = b[j]
  <2>1. /\ j \in 1 .. Len(l) /\ j + 1 \in 1 .. Len(l)
        /\ (j < k => j # k) /\ (~(j < k) => j + 1 # k)
    BY <1>5, SeqLen
  <2> QED BY <1>2, <1>5, <1>6, <2>1, Zenon
<1>8. a = b
  BY <1>3, <1>4, <1>5, <1>7, SeqSame, Zenon
<1> QED BY <1>8 DEF a, b, m

\* The entry of a datagram is removed, the others stay.
LEMMA RemoveStays ==
  ASSUME NEW s, StateOk(s), NEW k \in 1 .. Len(s.list),
         \A j \in 1 .. Len(s.list) : j # k => s.list[j].frags # <<>>
  PROVE  LET r == Free(s, k) IN
         /\ StateOk(r) /\ r.count <= s.count /\ Len(r.list) = Len(s.list) - 1 /\ NoneEmpty(r.list)
         /\ SameTimers(s.list, r.list)
         /\ OthersStay(s.list, r.list, s.list[k].id) /\ OthersFrom(s.list, r.list, s.list[k].id)
<1> DEFINE r == Free(s, k)
<1>1. /\ StateOk(r) /\ r.count <= s.count /\ Len(r.list) = Len(s.list) - 1
      /\ IsInserted(s.list, r.list, k, s.list[k])
  BY FreeIs
<1> HIDE DEF r
<1>2. Len(s.list) \in Nat /\ Len(r.list) \in Nat
  BY <1>1, EntryFrags DEF StateOk, ListOk
<1>3. Len(r.list) \in Nat /\ k \in 1 .. Len(r.list) + 1
  BY <1>1, <1>2
<1>4. \A j \in 1 .. Len(r.list) : r.list[j] = IF j < k THEN s.list[j] ELSE s.list[j + 1]
  BY <1>1, <1>3, InsertedInverse, ZenonT(30)
<1>5. \A j \in 1 .. Len(r.list) : /\ j \in 1 .. Len(s.list) /\ j + 1 \in 1 .. Len(s.list)
                                  /\ (j < k => j # k) /\ (~(j < k) => j + 1 # k)
  BY <1>1, <1>2
<1>6. SameTimers(s.list, r.list)
  BY <1>4, <1>5, Zenon DEF SameTimers, HasTimer
<1>7. NoneEmpty(r.list)
  BY <1>4, <1>5, Zenon DEF NoneEmpty
<1>8. OthersFrom(s.list, r.list, s.list[k].id)
  BY <1>4, <1>5, Zenon DEF OthersFrom, In
<1>9. OthersStay(s.list, r.list, s.list[k].id)
  <2> SUFFICES ASSUME NEW j \in 1 .. Len(s.list), j # k PROVE In(s.list[j], r.list)
    BY Zenon DEF OthersStay
  <2>1. s.list[j] = IF j < k THEN r.list[j] ELSE r.list[j - 1]
    BY <1>1 DEF IsInserted
  <2>2. (j < k => j \in 1 .. Len(r.list)) /\ (~(j < k) => j - 1 \in 1 .. Len(r.list))
    BY <1>1, <1>2
  <2> QED BY <2>1, <2>2, Zenon DEF In
<1> QED BY <1>1, <1>6, <1>7, <1>8, <1>9, Zenon DEF r

\* An entry is replaced, the others stay.
LEMMA ReplaceStays ==
  ASSUME NEW l, NEW m, NEW k \in 1 .. Len(l), NEW e, e.id = l[k].id, Len(m) = Len(l),
         \A j \in 1 .. Len(m) : m[j] = IF j = k THEN e ELSE l[j]
  PROVE  OthersStay(l, m, l[k].id) /\ OthersFrom(l, m, l[k].id)
<1>1. OthersFrom(l, m, l[k].id)
  BY Zenon DEF OthersFrom, In
<1>2. OthersStay(l, m, l[k].id)
  <2> SUFFICES ASSUME NEW j \in 1 .. Len(l), j # k PROVE In(l[j], m)
    BY Zenon DEF OthersStay
  <2> QED BY Zenon DEF In
<1> QED BY <1>1, <1>2

\* The fragment has its entry.
LEMMA ChainStep ==
  ASSUME NEW s, StateOk(s), NEW k \in 1 .. Len(s.list), NEW f \in Incoming,
         \A j \in 1 .. Len(s.list) : j # k => s.list[j].frags # <<>>,
         s.count + Clen(f) <= MaxPbufs, Len(s.list) <= NumReass, Chain(s, k, f)
  PROVE  /\ Good(list', count', up') /\ (s.list[k].frags # <<>> => Survives(s.list[k], list', up'))
         /\ SameTimers(s.list, list')
         /\ OthersStay(s.list, list', s.list[k].id) /\ OthersFrom(s.list, list', s.list[k].id)
<1> DEFINE e == s.list[k]
           i == Place(e.frags, f)
           frags == InsertAt(e.frags, i, f)
           last == e.last \/ f.end = Size
           new == [e EXCEPT !.frags = frags, !.last = @ \/ f.end = Size, !.hdr = Header(e, f)]
           m == [s.list EXCEPT ![k] = new]
           c == s.count + Clen(f)
           t == [list |-> m, count |-> c]
<1>1. /\ s.list \in Seq(Entries) /\ EntryOk(e) /\ e \in Entries /\ Len(s.list) \in Nat
      /\ e.frags \in Seq(Fragments) /\ Pbufs(e) \in Nat
  BY EntryFrags DEF StateOk, ListOk
<1>2. s.count \in Nat /\ Clen(f) \in Nat /\ MaxPbufs \in Nat
  BY <1>1, AllPbufsNat, IncomingClen, ConstantFacts, Zenon DEF StateOk
<1>3. Header(e, f) \in 0 .. Size
  <2>1. e.hdr \in 0 .. Size
    BY <1>1, Zenon DEF Entries
  <2>2. 0 \in 0 .. Size
    BY ConstantFacts
  <2> QED BY <2>1, <2>2 DEF Header
<1>4. <<>> \in Seq(Fragments) /\ Sorted(<<>>)
  BY DEF Sorted
<1>5. CASE TooLong(f) \/ Dropped(e.frags, f, i)
  <2> DEFINE d == [e EXCEPT !.hdr = Header(e, f)]
             l == [s.list EXCEPT ![k] = d]
  <2>1. Becomes(Discard([list |-> l, count |-> s.count], k), <<>>)
    <3>1. Becomes(Discard([s EXCEPT !.list[k].hdr = Header(e, f)], k), <<>>)
      BY <1>5 DEF Chain
    <3>2. [s EXCEPT !.list[k].hdr = Header(e, f)] = [list |-> l, count |-> s.count]
      BY SMTT(30) DEF StateOk
    <3> QED BY <3>1, <3>2
  <2>2. d \in Entries /\ d.frags = e.frags /\ d.last = e.last /\ d.id = e.id /\ d.hdr = Header(e, f)
        /\ d.timer = e.timer
    BY <1>1, <1>3, Zenon DEF Entries
  <2>3. l[k] = d
    BY <1>1
  <2>4. RemoveAt(l, k) = RemoveAt(s.list, k)
    BY <1>1, <2>2, RemoveReplaced
  <2>5. /\ Discard([list |-> l, count |-> s.count], k)
            = IF e.frags = <<>> THEN [list |-> RemoveAt(l, k), count |-> s.count]
              ELSE [list |-> l, count |-> s.count]
    <3> HIDE DEF d, l
    <3> QED BY <2>2, <2>3 DEF Discard
  <2> HIDE DEF d
  <2>6. s.count <= MaxPbufs
    BY <1>2, SMTT(30)
  <2>7. CASE e.frags = <<>>
    <3> DEFINE r == Free(s, k)
    <3>1. /\ StateOk(r) /\ r.count <= s.count /\ Len(r.list) = Len(s.list) - 1 /\ NoneEmpty(r.list)
          /\ SameTimers(s.list, r.list)
          /\ OthersStay(s.list, r.list, s.list[k].id) /\ OthersFrom(s.list, r.list, s.list[k].id)
      BY RemoveStays, Zenon
    <3>2. Pbufs(e) = 0
      BY <2>7, PbufsEmpty
    <3>3. r.list = RemoveAt(s.list, k) /\ r.count = s.count
      BY <1>2, <3>2 DEF Free
    <3> HIDE DEF r, l
    <3>4. list' = r.list /\ count' = r.count /\ up' = <<>>
      BY <2>1, <2>4, <2>5, <2>7, <3>3 DEF Becomes
    <3>5. Len(r.list) <= NumReass
      BY <1>1, <3>1, ConstantFacts, SMTT(30)
    <3>6. StateOk([list |-> r.list, count |-> r.count])
      BY <3>1 DEF StateOk
    <3>7. Good(list', count', up')
      BY <1>4, <2>6, <3>1, <3>3, <3>4, <3>5, <3>6, Zenon DEF Good
    <3> QED BY <2>7, <3>1, <3>4, <3>7, Zenon
  <2>8. CASE e.frags # <<>>
    <3>1. list' = l /\ count' = s.count /\ up' = <<>>
      <4> HIDE DEF l
      <4>1. Becomes([list |-> l, count |-> s.count], <<>>)
        BY <2>1, <2>5, <2>8, Zenon
      <4> QED BY ONLY <4>1 DEF Becomes
    <3>2. EntryOk(d) /\ Pbufs(d) = Pbufs(e)
      BY <1>1, <2>2 DEF EntryOk, Pbufs, Header
    <3>3. s.count = s.count - Pbufs(s.list[k]) + Pbufs(d)
      BY <1>1, <1>2, <3>2, SMTT(30)
    <3>4. /\ StateOk([list |-> l, count |-> s.count]) /\ Len(l) = Len(s.list)
          /\ \A j \in 1 .. Len(l) : l[j] = IF j = k THEN d ELSE s.list[j]
      BY <2>2, <3>2, <3>3, ReplaceOk, SMTT(30)
    <3> HIDE DEF l
    <3>5. NoneEmpty(l)
      BY <2>2, <2>8, <3>4 DEF NoneEmpty
    <3>6. Survives(e, list', up')
      BY <2>2, <3>1, <3>4, Zenon DEF Survives
    <3>7. SameTimers(s.list, list')
      BY <2>2, <3>1, <3>4, Zenon DEF SameTimers, HasTimer
    <3>8. OthersStay(s.list, list', s.list[k].id) /\ OthersFrom(s.list, list', s.list[k].id)
      BY <2>2, <3>1, <3>4, ReplaceStays, Zenon
    <3>9. Good(list', count', up')
      BY <1>4, <2>6, <3>1, <3>4, <3>5, Zenon DEF Good
    <3> QED BY <3>6, <3>7, <3>8, <3>9
  <2> QED BY <2>7, <2>8
<1>6. CASE ~(TooLong(f) \/ Dropped(e.frags, f, i))
  <2>0. f \in Fragments
    <3>1. ASSUME f \in Overlong PROVE TooLong(f)
      BY <3>1, ConstantFacts DEF Overlong, TooLong
    <3> QED BY <1>6, <3>1 DEF Incoming
  <2>1. /\ i \in 1 .. Len(e.frags) + 1 /\ frags \in Seq(Fragments) /\ IsInserted(frags, e.frags, i, f)
        /\ frags # <<>> /\ Sorted(frags) /\ (last <=> frags[Len(frags)].end = Size)
        /\ Complete(frags) <=> last /\ Finished(frags, i)
        /\ frags[1].start = 0 => Header(e, f) = 0
    BY <1>1, <1>6, <2>0, ChainFrags, Zenon
  <2>2. IF new.last /\ Finished(frags, i) THEN Becomes(Free(t, k), frags) ELSE Becomes(t, <<>>)
    BY <1>6 DEF Chain
  <2> HIDE DEF i, frags
  <2>3. last \in BOOLEAN
    OBVIOUS
  <2>4. /\ new \in Entries /\ new.frags = frags /\ new.id = e.id /\ new.hdr = Header(e, f)
        /\ new.last = last /\ new.timer = e.timer
    BY <1>1, <1>3, <2>1, Zenon DEF Entries
  <2> HIDE DEF new, last
  <2>5. Pbufs(new) = Pbufs(e) + Clen(f)
    BY <1>1, <2>0, <2>1, <2>4, PbufsInsert, ZenonT(30)
  <2>6. CASE last /\ Finished(frags, i)
    <3>1. Becomes(Free(t, k), frags)
      BY <2>2, <2>4, <2>6, Zenon
    <3> DEFINE r == Free(s, k)
    <3>2. /\ StateOk(r) /\ r.count <= s.count /\ Len(r.list) = Len(s.list) - 1 /\ NoneEmpty(r.list)
          /\ SameTimers(s.list, r.list)
          /\ OthersStay(s.list, r.list, s.list[k].id) /\ OthersFrom(s.list, r.list, s.list[k].id)
      BY RemoveStays, Zenon
    <3>3. r.list = RemoveAt(s.list, k) /\ r.count = s.count - Pbufs(e)
      BY DEF Free
    <3>4. RemoveAt(m, k) = RemoveAt(s.list, k)
      BY <1>1, <2>4, RemoveReplaced
    <3>5. Free(t, k).list = r.list /\ Free(t, k).count = c - Pbufs(new)
      <4>1. t.list[k] = new
        BY <1>1
      <4> QED BY <3>3, <3>4, <4>1, Zenon DEF Free
    <3>6. c - Pbufs(new) = r.count
      BY <1>1, <1>2, <2>5, <3>3
    <3>7. list' = r.list /\ count' = r.count /\ up' = frags
      BY <3>1, <3>5, <3>6 DEF Becomes
    <3>8. r.count <= MaxPbufs /\ Len(r.list) <= NumReass
      BY <1>1, <1>2, <3>2, <3>3, ConstantFacts, SMTT(30)
    <3>9. StateOk([list |-> r.list, count |-> r.count])
      BY <3>2 DEF StateOk
    <3>10. Complete(frags)
      BY <2>1, <2>6, Zenon DEF last
    <3> HIDE DEF r
    <3> QED BY <2>1, <3>2, <3>7, <3>8, <3>9, <3>10, Zenon DEF Good, Survives
  <2>7. CASE ~(last /\ Finished(frags, i))
    <3>1. list' = m /\ count' = c /\ up' = <<>>
      BY <2>2, <2>4, <2>7, Zenon DEF Becomes
    <3>2. EntryOk(new)
      <4>1. ~Complete(frags)
        BY <2>1, <2>7, Zenon DEF last
      <4>2. last <=> frags[Len(frags)].end = Size
        BY <2>1, Zenon DEF last
      <4> QED BY <2>1, <2>4, <4>1, <4>2, Zenon DEF EntryOk
    <3>3. c = s.count - Pbufs(s.list[k]) + Pbufs(new)
      BY <1>1, <1>2, <2>5, SMTT(30)
    <3>4. /\ StateOk([list |-> m, count |-> c]) /\ Len(m) = Len(s.list)
          /\ \A j \in 1 .. Len(m) : m[j] = IF j = k THEN new ELSE s.list[j]
      BY <2>4, <3>2, <3>3, ReplaceOk, SMTT(30)
    <3> HIDE DEF m
    <3>5. NoneEmpty(m)
      BY <2>1, <2>4, <3>4, Zenon DEF NoneEmpty
    <3>6. Members(e.frags) \subseteq Members(frags)
      <4> SUFFICES ASSUME NEW j \in 1 .. Len(e.frags) PROVE \E q \in 1 .. Len(frags) : frags[q] = e.frags[j]
        <5>1. /\ Members(e.frags) = {e.frags[j] : j \in 1 .. Len(e.frags)}
              /\ Members(frags) = {frags[j] : j \in 1 .. Len(frags)}
          BY <1>1, <2>1, SeqLen, Zenon DEF Members
        <5> QED BY <5>1, Zenon
      <4>1. Len(e.frags) \in Nat /\ Len(frags) = Len(e.frags) + 1
        BY <1>1, <2>1 DEF IsInserted
      <4>2. e.frags[j] = IF j < i THEN frags[j] ELSE frags[j + 1]
        BY <2>1, <4>1, InsertedInverse, Zenon
      <4>3. j \in 1 .. Len(frags) /\ j + 1 \in 1 .. Len(frags)
        BY <4>1
      <4> QED BY <4>2, <4>3, Zenon
    <3>7. Survives(e, list', up')
      BY <2>4, <3>1, <3>4, <3>6, Zenon DEF Survives
    <3>8. SameTimers(s.list, list')
      BY <2>4, <3>1, <3>4, Zenon DEF SameTimers, HasTimer
    <3>9. OthersStay(s.list, list', s.list[k].id) /\ OthersFrom(s.list, list', s.list[k].id)
      BY <2>4, <3>1, <3>4, ReplaceStays, Zenon
    <3> QED BY <1>4, <3>1, <3>4, <3>5, <3>7, <3>8, <3>9, Zenon DEF Good
  <2> QED BY <2>6, <2>7
<1> QED BY <1>5, <1>6

-----------------------------------------------------------------------------
(* The steps. *)

\* The look-up: what it finds is the entry, and it finds the entry if there is one.
LEMMA LookupIs ==
  ASSUME NEW l, NEW id, Len(l) \in Nat, DOMAIN l = 1 .. Len(l)
  PROVE  \/ Lookup(l, id) = 0 /\ \A j \in 1 .. Len(l) : l[j].id # id
         \/ Lookup(l, id) \in 1 .. Len(l) /\ l[Lookup(l, id)].id = id
<1> DEFINE I == {i \in 1 .. Len(l) : l[i].id = id}
<1>1. Lookup(l, id) = IF I = {} THEN 0 ELSE Least(I)
  BY DEF Lookup
<1>2. I # {} => Least(I) \in I
  <2>1. I \in SUBSET Nat
    OBVIOUS
  <2> HIDE DEF I
  <2> QED BY <2>1, LeastMember
<1> QED BY <1>1, <1>2

\* From s to u others may have gone, and a new entry of datagram id may have come.
Enqueued(s, u, id) ==
  /\ StateOk(u) /\ u.count <= s.count /\ Len(u.list) <= NumReass
  /\ \/ NoneEmpty(u.list) /\ \A j \in 1 .. Len(u.list) : u.list[j].id # id
     \/ \A j \in 1 .. Len(u.list) : u.list[j].id # id => u.list[j].frags # <<>>
  /\ \A j \in 1 .. Len(u.list) : u.list[j].id = id \/ \E q \in 1 .. Len(s.list) : u.list[j] = s.list[q]
  /\ OldestGo(s.list, u.list, id) /\ (Len(s.list) < NumReass => OthersStay(s.list, u.list, id))

\* A datagram gets its entry, which is first in the list and has no fragments yet.
LEMMA EnqueueIs ==
  ASSUME NEW s, StateOk(s), NoneEmpty(s.list), Len(s.list) <= NumReass, NEW id \in Ids, NEW f \in Incoming,
         \A j \in 1 .. Len(s.list) : s.list[j].id # id
  PROVE  Enqueued(s, Enqueue(s, id, f), id)
<1> DEFINE t == IF Len(s.list) < NumReass THEN s ELSE RemoveOldest(s, id, Clen(f))
           e == NewEntry(id, f)
           u == Enqueue(s, id, f)
<1>1. /\ s.list \in Seq(Entries) /\ Len(s.list) \in Nat /\ s.count \in Nat /\ Clen(f) \in Nat /\ Clen(f) > 0
      /\ NumReass \in Nat /\ MaxAge \in Nat
  BY AllPbufsNat, IncomingClen, ConstantFacts DEF StateOk, ListOk
<1>2. Kept(s, t, id)
  <2>1. Kept(s, s, id)
    BY KeptAll
  <2> QED BY <2>1, RemoveOldestKeeps
<1>3. u = IF Len(s.list) < NumReass \/ s.count - t.count >= Clen(f)
          THEN [t EXCEPT !.list = <<e>> \o @] ELSE t
  BY DEF Enqueue
<1>4. Len(s.list) < NumReass => t = s
  OBVIOUS
<1> HIDE DEF t, u
<1>5. /\ StateOk(t) /\ t.list \in Seq(Entries) /\ Len(t.list) \in Nat /\ t.count \in Nat
      /\ t.count <= s.count /\ NoneEmpty(t.list) /\ Len(t.list) <= Len(s.list)
      /\ \A j \in 1 .. Len(t.list) : t.list[j].id # id /\ \E q \in 1 .. Len(s.list) : t.list[j] = s.list[q]
  <2>1. StateOk(t) /\ t.count <= s.count /\ NoneEmpty(t.list)
    BY <1>2 DEF Kept
  <2>2. t.list \in Seq(Entries) /\ Len(t.list) \in Nat /\ t.count \in Nat
    BY <2>1, AllPbufsNat DEF StateOk, ListOk
  <2>3. Len(t.list) <= Len(s.list)
    BY <1>1, <1>2, <2>2 DEF Kept
  <2>4. \A j \in 1 .. Len(t.list) : t.list[j].id # id /\ \E q \in 1 .. Len(s.list) : t.list[j] = s.list[q]
    BY <1>2 DEF Kept
  <2> QED BY <2>1, <2>2, <2>3, <2>4
<1>6. CASE ~(Len(s.list) < NumReass \/ s.count - t.count >= Clen(f))
  <2>1. u = t
    BY <1>3, <1>6
  <2>2. Len(t.list) <= NumReass
    BY <1>1, <1>5
  <2>3. OldestGo(s.list, t.list, id)
    BY <1>2, Zenon DEF Kept
  <2>4. Enqueued(s, u, id)
    BY <1>5, <1>6, <2>1, <2>2, <2>3, Zenon DEF Enqueued
  <2> QED BY <2>4 DEF u
<1>7. CASE Len(s.list) < NumReass \/ s.count - t.count >= Clen(f)
  <2> DEFINE m == <<e>> \o t.list
  <2>1. u = [list |-> m, count |-> t.count]
    BY <1>3, <1>5, <1>7, Zenon DEF StateOk
  <2>2. /\ e \in Entries /\ e.id = id /\ e.frags = <<>> /\ ~e.last
    <3>1. f.start \in 0 .. Size
      <4>1. CASE f \in Fragments
        BY <4>1, ConstantFacts DEF Fragments
      <4>2. CASE f \in Overlong
        BY <4>2, ConstantFacts DEF Overlong
      <4> QED BY <4>1, <4>2 DEF Incoming
    <3> QED BY <1>1, <3>1, SMTT(30) DEF NewEntry, Entries
  <2> HIDE DEF e
  <2>3. EntryOk(e)
    BY <2>2 DEF EntryOk, Sorted, Complete
  <2>4. m \in Seq(Entries) /\ IsInserted(m, t.list, 1, e)
    <3>1. <<e>> \in Seq(Entries) /\ Len(<<e>>) = 1 /\ <<e>>[1] = e
      BY <2>2
    <3>2. /\ m \in Seq(Entries) /\ Len(m) = Len(<<e>>) + Len(t.list)
          /\ \A i \in 1 .. Len(<<e>>) + Len(t.list) :
               m[i] = IF i <= Len(<<e>>) THEN <<e>>[i] ELSE t.list[i - Len(<<e>>)]
      BY <1>5, <3>1, ConcatIs
    <3>3. Len(m) = Len(t.list) + 1
      BY <1>5, <3>1, <3>2
    <3>4. ASSUME NEW i \in 1 .. Len(m) PROVE m[i] = IF i < 1 THEN t.list[i] ELSE IF i = 1 THEN e ELSE t.list[i - 1]
      <4>1. m[i] = IF i <= 1 THEN <<e>>[i] ELSE t.list[i - 1]
        BY <3>1, <3>2
      <4>2. ~(i < 1) /\ (i <= 1 <=> i = 1)
        BY <1>5, <3>3
      <4> QED BY <3>1, <4>1, <4>2
    <3> QED BY <3>2, <3>3, <3>4 DEF IsInserted
  <2>5. Pbufs(e) = 0
    BY <2>2, PbufsEmpty
  <2>6. AllPbufs(m) = t.count
    <3>1. 1 \in 1 .. Len(t.list) + 1
      BY <1>5
    <3>2. AllPbufs(m) = AllPbufs(t.list) + Pbufs(e)
      BY <1>5, <2>2, <2>4, <3>1, AllPbufsInsert, Zenon
    <3> QED BY <1>5, <2>5, <3>2 DEF StateOk
  <2> HIDE DEF m
  <2>7. /\ Len(m) = Len(t.list) + 1 /\ m[1] = e
        /\ \A j \in 1 .. Len(m) : j # 1 => j - 1 \in 1 .. Len(t.list) /\ m[j] = t.list[j - 1]
    <3>1. Len(t.list) \in Nat
      BY <1>5
    <3> QED BY <2>4, <3>1 DEF IsInserted
  <2>8. ListOk(m)
    <3>1. \A j \in 1 .. Len(m) : EntryOk(m[j])
      BY <1>5, <2>3, <2>7 DEF StateOk, ListOk
    <3>2. ASSUME NEW j \in 1 .. Len(m), NEW k \in 1 .. Len(m), m[j].id = m[k].id PROVE j = k
      <4>1. j # 1 /\ k # 1 => j - 1 = k - 1
        <5>1. \A a, b \in 1 .. Len(t.list) : t.list[a].id = t.list[b].id => a = b
          BY <1>5 DEF StateOk, ListOk
        <5> DEFINE a == j - 1
                   b == k - 1
        <5>2. j # 1 /\ k # 1 => /\ a \in 1 .. Len(t.list) /\ b \in 1 .. Len(t.list)
                               /\ t.list[a].id = t.list[b].id
          BY <2>7, <3>2, Zenon
        <5> HIDE DEF a, b
        <5>3. j # 1 /\ k # 1 => a = b
          BY <5>1, <5>2
        <5> QED BY <5>3 DEF a, b
      <4>2. j = 1 <=> k = 1
        BY <1>5, <2>2, <2>7, <3>2, Zenon
      <4> QED BY <4>1, <4>2
    <3> QED BY <2>4, <3>1, <3>2 DEF ListOk
  <2>9. Len(m) <= NumReass
    <3>1. CASE Len(s.list) < NumReass
      BY <1>1, <1>4, <2>7, <3>1
    <3>2. CASE s.count - t.count >= Clen(f)
      <4>1. t.count # s.count
        BY <1>1, <1>5, <3>2
      <4>2. Len(t.list) < Len(s.list)
        BY <1>2, <4>1 DEF Kept
      <4> QED BY <1>1, <1>5, <2>7, <4>2
    <3> QED BY <1>7, <3>1, <3>2
  <2>10. \A j \in 1 .. Len(m) : m[j].id # id => m[j].frags # <<>>
    <3>1. NoneEmpty(t.list)
      BY <1>5
    <3> QED BY <2>2, <2>7, <3>1 DEF NoneEmpty
  <2>11. StateOk([list |-> m, count |-> t.count])
    BY <2>6, <2>8 DEF StateOk
  <2>12. \A j \in 1 .. Len(m) : m[j].id = id \/ \E q \in 1 .. Len(s.list) : m[j] = s.list[q]
    <3>1. \A j \in 1 .. Len(t.list) : \E q \in 1 .. Len(s.list) : t.list[j] = s.list[q]
      BY <1>5
    <3> QED BY <2>2, <2>7, <3>1, ZenonT(30)
  <2>13. u.list = m /\ u.count = t.count /\ StateOk(u) /\ u.count <= s.count
    BY <1>5, <2>1, <2>11
  <2>14. OthersFrom(t.list, m, id)
    BY <2>2, <2>7, Zenon DEF OthersFrom, In
  <2>15. OthersStay(t.list, m, id)
    <3> SUFFICES ASSUME NEW j \in 1 .. Len(t.list) PROVE In(t.list[j], m)
      BY Zenon DEF OthersStay
    <3>1. j + 1 \in 1 .. Len(m) /\ j + 1 # 1 /\ (j + 1) - 1 = j
      BY <1>5, <2>7
    <3>2. m[j + 1] = t.list[j]
      BY <2>7, <3>1
    <3> QED BY <3>1, <3>2, Zenon DEF In
  <2>16. OldestGo(s.list, m, id)
    <3>1. OldestGo(s.list, t.list, id)
      BY <1>2, Zenon DEF Kept
    <3> QED BY <2>14, <2>15, <3>1, OthersCompose, Zenon
  <2>17. Len(s.list) < NumReass => OthersStay(s.list, m, id)
    BY <1>4, <2>15
  <2>18. Enqueued(s, u, id)
    BY <2>9, <2>10, <2>12, <2>13, <2>16, <2>17, Zenon DEF Enqueued
  <2> QED BY <2>18 DEF u
<1> QED BY <1>6, <1>7

\* A datagram of both lists has the same timer in both.
TimersStay(l, m) ==
  \A q \in 1 .. Len(l), j \in 1 .. Len(m) : m[j].id = l[q].id => m[j].timer = l[q].timer

\* The entries of l and of m, but for one of a datagram that l does not know, are
\* the same datagrams with the same timers.
LEMMA TimersStayIf ==
  ASSUME NEW l, NEW m, NEW id, \A j, k \in 1 .. Len(l) : l[j].id = l[k].id => j = k,
         \A q \in 1 .. Len(l) : l[q].id # id,
         \A j \in 1 .. Len(m) : m[j].id = id \/ HasTimer(m[j], l)
  PROVE  TimersStay(l, m)
BY DEF TimersStay, HasTimer

\* The entries of m are all of datagrams of l.
LEMMA TimersStaySame ==
  ASSUME NEW l, NEW m, \A j, k \in 1 .. Len(l) : l[j].id = l[k].id => j = k, SameTimers(l, m)
  PROVE  TimersStay(l, m)
BY DEF TimersStay, SameTimers, HasTimer

\* A fragment comes in.
LEMMA ReassStep ==
  ASSUME ReassInv, NEW id \in Ids, NEW f \in Incoming, ip4_reass(id, f)
  PROVE  /\ Good(list', count', up')
         /\ \A k \in 1 .. Len(list) : list[k].id = id => Survives(list[k], list', up')
         /\ TimersStay(list, list')
         /\ OldestGo(list, list', id) /\ (~Crowded(id, f) => OthersStay(list, list', id))
<1> DEFINE now == [list |-> list, count |-> count]
           s == IF count + Clen(f) > MaxPbufs THEN RemoveOldest(now, id, Clen(f)) ELSE now
           t == IF Lookup(s.list, id) = 0 THEN Enqueue(s, id, f) ELSE s
           n == Lookup(t.list, id)
<1>1. /\ StateOk(now) /\ NoneEmpty(now.list) /\ now.list = list /\ now.count = count
      /\ Len(list) <= NumReass /\ count <= MaxPbufs
  BY Zenon DEF ReassInv, Good
<1>2. IF s.count + Clen(f) > MaxPbufs THEN Becomes(s, <<>>)
      ELSE IF n = 0 THEN Becomes(t, <<>>) ELSE Chain(t, n, f)
  BY Zenon DEF ip4_reass, TooMany
<1>3. Kept(now, s, id)
  <2>1. Kept(now, now, id)
    BY <1>1, KeptAll
  <2> QED BY <1>1, <2>1, RemoveOldestKeeps, Zenon
<1>4. t = IF Lookup(s.list, id) = 0 THEN Enqueue(s, id, f) ELSE s
  BY Zenon
<1>13. ~Crowded(id, f) => s.list = list
  BY <1>1, Zenon DEF Crowded
<1> HIDE DEF s, t, now
<1>5. /\ StateOk(s) /\ NoneEmpty(s.list) /\ Len(s.list) <= NumReass /\ s.count <= MaxPbufs
      /\ s.count \in Nat /\ Clen(f) \in Nat /\ MaxPbufs \in Nat /\ Len(s.list) \in Nat
      /\ \A k \in 1 .. Len(list) : list[k].id = id => \E j \in 1 .. Len(s.list) : s.list[j] = list[k]
  <2>1. StateOk(s) /\ NoneEmpty(s.list) /\ s.count <= count
    BY <1>1, <1>3 DEF Kept
  <2>2. /\ s.count \in Nat /\ Clen(f) \in Nat /\ MaxPbufs \in Nat /\ Len(s.list) \in Nat
        /\ count \in Nat /\ Len(list) \in Nat /\ NumReass \in Nat
    BY <1>1, <2>1, AllPbufsNat, IncomingClen, ConstantFacts DEF StateOk, ListOk
  <2>3. Len(s.list) <= Len(list)
    BY <1>1, <1>3, <2>2 DEF Kept
  <2>4. \A k \in 1 .. Len(list) : list[k].id = id => \E j \in 1 .. Len(s.list) : s.list[j] = list[k]
    BY <1>1, <1>3 DEF Kept
  <2>5. Len(s.list) <= NumReass /\ s.count <= MaxPbufs
    BY <1>1, <2>1, <2>2, <2>3
  <2> QED BY <2>1, <2>2, <2>4, <2>5, ZenonT(30)
<1>6. <<>> \in Seq(Fragments) /\ Sorted(<<>>)
  BY DEF Sorted
<1>9. \A j \in 1 .. Len(s.list) : \E q \in 1 .. Len(list) : s.list[j] = list[q]
  BY <1>1, <1>3, Zenon DEF Kept
<1>10. \A j, k \in 1 .. Len(list) : list[j].id = list[k].id => j = k
  BY <1>1, Zenon DEF StateOk, ListOk
<1>11. ASSUME SameTimers(s.list, list') PROVE TimersStay(list, list')
  <2>1. SameTimers(list, list')
    BY <1>9, <1>11, HasTimerLonger DEF SameTimers
  <2> QED BY <1>10, <2>1, TimersStaySame
<1>12. s.count \in Nat /\ Clen(f) \in Nat /\ MaxPbufs \in Nat /\ s.count <= MaxPbufs
  BY <1>5, Zenon
<1>14. OldestGo(list, s.list, id)
  BY <1>1, <1>3, Zenon DEF Kept
<1>7. CASE s.count + Clen(f) > MaxPbufs
  <2>1. list' = s.list /\ count' = s.count /\ up' = <<>>
    BY <1>2, <1>7 DEF Becomes
  <2>2. StateOk([list |-> s.list, count |-> s.count])
    BY <1>5 DEF StateOk
  <2>3. Good(list', count', up')
    BY <1>5, <1>6, <2>1, <2>2 DEF Good
  <2>4. \A k \in 1 .. Len(list) : list[k].id = id => Survives(list[k], list', up')
    BY <1>5, <2>1, Zenon DEF Survives
  <2>5. TimersStay(list, list')
    BY <1>11, <2>1 DEF SameTimers, HasTimer
  <2>6. OldestGo(list, list', id) /\ (~Crowded(id, f) => OthersStay(list, list', id))
    BY <1>13, <1>14, <2>1, OthersSame, Zenon
  <2> QED BY <2>3, <2>4, <2>5, <2>6, Zenon
<1>8. CASE ~(s.count + Clen(f) > MaxPbufs)
  <2>1. \/ Lookup(s.list, id) = 0 /\ \A j \in 1 .. Len(s.list) : s.list[j].id # id
        \/ Lookup(s.list, id) \in 1 .. Len(s.list) /\ s.list[Lookup(s.list, id)].id = id
    <3>1. DOMAIN s.list = 1 .. Len(s.list)
      BY <1>5 DEF StateOk, ListOk
    <3> QED BY <1>5, <3>1, LookupIs
  <2>2. CASE Lookup(s.list, id) = 0
    <3>1. \A j \in 1 .. Len(s.list) : s.list[j].id # id
      BY <1>5, <2>1, <2>2
    <3>2. t = Enqueue(s, id, f)
      BY <1>4, <2>2
    <3>3. /\ StateOk(t) /\ t.count <= s.count /\ Len(t.list) <= NumReass
          /\ \/ NoneEmpty(t.list) /\ \A j \in 1 .. Len(t.list) : t.list[j].id # id
             \/ \A j \in 1 .. Len(t.list) : t.list[j].id # id => t.list[j].frags # <<>>
          /\ \A j \in 1 .. Len(t.list) : t.list[j].id = id \/ \E q \in 1 .. Len(s.list) : t.list[j] = s.list[q]
          /\ OldestGo(s.list, t.list, id) /\ (Len(s.list) < NumReass => OthersStay(s.list, t.list, id))
      <4>1. Enqueued(s, t, id)
        BY <1>5, <3>1, <3>2, EnqueueIs
      <4> QED BY <4>1, Zenon DEF Enqueued
    <3>4. t.count \in Nat /\ Len(t.list) \in Nat /\ DOMAIN t.list = 1 .. Len(t.list)
      BY <3>3, AllPbufsNat DEF StateOk, ListOk
    <3>10. t.count \in Nat /\ t.count <= s.count
      BY <3>3, <3>4, Zenon
    <3>5. \/ n = 0 /\ \A j \in 1 .. Len(t.list) : t.list[j].id # id
          \/ n \in 1 .. Len(t.list) /\ t.list[n].id = id
      BY <3>4, LookupIs
    <3> HIDE DEF n
    <3>6. \A k \in 1 .. Len(list) : list[k].id # id
      BY <1>5, <3>1, Zenon
    <3>9. ASSUME SameTimers(t.list, list') PROVE TimersStay(list, list')
      <4>1. ASSUME NEW j \in 1 .. Len(list'), list'[j].id # id PROVE HasTimer(list'[j], list)
        <5>1. PICK q \in 1 .. Len(t.list) : list'[j].id = t.list[q].id /\ list'[j].timer = t.list[q].timer
          BY <3>9 DEF SameTimers, HasTimer
        <5>2. PICK r \in 1 .. Len(s.list) : t.list[q] = s.list[r]
          BY <3>3, <4>1, <5>1
        <5>3. HasTimer(list'[j], s.list)
          BY <5>1, <5>2 DEF HasTimer
        <5> QED BY <1>9, <5>3, HasTimerLonger, Zenon
      <4> QED BY <1>10, <3>6, <4>1, TimersStayIf, Zenon
    <3>11. OldestGo(list, t.list, id)
      <4>1. OthersFrom(s.list, t.list, id)
        BY <3>3, Zenon DEF OthersFrom, In
      <4> QED BY <1>14, <3>3, <4>1, OthersCompose, Zenon
    <3>12. ~Crowded(id, f) => OthersStay(list, t.list, id)
      <4> SUFFICES ASSUME ~Crowded(id, f) PROVE OthersStay(list, t.list, id)
        OBVIOUS
      <4>1. Len(list) # NumReass
        <5>1. DOMAIN list = 1 .. Len(list)
          BY <1>1 DEF StateOk, ListOk
        <5> QED BY <3>6, <5>1, Zenon DEF Crowded
      <4>2. Len(s.list) \in Nat /\ NumReass \in Nat /\ s.list = list /\ Len(s.list) <= NumReass
        BY <1>5, <1>13, ConstantFacts, Zenon
      <4>3. Len(s.list) < NumReass
        BY ONLY <4>1, <4>2
      <4> QED BY <3>3, <4>2, <4>3, Zenon
    <3>7. CASE n = 0
      <4>1. list' = t.list /\ count' = t.count /\ up' = <<>>
        BY <1>2, <1>8, <3>7 DEF Becomes
      <4>2. \A j \in 1 .. Len(t.list) : t.list[j].id # id
        BY <3>4, <3>5, <3>7
      <4>3. NoneEmpty(t.list) /\ StateOk([list |-> t.list, count |-> t.count])
        BY <3>3, <4>2, Zenon DEF NoneEmpty, StateOk
      <4>4. t.count <= MaxPbufs
        BY ONLY <1>12, <3>10
      <4>5. TimersStay(list, list')
        BY <3>9, <4>1 DEF SameTimers, HasTimer
      <4>6. Good(list', count', up')
        BY <1>6, <3>3, <4>1, <4>3, <4>4 DEF Good
      <4> QED BY <3>6, <3>11, <3>12, <4>1, <4>5, <4>6, Zenon
    <3>8. CASE n # 0
      <4>1. Chain(t, n, f) /\ n \in 1 .. Len(t.list) /\ t.list[n].id = id
        BY <1>2, <1>8, <3>5, <3>8
      <4>2. \A j \in 1 .. Len(t.list) : j # n => t.list[j].id # id
        BY <3>3, <4>1, Zenon DEF StateOk, ListOk
      <4>3. \A j \in 1 .. Len(t.list) : j # n => t.list[j].frags # <<>>
        BY <3>3, <4>1, <4>2, Zenon
      <4>4. t.count + Clen(f) <= MaxPbufs
        BY ONLY <1>8, <1>12, <3>10
      <4>5. /\ Good(list', count', up') /\ SameTimers(t.list, list')
            /\ OthersStay(t.list, list', id) /\ OthersFrom(t.list, list', id)
        BY <3>3, <4>1, <4>3, <4>4, ChainStep, Zenon
      <4>6. OldestGo(list, list', id)
        BY <3>11, <4>5, OthersCompose, Zenon
      <4>7. ~Crowded(id, f) => OthersStay(list, list', id)
        BY <3>12, <4>5, OthersCompose, Zenon
      <4> QED BY <3>6, <3>9, <4>5, <4>6, <4>7, Zenon
    <3> QED BY <3>7, <3>8, Zenon
  <2>3. CASE Lookup(s.list, id) # 0
    <3>1. t = s
      BY <1>4, <2>3, Zenon
    <3>2. n \in 1 .. Len(s.list) /\ s.list[n].id = id
      BY <2>1, <2>3, <3>1, Zenon
    <3>3. n # 0
      BY <1>5, <3>2
    <3> HIDE DEF n
    <3>4. Chain(s, n, f)
      BY <1>2, <1>8, <3>1, <3>3
    <3>5. \A j \in 1 .. Len(s.list) : j # n => s.list[j].frags # <<>>
      BY <1>5 DEF NoneEmpty
    <3>6. s.count + Clen(f) <= MaxPbufs
      BY ONLY <1>8, <1>12
    <3>7. /\ Good(list', count', up') /\ Survives(s.list[n], list', up') /\ SameTimers(s.list, list')
          /\ OthersStay(s.list, list', id) /\ OthersFrom(s.list, list', id)
      <4>1. s.list[n].frags # <<>>
        BY <1>5, <3>2, Zenon DEF NoneEmpty
      <4> QED BY <1>5, <3>2, <3>4, <3>5, <3>6, <4>1, ChainStep, Zenon
    <3>8. \A k \in 1 .. Len(list) : list[k].id = id => list[k] = s.list[n]
      BY <1>5, <3>2, Zenon DEF StateOk, ListOk
    <3>9. OldestGo(list, list', id)
      BY <1>14, <3>7, OthersCompose, Zenon
    <3>10. ~Crowded(id, f) => OthersStay(list, list', id)
      BY <1>13, <3>7, Zenon
    <3> QED BY <1>11, <3>7, <3>8, <3>9, <3>10, Zenon
  <2> QED BY <2>2, <2>3, Zenon
<1> QED BY <1>7, <1>8

\* A datagram of both lists is a second older in the other.
TimersDrop(l, m) ==
  \A q \in 1 .. Len(l), j \in 1 .. Len(m) : m[j].id = l[q].id => l[q].timer = m[j].timer + 1

\* A second passes.
LEMMA TmrStep ==
  ASSUME ReassInv, ip_reass_tmr
  PROVE  Good(list', count', up') /\ TimersDrop(list, list')
<1> DEFINE now == [list |-> list, count |-> count]
           t == FreeExpired(now)
<1>1. /\ StateOk(now) /\ NoneEmpty(now.list) /\ now.list = list /\ now.count = count
      /\ Len(list) <= NumReass /\ count <= MaxPbufs
  BY DEF ReassInv, Good
<1>2. list' = t.list /\ count' = t.count /\ up' = <<>>
  BY DEF ip_reass_tmr, Becomes
<1>3. Aged(now, t, Len(now.list))
  BY <1>1, FreeExpiredAges
<1> HIDE DEF t, now
<1>4. StateOk(t) /\ t.count <= count /\ NoneEmpty(t.list) /\ Len(t.list) <= Len(list)
  BY <1>1, <1>3 DEF Aged
<1>5. /\ t.count \in Nat /\ MaxPbufs \in Nat /\ Len(t.list) \in Nat
      /\ count \in Nat /\ Len(list) \in Nat /\ NumReass \in Nat
  BY <1>1, <1>4, AllPbufsNat, ConstantFacts DEF StateOk, ListOk
<1>6. t.count <= MaxPbufs /\ Len(t.list) <= NumReass
  BY <1>1, <1>4, <1>5
<1>7. StateOk([list |-> t.list, count |-> t.count])
  BY <1>4 DEF StateOk
<1>8. <<>> \in Seq(Fragments) /\ Sorted(<<>>)
  BY DEF Sorted
<1>9. TimersDrop(list, list')
  <2>1. \A j \in 1 .. Len(t.list) : j + (Len(list) - Len(t.list)) <= Len(list)
    BY <1>5
  <2>2. \A j \in 1 .. Len(t.list) : \E q \in 1 .. Len(list) : SecondOlder(t.list[j], list[q])
    BY <1>1, <1>3, <2>1, Zenon DEF Aged, Aging
  <2>3. \A j, k \in 1 .. Len(list) : list[j].id = list[k].id => j = k
    BY <1>1, Zenon DEF StateOk, ListOk
  <2> QED BY <1>2, <2>2, <2>3, Zenon DEF TimersDrop, SecondOlder
<1>10. Good(list', count', up')
  BY <1>2, <1>4, <1>6, <1>7, <1>8 DEF Good
<1> QED BY <1>9, <1>10

\* Nothing waits at first.
LEMMA ReassInit == ASSUME Init PROVE ReassInv
<1>1. <<>> \in Seq(Entries) /\ Len(<<>>) = 0 /\ <<>> \in Seq(Fragments)
  OBVIOUS
<1>2. AllPbufs(<<>>) = 0
  <2> DEFINE w == [k \in 1 .. Len(<<>>) |-> Pbufs(<<>>[k])]
  <2>1. Len(w) = 0
    OBVIOUS
  <2> HIDE DEF w
  <2>2. PICK u : IsSums(u, w, Len(w)) /\ Total(w) = u[Len(w)]
    BY <2>1, TotalIs
  <2>3. Total(w) = 0
    BY <2>1, <2>2 DEF IsSums
  <2> QED BY <2>3 DEF AllPbufs, w
<1>3. StateOk([list |-> <<>>, count |-> 0])
  BY <1>1, <1>2 DEF StateOk, ListOk
<1> QED BY <1>1, <1>3, ConstantFacts DEF Init, ReassInv, Good, NoneEmpty, Sorted

-----------------------------------------------------------------------------
(* The theorems. *)

\* The inductive invariant of reassembly.
THEOREM ReassInvariant == Spec => []ReassInv
<1>1. Init => ReassInv
  BY ReassInit
<1>2. ReassInv /\ [Next]_vars => ReassInv'
  <2> SUFFICES ASSUME ReassInv, [Next]_vars PROVE ReassInv'
    OBVIOUS
  <2>1. ASSUME NEW id \in Ids, NEW f \in Incoming, ip4_reass(id, f) PROVE ReassInv'
    BY <2>1, ReassStep DEF ReassInv
  <2>2. ASSUME ip_reass_tmr PROVE ReassInv'
    BY <2>2, TmrStep DEF ReassInv
  <2>3. ASSUME UNCHANGED vars PROVE ReassInv'
    BY <2>3 DEF ReassInv, vars
  <2> QED BY <2>1, <2>2, <2>3 DEF Next
<1> QED BY <1>1, <1>2, PTL DEF Spec

\* ip_reass_pbufcount is exact, for any limit and any number of datagrams.
THEOREM ReassCountExact == Spec => []CountExact
<1>1. ReassInv => CountExact
  BY DEF ReassInv, Good, StateOk, CountExact
<1> QED BY <1>1, ReassInvariant, PTL

\* Every unit of a complete list of fragments is in exactly one of them.
LEMMA CompleteCovers ==
  ASSUME NEW frags \in Seq(Fragments), Sorted(frags), Complete(frags), NEW u \in 0 .. Size - 1
  PROVE  \E k \in DOMAIN frags : Sources(frags, u) = {k}
<1> DEFINE K == {k \in DOMAIN frags : frags[k].start <= u /\ u < frags[k].end}
           T == {k \in 1 .. Len(frags) : u < frags[k].end}
           first == Least(T)
<1>1. /\ Len(frags) \in Nat /\ DOMAIN frags = 1 .. Len(frags) /\ u \in Nat /\ Size \in Nat
      /\ \A k \in 1 .. Len(frags) : /\ frags[k].start \in Nat /\ frags[k].end \in Nat
                                    /\ frags[k].start < frags[k].end
  BY FragmentFacts, ConstantFacts
<1>2. Len(frags) \in 1 .. Len(frags)
  BY <1>1 DEF Complete
<1>3. Len(frags) \in T
  BY <1>1, <1>2 DEF Complete
<1>4. first \in T /\ \A k \in T : first <= k
  <2>1. T \in SUBSET Nat /\ T # {}
    BY <1>1, <1>3
  <2> HIDE DEF T
  <2> QED BY <2>1, LeastMember
<1> HIDE DEF first
<1>5. frags[first].start <= u
  <2>1. CASE first = 1
    BY <1>1, <2>1 DEF Complete
  <2>2. CASE first # 1
    <3>1. first - 1 \in 1 .. Len(frags) - 1 /\ ~(first <= first - 1) /\ (first - 1) + 1 = first
      BY <1>1, <1>4, <2>2
    <3>2. frags[first - 1].end = frags[first].start
      BY <3>1, Zenon DEF Complete, Joined
    <3>3. first - 1 \in 1 .. Len(frags) /\ ~(u < frags[first - 1].end)
      BY <1>1, <1>4, <3>1
    <3> QED BY <1>1, <3>2, <3>3
  <2> QED BY <2>1, <2>2
<1>6. first \in K
  BY <1>1, <1>4, <1>5
<1>7. ASSUME NEW k \in K PROVE k = first
  <2>1. k \in 1 .. Len(frags) /\ first \in 1 .. Len(frags)
    BY <1>1, <1>4
  <2>2. /\ k < first => frags[k].end <= frags[first].start
        /\ first < k => frags[first].end <= frags[k].start
    BY <2>1, Zenon DEF Sorted
  <2>3. ~(k < first) /\ ~(first < k)
    BY <1>1, <1>4, <1>5, <2>1, <2>2, SMTT(30)
  <2> QED BY <2>1, <2>3
<1>8. K = {first}
  BY <1>6, <1>7
<1> QED BY <1>6, <1>8 DEF Sources

\* The datagrams that ip4_reass returns are whole, for any cut into fragments.
THEOREM ReassWholeDatagram == Spec => []WholeDatagram
<1>1. ReassInv => WholeDatagram
  <2> SUFFICES ASSUME ReassInv, up # <<>>
               PROVE  /\ \A u \in 0 .. Size - 1 : \E k \in DOMAIN up : Sources(up, u) = {k}
                      /\ \A j, k \in DOMAIN up : j < k => up[j].end <= up[k].start
    BY DEF WholeDatagram
  <2>1. up \in Seq(Fragments) /\ Sorted(up) /\ Complete(up) /\ DOMAIN up = 1 .. Len(up)
    BY DEF ReassInv, Good
  <2>2. \A u \in 0 .. Size - 1 : \E k \in DOMAIN up : Sources(up, u) = {k}
    BY <2>1, CompleteCovers, Zenon
  <2> QED BY <2>1, <2>2 DEF Sorted
<1> QED BY <1>1, ReassInvariant, PTL

\* A list of fragments that is not complete leaves a unit uncovered: the first one,
\* one between two fragments, or the last.
LEMMA IncompleteLeaves ==
  ASSUME NEW frags \in Seq(Fragments), frags # <<>>, Sorted(frags), ~Complete(frags)
  PROVE  \E u \in 0 .. Size - 1 : Sources(frags, u) = {}
<1> DEFINE n == Len(frags)
<1>1. /\ n \in Nat /\ n \in 1 .. n /\ 1 \in 1 .. n /\ DOMAIN frags = 1 .. n /\ Size \in Nat
      /\ \A k \in 1 .. n : /\ frags[k].start \in Nat /\ frags[k].end \in Nat
                           /\ frags[k].start < frags[k].end
                           /\ frags[k].end <= Size /\ frags[k].start < Size
  <2>1. n \in Nat /\ DOMAIN frags = 1 .. n /\ Size \in Nat
    BY FragmentFacts, ConstantFacts
  <2>2. n # 0
    OBVIOUS
  <2>3. n \in 1 .. n /\ 1 \in 1 .. n
    BY <2>1, <2>2
  <2>4. \A k \in 1 .. n : /\ frags[k].start \in Nat /\ frags[k].end \in Nat
                          /\ frags[k].start < frags[k].end
                          /\ frags[k].end <= Size /\ frags[k].start < Size
    BY FragmentFacts
  <2> QED BY <2>1, <2>3, <2>4
<1>2. \A j, k \in 1 .. n : j < k => frags[j].end <= frags[k].start
  BY DEF Sorted
<1>3. ASSUME NEW u \in 0 .. Size - 1, \A k \in 1 .. n : frags[k].end <= u \/ u < frags[k].start
      PROVE  Sources(frags, u) = {}
  BY <1>1, <1>3 DEF Sources
<1>4. frags[1].start # 0 \/ ~Joined(frags, 1, n) \/ frags[n].end # Size
  BY DEF Complete
<1> HIDE DEF n
<1>5. CASE frags[1].start # 0
  <2>1. 0 \in 0 .. Size - 1
    BY <1>1
  <2>2. ASSUME NEW k \in 1 .. n PROVE 0 < frags[k].start
    <3>1. k = 1 \/ 1 < k
      BY <1>1
    <3>2. 1 < k => frags[1].end <= frags[k].start
      BY <1>1, <1>2
    <3> QED BY <1>1, <1>5, <3>1, <3>2
  <2> QED BY <1>3, <2>1, <2>2
<1>6. CASE ~Joined(frags, 1, n)
  <2>1. PICK k \in 1 .. n - 1 : frags[k].end # frags[k + 1].start
    BY <1>6 DEF Joined
  <2>2. k \in 1 .. n /\ k + 1 \in 1 .. n /\ k < k + 1
    BY <1>1
  <2>3. frags[k].end < frags[k + 1].start
    BY <1>1, <1>2, <2>1, <2>2
  <2> DEFINE u == frags[k].end
  <2>4. u \in 0 .. Size - 1
    BY <1>1, <2>2, <2>3
  <2>5. ASSUME NEW j \in 1 .. n PROVE frags[j].end <= u \/ u < frags[j].start
    <3>1. j < k \/ j = k \/ j = k + 1 \/ k + 1 < j
      BY <1>1, <2>2
    <3>2. CASE j < k
      <4>1. frags[j].end <= frags[k].start
        BY <1>2, <2>2, <3>2
      <4> QED BY <1>1, <2>2, <4>1
    <3>3. CASE j = k
      BY <1>1, <3>3
    <3>4. CASE j = k + 1
      BY <2>3, <3>4
    <3>5. CASE k + 1 < j
      <4>1. frags[k + 1].end <= frags[j].start
        BY <1>2, <2>2, <3>5
      <4> QED BY <1>1, <2>2, <2>3, <4>1, SMTT(30)
    <3> QED BY <3>1, <3>2, <3>3, <3>4, <3>5
  <2> HIDE DEF u
  <2> QED BY <1>3, <2>4, <2>5
<1>7. CASE frags[n].end # Size
  <2>1. Size - 1 \in 0 .. Size - 1
    BY <1>1
  <2>2. ASSUME NEW k \in 1 .. n PROVE frags[k].end <= Size - 1
    <3>1. k = n \/ k < n
      BY <1>1
    <3>2. k < n => frags[k].end <= frags[n].start
      BY <1>1, <1>2, Zenon
    <3> QED BY <1>1, <1>7, <3>1, <3>2
  <2> QED BY <1>3, <2>1, <2>2
<1> QED BY <1>4, <1>5, <1>6, <1>7

\* No datagram waits that is complete, in whatever order its fragments came in.
THEOREM ReassNoneCompleteWaits == Spec => []NoneCompleteWaits
<1>1. ReassInv => NoneCompleteWaits
  <2> SUFFICES ASSUME ReassInv, NEW k \in DOMAIN list
               PROVE  \E u \in 0 .. Size - 1 : Sources(list[k].frags, u) = {}
    BY DEF NoneCompleteWaits
  <2>1. list \in Seq(Entries) /\ k \in 1 .. Len(list) /\ EntryOk(list[k]) /\ list[k].frags # <<>>
    <3>1. ListOk(list) /\ NoneEmpty(list)
      BY DEF ReassInv, Good, StateOk
    <3>2. list \in Seq(Entries) /\ k \in 1 .. Len(list)
      BY <3>1, SMTT(30) DEF ListOk
    <3> QED BY <3>1, <3>2 DEF ListOk, NoneEmpty
  <2>2. list[k].frags \in Seq(Fragments) /\ Sorted(list[k].frags) /\ ~Complete(list[k].frags)
    BY <2>1 DEF EntryOk, Entries
  <2> QED BY <2>1, <2>2, IncompleteLeaves, Zenon
<1> QED BY <1>1, ReassInvariant, PTL

\* The list of datagrams is fit for its readers.
THEOREM ReassEntriesSound == Spec => []EntriesSound
<1>1. ReassInv => EntriesSound
  <2> SUFFICES ASSUME ReassInv PROVE EntriesSound
    OBVIOUS
  <2>1. /\ ListOk(list) /\ NoneEmpty(list) /\ count = AllPbufs(list)
        /\ Len(list) <= NumReass /\ count <= MaxPbufs /\ up \in Seq(Fragments)
    BY DEF ReassInv, Good, StateOk
  <2>2. list \in Seq(Entries) /\ DOMAIN list = 1 .. Len(list)
    BY <2>1 DEF ListOk
  <2>3. count \in 0 .. MaxPbufs
    BY <2>1, <2>2, AllPbufsNat, ConstantFacts, SMTT(30)
  <2>4. \A k \in 1 .. Len(list) : /\ list[k].frags # <<>>
                                  /\ list[k].frags[1].start = 0 => list[k].hdr = 0
    BY <2>1 DEF ListOk, EntryOk, NoneEmpty
  <2>5. \A j, k \in 1 .. Len(list) : list[j].id = list[k].id => j = k
    BY <2>1 DEF ListOk
  <2> QED BY <2>1, <2>2, <2>3, <2>4, <2>5 DEF EntriesSound, TypeOK
<1> QED BY <1>1, ReassInvariant, PTL

\* A fragment never costs its own datagram anything, and other datagrams their
\* place only when the limits demand it, the oldest first.
THEOREM ReassOwnDatagramKept == Spec => OwnDatagramKept
<1> DEFINE Fate(id, f, k) ==
             \/ Stays(list[k])
             \/ list[k].id = id /\ up' # <<>>
             \/ /\ list[k].id # id /\ Crowded(id, f)
                /\ \A j \in DOMAIN list :
                     list[j].id # id /\ Stays(list[j]) => list[k].timer <= list[j].timer
           OwnKept ==
             \A id \in Ids, f \in Incoming : ip4_reass(id, f) => \A k \in DOMAIN list : Fate(id, f, k)
<1>1. ReassInv => OwnKept
  <2> SUFFICES ASSUME ReassInv, NEW id \in Ids, NEW f \in Incoming, ip4_reass(id, f), NEW k \in DOMAIN list
               PROVE  Fate(id, f, k)
    BY Zenon
  <2>1. DOMAIN list = 1 .. Len(list)
    BY DEF ReassInv, Good, StateOk, ListOk
  <2>2. /\ Good(list', count', up') /\ (list[k].id = id => Survives(list[k], list', up'))
        /\ TimersStay(list, list')
        /\ OldestGo(list, list', id) /\ (~Crowded(id, f) => OthersStay(list, list', id))
    BY <2>1, ReassStep, Zenon
  <2>3. DOMAIN list' = 1 .. Len(list')
    BY <2>2, SMTT(30) DEF Good, StateOk, ListOk
  <2>4. CASE list[k].id = id
    BY <2>2, <2>3, <2>4, Zenon DEF Survives, Stays
  <2>5. CASE list[k].id # id
    <3>1. In(list[k], list') => Stays(list[k])
      BY <2>3, Zenon DEF In, Stays
    <3>2. CASE ~Crowded(id, f)
      BY <2>1, <2>2, <2>5, <3>1, <3>2, Zenon DEF OthersStay
    <3>3. CASE NoYounger(list[k], list', id) /\ Crowded(id, f)
      <4>1. ASSUME NEW j \in DOMAIN list, list[j].id # id, Stays(list[j])
            PROVE  list[k].timer <= list[j].timer
        <5>1. PICK q \in 1 .. Len(list') : list'[q].id = list[j].id
          BY <2>3, <4>1, Zenon DEF Stays
        <5>2. list'[q].timer = list[j].timer
          BY <2>1, <2>2, <5>1, Zenon DEF TimersStay
        <5>3. list[k].timer <= list'[q].timer
          BY <3>3, <4>1, <5>1, Zenon DEF NoYounger
        <5> QED BY <5>2, <5>3, Zenon
      <4> QED BY <2>5, <3>3, <4>1, Zenon
    <3> QED BY <2>1, <2>2, <2>5, <3>1, <3>2, <3>3, Zenon DEF OldestGo
  <2> QED BY <2>4, <2>5
<1>2. ReassInv /\ [Next]_vars => [OwnKept]_vars
  BY <1>1
<1>3. Spec => [][OwnKept]_vars
  BY <1>2, ReassInvariant, PTL DEF Spec
<1> QED BY <1>3, Zenon DEF OwnDatagramKept

\* The timer of a datagram that waits is never started again: no fragment raises it,
\* and ip_reass_tmr takes a second off it or removes the entry.
TimersRunDown ==
  [][\A j \in DOMAIN list, k \in DOMAIN list' : list'[k].id = list[j].id =>
       /\ list'[k].timer <= list[j].timer
       /\ ip_reass_tmr => list'[k].timer = list[j].timer - 1]_vars

\* An entry goes after at most IP_REASS_MAXAGE + 1 calls of ip_reass_tmr, whatever
\* fragments come in meanwhile.
THEOREM ReassTimersRunDown == Spec => TimersRunDown
<1> DEFINE RunDown ==
      \A j \in DOMAIN list, k \in DOMAIN list' : list'[k].id = list[j].id =>
        /\ list'[k].timer <= list[j].timer
        /\ ip_reass_tmr => list'[k].timer = list[j].timer - 1
<1>1. ASSUME ReassInv, ReassInv', Next PROVE RunDown
  <2>1. ListOk(list) /\ ListOk(list')
    BY <1>1 DEF ReassInv, Good, StateOk
  <2> SUFFICES ASSUME NEW j \in DOMAIN list, NEW k \in DOMAIN list', list'[k].id = list[j].id
               PROVE  /\ list'[k].timer <= list[j].timer
                      /\ ip_reass_tmr => list'[k].timer = list[j].timer - 1
    BY Zenon
  <2>2. j \in 1 .. Len(list) /\ k \in 1 .. Len(list') /\ list[j] \in Entries /\ list'[k] \in Entries
    BY <2>1 DEF ListOk, EntryOk
  <2>3. list[j].timer \in Nat /\ list'[k].timer \in Nat
    <3>1. list[j].timer \in 0 .. MaxAge /\ list'[k].timer \in 0 .. MaxAge
      BY <2>2, Zenon DEF Entries
    <3> QED BY <3>1
  <2>4. ip_reass_tmr => list[j].timer = list'[k].timer + 1
    BY <1>1, <2>2, TmrStep, Zenon DEF TimersDrop
  <2>5. ~ip_reass_tmr => list'[k].timer = list[j].timer
    BY <1>1, <2>2, ReassStep, Zenon DEF Next, TimersStay
  <2> QED BY <2>3, <2>4, <2>5, SMTT(30)
<1>2. ReassInv /\ ReassInv' /\ [Next]_vars => [RunDown]_vars
  BY <1>1
<1>3. Spec => [][RunDown]_vars
  BY <1>2, ReassInvariant, PTL DEF Spec
<1> QED BY <1>3 DEF TimersRunDown
=============================================================================
