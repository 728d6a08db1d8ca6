---------------------------- MODULE MemHeapProofs ----------------------------
(***************************************************************************)
(* Proofs about the heap: for every size of the heap, of a header, of the  *)
(* smallest block and of the alignment, and for every set of requests.     *)
(***************************************************************************)
EXTENDS MemHeap, WellFoundedInduction, TLAPS

\* The list through the blocks of h, in both directions.  Beyond what mem_sanity
\* demands, the link back of a block leads to a block that leads to it.
ListOK(h) ==
  /\ 0 \in DOMAIN h /\ Size \in DOMAIN h /\ DOMAIN h \subseteq 0 .. Size
  /\ h \in [DOMAIN h -> [next : 0 .. Size, prev : 0 .. Size, used : BOOLEAN]]
  /\ h[0].prev = 0 /\ h[Size] = [next |-> Size, prev |-> Size, used |-> TRUE]
  /\ \A o \in DOMAIN h \ {Size} :
       /\ h[o].next \in DOMAIN h /\ h[o].next >= o + Hdr + MinSize
       /\ \A p \in DOMAIN h : ~(o < p /\ p < h[o].next)
       /\ h[o].next # Size => h[h[o].next].prev = o
       /\ o # 0 => h[o].prev \in DOMAIN h \ {Size} /\ h[h[o].prev].next = o

\* No two free blocks follow each other, except at block o (Size: at none).
NoFreePair(h, o) ==
  \A x \in DOMAIN h \ {Size} :
    x # o /\ h[x].next # o /\ h[x].next # Size => h[x].used \/ h[h[x].next].used

\* l is the lowest free block.
LowestFree(h, l) ==
  /\ h[l].used => l = Size
  /\ \A o \in DOMAIN h \ {Size} : ~h[o].used => l <= o

\* The blocks in use are those of the callers, and have the room they asked for.
HeldFits ==
  /\ {o \in Blocks : heap[o].used} = DOMAIN held
  /\ held \in [DOMAIN held -> Nat \ {0}]
  /\ \A o \in DOMAIN held : held[o] <= Room(heap, o)

\* The inductive invariant.
HeapInv ==
  /\ ListOK(heap) /\ NoFreePair(heap, Size)
  /\ lfree \in DOMAIN heap /\ LowestFree(heap, lfree)
  /\ HeldFits
-----------------------------------------------------------------------------
\* The constants are positive, and an offset within the heap plus a header does not overflow.
LEMMA ConstantFacts ==
  /\ Size \in Nat /\ Hdr \in Nat /\ MinSize \in Nat /\ Align \in Nat /\ Width \in Nat
  /\ Size > 0 /\ Hdr > 0 /\ MinSize > 0 /\ Align > 0 /\ Width > 0
  /\ Size + Hdr < Width /\ Hdr + MinSize <= Size
  /\ Requests \subseteq Nat
BY MemAssumption

-----------------------------------------------------------------------------
\* The walks of mem_malloc.

\* A set of numbers that is not empty has a least member.
LEMMA LeastMember ==
  ASSUME NEW T \in SUBSET Nat, T # {}
  PROVE  \E x \in T : \A y \in T : x <= y
<1>1. PICK x \in T : \A y \in T : ~(<<y, x>> \in OpToRel(<, Nat))
  BY NatLessThanWellFounded, WFMin, Zenon
<1>2. \A y \in T : ~(y < x)
  BY <1>1, Zenon DEF OpToRel
<1> QED BY <1>2

\* A walk along "next" stops at the lowest block from p on at which it may stop.
LEMMA WalkStops ==
  ASSUME NEW h, ListOK(h), NEW p \in DOMAIN h, NEW stops
  PROVE  LET q == FirstFrom(h, p, stops) IN
         /\ q \in DOMAIN h /\ p <= q /\ (q \in stops \/ q = Size)
         /\ \A x \in DOMAIN h : p <= x /\ x < q => x \notin stops
<1> DEFINE D == DOMAIN h
           Stop(x) == x \in stops \/ x = Size
           Ahead(x) == {y \in D : x <= y /\ Stop(y)}
           Low(x) == CHOOSE y \in Ahead(x) : \A z \in Ahead(x) : y <= z
           low == [x \in D |-> Low(x)]
           IsWalk(f) == f = [x \in D |-> IF x \in stops \/ x = Size THEN x ELSE f[h[x].next]]
<1>1. /\ D \subseteq Nat /\ Size \in D /\ \A x \in D : x <= Size
      /\ \A x \in D \ {Size} : /\ h[x].next \in D /\ x < h[x].next
                               /\ \A y \in D : ~(x < y /\ y < h[x].next)
  BY ConstantFacts DEF ListOK
<1>2. \A x \in D : Low(x) \in Ahead(x) /\ \A y \in Ahead(x) : Low(x) <= y
  <2> SUFFICES ASSUME NEW x \in D PROVE \E y \in Ahead(x) : \A z \in Ahead(x) : y <= z
    OBVIOUS
  <2>1. Ahead(x) \in SUBSET Nat /\ Size \in Ahead(x)
    BY <1>1
  <2> QED BY <2>1, LeastMember, Zenon
<1>3. ASSUME NEW x \in D PROVE low[x] = IF x \in stops \/ x = Size THEN x ELSE low[h[x].next]
  <2>1. CASE Stop(x)
    <3>1. x \in Ahead(x)
      BY <2>1, <1>1
    <3>2. Low(x) = x
      BY <3>1, <1>1, <1>2
    <3> QED BY <3>2, <2>1
  <2>2. CASE ~Stop(x)
    <3>1. h[x].next \in D
      BY <2>2, <1>1
    <3>2. Ahead(x) = Ahead(h[x].next)
      BY <3>1, <2>2, <1>1
    <3> HIDE DEF Ahead
    <3> QED BY <3>1, <3>2, <2>2
  <2> QED BY <2>1, <2>2, Zenon
<1>4. IsWalk(low)
  <2>1. low = [x \in D |-> low[x]]
    OBVIOUS
  <2> HIDE DEF low
  <2> QED BY <1>3, <2>1
<1> HIDE DEF low
<1> DEFINE walk == CHOOSE f : IsWalk(f)
<1>5. IsWalk(walk)
  BY <1>4, Zenon
<1>6. FirstFrom(h, p, stops) = walk[p]
  BY DEF FirstFrom
<1> HIDE DEF walk
<1>7. \A x \in D : walk[x] = IF x \in stops \/ x = Size THEN x ELSE walk[h[x].next]
  BY <1>5
<1>8. \A x \in D : walk[x] = Low(x)
  <2> DEFINE Off == {x \in D : walk[x] # Low(x)}
             OffBack == {n \in Nat : \E x \in Off : n = Size - x}
  <2> SUFFICES ASSUME Off # {} PROVE FALSE
    OBVIOUS
  <2>1. OffBack \in SUBSET Nat /\ OffBack # {}
    <3>1. PICK x \in Off : TRUE
      OBVIOUS
    <3>2. Size - x \in Nat
      BY <1>1
    <3> HIDE DEF Off
    <3> QED BY <3>1, <3>2
  <2>2. PICK n \in OffBack : \A m \in OffBack : n <= m
    BY <2>1, LeastMember, Zenon
  <2>3. PICK x \in Off : n = Size - x
    OBVIOUS
  <2>4. ASSUME NEW y \in Off PROVE y <= x
    <3>1. x \in Nat /\ y \in Nat /\ Size \in Nat /\ Size - y \in Nat
      BY <1>1, ConstantFacts
    <3>2. Size - y \in OffBack
      <4> HIDE DEF Off
      <4> QED BY <2>4, <3>1
    <3> HIDE DEF OffBack, Off
    <3>3. n <= Size - y
      BY <2>2, <3>2
    <3> QED BY <2>3, <3>1, <3>3
  <2>5. walk[x] = Low(x)
    <3>1. low[x] = Low(x) /\ \A y \in D : low[y] = Low(y)
      BY DEF low
    <3>2. CASE Stop(x)
      BY <3>1, <3>2, <1>3, <1>7
    <3>3. CASE ~Stop(x)
      <4>1. h[x].next \in D /\ x < h[x].next
        BY <3>3, <1>1
      <4>2. h[x].next \notin Off
        BY <4>1, <2>4, <1>1
      <4>3. walk[h[x].next] = low[h[x].next]
        BY <4>1, <4>2, <3>1, Zenon
      <4> HIDE DEF Low
      <4> QED BY <4>1, <4>3, <3>1, <3>3, <1>3, <1>7
    <3> QED BY <3>2, <3>3
  <2> QED BY <2>3, <2>5
<1>9. FirstFrom(h, p, stops) = Low(p)
  BY <1>6, <1>8
<1>10. Low(p) \in Ahead(p) /\ \A y \in Ahead(p) : Low(p) <= y
  BY <1>2, Zenon
<1> HIDE DEF Low
<1> QED BY <1>1, <1>9, <1>10
-----------------------------------------------------------------------------
\* Joining and cutting blocks.

\* The headers g are those of h, but b, next to a, has become part of a.
IsJoin(h, g, a, b) ==
  /\ DOMAIN g = DOMAIN h \ {b}
  /\ g \in [DOMAIN g -> [next : 0 .. Size, prev : 0 .. Size, used : BOOLEAN]]
  /\ \A x \in DOMAIN g :
       /\ g[x].next = IF x = a THEN h[b].next ELSE h[x].next
       /\ g[x].prev = IF x = h[b].next /\ x # Size THEN a ELSE h[x].prev
       /\ g[x].used = h[x].used

\* That is what half of plug_holes does.
LEMMA JoinHeaders ==
  ASSUME NEW s, ListOK(s.heap), NEW a \in DOMAIN s.heap \ {Size}, NEW b, b = s.heap[a].next, b # Size
  PROVE  IsJoin(s.heap, Join(s, a, b).heap, a, b)
<1> DEFINE h == s.heap
           n == h[b].next
           h1 == [h EXCEPT ![a].next = n]
           h2 == LinkedBack(h1, n, a)
           g == Join(s, a, b).heap
<1>1. /\ h \in [DOMAIN h -> [next : 0 .. Size, prev : 0 .. Size, used : BOOLEAN]]
      /\ a \in DOMAIN h /\ b \in DOMAIN h /\ n \in DOMAIN h /\ a \in 0 .. Size /\ n \in 0 .. Size
      /\ b # a
  BY ConstantFacts DEF ListOK
<1> HIDE DEF h, n
<1>2. /\ h1 \in [DOMAIN h -> [next : 0 .. Size, prev : 0 .. Size, used : BOOLEAN]]
      /\ \A x \in DOMAIN h : /\ h1[x].next = IF x = a THEN n ELSE h[x].next
                             /\ h1[x].prev = h[x].prev /\ h1[x].used = h[x].used
  BY <1>1
<1> HIDE DEF h1
<1>3. /\ h2 \in [DOMAIN h -> [next : 0 .. Size, prev : 0 .. Size, used : BOOLEAN]]
      /\ \A x \in DOMAIN h : /\ h2[x].prev = IF x = n /\ x # Size THEN a ELSE h1[x].prev
                             /\ h2[x].next = h1[x].next /\ h2[x].used = h1[x].used
  BY <1>1, <1>2 DEF LinkedBack
<1>4. g = [x \in DOMAIN h \ {b} |-> h2[x]]
  BY DEF Join, Restrict, h, h1, n
<1> HIDE DEF h2, g
<1>5. IsJoin(h, g, a, b)
  BY <1>2, <1>3, <1>4 DEF IsJoin, n
<1> QED BY <1>5 DEF g, h

\* Joining a block with the next keeps the list.
LEMMA JoinList ==
  ASSUME NEW h, ListOK(h), NEW a \in DOMAIN h \ {Size}, NEW b, b = h[a].next, b # Size,
         NEW g, IsJoin(h, g, a, b)
  PROVE  ListOK(g)
<1> DEFINE n == h[b].next
<1>1. /\ DOMAIN g = DOMAIN h \ {b}
      /\ g \in [DOMAIN g -> [next : 0 .. Size, prev : 0 .. Size, used : BOOLEAN]]
      /\ \A x \in DOMAIN g : /\ g[x].next = IF x = a THEN n ELSE h[x].next
                             /\ g[x].prev = IF x = n /\ x # Size THEN a ELSE h[x].prev
                             /\ g[x].used = h[x].used
  BY DEF IsJoin
<1>2. ListOK(h) /\ a \in DOMAIN h \ {Size} /\ b = h[a].next /\ b # Size
  OBVIOUS
<1>3. /\ a \in Nat /\ b \in DOMAIN h \ {Size} /\ n \in DOMAIN h /\ a < b /\ b < n /\ b # 0
      /\ n >= a + Hdr + MinSize
  BY <1>2, ConstantFacts DEF ListOK
<1>4. 0 \in DOMAIN g /\ Size \in DOMAIN g /\ DOMAIN g \subseteq 0 .. Size
  BY <1>1, <1>2, <1>3 DEF ListOK
<1>5. g[0].prev = 0 /\ g[Size] = [next |-> Size, prev |-> Size, used |-> TRUE]
  <2>1. h[0].prev = 0 /\ h[Size].next = Size /\ h[Size].prev = Size /\ h[Size].used = TRUE
    BY <1>2 DEF ListOK
  <2>2. n # 0
    BY <1>2, <1>3, ConstantFacts DEF ListOK
  <2>3. g[0].prev = 0
    BY <1>1, <1>4, <2>1, <2>2
  <2>4. g[Size].next = Size /\ g[Size].prev = Size /\ g[Size].used = TRUE
    BY <1>1, <1>2, <1>4, <2>1
  <2>5. g[Size] \in [next : 0 .. Size, prev : 0 .. Size, used : BOOLEAN]
    BY <1>1, <1>4
  <2> QED BY <2>3, <2>4, <2>5, Zenon
<1>6. ASSUME NEW x \in DOMAIN g \ {Size}
      PROVE  /\ g[x].next \in DOMAIN g /\ g[x].next >= x + Hdr + MinSize
             /\ \A p \in DOMAIN g : ~(x < p /\ p < g[x].next)
             /\ g[x].next # Size => g[g[x].next].prev = x
             /\ x # 0 => g[x].prev \in DOMAIN g \ {Size} /\ g[g[x].prev].next = x
  <2>1. x \in DOMAIN h \ {Size} /\ x # b
    BY <1>1
  <2>2. CASE x = a
    <3>1. g[x].next = n
      BY <1>1, <2>2
    <3>2. n \in DOMAIN g
      BY <1>1, <1>3, <1>2, ConstantFacts DEF ListOK
    <3>3. \A p \in DOMAIN g : ~(x < p /\ p < n)
      <4>1. \A p \in DOMAIN h : p \in Nat /\ ~(a < p /\ p < b) /\ ~(b < p /\ p < n)
        BY <1>2, <1>3 DEF ListOK
      <4> QED BY <4>1, <1>1, <1>3, <2>2
    <3>4. n # Size => g[n].prev = a
      BY <1>1, <3>2
    <3>5. x # 0 => g[x].prev = h[x].prev /\ h[x].prev \in DOMAIN h \ {Size} /\ h[h[x].prev].next = x
      BY <1>1, <1>2, <1>3, <2>2, ConstantFacts DEF ListOK
    <3>6. x # 0 => h[x].prev # b /\ h[x].prev # a
      BY <1>2, <1>3, <2>2, <3>5, ConstantFacts DEF ListOK
    <3>7. x # 0 => g[x].prev \in DOMAIN g \ {Size} /\ g[g[x].prev].next = x
      BY <1>1, <2>2, <3>5, <3>6
    <3> HIDE DEF n
    <3> QED BY <1>3, <2>2, <3>1, <3>2, <3>3, <3>4, <3>7
  <2>3. CASE x # a
    <3>1. g[x].next = h[x].next
      BY <1>1, <2>3
    <3>2. /\ h[x].next \in DOMAIN h /\ h[x].next >= x + Hdr + MinSize
          /\ \A p \in DOMAIN h : ~(x < p /\ p < h[x].next)
          /\ h[x].next # Size => h[h[x].next].prev = x
          /\ x # 0 => h[x].prev \in DOMAIN h \ {Size} /\ h[h[x].prev].next = x
      BY <1>2, <2>1 DEF ListOK
    <3>3. h[b].prev = a /\ (n # Size => h[n].prev = b)
      BY <1>2, <1>3 DEF ListOK
    <3>4. h[x].next # b
      BY <2>3, <3>2, <3>3, <1>3
    <3>5. h[x].next # Size => h[x].next # n
      BY <2>1, <3>2, <3>3
    <3>6. g[x].next \in DOMAIN g /\ (g[x].next # Size => g[g[x].next].prev = x)
      BY <1>1, <3>1, <3>2, <3>4, <3>5
    <3>7. x # 0 => g[x].prev \in DOMAIN g \ {Size} /\ g[g[x].prev].next = x
      <4>1. CASE x = n
        BY <4>1, <1>1, <1>2, <1>3, <2>1
      <4>2. CASE x # n
        <5>1. g[x].prev = h[x].prev
          BY <1>1, <4>2
        <5>2. x # 0 => h[x].prev # b /\ h[x].prev # a
          BY <3>2, <4>2, <1>2, <2>1
        <5> QED BY <5>1, <5>2, <1>1, <3>2
      <4> QED BY <4>1, <4>2, ZenonT(30)
    <3> QED BY <1>1, <3>1, <3>2, <3>6, <3>7
  <2> QED BY <2>2, <2>3
<1> QED BY <1>1, <1>4, <1>5, <1>6 DEF ListOK

\* The headers g are those of h, but block o ends at o2, where a free block begins
\* that ends at n.
IsCut(h, g, o, o2, n) ==
  /\ DOMAIN g = DOMAIN h \cup {o2}
  /\ g \in [DOMAIN g -> [next : 0 .. Size, prev : 0 .. Size, used : BOOLEAN]]
  /\ g[o2] = [next |-> n, prev |-> o, used |-> FALSE]
  /\ \A x \in DOMAIN h :
       /\ g[x].next = IF x = o THEN o2 ELSE h[x].next
       /\ g[x].prev = IF x = n /\ x # Size THEN o2 ELSE h[x].prev
       /\ g[x].used = h[x].used

\* The headers after a block has been cut.
LEMMA CutHeaders ==
  ASSUME NEW h, h \in [DOMAIN h -> [next : 0 .. Size, prev : 0 .. Size, used : BOOLEAN]],
         NEW o \in DOMAIN h, NEW size, NEW n \in DOMAIN h, n \in 0 .. Size, o \in 0 .. Size,
         o + Hdr + size \in 0 .. Size, o + Hdr + size \notin DOMAIN h
  PROVE  IsCut(h, Cut(h, o, size, n), o, o + Hdr + size, n)
<1> DEFINE o2 == o + Hdr + size
           b == [next |-> n, prev |-> o, used |-> FALSE]
           h1 == [h EXCEPT ![o].next = o2]
           h2 == With(h1, o2, b)
           g == LinkedBack(h2, n, o2)
<1>1. o2 \in 0 .. Size /\ o2 \notin DOMAIN h /\ o2 # n
  OBVIOUS
<1>2. Cut(h, o, size, n) = g
  BY DEF Cut
<1> HIDE DEF o2
<1>3. /\ h1 \in [DOMAIN h -> [next : 0 .. Size, prev : 0 .. Size, used : BOOLEAN]]
      /\ \A x \in DOMAIN h : /\ h1[x].next = IF x = o THEN o2 ELSE h[x].next
                             /\ h1[x].prev = h[x].prev /\ h1[x].used = h[x].used
  BY <1>1
<1> HIDE DEF h1
<1>4. b \in [next : 0 .. Size, prev : 0 .. Size, used : BOOLEAN]
  OBVIOUS
<1>5. /\ h2 \in [DOMAIN h \cup {o2} -> [next : 0 .. Size, prev : 0 .. Size, used : BOOLEAN]]
      /\ h2[o2] = b /\ \A x \in DOMAIN h : h2[x] = h1[x]
  <2> HIDE DEF b
  <2> QED BY <1>1, <1>3, <1>4 DEF With
<1> HIDE DEF h2
<1>6. /\ g \in [DOMAIN h \cup {o2} -> [next : 0 .. Size, prev : 0 .. Size, used : BOOLEAN]]
      /\ g[o2] = b
      /\ \A x \in DOMAIN h : /\ g[x].prev = IF x = n /\ x # Size THEN o2 ELSE h2[x].prev
                             /\ g[x].next = h2[x].next /\ g[x].used = h2[x].used
  <2> HIDE DEF b
  <2> QED BY <1>1, <1>5, Zenon DEF LinkedBack
<1> HIDE DEF g
<1>7. IsCut(h, g, o, o2, n)
  BY <1>3, <1>5, <1>6 DEF IsCut
<1> QED BY <1>2, <1>7 DEF o2

\* Cutting a block keeps the list if both parts are large enough.
LEMMA CutList ==
  ASSUME NEW h, ListOK(h), NEW o \in DOMAIN h \ {Size}, NEW o2 \in Nat,
         o2 >= o + Hdr + MinSize, h[o].next >= o2 + Hdr + MinSize,
         NEW g, IsCut(h, g, o, o2, h[o].next)
  PROVE  ListOK(g)
<1> DEFINE n == h[o].next
<1>1. /\ DOMAIN g = DOMAIN h \cup {o2}
      /\ g \in [DOMAIN g -> [next : 0 .. Size, prev : 0 .. Size, used : BOOLEAN]]
      /\ g[o2].next = n /\ g[o2].prev = o
      /\ \A x \in DOMAIN h : /\ g[x].next = IF x = o THEN o2 ELSE h[x].next
                             /\ g[x].prev = IF x = n /\ x # Size THEN o2 ELSE h[x].prev
                             /\ g[x].used = h[x].used
  BY DEF IsCut
<1>2. /\ o \in Nat /\ n \in DOMAIN h /\ n \in Nat /\ n <= Size /\ o < o2 /\ o2 < n
      /\ o2 \notin DOMAIN h /\ \A p \in DOMAIN h : p \in Nat /\ ~(o < p /\ p < n)
  BY ConstantFacts DEF ListOK
<1>3. 0 \in DOMAIN g /\ Size \in DOMAIN g /\ DOMAIN g \subseteq 0 .. Size
  BY <1>1, <1>2 DEF ListOK
<1>4. g[0].prev = 0 /\ g[Size] = [next |-> Size, prev |-> Size, used |-> TRUE]
  <2>1. /\ h[0].prev = 0 /\ h[Size].next = Size /\ h[Size].prev = Size /\ h[Size].used = TRUE
        /\ 0 \in DOMAIN h /\ Size \in DOMAIN h
    BY DEF ListOK
  <2>2. g[0].prev = 0
    BY <1>1, <1>2, <2>1
  <2>3. g[Size].next = Size /\ g[Size].prev = Size /\ g[Size].used = TRUE
    BY <1>1, <2>1
  <2>4. g[Size] \in [next : 0 .. Size, prev : 0 .. Size, used : BOOLEAN]
    BY <1>1, <1>3
  <2> QED BY <2>2, <2>3, <2>4, Zenon
<1>5. ASSUME NEW x \in DOMAIN g \ {Size}
      PROVE  /\ g[x].next \in DOMAIN g /\ g[x].next >= x + Hdr + MinSize
             /\ \A p \in DOMAIN g : ~(x < p /\ p < g[x].next)
             /\ g[x].next # Size => g[g[x].next].prev = x
             /\ x # 0 => g[x].prev \in DOMAIN g \ {Size} /\ g[g[x].prev].next = x
  <2>1. CASE x = o2
    <3>1. n # Size => g[n].prev = o2
      BY <1>1, <1>2
    <3>2. g[o].next = o2
      BY <1>1
    <3>3. \A p \in DOMAIN g : ~(o2 < p /\ p < n)
      BY <1>1, <1>2
    <3> QED BY <1>1, <1>2, <2>1, <3>1, <3>2, <3>3
  <2>2. CASE x = o
    <3>1. \A p \in DOMAIN g : ~(o < p /\ p < o2)
      BY <1>1, <1>2
    <3>2. x # 0 => h[x].prev \in DOMAIN h \ {Size} /\ h[h[x].prev].next = x
      BY <2>2 DEF ListOK
    <3>3. x # 0 => h[x].prev # o
      BY <2>2, <3>2, <1>2
    <3>4. x # 0 => g[x].prev \in DOMAIN g \ {Size} /\ g[g[x].prev].next = x
      BY <2>2, <3>2, <3>3, <1>1, <1>2
    <3> QED BY <1>1, <1>2, <2>2, <3>1, <3>4
  <2>3. CASE x # o /\ x # o2
    <3>1. x \in DOMAIN h \ {Size}
      BY <1>1, <2>3
    <3>2. /\ h[x].next \in DOMAIN h /\ h[x].next >= x + Hdr + MinSize
          /\ \A p \in DOMAIN h : ~(x < p /\ p < h[x].next)
          /\ h[x].next # Size => h[h[x].next].prev = x
          /\ x # 0 => h[x].prev \in DOMAIN h \ {Size} /\ h[h[x].prev].next = x
          /\ n # Size => h[n].prev = o
      BY <3>1 DEF ListOK
    <3>3. g[x].next = h[x].next
      BY <1>1, <2>3, <3>1
    <3>4. \A p \in DOMAIN g : ~(x < p /\ p < g[x].next)
      BY <1>1, <1>2, <2>3, <3>1, <3>2, <3>3, SMTT(30)
    <3>5. h[x].next # Size => h[x].next # n
      BY <3>1, <3>2, <2>3
    <3>6. g[x].next # Size => g[g[x].next].prev = x
      BY <1>1, <3>2, <3>3, <3>5
    <3>7. x # 0 => g[x].prev \in DOMAIN g \ {Size} /\ g[g[x].prev].next = x
      BY <1>1, <1>2, <3>1, <3>2
    <3> QED BY <1>1, <3>2, <3>3, <3>4, <3>6, <3>7
  <2> QED BY <2>1, <2>2, <2>3
<1> QED BY <1>1, <1>3, <1>4, <1>5 DEF ListOK
-----------------------------------------------------------------------------
\* mem_free.

\* The blocks in use are the same in g as in h, with the same room.
SameUsed(h, g) ==
  /\ {x \in DOMAIN g : g[x].used} = {x \in DOMAIN h : h[x].used}
  /\ \A x \in DOMAIN h : h[x].used => g[x].next = h[x].next

\* Block o is free, and so may be its neighbours; no others are.
FreeAt(s, o) ==
  /\ ListOK(s.heap) /\ NoFreePair(s.heap, o)
  /\ o \in DOMAIN s.heap \ {Size} /\ ~s.heap[o].used
  /\ s.lfree \in DOMAIN s.heap /\ LowestFree(s.heap, s.lfree)

\* Joining two free blocks.
LEMMA JoinFree ==
  ASSUME NEW s, ListOK(s.heap), NEW a \in DOMAIN s.heap \ {Size}, NEW b, b = s.heap[a].next, b # Size,
         ~s.heap[a].used, ~s.heap[b].used, s.lfree \in DOMAIN s.heap, LowestFree(s.heap, s.lfree)
  PROVE  LET t == Join(s, a, b) IN
         /\ ListOK(t.heap) /\ IsJoin(s.heap, t.heap, a, b) /\ SameUsed(s.heap, t.heap)
         /\ t.lfree \in DOMAIN t.heap /\ LowestFree(t.heap, t.lfree)
<1> DEFINE h == s.heap
           g == Join(s, a, b).heap
           l == Join(s, a, b).lfree
<1>1. IsJoin(h, g, a, b)
  BY JoinHeaders
<1>2. l = IF s.lfree = b THEN a ELSE s.lfree
  BY DEF Join
<1> HIDE DEF g, l
<1>3. ListOK(g)
  BY <1>1, JoinList
<1>4. SameUsed(h, g)
  BY <1>1 DEF IsJoin, SameUsed
<1>5. a \in Nat /\ b \in DOMAIN h /\ a < b /\ DOMAIN h \subseteq Nat
  BY ConstantFacts DEF ListOK
<1>6. s.lfree <= a
  BY DEF LowestFree
<1>7. l = s.lfree
  BY <1>2, <1>5, <1>6
<1>8. l \in DOMAIN g
  BY <1>1, <1>5, <1>6, <1>7 DEF IsJoin
<1>9. LowestFree(g, l)
  BY <1>1, <1>7, <1>8 DEF IsJoin, LowestFree
<1> QED BY <1>1, <1>3, <1>4, <1>8, <1>9 DEF g, l

\* The first half of plug_holes: the block behind is joined if it is free.
LEMMA ForwardPlugged ==
  ASSUME NEW s, NEW o, FreeAt(s, o)
  PROVE  LET t == PlugForward(s, o) IN
         /\ FreeAt(t, o) /\ SameUsed(s.heap, t.heap)
         /\ t.heap[o].next = Size \/ t.heap[t.heap[o].next].used
<1> DEFINE h == s.heap
           n == h[o].next
           t == PlugForward(s, o)
           g == t.heap
<1>1. ListOK(h) /\ NoFreePair(h, o) /\ o \in DOMAIN h \ {Size} /\ ~h[o].used
  BY DEF FreeAt
<1>2. n \in DOMAIN h /\ n # o /\ o \in Nat
  BY <1>1, ConstantFacts DEF ListOK
<1>3. CASE ~h[n].used /\ n # Size
  <2>1. t = Join(s, o, n)
    BY <1>2, <1>3 DEF PlugForward
  <2>2. /\ ListOK(g) /\ IsJoin(h, g, o, n) /\ SameUsed(h, g)
        /\ t.lfree \in DOMAIN g /\ LowestFree(g, t.lfree)
    BY <1>3, <2>1, JoinFree DEF FreeAt
  <2> HIDE DEF t
  <2>3. o \in DOMAIN g \ {Size} /\ ~g[o].used
    BY <1>1, <1>2, <2>2, ZenonT(30) DEF IsJoin
  <2>4. ASSUME NEW x \in DOMAIN g \ {Size}, x # o, g[x].next # o, g[x].next # Size
        PROVE  g[x].used \/ g[g[x].next].used
    BY <1>1, <2>2, <2>4 DEF IsJoin, NoFreePair, ListOK
  <2>5. g[o].next = Size \/ g[g[o].next].used
    <3>1. g[o].next = h[n].next /\ h[n].next \in DOMAIN h /\ h[n].next # n /\ h[n].next # o
      <4>1. g[o].next = h[n].next
        BY <2>2, <2>3 DEF IsJoin
      <4>2. h[n].next \in DOMAIN h /\ h[n].next >= n + Hdr + MinSize /\ n >= o + Hdr + MinSize /\ n \in Nat
        BY <1>1, <1>2, <1>3 DEF ListOK
      <4>3. h[n].next \in Nat
        BY <1>1, <4>2 DEF ListOK
      <4> HIDE DEF n
      <4>4. h[n].next # n /\ h[n].next # o
        BY <1>2, <4>2, <4>3, ConstantFacts, SMTT(30)
      <4> QED BY <4>1, <4>2, <4>4
    <3>2. h[n].next = Size \/ h[h[n].next].used
      BY <1>1, <1>2, <1>3, <3>1 DEF NoFreePair
    <3> QED BY <2>2, <3>1, <3>2, Zenon DEF IsJoin
  <2>6. NoFreePair(g, o)
    BY <2>4 DEF NoFreePair
  <2> QED BY <2>2, <2>3, <2>5, <2>6 DEF FreeAt, t
<1>4. CASE ~(~h[n].used /\ n # Size)
  <2>1. t = s
    BY <1>4 DEF PlugForward
  <2> HIDE DEF t
  <2>2. SameUsed(h, h)
    BY DEF SameUsed
  <2> QED BY <1>4, <2>1, <2>2 DEF t
<1> QED BY <1>3, <1>4

\* The second half: the block is joined to the one before it.
LEMMA BackwardPlugged ==
  ASSUME NEW s, NEW o, FreeAt(s, o), s.heap[o].next = Size \/ s.heap[s.heap[o].next].used
  PROVE  LET t == PlugBackward(s, o) IN
         /\ ListOK(t.heap) /\ NoFreePair(t.heap, Size) /\ SameUsed(s.heap, t.heap)
         /\ t.lfree \in DOMAIN t.heap /\ LowestFree(t.heap, t.lfree)
<1> DEFINE h == s.heap
           p == h[o].prev
           t == PlugBackward(s, o)
           g == t.heap
<1>1. ListOK(h) /\ NoFreePair(h, o) /\ o \in DOMAIN h \ {Size} /\ ~h[o].used
  BY DEF FreeAt
<1>2. p # o => p \in DOMAIN h \ {Size} /\ h[p].next = o
  BY <1>1 DEF ListOK
<1>3. \A x \in DOMAIN h \ {Size} : h[x].next = o => x = p /\ p # o
  BY <1>1, ConstantFacts DEF ListOK
<1>4. CASE p # o /\ ~h[p].used
  <2>1. t = Join(s, p, o)
    BY <1>4 DEF PlugBackward
  <2>2. /\ ListOK(g) /\ IsJoin(h, g, p, o) /\ SameUsed(h, g)
        /\ t.lfree \in DOMAIN g /\ LowestFree(g, t.lfree)
    BY <1>1, <1>2, <1>4, <2>1, JoinFree DEF FreeAt
  <2> HIDE DEF t
  <2>3. ASSUME NEW x \in DOMAIN g \ {Size}, g[x].next # Size
        PROVE  g[x].used \/ g[g[x].next].used
    <3>1. x \in DOMAIN h \ {Size} /\ x # o /\ g[x].used = h[x].used /\ g[x].next \in DOMAIN g
      BY <2>2, <2>3 DEF IsJoin, ListOK
    <3>2. CASE x = p
      <4>1. g[x].next = h[o].next
        BY <2>2, <3>2 DEF IsJoin
      <4> QED BY <2>2, <2>3, <3>1, <4>1 DEF IsJoin
    <3>3. CASE x # p
      <4>1. g[x].next = h[x].next /\ h[x].next # o
        BY <1>3, <2>2, <3>1, <3>3 DEF IsJoin
      <4>2. h[x].used \/ h[h[x].next].used
        BY <1>1, <2>3, <3>1, <4>1 DEF NoFreePair
      <4> QED BY <2>2, <3>1, <4>1, <4>2 DEF IsJoin
    <3> QED BY <3>2, <3>3
  <2>4. NoFreePair(g, Size)
    BY <2>3 DEF NoFreePair
  <2> QED BY <2>2, <2>4 DEF t
<1>5. CASE ~(p # o /\ ~h[p].used)
  <2>1. t = s
    BY <1>5 DEF PlugBackward
  <2> HIDE DEF t
  <2>2. SameUsed(h, h)
    BY DEF SameUsed
  <2>3. NoFreePair(h, Size)
    BY <1>1, <1>3, <1>5 DEF NoFreePair
  <2> QED BY <2>1, <2>2, <2>3 DEF t, FreeAt
<1> QED BY <1>4, <1>5

\* mem_free keeps the invariant.
LEMMA FreeStep ==
  ASSUME HeapInv, NEW o \in DOMAIN held, mem_free(o)
  PROVE  HeapInv'
<1> DEFINE h0 == [heap EXCEPT ![o].used = FALSE]
           s0 == [heap |-> h0, lfree |-> Lower(o)]
           s1 == PlugForward(s0, o)
           s2 == PlugBackward(s1, o)
<1>1. /\ ListOK(heap) /\ NoFreePair(heap, Size) /\ lfree \in DOMAIN heap /\ LowestFree(heap, lfree)
      /\ o \in DOMAIN heap \ {Size} /\ heap[o].used
  BY DEF HeapInv, HeldFits, Blocks
<1>2. LinkValid(heap, o)
  BY <1>1 DEF ListOK, LinkValid
<1>3. heap' = s2.heap /\ lfree' = s2.lfree /\ held' = [x \in DOMAIN held \ {o} |-> held[x]]
  BY <1>1, <1>2 DEF mem_free, plug_holes, Restrict
<1>4. /\ DOMAIN h0 = DOMAIN heap
      /\ h0 \in [DOMAIN h0 -> [next : 0 .. Size, prev : 0 .. Size, used : BOOLEAN]]
      /\ \A x \in DOMAIN heap : h0[x].next = heap[x].next /\ h0[x].prev = heap[x].prev
      /\ ~h0[o].used /\ \A x \in DOMAIN heap \ {o} : h0[x] = heap[x]
  <2>1. heap \in [DOMAIN heap -> [next : 0 .. Size, prev : 0 .. Size, used : BOOLEAN]]
    BY <1>1 DEF ListOK
  <2> QED BY <1>1, <2>1, Zenon
<1> HIDE DEF h0
<1>5. FreeAt(s0, o)
  <2>1. ListOK(h0)
    BY <1>1, <1>4 DEF ListOK
  <2>2. NoFreePair(h0, o)
    BY <1>1, <1>4, <2>1 DEF NoFreePair, ListOK
  <2>3. Lower(o) \in DOMAIN h0 /\ LowestFree(h0, Lower(o))
    <3>1. DOMAIN heap \subseteq Nat
      BY <1>1 DEF ListOK
    <3>2. /\ heap[lfree].used => lfree = Size
          /\ \A x \in DOMAIN heap \ {Size} : ~heap[x].used => lfree <= x
      BY <1>1 DEF LowestFree
    <3>3. Lower(o) \in DOMAIN h0 /\ Lower(o) <= o /\ Lower(o) <= lfree
      BY <1>1, <1>4, <3>1 DEF Lower
    <3>4. h0[Lower(o)].used => Lower(o) = Size
      BY <1>1, <1>4, <3>2 DEF Lower
    <3>5. ASSUME NEW x \in DOMAIN h0 \ {Size}, ~h0[x].used PROVE Lower(o) <= x
      BY <1>1, <1>4, <3>1, <3>2, <3>3, <3>5
    <3> QED BY <3>3, <3>4, <3>5 DEF LowestFree
  <2> QED BY <1>1, <1>4, <2>1, <2>2, <2>3 DEF FreeAt
<1>6. /\ FreeAt(s1, o) /\ SameUsed(h0, s1.heap)
      /\ s1.heap[o].next = Size \/ s1.heap[s1.heap[o].next].used
  BY <1>5, ForwardPlugged
<1> HIDE DEF s1
<1>7. /\ ListOK(s2.heap) /\ NoFreePair(s2.heap, Size) /\ SameUsed(s1.heap, s2.heap)
      /\ s2.lfree \in DOMAIN s2.heap /\ LowestFree(s2.heap, s2.lfree)
  BY <1>6, BackwardPlugged
<1> HIDE DEF s2
<1>8. SameUsed(h0, heap')
  <2>1. SameUsed(s1.heap, heap')
    BY <1>3, <1>7
  <2> QED BY <1>6, <2>1 DEF SameUsed
<1>9. HeldFits'
  <2>1. \A x : x \in DOMAIN heap' /\ heap'[x].used <=> x \in DOMAIN heap /\ x # o /\ heap[x].used
    BY <1>4, <1>8 DEF SameUsed
  <2>2. \A x : x \in DOMAIN held <=> x \in DOMAIN heap /\ x # Size /\ heap[x].used
    BY DEF HeapInv, HeldFits, Blocks
  <2>3. DOMAIN held' = DOMAIN held \ {o} /\ \A x \in DOMAIN held' : held'[x] = held[x]
    BY <1>3
  <2>4. {x \in Blocks : heap[x].used}' = DOMAIN held'
    BY <2>1, <2>2, <2>3 DEF Blocks
  <2>5. \A x \in DOMAIN held' : heap'[x].next = heap[x].next
    BY <1>4, <1>8, <2>2, <2>3 DEF SameUsed
  <2>6. \A x \in DOMAIN held' : held'[x] <= Room(heap', x)
    BY <2>3, <2>5 DEF HeapInv, HeldFits, Room
  <2>7. held' \in [DOMAIN held' -> Nat \ {0}]
    BY <1>3 DEF HeapInv, HeldFits
  <2> QED BY <2>4, <2>6, <2>7 DEF HeldFits
<1> QED BY <1>3, <1>7, <1>9 DEF HeapInv

-----------------------------------------------------------------------------
\* mem_trim and mem_malloc.

\* The size of a block for a request.
LEMMA AlignedFacts ==
  ASSUME NEW n \in Requests
  PROVE  Aligned(n) \in Nat /\ Aligned(n) >= MinSize
<1>1. n + Align - 1 \in Nat
  BY ConstantFacts
<1>2. (n + Align - 1) \div Align \in Int
  BY <1>1, ConstantFacts
<1>3. ((n + Align - 1) \div Align) * Align \in Int
  BY <1>2, ConstantFacts
<1>4. (((n + Align - 1) \div Align) * Align) % Width \in Nat
  BY <1>3, ConstantFacts
<1> QED BY <1>4, ConstantFacts DEF Aligned

\* A block in use is cut: the part cut off is the only block that is new.
LEMMA CutUsed ==
  ASSUME NEW h, ListOK(h), NEW o \in DOMAIN h \ {Size}, h[o].used, NEW o2 \in Nat, NEW n,
         o2 >= o + Hdr + MinSize, n >= o2 + Hdr + MinSize, n = h[o].next,
         n = Size \/ h[n].used, NoFreePair(h, Size),
         NEW g, IsCut(h, g, o, o2, n)
  PROVE  /\ ListOK(g) /\ NoFreePair(g, Size)
         /\ \A x : x \in DOMAIN g /\ g[x].used <=> x \in DOMAIN h /\ h[x].used
         /\ g[o].next = o2 /\ \A x \in DOMAIN h \ {o} : g[x].next = h[x].next
<1>1. ListOK(g)
  BY CutList
<1>2. /\ DOMAIN g = DOMAIN h \cup {o2} /\ o2 \notin DOMAIN h /\ g[o2].next = n /\ ~g[o2].used
      /\ \A x \in DOMAIN h : /\ g[x].next = IF x = o THEN o2 ELSE h[x].next
                             /\ g[x].used = h[x].used
      /\ n \in DOMAIN h
  BY ConstantFacts DEF IsCut, ListOK
<1>3. ASSUME NEW x \in DOMAIN g \ {Size}, g[x].next # Size
      PROVE  g[x].used \/ g[g[x].next].used
  <2>1. CASE x = o2
    BY <1>2, <1>3, <2>1
  <2>2. CASE x = o
    BY <1>2, <2>2
  <2>3. CASE x # o /\ x # o2
    <3>1. x \in DOMAIN h \ {Size} /\ g[x].next = h[x].next /\ h[x].next \in DOMAIN h
      BY <1>2, <2>3 DEF ListOK
    <3>2. h[x].used \/ h[h[x].next].used
      BY <1>3, <3>1 DEF NoFreePair
    <3> QED BY <1>2, <3>1, <3>2
  <2> QED BY <2>1, <2>2, <2>3
<1>4. NoFreePair(g, Size)
  BY <1>3 DEF NoFreePair
<1> QED BY <1>1, <1>2, <1>4

\* Cutting a block after joining it with the next is like cutting it with the header
\* of the next removed.
LEMMA CutOfJoin ==
  ASSUME NEW h, NEW J, NEW g, NEW o, NEW n, NEW o2, IsJoin(h, J, o, n),
         NEW R, DOMAIN R = DOMAIN h \ {n}, \A x \in DOMAIN R : R[x] = h[x], IsCut(R, g, o, o2, h[n].next)
  PROVE  IsCut(J, g, o, o2, h[n].next)
BY DEF IsJoin, IsCut

\* R are the headers h without the free block n behind the block o, which is in use;
\* o2 is a place for another header inside the block o.
CanMove(h, R, o, n, o2) ==
  /\ ListOK(h) /\ NoFreePair(h, Size) /\ o \in DOMAIN h \ {Size} /\ h[o].used
  /\ n = h[o].next /\ ~h[n].used /\ o2 \in Nat /\ o2 >= o + Hdr + MinSize /\ o2 < n
  /\ DOMAIN R = DOMAIN h \ {n} /\ \A x \in DOMAIN R : R[x] = h[x]

\* The headers g are h with the free block n, behind o, moved to o2.
IsMoved(h, g, o, n, o2) ==
  /\ ListOK(g) /\ NoFreePair(g, Size)
  /\ \A x : x \in DOMAIN g /\ g[x].used <=> x \in DOMAIN h /\ h[x].used
  /\ \A x : x \in DOMAIN g <=> x = o2 \/ (x \in DOMAIN h /\ x # n)
  /\ g[o].next = o2 /\ \A x \in DOMAIN h \ {o, n} : g[x].next = h[x].next

\* mem_trim cuts a block and joins what it cuts off with the free block behind it:
\* as if the two had been joined before.
LEMMA MovedHeaders ==
  ASSUME NEW h, NEW R, NEW o, NEW n, NEW o2, CanMove(h, R, o, n, o2),
         NEW g, IsCut(R, g, o, o2, h[n].next)
  PROVE  IsMoved(h, g, o, n, o2)
<1> SUFFICES ASSUME ListOK(h), NoFreePair(h, Size), o \in DOMAIN h \ {Size}, h[o].used,
                    n = h[o].next, ~h[n].used, o2 \in Nat, o2 >= o + Hdr + MinSize, o2 < n,
                    DOMAIN R = DOMAIN h \ {n}, \A x \in DOMAIN R : R[x] = h[x]
             PROVE  IsMoved(h, g, o, n, o2)
  BY DEF CanMove
<1> DEFINE s == [heap |-> h, lfree |-> 0]
           J == Join(s, o, n).heap
           nn == h[n].next
<1>1. /\ n \in DOMAIN h /\ n \in Nat /\ n # Size /\ nn \in DOMAIN h /\ nn \in Nat
      /\ nn >= n + Hdr + MinSize
  BY ConstantFacts DEF ListOK
<1>2. nn >= o2 + Hdr + MinSize /\ nn # n /\ o # n
  BY <1>1, ConstantFacts DEF ListOK
<1>3. nn = Size \/ h[nn].used
  BY <1>1, <1>2 DEF NoFreePair
<1>4. IsJoin(h, J, o, n)
  BY <1>1, JoinHeaders
<1> HIDE DEF J
<1>5. ListOK(J)
  BY <1>1, <1>4, JoinList
<1>6. IsCut(J, g, o, o2, nn)
  BY <1>4, CutOfJoin, Zenon
<1> HIDE DEF nn
<1>7. /\ o \in DOMAIN J \ {Size} /\ J[o].used /\ J[o].next = nn /\ nn \in DOMAIN J
      /\ nn = Size \/ J[nn].used
  BY <1>1, <1>2, <1>3, <1>4 DEF IsJoin, nn
<1>8. NoFreePair(J, Size)
  <2> SUFFICES ASSUME NEW x \in DOMAIN J \ {Size}, J[x].next # Size PROVE J[x].used \/ J[J[x].next].used
    BY DEF NoFreePair
  <2>1. CASE x = o
    BY <1>7, <2>1
  <2>2. CASE x # o
    <3>1. x \in DOMAIN h \ {Size} /\ J[x].next = h[x].next /\ J[x].next \in DOMAIN J
      BY <1>4, <1>5, <2>2 DEF IsJoin, ListOK
    <3>2. h[x].used \/ h[h[x].next].used
      BY <3>1 DEF NoFreePair
    <3> QED BY <1>4, <3>1, <3>2 DEF IsJoin
  <2> QED BY <2>1, <2>2
<1>9. /\ ListOK(g) /\ NoFreePair(g, Size)
      /\ \A x : x \in DOMAIN g /\ g[x].used <=> x \in DOMAIN J /\ J[x].used
      /\ g[o].next = o2 /\ \A x \in DOMAIN J \ {o} : g[x].next = J[x].next
  BY <1>2, <1>5, <1>6, <1>7, <1>8, CutUsed
<1>10. \A x : x \in DOMAIN J /\ J[x].used <=> x \in DOMAIN h /\ h[x].used
  BY <1>4 DEF IsJoin
<1>11. \A x : x \in DOMAIN g <=> x = o2 \/ (x \in DOMAIN h /\ x # n)
  BY <1>4, <1>6 DEF IsJoin, IsCut
<1>12. \A x \in DOMAIN h \ {o, n} : g[x].next = h[x].next
  BY <1>4, <1>9 DEF IsJoin
<1> QED BY <1>9, <1>10, <1>11, <1>12 DEF IsMoved

\* The callers hold the blocks in use, with room for what they asked for.
LEMMA HeldAfterTrim ==
  ASSUME HeldFits, NEW o \in DOMAIN held, NEW n \in Nat \ {0}, held' = [held EXCEPT ![o] = n],
         \A x : x \in DOMAIN heap' /\ heap'[x].used <=> x \in DOMAIN heap /\ heap[x].used,
         \A x \in DOMAIN held \ {o} : heap'[x].next = heap[x].next,
         n <= Room(heap', o)
  PROVE  HeldFits'
<1>1. \A x : x \in DOMAIN held <=> x \in DOMAIN heap /\ x # Size /\ heap[x].used
  BY DEF HeldFits, Blocks
<1>2. DOMAIN held' = DOMAIN held /\ held'[o] = n /\ \A x \in DOMAIN held \ {o} : held'[x] = held[x]
  OBVIOUS
<1>3. {x \in Blocks : heap[x].used}' = DOMAIN held'
  BY <1>1, <1>2, Zenon DEF Blocks
<1>4. held' \in [DOMAIN held' -> Nat \ {0}]
  BY DEF HeldFits
<1>5. ASSUME NEW x \in DOMAIN held' PROVE held'[x] <= Room(heap', x)
  <2>1. CASE x = o
    BY <1>2, <2>1
  <2>2. CASE x # o
    BY <1>2, <2>2 DEF HeldFits, Room
  <2> QED BY <2>1, <2>2
<1> QED BY <1>3, <1>4, <1>5 DEF HeldFits

\* mem_trim keeps the invariant.
LEMMA TrimStep ==
  ASSUME HeapInv, NEW o \in DOMAIN held, NEW n \in Requests \ {0}, mem_trim(o, n)
  PROVE  HeapInv'
<1> DEFINE size == Aligned(n)
           next == heap[o].next
           o2 == o + Hdr + size
<1>1. /\ ListOK(heap) /\ NoFreePair(heap, Size) /\ lfree \in DOMAIN heap /\ LowestFree(heap, lfree)
      /\ o \in DOMAIN heap \ {Size} /\ heap[o].used /\ HeldFits
  BY DEF HeapInv, HeldFits, Blocks
<1>2. /\ o \in 0 .. Size /\ next \in DOMAIN heap /\ next \in 0 .. Size
      /\ \A x \in DOMAIN heap : x \in Nat /\ x <= Size /\ ~(o < x /\ x < next)
  BY <1>1, ConstantFacts DEF ListOK
<1>3. /\ size \in Nat /\ size >= MinSize /\ n <= size /\ size <= Room(heap, o) /\ n \in Nat \ {0}
      /\ held' = [held EXCEPT ![o] = n] /\ held[o] \in Nat /\ n <= held[o] /\ held[o] <= Room(heap, o)
  BY <1>1, AlignedFacts, ConstantFacts DEF mem_trim, Possible, HeldFits
<1>4. /\ heap[lfree].used => lfree = Size
      /\ \A x \in DOMAIN heap \ {Size} : ~heap[x].used => lfree <= x
  BY <1>1 DEF LowestFree
<1>5. CASE UNCHANGED <<heap, lfree>>
  <2>1. HeldFits'
    <3>1. heap' = heap
      BY <1>5
    <3>2. n <= Room(heap, o)
      BY <1>2, <1>3, ConstantFacts DEF Room
    <3>3. n <= Room(heap', o)
      BY <3>1, <3>2
    <3> QED BY <1>1, <1>3, <3>1, <3>3, HeldAfterTrim, Zenon
  <2> QED BY <1>1, <1>5, <2>1 DEF HeapInv
<1>6. CASE /\ ~heap[next].used /\ size # Room(heap, o)
           /\ heap' = Cut(Restrict(heap, DOMAIN heap \ {next}), o, size, heap[next].next)
           /\ lfree' = Moved(next, o2)
  <2> DEFINE R == [x \in DOMAIN heap \ {next} |-> heap[x]]
  <2>1. next # Size /\ heap[next].next \in DOMAIN heap /\ heap[next].next \in 0 .. Size /\ heap[next].next # next /\ o # next
    BY <1>1, <1>2, <1>6, ConstantFacts DEF ListOK
  <2>2. o2 \in Nat /\ o2 >= o + Hdr + MinSize /\ o2 < next /\ o2 \in 0 .. Size /\ o < o2
    BY <1>2, <1>3, <1>6, ConstantFacts DEF Room
  <2>3. /\ R \in [DOMAIN R -> [next : 0 .. Size, prev : 0 .. Size, used : BOOLEAN]]
        /\ o \in DOMAIN R /\ heap[next].next \in DOMAIN R /\ o2 \notin DOMAIN R
    BY <1>1, <1>2, <2>1, <2>2 DEF ListOK
  <2>4. heap' = Cut(R, o, size, heap[next].next)
    BY <1>6 DEF Restrict
  <2>5. IsCut(R, heap', o, o2, heap[next].next)
    <3> HIDE DEF R, size
    <3> QED BY <1>2, <2>1, <2>2, <2>3, <2>4, CutHeaders
  <2>6. /\ ListOK(heap') /\ NoFreePair(heap', Size)
        /\ \A x : x \in DOMAIN heap' /\ heap'[x].used <=> x \in DOMAIN heap /\ heap[x].used
        /\ \A x : x \in DOMAIN heap' <=> x = o2 \/ (x \in DOMAIN heap /\ x # next)
        /\ heap'[o].next = o2 /\ \A x \in DOMAIN heap \ {o, next} : heap'[x].next = heap[x].next
    <3>1. next = heap[o].next
      OBVIOUS
    <3>2. DOMAIN R = DOMAIN heap \ {next} /\ \A x \in DOMAIN R : R[x] = heap[x]
      OBVIOUS
    <3> HIDE DEF o2, next, R
    <3>3. /\ ListOK(heap) /\ NoFreePair(heap, Size) /\ o \in DOMAIN heap \ {Size} /\ heap[o].used
          /\ ~heap[next].used /\ o2 \in Nat /\ o2 >= o + Hdr + MinSize /\ o2 < next
      BY <1>1, <1>6, <2>2
    <3>4. IsMoved(heap, heap', o, next, o2)
      <4>1. CanMove(heap, R, o, next, o2)
        BY <3>1, <3>2, <3>3, Zenon DEF CanMove
      <4> QED BY <2>5, <4>1, MovedHeaders, Zenon
    <3> QED BY <3>4 DEF IsMoved
  <2>7. HeldFits'
    <3>1. n <= Room(heap', o)
      BY <1>2, <1>3, <2>6, ConstantFacts DEF Room
    <3>2. \A x \in DOMAIN held \ {o} : heap'[x].next = heap[x].next
      BY <1>1, <1>6, <2>6, Zenon DEF HeldFits, Blocks
    <3> QED BY <1>1, <1>3, <2>6, <3>1, <3>2, HeldAfterTrim, Zenon
  <2>8. lfree' \in DOMAIN heap' /\ LowestFree(heap', lfree')
    <3>1. lfree <= next
      BY <1>2, <1>4, <1>6, <2>1
    <3>2. CASE lfree = next
      <4>1. lfree' = o2
        BY <1>6, <3>2 DEF Moved
      <4>2. ~heap'[o2].used
        BY <1>2, <2>2, <2>6
      <4>3. \A x \in DOMAIN heap' \ {Size} : ~heap'[x].used => o2 <= x
        BY <1>2, <1>4, <2>2, <2>6, <3>2
      <4> QED BY <2>6, <4>1, <4>2, <4>3 DEF LowestFree
    <3>3. CASE lfree # next
      <4>1. lfree' = lfree /\ lfree \in DOMAIN heap' /\ ~heap[lfree].used /\ lfree # Size
        <5>1. lfree' = lfree /\ lfree \in DOMAIN heap'
          BY <1>1, <1>6, <2>6, <3>3, Zenon DEF Moved
        <5>2. lfree # Size
          BY <1>2, <2>1, <3>1, ConstantFacts
        <5> QED BY <1>4, <5>1, <5>2
      <4>2. lfree <= o
        BY <1>1, <1>2, <3>1, <3>3
      <4>3. ~heap'[lfree].used
        BY <2>6, <4>1
      <4>4. ASSUME NEW x \in DOMAIN heap' \ {Size}, ~heap'[x].used PROVE lfree <= x
        BY <1>1, <1>2, <1>4, <2>2, <2>6, <4>2, <4>4
      <4> QED BY <4>1, <4>3, <4>4 DEF LowestFree
    <3> QED BY <3>2, <3>3
  <2> QED BY <2>6, <2>7, <2>8 DEF HeapInv
<1>7. CASE /\ heap[next].used /\ MaySplit(heap, o, size)
           /\ heap' = Cut(heap, o, size, next) /\ lfree' = Lower(o2)
  <2>1. /\ o2 \in Nat /\ o2 >= o + Hdr + MinSize /\ next >= o2 + Hdr + MinSize
        /\ o2 \in 0 .. Size /\ o2 \notin DOMAIN heap /\ o < o2 /\ o2 < next
    BY <1>2, <1>3, <1>7, ConstantFacts DEF MaySplit, Room
  <2>2. IsCut(heap, heap', o, o2, next)
    <3> heap \in [DOMAIN heap -> [next : 0 .. Size, prev : 0 .. Size, used : BOOLEAN]]
      BY <1>1 DEF ListOK
    <3> HIDE DEF size
    <3> QED BY <1>1, <1>2, <1>7, <2>1, CutHeaders
  <2>3. /\ ListOK(heap') /\ NoFreePair(heap', Size)
        /\ \A x : x \in DOMAIN heap' /\ heap'[x].used <=> x \in DOMAIN heap /\ heap[x].used
        /\ heap'[o].next = o2 /\ \A x \in DOMAIN heap \ {o} : heap'[x].next = heap[x].next
    <3> HIDE DEF o2
    <3> QED BY <1>1, <1>7, <2>1, <2>2, CutUsed
  <2>4. DOMAIN heap' = DOMAIN heap \cup {o2}
    BY <2>2 DEF IsCut
  <2>5. HeldFits'
    <3>1. n <= Room(heap', o)
      BY <1>2, <1>3, <2>3, ConstantFacts DEF Room
    <3>2. \A x \in DOMAIN held \ {o} : heap'[x].next = heap[x].next
      BY <1>1, <2>3 DEF HeldFits, Blocks
    <3> QED BY <1>1, <1>3, <2>3, <3>1, <3>2, HeldAfterTrim, Zenon
  <2>6. lfree' \in DOMAIN heap' /\ LowestFree(heap', lfree')
    <3>1. lfree' \in DOMAIN heap' /\ lfree' <= o2 /\ lfree' <= lfree /\ lfree' \in {o2, lfree}
      BY <1>1, <1>2, <1>7, <2>1, <2>4 DEF Lower
    <3>2. heap'[lfree'].used => lfree' = Size
      BY <1>4, <2>1, <2>3, <3>1
    <3>3. ASSUME NEW x \in DOMAIN heap' \ {Size}, ~heap'[x].used PROVE lfree' <= x
      BY <1>1, <1>2, <1>4, <2>1, <2>3, <2>4, <3>1, <3>3
    <3> QED BY <3>1, <3>2, <3>3 DEF LowestFree
  <2> QED BY <2>3, <2>5, <2>6 DEF HeapInv
<1> QED BY <1>1, <1>3, <1>5, <1>6, <1>7 DEF mem_trim

\* The search of mem_malloc returns a free block with the room asked for, and none
\* only if no free block has it.
LEMMA SearchFinds ==
  ASSUME HeapInv, NEW size \in Nat
  PROVE  LET o == Search(lfree, size) IN
         /\ o # Size => o \in Blocks /\ ~heap[o].used /\ Room(heap, o) >= size /\ lfree <= o
         /\ (\E x \in Blocks : ~heap[x].used /\ Room(heap, x) >= size) => o # Size
<1> DEFINE Fits(x) == ~heap[x].used /\ Room(heap, x) >= size
           stops == {x \in DOMAIN heap : Beyond(x, size) \/ Fits(x)}
           q == FirstFrom(heap, lfree, stops)
<1>1. ListOK(heap) /\ lfree \in DOMAIN heap /\ LowestFree(heap, lfree)
  BY DEF HeapInv
<1>2. /\ q \in DOMAIN heap /\ lfree <= q /\ (q \in stops \/ q = Size)
      /\ \A x \in DOMAIN heap : lfree <= x /\ x < q => x \notin stops
  <2> HIDE DEF stops
  <2> QED BY <1>1, WalkStops
<1>3. Search(lfree, size) = IF Beyond(q, size) THEN Size ELSE q
  BY DEF Search
<1> HIDE DEF q
<1>4. Beyond(Size, size)
  BY ConstantFacts DEF Beyond
<1>5. DOMAIN heap \subseteq 0 .. Size /\ \A x \in Blocks : heap[x].next \in 0 .. Size
  BY <1>1 DEF ListOK, Blocks
<1>6. ASSUME NEW x \in Blocks, Fits(x) PROVE ~Beyond(q, size)
  <2>1. x \in DOMAIN heap /\ lfree <= x /\ x \in Nat /\ x \in stops
    BY <1>1, <1>5, <1>6 DEF LowestFree, Blocks
  <2>2. x < Size - size
    BY <1>5, <1>6, <2>1, ConstantFacts DEF Room
  <2>3. q <= x
    BY <1>2, <1>5, <2>1
  <2> QED BY <1>2, <1>5, <2>1, <2>2, <2>3, ConstantFacts DEF Beyond
<1>7. Search(lfree, size) # Size => q \in Blocks /\ Fits(q) /\ Search(lfree, size) = q
  BY <1>2, <1>3, <1>4 DEF Blocks
<1>8. (\E x \in Blocks : Fits(x)) => Search(lfree, size) # Size
  BY <1>3, <1>4, <1>6
<1> QED BY <1>2, <1>7, <1>8

\* mem_malloc keeps the invariant.
LEMMA MallocStep ==
  ASSUME HeapInv, NEW n \in Requests, mem_malloc(n)
  PROVE  HeapInv'
<1> DEFINE size == Aligned(n)
           o == Search(lfree, size)
           next == heap[o].next
           o2 == o + Hdr + size
           taken == [heap EXCEPT ![o].used = TRUE]
<1>1. CASE n = 0 \/ ~Possible(n) \/ o = Size
  <2>1. UNCHANGED vars
    BY <1>1 DEF mem_malloc
  <2> QED BY <2>1 DEF HeapInv, HeldFits, Blocks, vars
<1>2. CASE ~(n = 0 \/ ~Possible(n) \/ o = Size)
  <2>1. /\ heap' = IF MaySplit(heap, o, size) THEN Cut(taken, o, size, next) ELSE taken
        /\ lfree' = IF o = lfree THEN NextFree(heap', o) ELSE lfree
        /\ held' = With(held, o, n)
    BY <1>2 DEF mem_malloc
  <2>2. n \in Nat \ {0} /\ size \in Nat /\ size >= MinSize /\ n <= size /\ o # Size
    BY <1>2, AlignedFacts, ConstantFacts DEF Possible
  <2> HIDE DEF size
  <2>3. o \in DOMAIN heap \ {Size} /\ ~heap[o].used /\ Room(heap, o) >= size /\ lfree <= o
    BY <2>2, SearchFinds DEF Blocks
  <2> HIDE DEF o
  <2>4. /\ ListOK(heap) /\ NoFreePair(heap, Size) /\ lfree \in DOMAIN heap /\ HeldFits
        /\ heap[lfree].used => lfree = Size
        /\ \A x \in DOMAIN heap \ {Size} : ~heap[x].used => lfree <= x
    BY DEF HeapInv, LowestFree
  <2>5. /\ o \in 0 .. Size /\ next \in DOMAIN heap /\ next \in 0 .. Size /\ next # o
        /\ \A x \in DOMAIN heap : x \in Nat /\ x <= Size /\ ~(o < x /\ x < next)
    BY <2>3, <2>4, ConstantFacts DEF ListOK
  <2>6. next = Size \/ heap[next].used
    BY <2>3, <2>4, <2>5 DEF NoFreePair
  <2>7. /\ DOMAIN taken = DOMAIN heap
        /\ taken \in [DOMAIN taken -> [next : 0 .. Size, prev : 0 .. Size, used : BOOLEAN]]
        /\ \A x \in DOMAIN heap : taken[x].next = heap[x].next /\ taken[x].prev = heap[x].prev
        /\ taken[o].used /\ \A x \in DOMAIN heap \ {o} : taken[x] = heap[x]
    <3>1. heap \in [DOMAIN heap -> [next : 0 .. Size, prev : 0 .. Size, used : BOOLEAN]]
      BY <2>4 DEF ListOK
    <3> QED BY <2>3, <3>1, Zenon
  <2> HIDE DEF taken
  <2>8. ListOK(taken)
    BY <2>3, <2>4, <2>7 DEF ListOK
  <2>9. NoFreePair(taken, Size)
    BY <2>3, <2>4, <2>7, <2>8, SMTT(30) DEF NoFreePair, ListOK
  <2>10. /\ ListOK(heap') /\ NoFreePair(heap', Size)
         /\ \A x : x \in DOMAIN heap' /\ heap'[x].used <=> x \in DOMAIN heap /\ (heap[x].used \/ x = o)
         /\ heap'[o].next \in Nat /\ heap'[o].next >= o + Hdr + size
         /\ \A x \in DOMAIN heap \ {o} : heap'[x].next = heap[x].next
         /\ DOMAIN heap \subseteq DOMAIN heap' /\ \A x \in DOMAIN heap' \ DOMAIN heap : o <= x
    <3>1. CASE MaySplit(heap, o, size)
      <4>1. /\ o2 \in Nat /\ o2 >= o + Hdr + MinSize /\ next >= o2 + Hdr + MinSize
            /\ o2 \in 0 .. Size /\ o2 \notin DOMAIN taken /\ o < o2
        BY <2>2, <2>5, <2>7, <3>1, ConstantFacts DEF MaySplit, Room
      <4>2. heap' = Cut(taken, o, size, next)
        BY <2>1, <3>1
      <4>3. IsCut(taken, heap', o, o2, next)
        BY <2>3, <2>5, <2>7, <4>1, <4>2, CutHeaders
      <4>4. next = taken[o].next /\ (next = Size \/ taken[next].used) /\ o \in DOMAIN taken \ {Size}
        BY <2>3, <2>5, <2>6, <2>7
      <4>5. /\ ListOK(heap') /\ NoFreePair(heap', Size)
            /\ \A x : x \in DOMAIN heap' /\ heap'[x].used <=> x \in DOMAIN taken /\ taken[x].used
            /\ heap'[o].next = o2 /\ \A x \in DOMAIN taken \ {o} : heap'[x].next = taken[x].next
        <5>1. taken[o].used /\ o2 \in Nat /\ o2 >= o + Hdr + MinSize /\ next >= o2 + Hdr + MinSize
          BY <2>7, <4>1
        <5> HIDE DEF o2, next
        <5> QED BY <2>8, <2>9, <4>3, <4>4, <5>1, CutUsed
      <4>6. DOMAIN heap' = DOMAIN heap \cup {o2}
        BY <2>7, <4>3 DEF IsCut
      <4>7. \A x : x \in DOMAIN heap' /\ heap'[x].used <=> x \in DOMAIN heap /\ (heap[x].used \/ x = o)
        BY <2>3, <2>7, <4>5
      <4>8. \A x \in DOMAIN heap \ {o} : heap'[x].next = heap[x].next
        BY <2>7, <4>5
      <4>9. \A x \in DOMAIN heap' \ DOMAIN heap : o <= x
        BY <2>5, <4>1, <4>6
      <4> QED BY <2>5, <4>1, <4>5, <4>6, <4>7, <4>8, <4>9
    <3>2. CASE ~MaySplit(heap, o, size)
      <4>1. heap' = taken
        BY <2>1, <3>2
      <4>2. next >= o + Hdr + size
        BY <2>2, <2>3, <2>5, ConstantFacts DEF Room
      <4>3. \A x : x \in DOMAIN heap' /\ heap'[x].used <=> x \in DOMAIN heap /\ (heap[x].used \/ x = o)
        BY <2>3, <2>7, <4>1
      <4>4. heap'[o].next = next
        BY <2>3, <2>7, <4>1
      <4> QED BY <2>5, <2>7, <2>8, <2>9, <4>1, <4>2, <4>3, <4>4
    <3> QED BY <3>1, <3>2
  <2>11. HeldFits'
    <3>1. \A x : x \in DOMAIN held <=> x \in DOMAIN heap /\ x # Size /\ heap[x].used
      BY <2>4 DEF HeldFits, Blocks
    <3>2. DOMAIN held' = DOMAIN held \cup {o} /\ held'[o] = n /\ \A x \in DOMAIN held \ {o} : held'[x] = held[x]
      BY <2>1 DEF With
    <3>3. {x \in Blocks : heap[x].used}' = DOMAIN held'
      BY <2>3, <2>10, <3>1, <3>2 DEF Blocks
    <3>4. held' \in [DOMAIN held' -> Nat \ {0}]
      BY <2>1, <2>2, <2>4 DEF HeldFits, With
    <3>5. ASSUME NEW x \in DOMAIN held' PROVE held'[x] <= Room(heap', x)
      <4>1. CASE x = o
        BY <2>2, <2>5, <2>10, <3>2, <4>1, ConstantFacts DEF Room
      <4>2. CASE x # o
        BY <2>4, <2>10, <3>1, <3>2, <4>2 DEF HeldFits, Room
      <4> QED BY <4>1, <4>2
    <3> QED BY <3>3, <3>4, <3>5 DEF HeldFits
  <2>12. lfree' \in DOMAIN heap' /\ LowestFree(heap', lfree')
    <3>1. \A x \in DOMAIN heap' \ {Size} : ~heap'[x].used => lfree <= x
      BY <2>3, <2>4, <2>5, <2>10 DEF ListOK
    <3>2. CASE o = lfree
      <4> DEFINE free == {x \in DOMAIN heap' : ~heap'[x].used}
      <4>1. lfree' = FirstFrom(heap', o, free)
        BY <2>1, <3>2 DEF NextFree
      <4>2. o \in DOMAIN heap'
        BY <2>3, <2>10
      <4>3. /\ lfree' \in DOMAIN heap' /\ o <= lfree' /\ (lfree' \in free \/ lfree' = Size)
            /\ \A x \in DOMAIN heap' : o <= x /\ x < lfree' => x \notin free
        <5> HIDE DEF free
        <5> QED BY <2>10, <4>1, <4>2, WalkStops
      <4>4. DOMAIN heap' \subseteq Nat
        BY <2>10 DEF ListOK
      <4>5. ASSUME NEW x \in DOMAIN heap' \ {Size}, ~heap'[x].used PROVE lfree' <= x
        BY <2>5, <3>1, <3>2, <4>3, <4>4, <4>5
      <4> QED BY <4>3, <4>5 DEF LowestFree
    <3>3. CASE o # lfree
      <4>1. lfree' = lfree /\ lfree \in DOMAIN heap'
        BY <2>1, <2>4, <2>10, <3>3
      <4>2. heap'[lfree].used => lfree = Size
        BY <2>4, <2>10, <3>3, <4>1
      <4> QED BY <3>1, <4>1, <4>2, ZenonT(30) DEF LowestFree
    <3> QED BY <3>2, <3>3
  <2> QED BY <2>10, <2>11, <2>12 DEF HeapInv
<1> QED BY <1>1, <1>2
-----------------------------------------------------------------------------
\* mem_init: one free block.
LEMMA HeapInit == Init => HeapInv
<1> SUFFICES ASSUME Init PROVE HeapInv
  OBVIOUS
<1>1. /\ DOMAIN heap = {0, Size} /\ 0 # Size /\ lfree = 0 /\ DOMAIN held = {}
      /\ \A o \in {0, Size} : heap[o] = [next |-> Size, prev |-> o, used |-> o = Size]
  BY ConstantFacts DEF Init
<1>2. heap \in [DOMAIN heap -> [next : 0 .. Size, prev : 0 .. Size, used : BOOLEAN]]
  <2>1. ASSUME NEW o \in {0, Size}
        PROVE  [next |-> Size, prev |-> o, used |-> o = Size] \in [next : 0 .. Size, prev : 0 .. Size, used : BOOLEAN]
    <3>1. Size \in 0 .. Size /\ o \in 0 .. Size /\ (o = Size) \in BOOLEAN
      BY ConstantFacts
    <3> QED BY <3>1
  <2> QED BY <2>1 DEF Init
<1>3. /\ heap[0].next = Size /\ heap[0].prev = 0 /\ ~heap[0].used
      /\ heap[Size].next = Size /\ heap[Size].prev = Size /\ heap[Size].used
      /\ heap[Size] = [next |-> Size, prev |-> Size, used |-> TRUE]
  <2>1. heap[0] = [next |-> Size, prev |-> 0, used |-> FALSE]
    BY <1>1
  <2>2. heap[Size] = [next |-> Size, prev |-> Size, used |-> TRUE]
    BY <1>1
  <2> QED BY <2>1, <2>2
<1>4. ListOK(heap)
  BY <1>1, <1>2, <1>3, ConstantFacts DEF ListOK
<1>5. NoFreePair(heap, Size) /\ LowestFree(heap, lfree)
  BY <1>1, <1>3, ConstantFacts DEF NoFreePair, LowestFree
<1>6. HeldFits
  BY <1>1, <1>3 DEF HeldFits, Blocks, Init
<1> QED BY <1>1, <1>4, <1>5, <1>6 DEF HeapInv

\* The list of the blocks is sound in every state of the heap.
THEOREM HeapInvariant == Spec => []HeapInv
<1>1. HeapInv /\ [Next]_vars => HeapInv'
  <2> SUFFICES ASSUME HeapInv, [Next]_vars PROVE HeapInv'
    OBVIOUS
  <2>1. CASE \E n \in Requests : mem_malloc(n)
    BY <2>1, MallocStep
  <2>2. CASE \E o \in DOMAIN held, n \in Requests \ {0} : mem_trim(o, n)
    BY <2>2, TrimStep
  <2>3. CASE \E o \in DOMAIN held : mem_free(o)
    BY <2>3, FreeStep
  <2>4. CASE UNCHANGED vars
    BY <2>4 DEF HeapInv, HeldFits, Blocks, vars
  <2> QED BY <2>1, <2>2, <2>3, <2>4 DEF Next
<1> QED BY <1>1, HeapInit, PTL DEF Spec

-----------------------------------------------------------------------------
\* Alignment.

\* All blocks of h are aligned.
BlocksAligned(h) == \A o \in DOMAIN h : o % Align = 0

\* A number is a multiple of the alignment exactly when it leaves no remainder.
LEMMA MultipleOf ==
  ASSUME NEW a \in Nat
  PROVE  a % Align = 0 <=> \E k \in Int : a = Align * k
<1> DEFINE q == a \div Align
           r == a % Align
<1>1. Align \in Nat /\ Align > 0
  BY ConstantFacts
<1>2. q \in Int /\ r \in 0 .. Align - 1 /\ a = Align * q + r
  BY <1>1
<1> HIDE DEF q, r
<1>3. r = 0 => \E k \in Int : a = Align * k
  BY <1>1, <1>2
<1>4. ASSUME NEW k \in Int, a = Align * k PROVE r = 0
  <2> DEFINE d == k - q
  <2>1. d \in Int /\ Align * d = r
    BY <1>1, <1>2, <1>4
  <2> HIDE DEF d
  <2>2. d >= 1 => Align * d >= Align
    BY <1>1, <2>1
  <2>3. d <= -1 => Align * d < 0
    BY <1>1, <2>1
  <2>4. d = 0 => Align * d = 0
    BY <1>1
  <2> QED BY <1>1, <1>2, <2>1, <2>2, <2>3, <2>4
<1> QED BY <1>3, <1>4 DEF r

\* The size of a block is aligned, also when rounding up overflows mem_size_t:
\* its range is a multiple of the alignment.
LEMMA SizeAligned ==
  ASSUME NEW n \in Nat
  PROVE  Aligned(n) % Align = 0
<1> DEFINE k == (n + Align - 1) \div Align
           m == k * Align
           a == m % Width
           q == m \div Width
<1>1. /\ Align \in Nat /\ Align > 0 /\ Width \in Nat /\ Width > 0 /\ MinSize \in Nat
      /\ Width % Align = 0 /\ MinSize % Align = 0
  BY ConstantFacts, MemAssumption
<1>2. k \in Nat
  BY <1>1
<1> HIDE DEF k
<1>3. m \in Nat /\ m = k * Align
  BY <1>1, <1>2
<1> HIDE DEF m
<1>4. a \in Nat /\ q \in Int /\ m = Width * q + a
  BY <1>1, <1>3
<1> HIDE DEF a, q
<1>5. PICK w \in Int : Width = Align * w
  BY <1>1, MultipleOf
<1>6. w * q \in Int /\ k - w * q \in Int
  BY <1>2, <1>4, <1>5
<1>7. a = Align * (k - w * q)
  <2>1. (Align * w) * q = Align * (w * q)
    BY <1>1, <1>4, <1>5
  <2>2. a = k * Align - Align * (w * q)
    BY <1>3, <1>4, <1>5, <2>1
  <2> QED BY <1>1, <1>2, <1>6, <2>2
<1>8. a % Align = 0
  BY <1>4, <1>6, <1>7, MultipleOf
<1> QED BY <1>1, <1>8 DEF Aligned, a, m, k

\* The header that Cut puts behind an aligned block is aligned.
LEMMA SecondAligned ==
  ASSUME NEW o \in Nat, o % Align = 0, NEW n \in Requests
  PROVE  (o + Hdr + Aligned(n)) % Align = 0
<1> DEFINE s == Aligned(n)
<1>1. Align \in Nat /\ Hdr \in Nat /\ Hdr % Align = 0 /\ n \in Nat
  BY ConstantFacts, MemAssumption
<1>2. s \in Nat /\ s % Align = 0
  <2> HIDE DEF Aligned
  <2> QED BY <1>1, AlignedFacts, SizeAligned
<1> HIDE DEF s
<1>3. PICK i \in Int, j \in Int, k \in Int : o = Align * i /\ Hdr = Align * j /\ s = Align * k
  BY <1>1, <1>2, MultipleOf
<1>4. o + Hdr + s = Align * (i + j + k) /\ i + j + k \in Int /\ o + Hdr + s \in Nat
  BY <1>1, <1>2, <1>3
<1> QED BY <1>4, MultipleOf DEF s

\* A step adds to the headers at most the one behind a block that is cut.
LEMMA HeadersFrom ==
  ASSUME HeapInv, [Next]_vars
  PROVE  \A x \in DOMAIN heap' : \/ x \in DOMAIN heap
                                  \/ \E o \in DOMAIN heap, n \in Requests : x = o + Hdr + Aligned(n)
<1> DEFINE New(x) == \E o \in DOMAIN heap, n \in Requests : x = o + Hdr + Aligned(n)
<1>1. \A h, o, prev : DOMAIN LinkedBack(h, o, prev) = DOMAIN h
  BY DEF LinkedBack
<1>2. \A h, o, size, next : DOMAIN Cut(h, o, size, next) = DOMAIN h \cup {o + Hdr + size}
  BY <1>1 DEF Cut, With
<1>3. \A s, a, b : DOMAIN Join(s, a, b).heap = DOMAIN s.heap \ {b}
  BY DEF Join, Restrict
<1>4. \A s, o : DOMAIN plug_holes(s, o).heap \subseteq DOMAIN s.heap
  <2>1. \A s, o : DOMAIN PlugForward(s, o).heap \subseteq DOMAIN s.heap
    BY <1>3 DEF PlugForward
  <2>2. \A s, o : DOMAIN PlugBackward(s, o).heap \subseteq DOMAIN s.heap
    BY <1>3 DEF PlugBackward
  <2> QED BY <2>1, <2>2 DEF plug_holes
<1>5. ASSUME NEW n \in Requests, mem_malloc(n)
      PROVE  \A x \in DOMAIN heap' : x \in DOMAIN heap \/ New(x)
  <2> DEFINE o == Search(lfree, Aligned(n))
             taken == [heap EXCEPT ![o].used = TRUE]
  <2>1. CASE UNCHANGED vars
    BY <2>1 DEF vars
  <2>2. CASE ~UNCHANGED vars
    <3>1. /\ o # Size
          /\ heap' = IF MaySplit(heap, o, Aligned(n)) THEN Cut(taken, o, Aligned(n), heap[o].next) ELSE taken
      BY <1>5, <2>2 DEF mem_malloc
    <3>2. Aligned(n) \in Nat
      BY <1>5, AlignedFacts
    <3> HIDE DEF Aligned
    <3>3. o \in DOMAIN heap
      BY <3>1, <3>2, SearchFinds DEF Blocks
    <3> HIDE DEF o
    <3>4. DOMAIN taken = DOMAIN heap
      OBVIOUS
    <3> HIDE DEF taken
    <3>5. DOMAIN heap' \subseteq DOMAIN heap \cup {o + Hdr + Aligned(n)}
      <4>1. \A h, next : DOMAIN Cut(h, o, Aligned(n), next) = DOMAIN h \cup {o + Hdr + Aligned(n)}
        BY <1>2, Zenon
      <4>2. heap' = Cut(taken, o, Aligned(n), heap[o].next) \/ heap' = taken
        BY <3>1
      <4> QED BY <3>4, <4>1, <4>2, Zenon
    <3> QED BY <1>5, <3>3, <3>5
  <2> QED BY <2>1, <2>2
<1>6. ASSUME NEW o \in DOMAIN held, NEW n \in Requests \ {0}, mem_trim(o, n)
      PROVE  \A x \in DOMAIN heap' : x \in DOMAIN heap \/ New(x)
  <2>1. o \in DOMAIN heap
    BY <1>6 DEF HeapInv, HeldFits, Blocks
  <2>2. \/ heap' = heap
        \/ heap' = Cut(Restrict(heap, DOMAIN heap \ {heap[o].next}), o, Aligned(n), heap[heap[o].next].next)
        \/ heap' = Cut(heap, o, Aligned(n), heap[o].next)
    BY <1>6 DEF mem_trim
  <2>3. DOMAIN Restrict(heap, DOMAIN heap \ {heap[o].next}) \subseteq DOMAIN heap
    BY DEF Restrict
  <2> HIDE DEF Aligned
  <2>4. DOMAIN heap' \subseteq DOMAIN heap \cup {o + Hdr + Aligned(n)}
    <3>1. \A h, next : DOMAIN Cut(h, o, Aligned(n), next) = DOMAIN h \cup {o + Hdr + Aligned(n)}
      BY <1>2, Zenon
    <3> QED BY <2>2, <2>3, <3>1, Zenon
  <2> QED BY <1>6, <2>1, <2>4
<1>7. ASSUME NEW o \in DOMAIN held, mem_free(o)
      PROVE  \A x \in DOMAIN heap' : x \in DOMAIN heap
  <2> DEFINE s == [heap |-> [heap EXCEPT ![o].used = FALSE], lfree |-> Lower(o)]
  <2>1. DOMAIN s.heap = DOMAIN heap
    OBVIOUS
  <2>2. heap' = heap \/ heap' = plug_holes(s, o).heap
    BY <1>7 DEF mem_free
  <2> HIDE DEF s
  <2> QED BY <1>4, <2>1, <2>2
<1>8. CASE UNCHANGED vars
  BY <1>8 DEF vars
<1> QED BY <1>5, <1>6, <1>7, <1>8 DEF Next

\* Every block is aligned, so that the area behind its header is: rounding up never
\* yields a size that is not a multiple of MEM_ALIGNMENT.
THEOREM HeapAligned == Spec => []BlocksAligned(heap)
<1>1. Init => BlocksAligned(heap)
  <2> SUFFICES ASSUME Init PROVE BlocksAligned(heap)
    OBVIOUS
  <2>1. DOMAIN heap = {0, Size} /\ Size % Align = 0
    BY MemAssumption DEF Init
  <2>2. 0 % Align = 0
    BY ConstantFacts
  <2> QED BY <2>1, <2>2 DEF BlocksAligned
<1>2. HeapInv /\ BlocksAligned(heap) /\ [Next]_vars => BlocksAligned(heap)'
  <2> SUFFICES ASSUME HeapInv, BlocksAligned(heap), [Next]_vars, NEW x \in DOMAIN heap'
               PROVE  x % Align = 0
    BY DEF BlocksAligned
  <2>1. CASE x \in DOMAIN heap
    BY <2>1 DEF BlocksAligned
  <2>2. ASSUME NEW o \in DOMAIN heap, NEW n \in Requests, x = o + Hdr + Aligned(n)
        PROVE  x % Align = 0
    <3>1. o \in Nat /\ o % Align = 0 /\ n \in Nat
      BY <2>2, ConstantFacts DEF HeapInv, ListOK, BlocksAligned
    <3> HIDE DEF Aligned
    <3> QED BY <2>2, <3>1, SecondAligned
  <2> QED BY <2>1, <2>2, HeadersFrom
<1> QED BY <1>1, <1>2, HeapInvariant, PTL DEF Spec

\* The list runs through all blocks in both directions, no two free blocks follow
\* each other, all are aligned, and lfree is the lowest free one (mem_sanity).
THEOREM HeapSane == Spec => []Sane
<1>1. HeapInv /\ BlocksAligned(heap) => Sane
  <2> SUFFICES ASSUME HeapInv, BlocksAligned(heap) PROVE Sane
    OBVIOUS
  <2>1. ListOK(heap) /\ NoFreePair(heap, Size) /\ lfree \in DOMAIN heap /\ LowestFree(heap, lfree)
    BY DEF HeapInv
  <2>2. TypeOK
    BY <2>1 DEF TypeOK, ListOK, HeapInv, HeldFits, Blocks
  <2>3. ASSUME NEW o \in Blocks
        PROVE  /\ heap[o].next \in DOMAIN heap /\ heap[o].next >= o + Hdr + MinSize
               /\ \A p \in DOMAIN heap : ~(o < p /\ p < heap[o].next)
               /\ heap[o].next # Size => heap[heap[o].next].prev = o
    BY <2>1 DEF ListOK, Blocks
  <2>4. ASSUME NEW o \in Blocks
        PROVE  /\ heap[o].next # Size => heap[o].used \/ heap[heap[o].next].used
               /\ ~heap[o].used => lfree <= o
    BY <2>1 DEF NoFreePair, LowestFree, Blocks
  <2>5. heap[0].prev = 0 /\ heap[Size] = [next |-> Size, prev |-> Size, used |-> TRUE]
    BY <2>1 DEF ListOK
  <2>6. heap[lfree].used => lfree = Size
    BY <2>1 DEF LowestFree
  <2> QED BY <2>2, <2>3, <2>4, <2>5, <2>6 DEF Sane, BlocksAligned
<1> QED BY <1>1, HeapInvariant, HeapAligned, PTL

\* No block in use is lost, and none is given out twice.
THEOREM HeapUsedIsHeld == Spec => []UsedIsHeld
<1>1. HeapInv => UsedIsHeld
  BY DEF HeapInv, HeldFits, UsedIsHeld
<1> QED BY <1>1, HeapInvariant, PTL

\* When everything is given back the heap is one free block again, whatever the
\* order in which blocks were taken, shrunk and freed: plug_holes leaves none over.
THEOREM HeapWholeAgain == Spec => []WholeAgain
<1>1. HeapInv => WholeAgain
  <2> SUFFICES ASSUME HeapInv, DOMAIN held = {} PROVE heap[0].next = Size /\ lfree = 0
    BY DEF WholeAgain
  <2>1. \A o \in DOMAIN heap \ {Size} : ~heap[o].used
    BY DEF HeapInv, HeldFits, Blocks
  <2>2. ListOK(heap) /\ NoFreePair(heap, Size) /\ lfree \in DOMAIN heap /\ LowestFree(heap, lfree)
    BY DEF HeapInv
  <2>3. 0 \in DOMAIN heap \ {Size} /\ heap[0].next \in DOMAIN heap /\ DOMAIN heap \subseteq Nat
    BY <2>2, ConstantFacts, SMTT(30) DEF ListOK
  <2>4. heap[0].next = Size
    BY <2>1, <2>2, <2>3 DEF NoFreePair
  <2>5. lfree <= 0 /\ lfree \in Nat
    BY <2>1, <2>2, <2>3 DEF LowestFree
  <2> QED BY <2>4, <2>5
<1> QED BY <1>1, HeapInvariant, PTL

\* mem_malloc fails only when no free block has the room: the search from lfree,
\* which ends before the end of the heap, misses none.
THEOREM HeapFoundIfRoom == Spec => []FoundIfRoom
<1>1. HeapInv => FoundIfRoom
  <2> SUFFICES ASSUME HeapInv, NEW n \in Requests \ {0},
                      \E o \in Blocks : ~heap[o].used /\ Room(heap, o) >= Aligned(n)
               PROVE  Search(lfree, Aligned(n)) # Size
    BY DEF FoundIfRoom
  <2>1. Aligned(n) \in Nat
    BY AlignedFacts
  <2> HIDE DEF Aligned
  <2> QED BY <2>1, SearchFinds
<1> QED BY <1>1, HeapInvariant, PTL
-----------------------------------------------------------------------------
\* The refinement.

\* The areas of the callers are in different places.
LEMMA AreaIsOf ==
  ASSUME HeapInv, NEW o \in DOMAIN held, NEW x \in DOMAIN held, Area(o) = Area(x)
  PROVE  o = x
<1>1. o \in Int /\ x \in Int
  BY DEF HeapInv, HeldFits, Blocks, ListOK
<1>2. o + Hdr = x + Hdr
  BY DEF Area
<1> QED BY <1>1, <1>2, ConstantFacts

\* A block that mem_malloc gives out lies apart from all others in use.
LEMMA MallocRefines ==
  ASSUME HeapInv, HeapInv', NEW n \in Requests, mem_malloc(n), ~UNCHANGED vars
  PROVE  \E r \in Areas' : Alloc!Malloc(r)
<1> DEFINE o == Search(lfree, Aligned(n))
           r == [at |-> o + Hdr, size |-> n]
<1>1. held' = With(held, o, n) /\ n # 0 /\ o # Size
  BY DEF mem_malloc
<1>2. Aligned(n) \in Nat
  BY AlignedFacts
<1>3. o \in DOMAIN heap \ {Size} /\ ~heap[o].used
  <2> HIDE DEF Aligned
  <2> QED BY <1>1, <1>2, SearchFinds DEF Blocks
<1> HIDE DEF o
<1>4. o \notin DOMAIN held
  BY <1>3 DEF HeapInv, HeldFits, Blocks
<1>5. /\ DOMAIN held' = DOMAIN held \cup {o} /\ held'[o] = n
      /\ \A x \in DOMAIN held : held'[x] = held[x]
  BY <1>1, <1>4 DEF With
<1>6. Areas' = Areas \cup {r} /\ r \in Areas'
  BY <1>5 DEF Areas, Area
<1>7. \A x \in DOMAIN held' : /\ x \in Nat /\ held'[x] \in Nat \ {0} /\ heap'[x].next \in Nat
                              /\ heap'[x].next <= Size /\ x + Hdr + held'[x] <= heap'[x].next
                              /\ \A y \in DOMAIN held' : x < y => heap'[x].next <= y
  <2>1. ListOK(heap') /\ DOMAIN held' \subseteq DOMAIN heap' \ {Size}
    BY DEF HeapInv, HeldFits, Blocks
  <2>2. \A x \in DOMAIN held' : held'[x] \in Nat \ {0} /\ held'[x] <= Room(heap', x)
    BY DEF HeapInv, HeldFits
  <2> QED BY <2>1, <2>2, ConstantFacts DEF ListOK, Room
<1>8. 0 <= r.at /\ 0 < r.size /\ r.at + r.size <= Size
  BY <1>5, <1>7, ConstantFacts
<1>9. ASSUME NEW x \in DOMAIN held
      PROVE  r.at + r.size <= x + Hdr \/ x + Hdr + held[x] <= r.at
  <2>1. x \in Nat /\ o \in Nat /\ held[x] \in Nat /\ n \in Nat /\ x # o /\ x \in DOMAIN held' /\ o \in DOMAIN held'
    BY <1>4, <1>5, <1>7
  <2>2. CASE o < x
    <3>1. o + Hdr + n <= x
      BY <1>5, <1>7, <2>1, <2>2, ConstantFacts
    <3> QED BY <2>1, <3>1, ConstantFacts
  <2>3. CASE x < o
    <3>1. x + Hdr + held[x] <= o
      BY <1>5, <1>7, <2>1, <2>3, ConstantFacts
    <3> QED BY <2>1, <3>1, ConstantFacts
  <2> QED BY <2>1, <2>2, <2>3
<1>10. \A s \in Areas : Alloc!Apart(r, s)
  BY <1>9 DEF Areas, Area, Alloc!Apart
<1> QED BY <1>6, <1>8, <1>10 DEF Alloc!Malloc

\* mem_trim leaves an area in its place, and no larger.
LEMMA TrimRefines ==
  ASSUME HeapInv, HeapInv', NEW o \in DOMAIN held, NEW n \in Requests \ {0}, mem_trim(o, n)
  PROVE  \E r \in Areas, s \in Areas' : Alloc!Shrink(r, s)
<1>1. held' = [held EXCEPT ![o] = n] /\ n <= held[o] /\ n \in Nat \ {0}
  BY ConstantFacts DEF mem_trim
<1>2. DOMAIN held' = DOMAIN held /\ held'[o] = n /\ \A x \in DOMAIN held \ {o} : held'[x] = held[x]
  BY <1>1
<1> DEFINE r == Area(o)
           s == [at |-> o + Hdr, size |-> n]
<1>3. r \in Areas /\ s \in Areas'
  BY <1>2 DEF Areas, Area
<1>4. Areas' = (Areas \ {r}) \cup {s}
  <2>1. Areas' = {Area(x) : x \in DOMAIN held \ {o}} \cup {s}
    BY <1>2 DEF Areas, Area
  <2>2. Areas \ {r} = {Area(x) : x \in DOMAIN held \ {o}}
    BY AreaIsOf DEF Areas
  <2> QED BY <2>1, <2>2
<1>5. s.at = r.at /\ 0 < s.size /\ s.size <= r.size
  BY <1>1 DEF Area
<1> QED BY <1>3, <1>4, <1>5, Zenon DEF Alloc!Shrink

\* mem_free takes away the area given back and no other.
LEMMA FreeRefines ==
  ASSUME HeapInv, HeapInv', NEW o \in DOMAIN held, mem_free(o)
  PROVE  \E r \in Areas : Alloc!Free(r)
<1>1. DOMAIN held' = DOMAIN held \ {o} /\ \A x \in DOMAIN held' : held'[x] = held[x]
  BY DEF mem_free, Restrict
<1>2. Areas' = {Area(x) : x \in DOMAIN held \ {o}}
  BY <1>1 DEF Areas, Area
<1>3. Areas \ {Area(o)} = {Area(x) : x \in DOMAIN held \ {o}}
  BY AreaIsOf DEF Areas
<1>4. Area(o) \in Areas
  BY DEF Areas
<1> QED BY <1>2, <1>3, <1>4 DEF Alloc!Free

\* The heap keeps the promise of an allocator: what it hands out lies in the memory
\* and apart from every area in use, and stays in place until it is given back.
THEOREM HeapImplementsAllocator == Spec => ImplementsAllocator
<1>1. Init => Alloc!Init
  BY DEF Init, Alloc!Init, Areas
<1>2. ASSUME HeapInv, HeapInv', [Next]_vars
      PROVE  [Alloc!Next]_Areas
  <2>1. CASE UNCHANGED vars
    BY <2>1 DEF vars, Areas, Area
  <2>2. CASE Next /\ ~UNCHANGED vars
    <3>1. CASE \E n \in Requests : mem_malloc(n)
      BY <1>2, <2>2, <3>1, MallocRefines DEF Alloc!Next
    <3>2. CASE \E o \in DOMAIN held, n \in Requests \ {0} : mem_trim(o, n)
      BY <1>2, <3>2, TrimRefines DEF Alloc!Next
    <3>3. CASE \E o \in DOMAIN held : mem_free(o)
      BY <1>2, <3>3, FreeRefines DEF Alloc!Next
    <3> QED BY <2>2, <3>1, <3>2, <3>3 DEF Next
  <2> QED BY <1>2, <2>1, <2>2
<1> QED BY <1>1, <1>2, HeapInvariant, PTL DEF Spec, ImplementsAllocator, Alloc!Spec

\* What the callers hold at any time: areas within the memory, aligned, no two of
\* which share a byte.
AreasSafe ==
  /\ \A r \in Areas : 0 < r.size /\ 0 <= r.at /\ r.at + r.size <= Size /\ r.at % Align = 0
  /\ \A r, s \in Areas : r # s => Alloc!Apart(r, s)

\* The areas that mem_malloc has given out and nobody has freed lie apart from each
\* other, aligned and within the heap, whatever has been shrunk and freed around them.
THEOREM HeapAreasSafe == Spec => []AreasSafe
<1>1. ASSUME HeapInv, BlocksAligned(heap) PROVE AreasSafe
  <2>1. ListOK(heap) /\ DOMAIN held \subseteq DOMAIN heap \ {Size}
    BY <1>1 DEF HeapInv, HeldFits, Blocks
  <2>2. \A x \in DOMAIN held : held[x] \in Nat \ {0} /\ held[x] <= Room(heap, x)
    BY <1>1 DEF HeapInv, HeldFits
  <2>3. \A x \in DOMAIN held : /\ x \in Nat /\ held[x] \in Nat \ {0} /\ heap[x].next \in Nat
                               /\ heap[x].next <= Size /\ x + Hdr + held[x] <= heap[x].next
                               /\ \A y \in DOMAIN held : x < y => heap[x].next <= y
    BY <2>1, <2>2, ConstantFacts DEF ListOK, Room
  <2>4. ASSUME NEW x \in DOMAIN held
        PROVE  LET r == Area(x) IN
               0 < r.size /\ 0 <= r.at /\ r.at + r.size <= Size /\ r.at % Align = 0
    <3>1. (x + Hdr) % Align = 0
      <4>1. x \in Nat /\ Hdr \in Nat /\ x % Align = 0 /\ Hdr % Align = 0 /\ Align \in Nat
        BY <1>1, <2>1, <2>3, ConstantFacts, MemAssumption DEF BlocksAligned
      <4>2. PICK i \in Int, j \in Int : x = Align * i /\ Hdr = Align * j
        BY <4>1, MultipleOf, Zenon
      <4>3. x + Hdr = Align * (i + j) /\ i + j \in Int /\ x + Hdr \in Nat
        BY <4>1, <4>2
      <4> QED BY <4>3, MultipleOf
    <3> QED BY <2>3, <3>1, ConstantFacts DEF Area
  <2>5. ASSUME NEW x \in DOMAIN held, NEW y \in DOMAIN held, x # y
        PROVE  Alloc!Apart(Area(x), Area(y))
    <3>1. x + Hdr + held[x] <= y + Hdr \/ y + Hdr + held[y] <= x + Hdr
      BY <2>3, <2>5, ConstantFacts
    <3> QED BY <3>1 DEF Alloc!Apart, Area
  <2> QED BY <2>4, <2>5 DEF AreasSafe, Areas
<1> QED BY <1>1, HeapInvariant, HeapAligned, PTL
=============================================================================
