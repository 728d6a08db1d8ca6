------------------------------- MODULE MemHeap -------------------------------
(***************************************************************************)
(* The heap of lwIP (core/mem.c): a list of blocks, each with a header, in *)
(* the order of their addresses.  Callers allocate, shrink and free blocks *)
(* of any size in any order; they free a block once.  The calls do not     *)
(* interrupt each other.  Only the headers that are in use are kept: what  *)
(* a joined block leaves behind is memory like any other.                  *)
(***************************************************************************)
EXTENDS Integers, Functions

CONSTANTS
  Size,      \* MEM_SIZE_ALIGNED
  Hdr,       \* SIZEOF_STRUCT_MEM
  MinSize,   \* MIN_SIZE_ALIGNED
  Align,     \* MEM_ALIGNMENT
  Width,     \* mem_size_t counts modulo this
  Requests   \* the sizes that callers ask for

ASSUME MemAssumption ==
  /\ {Size, Hdr, MinSize, Align, Width} \subseteq Nat \ {0}
  /\ Size + Hdr < Width /\ Hdr + MinSize <= Size
  /\ \A n \in {Size, Hdr, MinSize, Width} : n % Align = 0
  /\ Requests \subseteq 0 .. Width - 1

VARIABLES
  heap,   \* the headers, by offset: next, prev and used
  lfree,  \* the lowest free block
  held    \* what callers hold: the size they asked for, by block

vars == <<heap, lfree, held>>

TypeOK ==
  /\ {0, Size} \subseteq DOMAIN heap /\ DOMAIN heap \subseteq 0 .. Size
  /\ heap \in [DOMAIN heap -> [next : 0 .. Size, prev : 0 .. Size, used : BOOLEAN]]
  /\ lfree \in DOMAIN heap
  /\ DOMAIN held \subseteq DOMAIN heap \ {Size}

\* mem_init: one free block, and the end of the heap, which is never free.
Init ==
  /\ heap = [o \in {0, Size} |-> [next |-> Size, prev |-> o, used |-> o = Size]]
  /\ lfree = 0 /\ held = [o \in {} |-> 0]

-----------------------------------------------------------------------------
\* The size of a block for a request, in mem_size_t, and whether there can be
\* one.  The slip misses that the alignment overflowed.
Aligned(n) ==
  LET a == (((n + Align - 1) \div Align) * Align) % Width IN
  IF a < MinSize THEN MinSize ELSE a

PossibleUnlessLarge(n) == Aligned(n) <= Size
Possible(n) == Aligned(n) <= Size /\ Aligned(n) >= n

\* The data a block has room for.
Room(h, o) == h[o].next - (o + Hdr)

\* The function f with the value v at x as well.
With(f, x, v) == [y \in DOMAIN f \cup {x} |-> IF y = x THEN v ELSE f[y]]

\* The block before o is prev, unless o is the end of the heap.
LinkedBack(h, o, prev) == IF o = Size THEN h ELSE [h EXCEPT ![o].prev = prev]

\* One half of plug_holes: block b, next to a, becomes part of it.  The slip: the
\* block behind still points to b.
JoinForgetsPrev(s, a, b) ==
  [heap  |-> Restrict([s.heap EXCEPT ![a].next = s.heap[b].next], DOMAIN s.heap \ {b}),
   lfree |-> IF s.lfree = b THEN a ELSE s.lfree]
Join(s, a, b) ==
  [heap  |-> Restrict(LinkedBack([s.heap EXCEPT ![a].next = s.heap[b].next], s.heap[b].next, a),
                      DOMAIN s.heap \ {b}),
   lfree |-> IF s.lfree = b THEN a ELSE s.lfree]

PlugForward(s, o) ==
  LET n == s.heap[o].next IN
  IF n # o /\ ~s.heap[n].used /\ n # Size THEN Join(s, o, n) ELSE s

\* The slip leaves this half out.
PlugBackwardNot(s, o) == s
PlugBackward(s, o) ==
  LET p == s.heap[o].prev IN
  IF p # o /\ ~s.heap[p].used THEN Join(s, p, o) ELSE s

plug_holes(s, o) == PlugBackward(PlugForward(s, o), o)

\* mem_link_valid.
LinkValid(h, o) ==
  /\ h[o].prev # o => h[h[o].prev].next = o
  /\ h[o].next # Size => h[h[o].next].prev = o

-----------------------------------------------------------------------------
\* lfree when block o becomes free.
Lower(o) == IF o < lfree THEN o ELSE lfree

mem_free(o) ==
  /\ held' = Restrict(held, DOMAIN held \ {o})
  /\ IF heap[o].used /\ LinkValid(heap, o)
     THEN LET s == plug_holes([heap |-> [heap EXCEPT ![o].used = FALSE], lfree |-> Lower(o)], o)
          IN heap' = s.heap /\ lfree' = s.lfree
     ELSE UNCHANGED <<heap, lfree>>

\* Block o is cut to "size", and a block follows it which ends where "next" does.
\* The slip: the block behind still points to o.
CutForgetsPrev(h, o, size, next) ==
  LET o2 == o + Hdr + size IN
  With([h EXCEPT ![o].next = o2], o2, [next |-> next, prev |-> o, used |-> FALSE])
Cut(h, o, size, next) ==
  LET o2 == o + Hdr + size IN
  LinkedBack(With([h EXCEPT ![o].next = o2], o2, [next |-> next, prev |-> o, used |-> FALSE]),
             next, o2)

\* There is room for "size" and for another block.
MaySplit(h, o, size) == Room(h, o) >= size + Hdr + MinSize

\* lfree when the free block o moves to o2.
Moved(o, o2) == IF lfree = o THEN o2 ELSE lfree

mem_trim(o, n) ==
  LET size == Aligned(n)
      next == heap[o].next
      o2 == o + Hdr + size
  IN /\ n <= held[o] /\ Possible(n) /\ size <= Room(heap, o)
     /\ held' = [held EXCEPT ![o] = n]
     /\ IF size = Room(heap, o) THEN UNCHANGED <<heap, lfree>>
        ELSE IF ~heap[next].used
        THEN /\ heap' = Cut(Restrict(heap, DOMAIN heap \ {next}), o, size, heap[next].next)
             /\ lfree' = Moved(next, o2)
        ELSE IF MaySplit(heap, o, size)
        THEN heap' = Cut(heap, o, size, next) /\ lfree' = Lower(o2)
        ELSE UNCHANGED <<heap, lfree>>

\* The search of mem_malloc: the first free block from p on with enough room.
\* The slip stops too early.
BeyondLast(p, size) == p >= Size - size - Hdr
Beyond(p, size) == p >= Size - size

\* Where a walk along "next" from block p stops: at the first block of "stops", or
\* at the end of the heap.
FirstFrom(h, p, stops) ==
  LET first[q \in DOMAIN h] == IF q \in stops \/ q = Size THEN q ELSE first[h[q].next]
  IN first[p]

Search(p, size) ==
  LET q == FirstFrom(heap, p, {o \in DOMAIN heap :
                                 Beyond(o, size) \/ (~heap[o].used /\ Room(heap, o) >= size)})
  IN IF Beyond(q, size) THEN Size ELSE q

NextFree(h, o) == FirstFrom(h, o, {q \in DOMAIN h : ~h[q].used})

mem_malloc(n) ==
  LET size == Aligned(n)
      o == Search(lfree, size)
      taken == [heap EXCEPT ![o].used = TRUE]
  IN IF n = 0 \/ ~Possible(n) \/ o = Size THEN UNCHANGED vars
     ELSE /\ heap' = IF MaySplit(heap, o, size) THEN Cut(taken, o, size, heap[o].next) ELSE taken
          /\ lfree' = IF o = lfree THEN NextFree(heap', o) ELSE lfree
          /\ held' = With(held, o, n)

Next ==
  \/ \E n \in Requests : mem_malloc(n)
  \/ \E o \in DOMAIN held, n \in Requests \ {0} : mem_trim(o, n)
  \/ \E o \in DOMAIN held : mem_free(o)

Spec == Init /\ [][Next]_vars

-----------------------------------------------------------------------------
(* Properties. *)

Blocks == DOMAIN heap \ {Size}

\* What mem_sanity demands: the list runs through all blocks, forward and backward,
\* no two free blocks follow each other, every block is aligned (and with it what
\* mem_malloc returns), and is large enough for mem_free to accept it; and lfree is
\* the lowest free block.
Sane ==
  /\ TypeOK /\ \A o \in DOMAIN heap : o % Align = 0
  /\ heap[0].prev = 0 /\ heap[Size] = [next |-> Size, prev |-> Size, used |-> TRUE]
  /\ \A o \in Blocks :
       LET n == heap[o].next IN
       /\ n \in DOMAIN heap /\ n >= o + Hdr + MinSize
       /\ \A p \in DOMAIN heap : ~(o < p /\ p < n)
       /\ n # Size => heap[n].prev = o /\ (heap[o].used \/ heap[n].used)
       /\ ~heap[o].used => lfree <= o
  /\ heap[lfree].used => lfree = Size

\* The blocks marked used are those that callers hold: none is lost, and none is
\* given out while it is in use.
UsedIsHeld == {o \in Blocks : heap[o].used} = DOMAIN held

\* When all is given back, the heap is one block again.
WholeAgain == DOMAIN held = {} => heap[0].next = Size /\ lfree = 0

\* The search finds a block for a request whenever some free block has the room.
FoundIfRoom ==
  \A n \in Requests \ {0} :
    Possible(n) /\ (\E o \in Blocks : ~heap[o].used /\ Room(heap, o) >= Aligned(n))
      => Search(lfree, Aligned(n)) # Size

\* The heap keeps the promise of Allocator for the areas of its callers.
Area(o) == [at |-> o + Hdr, size |-> held[o]]
Areas == {Area(o) : o \in DOMAIN held}

Alloc == INSTANCE Allocator WITH MemSize <- Size, areas <- Areas
ImplementsAllocator == Alloc!Spec
=============================================================================
