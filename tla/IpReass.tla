------------------------------- MODULE IpReass -------------------------------
(***************************************************************************)
(* Reassembly of IPv4 fragments (core/ipv4/ip4_frag.c): the list of        *)
(* datagrams being put together, ip4_reass for every fragment that comes   *)
(* in, and ip_reass_tmr once a second.  Every interval of a datagram may   *)
(* come in as a fragment, any number of times and in any order: fragments  *)
(* are lost, repeated, overtaken, and cut differently on different paths.  *)
(* A unit of length is what one pool buffer holds.  Fragments whose end    *)
(* does not fit into 16 bits come in as well.                              *)
(***************************************************************************)
EXTENDS Integers, Sequences

CONSTANTS
  Ids,       \* the datagrams: source, destination and identification
  Size,      \* their length in units
  MaxPbufs,  \* IP_REASS_MAX_PBUFS
  NumReass,  \* MEMP_NUM_REASSDATA
  MaxAge     \* IP_REASS_MAXAGE

ASSUME ReassAssumption == {Size, MaxPbufs, NumReass, MaxAge} \subseteq Nat

VARIABLES
  list,   \* reassdatagrams, with every entry's list of fragments
  count,  \* ip_reass_pbufcount
  up      \* the fragments of the datagram that ip4_reass returned last

vars == <<list, count, up>>

Fragments == {f \in [start : 0 .. Size - 1, end : 1 .. Size] :
                f.start < f.end /\ f.end - f.start < Size}

\* Fragments that end beyond what a u16_t counts, and so beyond the datagram; the
\* first fragment of a datagram cannot.
Overlong == {f \in [start : 1 .. Size, end : Size + 1 .. 2 * Size] : f.end - f.start < Size}
Incoming == Fragments \union Overlong

Entries == [id : Ids, frags : Seq(Fragments), last : BOOLEAN, hdr : 0 .. Size,
            timer : 0 .. MaxAge]

TypeOK ==
  /\ list \in Seq(Entries) /\ Len(list) <= NumReass
  /\ count \in 0 .. MaxPbufs
  /\ up \in Seq(Fragments)

Init == list = <<>> /\ count = 0 /\ up = <<>>

-----------------------------------------------------------------------------
\* Sequence s without its i-th member, and with e at place i; its members; the
\* least of a set of places.
RemoveAt(s, i) == SubSeq(s, 1, i - 1) \o SubSeq(s, i + 1, Len(s))
InsertAt(s, i, e) == SubSeq(s, 1, i - 1) \o <<e>> \o SubSeq(s, i, Len(s))
Members(s) == {s[k] : k \in DOMAIN s}
Least(S) == CHOOSE k \in S : \A j \in S : k <= j

\* The sum of a sequence of numbers.
Total(w) ==
  LET upTo[n \in 0 .. Len(w)] == IF n = 0 THEN 0 ELSE upTo[n - 1] + w[n]
  IN upTo[Len(w)]

\* pbuf_clen of one fragment, of all fragments of an entry, and of all entries.
Clen(f) == f.end - f.start
Pbufs(e) == Total([k \in 1 .. Len(e.frags) |-> Clen(e.frags[k])])
AllPbufs(l) == Total([k \in 1 .. Len(l) |-> Pbufs(l[k])])

\* ip_reass_free_complete_datagram: entry k of the list s.list goes and with it
\* its pbufs.  The slip frees the first fragment, which is used for the ICMP
\* message, without counting it.
FreeButFirst(s, k) ==
  [list |-> RemoveAt(s.list, k),
   count |-> s.count - Pbufs([s.list[k] EXCEPT !.frags = Tail(@)])]
Free(s, k) == [list |-> RemoveAt(s.list, k), count |-> s.count - Pbufs(s.list[k])]

\* ip_reass_remove_oldest_datagram: entries of datagrams other than id go, those
\* with the lowest timer first and of these the last in the list, until "needed"
\* pbufs are free.
Others(l, id) == {k \in DOMAIN l : l[k].id # id}

Oldest(l, id) ==
  CHOOSE k \in Others(l, id) : \A j \in Others(l, id) \ {k} :
    l[k].timer < l[j].timer \/ (l[k].timer = l[j].timer /\ j < k)

RemoveOldest(s, id, needed) ==
  LET after[n \in 0 .. Len(s.list)] ==
        IF n = 0 THEN s
        ELSE LET t == after[n - 1] IN
             IF Others(t.list, id) = {} \/ s.count - t.count >= needed THEN t
             ELSE Free(t, Oldest(t.list, id))
  IN after[Len(s.list)]

\* ip_reass_enqueue_new_datagram: a new entry in front of the others, if one is
\* free or can be made free.
NewEntry(id, f) ==
  [id |-> id, frags |-> <<>>, last |-> FALSE, hdr |-> f.start, timer |-> MaxAge]

Enqueue(s, id, f) ==
  LET t == IF Len(s.list) < NumReass THEN s ELSE RemoveOldest(s, id, Clen(f)) IN
  IF Len(s.list) < NumReass \/ s.count - t.count >= Clen(f)
  THEN [t EXCEPT !.list = <<NewEntry(id, f)>> \o @] ELSE t

\* ip_reass_chain_frag_into_datagram_and_validate: where the fragment goes, when
\* it is dropped instead (it is here already or overlaps with its neighbours),
\* and when the datagram is complete.  The slips: the holes behind the new
\* fragment are not looked at; a datagram is complete only when its fragments
\* come in order.
Place(frags, f) ==
  Least({i \in 1 .. Len(frags) + 1 : i <= Len(frags) => f.start <= frags[i].start})

Dropped(frags, f, i) ==
  \/ i > 1 /\ frags[i - 1].end > f.start
  \/ i <= Len(frags) /\ frags[i].start < f.end

Joined(frags, from, to) == \A k \in from .. to - 1 : frags[k].end = frags[k + 1].start

FinishedUpTo(frags, i) == Joined(frags, 1, i) /\ frags[1].start = 0
FinishedInOrder(frags, i) == FinishedUpTo(frags, i) /\ i = Len(frags)
Finished(frags, i) ==
  Joined(frags, 1, i) /\ frags[1].start = 0 /\ Joined(frags, i, Len(frags))

\* The header kept for the datagram: that of the first fragment once it is here.
Header(e, f) == IF f.start = 0 THEN 0 ELSE e.hdr

-----------------------------------------------------------------------------
Becomes(s, datagram) == list' = s.list /\ count' = s.count /\ up' = datagram

\* The end of the fragment overflows; both tests, of the last fragment in ip4_reass
\* and of any other when it is chained, come after the entry was made.
TooLong(f) == f.end > Size

\* nullreturn_ipr: the fragment is dropped, and with it the entry if it has just
\* been made for it.  The slip leaves the empty entry in the list.
DiscardFragment(s, k) == s
Discard(s, k) ==
  IF s.list[k].frags = <<>> THEN [s EXCEPT !.list = RemoveAt(@, k)] ELSE s

\* The fragment f of datagram id has its entry, at place k of the list.
Chain(s, k, f) ==
  LET e == s.list[k]
      i == Place(e.frags, f)
      frags == InsertAt(e.frags, i, f)
      new == [e EXCEPT !.frags = frags, !.last = @ \/ f.end = Size, !.hdr = Header(e, f)]
      t == [list |-> [s.list EXCEPT ![k] = new], count |-> s.count + Clen(f)]
  IN IF TooLong(f) \/ Dropped(e.frags, f, i)
     THEN Becomes(Discard([s EXCEPT !.list[k].hdr = Header(e, f)], k), <<>>)
     ELSE IF new.last /\ Finished(frags, i) THEN Becomes(Free(t, k), frags)
     ELSE Becomes(t, <<>>)

\* The entry of a datagram in the list, 0 if there is none.
Lookup(l, id) ==
  LET found == {k \in DOMAIN l : l[k].id = id} IN IF found = {} THEN 0 ELSE Least(found)

\* The limit on the pbufs that wait; the slip: it is never quite reached.
TooManyEarly(c, f) == c + Clen(f) >= MaxPbufs
TooMany(c, f) == c + Clen(f) > MaxPbufs

\* ip4_reass: with too many pbufs waiting, room is made at the cost of other
\* datagrams or the fragment is refused.
ip4_reass(id, f) ==
  LET now == [list |-> list, count |-> count]
      s == IF TooMany(count, f) THEN RemoveOldest(now, id, Clen(f)) ELSE now
      t == IF Lookup(s.list, id) = 0 THEN Enqueue(s, id, f) ELSE s
      k == Lookup(t.list, id)
  IN IF TooMany(s.count, f) THEN Becomes(s, <<>>)
     ELSE IF k = 0 THEN Becomes(t, <<>>)
     ELSE Chain(t, k, f)

\* ip_reass_tmr: the entries whose timer has run down go, the others age.  The
\* slip never lets a timer run down.
ExpiredNever(e) == FALSE
Expired(e) == e.timer = 0

AgeOrFree(s, k) ==
  IF Expired(s.list[k]) THEN Free(s, k)
  ELSE [s EXCEPT !.list[k].timer = IF @ > 0 THEN @ - 1 ELSE 0]

\* The n-th entry has moved forward by the number of those that have gone.
FreeExpired(s) ==
  LET after[n \in 0 .. Len(s.list)] ==
        IF n = 0 THEN s
        ELSE LET t == after[n - 1] IN AgeOrFree(t, n - (Len(s.list) - Len(t.list)))
  IN after[Len(s.list)]

ip_reass_tmr == Becomes(FreeExpired([list |-> list, count |-> count]), <<>>)

Next ==
  \/ \E id \in Ids, f \in Incoming : ip4_reass(id, f)
  \/ ip_reass_tmr

\* The cyclic timer goes on; no fragment is forced to arrive.
Spec == Init /\ [][Next]_vars /\ WF_vars(ip_reass_tmr)

-----------------------------------------------------------------------------
(* Properties. *)

\* ip_reass_pbufcount counts exactly the pbufs that wait, so that the limit is
\* kept and never creeps down.
CountExact == count <= MaxPbufs /\ count = AllPbufs(list)

\* The fragments of a list that a unit comes from.
Sources(frags, u) == {k \in DOMAIN frags : frags[k].start <= u /\ u < frags[k].end}

\* The datagram that ip4_reass returns is whole: every unit of it comes from
\* exactly one fragment, in order.
WholeDatagram ==
  up # <<>> => /\ \A u \in 0 .. Size - 1 : \E k \in DOMAIN up : Sources(up, u) = {k}
               /\ \A j, k \in DOMAIN up : j < k => up[j].end <= up[k].start

\* No datagram whose fragments are all here is left waiting: whichever fragment
\* comes last, the test for holes finds it complete.
NoneCompleteWaits ==
  \A k \in DOMAIN list : \E u \in 0 .. Size - 1 : Sources(list[k].frags, u) = {}

\* The list is fit for its readers: it is no longer than MEMP_NUM_REASSDATA, an
\* entry has a first pbuf (which ip_reass_free_complete_datagram follows unasked)
\* even after the fragment it was made for has been dropped, a datagram has one
\* entry, and an entry with the first fragment has that fragment's header, which
\* goes into the datagram or into the ICMP message.
EntriesSound ==
  /\ TypeOK
  /\ \A k \in DOMAIN list :
       /\ list[k].frags # <<>>
       /\ list[k].frags[1].start = 0 => list[k].hdr = 0
  /\ \A j, k \in DOMAIN list : list[j].id = list[k].id => j = k

\* The limits leave no room for fragment f of datagram id.
Crowded(id, f) ==
  \/ count + Clen(f) > MaxPbufs
  \/ Len(list) = NumReass /\ \A k \in DOMAIN list : list[k].id # id

\* Datagram d is in the list after the step, with all the fragments it had.
Stays(d) == \E j \in DOMAIN list' : /\ list'[j].id = d.id
                                    /\ Members(d.frags) \subseteq Members(list'[j].frags)

\* A fragment never costs its own datagram anything: that only grows or is
\* delivered.  It costs other datagrams their place only when the limits demand
\* it, and then none that is younger than another one that stays.
OwnDatagramKept ==
  [][\A id \in Ids, f \in Incoming : ip4_reass(id, f) =>
       \A k \in DOMAIN list :
         \/ Stays(list[k])
         \/ list[k].id = id /\ up' # <<>>
         \/ /\ list[k].id # id /\ Crowded(id, f)
            /\ \A j \in DOMAIN list :
                 list[j].id # id /\ Stays(list[j]) => list[k].timer <= list[j].timer]_vars

\* An incomplete datagram gives its pbufs back in the end, even if fragments of
\* it keep coming.
EntryLeaves == \A id \in Ids :
  (\E k \in DOMAIN list : list[k].id = id) ~> ~\E k \in DOMAIN list : list[k].id = id
=============================================================================
