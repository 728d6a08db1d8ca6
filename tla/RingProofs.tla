----------------------------- MODULE RingProofs -----------------------------
(***************************************************************************)
(* Facts about places on the descriptor ring, for every ring size.         *)
(***************************************************************************)
EXTENDS Ring, TLAPS

\* u32Next of a descriptor is a descriptor.
LEMMA NextDescType == \A i \in Desc : NextDesc(i) \in Desc
BY RingAssumption DEF RingAssumption, Desc, NextDesc

\* Offset counts places: it lies below N.
LEMMA OffsetType == \A c, i \in Desc : Offset(c, i) \in 0 .. N - 1
BY RingAssumption DEF RingAssumption, Desc, Offset

\* A descriptor is 0 places from itself.
LEMMA OffsetSelf == \A c \in Desc : Offset(c, c) = 0
BY RingAssumption DEF RingAssumption, Desc, Offset

\* Two descriptors at the same distance are the same.
LEMMA OffsetInjective ==
  \A c, i, j \in Desc : Offset(c, i) = Offset(c, j) => i = j
BY RingAssumption DEF RingAssumption, Desc, Offset

\* At is the inverse of Offset.
LEMMA AtType ==
  \A c \in Desc, k \in 0 .. N - 1 : At(c, k) \in Desc /\ Offset(c, At(c, k)) = k
BY RingAssumption DEF RingAssumption, Desc, Offset, At

\* The distance to the descriptor k places on is k.
LEMMA OffsetAt ==
  \A c, i \in Desc, k \in 0 .. N - 1 : Offset(c, i) = k <=> i = At(c, k)
BY AtType, OffsetInjective

\* Stepping along u32Next from the descriptor at place k reaches place k + 1,
\* and from the last place the start.
LEMMA NextDescAt ==
  \A c \in Desc, k \in 0 .. N - 1 :
    NextDesc(At(c, k)) = IF k = N - 1 THEN c ELSE At(c, k + 1)
BY RingAssumption DEF RingAssumption, Desc, NextDesc, At

\* When the origin moves to its successor every place drops by one, and the
\* old origin becomes the last place.
LEMMA OffsetNext ==
  \A c, i \in Desc :
    Offset(NextDesc(c), i) = IF i = c THEN N - 1 ELSE Offset(c, i) - 1
BY RingAssumption DEF RingAssumption, Desc, NextDesc, Offset

\* From the next descriptor everything is one place nearer.
LEMMA AtNext ==
  \A c \in Desc, k \in 1 .. N - 1 : At(NextDesc(c), k - 1) = At(c, k)
BY RingAssumption DEF RingAssumption, Desc, NextDesc, At

\* Of two places seen from c, the later one is as far from the earlier as they differ.
LEMMA OffsetBetween ==
  \A c \in Desc, j, k \in 0 .. N - 1 : j <= k => Offset(At(c, j), At(c, k)) = k - j
BY RingAssumption DEF RingAssumption, Desc, Offset, At

\* 0 places on, and all the way round.
LEMMA AtZero == \A c \in Desc : At(c, 0) = c /\ At(NextDesc(c), N - 1) = c
BY RingAssumption DEF RingAssumption, Desc, NextDesc, At
=============================================================================
