------------------------------ MODULE Allocator ------------------------------
(***************************************************************************)
(* What a heap promises its callers: every area it hands out lies in the   *)
(* memory and apart from all areas in use, and stays so until its owner    *)
(* shrinks it or gives it back.                                            *)
(***************************************************************************)
EXTENDS Integers

CONSTANT MemSize  \* the size of the memory

VARIABLE areas    \* the areas in use

Apart(r, s) == r.at + r.size <= s.at \/ s.at + s.size <= r.at

Init == areas = {}

Malloc(r) ==
  /\ areas' = areas \cup {r}
  /\ 0 <= r.at /\ 0 < r.size /\ r.at + r.size <= MemSize
  /\ \A s \in areas : Apart(r, s)

Shrink(r, s) == areas' = (areas \ {r}) \cup {s} /\ s.at = r.at /\ 0 < s.size /\ s.size <= r.size

Free(r) == areas' = areas \ {r}

\* The area that a step adds or changes is one of those after the step.
Next ==
  \/ \E r \in areas' : Malloc(r)
  \/ \E r \in areas, s \in areas' : Shrink(r, s)
  \/ \E r \in areas : Free(r)

Spec == Init /\ [][Next]_areas
=============================================================================
