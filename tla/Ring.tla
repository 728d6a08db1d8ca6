-------------------------------- MODULE Ring --------------------------------
(***************************************************************************)
(* The ring of N descriptors that EMAC_RxDescInit and EMAC_TxDescInit      *)
(* close through u32Next, and the arithmetic of places on it.              *)
(***************************************************************************)
EXTENDS Integers

CONSTANT N  \* EMAC_RX_DESC_SIZE or EMAC_TX_DESC_SIZE

ASSUME RingAssumption == N \in Nat \ {0}

Desc == 0 .. N - 1

\* u32Next of descriptor i.
NextDesc(i) == IF i = N - 1 THEN 0 ELSE i + 1

\* How many steps along u32Next lead from descriptor c to descriptor i.
Offset(c, i) == IF i >= c THEN i - c ELSE i - c + N

\* The descriptor k steps along u32Next from descriptor c, for k < N.
At(c, k) == IF c + k < N THEN c + k ELSE c + k - N
=============================================================================
