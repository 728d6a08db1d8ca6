------------------------------- MODULE EmacRx -------------------------------
(***************************************************************************)
(* The receive side of the EMAC: the ring of receive descriptors that the  *)
(* receive DMA (RXDMA) and the CPU pass back and forth, the receive half   *)
(* of the interrupt status register INTSTS, the pending bit of the EMAC    *)
(* receive interrupt, and the driver routine that returns a descriptor.    *)
(*                                                                         *)
(* The DMA and the interrupt controller are hardware: they are modelled    *)
(* from the register descriptions the driver is written against.  A frame  *)
(* is the number of its acceptance by the DMA; lengths and bytes are       *)
(* abstracted, a frame is intact or it is not in the buffer.               *)
(***************************************************************************)
EXTENDS Ring, Sequences

CONSTANTS
  MaxFrames,    \* bound: frames the DMA accepts in a behaviour
  BadFrames,    \* may the MAC store a frame without the RXGD status bit?
  MaxBusErrors \* bound: receive bus errors (RXBEIF) in a behaviour

ASSUME RxAssumption ==
  /\ MaxFrames \in Nat
  /\ BadFrames \in BOOLEAN
  /\ MaxBusErrors \in Nat

VARIABLES
  own,       \* owner bit of u32Status1 of every descriptor
  good,      \* RXGD bit of u32Status1
  buf,       \* the frame in the descriptor's buffer, 0 for none yet
  dma,       \* CRXDSA, the descriptor the RXDMA uses now
  halted,    \* the RXDMA is in its Halt state
  rxon,      \* RXON bit of the CTL register
  intsts,    \* the receive bits of INTSTS that are set and enabled
  pend,      \* the receive interrupt is pending in the NVIC
  cur,       \* u32CurrentRxDesc, the driver's place in the ring
  accepted,  \* number of frames the DMA has stored so far
  busErrs    \* number of bus errors so far

rxVars == <<own, good, buf, dma, halted, rxon, intsts, pend, cur, accepted,
            busErrs>>

RxFlags == {"RXGD", "RDU", "RXBE"}

RxTypeOK ==
  /\ own \in [Desc -> {"EMAC", "CPU"}]
  /\ good \in [Desc -> BOOLEAN]
  /\ buf \in [Desc -> 0 .. MaxFrames]
  /\ dma \in Desc
  /\ halted \in BOOLEAN
  /\ rxon \in BOOLEAN
  /\ intsts \in SUBSET RxFlags
  /\ pend \in BOOLEAN
  /\ cur \in Desc
  /\ accepted \in 0 .. MaxFrames
  /\ busErrs \in 0 .. MaxBusErrors

-----------------------------------------------------------------------------
\* EMAC_Open followed by EMAC_ENABLE_RX: every descriptor belongs to the MAC,
\* the DMA and the driver both start at rx_desc[0].
EMAC_RxDescInit ==
  /\ own = [i \in Desc |-> "EMAC"]
  /\ good = [i \in Desc |-> FALSE]
  /\ buf = [i \in Desc |-> 0]
  /\ cur = 0

RxInit ==
  /\ EMAC_RxDescInit
  /\ dma = 0
  /\ halted = FALSE
  /\ rxon = TRUE
  /\ intsts = {}
  /\ pend = FALSE
  /\ accepted = 0
  /\ busErrs = 0

-----------------------------------------------------------------------------
(* Hardware. *)

\* Set a bit of INTSTS.  The interrupt line is the disjunction of the bits;
\* its rising edge is latched by the NVIC, also while the handler runs.
Raise(flag) ==
  /\ intsts' = intsts \union {flag}
  /\ pend' = (pend \/ intsts = {})

\* The DMA stores a frame in its descriptor, gives the descriptor to the CPU
\* and moves on.  Only a good frame raises RXGDIF.
DmaReceive(g) ==
  /\ rxon
  /\ ~halted
  /\ own[dma] = "EMAC"
  /\ accepted < MaxFrames
  /\ accepted' = accepted + 1
  /\ own' = [own EXCEPT ![dma] = "CPU"]
  /\ good' = [good EXCEPT ![dma] = g]
  /\ buf' = [buf EXCEPT ![dma] = accepted + 1]
  /\ dma' = NextDesc(dma)
  /\ IF g THEN Raise("RXGD") ELSE UNCHANGED <<intsts, pend>>
  /\ UNCHANGED <<halted, rxon, cur, busErrs>>

\* The next descriptor is not the MAC's: the DMA halts and drops what arrives
\* until it is triggered.
DmaUnavailable ==
  /\ rxon
  /\ ~halted
  /\ own[dma] = "CPU"
  /\ halted' = TRUE
  /\ Raise("RDU")
  /\ UNCHANGED <<own, good, buf, dma, rxon, cur, accepted, busErrs>>

\* The memory controller answered a DMA access with an error.
DmaBusError ==
  /\ rxon
  /\ busErrs < MaxBusErrors
  /\ busErrs' = busErrs + 1
  /\ Raise("RXBE")
  /\ UNCHANGED <<own, good, buf, dma, halted, rxon, cur, accepted>>

RxHardware ==
  \/ DmaReceive(TRUE)
  \/ BadFrames /\ DmaReceive(FALSE)
  \/ DmaUnavailable
  \/ DmaBusError

-----------------------------------------------------------------------------
(* Driver. *)

\* Writing back the INTSTS value read before clears exactly those bits.
ClearRx(reg) ==
  /\ intsts' = intsts \ reg
  /\ UNCHANGED <<own, good, buf, dma, halted, rxon, pend, cur, accepted, busErrs>>

\* The frame in the buffer of the current descriptor; the slip is to take the
\* following one.
ReceivedNext == buf[NextDesc(cur)]
Received == buf[cur]

\* The owner bit goes back to the MAC, and EMAC_TRIGGER_RX; with the slips of
\* forgetting either.
GiveBackForgotten(d) == own' = own
GiveBack(d) == own' = [own EXCEPT ![d] = "EMAC"]
TriggerLost == halted' = halted
EMAC_TRIGGER_RX == halted' = FALSE

\* EMAC_RecvPktDone: give the current descriptor to the MAC, step to the next
\* one, and trigger the DMA out of Halt.  One step: between the owner bit and
\* the trigger the DMA can only do what it can also do just before or after.
EMAC_RecvPktDone ==
  /\ GiveBack(cur)
  /\ cur' = NextDesc(cur)
  /\ EMAC_TRIGGER_RX
  /\ UNCHANGED <<good, buf, dma, rxon, intsts, pend, accepted, busErrs>>

\* EMAC_DISABLE_RX and EMAC_ENABLE_RX: turning RXON on reloads CRXDSA from
\* RXDSA, which is rx_desc[0] since EMAC_RxDescInit.
EMAC_DISABLE_RX ==
  /\ rxon' = FALSE
  /\ UNCHANGED <<own, good, buf, dma, halted, intsts, pend, cur, accepted, busErrs>>

EMAC_ENABLE_RX ==
  /\ rxon' = TRUE
  /\ dma' = IF rxon THEN dma ELSE 0
  /\ halted' = FALSE
  /\ UNCHANGED <<own, good, buf, intsts, pend, cur, accepted, busErrs>>

\* Entering the handler clears the pending bit; on return the NVIC samples
\* the line again.
TakeInterrupt ==
  /\ pend
  /\ pend' = FALSE
  /\ UNCHANGED <<own, good, buf, dma, halted, rxon, intsts, cur, accepted, busErrs>>

ReturnFromInterrupt ==
  /\ pend' = (pend \/ intsts # {})
  /\ UNCHANGED <<own, good, buf, dma, halted, rxon, intsts, cur, accepted, busErrs>>
=============================================================================
