---------------------------- MODULE EthernetifRx ----------------------------
(***************************************************************************)
(* The receive path of the lwIP port: EMAC_RX_IRQHandler of Core/main.c    *)
(* calls ethernetif_input, which calls low_level_input until that returns  *)
(* NULL and then EMAC_RecvPktDone, once.  low_level_input hands the        *)
(* descriptor back itself but leaves u32CurrentRxDesc where it is: only    *)
(* EMAC_RecvPktDone moves it.                                              *)
(***************************************************************************)
EXTENDS EmacRx

CONSTANTS
  Window,     \* bound: frames that wait in the ring at the same time
  LongFrames  \* the frames longer than PBUF_POOL_BUFSIZE

ASSUME PortAssumption ==
  /\ Window \in Nat
  /\ LongFrames \subseteq 1 .. MaxFrames

VARIABLES
  pc,     \* where the handler is; "idle" when it does not run
  reg,    \* the INTSTS value low_level_input has read
  p,      \* the pbuf of ethernetif_input: a frame, NoPbuf or WildPbuf
  up,     \* the frames given to netif->input, in order
  short,  \* the frames of which only the first pbuf of the chain was filled
  taken,  \* number of frames low_level_input has taken out of the ring
  got     \* this run of the handler has taken a frame

portVars == <<pc, reg, p, up, short, taken, got>>
vars == <<own, good, buf, dma, halted, rxon, intsts, pend, cur, accepted,
          busErrs, pc, reg, p, up, short, taken, got>>

NoPbuf == 0
WildPbuf == -1  \* p returned without ever having been assigned

PC == {"idle", "read", "clear", "check", "input", "done", "return",
       "hung", "fault"}

TypeOK ==
  /\ RxTypeOK
  /\ pc \in PC
  /\ reg \in SUBSET RxFlags
  /\ p \in WildPbuf .. MaxFrames
  /\ up \in Seq(1 .. MaxFrames)
  /\ short \subseteq LongFrames
  /\ taken \in 0 .. MaxFrames
  /\ got \in BOOLEAN

Init ==
  /\ RxInit
  /\ pc = "idle"
  /\ reg = {}
  /\ p = NoPbuf
  /\ up = <<>>
  /\ short = {}
  /\ taken = 0
  /\ got = FALSE

-----------------------------------------------------------------------------
\* EMAC_RX_IRQHandler is entered and calls ethernetif_input.
Enter ==
  /\ pc = "idle"
  /\ TakeInterrupt
  /\ pc' = "read"
  /\ got' = FALSE
  /\ UNCHANGED <<reg, p, up, short, taken>>

ReadStatus ==
  /\ pc = "read"
  /\ reg' = intsts
  /\ pc' = "clear"
  /\ UNCHANGED <<p, up, short, taken, got>>
  /\ UNCHANGED rxVars

\* A bus error ends in "while (1);" inside the interrupt handler.
ClearStatus ==
  /\ pc = "clear"
  /\ ClearRx(reg)
  /\ pc' = IF "RXBE" \in reg THEN "hung" ELSE "check"
  /\ UNCHANGED <<reg, p, up, short, taken, got>>

\* The test of the owner bit; the slip is to give up whoever owns the descriptor.
NothingAlways == TRUE
Nothing == own[cur] = "EMAC"

\* The owner bit is set: low_level_input returns NULL.
NoFrame ==
  /\ pc = "check"
  /\ Nothing
  /\ p' = NoPbuf
  /\ pc' = "done"
  /\ UNCHANGED <<reg, up, short, taken, got>>
  /\ UNCHANGED rxVars

\* The rest of low_level_input for a descriptor of the CPU: whatever became of
\* the frame, u32Status1 = EMAC_DESC_OWN_EMAC hands the descriptor back.
HandBack(pbuf) ==
  /\ pc = "check"
  /\ own[cur] = "CPU"
  /\ p' = pbuf
  /\ pc' = IF pbuf = NoPbuf THEN "done" ELSE "input"
  /\ GiveBack(cur)
  /\ good' = [good EXCEPT ![cur] = FALSE]
  /\ taken' = taken + 1
  /\ got' = TRUE
  /\ UNCHANGED <<reg, up, buf, dma, halted, rxon, intsts, pend, cur, accepted,
                 busErrs>>

\* A good frame is copied, but only as much of it as the first pbuf of the
\* chain takes (p->len).
CopyFrame ==
  /\ HandBack(Received)
  /\ good[cur]
  /\ short' = short \union ({Received} \cap LongFrames)

\* pbuf_alloc found no pbuf in the pool: the frame is dropped.
AllocFails ==
  /\ HandBack(NoPbuf)
  /\ good[cur]
  /\ UNCHANGED short

\* A frame without RXGD: p is returned uninitialized.
BadFrame ==
  /\ \E pbuf \in {NoPbuf, WildPbuf} : HandBack(pbuf)
  /\ ~good[cur]
  /\ UNCHANGED short

\* netif->input; the pbuf is the stack's or has been freed, and
\* low_level_input is called again.  Following a wild pointer faults.
Input ==
  /\ pc = "input"
  /\ IF p = WildPbuf
       THEN pc' = "fault" /\ up' = up
       ELSE pc' = "read" /\ up' = Append(up, p)
  /\ UNCHANGED <<reg, p, short, taken, got>>
  /\ UNCHANGED rxVars

RecvDone ==
  /\ pc = "done"
  /\ EMAC_RecvPktDone
  /\ pc' = "return"
  /\ got' = FALSE
  /\ UNCHANGED <<reg, p, up, short, taken>>

Return ==
  /\ pc = "return"
  /\ ReturnFromInterrupt
  /\ pc' = "idle"
  /\ UNCHANGED <<reg, p, up, short, taken, got>>

Handler ==
  \/ Enter
  \/ ReadStatus
  \/ ClearStatus
  \/ NoFrame
  \/ CopyFrame
  \/ AllocFails
  \/ BadFrame
  \/ Input
  \/ RecvDone
  \/ Return

\* The network: a frame arrives only while fewer than Window frames wait.
Hardware ==
  /\ RxHardware
  /\ accepted' # accepted => accepted - taken < Window
  /\ UNCHANGED portVars

Next == Handler \/ Hardware

Spec == Init /\ [][Next]_vars

\* The CPU keeps executing; nothing is assumed of the network or the DMA.
FairSpec == Spec /\ WF_vars(Handler)
-----------------------------------------------------------------------------
(* Properties. *)

\* The frames that wait in the ring, and the descriptor of the oldest of them:
\* one past u32CurrentRxDesc between hand-back and EMAC_RecvPktDone.
Waiting == accepted - taken
Oldest == IF got THEN NextDesc(cur) ELSE cur

\* Port and DMA agree on the ring: the CPU's descriptors are the Waiting ones
\* from Oldest on, in order of arrival, and the DMA stands behind them.  It
\* takes a network that never fills the ring (Window < N).
RingInv ==
  /\ Waiting \in 0 .. N - 1
  /\ dma = At(Oldest, Waiting)
  /\ \A i \in Desc :
       IF Offset(Oldest, i) < Waiting
       THEN own[i] = "CPU" /\ buf[i] = taken + Offset(Oldest, i) + 1
       ELSE own[i] = "EMAC"

\* Frames reach netif->input in the order in which the DMA accepted them, and
\* none of them twice; a frame may be missing when it was bad or no pbuf was
\* free.
Ordered == \A j, k \in 1 .. Len(up) : j < k => up[j] < up[k]

\* The EMAC_RecvPktDone that ends every run of ethernetif_input, whether or
\* not that run read a frame, never gives away a frame that was not read.
NoUnreadRelease == [][pc = "done" => own[cur] = "EMAC"]_vars

\* "@return a pbuf filled with the received packet" (ethernetif.c:234): every
\* pbuf of the chain given to netif->input holds its part of the frame.
FilledPbuf == \A k \in 1 .. Len(up) : up[k] \notin short

\* Every frame the DMA stores is taken out of the ring by low_level_input: an
\* interrupt is left for it ("should be called when a packet is ready to be
\* read from the interface", ethernetif.c:294).
EveryFrameTaken == \A f \in 1 .. MaxFrames : accepted >= f ~> taken >= f

\* The same as far as it holds: frames that come one at a time, every one intact
\* and without a bus error, are all taken.
EveryFrameTakenInLockstep ==
  [](Waiting <= 1 /\ busErrs = 0 /\ \A i \in Desc : own[i] = "CPU" => good[i])
    => EveryFrameTaken

\* What a waiting or running handler knows: an interrupt always finds a frame
\* (or the bus error that stops it), so that EMAC_RecvPktDone follows a
\* hand-back.  A flag raised after the first read announces one frame more.
BusError == "RXBE" \in intsts
HandlerInv ==
  /\ pc = "idle" =>
       /\ intsts # {} => pend
       /\ pend => Waiting >= 1 \/ BusError
  /\ pc = "read" /\ ~got =>
       /\ Waiting >= 1 \/ BusError
       /\ pend => Waiting >= 2 \/ BusError
  /\ pc = "clear" => reg \subseteq intsts
  /\ pc = "clear" /\ ~got =>
       /\ Waiting >= 1 \/ "RXBE" \in reg
       /\ pend \/ intsts \ reg # {} => Waiting >= 2 \/ BusError
  /\ pc = "check" /\ ~got =>
       /\ Waiting >= 1
       /\ pend \/ intsts # {} => Waiting >= 2 \/ BusError
  /\ (got /\ pc # "hung") \/ pc = "return" =>
       (pend \/ intsts # {} => Waiting >= 1 \/ BusError)
  /\ pc = "done" => got
  /\ pc \in {"idle", "return"} => ~got
  /\ pc = "input" => got /\ p \in {WildPbuf, taken} /\ taken >= 1
  /\ \A k \in 1 .. Len(up) : up[k] <= taken
  /\ pc = "input" => \A k \in 1 .. Len(up) : up[k] < taken

\* The inductive invariant behind the theorems, for Window < N.
IndInv == TypeOK /\ RingInv /\ Ordered /\ HandlerInv
=============================================================================
