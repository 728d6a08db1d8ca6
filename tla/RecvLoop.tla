------------------------------ MODULE RecvLoop ------------------------------
(***************************************************************************)
(* The receive interrupt handler of the driver-level programs              *)
(* (UnitTest/EMAC_TxRx, test_03, test_04): while EMAC_RecvPkt delivers,    *)
(* process the frame and call EMAC_RecvPktDone.  The DMA runs concurrently *)
(* with every step of the handler.                                         *)
(***************************************************************************)
EXTENDS EmacRx

VARIABLES
  pc,   \* where the handler is; "idle" when it does not run
  reg,  \* the INTSTS value EMAC_RecvPkt has read
  pkt,  \* the frame in rx_buffer, 0 before the first
  up    \* the frames handed to process_rx_packet, in order

loopVars == <<pc, reg, pkt, up>>
vars == <<own, good, buf, dma, halted, rxon, intsts, pend, cur, accepted,
          busErrs, pc, reg, pkt, up>>

PC == {"idle", "read", "clear", "check", "process", "done", "return"}

TypeOK ==
  /\ RxTypeOK
  /\ pc \in PC
  /\ reg \in SUBSET RxFlags
  /\ pkt \in 0 .. MaxFrames
  /\ up \in Seq(0 .. MaxFrames)

Init ==
  /\ RxInit
  /\ pc = "idle"
  /\ reg = {}
  /\ pkt = 0
  /\ up = <<>>

-----------------------------------------------------------------------------
\* EMAC_RX_IRQHandler is entered.
Enter ==
  /\ pc = "idle"
  /\ TakeInterrupt
  /\ pc' = "read"
  /\ UNCHANGED <<reg, pkt, up>>

\* EMAC_RecvPkt reads INTSTS ...
ReadStatus ==
  /\ pc = "read"
  /\ reg' = intsts
  /\ pc' = "clear"
  /\ UNCHANGED <<pkt, up>>
  /\ UNCHANGED rxVars

\* ... and clears what it has read.  A bus error makes it return EMAC_BUS_ERR,
\* which the loop takes for a frame because it is not 0.
ClearStatus ==
  /\ pc = "clear"
  /\ ClearRx(reg)
  /\ pc' = IF "RXBE" \in reg THEN "process" ELSE "check"
  /\ UNCHANGED <<reg, pkt, up>>

\* EMAC_RecvPkt's test of the descriptor; the slip is not to look at the owner bit.
AvailableIgnoresOwner == good[cur]
Available == own[cur] = "CPU" /\ good[cur]

\* A good frame in a descriptor of the CPU is copied out and reported with 1;
\* everything else is reported with 0, and the loop ends.
CheckDesc ==
  /\ pc = "check"
  /\ IF Available
       THEN pkt' = Received /\ pc' = "process"
       ELSE pkt' = pkt /\ pc' = "return"
  /\ UNCHANGED <<reg, up>>
  /\ UNCHANGED rxVars

\* process_rx_packet works on rx_buffer.
Process ==
  /\ pc = "process"
  /\ up' = Append(up, pkt)
  /\ pc' = "done"
  /\ UNCHANGED <<reg, pkt>>
  /\ UNCHANGED rxVars

\* "while" takes the handler back to EMAC_RecvPkt; the slip is an "if".
AfterDoneReturn == "return"
AfterDone == "read"

RecvDone ==
  /\ pc = "done"
  /\ EMAC_RecvPktDone
  /\ pc' = AfterDone
  /\ UNCHANGED <<reg, pkt, up>>

Return ==
  /\ pc = "return"
  /\ ReturnFromInterrupt
  /\ pc' = "idle"
  /\ UNCHANGED <<reg, pkt, up>>

Handler ==
  \/ Enter
  \/ ReadStatus
  \/ ClearStatus
  \/ CheckDesc
  \/ Process
  \/ RecvDone
  \/ Return

Hardware == RxHardware /\ UNCHANGED loopVars

Next == Handler \/ Hardware

Spec == Init /\ [][Next]_vars

\* The CPU keeps executing: a pending interrupt is taken, a running handler
\* proceeds.  Nothing is assumed of the network or the DMA.
FairSpec == Spec /\ WF_vars(Handler)
-----------------------------------------------------------------------------
(* Properties. *)

\* The frame in the current descriptor has been processed but its descriptor
\* is not released yet.
Handled == IF pc = "done" THEN 1 ELSE 0

\* Number of frames the DMA has accepted and the driver has not released.
Waiting == accepted - Len(up) + Handled

\* The CPU's descriptors are the first Waiting ones from u32CurrentRxDesc, the
\* DMA stands behind the last of them, and they hold the oldest unreleased
\* frames in order of arrival: the handler and the DMA agree on the ring.
RingInv ==
  /\ Waiting \in 0 .. N
  /\ dma = IF Waiting = N THEN cur ELSE At(cur, Waiting)
  /\ \A i \in Desc :
       IF Offset(cur, i) < Waiting
       THEN own[i] = "CPU" /\ buf[i] = accepted - Waiting + Offset(cur, i) + 1
       ELSE own[i] = "EMAC"

\* Frames reach process_rx_packet exactly once and in the order in which the
\* DMA accepted them: no frame is skipped, repeated or overtaken by the loop.
InOrder == \A k \in 1 .. Len(up) : up[k] = k

\* No lost wake-up: whenever a good frame waits at u32CurrentRxDesc, the
\* handler is running before its descriptor check, or an interrupt for it is
\* pending or will be raised when the handler returns.
NoLostWakeup ==
  own[cur] = "CPU" /\ good[cur] =>
    \/ pc \in {"read", "clear", "check", "process", "done"}
    \/ pend
    \/ pc = "return" /\ intsts # {}

\* EMAC_RecvPktDone is called once for each frame that EMAC_RecvPkt returned
\* (the note at emac.c:655): it always releases the frame processed last.
DoneOnlyAfterFrame ==
  [][cur' # cur => own[cur] = "CPU" /\ up # <<>> /\ up[Len(up)] = buf[cur]]_vars

\* From the DMA to process_rx_packet the ring is a queue of N frames.
Queue == INSTANCE FrameQueue WITH Capacity <- N, out <- up
ImplementsQueue == Queue!Spec

\* What the handler's place says of the current descriptor; an interrupt flag
\* that is set while the handler does not run has made the interrupt pending.
HandlerInv ==
  /\ pc = "process" => own[cur] = "CPU" /\ pkt = buf[cur]
  /\ pc = "done" => own[cur] = "CPU" /\ up # <<>>
  /\ pc = "idle" /\ intsts # {} => pend
  /\ "RXBE" \notin intsts \union reg

\* The inductive invariant behind the theorems (without bus errors).
IndInv == TypeOK /\ RingInv /\ InOrder /\ HandlerInv /\ NoLostWakeup

\* Every good frame that the DMA stores is processed in the end: the handler
\* leaves no frame behind, whatever arrives while it runs.
EveryFrameProcessed ==
  \A f \in 1 .. MaxFrames :
    (\E i \in Desc : own[i] = "CPU" /\ good[i] /\ buf[i] = f)
      ~> \E k \in DOMAIN up : up[k] = f

\* A DMA that has run out of descriptors is brought out of Halt: the trigger of
\* EMAC_RecvPktDone reaches it after a descriptor has been returned.
ReceiverResumes == halted ~> ~halted
=============================================================================
