--------------------------- MODULE RecvLoopProofs ---------------------------
(***************************************************************************)
(* Proofs about RecvLoop and EthFrameTest, for every ring size and every   *)
(* number of frames, in the absence of bus errors.                         *)
(***************************************************************************)
EXTENDS EthFrameTest, RingProofs, TLAPS

\* The initial state satisfies the inductive invariant: the ring is empty and
\* the DMA and the driver both stand at rx_desc[0].
LEMMA InitIndInv == Init => IndInv
<1> SUFFICES ASSUME Init PROVE IndInv
  OBVIOUS
<1> USE RxAssumption, RingAssumption
    DEF RxAssumption, RingAssumption, Init, RxInit, EMAC_RxDescInit
<1>1. TypeOK
  BY DEF TypeOK, RxTypeOK, Desc, RxFlags, PC
<1>2. RingInv
  <2>1. Len(up) = 0 /\ accepted = 0 /\ Handled = 0
    BY DEF Handled
  <2>2. Waiting = 0
    <3> HIDE DEF Init, RxInit, EMAC_RxDescInit
    <3> QED
      BY <2>1 DEF Waiting
  <2>3. \A i \in Desc : ~(Offset(cur, i) < 0)
    BY OffsetType DEF Desc
  <2> QED
    BY <2>2, <2>3, AtZero DEF RingInv, Desc
<1>3. InOrder
  BY DEF InOrder
<1>4. HandlerInv
  BY DEF HandlerInv
<1>5. NoLostWakeup
  BY DEF NoLostWakeup, Desc
<1> QED
  BY <1>1, <1>2, <1>3, <1>4, <1>5 DEF IndInv

\* Storing a frame extends the CPU's stretch of the ring by one descriptor.
LEMMA DmaReceiveInd ==
  ASSUME IndInv, NEW g \in BOOLEAN, DmaReceive(g), UNCHANGED loopVars
  PROVE  IndInv'
<1> USE RxAssumption, RingAssumption
    DEF RxAssumption, RingAssumption, IndInv, DmaReceive, loopVars
<1>1. RxTypeOK'
  <2>1. dma' \in Desc
    BY NextDescType DEF TypeOK, RxTypeOK
  <2>2. intsts' \in SUBSET RxFlags /\ pend' \in BOOLEAN
    BY Zenon DEF TypeOK, RxTypeOK, Raise, RxFlags
  <2>3. /\ own' \in [Desc -> {"EMAC", "CPU"}]
        /\ good' \in [Desc -> BOOLEAN]
        /\ buf' \in [Desc -> 0 .. MaxFrames]
        /\ accepted' \in 0 .. MaxFrames
    BY DEF TypeOK, RxTypeOK
  <2> QED
    BY <2>1, <2>2, <2>3 DEF TypeOK, RxTypeOK
<1>2. RingInv'
  <2>0. accepted \in Nat /\ Len(up) \in Nat /\ cur \in Desc /\ dma \in Desc
    BY DEF TypeOK, RxTypeOK
  <2>1. Waiting' = Waiting + 1 /\ accepted' - Waiting' = accepted - Waiting
    BY <2>0 DEF Waiting, Handled
  <2>2. Waiting \in 0 .. N - 1 /\ dma = At(cur, Waiting)
    BY <2>0, OffsetSelf DEF RingInv
  <2>3. \A i \in Desc : Offset(cur, i) = Waiting <=> i = dma
    <3> HIDE DEF IndInv, DmaReceive
    <3> QED
      BY <2>0, <2>2, OffsetAt
  <2>4. dma' = IF Waiting' = N THEN cur' ELSE At(cur, Waiting)'
    BY <2>0, <2>1, <2>2, NextDescAt
  <2>5. ASSUME NEW i \in Desc
        PROVE  IF Offset(cur, i)' < Waiting'
               THEN own'[i] = "CPU" /\ buf'[i] = accepted' - Waiting' + Offset(cur, i)' + 1
               ELSE own'[i] = "EMAC"
    <3>1. Offset(cur, i) \in 0 .. N - 1 /\ Offset(cur, i)' = Offset(cur, i)
      BY <2>0, OffsetType DEF Offset
    <3>2. CASE i = dma
      BY <3>1, <3>2, <2>0, <2>1, <2>2, <2>3 DEF TypeOK, RxTypeOK
    <3>3. CASE i # dma
      BY <3>1, <3>3, <2>0, <2>1, <2>2, <2>3 DEF TypeOK, RxTypeOK, RingInv
    <3> QED
      BY <3>2, <3>3
  <2> QED
    BY <2>1, <2>2, <2>4, <2>5 DEF RingInv
<1>3. InOrder'
  BY DEF InOrder
<1>4. HandlerInv'
  BY DEF HandlerInv, TypeOK, RxTypeOK, Raise, RxFlags
<1>5. NoLostWakeup'
  BY DEF NoLostWakeup, HandlerInv, TypeOK, RxTypeOK, Raise, PC
<1> QED
  BY <1>1, <1>2, <1>3, <1>4, <1>5 DEF TypeOK

\* A step that leaves the ring and its pointers alone and neither enters nor
\* leaves the point between processing and release keeps the ring invariant.
LEMMA RingFrame ==
  ASSUME RingInv, UNCHANGED <<own, buf, dma, cur, accepted, up>>,
         pc = "done" <=> pc' = "done"
  PROVE  RingInv'
<1>1. Waiting' = Waiting
  BY DEF Waiting, Handled
<1> QED
  BY <1>1 DEF RingInv, Offset, At

\* The DMA finding no descriptor of its own changes only the interrupt state.
LEMMA DmaUnavailableInd ==
  ASSUME IndInv, DmaUnavailable, UNCHANGED loopVars
  PROVE  IndInv'
<1> USE DEF IndInv, DmaUnavailable, loopVars
<1>1. TypeOK'
  BY DEF TypeOK, RxTypeOK, Raise, RxFlags
<1>2. RingInv'
  BY RingFrame
<1>3. InOrder'
  BY DEF InOrder
<1>4. HandlerInv'
  BY Zenon DEF HandlerInv, TypeOK, RxTypeOK, Raise, RxFlags
<1>5. NoLostWakeup'
  BY DEF NoLostWakeup, HandlerInv, TypeOK, RxTypeOK, Raise, PC
<1> QED
  BY <1>1, <1>2, <1>3, <1>4, <1>5

\* Entering the handler, reading INTSTS, clearing it and returning.
LEMMA EnterInd == ASSUME IndInv, Enter PROVE IndInv'
<1> USE DEF IndInv, Enter, TakeInterrupt
<1>1. TypeOK'
  BY Zenon DEF TypeOK, RxTypeOK, PC
<1>2. RingInv'
  BY RingFrame
<1>3. InOrder' /\ HandlerInv' /\ NoLostWakeup'
  BY DEF InOrder, HandlerInv, NoLostWakeup
<1> QED
  BY <1>1, <1>2, <1>3

\* The handler reads INTSTS.
LEMMA ReadStatusInd == ASSUME IndInv, ReadStatus PROVE IndInv'
<1> USE DEF IndInv, ReadStatus, rxVars
<1>1. TypeOK'
  BY DEF TypeOK, RxTypeOK, PC
<1>2. RingInv'
  BY RingFrame
<1>3. InOrder' /\ HandlerInv' /\ NoLostWakeup'
  BY DEF InOrder, HandlerInv, NoLostWakeup
<1> QED
  BY <1>1, <1>2, <1>3

\* It writes back the flags it read.
LEMMA ClearStatusInd == ASSUME IndInv, ClearStatus PROVE IndInv'
<1> USE DEF IndInv, ClearStatus, ClearRx
<1>0. pc' = "check"
  BY DEF HandlerInv
<1>1. TypeOK'
  BY <1>0 DEF TypeOK, RxTypeOK, PC
<1>2. RingInv'
  BY <1>0, RingFrame
<1>3. InOrder' /\ HandlerInv' /\ NoLostWakeup'
  BY <1>0 DEF InOrder, HandlerInv, NoLostWakeup
<1> QED
  BY <1>1, <1>2, <1>3

\* The handler returns.
LEMMA ReturnInd == ASSUME IndInv, Return PROVE IndInv'
<1> USE DEF IndInv, Return, ReturnFromInterrupt
<1>1. TypeOK'
  BY DEF TypeOK, RxTypeOK, PC
<1>2. RingInv'
  BY RingFrame
<1>3. InOrder' /\ HandlerInv'
  BY Zenon DEF InOrder, HandlerInv
<1>4. NoLostWakeup'
  BY Zenon DEF NoLostWakeup
<1> QED
  BY <1>1, <1>2, <1>3, <1>4

\* The descriptor check: the one step after which a frame may wait without the
\* handler looking at it again, and then the descriptor was not the CPU's.
LEMMA CheckDescInd == ASSUME IndInv, CheckDesc PROVE IndInv'
<1> USE DEF IndInv, CheckDesc, Available, Received, rxVars
<1>1. TypeOK'
  BY DEF TypeOK, RxTypeOK, PC
<1>2. RingInv'
  BY RingFrame
<1>3. InOrder' /\ HandlerInv' /\ NoLostWakeup'
  BY DEF InOrder, HandlerInv, NoLostWakeup
<1> QED
  BY <1>1, <1>2, <1>3

\* The frame being processed is the oldest unreleased one, that is, the one
\* after the last frame processed.
LEMMA ProcessInd == ASSUME IndInv, Process PROVE IndInv'
<1> USE RxAssumption, RingAssumption
    DEF RxAssumption, RingAssumption, IndInv, Process, rxVars
<1>0. /\ accepted \in Nat /\ Len(up) \in Nat /\ cur \in Desc
      /\ Offset(cur, cur) = 0 /\ pkt \in 0 .. MaxFrames
      /\ up \in Seq(0 .. MaxFrames)
  BY OffsetSelf DEF TypeOK, RxTypeOK
<1>1. Waiting = accepted - Len(up) /\ pkt = Len(up) + 1
  <2>1. Waiting = accepted - Len(up)
    BY <1>0 DEF Waiting, Handled
  <2>2. own[cur] = "CPU" /\ pkt = buf[cur]
    BY DEF HandlerInv
  <2>3. buf[cur] = accepted - Waiting + 1
    BY <1>0, <2>2 DEF RingInv
  <2> QED
    BY <1>0, <2>1, <2>2, <2>3, SMTT(30)
<1>2. /\ up' \in Seq(0 .. MaxFrames)
      /\ Len(up') = Len(up) + 1
      /\ up'[Len(up) + 1] = pkt
      /\ \A k \in 1 .. Len(up) : up'[k] = up[k]
  BY <1>0
<1>3. TypeOK'
  BY <1>2 DEF TypeOK, RxTypeOK, PC
<1>4. RingInv'
  <2>1. Waiting' = Waiting
    BY <1>0, <1>1, <1>2 DEF Waiting, Handled
  <2> QED
    BY <2>1 DEF RingInv, Offset, At
<1>5. InOrder'
  BY <1>0, <1>1, <1>2 DEF InOrder
<1>6. HandlerInv' /\ NoLostWakeup'
  BY <1>0, <1>2 DEF HandlerInv, NoLostWakeup
<1> QED
  BY <1>3, <1>4, <1>5, <1>6

\* Releasing the current descriptor shortens the CPU's stretch of the ring at
\* its front.
LEMMA RecvDoneInd == ASSUME IndInv, RecvDone PROVE IndInv'
<1> USE RxAssumption, RingAssumption
    DEF RxAssumption, RingAssumption, IndInv, RecvDone, AfterDone,
        EMAC_RecvPktDone, GiveBack, EMAC_TRIGGER_RX
<1>0. /\ accepted \in Nat /\ Len(up) \in Nat /\ cur \in Desc /\ dma \in Desc
      /\ cur' \in Desc
  BY NextDescType DEF TypeOK, RxTypeOK
<1>1. TypeOK'
  BY <1>0, Zenon DEF TypeOK, RxTypeOK, PC
<1>2. RingInv'
  <2>1. Waiting' = Waiting - 1
    BY <1>0 DEF Waiting, Handled
  <2>2. Waiting \in 1 .. N
    BY <1>0, OffsetSelf DEF RingInv, HandlerInv
  <2>3. dma' = IF Waiting' = N THEN cur' ELSE At(cur, Waiting)'
    <3>1. CASE Waiting = N
      BY <3>1, <1>0, <2>1, <2>2, AtNext, AtZero DEF RingInv
    <3>2. CASE Waiting # N
      BY <3>2, <1>0, <2>1, <2>2, AtNext, AtZero DEF RingInv
    <3> QED
      BY <3>1, <3>2
  <2>4. ASSUME NEW i \in Desc
        PROVE  IF Offset(cur, i)' < Waiting'
               THEN own'[i] = "CPU" /\ buf'[i] = accepted' - Waiting' + Offset(cur, i)' + 1
               ELSE own'[i] = "EMAC"
    <3>1. Offset(cur, i) \in 0 .. N - 1 /\ Offset(cur, cur) = 0
      BY <1>0, OffsetType, OffsetSelf
    <3>2. CASE i = cur
      BY <3>1, <3>2, <1>0, <2>1, <2>2, OffsetNext DEF TypeOK, RxTypeOK
    <3>3. CASE i # cur
      <4>1. Offset(cur, i)' = Offset(cur, i) - 1
        BY <3>3, <1>0, OffsetNext
      <4>2. own'[i] = own[i] /\ buf'[i] = buf[i] /\ accepted' = accepted
        BY <3>3 DEF TypeOK, RxTypeOK
      <4>3. Offset(cur, i)' < Waiting' <=> Offset(cur, i) < Waiting
        BY <3>1, <4>1, <2>1, <2>2
      <4>4. accepted' - Waiting' + Offset(cur, i)' + 1 = accepted - Waiting + Offset(cur, i) + 1
        BY <3>1, <4>1, <4>2, <2>1, <2>2, <1>0
      <4> HIDE DEF RecvDone
      <4> QED
        BY <4>2, <4>3, <4>4 DEF RingInv
    <3> QED
      BY <3>2, <3>3
  <2> QED
    BY <2>1, <2>2, <2>3, <2>4 DEF RingInv
<1>3. InOrder' /\ HandlerInv' /\ NoLostWakeup'
  BY DEF InOrder, HandlerInv, NoLostWakeup
<1> QED
  BY <1>1, <1>2, <1>3

-----------------------------------------------------------------------------
\* Every step keeps the invariant, as long as the bus raises no error.
LEMMA NextIndInv ==
  ASSUME MaxBusErrors = 0, IndInv, [Next]_vars
  PROVE  IndInv'
<1>1. CASE Handler
  BY <1>1, EnterInd, ReadStatusInd, ClearStatusInd, CheckDescInd, ProcessInd,
     RecvDoneInd, ReturnInd DEF Handler
<1>2. CASE Hardware
  <2>1. ~DmaBusError
    BY DEF DmaBusError, IndInv, TypeOK, RxTypeOK
  <2> QED
    BY <1>2, <2>1, DmaReceiveInd, DmaUnavailableInd, Zenon DEF Hardware, RxHardware
<1>3. CASE UNCHANGED vars
  <2> USE <1>3 DEF vars, IndInv
  <2>1. TypeOK'
    BY DEF TypeOK, RxTypeOK
  <2>2. RingInv'
    BY RingFrame
  <2>3. InOrder' /\ HandlerInv' /\ NoLostWakeup'
    BY DEF InOrder, HandlerInv, NoLostWakeup
  <2> QED
    BY <2>1, <2>2, <2>3
<1> QED
  BY <1>1, <1>2, <1>3 DEF Next

\* Without bus errors every state of the receive loop satisfies the inductive
\* invariant, for every ring size and every number of frames, good and bad.
THEOREM RecvLoopInvariant ==
  ASSUME MaxBusErrors = 0
  PROVE  Spec => []IndInv
<1>1. IndInv /\ [Next]_vars => IndInv'
  BY NextIndInv
<1> QED
  BY <1>1, InitIndInv, PTL DEF Spec

\* The variables of the receive loop keep their types.
THEOREM RecvLoopTypes ==
  ASSUME MaxBusErrors = 0
  PROVE  Spec => []TypeOK
<1>1. IndInv => TypeOK
  BY DEF IndInv
<1> QED
  BY <1>1, RecvLoopInvariant, PTL

\* Driver and DMA always agree on which descriptors hold received frames, and
\* on their order (u32CurrentRxDesc against CRXDSA and the owner bits).
THEOREM RecvLoopRing ==
  ASSUME MaxBusErrors = 0
  PROVE  Spec => []RingInv
<1>1. IndInv => RingInv
  BY DEF IndInv
<1> QED
  BY <1>1, RecvLoopInvariant, PTL

\* Frames are processed exactly once and in order of arrival.
THEOREM RecvLoopInOrder ==
  ASSUME MaxBusErrors = 0
  PROVE  Spec => []InOrder
<1>1. IndInv => InOrder
  BY DEF IndInv
<1> QED
  BY <1>1, RecvLoopInvariant, PTL

\* Clearing INTSTS before looking at the descriptor never loses the wake-up of
\* a good frame, however the DMA interleaves with the handler.
THEOREM RecvLoopNoLostWakeup ==
  ASSUME MaxBusErrors = 0
  PROVE  Spec => []NoLostWakeup
<1>1. IndInv => NoLostWakeup
  BY DEF IndInv
<1> QED
  BY <1>1, RecvLoopInvariant, PTL

\* EMAC_RecvPktDone only ever releases the descriptor of the frame that was
\* processed last.
THEOREM RecvLoopDone ==
  ASSUME MaxBusErrors = 0
  PROVE  Spec => DoneOnlyAfterFrame
<1> DEFINE Rel == cur' # cur => own[cur] = "CPU" /\ up # <<>> /\ up[Len(up)] = buf[cur]
<1>1. ASSUME IndInv, [Next]_vars PROVE [Rel]_vars
  <2>1. CASE RecvDone
    <3>1. /\ accepted \in Nat /\ Len(up) \in Nat /\ cur \in Desc
          /\ Offset(cur, cur) = 0 /\ own[cur] = "CPU"
      BY <1>1, <2>1, OffsetSelf DEF IndInv, TypeOK, RxTypeOK, HandlerInv, RecvDone
    <3>2. Waiting = accepted - Len(up) + 1
      BY <2>1 DEF Waiting, Handled, RecvDone
    <3>3. buf[cur] = accepted - Waiting + 1
      BY <1>1, <3>1 DEF IndInv, RingInv
    <3>4. buf[cur] = Len(up) /\ Len(up) > 0
      <4>1. Waiting \in 0 .. N /\ 0 < Waiting
        BY <1>1, <3>1, RingAssumption DEF IndInv, RingInv, RingAssumption
      <4> QED
        BY <1>1, <2>1, <3>1, <3>2, <3>3, <4>1
           DEF IndInv, TypeOK, HandlerInv, RecvDone
    <3> QED
      BY <1>1, <3>1, <3>4 DEF IndInv, InOrder
  <2>2. CASE ~RecvDone
    BY <1>1, <2>2 DEF Next, Handler, Hardware, RxHardware, Enter, ReadStatus,
       ClearStatus, CheckDesc, Process, Return, DmaReceive, DmaUnavailable,
       DmaBusError, ClearRx, TakeInterrupt, ReturnFromInterrupt, rxVars, vars
  <2> QED
    BY <2>1, <2>2
<1> QED
  BY <1>1, RecvLoopInvariant, PTL DEF Spec, DoneOnlyAfterFrame

\* The receive loop implements a queue of N frames: a step of the DMA or of the
\* handler puts a frame in, takes the oldest one out, or changes neither end.
THEOREM RecvLoopImplementsQueue ==
  ASSUME MaxBusErrors = 0
  PROVE  Spec => ImplementsQueue
<1>1. Init => Queue!Init
  BY DEF Init, RxInit, Queue!Init
<1>2. ASSUME IndInv, [Next]_vars
      PROVE  [Queue!Put \/ Queue!Get]_(Queue!queueVars)
  <2> USE DEF Queue!queueVars
  <2>0. /\ accepted \in Nat /\ Len(up) \in Nat /\ cur \in Desc
        /\ dma \in Desc /\ Offset(cur, cur) = 0
    BY <1>2, OffsetSelf DEF IndInv, TypeOK, RxTypeOK
  <2>1. CASE Process
    <3>1. own[cur] = "CPU" /\ Waiting \in 0 .. N
      BY <1>2, <2>1 DEF Process, IndInv, RingInv, HandlerInv
    <3>2. 0 < Waiting
      BY <1>2, <2>0, <3>1 DEF IndInv, RingInv
    <3>3. Waiting = accepted - Len(up) /\ Waiting \in 0 .. N /\ 0 < Waiting
      BY <2>0, <2>1, <3>1, <3>2 DEF Process, Waiting, Handled
    <3>4. pkt = accepted - Waiting + 1
      BY <1>2, <2>0, <2>1, <3>3 DEF Process, IndInv, RingInv, HandlerInv
    <3>5. Len(up) < accepted /\ pkt = Len(up) + 1
      BY <2>0, <3>3, <3>4
    <3> QED
      BY <2>1, <3>5 DEF Process, rxVars, Queue!Get
  <2>2. CASE \E g \in BOOLEAN : DmaReceive(g) /\ UNCHANGED loopVars
    <3>1. Waiting < N /\ accepted - Len(up) <= Waiting
      BY <1>2, <2>0, <2>2, OffsetSelf, RingAssumption
         DEF DmaReceive, IndInv, RingInv, Waiting, Handled, RingAssumption
    <3> QED
      BY <2>0, <2>2, <3>1, RingAssumption
         DEF DmaReceive, loopVars, Queue!Put, RingInv, IndInv, RingAssumption,
             Waiting, Handled
  <2>3. CASE ~Process /\ ~\E g \in BOOLEAN : DmaReceive(g) /\ UNCHANGED loopVars
    <3>1. UNCHANGED <<accepted, up>>
      BY <1>2, <2>3, Zenon DEF Next, Handler, Hardware, RxHardware, Enter, ReadStatus,
         ClearStatus, CheckDesc, RecvDone, Return, DmaUnavailable, DmaBusError,
         EMAC_RecvPktDone, ClearRx, TakeInterrupt, ReturnFromInterrupt, rxVars,
         loopVars, vars
    <3> QED
      BY <3>1
  <2> QED
    BY <2>1, <2>2, <2>3
<1> QED
  BY <1>1, <1>2, RecvLoopInvariant, PTL DEF Spec, ImplementsQueue, Queue!Spec
-----------------------------------------------------------------------------
(* test_04_ethframe, whose main restarts the receiver: driver and DMA need not *)
(* agree on the ring any more, and RingInv does not hold.                      *)

\* Descriptor i holds a frame that has not been handed on.
Fresh(i) == own[i] = "CPU" /\ ~(pc = "done" /\ i = cur)

\* The inductive invariant behind AtMostOnce: whichever descriptors the CPU owns,
\* their frames differ from each other and, but for the one to be given back, from
\* all frames handed on.
OnceInv ==
  /\ TypeOK
  /\ "RXBE" \notin intsts \union reg
  /\ pc = "process" => own[cur] = "CPU" /\ pkt = buf[cur]
  /\ \A i \in Desc : buf[i] <= accepted
  /\ \A i, j \in Desc : own[i] = "CPU" /\ own[j] = "CPU" /\ buf[i] = buf[j] => i = j
  /\ \A k \in 1 .. Len(up) : up[k] <= accepted
  /\ \A i \in Desc, k \in 1 .. Len(up) : Fresh(i) => up[k] # buf[i]
  /\ AtMostOnce

\* Nothing is stored or delivered at first.
LEMMA OnceInit == TestInit => OnceInv
<1> SUFFICES ASSUME TestInit PROVE OnceInv
  OBVIOUS
<1>1. TypeOK /\ "RXBE" \notin intsts \union reg
  BY InitIndInv DEF TestInit, IndInv, HandlerInv
<1>2. /\ pc = "idle" /\ Len(up) = 0 /\ accepted = 0
      /\ \A i \in Desc : own[i] = "EMAC" /\ buf[i] = 0
  BY DEF TestInit, Init, RxInit, EMAC_RxDescInit
<1> QED BY <1>1, <1>2 DEF OnceInv, AtMostOnce

\* Steps that neither move a frame nor give a descriptor back.
LEMMA OnceFrame ==
  ASSUME OnceInv, TypeOK', UNCHANGED <<own, buf, cur, accepted, up>>,
         "RXBE" \notin (intsts \union reg)',
         pc = "done" <=> pc' = "done",
         pc' = "process" => own[cur] = "CPU" /\ pkt' = buf[cur]
  PROVE  OnceInv'
BY DEF OnceInv, Fresh, AtMostOnce

\* The DMA stores a frame, with a number larger than those before it.
LEMMA OnceReceive ==
  ASSUME OnceInv, NEW g \in BOOLEAN, DmaReceive(g), UNCHANGED loopVars
  PROVE  OnceInv'
<1> USE RxAssumption DEF RxAssumption
<1>1. TypeOK'
  <2>1. dma' \in Desc
    BY NextDescType DEF OnceInv, TypeOK, RxTypeOK, DmaReceive
  <2>2. intsts' \in SUBSET RxFlags /\ pend' \in BOOLEAN
    BY Zenon DEF OnceInv, TypeOK, RxTypeOK, Raise, RxFlags, DmaReceive
  <2>3. /\ own' \in [Desc -> {"EMAC", "CPU"}]
        /\ good' \in [Desc -> BOOLEAN]
        /\ buf' \in [Desc -> 0 .. MaxFrames]
        /\ accepted' \in 0 .. MaxFrames
    BY DEF OnceInv, TypeOK, RxTypeOK, DmaReceive
  <2> QED
    BY <2>1, <2>2, <2>3 DEF OnceInv, TypeOK, RxTypeOK, DmaReceive, loopVars
<1>2. /\ dma \in Desc /\ own[dma] = "EMAC" /\ accepted \in Nat /\ accepted' = accepted + 1
      /\ own'[dma] = "CPU" /\ buf'[dma] = accepted + 1
      /\ \A i \in Desc : i # dma => own'[i] = own[i] /\ buf'[i] = buf[i]
      /\ \A i \in Desc : buf[i] \in Nat /\ buf[i] <= accepted
      /\ UNCHANGED <<cur, reg, pc, pkt, up>>
  BY DEF OnceInv, TypeOK, RxTypeOK, DmaReceive, loopVars
<1>3. \A k \in 1 .. Len(up) : up[k] \in Nat /\ up[k] <= accepted
  BY DEF OnceInv, TypeOK
<1>4. "RXBE" \notin (intsts \union reg)'
  BY DEF OnceInv, DmaReceive, Raise, loopVars
<1>5. pc' = "process" => own'[cur'] = "CPU" /\ pkt' = buf'[cur']
  BY <1>2 DEF OnceInv, TypeOK, RxTypeOK
<1>6. \A i \in Desc : buf'[i] <= accepted'
  BY <1>2
<1>7. \A i, j \in Desc : own'[i] = "CPU" /\ own'[j] = "CPU" /\ buf'[i] = buf'[j] => i = j
  <2> SUFFICES ASSUME NEW i \in Desc, NEW j \in Desc, own'[i] = "CPU", own'[j] = "CPU", buf'[i] = buf'[j]
               PROVE  i = j
    OBVIOUS
  <2>1. CASE i # dma /\ j # dma
    BY <1>2, <2>1 DEF OnceInv
  <2>2. CASE i = dma \/ j = dma
    BY <1>2, <2>2
  <2> QED BY <2>1, <2>2
<1>8. \A k \in 1 .. Len(up') : up'[k] <= accepted'
  BY <1>2, <1>3
<1>9. \A i \in Desc, k \in 1 .. Len(up') : Fresh(i)' => up'[k] # buf'[i]
  <2> SUFFICES ASSUME NEW i \in Desc, NEW k \in 1 .. Len(up'), Fresh(i)' PROVE up'[k] # buf'[i]
    OBVIOUS
  <2>1. CASE i = dma
    BY <1>2, <1>3, <2>1
  <2>2. CASE i # dma
    BY <1>2, <2>2 DEF OnceInv, Fresh
  <2> QED BY <2>1, <2>2
<1>10. AtMostOnce'
  BY <1>2 DEF OnceInv, AtMostOnce
<1> QED BY <1>1, <1>4, <1>5, <1>6, <1>7, <1>8, <1>9, <1>10 DEF OnceInv

\* The handler delivers the frame of the descriptor it is at.
LEMMA OnceProcess == ASSUME OnceInv, Process PROVE OnceInv'
<1>1. /\ up \in Seq(0 .. MaxFrames) /\ pkt \in 0 .. MaxFrames /\ up' = Append(up, pkt) /\ pc' = "done"
      /\ own[cur] = "CPU" /\ pkt = buf[cur] /\ cur \in Desc /\ Fresh(cur)
      /\ UNCHANGED <<own, buf, accepted, cur, intsts, reg>>
  BY DEF OnceInv, TypeOK, RxTypeOK, Process, rxVars, Fresh
<1>2. /\ up' \in Seq(0 .. MaxFrames) /\ Len(up) \in Nat /\ Len(up') = Len(up) + 1
      /\ up'[Len(up) + 1] = buf[cur] /\ \A k \in 1 .. Len(up) : up'[k] = up[k] /\ up[k] # buf[cur]
  <2>1. \A k \in 1 .. Len(up) : up[k] # buf[cur]
    BY <1>1 DEF OnceInv
  <2> QED BY <1>1, <2>1
<1>3. TypeOK'
  BY <1>2 DEF OnceInv, TypeOK, RxTypeOK, Process, rxVars, PC
<1>4. \A k \in 1 .. Len(up') : up'[k] <= accepted'
  BY <1>1, <1>2 DEF OnceInv
<1>5. \A i \in Desc, k \in 1 .. Len(up') : Fresh(i)' => up'[k] # buf'[i]
  <2> SUFFICES ASSUME NEW i \in Desc, NEW k \in 1 .. Len(up'), Fresh(i)' PROVE up'[k] # buf'[i]
    OBVIOUS
  <2>1. i # cur /\ own[i] = "CPU" /\ Fresh(i)
    BY <1>1 DEF Fresh
  <2>2. CASE k = Len(up) + 1
    BY <1>1, <1>2, <2>1, <2>2 DEF OnceInv
  <2>3. CASE k \in 1 .. Len(up)
    BY <1>1, <1>2, <2>1, <2>3 DEF OnceInv
  <2> QED BY <1>2, <2>2, <2>3
<1>6. AtMostOnce'
  <2> SUFFICES ASSUME NEW j \in 1 .. Len(up'), NEW k \in 1 .. Len(up'), up'[j] = up'[k] PROVE j = k
    BY DEF AtMostOnce
  <2>1. j \in 1 .. Len(up) \/ j = Len(up) + 1
    BY <1>2
  <2>2. k \in 1 .. Len(up) \/ k = Len(up) + 1
    BY <1>2
  <2> QED BY <1>2, <2>1, <2>2 DEF OnceInv, AtMostOnce
<1> QED BY <1>1, <1>3, <1>4, <1>5, <1>6 DEF OnceInv

\* A descriptor is given back after its frame has been handed on, and before it
\* can hold another.
LEMMA OnceDone == ASSUME OnceInv, RecvDone PROVE OnceInv'
<1>1. /\ cur \in Desc /\ cur' = NextDesc(cur) /\ cur' \in Desc /\ pc = "done" /\ pc' = "read"
      /\ own' = [own EXCEPT ![cur] = "EMAC"] /\ own \in [Desc -> {"EMAC", "CPU"}]
      /\ UNCHANGED <<good, buf, dma, rxon, intsts, pend, accepted, busErrs, reg, pkt, up>> /\ halted' = FALSE
  BY NextDescType DEF OnceInv, TypeOK, RxTypeOK, RecvDone, EMAC_RecvPktDone, GiveBack,
     EMAC_TRIGGER_RX, AfterDone
<1>2. \A i \in Desc : own'[i] = "CPU" => i # cur /\ own[i] = "CPU"
  BY <1>1
<1>3. TypeOK'
  BY <1>1, Zenon DEF OnceInv, TypeOK, RxTypeOK, PC
<1>4. \A i \in Desc : Fresh(i)' => Fresh(i)
  BY <1>1, <1>2 DEF Fresh
<1> QED BY <1>1, <1>2, <1>3, <1>4 DEF OnceInv, AtMostOnce

\* Every step, restarts of the receiver included, keeps the invariant.
LEMMA OnceNext ==
  ASSUME MaxBusErrors = 0, OnceInv, [TestNext]_testVars
  PROVE  OnceInv'
<1> USE DEF loopVars
<1>1. TypeOK /\ "RXBE" \notin intsts \union reg
  BY DEF OnceInv
<1>2. CASE Enter
  <2>1. TypeOK' /\ pc' = "read" /\ pc = "idle" /\ UNCHANGED <<own, buf, cur, accepted, up, intsts, reg>>
    BY <1>1, <1>2, Zenon DEF Enter, TakeInterrupt, TypeOK, RxTypeOK, PC
  <2> QED BY <1>1, <2>1, OnceFrame
<1>3. CASE ReadStatus
  <2>1. TypeOK' /\ pc' = "clear" /\ pc = "read" /\ UNCHANGED <<own, buf, cur, accepted, up, intsts>> /\ reg' = intsts
    BY <1>1, <1>3 DEF ReadStatus, rxVars, TypeOK, RxTypeOK, PC
  <2> QED BY <1>1, <2>1, OnceFrame
<1>4. CASE ClearStatus
  <2>1. TypeOK' /\ pc' = "check" /\ pc = "clear" /\ UNCHANGED <<own, buf, cur, accepted, up, reg>> /\ intsts' = intsts \ reg
    BY <1>1, <1>4 DEF ClearStatus, ClearRx, TypeOK, RxTypeOK, PC
  <2> QED BY <1>1, <2>1, OnceFrame
<1>5. CASE CheckDesc
  <2>1. /\ TypeOK' /\ pc' \in {"process", "return"} /\ pc = "check"
        /\ UNCHANGED <<own, buf, cur, accepted, up, reg, intsts>>
        /\ pc' = "process" => own[cur] = "CPU" /\ pkt' = buf[cur]
    BY <1>1, <1>5 DEF CheckDesc, Available, Received, rxVars, TypeOK, RxTypeOK, PC
  <2>2. "RXBE" \notin (intsts \union reg)'
    BY <1>1, <2>1
  <2> QED BY <2>1, <2>2, OnceFrame
<1>6. CASE Return
  <2>1. TypeOK' /\ pc' = "idle" /\ pc = "return" /\ UNCHANGED <<own, buf, cur, accepted, up, intsts, reg>>
    BY <1>1, <1>6 DEF Return, ReturnFromInterrupt, TypeOK, RxTypeOK, PC
  <2> QED BY <1>1, <2>1, OnceFrame
<1>7. CASE EMAC_RX_IRQHandler
  BY <1>2, <1>3, <1>4, <1>5, <1>6, <1>7, OnceProcess, OnceDone DEF EMAC_RX_IRQHandler
<1>8. CASE TestMain
  <2>1. /\ dma' \in {dma, 0} /\ halted' \in {halted, FALSE} /\ rxon' \in BOOLEAN
        /\ UNCHANGED <<own, good, buf, cur, accepted, busErrs, up, intsts, pend, reg, pc, pkt>>
    BY <1>1, <1>8, Zenon DEF TestMain, Poll, CheckType, DisableRx, EnableRx, ClearFlag, MainStep, vars,
       EMAC_DISABLE_RX, EMAC_ENABLE_RX, TypeOK, RxTypeOK
  <2>2. 0 \in Desc
    BY RingAssumption DEF RingAssumption, Desc
  <2>3. TypeOK'
    BY <1>1, <2>1, <2>2, Zenon DEF TypeOK, RxTypeOK
  <2>4. pc = "process" => own[cur] = "CPU" /\ pkt = buf[cur]
    BY DEF OnceInv
  <2> QED BY <1>1, <2>1, <2>3, <2>4, OnceFrame
<1>9. CASE Hardware
  <2>1. CASE DmaUnavailable
    <3>1. /\ TypeOK' /\ UNCHANGED <<own, buf, cur, accepted, up, reg, pc, pkt>>
          /\ intsts' = intsts \union {"RDU"}
      BY <1>1, <1>9, <2>1 DEF DmaUnavailable, Hardware, Raise, TypeOK, RxTypeOK, RxFlags
    <3>2. "RXBE" \notin (intsts \union reg)'
      BY <1>1, <3>1
    <3>3. pc = "process" => own[cur] = "CPU" /\ pkt = buf[cur]
      BY DEF OnceInv
    <3> QED BY <3>1, <3>2, <3>3, OnceFrame
  <2>2. ~DmaBusError
    BY <1>1 DEF DmaBusError, TypeOK, RxTypeOK
  <2> QED BY <1>9, <2>1, <2>2, OnceReceive, Zenon DEF Hardware, RxHardware
<1>10. CASE UNCHANGED testVars
  <2>1. UNCHANGED <<own, buf, cur, accepted, up, reg, pc, pkt, intsts>> /\ TypeOK'
    BY <1>1, <1>10 DEF testVars, vars, TypeOK, RxTypeOK
  <2>2. pc = "process" => own[cur] = "CPU" /\ pkt = buf[cur]
    BY DEF OnceInv
  <2> QED BY <1>1, <2>1, <2>2, OnceFrame
<1> QED BY <1>7, <1>8, <1>9, <1>10 DEF TestNext

\* No frame is handed on twice, however often main restarts the receiver between
\* two interrupts and wherever the DMA then stands.
THEOREM EthFrameTestAtMostOnce ==
  ASSUME MaxBusErrors = 0
  PROVE  TestSpec => []AtMostOnce
<1>1. OnceInv /\ [TestNext]_testVars => OnceInv'
  BY OnceNext
<1>2. OnceInv => AtMostOnce
  BY DEF OnceInv
<1> QED BY <1>1, <1>2, OnceInit, PTL DEF TestSpec
=============================================================================
