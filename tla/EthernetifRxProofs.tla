------------------------- MODULE EthernetifRxProofs -------------------------
(***************************************************************************)
(* Proof that the receive path of the lwIP port keeps in step with the DMA *)
(* and delivers frames in order, for every ring size, as long as the       *)
(* network never fills the ring (Window < N).                              *)
(***************************************************************************)
EXTENDS EthernetifRx, RingProofs, TLAPS

\* The initial state satisfies the invariant.
LEMMA InitIndInv == Init => IndInv
<1> SUFFICES ASSUME Init PROVE IndInv
  OBVIOUS
<1> USE RxAssumption, RingAssumption, PortAssumption
    DEF RxAssumption, RingAssumption, PortAssumption, Init, RxInit, EMAC_RxDescInit
<1>0. 0 \in Desc
  BY DEF Desc
<1>1. TypeOK
  BY <1>0 DEF TypeOK, RxTypeOK, PC, RxFlags, WildPbuf, NoPbuf
<1>2. RingInv
  <2>1. Waiting = 0 /\ Oldest = 0 /\ dma = 0
    BY DEF Waiting, Oldest
  <2>2. At(0, 0) = 0
    BY <1>0, AtZero
  <2>3. \A i \in Desc : Offset(Oldest, i) \in 0 .. N - 1 /\ own[i] = "EMAC"
    BY <1>0, <2>1, OffsetType
  <2> HIDE DEF Init, RxInit, EMAC_RxDescInit
  <2> QED
    BY <2>1, <2>2, <2>3 DEF RingInv
<1>3. Ordered /\ HandlerInv
  BY DEF Ordered, HandlerInv
<1> QED
  BY <1>1, <1>2, <1>3 DEF IndInv

\* A step that leaves the ring and the place of its oldest frame alone keeps
\* the ring invariant.
LEMMA RingFrame ==
  ASSUME RingInv, UNCHANGED <<own, buf, dma, accepted, taken, Oldest>>
  PROVE  RingInv'
<1>1. Waiting' = Waiting
  BY DEF Waiting
<1> QED
  BY <1>1 DEF RingInv, Offset, At

\* Storing a frame extends the CPU's stretch of the ring by one descriptor.
LEMMA DmaReceiveInd ==
  ASSUME IndInv, NEW g \in BOOLEAN, DmaReceive(g), Window \in 0 .. N - 1,
         accepted - taken < Window, UNCHANGED portVars
  PROVE  IndInv'
<1> USE RxAssumption, RingAssumption, PortAssumption
    DEF RxAssumption, RingAssumption, PortAssumption, IndInv, DmaReceive, portVars
<1>0. /\ accepted \in Nat /\ taken \in Nat /\ cur \in Desc /\ dma \in Desc
      /\ Oldest \in Desc /\ Oldest' = Oldest
  BY NextDescType DEF TypeOK, RxTypeOK, Oldest
<1>1. RxTypeOK'
  <2>1. dma' \in Desc
    BY NextDescType DEF TypeOK, RxTypeOK
  <2>2. intsts' \in SUBSET RxFlags /\ pend' \in BOOLEAN
    BY Zenon DEF TypeOK, RxTypeOK, Raise, RxFlags
  <2>3. /\ own' \in [Desc -> {"EMAC", "CPU"}]
        /\ good' \in [Desc -> BOOLEAN]
        /\ buf' \in [Desc -> 0 .. MaxFrames]
        /\ accepted' \in 0 .. MaxFrames
    BY DEF TypeOK, RxTypeOK
  <2> QED
    BY <2>1, <2>2, <2>3 DEF TypeOK, RxTypeOK
<1>2. Waiting' = Waiting + 1 /\ Waiting \in 0 .. N - 2
  BY <1>0 DEF Waiting, RingInv
<1>3. RingInv'
  <2>1. dma = At(Oldest, Waiting)
    BY DEF RingInv
  <2>2. \A i \in Desc : Offset(Oldest, i) = Waiting <=> i = dma
    BY <1>0, <1>2, <2>1, AtType, OffsetInjective
  <2>3. dma' = At(Oldest, Waiting)'
    BY <1>0, <1>2, <2>1, NextDescAt
  <2>4. accepted + 1 = taken + Waiting + 1
    BY <1>0 DEF Waiting
  <2>5. ASSUME NEW i \in Desc
        PROVE  IF Offset(Oldest, i)' < Waiting'
               THEN own'[i] = "CPU" /\ buf'[i] = taken' + Offset(Oldest, i)' + 1
               ELSE own'[i] = "EMAC"
    <3>1. Offset(Oldest, i) \in 0 .. N - 1 /\ Offset(Oldest, i)' = Offset(Oldest, i)
      BY <1>0, OffsetType DEF Offset
    <3>2. CASE i = dma
      BY <3>1, <3>2, <1>0, <1>2, <2>2, <2>4 DEF TypeOK, RxTypeOK
    <3>3. CASE i # dma
      BY <3>1, <3>3, <1>0, <1>2, <2>2 DEF TypeOK, RxTypeOK, RingInv
    <3> QED
      BY <3>2, <3>3
  <2> QED
    BY <1>2, <2>3, <2>5 DEF RingInv
<1>4. Ordered'
  BY DEF Ordered
<1>5. HandlerInv'
  <2>1. Waiting' >= 1 /\ Waiting \in Nat /\ (Waiting >= 1 => Waiting' >= 2)
    BY <1>2
  <2>2. /\ BusError' <=> BusError
        /\ intsts \subseteq intsts'
        /\ pend => pend'
        /\ intsts' # {} => pend' \/ intsts # {}
    BY DEF BusError, Raise, TypeOK, RxTypeOK
  <2>3. /\ \A k \in 1 .. Len(up) : up[k] <= taken
        /\ pc = "input" => \A k \in 1 .. Len(up) : up[k] < taken
    BY DEF HandlerInv
  <2> HIDE DEF DmaReceive
  <2>4. pc' = pc /\ reg' = reg /\ got' = got /\ p' = p /\ up' = up /\ taken' = taken
    OBVIOUS
  <2>5. CASE pc \in {"idle", "read"}
    BY <1>2, <2>1, <2>2, <2>3, <2>4, <2>5 DEF HandlerInv
  <2>6. CASE pc = "clear"
    <3>1. Waiting >= 1 \/ BusError \/ got
      BY <2>6 DEF HandlerInv, BusError
    <3> QED
      BY <3>1, <1>2, <2>1, <2>2, <2>3, <2>4, <2>6 DEF HandlerInv
  <2>7. CASE pc \notin {"idle", "read", "clear"}
    BY <1>2, <2>1, <2>2, <2>3, <2>4, <2>7 DEF HandlerInv
  <2> QED
    BY <2>5, <2>6, <2>7
<1> QED
  BY <1>1, <1>3, <1>4, <1>5 DEF TypeOK

\* The ring never fills, so that the DMA never runs out of descriptors.
LEMMA NeverUnavailable ==
  ASSUME IndInv
  PROVE  ~DmaUnavailable
<1>1. Oldest \in Desc /\ dma \in Desc
  BY NextDescType DEF IndInv, TypeOK, RxTypeOK, Oldest
<1>2. Offset(Oldest, dma) = Waiting
  BY <1>1, AtType DEF IndInv, RingInv
<1> QED
  BY <1>1, <1>2, RingAssumption DEF IndInv, RingInv, DmaUnavailable, RingAssumption

\* A bus error raises its flag and nothing else.
LEMMA DmaBusErrorInd ==
  ASSUME IndInv, DmaBusError, UNCHANGED portVars
  PROVE  IndInv'
<1> USE RxAssumption DEF RxAssumption, IndInv, DmaBusError, portVars
<1>1. TypeOK'
  BY DEF TypeOK, RxTypeOK, Raise, RxFlags
<1>2. RingInv'
  BY RingFrame DEF Oldest
<1>3. Ordered'
  BY DEF Ordered
<1>4. HandlerInv'
  <2>1. Waiting' = Waiting /\ BusError' /\ intsts \subseteq intsts'
    BY DEF Waiting, BusError, Raise
  <2>2. intsts' # {} => pend' \/ intsts # {}
    BY Zenon DEF Raise, TypeOK, RxTypeOK
  <2>3. pend => pend'
    BY Zenon DEF Raise, TypeOK, RxTypeOK
  <2> QED
    BY <2>1, <2>2, <2>3 DEF HandlerInv
<1> QED
  BY <1>1, <1>2, <1>3, <1>4

\* The CPU enters the handler.
LEMMA EnterInd == ASSUME IndInv, Enter PROVE IndInv'
<1> USE DEF IndInv, Enter, TakeInterrupt
<1>0. ~got
  BY DEF HandlerInv
<1>1. TypeOK'
  BY Zenon DEF TypeOK, RxTypeOK, PC
<1>2. RingInv'
  BY <1>0, RingFrame DEF Oldest
<1>3. Ordered'
  BY DEF Ordered
<1>4. HandlerInv'
  <2>1. Waiting' = Waiting /\ (BusError' <=> BusError)
    BY DEF Waiting, BusError
  <2> QED
    BY <1>0, <2>1 DEF HandlerInv
<1> QED
  BY <1>1, <1>2, <1>3, <1>4

\* The handler reads INTSTS.
LEMMA ReadStatusInd == ASSUME IndInv, ReadStatus PROVE IndInv'
<1> USE DEF IndInv, ReadStatus, rxVars
<1>1. TypeOK'
  BY DEF TypeOK, RxTypeOK, PC
<1>2. RingInv'
  BY RingFrame DEF Oldest
<1>3. Ordered'
  BY DEF Ordered
<1>4. HandlerInv'
  <2>1. Waiting' = Waiting /\ (BusError' <=> BusError) /\ (BusError <=> "RXBE" \in reg')
    BY DEF Waiting, BusError
  <2> QED
    BY <2>1 DEF HandlerInv
<1> QED
  BY <1>1, <1>2, <1>3, <1>4

\* It writes back the flags it read.
LEMMA ClearStatusInd == ASSUME IndInv, ClearStatus PROVE IndInv'
<1> USE DEF IndInv, ClearStatus, ClearRx
<1>1. TypeOK'
  BY DEF TypeOK, RxTypeOK, PC
<1>2. RingInv'
  BY RingFrame DEF Oldest
<1>3. Ordered'
  BY DEF Ordered
<1>4. HandlerInv'
  <2>1. Waiting' = Waiting /\ ("RXBE" \notin reg => (BusError' <=> BusError))
    BY DEF Waiting, BusError
  <2> QED
    BY <2>1 DEF HandlerInv
<1> QED
  BY <1>1, <1>2, <1>3, <1>4

\* In the first call there is a frame; in the second one the descriptor handed
\* back is the MAC's, and the EMAC_RecvPktDone that follows is due.
LEMMA NoFrameInd == ASSUME IndInv, NoFrame PROVE IndInv'
<1> USE DEF IndInv, NoFrame, Nothing, rxVars
<1>0. got
  <2> SUFFICES ASSUME ~got PROVE FALSE
    OBVIOUS
  <2>1. Oldest = cur /\ cur \in Desc /\ Waiting >= 1 /\ Offset(cur, cur) = 0
    BY OffsetSelf DEF Oldest, TypeOK, RxTypeOK, HandlerInv
  <2> QED
    BY <2>1 DEF RingInv
<1>1. TypeOK'
  BY RxAssumption DEF RxAssumption, TypeOK, RxTypeOK, PC, NoPbuf, WildPbuf
<1>2. RingInv'
  BY RingFrame DEF Oldest
<1>3. Ordered'
  BY DEF Ordered
<1>4. HandlerInv'
  <2>1. Waiting' = Waiting /\ (BusError' <=> BusError)
    BY DEF Waiting, BusError
  <2> QED
    BY <1>0, <2>1 DEF HandlerInv
<1> QED
  BY <1>1, <1>2, <1>3, <1>4

\* The handler returns.
LEMMA ReturnInd == ASSUME IndInv, Return PROVE IndInv'
<1> USE DEF IndInv, Return, ReturnFromInterrupt
<1>1. TypeOK'
  BY DEF TypeOK, RxTypeOK, PC
<1>2. RingInv'
  BY RingFrame DEF Oldest
<1>3. Ordered'
  BY DEF Ordered
<1>4. HandlerInv'
  <2>1. Waiting' = Waiting /\ (BusError' <=> BusError)
    BY DEF Waiting, BusError
  <2> QED
    BY <2>1, Zenon DEF HandlerInv, TypeOK, RxTypeOK
<1> QED
  BY <1>1, <1>2, <1>3, <1>4

\* Handing a descriptor back is always the first hand-back of this interrupt,
\* and the frame in it is the oldest one waiting.
LEMMA HandBackFacts ==
  ASSUME IndInv, NEW pbuf, HandBack(pbuf)
  PROVE  /\ ~got /\ Oldest = cur /\ Oldest' = NextDesc(cur)
         /\ cur \in Desc /\ NextDesc(cur) \in Desc
         /\ Waiting \in 1 .. N - 1 /\ Waiting' = Waiting - 1
         /\ taken \in Nat /\ taken + 1 <= MaxFrames
         /\ buf[cur] = taken + 1
<1> USE RxAssumption, RingAssumption
    DEF RxAssumption, RingAssumption, IndInv, HandBack, GiveBack
<1>1. /\ cur \in Desc /\ NextDesc(cur) \in Desc /\ taken \in Nat
      /\ accepted \in 0 .. MaxFrames
  BY NextDescType DEF TypeOK, RxTypeOK
<1>2. ~got
  <2> SUFFICES ASSUME got PROVE FALSE
    OBVIOUS
  <2>1. Oldest = NextDesc(cur) /\ Offset(Oldest, cur) = N - 1
    BY <1>1, OffsetNext DEF Oldest
  <2> QED
    BY <1>1, <2>1 DEF RingInv
<1>3. Oldest = cur /\ Oldest' = NextDesc(cur) /\ Offset(cur, cur) = 0
  BY <1>1, <1>2, OffsetSelf DEF Oldest
<1>4. Waiting \in 1 .. N - 1 /\ buf[cur] = taken + 1
  BY <1>1, <1>3 DEF RingInv
<1>5. Waiting' = Waiting - 1 /\ taken + 1 <= MaxFrames
  BY <1>1, <1>4 DEF Waiting
<1> QED
  BY <1>1, <1>2, <1>3, <1>4, <1>5

\* The frame handed back leaves the ring at its front.
LEMMA HandBackRing ==
  ASSUME IndInv, NEW pbuf, HandBack(pbuf)
  PROVE  RingInv'
<1> USE RxAssumption, RingAssumption DEF RxAssumption, RingAssumption
<1>1. /\ ~got /\ Oldest = cur /\ Oldest' = NextDesc(cur)
      /\ cur \in Desc /\ NextDesc(cur) \in Desc
      /\ Waiting \in 1 .. N - 1 /\ Waiting' = Waiting - 1 /\ taken \in Nat
  BY HandBackFacts
<1>2. /\ dma' = dma /\ taken' = taken + 1 /\ buf' = buf
      /\ own' = [own EXCEPT ![cur] = "EMAC"] /\ own \in [Desc -> {"EMAC", "CPU"}]
  BY DEF HandBack, GiveBack, IndInv, TypeOK, RxTypeOK
<1>3. RingInv
  BY DEF IndInv
<1>4. dma' = At(Oldest, Waiting)'
  BY <1>1, <1>2, <1>3, AtNext DEF RingInv
<1>5. ASSUME NEW i \in Desc
      PROVE  IF Offset(Oldest, i)' < Waiting'
             THEN own'[i] = "CPU" /\ buf'[i] = taken' + Offset(Oldest, i)' + 1
             ELSE own'[i] = "EMAC"
  <2>1. Offset(cur, i) \in 0 .. N - 1
    BY <1>1, OffsetType
  <2>2. CASE i = cur
    <3>1. Offset(Oldest, i)' = N - 1
      BY <1>1, <2>2, OffsetNext
    <3> QED
      BY <1>1, <1>2, <2>2, <3>1
  <2>3. CASE i # cur
    <3>1. Offset(Oldest, i)' = Offset(cur, i) - 1
      BY <1>1, <2>3, OffsetNext
    <3> QED
      BY <1>1, <1>2, <1>3, <2>1, <2>3, <3>1 DEF RingInv
  <2> QED
    BY <2>2, <2>3
<1> QED
  BY <1>1, <1>4, <1>5 DEF RingInv

\* low_level_input taking a frame, with each of its three outcomes.
LEMMA HandBackInd ==
  ASSUME IndInv, NEW pbuf \in {NoPbuf, WildPbuf, buf[cur]}, HandBack(pbuf),
         short' \subseteq LongFrames
  PROVE  IndInv'
<1> USE RxAssumption DEF RxAssumption, HandBack, GiveBack, NoPbuf, WildPbuf
<1>1. /\ ~got /\ Waiting \in 1 .. N - 1 /\ Waiting' = Waiting - 1
      /\ taken \in Nat /\ taken + 1 <= MaxFrames /\ buf[cur] = taken + 1
  BY HandBackFacts
<1>2. TypeOK'
  BY <1>1 DEF IndInv, TypeOK, RxTypeOK, PC
<1>3. RingInv'
  BY HandBackRing
<1>4. Ordered'
  BY DEF IndInv, Ordered
<1>5. HandlerInv'
  <2>1. /\ Waiting >= 1
        /\ pend \/ intsts # {} => Waiting >= 2 \/ BusError
        /\ \A k \in 1 .. Len(up) : up[k] <= taken
    BY <1>1 DEF IndInv, HandlerInv
  <2>2. \A k \in 1 .. Len(up) : up[k] < taken + 1 /\ up[k] \in Int
    BY <1>1, <2>1 DEF IndInv, TypeOK
  <2>3. BusError' <=> BusError
    BY DEF BusError
  <2>4. pend' \/ intsts' # {} => Waiting' >= 1 \/ BusError'
    BY <1>1, <2>1, <2>3
  <2>5. pc' \in {"done", "input"} /\ got' /\ up' = up /\ taken' = taken + 1
    OBVIOUS
  <2>6. pc' = "input" => p' \in {WildPbuf, taken'} /\ taken' >= 1
    BY <1>1
  <2>7. \A k \in 1 .. Len(up) : up[k] <= taken + 1
    BY <1>1, <2>2
  <2> HIDE DEF HandBack
  <2> QED
    BY <2>2, <2>4, <2>5, <2>6, <2>7 DEF HandlerInv
<1> QED
  BY <1>2, <1>3, <1>4, <1>5 DEF IndInv

\* netif->input is given a frame newer than all before it.
LEMMA InputInd == ASSUME IndInv, Input PROVE IndInv'
<1> USE RxAssumption DEF RxAssumption, Input, rxVars
<1>1. RingInv'
  BY RingFrame DEF IndInv, Oldest
<1>2. Waiting' = Waiting /\ (BusError' <=> BusError) /\ got
  BY DEF Waiting, BusError, IndInv, HandlerInv
<1>3. CASE p = WildPbuf
  <2>1. TypeOK'
    BY <1>3 DEF IndInv, TypeOK, RxTypeOK, PC
  <2>2. Ordered' /\ HandlerInv'
    BY <1>2, <1>3 DEF IndInv, Ordered, HandlerInv
  <2> QED
    BY <1>1, <2>1, <2>2 DEF IndInv
<1>4. CASE p # WildPbuf
  <2>1. /\ up \in Seq(1 .. MaxFrames) /\ p = taken /\ taken \in 1 .. MaxFrames
        /\ \A k \in 1 .. Len(up) : up[k] < taken
    BY <1>4 DEF IndInv, TypeOK, HandlerInv
  <2>2. /\ up' \in Seq(1 .. MaxFrames)
        /\ Len(up) \in Nat /\ Len(up') = Len(up) + 1 /\ up'[Len(up) + 1] = taken
        /\ \A k \in 1 .. Len(up) : up'[k] = up[k] /\ up[k] \in Int
    <3>1. up' = Append(up, taken)
      BY <1>4, <2>1
    <3> HIDE DEF Input
    <3> QED
      BY <2>1, <3>1
  <2>3. TypeOK'
    BY <1>4, <2>2 DEF IndInv, TypeOK, RxTypeOK, PC
  <2>4. Ordered'
    <3> SUFFICES ASSUME NEW j \in 1 .. Len(up'), NEW k \in 1 .. Len(up'), j < k
                 PROVE  up'[j] < up'[k]
      BY DEF Ordered
    <3> HIDE DEF Input
    <3>0. Len(up) \in Nat /\ Len(up') = Len(up) + 1
      BY <2>2
    <3>1. j \in 1 .. Len(up) /\ up'[j] = up[j] /\ up[j] < taken
      <4>1. j \in 1 .. Len(up)
        BY <3>0
      <4> QED
        BY <2>1, <2>2, <4>1, Zenon
    <3>2. CASE k = Len(up) + 1
      BY <2>2, <3>1, <3>2
    <3>3. CASE k # Len(up) + 1
      <4>1. k \in 1 .. Len(up)
        BY <3>0, <3>3
      <4>2. up'[k] = up[k]
        BY <2>2, <4>1
      <4> QED
        BY <3>1, <4>1, <4>2 DEF IndInv, Ordered
    <3> QED
      BY <3>2, <3>3
  <2>5. \A k \in 1 .. Len(up') : up'[k] <= taken'
    <3>0. taken' = taken
      OBVIOUS
    <3> HIDE DEF Input
    <3> SUFFICES ASSUME NEW k \in 1 .. Len(up') PROVE up'[k] <= taken
      BY <3>0
    <3>1. taken \in Int /\ Len(up) \in Nat /\ Len(up') = Len(up) + 1
      BY <2>1, <2>2
    <3>2. CASE k = Len(up) + 1
      BY <2>2, <3>1, <3>2
    <3>3. CASE k # Len(up) + 1
      <4>1. k \in 1 .. Len(up)
        BY <3>1, <3>3
      <4>2. up'[k] = up[k] /\ up[k] < taken /\ up[k] \in Int
        BY <2>1, <2>2, <4>1, Zenon
      <4> QED
        BY <3>1, <4>2
    <3> QED
      BY <3>2, <3>3
  <2>6. pc' = "read"
    BY <1>4
  <2>7. HandlerInv'
    BY <1>2, <2>5, <2>6 DEF IndInv, HandlerInv
  <2> QED
    BY <1>1, <2>3, <2>4, <2>7 DEF IndInv
<1> QED
  BY <1>3, <1>4

\* EMAC_RecvPktDone catches up with the hand-back: the descriptor is the MAC's
\* already, and u32CurrentRxDesc moves on to the oldest waiting frame.
LEMMA RecvDoneFacts ==
  ASSUME IndInv, RecvDone
  PROVE  /\ got /\ cur \in Desc /\ own[cur] = "EMAC"
         /\ own' = own /\ Oldest' = Oldest
<1>1. got /\ cur \in Desc /\ own \in [Desc -> {"EMAC", "CPU"}]
  BY DEF IndInv, HandlerInv, TypeOK, RxTypeOK, RecvDone
<1>2. Oldest = NextDesc(cur) /\ Offset(Oldest, cur) = N - 1
  BY <1>1, OffsetNext DEF Oldest
<1>3. own[cur] = "EMAC"
  BY <1>1, <1>2, RingAssumption DEF IndInv, RingInv, RingAssumption
<1> QED
  BY <1>1, <1>2, <1>3 DEF RecvDone, EMAC_RecvPktDone, GiveBack, Oldest

\* EMAC_RecvPktDone at the end of ethernetif_input.
LEMMA RecvDoneInd == ASSUME IndInv, RecvDone PROVE IndInv'
<1> USE DEF IndInv, RecvDone, EMAC_RecvPktDone, GiveBack, EMAC_TRIGGER_RX
<1>1. got /\ own' = own /\ Oldest' = Oldest
  BY RecvDoneFacts, Zenon
<1>2. TypeOK'
  BY NextDescType, Zenon DEF TypeOK, RxTypeOK, PC
<1>3. RingInv'
  BY <1>1, RingFrame
<1>4. Ordered'
  BY DEF Ordered
<1>5. HandlerInv'
  <2>1. Waiting' = Waiting /\ (BusError' <=> BusError)
    BY DEF Waiting, BusError
  <2> QED
    BY <1>1, <2>1 DEF HandlerInv
<1> QED
  BY <1>2, <1>3, <1>4, <1>5

-----------------------------------------------------------------------------
\* Every step keeps the invariant while the network does not fill the ring.
LEMMA NextIndInv ==
  ASSUME Window \in 0 .. N - 1, IndInv, [Next]_vars
  PROVE  IndInv'
<1>1. CASE Handler
  <2>1. CASE CopyFrame
    BY <2>1, HandBackInd DEF CopyFrame, Received, IndInv, TypeOK
  <2>2. CASE AllocFails
    BY <2>2, HandBackInd DEF AllocFails, IndInv, TypeOK
  <2>3. CASE BadFrame
    BY <2>3, HandBackInd DEF BadFrame, IndInv, TypeOK
  <2> QED
    BY <1>1, <2>1, <2>2, <2>3, EnterInd, ReadStatusInd, ClearStatusInd,
       NoFrameInd, InputInd, RecvDoneInd, ReturnInd DEF Handler
<1>2. CASE Hardware
  <2>1. CASE \E g \in BOOLEAN : DmaReceive(g)
    <3>1. accepted' # accepted
      BY <2>1 DEF DmaReceive, IndInv, TypeOK, RxTypeOK
    <3> QED
      BY <1>2, <2>1, <3>1, DmaReceiveInd DEF Hardware
  <2>2. CASE DmaBusError
    BY <1>2, <2>2, DmaBusErrorInd DEF Hardware
  <2> QED
    BY <1>2, <2>1, <2>2, NeverUnavailable, Zenon DEF Hardware, RxHardware
<1>3. CASE UNCHANGED vars
  <2> USE <1>3 DEF vars, IndInv
  <2>1. TypeOK' /\ Ordered'
    BY DEF TypeOK, RxTypeOK, Ordered
  <2>2. RingInv'
    BY RingFrame DEF Oldest
  <2>3. HandlerInv'
    BY DEF HandlerInv, Waiting, BusError
  <2> QED
    BY <2>1, <2>2, <2>3
<1> QED
  BY <1>1, <1>2, <1>3 DEF Next

\* As long as the network never fills the ring, the receive path of the port
\* satisfies its inductive invariant, with bad frames, failing allocations and
\* bus errors, for every ring size.
THEOREM PortInvariant ==
  ASSUME Window \in 0 .. N - 1
  PROVE  Spec => []IndInv
<1>1. IndInv /\ [Next]_vars => IndInv'
  BY NextIndInv
<1> QED
  BY <1>1, InitIndInv, PTL DEF Spec

\* The variables of the port's receive path keep their types.
THEOREM PortTypes ==
  ASSUME Window \in 0 .. N - 1
  PROVE  Spec => []TypeOK
<1>1. IndInv => TypeOK
  BY DEF IndInv
<1> QED
  BY <1>1, PortInvariant, PTL

\* The port and the DMA agree on the ring (u32CurrentRxDesc, CRXDSA, owners).
THEOREM PortRing ==
  ASSUME Window \in 0 .. N - 1
  PROVE  Spec => []RingInv
<1>1. IndInv => RingInv
  BY DEF IndInv
<1> QED
  BY <1>1, PortInvariant, PTL

\* netif->input sees frames in order of arrival and none twice.
THEOREM PortOrdered ==
  ASSUME Window \in 0 .. N - 1
  PROVE  Spec => []Ordered
<1>1. IndInv => Ordered
  BY DEF IndInv
<1> QED
  BY <1>1, PortInvariant, PTL

\* The unconditional EMAC_RecvPktDone of ethernetif_input gives away no frame
\* that was not read.
THEOREM PortNoUnreadRelease ==
  ASSUME Window \in 0 .. N - 1
  PROVE  Spec => NoUnreadRelease
<1>1. ASSUME IndInv PROVE pc = "done" => own[cur] = "EMAC"
  <2> SUFFICES ASSUME pc = "done" PROVE own[cur] = "EMAC"
    OBVIOUS
  <2>1. got /\ cur \in Desc /\ own \in [Desc -> {"EMAC", "CPU"}]
    BY <1>1 DEF IndInv, HandlerInv, TypeOK, RxTypeOK
  <2>2. Offset(Oldest, cur) = N - 1
    BY <2>1, OffsetNext DEF Oldest
  <2> QED
    BY <1>1, <2>1, <2>2, RingAssumption DEF IndInv, RingInv, RingAssumption
<1>2. IndInv /\ [Next]_vars => [pc = "done" => own[cur] = "EMAC"]_vars
  BY <1>1
<1> QED
  BY <1>2, PortInvariant, PTL DEF Spec, NoUnreadRelease

-----------------------------------------------------------------------------
(* Frames that come one at a time. *)

\* A frame that waits has its interrupt: pending, or taken and not yet at its
\* hand-back.  The handler neither hangs nor faults.
FrameHasInterrupt ==
  /\ pc \notin {"hung", "fault"}
  /\ Waiting >= 1 => pend \/ (~got /\ pc \in {"read", "clear", "check"})

\* Without bad frames and bus errors no flag and no pbuf leads the handler astray.
Calm ==
  /\ "RXBE" \notin intsts /\ "RXBE" \notin reg
  /\ \A i \in Desc : own[i] = "CPU" => good[i]
  /\ p # WildPbuf

LockInv == FrameHasInterrupt /\ Calm

\* A step that changes neither ring nor flags keeps the handler from going astray.
LEMMA CalmFrame ==
  ASSUME Calm, UNCHANGED <<own, good, intsts>>, "RXBE" \notin reg', p' # WildPbuf
  PROVE  Calm'
BY DEF Calm

\* A frame comes only when none waits; then no flag is set, and the flag it
\* raises is a rising edge, which the NVIC latches.
LEMMA ArrivalLock ==
  ASSUME IndInv, LockInv, DmaReceive(TRUE), accepted - taken < 1, UNCHANGED portVars
  PROVE  LockInv'
<1> USE DEF LockInv, DmaReceive, portVars
<1>1. Waiting = 0
  BY RxAssumption, RingAssumption DEF RxAssumption, RingAssumption, IndInv, RingInv, Waiting
<1>2. intsts = {}
  BY <1>1 DEF IndInv, HandlerInv, BusError, Calm, FrameHasInterrupt, TypeOK, PC
<1>3. pend' /\ intsts' = {"RXGD"}
  BY <1>2, Zenon DEF Raise
<1>4. FrameHasInterrupt'
  BY <1>3 DEF FrameHasInterrupt
<1>5. Calm'
  BY <1>3 DEF Calm, IndInv, TypeOK, RxTypeOK
<1> QED BY <1>4, <1>5

\* low_level_input takes a frame: it was the only one.
LEMMA HandBackLock ==
  ASSUME IndInv, LockInv, Waiting <= 1, NEW pbuf, pbuf # WildPbuf, HandBack(pbuf)
  PROVE  LockInv'
<1>1. Waiting' = 0
  <2>1. Waiting \in 1 .. N - 1 /\ Waiting' = Waiting - 1
    BY HandBackFacts
  <2> QED BY <2>1, RingAssumption DEF RingAssumption
<1>2. FrameHasInterrupt'
  BY <1>1 DEF FrameHasInterrupt, HandBack
<1>3. Calm'
  BY DEF LockInv, Calm, HandBack, GiveBack, IndInv, TypeOK, RxTypeOK
<1> QED BY <1>2, <1>3 DEF LockInv

\* No frame is stranded: with frames that come one at a time, every one intact
\* and without bus errors, a frame in the ring has an interrupt of its own, for
\* every ring size.  The flag of a frame that arrives during the second call of
\* low_level_input is cleared without the frame being read; what saves it is
\* the pending bit.
THEOREM PortFrameHasInterrupt ==
  ASSUME Window \in 0 .. 1, N >= 2, ~BadFrames, MaxBusErrors = 0
  PROVE  Spec => []FrameHasInterrupt
<1> DEFINE One == Waiting <= 1
<1>0. Window \in 0 .. N - 1
  BY RingAssumption DEF RingAssumption
<1>1. Init => LockInv /\ One
  BY RxAssumption
     DEF RxAssumption, Init, RxInit, EMAC_RxDescInit, LockInv, FrameHasInterrupt, Calm, Waiting,
         NoPbuf, WildPbuf
<1>2. ASSUME IndInv, IndInv', LockInv, One, [Next]_vars PROVE LockInv' /\ One'
  <2> USE <1>2
  <2>0. accepted \in Int /\ taken \in Int
    BY RxAssumption DEF RxAssumption, IndInv, TypeOK, RxTypeOK
  <2>1. ASSUME NEW pbuf, pbuf # WildPbuf, HandBack(pbuf) PROVE LockInv' /\ One'
    <3>1. One'
      BY <2>0, <2>1 DEF HandBack, Waiting
    <3> QED BY <2>1, <3>1, HandBackLock
  <2>2. ASSUME UNCHANGED <<accepted, taken>> PROVE Waiting' = Waiting /\ One'
    BY <2>2 DEF Waiting
  <2>3. CASE Handler
    <3>1. CASE Enter
      BY <2>2, <3>1, CalmFrame DEF Enter, TakeInterrupt, LockInv, FrameHasInterrupt, Calm
    <3>2. CASE ReadStatus
      BY <2>2, <3>2, CalmFrame DEF ReadStatus, rxVars, LockInv, FrameHasInterrupt, Calm
    <3>3. CASE ClearStatus
      <4>1. Calm'
        BY <3>3 DEF ClearStatus, ClearRx, LockInv, Calm
      <4>2. FrameHasInterrupt'
        BY <2>2, <3>3 DEF ClearStatus, ClearRx, LockInv, FrameHasInterrupt, Calm
      <4> QED BY <2>2, <3>3, <4>1, <4>2 DEF ClearStatus, ClearRx, LockInv
    <3>4. CASE NoFrame
      <4>1. got'
        BY <3>4 DEF NoFrame, IndInv, HandlerInv
      <4>2. got /\ p' # WildPbuf
        BY <3>4, <4>1 DEF NoFrame, NoPbuf, WildPbuf
      <4> QED BY <2>2, <3>4, <4>2, CalmFrame, ZenonT(30) DEF NoFrame, rxVars, LockInv, FrameHasInterrupt, Calm
    <3>5. CASE CopyFrame
      <4>1. Received # WildPbuf
        BY RxAssumption DEF RxAssumption, Received, WildPbuf, IndInv, TypeOK, RxTypeOK
      <4> QED BY <2>1, <3>5, <4>1 DEF CopyFrame
    <3>6. CASE AllocFails
      BY <2>1, <3>6 DEF AllocFails, NoPbuf, WildPbuf
    <3>7. CASE BadFrame
      <4>1. own[cur] = "CPU" /\ ~good[cur] /\ cur \in Desc
        BY <3>7, Zenon DEF BadFrame, HandBack, IndInv, TypeOK, RxTypeOK
      <4> QED BY <4>1 DEF LockInv, Calm
    <3>8. CASE Input
      <4>1. got
        BY <3>8 DEF Input, IndInv, HandlerInv
      <4> QED BY <2>2, <3>8, <4>1, CalmFrame, ZenonT(30) DEF Input, rxVars, LockInv, FrameHasInterrupt, Calm
    <3>9. CASE RecvDone
      <4>1. got /\ own' = own
        BY <3>9, RecvDoneFacts
      <4> QED BY <2>2, <3>9, <4>1, CalmFrame, Zenon
              DEF RecvDone, EMAC_RecvPktDone, LockInv, FrameHasInterrupt, Calm
    <3>10. CASE Return
      BY <2>2, <3>10, CalmFrame, Zenon DEF Return, ReturnFromInterrupt, LockInv, FrameHasInterrupt, Calm
    <3> QED BY <2>3, <3>1, <3>2, <3>3, <3>4, <3>5, <3>6, <3>7, <3>8, <3>9, <3>10 DEF Handler
  <2>4. CASE Hardware
    <3>1. CASE DmaReceive(TRUE)
      <4>1. accepted' = accepted + 1 /\ taken' = taken
        BY <2>4, <3>1 DEF DmaReceive, Hardware, portVars
      <4>2. accepted - taken < 1
        BY <2>0, <2>4, <4>1 DEF Hardware
      <4>3. One'
        BY <2>0, <4>1, <4>2 DEF Waiting
      <4> QED BY <2>4, <3>1, <4>2, <4>3, ArrivalLock DEF Hardware
    <3>2. ~DmaBusError
      BY DEF DmaBusError, IndInv, TypeOK, RxTypeOK
    <3> QED BY <2>4, <3>1, <3>2, NeverUnavailable, Zenon DEF Hardware, RxHardware
  <2>5. CASE UNCHANGED vars
    BY <2>2, <2>5, CalmFrame DEF vars, LockInv, FrameHasInterrupt, Calm
  <2> QED BY <2>3, <2>4, <2>5 DEF Next
<1>3. LockInv => FrameHasInterrupt
  BY DEF LockInv
<1>4. Spec => []IndInv
  BY <1>0, PortInvariant
<1> QED BY <1>1, <1>2, <1>3, <1>4, PTL DEF Spec
=============================================================================
