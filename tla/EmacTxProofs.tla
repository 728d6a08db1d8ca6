---------------------------- MODULE EmacTxProofs ----------------------------
(***************************************************************************)
(* Proof that low_level_output and the transmit DMA agree on the ring and  *)
(* that frames are sent exactly once and in order, for every ring size, as *)
(* long as only one context sends.                                         *)
(***************************************************************************)
EXTENDS EmacTx, RingProofs, TLAPS

\* The initial state satisfies the invariant.
LEMMA InitIndInv == Init => IndInv
<1> SUFFICES ASSUME Init PROVE IndInv
  OBVIOUS
<1> USE TxAssumption, RingAssumption
    DEF TxAssumption, RingAssumption, Init, EMAC_TxDescInit
<1>0. 0 \in Desc
  BY DEF Desc
<1>1. TypeOK
  <2>1. wire \in Seq(0 .. MaxTries) /\ air \in Seq(Sizes)
    OBVIOUS
  <2>2. /\ own \in [Desc -> {"EMAC", "CPU"}]
        /\ buf \in [Desc -> 0 .. MaxTries]
        /\ size \in [Desc -> Sizes] /\ txcp \in [Desc -> BOOLEAN]
        /\ spc \in [Contexts -> {"idle", "check", "fill", "own", "next", "trigger"}]
        /\ desc \in [Contexts -> Desc]
        /\ frame \in [Contexts -> 0 .. MaxTries]
    BY <1>0 DEF Sizes
  <2>3. /\ dma \in Desc /\ next \in Desc /\ cur \in Desc
        /\ last \in Desc /\ scan \in Desc /\ unseen \in SUBSET Desc
        /\ intsts \in SUBSET TxFlags /\ reg \in SUBSET TxFlags
    BY <1>0 DEF TxFlags
  <2>4. /\ halted \in BOOLEAN /\ pend \in BOOLEAN
        /\ cpu \in {"main", "rx", "tx"}
        /\ tpc \in {"idle", "read", "clear", "last", "loop", "return"}
    BY Zenon
  <2>5. /\ counted \in Nat /\ complete \in Nat
        /\ tries \in 0 .. MaxTries /\ accepted \in 0 .. MaxTries
        /\ busErrs \in 0 .. MaxBusErrors
    OBVIOUS
  <2> HIDE DEF Init, EMAC_TxDescInit
  <2> QED
    BY <2>1, <2>2, <2>3, <2>4, <2>5 DEF TypeOK
<1>2. RingInv
  <2>1. ~\E c \in Contexts : spc[c] \in {"fill", "own", "next"}
    OBVIOUS
  <2>2. Len(wire) = 0 /\ accepted = 0 /\ Held = 0 /\ FirstFree = 0 /\ dma = 0
    BY <2>1 DEF Held, FirstFree
  <2>3. At(0, 0) = 0
    BY <1>0, AtZero
  <2>4. \A i \in Desc : Offset(0, i) \in 0 .. N - 1 /\ own[i] = "CPU"
    BY <1>0, OffsetType
  <2> HIDE DEF Init, EMAC_TxDescInit
  <2>5. Queued = 0
    BY <2>2 DEF Queued
  <2> QED
    BY <2>2, <2>3, <2>4, <2>5 DEF RingInv
<1>3. WireInOrder /\ SenderInv
  BY DEF WireInOrder, SenderInv
<1> QED
  BY <1>1, <1>2, <1>3 DEF IndInv

\* A step that leaves the ring and its two ends alone keeps the invariant.
LEMMA RingFrame ==
  ASSUME RingInv, UNCHANGED <<own, buf, dma, wire, Queued, FirstFree>>
  PROVE  RingInv'
BY DEF RingInv, Offset, At

\* EMAC_SendPktDone changes nothing that low_level_output and the DMA use.
LEMMA DoneInd == ASSUME IndInv, EMAC_TX_IRQHandler PROVE IndInv'
<1> USE DEF IndInv
<1>1. UNCHANGED <<own, buf, dma, wire, sendVars>>
  BY DEF EMAC_TX_IRQHandler, EnterTx, TxReadStatus, TxClearStatus, ReadLast,
     ScanBreak, ScanStep, LeaveTx, ringVars
<1>2. Queued' = Queued /\ FirstFree' = FirstFree
  BY <1>1 DEF Queued, Held, FirstFree, sendVars
<1>3. TypeOK'
  <2>1. CASE EnterTx
    BY <2>1, Zenon DEF EnterTx, TypeOK, sendVars
  <2>2. CASE TxReadStatus \/ TxClearStatus \/ ReadLast \/ ScanBreak \/ LeaveTx
    BY <2>2, Zenon DEF TxReadStatus, TxClearStatus, ReadLast, ScanBreak, LeaveTx,
       Done, TypeOK, sendVars, ringVars
  <2>3. CASE ScanStep
    <3>1. NextDesc(scan) \in Desc
      BY NextDescType DEF TypeOK
    <3> QED
      BY <2>3, <3>1, SMTT(30) DEF ScanStep, ScanNext, Done, TypeOK, sendVars
  <2> QED
    BY <2>1, <2>2, <2>3 DEF EMAC_TX_IRQHandler
<1>4. RingInv'
  BY <1>1, <1>2, RingFrame
<1>5. WireInOrder' /\ SenderInv'
  BY <1>1 DEF WireInOrder, SenderInv, sendVars
<1> QED
  BY <1>3, <1>4, <1>5

\* A bus error raises its flag and nothing else.
LEMMA BusErrorInd == ASSUME IndInv, BusError PROVE IndInv'
<1> USE TxAssumption DEF TxAssumption, IndInv, BusError, DmaBusError, sendVars, doneVars
<1>1. TypeOK'
  BY DEF TypeOK, Raise, TxFlags
<1>2. RingInv'
  BY RingFrame DEF Queued, Held, FirstFree
<1>3. WireInOrder' /\ SenderInv'
  BY DEF WireInOrder, SenderInv
<1> QED
  BY <1>1, <1>2, <1>3

\* The DMA finding nothing to send only halts.
LEMMA DmaNothingInd ==
  ASSUME IndInv, DmaNothing, UNCHANGED <<sendVars, doneVars, cpu>>
  PROVE  IndInv'
<1> USE DEF IndInv, DmaNothing, sendVars, doneVars
<1>1. TypeOK'
  BY DEF TypeOK
<1>2. RingInv'
  BY RingFrame DEF Queued, Held, FirstFree
<1>3. WireInOrder' /\ SenderInv'
  BY DEF WireInOrder, SenderInv
<1> QED
  BY <1>1, <1>2, <1>3

-----------------------------------------------------------------------------
(* The sender, alone. *)

\* A context enters low_level_output.
LEMMA StartInd ==
  ASSUME NEW s, Contexts = {s}, IndInv, Start(s)
  PROVE  IndInv'
<1> USE TxAssumption DEF TxAssumption, IndInv, Start, ringVars, doneVars
<1>1. TypeOK'
  BY DEF TypeOK
<1>2. Queued' = Queued /\ FirstFree' = FirstFree
  BY DEF Queued, Held, FirstFree, TypeOK
<1>3. RingInv'
  BY <1>2, RingFrame
<1>4. WireInOrder' /\ SenderInv'
  BY DEF WireInOrder, SenderInv, TypeOK
<1> QED
  BY <1>1, <1>3, <1>4

\* The test of the owner bit, and what follows when the ring is full.
LEMMA CheckInd ==
  ASSUME NEW s, Contexts = {s}, IndInv, Check(s)
  PROVE  IndInv'
<1> USE TxAssumption DEF TxAssumption, IndInv, Check, Free, ringVars, doneVars
<1>0. accepted \in Nat /\ Len(wire) \in Nat /\ desc[s] = next /\ accepted < tries
  BY DEF TypeOK, SenderInv
<1>1. TypeOK'
  BY <1>0, SMTT(30) DEF TypeOK
<1>2. Queued' = Queued /\ FirstFree' = FirstFree
  BY <1>0 DEF Queued, Held, FirstFree, TypeOK
<1>3. RingInv'
  BY <1>2, RingFrame
<1>4. WireInOrder' /\ SenderInv'
  BY <1>0 DEF WireInOrder, SenderInv, TypeOK
<1> QED
  BY <1>1, <1>3, <1>4

\* The buffer filled is not one of those the DMA has still to send.
LEMMA FillInd ==
  ASSUME NEW s, Contexts = {s}, IndInv, Fill(s)
  PROVE  IndInv'
<1> USE DEF IndInv, Fill, Contents, doneVars
<1>0. /\ desc[s] = next /\ next \in Desc /\ own[next] = "CPU" /\ frame[s] = accepted
      /\ frame[s] \in 0 .. MaxTries /\ buf \in [Desc -> 0 .. MaxTries]
  BY DEF TypeOK, SenderInv
<1>1. TypeOK'
  <2>1. /\ buf' \in [Desc -> 0 .. MaxTries] /\ txcp' \in [Desc -> BOOLEAN]
        /\ spc' \in [Contexts -> {"idle", "check", "fill", "own", "next", "trigger"}]
    BY <1>0 DEF TypeOK
  <2>2. size' \in [Desc -> Sizes]
    BY <1>0 DEF TypeOK, Copied, Sizes
  <2> QED
    BY <2>1, <2>2, Zenon DEF TypeOK
<1>2. Queued' = Queued /\ FirstFree' = FirstFree
  BY DEF Queued, Held, FirstFree, TypeOK
<1>3. \A i \in Desc : own[i] = "EMAC" => buf'[i] = buf[i]
  BY <1>0
<1>4. RingInv'
  <2>1. UNCHANGED <<own, dma, wire>>
    OBVIOUS
  <2> HIDE DEF Fill
  <2> QED
    BY <1>2, <1>3, <2>1 DEF RingInv, Offset, At
<1>5. buf'[next] = accepted
  BY <1>0
<1>6. WireInOrder' /\ SenderInv'
  BY <1>0, <1>5 DEF WireInOrder, SenderInv, TypeOK
<1> QED
  BY <1>1, <1>4, <1>6

\* u32NextTxDesc moves on.
LEMMA SetNextInd ==
  ASSUME NEW s, Contexts = {s}, IndInv, SetNext(s)
  PROVE  IndInv'
<1> USE DEF IndInv, SetNext, Following, ringVars, doneVars
<1>0. desc[s] = next /\ next \in Desc /\ NextDesc(next) \in Desc
  BY NextDescType DEF TypeOK, SenderInv
<1>1. TypeOK'
  BY <1>0 DEF TypeOK
<1>2. Queued' = Queued /\ FirstFree' = FirstFree
  BY <1>0 DEF Queued, Held, FirstFree, TypeOK
<1>3. RingInv'
  BY <1>2, RingFrame
<1>4. WireInOrder' /\ SenderInv'
  BY DEF WireInOrder, SenderInv, TypeOK
<1> QED
  BY <1>1, <1>3, <1>4

\* EMAC_TRIGGER_TX.
LEMMA TriggerInd ==
  ASSUME NEW s, Contexts = {s}, IndInv, Trigger(s)
  PROVE  IndInv'
<1> USE DEF IndInv, Trigger, EMAC_TRIGGER_TX, doneVars
<1>1. TypeOK'
  BY Zenon DEF TypeOK
<1>2. Queued' = Queued /\ FirstFree' = FirstFree
  BY DEF Queued, Held, FirstFree, TypeOK
<1>3. RingInv'
  BY <1>2, RingFrame
<1>4. WireInOrder' /\ SenderInv'
  BY DEF WireInOrder, SenderInv, TypeOK
<1> QED
  BY <1>1, <1>3, <1>4

\* Setting the owner bit queues the frame behind the others.
LEMMA SetOwnInd ==
  ASSUME NEW s, Contexts = {s}, IndInv, SetOwn(s)
  PROVE  IndInv'
<1> USE RingAssumption DEF RingAssumption, IndInv, SetOwn, doneVars
<1>0. /\ accepted \in Nat /\ Len(wire) \in Nat /\ next \in Desc /\ dma \in Desc
      /\ desc[s] = next /\ own[next] = "CPU" /\ buf[next] = accepted
      /\ own \in [Desc -> {"EMAC", "CPU"}]
  BY DEF TypeOK, SenderInv
<1>1. TypeOK'
  BY DEF TypeOK
<1>2. /\ Queued = accepted - 1 - Len(wire) /\ Queued' = accepted - Len(wire)
      /\ FirstFree = next /\ FirstFree' = NextDesc(next)
  BY <1>0 DEF Queued, Held, FirstFree, TypeOK
<1>3. RingInv'
  <2>1. Queued \in 0 .. N - 1 /\ next = At(dma, Queued)
    <3>1. \A i \in Desc : Offset(dma, i) \in 0 .. N - 1
      BY <1>0, OffsetType
    <3> QED
      BY <1>0, <1>2, <3>1, SMTT(30) DEF RingInv
  <2>2. \A i \in Desc : Offset(dma, i) = Queued <=> i = next
    <3> HIDE DEF SetOwn, IndInv
    <3>1. dma \in Desc
      BY <1>0
    <3> QED
      BY <3>1, <2>1, OffsetAt
  <2>3. Queued' = Queued + 1 /\ accepted = Len(wire) + Queued + 1
    BY <1>0, <1>2
  <2>4. FirstFree' = IF Queued' = N THEN dma' ELSE At(dma, Queued)'
    <3>1. dma' = dma
      OBVIOUS
    <3> HIDE DEF SetOwn, IndInv
    <3>2. dma \in Desc
      BY <1>0
    <3>3. NextDesc(next) = IF Queued = N - 1 THEN dma ELSE At(dma, Queued + 1)
      BY <2>1, <3>2, NextDescAt
    <3>4. Queued' = Queued + 1
      BY <2>3
    <3>5. FirstFree' = NextDesc(next)
      BY <1>2
    <3>6. At(dma, Queued)' = At(dma, Queued + 1)
      BY <3>1, <3>4 DEF At
    <3> QED
      BY <2>1, <3>1, <3>3, <3>4, <3>5, <3>6
  <2>5. ASSUME NEW i \in Desc
        PROVE  IF Offset(dma, i)' < Queued'
               THEN own'[i] = "EMAC" /\ buf'[i] = Len(wire)' + Offset(dma, i)' + 1
               ELSE own'[i] = "CPU"
    <3>1. Offset(dma, i) \in 0 .. N - 1 /\ Offset(dma, i)' = Offset(dma, i)
      BY <1>0, OffsetType DEF Offset
    <3>0. own'[i] = (IF i = next THEN "EMAC" ELSE own[i]) /\ buf' = buf /\ wire' = wire
      BY <1>0
    <3>2. CASE i = next
      <4>1. Offset(dma, i) = Queued
        BY <2>2, <3>2
      <4>2. own'[i] = "EMAC" /\ buf'[i] = accepted /\ Len(wire)' = Len(wire)
        BY <1>0, <3>0, <3>2
      <4> HIDE DEF SetOwn, IndInv
      <4> QED
        BY <1>0, <2>1, <2>3, <3>1, <4>1, <4>2
    <3>3. CASE i # next
      <4>1. Offset(dma, i) # Queued
        BY <2>2, <3>3
      <4>2. IF Offset(dma, i) < Queued
            THEN own[i] = "EMAC" /\ buf[i] = Len(wire) + Offset(dma, i) + 1
            ELSE own[i] = "CPU"
        BY DEF RingInv
      <4>3. own'[i] = own[i] /\ buf'[i] = buf[i] /\ Len(wire)' = Len(wire)
        BY <3>0, <3>3
      <4> HIDE DEF SetOwn, IndInv
      <4>4. Offset(dma, i) < Queued <=> Offset(dma, i)' < Queued'
        BY <2>1, <2>3, <3>1, <4>1
      <4> QED
        BY <3>1, <4>2, <4>3, <4>4
    <3> QED
      BY <3>2, <3>3
  <2> QED
    BY <2>1, <2>3, <2>4, <2>5 DEF RingInv
<1>4. WireInOrder' /\ SenderInv'
  BY <1>0, Zenon DEF WireInOrder, SenderInv, TypeOK
<1> QED
  BY <1>1, <1>3, <1>4

\* The DMA takes the oldest frame out of the ring.
LEMMA DmaSendInd ==
  ASSUME IndInv, NEW ok \in BOOLEAN, DmaSend(ok),
         UNCHANGED <<sendVars, doneVars, cpu>>
  PROVE  IndInv'
<1> USE RingAssumption
    DEF RingAssumption, IndInv, DmaSend, sendVars, doneVars
<1>0. /\ accepted \in Nat /\ Held \in {0, 1} /\ dma \in Desc /\ next \in Desc
      /\ wire \in Seq(0 .. MaxTries) /\ buf[dma] \in 0 .. MaxTries
      /\ own \in [Desc -> {"EMAC", "CPU"}] /\ Offset(dma, dma) = 0
  BY OffsetSelf DEF TypeOK, Held
<1>1. /\ wire' \in Seq(0 .. MaxTries) /\ Len(wire) \in Nat
      /\ Len(wire') = Len(wire) + 1 /\ wire'[Len(wire) + 1] = buf[dma]
      /\ \A k \in 1 .. Len(wire) : wire'[k] = wire[k]
  BY <1>0
<1>2. TypeOK'
  <2>1. dma' \in Desc
    BY <1>0, NextDescType
  <2>2. /\ intsts' \in SUBSET TxFlags /\ pend' \in BOOLEAN
        /\ complete' \in Nat /\ unseen' \in SUBSET Desc
    <3>1. CASE ok
      <4>1. complete' = complete + 1 /\ unseen' = unseen \union {dma} /\ Raise("TXCP")
        BY <3>1
      <4>2. complete \in Nat /\ unseen \in SUBSET Desc /\ intsts \in SUBSET TxFlags
        BY DEF TypeOK
      <4>3. complete' \in Nat
        BY <4>1, <4>2
      <4>4. unseen' \in SUBSET Desc
        BY <4>1, <4>2, <1>0
      <4>5. intsts' \in SUBSET TxFlags /\ pend' \in BOOLEAN
        BY <4>1, <4>2 DEF Raise, TxFlags, TypeOK
      <4> QED
        BY <4>3, <4>4, <4>5
    <3>2. CASE ~ok
      BY <3>2 DEF TypeOK
    <3> QED
      BY <3>1, <3>2
  <2>3. /\ own' \in [Desc -> {"EMAC", "CPU"}] /\ txcp' \in [Desc -> BOOLEAN]
    BY DEF TypeOK
  <2>4. size' \in [Desc -> Sizes] /\ air' \in Seq(Sizes)
    <3>1. size \in [Desc -> Sizes] /\ air \in Seq(Sizes) /\ 0 \in Sizes
      BY DEF TypeOK, Sizes
    <3>2. (IF ok THEN size[dma] ELSE 0) \in Sizes
      BY <3>1, <1>0
    <3> QED
      BY <3>1, <3>2
  <2> QED
    BY <1>1, <2>1, <2>2, <2>3, <2>4, Zenon DEF TypeOK
<1>3. /\ Queued \in 1 .. N /\ buf[dma] = Len(wire) + 1 /\ Queued' = Queued - 1
      /\ FirstFree' = FirstFree
  <2>1. Queued \in 1 .. N /\ buf[dma] = Len(wire) + 1
    BY <1>0, <1>1 DEF RingInv
  <2>2. Held' = Held /\ FirstFree' = FirstFree
    BY DEF Held, FirstFree
  <2> QED
    BY <1>0, <1>1, <2>1, <2>2 DEF Queued
<1>4. RingInv'
  <2>1. FirstFree' = IF Queued' = N THEN dma' ELSE At(dma, Queued)'
    <3>1. CASE Queued = N
      BY <3>1, <1>0, <1>3, AtZero DEF RingInv
    <3>2. CASE Queued # N
      BY <3>2, <1>0, <1>3, AtNext, SMTT(30) DEF RingInv
    <3> QED
      BY <3>1, <3>2, Zenon
  <2>2. ASSUME NEW i \in Desc
        PROVE  IF Offset(dma, i)' < Queued'
               THEN own'[i] = "EMAC" /\ buf'[i] = Len(wire)' + Offset(dma, i)' + 1
               ELSE own'[i] = "CPU"
    <3>1. Offset(dma, i) \in 0 .. N - 1
      BY <1>0, OffsetType
    <3>2. CASE i = dma
      <4>1. Offset(dma, i)' = N - 1
        BY <1>0, <3>2, OffsetNext
      <4> QED
        BY <1>0, <1>3, <3>2, <4>1
    <3>3. CASE i # dma
      <4>1. Offset(dma, i)' = Offset(dma, i) - 1
        BY <1>0, <3>3, OffsetNext
      <4>2. own'[i] = own[i] /\ buf'[i] = buf[i]
        BY <1>0, <3>3
      <4>3. Len(wire)' = Len(wire) + 1 /\ Len(wire) \in Nat
        BY <1>1
      <4> HIDE DEF DmaSend, IndInv
      <4>4. Offset(dma, i)' < Queued' <=> Offset(dma, i) < Queued
        BY <1>3, <3>1, <4>1
      <4>5. Len(wire)' + Offset(dma, i)' + 1 = Len(wire) + Offset(dma, i) + 1
        BY <3>1, <4>1, <4>3
      <4> QED
        BY <4>2, <4>4, <4>5 DEF RingInv, IndInv
    <3> QED
      BY <3>2, <3>3, Zenon
  <2> QED
    BY <1>3, <2>1, <2>2, SMTT(30) DEF RingInv
<1>5. WireInOrder'
  BY <1>1, <1>3 DEF WireInOrder
<1>6. SenderInv'
  <2>1. own[next] = "CPU" => own'[next] = "CPU"
    BY <1>0, Zenon
  <2> QED
    BY <2>1, Zenon DEF SenderInv
<1> QED
  BY <1>2, <1>4, <1>5, <1>6

-----------------------------------------------------------------------------
\* Every step keeps the invariant when one context sends.
LEMMA NextIndInv ==
  ASSUME NEW s, Contexts = {s}, IndInv, [Next]_vars
  PROVE  IndInv'
<1>1. CASE Sending
  BY <1>1, CheckInd, FillInd, SetOwnInd, SetNextInd, TriggerInd DEF Sending
<1>2. CASE \E c \in Contexts : Start(c)
  BY <1>2, StartInd
<1>3. CASE EMAC_TX_IRQHandler
  BY <1>3, DoneInd
<1>4. CASE Dma
  BY <1>4, DmaSendInd, DmaNothingInd, Zenon DEF Dma
<1>5. CASE BusError
  BY <1>5, BusErrorInd
<1>6. CASE UNCHANGED vars
  <2> USE <1>6 DEF vars, IndInv
  <2>1. TypeOK'
    BY Zenon DEF TypeOK
  <2>2. RingInv'
    BY RingFrame DEF Queued, Held, FirstFree
  <2>3. WireInOrder' /\ SenderInv'
    BY DEF WireInOrder, SenderInv
  <2> QED
    BY <2>1, <2>2, <2>3
<1> QED
  BY <1>1, <1>2, <1>3, <1>4, <1>5, <1>6 DEF Next

\* With a single sending context the transmit path satisfies its inductive
\* invariant: with aborted frames and bus errors, for every ring size.
THEOREM TxInvariant ==
  ASSUME NEW CONSTANT s, Contexts = {s}
  PROVE  Spec => []IndInv
<1>1. IndInv /\ [Next]_vars => IndInv'
  BY NextIndInv
<1> QED
  BY <1>1, InitIndInv, PTL DEF Spec

\* The variables of the transmit path keep their types.
THEOREM TxTypes ==
  ASSUME NEW CONSTANT s, Contexts = {s}
  PROVE  Spec => []TypeOK
<1>1. IndInv => TypeOK
  BY DEF IndInv
<1> QED
  BY <1>1, TxInvariant, PTL

\* low_level_output and the DMA agree on the ring: u32NextTxDesc, CTXDSA and
\* the owner bits.
THEOREM TxRing ==
  ASSUME NEW CONSTANT s, Contexts = {s}
  PROVE  Spec => []RingInv
<1>1. IndInv => RingInv
  BY DEF IndInv
<1> QED
  BY <1>1, TxInvariant, PTL

\* Frames are sent exactly once and in the order of their acceptance.
THEOREM TxWireInOrder ==
  ASSUME NEW CONSTANT s, Contexts = {s}
  PROVE  Spec => []WireInOrder
<1>1. IndInv => WireInOrder
  BY DEF IndInv
<1> QED
  BY <1>1, TxInvariant, PTL

\* No buffer is written while its descriptor belongs to the EMAC.
THEOREM TxFillOwnBufferOnly ==
  ASSUME NEW CONSTANT s, Contexts = {s}
  PROVE  Spec => FillOwnBufferOnly
<1> DEFINE Safe == \A i \in Desc : buf'[i] # buf[i] => own[i] = "CPU"
<1>1. ASSUME IndInv, [Next]_vars PROVE [Safe]_vars
  <2>1. CASE Fill(s)
    <3>1. desc[s] = next /\ own[next] = "CPU" /\ buf \in [Desc -> 0 .. MaxTries]
      BY <1>1, <2>1 DEF Fill, IndInv, SenderInv, TypeOK
    <3> QED
      BY <2>1, <3>1, Zenon DEF Fill, Contents
  <2>2. CASE ~Fill(s)
    <3>1. buf' = buf
      BY <1>1, <2>2, Zenon DEF Next, Sending, Check, SetOwn, SetNext, Trigger, Start,
          EMAC_TX_IRQHandler, EnterTx, TxReadStatus,
         TxClearStatus, ReadLast, ScanBreak, ScanStep, LeaveTx, Dma, DmaSend,
         DmaNothing, BusError, DmaBusError, ringVars, vars
    <3> QED
      BY <3>1
  <2> QED
    BY <2>1, <2>2
<1> QED
  BY <1>1, TxInvariant, PTL DEF Spec, FillOwnBufferOnly

\* With one sending context the transmit path implements a queue of N frames:
\* a frame goes in when low_level_output finds its descriptor free, and comes
\* out when the DMA takes it.
THEOREM TxImplementsQueue ==
  ASSUME NEW CONSTANT s, Contexts = {s}
  PROVE  Spec => ImplementsQueue
<1>1. Init => Queue!Init
  BY DEF Init, Queue!Init
<1>2. ASSUME IndInv, [Next]_vars
      PROVE  [Queue!Put \/ Queue!Get]_(Queue!queueVars)
  <2> USE DEF Queue!queueVars
  <2>0. /\ accepted \in Nat /\ Len(wire) \in Nat /\ dma \in Desc /\ next \in Desc
        /\ Offset(dma, dma) = 0 /\ Queued \in 0 .. N
    BY <1>2, OffsetSelf DEF IndInv, TypeOK, RingInv
  <2>1. CASE Check(s)
    <3>1. CASE Free(desc[s])
      <4>1. desc[s] = next /\ own[next] = "CPU" /\ spc[s] = "check"
        BY <1>2, <2>1, <3>1 DEF Check, Free, IndInv, SenderInv
      <4>2. Held = 0 /\ FirstFree = next
        BY <4>1 DEF Held, FirstFree
      <4>3. Queued # N
        BY <1>2, <2>0, <4>1, <4>2, RingAssumption DEF IndInv, RingInv, RingAssumption
      <4>4. accepted - Len(wire) < N
        BY <2>0, <4>2, <4>3, RingAssumption DEF Queued, RingAssumption
      <4> QED
        BY <2>1, <3>1, <4>4 DEF Check, ringVars, Queue!Put
    <3>2. CASE ~Free(desc[s])
      BY <2>1, <3>2 DEF Check, ringVars
    <3> QED
      BY <3>1, <3>2
  <2>2. CASE \E ok \in BOOLEAN : DmaSend(ok) /\ UNCHANGED sendVars
    <3>1. own[dma] = "EMAC" /\ wire' = Append(wire, buf[dma]) /\ accepted' = accepted
      BY <2>2 DEF DmaSend, sendVars
    <3>2. 0 < Queued /\ buf[dma] = Len(wire) + 1
      BY <1>2, <2>0, <3>1 DEF IndInv, RingInv
    <3>3. Len(wire) < accepted
      BY <2>0, <3>2 DEF Queued, Held
    <3> QED
      BY <3>1, <3>2, <3>3 DEF Queue!Get
  <2>3. CASE ~Check(s) /\ ~\E ok \in BOOLEAN : DmaSend(ok) /\ UNCHANGED sendVars
    <3>1. UNCHANGED <<accepted, wire>>
      BY <1>2, <2>3, Zenon DEF Next, Sending, Fill, SetOwn, SetNext, Trigger, Start,
         EMAC_TX_IRQHandler, EnterTx, TxReadStatus, TxClearStatus, ReadLast,
         ScanBreak, ScanStep, LeaveTx, Dma, DmaNothing, BusError, DmaBusError,
         ringVars, sendVars, vars
    <3> QED
      BY <3>1
  <2> QED
    BY <2>1, <2>2, <2>3
<1> QED
  BY <1>1, <1>2, TxInvariant, PTL DEF Spec, ImplementsQueue, Queue!Spec
-----------------------------------------------------------------------------
(* EMAC_SendPktDone keeps up with main. *)

\* No frame has been given up and no bus error reported.
Clean == complete = Len(wire) /\ busErrs = 0

\* What EMAC_SendPktDone has not passed lies between d and CTXDSA, before the
\* frames that wait to be sent.
Behind(d) ==
  \E m \in 0 .. N :
    /\ dma = IF m = N THEN d ELSE At(d, m)
    /\ m + Queued <= N
    /\ \A i \in unseen : Offset(d, i) < m

\* EMAC_SendPktDone has passed everything, and would go on at d.
CaughtUp(d) == unseen = {} /\ d = dma

\* The places of the handler.  In the loop it may run once around an empty ring,
\* beyond CTXDSA; it stops at the CTXDSA it has read, and if the DMA has moved
\* on since then the interrupt is raised again.
CleanUpInv ==
  /\ tpc # "loop" => Behind(cur)
  /\ tpc = "loop" => Behind(scan) \/ (unseen = {} /\ Queued = 0)
  /\ tpc = "loop" /\ intsts = {} => last = dma
  /\ tpc = "return" /\ intsts = {} => CaughtUp(cur)
  /\ tpc = "idle" /\ ~pend => CaughtUp(cur)
  /\ \A c \in Contexts : spc[c] = "fill" => desc[c] \notin unseen

\* The inductive invariant behind CleanedBeforeReuse.
TxCleanInv ==
  /\ complete <= Len(wire)
  /\ tpc # "idle" <=> cpu = "tx"
  /\ busErrs = 0 => "TXBE" \notin intsts \union reg
  /\ tpc = "idle" /\ intsts # {} => pend
  /\ Clean => CleanUpInv

\* What can be derived from the types.
LEMMA CleanTypes ==
  ASSUME IndInv
  PROVE  /\ N \in Nat \ {0} /\ dma \in Desc /\ cur \in Desc /\ scan \in Desc /\ last \in Desc /\ unseen \subseteq Desc
         /\ complete \in Nat /\ Len(wire) \in Nat /\ busErrs \in Nat /\ Queued \in 0 .. N
         /\ Offset(dma, dma) = 0
BY RingAssumption, OffsetSelf DEF RingAssumption, IndInv, TypeOK, RingInv

\* Nothing to pass: the place of the handler is CTXDSA.
LEMMA BehindEmpty ==
  ASSUME IndInv, NEW d \in Desc, CaughtUp(d)
  PROVE  Behind(d)
<1>1. dma = IF 0 = N THEN d ELSE At(d, 0)
  BY CleanTypes, AtZero DEF CaughtUp
<1>2. 0 \in 0 .. N /\ 0 + Queued <= N
  BY CleanTypes
<1> QED BY <1>1, <1>2 DEF Behind, CaughtUp

\* The descriptor of a frame sent completely is the next to pass.
LEMMA BehindSend ==
  ASSUME IndInv, NEW d \in Desc, Behind(d), Queued > 0, NEW dma2, dma2 = NextDesc(dma), NEW seen2, seen2 = unseen \union {dma}
  PROVE  \E m \in 0 .. N :
           /\ dma2 = IF m = N THEN d ELSE At(d, m)
           /\ m + (Queued - 1) <= N
           /\ \A i \in seen2 : Offset(d, i) < m
<1>1. PICK m \in 0 .. N : /\ dma = IF m = N THEN d ELSE At(d, m)
                          /\ m + Queued <= N /\ \A i \in unseen : Offset(d, i) < m
  BY DEF Behind
<1>2. m \in 0 .. N - 1 /\ dma = At(d, m) /\ m + 1 \in 0 .. N
  BY <1>1, CleanTypes
<1>3. dma2 = IF m + 1 = N THEN d ELSE At(d, m + 1)
  BY <1>2, NextDescAt, CleanTypes
<1>4. Offset(d, dma) = m
  BY <1>2, AtType
<1>5. \A i \in seen2 : Offset(d, i) < m + 1
  <2> SUFFICES ASSUME NEW i \in seen2 PROVE Offset(d, i) < m + 1
    OBVIOUS
  <2>1. CASE i = dma
    BY <1>2, <1>4, <2>1
  <2>2. CASE i \in unseen
    <3>1. Offset(d, i) < m /\ Offset(d, i) \in 0 .. N - 1
      BY <1>1, <2>2, CleanTypes, OffsetType
    <3> QED BY <1>2, <3>1
  <2> QED BY <2>1, <2>2
<1>6. m + 1 + (Queued - 1) <= N
  BY <1>1, CleanTypes
<1> QED BY <1>2, <1>3, <1>5, <1>6

\* Passing a descriptor that has been sent.
LEMMA BehindPass ==
  ASSUME IndInv, NEW d \in Desc, Behind(d), d # dma \/ unseen # {}
  PROVE  \E m \in 0 .. N - 1 :
           /\ dma = At(NextDesc(d), m)
           /\ m + Queued <= N - 1
           /\ \A i \in unseen \ {d} : Offset(NextDesc(d), i) < m
<1>1. PICK m \in 0 .. N : /\ dma = IF m = N THEN d ELSE At(d, m)
                          /\ m + Queued <= N /\ \A i \in unseen : Offset(d, i) < m
  BY DEF Behind
<1>2. m > 0
  <2>1. CASE m = 0
    <3>1. dma = d
      BY <1>1, <2>1, AtZero, CleanTypes
    <3>2. unseen = {}
      <4>1. ASSUME NEW i \in unseen PROVE FALSE
        <5>1. Offset(d, i) < 0 /\ Offset(d, i) \in 0 .. N - 1
          BY <1>1, <2>1, OffsetType, CleanTypes
        <5> QED BY <5>1
      <4> QED BY <4>1
    <3> QED BY <3>1, <3>2
  <2> QED BY <2>1, <1>1
<1>3. m - 1 \in 0 .. N - 1 /\ m - 1 + Queued <= N - 1
  BY <1>1, <1>2, CleanTypes
<1>4. dma = At(NextDesc(d), m - 1)
  <2>1. CASE m = N
    BY <1>1, <2>1, AtZero
  <2>2. CASE m # N
    BY <1>1, <1>2, <2>2, AtNext, CleanTypes
  <2> QED BY <2>1, <2>2
<1>5. \A i \in unseen \ {d} : Offset(NextDesc(d), i) < m - 1
  <2> SUFFICES ASSUME NEW i \in unseen \ {d} PROVE Offset(NextDesc(d), i) < m - 1
    OBVIOUS
  <2>1. Offset(NextDesc(d), i) = Offset(d, i) - 1 /\ Offset(d, i) < m /\ Offset(d, i) \in 0 .. N - 1
    BY <1>1, CleanTypes, OffsetNext, OffsetType
  <2> QED BY <1>1, <2>1
<1> QED BY <1>3, <1>4, <1>5

\* main sends only when EMAC_SendPktDone has caught up.
LEMMA SenderClean ==
  ASSUME Contexts = {"main"}, IndInv, IndInv', TxCleanInv,
         \/ Start("main") \/ Check("main") \/ Fill("main") \/ SetOwn("main")
         \/ SetNext("main") \/ Trigger("main")
  PROVE  TxCleanInv'
<1>1. cpu = "main" /\ ~pend /\ cpu' = "main" /\ tpc = "idle"
  BY ZenonT(30) DEF Start, Check, Fill, SetOwn, SetNext, Trigger, Runs, TxCleanInv
<1>2. UNCHANGED <<dma, intsts, pend, wire, complete, unseen, busErrs, doneVars>>
  BY DEF Start, Check, Fill, SetOwn, SetNext, Trigger, ringVars
<1>3. ASSUME Clean' PROVE CleanUpInv'
  <2>1. CaughtUp(cur)
    BY <1>1, <1>2, <1>3 DEF Clean, TxCleanInv, CleanUpInv
  <2>2. CaughtUp(cur)' /\ tpc' = "idle" /\ unseen' = {}
    BY <1>1, <1>2, <2>1 DEF CaughtUp, doneVars
  <2>3. Behind(cur)'
    <3>1. dma' \in Desc /\ cur' \in Desc /\ N \in Nat \ {0} /\ Queued' \in 0 .. N /\ dma' = cur'
      BY <2>2, RingAssumption DEF RingAssumption, IndInv, TypeOK, RingInv, CaughtUp
    <3>2. dma' = IF 0 = N THEN cur' ELSE At(cur', 0)
      BY <3>1, AtZero
    <3>3. 0 \in 0 .. N /\ 0 + Queued' <= N
      <4>1. \A q \in 0 .. N : 0 \in 0 .. N /\ 0 + q <= N
        BY <3>1
      <4> QED BY <3>1, <4>1, Zenon
    <3>4. \A i \in unseen' : Offset(cur', i) < 0
      BY <2>2
    <3> QED BY <3>2, <3>3, <3>4, ZenonT(30) DEF Behind
  <2> QED BY <2>2, <2>3 DEF CleanUpInv
<1> QED BY <1>1, <1>2, <1>3, Zenon DEF TxCleanInv, doneVars

\* The DMA closes a descriptor, which EMAC_SendPktDone has yet to restore.
LEMMA DmaSendClean ==
  ASSUME Contexts = {"main"}, IndInv, TxCleanInv, NEW ok \in BOOLEAN, DmaSend(ok), UNCHANGED <<sendVars, doneVars, cpu>>
  PROVE  TxCleanInv'
<1>1. Len(wire') = Len(wire) + 1 /\ complete \in Nat /\ Len(wire) \in Nat
  BY DEF IndInv, TypeOK, DmaSend
<1>2. CASE ~ok
  <2>1. complete' = complete /\ intsts' = intsts /\ pend' = pend /\ busErrs' = busErrs
    BY <1>2 DEF DmaSend
  <2>2. complete' <= Len(wire') /\ ~Clean'
    BY <1>1, <2>1 DEF TxCleanInv, Clean
  <2> QED BY <2>1, <2>2, ZenonT(30) DEF TxCleanInv, doneVars
<1>3. CASE ok
  <2>1. /\ complete' = complete + 1 /\ unseen' = unseen \union {dma} /\ busErrs' = busErrs
        /\ intsts' = intsts \union {"TXCP"} /\ pend' = (pend \/ intsts = {})
        /\ dma' = NextDesc(dma) /\ own[dma] = "EMAC"
    BY <1>3 DEF DmaSend, Raise
  <2>2. /\ complete' <= Len(wire') /\ (busErrs' = 0 => "TXBE" \notin intsts' \union reg')
        /\ (tpc' = "idle" /\ intsts' # {} => pend')
        /\ intsts' # {} /\ (tpc' = "idle" => pend') /\ (tpc' # "idle" <=> cpu' = "tx")
    <3>1. complete' <= Len(wire')
      BY <1>1, <2>1 DEF TxCleanInv
    <3>2. UNCHANGED <<tpc, reg, cpu>>
      BY DEF doneVars
    <3>3. intsts' # {} /\ (busErrs' = 0 => "TXBE" \notin intsts' \union reg')
      BY <2>1, <3>2 DEF TxCleanInv
    <3>4. tpc' = "idle" => pend'
      BY <2>1, <3>2, Zenon DEF TxCleanInv
    <3> QED BY <3>1, <3>2, <3>3, <3>4 DEF TxCleanInv
  <2>3. ASSUME Clean' PROVE CleanUpInv'
    <3>1. CleanUpInv
      BY <1>1, <2>1, <2>3 DEF Clean, TxCleanInv
    <3>2. Queued > 0 /\ Queued' = Queued - 1
      <4>1. Queued > 0
        BY <2>1, CleanTypes, Zenon DEF IndInv, RingInv
      <4>2. Held' = Held /\ Held \in {0, 1} /\ accepted' = accepted /\ accepted \in Nat
        BY DEF Held, sendVars, IndInv, TypeOK
      <4> QED BY <1>1, <4>1, <4>2 DEF Queued
    <3>3. ASSUME NEW d \in Desc, Behind(d)
          PROVE  \E m \in 0 .. N : /\ dma' = IF m = N THEN d ELSE At(d, m)
                                   /\ m + Queued' <= N
                                   /\ \A i \in unseen' : Offset(d, i) < m
      BY <2>1, <3>2, <3>3, BehindSend, Zenon
    <3>4. tpc' # "loop" => Behind(cur)'
      BY <3>1, <3>3, CleanTypes, ZenonT(30) DEF CleanUpInv, Behind, doneVars
    <3>5. tpc' = "loop" => Behind(scan)'
      BY <3>1, <3>2, <3>3, CleanTypes DEF CleanUpInv, Behind, doneVars
    <3>6. \A c \in Contexts : spc'[c] = "fill" => desc'[c] \notin unseen'
      <4>1. \A c \in Contexts : spc[c] = "fill" => desc[c] # dma /\ desc[c] \notin unseen
        BY <2>1, <3>1 DEF CleanUpInv, IndInv, SenderInv
      <4> QED BY <2>1, <4>1, Zenon DEF sendVars
    <3> QED BY <2>2, <3>4, <3>5, <3>6 DEF CleanUpInv
  <2> QED BY <2>2, <2>3, Zenon DEF TxCleanInv
<1> QED BY <1>2, <1>3

\* The handler, before and after its loop.
LEMMA AroundLoopClean ==
  ASSUME IndInv, TxCleanInv, EnterTx \/ TxReadStatus \/ TxClearStatus \/ ReadLast \/ LeaveTx
  PROVE  TxCleanInv'
<1>1. UNCHANGED <<dma, wire, complete, unseen, busErrs, cur, sendVars>>
  BY DEF EnterTx, TxReadStatus, TxClearStatus, ReadLast, LeaveTx, ringVars
<1>2. Queued' = Queued /\ (Clean' => Clean)
  BY <1>1 DEF Queued, Held, sendVars, Clean
<1>3. Behind(cur) => Behind(cur)'
  BY <1>1, <1>2 DEF Behind
<1>4. (\A c \in Contexts : spc[c] = "fill" => desc[c] \notin unseen)
        => \A c \in Contexts : spc'[c] = "fill" => desc'[c] \notin unseen'
  BY <1>1 DEF sendVars
<1>5. CASE EnterTx
  <2>1. tpc = "idle" /\ tpc' = "read" /\ cpu' = "tx" /\ UNCHANGED <<intsts, reg>>
    BY <1>5, ZenonT(30) DEF EnterTx, TxCleanInv
  <2>2. Clean' => CleanUpInv'
    BY <1>2, <1>3, <1>4, <2>1 DEF TxCleanInv, CleanUpInv
  <2> QED BY <1>1, <2>1, <2>2 DEF TxCleanInv
<1>6. CASE TxReadStatus
  <2>1. tpc = "read" /\ tpc' = "clear" /\ UNCHANGED <<intsts, pend, cpu>> /\ reg' = intsts /\ cpu = "tx"
    BY <1>6, ZenonT(30) DEF TxReadStatus, Done, ringVars
  <2>2. Clean' => CleanUpInv'
    BY <1>2, <1>3, <1>4, <2>1 DEF TxCleanInv, CleanUpInv
  <2> QED BY <1>1, <2>1, <2>2 DEF TxCleanInv
<1>7. CASE TxClearStatus
  <2>1. /\ tpc = "clear" /\ tpc' = IF "TXBE" \in reg THEN "return" ELSE "last"
        /\ intsts' = intsts \ reg /\ UNCHANGED <<reg, pend, cpu>> /\ cpu = "tx"
    BY <1>7 DEF TxClearStatus, Done
  <2>2. Clean' => tpc' = "last"
    BY <1>2, <2>1, ZenonT(30) DEF TxCleanInv, Clean
  <2>3. Clean' => CleanUpInv'
    BY <1>2, <1>3, <1>4, <2>1, <2>2 DEF TxCleanInv, CleanUpInv
  <2>4. tpc' # "idle"
    BY <2>1
  <2> QED BY <1>1, <2>1, <2>3, <2>4 DEF TxCleanInv
<1>8. CASE ReadLast
  <2>1. /\ tpc = "last" /\ tpc' = "loop" /\ last' = dma /\ scan' = cur
        /\ UNCHANGED <<intsts, reg, pend, cpu>> /\ cpu = "tx"
    BY <1>8 DEF ReadLast, Done, ringVars
  <2>2. Behind(cur) => Behind(scan)'
    BY <1>1, <1>2, <2>1, ZenonT(30) DEF Behind
  <2>3. Clean' => CleanUpInv'
    BY <1>1, <1>2, <1>4, <2>1, <2>2 DEF TxCleanInv, CleanUpInv
  <2> QED BY <1>1, <2>1, <2>3 DEF TxCleanInv
<1>9. CASE LeaveTx
  <2>1. /\ tpc = "return" /\ tpc' = "idle" /\ pend' = (pend \/ intsts # {})
        /\ UNCHANGED <<intsts, reg>> /\ cpu = "tx" /\ cpu' = "main"
    BY <1>9 DEF LeaveTx, Done
  <2>2. ASSUME Clean, ~pend' PROVE CaughtUp(cur)'
    BY <1>1, <2>1, <2>2, Zenon DEF TxCleanInv, CleanUpInv, CaughtUp
  <2>3. Clean' => CleanUpInv'
    BY <1>2, <1>3, <1>4, <2>1, <2>2, Zenon DEF TxCleanInv, CleanUpInv
  <2> QED BY <1>1, <2>1, <2>3, Zenon DEF TxCleanInv
<1> QED BY <1>5, <1>6, <1>7, <1>8, <1>9, ZenonT(30)

\* The loop: it breaks at CTXDSA or ends at the CTXDSA that it has read, and
\* passes every descriptor up to there.
LEMMA LoopClean ==
  ASSUME IndInv, TxCleanInv, ScanBreak \/ ScanStep
  PROVE  TxCleanInv'
<1>1. /\ UNCHANGED <<dma, wire, complete, busErrs, own, intsts, pend, reg, last, cpu, sendVars>>
      /\ tpc = "loop" /\ tpc' \in {"loop", "return"} /\ cpu = "tx"
  BY ZenonT(30) DEF ScanBreak, ScanStep, Done, ringVars
<1>2. Queued' = Queued /\ (Clean' => Clean) /\ unseen' \subseteq unseen
  BY <1>1, Zenon DEF Queued, Held, sendVars, Clean, ScanBreak, ScanStep, ringVars
<1>3. ASSUME Clean PROVE CleanUpInv'
  <2>1. /\ Behind(scan) \/ (unseen = {} /\ Queued = 0)
        /\ intsts = {} => last = dma
        /\ \A c \in Contexts : spc[c] = "fill" => desc[c] \notin unseen
    BY <1>1, <1>3, ZenonT(30) DEF TxCleanInv, CleanUpInv
  <2>2. \A c \in Contexts : spc'[c] = "fill" => desc'[c] \notin unseen'
    BY <1>1, <1>2, <2>1, Zenon DEF sendVars
  <2>3. CASE ScanBreak
    <3>1. own[scan] = "EMAC" /\ cur' = scan /\ unseen' = unseen /\ tpc' = "return"
      BY <2>3 DEF ScanBreak, Done, ringVars
    <3>2. Offset(dma, scan) < Queued /\ Queued # 0
      <4>1. Offset(dma, scan) \in 0 .. N - 1
        BY CleanTypes, OffsetType, ZenonT(30)
      <4>2. Offset(dma, scan) < Queued
        BY <3>1, CleanTypes DEF IndInv, RingInv
      <4> QED BY <4>1, <4>2, CleanTypes
    <3>3. CASE scan # dma \/ unseen # {}
      <4>1. PICK m \in 0 .. N - 1 : /\ dma = At(NextDesc(scan), m) /\ m + Queued <= N - 1
        BY <2>1, <3>2, <3>3, CleanTypes, BehindPass, Zenon
      <4>2. Offset(dma, scan) = N - 1 - m
        <5>1. NextDesc(scan) \in Desc /\ scan \in Desc
          BY CleanTypes, NextDescType
        <5>2. scan = At(NextDesc(scan), N - 1)
          BY <5>1, AtZero, Zenon
        <5> QED BY <4>1, <5>1, <5>2, CleanTypes, OffsetBetween
      <4> QED BY <3>2, <4>1, <4>2, CleanTypes, SMTT(30)
    <3>4. CASE CaughtUp(scan)
      <4>1. CaughtUp(cur)'
        BY <1>1, <3>1, <3>4 DEF CaughtUp
      <4>2. Behind(scan)
        BY <3>4, CleanTypes, BehindEmpty
      <4>3. Behind(cur)'
        BY <1>1, <1>2, <3>1, <4>2 DEF Behind
      <4> QED BY <2>2, <3>1, <4>1, <4>3 DEF CleanUpInv
    <3> QED BY <3>3, <3>4 DEF CaughtUp
  <2>4. CASE ScanStep
    <3> DEFINE d == NextDesc(scan)
    <3>1. /\ own[scan] = "CPU" /\ unseen' = unseen \ {scan} /\ scan' = d
          /\ tpc' = (IF d = last THEN "return" ELSE "loop")
          /\ cur' = (IF d = last THEN d ELSE cur)
      BY <2>4, Zenon DEF ScanStep, Done, ScanNext, ScanOver
    <3>2. d \in Desc
      BY CleanTypes, NextDescType
    <3>3. CASE Behind(scan) /\ ~CaughtUp(scan)
      <4>1. PICK m \in 0 .. N - 1 : /\ dma = At(d, m) /\ m + Queued <= N - 1
                                    /\ \A i \in unseen \ {scan} : Offset(d, i) < m
        BY <3>3, CleanTypes, BehindPass DEF CaughtUp
      <4>2. Behind(scan)'
        <5>1. m \in 0 .. N /\ m # N /\ m + Queued <= N
          BY <4>1, CleanTypes
        <5> QED BY <1>1, <1>2, <3>1, <4>1, <5>1, Zenon DEF Behind
      <4>3. d = last => Behind(cur)'
        BY <3>1, <4>2 DEF Behind
      <4>4. ASSUME d = last, intsts = {} PROVE CaughtUp(cur)'
        <5>1. d = dma
          BY <2>1, <4>4
        <5>2. m = 0
          BY <3>2, <4>1, <5>1, OffsetAt, OffsetSelf
        <5>3. ASSUME NEW i \in unseen' PROVE FALSE
          <6>1. Offset(d, i) < 0 /\ Offset(d, i) \in 0 .. N - 1
            BY <3>1, <3>2, <4>1, <5>2, <5>3, CleanTypes, OffsetType
          <6> QED BY <6>1, SMTT(30)
        <5> QED BY <1>1, <3>1, <4>4, <5>1, <5>3 DEF CaughtUp
      <4>5. tpc' = "loop" => d # last
        BY <3>1
      <4>6. tpc' = "return" => d = last
        BY <3>1, ZenonT(30)
      <4> QED BY <1>1, <2>1, <2>2, <4>2, <4>3, <4>4, <4>5, <4>6, Zenon DEF CleanUpInv
    <3>4. CASE CaughtUp(scan) \/ (unseen = {} /\ Queued = 0)
      <4>1. unseen' = {} /\ Queued = 0
        <5>1. CASE CaughtUp(scan)
          <6>1. Offset(dma, dma) < Queued => own[dma] = "EMAC"
            BY CleanTypes DEF IndInv, RingInv
          <6> QED BY <3>1, <5>1, <6>1, CleanTypes, SMTT(30) DEF CaughtUp
        <5> QED BY <3>1, <3>4, <5>1
      <4>2. ASSUME d = last PROVE Behind(cur)'
        <5>1. Offset(d, dma) \in 0 .. N - 1 /\ dma = At(d, Offset(d, dma))
          BY <3>2, CleanTypes, OffsetType, OffsetAt, Zenon
        <5>2. Offset(d, dma) \in 0 .. N /\ Offset(d, dma) # N /\ Offset(d, dma) + Queued <= N
          BY <4>1, <5>1, CleanTypes
        <5>3. cur' = d /\ dma' = dma
          BY <1>1, <3>1, <4>2, ZenonT(30)
        <5> HIDE DEF d
        <5> QED BY <1>2, <4>1, <5>1, <5>2, <5>3 DEF Behind
      <4>3. ASSUME d = last, intsts = {} PROVE CaughtUp(cur)'
        BY <1>1, <2>1, <3>1, <4>1, <4>3 DEF CaughtUp
      <4>4. tpc' = "loop" => d # last
        BY <3>1
      <4>5. tpc' = "return" => d = last
        BY <3>1
      <4> QED BY <1>1, <1>2, <2>1, <2>2, <4>1, <4>2, <4>3, <4>4, <4>5 DEF CleanUpInv
    <3> QED BY <2>1, <3>3, <3>4, Zenon
  <2> QED BY <2>3, <2>4, Zenon
<1>4. tpc' # "idle"
  BY <1>1
<1> QED BY <1>1, <1>2, <1>3, <1>4, Zenon DEF TxCleanInv

\* Nothing that is still to be cleaned up is overwritten: EMAC_SendPktDone passes a
\* descriptor before main uses it again, however far the DMA gets while the handler
\* runs, if no frame is given up and no bus error reported.
THEOREM TxCleanedBeforeReuse ==
  ASSUME Contexts = {"main"}
  PROVE  Spec => []CleanedBeforeReuse
<1>1. Init => TxCleanInv
  <2> SUFFICES ASSUME Init PROVE TxCleanInv
    OBVIOUS
  <2>1. IndInv
    BY InitIndInv
  <2>2. /\ CaughtUp(cur) /\ tpc = "idle" /\ cpu = "main" /\ intsts = {} /\ reg = {}
        /\ complete = 0 /\ Len(wire) = 0 /\ \A c \in Contexts : spc[c] # "fill"
    BY DEF Init, EMAC_TxDescInit, CaughtUp
  <2>3. Behind(cur)
    BY <2>1, <2>2, BehindEmpty, CleanTypes
  <2> QED BY <2>2, <2>3 DEF TxCleanInv, CleanUpInv
<1>2. ASSUME IndInv, IndInv', TxCleanInv, [Next]_vars
      PROVE  TxCleanInv'
  <2>1. CASE Sending \/ \E c \in Contexts : Start(c)
    BY <1>2, <2>1, SenderClean DEF Sending
  <2>2. CASE EMAC_TX_IRQHandler
    BY <1>2, <2>2, AroundLoopClean, LoopClean DEF EMAC_TX_IRQHandler
  <2>3. CASE DmaNothing /\ UNCHANGED <<sendVars, doneVars, cpu>>
    <3>1. UNCHANGED <<dma, wire, complete, unseen, busErrs, intsts, pend, sendVars, doneVars, cpu>>
      BY <2>3 DEF DmaNothing
    <3>2. UNCHANGED <<Queued, Clean>>
      BY <3>1, ZenonT(30) DEF Queued, Held, sendVars, Clean
    <3>3. CleanUpInv => CleanUpInv'
      BY <3>1, <3>2 DEF CleanUpInv, Behind, CaughtUp, sendVars, doneVars
    <3> QED BY <1>2, <3>1, <3>2, <3>3 DEF TxCleanInv, doneVars
  <2>4. CASE \E ok \in BOOLEAN : DmaSend(ok) /\ UNCHANGED <<sendVars, doneVars, cpu>>
    BY <1>2, <2>4, DmaSendClean
  <2>5. CASE BusError
    <3>1. /\ busErrs' = busErrs + 1 /\ busErrs \in Nat /\ intsts' = intsts \union {"TXBE"}
          /\ pend' = (pend \/ intsts = {}) /\ UNCHANGED <<wire, complete, tpc, reg, cpu>>
      BY <1>2, <2>5, CleanTypes DEF BusError, DmaBusError, Raise, doneVars
    <3>2. ~Clean' /\ busErrs' # 0
      BY <3>1, SMTT(30) DEF Clean
    <3> QED BY <1>2, <3>1, <3>2, Zenon DEF TxCleanInv
  <2>6. CASE UNCHANGED vars
    <3>1. UNCHANGED <<Queued, Clean>>
      BY <2>6, ZenonT(30) DEF vars, Queued, Held, Clean
    <3>2. CleanUpInv => CleanUpInv'
      BY <2>6, <3>1 DEF vars, CleanUpInv, Behind, CaughtUp
    <3> QED BY <1>2, <2>6, <3>1, <3>2 DEF TxCleanInv, vars
  <2> QED BY <1>2, <2>1, <2>2, <2>3, <2>4, <2>5, <2>6, Zenon DEF Next, Dma
<1>3. TxCleanInv => CleanedBeforeReuse
  BY DEF TxCleanInv, Clean, CleanUpInv, CleanedBeforeReuse
<1>4. Spec => []IndInv
  BY TxInvariant
<1> QED BY <1>1, <1>2, <1>3, <1>4, PTL DEF Spec

-----------------------------------------------------------------------------
(* The safety side of the liveness properties, which are out of the prover's reach. *)

\* No trigger is lost: the DMA never halts with a frame in the ring unless the
\* sender has its EMAC_TRIGGER_TX still ahead of it.
NoFrameStranded ==
  Queued > 0 => ~halted \/ \E c \in Contexts : spc[c] \in {"next", "trigger"}

\* The DMA's own descriptor is never forgotten by a halted DMA.
Awake ==
  own[dma] = "EMAC" => ~halted \/ \E c \in Contexts : spc[c] \in {"next", "trigger"}

\* With one sender no accepted frame is left behind by a halted DMA, whenever the
\* DMA finds the ring empty while low_level_output runs.
THEOREM TxNoFrameStranded ==
  ASSUME NEW CONSTANT s, Contexts = {s}
  PROVE  Spec => []NoFrameStranded
<1>1. Init => Awake
  BY DEF Init, Awake
<1>2. ASSUME IndInv, Awake, [Next]_vars PROVE Awake'
  <2>0. spc \in [Contexts -> {"idle", "check", "fill", "own", "next", "trigger"}]
    BY <1>2 DEF IndInv, TypeOK
  <2>1. CASE Start(s) \/ Check(s) \/ Fill(s)
    <3>1. spc[s] \notin {"next", "trigger"} /\ UNCHANGED <<own, dma, halted>>
      BY <2>1 DEF Start, Check, Fill, ringVars
    <3> QED BY <1>2, <3>1, ZenonT(30) DEF Awake
  <2>2. CASE SetOwn(s) \/ SetNext(s)
    <3>1. spc' = [spc EXCEPT ![s] = "next"] \/ spc' = [spc EXCEPT ![s] = "trigger"]
      BY <2>2 DEF SetOwn, SetNext
    <3> QED BY <2>0, <3>1, Zenon DEF Awake
  <2>3. CASE Trigger(s)
    BY <2>3 DEF Trigger, EMAC_TRIGGER_TX, Awake
  <2>4. CASE EMAC_TX_IRQHandler \/ BusError \/ UNCHANGED vars
    <3>1. UNCHANGED <<own, dma, halted, spc>>
      BY <2>4, Zenon DEF EMAC_TX_IRQHandler, EnterTx, TxReadStatus, TxClearStatus, ReadLast,
         ScanBreak, ScanStep, LeaveTx, BusError, DmaBusError, vars, ringVars, sendVars
    <3> QED BY <1>2, <3>1 DEF Awake
  <2>5. CASE Dma
    <3>1. ~halted' \/ own'[dma'] = "CPU"
      BY <2>5, Zenon DEF Dma, DmaSend, DmaNothing
    <3> QED BY <3>1, Zenon DEF Awake
  <2> QED BY <1>2, <2>1, <2>2, <2>3, <2>4, <2>5, Zenon DEF Next, Sending
<1>3. IndInv /\ Awake => NoFrameStranded
  <2> SUFFICES ASSUME IndInv, Awake, Queued > 0 PROVE own[dma] = "EMAC"
    BY Zenon DEF Awake, NoFrameStranded
  <2>1. dma \in Desc /\ Offset(dma, dma) = 0
    BY OffsetSelf DEF IndInv, TypeOK
  <2> QED BY <2>1 DEF IndInv, RingInv
<1> QED BY <1>1, <1>2, <1>3, TxInvariant, PTL DEF Spec

\* What was copied is the first pbuf of a frame: in the buffers the EMAC owns, in
\* the one about to be given to it, and in what has been sent.
FirstPbufs ==
  /\ Len(air) = Len(wire)
  /\ \A k \in DOMAIN wire : air[k] = 1 \/ (TxAborts /\ air[k] = 0)
  /\ \A i \in Desc : own[i] = "EMAC" => size[i] = 1
  /\ \A c \in Contexts : spc[c] = "own" => size[desc[c]] = 1

\* What becomes of every frame that has left the ring.
EveryFate == \A k \in DOMAIN wire : Fate(k)

\* A step that neither fills nor sends, nor brings a sender to the owner bit.
LEMMA FirstPbufsFrame ==
  ASSUME FirstPbufs, UNCHANGED <<air, wire, size, own, desc>>,
         \A c \in Contexts : spc'[c] = "own" => spc[c] = "own"
  PROVE  FirstPbufs'
BY Zenon DEF FirstPbufs

\* A frame in one pbuf is sent whole or given up by the MAC; a chain is given up
\* or cut off behind its first pbuf, never sent whole.
THEOREM TxEveryFate ==
  ASSUME NEW CONSTANT s, Contexts = {s}
  PROVE  Spec => []EveryFate
<1>1. Init => FirstPbufs
  BY DEF Init, EMAC_TxDescInit, FirstPbufs
<1>2. ASSUME IndInv, FirstPbufs, [Next]_vars PROVE FirstPbufs'
  <2>0. /\ spc \in [Contexts -> {"idle", "check", "fill", "own", "next", "trigger"}]
        /\ desc[s] \in Desc /\ dma \in Desc /\ size \in [Desc -> Sizes]
        /\ own \in [Desc -> {"EMAC", "CPU"}]
        /\ wire \in Seq(0 .. MaxTries) /\ air \in Seq(Sizes)
    BY <1>2 DEF IndInv, TypeOK
  <2>1. CASE Start(s)
    <3>1. /\ UNCHANGED <<air, wire, size, own>> /\ spc' = [spc EXCEPT ![s] = "check"]
      BY <2>1 DEF Start, ringVars
    <3>2. \A c \in Contexts : spc'[c] # "own"
      BY <2>0, <3>1
    <3> QED BY <1>2, <3>1, <3>2, Zenon DEF FirstPbufs
  <2>2. CASE Check(s) \/ SetNext(s) \/ Trigger(s)
    <3>1. /\ UNCHANGED <<air, wire, size, own, desc>>
          /\ \E to \in {"fill", "idle", "trigger"} : spc' = [spc EXCEPT ![s] = to]
      BY <2>2, Zenon DEF Check, SetNext, Trigger, ringVars
    <3>2. \A c \in Contexts : spc'[c] # "own"
      BY <2>0, <3>1
    <3> QED BY <1>2, <3>1, <3>2, Zenon DEF FirstPbufs
  <2>3. CASE Fill(s)
    <3>1. UNCHANGED <<air, wire, own, desc>> /\ size' = [size EXCEPT ![desc[s]] = 1]
      BY <2>3 DEF Fill, Copied
    <3>2. size'[desc[s]] = 1 /\ \A i \in Desc : size[i] = 1 => size'[i] = 1
      BY <2>0, <3>1
    <3> QED BY <1>2, <3>1, <3>2, Zenon DEF FirstPbufs
  <2>4. CASE SetOwn(s)
    <3>1. /\ UNCHANGED <<air, wire, size, desc>> /\ spc[s] = "own"
          /\ own' = [own EXCEPT ![desc[s]] = "EMAC"] /\ spc' = [spc EXCEPT ![s] = "next"]
      BY <2>4 DEF SetOwn
    <3>2. /\ \A i \in Desc : own'[i] = "EMAC" => own[i] = "EMAC" \/ i = desc[s]
          /\ \A c \in Contexts : spc'[c] # "own"
      BY <2>0, <3>1
    <3> QED BY <1>2, <3>1, <3>2, Zenon DEF FirstPbufs
  <2>5. CASE EMAC_TX_IRQHandler \/ BusError \/ UNCHANGED vars
    <3>1. UNCHANGED <<air, wire, size, own, desc, spc>>
      BY <2>5, Zenon DEF EMAC_TX_IRQHandler, EnterTx, TxReadStatus, TxClearStatus, ReadLast,
         ScanBreak, ScanStep, LeaveTx, BusError, DmaBusError, vars, ringVars, sendVars
    <3> QED BY <1>2, <3>1, FirstPbufsFrame, Zenon
  <2>6. CASE Dma
    <3>1. CASE DmaNothing
      BY <1>2, <2>6, <3>1, FirstPbufsFrame, Zenon DEF Dma, DmaNothing, sendVars
    <3>2. CASE \E ok \in BOOLEAN : DmaSend(ok) /\ (~ok => TxAborts)
      <4>1. PICK ok \in BOOLEAN : DmaSend(ok) /\ (~ok => TxAborts)
        BY <3>2
      <4> DEFINE a == IF ok THEN size[dma] ELSE 0
      <4>2. /\ own[dma] = "EMAC" /\ own' = [own EXCEPT ![dma] = "CPU"]
            /\ wire' = Append(wire, buf[dma]) /\ air' = Append(air, a)
            /\ UNCHANGED <<size, desc, spc>>
        BY <4>1, <2>6, Zenon DEF DmaSend, Dma, sendVars
      <4>3. a = 1 \/ (TxAborts /\ a = 0)
        BY <1>2, <2>0, <4>1, <4>2 DEF FirstPbufs
      <4> HIDE DEF a
      <4>4. Len(air') = Len(wire') /\ DOMAIN wire' = 1 .. Len(wire) + 1 /\ Len(wire) \in Nat
        BY <1>2, <2>0, <4>2 DEF FirstPbufs
      <4>5. air'[Len(wire) + 1] = a /\ \A k \in DOMAIN wire : air'[k] = air[k]
        BY <1>2, <2>0, <4>2 DEF FirstPbufs
      <4>6. ASSUME NEW k \in DOMAIN wire' PROVE air'[k] = 1 \/ (TxAborts /\ air'[k] = 0)
        <5>1. k \in DOMAIN wire \/ k = Len(wire) + 1
          BY <2>0, <4>4
        <5> QED BY <1>2, <4>3, <4>5, <5>1 DEF FirstPbufs
      <4>7. \A i \in Desc : own'[i] = "EMAC" => own[i] = "EMAC"
        BY <2>0, <4>2
      <4> QED BY <1>2, <4>2, <4>4, <4>6, <4>7, Zenon DEF FirstPbufs
    <3> QED BY <2>6, <3>1, <3>2, Zenon DEF Dma
  <2> QED BY <1>2, <2>1, <2>2, <2>3, <2>4, <2>5, <2>6, Zenon DEF Next, Sending
<1>3. FirstPbufs => EveryFate
  BY DEF FirstPbufs, EveryFate, Fate, GivenUp, CutOff, SentWhole, Pbufs
<1> QED BY <1>1, <1>2, <1>3, TxInvariant, PTL DEF Spec

\* How many descriptors the loop of EMAC_SendPktDone may still pass.
ScanLeft == IF scan = last THEN N ELSE Offset(scan, last)

\* A step of the loop of EMAC_SendPktDone that does not end it brings it nearer to
\* its end, and no step of anyone else takes it back: it passes at most N descriptors.
ScanAdvances ==
  [][tpc = "loop" /\ tpc' = "loop" =>
       \/ UNCHANGED doneVars
       \/ ScanLeft' \in 1 .. ScanLeft - 1]_vars

\* The loop of EMAC_SendPktDone is bounded by the ring, wherever the DMA moves meanwhile.
THEOREM TxScanAdvances ==
  ASSUME NEW CONSTANT s, Contexts = {s}
  PROVE  Spec => ScanAdvances
<1> DEFINE Nearer == tpc = "loop" /\ tpc' = "loop" =>
                       UNCHANGED doneVars \/ ScanLeft' \in 1 .. ScanLeft - 1
<1>1. ASSUME TypeOK, [Next]_vars PROVE Nearer
  <2>1. CASE ScanStep
    <3> SUFFICES ASSUME tpc' = "loop" PROVE ScanLeft' \in 1 .. ScanLeft - 1
      BY Zenon
    <3>1. scan' = NextDesc(scan) /\ scan' # last /\ last' = last
      BY <2>1, Zenon DEF ScanStep, ScanNext, ScanOver, Done
    <3>2. scan \in Desc /\ last \in Desc
      BY <1>1 DEF TypeOK
    <3> QED BY <3>1, <3>2, RingAssumption
         DEF ScanLeft, Offset, NextDesc, Desc, RingAssumption
  <2>2. CASE EnterTx \/ TxReadStatus \/ TxClearStatus \/ ReadLast \/ ScanBreak \/ LeaveTx
    <3>1. tpc # "loop" \/ tpc' # "loop" \/ UNCHANGED doneVars
      <4>1. CASE EnterTx
        BY <4>1, ZenonT(30) DEF EnterTx
      <4>2. CASE TxReadStatus \/ TxClearStatus \/ ReadLast \/ ScanBreak \/ LeaveTx
        BY <4>2 DEF TxReadStatus, TxClearStatus, ReadLast, ScanBreak, LeaveTx, Done
      <4> QED BY <2>2, <4>1, <4>2
    <3> QED BY <3>1
  <2>3. CASE Sending \/ (\E c \in Contexts : Start(c)) \/ Dma \/ BusError \/ UNCHANGED vars
    BY <2>3, Zenon DEF Sending, Start, Check, Fill, SetOwn, SetNext, Trigger, Dma, BusError,
       vars, doneVars
  <2> QED BY <1>1, <2>1, <2>2, <2>3 DEF Next, EMAC_TX_IRQHandler
<1>2. ASSUME TypeOK, [Next]_vars PROVE [Nearer]_vars
  BY <1>1, <1>2
<1> QED BY <1>2, TxTypes, PTL DEF Spec, ScanAdvances
=============================================================================
