------------------------------- MODULE EmacTx -------------------------------
(***************************************************************************)
(* The transmit side of the EMAC: low_level_output of the lwIP port (step  *)
(* for step EMAC_SendPkt of the driver) in main and in the receive         *)
(* interrupt, EMAC_SendPktDone in the transmit interrupt, and the transmit *)
(* DMA (TXDMA), which is hardware and runs concurrently with all of them.  *)
(*                                                                         *)
(* One CPU: an interrupt handler runs to its end before main continues,    *)
(* and the two handlers have the same priority, so that neither interrupts *)
(* the other.  A frame is the number of its acceptance by the driver; its  *)
(* length is the number of pbufs of its chain.                             *)
(***************************************************************************)
EXTENDS Ring, Sequences

CONSTANTS
  Contexts,      \* the contexts that send: a subset of {"main", "rx"}
  MaxTries,      \* bound: calls of low_level_output in a behaviour
  Chained,       \* the frames that come as a chain of more than one pbuf
  TxAborts,      \* may the MAC give a frame up (no TXCP in its status)?
  MaxBusErrors   \* bound: transmit bus errors (TXBEIF) in a behaviour

ASSUME TxAssumption ==
  /\ Contexts \subseteq {"main", "rx"}
  /\ MaxTries \in Nat
  /\ Chained \subseteq 1 .. MaxTries
  /\ TxAborts \in BOOLEAN
  /\ MaxBusErrors \in Nat

VARIABLES
  own,       \* owner bit of u32Status1 of every descriptor
  buf,       \* the frame in the descriptor's buffer, 0 for none yet
  size,      \* the byte count in u32Status2, in pbufs
  txcp,      \* TXCP bit of u32Status2
  dma,       \* CTXDSA, the descriptor the TXDMA uses now
  halted,    \* the TXDMA is in its Halt state
  intsts,    \* the transmit bits of INTSTS that are set and enabled
  pend,      \* the transmit interrupt is pending in the NVIC
  next,      \* u32NextTxDesc
  cur,       \* u32CurrentTxDesc
  cpu,       \* what the CPU executes: "main", the "rx" or the "tx" handler
  spc,       \* where a context is in low_level_output
  desc,      \* its local variable desc
  frame,     \* the frame it sends
  tpc,       \* where EMAC_SendPktDone is
  reg,       \* its locals reg, last_tx_desc and desc
  last,
  scan,
  counted,   \* sum of all values of u32Count returned
  tries,     \* calls of low_level_output so far
  accepted,  \* number of calls that found a free descriptor
  wire,      \* the frames the MAC has taken out of the ring, in order
  air,       \* how much of each of them was sent: 0 if the MAC gave it up
  complete,  \* how many of them were sent completely (TXCP)
  unseen,    \* descriptors so sent that EMAC_SendPktDone has not passed yet
  busErrs    \* number of bus errors so far

ringVars == <<own, buf, size, txcp, dma, halted, intsts, pend, wire, air,
              complete, unseen, busErrs>>
sendVars == <<next, spc, desc, frame, tries, accepted>>
doneVars == <<cur, tpc, reg, last, scan, counted>>
vars == <<own, buf, size, txcp, dma, halted, intsts, pend, wire, air,
          complete, unseen, busErrs, next, spc, desc, frame, tries, accepted,
          cur, tpc, reg, last, scan, counted, cpu>>

\* The pbufs of a frame: a chain has more than one, here two.
Pbufs(f) == IF f \in Chained THEN 2 ELSE 1
Sizes == 0 .. 2

TxFlags == {"TXCP", "TXBE"}

TypeOK ==
  /\ own \in [Desc -> {"EMAC", "CPU"}]
  /\ buf \in [Desc -> 0 .. MaxTries]
  /\ size \in [Desc -> Sizes]
  /\ txcp \in [Desc -> BOOLEAN]
  /\ dma \in Desc /\ next \in Desc /\ cur \in Desc
  /\ halted \in BOOLEAN /\ pend \in BOOLEAN
  /\ intsts \in SUBSET TxFlags
  /\ cpu \in {"main", "rx", "tx"}
  /\ spc \in [Contexts -> {"idle", "check", "fill", "own", "next", "trigger"}]
  /\ desc \in [Contexts -> Desc]
  /\ frame \in [Contexts -> 0 .. MaxTries]
  /\ tpc \in {"idle", "read", "clear", "last", "loop", "return"}
  /\ reg \in SUBSET TxFlags
  /\ last \in Desc /\ scan \in Desc
  /\ counted \in Nat
  /\ tries \in 0 .. MaxTries /\ accepted \in 0 .. MaxTries
  /\ wire \in Seq(0 .. MaxTries)
  /\ air \in Seq(Sizes)
  /\ complete \in Nat
  /\ unseen \in SUBSET Desc
  /\ busErrs \in 0 .. MaxBusErrors

-----------------------------------------------------------------------------
\* EMAC_Open; mac_layer_init turns TXON on before the stack can send, so that
\* CTXDSA has been loaded from TXDSA.
EMAC_TxDescInit ==
  /\ own = [i \in Desc |-> "CPU"]
  /\ buf = [i \in Desc |-> 0]
  /\ size = [i \in Desc |-> 0]
  /\ txcp = [i \in Desc |-> FALSE]
  /\ next = 0
  /\ cur = 0

Init ==
  /\ EMAC_TxDescInit
  /\ dma = 0 /\ halted = FALSE
  /\ intsts = {} /\ pend = FALSE
  /\ cpu = "main"
  /\ spc = [c \in Contexts |-> "idle"]
  /\ desc = [c \in Contexts |-> 0]
  /\ frame = [c \in Contexts |-> 0]
  /\ tpc = "idle" /\ reg = {} /\ last = 0 /\ scan = 0
  /\ counted = 0 /\ tries = 0 /\ accepted = 0
  /\ wire = <<>> /\ air = <<>> /\ complete = 0 /\ unseen = {} /\ busErrs = 0

-----------------------------------------------------------------------------
(* Hardware. *)

\* Set a bit of INTSTS; the rising edge of the line is latched by the NVIC.
Raise(flag) ==
  /\ intsts' = intsts \union {flag}
  /\ pend' = (pend \/ intsts = {})

\* The DMA takes the frame of its descriptor, writes the transmit status, gives
\* the descriptor to the CPU and moves on.
DmaSend(ok) ==
  /\ ~halted
  /\ own[dma] = "EMAC"
  /\ wire' = Append(wire, buf[dma])
  /\ air' = Append(air, IF ok THEN size[dma] ELSE 0)
  /\ own' = [own EXCEPT ![dma] = "CPU"]
  /\ txcp' = [txcp EXCEPT ![dma] = ok]
  /\ dma' = NextDesc(dma)
  /\ IF ok
       THEN /\ complete' = complete + 1
            /\ unseen' = unseen \union {dma}
            /\ Raise("TXCP")
       ELSE UNCHANGED <<complete, unseen, intsts, pend>>
  /\ UNCHANGED <<buf, size, halted, busErrs>>

\* Nothing to send: the DMA halts.  TDUIEN is off, so no interrupt.
DmaNothing ==
  /\ ~halted
  /\ own[dma] = "CPU"
  /\ halted' = TRUE
  /\ UNCHANGED <<own, buf, size, txcp, dma, intsts, pend, wire, air, complete, unseen, busErrs>>

DmaBusError ==
  /\ busErrs < MaxBusErrors
  /\ busErrs' = busErrs + 1
  /\ Raise("TXBE")
  /\ UNCHANGED <<own, buf, size, txcp, dma, halted, wire, air, complete, unseen>>

Dma ==
  /\ \/ DmaSend(TRUE)
     \/ TxAborts /\ DmaSend(FALSE)
     \/ DmaNothing
  /\ UNCHANGED <<sendVars, doneVars, cpu>>

BusError == DmaBusError /\ UNCHANGED <<sendVars, doneVars, cpu>>

-----------------------------------------------------------------------------
(* main and the contexts that send. *)

\* main runs when no interrupt does; a pending one is taken first.
Runs(c) == cpu = c /\ (c = "main" => ~pend)

\* A call of low_level_output: desc = u32NextTxDesc.  The receive interrupt
\* preempts main anywhere; a handler that sends several frames appears as that
\* many handlers in a row.
Start(c) ==
  /\ cpu = "main" /\ (c = "main" => ~pend)
  /\ cpu' = c
  /\ spc[c] = "idle"
  /\ tries < MaxTries
  /\ tries' = tries + 1
  /\ desc' = [desc EXCEPT ![c] = next]
  /\ spc' = [spc EXCEPT ![c] = "check"]
  /\ UNCHANGED <<next, frame, accepted>>
  /\ UNCHANGED <<ringVars, doneVars>>

\* The test of the owner bit, and the slip of leaving it out.
FreeAlways(d) == TRUE
Free(d) == own[d] = "CPU"

\* A descriptor of the EMAC: ERR_USE, the frame is not accepted.
Check(c) ==
  /\ Runs(c)
  /\ spc[c] = "check"
  /\ IF Free(desc[c])
       THEN /\ spc' = [spc EXCEPT ![c] = "fill"]
            /\ frame' = [frame EXCEPT ![c] = accepted + 1]
            /\ accepted' = accepted + 1
            /\ cpu' = cpu
       ELSE /\ spc' = [spc EXCEPT ![c] = "idle"]
            /\ cpu' = "main"
            /\ UNCHANGED <<frame, accepted>>
  /\ UNCHANGED <<next, desc, tries>>
  /\ UNCHANGED <<ringVars, doneVars>>

\* The frame that memcpy puts into the buffer, and how much of it: p->len is the
\* length of the first pbuf of the chain, whatever comes after it.  (EMAC_SendPkt,
\* which is given one piece of memory, is never called with a chain.)  The slip:
\* the frame sent before.
ContentsStale(c) == frame[c] - 1
Contents(c) == frame[c]
Copied(c) == 1

\* memcpy into the buffer, and u32Status2 = p->len.
Fill(c) ==
  /\ Runs(c)
  /\ spc[c] = "fill"
  /\ buf' = [buf EXCEPT ![desc[c]] = Contents(c)]
  /\ size' = [size EXCEPT ![desc[c]] = Copied(c)]
  /\ txcp' = [txcp EXCEPT ![desc[c]] = FALSE]
  /\ spc' = [spc EXCEPT ![c] = "own"]
  /\ UNCHANGED <<own, dma, halted, intsts, pend, wire, air, complete, unseen, busErrs>>
  /\ UNCHANGED <<next, desc, frame, tries, accepted>>
  /\ UNCHANGED <<doneVars, cpu>>

SetOwn(c) ==
  /\ Runs(c)
  /\ spc[c] = "own"
  /\ own' = [own EXCEPT ![desc[c]] = "EMAC"]
  /\ spc' = [spc EXCEPT ![c] = "next"]
  /\ UNCHANGED <<buf, size, txcp, dma, halted, intsts, pend, wire, air, complete, unseen, busErrs>>
  /\ UNCHANGED <<next, desc, frame, tries, accepted>>
  /\ UNCHANGED <<doneVars, cpu>>

\* The descriptor that follows d; the slip skips one.
FollowingSkips(d) == NextDesc(NextDesc(d))
Following(d) == NextDesc(d)

SetNext(c) ==
  /\ Runs(c)
  /\ spc[c] = "next"
  /\ next' = Following(desc[c])
  /\ spc' = [spc EXCEPT ![c] = "trigger"]
  /\ UNCHANGED <<desc, frame, tries, accepted>>
  /\ UNCHANGED <<ringVars, doneVars, cpu>>

\* EMAC_TRIGGER_TX brings a running DMA out of Halt; the slip leaves it there.
TriggerLost == halted' = halted
EMAC_TRIGGER_TX == halted' = FALSE

\* The last step of low_level_output: ERR_OK.
Trigger(c) ==
  /\ Runs(c)
  /\ spc[c] = "trigger"
  /\ EMAC_TRIGGER_TX
  /\ spc' = [spc EXCEPT ![c] = "idle"]
  /\ cpu' = "main"
  /\ UNCHANGED <<own, buf, size, txcp, dma, intsts, pend, wire, air, complete, unseen, busErrs>>
  /\ UNCHANGED <<next, desc, frame, tries, accepted>>
  /\ UNCHANGED doneVars

Sending ==
  \E c \in Contexts : Check(c) \/ Fill(c) \/ SetOwn(c) \/ SetNext(c) \/ Trigger(c)

-----------------------------------------------------------------------------
(* EMAC_SendPktDone in the transmit interrupt. *)

Done(from, to) == cpu = "tx" /\ tpc = from /\ tpc' = to

EnterTx ==
  /\ cpu = "main"
  /\ pend
  /\ pend' = FALSE
  /\ cpu' = "tx"
  /\ tpc' = "read"
  /\ UNCHANGED <<own, buf, size, txcp, dma, halted, intsts, wire, air, complete, unseen, busErrs>>
  /\ UNCHANGED <<sendVars, cur, reg, last, scan, counted>>

TxReadStatus ==
  /\ Done("read", "clear")
  /\ reg' = intsts
  /\ UNCHANGED <<ringVars, sendVars, cur, last, scan, counted, cpu>>

\* A bus error returns EMAC_BUS_ERR and leaves the descriptors alone.
TxClearStatus ==
  /\ Done("clear", IF "TXBE" \in reg THEN "return" ELSE "last")
  /\ intsts' = intsts \ reg
  /\ UNCHANGED <<own, buf, size, txcp, dma, halted, pend, wire, air, complete, unseen, busErrs>>
  /\ UNCHANGED <<sendVars, cur, reg, last, scan, counted, cpu>>

\* last_tx_desc = CTXDSA, desc = u32CurrentTxDesc.
ReadLast ==
  /\ Done("last", "loop")
  /\ last' = dma
  /\ scan' = cur
  /\ UNCHANGED <<ringVars, sendVars, cur, reg, counted, cpu>>

\* The loop meets a descriptor of the EMAC and breaks.
ScanBreak ==
  /\ Done("loop", "return")
  /\ own[scan] = "EMAC"
  /\ cur' = scan
  /\ UNCHANGED <<ringVars, sendVars, reg, last, scan, counted, cpu>>

\* Where the loop goes after descriptor d and when it is over; the slips: it
\* does not go on, and it ends after one descriptor.
ScanNextStuck(d) == d
ScanNext(d) == NextDesc(d)
ScanOverAtOnce(d) == TRUE
ScanOver(d) == d = last

\* The loop passes a descriptor of the CPU, counts it if its status says TXCP,
\* and ends when it reaches last_tx_desc.
ScanStep ==
  LET d == ScanNext(scan) IN
  /\ Done("loop", IF ScanOver(d) THEN "return" ELSE "loop")
  /\ own[scan] = "CPU"
  /\ counted' = counted + (IF txcp[scan] THEN 1 ELSE 0)
  /\ unseen' = unseen \ {scan}
  /\ scan' = d
  /\ cur' = IF ScanOver(d) THEN d ELSE cur
  /\ UNCHANGED <<own, buf, size, txcp, dma, halted, intsts, pend, wire, air, complete, busErrs>>
  /\ UNCHANGED <<sendVars, reg, last, cpu>>

\* The handler returns; the NVIC samples the interrupt line.
LeaveTx ==
  /\ Done("return", "idle")
  /\ pend' = (pend \/ intsts # {})
  /\ cpu' = "main"
  /\ UNCHANGED <<own, buf, size, txcp, dma, halted, intsts, wire, air, complete, unseen, busErrs>>
  /\ UNCHANGED <<sendVars, cur, reg, last, scan, counted>>

EMAC_TX_IRQHandler ==
  \/ EnterTx
  \/ TxReadStatus
  \/ TxClearStatus
  \/ ReadLast
  \/ ScanBreak
  \/ ScanStep
  \/ LeaveTx

-----------------------------------------------------------------------------
Next ==
  \/ Sending
  \/ \E c \in Contexts : Start(c)
  \/ EMAC_TX_IRQHandler
  \/ Dma
  \/ BusError

Spec == Init /\ [][Next]_vars

\* The CPU keeps executing what it has begun, and a triggered DMA proceeds.  No
\* call of low_level_output is forced to happen.
FairSpec ==
  /\ Spec
  /\ WF_vars(Sending \/ EMAC_TX_IRQHandler)
  /\ WF_vars(Dma)
-----------------------------------------------------------------------------
(* Properties; with one sending context they hold for every ring size. *)

\* Frames leave the ring in the order in which low_level_output accepted them,
\* every one exactly once.
WireInOrder == \A k \in 1 .. Len(wire) : wire[k] = k

\* A buffer is filled only while its descriptor belongs to the CPU: the DMA
\* never reads a buffer that is being written.
FillOwnBufferOnly ==
  [][\A i \in Desc : buf'[i] # buf[i] => own[i] = "CPU"]_vars

\* EMAC_SendPktDone passes a descriptor (and restores its data and next
\* pointers) before main uses the descriptor for another frame, as long as the
\* MAC has given no frame up and reported no bus error: both leave the transmit
\* interrupt without a clean-up.
CleanedBeforeReuse ==
  complete = Len(wire) /\ busErrs = 0 =>
    \A c \in Contexts : spc[c] = "fill" => desc[c] \notin unseen

\* What becomes of the k-th frame to leave the ring: the MAC gives it up, all of
\* it is sent, or a chain is cut off behind its first pbuf.
GivenUp(k) == TxAborts /\ air[k] = 0
SentWhole(k) == air[k] = Pbufs(wire[k])
CutOff(k) == air[k] = 1 /\ Pbufs(wire[k]) > 1
Fate(k) == GivenUp(k) \/ IF wire[k] \in Chained THEN CutOff(k) ELSE SentWhole(k)

\* A frame that low_level_output accepts ("@return ERR_OK if the packet could
\* be sent", ethernetif.c:181) leaves the ring: no trigger is lost, no frame left
\* behind or overwritten.  In one pbuf it is sent whole, unless the MAC gives it
\* up, which nobody is told.  A chain ("This pbuf might be chained", 175) is cut
\* off, although ERR_OK is returned: here the code does not do what it says.
EveryAcceptedSent ==
  \A f \in 1 .. MaxTries :
    accepted >= f ~> \E k \in DOMAIN wire : wire[k] = f /\ Fate(k)

\* EMAC_SendPktDone comes to its end, wherever the DMA moves meanwhile.
DoneTerminates == cpu = "tx" ~> cpu # "tx"

\* The frames in the ring: accepted, the owner bit set, not taken by the DMA.
Held == IF \E c \in Contexts : spc[c] \in {"fill", "own"} THEN 1 ELSE 0
Queued == accepted - Held - Len(wire)

\* The first place behind them; u32NextTxDesc follows it a step later.
FirstFree == IF \E c \in Contexts : spc[c] = "next" THEN NextDesc(next) ELSE next

\* Driver and DMA agree on the ring: the EMAC's descriptors are the Queued ones
\* from CTXDSA on, in order of acceptance, and u32NextTxDesc follows them.
RingInv ==
  /\ Queued \in 0 .. N
  /\ FirstFree = IF Queued = N THEN dma ELSE At(dma, Queued)
  /\ \A i \in Desc :
       IF Offset(dma, i) < Queued
       THEN own[i] = "EMAC" /\ buf[i] = Len(wire) + Offset(dma, i) + 1
       ELSE own[i] = "CPU"

\* From low_level_output to the wire the ring is a queue of N frames.
Queue == INSTANCE FrameQueue WITH Capacity <- N, out <- wire
ImplementsQueue == Queue!Spec

\* What the place of the sender in low_level_output says of its locals.
SenderInv ==
  /\ accepted <= tries
  /\ \A c \in Contexts :
       /\ spc[c] \in {"check", "fill", "own", "next"} => desc[c] = next
       /\ spc[c] = "check" => accepted < tries
       /\ spc[c] \in {"fill", "own"} => own[next] = "CPU" /\ frame[c] = accepted
       /\ spc[c] = "own" => buf[next] = accepted

\* The inductive invariant behind the theorems, for one sending context.
IndInv == TypeOK /\ RingInv /\ WireInOrder /\ SenderInv
=============================================================================
