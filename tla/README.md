# Formal model of the NuM487ETH network path

NuM487ETH is bare-metal firmware for the Nuvoton M487: the EMAC (Ethernet MAC)
driver, a PHY layer, the port of lwIP without an operating system (`NO_SYS`),
and small clients and test programs. This directory holds TLA+ modules
translated from its C sources, TLC configurations for them, and theorems that
TLAPS proves. Paths below are relative to `src/`; `emac.c` is
`Drivers/Library/StdDriver/src/emac.c`, `ethernetif.c` is
`Middleware/lwIP/port/ethernetif.c`, and `timeouts.c`, `mem.c`, `ip4_frag.c` and
`etharp.c` are the files of these names under `Middleware/lwIP/core`.

## 1. The system

One CPU runs `main` and interrupt handlers. No priorities are set, so the
handlers do not interrupt each other, but each of them interrupts `main`
anywhere. The EMAC's two DMA engines run concurrently with all of it and share
two rings of four descriptors with the CPU. Whoever the owner bit of a
descriptor names may use it.

| Part | State | Operations | Talks to |
|---|---|---|---|
| Receive ring, `emac.c` | owner and RXGD bits, buffers, `u32CurrentRxDesc` | `EMAC_RxDescInit`, `EMAC_RecvPkt`, `EMAC_RecvPktDone` | RXDMA, RX interrupt |
| Transmit ring, `emac.c` | owner and TXCP bits, buffers, `u32NextTxDesc`, `u32CurrentTxDesc` | `EMAC_TxDescInit`, `EMAC_SendPkt`, `EMAC_SendPktDone` | TXDMA, TX interrupt |
| RXDMA, TXDMA, INTSTS, NVIC (hardware) | CRXDSA, CTXDSA, Halt, status flags, pending bits | store, send, run dry, bus error; latch an interrupt | driver |
| Time stamps, alarm, `emac.c` | time registers, `s_u32EnableTs`, backup words | `EMAC_RecvPktTS`, `EMAC_SendPktDoneTS`, set, get, update | TX interrupt |
| Zero-copy calls, `emac.c` | transmit ring | `EMAC_SendPktWoCopy`, `EMAC_ClaimFreeTXBuf`, ... | (no caller) |
| CAM, `emac.c` | address table | enable, disable, fill an entry | hardware filter |
| MDIO and PHY, `emac.c`, `Drivers/HAL/ethernet_phy.c` | PHY registers, speed and duplex bits | `EMAC_PhyInit`, `EMAC_CheckLinkStatus`, reset, loopback, link status | PHY over a serial bus |
| lwIP port, `ethernetif.c` | the rings again (it shares the driver's pointers) | `low_level_init`, `low_level_input`, `ethernetif_input`, `low_level_output` | driver, lwIP |
| Time base, `sys_arch.c` | `u32Jiffies` | timer interrupt, `sys_now` | lwIP timers |
| Timers, `timeouts.c` | `next_timeout`, `tcpip_tcp_timer_active`, pool of entries | `sys_check_timeouts`, `sys_timeout`, cyclic timers, `tcp_timer_needed` | `main`, TCP, ARP, reassembly |
| Reassembly, `ip4_frag.c` | `reassdatagrams`, `ip_reass_pbufcount` | `ip4_reass`, `ip_reass_tmr` | IP input, timers |
| ARP, `etharp.c` | `arp_table`, `etharp_cached_entry` | `etharp_input`, `etharp_output`, `etharp_query`, `etharp_tmr` | IP output, receive interrupt, timers |
| Heap, `mem.c` | block headers, `lfree` | `mem_init`, `mem_malloc`, `mem_trim`, `mem_free` | pbufs, DHCP |
| Board program, `Core/main.c` | `recv_flag` | set-up, timer loop, both handlers | port, lwIP |
| TCP and UDP echo clients, `Middleware/*client_raw` | connection state, `p_tx`, `message_count` | connect, connected, recv, send, poll, sent, close | lwIP callbacks |
| Packet processor, `UnitTest/EMAC_TxRx/net.c` | `au8TxBuf`, `s_u32PktRdy`, DHCP exchange | ARP and ICMP answers, `dhcp_start` | driver |
| Frame test, `UnitTest/test_04_ethframe.c` | `recv_flag`, `inframe` | poll, print with receiver off | driver |
| Clock and pin set-up, C library stubs, other vendor drivers, the rest of lwIP | | | not modelled |

What makes it hard to test: the DMA moves between any two instructions of a
handler; an interrupt can be latched while its handler runs; receive and
transmit share status register, ring pointers and pools between `main` and
interrupts; rings fill and run dry; frames are aborted; the bus reports errors.

What correctness means here: CPU and DMA agree on which descriptor is next and
who owns it; frames are neither lost, repeated nor reordered; no buffer is
written while the DMA reads it; a frame or a halted DMA is never left without
an event that revives it; handlers end. In the stack: every timer runs on and on;
memory and packets are handed out once and given back once; a datagram is whole
or not delivered; a packet goes to the host it is meant for; nothing waits for
ever.

## 2. Modules

| Module | Models |
|---|---|
| `Ring` | the descriptor ring closed by `u32Next`, and places on it |
| `FrameQueue` | what a ring promises: a bounded queue of frames (abstract) |
| `EmacRx` | receive ring, RXDMA, INTSTS, NVIC pending bit, `EMAC_RecvPktDone`, receiver on/off |
| `RecvLoop` (extends `EmacRx`) | the handler that calls `EMAC_RecvPkt` until it returns 0 (`UnitTest/EMAC_TxRx`, `test_03`, `test_04`); implements `FrameQueue` |
| `EthFrameTest` (extends `RecvLoop`) | `test_04`: that handler together with `main`, which turns the receiver off and on |
| `EthernetifRx` (extends `EmacRx`) | the lwIP port's handler: `ethernetif_input`, `low_level_input` |
| `EmacTx` | transmit ring, TXDMA, `low_level_output` (the steps of `EMAC_SendPkt`) in `main` and in the receive interrupt, `EMAC_SendPktDone`; implements `FrameQueue` |
| `SysTimeouts`, `MCSysTimeouts` | the timeout list, `sys_check_timeouts` in `main`, the clock with its wrap-around, the TCP timer switched on from `main` or the receive interrupt |
| `IpReass` | reassembly of IPv4 fragments and its timer |
| `Etharp` | the ARP table, the packets that wait in it, the cached entry, its timer |
| `Allocator` | what a heap promises its callers (abstract) |
| `MemHeap` | the heap with its block list; implements `Allocator` |
| `RingProofs` | lemmas about places on a ring |
| `RecvLoopProofs`, `EthernetifRxProofs`, `EmacTxProofs`, `SysTimeoutsProofs`, `IpReassProofs`, `EtharpProofs`, `MemHeapProofs` | inductive invariants, lemmas, theorems and proofs about the module of the name (`RecvLoopProofs` also about `EthFrameTest`) |

### Driver and port

State corresponds directly: `own`, `good`, `txcp` are bits of `u32Status1/2`,
`cur` and `next` the driver's ring pointers, `dma` is CRXDSA or CTXDSA, `intsts`
the set and enabled flags of one direction, `pend` the NVIC bit. `pc`, `spc`
and `tpc` say where a handler or a sending context is; a step lies between two
points where the DMA or another context can make a difference. `reg`, `desc`,
`last`, `scan`, `p` are the locals of the C functions. A frame is the number of
its acceptance; bytes are abstracted, except that `LongFrames` names the received
frames that do not fit one pool buffer, and `Chained` the frames to send whose
packet is a chain of pbufs. `size` is the byte count in `u32Status2`, counted in
pbufs. `up`, `wire`, `air`, `taken`, `counted`, `complete` and `unseen` record what
has happened, for the properties.

Hardware is external and follows the descriptions in
`Drivers/Library/Device/Nuvoton_M480/Include/emac_reg.h`: turning RXON on loads
CRXDSA from RXDSA (lines 500-503), a DMA that meets a descriptor of the CPU
halts and is restarted by writing RXST or TXST, flags are cleared by writing
them back. The NVIC latches the rising edge of an interrupt line, also while
the handler runs, and samples the line when the handler returns.

Choices worth knowing:

- `EMAC_RecvPktDone` is one step. Between its writes the DMA can do nothing
  that it could not also do just before or after.
- `BadFrames` lets the MAC store a frame without RXGD, a case both receive
  paths have code for. The configuration of `EMAC_Open` (AEP, ALP, ARP off) has
  the MAC drop CRC-error, long and runt frames, so no finding rests on it; the
  safety properties are shown with it allowed.
- The port enables transmitter and receiver in `mac_layer_init`, before lwIP
  can send; the second enabling in `Core/main.c` finds them on and is left out.
- Time stamps are off: no program of the repository but `test_emac_TimeStamp.c`
  calls `EMAC_EnableTS`. `u32Next` and `u32Data` therefore keep their values, and
  `CleanedBeforeReuse` says what the transmit path would need of them.
- `low_level_output` copies and sends `p->len` bytes, the first pbuf of a chain
  (`ethernetif.c:208-211`), and returns ERR_OK. `air` records how much of every
  frame was sent, and nothing if the MAC gave it up. `EveryAcceptedSent` says that
  an accepted frame comes to its turn and then has one of three fates: it is sent
  whole, it is given up after too many collisions, or, if it is a chain, it is cut
  off behind the first pbuf. The last contradicts the function's comments and is
  listed as a finding; with it taken out of the property TLC refutes it.
- After a bus error on transmission (TXBEIF) `emac_reg.h:1122` recommends a reset
  of the EMAC. The driver only reports the error and goes on, and so does the
  model.
- `Window` bounds how many frames wait in the receive ring at once. It is an
  assumption about traffic and handler latency, and what holds depends on it.

### Parts of the stack

`SysTimeouts`. `next[0]` is `next_timeout`, the other `next`, `who` and `time` are
the fields of the entries, `free` is the pool `MEMP_SYS_TIMEOUT`. `main` takes one
step per access to what an interrupt may change: read the head, unlink it, run
the handler (which takes an entry from the pool again), find the place, read the
pointer, write it. `TMR0_IRQHandler`, and with `TcpContext = "isr"` also
`tcp_timer_needed`, come between any two of them. `u32Jiffies` grows by 10 per
interrupt; the model counts interrupts, modulo `M`. `MaxLag` bounds how late
`main` may be; without such a bound times half a clock range old would count as
future ones. It also means that the clock stands still towards the end of a long
round, so `CheckReturns` and `EveryTimerRuns` could not tell a loop that chases
the clock from one that does not. `NeverEarly` can: it says that a round serves
only times that had come when the round began, so the clock of a round is the
one read at its start. What the handlers of ARP, DHCP and the others do is in other modules
or left out. `tcp_tmr` matters here only in that connections may end in it.

`IpReass`. A datagram is an interval of `Size` units, a unit being what one pbuf
holds, and any proper part of it may come in as a fragment, at any time and
again and again. So may fragments whose end overflows 16 bits (`Overlong`), which
are dropped after an entry was made for them and room for the entry; the entry
then goes, too (`Discard`, the label `nullreturn_ipr`). Fragments without data, with
IP options, or with another end that contradicts the datagram's length are left
out, and so are the contents of the ICMP message; the header it is made from is
kept (`hdr`).

`Etharp`. Addresses, hardware addresses and destinations are small sets; there is
one packet per destination, and two destinations may share the gateway as next
hop. `refs` counts the references `etharp.c` holds on a packet, `heard` records
what each host announced last, `frame` what the last step sent. `mem` says
whether memory for a copy or a request is there. With `ARP_QUEUEING` 0 one packet
waits per entry. The calls are atomic; see section 6.

`MemHeap`. `heap` maps the offset of every block to its header, `held` is what
callers hold. Requests range over sizes at every boundary of the code: 0, below
`MIN_SIZE_ALIGNED`, not aligned, larger than the heap, and so close to the end of
`mem_size_t` that alignment overflows. Callers free a block once and trim it to
no more than they have. The calls are atomic.

## 3. Runs

| Run | Configuration | Shows |
|---|---|---|
| `recv_loop` | ring of 4, 9 frames, fair | `RingInv`, `NoLostWakeup`, `DoneOnlyAfterFrame`, `EveryFrameProcessed`, `ReceiverResumes`, `ImplementsQueue` |
| `eth_frame_test` | ring of 3, 6 frames (also bad), 3 restarts | `AtMostOnce`: no frame is delivered twice |
| `ethernetif_rx` | ring of 4, window 3, 7 frames (also bad), 1 bus error, fair | `RingInv`, `Ordered`, `NoUnreadRelease`; and `EveryFrameTakenInLockstep`: frames that come one at a time are all taken |
| `emac_tx` | ring of 3, sender in `main`, 5 calls, two of them with chains, aborts, 1 bus error, fair | `RingInv`, `FillOwnBufferOnly`, `CleanedBeforeReuse`, `EveryAcceptedSent`, `DoneTerminates`, `ImplementsQueue` |
| `sys_timeouts` | 3 timers of 1, 2 and 3 ticks, clock modulo 16, `main` up to 2 ticks late; connections in `main` | `ListSound` (with the types), `TcpTimerScheduled`, `NeverEarly`, `AllExpiredRun`, `DueAdvances`, `CheckReturns`, `EveryTimerRuns` |
| `ip_reass` | 3 datagrams of 3 units, fragments that are too long, 2 entries, 4 pbufs | `CountExact`, `WholeDatagram`, `NoneCompleteWaits`, `EntriesSound`, `OwnDatagramKept`, `EntryLeaves` |
| `etharp` | 3 addresses, one the gateway, 2 hardware addresses, 2 entries | `TableSound`, `RefsExact`, `RightAddress`, `QueuedFate`, `QueuedLeaves` |
| `mem_heap` | heap of 44 bytes, header 2, 7 request sizes | `Sane`, `UsedIsHeld`, `WholeAgain`, `FoundIfRoom`, `ImplementsAllocator` |

Four further runs end in a counterexample, where the code does not do what its
comments say:

| Run | Counterexample |
|---|---|
| `ethernetif_rx_stranded` | `EveryFrameTaken`: the second of two close frames has its flag cleared and is not read |
| `ethernetif_rx_long` | `FilledPbuf`: only the first pbuf of a chain is filled |
| `emac_tx_two_contexts` | `EveryAcceptedSent`: `main` and the receive interrupt use the same transmit descriptor; an accepted frame is never sent |
| `sys_timeouts_isr` | `TcpTimerScheduled`: `tcpip_tcp_timer` finds no connection, the receive interrupt makes one and finds the flag still set, `main` clears the flag: a connection without a timer, until another is made |

Two more follow from changing one line of a configuration, and mark the limits of
what the passing runs show. With `Window = 4` in `EthernetifRx.cfg` the ring may
fill, and TLC refutes `RingInv`, `Ordered` and `NoUnreadRelease`: the closing
`EMAC_RecvPktDone` gives an unread frame away. With `RingInv` added to
`EthFrameTest.cfg` TLC refutes it after a restart: the DMA is at `rx_desc[0]`, the
driver elsewhere, and frames wait that `EMAC_RecvPkt` does not see. `EmacTx` also
reaches states in which `counted` is larger than the number of frames sent,
because a call of `EMAC_SendPktDone` that finds nothing new goes round the whole
ring; no program uses the number.

Bounds. Rings have 3 or 4 descriptors (the code has 4). In the passing runs the
number of frames is at least one and a half times, mostly twice, the size of the
ring, so that indices wrap and descriptors are reused. A second bus error or
restart meets the same states as the first. In `sys_timeouts` the clock wraps
every 16 ticks, with the timers at every phase, and `main` can oversleep two
intervals of the fastest timer and one of the next; the pool is as small as it may be. In
`ip_reass` there are more datagrams than entries and more units than pbufs, so
that both limits are met, also by one fragment; a datagram of three units has
every kind of overlap, hole and order of arrival. In `etharp` there are more
addresses than entries, so that stable and pending entries, with and without a
packet, are recycled; the ages 4 and 2 stand for 300 and 5 seconds and keep their
order, and the cached entry can go stale. In `mem_heap` up to seven blocks fit, and a
remainder can be exactly large enough for another block, or just too small.

Deadlock checking is off for the driver and the port: when the bounded frames are
used up the board rightly waits. It is on for the other modules.

Fairness. `RecvLoop` and `EthernetifRx` assume only that the CPU keeps executing:
a pending interrupt is taken and a running handler goes on. `EmacTx` assumes in
addition that a triggered TXDMA proceeds. `SysTimeouts` assumes that `main` and the
timer interrupt go on, which the endless loop of `Core/main.c` and the periodic
timer justify; `IpReass` and `Etharp` that their cyclic timer runs again and
again, which is what `EveryTimerRuns` shows of `SysTimeouts`. Nothing is assumed of
the network, and no call of `low_level_output` has to happen.

## 4. Refinement

`FrameQueue` puts frames in up to `Capacity` and takes them out in order.
`RecvLoop` implements it from the DMA to `process_rx_packet`: `accepted` is the
number of frames the DMA has stored, `out` the frames processed. A descriptor
counts as used until its frame has been processed, which is before
`EMAC_RecvPktDone` frees it. `EmacTx` implements it from `low_level_output` to the
wire: a frame is accepted when the owner bit is written, and out when the DMA
has closed the descriptor. Both steps are model-checked and proved.

`Allocator` hands out areas that lie in memory and apart from each other. `MemHeap`
implements it with the areas callers hold, as they asked for them: that areas are
apart is, for the heap, that blocks follow each other and have the room their
holders asked for. This too is model-checked and proved.

## 5. Proofs

Every safety property that a passing run checks, invariant, action property or
refinement, is also proved, for all values of the constants (TLC's instances fix
them). The theorems, by module:

| Module | Proved | For every | Assuming |
|---|---|---|---|
| `RecvLoopProofs` | `TypeOK`, `RingInv`, `InOrder`, `NoLostWakeup`, `DoneOnlyAfterFrame`, implements `FrameQueue` | ring size, number of frames, bad frames included | no bus errors |
| | `AtMostOnce` of `EthFrameTest` | ring size, number of frames and restarts, bad frames included | no bus errors |
| `EthernetifRxProofs` | `TypeOK`, `RingInv`, `Ordered`, `NoUnreadRelease` | ring size, number of frames; bad frames, an empty pool, bus errors included | `Window < N` |
| | `FrameHasInterrupt` | ring size, number of frames; an empty pool included | `Window <= 1`, no bad frames, no bus errors |
| `EmacTxProofs` | `TypeOK`, `RingInv`, `WireInOrder`, `FillOwnBufferOnly`, `CleanedBeforeReuse`, `NoFrameStranded`, `EveryFate`, `ScanAdvances`, implements `FrameQueue` | ring size, number of frames; aborts and bus errors included | one sending context |
| `SysTimeoutsProofs` | `TypeOK`, `ListSound`, `TcpTimerScheduled`, `NeverEarly`, `AllExpiredRun`, `DueAdvances` | set of cyclic timers, intervals, clock range, pool | connections change in `main` only |
| `IpReassProofs` | `CountExact`, `WholeDatagram`, `NoneCompleteWaits`, `EntriesSound`, `OwnDatagramKept`, `TimersRunDown` | number and length of datagrams, limits, time-out | |
| `EtharpProofs` | `TypeOK`, `TableSound`, `RefsExact`, `RightAddress`, `QueuedFate`, `PendingAges` | table size, addresses, time-outs | |
| `MemHeapProofs` | `Sane`, `BlocksAligned`, `AreasSafe`, `UsedIsHeld`, `WholeAgain`, `FoundIfRoom`, implements `Allocator` | size of heap, header, smallest block, alignment, `mem_size_t`; set of requests | |

The assumptions in the last column are needed. Section 3 has the counterexamples
for a full `Window`, for frames closer than one at a time, for two sending contexts and for connections made in the interrupt;
after a bus error the receive loop takes the next descriptor for a frame whatever
it holds.

Constants have the assumptions named in their modules: types, and
- `TxAssumption`, `RxAssumption`, `PortAssumption`, `RingAssumption`: nothing else;
- `TimeoutsAssumption`: an interval and twice the lag of `main` are less than half
  the clock range (TIME_LESS_THAN needs it), and the pool has an entry for every
  timer, as `MEMP_NUM_SYS_TIMEOUT` provides;
- `MemAssumption`: heap and header do not overflow `mem_size_t`, sizes are aligned,
  one block fits;
- `EtharpAssumption`: a pending entry expires no later than a stable one, and the
  markers differ from addresses.

### The inductive invariants

*Rings.* `IndInv` joins types, the shape of the ring, the order property, and what
the handler's place implies. The shape of the ring is the heart: the descriptors
of one side are a contiguous stretch from one pointer to the other and hold the
outstanding frames in order. Order alone is not inductive, because it says nothing
about what still lies in the ring. For the port, the handler's part is the delicate
one: an interrupt that is pending or will be must find a frame, and one raised
during a run must find one more, or `EMAC_RecvPktDone` would step over an unread
descriptor. The refinements follow from the same invariants, which say for every
step whether the queue has room and which frame is next.

*Restarts* (`OnceInv`). A restart breaks the shape of the ring, so `AtMostOnce`
needs an invariant without it: frames in descriptors of the CPU differ from each
other and, but for the one about to be given back, from all frames delivered.

*Clean-up* (`TxCleanInv`, with `IndInv`). A closed descriptor that `EMAC_SendPktDone`
has not passed lies between `u32CurrentTxDesc` and the DMA, and while there is one
the transmit interrupt is pending or at work.

*Timers* (`TimersInv`). The pointers form a list without a cycle; an entry is in
the pool, in the list or in the hands of `main`; every scheduled timer has one
entry. `ListSound` is not inductive: that the list is sorted says something only
while its due times are close enough to the clock for TIME_LESS_THAN to be an
order, which depends on how late `main` is (`LagInv`), and an insertion keeps
the order only because the place found is still right when the pointer is
written (`MainInv`).

*Reassembly* (`ReassInv`). The fragments of an entry are sorted and do not
overlap, the flag for the last fragment is right, and no entry is complete. The
code looks for holes only once the last fragment is here, and this is enough
because an entry that was not complete before becomes so only by the fragment
that has just come in. `NoneCompleteWaits` and `WholeDatagram` speak of units
covered; that a sorted list without holes covers each unit once, and one with a
hole leaves one out, are lemmas of their own. `OwnDatagramKept` has two halves: a
fragment costs its own datagram nothing, and another one its place only when a
limit is reached, the oldest first. For the second the proof carries from one
removal to the next that what has gone is no younger than what is left
(`OldestGo`). `EntriesSound` has to hold when a fragment is dropped after its entry
was made; inside `ip4_reass` the list may have one empty entry, its first.

*ARP* (`IInv`). A packet is referenced when an entry holds it and only then
(`RefsUsed`), and a stable entry has the hardware address its host announced last
(`EntriesTrue`). `RightAddress` alone is not inductive, because it does not say
that an entry still to be used is true; `RefsExact`, with its cardinalities,
follows from `RefsUsed` and the fact that a packet waits on the one entry of its
next hop.

*Heap* (`HeapInv`). The list runs through all blocks in both directions, no two
free blocks are neighbours, `lfree` is the lowest free one, and a block in use has
the room its holder asked for. In the middle of `mem_free` two free blocks may be
neighbours; the lemmas about `plug_holes` allow this at one block (`NoFreePair`).
`FoundIfRoom` needs in addition that the search may stop before the end of the
heap: a block beyond that point has not the room. Alignment (`BlocksAligned`, and
with it the alignment `Sane` demands) is an invariant beside it. It survives a
request whose rounding overflows `mem_size_t`, because the range of that type is
itself a multiple of the alignment.

The invariants named here were model-checked on the instances of section 3 first.

### Walks, sums and lists

What a walk along pointers, a sum over a list or a loop that frees one entry after
another comes to is a statement about every length, and the library's induction
theorems cannot be instantiated here. The models write such loops as recursive
functions on an interval, or along `next`, and the proofs go by the least
counterexample: a set of numbers that is not empty has a least member
(`LeastMember`, from the well-foundedness of the natural numbers), and below it the
statement holds. The same argument shows that the functions exist. In this way the
search of `mem_malloc` (`FirstFrom`), the list of timeouts, the number of pbufs
(`Total`), `RemoveOldest` and `FreeExpired` are covered by the proofs.

### The safety core of liveness

That something eventually happens is out of the prover's reach. What such a
property usually fails by is not: an event that is lost, or progress that is undone.
These theorems say that it is not, for all values of the constants; only
the step from there to "eventually", which is fairness, rests on TLC.

| Liveness property (TLC) | Proved |
|---|---|
| `EveryFrameProcessed` | `NoLostWakeup`: a good frame at the head has a handler or an interrupt coming |
| `EveryFrameTakenInLockstep` | `FrameHasInterrupt`: a waiting frame's interrupt is pending or on its way to the hand-back. The second call of `low_level_input` may clear the flag of a frame it does not read; the pending bit saves the frame, as the flag was a rising edge. With two frames waiting the flag may be up already, and the property fails (`ethernetif_rx_stranded`) |
| `EveryAcceptedSent` | `NoFrameStranded`: the TXDMA never halts before a frame unless the sender has its trigger still ahead; `EveryFate`: a frame that leaves the ring is sent whole, given up, or a chain of which the first pbuf is sent |
| `DoneTerminates` | `ScanAdvances`: every round of the loop of `EMAC_SendPktDone` brings it nearer to its end, which is at most one ring away |
| `EveryTimerRuns` | `DueAdvances` and `AllExpiredRun`, and on the other side `NeverEarly`: no handler runs before its time, nor in a round that began before it |
| `EntryLeaves` | `TimersRunDown`: no fragment raises a timer, and `ip_reass_tmr` lowers it or drops the entry |
| `QueuedLeaves` | `PendingAges`: no packet makes a pending entry younger; `etharp_tmr` ages it until it is freed at `ARP_MAXPENDING`. Only a request without a packet (from `dhcp_check`) starts it afresh, and the model bounds those by `MaxProbes` |

`FrameHasInterrupt`, `NoFrameStranded`, `EveryFate`, `ScanAdvances`, `TimersRunDown`, `PendingAges`,
`BlocksAligned` and `AreasSafe` are defined in the proof modules.

### Only model-checked

The liveness properties: `EveryFrameProcessed`, `ReceiverResumes`,
`EveryFrameTakenInLockstep`, `EveryAcceptedSent`, `DoneTerminates`, `CheckReturns`,
`EveryTimerRuns`, `EntryLeaves`, `QueuedLeaves`. The prover handles neither
fairness nor ENABLED. And the four counterexamples, which need no more than an
instance.

## 6. Not modelled

- Time stamps, alarm, the zero-copy interface and the CAM table of `emac.c`. One
  demonstration program uses the first, nobody the second, and the third is
  written once at start-up. The subsecond conversions exceed the integers of TLC.
- MDIO, the PHY layer and the set-up of netif: sequential polling, whose outcome
  depends on a PHY the repository does not describe.
- The TCP echo client: its steps are callbacks of lwIP's TCP, and when they come
  needs a model of TCP's send buffer, acknowledgements and closing. The hazards
  found by reading it are listed in `PROJECT.json`.
- The DHCP client and the ARP and ICMP answers of `UnitTest/EMAC_TxRx/net.c`, a
  test program; the firmware uses lwIP's.
- `sys_untimeout` and other functions of the modelled files that this firmware
  does not call. `etharp_cleanup_netif` runs when `Core/main.c:105` takes the
  interface down because there is no link at start-up; the ARP table is empty
  then.
- Interrupts inside the calls of `IpReass`, `Etharp` and `MemHeap`. On this board
  the receive interrupt runs the stack while `main` runs the timers, and
  `SYS_LIGHTWEIGHT_PROT` is 0, so nothing protects them. `emac_tx_two_contexts` and
  `sys_timeouts_isr` show what follows at the transmit ring and the timers. The
  properties of the other three hold for calls that are not interrupted.
- Clock, pin and UART set-up and the C library stubs: register writes and I/O.
- The other vendor drivers and register headers, the rest of lwIP and its
  contributed programs. They are most of the repository's lines, and much is not
  built: sockets, IPv6, PPP, applications. The modules cover about two thousand
  lines, the parts the board's own code shares with DMA, interrupts and timers.

Two remarks on comments met on the way, without a run of their own. `mem.c:790`
asserts "invalid next ptr" where `mem_trim` splits a block, and the assertion is
false for the last block of the heap, whose `next` is `MEM_SIZE_ALIGNED`; in this
port an assertion only prints (`port/arch/cc.h`), and what follows is right. `opt.h:787` asks for `PBUF_POOL_SIZE > IP_REASS_MAX_PBUFS`, and both are 10
here, so that fragments can hold the whole receive pool until they time out
(`EntryLeaves`).
