------------------------------- MODULE Etharp -------------------------------
(***************************************************************************)
(* Address resolution (core/ipv4/etharp.c): the ARP table, the packets     *)
(* that wait in it, and the entry the last sender hit.  Packets go out at  *)
(* any time, ARP packets come in at any time, asked for or not, and        *)
(* etharp_tmr runs once a second.  The calls do not interrupt each other.  *)
(* ARP_QUEUEING is 0: one packet waits on an entry.  There is one netif,   *)
(* and LWIP_DEBUG is set, so that a freed entry is cleaned out.            *)
(***************************************************************************)
EXTENDS Integers, FiniteSets

CONSTANTS
  Ips,         \* the unicast addresses of the local network
  Gw,          \* the gateway, one of Ips, or NoIp
  NoIp,        \* 0.0.0.0
  Macs,        \* the hardware addresses of hosts
  GroupMac,    \* the broadcast and multicast hardware addresses
  NoMac,       \* ethzero
  Dsts,        \* where packets go: addresses of Ips, "far" (other networks)
               \* and "group" (broadcast and multicast)
  TableSize,   \* ARP_TABLE_SIZE
  MaxAge,      \* ARP_MAXAGE
  Rerequest,   \* ARP_AGE_REREQUEST_USED_UNICAST
  MaxPending,  \* ARP_MAXPENDING
  MaxProbes    \* bound: the requests of dhcp_check

ASSUME EtharpAssumption ==
  /\ TableSize \in Nat \ {0} /\ MaxAge \in Nat \ {0} /\ MaxPending \in Nat \ {0}
  /\ MaxPending <= MaxAge /\ MaxProbes \in Nat
  /\ Dsts \subseteq Ips \cup {"far", "group"} /\ Ips \cap {"far", "group", "none", NoIp} = {}
  /\ Gw \in Ips \cup {NoIp} /\ NoMac \notin Macs \cup {GroupMac}

VARIABLES
  table,   \* arp_table
  cached,  \* etharp_cached_entry
  refs,    \* the references etharp holds on every packet
  heard,   \* the hardware address each host announced last
  frame,   \* the IP packet the last step sent, and where to
  probes   \* the requests dhcp_check has made

vars == <<table, cached, refs, heard, frame, probes>>

Slots == 0 .. TableSize - 1
Packets == Dsts  \* one packet to each destination; two may share a next hop
NoPkt == "none"
NoFrame == [pkt |-> NoPkt, mac |-> NoMac]
Stables == {"stable", "rerequesting1", "rerequesting2"}
Entries == [state : {"empty", "pending"} \cup Stables, ip : Ips \cup {NoIp},
            mac : Macs \cup {NoMac}, ctime : 0 .. MaxAge - 1, q : Packets \cup {NoPkt}]

EmptyEntry == [state |-> "empty", ip |-> NoIp, mac |-> NoMac, ctime |-> 0, q |-> NoPkt]

TypeOK ==
  /\ table \in [Slots -> Entries] /\ cached \in Slots
  /\ refs \in [Packets -> 0 .. 1]
  /\ heard \in [Ips -> Macs \cup {NoMac}]
  /\ frame \in [pkt : Packets \cup {NoPkt}, mac : Macs \cup {NoMac, GroupMac}]
  /\ probes \in 0 .. MaxProbes

Init ==
  /\ table = [i \in Slots |-> EmptyEntry] /\ cached = 0
  /\ refs = [p \in Packets |-> 0] /\ heard = [a \in Ips |-> NoMac]
  /\ frame = NoFrame /\ probes = 0

-----------------------------------------------------------------------------
In(states) == {i \in Slots : table[i].state \in states}

\* pbuf_free of what waits on an entry, if anything.  The slip forgets it.
ReleasedNot(r, q) == r
Released(r, q) == IF q = NoPkt THEN r ELSE [r EXCEPT ![q] = @ - 1]

\* etharp_find_entry.  Matches: the entries in use for an address; the slip
\* passes pending entries over.  Recyclable: what may be taken for a new entry,
\* the least destructive first; the slip tries pending entries by their age only.
MatchesStable(ip) == {i \in In(Stables) : table[i].ip = ip}
Matches(ip) == {i \in Slots : table[i].state # "empty" /\ table[i].ip = ip}

Waiting == {i \in In({"pending"}) : table[i].q # NoPkt}

RecyclableAnyPending ==
  IF In(Stables) # {} THEN In(Stables) ELSE In({"pending"})
Recyclable ==
  IF In(Stables) # {} THEN In(Stables)
  ELSE IF In({"pending"}) # Waiting THEN In({"pending"}) \ Waiting ELSE Waiting

First(i, S) == i \in S /\ \A j \in S : i <= j
Oldest(i, S) == i \in S /\ \A j \in S : \/ table[j].ctime < table[i].ctime
                                        \/ table[j].ctime = table[i].ctime /\ j <= i

\* The entry i is the one found, or made, for the address.
Found(i, ip, tryHard) ==
  IF Matches(ip) # {} THEN First(i, Matches(ip))
  ELSE /\ tryHard
       /\ IF In({"empty"}) # {} THEN First(i, In({"empty"})) ELSE Oldest(i, Recyclable)

-----------------------------------------------------------------------------
\* etharp_update_arp_entry for a unicast address: the entry is the host's, and
\* what waited on it is sent.
Updated(e, ip, mac) ==
  [state |-> "stable", ip |-> ip, mac |-> mac, ctime |-> 0, q |-> NoPkt]

Update(ip, mac, tryHard) ==
  IF \E i \in Slots : Found(i, ip, tryHard)
  THEN \E i \in Slots :
         /\ Found(i, ip, tryHard)
         /\ table' = [table EXCEPT ![i] = Updated(table[i], ip, mac)]
         /\ refs' = Released(refs, table[i].q)
         /\ frame' = IF Matches(ip) # {} /\ table[i].q # NoPkt
                     THEN [pkt |-> table[i].q, mac |-> mac] ELSE NoFrame
  ELSE UNCHANGED <<table, refs>> /\ frame' = NoFrame

\* etharp_input: the sender's address pair is taken over, into a new entry only
\* if the packet is for this host.  A sender without an address is ignored.
etharp_input(ip, mac, forUs) ==
  /\ IF ip = NoIp THEN UNCHANGED <<table, refs, heard>> /\ frame' = NoFrame
     ELSE Update(ip, mac, forUs) /\ heard' = [heard EXCEPT ![ip] = mac]
  /\ UNCHANGED <<cached, probes>>

\* etharp_query: q is queued on the pending entry for ip, in place of the packet
\* that waited there, unless there is no memory for the copy that some packets
\* need.  No caller gives a packet for an address with a stable entry.  A request
\* goes out for a new entry, and when no packet is given; it is the one that
\* then needs memory ("mem"): its failure alters nothing for a new entry.
Queried(e, new, ip, q, mem) ==
  [state |-> IF new THEN "pending" ELSE e.state,
   ip    |-> ip,
   mac   |-> IF new THEN NoMac ELSE e.mac,
   ctime |-> IF new \/ (q = NoPkt /\ mem /\ e.state = "pending") THEN 0 ELSE e.ctime,
   q     |-> IF q # NoPkt /\ mem THEN q ELSE IF new THEN NoPkt ELSE e.q]

etharp_query(ip, q, mem) ==
  \E i \in Slots :
    /\ Found(i, ip, TRUE)
    /\ LET new == Matches(ip) = {}
           queued == q # NoPkt /\ mem
           r == IF new \/ queued THEN Released(refs, table[i].q) ELSE refs
       IN /\ table' = [table EXCEPT ![i] = Queried(@, new, ip, q, mem)]
          /\ refs' = IF queued THEN [r EXCEPT ![q] = @ + 1] ELSE r
    /\ frame' = NoFrame
    /\ UNCHANGED <<cached, heard>>

\* etharp_output_to_arp_index: the packet goes to the entry's host; an entry
\* about to expire is asked for again.
OutputToIndex(q, i, mem) ==
  /\ table' = IF table[i].state = "stable" /\ table[i].ctime >= Rerequest /\ mem
              THEN [table EXCEPT ![i].state = "rerequesting1"] ELSE table
  /\ frame' = [pkt |-> q, mac |-> table[i].mac]
  /\ cached' = i
  /\ UNCHANGED <<refs, heard>>

NextHop(d) == IF d = "far" THEN Gw ELSE d

\* The cached entry may be used for the address.  The slip does not compare it.
HitAnyAddress(ip) == table[cached].state \in Stables
Hit(ip) == table[cached].state \in Stables /\ table[cached].ip = ip

\* etharp_output.  The caller's packet is not one that waits here already.
etharp_output(q, mem) ==
  LET ip == NextHop(q)
      stable == {i \in In(Stables) : table[i].ip = ip}
  IN /\ refs[q] = 0
     /\ IF q = "group" THEN /\ frame' = [pkt |-> q, mac |-> GroupMac]
                                /\ UNCHANGED <<table, cached, refs, heard>>
        ELSE IF ip = NoIp THEN /\ frame' = NoFrame
                               /\ UNCHANGED <<table, cached, refs, heard>>
        ELSE IF Hit(ip) THEN OutputToIndex(q, cached, mem)
        ELSE IF stable # {} THEN \E i \in Slots : First(i, stable) /\ OutputToIndex(q, i, mem)
        ELSE etharp_query(ip, q, mem)
     /\ UNCHANGED probes

\* dhcp_check asks for the offered address without a packet.
Probe(ip, mem) ==
  /\ probes < MaxProbes /\ probes' = probes + 1
  /\ etharp_query(ip, NoPkt, mem)

\* etharp_tmr: every entry in use ages; it is freed when it is too old, and a
\* request for it may be repeated two seconds after the last.  The slip:
\* pending entries do not age.
Expired(e) == e.ctime + 1 >= MaxAge \/ (e.state = "pending" /\ e.ctime + 1 >= MaxPending)

AgingStable(e) == e.state \in Stables
Aging(e) == e.state # "empty"

NextState(state) ==
  CASE state = "rerequesting1" -> "rerequesting2"
    [] state = "rerequesting2" -> "stable"
    [] OTHER -> state

Older(e) ==
  IF ~Aging(e) THEN e
  ELSE IF Expired(e) THEN EmptyEntry
  ELSE [e EXCEPT !.ctime = @ + 1, !.state = NextState(@)]

etharp_tmr ==
  LET freed == {i \in Slots : Aging(table[i]) /\ Expired(table[i])} IN
  /\ table' = [i \in Slots |-> Older(table[i])]
  /\ refs' = [p \in Packets |-> refs[p] - Cardinality({i \in freed : table[i].q = p})]
  /\ frame' = NoFrame
  /\ UNCHANGED <<cached, heard, probes>>

Next ==
  \/ \E ip \in Ips \cup {NoIp}, mac \in Macs, forUs \in BOOLEAN : etharp_input(ip, mac, forUs)
  \/ \E q \in Packets, mem \in BOOLEAN : etharp_output(q, mem)
  \/ \E ip \in Ips, mem \in BOOLEAN : Probe(ip, mem)
  \/ etharp_tmr

\* The cyclic timer goes on; no packet is forced to come or go.
Spec == Init /\ [][Next]_vars
FairSpec == Spec /\ WF_vars(etharp_tmr)

-----------------------------------------------------------------------------
(* Properties. *)

\* An address has one entry, whichever way it came into the table, so that a
\* later answer cannot leave an outdated entry behind.
OnePerAddress ==
  \A i, j \in Slots : /\ table[i].state # "empty" /\ table[j].state # "empty"
                      /\ table[i].ip = table[j].ip
                      => i = j

\* A packet waits only on the pending entry for its next hop: "no queued packets
\* should exist on stable entries" is what etharp_find_entry relies on.
QueueSound ==
  \A i \in Slots : table[i].q # NoPkt =>
    table[i].state = "pending" /\ table[i].ip = NextHop(table[i].q)

\* The two together: what the callers of etharp_find_entry rely on.
TableSound == OnePerAddress /\ QueueSound

\* etharp holds exactly the references that its entries use: no packet is freed
\* twice or forgotten, whichever way it leaves the table.
RefsExact ==
  \A p \in Packets : refs[p] = Cardinality({i \in Slots : table[i].q = p})

\* A packet goes to the hardware address that its next hop announced last, even
\* when the cached entry has been given to another host.
RightAddress ==
  frame # NoFrame =>
    frame.mac = IF frame.pkt = "group" THEN GroupMac ELSE heard[NextHop(frame.pkt)]

\* A packet that waits is given up only for a newer one to the same hop, when its
\* entry has been pending for too long and is freed, or when packets wait on all
\* entries, its own is the oldest, and another address takes it over.
QueuedFate ==
  [][\A i \in Slots : table[i].q # NoPkt /\ table'[i].q # table[i].q =>
       \/ frame'.pkt = table[i].q
       \/ table'[i].q # NoPkt /\ table'[i].ip = table[i].ip
       \/ table[i].ctime + 1 = MaxPending /\ table'[i].state = "empty"
       \/ /\ table'[i].ip # table[i].ip
          /\ \A j \in Slots : table[j].q # NoPkt /\ table[j].ctime <= table[i].ctime]_vars

\* No packet waits for ever, though newer packets keep the entry in use.
QueuedLeaves == \A p \in Packets : []<>(refs[p] = 0)
=============================================================================
