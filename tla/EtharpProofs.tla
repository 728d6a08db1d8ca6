---------------------------- MODULE EtharpProofs ----------------------------
(***************************************************************************)
(* Proofs about the ARP table of module Etharp, for every table size, every *)
(* set of hosts and packets, and every age limit.                          *)
(***************************************************************************)
EXTENDS Etharp, FiniteSetTheorems, TLAPS

\* etharp holds one reference on a packet that waits, and none on any other.
RefsUsed == \A p \in Packets : refs[p] = 1 <=> \E i \in Slots : table[i].q = p

\* What an entry in use says is true of its host, and a pending one is young.
EntriesTrue ==
  \A i \in Slots :
    /\ table[i].state # "empty" => table[i].ip \in Ips
    /\ table[i].state \in Stables => table[i].mac = heard[table[i].ip]
    /\ table[i].state = "pending" => table[i].ctime < MaxPending

IInv == TypeOK /\ OnePerAddress /\ QueueSound /\ RefsUsed /\ EntriesTrue /\ RightAddress

-----------------------------------------------------------------------------
\* A packet is neither the absence of one nor sent to the address 0.0.0.0
\* unless it goes to other networks without a gateway.
LEMMA PacketFacts ==
  /\ NoPkt \notin Packets
  /\ \A p \in Packets : p # "group" => NextHop(p) \in Ips \cup {NoIp}
BY EtharpAssumption DEF NoPkt, Packets, NextHop

\* etharp_find_entry returns the entry of the address if there is one; it gives up
\* a packet that waits only if packets wait on all entries, none of them older.
LEMMA FoundFacts ==
  ASSUME TypeOK, NEW i, NEW ip \in Ips, NEW hard \in BOOLEAN, Found(i, ip, hard)
  PROVE  /\ i \in Slots
         /\ Matches(ip) # {} => table[i].state # "empty" /\ table[i].ip = ip
         /\ Matches(ip) = {} => \A j \in Slots : table[j].state = "empty" \/ table[j].ip # ip
         /\ Matches(ip) = {} /\ table[i].q # NoPkt /\ QueueSound =>
              \A j \in Slots : table[j].q # NoPkt /\ table[j].ctime <= table[i].ctime
<1>1. CASE Matches(ip) # {}
  BY <1>1 DEF Found, First, Matches
<1>2. CASE Matches(ip) = {} /\ In({"empty"}) # {}
  BY <1>2 DEF Found, First, In, Matches, QueueSound
<1>3. CASE Matches(ip) = {} /\ In({"empty"}) = {}
  <2>1. i \in Recyclable
    BY <1>3 DEF Found, Oldest
  <2>2. i \in Slots
    BY <2>1 DEF Recyclable, In, Waiting
  <2>3. ASSUME table[i].q # NoPkt, QueueSound
        PROVE  \A j \in Slots : table[j].q # NoPkt /\ table[j].ctime <= table[i].ctime
    <3>1. table[i].state = "pending" /\ i \in Waiting
      BY <2>2, <2>3 DEF QueueSound, Waiting, In
    <3>2. In(Stables) = {} /\ In({"pending"}) = Waiting
      BY <2>1, <3>1 DEF Recyclable, In, Stables
    <3>3. \A j \in Slots : table[j].state \in {"empty", "pending"} \cup Stables
      BY DEF TypeOK, Entries
    <3>4. \A j \in Slots : j \in In({"pending"})
      BY <1>3, <3>2, <3>3 DEF In
    <3>5. \A j \in Slots : j \in Recyclable /\ table[j].ctime \in Nat
      BY <3>2, <3>4, EtharpAssumption DEF Recyclable, TypeOK, Entries
    <3>6. \A j \in Slots : table[j].ctime < table[i].ctime \/ table[j].ctime = table[i].ctime
      BY <1>3, <3>5, Zenon DEF Found, Oldest
    <3>7. \A j \in Slots : table[j].ctime <= table[i].ctime
      BY <2>2, <3>5, <3>6
    <3> QED BY <3>2, <3>4, <3>7 DEF Waiting
  <2> QED BY <1>3, <2>2, <2>3 DEF Matches
<1> QED BY <1>1, <1>2, <1>3

\* No packet waits on two entries.
LEMMA WaitsOnce ==
  ASSUME OnePerAddress, QueueSound
  PROVE  \A i, j \in Slots : table[i].q # NoPkt /\ table[i].q = table[j].q => i = j
BY DEF OnePerAddress, QueueSound

\* The references, once freed, are those of the other entries.
LEMMA ReleasedFacts ==
  ASSUME IInv, NEW i \in Slots
  PROVE  /\ Released(refs, table[i].q) \in [Packets -> 0 .. 1]
         /\ \A p \in Packets : Released(refs, table[i].q)[p] = 1
                                 <=> \E j \in Slots \ {i} : table[j].q = p
<1> USE PacketFacts
<1>1. CASE table[i].q = NoPkt
  BY <1>1 DEF Released, IInv, TypeOK, RefsUsed
<1>2. CASE table[i].q # NoPkt
  <2>1. table[i].q \in Packets /\ refs[table[i].q] = 1
    BY <1>2 DEF IInv, TypeOK, Entries, RefsUsed
  <2>2. \A j \in Slots \ {i} : table[j].q # table[i].q
    BY <1>2, WaitsOnce DEF IInv
  <2> QED BY <1>2, <2>1, <2>2 DEF Released, IInv, TypeOK, RefsUsed
<1> QED BY <1>1, <1>2

\* Replacing one entry keeps the table sound: the new entry is for the address it
\* was found for, says what its host announced, and has its own packet at most.
LEMMA Replaced ==
  ASSUME IInv, NEW i \in Slots, NEW ip \in Ips, NEW e \in Entries,
         table' = [table EXCEPT ![i] = e], e.ip = ip, e.state # "empty",
         Matches(ip) # {} => table[i].state # "empty" /\ table[i].ip = ip,
         Matches(ip) = {} => \A j \in Slots : table[j].state = "empty" \/ table[j].ip # ip,
         e.q # NoPkt => e.state = "pending" /\ NextHop(e.q) = ip,
         e.state = "pending" => e.ctime < MaxPending,
         heard' \in [Ips -> Macs \cup {NoMac}],
         \A a \in Ips \ {ip} : heard'[a] = heard[a],
         e.state \in Stables => e.mac = heard'[ip]
  PROVE  table' \in [Slots -> Entries] /\ OnePerAddress' /\ QueueSound' /\ EntriesTrue'
<1>1. table' \in [Slots -> Entries] /\ table'[i] = e /\ \A j \in Slots \ {i} : table'[j] = table[j]
  BY DEF IInv, TypeOK
<1>2. \A j \in Slots \ {i} : table[j].state # "empty" => table[j].ip # ip
  BY DEF IInv, OnePerAddress
<1>3. OnePerAddress'
  BY <1>1, <1>2 DEF OnePerAddress, IInv
<1>4. QueueSound'
  BY <1>1 DEF QueueSound, IInv
<1>5. EntriesTrue'
  <2> SUFFICES ASSUME NEW j \in Slots
      PROVE /\ table'[j].state # "empty" => table'[j].ip \in Ips
            /\ table'[j].state \in Stables => table'[j].mac = heard'[table'[j].ip]
            /\ table'[j].state = "pending" => table'[j].ctime < MaxPending
    BY DEF EntriesTrue
  <2>1. CASE j = i
    BY <1>1, <2>1
  <2>2. CASE j # i
    <3>1. table'[j] = table[j] /\ (table[j].state # "empty" => table[j].ip \in Ips \ {ip})
      BY <1>1, <1>2, <2>2 DEF EntriesTrue, IInv
    <3> QED BY <3>1 DEF EntriesTrue, IInv, Stables
  <2> QED BY <2>1, <2>2
<1> QED BY <1>1, <1>3, <1>4, <1>5
-----------------------------------------------------------------------------
\* The empty table.
LEMMA InitHolds == Init => IInv
<1> SUFFICES ASSUME Init PROVE IInv
  OBVIOUS
<1>1. EmptyEntry \in Entries /\ 0 \in Slots
  BY EtharpAssumption DEF EmptyEntry, Entries, Slots
<1>2. frame \in [pkt : Packets \cup {NoPkt}, mac : Macs \cup {NoMac, GroupMac}]
  BY DEF Init, NoFrame
<1>3. TypeOK
  BY <1>1, <1>2, EtharpAssumption DEF Init, TypeOK
<1> QED BY <1>3, PacketFacts DEF IInv, Init, EmptyEntry, OnePerAddress, QueueSound, RefsUsed,
        EntriesTrue, RightAddress, Stables

\* etharp_input keeps the invariant.
LEMMA InputStep ==
  ASSUME IInv, NEW ip \in Ips \cup {NoIp}, NEW mac \in Macs, NEW forUs \in BOOLEAN,
         etharp_input(ip, mac, forUs)
  PROVE  IInv'
<1> USE PacketFacts
<1>0. NoFrame \in [pkt : Packets \cup {NoPkt}, mac : Macs \cup {NoMac, GroupMac}]
  BY DEF NoFrame
<1>1. CASE ip = NoIp
  BY <1>0, <1>1 DEF etharp_input, IInv, TypeOK, OnePerAddress, QueueSound, RefsUsed, EntriesTrue,
     RightAddress, Matches
<1>2. CASE ip # NoIp
  <2>1. ip \in Ips /\ Update(ip, mac, forUs) /\ heard' = [heard EXCEPT ![ip] = mac]
        /\ UNCHANGED <<cached, probes>>
    BY <1>2 DEF etharp_input
  <2>2. /\ heard' \in [Ips -> Macs \cup {NoMac}] /\ heard'[ip] = mac
        /\ \A a \in Ips \ {ip} : heard'[a] = heard[a]
    BY <2>1 DEF IInv, TypeOK
  <2>3. ASSUME NEW i \in Slots, Found(i, ip, forUs),
               table' = [table EXCEPT ![i] = Updated(table[i], ip, mac)],
               refs' = Released(refs, table[i].q),
               frame' = IF Matches(ip) # {} /\ table[i].q # NoPkt
                        THEN [pkt |-> table[i].q, mac |-> mac] ELSE NoFrame
        PROVE  IInv'
    <3> DEFINE e == Updated(table[i], ip, mac)
    <3>1. e \in Entries /\ e.ip = ip /\ e.state = "stable" /\ e.mac = mac /\ e.q = NoPkt
      BY <2>1, EtharpAssumption DEF Updated, Entries, Stables
    <3>2. /\ Matches(ip) # {} => table[i].state # "empty" /\ table[i].ip = ip
          /\ Matches(ip) = {} => \A j \in Slots : table[j].state = "empty" \/ table[j].ip # ip
      BY <2>1, <2>3, FoundFacts DEF IInv
    <3>3. table' = [table EXCEPT ![i] = e]
      BY <2>3
    <3> HIDE DEF e
    <3>4. table' \in [Slots -> Entries] /\ OnePerAddress' /\ QueueSound' /\ EntriesTrue'
      BY <2>1, <2>2, <3>1, <3>2, <3>3, Replaced, Zenon
    <3>5. refs' \in [Packets -> 0 .. 1] /\ RefsUsed'
      <4>1. table'[i].q = NoPkt /\ \A j \in Slots \ {i} : table'[j].q = table[j].q
        BY <3>1, <3>3 DEF IInv, TypeOK
      <4> QED BY <2>3, <4>1, ReleasedFacts DEF RefsUsed
    <3>6. /\ frame' \in [pkt : Packets \cup {NoPkt}, mac : Macs \cup {NoMac, GroupMac}]
          /\ RightAddress'
      <4>1. CASE Matches(ip) # {} /\ table[i].q # NoPkt
        <5>1. table[i].q \in Packets /\ NextHop(table[i].q) = ip
          BY <3>2, <4>1 DEF IInv, TypeOK, Entries, QueueSound
        <5>2. table[i].q # "group"
          BY <2>1, <5>1, EtharpAssumption DEF NextHop
        <5> QED BY <2>2, <2>3, <4>1, <5>1, <5>2 DEF RightAddress, NextHop
      <4>2. CASE ~(Matches(ip) # {} /\ table[i].q # NoPkt)
        BY <1>0, <2>3, <4>2 DEF RightAddress
      <4> QED BY <4>1, <4>2
    <3> QED BY <2>1, <2>2, <3>4, <3>5, <3>6 DEF IInv, TypeOK
  <2>4. CASE ~\E i \in Slots : Found(i, ip, forUs)
    <3>1. UNCHANGED <<table, refs>> /\ frame' = NoFrame
      BY <2>1, <2>4 DEF Update
    <3>2. \A i \in Slots : table[i].state = "empty" \/ table[i].ip # ip
      <4> SUFFICES ASSUME NEW i \in Slots, table[i].state # "empty", table[i].ip = ip PROVE FALSE
        OBVIOUS
      <4>1. i \in Matches(ip) /\ \A j \in Matches(ip) : j = i
        BY DEF Matches, IInv, OnePerAddress
      <4>2. First(i, Matches(ip))
        BY <4>1 DEF First, Slots
      <4> QED BY <2>4, <4>1, <4>2 DEF Found
    <3>3. EntriesTrue'
      BY <2>2, <3>1, <3>2, Zenon DEF EntriesTrue, IInv, Stables
    <3> QED BY <1>0, <2>1, <2>2, <3>1, <3>3 DEF IInv, TypeOK, OnePerAddress, QueueSound, RefsUsed,
            RightAddress
  <2> QED BY <2>1, <2>3, <2>4 DEF Update
<1> QED BY <1>1, <1>2

\* etharp_query keeps the invariant when it is called as it is: with a packet that
\* does not wait yet, for its next hop, which has no stable entry.
LEMMA QueryStep ==
  ASSUME IInv, NEW ip \in Ips, NEW q \in Packets \cup {NoPkt}, NEW mem \in BOOLEAN,
         q # NoPkt => /\ refs[q] = 0 /\ NextHop(q) = ip
                      /\ \A i \in In(Stables) : table[i].ip # ip,
         etharp_query(ip, q, mem), probes' \in 0 .. MaxProbes
  PROVE  IInv'
<1> USE PacketFacts
<1> DEFINE new == Matches(ip) = {}
           queued == q # NoPkt /\ mem
<1>1. PICK i \in Slots :
        /\ Found(i, ip, TRUE)
        /\ table' = [table EXCEPT ![i] = Queried(table[i], new, ip, q, mem)]
        /\ refs' = IF queued
                   THEN [(IF new \/ queued THEN Released(refs, table[i].q) ELSE refs) EXCEPT ![q] = @ + 1]
                   ELSE IF new \/ queued THEN Released(refs, table[i].q) ELSE refs
        /\ frame' = NoFrame /\ UNCHANGED <<cached, heard>>
  BY Zenon DEF etharp_query
<1> DEFINE e == Queried(table[i], new, ip, q, mem)
<1>2. /\ Matches(ip) # {} => table[i].state # "empty" /\ table[i].ip = ip
      /\ Matches(ip) = {} => \A j \in Slots : table[j].state = "empty" \/ table[j].ip # ip
  BY <1>1, FoundFacts, Zenon DEF IInv
<1>3. table[i] \in Entries
  BY DEF IInv, TypeOK
<1>4. e \in Entries
  BY <1>3, EtharpAssumption DEF Queried, Entries, Stables
<1>5. e.ip = ip /\ e.state # "empty"
  BY <1>2, <1>3 DEF Queried
<1>6. e.q = IF queued THEN q ELSE IF new THEN NoPkt ELSE table[i].q
  BY DEF Queried
<1>7. e.q # NoPkt => e.state = "pending" /\ NextHop(e.q) = ip
  <2>1. CASE new
    BY <1>6, <2>1, Zenon DEF Queried
  <2>2. CASE ~new
    <3>1. queued => table[i].state = "pending"
      BY <1>2, <1>3, <2>2 DEF In, Entries
    <3> QED BY <1>2, <1>6, <2>2, <3>1 DEF Queried, IInv, QueueSound
  <2> QED BY <2>1, <2>2, Zenon
<1>8. e.state = "pending" => e.ctime < MaxPending
  BY EtharpAssumption, SMTT(30) DEF Queried, IInv, EntriesTrue
<1>9. e.state \in Stables => e.mac = heard'[ip]
  BY <1>1, <1>2 DEF Queried, IInv, EntriesTrue, Stables
<1>10. table' = [table EXCEPT ![i] = e]
  BY <1>1, Zenon
<1> HIDE DEF e
<1>11. heard' \in [Ips -> Macs \cup {NoMac}] /\ \A a \in Ips \ {ip} : heard'[a] = heard[a]
  BY <1>1 DEF IInv, TypeOK
<1>12. table' \in [Slots -> Entries] /\ OnePerAddress' /\ QueueSound' /\ EntriesTrue'
  BY <1>2, <1>4, <1>5, <1>7, <1>8, <1>9, <1>10, <1>11, Replaced, Zenon
<1>13. refs' \in [Packets -> 0 .. 1] /\ RefsUsed'
  <2>1. table'[i].q = e.q /\ \A j \in Slots \ {i} : table'[j].q = table[j].q
    BY <1>10 DEF IInv, TypeOK
  <2>2. CASE ~new /\ ~queued
    <3>1. refs' = refs /\ \A j \in Slots : table'[j].q = table[j].q
      BY <1>1, <1>6, <2>1, <2>2, Zenon
    <3> QED BY <3>1, SMTT(30) DEF RefsUsed, IInv, TypeOK
  <2>3. CASE new /\ ~queued
    <3>1. refs' = Released(refs, table[i].q) /\ table'[i].q = NoPkt
      BY <1>1, <1>6, <2>1, <2>3
    <3> HIDE DEF new, queued
    <3> QED BY <2>1, <3>1, ReleasedFacts, SMTT(30) DEF RefsUsed
  <2>4. CASE queued
    <3> DEFINE r == Released(refs, table[i].q)
    <3>1. refs' = [r EXCEPT ![q] = @ + 1] /\ e.q = q /\ q \in Packets
      BY <1>1, <1>6, <2>4
    <3>2. r \in [Packets -> 0 .. 1] /\ \A p \in Packets : r[p] = 1 <=> \E j \in Slots \ {i} : table[j].q = p
      BY ReleasedFacts
    <3>3. \A j \in Slots : table[j].q # q
      BY <2>4, <3>1 DEF IInv, RefsUsed
    <3>4. r[q] = 0
      BY <3>1, <3>2, <3>3
    <3> HIDE DEF r
    <3>5. refs' \in [Packets -> 0 .. 1] /\ refs'[q] = 1 /\ \A p \in Packets \ {q} : refs'[p] = r[p]
      BY <3>1, <3>2, <3>4, SMTT(30)
    <3> QED BY <2>1, <3>1, <3>2, <3>5, SMTT(30) DEF RefsUsed
  <2> QED BY <2>2, <2>3, <2>4
<1>14. frame' \in [pkt : Packets \cup {NoPkt}, mac : Macs \cup {NoMac, GroupMac}] /\ RightAddress'
  BY <1>1, Zenon DEF NoFrame, RightAddress
<1> QED BY <1>1, <1>11, <1>12, <1>13, <1>14 DEF IInv, TypeOK

\* etharp_output_to_arp_index keeps the invariant for a stable entry of the hop.
LEMMA IndexStep ==
  ASSUME IInv, NEW q \in Packets, NEW i \in Slots, NEW mem \in BOOLEAN, q # "group",
         table[i].state \in Stables, table[i].ip = NextHop(q),
         OutputToIndex(q, i, mem), UNCHANGED probes
  PROVE  IInv'
<1> USE PacketFacts
<1>1. /\ frame' = [pkt |-> q, mac |-> table[i].mac] /\ cached' = i
      /\ UNCHANGED <<refs, heard>>
  BY DEF OutputToIndex
<1>2. \/ table' = table
      \/ table[i].state = "stable" /\ table' = [table EXCEPT ![i].state = "rerequesting1"]
  BY DEF OutputToIndex
<1>3. /\ table' \in [Slots -> Entries]
      /\ \A j \in Slots : /\ table'[j].ip = table[j].ip /\ table'[j].mac = table[j].mac
                          /\ table'[j].ctime = table[j].ctime /\ table'[j].q = table[j].q
                          /\ \/ table'[j].state = table[j].state
                             \/ table'[j].state \in Stables /\ table[j].state \in Stables
  <2>1. CASE table' = table
    BY <2>1 DEF IInv, TypeOK
  <2>2. CASE table[i].state = "stable" /\ table' = [table EXCEPT ![i].state = "rerequesting1"]
    BY <2>2 DEF IInv, TypeOK, Entries, Stables
  <2> QED BY <1>2, <2>1, <2>2
<1>4. \A j \in Slots : /\ table'[j].state = "empty" <=> table[j].state = "empty"
                       /\ table'[j].state = "pending" <=> table[j].state = "pending"
                       /\ table'[j].state \in Stables <=> table[j].state \in Stables
  BY <1>3 DEF Stables
<1>5. OnePerAddress' /\ QueueSound' /\ RefsUsed' /\ EntriesTrue'
  <2>1. OnePerAddress' /\ QueueSound'
    BY <1>3, <1>4 DEF IInv, OnePerAddress, QueueSound
  <2>2. RefsUsed'
    <3>1. RefsUsed /\ refs' = refs /\ \A j \in Slots : table'[j].q = table[j].q
      BY <1>1, <1>3 DEF IInv
    <3> QED BY ONLY <3>1 DEF RefsUsed, Slots, Packets
  <2>3. EntriesTrue'
    BY <1>1, <1>3, <1>4 DEF IInv, EntriesTrue
  <2> QED BY <2>1, <2>2, <2>3, Zenon
<1>6. table[i].mac \in Macs \cup {NoMac} /\ table[i].mac = heard[NextHop(q)]
  BY DEF IInv, TypeOK, Entries, EntriesTrue
<1>7. RightAddress' /\ frame' \in [pkt : Packets \cup {NoPkt}, mac : Macs \cup {NoMac, GroupMac}]
  BY <1>1, <1>6 DEF RightAddress, NextHop
<1> QED BY <1>1, <1>3, <1>5, <1>7 DEF IInv, TypeOK

\* etharp_output keeps the invariant.
LEMMA OutputStep ==
  ASSUME IInv, NEW q \in Packets, NEW mem \in BOOLEAN, etharp_output(q, mem)
  PROVE  IInv'
<1> USE PacketFacts
<1> DEFINE ip == NextHop(q)
           stable == {i \in In(Stables) : table[i].ip = ip}
<1>1. UNCHANGED probes /\ refs[q] = 0
  BY DEF etharp_output
<1>2. ASSUME UNCHANGED <<table, cached, refs, heard>>,
             frame' = NoFrame \/ (q = "group" /\ frame' = [pkt |-> q, mac |-> GroupMac])
      PROVE  IInv'
  <2>1. RightAddress' /\ frame' \in [pkt : Packets \cup {NoPkt}, mac : Macs \cup {NoMac, GroupMac}]
    BY <1>2 DEF RightAddress, NoFrame
  <2> QED BY <1>1, <1>2, <2>1 DEF IInv, TypeOK, OnePerAddress, QueueSound, RefsUsed, EntriesTrue
<1>3. CASE q = "group" \/ ip = NoIp
  <2>1. CASE q = "group"
    BY <1>2, <2>1 DEF etharp_output
  <2>2. CASE q # "group" /\ ip = NoIp
    BY <1>2, <2>2 DEF etharp_output
  <2> QED BY <1>3, <2>1, <2>2
<1>4. CASE q # "group" /\ ip # NoIp
  <2>1. ip \in Ips
    BY <1>4
  <2>2. CASE Hit(ip)
    <3>1. OutputToIndex(q, cached, mem)
      BY <1>4, <2>2 DEF etharp_output
    <3>2. cached \in Slots /\ table[cached].state \in Stables /\ table[cached].ip = ip
      BY <2>2 DEF Hit, IInv, TypeOK
    <3> QED BY <1>1, <1>4, <3>1, <3>2, IndexStep
  <2>3. CASE ~Hit(ip) /\ stable # {}
    <3>1. PICK i \in Slots : First(i, stable) /\ OutputToIndex(q, i, mem)
      BY <1>4, <2>3 DEF etharp_output
    <3>2. table[i].state \in Stables /\ table[i].ip = ip
      BY <3>1 DEF First, In
    <3> QED BY <1>1, <1>4, <3>1, <3>2, IndexStep
  <2>4. CASE ~Hit(ip) /\ stable = {}
    <3>1. etharp_query(ip, q, mem)
      BY <1>4, <2>4, Zenon DEF etharp_output
    <3>2. probes' \in 0 .. MaxProbes /\ \A i \in In(Stables) : table[i].ip # ip
      BY <1>1, <2>4 DEF IInv, TypeOK
    <3> QED BY <1>1, <2>1, <3>1, <3>2, QueryStep
  <2> QED BY <2>2, <2>3, <2>4
<1> QED BY <1>3, <1>4

\* The request of dhcp_check keeps the invariant.
LEMMA ProbeStep ==
  ASSUME IInv, NEW ip \in Ips, NEW mem \in BOOLEAN, Probe(ip, mem)
  PROVE  IInv'
<1>1. etharp_query(ip, NoPkt, mem) /\ probes' \in 0 .. MaxProbes
  BY EtharpAssumption DEF Probe, IInv, TypeOK
<1> QED BY <1>1, QueryStep

\* A second ages an entry or frees it.
LEMMA OlderFacts ==
  ASSUME NEW e \in Entries, e.state = "pending" => e.ctime < MaxPending,
         e.state = "empty" => e.q = NoPkt
  PROVE  /\ Older(e) \in Entries
         /\ Aging(e) /\ Expired(e) => Older(e) = EmptyEntry
         /\ ~(Aging(e) /\ Expired(e)) => /\ Older(e).ip = e.ip /\ Older(e).mac = e.mac /\ Older(e).q = e.q
                                         /\ Older(e).state = "empty" <=> e.state = "empty"
                                         /\ Older(e).state = "pending" <=> e.state = "pending"
                                         /\ Older(e).state \in Stables <=> e.state \in Stables
                                         /\ Older(e).state = "pending" => Older(e).ctime < MaxPending
<1>1. CASE ~Aging(e)
  BY <1>1 DEF Older
<1>2. CASE Aging(e) /\ Expired(e)
  BY <1>2, EtharpAssumption DEF Older, EmptyEntry, Entries
<1>3. CASE Aging(e) /\ ~Expired(e)
  <2>1. Older(e) = [e EXCEPT !.ctime = @ + 1, !.state = NextState(@)]
    BY <1>3 DEF Older
  <2>2. /\ NextState(e.state) \in {"empty", "pending"} \cup Stables
        /\ NextState(e.state) = "empty" <=> e.state = "empty"
        /\ NextState(e.state) = "pending" <=> e.state = "pending"
        /\ NextState(e.state) \in Stables <=> e.state \in Stables
    BY DEF NextState, Entries, Stables
  <2>3. e.ctime + 1 \in 0 .. MaxAge - 1 /\ (e.state = "pending" => e.ctime + 1 < MaxPending)
    BY <1>3, EtharpAssumption, SMTT(30) DEF Expired, Entries
  <2> HIDE DEF NextState
  <2> QED BY <1>3, <2>1, <2>2, <2>3, Zenon DEF Entries
<1> QED BY <1>1, <1>2, <1>3

\* etharp_tmr keeps the invariant.
LEMMA TmrStep ==
  ASSUME IInv, etharp_tmr
  PROVE  IInv'
<1> USE PacketFacts
<1> DEFINE freed == {i \in Slots : Aging(table[i]) /\ Expired(table[i])}
           Of(p) == {i \in freed : table[i].q = p}
<1>1. /\ table' = [i \in Slots |-> Older(table[i])]
      /\ refs' = [p \in Packets |-> refs[p] - Cardinality(Of(p))]
      /\ frame' = NoFrame /\ UNCHANGED <<cached, heard, probes>>
  BY DEF etharp_tmr
<1>2. \A i \in Slots : /\ table[i] \in Entries
                       /\ table[i].state = "pending" => table[i].ctime < MaxPending
                       /\ table[i].state = "empty" => table[i].q = NoPkt
  BY DEF IInv, TypeOK, EntriesTrue, QueueSound
<1>3. table' \in [Slots -> Entries]
  BY <1>1, <1>2, OlderFacts, Zenon
<1>4. \A i \in freed : table'[i] = EmptyEntry
  BY <1>1, <1>2, OlderFacts, Zenon
<1>5. \A i \in Slots \ freed :
        /\ table'[i].ip = table[i].ip /\ table'[i].mac = table[i].mac /\ table'[i].q = table[i].q
        /\ table'[i].state = "empty" <=> table[i].state = "empty"
        /\ table'[i].state = "pending" <=> table[i].state = "pending"
        /\ table'[i].state \in Stables <=> table[i].state \in Stables
        /\ table'[i].state = "pending" => table'[i].ctime < MaxPending
  BY <1>1, <1>2, OlderFacts
<1>6. \A i \in freed : table'[i].state = "empty" /\ table'[i].q = NoPkt
  BY <1>4 DEF EmptyEntry
<1> HIDE DEF freed
<1>7. OnePerAddress' /\ QueueSound' /\ EntriesTrue'
  <2>1. OnePerAddress'
    BY <1>5, <1>6 DEF IInv, OnePerAddress
  <2>2. QueueSound'
    BY <1>5, <1>6 DEF IInv, QueueSound
  <2>3. \A i \in freed : table'[i].state \notin Stables \cup {"pending"}
    BY <1>6 DEF Stables
  <2>4. EntriesTrue'
    BY <1>1, <1>5, <1>6, <2>3 DEF IInv, EntriesTrue
  <2> QED BY <2>1, <2>2, <2>4
<1>8. ASSUME NEW p \in Packets
      PROVE  refs'[p] \in 0 .. 1 /\ (refs'[p] = 1 <=> \E i \in Slots : table'[i].q = p)
  <2>1. refs[p] \in 0 .. 1 /\ refs'[p] = refs[p] - Cardinality(Of(p))
    BY <1>1 DEF IInv, TypeOK
  <2>2. CASE \E i \in freed : table[i].q = p
    <3>1. PICK i \in freed : table[i].q = p /\ i \in Slots
      BY <2>2 DEF freed
    <3>2. \A j \in Slots : table[j].q = p => j = i
      BY <3>1, WaitsOnce DEF IInv
    <3>3. Of(p) = {i} /\ refs[p] = 1
      BY <3>1, <3>2 DEF IInv, RefsUsed, freed
    <3>4. Cardinality(Of(p)) = 1
      BY <3>3, FS_Singleton, Zenon
    <3>5. refs'[p] = 0
      BY <2>1, <3>3, <3>4
    <3>6. \A j \in Slots : table'[j].q # p
      BY <1>5, <1>6, <3>1, <3>2
    <3> QED BY <3>5, <3>6
  <2>3. CASE ~\E i \in freed : table[i].q = p
    <3>1. Cardinality(Of(p)) = 0
      BY <2>3, FS_EmptySet
    <3>2. refs'[p] = refs[p]
      BY <2>1, <3>1
    <3>3. \A i \in Slots : table'[i].q = p <=> table[i].q = p
      BY <1>5, <1>6, <2>3
    <3> QED BY <2>1, <3>2, <3>3 DEF IInv, RefsUsed
  <2> QED BY <2>2, <2>3
<1>9. refs' \in [Packets -> 0 .. 1] /\ RefsUsed'
  BY <1>1, <1>8 DEF RefsUsed
<1>10. frame' \in [pkt : Packets \cup {NoPkt}, mac : Macs \cup {NoMac, GroupMac}] /\ RightAddress'
  BY <1>1 DEF NoFrame, RightAddress
<1> QED BY <1>1, <1>3, <1>7, <1>9, <1>10, Zenon DEF IInv, TypeOK

\* Every step keeps the invariant.
LEMMA NextHolds == IInv /\ [Next]_vars => IInv'
<1> SUFFICES ASSUME IInv, [Next]_vars PROVE IInv'
  BY Zenon
<1>1. CASE UNCHANGED vars
  BY <1>1 DEF vars, IInv, TypeOK, OnePerAddress, QueueSound, RefsUsed, EntriesTrue, RightAddress
<1>2. CASE Next
  BY <1>2, InputStep, OutputStep, ProbeStep, TmrStep DEF Next
<1> QED BY <1>1, <1>2

\* The inductive invariant holds in every reachable state of the table.
THEOREM ArpInvariant == Spec => []IInv
BY InitHolds, NextHolds, PTL DEF Spec

\* The references are counted exactly.
LEMMA Exact == IInv => RefsExact
<1> SUFFICES ASSUME IInv, NEW p \in Packets PROVE refs[p] = Cardinality({i \in Slots : table[i].q = p})
  BY DEF RefsExact
<1> USE PacketFacts
<1>1. CASE \E i \in Slots : table[i].q = p
  <2>1. PICK i \in Slots : table[i].q = p
    BY <1>1
  <2>2. {j \in Slots : table[j].q = p} = {i}
    BY <2>1, WaitsOnce DEF IInv
  <2>3. Cardinality({j \in Slots : table[j].q = p}) = 1
    BY <2>2, FS_Singleton
  <2> QED BY <2>1, <2>3 DEF IInv, RefsUsed
<1>2. CASE ~\E i \in Slots : table[i].q = p
  <2>1. Cardinality({j \in Slots : table[j].q = p}) = 0
    BY <1>2, FS_EmptySet
  <2>2. refs[p] = 0
    BY <1>2 DEF IInv, RefsUsed, TypeOK
  <2> QED BY <2>1, <2>2
<1> QED BY <1>1, <1>2

-----------------------------------------------------------------------------
\* The table, the cached index, the references and the frames keep their types:
\* ages stay below ARP_MAXAGE and no packet is referenced twice.
THEOREM ArpTypes == Spec => []TypeOK
BY ArpInvariant, PTL DEF IInv

\* An address has at most one entry of arp_table in use, and a packet waits on the
\* pending entry of its next hop and nowhere else.
THEOREM ArpTableSound == Spec => []TableSound
BY ArpInvariant, PTL DEF IInv, TableSound

\* etharp neither forgets a packet it references nor frees one twice.
THEOREM ArpRefsExact == Spec => []RefsExact
BY ArpInvariant, Exact, PTL

\* A packet is sent to the hardware address its next hop announced last.
THEOREM ArpRightAddress == Spec => []RightAddress
BY ArpInvariant, PTL DEF IInv

\* etharp_query and etharp_input give a packet that waits up for the reasons
\* QueuedFate allows only.
LEMMA FateOfReplaced ==
  ASSUME IInv, NEW i \in Slots, NEW ip \in Ips, NEW hard \in BOOLEAN, Found(i, ip, hard),
         \A k \in Slots \ {i} : table'[k] = table[k], table'[i].ip = ip,
         Matches(ip) # {} /\ table[i].q # NoPkt =>
           table'[i].q # NoPkt \/ frame'.pkt = table[i].q,
         NEW j \in Slots, table[j].q # NoPkt, table'[j].q # table[j].q
  PROVE  \/ frame'.pkt = table[j].q
         \/ table'[j].q # NoPkt /\ table'[j].ip = table[j].ip
         \/ /\ table'[j].ip # table[j].ip
            /\ \A k \in Slots : table[k].q # NoPkt /\ table[k].ctime <= table[j].ctime
<1>1. j = i
  OBVIOUS
<1>2. CASE Matches(ip) # {}
  BY <1>1, <1>2, FoundFacts DEF IInv
<1>3. CASE Matches(ip) = {}
  <2>1. QueueSound /\ TypeOK /\ table[j].state # "empty"
    BY DEF IInv, QueueSound
  <2>2. \A k \in Slots : table[k].q # NoPkt /\ table[k].ctime <= table[j].ctime
    BY <1>1, <1>3, <2>1, FoundFacts
  <2>3. table[j].ip # ip
    BY <1>1, <1>3, <2>1, FoundFacts
  <2> QED BY <1>1, <2>2, <2>3
<1> QED BY <1>2, <1>3

\* etharp gives a packet that waits for an address up only when it is sent, a
\* newer one takes its place, it has waited too long, or all entries are needed.
THEOREM ArpQueuedFate == Spec => QueuedFate
<1> DEFINE Fate(i) == table[i].q # NoPkt /\ table'[i].q # table[i].q =>
                        \/ frame'.pkt = table[i].q
                        \/ table'[i].q # NoPkt /\ table'[i].ip = table[i].ip
                        \/ table[i].ctime + 1 = MaxPending /\ table'[i].state = "empty"
                        \/ /\ table'[i].ip # table[i].ip
                           /\ \A j \in Slots : table[j].q # NoPkt /\ table[j].ctime <= table[i].ctime
<1>1. ASSUME IInv, Next, NEW i \in Slots, table[i].q # NoPkt, table'[i].q # table[i].q
      PROVE  Fate(i)
  <2> USE <1>1
  <2>1. ASSUME NEW ip \in Ips, NEW q \in Packets \cup {NoPkt}, NEW mem \in BOOLEAN,
               etharp_query(ip, q, mem)
        PROVE  Fate(i)
    <3>1. PICK k \in Slots : /\ Found(k, ip, TRUE)
                             /\ table' = [table EXCEPT ![k] = Queried(table[k], Matches(ip) = {}, ip, q, mem)]
      BY <2>1, Zenon DEF etharp_query
    <3>2. table'[k] = Queried(table[k], Matches(ip) = {}, ip, q, mem)
          /\ \A j \in Slots \ {k} : table'[j] = table[j]
      BY <3>1 DEF IInv, TypeOK
    <3>3. table'[k].ip = ip /\ (Matches(ip) # {} /\ table[k].q # NoPkt => table'[k].q # NoPkt)
      <4> DEFINE e == Queried(table[k], Matches(ip) = {}, ip, q, mem)
      <4>1. e.ip = ip /\ (Matches(ip) # {} /\ table[k].q # NoPkt => e.q # NoPkt)
        BY Zenon DEF Queried
      <4>2. table'[k] = e
        BY <3>2
      <4> QED BY ONLY <4>1, <4>2, Zenon
    <3>4. \/ frame'.pkt = table[i].q
          \/ table'[i].q # NoPkt /\ table'[i].ip = table[i].ip
          \/ /\ table'[i].ip # table[i].ip
             /\ \A j \in Slots : table[j].q # NoPkt /\ table[j].ctime <= table[i].ctime
      BY <3>1, <3>2, <3>3, FateOfReplaced, Zenon
    <3> QED BY <3>4
  <2>2. ASSUME NEW ip \in Ips \cup {NoIp}, NEW mac \in Macs, NEW forUs \in BOOLEAN,
               etharp_input(ip, mac, forUs)
        PROVE  Fate(i)
    <3>1. ip \in Ips /\ Update(ip, mac, forUs)
      BY <2>2 DEF etharp_input
    <3>2. PICK k \in Slots : /\ Found(k, ip, forUs)
                             /\ table' = [table EXCEPT ![k] = Updated(table[k], ip, mac)]
                             /\ frame' = IF Matches(ip) # {} /\ table[k].q # NoPkt
                                         THEN [pkt |-> table[k].q, mac |-> mac] ELSE NoFrame
      BY <3>1, Zenon DEF Update
    <3>3. table'[k] = Updated(table[k], ip, mac) /\ \A j \in Slots \ {k} : table'[j] = table[j]
      BY <3>2 DEF IInv, TypeOK
    <3>4. table'[k].ip = ip
      <4>1. Updated(table[k], ip, mac).ip = ip
        BY DEF Updated
      <4> QED BY ONLY <3>3, <4>1, ZenonT(30)
    <3>5. Matches(ip) # {} /\ table[k].q # NoPkt => frame'.pkt = table[k].q
      BY <3>2, ZenonT(30)
    <3>6. \/ frame'.pkt = table[i].q
          \/ table'[i].q # NoPkt /\ table'[i].ip = table[i].ip
          \/ /\ table'[i].ip # table[i].ip
             /\ \A j \in Slots : table[j].q # NoPkt /\ table[j].ctime <= table[i].ctime
      BY <3>1, <3>2, <3>3, <3>4, <3>5, FateOfReplaced
    <3> QED BY <3>6
  <2>3. ASSUME NEW q \in Packets, NEW mem \in BOOLEAN, etharp_output(q, mem)
        PROVE  Fate(i)
    <3>1. CASE q = "group" \/ NextHop(q) = NoIp
      BY <2>3, <3>1, Zenon DEF etharp_output
    <3>2. CASE \E k \in Slots : OutputToIndex(q, k, mem)
      BY <3>2, SMTT(30) DEF OutputToIndex, IInv, TypeOK, Entries
    <3>3. CASE NextHop(q) \in Ips /\ etharp_query(NextHop(q), q, mem)
      BY <2>1, <3>3, Zenon
    <3>4. q = "group" \/ NextHop(q) \in Ips \cup {NoIp}
      BY PacketFacts
    <3>5. cached \in Slots
      BY DEF IInv, TypeOK
    <3> QED BY <2>3, <3>1, <3>2, <3>3, <3>4, <3>5, Zenon DEF etharp_output
  <2>4. CASE etharp_tmr
    <3>1. table'[i] = Older(table[i]) /\ table[i] \in Entries
      BY <2>4, Zenon DEF etharp_tmr, IInv, TypeOK
    <3>2. table[i].state = "pending" /\ table[i].ctime < MaxPending
      BY DEF IInv, QueueSound, EntriesTrue
    <3>3. Expired(table[i])
      BY <3>1, <3>2 DEF Older, Entries
    <3>4. table[i].ctime + 1 = MaxPending
      BY <3>1, <3>2, <3>3, EtharpAssumption DEF Expired, Entries
    <3>5. table'[i].state = "empty"
      BY <3>1, <3>2, <3>3, EtharpAssumption DEF Older, EmptyEntry
    <3> QED BY <3>4, <3>5, Zenon
  <2>5. NoPkt \in Packets \cup {NoPkt}
    OBVIOUS
  <2> QED BY <2>1, <2>2, <2>3, <2>4, <2>5, Zenon DEF Next, Probe
<1>2. IInv /\ [Next]_vars => [\A i \in Slots : Fate(i)]_vars
  BY <1>1
<1> QED BY <1>2, ArpInvariant, PTL DEF Spec, QueuedFate

\* An entry that waits for an answer only grows older, whatever packets are queued on
\* it: etharp_tmr brings it a second nearer to ARP_MAXPENDING, where it is freed, and
\* nothing but a request without a packet makes it young again.
PendingAges ==
  [][\A i \in Slots :
       table[i].state = "pending" /\ table'[i].state = "pending" /\ table'[i].ip = table[i].ip =>
         /\ table'[i].ctime < MaxPending
         /\ etharp_tmr => table'[i].ctime = table[i].ctime + 1
         /\ table'[i].ctime >= table[i].ctime \/ probes' # probes]_vars

\* A packet waits for at most ARP_MAXPENDING calls of etharp_tmr after the last
\* request of dhcp_check for its next hop, though newer packets keep the entry in use.
THEOREM ArpPendingAges == Spec => PendingAges
<1> DEFINE Ages(i) ==
      table[i].state = "pending" /\ table'[i].state = "pending" /\ table'[i].ip = table[i].ip =>
        /\ table'[i].ctime < MaxPending
        /\ etharp_tmr => table'[i].ctime = table[i].ctime + 1
        /\ table'[i].ctime >= table[i].ctime \/ probes' # probes
<1>1. ASSUME IInv, IInv', Next, NEW i \in Slots, table[i].state = "pending",
             table'[i].state = "pending", table'[i].ip = table[i].ip
      PROVE  Ages(i)
  <2> USE <1>1
  <2>1. table[i] \in Entries /\ table'[i] \in Entries /\ table'[i].ctime < MaxPending
    BY DEF IInv, TypeOK, EntriesTrue
  <2>2. table[i].ctime \in Nat
    <3>1. table[i].ctime \in 0 .. MaxAge - 1
      BY <2>1, Zenon DEF Entries
    <3> QED BY <3>1
  <2>3. ASSUME etharp_tmr PROVE table'[i].ctime = table[i].ctime + 1
    <3>1. table'[i] = Older(table[i])
      BY <2>3, Zenon DEF etharp_tmr
    <3>2. Older(table[i]) = [table[i] EXCEPT !.ctime = @ + 1, !.state = NextState(@)]
      BY <3>1 DEF Older, Aging, EmptyEntry
    <3>3. [table[i] EXCEPT !.ctime = @ + 1, !.state = NextState(@)].ctime = table[i].ctime + 1
      BY <2>1, Zenon DEF Entries
    <3> QED BY ONLY <3>1, <3>2, <3>3, Zenon
  <2>4. ASSUME NEW ip \in Ips, NEW q \in Packets, NEW mem \in BOOLEAN, etharp_query(ip, q, mem)
        PROVE  table'[i].ctime = table[i].ctime
    <3>1. PICK k \in Slots : /\ Found(k, ip, TRUE)
                             /\ table' = [table EXCEPT ![k] = Queried(table[k], Matches(ip) = {}, ip, q, mem)]
      BY <2>4, Zenon DEF etharp_query
    <3>2. table'[k] = Queried(table[k], Matches(ip) = {}, ip, q, mem)
          /\ \A j \in Slots \ {k} : table'[j] = table[j]
      BY <3>1 DEF IInv, TypeOK
    <3>3. CASE k = i
      <4> DEFINE e == Queried(table[k], Matches(ip) = {}, ip, q, mem)
      <4>1. e.ip = ip /\ (Matches(ip) # {} => e.ctime = table[k].ctime)
        BY PacketFacts, Zenon DEF Queried
      <4>2. table'[k] = e
        BY <3>2, ZenonT(30)
      <4>3. table[i].ip = ip /\ (Matches(ip) # {} => table'[i].ctime = table[i].ctime)
        BY <3>3, <4>1, <4>2
      <4>4. Matches(ip) # {}
        BY <4>3, Zenon DEF Matches
      <4> QED BY <4>3, <4>4, Zenon
    <3>4. CASE k # i
      BY <3>2, <3>4
    <3> QED BY <3>3, <3>4
  <2>5. ASSUME NEW q \in Packets, NEW mem \in BOOLEAN, etharp_output(q, mem)
        PROVE  table'[i].ctime = table[i].ctime
    <3>1. CASE UNCHANGED table
      BY <3>1
    <3>2. ASSUME NEW k \in Slots, OutputToIndex(q, k, mem) PROVE table'[i].ctime = table[i].ctime
      <4>1. table' = table \/ (table' = [table EXCEPT ![k].state = "rerequesting1"] /\ table[k].state = "stable")
        BY <3>2 DEF OutputToIndex
      <4>2. k # i => table'[i] = table[i]
        BY <4>1 DEF IInv, TypeOK
      <4> QED BY <4>1, <4>2
    <3>3. CASE NextHop(q) \in Ips /\ etharp_query(NextHop(q), q, mem)
      BY <2>4, <3>3
    <3>4. q = "group" \/ NextHop(q) \in Ips \cup {NoIp}
      BY PacketFacts
    <3>5. cached \in Slots
      BY DEF IInv, TypeOK
    <3> QED BY <2>5, <3>1, <3>2, <3>3, <3>4, <3>5, Zenon DEF etharp_output
  <2>6. ASSUME NEW ip \in Ips \cup {NoIp}, NEW mac \in Macs, NEW forUs \in BOOLEAN,
               etharp_input(ip, mac, forUs)
        PROVE  table'[i] = table[i]
    <3>1. CASE UNCHANGED table
      BY <3>1
    <3>2. CASE Update(ip, mac, forUs) /\ table' # table
      <4>1. PICK k \in Slots : table' = [table EXCEPT ![k] = Updated(table[k], ip, mac)]
        BY <3>2, Zenon DEF Update
      <4>2. table'[k] = Updated(table[k], ip, mac) /\ \A j \in Slots \ {k} : table'[j] = table[j]
        BY <4>1 DEF IInv, TypeOK
      <4>3. Updated(table[k], ip, mac).state = "stable"
        BY Zenon DEF Updated
      <4>4. k # i
        BY <4>2, <4>3
      <4> QED BY <4>2, <4>4
    <3> QED BY <2>6, <3>1, <3>2 DEF etharp_input
  <2>7. ASSUME NEW ip \in Ips, NEW mem \in BOOLEAN, Probe(ip, mem) PROVE probes' # probes
    BY <2>7 DEF Probe, IInv, TypeOK
  <2>8. CASE table'[i].ctime = table[i].ctime
    BY <2>1, <2>2, <2>3, <2>8
  <2>9. CASE etharp_tmr \/ probes' # probes
    BY <2>1, <2>2, <2>3, <2>9
  <2> QED BY <2>5, <2>6, <2>7, <2>8, <2>9, Zenon DEF Next
<1>2. IInv /\ IInv' /\ [Next]_vars => [\A i \in Slots : Ages(i)]_vars
  BY <1>1
<1> QED BY <1>2, ArpInvariant, PTL DEF Spec, PendingAges
=============================================================================
