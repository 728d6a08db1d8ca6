----------------------------- MODULE SysTimeouts -----------------------------
(***************************************************************************)
(* The timers of the lwIP stack (core/timeouts.c) on this board: the list  *)
(* of timeouts sorted by due time, sys_check_timeouts called by main for   *)
(* ever, the cyclic timers that put themselves back, the TCP timer that    *)
(* runs only while there are connections, and the clock u32Jiffies, which  *)
(* the TMR0 interrupt advances and which wraps around.  The receive        *)
(* interrupt runs the stack, so that a new connection can call             *)
(* tcp_timer_needed between any two steps of main.                         *)
(***************************************************************************)
EXTENDS Integers, FiniteSetsExt

CONSTANTS
  Cyclic,     \* the cyclic timers that always run (ip_reass_tmr, etharp_tmr...)
  Interval,   \* interval of every timer in ticks of TMR0
  M,          \* the clock counts modulo M (2^32 in the code)
  PoolSize,   \* MEMP_NUM_SYS_TIMEOUT
  MaxLag,     \* bound: ticks that main may be late, and that a round may take
  TcpContext  \* who makes and ends connections: "main" or "isr"

Tcp == "tcp"
Timers == Cyclic \union {Tcp}
Nodes == 1 .. PoolSize

ASSUME TimeoutsAssumption ==
  /\ Tcp \notin Cyclic /\ IsFiniteSet(Cyclic)
  /\ {M, PoolSize, MaxLag} \subseteq Nat
  /\ PoolSize > Cardinality(Cyclic)
  /\ \A x \in Timers : Interval[x] \in Nat \ {0} /\ 2 * (Interval[x] + 2 * MaxLag) < M

VARIABLES
  now,     \* u32Jiffies
  next,    \* the next pointer of every entry; next[0] is next_timeout, 0 is NULL
  who,     \* the timer of an entry (h and arg)
  time,    \* its due time
  free,    \* the entries in the pool MEMP_SYS_TIMEOUT
  active,  \* tcpip_tcp_timer_active
  pcbs,    \* tcp_active_pcbs || tcp_tw_pcbs
  pc,      \* where main is in sys_check_timeouts; "idle" outside
  start,   \* its local now
  job,     \* the timer whose handler main runs
  due,     \* current_timeout_due_time
  tmp,     \* the entry main works on: tmptimeout, then timeout of sys_timeout_abs
  pred     \* where it goes in: t of sys_timeout_abs, 0 for the head

listVars == <<next, who, time, free>>
mainVars == <<pc, start, job, due, tmp, pred>>
vars == <<now, next, who, time, free, active, pcbs, pc, start, job, due, tmp, pred>>

TypeOK ==
  /\ now \in 0 .. M - 1 /\ start \in 0 .. M - 1 /\ due \in 0 .. M - 1
  /\ next \in [0 .. PoolSize -> 0 .. PoolSize]
  /\ who \in [Nodes -> Timers]
  /\ time \in [Nodes -> 0 .. M - 1]
  /\ free \subseteq Nodes
  /\ active \in BOOLEAN /\ pcbs \in BOOLEAN
  /\ pc \in {"idle", "head", "unlink", "run", "find", "read", "link", "off"}
  /\ job \in Timers
  /\ tmp \in 0 .. PoolSize /\ pred \in 0 .. PoolSize

-----------------------------------------------------------------------------
\* TIME_LESS_THAN: the difference, taken modulo M, is above LWIP_MAX_TIMEOUT, the
\* lower half of the range.  The slip for the mutants compares the times as they are.
TimeLessPlain(t, u) == t < u
TimeLess(t, u) == (t - u) % M > (M - 1) \div 2

\* Following next_timeout k times, and the entries that are in the list.
Hop[k \in 0 .. PoolSize] == IF k = 0 THEN 0 ELSE next[Hop[k - 1]]
ListLen == Min({k \in 0 .. PoolSize : next[Hop[k]] = 0})
Listed == {Hop[k] : k \in 1 .. ListLen}

\* The place for due time t: in front of the first entry that is due later.
\* The slip puts a new entry at the end.
PlaceLast(t) == Hop[ListLen]
Place(t) ==
  Hop[Min({k \in 0 .. ListLen : next[Hop[k]] = 0 \/ TimeLess(t, time[next[Hop[k]]])})]

\* sys_timeouts_init: the cyclic timers, in order of their due times.
Init ==
  /\ now = 0 /\ start = 0 /\ due = 0
  /\ \E order \in [1 .. Cardinality(Cyclic) -> Cyclic] :
       /\ \A i, j \in DOMAIN order : i < j =>
            order[i] # order[j] /\ Interval[order[i]] <= Interval[order[j]]
       /\ who = [n \in Nodes |-> IF n \in DOMAIN order THEN order[n] ELSE Tcp]
       /\ time = [n \in Nodes |-> IF n \in DOMAIN order THEN Interval[order[n]] ELSE 0]
       /\ next = [n \in 0 .. PoolSize |-> IF n + 1 \in DOMAIN order THEN n + 1 ELSE 0]
       /\ free = Nodes \ DOMAIN order
  /\ active = FALSE /\ pcbs = FALSE
  /\ pc = "idle" /\ job = Tcp /\ tmp = 0 /\ pred = 0

-----------------------------------------------------------------------------
(* Interrupts. *)

\* TMR0_IRQHandler.  main begins a round at most MaxLag late and is done with it
\* within MaxLag, which is far less than half the range of the clock.  So the
\* clock cannot keep a round going by itself: that the round does not depend on
\* it is what NeverEarly says.
TMR0_IRQHandler ==
  /\ \A n \in Listed : TimeLess(now, time[n]) \/ (now - time[n]) % M < MaxLag
  /\ pc # "idle" => (now - start) % M < MaxLag
  /\ now' = (now + 1) % M
  /\ UNCHANGED <<listVars, mainVars, active, pcbs>>

\* A connection is registered (TCP_REG): tcp_timer_needed, with sys_timeout and
\* sys_timeout_abs in one piece when nothing can interrupt it.  In main this
\* happens outside sys_check_timeouts.
tcp_timer_needed ==
  /\ TcpContext = "main" => pc = "idle"
  /\ pcbs' = TRUE
  /\ active' = TRUE
  /\ IF ~active /\ free # {}
       THEN LET t == (now + Interval[Tcp]) % M
                new == Min(free)
                p == Place(t)
            IN /\ who' = [who EXCEPT ![new] = Tcp]
               /\ time' = [time EXCEPT ![new] = t]
               /\ next' = [next EXCEPT ![new] = next[p], ![p] = new]
               /\ free' = free \ {new}
       ELSE UNCHANGED listVars
  /\ UNCHANGED <<now, mainVars>>

\* The last connection is gone; in main also by the work of tcp_tmr itself.
LastPcbRemoved ==
  /\ TcpContext = "main" => pc \in {"idle", "run"}
  /\ pcbs /\ pcbs' = FALSE
  /\ UNCHANGED <<now, listVars, mainVars, active>>

-----------------------------------------------------------------------------
(* main: sys_check_timeouts, one step per access to what is shared.  Locals
   and pool entries that are dead are set back to their initial values. *)

Main(from, to) == pc = from /\ pc' = to

CheckStart ==
  /\ Main("idle", "head")
  /\ start' = now
  /\ UNCHANGED <<now, listVars, active, pcbs, job, due, tmp, pred>>

\* A due time had come when the round began; the slip: or has come since.
ExpiredByNow(t) == ~TimeLess(now, t)
Expired(t) == ~TimeLess(start, t)

\* The first entry has expired, or sys_check_timeouts returns.
ReadHead ==
  LET expired == next[0] # 0 /\ Expired(time[next[0]]) IN
  /\ Main("head", IF expired THEN "unlink" ELSE "idle")
  /\ tmp' = IF expired THEN next[0] ELSE 0
  /\ start' = IF expired THEN start ELSE 0
  /\ UNCHANGED <<now, listVars, active, pcbs, job, due, pred>>

\* The entry goes back to the pool before the handler runs.
Unlink ==
  /\ Main("unlink", "run")
  /\ next' = [next EXCEPT ![0] = next[tmp], ![tmp] = 0]
  /\ free' = free \union {tmp}
  /\ who' = [who EXCEPT ![tmp] = Tcp]
  /\ time' = [time EXCEPT ![tmp] = 0]
  /\ job' = who[tmp]
  /\ due' = time[tmp]
  /\ tmp' = 0
  /\ UNCHANGED <<now, active, pcbs, start, pred>>

\* When a cyclic timer is due again: counted from its due time, or from now if
\* that is over already ("overload"); the slip forgets the overload.
NextDueNoOverload(x) == (due + Interval[x]) % M
NextDue(x) ==
  LET t == (due + Interval[x]) % M IN
  IF TimeLess(t, now) THEN (now + Interval[x]) % M ELSE t

\* The handler has run: a cyclic timer is put back, the TCP timer only if there
\* are connections.  With an empty pool the timer is lost.
RunHandler ==
  LET again == job \in Cyclic \/ pcbs
      new == Min(free)
  IN /\ Main("run", IF again THEN IF free = {} THEN "head" ELSE "find" ELSE "off")
     /\ IF again /\ free # {}
          THEN /\ tmp' = new
               /\ free' = free \ {new}
               /\ who' = [who EXCEPT ![new] = job]
               /\ time' = [time EXCEPT ![new] =
                    IF job = Tcp THEN (now + Interval[Tcp]) % M ELSE NextDue(job)]
          ELSE UNCHANGED <<tmp, free, who, time>>
     /\ UNCHANGED <<now, next, active, pcbs, start, job, due, pred>>

\* sys_timeout_abs: find the place, read the pointer there, write it.
Find ==
  /\ Main("find", "read")
  /\ pred' = Place(time[tmp])
  /\ UNCHANGED <<now, listVars, active, pcbs, start, job, due, tmp>>

ReadNext ==
  /\ Main("read", "link")
  /\ next' = [next EXCEPT ![tmp] = next[pred]]
  /\ UNCHANGED <<now, who, time, free, active, pcbs, start, job, due, tmp, pred>>

Link ==
  /\ Main("link", "head")
  /\ next' = [next EXCEPT ![pred] = tmp]
  /\ job' = Tcp /\ due' = 0 /\ tmp' = 0 /\ pred' = 0
  /\ UNCHANGED <<now, who, time, free, active, pcbs, start>>

\* tcpip_tcp_timer_active = 0; the slip leaves the flag set.
StayActive == active' = active
Deactivate == active' = FALSE

TcpTimerOff ==
  /\ Main("off", "head")
  /\ Deactivate
  /\ due' = 0
  /\ UNCHANGED <<now, listVars, pcbs, start, job, tmp, pred>>

sys_check_timeouts ==
  \/ CheckStart
  \/ ReadHead
  \/ Unlink
  \/ RunHandler
  \/ Find
  \/ ReadNext
  \/ Link
  \/ TcpTimerOff

Next ==
  \/ TMR0_IRQHandler
  \/ tcp_timer_needed
  \/ LastPcbRemoved
  \/ sys_check_timeouts

\* main goes on executing and the timer interrupt goes on ticking; no
\* connection is forced to come or go.
Spec ==
  /\ Init /\ [][Next]_vars
  /\ WF_vars(sys_check_timeouts)
  /\ WF_vars(TMR0_IRQHandler)

-----------------------------------------------------------------------------
(* Properties. *)

\* The timer that main holds outside the list, on its way back into it.
InHand(x) == job = x /\ pc \in {"run", "find", "read", "link", "off"}

\* The list is sorted by due time across the wrap-around of the clock.  Every
\* cyclic timer has exactly one entry, or is in main's hands; the TCP timer has
\* one exactly when tcpip_tcp_timer_active says that it is scheduled; no entry of
\* the pool leaks.
ListSound ==
  /\ TypeOK
  /\ \A k \in 1 .. ListLen - 1 : ~TimeLess(time[Hop[k + 1]], time[Hop[k]])
  /\ \A x \in Timers :
       Cardinality({n \in Listed : who[n] = x}) =
         IF InHand(x) THEN 0 ELSE IF x \in Cyclic \/ active THEN 1 ELSE 0
  /\ InHand(Tcp) => active
  /\ Listed \cap free = {}
  /\ Cardinality(Nodes \ (free \union Listed)) = IF pc \in {"find", "read", "link"} THEN 1 ELSE 0

\* "global variable that shows if the tcp timer is currently scheduled or not"
\* (timeouts.c:135): between two rounds, while there are connections, the TCP
\* timer is scheduled, so that retransmission and closing go on.
TcpTimerScheduled ==
  pc = "idle" /\ pcbs => \E n \in Listed : who[n] = Tcp

\* "Process only timers expired at the start of the function" (timeouts.c:358),
\* but all of those: when sys_check_timeouts returns, every timer left is due
\* after its start.
AllExpiredRun ==
  [][pc = "head" /\ pc' = "idle" => \A n \in Listed : TimeLess(start, time[n])]_vars

\* The converse: "call timeout handler functions when timeouts expire"
\* (timeouts.c:346), and in one round only for due times that had come when it
\* began.  However the clock moves and wraps around meanwhile, a timer that was
\* put back for later waits for the next round, and the loop cannot chase the
\* clock.
NeverEarly == pc = "run" => ~TimeLess(start, due) /\ ~TimeLess(now, due)

\* A cyclic timer that main has overslept is not run twice for one moment: each
\* due time it is given lies after the one just served, and no later than one
\* interval from now.
DueAdvances ==
  [][pc = "run" /\ pc' = "find" =>
       /\ TimeLess(due, time'[tmp'])
       /\ ~TimeLess((now + Interval[job]) % M, time'[tmp'])
       /\ ~TimeLess(time'[tmp'], now)]_vars

\* sys_check_timeouts returns, although timers are put back while it runs and
\* the clock goes on.
CheckReturns == pc # "idle" ~> pc = "idle"

\* Every cyclic timer runs again and again.
EveryTimerRuns == \A x \in Cyclic : []<>(pc = "run" /\ job = x)
=============================================================================
