--------------------------- MODULE MCSysTimeouts ---------------------------
(***************************************************************************)
(* A small instance of SysTimeouts: two cyclic timers and the TCP timer.   *)
(***************************************************************************)
EXTENDS SysTimeouts

MCInterval == [arp |-> 3, dhcp |-> 2, tcp |-> 1]
=============================================================================
