---------------------------- MODULE EthFrameTest ----------------------------
(***************************************************************************)
(* UnitTest/test_04_ethframe.c: the receive loop of module RecvLoop runs in *)
(* the receive interrupt while main polls recv_flag and prints inframe, and *)
(* printEtherFrame turns the receiver off and on again around the printing. *)
(***************************************************************************)
EXTENDS RecvLoop

CONSTANT MaxRestarts  \* bound: calls of EMAC_ENABLE_RX by main

ASSUME RestartAssumption == MaxRestarts \in Nat

VARIABLES
  mpc,      \* where main is
  flag,     \* recv_flag
  restarts  \* number of restarts of the receiver so far

mainVars == <<mpc, flag, restarts>>
testVars == <<vars, mainVars>>

\* main prints its own frame, whose type matches, before it starts to poll.
TestInit ==
  /\ Init
  /\ mpc = "off"
  /\ flag = FALSE
  /\ restarts = 0

-----------------------------------------------------------------------------
\* The handler sets recv_flag first, then runs the loop.
EMAC_RX_IRQHandler ==
  \/ Enter /\ flag' = TRUE /\ UNCHANGED <<mpc, restarts>>
  \/ /\ ReadStatus \/ ClearStatus \/ CheckDesc \/ Process \/ RecvDone \/ Return
     /\ UNCHANGED mainVars

\* main proceeds only while no interrupt is active or pending.
MainStep(from, to) == pc = "idle" /\ ~pend /\ mpc = from /\ mpc' = to

Poll ==
  /\ MainStep("poll", "type")
  /\ flag
  /\ UNCHANGED <<vars, flag, restarts>>

\* printEtherFrame returns early for a frame of another type.
CheckType ==
  /\ \/ MainStep("type", "off")
     \/ MainStep("type", "clear")
  /\ UNCHANGED <<vars, flag, restarts>>

DisableRx ==
  /\ MainStep("off", "on")
  /\ EMAC_DISABLE_RX
  /\ UNCHANGED <<loopVars, flag, restarts>>

\* After the first frame main goes on to poll; later it also clears recv_flag.
EnableRx ==
  /\ MainStep("on", IF restarts = 0 THEN "poll" ELSE "clear")
  /\ restarts < MaxRestarts
  /\ EMAC_ENABLE_RX
  /\ restarts' = restarts + 1
  /\ UNCHANGED <<loopVars, flag>>

ClearFlag ==
  /\ MainStep("clear", "poll")
  /\ flag' = FALSE
  /\ UNCHANGED <<vars, restarts>>

TestMain == Poll \/ CheckType \/ DisableRx \/ EnableRx \/ ClearFlag

TestNext ==
  \/ EMAC_RX_IRQHandler
  \/ TestMain
  \/ Hardware /\ UNCHANGED mainVars

TestSpec == TestInit /\ [][TestNext]_testVars
-----------------------------------------------------------------------------
\* No frame is copied to inframe twice, however often the receiver has been
\* restarted: a descriptor is given back before its frame can be read again.
AtMostOnce == \A j, k \in 1 .. Len(up) : up[j] = up[k] => j = k
=============================================================================
