----------------------------- MODULE FrameQueue -----------------------------
(***************************************************************************)
(* What a descriptor ring promises its users: a queue of at most Capacity  *)
(* frames that loses, repeats and reorders nothing.  RecvLoop implements   *)
(* it from the DMA to process_rx_packet, EmacTx from low_level_output to   *)
(* the wire.                                                               *)
(***************************************************************************)
EXTENDS Naturals, Sequences

CONSTANT Capacity

VARIABLES
  accepted,  \* number of frames put in; a frame is the number of its arrival
  out        \* the frames taken out, in order

queueVars == <<accepted, out>>

Init == accepted = 0 /\ out = <<>>

Put ==
  /\ accepted - Len(out) < Capacity
  /\ accepted' = accepted + 1
  /\ UNCHANGED out

Get ==
  /\ Len(out) < accepted
  /\ out' = Append(out, Len(out) + 1)
  /\ UNCHANGED accepted

Spec == Init /\ [][Put \/ Get]_queueVars
=============================================================================
