------------------------------ MODULE TapTunnel ------------------------------
(***************************************************************************)
(* What the send path of the TAP adapter promises to its two users: a      *)
(* lossless-until-flushed FIFO between the frames the host transmits and   *)
(* the read requests of the application that has the TAP device open.      *)
(*                                                                         *)
(* The oldest frame always goes to the oldest waiting read, one frame per  *)
(* read, and a frame and a read are never both left waiting for ever.      *)
(* TapSendPath implements this module (its property TunnelRefinement).     *)
(***************************************************************************)
EXTENDS Naturals, Sequences, SequencesExt

CONSTANTS
  Frames,   \* the identities of Ethernet frames
  Reads     \* the identities of read requests

VARIABLES
  chan,     \* frames accepted and not yet handed over, oldest first
  waiting   \* read requests not yet answered, oldest first

tunnelVars == <<chan, waiting>>

TunnelInit == chan = <<>> /\ waiting = <<>>

\* The host transmits a frame.
Transmit(f) ==
  /\ chan' = Append(chan, f)
  /\ UNCHANGED waiting

\* The application issues a read.
Read(r) ==
  /\ r \notin ToSet(waiting)
  /\ waiting' = Append(waiting, r)
  /\ UNCHANGED chan

\* The oldest frame answers the oldest read.
Deliver ==
  /\ chan # <<>>
  /\ waiting # <<>>
  /\ chan' = Tail(chan)
  /\ waiting' = Tail(waiting)

\* A waiting read is withdrawn, wherever it stands in the queue.
Withdraw(r) ==
  /\ \E i \in DOMAIN waiting :
       /\ waiting[i] = r
       /\ waiting' = RemoveAt(waiting, i)
  /\ UNCHANGED chan

\* The device is closed or destroyed: every frame not handed over is dropped.
Flush ==
  /\ chan' = <<>>
  /\ UNCHANGED waiting

TunnelNext ==
  \/ \E f \in Frames : Transmit(f)
  \/ \E r \in Reads : Read(r) \/ Withdraw(r)
  \/ Deliver
  \/ Flush

TunnelSpec == TunnelInit /\ [][TunnelNext]_tunnelVars

\* Frames and reads that wait together are eventually matched.
TunnelFairness == WF_tunnelVars(Deliver)
=============================================================================
