----------------------------- MODULE LossyFifo -----------------------------
(***************************************************************************)
(* What the frame pipeline of a task promises to the consumer of its topic:*)
(* frames may be lost, but none arrives twice, out of order, or unwritten. *)
(***************************************************************************)
EXTENDS Naturals

VARIABLES
  written,   (* number of frames the decoder has numbered: 0..written-1     *)
  delivered  (* the numbers of the frames that have reached the topic       *)

fifoVars == <<written, delivered>>

FifoInit == written = 0 /\ delivered = {}

Write ==
  /\ written' = written + 1
  /\ UNCHANGED delivered

Deliver ==
  /\ \E i \in 0..(written - 1) :
       /\ \A j \in delivered : j < i
       /\ delivered' = delivered \cup {i}
  /\ UNCHANGED written

FifoNext == Write \/ Deliver

FifoSpec == FifoInit /\ [][FifoNext]_fifoVars
=============================================================================
