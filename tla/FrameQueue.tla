----------------------------- MODULE FrameQueue -----------------------------
(***************************************************************************)
(* What the receive side of the Ethernet driver promises its client: a     *)
(* queue of received frames that hands over or drops the oldest one.       *)
(* Frames are never invented, altered, repeated or reordered.  Before the  *)
(* interface is ready the queue may be emptied as a whole.                 *)
(***************************************************************************)
EXTENDS Sequences

CONSTANT Frame

VARIABLES
  queue,   \* frames received and not yet handed over, oldest first
  out,     \* frames handed over
  ready    \* has start-up finished?

vars == <<queue, out, ready>>

Init == queue = <<>> /\ out = <<>> /\ ready = FALSE

Arrive  == /\ \E f \in Frame : queue' = Append(queue, f)
           /\ UNCHANGED <<out, ready>>
Purge   == ~ready /\ queue' = <<>> /\ UNCHANGED <<out, ready>>
Ready   == ready' = TRUE /\ UNCHANGED <<queue, out>>
Deliver == /\ ready /\ queue # <<>>
           /\ out' = Append(out, Head(queue)) /\ queue' = Tail(queue)
           /\ UNCHANGED ready
Drop    == /\ ready /\ queue # <<>>
           /\ queue' = Tail(queue)
           /\ UNCHANGED <<out, ready>>

Next == Arrive \/ Purge \/ Ready \/ Deliver \/ Drop
Spec == Init /\ [][Next]_vars
=============================================================================
