---------------------------- MODULE FrameDelivery ----------------------------
(***************************************************************************)
(* What the senders of a channel promise their read loops, without queue,  *)
(* counter, callback or batches: every frame a read loop hands over is     *)
(* held until it is given to the transport, refused to the caller's face,  *)
(* or dropped with the rest of a failed batch.  A frame meets exactly one  *)
(* of these fates, once, and a refused frame is the connection's last.     *)
(***************************************************************************)
EXTENDS Naturals, Sequences, FiniteSets

CONSTANTS
  Conns,      \* connections, one sender each
  MaxFrames,  \* frames a connection may hand over
  BatchLimit  \* frames that can be lost at once

VARIABLES
  fate,   \* per frame: unread, held, sent, refused or dropped
  ended,  \* connections whose read loop has been refused a frame
  wire    \* frames given to the transport, in order

vars == <<fate, ended, wire>>

Frames == Conns \X (1..MaxFrames)

Init ==
  /\ fate = [f \in Frames |-> "unread"]
  /\ ended = {}
  /\ wire = << >>

\* A read loop hands over its next frame.
Accept(c) ==
  \E n \in 1..MaxFrames :
    /\ c \notin ended
    /\ \A m \in 1..MaxFrames : fate[<<c, m>>] = "unread" <=> m >= n
    /\ fate' = [fate EXCEPT ![<<c, n>>] = "held"]
    /\ UNCHANGED <<ended, wire>>

\* The transport takes a frame.
Send(f) ==
  /\ fate[f] = "held"
  /\ fate' = [fate EXCEPT ![f] = "sent"]
  /\ wire' = Append(wire, f)
  /\ UNCHANGED ended

\* A read loop is told that the frame it just handed over was not accepted,
\* and ends.
Refuse(c) ==
  \E n \in 1..MaxFrames :
    /\ fate[<<c, n>>] = "held"
    /\ \A m \in (n + 1)..MaxFrames : fate[<<c, m>>] = "unread"
    /\ fate' = [fate EXCEPT ![<<c, n>>] = "refused"]
    /\ ended' = ended \cup {c}
    /\ UNCHANGED wire

\* Frames of one connection are lost together: they need not be neighbours,
\* for a frame of the fast path may have overtaken those around it.
Drop(c) ==
  \E batch \in SUBSET {f \in Frames : f[1] = c /\ fate[f] = "held"} :
    /\ Cardinality(batch) \in 1..BatchLimit
    /\ fate' = [f \in Frames |-> IF f \in batch THEN "dropped" ELSE fate[f]]
    /\ UNCHANGED <<ended, wire>>

Next ==
  \/ \E c \in Conns : Accept(c) \/ Refuse(c) \/ Drop(c)
  \/ \E f \in Frames : Send(f)

Spec == Init /\ [][Next]_vars
==============================================================================
