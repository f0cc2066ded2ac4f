------------------------------ MODULE FramePath ------------------------------
(***************************************************************************)
(* The way of a frame from an outbound task to the run loop of the peer's  *)
(* channel, with fragmentation enabled: fragment_frame (assembler.rs) cuts *)
(* large frames, the senders hand the pieces to the data channel, the      *)
(* early-message handover passes them on, and process_fragment (core.rs)   *)
(* puts the frames together again.                                         *)
(*                                                                         *)
(* The module composes the receiving side, EarlyMessages, with the promise *)
(* of the senders, FrameDelivery (which EventDrivenSender implements): a   *)
(* piece may overtake others of its connection, be refused, or be lost     *)
(* with a batch; between connections the pieces interleave freely.         *)
(*                                                                         *)
(* A frame is named by its connection and number, its payload is the       *)
(* sequence of its chunks.                                                 *)
(***************************************************************************)
EXTENDS EarlyMessages

CONSTANTS
  Conns,         \* connections of the sending channel
  MaxPieces,     \* bound: pieces a connection hands over
  Quota,         \* bound: the same, per connection
  MaxLost,       \* bound: no refusal or loss once this many pieces are gone
  BatchLimit,    \* pieces that can be lost at once
  Sizes,         \* sizes of frames, in chunks; 1 is below the threshold
  MaxFragments,  \* DEFAULT_MAX_FRAGMENTS
  Word           \* values of STANDALONE_SEQ_ID

ASSUME PathAssumption ==
  /\ MaxPieces \in Nat /\ MaxLost \in Nat /\ BatchLimit \in Nat /\ MaxFragments \in Nat
  /\ Quota \in [Conns -> 0..MaxPieces]
  /\ Sizes \subseteq Nat \ {0}
  /\ Word \in Nat \ {0}

VARIABLES
  plan,     \* per connection, the pieces of the frames produced so far
  next_seq, \* ids taken from STANDALONE_SEQ_ID
  fate, ended, wire,  \* the transport: see FrameDelivery
  consumed, \* messages of rx the run loop has processed
  pending,  \* pending_fragments: per id in use, its FragmentBuffer
  buf       \* payloads the run loop has appended, one per message

senderVars == <<plan, next_seq>>
transportVars == <<fate, ended, wire>>
receiverVars == <<consumed, pending, buf>>
pathVars == <<vars, senderVars, transportVars, receiverVars>>

Senders == INSTANCE FrameDelivery WITH MaxFrames <- MaxPieces

PathInit ==
  /\ Init
  /\ plan = [c \in Conns |-> << >>] /\ next_seq = 0
  /\ Senders!Init
  /\ consumed = 0 /\ pending = << >> /\ buf = << >>

-----------------------------------------------------------------------------
(* The sending channel.                                                    *)

\* The payload of frame f.
Payload(f) == [i \in 1..f.size |-> [frame |-> f, chunk |-> i]]

Whole(f) == [total |-> 0, payload |-> Payload(f)]

\* FragmentHeader::new and the chunk it precedes.
Fragment(f, seq, i, total) ==
  [seq |-> seq, idx |-> i - 1, total |-> total, payload |-> <<Payload(f)[i]>>]

\* fragment_frame: only a frame above the threshold that needs no more than
\* the allowed fragments is cut.
Fragmented(f) == f.size > 1 /\ f.size <= MaxFragments

\* Mutant: every connection numbers its own frames.
Produce_own_ids(c, size) ==
  LET f == [conn |-> c, no |-> Len(plan[c]) + 1, size |-> size]
      pieces == IF Fragmented(f)
                THEN [i \in 1..size |-> Fragment(f, Len(plan[c]) % Word, i, size)]
                ELSE <<Whole(f)>>
  IN  /\ Len(plan[c]) + Len(pieces) <= Quota[c]
      /\ \A n \in DOMAIN plan[c] : fate[<<c, n>>] # "unread"
      /\ plan' = [plan EXCEPT ![c] = @ \o pieces]
      /\ next_seq' = IF Fragmented(f) THEN next_seq + 1 ELSE next_seq
      /\ Senders!Accept(c)
      /\ UNCHANGED <<vars, receiverVars>>

\* An outbound task has a frame to send, and no piece of the last one left to
\* hand over: it cuts the frame and hands over the first piece.  The id is
\* drawn from a counter that all tasks share.
Produce(c, size) ==
  LET f == [conn |-> c, no |-> Len(plan[c]) + 1, size |-> size]
      pieces == IF Fragmented(f)
                THEN [i \in 1..size |-> Fragment(f, next_seq % Word, i, size)]
                ELSE <<Whole(f)>>
  IN  /\ Len(plan[c]) + Len(pieces) <= Quota[c]
      /\ \A n \in DOMAIN plan[c] : fate[<<c, n>>] # "unread"
      /\ plan' = [plan EXCEPT ![c] = @ \o pieces]
      /\ next_seq' = IF Fragmented(f) THEN next_seq + 1 ELSE next_seq
      /\ Senders!Accept(c)
      /\ UNCHANGED <<vars, receiverVars>>

\* send_with_event_backpressure hands the pieces to the sender one by one; a
\* refusal ends the task with the rest of the frame unsent.
HandOver(c) ==
  /\ \E n \in DOMAIN plan[c] : fate[<<c, n>>] = "unread"
  /\ Senders!Accept(c)
  /\ UNCHANGED <<vars, senderVars, receiverVars>>

Lost == {f \in Senders!Frames : fate[f] \in {"refused", "dropped"}}

Transport ==
  /\ \/ /\ Cardinality(Lost) < MaxLost
        /\ \E c \in Conns : Senders!Refuse(c) \/ Senders!Drop(c)
     \/ /\ Len(wire) < MaxMessages
        /\ \E f \in Senders!Frames : Senders!Send(f)
  /\ UNCHANGED <<vars, senderVars, receiverVars>>

-----------------------------------------------------------------------------
(* The receiving channel.                                                  *)

\* Message m of EarlyMessages is what the data channel carried m-th.
Piece(m) == plan[wire[m][1]][wire[m][2]]

\* The early-message buffer and its handover (EarlyMessages) see what the
\* data channel has carried.
Receive ==
  /\ Next
  /\ arrived' <= Len(wire)
  /\ UNCHANGED <<senderVars, transportVars, receiverVars>>

\* A map with one key set: the slot of a fragment, the buffer of an id.
Insert(map, key, value) ==
  [k \in DOMAIN map \cup {key} |-> IF k = key THEN value ELSE map[k]]

\* FragmentBuffer::add_fragment on the buffer of the piece's id, or a new one.
Added(p) ==
  LET buffer == IF p.seq \in DOMAIN pending THEN pending[p.seq]
                ELSE [total |-> p.total, got |-> << >>]
  IN  IF p.idx >= buffer.total \/ p.idx \in DOMAIN buffer.got THEN buffer
      ELSE [buffer EXCEPT !.got = Insert(@, p.idx, p.payload[1])]

\* FragmentBuffer::reassemble: the chunks by their indices.
Reassemble(buffer) == [i \in 1..buffer.total |-> buffer.got[i - 1]]

Without(seq) == [s \in DOMAIN pending \ {seq} |-> pending[s]]

\* Mutant: a complete buffer is not removed.
ProcessFragment_keeps(p) ==
  LET buffer == Added(p) IN
  /\ pending' = Insert(pending, p.seq, buffer)
  /\ IF Cardinality(DOMAIN buffer.got) = buffer.total
     THEN buf' = Append(buf, Reassemble(buffer))
     ELSE UNCHANGED buf

\* Channel::process_fragment.
ProcessFragment(p) ==
  LET buffer == Added(p) IN
  IF Cardinality(DOMAIN buffer.got) = buffer.total
  THEN /\ buf' = Append(buf, Reassemble(buffer))
       /\ pending' = Without(p.seq)
  ELSE /\ pending' = Insert(pending, p.seq, buffer)
       /\ UNCHANGED buf

\* Channel::run, spawned once the channel is set up, takes the next message;
\* what is no fragment is appended as it is.
Consume ==
  /\ setup = "done" /\ consumed < Len(rx)
  /\ consumed' = consumed + 1
  /\ LET p == Piece(rx[consumed + 1]) IN
     IF p.total > 0 THEN ProcessFragment(p)
     ELSE buf' = Append(buf, p.payload) /\ UNCHANGED pending
  /\ UNCHANGED <<vars, senderVars, transportVars>>

PathNext ==
  \/ \E c \in Conns : HandOver(c) \/ \E size \in Sizes : Produce(c, size)
  \/ Transport \/ Receive \/ Consume

PathSpec == PathInit /\ [][PathNext]_pathVars

-----------------------------------------------------------------------------
\* Properties.

Pieces == UNION {ToSet(plan[c]) : c \in Conns}
Frames == {p.payload[1].frame : p \in Pieces}
FragmentsOf(f) == {p \in Pieces : p.payload[1].frame = f}

\* Whatever the senders and the handover do to the pieces, interleave,
\* overtake or lose them, what the run loop appends is a whole frame, and no
\* frame is appended twice, as long as the ids have not wrapped around.
FramesIntact ==
  next_seq <= Word =>
    /\ \A i \in DOMAIN buf : \E f \in Frames : buf[i] = Payload(f)
    /\ IsInjective(buf)

Consumed == {Piece(rx[i]) : i \in 1..consumed}

\* A frame all of whose pieces have reached the run loop has been appended, and
\* has left no buffer behind: the loss of a piece costs no frame but its own.
CompleteDelivered ==
  next_seq <= Word =>
    \A f \in Frames : FragmentsOf(f) \subseteq Consumed =>
      /\ Payload(f) \in ToSet(buf)
      /\ \A s \in DOMAIN pending : \A i \in DOMAIN pending[s].got :
           pending[s].got[i].frame # f
=============================================================================
