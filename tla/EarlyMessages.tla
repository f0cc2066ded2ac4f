---------------------------- MODULE EarlyMessages ----------------------------
(***************************************************************************)
(* The receiving side of a data channel while its channel is being set up: *)
(* the early-message buffer of WebRTCDataChannel (webrtc_data_channel.rs)  *)
(* and its handover to the channel's own handler, in                       *)
(* setup_channel_for_data_channel (tube_and_channel_helpers.rs).           *)
(*                                                                         *)
(* The transport hands messages to the on_message handler one at a time,   *)
(* and picks the handler when it dispatches; the handler's future then     *)
(* runs beside the task that replaces it.                                  *)
(***************************************************************************)
EXTENDS Integers, Sequences, SequencesExt, FiniteSets

CONSTANT MaxMessages  \* bound: messages the peer sends

ASSUME MessagesAssumption == MaxMessages \in Nat

Messages == 1..MaxMessages
Idle == [message |-> 0, step |-> "idle"]

VARIABLES
  arrived,                \* messages dispatched so far
  on_message,             \* the handler new messages are dispatched to
  dispatch,               \* the message being handled, and what comes next
  early_buffering_active,
  early_message_buffer,
  setup,                  \* where setup_channel_for_data_channel stands
  early_messages,         \* what take_early_messages returned, still to forward
  rx,                     \* messages the channel has received, in order
  captured                \* history: messages the early handler buffered

vars == <<arrived, on_message, dispatch, early_buffering_active,
          early_message_buffer, setup, early_messages, rx, captured>>

Init ==
  /\ arrived = 0
  /\ on_message = "early"
  /\ dispatch = Idle
  /\ early_buffering_active = TRUE
  /\ early_message_buffer = << >>
  /\ setup = "set_handler"
  /\ early_messages = << >>
  /\ rx = << >>
  /\ captured = {}

-----------------------------------------------------------------------------
\* The transport's read loop and the two handlers.

Dispatch ==
  /\ dispatch = Idle /\ arrived < MaxMessages
  /\ arrived' = arrived + 1
  /\ dispatch' = [message |-> arrived + 1, step |-> on_message]
  /\ UNCHANGED <<on_message, early_buffering_active, early_message_buffer, setup,
                 early_messages, rx, captured>>

\* The early handler: look at the flag, then buffer the message or drop it.
EarlyCheck ==
  /\ dispatch.step = "early"
  /\ dispatch' = IF early_buffering_active
                 THEN [dispatch EXCEPT !.step = "push"] ELSE Idle
  /\ UNCHANGED <<arrived, on_message, early_buffering_active, early_message_buffer,
                 setup, early_messages, rx, captured>>

EarlyPush ==
  /\ dispatch.step = "push"
  /\ early_message_buffer' = Append(early_message_buffer, dispatch.message)
  /\ captured' = captured \cup {dispatch.message}
  /\ dispatch' = Idle
  /\ UNCHANGED <<arrived, on_message, early_buffering_active, setup,
                 early_messages, rx>>

\* The channel's handler sends the message to the channel's queue.
ChannelReceive ==
  /\ dispatch.step = "channel"
  /\ rx' = Append(rx, dispatch.message)
  /\ dispatch' = Idle
  /\ UNCHANGED <<arrived, on_message, early_buffering_active,
                 early_message_buffer, setup, early_messages, captured>>

-----------------------------------------------------------------------------
\* setup_channel_for_data_channel.

SetHandler ==
  /\ setup = "set_handler"
  /\ on_message' = "channel"
  /\ setup' = "stop_buffering"
  /\ UNCHANGED <<arrived, dispatch, early_buffering_active, early_message_buffer,
                 early_messages, rx, captured>>

\* Mutant: the flag goes first, before SetHandler.
StopBuffering_first ==
  /\ setup \in {"set_handler", "stop_buffering"} /\ early_buffering_active
  /\ early_buffering_active' = FALSE
  /\ setup' = IF setup = "set_handler" THEN setup ELSE "drain"
  /\ UNCHANGED <<arrived, on_message, dispatch, early_message_buffer,
                 early_messages, rx, captured>>

StopBuffering ==
  /\ setup = "stop_buffering"
  /\ early_buffering_active' = FALSE
  /\ setup' = "drain"
  /\ UNCHANGED <<arrived, on_message, dispatch, early_message_buffer,
                 early_messages, rx, captured>>

\* Mutant: the messages are copied out of the buffer last in, first out.
DrainEarly_reversed ==
  /\ setup = "drain"
  /\ early_messages' = Reverse(early_message_buffer)
  /\ early_message_buffer' = << >>
  /\ setup' = "forward"
  /\ UNCHANGED <<arrived, on_message, dispatch, early_buffering_active, rx, captured>>

\* Pop until the queue is empty: only this task pops, so the messages are a
\* prefix of what was pushed.
DrainEarly ==
  /\ setup = "drain"
  /\ early_messages' = early_message_buffer
  /\ early_message_buffer' = << >>
  /\ setup' = "forward"
  /\ UNCHANGED <<arrived, on_message, dispatch, early_buffering_active, rx, captured>>

ForwardEarly ==
  /\ setup = "forward" /\ early_messages # << >>
  /\ rx' = Append(rx, Head(early_messages))
  /\ early_messages' = Tail(early_messages)
  /\ UNCHANGED <<arrived, on_message, dispatch, early_buffering_active,
                 early_message_buffer, setup, captured>>

SetupDone ==
  /\ setup = "forward" /\ early_messages = << >>
  /\ setup' = "done"
  /\ UNCHANGED <<arrived, on_message, dispatch, early_buffering_active,
                 early_message_buffer, early_messages, rx, captured>>

Next ==
  \/ Dispatch \/ EarlyCheck \/ EarlyPush \/ ChannelReceive
  \/ SetHandler \/ StopBuffering \/ DrainEarly \/ ForwardEarly \/ SetupDone

Spec == Init /\ [][Next]_vars

-----------------------------------------------------------------------------
\* Properties.

\* The buffers hold messages that have arrived, whatever the two tasks do.
TypeOK ==
  /\ arrived \in 0..MaxMessages
  /\ on_message \in {"early", "channel"}
  /\ dispatch \in [message : 0..MaxMessages, step : {"idle", "early", "push", "channel"}]
  /\ early_buffering_active \in BOOLEAN
  /\ early_message_buffer \in Seq(Messages)
  /\ setup \in {"set_handler", "stop_buffering", "drain", "forward", "done"}
  /\ early_messages \in Seq(Messages)
  /\ rx \in Seq(Messages)
  /\ captured \in SUBSET Messages

\* Messages that have been handled, and that nothing will ever forward: not
\* received, not in the list being forwarded, and not in a buffer that will
\* still be drained.
Missing ==
  {m \in 1..arrived :
     /\ m \notin ToSet(rx) /\ m # dispatch.message
     /\ m \notin ToSet(early_messages)
     /\ setup \in {"forward", "done"} \/ m \notin ToSet(early_message_buffer)}

\* The handover costs at most one message, the one the early handler was in
\* the middle of: the order in which the handler, the flag and the buffer are
\* switched protects all the others.
LosesAtMostOne == Cardinality(Missing) <= 1

\* The captured messages are forwarded in arrival order, and so are the ones
\* the channel's handler takes: only the two streams can interleave.
StreamsInOrder ==
  \A i, j \in DOMAIN rx :
    i < j /\ (rx[i] \in captured <=> rx[j] \in captured) => rx[i] < rx[j]
==============================================================================
