-------------------------- MODULE EventDrivenSender --------------------------
(***************************************************************************)
(* EventDrivenSender of webrtc_data_channel.rs: the queue between the      *)
(* read loop of a connection (channel/connections.rs, channel/server.rs)   *)
(* and the data channel all connections of a channel share.                *)
(*                                                                         *)
(* Each connection's read loop builds its own sender and is its only       *)
(* caller.  A send either goes straight to the data channel or is queued;  *)
(* the queue is emptied by the bufferedAmountLow callback, of which the    *)
(* data channel holds ONE, the last that was registered, and which spawns  *)
(* a task per batch.  Everything shared is atomics and a lock-free queue,  *)
(* so every atomic access is a step.                                       *)
(*                                                                         *)
(* This is the release build: the debug_assert on the counter is not       *)
(* compiled in; underflowed remembers the counters that would trip it.     *)
(***************************************************************************)
EXTENDS Integers, Sequences, SequencesExt, FiniteSets

CONSTANTS
  Conns,         \* connections of the channel, one sender each
  MaxFrames,     \* bound: frames any read loop sends
  FramesOf,      \* bound: frames the read loop of each connection sends
  MaxQueue,      \* the queue limit (10000)
  BatchLimit,    \* frames one callback takes (2000)
  Word,          \* number of values of the usize counter
  SctpCapacity,  \* frames the transport buffers before a send fails
  LowThreshold   \* the bufferedAmountLow threshold, in frames

ASSUME SenderAssumption ==
  /\ IsFiniteSet(Conns)
  /\ MaxFrames \in Nat /\ FramesOf \in [Conns -> 0..MaxFrames]
  /\ MaxQueue \in Nat /\ BatchLimit \in Nat \ {0}
  /\ Word \in Nat /\ MaxQueue < Word /\ BatchLimit < Word
  /\ SctpCapacity \in Nat /\ LowThreshold \in Nat

None == "none"
NoCallback == [stage |-> "idle", conn |-> None, to_send |-> << >>]

Frames == Conns \X (1..MaxFrames)

VARIABLES
  can_send,       \* per sender: the fast-path flag
  pending_frames, \* per sender: the SegQueue
  queue_size,     \* per sender: the counter beside it
  pc,             \* per sender: where its read loop stands
  frame,          \* per sender: number of the frame in hand, or handed over last
  registered,     \* sender whose drain callback the data channel holds
  callback,       \* the running callback (it runs under the slot's mutex)
  batches,        \* what the spawned batch tasks still have to send
  is_closing,     \* the data channel was closed
  buffered,       \* frames in the transport's buffer
  low_event,      \* a bufferedAmountLow event that has not reached the slot yet
  wire,           \* history: frames the transport accepted, in order
  lost,           \* history: frames dropped by a batch task whose send failed
  rejected,       \* history: frames send_with_natural_backpressure refused
  underflowed     \* history: senders whose counter went below zero

senderVars == <<can_send, pending_frames, queue_size>>
callbackVars == <<registered, callback, batches>>
transportVars == <<is_closing, buffered, low_event, wire>>
historyVars == <<lost, rejected, underflowed>>
vars == <<senderVars, pc, frame, callbackVars, transportVars, historyVars>>

InHand(c) == <<c, frame[c]>>

Init ==
  /\ can_send = [c \in Conns |-> TRUE]
  /\ pending_frames = [c \in Conns |-> << >>]
  /\ queue_size = [c \in Conns |-> 0]
  /\ pc = [c \in Conns |-> "new"]
  /\ frame = [c \in Conns |-> 0]
  /\ registered = None
  /\ callback = NoCallback
  /\ batches = {}
  /\ is_closing = FALSE
  /\ buffered = 0
  /\ low_event = FALSE
  /\ wire = << >>
  /\ lost = {} /\ rejected = {} /\ underflowed = {}

Goto(c, from, to) == pc[c] = from /\ pc' = [pc EXCEPT ![c] = to]

-----------------------------------------------------------------------------
\* The data channel as the senders use it: a send fails for good once the
\* channel is closing, and for now while the transport's buffer is full.

SendSucceeds == ~is_closing /\ buffered < SctpCapacity

Transmit(f) ==
  /\ SendSucceeds
  /\ wire' = Append(wire, f)
  /\ buffered' = buffered + 1
  /\ UNCHANGED <<is_closing, low_event>>

\* The transport delivers a frame; crossing the threshold raises the event.
SctpAck ==
  /\ buffered > 0 /\ ~low_event
  /\ buffered' = buffered - 1
  /\ low_event' = (buffered = LowThreshold + 1)
  /\ UNCHANGED <<senderVars, pc, frame, callbackVars, is_closing, wire, historyVars>>

close ==
  /\ ~is_closing
  /\ is_closing' = TRUE
  /\ UNCHANGED <<senderVars, pc, frame, callbackVars, buffered, low_event, wire, historyVars>>

-----------------------------------------------------------------------------
\* A sender: EventDrivenSender::new and send_with_natural_backpressure.

\* Registering the drain callback replaces the one that was there, and waits
\* for the slot's mutex while a callback runs.
New(c) ==
  /\ Goto(c, "new", "idle")
  /\ callback.stage = "idle"
  /\ registered' = c
  /\ UNCHANGED <<senderVars, frame, callback, batches, transportVars, historyVars>>

Call(c) ==
  /\ frame[c] < FramesOf[c]
  /\ Goto(c, "idle", IF can_send[c] THEN "send" ELSE "check")
  /\ frame' = [frame EXCEPT ![c] = @ + 1]
  /\ UNCHANGED <<senderVars, callbackVars, transportVars, historyVars>>

SendNow(c) ==
  /\ Goto(c, "send", "idle")
  /\ Transmit(InHand(c))
  /\ UNCHANGED <<senderVars, frame, callbackVars, historyVars>>

\* Mutant: the read loop goes on after an error.
Refuse_goes_on(c, from) ==
  /\ Goto(c, from, "idle")
  /\ rejected' = rejected \cup {InHand(c)}
  /\ UNCHANGED <<senderVars, frame, callbackVars, transportVars, lost, underflowed>>

\* Every error ends the read loop.
Refuse(c, from) ==
  /\ Goto(c, from, "exited")
  /\ rejected' = rejected \cup {InHand(c)}
  /\ UNCHANGED <<senderVars, frame, callbackVars, transportVars, lost, underflowed>>

SendClosed(c) == is_closing /\ Refuse(c, "send")

SendFailsTemporarily(c) ==
  /\ ~is_closing /\ ~SendSucceeds
  /\ Goto(c, "send", "stop")
  /\ UNCHANGED <<senderVars, frame, callbackVars, transportVars, historyVars>>

StopSending(c) ==
  /\ Goto(c, "stop", "check")
  /\ can_send' = [can_send EXCEPT ![c] = FALSE]
  /\ UNCHANGED <<pending_frames, queue_size, frame, callbackVars, transportVars, historyVars>>

\* Mutant: a full queue takes one frame more.
QueueHasRoom_off_by_one(c) ==
  /\ queue_size[c] <= MaxQueue
  /\ Goto(c, "check", "push")
  /\ UNCHANGED <<senderVars, frame, callbackVars, transportVars, historyVars>>

\* The high-queue monitoring between this check and the push only logs.
QueueHasRoom(c) ==
  /\ queue_size[c] < MaxQueue
  /\ Goto(c, "check", "push")
  /\ UNCHANGED <<senderVars, frame, callbackVars, transportVars, historyVars>>

QueueFull(c) == queue_size[c] >= MaxQueue /\ Refuse(c, "check")

Push(c) ==
  /\ Goto(c, "push", "count")
  /\ pending_frames' = [pending_frames EXCEPT ![c] = Append(@, InHand(c))]
  /\ UNCHANGED <<can_send, queue_size, frame, callbackVars, transportVars, historyVars>>

\* fetch_add and fetch_sub of the counter wrap.
WrappingAdd(n) == IF n + 1 = Word THEN 0 ELSE n + 1
WrappingSub(n, k) == IF n >= k THEN n - k ELSE n + Word - k

Count(c) ==
  /\ Goto(c, "count", "idle")
  /\ queue_size' = [queue_size EXCEPT ![c] = WrappingAdd(@)]
  /\ UNCHANGED <<can_send, pending_frames, frame, callbackVars, transportVars, historyVars>>

-----------------------------------------------------------------------------
\* The drain callback, and the batch tasks it spawns.

AllowSending ==
  /\ low_event /\ registered # None  \* a callback is set before anything is sent
  /\ callback.stage = "idle"
  /\ low_event' = FALSE
  /\ can_send' = [can_send EXCEPT ![registered] = TRUE]
  /\ callback' = [stage |-> "pop", conn |-> registered, to_send |-> << >>]
  /\ UNCHANGED <<pending_frames, queue_size, pc, frame, registered, batches,
                 is_closing, buffered, wire, historyVars>>

\* Frames one callback takes off the queue of sender c.
Taken(c) == IF Len(pending_frames[c]) <= BatchLimit THEN Len(pending_frames[c])
                                                    ELSE BatchLimit

\* Mutant: the drain skips the frame behind those it takes.
Pop_skips ==
  LET c == callback.conn IN
  /\ callback.stage = "pop"
  /\ callback' = [callback EXCEPT !.stage = "subtract",
                                  !.to_send = SubSeq(pending_frames[c], 1, Taken(c))]
  /\ pending_frames' =
       [pending_frames EXCEPT ![c] = SubSeq(@, Taken(c) + 2, Len(@))]
  /\ UNCHANGED <<can_send, queue_size, pc, frame, registered, batches,
                 transportVars, historyVars>>

Pop ==
  LET c == callback.conn IN
  /\ callback.stage = "pop"
  /\ callback' = [callback EXCEPT !.stage = "subtract",
                                  !.to_send = SubSeq(pending_frames[c], 1, Taken(c))]
  /\ pending_frames' =
       [pending_frames EXCEPT ![c] = SubSeq(@, Taken(c) + 1, Len(@))]
  /\ UNCHANGED <<can_send, queue_size, pc, frame, registered, batches,
                 transportVars, historyVars>>

Spawn ==
  /\ batches' = IF callback.to_send = << >> THEN batches
                                            ELSE batches \cup {callback.to_send}
  /\ callback' = NoCallback

\* Mutant: the callback subtracts one, whatever the length of the batch.
Subtract_one ==
  LET c == callback.conn IN
  /\ callback.stage = "subtract"
  /\ queue_size' = [queue_size EXCEPT ![c] = IF @ >= 1 THEN @ - 1 ELSE 0]
  /\ Spawn
  /\ UNCHANGED <<can_send, pending_frames, pc, frame, registered, transportVars, historyVars>>

Subtract ==
  LET c == callback.conn
      k == Len(callback.to_send)
  IN
  /\ callback.stage = "subtract"
  /\ queue_size' = [queue_size EXCEPT ![c] = WrappingSub(@, k)]
  /\ IF queue_size[c] >= k
     THEN Spawn /\ UNCHANGED underflowed
     ELSE /\ callback' = [callback EXCEPT !.stage = "reset"]
          /\ underflowed' = underflowed \cup {c}
          /\ UNCHANGED batches
  /\ UNCHANGED <<can_send, pending_frames, pc, frame, registered, transportVars,
                 lost, rejected>>

Reset ==
  /\ callback.stage = "reset"
  /\ queue_size' = [queue_size EXCEPT ![callback.conn] = 0]
  /\ Spawn
  /\ UNCHANGED <<can_send, pending_frames, pc, frame, registered, transportVars, historyVars>>

BatchSend(b) ==
  /\ Transmit(Head(b))
  /\ batches' = (batches \ {b}) \cup (IF Len(b) = 1 THEN {} ELSE {Tail(b)})
  /\ UNCHANGED <<senderVars, pc, frame, registered, callback, historyVars>>

\* A failed send ends the task: this frame and those behind it are dropped.
BatchFails(b) ==
  /\ ~SendSucceeds
  /\ can_send' = [can_send EXCEPT ![Head(b)[1]] = FALSE]
  /\ batches' = batches \ {b}
  /\ lost' = lost \cup ToSet(b)
  /\ UNCHANGED <<pending_frames, queue_size, pc, frame, registered, callback,
                 transportVars, rejected, underflowed>>

-----------------------------------------------------------------------------
ReadLoop(c) ==
  \/ New(c) \/ Call(c)
  \/ SendNow(c) \/ SendClosed(c) \/ SendFailsTemporarily(c) \/ StopSending(c)
  \/ QueueHasRoom(c) \/ QueueFull(c) \/ Push(c) \/ Count(c)

Callback == AllowSending \/ Pop \/ Subtract \/ Reset

Batch == \E b \in batches : BatchSend(b) \/ BatchFails(b)

Next ==
  \/ \E c \in Conns : ReadLoop(c)
  \/ Callback
  \/ Batch
  \/ SctpAck
  \/ close

Spec == Init /\ [][Next]_vars

-----------------------------------------------------------------------------
\* Properties.

\* The counter is a usize, a batch is never empty, and a running callback has
\* a sender.
TypeOK ==
  /\ can_send \in [Conns -> BOOLEAN]
  /\ pending_frames \in [Conns -> Seq(Frames)]
  /\ queue_size \in [Conns -> 0..(Word - 1)]
  /\ pc \in [Conns -> {"new", "idle", "send", "stop", "check", "push", "count", "exited"}]
  /\ frame \in [Conns -> 0..MaxFrames]
  /\ registered \in Conns \cup {None}
  /\ callback \in [stage : {"idle", "pop", "subtract", "reset"},
                   conn : Conns \cup {None}, to_send : Seq(Frames)]
  /\ callback.stage # "idle" => callback.conn \in Conns
  /\ batches \in SUBSET (Seq(Frames) \ {<< >>})
  /\ is_closing \in BOOLEAN /\ low_event \in BOOLEAN
  /\ buffered \in Nat
  /\ wire \in Seq(Frames)
  /\ lost \in SUBSET Frames /\ rejected \in SUBSET Frames
  /\ underflowed \in SUBSET Conns

\* The frames taken off c's queue and not yet subtracted from its counter.
Unsubtracted(c) ==
  IF callback.stage = "subtract" /\ callback.conn = c THEN Len(callback.to_send) ELSE 0

\* 1 between the push of a frame and the increment of the counter.
Uncounted(c) == IF pc[c] = "count" THEN 1 ELSE 0

\* The counter and the queue agree, up to the push and the pop in progress,
\* as long as the counter of that sender has never underflowed, whatever the
\* read loop and the callback do in between.
CounterExact ==
  \A c \in Conns \ underflowed :
    queue_size[c] + Uncounted(c) = Len(pending_frames[c]) + Unsubtracted(c)

\* Then the queue respects its limit, although the check, the push and the
\* increment are three separate steps.
QueueBounded ==
  \A c \in Conns \ underflowed : Len(pending_frames[c]) <= MaxQueue

\* The number of places that hold frame f.
One(b) == IF b THEN 1 ELSE 0
Holders(f) ==
  Cardinality({c \in Conns : f \in ToSet(pending_frames[c])})
    + Cardinality({b \in batches : f \in ToSet(b)})
    + One(f \in ToSet(callback.to_send)) + One(f \in ToSet(wire))
    + One(f \in lost) + One(f \in rejected)

\* A frame handed over is still somewhere: a frame leaves the system only by
\* reaching the transport, by being refused, or with a failed batch.
NothingVanishes ==
  \A c \in Conns : \A n \in 1..frame[c] :
    \/ Holders(<<c, n>>) >= 1
    \/ n = frame[c] /\ pc[c] \in {"send", "stop", "check", "push"}

\* What has become of a frame.
Fate(f) ==
  CASE f \in ToSet(wire) -> "sent"
    [] f \in rejected -> "refused"
    [] f \in lost -> "dropped"
    [] OTHER -> IF f[2] <= frame[f[1]] THEN "held" ELSE "unread"

Delivery == INSTANCE FrameDelivery
              WITH fate <- [f \in Frames |-> Fate(f)],
                   ended <- {c \in Conns : pc[c] = "exited"}

\* The senders keep their promise: through the fast path, the queue, the
\* callback and the batch tasks every step of the code is a step of
\* FrameDelivery or none, so a frame is sent, refused or dropped exactly
\* once, a loss is confined to one batch of one connection, and nothing is handed
\* over after a refusal.
SendersDeliver == Delivery!Spec
==============================================================================
