----------------------- MODULE EventDrivenSenderProofs -----------------------
(***************************************************************************)
(* Proofs about EventDrivenSender, for any connections, queue and batch    *)
(* limits, transport capacity and word size.                               *)
(***************************************************************************)
EXTENDS EventDrivenSender, SequenceTheorems, FiniteSetTheorems, TLAPS

\* What taking k elements off a sequence leaves (the callback's pop loop).
LEMMA TakeAndDrop ==
  ASSUME NEW S, NEW s \in Seq(S), NEW k \in 0..Len(s)
  PROVE  /\ SubSeq(s, 1, k) \in Seq(S) /\ Len(SubSeq(s, 1, k)) = k
         /\ SubSeq(s, k + 1, Len(s)) \in Seq(S)
         /\ Len(SubSeq(s, k + 1, Len(s))) = Len(s) - k
  OBVIOUS

\* What a batch task leaves of its batch.
LEMMA HeadAndTail ==
  ASSUME NEW S, NEW s \in Seq(S), s # << >>
  PROVE  /\ Head(s) \in S /\ Tail(s) \in Seq(S)
         /\ Len(s) # 1 => Tail(s) # << >>
<1>1. /\ Head(s) \in S /\ Tail(s) \in Seq(S) /\ Len(Tail(s)) = Len(s) - 1
  BY HeadTailProperties
<1>2. Len(s) \in Nat
  BY LenProperties
<1>3. Tail(s) = << >> => Len(Tail(s)) = 0
  BY EmptySeq
<1>4. QED
  BY <1>1, <1>2, <1>3

\* The frames of a batch are frames.
LEMMA ElementsOf ==
  ASSUME NEW S, NEW s \in Seq(S)
  PROVE  ToSet(s) \subseteq S
  BY DEF ToSet

\* One callback takes no more than the queue holds, or than its limit.
LEMMA TakenIsBounded ==
  ASSUME TypeOK, NEW c \in Conns
  PROVE  Taken(c) \in 0..Len(pending_frames[c]) /\ Taken(c) <= BatchLimit
<1>1. pending_frames[c] \in Seq(Frames)
  BY DEF TypeOK
<1>2. Len(pending_frames[c]) \in Nat
  BY ONLY <1>1, LenProperties
<1>3. BatchLimit \in Nat
  BY SenderAssumption
<1>4. QED
  BY ONLY <1>2, <1>3 DEF Taken

\* fetch_add and fetch_sub stay within the word.
LEMMA CounterStaysInWord ==
  ASSUME NEW n \in 0..(Word - 1), NEW k \in Nat, k < Word
  PROVE  WrappingAdd(n) \in 0..(Word - 1) /\ WrappingSub(n, k) \in 0..(Word - 1)
  BY SenderAssumption DEF WrappingAdd, WrappingSub

-----------------------------------------------------------------------------
\* A read loop in the middle of a send has a frame in hand; a batch is never
\* longer than its limit, so that the counter, from which its length is
\* subtracted, stays a word.
TypeInv ==
  /\ TypeOK
  /\ \A c \in Conns : pc[c] \in {"send", "stop", "check", "push", "count"} => frame[c] >= 1
  /\ Len(callback.to_send) <= BatchLimit

\* Every step of a read loop (EventDrivenSender::new and a
\* send_with_natural_backpressure call) keeps the types.
LEMMA ReadLoopKeepsTypes ==
  ASSUME TypeInv, NEW c \in Conns, ReadLoop(c)
  PROVE  TypeInv'
<1> USE SenderAssumption DEF TypeInv, TypeOK, Goto, senderVars, callbackVars,
        transportVars, historyVars
<1>h. pc[c] \in {"send", "check", "push"} => InHand(c) \in Frames
  BY DEF InHand, Frames
<1>1. CASE New(c)
  BY <1>1 DEF New
<1>2. CASE Call(c)
  BY <1>2 DEF Call
<1>3. CASE SendNow(c)
  BY <1>3, <1>h DEF SendNow, Transmit
<1>4. CASE SendClosed(c)
  BY <1>4, <1>h DEF SendClosed, Refuse
<1>5. CASE SendFailsTemporarily(c)
  BY <1>5 DEF SendFailsTemporarily
<1>6. CASE StopSending(c)
  BY <1>6 DEF StopSending
<1>7. CASE QueueHasRoom(c)
  BY <1>7 DEF QueueHasRoom
<1>8. CASE QueueFull(c)
  BY <1>8, <1>h DEF QueueFull, Refuse
<1>9. CASE Push(c)
  BY SMTT(30), <1>9, <1>h DEF Push
<1>10. CASE Count(c)
  <2>0. queue_size[c] \in 0..(Word - 1) /\ 0 < Word
    OBVIOUS
  <2>1. WrappingAdd(queue_size[c]) \in 0..(Word - 1)
    BY ONLY <2>0, 0 \in Nat, CounterStaysInWord
  <2>2. QED
    BY <1>10, <2>1 DEF Count
<1>11. QED
  BY <1>1, <1>2, <1>3, <1>4, <1>5, <1>6, <1>7, <1>8, <1>9, <1>10 DEF ReadLoop

\* So does every step of the drain callback, including the wrapping fetch_sub.
LEMMA CallbackKeepsTypes ==
  ASSUME TypeInv, Callback
  PROVE  TypeInv'
<1> USE SenderAssumption DEF TypeInv, TypeOK, senderVars, callbackVars,
        transportVars, historyVars
<1> DEFINE c == callback.conn
<1>e. << >> \in Seq(Frames) /\ Len(<< >>) = 0
  BY EmptySeq
<1>1. CASE AllowSending
  <2>1. registered \in Conns
    BY <1>1 DEF AllowSending
  <2>2. callback' = [stage |-> "pop", conn |-> registered, to_send |-> << >>]
    BY <1>1 DEF AllowSending
  <2>3. /\ callback' \in [stage : {"idle", "pop", "subtract", "reset"},
                          conn : Conns \cup {None}, to_send : Seq(Frames)]
        /\ callback'.conn \in Conns /\ Len(callback'.to_send) = 0
    BY <2>1, <2>2, <1>e
  <2>4. can_send' \in [Conns -> BOOLEAN] /\ low_event' \in BOOLEAN
    BY <1>1, <2>1 DEF AllowSending
  <2>5. QED
    BY SMTT(30), <1>1, <2>3, <2>4 DEF AllowSending
<1>2. CASE Pop
  <2>1. /\ c \in Conns /\ pending_frames[c] \in Seq(Frames)
        /\ Taken(c) \in 0..Len(pending_frames[c]) /\ Taken(c) <= BatchLimit
    BY <1>2, TakenIsBounded DEF Pop
  <2>2. /\ SubSeq(pending_frames[c], 1, Taken(c)) \in Seq(Frames)
        /\ Len(SubSeq(pending_frames[c], 1, Taken(c))) = Taken(c)
        /\ SubSeq(pending_frames[c], Taken(c) + 1, Len(pending_frames[c])) \in Seq(Frames)
    BY ONLY <2>1, TakeAndDrop
  <2>3. QED
    BY <1>2, <2>1, <2>2 DEF Pop
<1>s. ASSUME Spawn
      PROVE  /\ batches' \in SUBSET (Seq(Frames) \ {<< >>})
             /\ callback' = NoCallback
  BY <1>s DEF Spawn
<1>n. /\ NoCallback \in [stage : {"idle", "pop", "subtract", "reset"},
                         conn : Conns \cup {None}, to_send : Seq(Frames)]
      /\ NoCallback.stage = "idle" /\ Len(NoCallback.to_send) = 0
  BY EmptySeq DEF NoCallback
<1>3. CASE Subtract
  <2>1. /\ c \in Conns /\ Len(callback.to_send) \in Nat
        /\ Len(callback.to_send) < Word
        /\ queue_size[c] \in 0..(Word - 1)
    BY <1>3, LenProperties DEF Subtract
  <2>2. WrappingSub(queue_size[c], Len(callback.to_send)) \in 0..(Word - 1)
    BY <2>1, CounterStaysInWord
  <2>3. queue_size' \in [Conns -> 0..(Word - 1)]
    BY <1>3, <2>1, <2>2 DEF Subtract
  <2>4. CASE Spawn /\ UNCHANGED underflowed
    <3>1. /\ batches' \in SUBSET (Seq(Frames) \ {<< >>})
          /\ callback' = NoCallback
      BY <2>4, <1>s
    <3>2. /\ callback' \in [stage : {"idle", "pop", "subtract", "reset"},
                            conn : Conns \cup {None}, to_send : Seq(Frames)]
          /\ callback'.stage = "idle" /\ Len(callback'.to_send) <= BatchLimit
      BY <3>1, <1>n
    <3>3. UNCHANGED <<can_send, pending_frames, pc, frame, registered, is_closing,
                      buffered, low_event, wire, lost, rejected, underflowed>>
      BY <1>3, <2>4 DEF Subtract
    <3>4. QED
      BY <2>3, <3>1, <3>2, <3>3
  <2>5. CASE /\ callback' = [callback EXCEPT !.stage = "reset"]
             /\ underflowed' = underflowed \cup {c}
             /\ UNCHANGED batches
    <3>1. /\ callback' \in [stage : {"idle", "pop", "subtract", "reset"},
                            conn : Conns \cup {None}, to_send : Seq(Frames)]
          /\ callback'.conn = c /\ callback'.to_send = callback.to_send
      BY <2>1, <2>5
    <3>2. QED
      BY <1>3, <2>1, <2>3, <2>5, <3>1 DEF Subtract
  <2>6. QED
    BY <1>3, <2>4, <2>5 DEF Subtract
<1>4. CASE Reset
  BY <1>4, <1>s, <1>n DEF Reset
<1>5. QED
  BY <1>1, <1>2, <1>3, <1>4 DEF Callback

\* A batch task shortens its batch and never leaves an empty one behind.
LEMMA BatchKeepsTypes ==
  ASSUME TypeInv, NEW b \in batches, BatchSend(b) \/ BatchFails(b)
  PROVE  TypeInv'
<1> USE SenderAssumption DEF TypeInv, TypeOK, senderVars, callbackVars,
        transportVars, historyVars
<1>1. /\ b \in Seq(Frames) /\ b # << >>
      /\ Head(b) \in Frames /\ Tail(b) \in Seq(Frames)
      /\ Len(b) # 1 => Tail(b) # << >>
  BY HeadAndTail
<1>2. CASE BatchSend(b)
  <2>1. wire' \in Seq(Frames) /\ buffered' \in Nat
    BY <1>1, <1>2, AppendProperties DEF BatchSend, Transmit
  <2>2. batches' \in SUBSET (Seq(Frames) \ {<< >>})
    BY <1>1, <1>2 DEF BatchSend
  <2>3. QED
    BY <1>2, <2>1, <2>2 DEF BatchSend, Transmit
<1>3. CASE BatchFails(b)
  <2>1. ToSet(b) \subseteq Frames
    BY <1>1, ElementsOf
  <2>2. QED
    BY <1>3, <2>1 DEF BatchFails
<1>4. QED
  BY <1>2, <1>3

\* The state before any connection has built its sender is well typed.
LEMMA InitHasTypes == Init => TypeInv
<1>1. << >> \in Seq(Frames) /\ Len(<< >>) = 0
  BY EmptySeq
<1>2. /\ NoCallback \in [stage : {"idle", "pop", "subtract", "reset"},
                         conn : Conns \cup {None}, to_send : Seq(Frames)]
      /\ NoCallback.stage = "idle" /\ Len(NoCallback.to_send) = 0
  BY <1>1 DEF NoCallback
<1>3. Init => can_send \in [Conns -> BOOLEAN]
  BY DEF Init
<1>4. Init => queue_size \in [Conns -> 0..(Word - 1)] /\ frame \in [Conns -> 0..MaxFrames]
  BY SenderAssumption DEF Init
<1>5. Init => pending_frames \in [Conns -> Seq(Frames)]
  BY <1>1 DEF Init
<1>6. Init => Len(callback.to_send) <= BatchLimit
  BY <1>2, SenderAssumption DEF Init
<1>7. Init => /\ pc = [c \in Conns |-> "new"]
              /\ registered = None /\ callback = NoCallback
              /\ batches = {} /\ buffered = 0 /\ wire = << >>
              /\ lost = {} /\ rejected = {} /\ underflowed = {}
  BY DEF Init
<1>8. Init => is_closing \in BOOLEAN /\ low_event \in BOOLEAN
  BY DEF Init
<1>9. QED
  BY <1>1, <1>2, <1>3, <1>4, <1>5, <1>6, <1>7, <1>8 DEF TypeInv, TypeOK

\* Every step of the system keeps the types.
LEMMA StepKeepsTypes ==
  ASSUME TypeInv, [Next]_vars
  PROVE  TypeInv'
<1>1. CASE SctpAck
  BY <1>1 DEF SctpAck, TypeInv, TypeOK, senderVars, callbackVars, historyVars
<1>2. CASE close
  BY <1>2 DEF close, TypeInv, TypeOK, senderVars, callbackVars, historyVars
<1>3. CASE UNCHANGED vars
  BY <1>3 DEF vars, TypeInv, TypeOK, senderVars, callbackVars, transportVars, historyVars
<1>4. QED
  BY <1>1, <1>2, <1>3, ReadLoopKeepsTypes, CallbackKeepsTypes, BatchKeepsTypes
     DEF Next, Batch

\* Every step of a read loop, of the callback, of a batch task or of the
\* transport keeps the variables in their types; in particular the counter
\* stays a word although it may wrap.
THEOREM TypeCorrect == Spec => []TypeOK
<1>1. TypeInv => TypeOK
  BY DEF TypeInv
<1>2. QED
  BY <1>1, InitHasTypes, StepKeepsTypes, PTL DEF Spec

-----------------------------------------------------------------------------
\* The invariant behind CounterExact and QueueBounded.  The counter's own
\* bound, without which the increment could wrap, needs to know that the room
\* seen by the check is still there at the push: only the read loop itself
\* adds frames, and the callback only takes them away.
Held(c) == Len(pending_frames[c]) + Unsubtracted(c)

Counted(c) ==
  /\ queue_size[c] + Uncounted(c) = Held(c)
  /\ Held(c) <= MaxQueue
  /\ pc[c] = "push" => Held(c) < MaxQueue

CounterInv ==
  /\ TypeInv
  /\ \A c \in Conns \ underflowed : Counted(c)
  /\ callback.stage = "reset" => callback.conn \in underflowed

\* What Held and Uncounted range over.
LEMMA CountsAreNaturals ==
  ASSUME TypeInv, NEW c \in Conns
  PROVE  /\ Held(c) \in Nat /\ Uncounted(c) \in {0, 1}
         /\ Len(pending_frames[c]) \in Nat /\ Unsubtracted(c) \in Nat
         /\ queue_size[c] \in Nat
  BY SenderAssumption, LenProperties
     DEF TypeInv, TypeOK, Held, Unsubtracted, Uncounted

\* A step that leaves the queues, the counters and the callback alone, and
\* brings no read loop to its push or its increment, keeps every count.
LEMMA CountsUntouched ==
  ASSUME CounterInv, TypeInv',
         UNCHANGED <<pending_frames, queue_size, callback, underflowed>>,
         \A c \in Conns : pc'[c] # pc[c] => {pc[c], pc'[c]} \cap {"push", "count"} = {}
  PROVE  CounterInv'
<1>1. ASSUME NEW c \in Conns \ underflowed PROVE Counted(c)'
  <2>1. Counted(c) /\ c \in Conns
    BY DEF CounterInv
  <2>2. Unsubtracted(c)' = Unsubtracted(c)
    BY DEF Unsubtracted
  <2>3. Uncounted(c)' = Uncounted(c) /\ (pc'[c] = "push" => pc[c] = "push")
    BY <2>1 DEF Uncounted
  <2>4. QED
    BY <2>1, <2>2, <2>3 DEF Counted, Held
<1>2. QED
  BY <1>1 DEF CounterInv

\* The check, the push and the increment of a send are three steps; between
\* them the counter lags by the one frame the read loop has pushed.
LEMMA ReadLoopKeepsCounts ==
  ASSUME CounterInv, TypeInv', NEW c \in Conns, ReadLoop(c)
  PROVE  CounterInv'
<1> USE DEF Goto, senderVars, callbackVars, transportVars, historyVars
<1>t. TypeInv /\ TypeOK /\ TypeOK'
  BY DEF CounterInv, TypeInv
<1>p. pc \in [Conns -> {"new", "idle", "send", "stop", "check", "push", "count", "exited"}]
  BY <1>t DEF TypeOK
<1>1. CASE New(c) \/ Call(c) \/ SendNow(c) \/ SendClosed(c)
           \/ SendFailsTemporarily(c) \/ StopSending(c) \/ QueueFull(c)
  <2>1. UNCHANGED <<pending_frames, queue_size, callback, underflowed>>
    BY <1>1 DEF New, Call, SendNow, SendClosed, SendFailsTemporarily, StopSending,
                QueueFull, Refuse, Transmit
  <2>2. /\ \A d \in Conns \ {c} : pc'[d] = pc[d]
        /\ pc[c] \notin {"push", "count"} /\ pc'[c] \notin {"push", "count"}
    BY <1>1, <1>p DEF New, Call, SendNow, SendClosed, SendFailsTemporarily, StopSending,
                QueueFull, Refuse
  <2>3. QED
    BY <2>1, <2>2, CountsUntouched
<1>2. CASE QueueHasRoom(c) \/ Push(c) \/ Count(c)
  <2>1. UNCHANGED <<callback, underflowed>>
    BY <1>2 DEF QueueHasRoom, Push, Count
  <2>2. ASSUME NEW d \in Conns \ underflowed PROVE Counted(d)'
    <3>1. /\ Counted(d) /\ d \in Conns /\ Unsubtracted(d)' = Unsubtracted(d)
          /\ MaxQueue \in Nat /\ Word \in Nat /\ MaxQueue < Word
      BY <2>1, SenderAssumption DEF CounterInv, Unsubtracted
    <3>2. /\ Held(d) \in Nat /\ Len(pending_frames[d]) \in Nat
          /\ Unsubtracted(d) \in Nat /\ queue_size[d] \in Nat
      BY <1>t, <3>1, CountsAreNaturals
    <3>3. CASE d # c
      <4>1. /\ pending_frames'[d] = pending_frames[d] /\ queue_size'[d] = queue_size[d]
            /\ pc'[d] = pc[d]
        BY <1>2, <1>t, <1>p, <3>1, <3>3 DEF QueueHasRoom, Push, Count, TypeOK
      <4>2. QED
        BY <3>1, <4>1 DEF Counted, Held, Uncounted
    <3>4. CASE d = c /\ QueueHasRoom(c)
      <4>1. /\ pc[c] = "check" /\ pc'[c] = "push" /\ queue_size[c] < MaxQueue
            /\ pending_frames' = pending_frames /\ queue_size' = queue_size
        BY <3>4, <1>p DEF QueueHasRoom
      <4>2. QED
        BY <3>1, <3>2, <3>4, <4>1 DEF Counted, Held, Uncounted
    <3>5. CASE d = c /\ Push(c)
      <4>1. /\ pc[c] = "push" /\ pc'[c] = "count" /\ queue_size' = queue_size
            /\ pending_frames'[c] = Append(pending_frames[c], InHand(c))
        BY <3>5, <1>p, <1>t DEF Push, TypeOK
      <4>2. Len(pending_frames'[c]) = Len(pending_frames[c]) + 1
        <5>1. pending_frames[c] \in Seq(Frames)
          BY <1>t DEF TypeOK
        <5>2. frame[c] \in 1..MaxFrames
          BY <1>t, <4>1, SenderAssumption DEF TypeInv, TypeOK
        <5>3. InHand(c) \in Frames
          BY <5>2 DEF InHand, Frames
        <5>4. QED
          BY <4>1, <5>1, <5>3, AppendProperties
      <4>3. QED
        BY <3>1, <3>2, <3>5, <4>1, <4>2 DEF Counted, Held, Uncounted
    <3>6. CASE d = c /\ Count(c)
      <4>1. /\ pc[c] = "count" /\ pc'[c] = "idle" /\ pending_frames' = pending_frames
            /\ queue_size'[c] = WrappingAdd(queue_size[c])
        BY <3>6, <1>p, <1>t DEF Count, TypeOK
      <4>2. queue_size[c] + 1 = Held(c)
        BY <3>1, <3>6, <4>1 DEF Counted, Uncounted
      <4>3. queue_size'[c] = queue_size[c] + 1
        BY <3>1, <3>2, <3>6, <4>1, <4>2 DEF WrappingAdd, Counted
      <4>4. QED
        BY <3>1, <3>2, <3>6, <4>1, <4>2, <4>3 DEF Counted, Held, Uncounted
    <3>7. QED
      BY <1>2, <3>3, <3>4, <3>5, <3>6
  <2>3. QED
    BY <2>1, <2>2 DEF CounterInv
<1>3. QED
  BY <1>1, <1>2 DEF ReadLoop

\* The pop and the subtraction of a batch are two steps; between them the
\* counter is ahead by the frames of the batch.  An underflow puts the sender
\* among the underflowed ones.
LEMMA CallbackKeepsCounts ==
  ASSUME CounterInv, TypeInv', Callback
  PROVE  CounterInv'
<1> USE DEF senderVars, callbackVars, transportVars, historyVars
<1> DEFINE c == callback.conn
           k == Len(callback.to_send)
<1>t. TypeInv /\ TypeOK
  BY DEF CounterInv, TypeInv
<1>n. NoCallback.stage = "idle"
  BY DEF NoCallback
<1>1. CASE AllowSending
  <2>1. callback.stage = "idle" /\ callback'.stage = "pop"
    BY <1>1 DEF AllowSending
  <2>2. UNCHANGED <<pending_frames, queue_size, pc, underflowed>>
    BY <1>1 DEF AllowSending
  <2>3. \A d \in Conns : Unsubtracted(d)' = Unsubtracted(d)
    BY <2>1 DEF Unsubtracted
  <2>4. QED
    BY <2>1, <2>2, <2>3 DEF CounterInv, Counted, Held, Uncounted
<1>2. CASE Pop
  <2>1. /\ callback.stage = "pop" /\ c \in Conns
        /\ callback' = [callback EXCEPT !.stage = "subtract",
                                        !.to_send = SubSeq(pending_frames[c], 1, Taken(c))]
        /\ pending_frames' = [pending_frames EXCEPT
             ![c] = SubSeq(pending_frames[c], Taken(c) + 1, Len(pending_frames[c]))]
        /\ UNCHANGED <<queue_size, pc, underflowed>>
    BY <1>2, <1>t DEF Pop, TypeOK
  <2>2. /\ callback'.stage = "subtract" /\ callback'.conn = c
        /\ callback'.to_send = SubSeq(pending_frames[c], 1, Taken(c))
    BY <2>1, <1>t DEF TypeOK
  <2>3. /\ pending_frames[c] \in Seq(Frames)
        /\ Taken(c) \in 0..Len(pending_frames[c])
    BY <1>t, <2>1, TakenIsBounded DEF TypeOK
  <2>4. /\ Len(SubSeq(pending_frames[c], 1, Taken(c))) = Taken(c)
        /\ Len(SubSeq(pending_frames[c], Taken(c) + 1, Len(pending_frames[c])))
             = Len(pending_frames[c]) - Taken(c)
    BY <2>3, TakeAndDrop
  <2>5. ASSUME NEW d \in Conns PROVE Held(d)' = Held(d)
    <3>1. CASE d # c
      BY <1>t, <2>1, <2>2, <3>1 DEF Held, Unsubtracted, TypeOK
    <3>2. CASE d = c
      <4>1. Unsubtracted(d) = 0 /\ Unsubtracted(d)' = Taken(d)
        BY <2>1, <2>2, <2>4, <3>2 DEF Unsubtracted
      <4>2. Len(pending_frames'[d]) = Len(pending_frames[d]) - Taken(d)
        BY <1>t, <2>1, <2>4, <3>2 DEF TypeOK
      <4>3. Len(pending_frames[d]) \in Nat /\ Taken(d) \in Nat
        BY <1>t, <2>1, <2>3, <3>2, CountsAreNaturals
      <4>4. QED
        BY <3>2, <4>1, <4>2, <4>3 DEF Held
    <3>3. QED
      BY <3>1, <3>2
  <2>6. QED
    BY <2>1, <2>2, <2>5 DEF CounterInv, Counted, Uncounted
<1>3. CASE Subtract
  <2>1. /\ callback.stage = "subtract" /\ c \in Conns
        /\ queue_size' = [queue_size EXCEPT ![c] = WrappingSub(queue_size[c], k)]
        /\ UNCHANGED <<pending_frames, pc>>
        /\ \/ queue_size[c] >= k /\ callback' = NoCallback /\ UNCHANGED underflowed
           \/ /\ callback' = [callback EXCEPT !.stage = "reset"]
              /\ underflowed' = underflowed \cup {c}
    BY <1>3, <1>t DEF Subtract, Spawn, TypeOK
  <2>2. callback'.stage \in {"idle", "reset"}
    BY <2>1, <1>n, <1>t DEF TypeOK
  <2>3. \A d \in Conns : Unsubtracted(d)' = 0 /\ Uncounted(d)' = Uncounted(d)
    BY <2>1, <2>2 DEF Unsubtracted, Uncounted
  <2>4. ASSUME NEW d \in Conns \ underflowed' PROVE Counted(d)'
    <3>1. Counted(d) /\ d \in Conns
      BY <2>1 DEF CounterInv
    <3>2. /\ Held(d) \in Nat /\ Uncounted(d) \in {0, 1}
          /\ Len(pending_frames[d]) \in Nat /\ queue_size[d] \in Nat
          /\ MaxQueue \in Nat
      BY <1>t, <3>1, CountsAreNaturals, SenderAssumption
    <3>3. CASE d # c
      <4>1. Unsubtracted(d) = 0 /\ queue_size'[d] = queue_size[d]
        BY <1>t, <2>1, <3>3 DEF Unsubtracted, TypeOK
      <4>2. QED
        BY <2>1, <2>3, <3>1, <3>2, <4>1 DEF Counted, Held
    <3>4. CASE d = c
      <4>1. /\ Unsubtracted(c) = k /\ k \in Nat /\ queue_size[c] >= k
            /\ queue_size'[c] = WrappingSub(queue_size[c], k)
        BY <1>t, <2>1, <3>4, LenProperties DEF Unsubtracted, TypeOK
      <4>2. queue_size'[c] = queue_size[c] - k
        BY <4>1 DEF WrappingSub
      <4>3. Held(d)' = Len(pending_frames[d]) /\ Held(d) = Len(pending_frames[d]) + k
        BY <2>1, <2>3, <3>2, <3>4, <4>1 DEF Held
      <4>4. /\ queue_size[d] + Uncounted(d) = Held(d) /\ Held(d) <= MaxQueue
            /\ pc[d] = "push" => Held(d) < MaxQueue
        BY <3>1, <3>4 DEF Counted
      <4>5. queue_size'[d] = queue_size[d] - k /\ pc' = pc
        BY <2>1, <3>4, <4>2
      <4>6. Uncounted(d)' = Uncounted(d) /\ Uncounted(d) \in Nat
        BY <2>3, <3>1, <3>2
      <4>7. /\ k \in Nat /\ queue_size[d] + Uncounted(d) = Len(pending_frames[d]) + k
            /\ Len(pending_frames[d]) + k <= MaxQueue
        BY <4>1, <4>3, <4>4
      <4>8. /\ (queue_size[d] - k) + Uncounted(d) = Len(pending_frames[d])
            /\ Len(pending_frames[d]) <= MaxQueue
            /\ Len(pending_frames[d]) + k < MaxQueue => Len(pending_frames[d]) < MaxQueue
        <5> DEFINE q == queue_size[d]
                   u == Uncounted(d)
                   l == Len(pending_frames[d])
                   n == Len(callback.to_send)
        <5>1. /\ q \in Nat /\ u \in Nat /\ l \in Nat /\ n \in Nat /\ MaxQueue \in Nat
              /\ q + u = l + n /\ l + n <= MaxQueue
          BY <3>2, <4>6, <4>7
        <5>2. (q - n) + u = l /\ l <= MaxQueue /\ (l + n < MaxQueue => l < MaxQueue)
          <6> HIDE DEF q, u, l, n
          <6> QED
            BY <5>1
        <5>3. QED
          BY <5>2
      <4>9. /\ queue_size'[d] + Uncounted(d)' = Held(d)'
            /\ Held(d)' <= MaxQueue
        BY <4>3, <4>5, <4>6, <4>8
      <4>10. pc'[d] = "push" => Held(d)' < MaxQueue
        BY <4>3, <4>4, <4>5, <4>8
      <4>11. QED
        BY <4>9, <4>10 DEF Counted
    <3>5. QED
      BY <3>3, <3>4
  <2>5. callback'.stage = "reset" => callback'.conn \in underflowed'
    BY <2>1, <1>n, <1>t DEF TypeOK
  <2>6. QED
    BY <2>4, <2>5 DEF CounterInv
<1>4. CASE Reset
  <2>1. /\ callback.stage = "reset" /\ c \in underflowed
        /\ queue_size' = [queue_size EXCEPT ![c] = 0]
        /\ callback' = NoCallback
        /\ UNCHANGED <<pending_frames, pc, underflowed>>
    BY <1>4 DEF Reset, Spawn, CounterInv
  <2>2. \A d \in Conns : Unsubtracted(d)' = Unsubtracted(d)
    BY <2>1, <1>n DEF Unsubtracted
  <2>3. \A d \in Conns \ underflowed : queue_size'[d] = queue_size[d]
    BY <2>1, <1>t DEF TypeOK
  <2>4. QED
    BY <2>1, <2>2, <2>3, <1>n DEF CounterInv, Counted, Held, Uncounted
<1>5. QED
  BY <1>1, <1>2, <1>3, <1>4 DEF Callback

\* The inductive invariant: types, and for every sender whose counter has not
\* underflowed, the exact account of its queue.
LEMMA CounterInvariant == Spec => []CounterInv
<1>1. Init => CounterInv
  <2> SUFFICES ASSUME Init PROVE CounterInv
    OBVIOUS
  <2>1. TypeInv
    BY InitHasTypes
  <2>2. callback.stage = "idle"
    BY DEF Init, NoCallback
  <2>3. ASSUME NEW c \in Conns PROVE Counted(c)
    <3>1. Len(pending_frames[c]) = 0 /\ queue_size[c] = 0 /\ pc[c] = "new"
      BY EmptySeq DEF Init
    <3>2. QED
      BY <2>2, <3>1, SenderAssumption DEF Counted, Held, Unsubtracted, Uncounted
  <2>4. QED
    BY <2>1, <2>2, <2>3 DEF CounterInv
<1>2. CounterInv /\ [Next]_vars => CounterInv'
  <2> SUFFICES ASSUME CounterInv, [Next]_vars PROVE CounterInv'
    OBVIOUS
  <2>t. TypeInv'
    BY StepKeepsTypes DEF CounterInv
  <2>1. CASE SctpAck \/ close \/ Batch \/ UNCHANGED vars
    <3>1. UNCHANGED <<pending_frames, queue_size, callback, underflowed, pc>>
      BY <2>1 DEF SctpAck, close, Batch, BatchSend, BatchFails, vars, senderVars,
                  callbackVars, transportVars, historyVars
    <3>2. QED
      BY <2>t, <3>1, CountsUntouched
  <2>2. QED
    BY <2>t, <2>1, ReadLoopKeepsCounts, CallbackKeepsCounts DEF Next
<1>3. QED
  BY <1>1, <1>2, PTL DEF Spec

\* A sender's counter and its queue agree, up to the push and the pop in
\* progress, until the counter underflows for the first time, whatever the
\* interleaving of the read loop's push and increment with the callback's
\* pops and subtraction.
THEOREM CounterAgrees == Spec => []CounterExact
<1>1. CounterInv => CounterExact
  BY DEF CounterInv, CounterExact, Counted, Held
<1>2. QED
  BY <1>1, CounterInvariant, PTL

\* Until then the queue respects its limit, although the check, the push and
\* the increment of send_with_natural_backpressure are three separate steps.
THEOREM QueueLimit == Spec => []QueueBounded
<1>1. CounterInv => QueueBounded
  <2> SUFFICES ASSUME CounterInv, NEW c \in Conns \ underflowed
               PROVE  Len(pending_frames[c]) <= MaxQueue
    BY DEF QueueBounded
  <2>1. Held(c) <= MaxQueue /\ TypeInv /\ c \in Conns
    BY DEF CounterInv, Counted
  <2>2. Len(pending_frames[c]) \in Nat /\ Unsubtracted(c) \in Nat
    BY <2>1, CountsAreNaturals
  <2>3. QED
    BY <2>1, <2>2, SenderAssumption DEF Held
<1>2. QED
  BY <1>1, CounterInvariant, PTL

-----------------------------------------------------------------------------
\* Where the frames are.  A frame handed over waits in one place (the queue of
\* its sender, the running callback, or one batch), or it is settled.

Settled == ToSet(wire) \cup lost \cup rejected

Waiting == {f \in Frames : \/ \E c \in Conns : f \in ToSet(pending_frames[c])
                           \/ f \in ToSet(callback.to_send)
                           \/ \E b \in batches : f \in ToSet(b)}

\* The frames of c that have left the hands of its read loop.
HandedOver(c) ==
  IF pc[c] \in {"send", "stop", "check", "push"} THEN frame[c] - 1 ELSE frame[c]

\* No frame is in s twice.
Distinct(s) == \A i, j \in DOMAIN s : s[i] = s[j] => i = j

\* Each place holds frames of one connection, each once.
Sorted ==
  /\ \A c \in Conns : /\ Distinct(pending_frames[c])
                      /\ \A f \in ToSet(pending_frames[c]) : f[1] = c
  /\ Distinct(callback.to_send)
  /\ \A f \in ToSet(callback.to_send) : f[1] = callback.conn
  /\ callback.stage \in {"idle", "pop"} => callback.to_send = << >>
  /\ IsFiniteSet(batches)
  /\ \A b \in batches : /\ Distinct(b) /\ Len(b) <= BatchLimit
                        /\ \A f \in ToSet(b) : f[1] = Head(b)[1]

\* No frame is in two places.
Apart ==
  /\ \A c \in Conns : ToSet(pending_frames[c]) \cap ToSet(callback.to_send) = {}
  /\ \A b \in batches :
       /\ \A c \in Conns : ToSet(pending_frames[c]) \cap ToSet(b) = {}
       /\ ToSet(callback.to_send) \cap ToSet(b) = {}
       /\ \A d \in batches : b # d => ToSet(b) \cap ToSet(d) = {}

\* The frames that wait or are settled are those that were handed over.
Accounted ==
  /\ Waiting \cap Settled = {}
  /\ \A c \in Conns : \A n \in 1..MaxFrames :
       <<c, n>> \in Settled \cup Waiting <=> n <= HandedOver(c)

PlacesInv == TypeInv /\ Sorted /\ Apart /\ Accounted

\* What a push, the pop loop and a batch task do to the frames of a sequence.
LEMMA AppendFrame ==
  ASSUME NEW S, NEW s \in Seq(S), NEW f \in S
  PROVE  /\ ToSet(Append(s, f)) = ToSet(s) \cup {f}
         /\ Distinct(s) /\ f \notin ToSet(s) => Distinct(Append(s, f))
<1>1. /\ DOMAIN s = 1..Len(s) /\ Len(s) \in Nat
      /\ Append(s, f) \in Seq(S) /\ Len(Append(s, f)) = Len(s) + 1
      /\ \A i \in 1..Len(s) : Append(s, f)[i] = s[i]
      /\ Append(s, f)[Len(s) + 1] = f
  BY LenProperties, AppendProperties
<1>2. DOMAIN Append(s, f) = 1..(Len(s) + 1)
  BY <1>1, LenProperties
<1>3. ToSet(Append(s, f)) = ToSet(s) \cup {f}
  BY <1>1, <1>2 DEF ToSet
<1>4. ASSUME Distinct(s), f \notin ToSet(s) PROVE Distinct(Append(s, f))
  <2>1. \A i \in 1..Len(s) : s[i] # f
    BY <1>1, <1>4 DEF ToSet
  <2> SUFFICES ASSUME NEW i \in 1..(Len(s) + 1), NEW j \in 1..(Len(s) + 1),
                      Append(s, f)[i] = Append(s, f)[j]
               PROVE  i = j
    BY <1>2 DEF Distinct
  <2>2. CASE i \in 1..Len(s) /\ j \in 1..Len(s)
    BY <1>1, <1>4, <2>2 DEF Distinct
  <2>3. CASE i = Len(s) + 1 \/ j = Len(s) + 1
    BY <1>1, <2>1, <2>3
  <2>4. QED
    BY <1>1, <2>2, <2>3
<1>5. QED
  BY <1>3, <1>4

LEMMA SplitFrames ==
  ASSUME NEW S, NEW s \in Seq(S), NEW k \in 0..Len(s), Distinct(s)
  PROVE  LET t == SubSeq(s, 1, k)
             u == SubSeq(s, k + 1, Len(s))
         IN  /\ ToSet(s) = ToSet(t) \cup ToSet(u) /\ ToSet(t) \cap ToSet(u) = {}
             /\ Distinct(t) /\ Distinct(u)
<1> DEFINE t == SubSeq(s, 1, k)
           u == SubSeq(s, k + 1, Len(s))
<1>1. DOMAIN s = 1..Len(s) /\ Len(s) \in Nat /\ k \in Nat
  BY LenProperties
<1>2. DOMAIN t = 1..k /\ \A i \in 1..k : t[i] = s[i]
  BY <1>1
<1>3. DOMAIN u = 1..(Len(s) - k) /\ \A i \in 1..(Len(s) - k) : u[i] = s[k + i]
  BY <1>1
<1> HIDE DEF t, u
<1>4. ToSet(s) \subseteq ToSet(t) \cup ToSet(u)
  <2> SUFFICES ASSUME NEW i \in 1..Len(s) PROVE s[i] \in ToSet(t) \cup ToSet(u)
    BY <1>1 DEF ToSet
  <2>1. CASE i <= k
    BY <1>1, <1>2, <2>1 DEF ToSet
  <2>2. CASE i > k
    <3>1. i - k \in 1..(Len(s) - k) /\ u[i - k] = s[i]
      BY <1>1, <1>3, <2>2
    <3>2. QED
      BY <1>3, <3>1 DEF ToSet
  <2>3. QED
    BY <1>1, <2>1, <2>2
<1>5. ToSet(t) \cup ToSet(u) \subseteq ToSet(s)
  <2>1. \A i \in 1..k : t[i] = s[i] /\ i \in DOMAIN s
    BY <1>1, <1>2
  <2>2. \A i \in 1..(Len(s) - k) : u[i] = s[k + i] /\ k + i \in DOMAIN s
    BY <1>1, <1>3
  <2>3. QED
    BY <1>2, <1>3, <2>1, <2>2 DEF ToSet
<1>6. ToSet(t) \cap ToSet(u) = {}
  <2> SUFFICES ASSUME NEW i \in 1..k, NEW j \in 1..(Len(s) - k) PROVE t[i] # u[j]
    BY <1>2, <1>3 DEF ToSet
  <2>1. i \in DOMAIN s /\ k + j \in DOMAIN s /\ i # k + j
    BY <1>1
  <2>2. QED
    BY <1>2, <1>3, <2>1 DEF Distinct
<1>7. Distinct(t)
  BY <1>1, <1>2 DEF Distinct
<1>8. Distinct(u)
  <2> SUFFICES ASSUME NEW i \in 1..(Len(s) - k), NEW j \in 1..(Len(s) - k), u[i] = u[j]
               PROVE  i = j
    BY <1>3 DEF Distinct
  <2>1. k + i \in DOMAIN s /\ k + j \in DOMAIN s /\ s[k + i] = s[k + j]
    BY <1>1, <1>3
  <2>2. k + i = k + j
    BY <2>1 DEF Distinct
  <2>3. QED
    BY <1>1, <2>2
<1>9. QED
  BY <1>4, <1>5, <1>6, <1>7, <1>8 DEF t, u

LEMMA TakeFrame ==
  ASSUME NEW S, NEW s \in Seq(S), s # << >>, Distinct(s)
  PROVE  /\ ToSet(s) = ToSet(Tail(s)) \cup {Head(s)} /\ Head(s) \notin ToSet(Tail(s))
         /\ Distinct(Tail(s)) /\ Len(Tail(s)) <= Len(s)
         /\ Len(s) = 1 => ToSet(Tail(s)) = {}
<1>1. /\ DOMAIN s = 1..Len(s) /\ Len(s) \in Nat \ {0} /\ Head(s) = s[1]
      /\ Tail(s) \in Seq(S) /\ Len(Tail(s)) = Len(s) - 1
      /\ \A i \in 1..(Len(s) - 1) : Tail(s)[i] = s[i + 1]
  BY LenProperties, EmptySeq, HeadTailProperties
<1>2. DOMAIN Tail(s) = 1..(Len(s) - 1)
  BY <1>1, LenProperties
<1>3. ToSet(s) \subseteq ToSet(Tail(s)) \cup {Head(s)}
  <2> SUFFICES ASSUME NEW i \in 1..Len(s), i # 1 PROVE s[i] \in ToSet(Tail(s))
    BY <1>1 DEF ToSet
  <2>1. i - 1 \in 1..(Len(s) - 1) /\ Tail(s)[i - 1] = s[i]
    BY <1>1
  <2>2. QED
    BY <1>2, <2>1 DEF ToSet
<1>4. \A i \in 1..(Len(s) - 1) : i + 1 \in DOMAIN s /\ i + 1 # 1 /\ Tail(s)[i] = s[i + 1]
  BY <1>1
<1>5. ToSet(Tail(s)) \cup {Head(s)} \subseteq ToSet(s)
  BY <1>1, <1>2, <1>4 DEF ToSet
<1>6. Head(s) \notin ToSet(Tail(s))
  <2> SUFFICES ASSUME NEW i \in 1..(Len(s) - 1), Tail(s)[i] = Head(s) PROVE FALSE
    BY <1>2 DEF ToSet
  <2>1. s[i + 1] = s[1] /\ 1 \in DOMAIN s
    BY <1>1, <1>4
  <2>2. QED
    BY <1>4, <2>1 DEF Distinct
<1>7. Distinct(Tail(s))
  <2> SUFFICES ASSUME NEW i \in 1..(Len(s) - 1), NEW j \in 1..(Len(s) - 1),
                      Tail(s)[i] = Tail(s)[j]
               PROVE  i = j
    BY <1>2 DEF Distinct
  <2>1. i + 1 = j + 1
    BY <1>4 DEF Distinct
  <2>2. QED
    BY <2>1
<1>8. Len(s) = 1 => ToSet(Tail(s)) = {}
  BY <1>2 DEF ToSet
<1>9. QED
  BY <1>1, <1>3, <1>5, <1>6, <1>7, <1>8

\* What a read loop in the middle of a send has in hand is in no place yet.
LEMMA HandIsFree ==
  ASSUME PlacesInv, NEW c \in Conns, pc[c] \in {"send", "stop", "check", "push"}
  PROVE  /\ InHand(c) \in Frames /\ frame[c] \in 1..MaxFrames
         /\ InHand(c) \notin Settled \cup Waiting
<1>1. frame[c] \in 1..MaxFrames
  BY SenderAssumption DEF PlacesInv, TypeInv, TypeOK
<1>2. ~(frame[c] <= HandedOver(c))
  BY <1>1, SenderAssumption DEF HandedOver
<1>3. QED
  BY <1>1, <1>2 DEF PlacesInv, Accounted, InHand, Frames

\* The frames of the places are frames.
LEMMA PlacesHoldFrames ==
  ASSUME TypeInv
  PROVE  /\ \A c \in Conns : ToSet(pending_frames[c]) \subseteq Frames
         /\ ToSet(callback.to_send) \subseteq Frames
         /\ \A b \in batches : ToSet(b) \subseteq Frames
         /\ ToSet(wire) \subseteq Frames
         /\ Settled \subseteq Frames /\ Waiting \subseteq Frames
<1>1. /\ \A c \in Conns : ToSet(pending_frames[c]) \subseteq Frames
      /\ ToSet(callback.to_send) \subseteq Frames
      /\ \A b \in batches : ToSet(b) \subseteq Frames
      /\ ToSet(wire) \subseteq Frames
  BY ElementsOf DEF TypeInv, TypeOK
<1>2. Settled \subseteq Frames
  BY <1>1 DEF Settled, TypeInv, TypeOK
<1>3. Waiting \subseteq Frames
  BY DEF Waiting
<1>4. QED
  BY <1>1, <1>2, <1>3

\* A step that moves no frame keeps the account.
LEMMA PlacesUntouched ==
  ASSUME PlacesInv, TypeInv',
         UNCHANGED <<pending_frames, callback, batches, wire, lost, rejected>>,
         \A c \in Conns : HandedOver(c)' = HandedOver(c)
  PROVE  PlacesInv'
<1>1. Settled' = Settled /\ Waiting' = Waiting
  BY DEF Settled, Waiting
<1>2. Sorted' /\ Apart'
  BY DEF PlacesInv, Sorted, Apart, Distinct
<1>3. Accounted'
  BY <1>1 DEF PlacesInv, Accounted
<1>4. QED
  BY <1>2, <1>3 DEF PlacesInv

\* A step that moves frames keeps the account when the frame in hand is the only
\* one that comes in.
LEMMA HandEnters ==
  ASSUME PlacesInv, NEW c \in Conns, pc[c] \in {"send", "check", "push"},
         pc'[c] \notin {"send", "stop", "check", "push"},
         \A d \in Conns \ {c} : pc'[d] = pc[d], frame' = frame,
         Settled' \cup Waiting' = (Settled \cup Waiting) \cup {InHand(c)},
         Waiting' \cap Settled' = {}
  PROVE  Accounted'
<1>1. frame[c] \in 1..MaxFrames
  BY HandIsFree
<1>2. HandedOver(c) = frame[c] - 1 /\ HandedOver(c)' = frame[c]
  BY DEF HandedOver
<1>3. \A d \in Conns \ {c} : HandedOver(d)' = HandedOver(d)
  BY DEF HandedOver
<1>4. ASSUME NEW d \in Conns, NEW n \in 1..MaxFrames
      PROVE  <<d, n>> \in Settled' \cup Waiting' <=> n <= HandedOver(d)'
  <2>1. <<d, n>> \in Settled \cup Waiting <=> n <= HandedOver(d)
    BY DEF PlacesInv, Accounted
  <2>2. <<d, n>> = InHand(c) <=> d = c /\ n = frame[c]
    BY DEF InHand
  <2>3. CASE d # c
    BY <1>3, <2>1, <2>2, <2>3
  <2>4. CASE d = c
    BY <1>1, <1>2, <2>1, <2>2, <2>4, SenderAssumption
  <2>5. QED
    BY <2>3, <2>4
<1>5. QED
  BY <1>4 DEF Accounted

\* The steps of a read loop: at most the frame in hand finds its place.
LEMMA ReadLoopKeepsPlaces ==
  ASSUME PlacesInv, TypeInv', NEW c \in Conns, ReadLoop(c)
  PROVE  PlacesInv'
<1> USE DEF senderVars, callbackVars, transportVars, historyVars
<1>t. TypeInv /\ TypeOK /\ Sorted /\ Apart /\ Accounted
  BY DEF PlacesInv, TypeInv
<1>p. /\ pc \in [Conns -> {"new", "idle", "send", "stop", "check", "push", "count", "exited"}]
      /\ frame \in [Conns -> 0..MaxFrames]
  BY <1>t DEF TypeOK
<1>1. CASE New(c) \/ Call(c) \/ SendFailsTemporarily(c) \/ StopSending(c)
           \/ QueueHasRoom(c) \/ Count(c)
  <2>1. UNCHANGED <<pending_frames, callback, batches, wire, lost, rejected>>
    BY <1>1 DEF New, Call, SendFailsTemporarily, StopSending, QueueHasRoom, Count
  <2>2. ASSUME NEW d \in Conns PROVE HandedOver(d)' = HandedOver(d)
    <3>1. CASE d # c
      BY <1>1, <1>p, <3>1 DEF New, Call, SendFailsTemporarily, StopSending, QueueHasRoom,
                              Count, Goto, HandedOver
    <3>2. CASE d = c /\ Call(c)
      <4>1. /\ pc[c] = "idle" /\ pc'[c] \in {"send", "check"}
            /\ frame'[c] = frame[c] + 1 /\ frame[c] \in Int
        BY <3>2, <1>p, SenderAssumption DEF Call, Goto
      <4>2. QED
        BY <3>2, <4>1 DEF HandedOver
    <3>3. CASE d = c /\ ~Call(c)
      BY <1>1, <1>p, <3>3 DEF New, SendFailsTemporarily, StopSending, QueueHasRoom,
                              Count, Goto, HandedOver
    <3>4. QED
      BY <3>1, <3>2, <3>3
  <2>3. QED
    BY <2>1, <2>2, PlacesUntouched
<1>2. CASE SendNow(c) \/ SendClosed(c) \/ QueueFull(c)
  <2>1. /\ pc[c] \in {"send", "check"} /\ pc'[c] \in {"idle", "exited"}
        /\ \A d \in Conns \ {c} : pc'[d] = pc[d]
        /\ frame' = frame
        /\ UNCHANGED <<pending_frames, callback, batches>>
    BY <1>2, <1>p DEF SendNow, SendClosed, QueueFull, Refuse, Goto
  <2>2. InHand(c) \in Frames /\ InHand(c) \notin Settled \cup Waiting
    BY <2>1, HandIsFree
  <2>3. Settled' = Settled \cup {InHand(c)}
    <3>1. CASE SendNow(c)
      <4>1. wire' = Append(wire, InHand(c)) /\ UNCHANGED <<lost, rejected>>
        BY <3>1 DEF SendNow, Transmit
      <4>2. ToSet(wire') = ToSet(wire) \cup {InHand(c)}
        BY <1>t, <2>2, <4>1, AppendFrame DEF TypeOK
      <4>3. QED
        BY <4>1, <4>2 DEF Settled
    <3>2. CASE SendClosed(c) \/ QueueFull(c)
      BY <3>2 DEF SendClosed, QueueFull, Refuse, Settled
    <3>3. QED
      BY <1>2, <3>1, <3>2
  <2>4. Waiting' = Waiting
    BY <2>1 DEF Waiting
  <2>5. Accounted'
    BY <1>t, <2>1, <2>2, <2>3, <2>4, HandEnters DEF Accounted
  <2>6. Sorted' /\ Apart'
    BY <1>t, <2>1 DEF Sorted, Apart, Distinct
  <2>7. QED
    BY <2>5, <2>6 DEF PlacesInv
<1>3. CASE Push(c)
  <2> DEFINE q == pending_frames[c]
  <2>1. /\ pc[c] = "push" /\ pc'[c] = "count"
        /\ \A d \in Conns \ {c} : pc'[d] = pc[d] /\ pending_frames'[d] = pending_frames[d]
        /\ frame' = frame
        /\ pending_frames'[c] = Append(q, InHand(c))
        /\ UNCHANGED <<callback, batches, wire, lost, rejected>>
    BY <1>3, <1>p, <1>t DEF Push, Goto, TypeOK
  <2>2. InHand(c) \in Frames /\ InHand(c) \notin Settled \cup Waiting
    BY <2>1, HandIsFree
  <2>3. q \in Seq(Frames) /\ Distinct(q) /\ InHand(c) \notin ToSet(q)
    BY <1>t, <2>2 DEF TypeOK, Sorted, Waiting
  <2>4. ToSet(pending_frames'[c]) = ToSet(q) \cup {InHand(c)} /\ Distinct(pending_frames'[c])
    BY <2>1, <2>2, <2>3, AppendFrame
  <2>5. Waiting' = Waiting \cup {InHand(c)}
    <3>1. \A d \in Conns : ToSet(pending_frames'[d]) =
                             IF d = c THEN ToSet(pending_frames[d]) \cup {InHand(c)}
                                      ELSE ToSet(pending_frames[d])
      BY <2>1, <2>4
    <3>2. QED
      BY <2>1, <2>2, <3>1 DEF Waiting
  <2>6. Settled' = Settled
    BY <2>1 DEF Settled
  <2>7. Accounted'
    BY <1>t, <2>1, <2>2, <2>5, <2>6, HandEnters DEF Accounted
  <2>8. Sorted'
    <3>1. InHand(c)[1] = c
      BY DEF InHand
    <3>2. ASSUME NEW d \in Conns
          PROVE  /\ Distinct(pending_frames'[d])
                 /\ \A f \in ToSet(pending_frames'[d]) : f[1] = d
      BY <1>t, <2>1, <2>4, <3>1 DEF Sorted
    <3>3. QED
      BY <1>t, <2>1, <3>2 DEF Sorted, Distinct
  <2>9. Apart'
    <3>1. /\ InHand(c) \notin ToSet(callback.to_send)
          /\ \A b \in batches : InHand(c) \notin ToSet(b)
      BY <2>2 DEF Waiting
    <3>2. \A d \in Conns : ToSet(pending_frames'[d]) =
                             IF d = c THEN ToSet(pending_frames[d]) \cup {InHand(c)}
                                      ELSE ToSet(pending_frames[d])
      BY <2>1, <2>4
    <3>3. ASSUME NEW d \in Conns
          PROVE  ToSet(pending_frames'[d]) \cap ToSet(callback.to_send) = {}
      <4>1. ToSet(pending_frames[d]) \cap ToSet(callback.to_send) = {}
        BY <1>t DEF Apart
      <4>2. ToSet(pending_frames'[d]) \subseteq ToSet(pending_frames[d]) \cup {InHand(c)}
        BY <3>2
      <4>3. QED
        BY ONLY <3>1, <4>1, <4>2
    <3>4. \A b \in batches : \A d \in Conns : ToSet(pending_frames'[d]) \cap ToSet(b) = {}
      BY ZenonT(60), <1>t, <3>1, <3>2 DEF Apart
    <3>5. QED
      BY <1>t, <2>1, <3>3, <3>4 DEF Apart
  <2>10. QED
    BY <2>7, <2>8, <2>9 DEF PlacesInv
<1>4. QED
  BY <1>1, <1>2, <1>3 DEF ReadLoop

\* The steps of the callback: frames go from the queue to the callback and from
\* there to a batch.
LEMMA CallbackKeepsPlaces ==
  ASSUME PlacesInv, TypeInv', Callback
  PROVE  PlacesInv'
<1> USE DEF senderVars, callbackVars, transportVars, historyVars
<1> DEFINE c == callback.conn
<1>t. TypeInv /\ TypeOK /\ Sorted /\ Apart /\ Accounted
  BY DEF PlacesInv, TypeInv
<1>u. UNCHANGED <<pc, frame, wire, lost, rejected>>
  BY DEF Callback, AllowSending, Pop, Subtract, Reset
<1>a. ASSUME Waiting' = Waiting PROVE Accounted'
  <2>1. Settled' = Settled /\ \A d \in Conns : HandedOver(d)' = HandedOver(d)
    BY <1>u DEF Settled, HandedOver
  <2>2. QED
    BY <1>t, <1>a, <2>1 DEF Accounted
<1>e. ToSet(<< >>) = {} /\ Distinct(<< >>)
  BY DEF ToSet, Distinct
<1>1. CASE AllowSending
  <2>1. /\ callback.to_send = << >> /\ callback'.to_send = << >>
        /\ UNCHANGED <<pending_frames, batches>>
    BY <1>1, <1>t DEF AllowSending, Sorted
  <2>2. Waiting' = Waiting
    BY <2>1 DEF Waiting
  <2>3. Sorted' /\ Apart'
    BY <1>t, <1>e, <2>1 DEF Sorted, Apart, Distinct
  <2>4. QED
    BY <1>a, <2>2, <2>3 DEF PlacesInv
<1>2. CASE Pop
  <2> DEFINE q == pending_frames[c]
             t == SubSeq(pending_frames[c], 1, Taken(c))
             u == SubSeq(pending_frames[c], Taken(c) + 1, Len(pending_frames[c]))
  <2>1. /\ callback.stage = "pop" /\ c \in Conns /\ callback.to_send = << >>
        /\ callback'.stage = "subtract" /\ callback'.conn = c /\ callback'.to_send = t
        /\ pending_frames'[c] = u
        /\ \A d \in Conns \ {c} : pending_frames'[d] = pending_frames[d]
        /\ batches' = batches
    BY <1>2, <1>t DEF Pop, TypeOK, Sorted
  <2>2. q \in Seq(Frames) /\ Taken(c) \in 0..Len(q) /\ Distinct(q)
    BY <1>t, <2>1, TakenIsBounded DEF TypeOK, Sorted
  <2>3. /\ ToSet(q) = ToSet(t) \cup ToSet(u) /\ ToSet(t) \cap ToSet(u) = {}
        /\ Distinct(t) /\ Distinct(u)
    BY ONLY <2>2, SplitFrames
  <2>4. ToSet(callback.to_send) = {} /\ ToSet(callback'.to_send) = ToSet(t)
    BY <1>e, <2>1
  <2> HIDE DEF t, u, q
  <2>5. ToSet(pending_frames[c]) = ToSet(t) \cup ToSet(u) /\ ToSet(pending_frames'[c]) = ToSet(u)
    BY <2>1, <2>3 DEF q
  <2>6. Waiting' = Waiting
    <3>1. \A f : (\E d \in Conns : f \in ToSet(pending_frames[d])) <=>
                 f \in ToSet(t) \/ \E d \in Conns : f \in ToSet(pending_frames'[d])
      BY <2>1, <2>5
    <3>2. QED
      BY <2>1, <2>4, <3>1 DEF Waiting
  <2>7. Sorted'
    <3>1. \A f \in ToSet(t) \cup ToSet(u) : f[1] = c
      BY <1>t, <2>1, <2>5 DEF Sorted
    <3>2. ASSUME NEW d \in Conns
          PROVE  /\ Distinct(pending_frames'[d])
                 /\ \A f \in ToSet(pending_frames'[d]) : f[1] = d
      BY <1>t, <2>1, <2>3, <2>5, <3>1 DEF Sorted
    <3>3. /\ Distinct(callback'.to_send)
          /\ \A f \in ToSet(callback'.to_send) : f[1] = callback'.conn
      BY <2>1, <2>3, <3>1
    <3>4. QED
      BY <1>t, <2>1, <3>2, <3>3 DEF Sorted, Distinct
  <2>8. Apart'
    <3>1. \A d \in Conns \ {c} : ToSet(pending_frames[d]) \cap ToSet(t) = {}
      BY <1>t, <2>1, <2>5 DEF Sorted
    <3>2. \A d \in Conns : ToSet(pending_frames'[d]) \cap ToSet(callback'.to_send) = {}
      BY <2>1, <2>3, <2>4, <2>5, <3>1
    <3>3. ASSUME NEW b \in batches
          PROVE  /\ \A d \in Conns : ToSet(pending_frames'[d]) \cap ToSet(b) = {}
                 /\ ToSet(callback'.to_send) \cap ToSet(b) = {}
      <4>1. \A d \in Conns : ToSet(pending_frames[d]) \cap ToSet(b) = {}
        BY <1>t DEF Apart
      <4>2. ToSet(t) \cap ToSet(b) = {} /\ ToSet(u) \cap ToSet(b) = {}
        BY <2>1, <2>5, <4>1
      <4>3. QED
        BY <2>1, <2>4, <2>5, <4>1, <4>2
    <3>4. QED
      BY <1>t, <2>1, <3>2, <3>3 DEF Apart
  <2>9. QED
    BY <1>a, <2>6, <2>7, <2>8 DEF PlacesInv
<1>3. ASSUME Spawn, UNCHANGED pending_frames PROVE PlacesInv'
  <2> DEFINE t == callback.to_send
  <2>1. /\ callback' = NoCallback /\ NoCallback.stage = "idle" /\ NoCallback.to_send = << >>
        /\ pending_frames' = pending_frames
        /\ t = << >> => batches' = batches
        /\ t # << >> => batches' = batches \cup {t}
    BY <1>3 DEF Spawn, NoCallback
  <2>2. t \in Seq(Frames) /\ Len(t) <= BatchLimit /\ Distinct(t)
    BY <1>t DEF TypeInv, TypeOK, Sorted
  <2>3. ToSet(callback'.to_send) = {} /\ (t = << >> => ToSet(t) = {})
    BY <1>e, <2>1
  <2>4. t # << >> => \A f \in ToSet(t) : f[1] = Head(t)[1]
    <3> SUFFICES ASSUME t # << >>, NEW f \in ToSet(t) PROVE f[1] = Head(t)[1]
      OBVIOUS
    <3>1. Head(t) \in ToSet(t)
      BY <2>2, TakeFrame
    <3>2. QED
      BY <1>t, <3>1 DEF Sorted
  <2>5. Waiting' = Waiting
    BY <2>1, <2>3 DEF Waiting
  <2>6. Sorted'
    <3>1. IsFiniteSet(batches')
      BY <1>t, <2>1, FS_AddElement DEF Sorted
    <3>2. \A b \in batches' : /\ Distinct(b) /\ Len(b) <= BatchLimit
                               /\ \A f \in ToSet(b) : f[1] = Head(b)[1]
      BY <1>t, <2>1, <2>2, <2>4 DEF Sorted
    <3>3. /\ Distinct(callback'.to_send)
          /\ callback'.to_send = << >>
      BY <1>e, <2>1
    <3>4. QED
      BY <1>t, <2>1, <2>3, <3>1, <3>2, <3>3 DEF Sorted, Distinct
  <2>7. Apart'
    <3>1. /\ \A b \in batches : ToSet(t) \cap ToSet(b) = {}
          /\ \A d \in Conns : ToSet(pending_frames[d]) \cap ToSet(t) = {}
      BY <1>t DEF Apart
    <3>2. ASSUME NEW b \in batches'
          PROVE  /\ \A d \in Conns : ToSet(pending_frames[d]) \cap ToSet(b) = {}
                 /\ \A d \in batches' : b # d => ToSet(b) \cap ToSet(d) = {}
      <4>1. CASE b \in batches
        BY <1>t, <2>1, <3>1, <4>1 DEF Apart
      <4>2. CASE b = t /\ t # << >>
        BY <1>t, <2>1, <3>1, <4>2 DEF Apart
      <4>3. QED
        BY <2>1, <4>1, <4>2
    <3>3. QED
      BY <2>1, <2>3, <3>2 DEF Apart
  <2>8. QED
    BY <1>a, <2>5, <2>6, <2>7 DEF PlacesInv
<1>4. CASE Reset
  BY <1>3, <1>4 DEF Reset
<1>5. CASE Subtract
  <2>1. CASE Spawn
    BY <1>3, <1>5, <2>1 DEF Subtract
  <2>2. CASE callback' = [callback EXCEPT !.stage = "reset"] /\ UNCHANGED batches
    <3>1. /\ callback'.stage = "reset" /\ callback'.conn = c
          /\ callback'.to_send = callback.to_send
          /\ UNCHANGED <<pending_frames, batches>>
      BY <1>5, <1>t, <2>2 DEF Subtract, TypeOK
    <3>2. Waiting' = Waiting
      BY <3>1 DEF Waiting
    <3>3. Sorted' /\ Apart'
      BY <1>t, <3>1 DEF Sorted, Apart, Distinct
    <3>4. QED
      BY <1>a, <3>2, <3>3 DEF PlacesInv
  <2>3. QED
    BY <1>5, <2>1, <2>2 DEF Subtract
<1>6. QED
  BY <1>1, <1>2, <1>4, <1>5 DEF Callback

\* The steps of a batch task: its first frame, or the whole of it, is settled.
LEMMA BatchKeepsPlaces ==
  ASSUME PlacesInv, TypeInv', NEW b \in batches, BatchSend(b) \/ BatchFails(b)
  PROVE  PlacesInv'
<1> USE DEF senderVars, callbackVars, transportVars, historyVars
<1>t. TypeInv /\ TypeOK /\ Sorted /\ Apart /\ Accounted
  BY DEF PlacesInv, TypeInv
<1>u. UNCHANGED <<pc, frame, pending_frames, callback, rejected>>
  BY DEF BatchSend, BatchFails
<1>b. /\ b \in Seq(Frames) /\ b # << >> /\ Distinct(b) /\ Head(b) \in Frames
      /\ \A f \in ToSet(b) : f[1] = Head(b)[1]
      /\ ToSet(b) \subseteq Waiting
  <2>1. b \in Seq(Frames) /\ b # << >>
    BY <1>t DEF TypeOK
  <2>2. Head(b) \in Frames
    BY <2>1, HeadAndTail
  <2>3. Distinct(b) /\ \A f \in ToSet(b) : f[1] = Head(b)[1]
    BY <1>t DEF Sorted
  <2>4. ToSet(b) \subseteq Frames
    BY <1>t, PlacesHoldFrames
  <2>5. ToSet(b) \subseteq Waiting
    BY <2>4 DEF Waiting
  <2>6. QED
    BY <2>1, <2>2, <2>3, <2>5
<1>c. /\ ToSet(b) = ToSet(Tail(b)) \cup {Head(b)} /\ Head(b) \notin ToSet(Tail(b))
      /\ Distinct(Tail(b)) /\ Len(Tail(b)) <= Len(b) /\ Tail(b) \in Seq(Frames)
      /\ Len(b) = 1 => ToSet(Tail(b)) = {}
      /\ Len(b) # 1 => Tail(b) # << >>
  BY <1>b, TakeFrame, HeadAndTail
<1>d. ASSUME NEW G \in SUBSET ToSet(b), Settled' = Settled \cup G, Waiting' = Waiting \ G
      PROVE  Accounted'
  <2>1. \A d \in Conns : HandedOver(d)' = HandedOver(d)
    BY <1>u DEF HandedOver
  <2>2. Settled' \cup Waiting' = Settled \cup Waiting /\ Waiting' \cap Settled' = {}
    BY <1>b, <1>d, <1>t DEF Accounted
  <2>3. QED
    BY <1>t, <2>1, <2>2 DEF Accounted
<1>e. \A f \in ToSet(b) : /\ \A d \in Conns : f \notin ToSet(pending_frames[d])
                          /\ f \notin ToSet(callback.to_send)
                          /\ \A d \in batches \ {b} : f \notin ToSet(d)
  BY <1>t DEF Apart
<1>1. CASE BatchSend(b)
  <2>1. /\ wire' = Append(wire, Head(b)) /\ UNCHANGED lost
        /\ batches' = (batches \ {b}) \cup (IF Len(b) = 1 THEN {} ELSE {Tail(b)})
    BY <1>1 DEF BatchSend, Transmit
  <2>2. Settled' = Settled \cup {Head(b)}
    <3>1. ToSet(wire') = ToSet(wire) \cup {Head(b)}
      BY <1>b, <1>t, <2>1, AppendFrame DEF TypeOK
    <3>2. QED
      BY <1>u, <2>1, <3>1 DEF Settled
  <2>3. Waiting' = Waiting \ {Head(b)}
    <3>1. \A f : (\E d \in batches' : f \in ToSet(d)) <=>
                 (\E d \in batches \ {b} : f \in ToSet(d)) \/ f \in ToSet(Tail(b))
      BY <1>c, <2>1
    <3>2. ASSUME NEW f \in Frames PROVE f \in Waiting' <=> f \in Waiting /\ f # Head(b)
      <4>1. CASE f = Head(b)
        BY <1>c, <1>e, <1>u, <3>1, <4>1 DEF Waiting
      <4>2. CASE f # Head(b)
        BY <1>c, <1>u, <3>1, <4>2 DEF Waiting
      <4>3. QED
        BY <4>1, <4>2
    <3>3. QED
      BY <3>2 DEF Waiting
  <2>4. Accounted'
    BY <1>c, <1>d, <2>2, <2>3
  <2>5. Sorted'
    <3>1. IsFiniteSet(batches')
      <4>1. IsFiniteSet(batches \ {b})
        BY <1>t, FS_Subset DEF Sorted
      <4>2. QED
        BY <2>1, <4>1, FS_AddElement
    <3>2. ASSUME NEW d \in batches'
          PROVE  /\ Distinct(d) /\ Len(d) <= BatchLimit
                 /\ \A f \in ToSet(d) : f[1] = Head(d)[1]
      <4>1. CASE d \in batches
        BY <1>t, <4>1 DEF Sorted
      <4>2. CASE d = Tail(b) /\ Len(b) # 1
        <5>1. Len(b) <= BatchLimit /\ Len(b) \in Nat /\ Len(Tail(b)) \in Nat
          BY <1>b, <1>c, <1>t, LenProperties DEF Sorted
        <5>2. Len(d) <= BatchLimit
          BY <1>c, <4>2, <5>1, SenderAssumption
        <5>3. Head(d) \in ToSet(d)
          <6>1. d \in Seq(Frames) /\ d # << >> /\ Distinct(d)
            BY <1>c, <4>2
          <6>2. QED
            BY ONLY <6>1, TakeFrame
        <5>4. QED
          BY <1>b, <1>c, <4>2, <5>2, <5>3
      <4>3. QED
        BY <2>1, <4>1, <4>2
    <3>3. QED
      BY <1>t, <1>u, <3>1, <3>2 DEF Sorted, Distinct
  <2>6. Apart'
    <3>1. ASSUME NEW d \in batches'
          PROVE  /\ \A c \in Conns : ToSet(pending_frames[c]) \cap ToSet(d) = {}
                 /\ ToSet(callback.to_send) \cap ToSet(d) = {}
      BY <1>c, <1>t, <2>1 DEF Apart
    <3>2. ASSUME NEW d \in batches', NEW g \in batches', d # g
          PROVE  ToSet(d) \cap ToSet(g) = {}
      <4>1. \A h \in batches \ {b} : ToSet(h) \cap ToSet(Tail(b)) = {}
        BY <1>c, <1>e
      <4>2. QED
        BY <1>t, <2>1, <3>2, <4>1 DEF Apart
    <3>3. QED
      BY <1>t, <1>u, <3>1, <3>2 DEF Apart
  <2>7. QED
    BY <2>4, <2>5, <2>6 DEF PlacesInv
<1>2. CASE BatchFails(b)
  <2>1. /\ batches' = batches \ {b} /\ lost' = lost \cup ToSet(b) /\ UNCHANGED wire
    BY <1>2 DEF BatchFails
  <2>2. Settled' = Settled \cup ToSet(b)
    BY <1>u, <2>1 DEF Settled
  <2>3. Waiting' = Waiting \ ToSet(b)
    <3>1. ASSUME NEW f \in Frames PROVE f \in Waiting' <=> f \in Waiting /\ f \notin ToSet(b)
      <4>1. CASE f \in ToSet(b)
        BY <1>e, <1>u, <2>1, <4>1 DEF Waiting
      <4>2. CASE f \notin ToSet(b)
        BY <1>u, <2>1, <4>2 DEF Waiting
      <4>3. QED
        BY <4>1, <4>2
    <3>2. QED
      BY <3>1 DEF Waiting
  <2>4. Accounted'
    BY <1>d, <2>2, <2>3
  <2>5. IsFiniteSet(batches')
    BY <1>t, <2>1, FS_Subset DEF Sorted
  <2>6. Sorted' /\ Apart'
    BY <1>t, <1>u, <2>1, <2>5 DEF Sorted, Apart, Distinct
  <2>7. QED
    BY <2>4, <2>6 DEF PlacesInv
<1>3. QED
  BY <1>1, <1>2

\* Every frame handed over is in exactly one place or settled, and nothing else
\* is anywhere.
LEMMA PlacesInvariant == Spec => []PlacesInv
<1>1. Init => PlacesInv
  <2> SUFFICES ASSUME Init PROVE PlacesInv
    OBVIOUS
  <2>1. TypeInv
    BY InitHasTypes
  <2>2. /\ \A c \in Conns : pending_frames[c] = << >> /\ pc[c] = "new" /\ frame[c] = 0
        /\ callback.to_send = << >> /\ callback.conn = None /\ batches = {}
        /\ wire = << >> /\ lost = {} /\ rejected = {}
    BY DEF Init, NoCallback
  <2>3. ToSet(<< >>) = {} /\ Distinct(<< >>)
    BY DEF ToSet, Distinct
  <2>4. Settled = {} /\ Waiting = {}
    BY <2>2, <2>3 DEF Settled, Waiting
  <2>5. \A c \in Conns : HandedOver(c) = 0
    BY <2>2 DEF HandedOver
  <2>6. Accounted
    BY <2>4, <2>5 DEF Accounted
  <2>7. IsFiniteSet(batches)
    BY <2>2, FS_EmptySet
  <2>8. Sorted /\ Apart
    BY <2>2, <2>3, <2>7 DEF Sorted, Apart
  <2>9. QED
    BY <2>1, <2>6, <2>8 DEF PlacesInv
<1>2. PlacesInv /\ [Next]_vars => PlacesInv'
  <2> SUFFICES ASSUME PlacesInv, [Next]_vars PROVE PlacesInv'
    OBVIOUS
  <2>t. TypeInv'
    BY StepKeepsTypes DEF PlacesInv
  <2>1. CASE SctpAck \/ close \/ UNCHANGED vars
    <3>1. UNCHANGED <<pending_frames, callback, batches, wire, lost, rejected, pc, frame>>
      BY <2>1 DEF SctpAck, close, vars, senderVars, callbackVars, transportVars, historyVars
    <3>2. \A c \in Conns : HandedOver(c)' = HandedOver(c)
      BY <3>1 DEF HandedOver
    <3>3. QED
      BY <2>t, <3>1, <3>2, PlacesUntouched
  <2>2. QED
    BY <2>t, <2>1, ReadLoopKeepsPlaces, CallbackKeepsPlaces, BatchKeepsPlaces DEF Next, Batch
<1>3. QED
  BY <1>1, <1>2, PTL DEF Spec

\* No frame a read loop has handed over vanishes between the queue, the callback
\* and the batch tasks: until it is transmitted, refused or lost with a failed
\* batch, some place holds it.
THEOREM FramesHeld == Spec => []NothingVanishes
<1>1. PlacesInv => NothingVanishes
  <2> SUFFICES ASSUME PlacesInv, NEW c \in Conns, NEW n \in 1..frame[c],
                      ~(n = frame[c] /\ pc[c] \in {"send", "stop", "check", "push"})
               PROVE  Holders(<<c, n>>) >= 1
    BY DEF NothingVanishes
  <2> DEFINE f == <<c, n>>
             Queues == {d \in Conns : f \in ToSet(pending_frames[d])}
             Tasks == {b \in batches : f \in ToSet(b)}
  <2>1. frame[c] \in 0..MaxFrames
    BY DEF PlacesInv, TypeInv, TypeOK
  <2>2. n \in 1..MaxFrames /\ n <= HandedOver(c)
    BY <2>1, SenderAssumption DEF HandedOver
  <2>3. f \in Settled \cup Waiting
    BY <2>2 DEF PlacesInv, Accounted
  <2>4. IsFiniteSet(Queues) /\ IsFiniteSet(Tasks)
    BY SenderAssumption, FS_Subset DEF PlacesInv, Sorted
  <2>5. /\ Cardinality(Queues) \in Nat /\ Cardinality(Tasks) \in Nat
        /\ Queues # {} => Cardinality(Queues) # 0
        /\ Tasks # {} => Cardinality(Tasks) # 0
    BY <2>4, FS_CardinalityType, FS_EmptySet
  <2>6. \/ Queues # {} \/ Tasks # {} \/ f \in ToSet(callback.to_send)
        \/ f \in ToSet(wire) \/ f \in lost \/ f \in rejected
    BY <2>3 DEF Settled, Waiting
  <2>7. Holders(f) = Cardinality(Queues) + Cardinality(Tasks)
                       + One(f \in ToSet(callback.to_send)) + One(f \in ToSet(wire))
                       + One(f \in lost) + One(f \in rejected)
    BY DEF Holders
  <2> HIDE DEF f, Queues, Tasks
  <2>8. QED
    BY <2>5, <2>6, <2>7 DEF One, f
<1>2. QED
  BY <1>1, PlacesInvariant, PTL

-----------------------------------------------------------------------------
\* The refinement of FrameDelivery.

\* The fate of a frame, by the account of the places.
LEMMA FateByPlace ==
  ASSUME PlacesInv, NEW c \in Conns, NEW n \in 1..MaxFrames
  PROVE  /\ <<c, n>> \notin Settled =>
              Fate(<<c, n>>) = IF n <= frame[c] THEN "held" ELSE "unread"
         /\ Fate(<<c, n>>) = "unread" <=> n > frame[c]
<1> DEFINE f == <<c, n>>
<1>1. frame[c] \in Nat /\ HandedOver(c) <= frame[c]
  BY SMTT(30), SenderAssumption DEF PlacesInv, TypeInv, TypeOK, HandedOver
<1>2. f \in Settled => n <= frame[c]
  <2>1. f \in Settled => n <= HandedOver(c)
    BY DEF PlacesInv, Accounted
  <2>2. HandedOver(c) \in Int
    BY <1>1 DEF HandedOver
  <2>3. QED
    BY <1>1, <2>1, <2>2
<1>3. f[1] = c /\ f[2] = n
  OBVIOUS
<1> HIDE DEF f
<1>4. f \notin Settled => Fate(f) = IF n <= frame[c] THEN "held" ELSE "unread"
  BY <1>3 DEF Settled, Fate
<1>5. f \in Settled => Fate(f) \in {"sent", "refused", "dropped"}
  BY DEF Settled, Fate
<1>6. QED
  BY <1>1, <1>2, <1>4, <1>5 DEF f

\* A step that settles nothing and hands nothing over is a stuttering step.
LEMMA FatesUntouched ==
  ASSUME UNCHANGED <<wire, lost, rejected, frame>>,
         \A c \in Conns : pc'[c] = "exited" <=> pc[c] = "exited"
  PROVE  UNCHANGED Delivery!vars
<1>1. \A f \in Frames : Fate(f)' = Fate(f)
  BY DEF Fate
<1>2. QED
  BY <1>1 DEF Delivery!vars

\* A transmission, of the frame in hand or of the first of a batch.
LEMMA TransmitIsSend ==
  ASSUME PlacesInv, NEW c \in Conns, NEW n \in 1..frame[c], <<c, n>> \notin Settled,
         wire' = Append(wire, <<c, n>>), UNCHANGED <<lost, rejected, frame>>,
         \A d \in Conns : pc'[d] = "exited" <=> pc[d] = "exited"
  PROVE  Delivery!Next
<1>1. frame[c] \in 0..MaxFrames /\ wire \in Seq(Frames)
  BY DEF PlacesInv, TypeInv, TypeOK
<1>2. n \in 1..MaxFrames /\ n <= frame[c] /\ <<c, n>> \in Frames
  BY <1>1, SenderAssumption DEF Frames
<1>3. Fate(<<c, n>>) = "held"
  BY <1>2, FateByPlace
<1>4. ToSet(wire') = ToSet(wire) \cup {<<c, n>>}
  BY <1>1, <1>2, AppendFrame
<1>5. \A f \in Frames : Fate(f)' = IF f = <<c, n>> THEN "sent" ELSE Fate(f)
  <2> SUFFICES ASSUME NEW f \in Frames
               PROVE  Fate(f)' = IF f = <<c, n>> THEN "sent" ELSE Fate(f)
    OBVIOUS
  <2>1. CASE f = <<c, n>>
    <3>1. f \in ToSet(wire') /\ f \notin rejected' /\ f \notin lost'
      BY <1>4, <2>1 DEF Settled
    <3>2. QED
      BY <2>1, <3>1 DEF Fate
  <2>2. CASE f # <<c, n>>
    <3>1. f \in ToSet(wire') <=> f \in ToSet(wire)
      BY <1>4, <2>2
    <3>2. QED
      BY <2>2, <3>1 DEF Fate
  <2>3. QED
    BY <2>1, <2>2
<1>6. Delivery!Send(<<c, n>>)
  BY <1>2, <1>3, <1>5 DEF Delivery!Send
<1>7. QED
  BY <1>2, <1>6 DEF Delivery!Next, Delivery!Frames, Frames

\* A read loop's step hands over its next frame, has the frame in hand sent or
\* refused, or changes no fate.
LEMMA ReadLoopDelivers ==
  ASSUME PlacesInv, NEW c \in Conns, ReadLoop(c)
  PROVE  Delivery!Next \/ UNCHANGED Delivery!vars
<1> USE DEF senderVars, callbackVars, transportVars, historyVars
<1>p. /\ pc \in [Conns -> {"new", "idle", "send", "stop", "check", "push", "count", "exited"}]
      /\ frame \in [Conns -> 0..MaxFrames]
  BY DEF PlacesInv, TypeInv, TypeOK
<1>1. CASE New(c) \/ SendFailsTemporarily(c) \/ StopSending(c) \/ QueueHasRoom(c)
           \/ Push(c) \/ Count(c)
  <2>1. /\ UNCHANGED <<wire, lost, rejected, frame>>
        /\ \A d \in Conns : pc'[d] = "exited" <=> pc[d] = "exited"
    BY <1>1, <1>p DEF New, SendFailsTemporarily, StopSending, QueueHasRoom, Push, Count, Goto
  <2>2. QED
    BY <2>1, FatesUntouched
<1>2. CASE Call(c)
  <2>0. PICK n : n = frame[c] + 1
    OBVIOUS
  <2>1. /\ frame[c] \in 0..MaxFrames /\ frame[c] < FramesOf[c] /\ FramesOf[c] \in 0..MaxFrames
        /\ pc[c] = "idle" /\ frame' = [frame EXCEPT ![c] = n]
        /\ UNCHANGED <<wire, lost, rejected>>
        /\ \A d \in Conns : pc'[d] = "exited" <=> pc[d] = "exited"
    BY <1>2, <1>p, <2>0, SenderAssumption DEF Call, Goto
  <2>2. n \in 1..MaxFrames
    BY <2>0, <2>1, SenderAssumption
  <2>3. \A m \in 1..MaxFrames : Fate(<<c, m>>) = "unread" <=> m >= n
    <3> SUFFICES ASSUME NEW m \in 1..MaxFrames
                 PROVE  Fate(<<c, m>>) = "unread" <=> m >= n
      OBVIOUS
    <3>1. Fate(<<c, m>>) = "unread" <=> m > frame[c]
      BY FateByPlace
    <3>2. QED
      BY <2>0, <2>1, <3>1, SenderAssumption
  <2>4. <<c, n>> \notin Settled
    <3>1. ~(n <= HandedOver(c))
      BY <2>0, <2>1 DEF HandedOver
    <3>2. QED
      BY <2>2, <3>1 DEF PlacesInv, Accounted
  <2>5. Fate(<<c, n>>)' = "held"
    <3>1. <<c, n>>[1] = c /\ <<c, n>>[2] = n /\ frame'[c] = n
      BY <1>p, <2>1
    <3>2. <<c, n>> \notin ToSet(wire)' /\ <<c, n>> \notin rejected' /\ <<c, n>> \notin lost'
      BY <2>1, <2>4 DEF Settled
    <3>3. n <= frame'[c]
      BY <2>2, <3>1
    <3>4. QED
      BY <2>1, <3>1, <3>2, <3>3 DEF Fate
  <2>6. ASSUME NEW f \in Frames, f # <<c, n>> PROVE Fate(f)' = Fate(f)
    <3>1. PICK d \in Conns, m \in 1..MaxFrames : f = <<d, m>>
      BY DEF Frames
    <3>2. f[1] = d /\ f[2] = m /\ (d = c => m # n)
      BY <2>6, <3>1
    <3>3. m <= frame'[d] <=> m <= frame[d]
      BY <1>p, <2>0, <2>1, <3>2, SenderAssumption
    <3>4. QED
      BY <2>1, <3>2, <3>3 DEF Fate
  <2>7. <<c, n>> \in Frames
    BY <2>2 DEF Frames
  <2>8. [f \in Frames |-> Fate(f)]' = [[f \in Frames |-> Fate(f)] EXCEPT ![<<c, n>>] = "held"]
    BY <2>5, <2>6, <2>7
  <2>9. c \notin {d \in Conns : pc[d] = "exited"}
    BY <2>1
  <2>10. {d \in Conns : pc[d] = "exited"}' = {d \in Conns : pc[d] = "exited"}
    BY <2>1
  <2>11. \A m \in 1..MaxFrames : <<c, m>> \in Frames
    BY DEF Frames
  <2>12. Delivery!Accept(c)
    <3>1. n \in 1..MaxFrames
      BY <2>2
    <3>2. QED
      BY <3>1, <2>1, <2>3, <2>8, <2>9, <2>10, <2>11 DEF Delivery!Accept
  <2>13. QED
    BY <2>12 DEF Delivery!Next
<1>3. CASE SendNow(c)
  <2>1. /\ pc[c] = "send" /\ wire' = Append(wire, <<c, frame[c]>>)
        /\ UNCHANGED <<lost, rejected, frame>>
        /\ \A d \in Conns : pc'[d] = "exited" <=> pc[d] = "exited"
    BY <1>3, <1>p DEF SendNow, Transmit, Goto, InHand
  <2>2. <<c, frame[c]>> \notin Settled /\ frame[c] \in 1..frame[c]
    BY <2>1, HandIsFree, SenderAssumption DEF InHand
  <2>3. QED
    BY <2>1, <2>2, TransmitIsSend
<1>4. CASE SendClosed(c) \/ QueueFull(c)
  <2>0. PICK n : n = frame[c]
    OBVIOUS
  <2>1. /\ pc[c] \in {"send", "check"} /\ pc' = [pc EXCEPT ![c] = "exited"]
        /\ rejected' = rejected \cup {<<c, n>>}
        /\ UNCHANGED <<wire, lost, frame>>
    BY <1>4, <2>0 DEF SendClosed, QueueFull, Refuse, Goto, InHand
  <2>2. <<c, n>> \notin Settled /\ n \in 1..MaxFrames /\ <<c, n>> \in Frames
    BY <2>0, <2>1, HandIsFree DEF InHand
  <2>3. Fate(<<c, n>>) = "held"
    BY <2>0, <2>2, SenderAssumption, FateByPlace
  <2>4. \A m \in (n + 1)..MaxFrames : Fate(<<c, m>>) = "unread" /\ <<c, m>> \in Frames
    <3> SUFFICES ASSUME NEW m \in (n + 1)..MaxFrames
                 PROVE  Fate(<<c, m>>) = "unread" /\ <<c, m>> \in Frames
      OBVIOUS
    <3>1. m \in 1..MaxFrames /\ m > frame[c]
      BY <2>0, <2>2, SenderAssumption
    <3>2. QED
      BY <3>1, FateByPlace DEF Frames
  <2>5. ASSUME NEW f \in Frames PROVE Fate(f)' = IF f = <<c, n>> THEN "refused" ELSE Fate(f)
    <3>1. CASE f = <<c, n>>
      <4>1. f \notin ToSet(wire)' /\ f \in rejected' /\ f \notin lost'
        BY <2>1, <2>2, <3>1 DEF Settled
      <4>2. QED
        BY <3>1, <4>1 DEF Fate
    <3>2. CASE f # <<c, n>>
      BY <2>1, <3>2 DEF Fate
    <3>3. QED
      BY <3>1, <3>2
  <2>6. [f \in Frames |-> Fate(f)]' = [[f \in Frames |-> Fate(f)] EXCEPT ![<<c, n>>] = "refused"]
    BY <2>2, <2>5
  <2>7. {d \in Conns : pc[d] = "exited"}' = {d \in Conns : pc[d] = "exited"} \cup {c}
    BY <1>p, <2>1
  <2>8. Delivery!Refuse(c)
    BY <2>1, <2>2, <2>3, <2>4, <2>6, <2>7 DEF Delivery!Refuse
  <2>9. QED
    BY <2>8 DEF Delivery!Next
<1>5. QED
  BY <1>1, <1>2, <1>3, <1>4 DEF ReadLoop

\* A batch holds at least one frame, and no more than it is long.
LEMMA BatchSize ==
  ASSUME NEW S, NEW s \in Seq(S), s # << >>
  PROVE  Cardinality(ToSet(s)) \in 1..Len(s)
<1>1. Len(s) \in Nat \ {0} /\ DOMAIN s = 1..Len(s)
  BY LenProperties, EmptySeq
<1>2. IsFiniteSet(1..Len(s)) /\ Cardinality(1..Len(s)) = Len(s)
  BY <1>1, FS_Interval
<1>3. s \in Surjection(1..Len(s), ToSet(s))
  BY <1>1, LenProperties DEF Surjection, ToSet
<1>4. /\ IsFiniteSet(ToSet(s)) /\ Cardinality(ToSet(s)) <= Cardinality(1..Len(s))
  BY <1>2, <1>3, FS_Surjection
<1>5. Cardinality(ToSet(s)) \in Nat /\ Cardinality(ToSet(s)) # 0
  <2>1. s[1] \in ToSet(s)
    BY <1>1 DEF ToSet
  <2>2. QED
    BY <1>4, <2>1, FS_CardinalityType, FS_EmptySet
<1>6. QED
  BY <1>1, <1>2, <1>4, <1>5

\* A batch task's step has its first frame sent, or the whole batch dropped.
LEMMA BatchDelivers ==
  ASSUME PlacesInv, NEW b \in batches, BatchSend(b) \/ BatchFails(b)
  PROVE  Delivery!Next
<1> USE DEF senderVars, callbackVars, transportVars, historyVars
<1>t. TypeInv /\ TypeOK /\ Sorted /\ Accounted
  BY DEF PlacesInv, TypeInv
<1>b. b \in Seq(Frames) /\ b # << >> /\ ToSet(b) \subseteq Frames /\ Head(b) \in ToSet(b)
  BY <1>t, PlacesHoldFrames, TakeFrame DEF TypeOK, Sorted
<1>h. ASSUME NEW f \in ToSet(b)
      PROVE  /\ f \notin Settled /\ Fate(f) = "held" /\ f[1] = Head(b)[1]
             /\ f = <<f[1], f[2]>> /\ f[1] \in Conns /\ f[2] \in 1..frame[f[1]]
  <2>1. PICK c \in Conns, n \in 1..MaxFrames : f = <<c, n>>
    BY <1>b DEF Frames
  <2>2. f \in Waiting
    BY <1>b DEF Waiting
  <2>3. f \notin Settled /\ n <= HandedOver(c)
    BY <1>t, <2>1, <2>2 DEF Accounted
  <2>4. frame[c] \in 0..MaxFrames /\ n <= frame[c]
    BY <1>t, <2>3, SenderAssumption DEF TypeOK, HandedOver
  <2>5. Fate(f) = "held"
    BY <2>1, <2>3, <2>4, FateByPlace
  <2>6. f[1] = Head(b)[1]
    BY <1>t DEF Sorted
  <2>7. QED
    BY <2>1, <2>3, <2>4, <2>5, <2>6
<1>1. CASE BatchSend(b)
  <2>1. PICK c \in Conns, n \in 1..MaxFrames :
               Head(b) = <<c, n>> /\ <<c, n>> \notin Settled /\ n \in 1..frame[c]
    BY <1>b, <1>h DEF Frames
  <2>2. wire' = Append(wire, <<c, n>>) /\ UNCHANGED <<lost, rejected, frame, pc>>
    BY <1>1, <2>1 DEF BatchSend, Transmit
  <2>3. QED
    BY <2>1, <2>2, TransmitIsSend
<1>2. CASE BatchFails(b)
  <2>1. lost' = lost \cup ToSet(b) /\ UNCHANGED <<wire, rejected, frame, pc>>
    BY <1>2 DEF BatchFails
  <2>2. PICK c \in Conns : c = Head(b)[1]
    BY <1>b, <1>h
  <2>f. Delivery!Frames = Frames
    BY DEF Delivery!Frames, Frames
  <2>3. ToSet(b) \in SUBSET {f \in Delivery!Frames :
                             f[1] = c /\ [g \in Frames |-> Fate(g)][f] = "held"}
    BY <1>b, <1>h, <2>2, <2>f
  <2>4. Cardinality(ToSet(b)) \in 1..BatchLimit
    <3>1. Cardinality(ToSet(b)) \in 1..Len(b) /\ Len(b) <= BatchLimit /\ Len(b) \in Nat
      BY <1>b, <1>t, BatchSize, LenProperties DEF Sorted
    <3>2. QED
      BY <3>1, SenderAssumption
  <2>5. ASSUME NEW f \in Frames
        PROVE  Fate(f)' = IF f \in ToSet(b) THEN "dropped" ELSE [g \in Frames |-> Fate(g)][f]
    <3>1. CASE f \in ToSet(b)
      <4>1. f \notin ToSet(wire)' /\ f \notin rejected' /\ f \in lost'
        BY <1>h, <2>1, <3>1 DEF Settled
      <4>2. QED
        BY <3>1, <4>1 DEF Fate
    <3>2. CASE f \notin ToSet(b)
      BY <2>1, <3>2 DEF Fate
    <3>3. QED
      BY <3>1, <3>2
  <2>6. [f \in Frames |-> Fate(f)]' =
          [f \in Delivery!Frames |->
             IF f \in ToSet(b) THEN "dropped" ELSE [g \in Frames |-> Fate(g)][f]]
    BY <2>5, <2>f
  <2>7. {d \in Conns : pc[d] = "exited"}' = {d \in Conns : pc[d] = "exited"}
    BY <2>1
  <2>8. Delivery!Drop(c)
    <3>1. UNCHANGED <<{d \in Conns : pc[d] = "exited"}, wire>>
      BY <2>1, <2>7
    <3>2. Delivery!Cardinality(ToSet(b)) = Cardinality(ToSet(b))
      BY DEF Delivery!Cardinality, Cardinality
    <3>3. Delivery!Cardinality(ToSet(b)) \in 1..BatchLimit
      BY <2>4, <3>2
    <3>4. QED
      BY ONLY <2>3, <2>6, <3>1, <3>3, Zenon DEF Delivery!Drop
  <2>9. QED
    BY <2>8 DEF Delivery!Next
<1>3. QED
  BY <1>1, <1>2

\* The senders implement FrameDelivery: every step of a read loop, of the
\* callback, of a batch task and of the transport hands over, sends, refuses or
\* drops frames as FrameDelivery allows, or changes no frame's fate.
THEOREM SendersRefine == Spec => SendersDeliver
<1>1. Init => Delivery!Init
  <2> SUFFICES ASSUME Init PROVE Delivery!Init
    OBVIOUS
  <2>1. /\ wire = << >> /\ lost = {} /\ rejected = {}
        /\ \A c \in Conns : pc[c] = "new" /\ frame[c] = 0
    BY DEF Init
  <2>2. ToSet(<< >>) = {}
    BY DEF ToSet
  <2>3. ASSUME NEW f \in Frames PROVE Fate(f) = "unread"
    <3>1. f[1] \in Conns /\ f[2] \in 1..MaxFrames
      BY DEF Frames
    <3>2. QED
      BY <2>1, <2>2, <3>1, SenderAssumption DEF Fate
  <2>4. QED
    BY <2>1, <2>3 DEF Delivery!Init, Delivery!Frames, Frames
<1>2. PlacesInv /\ [Next]_vars => [Delivery!Next]_(Delivery!vars)
  <2> SUFFICES ASSUME PlacesInv, [Next]_vars
               PROVE  Delivery!Next \/ UNCHANGED Delivery!vars
    OBVIOUS
  <2>1. CASE Callback \/ SctpAck \/ close \/ UNCHANGED vars
    <3>1. UNCHANGED <<wire, lost, rejected, frame, pc>>
      BY <2>1 DEF Callback, AllowSending, Pop, Subtract, Reset, SctpAck, close, vars,
                  senderVars, callbackVars, transportVars, historyVars
    <3>2. QED
      BY <3>1, FatesUntouched
  <2>2. QED
    BY <2>1, ReadLoopDelivers, BatchDelivers DEF Next, Batch
<1>3. QED
  BY <1>1, <1>2, PlacesInvariant, PTL DEF Spec, SendersDeliver, Delivery!Spec
==============================================================================
