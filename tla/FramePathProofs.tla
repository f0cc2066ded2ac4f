--------------------------- MODULE FramePathProofs ---------------------------
(***************************************************************************)
(* Proofs about the handover of EarlyMessages, on its own and as FramePath *)
(* drives it, and about the frames FramePath cuts, sends and assembles,    *)
(* for any number of messages, connections, sizes and ids.                 *)
(***************************************************************************)
EXTENDS FramePath, SequenceTheorems, FiniteSetTheorems, TLAPS

-----------------------------------------------------------------------------
\* The inductive invariant of the handover.

\* Where the two tasks stand: setup replaces the handler, clears the flag and
\* drains the buffer in this order, and the message being handled is the last
\* one that arrived.
Stages ==
  /\ dispatch.step = "idle" <=> dispatch.message = 0
  /\ dispatch.step # "idle" => dispatch.message = arrived
  /\ on_message = "early" <=> setup = "set_handler"
  /\ dispatch.step = "channel" => setup # "set_handler"
  /\ early_buffering_active <=> setup \in {"set_handler", "stop_buffering"}
  /\ setup \notin {"forward"} => early_messages = << >>

\* A message is in one place: what has arrived and is not being handled.
Handled(m) == m <= arrived /\ m # dispatch.message

Places ==
  /\ \A i \in DOMAIN rx : Handled(rx[i])
  /\ \A i \in DOMAIN early_messages :
       Handled(early_messages[i]) /\ early_messages[i] \in captured
  /\ \A i \in DOMAIN early_message_buffer :
       Handled(early_message_buffer[i]) /\ early_message_buffer[i] \in captured
  /\ \A m \in captured : Handled(m)

\* s holds its messages in arrival order.
Increasing(s) == \A i, j \in DOMAIN s : i < j => s[i] < s[j]

\* Captured messages pass from the buffer to the list being forwarded to the
\* channel in arrival order.
Ordered ==
  /\ Increasing(early_message_buffer) /\ Increasing(early_messages)
  /\ \A i \in DOMAIN early_messages : \A j \in DOMAIN early_message_buffer :
       early_messages[i] < early_message_buffer[j]
  /\ \A i \in DOMAIN rx : rx[i] \in captured =>
       /\ \A j \in DOMAIN early_messages : rx[i] < early_messages[j]
       /\ \A j \in DOMAIN early_message_buffer : rx[i] < early_message_buffer[j]

\* Nothing is missing as long as the flag is set or the early handler is still
\* in the middle of its last message.
OneToLose ==
  /\ early_buffering_active \/ dispatch.step \in {"early", "push"} => Missing = {}
  /\ \E m \in Int : Missing \subseteq {m}

HandoverInv == TypeOK /\ Stages /\ Places /\ Ordered /\ StreamsInOrder

-----------------------------------------------------------------------------
\* What the tuple of EarlyMessages, the record of the dispatch and the
\* operations on sequences do, in the form the steps below use them.

\* The elements of a sequence of messages, after an append.
LEMMA AppendMessage ==
  ASSUME NEW s \in Seq(Messages), NEW m \in Messages
  PROVE  /\ Append(s, m) \in Seq(Messages)
         /\ DOMAIN s = 1..Len(s) /\ Len(s) \in Nat
         /\ DOMAIN Append(s, m) = 1..(Len(s) + 1)
         /\ \A i \in 1..Len(s) : s[i] \in Messages /\ Append(s, m)[i] = s[i]
         /\ Append(s, m)[Len(s) + 1] = m
         /\ ToSet(Append(s, m)) = ToSet(s) \cup {m}
<1>1. /\ Append(s, m) \in Seq(Messages) /\ Len(Append(s, m)) = Len(s) + 1
      /\ \A i \in 1..Len(s) : Append(s, m)[i] = s[i]
      /\ Append(s, m)[Len(s) + 1] = m
  BY AppendProperties
<1>2. DOMAIN s = 1..Len(s) /\ Len(s) \in Nat /\ \A i \in 1..Len(s) : s[i] \in Messages
  BY LenProperties
<1>3. DOMAIN Append(s, m) = 1..(Len(s) + 1)
  BY <1>1, LenProperties
<1>4. ToSet(Append(s, m)) = ToSet(s) \cup {m}
  BY <1>1, <1>2, <1>3 DEF ToSet
<1>5. QED
  BY <1>1, <1>2, <1>3, <1>4

\* The elements of a sequence of messages, after its head is taken.
LEMMA TakeMessage ==
  ASSUME NEW s \in Seq(Messages), s # << >>
  PROVE  /\ Tail(s) \in Seq(Messages) /\ Head(s) \in Messages
         /\ DOMAIN s = 1..Len(s) /\ Len(s) \in Nat \ {0}
         /\ DOMAIN Tail(s) = 1..(Len(s) - 1)
         /\ \A i \in 1..(Len(s) - 1) : Tail(s)[i] = s[i + 1]
         /\ Head(s) = s[1] /\ \A i \in 1..Len(s) : s[i] \in Messages
         /\ ToSet(s) = ToSet(Tail(s)) \cup {Head(s)}
<1>1. /\ Tail(s) \in Seq(Messages) /\ Head(s) \in Messages
      /\ Len(Tail(s)) = Len(s) - 1
      /\ \A i \in 1..(Len(s) - 1) : Tail(s)[i] = s[i + 1]
  BY HeadTailProperties
<1>2. /\ DOMAIN s = 1..Len(s) /\ Len(s) \in Nat \ {0}
      /\ \A i \in 1..Len(s) : s[i] \in Messages
  BY LenProperties, EmptySeq
<1>3. DOMAIN Tail(s) = 1..(Len(s) - 1)
  BY <1>1, LenProperties
<1>4. Head(s) = s[1]
  OBVIOUS
<1>5. ToSet(s) \subseteq ToSet(Tail(s)) \cup {Head(s)}
  <2> SUFFICES ASSUME NEW i \in 1..Len(s)
               PROVE  s[i] \in ToSet(Tail(s)) \cup {Head(s)}
    BY <1>2 DEF ToSet
  <2>1. CASE i = 1
    BY <2>1, <1>4
  <2>2. CASE i # 1
    <3>1. i - 1 \in 1..(Len(s) - 1) /\ Tail(s)[i - 1] = s[i]
      BY <1>1, <1>2, <2>2
    <3>2. QED
      BY <3>1, <1>3 DEF ToSet
  <2>3. QED
    BY <2>1, <2>2
<1>6. ToSet(Tail(s)) \cup {Head(s)} \subseteq ToSet(s)
  <2>1. ASSUME NEW i \in 1..(Len(s) - 1) PROVE Tail(s)[i] \in ToSet(s)
    <3>1. i + 1 \in 1..Len(s) /\ Tail(s)[i] = s[i + 1]
      BY <1>1, <1>2
    <3>2. QED
      BY <3>1, <1>2 DEF ToSet
  <2>2. Head(s) \in ToSet(s)
    BY <1>2, <1>4 DEF ToSet
  <2>3. QED
    BY <2>1, <2>2, <1>3 DEF ToSet
<1>7. QED
  BY <1>1, <1>2, <1>3, <1>4, <1>5, <1>6

\* A message that is being handled is the last one that arrived.
LEMMA HandledMessage ==
  ASSUME TypeOK, Stages, dispatch.step # "idle"
  PROVE  /\ dispatch.message = arrived /\ arrived \in Messages
         /\ \A m \in Int : Handled(m) <=> m < arrived
<1>1. dispatch.message \in 0..MaxMessages /\ dispatch.message # 0
      /\ dispatch.message = arrived /\ arrived \in 0..MaxMessages
  BY DEF TypeOK, Stages
<1>2. QED
  BY <1>1, MessagesAssumption DEF Handled, Messages

\* Between two messages everything that has arrived has been handled.
LEMMA IdleMessage ==
  ASSUME TypeOK, Stages, dispatch.step = "idle"
  PROVE  /\ dispatch = Idle /\ dispatch.message = 0
         /\ \A m \in Messages : Handled(m) <=> m <= arrived
<1>1. dispatch.message = 0
  BY DEF Stages
<1>2. dispatch = Idle
  BY <1>1 DEF TypeOK, Idle
<1>3. QED
  BY <1>1, <1>2, MessagesAssumption DEF Handled, Messages

-----------------------------------------------------------------------------
\* Each step of the two tasks keeps the invariant.

LEMMA HandoverInit == Init => HandoverInv
<1> SUFFICES ASSUME Init PROVE HandoverInv
  OBVIOUS
<1> USE MessagesAssumption DEF Init, Idle, Messages
<1>1. << >> \in Seq(Messages) /\ DOMAIN << >> = {}
  OBVIOUS
<1>2. TypeOK
  BY <1>1 DEF TypeOK
<1>3. Stages
  BY DEF Stages
<1>4. Places /\ Ordered /\ StreamsInOrder
  BY <1>1 DEF Places, Ordered, Increasing, StreamsInOrder
<1>5. QED
  BY <1>2, <1>3, <1>4 DEF HandoverInv

LEMMA DispatchStep == HandoverInv /\ Dispatch => HandoverInv'
<1> SUFFICES ASSUME TypeOK, Stages, Places, Ordered, StreamsInOrder, Dispatch
             PROVE  HandoverInv'
  BY DEF HandoverInv
<1> USE MessagesAssumption
<1>1. /\ arrived' = arrived + 1
      /\ dispatch' = [message |-> arrived + 1, step |-> on_message]
      /\ dispatch.step = "idle" /\ arrived \in 0..MaxMessages
      /\ arrived' \in 1..MaxMessages /\ on_message \in {"early", "channel"}
      /\ UNCHANGED <<on_message, early_buffering_active, early_message_buffer, setup,
                     early_messages, rx, captured>>
  BY DEF Dispatch, Idle, TypeOK
<1>2. \A m \in Messages : Handled(m) => Handled(m)'
  BY <1>1, IdleMessage DEF Handled, Messages
<1>3. TypeOK'
  BY <1>1 DEF TypeOK
<1>4. Stages'
  BY <1>1 DEF Stages
<1>5. Places'
  <2>1. /\ \A i \in DOMAIN rx : rx[i] \in Messages
        /\ \A i \in DOMAIN early_messages : early_messages[i] \in Messages
        /\ \A i \in DOMAIN early_message_buffer : early_message_buffer[i] \in Messages
        /\ \A m \in captured : m \in Messages
    BY LenProperties DEF TypeOK
  <2>2. QED
    BY <1>1, <1>2, <2>1 DEF Places
<1>6. Ordered' /\ StreamsInOrder'
  BY <1>1 DEF Ordered, Increasing, StreamsInOrder
<1>7. QED
  BY <1>3, <1>4, <1>5, <1>6 DEF HandoverInv

LEMMA EarlyCheckStep == HandoverInv /\ EarlyCheck => HandoverInv'
<1> SUFFICES ASSUME TypeOK, Stages, Places, Ordered, StreamsInOrder, EarlyCheck
             PROVE  HandoverInv'
  BY DEF HandoverInv
<1> USE MessagesAssumption
<1>1. /\ dispatch.step = "early"
      /\ \/ dispatch' = [message |-> dispatch.message, step |-> "push"]
         \/ dispatch' = Idle
      /\ UNCHANGED <<arrived, on_message, early_buffering_active, early_message_buffer,
                     setup, early_messages, rx, captured>>
  BY DEF EarlyCheck, TypeOK
<1>2. dispatch.message = arrived /\ arrived \in Messages
  BY <1>1, HandledMessage
<1>3. \A m \in Messages : Handled(m) => Handled(m)'
  BY <1>1, <1>2 DEF Handled, Messages, Idle
<1>4. TypeOK'
  BY <1>1, <1>2 DEF TypeOK, Idle, Messages
<1>5. Stages'
  BY <1>1, <1>2 DEF Stages, Idle, Messages
<1>6. Places'
  <2>1. /\ \A i \in DOMAIN rx : rx[i] \in Messages
        /\ \A i \in DOMAIN early_messages : early_messages[i] \in Messages
        /\ \A i \in DOMAIN early_message_buffer : early_message_buffer[i] \in Messages
        /\ \A m \in captured : m \in Messages
    BY LenProperties DEF TypeOK
  <2>2. QED
    BY <1>1, <1>3, <2>1 DEF Places
<1>7. Ordered' /\ StreamsInOrder'
  BY <1>1 DEF Ordered, Increasing, StreamsInOrder
<1>8. QED
  BY <1>4, <1>5, <1>6, <1>7 DEF HandoverInv

\* The message that is buffered arrived after everything buffered before it,
\* and is in none of the other places.
LEMMA EarlyPushStep == HandoverInv /\ EarlyPush => HandoverInv'
<1> SUFFICES ASSUME TypeOK, Stages, Places, Ordered, StreamsInOrder, EarlyPush
             PROVE  HandoverInv'
  BY DEF HandoverInv
<1> USE MessagesAssumption
<1> DEFINE After(k) == k <= arrived' /\ k # dispatch'.message
           b == early_message_buffer
           m == arrived
<1>1. /\ dispatch.step = "push" /\ dispatch' = Idle
      /\ dispatch.message = m /\ m \in Messages
      /\ b' = Append(b, m) /\ captured' = captured \cup {m}
      /\ UNCHANGED <<arrived, on_message, early_buffering_active, setup,
                     early_messages, rx>>
  BY HandledMessage DEF EarlyPush
<1>2. /\ \A i \in DOMAIN rx : rx[i] \in Messages
      /\ \A i \in DOMAIN early_messages : early_messages[i] \in Messages
      /\ b \in Seq(Messages) /\ captured \subseteq Messages
  BY LenProperties DEF TypeOK
<1>3. \A k \in Messages : Handled(k) => k < m /\ After(k)
  BY <1>1 DEF Handled, Messages, Idle
<1>4. After(m)
  BY <1>1 DEF Handled, Messages, Idle
<1>5. /\ b' \in Seq(Messages)
      /\ DOMAIN b = 1..Len(b) /\ Len(b) \in Nat
      /\ DOMAIN b' = 1..(Len(b) + 1)
      /\ \A i \in 1..Len(b) : b[i] \in Messages /\ b'[i] = b[i]
      /\ b'[Len(b) + 1] = m
  BY <1>1, <1>2, AppendMessage
<1>6. \A i \in 1..Len(b) : b'[i] < m /\ After(b[i]) /\ b[i] \in captured
  BY <1>3, <1>5 DEF Places
<1>7. TypeOK'
  BY <1>1, <1>2, <1>5 DEF TypeOK, Idle, Messages
<1>8. Stages'
  BY <1>1 DEF Stages, Idle, Messages
<1>9. Places'
  <2>1. \A i \in DOMAIN b' : After(b'[i]) /\ b'[i] \in captured'
    BY <1>1, <1>4, <1>5, <1>6
  <2>2. \A k \in captured' : After(k)
    BY <1>1, <1>2, <1>3, <1>4 DEF Places
  <2>3. QED
    BY <1>1, <1>2, <1>3, <2>1, <2>2 DEF Places, Handled
<1>10. Ordered'
  <2>1. Increasing(b')
    <3> SUFFICES ASSUME NEW i \in 1..(Len(b) + 1), NEW j \in 1..(Len(b) + 1), i < j
                 PROVE  b'[i] < b'[j]
      BY <1>5 DEF Increasing
    <3>1. i \in 1..Len(b)
      BY <1>5
    <3>2. CASE j = Len(b) + 1
      BY <3>1, <3>2, <1>5, <1>6
    <3>3. CASE j \in 1..Len(b)
      BY <3>1, <3>3, <1>5 DEF Ordered, Increasing
    <3>4. QED
      BY <3>2, <3>3, <1>5
  <2>2. \A i \in DOMAIN early_messages : \A j \in DOMAIN b' : early_messages[i] < b'[j]
    BY <1>2, <1>3, <1>5 DEF Ordered, Places
  <2>3. \A i \in DOMAIN rx : rx[i] < m
    BY <1>2, <1>3 DEF Places
  <2>4. \A i \in DOMAIN rx : rx[i] \in captured' => rx[i] \in captured
    BY <1>1, <1>2, <2>3 DEF Messages
  <2>5. \A i \in DOMAIN rx : rx[i] \in captured' => \A j \in DOMAIN b' : rx[i] < b'[j]
    BY <1>5, <2>3, <2>4 DEF Ordered
  <2>6. QED
    BY <1>1, <2>1, <2>2, <2>4, <2>5 DEF Ordered, Increasing
<1>11. StreamsInOrder'
  <2>1. \A i \in DOMAIN rx : rx[i] \in captured' <=> rx[i] \in captured
    BY <1>1, <1>2, <1>3 DEF Places, Messages
  <2>2. QED
    BY <1>1, <2>1 DEF StreamsInOrder
<1>12. QED
  BY <1>7, <1>8, <1>9, <1>10, <1>11 DEF HandoverInv

\* The channel's handler passes on a message the early handler has not seen.
LEMMA ChannelReceiveStep == HandoverInv /\ ChannelReceive => HandoverInv'
<1> SUFFICES ASSUME TypeOK, Stages, Places, Ordered, StreamsInOrder, ChannelReceive
             PROVE  HandoverInv'
  BY DEF HandoverInv
<1> USE MessagesAssumption
<1> DEFINE After(k) == k <= arrived' /\ k # dispatch'.message
           m == arrived
<1>1. /\ dispatch.step = "channel" /\ dispatch' = Idle
      /\ dispatch.message = m /\ m \in Messages
      /\ rx' = Append(rx, m)
      /\ UNCHANGED <<arrived, on_message, early_buffering_active,
                     early_message_buffer, setup, early_messages, captured>>
  BY HandledMessage DEF ChannelReceive
<1>2. /\ \A i \in DOMAIN early_message_buffer : early_message_buffer[i] \in Messages
      /\ \A i \in DOMAIN early_messages : early_messages[i] \in Messages
      /\ rx \in Seq(Messages) /\ captured \subseteq Messages
  BY LenProperties DEF TypeOK
<1>3. \A k \in Messages : Handled(k) => k < m /\ After(k)
  BY <1>1 DEF Handled, Messages, Idle
<1>4. After(m)
  BY <1>1 DEF Handled, Messages, Idle
<1>5. /\ rx' \in Seq(Messages)
      /\ DOMAIN rx = 1..Len(rx) /\ Len(rx) \in Nat
      /\ DOMAIN rx' = 1..(Len(rx) + 1)
      /\ \A i \in 1..Len(rx) : rx[i] \in Messages /\ rx'[i] = rx[i]
      /\ rx'[Len(rx) + 1] = m
  BY <1>1, <1>2, AppendMessage
<1>6. \A i \in 1..Len(rx) : rx'[i] < m /\ After(rx[i])
  BY <1>3, <1>5 DEF Places
<1>7. m \notin captured
  BY <1>1, <1>2, <1>3 DEF Places, Messages
<1>8. TypeOK'
  BY <1>1, <1>5 DEF TypeOK, Idle, Messages
<1>9. Stages'
  BY <1>1 DEF Stages, Idle, Messages
<1>10. Places'
  <2>1. \A i \in DOMAIN rx' : After(rx'[i])
    BY <1>4, <1>5, <1>6
  <2>2. QED
    BY <1>1, <1>2, <1>3, <2>1 DEF Places, Handled
<1>11. Ordered'
  BY <1>1, <1>5, <1>7 DEF Ordered, Increasing
<1>12. StreamsInOrder'
  <2> SUFFICES ASSUME NEW i \in 1..(Len(rx) + 1), NEW j \in 1..(Len(rx) + 1), i < j,
                      rx'[i] \in captured <=> rx'[j] \in captured
               PROVE  rx'[i] < rx'[j]
    BY <1>1, <1>5 DEF StreamsInOrder
  <2>1. i \in 1..Len(rx)
    BY <1>5
  <2>2. CASE j = Len(rx) + 1
    BY <2>1, <2>2, <1>5, <1>6
  <2>3. CASE j \in 1..Len(rx)
    BY <2>1, <2>3, <1>5 DEF StreamsInOrder
  <2>4. QED
    BY <2>2, <2>3, <1>5
<1>13. QED
  BY <1>8, <1>9, <1>10, <1>11, <1>12 DEF HandoverInv

\* Replacing the handler, clearing the flag and ending the setup move no
\* message; the drain moves the whole buffer.
LEMMA SetupSteps ==
  HandoverInv /\ (SetHandler \/ StopBuffering \/ DrainEarly \/ SetupDone) => HandoverInv'
<1> SUFFICES ASSUME TypeOK, Stages, Places, Ordered, StreamsInOrder,
                    SetHandler \/ StopBuffering \/ DrainEarly \/ SetupDone
             PROVE  HandoverInv'
  BY DEF HandoverInv
<1>1. UNCHANGED <<arrived, dispatch, rx, captured>>
  BY DEF SetHandler, StopBuffering, DrainEarly, SetupDone
<1>2. \A m : Handled(m)' <=> Handled(m)
  BY <1>1 DEF Handled
<1>3. << >> \in Seq(Messages) /\ DOMAIN << >> = {}
  OBVIOUS
<1>4. CASE SetHandler \/ StopBuffering \/ SetupDone
  <2>1. UNCHANGED <<early_message_buffer, early_messages>>
    BY <1>4 DEF SetHandler, StopBuffering, SetupDone
  <2>2. TypeOK'
    BY <1>1, <1>4, <2>1 DEF SetHandler, StopBuffering, SetupDone, TypeOK
  <2>3. Stages'
    BY <1>1, <1>4, <2>1 DEF SetHandler, StopBuffering, SetupDone, Stages, TypeOK
  <2>4. Places'
    BY <1>1, <1>2, <2>1 DEF Places
  <2>5. Ordered' /\ StreamsInOrder'
    BY <1>1, <2>1 DEF Ordered, Increasing, StreamsInOrder
  <2>6. QED
    BY <2>2, <2>3, <2>4, <2>5 DEF HandoverInv
<1>5. CASE DrainEarly
  <2>1. /\ setup = "drain" /\ setup' = "forward"
        /\ early_messages = << >> /\ early_messages' = early_message_buffer
        /\ early_message_buffer' = << >>
        /\ UNCHANGED <<on_message, early_buffering_active>>
    BY <1>5 DEF DrainEarly, Stages
  <2>2. TypeOK'
    BY <1>1, <1>3, <2>1 DEF TypeOK
  <2>3. Stages'
    BY <1>1, <2>1 DEF Stages
  <2>4. Places'
    BY <1>1, <1>2, <1>3, <2>1 DEF Places
  <2>5. Ordered' /\ StreamsInOrder'
    BY <1>1, <1>3, <2>1 DEF Ordered, Increasing, StreamsInOrder
  <2>6. QED
    BY <2>2, <2>3, <2>4, <2>5 DEF HandoverInv
<1>6. QED
  BY <1>4, <1>5

\* The message that is forwarded comes before all that are still captured, and
\* after all captured messages the channel has.
LEMMA ForwardEarlyStep == HandoverInv /\ ForwardEarly => HandoverInv'
<1> SUFFICES ASSUME TypeOK, Stages, Places, Ordered, StreamsInOrder, ForwardEarly
             PROVE  HandoverInv'
  BY DEF HandoverInv
<1> USE MessagesAssumption
<1> DEFINE After(k) == k <= arrived' /\ k # dispatch'.message
           e == early_messages
           b == early_message_buffer
           m == Head(early_messages)
<1>1. /\ setup = "forward" /\ e # << >> /\ e' = Tail(e) /\ rx' = Append(rx, m)
      /\ UNCHANGED <<arrived, on_message, dispatch, early_buffering_active,
                     early_message_buffer, setup, captured>>
  BY DEF ForwardEarly
<1>2. rx \in Seq(Messages) /\ e \in Seq(Messages) /\ \A i \in DOMAIN b : b[i] \in Messages
  BY LenProperties DEF TypeOK
<1>3. /\ e' \in Seq(Messages) /\ m \in Messages
      /\ DOMAIN e = 1..Len(e) /\ Len(e) \in Nat \ {0}
      /\ DOMAIN e' = 1..(Len(e) - 1)
      /\ \A i \in 1..(Len(e) - 1) : e'[i] = e[i + 1]
      /\ m = e[1] /\ \A i \in 1..Len(e) : e[i] \in Messages
  BY <1>1, <1>2, TakeMessage
<1>4. /\ rx' \in Seq(Messages)
      /\ DOMAIN rx = 1..Len(rx) /\ Len(rx) \in Nat
      /\ DOMAIN rx' = 1..(Len(rx) + 1)
      /\ \A i \in 1..Len(rx) : rx[i] \in Messages /\ rx'[i] = rx[i]
      /\ rx'[Len(rx) + 1] = m
  BY <1>1, <1>2, <1>3, AppendMessage
<1>5. \A k : After(k) <=> Handled(k)
  BY <1>1 DEF Handled
<1>6. m \in captured /\ Handled(m)
  BY <1>3 DEF Places
<1>7. \A i \in 1..(Len(e) - 1) : i + 1 \in DOMAIN e /\ m < e'[i]
  BY <1>3 DEF Ordered, Increasing
<1>8. \A j \in DOMAIN b : m < b[j]
  BY <1>3 DEF Ordered
<1>9. \A i \in 1..Len(rx) : rx[i] \in captured => rx[i] < m
  BY <1>3, <1>4 DEF Ordered
<1>10. TypeOK'
  BY <1>1, <1>3, <1>4 DEF TypeOK
<1>11. Stages'
  BY <1>1 DEF Stages
<1>12. Places'
  <2>1. \A i \in DOMAIN rx' : After(rx'[i])
    BY <1>4, <1>5, <1>6 DEF Places
  <2>2. \A i \in DOMAIN e' : After(e'[i]) /\ e'[i] \in captured
    BY <1>3, <1>5, <1>7 DEF Places
  <2>3. QED
    BY <1>1, <1>5, <2>1, <2>2 DEF Places, Handled
<1>13. Ordered'
  <2>1. Increasing(e')
    <3> SUFFICES ASSUME NEW i \in 1..(Len(e) - 1), NEW j \in 1..(Len(e) - 1), i < j
                 PROVE  e[i + 1] < e[j + 1]
      BY ZenonT(60), <1>3 DEF Increasing
    <3>1. i + 1 \in DOMAIN e /\ j + 1 \in DOMAIN e /\ i + 1 < j + 1
      BY <1>3
    <3>2. QED
      BY <3>1 DEF Ordered, Increasing
  <2>2. \A i \in DOMAIN e' : \A j \in DOMAIN b : e'[i] < b[j]
    BY <1>3, <1>7 DEF Ordered
  <2>3. \A i \in DOMAIN rx' : rx'[i] \in captured =>
          (\A j \in DOMAIN e' : rx'[i] < e'[j]) /\ (\A j \in DOMAIN b : rx'[i] < b[j])
    <3> SUFFICES ASSUME NEW i \in 1..(Len(rx) + 1), rx'[i] \in captured
                 PROVE  (\A j \in DOMAIN e' : rx'[i] < e'[j])
                        /\ (\A j \in DOMAIN b : rx'[i] < b[j])
      BY <1>4
    <3>1. CASE i = Len(rx) + 1
      BY <3>1, <1>3, <1>4, <1>7, <1>8
    <3>2. CASE i \in 1..Len(rx)
      BY <3>2, <1>3, <1>4, <1>7 DEF Ordered
    <3>3. QED
      BY <3>1, <3>2, <1>4
  <2>4. QED
    BY <1>1, <2>1, <2>2, <2>3 DEF Ordered, Increasing
<1>14. StreamsInOrder'
  <2> SUFFICES ASSUME NEW i \in 1..(Len(rx) + 1), NEW j \in 1..(Len(rx) + 1), i < j,
                      rx'[i] \in captured <=> rx'[j] \in captured
               PROVE  rx'[i] < rx'[j]
    BY <1>1, <1>4 DEF StreamsInOrder
  <2>1. i \in 1..Len(rx)
    BY <1>4
  <2>2. CASE j = Len(rx) + 1
    BY <2>1, <2>2, <1>4, <1>6, <1>9
  <2>3. CASE j \in 1..Len(rx)
    BY <2>1, <2>3, <1>4 DEF StreamsInOrder
  <2>4. QED
    BY <2>2, <2>3, <1>4
<1>15. QED
  BY <1>10, <1>11, <1>12, <1>13, <1>14 DEF HandoverInv

LEMMA HandoverStep == HandoverInv /\ [Next]_vars => HandoverInv'
<1>1. HandoverInv /\ UNCHANGED vars => HandoverInv'
  BY DEF vars, HandoverInv, TypeOK, Stages, Places, Handled, Ordered, Increasing,
         StreamsInOrder
<1>2. QED
  BY <1>1, DispatchStep, EarlyCheckStep, EarlyPushStep, ChannelReceiveStep, SetupSteps,
     ForwardEarlyStep DEF Next

-----------------------------------------------------------------------------
\* What a step adds to the messages that are missing.

\* Membership in Missing, without the bounds on the message.
Gone(m) ==
  /\ m \notin ToSet(rx) /\ m # dispatch.message
  /\ m \notin ToSet(early_messages)
  /\ setup \in {"forward", "done"} \/ m \notin ToSet(early_message_buffer)

LEMMA MissingGone == Missing = {m \in 1..arrived : Gone(m)}
  BY DEF Missing, Gone

LEMMA OneToLoseInit == Init => OneToLose
  BY MissingGone DEF Init, OneToLose

\* Only the message the early handler is in the middle of can be lost.
LEMMA OneToLoseStep == HandoverInv /\ OneToLose /\ [Next]_vars => OneToLose'
<1> SUFFICES ASSUME HandoverInv, OneToLose, [Next]_vars PROVE OneToLose'
  OBVIOUS
<1> USE MessagesAssumption
<1> TypeOK /\ Stages
  BY DEF HandoverInv
<1> DEFINE GoneNext(m) ==
             /\ m \notin ToSet(rx') /\ m # dispatch'.message
             /\ m \notin ToSet(early_messages')
             /\ setup' \in {"forward", "done"} \/ m \notin ToSet(early_message_buffer')
<1>0. Missing' = {m \in 1..arrived' : GoneNext(m)}
  BY MissingGone DEF Missing
<1>t. arrived \in Nat /\ Missing = {m \in 1..arrived : Gone(m)}
  BY MissingGone DEF TypeOK
<1>k. ASSUME Missing' \subseteq Missing,
             early_buffering_active' \/ dispatch'.step \in {"early", "push"} =>
               early_buffering_active \/ dispatch.step \in {"early", "push"}
      PROVE  OneToLose'
  BY <1>k DEF OneToLose
<1>1. CASE Dispatch
  <2>1. /\ arrived' = arrived + 1 /\ dispatch' = [message |-> arrived + 1, step |-> on_message]
        /\ dispatch.message = 0 /\ dispatch.step = "idle"
        /\ UNCHANGED <<on_message, early_buffering_active, early_message_buffer, setup,
                       early_messages, rx>>
    BY <1>1 DEF Dispatch, Idle
  <2>2. \A m \in 1..arrived' : GoneNext(m) => m \in 1..arrived /\ Gone(m)
    BY <1>t, <2>1 DEF Gone
  <2>3. Missing' \subseteq Missing
    BY <1>0, <1>t, <2>2
  <2>4. dispatch'.step = "early" => early_buffering_active
    BY <2>1 DEF Stages, TypeOK
  <2>5. dispatch'.step # "push"
    BY <2>1 DEF TypeOK
  <2>6. QED
    BY <1>k, <2>1, <2>3, <2>4, <2>5
<1>2. CASE EarlyCheck
  <2>1. /\ dispatch.step = "early" /\ dispatch.message = arrived
        /\ UNCHANGED <<arrived, on_message, early_buffering_active, early_message_buffer,
                       setup, early_messages, rx>>
    BY <1>2, HandledMessage DEF EarlyCheck
  <2>2. Missing = {}
    BY <2>1 DEF OneToLose
  <2>3. CASE early_buffering_active
    <3>1. dispatch'.message = dispatch.message
      BY <1>2, <2>3 DEF EarlyCheck, TypeOK
    <3>2. \A m : GoneNext(m) => Gone(m)
      BY <2>1, <3>1 DEF Gone
    <3>3. Missing' \subseteq Missing
      BY <1>0, <1>t, <2>1, <3>2
    <3>4. QED
      BY <1>k, <2>1, <3>3
  <2>4. CASE ~early_buffering_active
    <3>1. dispatch' = Idle
      BY <1>2, <2>4 DEF EarlyCheck
    <3>2. \A m \in 1..arrived : GoneNext(m) => m = arrived \/ Gone(m)
      BY <2>1 DEF Gone
    <3>3. Missing' \subseteq {arrived}
      BY <1>0, <1>t, <2>1, <2>2, <3>2
    <3>4. dispatch'.step = "idle" /\ ~early_buffering_active' /\ arrived \in Int
      BY <1>t, <2>1, <2>4, <3>1 DEF Idle
    <3>5. QED
      BY <3>3, <3>4 DEF OneToLose
  <2>5. QED
    BY <2>3, <2>4
<1>3. CASE EarlyPush
  <2>1. /\ dispatch.step = "push" /\ dispatch.message = arrived /\ arrived \in Messages
        /\ early_message_buffer' = Append(early_message_buffer, arrived)
        /\ dispatch' = Idle
        /\ UNCHANGED <<arrived, on_message, early_buffering_active, setup, early_messages, rx>>
    BY <1>3, HandledMessage DEF EarlyPush
  <2>2. Missing = {}
    BY <2>1 DEF OneToLose
  <2>3. ToSet(early_message_buffer') = ToSet(early_message_buffer) \cup {arrived}
    BY <2>1, AppendMessage DEF TypeOK
  <2>4. \A m \in 1..arrived : GoneNext(m) => m = arrived \/ Gone(m)
    BY <2>1, <2>3 DEF Gone
  <2>5. Missing' \subseteq {arrived}
    BY <1>0, <1>t, <2>1, <2>2, <2>4
  <2>6. setup \notin {"forward", "done"} => ~GoneNext(arrived)
    BY <2>1, <2>3
  <2>7. setup \notin {"forward", "done"} => Missing' = {}
    BY <1>0, <2>5, <2>6
  <2>8. early_buffering_active' => setup \notin {"forward", "done"}
    BY <2>1 DEF Stages
  <2>9. dispatch'.step = "idle" /\ arrived \in Int
    BY <1>t, <2>1 DEF Idle
  <2>10. QED
    BY <2>5, <2>7, <2>8, <2>9 DEF OneToLose
<1>4. CASE ChannelReceive
  <2>1. /\ dispatch.step = "channel" /\ dispatch.message = arrived /\ arrived \in Messages
        /\ rx' = Append(rx, arrived) /\ dispatch' = Idle
        /\ UNCHANGED <<arrived, on_message, early_buffering_active, early_message_buffer,
                       setup, early_messages>>
    BY <1>4, HandledMessage DEF ChannelReceive
  <2>2. ToSet(rx') = ToSet(rx) \cup {arrived}
    BY <2>1, AppendMessage DEF TypeOK
  <2>3. \A m : GoneNext(m) => Gone(m)
    BY <2>1, <2>2 DEF Gone
  <2>4. Missing' \subseteq Missing
    BY <1>0, <1>t, <2>1, <2>3
  <2>5. dispatch'.step = "idle"
    BY <2>1 DEF Idle
  <2>6. QED
    BY <1>k, <2>1, <2>4, <2>5
<1>5. CASE SetHandler \/ StopBuffering \/ SetupDone
  <2>1. /\ UNCHANGED <<arrived, dispatch, early_message_buffer, early_messages, rx>>
        /\ setup' \in {"forward", "done"} => setup \in {"forward", "done"}
        /\ early_buffering_active' => early_buffering_active
    BY <1>5 DEF SetHandler, StopBuffering, SetupDone
  <2>2. \A m : GoneNext(m) => Gone(m)
    BY <2>1 DEF Gone
  <2>3. Missing' \subseteq Missing
    BY <1>0, <1>t, <2>1, <2>2
  <2>4. QED
    BY <1>k, <2>1, <2>3
<1>6. CASE DrainEarly
  <2>1. /\ early_messages = << >> /\ early_messages' = early_message_buffer
        /\ UNCHANGED <<arrived, dispatch, rx, early_buffering_active>>
    BY <1>6 DEF DrainEarly, Stages
  <2>2. ToSet(early_messages) = {}
    BY <2>1 DEF ToSet
  <2>3. \A m : GoneNext(m) => Gone(m)
    BY <2>1, <2>2 DEF Gone
  <2>4. Missing' \subseteq Missing
    BY <1>0, <1>t, <2>1, <2>3
  <2>5. QED
    BY <1>k, <2>1, <2>4
<1>7. CASE ForwardEarly
  <2>1. /\ early_messages # << >> /\ early_messages' = Tail(early_messages)
        /\ rx' = Append(rx, Head(early_messages))
        /\ UNCHANGED <<arrived, dispatch, early_buffering_active, early_message_buffer, setup>>
    BY <1>7 DEF ForwardEarly
  <2>2. /\ Head(early_messages) \in Messages
        /\ ToSet(early_messages) = ToSet(early_messages') \cup {Head(early_messages)}
    BY <2>1, TakeMessage DEF TypeOK
  <2>3. ToSet(rx') = ToSet(rx) \cup {Head(early_messages)}
    BY <2>1, <2>2, AppendMessage DEF TypeOK
  <2>4. \A m : GoneNext(m) => Gone(m)
    BY <2>1, <2>2, <2>3 DEF Gone
  <2>5. Missing' \subseteq Missing
    BY <1>0, <1>t, <2>1, <2>4
  <2>6. QED
    BY <1>k, <2>1, <2>5
<1>8. CASE UNCHANGED vars
  <2>1. \A m : GoneNext(m) => Gone(m)
    BY <1>8 DEF vars, Gone
  <2>2. Missing' \subseteq Missing
    BY <1>0, <1>t, <1>8, <2>1 DEF vars
  <2>3. QED
    BY <1>k, <1>8, <2>2 DEF vars
<1>9. QED
  BY <1>1, <1>2, <1>3, <1>4, <1>5, <1>6, <1>7, <1>8 DEF Next

-----------------------------------------------------------------------------
\* The frames of the path.

\* What names a frame, and the pieces a frame may be sent in.
FrameNames == [conn : Conns, no : Nat \ {0}, size : Sizes]
AllPieces ==
  {Whole(f) : f \in FrameNames}
    \cup {Fragment(f, s, i, f.size) : f \in FrameNames, s \in Nat, i \in Nat}

Parts(f) == IF Fragmented(f) THEN f.size ELSE 1

\* The n-th piece of c is one of FrameAt(c, n), with the id SeqAt(c, n) if that
\* frame is cut.
FrameAt(c, n) == plan[c][n].payload[1].frame
SeqAt(c, n) == plan[c][n].seq

PathTypes ==
  /\ plan \in [Conns -> Seq(AllPieces)] /\ next_seq \in Nat
  /\ \A c \in Conns : Len(plan[c]) <= Quota[c]
  /\ fate \in [Senders!Frames -> {"unread", "held", "sent", "refused", "dropped"}]
  /\ wire \in Seq(Senders!Frames)
  /\ consumed \in 0..Len(rx)

\* A frame occupies consecutive places from the one it is named by, as a whole
\* or in pieces that share an id.
Cut(c, n) ==
  LET f == FrameAt(c, n) IN
  /\ f \in FrameNames /\ f.conn = c
  /\ n \in f.no..(f.no + Parts(f) - 1) /\ f.no + Parts(f) - 1 <= Len(plan[c])
  /\ ~Fragmented(f) => plan[c][n] = Whole(f)
  /\ Fragmented(f) =>
       /\ SeqAt(c, n) \in Nat
       /\ \A i \in 1..f.size : plan[c][f.no + i - 1] = Fragment(f, SeqAt(c, n), i, f.size)

\* Only planned pieces are sent, each once, and messages are pieces sent.
Carried ==
  /\ \A c \in Conns : \A n \in 1..MaxPieces :
       fate[<<c, n>>] # "unread" => n <= Len(plan[c])
  /\ \A i \in DOMAIN wire : fate[wire[i]] = "sent"
  /\ IsInjective(wire)
  /\ arrived <= Len(wire)

\* The pieces the run loop has processed.
Seen == {wire[rx[i]] : i \in 1..consumed}
SeenOf(f) == {k \in 0..(Parts(f) - 1) : <<f.conn, f.no + k>> \in Seen}
Arrived(f) == SeenOf(f) = 0..(Parts(f) - 1)

\* Before the ids wrap, every frame in pieces has an id of its own.
OwnIds ==
  next_seq <= Word =>
    \A c, d \in Conns : \A n \in 1..Len(plan[c]), m \in 1..Len(plan[d]) :
      Fragmented(FrameAt(c, n)) =>
        /\ SeqAt(c, n) < next_seq
        /\ Fragmented(FrameAt(d, m)) /\ SeqAt(c, n) = SeqAt(d, m) =>
             FrameAt(c, n) = FrameAt(d, m)

\* A frame is appended when its last piece has been processed, and has a
\* buffer, of the pieces processed, from its first until then.
Assembled(f) == Arrived(f) <=> \E i \in DOMAIN buf : buf[i] = Payload(f)
Buffered(f, s) ==
  /\ s \in DOMAIN pending <=> SeenOf(f) # {} /\ ~Arrived(f)
  /\ s \in DOMAIN pending =>
       pending[s] = [total |-> f.size, got |-> [k \in SeenOf(f) |-> Payload(f)[k + 1]]]

Assembly ==
  next_seq <= Word =>
    /\ buf \in Seq({Payload(f) : f \in FrameNames})
    /\ \A i \in DOMAIN buf : \E c \in Conns : \E n \in 1..Len(plan[c]) :
         buf[i] = Payload(FrameAt(c, n))
    /\ IsInjective(buf)
    /\ \A s \in DOMAIN pending : \E c \in Conns : \E n \in 1..Len(plan[c]) :
         Fragmented(FrameAt(c, n)) /\ SeqAt(c, n) = s
    /\ \A c \in Conns : \A n \in 1..Len(plan[c]) :
         /\ Assembled(FrameAt(c, n))
         /\ Fragmented(FrameAt(c, n)) => Buffered(FrameAt(c, n), SeqAt(c, n))

PathInv ==
  /\ HandoverInv /\ PathTypes /\ Carried /\ OwnIds /\ Assembly
  /\ \A c \in Conns : \A n \in 1..Len(plan[c]) : Cut(c, n)

-----------------------------------------------------------------------------
\* Frames, pieces and their places.

\* The fields of a piece.
LEMMA PieceFields ==
  ASSUME NEW f \in FrameNames
  PROVE  /\ f.size \in Nat \ {0} /\ f.no \in Nat \ {0} /\ f.conn \in Conns
         /\ Parts(f) \in Nat \ {0} /\ (Fragmented(f) => f.size > 1 /\ Parts(f) = f.size)
         /\ ~Fragmented(f) => Parts(f) = 1
         /\ Payload(f) = [i \in 1..f.size |-> [frame |-> f, chunk |-> i]]
         /\ Payload(f)[1].frame = f
         /\ Whole(f).total = 0 /\ Whole(f).payload = Payload(f)
         /\ Whole(f).payload[1].frame = f
         /\ \A s, t : \A i \in 1..f.size :
              /\ Fragment(f, s, i, t).seq = s /\ Fragment(f, s, i, t).idx = i - 1
              /\ Fragment(f, s, i, t).total = t
              /\ Fragment(f, s, i, t).payload[1] = Payload(f)[i]
              /\ Fragment(f, s, i, t).payload[1].frame = f
<1>1. f.size \in Nat \ {0} /\ f.no \in Nat \ {0} /\ f.conn \in Conns
  BY PathAssumption DEF FrameNames
<1>2. Parts(f) \in Nat \ {0} /\ (Fragmented(f) => f.size > 1 /\ Parts(f) = f.size)
      /\ (~Fragmented(f) => Parts(f) = 1)
  BY <1>1 DEF Parts, Fragmented
<1>3. Payload(f) = [i \in 1..f.size |-> [frame |-> f, chunk |-> i]]
  BY DEF Payload
<1>4. \A i \in 1..f.size : Payload(f)[i].frame = f
  BY <1>3
<1>5. 1 \in 1..f.size
  BY <1>1
<1>6. Whole(f).total = 0 /\ Whole(f).payload = Payload(f)
  BY DEF Whole
<1>7. ASSUME NEW s, NEW t, NEW i \in 1..f.size
      PROVE  /\ Fragment(f, s, i, t).seq = s /\ Fragment(f, s, i, t).idx = i - 1
             /\ Fragment(f, s, i, t).total = t
             /\ Fragment(f, s, i, t).payload[1] = Payload(f)[i]
             /\ Fragment(f, s, i, t).payload[1].frame = f
  BY <1>4 DEF Fragment
<1>8. QED
  BY <1>1, <1>2, <1>3, <1>4, <1>5, <1>6, <1>7

\* A payload names its frame.
LEMMA PayloadNames ==
  ASSUME NEW f \in FrameNames, NEW g \in FrameNames, Payload(f) = Payload(g)
  PROVE  f = g
<1>1. Payload(f)[1].frame = f /\ Payload(g)[1].frame = g
  BY PieceFields
<1>2. QED
  BY <1>1

\* All places of a frame hold its pieces.
LEMMA PlacesOfFrame ==
  ASSUME NEW c \in Conns, NEW n \in 1..Len(plan[c]), Cut(c, n), plan \in [Conns -> Seq(AllPieces)]
  PROVE  LET f == FrameAt(c, n) IN
         /\ f \in FrameNames /\ f.conn = c
         /\ n - f.no \in 0..(Parts(f) - 1) /\ n = f.no + (n - f.no)
         /\ \A k \in 0..(Parts(f) - 1) :
              /\ f.no + k \in 1..Len(plan[c]) /\ FrameAt(c, f.no + k) = f
              /\ Fragmented(f) => plan[c][f.no + k] = Fragment(f, SeqAt(c, n), k + 1, f.size)
              /\ ~Fragmented(f) => plan[c][f.no + k] = Whole(f) /\ k = 0
<1> DEFINE f == FrameAt(c, n)
<1>1. /\ f \in FrameNames /\ f.conn = c
      /\ n \in f.no..(f.no + Parts(f) - 1) /\ f.no + Parts(f) - 1 <= Len(plan[c])
      /\ ~Fragmented(f) => plan[c][n] = Whole(f)
      /\ Fragmented(f) =>
           \A i \in 1..f.size : plan[c][f.no + i - 1] = Fragment(f, SeqAt(c, n), i, f.size)
  BY DEF Cut
<1> HIDE DEF f
<1>2. f.no \in Nat \ {0} /\ Parts(f) \in Nat \ {0} /\ f.size \in Nat
      /\ (Fragmented(f) => Parts(f) = f.size) /\ (~Fragmented(f) => Parts(f) = 1)
  BY <1>1, PieceFields
<1>3. Len(plan[c]) \in Nat /\ n \in Nat
  BY LenProperties
<1>4. n - f.no \in 0..(Parts(f) - 1) /\ n = f.no + (n - f.no)
  BY <1>1, <1>2, <1>3
<1>5. ASSUME NEW k \in 0..(Parts(f) - 1)
      PROVE  /\ f.no + k \in 1..Len(plan[c]) /\ FrameAt(c, f.no + k) = f
             /\ Fragmented(f) => plan[c][f.no + k] = Fragment(f, SeqAt(c, n), k + 1, f.size)
             /\ ~Fragmented(f) => plan[c][f.no + k] = Whole(f) /\ k = 0
  <2>1. f.no + k \in 1..Len(plan[c]) /\ f.no + k = f.no + (k + 1) - 1
    BY <1>1, <1>2, <1>3
  <2>2. CASE Fragmented(f)
    <3>1. k + 1 \in 1..f.size
      BY <2>2, <1>2
    <3>2. plan[c][f.no + (k + 1) - 1] = Fragment(f, SeqAt(c, n), k + 1, f.size)
      BY <2>2, <3>1, <1>1
    <3>3. Fragment(f, SeqAt(c, n), k + 1, f.size).payload[1].frame = f
      BY <1>1, <3>1, PieceFields
    <3>4. QED
      BY <2>1, <2>2, <3>2, <3>3 DEF FrameAt
  <2>3. CASE ~Fragmented(f)
    <3>1. k = 0 /\ f.no + k = n
      BY <2>3, <1>1, <1>2, <1>3
    <3>2. QED
      BY <2>1, <2>3, <3>1, <1>1 DEF f
  <2>4. QED
    BY <2>2, <2>3
<1>6. QED
  BY <1>1, <1>4, <1>5 DEF f

\* The messages received are messages the data channel carried, each once.
LEMMA ReceivedOnce ==
  ASSUME HandoverInv
  PROVE  /\ rx \in Seq(Messages) /\ Len(rx) \in Nat /\ DOMAIN rx = 1..Len(rx)
         /\ arrived \in Nat
         /\ \A i \in 1..Len(rx) : rx[i] \in 1..arrived
         /\ \A i, j \in 1..Len(rx) : rx[i] = rx[j] => i = j
<1>1. rx \in Seq(Messages) /\ arrived \in Nat
  BY MessagesAssumption DEF HandoverInv, TypeOK
<1>2. Len(rx) \in Nat /\ DOMAIN rx = 1..Len(rx) /\ \A i \in 1..Len(rx) : rx[i] \in Messages
  BY <1>1, LenProperties
<1>3. \A i \in 1..Len(rx) : rx[i] \in 1..arrived
  BY <1>1, <1>2, MessagesAssumption DEF HandoverInv, Places, Handled, Messages
<1>4. ASSUME NEW i \in 1..Len(rx), NEW j \in 1..Len(rx), rx[i] = rx[j] PROVE i = j
  <2>1. ~(i < j) /\ ~(j < i)
    BY <1>2, <1>3, <1>4 DEF HandoverInv, StreamsInOrder
  <2>2. QED
    BY <1>2, <2>1
<1>5. QED
  BY <1>1, <1>2, <1>3, <1>4

\* What the run loop has processed was planned and sent.
LEMMA SeenPlanned ==
  ASSUME PathInv
  PROVE  /\ \A i \in 1..Len(rx) : rx[i] \in 1..Len(wire)
         /\ \A i \in 1..Len(wire) : \E c \in Conns : \E n \in 1..Len(plan[c]) : wire[i] = <<c, n>>
         /\ \A i \in 1..consumed : i \in 1..Len(rx)
         /\ \A p \in Seen : \E c \in Conns : \E n \in 1..Len(plan[c]) : p = <<c, n>>
<1>1. /\ Len(wire) \in Nat /\ DOMAIN wire = 1..Len(wire)
      /\ \A i \in 1..Len(wire) : wire[i] \in Conns \X (1..MaxPieces)
  BY LenProperties DEF PathInv, PathTypes, Senders!Frames
<1>2. \A i \in 1..Len(rx) : rx[i] \in 1..Len(wire)
  BY <1>1, ReceivedOnce DEF PathInv, Carried
<1>3. ASSUME NEW i \in 1..Len(wire)
      PROVE  \E c \in Conns : \E n \in 1..Len(plan[c]) : wire[i] = <<c, n>>
  <2>1. PICK c \in Conns, n \in 1..MaxPieces : wire[i] = <<c, n>>
    BY <1>1
  <2>2. fate[<<c, n>>] = "sent"
    BY <1>1, <2>1 DEF PathInv, Carried
  <2>3. n <= Len(plan[c])
    BY <2>2 DEF PathInv, Carried
  <2>4. n \in 1..Len(plan[c])
    BY <2>3, LenProperties, PathAssumption DEF PathInv, PathTypes
  <2>5. QED
    BY <2>1, <2>4
<1>4. \A i \in 1..consumed : i \in 1..Len(rx)
  BY ReceivedOnce DEF PathInv, PathTypes
<1>5. QED
  BY <1>2, <1>3, <1>4 DEF Seen

-----------------------------------------------------------------------------
\* The steps of the path.

\* A step that leaves plan, buffers and what is seen alone keeps the frames.
LEMMA FramesKept ==
  ASSUME PathInv, UNCHANGED <<plan, next_seq, pending, buf>>, Seen' = Seen
  PROVE  /\ Assembly' /\ OwnIds'
         /\ \A c \in Conns : \A n \in 1..Len(plan'[c]) : Cut(c, n)'
<1>1. \A c, n : FrameAt(c, n)' = FrameAt(c, n) /\ SeqAt(c, n)' = SeqAt(c, n)
  BY DEF FrameAt, SeqAt
<1>2. OwnIds'
  BY <1>1 DEF PathInv, OwnIds
<1>3. \A c \in Conns : \A n \in 1..Len(plan'[c]) : Cut(c, n)'
  BY <1>1 DEF PathInv, Cut
<1>4. \A f : SeenOf(f)' = SeenOf(f)
  BY DEF SeenOf
<1>5. \A f : Arrived(f)' <=> Arrived(f)
  BY <1>4 DEF Arrived
<1>6. \A f : Assembled(f)' <=> Assembled(f)
  BY <1>5 DEF Assembled
<1>7. \A f, s : Buffered(f, s)' <=> Buffered(f, s)
  BY <1>4, <1>5 DEF Buffered
<1>8. Assembly'
  BY <1>1, <1>6, <1>7 DEF PathInv, Assembly
<1>9. QED
  BY <1>2, <1>3, <1>8

\* What is seen stays the same while messages only arrive.
LEMMA SeenKept ==
  ASSUME PathInv, consumed' = consumed,
         \A i \in 1..Len(rx) : rx'[i] = rx[i],
         \A i \in 1..Len(wire) : wire'[i] = wire[i]
  PROVE  Seen' = Seen
<1>1. \A i \in 1..consumed : wire'[rx'[i]] = wire[rx[i]]
  BY SeenPlanned
<1>2. QED
  BY <1>1 DEF Seen

\* The fates of the pieces, as FrameDelivery changes them.
LEMMA AcceptFate ==
  ASSUME PathTypes, NEW c \in Conns, Senders!Accept(c)
  PROVE  \E n \in 1..MaxPieces :
           /\ \A m \in 1..MaxPieces : fate[<<c, m>>] = "unread" <=> m >= n
           /\ fate' = [fate EXCEPT ![<<c, n>>] = "held"]
           /\ fate' \in [Senders!Frames -> {"unread", "held", "sent", "refused", "dropped"}]
           /\ \A p \in Senders!Frames : p # <<c, n>> => fate'[p] = fate[p]
           /\ fate[<<c, n>>] = "unread" /\ fate'[<<c, n>>] = "held"
           /\ <<c, n>> \in Senders!Frames
           /\ UNCHANGED <<ended, wire>>
<1>1. PICK n \in 1..MaxPieces :
        /\ \A m \in 1..MaxPieces : fate[<<c, m>>] = "unread" <=> m >= n
        /\ fate' = [fate EXCEPT ![<<c, n>>] = "held"]
        /\ UNCHANGED <<ended, wire>>
  BY DEF Senders!Accept
<1>2. <<c, n>> \in Senders!Frames
  BY DEF Senders!Frames
<1>3. fate[<<c, n>>] = "unread"
  BY <1>1
<1>4. QED
  BY <1>1, <1>2, <1>3 DEF PathTypes

LEMMA CarriedByAccept ==
  ASSUME PathInv, NEW c \in Conns, Senders!Accept(c), UNCHANGED vars,
         \A d \in Conns : Len(plan'[d]) \in Nat /\ Len(plan[d]) <= Len(plan'[d]),
         \E n \in 1..Len(plan'[c]) : n \in 1..MaxPieces => fate[<<c, n>>] = "unread"
  PROVE  Carried' /\ wire' = wire
         /\ fate' \in [Senders!Frames -> {"unread", "held", "sent", "refused", "dropped"}]
<1>t. PathTypes /\ Carried
  BY DEF PathInv
<1>1. PICK n \in 1..MaxPieces :
        /\ \A m \in 1..MaxPieces : fate[<<c, m>>] = "unread" <=> m >= n
        /\ fate' \in [Senders!Frames -> {"unread", "held", "sent", "refused", "dropped"}]
        /\ \A p \in Senders!Frames : p # <<c, n>> => fate'[p] = fate[p]
        /\ fate[<<c, n>>] = "unread"
        /\ wire' = wire
  BY <1>t, AcceptFate
<1>2. n <= Len(plan'[c])
  BY <1>1, PathAssumption
<1>3. \A d \in Conns : Len(plan[d]) \in Nat
  BY <1>t, LenProperties DEF PathTypes
<1>4. ASSUME NEW d \in Conns, NEW m \in 1..MaxPieces, fate'[<<d, m>>] # "unread"
      PROVE  m <= Len(plan'[d])
  <2>1. CASE <<d, m>> = <<c, n>>
    BY <2>1, <1>2
  <2>2. CASE <<d, m>> # <<c, n>>
    <3>1. fate[<<d, m>>] # "unread"
      BY <2>2, <1>1, <1>4 DEF Senders!Frames
    <3>2. m <= Len(plan[d])
      BY <3>1, <1>t DEF Carried
    <3>3. QED
      BY <3>2, <1>3, PathAssumption
  <2>3. QED
    BY <2>1, <2>2
<1>5. \A i \in DOMAIN wire : wire[i] \in Senders!Frames /\ fate[wire[i]] = "sent"
  BY <1>t, LenProperties DEF PathTypes, Carried
<1>6. \A i \in DOMAIN wire : fate'[wire[i]] = "sent"
  BY <1>1, <1>5
<1>7. arrived' = arrived
  BY DEF vars
<1>8. QED
  BY <1>1, <1>4, <1>6, <1>7, <1>t DEF Carried, IsInjective

\* The sender takes the next piece of the plan.
LEMMA HandOverStep ==
  ASSUME PathInv, NEW c \in Conns, HandOver(c)
  PROVE  PathInv'
<1>1. UNCHANGED <<vars, plan, next_seq, consumed, pending, buf>> /\ Senders!Accept(c)
  BY DEF HandOver, senderVars, receiverVars
<1>2. \A d \in Conns : Len(plan[d]) \in Nat /\ DOMAIN plan[d] = 1..Len(plan[d])
  BY LenProperties DEF PathInv, PathTypes
<1>3. \E n \in 1..Len(plan[c]) : fate[<<c, n>>] = "unread"
  BY <1>2 DEF HandOver
<1>4. /\ Carried' /\ wire' = wire
      /\ fate' \in [Senders!Frames -> {"unread", "held", "sent", "refused", "dropped"}]
  BY <1>1, <1>2, <1>3, CarriedByAccept
<1>5. rx' = rx
  BY <1>1 DEF vars
<1>6. HandoverInv'
  BY <1>1, HandoverStep DEF PathInv
<1>7. PathTypes'
  BY <1>1, <1>4, <1>5 DEF PathInv, PathTypes
<1>8. Seen' = Seen
  BY <1>1, <1>4, <1>5, SeenKept
<1>9. QED
  BY <1>1, <1>4, <1>6, <1>7, <1>8, FramesKept DEF PathInv

\* The transport sends pieces that are held, each once, or loses some.
LEMMA TransportStep ==
  ASSUME PathInv, Transport
  PROVE  PathInv'
<1>t. PathTypes /\ Carried
  BY DEF PathInv
<1>1. UNCHANGED <<vars, plan, next_seq, consumed, pending, buf>>
  BY DEF Transport, senderVars, receiverVars
<1> DEFINE Fates == {"unread", "held", "sent", "refused", "dropped"}
<1>w. /\ wire \in Seq(Senders!Frames) /\ DOMAIN wire = 1..Len(wire) /\ Len(wire) \in Nat
      /\ \A i \in 1..Len(wire) : wire[i] \in Senders!Frames /\ fate[wire[i]] = "sent"
      /\ \A i, j \in 1..Len(wire) : wire[i] = wire[j] => i = j
      /\ arrived <= Len(wire)
  BY <1>t, LenProperties DEF PathTypes, Carried, IsInjective
<1>2. /\ fate' \in [Senders!Frames -> Fates]
      /\ \A p \in Senders!Frames :
           /\ fate'[p] # "unread" => fate[p] # "unread"
           /\ fate[p] = "sent" => fate'[p] = "sent"
      /\ \/ wire' = wire
         \/ \E p \in Senders!Frames :
              fate[p] = "held" /\ fate'[p] = "sent" /\ wire' = Append(wire, p)
  <2>1. ASSUME NEW d \in Conns, Senders!Refuse(d)
        PROVE  /\ fate' \in [Senders!Frames -> Fates] /\ wire' = wire
               /\ \A p \in Senders!Frames :
                    /\ fate'[p] # "unread" => fate[p] # "unread"
                    /\ fate[p] = "sent" => fate'[p] = "sent"
    <3>1. PICK n \in 1..MaxPieces : /\ fate[<<d, n>>] = "held"
                                    /\ fate' = [fate EXCEPT ![<<d, n>>] = "refused"]
                                    /\ wire' = wire
      BY <2>1 DEF Senders!Refuse
    <3>2. <<d, n>> \in Senders!Frames
      BY DEF Senders!Frames
    <3>3. QED
      BY <3>1, <3>2, <1>t DEF PathTypes
  <2>2. ASSUME NEW d \in Conns, Senders!Drop(d)
        PROVE  /\ fate' \in [Senders!Frames -> Fates] /\ wire' = wire
               /\ \A p \in Senders!Frames :
                    /\ fate'[p] # "unread" => fate[p] # "unread"
                    /\ fate[p] = "sent" => fate'[p] = "sent"
    <3>1. PICK batch \in SUBSET {p \in Senders!Frames : p[1] = d /\ fate[p] = "held"} :
            /\ fate' = [p \in Senders!Frames |-> IF p \in batch THEN "dropped" ELSE fate[p]]
            /\ wire' = wire
      BY <2>2, Zenon DEF Senders!Drop
    <3>2. QED
      BY <3>1, <1>t DEF PathTypes
  <2>3. ASSUME NEW p \in Senders!Frames, Senders!Send(p)
        PROVE  /\ fate' \in [Senders!Frames -> Fates]
               /\ fate[p] = "held" /\ fate'[p] = "sent" /\ wire' = Append(wire, p)
               /\ \A q \in Senders!Frames :
                    /\ fate'[q] # "unread" => fate[q] # "unread"
                    /\ fate[q] = "sent" => fate'[q] = "sent"
    BY <2>3, <1>t DEF Senders!Send, PathTypes
  <2>4. QED
    BY <2>1, <2>2, <2>3 DEF Transport
<1> DEFINE Longer ==
             /\ wire' \in Seq(Senders!Frames) /\ Len(wire') \in Nat /\ Len(wire) <= Len(wire')
             /\ DOMAIN wire' = 1..Len(wire')
             /\ \A i \in 1..Len(wire) : wire'[i] = wire[i]
             /\ \A i \in 1..Len(wire') : fate'[wire'[i]] = "sent"
             /\ IsInjective(wire')
<1>s. \A i \in 1..Len(wire) : fate'[wire[i]] = "sent"
  BY <1>w, <1>2
<1>3. Longer
  <2>1. CASE wire' = wire
    BY <2>1, <1>s, <1>w DEF IsInjective
  <2>2. ASSUME NEW p \in Senders!Frames, fate[p] = "held", fate'[p] = "sent",
               wire' = Append(wire, p)
        PROVE  Longer
    <3>1. /\ wire' \in Seq(Senders!Frames) /\ Len(wire') = Len(wire) + 1
          /\ DOMAIN wire' = 1..(Len(wire) + 1)
          /\ \A i \in 1..Len(wire) : wire'[i] = wire[i]
          /\ wire'[Len(wire) + 1] = p
      BY <2>2, <1>w, AppendProperties
    <3>2. \A i \in 1..Len(wire) : wire[i] # p
      BY <2>2, <1>w
    <3>3. \A i \in 1..(Len(wire) + 1) : i \in 1..Len(wire) \/ i = Len(wire) + 1
      BY <1>w
    <3>4. \A i \in 1..Len(wire') : fate'[wire'[i]] = "sent"
      BY <2>2, <3>1, <3>3, <1>s
    <3>5. IsInjective(wire')
      BY <3>1, <3>2, <3>3, <1>w DEF IsInjective
    <3>6. QED
      BY <3>1, <3>4, <3>5, <1>w
  <2>3. QED
    BY <2>1, <2>2, <1>2
<1>4. rx' = rx /\ arrived' = arrived /\ arrived \in Nat
  BY <1>1, ReceivedOnce DEF vars, PathInv
<1>5. HandoverInv'
  BY <1>1, HandoverStep DEF PathInv
<1>6. PathTypes'
  BY <1>1, <1>2, <1>3, <1>4 DEF PathInv, PathTypes
<1>7. \A c \in Conns : \A n \in 1..MaxPieces : fate'[<<c, n>>] # "unread" => n <= Len(plan[c])
  BY <1>2, <1>t DEF Carried, Senders!Frames
<1>8. Carried'
  BY <1>1, <1>3, <1>4, <1>7, <1>w DEF Carried
<1>9. Seen' = Seen
  BY <1>1, <1>3, <1>4, SeenKept
<1>10. QED
  BY <1>1, <1>5, <1>6, <1>8, <1>9, FramesKept DEF PathInv

\* The handover of the receiver only lengthens what has been received.
LEMMA ReceiveStep ==
  ASSUME PathInv, Receive
  PROVE  PathInv'
<1>1. /\ UNCHANGED <<plan, next_seq, fate, ended, wire, consumed, pending, buf>>
      /\ Next /\ arrived' <= Len(wire)
  BY DEF Receive, senderVars, transportVars, receiverVars
<1>2. HandoverInv'
  BY <1>1, HandoverStep DEF PathInv
<1>3. rx \in Seq(Messages) /\ Len(rx) \in Nat
  BY ReceivedOnce DEF PathInv
<1>4. Len(rx) <= Len(rx') /\ Len(rx') \in Nat /\ \A i \in 1..Len(rx) : rx'[i] = rx[i]
  <2>1. CASE rx' = rx
    BY <2>1, <1>3
  <2>2. ASSUME NEW m \in Messages, rx' = Append(rx, m)
        PROVE  Len(rx) <= Len(rx') /\ Len(rx') \in Nat /\ \A i \in 1..Len(rx) : rx'[i] = rx[i]
    BY <2>2, <1>3, AppendMessage, LenProperties
  <2>3. CASE ChannelReceive
    <3>1. dispatch.message \in Messages /\ rx' = Append(rx, dispatch.message)
      BY <2>3, HandledMessage DEF ChannelReceive, PathInv, HandoverInv
    <3>2. QED
      BY <3>1, <2>2
  <2>4. CASE ForwardEarly
    <3>1. Head(early_messages) \in Messages /\ rx' = Append(rx, Head(early_messages))
      BY <2>4, TakeMessage DEF ForwardEarly, PathInv, HandoverInv, TypeOK
    <3>2. QED
      BY <3>1, <2>2
  <2>5. QED
    BY <1>1, <2>1, <2>3, <2>4
       DEF Next, Dispatch, EarlyCheck, EarlyPush, SetHandler, StopBuffering, DrainEarly, SetupDone
<1>5. PathTypes'
  BY <1>1, <1>3, <1>4 DEF PathInv, PathTypes
<1>6. Carried'
  BY <1>1 DEF PathInv, Carried
<1>7. Seen' = Seen
  BY <1>1, <1>4, SeenKept
<1>8. QED
  BY <1>1, <1>2, <1>5, <1>6, <1>7, FramesKept DEF PathInv

\* What fragment_frame adds to the plan: one frame, named by its first place.
LEMMA ProduceEffect ==
  ASSUME PathInv, NEW c \in Conns, NEW size \in Sizes, Produce(c, size)
  PROVE  LET f == [conn |-> c, no |-> Len(plan[c]) + 1, size |-> size] IN
         /\ f \in FrameNames /\ Len(plan[c]) \in Nat /\ next_seq \in Nat
         /\ plan' \in [Conns -> Seq(AllPieces)]
         /\ Len(plan'[c]) = Len(plan[c]) + Parts(f) /\ Len(plan'[c]) <= Quota[c]
         /\ \A d \in Conns : d # c => plan'[d] = plan[d]
         /\ \A n \in 1..Len(plan[c]) : plan'[c][n] = plan[c][n]
         /\ ~Fragmented(f) => plan'[c][Len(plan[c]) + 1] = Whole(f)
         /\ Fragmented(f) => \A i \in 1..size :
              plan'[c][Len(plan[c]) + i] = Fragment(f, next_seq % Word, i, size)
         /\ next_seq' = IF Fragmented(f) THEN next_seq + 1 ELSE next_seq
         /\ Senders!Accept(c)
         /\ UNCHANGED <<vars, consumed, pending, buf>>
<1> DEFINE f == [conn |-> c, no |-> Len(plan[c]) + 1, size |-> size]
           P == IF Fragmented(f) THEN [i \in 1..size |-> Fragment(f, next_seq % Word, i, size)]
                ELSE <<Whole(f)>>
<1>1. /\ Len(plan[c]) + Len(P) <= Quota[c]
      /\ plan' = [plan EXCEPT ![c] = @ \o P]
      /\ next_seq' = IF Fragmented(f) THEN next_seq + 1 ELSE next_seq
      /\ Senders!Accept(c)
      /\ UNCHANGED <<vars, consumed, pending, buf>>
  BY DEF Produce, receiverVars
<1>2. plan \in [Conns -> Seq(AllPieces)] /\ next_seq \in Nat
  BY DEF PathInv, PathTypes
<1>3. Len(plan[c]) \in Nat /\ plan[c] \in Seq(AllPieces)
  BY <1>2, LenProperties
<1>4. f \in FrameNames /\ f.size = size /\ size \in Nat
  BY <1>3, PathAssumption DEF FrameNames
<1>5. next_seq % Word \in Nat
  BY <1>2, PathAssumption
<1> HIDE DEF f
<1>6. /\ P \in Seq(AllPieces) /\ Len(P) = Parts(f) /\ Parts(f) \in Nat
      /\ ~Fragmented(f) => P[1] = Whole(f)
      /\ Fragmented(f) => \A i \in 1..size : P[i] = Fragment(f, next_seq % Word, i, size)
  <2>1. Parts(f) \in Nat /\ (Fragmented(f) => Parts(f) = size) /\ (~Fragmented(f) => Parts(f) = 1)
    BY <1>4, PieceFields
  <2>2. CASE Fragmented(f)
    <3>1. \A i \in 1..size : Fragment(f, next_seq % Word, i, size) \in AllPieces
      BY <1>4, <1>5 DEF AllPieces
    <3>2. P = [i \in 1..size |-> Fragment(f, next_seq % Word, i, size)]
      BY <2>2
    <3> HIDE DEF P
    <3>3. P \in Seq(AllPieces) /\ Len(P) = size
      BY <1>4, <3>1, <3>2, IsASeq, LenProperties
    <3>4. QED
      BY <2>1, <2>2, <3>2, <3>3
  <2>3. CASE ~Fragmented(f)
    <3>1. P = <<Whole(f)>> /\ Whole(f) \in AllPieces
      BY <1>4, <2>3 DEF AllPieces
    <3> HIDE DEF P
    <3>2. QED
      BY <2>1, <2>3, <3>1
  <2>4. QED
    BY <2>2, <2>3
<1> HIDE DEF P
<1>7. /\ plan[c] \o P \in Seq(AllPieces)
      /\ Len(plan[c] \o P) = Len(plan[c]) + Len(P)
      /\ \A i \in 1..(Len(plan[c]) + Len(P)) :
           (plan[c] \o P)[i] = IF i <= Len(plan[c]) THEN plan[c][i] ELSE P[i - Len(plan[c])]
  BY <1>3, <1>6, ConcatProperties
<1>8. plan'[c] = plan[c] \o P /\ \A d \in Conns : d # c => plan'[d] = plan[d]
  BY <1>1, <1>2
<1>9. plan' \in [Conns -> Seq(AllPieces)]
  BY <1>1, <1>2, <1>7
<1>10. \A n \in 1..Len(plan[c]) : plan'[c][n] = plan[c][n]
  BY <1>3, <1>6, <1>7, <1>8
<1>11. \A i \in 1..Parts(f) : plan'[c][Len(plan[c]) + i] = P[i]
  BY <1>3, <1>6, <1>7, <1>8
<1>12. /\ ~Fragmented(f) => plan'[c][Len(plan[c]) + 1] = Whole(f)
       /\ Fragmented(f) => \A i \in 1..size :
            plan'[c][Len(plan[c]) + i] = Fragment(f, next_seq % Word, i, size)
  BY <1>4, <1>6, <1>11, PieceFields
<1>13. Len(plan'[c]) = Len(plan[c]) + Parts(f) /\ Len(plan'[c]) <= Quota[c]
  BY <1>1, <1>6, <1>7, <1>8
<1>14. QED
  BY <1>1, <1>2, <1>3, <1>4, <1>8, <1>9, <1>10, <1>12, <1>13 DEF f

\* Ids below the limit are the values of the counter.
LEMMA SmallIds ==
  ASSUME NEW s \in Nat, s < Word
  PROVE  s % Word = s
  BY PathAssumption

\* A new frame has its places behind all others, and an id none of them has.
LEMMA ProduceStep ==
  ASSUME PathInv, NEW c \in Conns, NEW size \in Sizes, Produce(c, size)
  PROVE  PathInv'
<1> DEFINE L == Len(plan[c])
           f == [conn |-> c, no |-> L + 1, size |-> size]
           s == next_seq % Word
<1>1. /\ f \in FrameNames /\ L \in Nat /\ next_seq \in Nat
      /\ plan' \in [Conns -> Seq(AllPieces)]
      /\ Len(plan'[c]) = L + Parts(f) /\ Len(plan'[c]) <= Quota[c]
      /\ \A d \in Conns : d # c => plan'[d] = plan[d]
      /\ \A n \in 1..L : plan'[c][n] = plan[c][n]
      /\ ~Fragmented(f) => plan'[c][L + 1] = Whole(f)
      /\ Fragmented(f) => \A i \in 1..size : plan'[c][L + i] = Fragment(f, s, i, size)
      /\ next_seq' = IF Fragmented(f) THEN next_seq + 1 ELSE next_seq
      /\ Senders!Accept(c)
      /\ UNCHANGED <<vars, consumed, pending, buf>>
  BY ProduceEffect
<1>2. f.conn = c /\ f.no = L + 1 /\ f.size = size /\ s \in Nat /\ c \in Conns
  BY <1>1, PathAssumption
<1> HIDE DEF f
<1>3. /\ Parts(f) \in Nat \ {0} /\ size \in Nat
      /\ Fragmented(f) => Parts(f) = size
      /\ ~Fragmented(f) => Parts(f) = 1
  BY <1>1, <1>2, PieceFields
<1>p. PathTypes /\ Carried /\ OwnIds /\ Assembly /\ HandoverInv
      /\ plan \in [Conns -> Seq(AllPieces)]
      /\ \A d \in Conns : \A n \in 1..Len(plan[d]) : Cut(d, n)
  BY DEF PathInv, PathTypes
<1> HIDE DEF s
<1>4. \A d \in Conns : Len(plan[d]) \in Nat /\ Len(plan'[d]) \in Nat /\ Len(plan[d]) <= Len(plan'[d])
  <2>1. \A d \in Conns : Len(plan[d]) \in Nat /\ Len(plan'[d]) \in Nat
    BY <1>1, <1>p, LenProperties
  <2>2. Len(plan[c]) <= Len(plan'[c])
    BY <1>1, <1>3, <2>1
  <2>3. \A d \in Conns : d # c => Len(plan[d]) <= Len(plan'[d])
    BY <1>1, <2>1
  <2>4. QED
    BY <2>1, <2>2, <2>3
\* The pieces of earlier frames are where they were.
<1>5. ASSUME NEW d \in Conns, NEW n \in 1..Len(plan[d])
      PROVE  /\ n \in 1..Len(plan'[d]) /\ plan'[d][n] = plan[d][n]
             /\ FrameAt(d, n)' = FrameAt(d, n) /\ SeqAt(d, n)' = SeqAt(d, n)
  <2>1. n \in 1..Len(plan'[d]) /\ plan'[d][n] = plan[d][n]
    <3>1. CASE d = c
      BY <3>1, <1>1, <1>4
    <3>2. CASE d # c
      BY <3>2, <1>1, <1>4
    <3>3. QED
      BY <3>1, <3>2
  <2>2. QED
    BY <2>1 DEF FrameAt, SeqAt
\* Those of the new one are behind.
<1>6. ASSUME NEW n \in Nat, NEW i \in 1..Parts(f), n = L + i
      PROVE  /\ n \in 1..Len(plan'[c]) /\ FrameAt(c, n)' = f
             /\ Fragmented(f) => plan'[c][n] = Fragment(f, s, i, size) /\ SeqAt(c, n)' = s
             /\ ~Fragmented(f) => plan'[c][n] = Whole(f)
  <2>1. n \in 1..Len(plan'[c])
    BY <1>1, <1>3, <1>6
  <2>2. CASE Fragmented(f)
    <3>1. i \in 1..size /\ plan'[c][n] = Fragment(f, s, i, size)
      BY <2>2, <1>1, <1>3, <1>6
    <3>2. Fragment(f, s, i, size).payload[1].frame = f /\ Fragment(f, s, i, size).seq = s
      BY <3>1, <1>1, <1>2, PieceFields
    <3>3. QED
      BY <2>1, <2>2, <3>1, <3>2 DEF FrameAt, SeqAt
  <2>3. CASE ~Fragmented(f)
    <3>1. plan'[c][n] = Whole(f)
      BY <2>3, <1>1, <1>3, <1>6
    <3>2. Whole(f).payload[1].frame = f
      BY <1>1, PieceFields
    <3>3. QED
      BY <2>1, <2>3, <3>1, <3>2 DEF FrameAt
  <2>4. QED
    BY <2>2, <2>3
<1>7. ASSUME NEW d \in Conns, NEW n \in 1..Len(plan'[d])
      PROVE  n \in 1..Len(plan[d]) \/ (d = c /\ \E i \in 1..Parts(f) : n = L + i)
  <2>1. CASE d = c /\ n > L
    <3>1. n - L \in 1..Parts(f) /\ n = L + (n - L)
      BY <2>1, <1>1, <1>3
    <3>2. QED
      BY <2>1, <3>1
  <2>2. CASE d = c /\ ~(n > L)
    BY <2>2, <1>1
  <2>3. CASE d # c
    BY <2>3, <1>1
  <2>4. QED
    BY <2>1, <2>2, <2>3
\* The transport.
<1>8. \E n \in 1..Len(plan'[c]) : n \in 1..MaxPieces => fate[<<c, n>>] = "unread"
  <2>1. L + 1 \in 1..Len(plan'[c])
    BY <1>1, <1>3, <1>4
  <2>2. L + 1 \in 1..MaxPieces => fate[<<c, L + 1>>] = "unread"
    BY <1>p, <1>1 DEF Carried
  <2>3. QED
    BY <2>1, <2>2
<1>9. /\ Carried' /\ wire' = wire
      /\ fate' \in [Senders!Frames -> {"unread", "held", "sent", "refused", "dropped"}]
  BY <1>1, <1>4, <1>8, CarriedByAccept
<1>10. rx' = rx
  BY <1>1 DEF vars
<1>11. HandoverInv'
  BY <1>1, <1>p, HandoverStep
<1>12. PathTypes'
  <2>1. \A d \in Conns : Len(plan'[d]) <= Quota[d]
    BY <1>1, <1>p DEF PathTypes
  <2>2. next_seq' \in Nat
    BY <1>1
  <2>3. QED
    BY <1>1, <1>9, <1>10, <1>p, <2>1, <2>2 DEF PathTypes
<1>13. Seen' = Seen
  BY <1>1, <1>9, <1>10, SeenKept
\* The plan.
<1>14. ASSUME NEW d \in Conns, NEW n \in 1..Len(plan'[d]) PROVE Cut(d, n)'
  <2>1. CASE n \in 1..Len(plan[d])
    <3> DEFINE g == FrameAt(d, n)
    <3>1. /\ g \in FrameNames /\ g.conn = d
          /\ n \in g.no..(g.no + Parts(g) - 1) /\ g.no + Parts(g) - 1 <= Len(plan[d])
          /\ ~Fragmented(g) => plan[d][n] = Whole(g)
          /\ Fragmented(g) =>
               /\ SeqAt(d, n) \in Nat
               /\ \A i \in 1..g.size : plan[d][g.no + i - 1] = Fragment(g, SeqAt(d, n), i, g.size)
      BY <2>1, <1>p DEF Cut
    <3>2. FrameAt(d, n)' = g /\ SeqAt(d, n)' = SeqAt(d, n) /\ plan'[d][n] = plan[d][n]
      BY <2>1, <1>5
    <3> HIDE DEF g
    <3>3. g.no \in Nat \ {0} /\ Parts(g) \in Nat /\ g.size \in Nat /\ (Fragmented(g) => Parts(g) = g.size)
      BY <3>1, PieceFields
    <3>4. g.no + Parts(g) - 1 <= Len(plan'[d])
      BY <3>1, <3>3, <1>4
    <3>5. Fragmented(g) =>
            \A i \in 1..g.size : plan'[d][g.no + i - 1] = Fragment(g, SeqAt(d, n), i, g.size)
      <4> SUFFICES ASSUME Fragmented(g), NEW i \in 1..g.size
                   PROVE  plan'[d][g.no + i - 1] = Fragment(g, SeqAt(d, n), i, g.size)
        OBVIOUS
      <4>1. g.no + i - 1 \in 1..Len(plan[d])
        <5>1. Parts(g) = g.size /\ g.no + Parts(g) - 1 <= Len(plan[d])
          BY <3>1, <3>3
        <5>2. Len(plan[d]) \in Nat
          BY <1>4
        <5>3. QED
          BY <3>3, <5>1, <5>2
      <4>2. plan'[d][g.no + i - 1] = plan[d][g.no + i - 1]
        BY <4>1, <1>5
      <4>3. plan[d][g.no + i - 1] = Fragment(g, SeqAt(d, n), i, g.size)
        BY <3>1
      <4>4. QED
        BY <4>2, <4>3
    <3>6. QED
      BY <3>1, <3>2, <3>4, <3>5 DEF Cut
  <2>2. ASSUME d = c, NEW i \in 1..Parts(f), n = L + i PROVE Cut(d, n)'
    <3>1. /\ FrameAt(c, n)' = f
          /\ Fragmented(f) => SeqAt(c, n)' = s
          /\ ~Fragmented(f) => plan'[c][n] = Whole(f)
      BY <2>2, <1>6
    <3>2. n \in f.no..(f.no + Parts(f) - 1) /\ f.no + Parts(f) - 1 = Len(plan'[c])
      <4>1. f.no = L + 1 /\ Len(plan'[c]) = L + Parts(f) /\ L \in Nat
        BY <1>1, <1>2
      <4> HIDE DEF L
      <4>2. QED
        BY <4>1, <2>2, <1>3
    <3>3. Fragmented(f) =>
            \A j \in 1..f.size : plan'[c][f.no + j - 1] = Fragment(f, s, j, f.size)
      <4> SUFFICES ASSUME Fragmented(f), NEW j \in 1..f.size
                   PROVE  plan'[c][f.no + j - 1] = Fragment(f, s, j, f.size)
        OBVIOUS
      <4>1. j \in 1..Parts(f) /\ f.no + j - 1 = L + j
        BY <1>1, <1>2, <1>3
      <4>2. QED
        BY <4>1, <1>2, <1>6
    <3>4. s \in Nat /\ f \in FrameNames /\ f.conn = c
      BY <1>1, <1>2
    <3>5. QED
      BY <2>2, <3>1, <3>2, <3>3, <3>4 DEF Cut
  <2>3. QED
    BY <2>1, <2>2, <1>7
<1>15. next_seq' <= Word =>
         /\ next_seq <= Word /\ next_seq <= next_seq'
         /\ Fragmented(f) => s = next_seq /\ s < next_seq'
  <2>1. Word \in Nat /\ next_seq \in Nat /\ next_seq' \in Nat /\ next_seq <= next_seq'
        /\ (Fragmented(f) => next_seq' = next_seq + 1)
    BY <1>1, PathAssumption
  <2>2. ASSUME next_seq' <= Word, Fragmented(f) PROVE s = next_seq
    <3>1. next_seq < Word
      BY <2>1, <2>2
    <3>2. next_seq % Word = next_seq
      BY <2>1, <3>1, SmallIds
    <3>3. QED
      BY <3>2 DEF s
  <2>3. QED
    BY <2>1, <2>2
<1>16. OwnIds'
  <2> SUFFICES ASSUME next_seq' <= Word, NEW d \in Conns, NEW e \in Conns,
                      NEW n \in 1..Len(plan'[d]), NEW m \in 1..Len(plan'[e]),
                      Fragmented(FrameAt(d, n)')
               PROVE  /\ SeqAt(d, n)' < next_seq'
                      /\ Fragmented(FrameAt(e, m)') /\ SeqAt(d, n)' = SeqAt(e, m)' =>
                           FrameAt(d, n)' = FrameAt(e, m)'
    BY DEF OwnIds, Fragmented
  <2>1. ASSUME NEW a \in Conns, NEW k \in 1..Len(plan[a]), Fragmented(FrameAt(a, k))
        PROVE  SeqAt(a, k) < next_seq /\ SeqAt(a, k) \in Nat
    <3>1. SeqAt(a, k) < next_seq
      BY <2>1, <1>p, <1>15 DEF OwnIds
    <3>2. SeqAt(a, k) \in Nat
      BY <2>1, <1>p DEF Cut
    <3>3. QED
      BY <3>1, <3>2
  <2>2. CASE n \in 1..Len(plan[d]) /\ m \in 1..Len(plan[e])
    <3>1. /\ FrameAt(d, n)' = FrameAt(d, n) /\ SeqAt(d, n)' = SeqAt(d, n)
          /\ FrameAt(e, m)' = FrameAt(e, m) /\ SeqAt(e, m)' = SeqAt(e, m)
      BY <2>2, <1>5
    <3>2. SeqAt(d, n) < next_seq'
      BY <2>1, <2>2, <3>1, <1>1, <1>15
    <3>3. QED
      BY <2>2, <3>1, <3>2, <1>p, <1>15 DEF OwnIds
  <2>3. ASSUME n \in 1..Len(plan[d]), e = c, NEW j \in 1..Parts(f), m = L + j
        PROVE  /\ SeqAt(d, n)' < next_seq'
               /\ Fragmented(FrameAt(e, m)') /\ SeqAt(d, n)' = SeqAt(e, m)' =>
                    FrameAt(d, n)' = FrameAt(e, m)'
    <3>1. FrameAt(d, n)' = FrameAt(d, n) /\ SeqAt(d, n)' = SeqAt(d, n)
      BY <2>3, <1>5
    <3>2. FrameAt(e, m)' = f /\ (Fragmented(f) => SeqAt(e, m)' = s)
      BY <2>3, <1>6
    <3>3. SeqAt(d, n) < next_seq /\ SeqAt(d, n) \in Nat
      BY <2>1, <2>3, <3>1
    <3>4. QED
      BY <3>1, <3>2, <3>3, <1>1, <1>15
  <2>4. ASSUME d = c, NEW i \in 1..Parts(f), n = L + i, m \in 1..Len(plan[e])
        PROVE  /\ SeqAt(d, n)' < next_seq'
               /\ Fragmented(FrameAt(e, m)') /\ SeqAt(d, n)' = SeqAt(e, m)' =>
                    FrameAt(d, n)' = FrameAt(e, m)'
    <3>1. FrameAt(d, n)' = f /\ SeqAt(d, n)' = s
      BY <2>4, <1>6
    <3>2. FrameAt(e, m)' = FrameAt(e, m) /\ SeqAt(e, m)' = SeqAt(e, m)
      BY <2>4, <1>5
    <3>3. Fragmented(FrameAt(e, m)) => SeqAt(e, m) < next_seq /\ SeqAt(e, m) \in Nat
      BY <2>1, <2>4
    <3>4. QED
      BY <3>1, <3>2, <3>3, <1>1, <1>15
  <2>5. ASSUME d = c, NEW i \in 1..Parts(f), n = L + i, e = c, NEW j \in 1..Parts(f), m = L + j
        PROVE  /\ SeqAt(d, n)' < next_seq'
               /\ Fragmented(FrameAt(e, m)') /\ SeqAt(d, n)' = SeqAt(e, m)' =>
                    FrameAt(d, n)' = FrameAt(e, m)'
    <3>1. FrameAt(d, n)' = f /\ FrameAt(e, m)' = f /\ SeqAt(d, n)' = s
      BY <2>5, <1>6
    <3>2. QED
      BY <3>1, <1>15
  <2>6. QED
    BY <2>2, <2>3, <2>4, <2>5, <1>7
\* The receiver, which has seen nothing of the new frame.
<1>17. /\ \A g : SeenOf(g)' = SeenOf(g)
       /\ \A g : Arrived(g)' <=> Arrived(g)
       /\ \A g : Assembled(g)' <=> Assembled(g)
       /\ \A g, t : Buffered(g, t)' <=> Buffered(g, t)
  <2>1. \A g : SeenOf(g)' = SeenOf(g)
    BY <1>13 DEF SeenOf, Parts, Fragmented
  <2>2. \A g : Arrived(g)' <=> Arrived(g)
    BY <2>1 DEF Arrived, Parts, Fragmented
  <2>3. \A g : Assembled(g)' <=> Assembled(g)
    BY <1>1, <2>2 DEF Assembled, Payload
  <2>4. \A g, t : Buffered(g, t)' <=> Buffered(g, t)
    BY <1>1, <2>1, <2>2 DEF Buffered, Payload
  <2>5. QED
    BY <2>1, <2>2, <2>3, <2>4
<1>18. SeenOf(f) = {} /\ ~Arrived(f)
  <2>1. ASSUME NEW k \in 0..(Parts(f) - 1), <<f.conn, f.no + k>> \in Seen PROVE FALSE
    <3>0. PICK d \in Conns : \E n \in 1..Len(plan[d]) : <<f.conn, f.no + k>> = <<d, n>>
      BY <2>1, <1>p, SeenPlanned
    <3>1. PICK n \in 1..Len(plan[d]) : <<f.conn, f.no + k>> = <<d, n>>
      BY <3>0
    <3>2. d = c /\ n = L + 1 + k
      BY <3>1, <1>2
    <3>3. QED
      BY <3>2, <1>1, <1>3
  <2>2. SeenOf(f) = {}
    BY <2>1 DEF SeenOf
  <2>3. 0 \in 0..(Parts(f) - 1)
    BY <1>3
  <2>4. QED
    BY <2>2, <2>3 DEF Arrived
<1>19. Assembly'
  <2> SUFFICES ASSUME next_seq' <= Word
               PROVE  /\ buf \in Seq({Payload(g) : g \in FrameNames})
                      /\ \A i \in DOMAIN buf : \E d \in Conns : \E n \in 1..Len(plan'[d]) :
                           buf[i] = Payload(FrameAt(d, n)')
                      /\ IsInjective(buf)
                      /\ \A t \in DOMAIN pending : \E d \in Conns : \E n \in 1..Len(plan'[d]) :
                           Fragmented(FrameAt(d, n)') /\ SeqAt(d, n)' = t
                      /\ \A d \in Conns : \A n \in 1..Len(plan'[d]) :
                           /\ Assembled(FrameAt(d, n)')
                           /\ Fragmented(FrameAt(d, n)') => Buffered(FrameAt(d, n)', SeqAt(d, n)')
    BY <1>1, <1>17 DEF Assembly
  <2>1. /\ buf \in Seq({Payload(g) : g \in FrameNames})
        /\ \A i \in DOMAIN buf : \E d \in Conns : \E n \in 1..Len(plan[d]) :
             buf[i] = Payload(FrameAt(d, n))
        /\ IsInjective(buf)
        /\ \A t \in DOMAIN pending : \E d \in Conns : \E n \in 1..Len(plan[d]) :
             Fragmented(FrameAt(d, n)) /\ SeqAt(d, n) = t
        /\ \A d \in Conns : \A n \in 1..Len(plan[d]) :
             /\ Assembled(FrameAt(d, n))
             /\ Fragmented(FrameAt(d, n)) => Buffered(FrameAt(d, n), SeqAt(d, n))
    BY <1>p, <1>15 DEF Assembly
  <2>2. \A i \in DOMAIN buf : \E d \in Conns : \E n \in 1..Len(plan'[d]) :
          buf[i] = Payload(FrameAt(d, n)')
    BY <2>1, <1>5
  <2>3. \A t \in DOMAIN pending : \E d \in Conns : \E n \in 1..Len(plan'[d]) :
          Fragmented(FrameAt(d, n)') /\ SeqAt(d, n)' = t
    BY <2>1, <1>5
  <2>4. Assembled(f)
    <3>1. ASSUME NEW i \in DOMAIN buf, buf[i] = Payload(f) PROVE FALSE
      <4>0. PICK d \in Conns : \E n \in 1..Len(plan[d]) : buf[i] = Payload(FrameAt(d, n))
        BY <2>1
      <4>1. PICK n \in 1..Len(plan[d]) : buf[i] = Payload(FrameAt(d, n))
        BY <4>0
      <4>2. FrameAt(d, n) \in FrameNames /\ FrameAt(d, n).conn = d
            /\ FrameAt(d, n).no + Parts(FrameAt(d, n)) - 1 <= Len(plan[d])
        BY <1>p DEF Cut
      <4>3. FrameAt(d, n) = f
        BY <3>1, <4>1, <4>2, <1>1, PayloadNames
      <4>4. QED
        BY <4>2, <4>3, <1>1, <1>2, <1>3
    <3>2. QED
      BY <3>1, <1>18 DEF Assembled
  <2>5. Fragmented(f) => Buffered(f, s)
    <3>1. ASSUME Fragmented(f), s \in DOMAIN pending PROVE FALSE
      <4>0. PICK d \in Conns :
              \E n \in 1..Len(plan[d]) : Fragmented(FrameAt(d, n)) /\ SeqAt(d, n) = s
        BY <2>1, <3>1
      <4>1. PICK n \in 1..Len(plan[d]) : Fragmented(FrameAt(d, n)) /\ SeqAt(d, n) = s
        BY <4>0
      <4>2. SeqAt(d, n) < next_seq
        BY <4>1, <1>p, <1>15 DEF OwnIds
      <4>3. QED
        BY <3>1, <4>1, <4>2, <1>1, <1>15
    <3>2. QED
      BY <3>1, <1>18 DEF Buffered
  <2>6. ASSUME NEW d \in Conns, NEW n \in 1..Len(plan'[d])
        PROVE  /\ Assembled(FrameAt(d, n)')
               /\ Fragmented(FrameAt(d, n)') => Buffered(FrameAt(d, n)', SeqAt(d, n)')
    <3>1. CASE n \in 1..Len(plan[d])
      BY <3>1, <2>1, <1>5
    <3>2. ASSUME d = c, NEW i \in 1..Parts(f), n = L + i
          PROVE  /\ Assembled(FrameAt(d, n)')
                 /\ Fragmented(FrameAt(d, n)') => Buffered(FrameAt(d, n)', SeqAt(d, n)')
      BY <3>2, <2>4, <2>5, <1>6
    <3>3. QED
      BY <3>1, <3>2, <1>7
  <2>7. QED
    BY <2>1, <2>2, <2>3, <2>6
<1>20. QED
  BY <1>9, <1>11, <1>12, <1>14, <1>16, <1>19 DEF PathInv

\* The message processed next is a piece the run loop has not processed before.
LEMMA ConsumePlace ==
  ASSUME PathInv, Consume
  PROVE  /\ UNCHANGED <<vars, plan, next_seq, fate, ended, wire>>
         /\ consumed \in Nat /\ consumed' = consumed + 1 /\ consumed' \in 0..Len(rx)
         /\ \E c \in Conns : \E n \in 1..Len(plan[c]) :
              /\ Piece(rx[consumed + 1]) = plan[c][n]
              /\ <<c, n>> \notin Seen /\ Seen' = Seen \cup {<<c, n>>}
<1>1. /\ UNCHANGED <<vars, plan, next_seq, fate, ended, wire>>
      /\ consumed' = consumed + 1 /\ consumed < Len(rx)
  BY DEF Consume, senderVars, transportVars
<1>2. Len(rx) \in Nat /\ consumed \in Nat /\ consumed <= Len(rx)
  BY ReceivedOnce DEF PathInv, PathTypes
<1>3. consumed' \in 0..Len(rx) /\ consumed + 1 \in 1..Len(rx)
  BY <1>1, <1>2
<1>4. rx[consumed + 1] \in 1..Len(wire)
  BY <1>3, SeenPlanned
<1>5. PICK c \in Conns : \E n \in 1..Len(plan[c]) : wire[rx[consumed + 1]] = <<c, n>>
  BY <1>4, SeenPlanned
<1>6. PICK n \in 1..Len(plan[c]) : wire[rx[consumed + 1]] = <<c, n>>
  BY <1>5
<1>7. Piece(rx[consumed + 1]) = plan[c][n]
  BY <1>6 DEF Piece
<1>8. ASSUME NEW i \in 1..consumed PROVE wire[rx[i]] # <<c, n>>
  <2>1. i \in 1..Len(rx) /\ i # consumed + 1
    BY <1>2, <1>8
  <2>2. rx[i] # rx[consumed + 1]
    BY <2>1, <1>3, ReceivedOnce DEF PathInv
  <2>3. rx[i] \in DOMAIN wire /\ rx[consumed + 1] \in DOMAIN wire
    <3>1. DOMAIN wire = 1..Len(wire)
      BY LenProperties DEF PathInv, PathTypes
    <3>2. rx[i] \in 1..Len(wire)
      BY <2>1, SeenPlanned
    <3>3. QED
      BY <1>4, <3>1, <3>2
  <2>4. QED
    BY <2>2, <2>3, <1>6 DEF PathInv, Carried, IsInjective
<1>9. <<c, n>> \notin Seen
  BY <1>8 DEF Seen
<1>10. Seen' = Seen \cup {<<c, n>>}
  <2>1. rx' = rx /\ wire' = wire
    BY <1>1 DEF vars
  <2>2. 1..consumed' = (1..consumed) \cup {consumed + 1}
    BY <1>1, <1>2
  <2>3. Seen' = {wire[rx[i]] : i \in (1..consumed) \cup {consumed + 1}}
    BY <2>1, <2>2 DEF Seen
  <2>4. QED
    BY <2>3, <1>6 DEF Seen
<1>11. QED
  BY <1>1, <1>2, <1>3, <1>7, <1>9, <1>10

\* A piece processed counts for its frame and for no other.
LEMMA SeenOne ==
  ASSUME PathInv, NEW c \in Conns, NEW n \in 1..Len(plan[c]),
         NEW f, f = FrameAt(c, n), NEW k, k = n - f.no,
         <<c, n>> \notin Seen, Seen' = Seen \cup {<<c, n>>}
  PROVE  /\ f \in FrameNames /\ f.conn = c /\ k \in 0..(Parts(f) - 1) /\ n = f.no + k
         /\ SeenOf(f)' = SeenOf(f) \cup {k} /\ k \notin SeenOf(f) /\ ~Arrived(f)
         /\ Fragmented(f) => plan[c][n] = Fragment(f, SeqAt(c, n), k + 1, f.size)
         /\ ~Fragmented(f) => plan[c][n] = Whole(f) /\ Arrived(f)'
         /\ \A d \in Conns : \A m \in 1..Len(plan[d]) : \A g :
              g = FrameAt(d, m) /\ g # f =>
                SeenOf(g)' = SeenOf(g) /\ (Arrived(g)' <=> Arrived(g))
<1>p. plan \in [Conns -> Seq(AllPieces)] /\ \A d \in Conns : \A m \in 1..Len(plan[d]) : Cut(d, m)
  BY DEF PathInv, PathTypes
<1>1. /\ f \in FrameNames /\ f.conn = c /\ k \in 0..(Parts(f) - 1) /\ n = f.no + k
      /\ Fragmented(f) => plan[c][n] = Fragment(f, SeqAt(c, n), k + 1, f.size)
      /\ ~Fragmented(f) => plan[c][n] = Whole(f) /\ k = 0
  BY <1>p, PlacesOfFrame
<1>2. /\ Parts(f) \in Nat \ {0} /\ f.no \in Nat /\ f.size \in Nat /\ (~Fragmented(f) => Parts(f) = 1)
  BY <1>1, PieceFields
<1>3. k \notin SeenOf(f)
  BY <1>1 DEF SeenOf
<1>4. SeenOf(f)' = SeenOf(f) \cup {k}
  <2>1. ASSUME NEW j \in 0..(Parts(f) - 1)
        PROVE  <<f.conn, f.no + j>> \in Seen' <=> <<f.conn, f.no + j>> \in Seen \/ j = k
    <3>1. <<f.conn, f.no + j>> = <<c, n>> <=> j = k
      BY <1>1, <1>2, SMTT(30)
    <3>2. QED
      BY <3>1
  <2>2. SeenOf(f)' = {j \in 0..(Parts(f) - 1) : <<f.conn, f.no + j>> \in Seen'}
    BY DEF SeenOf
  <2>3. QED
    BY <1>1, <2>1, <2>2 DEF SeenOf
<1>5. ~Arrived(f)
  BY <1>1, <1>3 DEF Arrived
<1>6. ~Fragmented(f) => Arrived(f)'
  <2>1. SUFFICES ASSUME ~Fragmented(f) PROVE SeenOf(f)' = 0..(Parts(f) - 1)
    BY DEF Arrived
  <2>2. 0..(Parts(f) - 1) = {k} /\ SeenOf(f) \subseteq {k}
    BY <1>1, <1>2, <2>1 DEF SeenOf
  <2>3. QED
    BY <1>4, <2>2
<1>7. ASSUME NEW d \in Conns, NEW m \in 1..Len(plan[d]), NEW g, g = FrameAt(d, m), g # f
      PROVE  SeenOf(g)' = SeenOf(g) /\ (Arrived(g)' <=> Arrived(g))
  <2>1. g \in FrameNames /\ g.conn = d /\ \A j \in 0..(Parts(g) - 1) : FrameAt(d, g.no + j) = g
    BY <1>p, <1>7, PlacesOfFrame
  <2>2. ASSUME NEW j \in 0..(Parts(g) - 1) PROVE <<g.conn, g.no + j>> # <<c, n>>
    <3>1. ASSUME g.conn = c, g.no + j = n PROVE FALSE
      <4>1. FrameAt(d, g.no + j) = g
        BY <2>1
      <4>2. QED
        BY <4>1, <3>1, <2>1, <1>7
    <3>2. QED
      BY <3>1
  <2>3. SeenOf(g)' = {j \in 0..(Parts(g) - 1) : <<g.conn, g.no + j>> \in Seen'}
    BY DEF SeenOf
  <2>4. SeenOf(g)' = SeenOf(g)
    BY <2>2, <2>3 DEF SeenOf
  <2>5. QED
    BY <2>4 DEF Arrived
<1>8. QED
  BY <1>1, <1>3, <1>4, <1>5, <1>6, <1>7

\* A buffer is complete when it holds as many chunks as the frame has, and the
\* chunks by their indices are then the payload.
LEMMA CompleteBuffer ==
  ASSUME NEW f \in FrameNames, Fragmented(f), NEW S \in SUBSET (0..(f.size - 1))
  PROVE  /\ Cardinality(S) = f.size <=> S = 0..(f.size - 1)
         /\ Reassemble([total |-> f.size, got |-> [j \in 0..(f.size - 1) |-> Payload(f)[j + 1]]])
              = Payload(f)
<1>1. f.size \in Nat \ {0} /\ Payload(f) = [i \in 1..f.size |-> [frame |-> f, chunk |-> i]]
  BY PieceFields
<1>2. IsFiniteSet(0..(f.size - 1)) /\ Cardinality(0..(f.size - 1)) = f.size
  <2>1. f.size - 1 \in Int /\ 0 \in Int /\ ~(0 > f.size - 1) /\ f.size - 1 - 0 + 1 = f.size
    BY <1>1
  <2>2. /\ IsFiniteSet(0..(f.size - 1))
        /\ Cardinality(0..(f.size - 1)) = IF 0 > f.size - 1 THEN 0 ELSE f.size - 1 - 0 + 1
    BY <2>1, FS_Interval
  <2>3. QED
    BY <2>1, <2>2
<1>3. Cardinality(S) = f.size <=> S = 0..(f.size - 1)
  BY <1>2, FS_Subset
<1> DEFINE got == [j \in 0..(f.size - 1) |-> Payload(f)[j + 1]]
<1>4. Reassemble([total |-> f.size, got |-> got]) = [i \in 1..f.size |-> got[i - 1]]
  BY DEF Reassemble
<1>5. \A i \in 1..f.size : got[i - 1] = Payload(f)[i]
  BY <1>1
<1> HIDE DEF got
<1>6. [i \in 1..f.size |-> got[i - 1]] = Payload(f)
  BY <1>1, <1>5
<1>7. QED
  BY <1>3, <1>4, <1>6 DEF got

\* What add_fragment makes of the buffer of a frame: the chunks processed.
LEMMA AddedChunk ==
  ASSUME NEW f \in FrameNames, Fragmented(f), NEW s, Buffered(f, s), ~Arrived(f),
         NEW k \in 0..(f.size - 1), k \notin SeenOf(f)
  PROVE  Added(Fragment(f, s, k + 1, f.size))
           = [total |-> f.size, got |-> [j \in SeenOf(f) \cup {k} |-> Payload(f)[j + 1]]]
<1> DEFINE p == Fragment(f, s, k + 1, f.size)
           b == IF p.seq \in DOMAIN pending THEN pending[p.seq]
                ELSE [total |-> p.total, got |-> << >>]
<1>1. f.size \in Nat \ {0}
  BY PieceFields
<1>2. p.seq = s /\ p.idx = k /\ p.total = f.size /\ p.payload[1] = Payload(f)[k + 1]
  <2>1. k + 1 \in 1..f.size /\ k + 1 - 1 = k
    BY <1>1
  <2>2. QED
    BY <2>1, PieceFields
<1>3. Added(p) = IF p.idx >= b.total \/ p.idx \in DOMAIN b.got THEN b
                 ELSE [b EXCEPT !.got = Insert(@, p.idx, p.payload[1])]
  BY DEF Added
<1>4. PICK got : /\ b = [total |-> f.size, got |-> got] /\ DOMAIN got = SeenOf(f)
                 /\ \A j \in SeenOf(f) : got[j] = Payload(f)[j + 1]
  <2>1. CASE s \in DOMAIN pending
    <3> DEFINE chunks == [j \in SeenOf(f) |-> Payload(f)[j + 1]]
    <3>1. b = [total |-> f.size, got |-> chunks]
      BY <2>1, <1>2 DEF Buffered
    <3>2. DOMAIN chunks = SeenOf(f) /\ \A j \in SeenOf(f) : chunks[j] = Payload(f)[j + 1]
      OBVIOUS
    <3> HIDE DEF b, chunks
    <3>3. QED
      BY <3>1, <3>2
  <2>2. CASE s \notin DOMAIN pending
    <3>1. SeenOf(f) = {}
      BY <2>2 DEF Buffered
    <3>2. b = [total |-> f.size, got |-> << >>]
      BY <2>2, <1>2
    <3> HIDE DEF b
    <3>3. DOMAIN << >> = {}
      OBVIOUS
    <3>4. QED
      BY <3>1, <3>2, <3>3
  <2>3. QED
    BY <2>1, <2>2
<1> HIDE DEF b, p
<1>5. b.total = f.size /\ b.got = got /\ ~(k >= f.size) /\ k \notin DOMAIN got
  BY <1>1, <1>4
<1>6. Added(p) = [b EXCEPT !.got = Insert(@, k, Payload(f)[k + 1])]
  BY <1>2, <1>3, <1>5
<1>7. Added(p) = [total |-> f.size, got |-> Insert(got, k, Payload(f)[k + 1])]
  BY <1>4, <1>6
<1>8. Insert(got, k, Payload(f)[k + 1]) = [j \in SeenOf(f) \cup {k} |-> Payload(f)[j + 1]]
  BY <1>4 DEF Insert
<1>9. QED
  BY <1>7, <1>8 DEF p

\* The fragments of a frame share their id, and no other frame has it.
LEMMA IdsOfFrames ==
  ASSUME PathInv, next_seq <= Word, NEW c \in Conns, NEW n \in 1..Len(plan[c]),
         Fragmented(FrameAt(c, n)), NEW d \in Conns, NEW m \in 1..Len(plan[d]),
         Fragmented(FrameAt(d, m))
  PROVE  FrameAt(c, n) = FrameAt(d, m) <=> SeqAt(c, n) = SeqAt(d, m)
<1>p. plan \in [Conns -> Seq(AllPieces)] /\ \A e \in Conns : \A l \in 1..Len(plan[e]) : Cut(e, l)
  BY DEF PathInv, PathTypes
<1>1. ASSUME NEW e \in Conns, NEW l \in 1..Len(plan[e]), Fragmented(FrameAt(e, l)),
             FrameAt(e, l) = FrameAt(c, n)
      PROVE  e = c /\ plan[e][l] = Fragment(FrameAt(c, n), SeqAt(c, n), l - FrameAt(c, n).no + 1,
                                            FrameAt(c, n).size)
  <2> DEFINE f == FrameAt(c, n)
             k == l - f.no
  <2>1. /\ f \in FrameNames /\ f.conn = c
        /\ \A j \in 0..(Parts(f) - 1) :
             plan[c][f.no + j] = Fragment(f, SeqAt(c, n), j + 1, f.size)
    BY <1>p, PlacesOfFrame
  <2>2. f.conn = e /\ k \in 0..(Parts(f) - 1) /\ l = f.no + k
    BY <1>p, <1>1, PlacesOfFrame
  <2>3. QED
    BY <2>1, <2>2
<1>2. FrameAt(c, n) = FrameAt(d, m) => SeqAt(c, n) = SeqAt(d, m)
  <2> SUFFICES ASSUME FrameAt(c, n) = FrameAt(d, m) PROVE SeqAt(c, n) = SeqAt(d, m)
    OBVIOUS
  <2>1. plan[d][m] = Fragment(FrameAt(c, n), SeqAt(c, n), m - FrameAt(c, n).no + 1,
                              FrameAt(c, n).size)
    BY <1>1
  <2>2. plan[d][m].seq = SeqAt(c, n)
    BY <2>1 DEF Fragment
  <2>3. QED
    BY <2>2 DEF SeqAt
<1>3. SeqAt(c, n) = SeqAt(d, m) => FrameAt(c, n) = FrameAt(d, m)
  BY DEF PathInv, OwnIds
<1>4. QED
  BY <1>2, <1>3

\* A frame is appended as its last piece is processed.
LEMMA AppendFrame ==
  ASSUME PathInv, next_seq <= Word, UNCHANGED plan,
         NEW c \in Conns, NEW n \in 1..Len(plan[c]), NEW f, f = FrameAt(c, n),
         ~Arrived(f), Arrived(f)', buf' = Append(buf, Payload(f)),
         \A d \in Conns : \A m \in 1..Len(plan[d]) : \A g :
           g = FrameAt(d, m) /\ g # f => (Arrived(g)' <=> Arrived(g))
  PROVE  /\ buf' \in Seq({Payload(g) : g \in FrameNames})
         /\ \A i \in DOMAIN buf' : \E d \in Conns : \E m \in 1..Len(plan[d]) :
              buf'[i] = Payload(FrameAt(d, m))
         /\ \A i, j \in DOMAIN buf' : buf'[i] = buf'[j] => i = j
         /\ \A d \in Conns : \A m \in 1..Len(plan[d]) : \A g :
              g = FrameAt(d, m) => Assembled(g)'
<1>p. \A d \in Conns : \A m \in 1..Len(plan[d]) : FrameAt(d, m) \in FrameNames
  BY DEF PathInv, Cut
<1>1. /\ buf \in Seq({Payload(g) : g \in FrameNames})
      /\ \A i \in DOMAIN buf : \E d \in Conns : \E m \in 1..Len(plan[d]) :
           buf[i] = Payload(FrameAt(d, m))
      /\ \A i, j \in DOMAIN buf : buf[i] = buf[j] => i = j
      /\ \A d \in Conns : \A m \in 1..Len(plan[d]) : Assembled(FrameAt(d, m))
  BY DEF PathInv, Assembly, IsInjective
<1>2. f \in FrameNames /\ Payload(f) \in {Payload(g) : g \in FrameNames}
  BY <1>p
<1>3. /\ buf' \in Seq({Payload(g) : g \in FrameNames}) /\ Len(buf) \in Nat
      /\ DOMAIN buf = 1..Len(buf) /\ DOMAIN buf' = 1..(Len(buf) + 1)
      /\ \A i \in 1..Len(buf) : buf'[i] = buf[i]
      /\ buf'[Len(buf) + 1] = Payload(f)
  BY <1>1, <1>2, AppendProperties, LenProperties
<1>4. \A i \in DOMAIN buf' : i \in DOMAIN buf \/ i = Len(buf) + 1
  BY <1>3
<1>5. \A i \in DOMAIN buf : buf[i] # Payload(f)
  BY <1>1 DEF Assembled
<1>6. \A i \in DOMAIN buf' : \E d \in Conns : \E m \in 1..Len(plan[d]) :
        buf'[i] = Payload(FrameAt(d, m))
  <2> SUFFICES ASSUME NEW i \in DOMAIN buf'
               PROVE  \E d \in Conns : \E m \in 1..Len(plan[d]) : buf'[i] = Payload(FrameAt(d, m))
    OBVIOUS
  <2>1. CASE i \in DOMAIN buf
    BY <2>1, <1>1, <1>3
  <2>2. CASE i = Len(buf) + 1
    BY <2>2, <1>3
  <2>3. QED
    BY <2>1, <2>2, <1>4
<1>7. \A i, j \in DOMAIN buf' : buf'[i] = buf'[j] => i = j
  BY <1>1, <1>3, <1>4, <1>5
<1>8. ASSUME NEW d \in Conns, NEW m \in 1..Len(plan[d]), NEW g, g = FrameAt(d, m)
      PROVE  Assembled(g)'
  <2>1. CASE g = f
    <3>1. Len(buf) + 1 \in DOMAIN buf' /\ buf'[Len(buf) + 1] = Payload(g)
      BY <2>1, <1>3
    <3>2. QED
      BY <2>1, <3>1 DEF Assembled
  <2>2. CASE g # f
    <3>1. Payload(g) # Payload(f)
      BY <2>2, <1>p, <1>8, PayloadNames
    <3>2. (\E i \in DOMAIN buf' : buf'[i] = Payload(g)) <=> (\E i \in DOMAIN buf : buf[i] = Payload(g))
      BY <3>1, <1>3, <1>4
    <3>3. Arrived(g) <=> \E i \in DOMAIN buf : buf[i] = Payload(g)
      BY <1>1, <1>8 DEF Assembled
    <3>4. Arrived(g)' <=> Arrived(g)
      BY <1>8, <2>2
    <3>5. Arrived(g)' <=> \E i \in DOMAIN buf' : buf'[i] = Payload(g)
      BY <3>2, <3>3, <3>4
    <3>6. QED
      BY <3>5 DEF Assembled
  <2>3. QED
    BY <2>1, <2>2
<1>9. QED
  BY <1>3, <1>6, <1>7, <1>8

\* What processing a piece of frame f does, before the ids wrap: the frame is
\* appended with its last piece, the piece joins the frame's buffer otherwise.
LEMMA ConsumeEffect ==
  ASSUME PathInv, Consume, next_seq <= Word, NEW c \in Conns, NEW n \in 1..Len(plan[c]),
         NEW f, f = FrameAt(c, n), Piece(rx[consumed + 1]) = plan[c][n],
         <<c, n>> \notin Seen, Seen' = Seen \cup {<<c, n>>}
  PROVE  /\ Arrived(f)' => buf' = Append(buf, Payload(f))
         /\ ~Arrived(f)' => buf' = buf /\ Fragmented(f)
         /\ ~Fragmented(f) => pending' = pending
         /\ Fragmented(f) /\ Arrived(f)' => pending' = Without(SeqAt(c, n))
         /\ Fragmented(f) /\ ~Arrived(f)' =>
              pending' = Insert(pending, SeqAt(c, n),
                                [total |-> f.size, got |-> [j \in SeenOf(f)' |-> Payload(f)[j + 1]]])
<1> DEFINE p == plan[c][n]
<1>1. IF p.total > 0 THEN ProcessFragment(p)
      ELSE buf' = Append(buf, p.payload) /\ UNCHANGED pending
  BY DEF Consume
<1>2. PICK k : k = n - f.no
  OBVIOUS
<1>3. /\ f \in FrameNames /\ f.conn = c /\ k \in 0..(Parts(f) - 1)
      /\ SeenOf(f)' = SeenOf(f) \cup {k} /\ k \notin SeenOf(f) /\ ~Arrived(f)
      /\ Fragmented(f) => p = Fragment(f, SeqAt(c, n), k + 1, f.size)
      /\ ~Fragmented(f) => p = Whole(f) /\ Arrived(f)'
  BY <1>2, SeenOne
<1> HIDE DEF p
<1>4. CASE ~Fragmented(f)
  <2>1. p.total = 0 /\ p.payload = Payload(f)
    BY <1>3, <1>4, PieceFields
  <2>2. buf' = Append(buf, Payload(f)) /\ pending' = pending
    BY <1>1, <2>1
  <2>3. QED
    BY <2>2, <1>3, <1>4
<1>5. CASE Fragmented(f)
  <2> DEFINE S == SeenOf(f) \cup {k}
             got == [j \in S |-> Payload(f)[j + 1]]
             b == [total |-> f.size, got |-> got]
  <2>1. Parts(f) = f.size /\ f.size \in Nat /\ f.size > 0
    BY <1>3, <1>5, PieceFields
  <2>2. Buffered(f, SeqAt(c, n))
    BY <1>5 DEF PathInv, Assembly
  <2>3. Added(p) = b
    <3>1. k \in 0..(f.size - 1)
      BY <1>3, <2>1
    <3>2. PICK s : s = SeqAt(c, n)
      OBVIOUS
    <3>3. f \in FrameNames /\ ~Arrived(f) /\ k \notin SeenOf(f) /\ Buffered(f, s)
      BY <1>3, <2>2, <3>2
    <3>4. Added(Fragment(f, s, k + 1, f.size))
            = [total |-> f.size, got |-> [j \in SeenOf(f) \cup {k} |-> Payload(f)[j + 1]]]
      BY <1>5, <3>1, <3>3, AddedChunk, ZenonT(40)
    <3>5. QED
      BY <1>3, <1>5, <3>2, <3>4
  <2>4. p.seq = SeqAt(c, n) /\ p.total > 0
    <3>1. k + 1 \in 1..f.size
      BY <1>3, <2>1
    <3>2. QED
      BY <3>1, <1>3, <1>5, <2>1, PieceFields
  <2>5. IF Cardinality(DOMAIN Added(p).got) = Added(p).total
        THEN /\ buf' = Append(buf, Reassemble(Added(p)))
             /\ pending' = Without(p.seq)
        ELSE /\ pending' = Insert(pending, p.seq, Added(p))
             /\ buf' = buf
    BY <1>1, <2>4 DEF ProcessFragment
  <2>6. DOMAIN b.got = S /\ b.total = f.size
    OBVIOUS
  <2>7. S \in SUBSET (0..(f.size - 1))
    BY <1>3, <2>1 DEF SeenOf
  <2>8. Cardinality(S) = f.size <=> S = 0..(f.size - 1)
    BY <2>7, <1>3, <1>5, CompleteBuffer
  <2>9. Arrived(f)' <=> S = 0..(f.size - 1)
    <3>1. Arrived(f)' <=> SeenOf(f)' = 0..(Parts(f) - 1)
      BY DEF Arrived
    <3>2. QED
      BY <3>1, <1>3, <2>1
  <2>10. S = 0..(f.size - 1) => Reassemble(b) = Payload(f)
    BY <1>3, <1>5, <2>7, CompleteBuffer
  <2>11. b = [total |-> f.size, got |-> [j \in SeenOf(f)' |-> Payload(f)[j + 1]]]
    BY <1>3
  <2> HIDE DEF b, S
  <2>12. CASE Arrived(f)'
    BY <2>12, <2>3, <2>4, <2>5, <2>6, <2>8, <2>9, <2>10, <1>5
  <2>13. CASE ~Arrived(f)'
    BY <2>13, <2>3, <2>4, <2>5, <2>6, <2>8, <2>9, <2>11, <1>5
  <2>14. QED
    BY <2>12, <2>13
<1>6. QED
  BY <1>4, <1>5

\* Processing a piece changes the buffer of its frame and no other.
LEMMA BuffersStep ==
  ASSUME PathInv, next_seq <= Word, UNCHANGED plan,
         NEW c \in Conns, NEW n \in 1..Len(plan[c]), NEW f, f = FrameAt(c, n),
         SeenOf(f)' # {},
         ~Fragmented(f) => pending' = pending,
         Fragmented(f) /\ Arrived(f)' => pending' = Without(SeqAt(c, n)),
         Fragmented(f) /\ ~Arrived(f)' =>
           pending' = Insert(pending, SeqAt(c, n),
                             [total |-> f.size, got |-> [j \in SeenOf(f)' |-> Payload(f)[j + 1]]]),
         \A d \in Conns : \A m \in 1..Len(plan[d]) : \A g :
           g = FrameAt(d, m) /\ g # f => SeenOf(g)' = SeenOf(g) /\ (Arrived(g)' <=> Arrived(g))
  PROVE  /\ \A t \in DOMAIN pending' : \E d \in Conns : \E m \in 1..Len(plan[d]) :
              Fragmented(FrameAt(d, m)) /\ SeqAt(d, m) = t
         /\ \A d \in Conns : \A m \in 1..Len(plan[d]) : \A g, t :
              g = FrameAt(d, m) /\ t = SeqAt(d, m) /\ Fragmented(g) => Buffered(g, t)'
<1>1. /\ \A t \in DOMAIN pending : \E d \in Conns : \E m \in 1..Len(plan[d]) :
           Fragmented(FrameAt(d, m)) /\ SeqAt(d, m) = t
      /\ \A d \in Conns : \A m \in 1..Len(plan[d]) :
           Fragmented(FrameAt(d, m)) => Buffered(FrameAt(d, m), SeqAt(d, m))
  BY DEF PathInv, Assembly
<1>2. PICK s : s = SeqAt(c, n)
  OBVIOUS
<1>3. PICK b : b = [total |-> f.size, got |-> [j \in SeenOf(f)' |-> Payload(f)[j + 1]]]
  OBVIOUS
<1>4. Fragmented(f) /\ Arrived(f)' =>
        DOMAIN pending' = DOMAIN pending \ {s} /\ \A t \in DOMAIN pending' : pending'[t] = pending[t]
  BY <1>2 DEF Without
<1>5. Fragmented(f) /\ ~Arrived(f)' =>
        /\ DOMAIN pending' = DOMAIN pending \cup {s} /\ pending'[s] = b
        /\ \A t \in DOMAIN pending : t # s => pending'[t] = pending[t]
  BY <1>2, <1>3 DEF Insert
<1>6. ASSUME NEW t \in DOMAIN pending'
      PROVE  \E d \in Conns : \E m \in 1..Len(plan[d]) :
               Fragmented(FrameAt(d, m)) /\ SeqAt(d, m) = t
  <2>1. t \in DOMAIN pending \/ (Fragmented(f) /\ t = s)
    BY <1>4, <1>5, <1>6
  <2>2. QED
    BY <2>1, <1>1, <1>2
<1>7. ASSUME NEW d \in Conns, NEW m \in 1..Len(plan[d]), NEW g, NEW t,
             g = FrameAt(d, m), t = SeqAt(d, m), Fragmented(g)
      PROVE  Buffered(g, t)'
  <2>0. SUFFICES /\ t \in DOMAIN pending' <=> SeenOf(g)' # {} /\ ~Arrived(g)'
                 /\ t \in DOMAIN pending' =>
                      pending'[t] = [total |-> g.size,
                                     got |-> [k \in SeenOf(g)' |-> Payload(g)[k + 1]]]
    BY DEF Buffered
  <2>1. CASE g = f
    <3>1. t = s
      <4>1. Fragmented(FrameAt(c, n)) /\ Fragmented(FrameAt(d, m)) /\ FrameAt(c, n) = FrameAt(d, m)
        BY <2>1, <1>7
      <4>2. SeqAt(c, n) = SeqAt(d, m)
        BY <4>1, IdsOfFrames
      <4>3. QED
        BY <4>2, <1>2, <1>7
    <3>2. t \in DOMAIN pending' <=> ~Arrived(f)'
      BY <2>1, <3>1, <1>4, <1>5, <1>7
    <3>3. t \in DOMAIN pending' => pending'[t] = b
      BY <2>1, <3>1, <3>2, <1>5, <1>7
    <3>4. QED
      BY <2>1, <3>2, <3>3, <1>3
  <2>2. CASE g # f
    <3>1. SeenOf(g)' = SeenOf(g) /\ (Arrived(g)' <=> Arrived(g))
      BY <2>2, <1>7
    <3>2. /\ t \in DOMAIN pending <=> SeenOf(g) # {} /\ ~Arrived(g)
          /\ t \in DOMAIN pending =>
               pending[t] = [total |-> g.size, got |-> [k \in SeenOf(g) |-> Payload(g)[k + 1]]]
      BY <1>1, <1>7 DEF Buffered
    <3>3. Fragmented(f) => t # s
      <4>1. Fragmented(FrameAt(c, n)) => SeqAt(c, n) # SeqAt(d, m)
        BY <2>2, <1>7, IdsOfFrames
      <4>2. QED
        BY <4>1, <1>2, <1>7
    <3>4. (t \in DOMAIN pending' <=> t \in DOMAIN pending)
          /\ (t \in DOMAIN pending => pending'[t] = pending[t])
      BY <3>3, <1>4, <1>5
    <3>5. QED
      BY <3>1, <3>2, <3>4
  <2>3. QED
    BY <2>1, <2>2
<1>8. QED
  BY <1>6, <1>7

\* The run loop processes a piece.
LEMMA ConsumeStep ==
  ASSUME PathInv, Consume
  PROVE  PathInv'
<1>1. /\ UNCHANGED <<vars, plan, next_seq, fate, ended, wire>>
      /\ consumed' \in 0..Len(rx)
  BY ConsumePlace
<1>2. rx' = rx /\ arrived' = arrived
  BY <1>1 DEF vars
<1>3. \A d, m : FrameAt(d, m)' = FrameAt(d, m) /\ SeqAt(d, m)' = SeqAt(d, m)
  BY <1>1 DEF FrameAt, SeqAt
<1>4. HandoverInv'
  BY <1>1, HandoverStep DEF PathInv
<1>5. PathTypes'
  BY <1>1, <1>2 DEF PathInv, PathTypes
<1>6. Carried'
  BY <1>1, <1>2 DEF PathInv, Carried
<1>7. OwnIds'
  BY <1>1, <1>3 DEF PathInv, OwnIds
<1>8. \A d \in Conns : \A m \in 1..Len(plan'[d]) : Cut(d, m)'
  BY <1>1, <1>3 DEF PathInv, Cut
<1>9. ASSUME next_seq <= Word PROVE Assembly'
  <2>1. PICK c \in Conns : \E n \in 1..Len(plan[c]) :
          /\ Piece(rx[consumed + 1]) = plan[c][n]
          /\ <<c, n>> \notin Seen /\ Seen' = Seen \cup {<<c, n>>}
    BY ConsumePlace
  <2>2. PICK n \in 1..Len(plan[c]) :
          /\ Piece(rx[consumed + 1]) = plan[c][n]
          /\ <<c, n>> \notin Seen /\ Seen' = Seen \cup {<<c, n>>}
    BY <2>1
  <2>3. PICK f : f = FrameAt(c, n)
    OBVIOUS
  <2>4. PICK k : k = n - f.no
    OBVIOUS
  <2>5. /\ SeenOf(f)' = SeenOf(f) \cup {k} /\ ~Arrived(f)
        /\ \A d \in Conns : \A m \in 1..Len(plan[d]) : \A g :
             g = FrameAt(d, m) /\ g # f => SeenOf(g)' = SeenOf(g) /\ (Arrived(g)' <=> Arrived(g))
    BY <2>2, <2>3, <2>4, SeenOne
  <2>6. /\ Arrived(f)' => buf' = Append(buf, Payload(f))
        /\ ~Arrived(f)' => buf' = buf /\ Fragmented(f)
        /\ ~Fragmented(f) => pending' = pending
        /\ Fragmented(f) /\ Arrived(f)' => pending' = Without(SeqAt(c, n))
        /\ Fragmented(f) /\ ~Arrived(f)' =>
             pending' = Insert(pending, SeqAt(c, n),
                               [total |-> f.size, got |-> [j \in SeenOf(f)' |-> Payload(f)[j + 1]]])
    BY <1>9, <2>2, <2>3, ConsumeEffect
  <2>7. SeenOf(f)' # {}
    BY <2>5
  <2>8. /\ \A t \in DOMAIN pending' : \E d \in Conns : \E m \in 1..Len(plan[d]) :
             Fragmented(FrameAt(d, m)) /\ SeqAt(d, m) = t
        /\ \A d \in Conns : \A m \in 1..Len(plan[d]) : \A g, t :
             g = FrameAt(d, m) /\ t = SeqAt(d, m) /\ Fragmented(g) => Buffered(g, t)'
    <3>1. plan' = plan
      BY <1>1
    <3>2. \A d \in Conns : \A m \in 1..Len(plan[d]) : \A g :
            g = FrameAt(d, m) /\ g # f => SeenOf(g)' = SeenOf(g) /\ (Arrived(g)' <=> Arrived(g))
      BY <2>5
    <3>3. /\ ~Fragmented(f) => pending' = pending
          /\ Fragmented(f) /\ Arrived(f)' => pending' = Without(SeqAt(c, n))
          /\ Fragmented(f) /\ ~Arrived(f)' =>
               pending' = Insert(pending, SeqAt(c, n),
                                 [total |-> f.size, got |-> [j \in SeenOf(f)' |-> Payload(f)[j + 1]]])
      BY <2>6
    <3>4. QED
      BY <1>9, <2>3, <2>7, <3>1, <3>2, <3>3, BuffersStep, SMTT(40)
  <2> DEFINE Appended ==
               /\ buf' \in Seq({Payload(g) : g \in FrameNames})
               /\ \A i \in DOMAIN buf' : \E d \in Conns : \E m \in 1..Len(plan[d]) :
                    buf'[i] = Payload(FrameAt(d, m))
               /\ \A i, j \in DOMAIN buf' : buf'[i] = buf'[j] => i = j
               /\ \A d \in Conns : \A m \in 1..Len(plan[d]) : \A g :
                    g = FrameAt(d, m) => Assembled(g)'
  <2>9. Appended
    <3>1. CASE Arrived(f)'
      BY <3>1, <1>1, <1>9, <2>3, <2>5, <2>6, AppendFrame
    <3>2. CASE ~Arrived(f)'
      <4>1. buf' = buf
        BY <3>2, <2>6
      <4>2. /\ buf \in Seq({Payload(g) : g \in FrameNames})
            /\ \A i \in DOMAIN buf : \E d \in Conns : \E m \in 1..Len(plan[d]) :
                 buf[i] = Payload(FrameAt(d, m))
            /\ \A i, j \in DOMAIN buf : buf[i] = buf[j] => i = j
            /\ \A d \in Conns : \A m \in 1..Len(plan[d]) : Assembled(FrameAt(d, m))
        BY <1>9 DEF PathInv, Assembly, IsInjective
      <4>3. ASSUME NEW d \in Conns, NEW m \in 1..Len(plan[d]), NEW g, g = FrameAt(d, m)
            PROVE  Assembled(g)'
        <5>1. Arrived(g)' <=> Arrived(g)
          BY <4>3, <3>2, <2>5
        <5>2. Assembled(g)
          BY <4>2, <4>3
        <5>3. QED
          BY <4>1, <5>1, <5>2 DEF Assembled
      <4>4. QED
        BY <4>1, <4>2, <4>3
    <3>3. QED
      BY <3>1, <3>2
  <2>10. IsInjective(buf)'
    BY <2>9 DEF IsInjective
  <2>11. ASSUME NEW d \in Conns, NEW m \in 1..Len(plan[d])
         PROVE  /\ Assembled(FrameAt(d, m))'
                /\ Fragmented(FrameAt(d, m))' => Buffered(FrameAt(d, m), SeqAt(d, m))'
    <3>1. PICK g : g = FrameAt(d, m)
      OBVIOUS
    <3>2. PICK t : t = SeqAt(d, m)
      OBVIOUS
    <3>3. Assembled(g)' /\ (Fragmented(g) => Buffered(g, t)')
      BY <3>1, <3>2, <2>8, <2>9
    <3>4. FrameAt(d, m)' = g /\ SeqAt(d, m)' = t
      BY <3>1, <3>2, <1>3
    <3>5. QED
      BY <3>3, <3>4
  <2>12. QED
    BY <1>1, <1>3, <2>8, <2>9, <2>10, <2>11 DEF Assembly
<1>10. Assembly'
  <2>1. next_seq' = next_seq
    BY <1>1
  <2>2. ~(next_seq <= Word) => Assembly'
    BY <2>1 DEF Assembly
  <2>3. QED
    BY <1>9, <2>2
<1>11. QED
  BY <1>4, <1>5, <1>6, <1>7, <1>8, <1>10 DEF PathInv

-----------------------------------------------------------------------------
\* The invariant of the path.

LEMMA PathInvInit == PathInit => PathInv
<1> SUFFICES ASSUME PathInit PROVE PathInv
  OBVIOUS
<1>1. /\ plan = [c \in Conns |-> << >>] /\ next_seq = 0 /\ wire = << >> /\ consumed = 0
      /\ pending = << >> /\ buf = << >> /\ fate = [f \in Senders!Frames |-> "unread"]
  BY DEF PathInit, Senders!Init
<1>2. \A c \in Conns : plan[c] = << >> /\ Len(plan[c]) = 0 /\ 1..Len(plan[c]) = {}
  BY <1>1
<1>3. HandoverInv /\ arrived = 0 /\ rx = << >>
  BY HandoverInit DEF PathInit, Init
<1>4. PathTypes
  <2>1. \A S : << >> \in Seq(S)
    OBVIOUS
  <2>2. plan \in [Conns -> Seq(AllPieces)]
    BY <1>1, <2>1
  <2>3. \A c \in Conns : Len(plan[c]) <= Quota[c]
    BY <1>2, PathAssumption
  <2>4. QED
    BY <1>1, <1>3, <2>1, <2>2, <2>3 DEF PathTypes
<1>5. DOMAIN wire = {} /\ DOMAIN buf = {} /\ DOMAIN pending = {}
  BY <1>1
<1>6. Carried
  BY <1>1, <1>3, <1>5 DEF Carried, IsInjective, Senders!Frames
<1>7. OwnIds
  BY <1>2 DEF OwnIds
<1>8. Assembly
  <2>1. buf \in Seq({Payload(f) : f \in FrameNames})
    BY <1>1
  <2>2. IsInjective(buf)
    BY <1>5 DEF IsInjective
  <2>3. QED
    BY <1>2, <1>5, <2>1, <2>2 DEF Assembly
<1>9. QED
  BY <1>2, <1>3, <1>4, <1>6, <1>7, <1>8 DEF PathInv

LEMMA PathInvStep == PathInv /\ [PathNext]_pathVars => PathInv'
<1> SUFFICES ASSUME PathInv, [PathNext]_pathVars PROVE PathInv'
  OBVIOUS
<1>1. CASE UNCHANGED pathVars
  <2>1. UNCHANGED <<vars, plan, next_seq, fate, wire, consumed, pending, buf>>
    BY <1>1 DEF pathVars, senderVars, transportVars, receiverVars
  <2>2. rx' = rx /\ arrived' = arrived
    BY <2>1 DEF vars
  <2>3. HandoverInv'
    BY <2>1, HandoverStep DEF PathInv
  <2>4. PathTypes'
    BY <2>1, <2>2 DEF PathInv, PathTypes
  <2>5. Carried'
    BY <2>1, <2>2 DEF PathInv, Carried
  <2>6. Seen' = Seen
    BY <2>1, <2>2, SeenKept
  <2>7. QED
    BY <2>1, <2>3, <2>4, <2>5, <2>6, FramesKept DEF PathInv
<1>2. QED
  BY <1>1, HandOverStep, ProduceStep, TransportStep, ReceiveStep, ConsumeStep DEF PathNext

\* The frames the senders have planned, as the properties name them.
LEMMA PlannedFrames ==
  ASSUME PathInv
  PROVE  /\ \A c \in Conns : \A n \in 1..Len(plan[c]) :
              plan[c][n] \in Pieces /\ FrameAt(c, n) \in Frames
         /\ \A p \in Pieces : \E c \in Conns : \E n \in 1..Len(plan[c]) : p = plan[c][n]
<1>1. \A c \in Conns : DOMAIN plan[c] = 1..Len(plan[c])
  BY LenProperties DEF PathInv, PathTypes
<1>2. ASSUME NEW c \in Conns, NEW n \in 1..Len(plan[c])
      PROVE  plan[c][n] \in Pieces /\ FrameAt(c, n) \in Frames
  <2>1. plan[c][n] \in ToSet(plan[c])
    BY <1>1 DEF ToSet
  <2>2. plan[c][n] \in Pieces
    BY <2>1, Zenon DEF Pieces
  <2>3. QED
    BY <2>2 DEF Frames, FrameAt
<1>3. ASSUME NEW p \in Pieces
      PROVE  \E c \in Conns : \E n \in 1..Len(plan[c]) : p = plan[c][n]
  <2>1. PICK c \in Conns : p \in ToSet(plan[c])
    BY <1>3, Zenon DEF Pieces
  <2>2. QED
    BY <1>1, <2>1 DEF ToSet
<1>4. QED
  BY <1>2, <1>3

\* A frame all of whose pieces have been processed has been processed whole.
LEMMA ConsumedArrived ==
  ASSUME PathInv, NEW c \in Conns, NEW n \in 1..Len(plan[c]),
         NEW f, f = FrameAt(c, n), FragmentsOf(f) \subseteq Consumed
  PROVE  Arrived(f)
<1>p. plan \in [Conns -> Seq(AllPieces)] /\ \A d \in Conns : \A m \in 1..Len(plan[d]) : Cut(d, m)
  BY DEF PathInv, PathTypes
<1>1. /\ f \in FrameNames /\ f.conn = c
      /\ \A k \in 0..(Parts(f) - 1) :
           /\ f.no + k \in 1..Len(plan[c]) /\ FrameAt(c, f.no + k) = f
           /\ Fragmented(f) => plan[c][f.no + k] = Fragment(f, SeqAt(c, n), k + 1, f.size)
           /\ ~Fragmented(f) => k = 0
  BY <1>p, PlacesOfFrame
<1>2. Parts(f) \in Nat \ {0} /\ f.no \in Nat /\ (Fragmented(f) => Parts(f) = f.size)
  BY <1>1, PieceFields
<1>3. ASSUME NEW k \in 0..(Parts(f) - 1) PROVE <<f.conn, f.no + k>> \in Seen
  <2>1. plan[c][f.no + k] \in FragmentsOf(f)
    BY <1>1, PlannedFrames DEF FragmentsOf, FrameAt
  <2>2. PICK i \in 1..consumed : plan[c][f.no + k] = Piece(rx[i])
    BY <2>1 DEF Consumed
  <2>3. i \in 1..Len(rx) /\ rx[i] \in 1..Len(wire)
    BY SeenPlanned
  <2>4. PICK d \in Conns : \E m \in 1..Len(plan[d]) : wire[rx[i]] = <<d, m>>
    BY <2>3, SeenPlanned
  <2>5. PICK m \in 1..Len(plan[d]) : wire[rx[i]] = <<d, m>>
    BY <2>4
  <2>6. <<d, m>> \in Seen /\ plan[d][m] = plan[c][f.no + k]
    BY <2>2, <2>5 DEF Seen, Piece
  <2>7. FrameAt(d, m) = f
    BY <2>6, <1>1 DEF FrameAt
  <2>8. d = c /\ m - f.no \in 0..(Parts(f) - 1) /\ m = f.no + (m - f.no)
    <3>1. Cut(d, m)
      BY <1>p
    <3>2. f.conn = d /\ m - f.no \in 0..(Parts(f) - 1) /\ m = f.no + (m - f.no)
      BY <2>7, <3>1, <1>p, PlacesOfFrame, SMTT(30)
    <3>3. QED
      BY <1>1, <3>2
  <2>9. PICK l \in 0..(Parts(f) - 1) : m = f.no + l
    BY <2>8
  <2>10. l = k
    <3>1. CASE Fragmented(f)
      <4>1. Fragment(f, SeqAt(c, n), l + 1, f.size) = Fragment(f, SeqAt(c, n), k + 1, f.size)
        BY <3>1, <1>1, <2>6, <2>8, <2>9
      <4>2. l + 1 - 1 = k + 1 - 1
        BY <4>1 DEF Fragment
      <4>3. QED
        BY <4>2
    <3>2. CASE ~Fragmented(f)
      BY <3>2, <1>1
    <3>3. QED
      BY <3>1, <3>2
  <2>11. QED
    BY <2>6, <2>8, <2>9, <2>10, <1>1
<1>4. QED
  BY <1>3 DEF Arrived, SeenOf

-----------------------------------------------------------------------------
\* The theorems.

\* The handover keeps its variables in their types.
THEOREM TypeCorrect == Spec => []TypeOK
<1>1. HandoverInv => TypeOK
  BY DEF HandoverInv
<1>2. QED
  BY <1>1, HandoverInit, HandoverStep, PTL DEF Spec

\* Whatever the transport, the senders and the run loop do, the handover of the
\* receiving side takes the steps of EarlyMessages and no other: what is proved
\* of it alone holds of the whole path.
THEOREM PathRunsHandover == PathSpec => Spec
<1>1. PathInit => Init
  BY DEF PathInit
<1>2. [PathNext]_pathVars => [Next]_vars
  <2> SUFFICES ASSUME [PathNext]_pathVars PROVE [Next]_vars
    OBVIOUS
  <2>1. ASSUME NEW c \in Conns, HandOver(c) PROVE UNCHANGED vars
    BY <2>1 DEF HandOver
  <2>2. ASSUME NEW c \in Conns, NEW size \in Sizes, Produce(c, size) PROVE UNCHANGED vars
    BY <2>2 DEF Produce
  <2>3. CASE Transport
    BY <2>3 DEF Transport
  <2>4. CASE Receive
    BY <2>4 DEF Receive
  <2>5. CASE Consume
    BY <2>5 DEF Consume
  <2>6. CASE UNCHANGED pathVars
    BY <2>6 DEF pathVars
  <2>7. QED
    BY <2>1, <2>2, <2>3, <2>4, <2>5, <2>6 DEF PathNext
<1>3. QED
  BY <1>1, <1>2, PTL DEF PathSpec, Spec

\* The messages the early handler buffered reach the channel in arrival order,
\* and so do those its own handler takes, at whatever point of the setup the
\* handler is replaced, the flag is cleared and the buffer is drained.
THEOREM CapturedInOrder == PathSpec => []StreamsInOrder
<1>1. HandoverInv => StreamsInOrder
  BY DEF HandoverInv
<1>2. QED
  BY <1>1, HandoverInit, HandoverStep, PathRunsHandover, PTL DEF Spec

\* The handover of setup_channel_for_data_channel loses at most one message,
\* however many arrive while it runs.
THEOREM LossBounded == PathSpec => []LosesAtMostOne
<1>1. OneToLose => LosesAtMostOne
  <2> SUFFICES ASSUME OneToLose PROVE Cardinality(Missing) <= 1
    BY DEF LosesAtMostOne
  <2>1. PICK m \in Int : Missing \subseteq {m}
    BY DEF OneToLose
  <2>2. Missing = {} \/ Missing = {m}
    BY <2>1
  <2>3. Cardinality({}) = 0 /\ Cardinality({m}) = 1
    BY FS_EmptySet, FS_Singleton
  <2>4. QED
    BY <2>2, <2>3
<1>2. QED
  BY <1>1, HandoverInit, HandoverStep, OneToLoseInit, OneToLoseStep, PathRunsHandover, PTL
     DEF Spec

\* Whatever the senders and the handover do to the pieces, process_fragment
\* appends whole frames and none twice, until the ids of STANDALONE_SEQ_ID wrap.
THEOREM FramesWhole == PathSpec => []FramesIntact
<1>1. ASSUME PathInv PROVE FramesIntact
  <2> SUFFICES ASSUME next_seq <= Word
               PROVE  /\ \A i \in DOMAIN buf : \E f \in Frames : buf[i] = Payload(f)
                      /\ IsInjective(buf)
    BY DEF FramesIntact
  <2>1. IsInjective(buf) /\ \A i \in DOMAIN buf : \E c \in Conns : \E n \in 1..Len(plan[c]) :
          buf[i] = Payload(FrameAt(c, n))
    BY <1>1 DEF PathInv, Assembly
  <2>2. \A c \in Conns : \A n \in 1..Len(plan[c]) : FrameAt(c, n) \in Frames
    BY <1>1, PlannedFrames
  <2>3. QED
    BY <2>1, <2>2
<1>2. QED
  BY <1>1, PathInvInit, PathInvStep, PTL DEF PathSpec

\* The loss of a piece costs no frame but its own: a frame whose pieces have all
\* been processed is appended, and pending_fragments keeps nothing of it.
THEOREM CompleteArrives == PathSpec => []CompleteDelivered
<1>1. ASSUME PathInv PROVE CompleteDelivered
  <2> SUFFICES ASSUME next_seq <= Word, NEW f \in Frames, FragmentsOf(f) \subseteq Consumed
               PROVE  /\ Payload(f) \in ToSet(buf)
                      /\ \A s \in DOMAIN pending : \A i \in DOMAIN pending[s].got :
                           pending[s].got[i].frame # f
    BY DEF CompleteDelivered
  <2>1. PICK p \in Pieces : f = p.payload[1].frame
    BY DEF Frames
  <2>2. PICK c \in Conns : \E n \in 1..Len(plan[c]) : p = plan[c][n]
    BY <1>1, PlannedFrames
  <2>3. PICK n \in 1..Len(plan[c]) : p = plan[c][n]
    BY <2>2
  <2>4. f = FrameAt(c, n)
    BY <2>1, <2>3 DEF FrameAt
  <2>5. Arrived(f)
    BY <1>1, <2>4, ConsumedArrived
  <2>6. Payload(f) \in ToSet(buf)
    BY <1>1, <2>4, <2>5 DEF PathInv, Assembly, Assembled, ToSet
  <2>7. ASSUME NEW s \in DOMAIN pending, NEW i \in DOMAIN pending[s].got
        PROVE  pending[s].got[i].frame # f
    <3>1. PICK d \in Conns :
            \E m \in 1..Len(plan[d]) : Fragmented(FrameAt(d, m)) /\ SeqAt(d, m) = s
      BY <1>1 DEF PathInv, Assembly
    <3>2. PICK m \in 1..Len(plan[d]) : Fragmented(FrameAt(d, m)) /\ SeqAt(d, m) = s
      BY <3>1
    <3>3. PICK g : g = FrameAt(d, m)
      OBVIOUS
    <3>4. Buffered(g, s) /\ g \in FrameNames
      BY <1>1, <3>2, <3>3 DEF PathInv, Assembly, Cut
    <3>5. pending[s] = [total |-> g.size, got |-> [k \in SeenOf(g) |-> Payload(g)[k + 1]]]
          /\ ~Arrived(g)
      BY <3>4 DEF Buffered
    <3>6. i \in SeenOf(g) /\ pending[s].got[i] = Payload(g)[i + 1]
      BY <3>5
    <3>7. i \in 0..(g.size - 1)
      BY <3>2, <3>3, <3>4, <3>6, PieceFields DEF SeenOf
    <3>8. Payload(g)[i + 1].frame = g
      BY <3>4, <3>7, PieceFields
    <3>9. QED
      BY <2>5, <3>5, <3>6, <3>8
  <2>8. QED
    BY <2>6, <2>7
<1>2. QED
  BY <1>1, PathInvInit, PathInvStep, PTL DEF PathSpec
=============================================================================
