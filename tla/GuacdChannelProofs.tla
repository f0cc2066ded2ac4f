------------------------- MODULE GuacdChannelProofs -------------------------
(***************************************************************************)
(* Proofs about GuacdChannel: its types, the order of what guacd draws, the *)
(* disconnect that precedes the shutdown of the primary connection, and the *)
(* error of the primary session as the channel's result.                    *)
(***************************************************************************)
EXTENDS GuacdChannel, SequenceTheorems, WellFoundedInduction, TLAPS

-----------------------------------------------------------------------------
(* What a stream of frames to the peer looks like.                         *)

Drawn(f) == f.type = "Instruction"

Broken(f) ==
    /\ f.type = "Close"
    /\ f.reason \in {"GuacdError", "ProtocolError", "ConnectionLost"}

\* The instructions among the frames s have the numbers 1, 2, 3 ...
Numbered(s) ==
    /\ \A i, j \in DOMAIN s : i < j /\ Drawn(s[i]) /\ Drawn(s[j]) => s[i].no < s[j].no
    /\ \A i \in DOMAIN s : Drawn(s[i]) =>
         \A n \in 1..s[i].no : \E j \in 1..i : s[j] = Instruction(n)

\* ... and none of them is above n.
UpTo(s, n) == \A i \in DOMAIN s : Drawn(s[i]) => s[i].no <= n

\* The first n instructions are among them.
All(s, n) == \A k \in 1..n : \E i \in DOMAIN s : s[i] = Instruction(k)

\* Nothing is drawn after the session broke.
Quiet(s) == \A i, j \in DOMAIN s : i < j /\ Broken(s[i]) => ~Drawn(s[j])

Whole(s) == \A i \in DOMAIN s : ~Broken(s[i])

-----------------------------------------------------------------------------
(* The inductive invariant.                                                *)

\* An outbound task has a cause once it stopped reading for one, and the task
\* of a connection that was removed is cancelled.
TaskOrder(c) ==
    /\ task[c] \in {"none", "reading"} => cause[c] = "none"
    /\ task[c] \in {"checked", "announced"} => cause[c] \in {"disconnect", "error", "lost"}
    /\ conns[c] = "absent" => cancel[c] \/ task[c] \in {"none", "done"}
    /\ conns[c] # "absent" => back[c] \in {"running", "dead"}

\* What the peer got of a connection.  A broken one is not read any more.
Stream(c) ==
    /\ Numbered(sent[c])
    /\ UpTo(sent[c], out[c])
    /\ cause[c] = "none" => All(sent[c], out[c])
    /\ Quiet(sent[c])
    /\ Reading(c) => Whole(sent[c])

\* The connection the run task is half way through.
Position ==
    /\ run = "opening" => busy # 0
    /\ run = "closing" => busy = primary /\ primary # 0

SessionInv == TypeOK /\ Position /\ \A c \in Conns : TaskOrder(c) /\ Stream(c)

Live == run \in {"running", "opening", "telling", "closing"}

\* Nothing happens before there is a primary connection, and no clean-up is
\* scheduled for it.
BeforePrimary ==
    primary = 0 =>
      /\ signals = <<>>
      /\ \A c \in Conns : /\ conns[c] = "absent" /\ task[c] = "none"
                          /\ told[c] = <<>> /\ cleanup[c] = 0

\* While the run loop is not left, the primary connection stays registered;
\* its signal means that its task has ended.
Primary ==
    primary # 0 =>
      /\ cleanup[primary] = 0
      /\ Live => /\ task[primary] # "none" => conns[primary] # "absent"
                 /\ \A i \in DOMAIN signals :
                      signals[i] = primary => task[primary] = "done"
      /\ run = "closing" =>
           /\ task[primary] = "done"
           /\ \/ conns[primary] = "absent" \/ back[primary] = "dead"
              \/ \E i \in DOMAIN told[primary] : told[primary][i] = "disconnect"

\* The clean-up knows every connection that is left.
Listed ==
    run = "cleanup" =>
      /\ \A c \in Conns : conns[c] # "absent" => c \in todo
      /\ busy = 0 \/ busy # primary

Reported == IsCritical(reason) \/ reason = "ConnectionLost"

\* The error of a primary session whose task has looked at the reason is
\* stored, until the run loop is left with the primary still to be closed.
ErrorStored ==
    closeReq = "no" =>
      /\ Live => reason \notin {"AdminClosed", "Normal"}
      /\ (Live /\ primary # 0 /\ cause[primary] = "error"
            /\ task[primary] \in {"draining", "eofSent", "done"}) => Reported
      /\ (run = "cleanup" /\ primary # 0 /\ cause[primary] = "error"
            /\ primary \notin todo) => Reported

PrimaryInv ==
    BeforePrimary /\ Primary /\ Listed /\ ErrorStored /\ DisconnectFirst

-----------------------------------------------------------------------------
(* Frames and streams.                                                     *)

\* The frames the channel sends are frames, and only instructions of guacd
\* are drawn.
LEMMA FrameKinds ==
    /\ Opened \in Frames /\ ~Drawn(Opened) /\ ~Broken(Opened)
    /\ Eof \in Frames /\ ~Drawn(Eof) /\ ~Broken(Eof)
    /\ \A r \in {"Normal", "ConnectionFailed", "ConnectionLost", "GuacdError",
                 "ProtocolError"} :
         /\ Close(r) \in Frames /\ ~Drawn(Close(r))
         /\ r \in {"Normal", "ConnectionFailed"} => ~Broken(Close(r))
    /\ \A o \in {"log", "disconnect", "error"} :
         Ending(o) \in Frames /\ ~Drawn(Ending(o)) /\ ~Broken(Ending(o))
    /\ \A n \in Nat : /\ Instruction(n) \in Frames /\ Instruction(n).no = n
                      /\ Drawn(Instruction(n)) /\ ~Broken(Instruction(n))
BY DEF Frames, Opened, Eof, Close, Ending, Instruction, Drawn, Broken

\* Where the elements of a concatenation come from.
LEMMA Concatenated ==
    ASSUME NEW s \in Seq(Frames), NEW t \in Seq(Frames)
    PROVE  /\ s \o t \in Seq(Frames)
           /\ Len(s) \in Nat
           /\ DOMAIN s = 1..Len(s) /\ DOMAIN t = 1..Len(t)
           /\ \A i \in DOMAIN s : i \in DOMAIN (s \o t) /\ (s \o t)[i] = s[i]
           /\ \A i \in DOMAIN t : /\ Len(s) + i \in DOMAIN (s \o t)
                                  /\ (s \o t)[Len(s) + i] = t[i]
           /\ \A i \in DOMAIN (s \o t) :
                /\ i \in Nat \ {0}
                /\ \/ i \in DOMAIN s /\ i <= Len(s) /\ (s \o t)[i] = s[i]
                   \/ /\ i > Len(s) /\ i - Len(s) \in DOMAIN t
                      /\ (s \o t)[i] = t[i - Len(s)]
OBVIOUS

\* Frames that draw nothing, at the end of a stream.
LEMMA OtherFrames ==
    ASSUME NEW s \in Seq(Frames), NEW t \in Seq(Frames), NEW n \in Nat,
           \A i \in DOMAIN t : ~Drawn(t[i])
    PROVE  /\ Numbered(s) => Numbered(s \o t)
           /\ UpTo(s, n) => UpTo(s \o t, n)
           /\ All(s, n) => All(s \o t, n)
           /\ Quiet(s) => Quiet(s \o t)
           /\ Whole(s) /\ Whole(t) => Whole(s \o t)
<1>1. /\ Len(s) \in Nat /\ DOMAIN s = 1..Len(s)
      /\ \A i \in DOMAIN s : i \in DOMAIN (s \o t) /\ (s \o t)[i] = s[i]
      /\ \A i \in DOMAIN (s \o t) :
           /\ i \in Nat \ {0}
           /\ \/ i \in DOMAIN s /\ i <= Len(s) /\ (s \o t)[i] = s[i]
              \/ /\ i > Len(s) /\ i - Len(s) \in DOMAIN t
                 /\ (s \o t)[i] = t[i - Len(s)]
  BY Concatenated
<1> DEFINE u == s \o t
<1>2. /\ \A i \in DOMAIN s : i \in DOMAIN u /\ u[i] = s[i]
      /\ \A i \in DOMAIN u : /\ i \in Nat \ {0}
                             /\ Drawn(u[i]) => i \in DOMAIN s /\ u[i] = s[i]
                             /\ \/ i \in DOMAIN s /\ u[i] = s[i]
                                \/ i > Len(s) /\ i - Len(s) \in DOMAIN t /\ u[i] = t[i - Len(s)]
  BY <1>1
<1> HIDE DEF u
<1>3. Numbered(s) => Numbered(u)
  <2> SUFFICES ASSUME Numbered(s) PROVE Numbered(u)
    OBVIOUS
  <2>1. \A i, j \in DOMAIN u : i < j /\ Drawn(u[i]) /\ Drawn(u[j]) => u[i].no < u[j].no
    BY <1>2 DEF Numbered
  <2>2. ASSUME NEW i \in DOMAIN u, Drawn(u[i]), NEW k \in 1..u[i].no
        PROVE  \E j \in 1..i : u[j] = Instruction(k)
    <3>1. i \in DOMAIN s /\ u[i] = s[i]
      BY <2>2, <1>2
    <3>2. PICK j \in 1..i : s[j] = Instruction(k)
      BY <3>1, <2>2 DEF Numbered
    <3>3. j \in DOMAIN s
      BY <3>1, <1>1
    <3> QED
      BY <3>2, <3>3, <1>2
  <2> QED
    BY <2>1, <2>2 DEF Numbered
<1>4. UpTo(s, n) => UpTo(u, n)
  BY <1>2 DEF UpTo
<1>5. All(s, n) => All(u, n)
  BY <1>2 DEF All
<1>6. Quiet(s) => Quiet(u)
  <2> SUFFICES ASSUME Quiet(s), NEW i \in DOMAIN u, NEW j \in DOMAIN u,
                      i < j, Broken(u[i])
               PROVE  ~Drawn(u[j])
    BY DEF Quiet
  <2>1. CASE j \in DOMAIN s /\ u[j] = s[j]
    <3>1. i \in DOMAIN s /\ u[i] = s[i]
      BY <2>1, <1>1, <1>2
    <3> QED
      BY <2>1, <3>1 DEF Quiet
  <2>2. CASE ~(j \in DOMAIN s /\ u[j] = s[j])
    BY <2>2, <1>2
  <2> QED
    BY <2>1, <2>2
<1>7. Whole(s) /\ Whole(t) => Whole(u)
  BY <1>2 DEF Whole
<1> QED
  BY <1>3, <1>4, <1>5, <1>6, <1>7 DEF u

\* The next m instructions, at the end of a stream that has the first n.
LEMMA MoreInstructions ==
    ASSUME NEW s \in Seq(Frames), NEW n \in Nat, NEW m \in Nat, NEW t \in Seq(Frames),
           DOMAIN t = 1..m, \A i \in 1..m : t[i] = Instruction(n + i),
           Numbered(s), UpTo(s, n), All(s, n), Whole(s)
    PROVE  /\ Numbered(s \o t) /\ UpTo(s \o t, n + m) /\ All(s \o t, n + m)
           /\ Whole(s \o t) /\ Quiet(s \o t)
<1>1. /\ Len(s) \in Nat /\ DOMAIN s = 1..Len(s)
      /\ \A i \in DOMAIN s : i \in DOMAIN (s \o t) /\ (s \o t)[i] = s[i]
      /\ \A i \in DOMAIN t : /\ Len(s) + i \in DOMAIN (s \o t)
                             /\ (s \o t)[Len(s) + i] = t[i]
      /\ \A i \in DOMAIN (s \o t) :
           /\ i \in Nat \ {0}
           /\ \/ i \in DOMAIN s /\ i <= Len(s) /\ (s \o t)[i] = s[i]
              \/ /\ i > Len(s) /\ i - Len(s) \in DOMAIN t
                 /\ (s \o t)[i] = t[i - Len(s)]
  BY Concatenated
<1> DEFINE u == s \o t
<1>2. PICK l \in Nat : l = Len(s)
  BY <1>1
<1>3. /\ DOMAIN s = 1..l
      /\ \A i \in 1..l : i \in DOMAIN u /\ u[i] = s[i]
      /\ \A i \in 1..m : l + i \in DOMAIN u /\ u[l + i] = Instruction(n + i)
      /\ \A i \in DOMAIN u : i \in Nat \ {0}
      /\ \A i \in DOMAIN u : \/ i \in 1..l /\ u[i] = s[i]
                             \/ i > l /\ i - l \in 1..m /\ u[i] = Instruction(n + (i - l))
  BY <1>1, <1>2
<1>4. \A k \in Nat : /\ Instruction(k).no = k /\ Drawn(Instruction(k))
                     /\ ~Broken(Instruction(k))
  BY FrameKinds
<1> HIDE DEF u
<1>5. \A i \in DOMAIN u :
        \/ i \in 1..l /\ u[i] = s[i]
        \/ i > l /\ i - l \in 1..m /\ u[i].no = n + (i - l) /\ ~Broken(u[i])
  BY SMTT(30), <1>3, <1>4
<1>6. \A i \in 1..l : Drawn(s[i]) => s[i].no <= n
  BY <1>3 DEF UpTo
<1>7. All(u, n + m)
  <2> SUFFICES ASSUME NEW k \in 1..(n + m)
               PROVE  \E i \in DOMAIN u : u[i] = Instruction(k)
    BY DEF All
  <2>1. CASE k <= n
    <3>1. PICK i \in DOMAIN s : s[i] = Instruction(k)
      BY <2>1 DEF All
    <3> QED
      BY <3>1, <1>3
  <2>2. CASE k > n
    <3>1. k - n \in 1..m /\ n + (k - n) = k
      BY <2>2
    <3>2. l + (k - n) \in DOMAIN u /\ u[l + (k - n)] = Instruction(k)
      BY <3>1, <1>3
    <3> QED
      BY <3>2
  <2> QED
    BY <2>1, <2>2
<1>8. ASSUME NEW i \in DOMAIN u, NEW j \in DOMAIN u, i < j, Drawn(u[i]), Drawn(u[j])
      PROVE  u[i].no < u[j].no
  <2>1. CASE j \in 1..l /\ u[j] = s[j]
    <3>1. i \in 1..l /\ u[i] = s[i]
      BY <2>1, <1>3, <1>8
    <3> QED
      BY <3>1, <2>1, <1>8, <1>3 DEF Numbered
  <2>2. CASE j > l /\ j - l \in 1..m /\ u[j].no = n + (j - l)
    <3>1. CASE i \in 1..l /\ u[i] = s[i]
      <4>1. s[i].no <= n
        BY <3>1, <1>6, <1>8
      <4>2. s[i].no \in Nat
        <5>1. s[i] \in Frames
          BY <3>1, <1>3
        <5> QED
          BY <5>1, <3>1, <1>8 DEF Frames, Drawn
      <4> QED
        BY <4>1, <4>2, <2>2, <3>1
    <3>2. CASE i > l /\ i - l \in 1..m /\ u[i].no = n + (i - l)
      BY <3>2, <2>2, <1>8, <1>3
    <3> QED
      BY <3>1, <3>2, <1>5
  <2> QED
    BY <2>1, <2>2, <1>5
<1>9. ASSUME NEW i \in DOMAIN u, Drawn(u[i]), NEW k \in 1..u[i].no
      PROVE  \E j \in 1..i : u[j] = Instruction(k)
  <2>1. CASE i \in 1..l /\ u[i] = s[i]
    <3>1. PICK j \in 1..i : s[j] = Instruction(k)
      BY <2>1, <1>9, <1>3 DEF Numbered
    <3>2. j \in 1..l
      BY <2>1
    <3> QED
      BY <3>1, <3>2, <1>3
  <2>2. CASE i > l /\ i - l \in 1..m /\ u[i].no = n + (i - l)
    <3>1. CASE k <= n
      <4>1. PICK j \in DOMAIN s : s[j] = Instruction(k)
        BY <3>1, <1>9, <2>2 DEF All
      <4>2. j \in 1..l /\ j \in 1..i
        BY <4>1, <1>3, <2>2
      <4> QED
        BY <4>1, <4>2, <1>3
    <3>2. CASE k > n
      <4>1. k - n \in 1..m /\ n + (k - n) = k /\ l + (k - n) \in 1..i
        BY <3>2, <1>9, <2>2, <1>3
      <4> QED
        BY <4>1, <1>3
    <3> QED
      BY <3>1, <3>2, <1>9, <2>2
  <2> QED
    BY <2>1, <2>2, <1>5
<1>10. UpTo(u, n + m)
  <2> SUFFICES ASSUME NEW i \in DOMAIN u, Drawn(u[i]) PROVE u[i].no <= n + m
    BY DEF UpTo
  <2>1. CASE i \in 1..l /\ u[i] = s[i]
    <3>1. s[i].no \in Nat
      <4>1. s[i] \in Frames
        BY <2>1, <1>3
      <4> QED
        BY <4>1, <2>1 DEF Frames, Drawn
    <3> QED
      BY <2>1, <1>6, <3>1
  <2>2. CASE i > l /\ i - l \in 1..m /\ u[i].no = n + (i - l)
    BY <2>2
  <2> QED
    BY <2>1, <2>2, <1>5
<1>11. Whole(u)
  BY <1>3, <1>5 DEF Whole
<1>12. Numbered(u) /\ Quiet(u)
  BY <1>8, <1>9, <1>11 DEF Numbered, Quiet, Whole
<1> QED
  BY <1>7, <1>10, <1>11, <1>12 DEF u

\* A step that sends nothing, and makes no task read, keeps every stream.
LEMMA StreamKept ==
    ASSUME \A d \in Conns : Stream(d),
           sent' = sent, out' = out,
           \A d \in Conns : /\ cause'[d] = "none" => cause[d] = "none"
                            /\ Reading(d)' => Reading(d)
    PROVE  \A d \in Conns : Stream(d)'
BY DEF Stream

\* So does one that sends frames which draw nothing on connection c, if it
\* stops the task of c when they say that the session broke.
LEMMA StreamExtended ==
    ASSUME TypeOK, \A d \in Conns : Stream(d),
           NEW c \in Conns, NEW t \in Seq(Frames),
           \A i \in DOMAIN t : ~Drawn(t[i]),
           Send(c, t), out' = out,
           \A d \in Conns : /\ cause'[d] = "none" => cause[d] = "none"
                            /\ Reading(d)' => Reading(d),
           Reading(c)' => Whole(t)
    PROVE  sent' \in [Conns -> Seq(Frames)] /\ \A d \in Conns : Stream(d)'
<1>1. /\ sent \in [Conns -> Seq(Frames)] /\ out \in [Conns -> Nat]
      /\ sent' = [sent EXCEPT ![c] = sent[c] \o t]
  BY DEF TypeOK, Send
<1>2. sent[c] \in Seq(Frames) /\ out[c] \in Nat /\ sent[c] \o t \in Seq(Frames)
  BY <1>1
<1>3. sent' \in [Conns -> Seq(Frames)]
  BY <1>1, <1>2
<1>4. \A d \in Conns : d # c => sent'[d] = sent[d]
  BY <1>1
<1>5. sent'[c] = sent[c] \o t
  BY <1>1
<1>6. ASSUME NEW d \in Conns, d # c PROVE Stream(d)'
  BY <1>4, <1>6 DEF Stream
<1>7. Stream(c)'
  <2>1. /\ Numbered(sent[c]) /\ UpTo(sent[c], out[c]) /\ Quiet(sent[c])
        /\ cause[c] = "none" => All(sent[c], out[c])
        /\ Reading(c) => Whole(sent[c])
    BY DEF Stream
  <2>2. /\ Numbered(sent[c] \o t) /\ UpTo(sent[c] \o t, out[c]) /\ Quiet(sent[c] \o t)
        /\ cause[c] = "none" => All(sent[c] \o t, out[c])
        /\ Reading(c)' => Whole(sent[c] \o t)
    BY <2>1, <1>2, OtherFrames
  <2> QED
    BY <2>2, <1>5 DEF Stream
<1> QED
  BY <1>3, <1>6, <1>7

\* What the outbound task forwards of a read: the instructions that follow
\* the ones it has read before.
LEMMA ForwardedFrames ==
    ASSUME TypeOK, NEW c \in Conns, NEW kinds \in Reads, NEW closed \in BOOLEAN
    PROVE  /\ Len(kinds) \in Nat
           /\ \E m \in 0..Len(kinds) :
                /\ ~closed => m = Len(kinds)
                /\ Forwarded(c, kinds, closed) \in Seq(Frames)
                /\ DOMAIN Forwarded(c, kinds, closed) = 1..m
                /\ \A i \in 1..m :
                     Forwarded(c, kinds, closed)[i] = Instruction(out[c] + i)
<1>1. kinds \in Seq({"draw", "sync"})
  BY GuacdChannelAssumption
<1>2. Len(kinds) \in Nat /\ DOMAIN kinds = 1..Len(kinds)
  BY <1>1
<1>3. LastSync(kinds) \in 0..Len(kinds)
  <2> DEFINE syncs == {i \in DOMAIN kinds : kinds[i] = "sync"}
  <2>1. CASE syncs = {}
    BY <2>1, <1>2 DEF LastSync
  <2>2. CASE syncs # {}
    <3>1. syncs \subseteq 1..Len(kinds)
      BY <1>2
    <3>2. \E i \in syncs : \A j \in syncs : j <= i
      <4> DEFINE below == {k \in Nat : \A j \in syncs : j <= k}
      <4>1. Len(kinds) \in below
        BY <3>1, <1>2
      <4>2. PICK k \in below : \A x \in below : ~(<<x, k>> \in OpToRel(<, Nat))
        BY <4>1, NatLessThanWellFounded, WFMin
      <4>3. \A x \in below : ~(x < k)
        BY <4>2 DEF OpToRel
      <4>4. k \in syncs
        <5> SUFFICES ASSUME k \notin syncs PROVE FALSE
          OBVIOUS
        <5>1. \A j \in syncs : j < k
          BY <3>1
        <5>2. k > 0
          BY <5>1, <3>1, <2>2
        <5>3. k - 1 \in below
          BY <5>1, <5>2, <3>1
        <5> QED
          BY <5>3, <4>3
      <4> QED
        BY <4>4
    <3>3. LastSync(kinds) \in syncs
      BY <2>2, <3>2 DEF LastSync
    <3> QED
      BY <3>1, <3>3
  <2> QED
    BY <2>1, <2>2
<1>4. PICK m \in 0..Len(kinds) : m = IF closed THEN LastSync(kinds) ELSE Len(kinds)
  <2>1. CASE closed
    BY <2>1, <1>3
  <2>2. CASE ~closed
    <3>1. Len(kinds) \in 0..Len(kinds)
      BY <1>2
    <3> QED
      BY <2>2, <3>1
  <2> QED
    BY <2>1, <2>2
<1>5. out[c] \in Nat
  BY DEF TypeOK
<1>6. Forwarded(c, kinds, closed) = [i \in 1..m |-> Instruction(out[c] + i)]
  BY <1>4 DEF Forwarded
<1>7. \A i \in 1..m : Instruction(out[c] + i) \in Frames
  BY <1>4, <1>5, FrameKinds
<1>8. Forwarded(c, kinds, closed) \in Seq(Frames)
  BY <1>4, <1>6, <1>7
<1> QED
  BY <1>2, <1>4, <1>6, <1>8

-----------------------------------------------------------------------------
(* The steps the handlers share.                                           *)

LEMMA ConnNumbers == 0 \notin Conns /\ Conns \subseteq Nat
BY GuacdChannelAssumption DEF Conns

EntryTypes ==
    /\ conns \in [Conns -> {"absent", "ACTIVE", "CLOSING"}]
    /\ cancel \in [Conns -> BOOLEAN]
    /\ back \in [Conns -> {"none", "running", "dead", "done"}]
    /\ told \in [Conns -> Seq({"disconnect", "eof", "fin"})]

\* An entry changes so that its task order is kept: an entry that goes has its
\* task cancelled, one that stays has a backend task.
EntryMoves ==
    \A d \in Conns :
      /\ cancel[d] => cancel'[d]
      /\ conns'[d] = "absent" => conns[d] = "absent" \/ cancel'[d]
      /\ conns'[d] # "absent" =>
           conns[d] # "absent" /\ (back'[d] = back[d] \/ back'[d] = "dead")

LEMMA RemoveConnMoves ==
    ASSUME EntryTypes, NEW c \in Conns, RemoveConn(c)
    PROVE  /\ EntryTypes' /\ EntryMoves
           /\ conns'[c] = "absent"
           /\ \A d \in Conns : d # c => /\ conns'[d] = conns[d] /\ told'[d] = told[d]
                                        /\ back'[d] = back[d]
<1>1. CASE conns[c] = "absent"
  BY <1>1 DEF RemoveConn, EntryTypes, EntryMoves
<1>2. CASE conns[c] # "absent"
  <2>1. /\ conns' = [conns EXCEPT ![c] = "absent"]
        /\ cancel' = [cancel EXCEPT ![c] = TRUE]
        /\ back' = [back EXCEPT ![c] = "done"]
        /\ told' = [told EXCEPT ![c] = IF back[c] = "dead" THEN told[c]
                                       ELSE Append(told[c], "fin")]
    BY <1>2 DEF RemoveConn
  <2>2. told[c] \in Seq({"disconnect", "eof", "fin"})
    BY DEF EntryTypes
  <2>3. (IF back[c] = "dead" THEN told[c] ELSE Append(told[c], "fin"))
          \in Seq({"disconnect", "eof", "fin"})
    BY <2>2
  <2>4. told' \in [Conns -> Seq({"disconnect", "eof", "fin"})]
    BY <2>1, <2>3 DEF EntryTypes
  <2>5. cancel' \in [Conns -> BOOLEAN]
    BY <2>1 DEF EntryTypes
  <2>6. EntryTypes'
    BY <2>1, <2>4, <2>5 DEF EntryTypes
  <2>7. cancel'[c] /\ \A d \in Conns : d # c => cancel'[d] = cancel[d]
    BY <2>1 DEF EntryTypes
  <2>8. EntryMoves
    BY <2>1, <2>7 DEF EntryTypes, EntryMoves
  <2> QED
    BY <2>1, <2>6, <2>8 DEF EntryTypes
<1> QED
  BY <1>1, <1>2

LEMMA MarkClosingMoves ==
    ASSUME EntryTypes, NEW c \in Conns, MarkClosing(c)
    PROVE  /\ conns' \in [Conns -> {"absent", "ACTIVE", "CLOSING"}]
           /\ \A d \in Conns : (conns'[d] = "absent") <=> (conns[d] = "absent")
BY DEF EntryTypes, MarkClosing

LEMMA DelayedCloseMoves ==
    ASSUME EntryTypes, NEW c \in Conns, DelayedClose(c), UNCHANGED <<back, told>>,
           cleanup \in [Conns -> Nat]
    PROVE  /\ EntryTypes' /\ EntryMoves /\ cleanup' \in [Conns -> Nat]
           /\ \A d \in Conns : (conns'[d] = "absent") <=> (conns[d] = "absent")
           /\ conns[c] # "absent" => cancel'[c]
<1>1. cancel' = [cancel EXCEPT ![c] = cancel[c] \/ conns[c] # "absent"]
  BY DEF DelayedClose
<1>2. (cancel[c] \/ conns[c] # "absent") \in BOOLEAN
  OBVIOUS
<1>3. cancel' \in [Conns -> BOOLEAN]
  BY <1>1, <1>2 DEF EntryTypes
<1>4. /\ cancel'[c] = (cancel[c] \/ conns[c] # "absent")
      /\ \A d \in Conns : d # c => cancel'[d] = cancel[d]
  BY <1>1 DEF EntryTypes
<1>5. /\ conns' \in [Conns -> {"absent", "ACTIVE", "CLOSING"}]
      /\ \A d \in Conns : (conns'[d] = "absent") <=> (conns[d] = "absent")
  BY MarkClosingMoves DEF DelayedClose
<1>6. EntryTypes'
  BY <1>3, <1>5 DEF EntryTypes
<1>7. EntryMoves
  BY <1>4, <1>5 DEF EntryMoves
<1>8. cleanup' \in [Conns -> Nat]
  BY DEF DelayedClose
<1> QED
  BY <1>4, <1>5, <1>6, <1>7, <1>8

LEMMA WriteMoves ==
    ASSUME EntryTypes, NEW c \in Conns, NEW what \in Seq({"disconnect", "eof", "fin"}),
           Write(c, what), conns' = conns, cancel' = cancel
    PROVE  /\ EntryTypes' /\ EntryMoves
           /\ \A d \in Conns : d # c => told'[d] = told[d]
           /\ \/ told'[c] = told[c] \o what
              \/ /\ told'[c] = told[c]
                 /\ conns[c] = "absent" \/ back'[c] = "dead" \/ back[c] \notin {"running"}
<1> DEFINE live == conns[c] # "absent" /\ back[c] = "running"
<1>1. /\ told' = [told EXCEPT ![c] = IF live /\ guacd[c] # "gone" THEN told[c] \o what
                                     ELSE told[c]]
      /\ back' = [back EXCEPT ![c] = IF live /\ guacd[c] = "gone" THEN "dead" ELSE back[c]]
  BY DEF Write
<1>2. told[c] \in Seq({"disconnect", "eof", "fin"})
  BY DEF EntryTypes
<1>3. told[c] \o what \in Seq({"disconnect", "eof", "fin"})
  BY <1>2
<1>4. told' \in [Conns -> Seq({"disconnect", "eof", "fin"})]
  BY <1>1, <1>2, <1>3 DEF EntryTypes
<1>5. back' \in [Conns -> {"none", "running", "dead", "done"}]
  BY <1>1 DEF EntryTypes
<1>6. /\ told'[c] = IF live /\ guacd[c] # "gone" THEN told[c] \o what ELSE told[c]
      /\ back'[c] = IF live /\ guacd[c] = "gone" THEN "dead" ELSE back[c]
      /\ \A d \in Conns : d # c => told'[d] = told[d] /\ back'[d] = back[d]
  BY <1>1 DEF EntryTypes
<1>7. EntryTypes'
  BY <1>4, <1>5 DEF EntryTypes
<1>8. EntryMoves
  BY <1>6 DEF EntryMoves
<1> QED
  BY <1>6, <1>7, <1>8

\* A step of the entries alone keeps the order of the tasks.
LEMMA TaskOrderKept ==
    ASSUME \A d \in Conns : TaskOrder(d), EntryMoves, task' = task, cause' = cause
    PROVE  \A d \in Conns : TaskOrder(d)'
BY DEF TaskOrder, EntryMoves

-----------------------------------------------------------------------------
(* The steps and the streams.                                              *)

LoopTypes ==
    /\ run \in {"running", "opening", "telling", "closing", "hung", "cleanup",
                "ended"}
    /\ busy \in {0} \cup Conns /\ primary \in {0} \cup Conns
    /\ todo \subseteq Conns
    /\ reason \in {"none", "AdminClosed", "Normal", "ProtocolError",
                   "ConnectionLost", "GuacdError"}
    /\ result \in {"none", "Ok", "CriticalUpstreamClosed"}
    /\ closeReq \in {"no", "sent", "notified"}
    /\ signals \in Seq(Conns)
    /\ opens \in Nat /\ reads \in Nat /\ closes \in Nat

TaskTypes ==
    /\ cleanup \in [Conns -> Nat]
    /\ task \in [Conns -> {"none", "reading", "checked", "announced", "draining",
                           "eofSent", "done"}]
    /\ cause \in [Conns -> {"none", "disconnect", "error", "garbage", "lost"}]
    /\ guacd \in [Conns -> {"none", "up", "eof", "gone"}]
    /\ out \in [Conns -> Nat]

LEMMA Types ==
    /\ TypeOK <=> LoopTypes /\ EntryTypes /\ TaskTypes /\ sent \in [Conns -> Seq(Frames)]
    /\ TypeOK' <=> LoopTypes' /\ EntryTypes' /\ TaskTypes'
                     /\ (sent \in [Conns -> Seq(Frames)])'
BY DEF TypeOK, LoopTypes, EntryTypes, TaskTypes

\* Steps of the run task, of the clean-ups and of guacd's end that send
\* nothing and leave the outbound tasks where they are.
LEMMA SilentSteps ==
    ASSUME SessionInv,
           \/ ClearPrimary
           \/ CriticalClosure
           \/ LeaveCritical
           \/ IgnoreSignal
           \/ CloseBackendEnds
           \/ End
           \/ CloseChannel
           \/ NotifyRunLoop
           \/ \E c \in Conns : ForwardData(c)
           \/ \E c \in Conns : FailPrimary(c)
           \/ \E c \in Conns : HandleClose(c)
           \/ \E why \in {"Normal", "ProtocolError"} : HandleCloseChannel(why)
           \/ \E c \in Conns : CleanupFires(c)
           \/ \E c \in Conns : NotifyCleanup(c)
           \/ \E c \in Conns, how \in {"eof", "gone"} : GuacdCloses(c, how)
    PROVE  SessionInv'
<1> USE DEF SessionInv
<1>0. LoopTypes /\ EntryTypes /\ TaskTypes /\ sent \in [Conns -> Seq(Frames)]
  BY Types
<1>00. ASSUME LoopTypes', EntryTypes', TaskTypes', Position', EntryMoves,
              sent' = sent, out' = out, cause' = cause, task' = task
       PROVE  SessionInv'
  <2>1. TypeOK'
    BY <1>0, <1>00, Types
  <2>2. \A d \in Conns : Reading(d)' => Reading(d)
    BY <1>00 DEF Reading, EntryMoves
  <2>3. \A d \in Conns : Stream(d)'
    BY <1>00, <2>2, StreamKept
  <2>4. \A d \in Conns : TaskOrder(d)'
    BY <1>00, TaskOrderKept
  <2> QED
    BY <1>00, <2>1, <2>3, <2>4
<1>1. CASE ClearPrimary
  <2>1. EntryTypes' /\ EntryMoves
    BY <1>1, <1>0 DEF EntryTypes, EntryMoves, ClearPrimary, loop, entry, outbound, server, counters
  <2>2. LoopTypes' /\ TaskTypes' /\ Position'
    BY <1>1, <1>0 DEF LoopTypes, TaskTypes, Position, ClearPrimary, Hang, loop, entry, outbound, server, counters
  <2> QED
    BY <1>1, <2>1, <2>2, <1>00 DEF ClearPrimary, loop, entry, outbound, server, counters
<1>2. CASE CriticalClosure
  <2>1. primary \in Conns /\ signals' \in Seq(Conns)
    <3>1. signals \in Seq(Conns) /\ signals # <<>> /\ signals' = Tail(signals)
          /\ Head(signals) = primary
      BY <1>2, <1>0 DEF LoopTypes, CriticalClosure
    <3> QED
      BY <3>1
  <2>2. <<"disconnect", "eof">> \in Seq({"disconnect", "eof", "fin"})
    OBVIOUS
  <2>3. EntryTypes' /\ EntryMoves
    BY <1>2, <1>0, <2>1, <2>2, WriteMoves DEF CriticalClosure
  <2>4. LoopTypes' /\ TaskTypes' /\ Position'
    BY <1>2, <1>0, <2>1, ConnNumbers DEF LoopTypes, TaskTypes, Position, CriticalClosure, loop, entry, outbound, server, counters
  <2> QED
    BY <1>2, <2>3, <2>4, <1>00 DEF CriticalClosure, loop, entry, outbound, server, counters
<1>3. CASE LeaveCritical
  <2>0. busy \in Conns /\ RemoveConn(busy)
    BY <1>3, <1>0 DEF LoopTypes, Position, LeaveCritical
  <2>1. EntryTypes' /\ EntryMoves
    BY <1>0, <2>0, RemoveConnMoves
  <2>2. LoopTypes' /\ TaskTypes' /\ Position'
    BY <1>3, <1>0 DEF LoopTypes, TaskTypes, Position, LeaveCritical, LeaveLoop, loop, entry, outbound, server, counters
  <2> QED
    BY <1>3, <2>1, <2>2, <1>00 DEF LeaveCritical, loop, entry, outbound, server, counters
<1>4. CASE IgnoreSignal
  <2>1. EntryTypes' /\ EntryMoves
    BY <1>4, <1>0 DEF EntryTypes, EntryMoves, IgnoreSignal, loop, entry, outbound, server, counters
  <2>2. LoopTypes' /\ TaskTypes' /\ Position'
    BY <1>4, <1>0 DEF LoopTypes, TaskTypes, Position, IgnoreSignal, loop, entry, outbound, server, counters
  <2> QED
    BY <1>4, <2>1, <2>2, <1>00 DEF IgnoreSignal, loop, entry, outbound, server, counters
<1>5. CASE CloseBackendEnds
  <2>0. busy \in Conns /\ RemoveConn(busy)
    BY <1>5, <1>0 DEF LoopTypes, Position, CloseBackendEnds
  <2>1. EntryTypes' /\ EntryMoves
    BY <1>0, <2>0, RemoveConnMoves
  <2>2. LoopTypes' /\ TaskTypes' /\ Position'
    BY <1>5, <1>0 DEF LoopTypes, TaskTypes, Position, CloseBackendEnds, loop, entry, outbound, server, counters
  <2> QED
    BY <1>5, <2>1, <2>2, <1>00 DEF CloseBackendEnds, loop, entry, outbound, server, counters
<1>6. CASE End
  <2>1. EntryTypes' /\ EntryMoves
    BY <1>6, <1>0 DEF EntryTypes, EntryMoves, End, loop, entry, outbound, server, counters
  <2>2. LoopTypes' /\ TaskTypes' /\ Position'
    BY <1>6, <1>0 DEF LoopTypes, TaskTypes, Position, End, loop, entry, outbound, server, counters
  <2> QED
    BY <1>6, <2>1, <2>2, <1>00 DEF End, loop, entry, outbound, server, counters
<1>7. CASE CloseChannel
  <2>1. EntryTypes' /\ EntryMoves
    BY <1>7, <1>0 DEF EntryTypes, EntryMoves, CloseChannel, loop, entry, outbound, server, counters
  <2>2. LoopTypes' /\ TaskTypes' /\ Position'
    BY <1>7, <1>0 DEF LoopTypes, TaskTypes, Position, CloseChannel, Closing, loop, entry, outbound, server, counters
  <2> QED
    BY <1>7, <2>1, <2>2, <1>00 DEF CloseChannel, loop, entry, outbound, server, counters
<1>8. CASE NotifyRunLoop
  <2>1. EntryTypes' /\ EntryMoves
    BY <1>8, <1>0 DEF EntryTypes, EntryMoves, NotifyRunLoop, loop, entry, outbound, server, counters
  <2>2. LoopTypes' /\ TaskTypes' /\ Position'
    BY <1>8, <1>0 DEF LoopTypes, TaskTypes, Position, NotifyRunLoop, LeaveLoop, loop, entry, outbound, server, counters
  <2> QED
    BY <1>8, <2>1, <2>2, <1>00 DEF NotifyRunLoop, loop, entry, outbound, server, counters
<1>9. ASSUME NEW c \in Conns, ForwardData(c) PROVE SessionInv'
  <2>0. <<>> \in Seq({"disconnect", "eof", "fin"})
    OBVIOUS
  <2>1. EntryTypes' /\ EntryMoves
    BY <1>9, <1>0, <2>0, WriteMoves DEF ForwardData
  <2>2. LoopTypes' /\ TaskTypes' /\ Position'
    BY <1>9, <1>0 DEF LoopTypes, TaskTypes, Position, ForwardData, loop, entry, outbound, server, counters
  <2> QED
    BY <1>9, <2>1, <2>2, <1>00 DEF ForwardData, loop, entry, outbound, server, counters
<1>10. ASSUME NEW c \in Conns, FailPrimary(c) PROVE SessionInv'
  <2>1. EntryTypes' /\ EntryMoves
    BY <1>10, <1>0, MarkClosingMoves DEF FailPrimary, EntryTypes, EntryMoves
  <2>2. LoopTypes' /\ TaskTypes' /\ Position'
    BY <1>10, <1>0 DEF LoopTypes, TaskTypes, Position, FailPrimary, Message, Closing, Hang, loop, entry, outbound, server, counters
  <2> QED
    BY <1>10, <2>1, <2>2, <1>00 DEF FailPrimary, loop, entry, outbound, server, counters
<1>11. ASSUME NEW c \in Conns, HandleClose(c) PROVE SessionInv'
  <2>0. CASE RemoveConn(c) /\ UNCHANGED cleanup
    <3>1. EntryTypes' /\ EntryMoves
      BY <1>0, <2>0, RemoveConnMoves
    <3>2. LoopTypes' /\ TaskTypes' /\ Position'
      BY <1>11, <1>0, <2>0 DEF LoopTypes, TaskTypes, Position, HandleClose, Message, Closing, loop, entry, outbound, server, counters
    <3> QED
      BY <1>11, <3>1, <3>2, <1>00 DEF HandleClose, loop, entry, outbound, server, counters
  <2>1. CASE DelayedClose(c) /\ UNCHANGED <<back, told>>
    <3>1. EntryTypes' /\ EntryMoves /\ cleanup' \in [Conns -> Nat]
      BY <1>0, <2>1, DelayedCloseMoves DEF TaskTypes
    <3>2. LoopTypes' /\ TaskTypes' /\ Position'
      BY <1>11, <1>0, <3>1 DEF LoopTypes, TaskTypes, Position, HandleClose, Message, Closing, loop, entry, outbound, server, counters
    <3> QED
      BY <1>11, <3>1, <3>2, <1>00 DEF HandleClose, loop, entry, outbound, server, counters
  <2> QED
    BY <1>11, <2>0, <2>1 DEF HandleClose
<1>12. ASSUME NEW why \in {"Normal", "ProtocolError"}, HandleCloseChannel(why) PROVE SessionInv'
  <2>1. EntryTypes' /\ EntryMoves
    BY <1>12, <1>0 DEF EntryTypes, EntryMoves, HandleCloseChannel, loop, entry, outbound, server, counters
  <2>2. LoopTypes' /\ TaskTypes' /\ Position'
    BY <1>12, <1>0 DEF LoopTypes, TaskTypes, Position, HandleCloseChannel, Message, Closing, LeaveLoop, loop, entry, outbound, server, counters
  <2> QED
    BY <1>12, <2>1, <2>2, <1>00 DEF HandleCloseChannel, loop, entry, outbound, server, counters
<1>13. ASSUME NEW c \in Conns, CleanupFires(c) PROVE SessionInv'
  <2>1. EntryTypes' /\ EntryMoves
    BY <1>13, <1>0, RemoveConnMoves DEF CleanupFires
  <2>2. LoopTypes' /\ TaskTypes' /\ Position'
    BY <1>13, <1>0 DEF LoopTypes, TaskTypes, Position, CleanupFires, loop, entry, outbound, server, counters
  <2> QED
    BY <1>13, <2>1, <2>2, <1>00 DEF CleanupFires, loop, entry, outbound, server, counters
<1>14. ASSUME NEW c \in Conns, NotifyCleanup(c) PROVE SessionInv'
  <2>1. EntryTypes' /\ EntryMoves
    BY <1>14, <1>0 DEF EntryTypes, EntryMoves, NotifyCleanup, loop, entry, outbound, server, counters
  <2>2. LoopTypes' /\ TaskTypes' /\ Position'
    BY <1>14, <1>0 DEF LoopTypes, TaskTypes, Position, NotifyCleanup, loop, entry, outbound, server, counters
  <2> QED
    BY <1>14, <2>1, <2>2, <1>00 DEF NotifyCleanup, loop, entry, outbound, server, counters
<1>15. ASSUME NEW c \in Conns, NEW how \in {"eof", "gone"}, GuacdCloses(c, how) PROVE SessionInv'
  <2>1. EntryTypes' /\ EntryMoves
    BY <1>15, <1>0 DEF EntryTypes, EntryMoves, GuacdCloses, loop, entry, outbound, server, counters
  <2>2. LoopTypes' /\ TaskTypes' /\ Position'
    BY <1>15, <1>0 DEF LoopTypes, TaskTypes, Position, GuacdCloses, loop, entry, outbound, server, counters
  <2> QED
    BY <1>15, <2>1, <2>2, <1>00 DEF GuacdCloses, loop, entry, outbound, server, counters
<1> QED
  BY <1>1, <1>2, <1>3, <1>4, <1>5, <1>6, <1>7, <1>8, <1>9, <1>10, <1>11, <1>12, <1>13, <1>14, <1>15

\* A step that sends frames which draw nothing.
LEMMA SpokenStep ==
    ASSUME SessionInv, LoopTypes', EntryTypes', TaskTypes', Position',
           \A d \in Conns : TaskOrder(d)',
           NEW c \in Conns, NEW t \in Seq(Frames),
           \A i \in DOMAIN t : ~Drawn(t[i]),
           Send(c, t), out' = out,
           \A d \in Conns : /\ cause'[d] = "none" => cause[d] = "none"
                            /\ Reading(d)' => Reading(d),
           Reading(c)' => Whole(t)
    PROVE  SessionInv'
<1>1. sent' \in [Conns -> Seq(Frames)] /\ \A d \in Conns : Stream(d)'
  BY StreamExtended DEF SessionInv
<1>2. TypeOK'
  BY <1>1, Types
<1> QED
  BY <1>1, <1>2 DEF SessionInv

\* Sequences of one or two frames that draw nothing.
LEMMA FewFrames ==
    ASSUME NEW f \in Frames, ~Drawn(f), NEW g \in Frames, ~Drawn(g)
    PROVE  /\ <<f>> \in Seq(Frames) /\ \A i \in DOMAIN <<f>> : ~Drawn(<<f>>[i])
           /\ ~Broken(f) => Whole(<<f>>)
           /\ <<f, g>> \in Seq(Frames) /\ \A i \in DOMAIN <<f, g>> : ~Drawn(<<f, g>>[i])
           /\ ~Broken(f) /\ ~Broken(g) => Whole(<<f, g>>)
<1>1. <<f>> \in Seq(Frames) /\ \A i \in DOMAIN <<f>> : <<f>>[i] = f
  OBVIOUS
<1>2. <<f, g>> \in Seq(Frames) /\ \A i \in DOMAIN <<f, g>> : <<f, g>>[i] \in {f, g}
  OBVIOUS
<1> QED
  BY <1>1, <1>2 DEF Whole

\* Steps of the run task that tell the peer something.
LEMMA RunTaskSpeaks ==
    ASSUME SessionInv,
           \/ SendOpened
           \/ \E c \in Conns : \/ CloseBackend(c) \/ OpenExisting(c) \/ OpenFails(c)
                               \/ ForwardToDead(c) \/ ClosePrimary(c)
    PROVE  SessionInv'
<1> USE DEF SessionInv
<1>0. LoopTypes /\ EntryTypes /\ TaskTypes /\ sent \in [Conns -> Seq(Frames)]
  BY Types
<1>00. ASSUME LoopTypes', EntryTypes', TaskTypes', Position', EntryMoves,
              NEW c \in Conns, NEW t \in Seq(Frames),
              \A i \in DOMAIN t : ~Drawn(t[i]),
              Send(c, t), out' = out, cause' = cause, task' = task,
              Reading(c)' => Whole(t)
       PROVE  SessionInv'
  <2>1. \A d \in Conns : Reading(d)' => Reading(d)
    BY <1>00 DEF Reading, EntryMoves
  <2>2. \A d \in Conns : TaskOrder(d)'
    BY <1>00, TaskOrderKept
  <2> QED
    BY <1>00, <2>1, <2>2, SpokenStep
<1>1. CASE SendOpened
  <2>1. busy \in Conns /\ Send(busy, <<Opened>>)
    BY <1>1, <1>0 DEF LoopTypes, Position, SendOpened
  <2>2. /\ <<Opened>> \in Seq(Frames) /\ Whole(<<Opened>>)
        /\ \A i \in DOMAIN <<Opened>> : ~Drawn(<<Opened>>[i])
    BY FrameKinds, FewFrames
  <2>3. EntryTypes' /\ EntryMoves
    BY <1>1, <1>0 DEF EntryTypes, EntryMoves, SendOpened, entry
  <2>4. LoopTypes' /\ TaskTypes' /\ Position'
    BY <1>1, <1>0 DEF LoopTypes, TaskTypes, Position, SendOpened, loop, entry, outbound, server, counters
  <2> QED
    BY <1>1, <2>1, <2>2, <2>3, <2>4, <1>00 DEF SendOpened, loop, entry, outbound, server, counters
<1>2. ASSUME NEW c \in Conns, CloseBackend(c) PROVE SessionInv'
  <2>1. EntryTypes' /\ EntryMoves
    BY <1>2, <1>0, MarkClosingMoves DEF CloseBackend, EntryTypes, EntryMoves
  <2>2. LoopTypes' /\ TaskTypes' /\ Position'
    BY <1>2, <1>0 DEF LoopTypes, TaskTypes, Position, CloseBackend, Hang, loop, entry, outbound, server, counters
  <2>3. PICK t \in {<<>>, <<Close("Normal")>>} : Send(c, t)
    <3>1. CASE c = primary
      <4>1. sent' = sent /\ sent[c] \o <<>> = sent[c]
        BY <1>2, <1>0, <3>1 DEF CloseBackend
      <4>2. Send(c, <<>>)
        BY <4>1, <1>0 DEF Send
      <4> QED
        BY <4>2
    <3>2. CASE c # primary
      BY <1>2, <3>2 DEF CloseBackend
    <3> QED
      BY <3>1, <3>2
  <2>4. t \in Seq(Frames) /\ Whole(t) /\ \A i \in DOMAIN t : ~Drawn(t[i])
    <3>1. CASE t = <<>>
      BY <3>1 DEF Whole
    <3>2. CASE t = <<Close("Normal")>>
      BY <3>2, FrameKinds, FewFrames
    <3> QED
      BY <3>1, <3>2
  <2> QED
    BY <1>2, <2>1, <2>2, <2>3, <2>4, <1>00 DEF CloseBackend, loop, entry, outbound, server, counters
<1>3. ASSUME NEW c \in Conns, OpenExisting(c) PROVE SessionInv'
  <2>1. EntryTypes' /\ EntryMoves
    BY <1>3, <1>0 DEF EntryTypes, EntryMoves, OpenExisting, entry
  <2>2. LoopTypes' /\ TaskTypes' /\ Position'
    BY <1>3, <1>0 DEF LoopTypes, TaskTypes, Position, OpenExisting, Open, loop, entry, outbound, server, counters
  <2>3. PICK f \in {Opened, Close("ConnectionFailed")} : Send(c, <<f>>)
    BY <1>3 DEF OpenExisting
  <2>4. /\ <<f>> \in Seq(Frames) /\ Whole(<<f>>)
        /\ \A i \in DOMAIN <<f>> : ~Drawn(<<f>>[i])
    BY FrameKinds, FewFrames
  <2> QED
    BY <1>3, <2>1, <2>2, <2>3, <2>4, <1>00 DEF OpenExisting, loop, entry, outbound, server, counters
<1>4. ASSUME NEW c \in Conns, OpenFails(c) PROVE SessionInv'
  <2>1. EntryTypes' /\ EntryMoves
    BY <1>4, <1>0 DEF EntryTypes, EntryMoves, OpenFails, entry
  <2>2. LoopTypes' /\ TaskTypes' /\ Position'
    BY <1>4, <1>0 DEF LoopTypes, TaskTypes, Position, OpenFails, Open, loop, entry, outbound, server, counters
  <2>3. PICK t \in {<<Close("ConnectionFailed")>>,
                    <<Close("GuacdError"), Close("ConnectionFailed")>>} : Send(c, t)
    BY <1>4 DEF OpenFails
  <2>4. t \in Seq(Frames) /\ \A i \in DOMAIN t : ~Drawn(t[i])
    BY ZenonT(60), FrameKinds, FewFrames
  <2>5. ~Reading(c)'
    BY <1>4 DEF OpenFails, Reading, TaskOrder, loop, entry, outbound, server, counters
  <2> QED
    BY <1>4, <2>1, <2>2, <2>3, <2>4, <2>5, <1>00 DEF OpenFails, loop, entry, outbound, server, counters
<1>5. ASSUME NEW c \in Conns, ForwardToDead(c) PROVE SessionInv'
  <2>1. CASE c = primary
    <3>1. EntryTypes' /\ EntryMoves
      BY <1>5, <2>1, <1>0, MarkClosingMoves DEF ForwardToDead, EntryTypes, EntryMoves
    <3>2. LoopTypes' /\ TaskTypes' /\ Position'
      <4>1. /\ run' = "hung" /\ closes' = closes + 1
            /\ UNCHANGED <<busy, todo, primary, reason, result, closeReq, signals, opens,
                           reads, cleanup, task, cause, guacd, out>>
        BY <1>5, <2>1 DEF ForwardToDead, Message, Closing, Hang, outbound, server
      <4> QED
        BY <4>1, <1>0 DEF LoopTypes, TaskTypes, Position
    <3>3. Send(c, <<>>)
      <4>1. sent' = sent /\ sent[c] \o <<>> = sent[c]
        BY <1>5, <1>0, <2>1 DEF ForwardToDead
      <4> QED
        BY <4>1, <1>0 DEF Send
    <3>4. <<>> \in Seq(Frames) /\ Whole(<<>>) /\ \A i \in DOMAIN <<>> : ~Drawn(<<>>[i])
      BY DEF Whole
    <3> QED
      BY <1>5, <3>1, <3>2, <3>3, <3>4, <1>00 DEF ForwardToDead, loop, entry, outbound, server, counters
  <2>2. CASE c # primary
    <3>1. DelayedClose(c) /\ Send(c, <<Close("ConnectionLost")>>) /\ UNCHANGED <<back, told>>
      BY <1>5, <2>2 DEF ForwardToDead
    <3>2. /\ EntryTypes' /\ EntryMoves /\ cleanup' \in [Conns -> Nat]
          /\ cancel'[c]
      BY <1>5, <3>1, <1>0, DelayedCloseMoves DEF ForwardToDead, TaskTypes
    <3>3. LoopTypes' /\ TaskTypes' /\ Position'
      BY <1>5, <2>2, <3>2, <1>0 DEF LoopTypes, TaskTypes, Position, ForwardToDead, Message,
         Closing, loop, entry, outbound, server, counters
    <3>4. ~Reading(c)'
      BY <3>2 DEF Reading
    <3>5. /\ <<Close("ConnectionLost")>> \in Seq(Frames)
          /\ \A i \in DOMAIN <<Close("ConnectionLost")>> :
               ~Drawn(<<Close("ConnectionLost")>>[i])
      BY FrameKinds, FewFrames
    <3> QED
      BY <1>5, <3>1, <3>2, <3>3, <3>4, <3>5, <1>00 DEF ForwardToDead, loop, entry, outbound, server, counters
  <2> QED
    BY <2>1, <2>2
<1>6. ASSUME NEW c \in Conns, ClosePrimary(c) PROVE SessionInv'
  <2>0. <<"disconnect", "eof">> \in Seq({"disconnect", "eof", "fin"})
    OBVIOUS
  <2>1. EntryTypes' /\ EntryMoves
    <3> DEFINE live == conns[c] # "absent" /\ back[c] = "running"
               what == <<"disconnect", "eof">>
    <3>1. /\ told' = [told EXCEPT ![c] = IF live /\ guacd[c] # "gone" THEN told[c] \o what
                                         ELSE told[c]]
          /\ back' = [back EXCEPT ![c] = IF live /\ guacd[c] = "gone" THEN "dead"
                                         ELSE back[c]]
          /\ cancel' = cancel
      BY <1>6 DEF ClosePrimary, Write
    <3>2. told[c] \in Seq({"disconnect", "eof", "fin"})
      BY <1>0 DEF EntryTypes
    <3>3. told[c] \o what \in Seq({"disconnect", "eof", "fin"})
      BY <3>2, <2>0
    <3> HIDE DEF what
    <3>4. told' \in [Conns -> Seq({"disconnect", "eof", "fin"})]
      BY <3>1, <3>2, <3>3, <1>0 DEF EntryTypes
    <3>5. /\ conns' \in [Conns -> {"absent", "ACTIVE", "CLOSING"}]
          /\ \A d \in Conns : (conns'[d] = "absent") <=> (conns[d] = "absent")
      BY <1>6, <1>0, MarkClosingMoves DEF ClosePrimary
    <3> QED
      BY <3>1, <3>4, <3>5, <1>0 DEF EntryTypes, EntryMoves
  <2>2. LoopTypes' /\ TaskTypes' /\ Position'
    BY <1>6, <1>0 DEF LoopTypes, TaskTypes, Position, ClosePrimary, Message, Closing, loop, entry, outbound, server, counters
  <2>3. /\ <<Ending("log"), Ending("disconnect")>> \in Seq(Frames)
        /\ Whole(<<Ending("log"), Ending("disconnect")>>)
        /\ \A i \in DOMAIN <<Ending("log"), Ending("disconnect")>> :
             ~Drawn(<<Ending("log"), Ending("disconnect")>>[i])
    BY FrameKinds, FewFrames
  <2> QED
    BY <1>6, <2>1, <2>2, <2>3, <1>00 DEF ClosePrimary, loop, entry, outbound, server, counters
<1> QED
  BY <1>1, <1>2, <1>3, <1>4, <1>5, <1>6

\* Steps of the outbound tasks other than reads of guacd's data.
LEMMA TaskSteps ==
    ASSUME SessionInv, NEW c \in Conns,
           \/ ReadLost(c) \/ Announce(c) \/ StoreReason(c) \/ DrainedEof(c) \/ Leave(c)
    PROVE  SessionInv'
<1> USE DEF SessionInv
<1>0. LoopTypes /\ EntryTypes /\ TaskTypes /\ sent \in [Conns -> Seq(Frames)]
  BY Types
<1>1. Append(signals, c) \in Seq(Conns)
  BY <1>0 DEF LoopTypes
<1>2. EntryTypes' /\ conns' = conns /\ cancel' = cancel /\ back' = back
  BY <1>0 DEF EntryTypes, ReadLost, Announce, StoreReason, DrainedEof, Leave, entry
<1>00. ASSUME LoopTypes', TaskTypes', Position', NEW t \in Seq(Frames),
              \A d \in Conns : TaskOrder(d)', Send(c, t), out' = out,
              \A i \in DOMAIN t : ~Drawn(t[i]),
              task'[c] # "reading", \A d \in Conns : d # c => task'[d] = task[d],
              \A d \in Conns : cause'[d] = "none" => cause[d] = "none"
       PROVE  SessionInv'
  <2>1. \A d \in Conns : Reading(d)' => Reading(d)
    BY <1>00, <1>2 DEF Reading
  <2>2. ~Reading(c)'
    BY <1>00 DEF Reading
  <2> QED
    BY <1>00, <1>2, <2>1, <2>2, SpokenStep
<1>3. sent' = sent => Send(c, <<>>)
  <2>1. sent[c] \o <<>> = sent[c]
    BY <1>0
  <2> QED
    BY <2>1, <1>0 DEF Send
<1>4. <<>> \in Seq(Frames) /\ \A i \in DOMAIN <<>> : ~Drawn(<<>>[i])
  OBVIOUS
<1>5. CASE ReadLost(c)
  <2>1. /\ task' \in [Conns -> {"none", "reading", "checked", "announced", "draining",
                                "eofSent", "done"}]
        /\ task'[c] \in {"checked", "done"}
        /\ \A d \in Conns : d # c => task'[d] = task[d]
        /\ signals' \in Seq(Conns)
    BY <1>5, <1>0, <1>1 DEF LoopTypes, TaskTypes, ReadLost, Exit
  <2>2. /\ cause' \in [Conns -> {"none", "disconnect", "error", "garbage", "lost"}]
        /\ cause'[c] \in {"error", "lost"}
        /\ \A d \in Conns : d # c => cause'[d] = cause[d]
    BY <1>5, <1>0 DEF TaskTypes, ReadLost
  <2>3. LoopTypes' /\ TaskTypes' /\ Position'
    BY <1>5, <2>1, <2>2, <1>0 DEF LoopTypes, TaskTypes, Position, ReadLost, loop, entry, outbound, server, counters
  <2>4. \A d \in Conns : TaskOrder(d)'
    BY <2>1, <2>2, <1>2, <1>5 DEF TaskOrder, ReadLost
  <2> QED
    BY <1>5, <2>1, <2>2, <2>3, <2>4, <1>3, <1>4, <1>00 DEF ReadLost, loop, entry, outbound, server, counters
<1>6. CASE Announce(c)
  <2>1. LoopTypes' /\ TaskTypes' /\ Position'
    BY <1>6, <1>0 DEF LoopTypes, TaskTypes, Position, Announce, loop, entry, outbound, server, counters
  <2>2. /\ task'[c] = "announced" /\ cause' = cause
        /\ \A d \in Conns : d # c => task'[d] = task[d]
    BY <1>6, <1>0 DEF TaskTypes, Announce
  <2>3. cause[c] \in {"disconnect", "error", "lost"}
    BY <1>6 DEF TaskOrder, Announce
  <2>4. PICK r \in {"Normal", "GuacdError", "ConnectionLost"} : Send(c, <<Close(r)>>)
    BY <1>6, <2>3 DEF Announce
  <2>5. <<Close(r)>> \in Seq(Frames) /\ \A i \in DOMAIN <<Close(r)>> : ~Drawn(<<Close(r)>>[i])
    BY FrameKinds, FewFrames
  <2>6. \A d \in Conns : TaskOrder(d)'
    BY <2>2, <2>3, <1>2, <1>6 DEF TaskOrder, Announce
  <2> QED
    BY <1>6, <2>1, <2>2, <2>4, <2>5, <2>6, <1>00 DEF Announce, loop, entry, outbound, server, counters
<1>7. CASE StoreReason(c)
  <2>1. /\ task' \in [Conns -> {"none", "reading", "checked", "announced", "draining",
                                "eofSent", "done"}]
        /\ task'[c] \in {"draining", "done"} /\ cause' = cause
        /\ \A d \in Conns : d # c => task'[d] = task[d]
        /\ signals' \in Seq(Conns)
    BY <1>7, <1>0, <1>1 DEF LoopTypes, TaskTypes, StoreReason, Exit
  <2>2. LoopTypes' /\ TaskTypes' /\ Position'
    BY <1>7, <2>1, <1>0 DEF LoopTypes, TaskTypes, Position, StoreReason, loop, entry, outbound, server, counters
  <2>3. \A d \in Conns : TaskOrder(d)'
    BY <2>1, <1>2, <1>7 DEF TaskOrder, StoreReason
  <2> QED
    BY <1>7, <2>1, <2>2, <2>3, <1>3, <1>4, <1>00 DEF StoreReason, loop, entry, outbound, server, counters
<1>8. CASE DrainedEof(c)
  <2>1. LoopTypes' /\ TaskTypes' /\ Position'
    BY <1>8, <1>0 DEF LoopTypes, TaskTypes, Position, DrainedEof, loop, entry, outbound, server, counters
  <2>2. /\ task'[c] = "eofSent" /\ cause' = cause
        /\ \A d \in Conns : d # c => task'[d] = task[d]
    BY <1>8, <1>0 DEF TaskTypes, DrainedEof
  <2>3. <<Eof>> \in Seq(Frames) /\ \A i \in DOMAIN <<Eof>> : ~Drawn(<<Eof>>[i])
    BY FrameKinds, FewFrames
  <2>4. \A d \in Conns : TaskOrder(d)'
    BY <2>2, <1>2, <1>8 DEF TaskOrder, DrainedEof
  <2> QED
    BY <1>8, <2>1, <2>2, <2>3, <2>4, <1>00 DEF DrainedEof, loop, entry, outbound, server, counters
<1>9. CASE Leave(c)
  <2>1. /\ task' \in [Conns -> {"none", "reading", "checked", "announced", "draining",
                                "eofSent", "done"}]
        /\ task'[c] = "done" /\ cause' = cause
        /\ \A d \in Conns : d # c => task'[d] = task[d]
        /\ signals' \in Seq(Conns)
    BY <1>9, <1>0, <1>1 DEF LoopTypes, TaskTypes, Leave, Exit
  <2>2. LoopTypes' /\ TaskTypes' /\ Position'
    BY <1>9, <2>1, <1>0 DEF LoopTypes, TaskTypes, Position, Leave, loop, entry, outbound, server, counters
  <2>3. \A d \in Conns : TaskOrder(d)'
    BY <2>1, <1>2, <1>9 DEF TaskOrder, Leave
  <2> QED
    BY <1>9, <2>1, <2>2, <2>3, <1>3, <1>4, <1>00 DEF Leave, loop, entry, outbound, server, counters
<1> QED
  BY <1>5, <1>6, <1>7, <1>8, <1>9

\* Appending one frame to the second of two streams.
LEMMA LastFrame ==
    ASSUME NEW s \in Seq(Frames), NEW t \in Seq(Frames), NEW f \in Frames
    PROVE  /\ (s \o t) \o <<f>> = s \o Append(t, f)
           /\ (s \o t) \o <<f>> \in Seq(Frames)
<1>1. Append(t, f) \in Seq(Frames) /\ <<f>> \in Seq(Frames) /\ s \o t \in Seq(Frames)
  OBVIOUS
<1>2. /\ (s \o t) \o <<f>> \in Seq(Frames) /\ s \o Append(t, f) \in Seq(Frames)
      /\ Len((s \o t) \o <<f>>) = Len(s) + Len(t) + 1
      /\ Len(s \o Append(t, f)) = Len(s) + Len(t) + 1
  BY <1>1
<1>3. ASSUME NEW i \in 1..(Len(s) + Len(t) + 1)
      PROVE  ((s \o t) \o <<f>>)[i] = (s \o Append(t, f))[i]
  <2>1. CASE i <= Len(s)
    BY <2>1, <1>1
  <2>2. CASE i > Len(s) /\ i <= Len(s) + Len(t)
    BY <2>2, <1>1
  <2>3. CASE i = Len(s) + Len(t) + 1
    BY <2>3, <1>1
  <2> QED
    BY <2>1, <2>2, <2>3
<1> QED
  BY <1>2, <1>3, SeqEqual

\* Every session starts with an empty stream.
LEMMA OpenBackendStep ==
    ASSUME SessionInv, NEW c \in Conns, OpenBackend(c)
    PROVE  SessionInv'
<1> USE DEF SessionInv
<1>0. LoopTypes /\ EntryTypes /\ TaskTypes /\ sent \in [Conns -> Seq(Frames)]
  BY Types
<1>1. LoopTypes' /\ Position'
  BY <1>0, ConnNumbers DEF LoopTypes, Position, OpenBackend, Open
<1>2. TaskTypes'
  BY <1>0 DEF TaskTypes, OpenBackend
<1>3. cancel' \in [Conns -> BOOLEAN]
  BY <1>0 DEF EntryTypes, OpenBackend
<1>4. told' \in [Conns -> Seq({"disconnect", "eof", "fin"})]
  BY <1>0 DEF EntryTypes, OpenBackend
<1>5. EntryTypes'
  BY <1>0, <1>3, <1>4 DEF EntryTypes, OpenBackend
<1>6. sent' \in [Conns -> Seq(Frames)]
  BY <1>0 DEF OpenBackend
<1>7. ASSUME NEW d \in Conns PROVE TaskOrder(d)' /\ Stream(d)'
  <2>1. CASE d = c
    <3>1. /\ task'[c] = "reading" /\ cause'[c] = "none" /\ conns'[c] = "ACTIVE"
          /\ back'[c] = "running" /\ sent'[c] = <<>> /\ out'[c] = 0
      BY <1>0 DEF TaskTypes, EntryTypes, OpenBackend
    <3>2. TaskOrder(c)'
      BY <3>1 DEF TaskOrder
    <3>3. /\ Numbered(<<>>) /\ UpTo(<<>>, 0) /\ All(<<>>, 0) /\ Quiet(<<>>) /\ Whole(<<>>)
      BY DEF Numbered, UpTo, All, Quiet, Whole
    <3> QED
      BY <2>1, <3>1, <3>2, <3>3 DEF Stream
  <2>2. CASE d # c
    <3>1. /\ task'[d] = task[d] /\ cause'[d] = cause[d] /\ conns'[d] = conns[d]
          /\ back'[d] = back[d] /\ sent'[d] = sent[d] /\ out'[d] = out[d]
          /\ cancel'[d] = cancel[d]
      BY <1>0, <2>2 DEF TaskTypes, EntryTypes, OpenBackend
    <3> QED
      BY <3>1 DEF TaskOrder, Stream, Reading
  <2> QED
    BY <2>1, <2>2
<1> QED
  BY <1>1, <1>2, <1>5, <1>6, <1>7, Types

\* A read appends the instructions read, and after them at most one frame
\* that says how the session ended.
LEMMA ReadSteps ==
    ASSUME SessionInv, NEW c \in Conns, NEW kinds \in Reads,
           \/ ReadData(c, kinds) \/ ReadGarbage(c, kinds)
           \/ \E how \in {"disconnect", "error"} : ReadClose(c, kinds, how)
    PROVE  SessionInv'
<1> USE DEF SessionInv
<1>0. LoopTypes /\ EntryTypes /\ TaskTypes /\ sent \in [Conns -> Seq(Frames)]
  BY Types
<1>1. Read(c, kinds)
  BY DEF ReadData, ReadGarbage, ReadClose
<1>2. Len(kinds) \in Nat
  BY ForwardedFrames
<1>3. PICK n \in Nat, l \in Nat : n = out[c] /\ l = Len(kinds)
  BY <1>0, <1>2 DEF TaskTypes
<1>4. /\ out' \in [Conns -> Nat] /\ out'[c] = n + l
      /\ \A d \in Conns : d # c => out'[d] = out[d]
  BY <1>0, <1>1, <1>3 DEF TaskTypes, Read
<1>5. EntryTypes' /\ conns' = conns /\ cancel' = cancel /\ back' = back
  BY <1>0 DEF EntryTypes, ReadData, ReadGarbage, ReadClose, entry
<1>6. LoopTypes' /\ Position' /\ cleanup' = cleanup /\ guacd' = guacd
  <2>1. reads' = reads + 1 /\ UNCHANGED <<opens, closes>>
    BY <1>1 DEF Read
  <2>2. /\ UNCHANGED <<run, busy, todo, primary, result, closeReq, signals, reason>>
        /\ UNCHANGED <<cleanup, guacd>>
    BY DEF ReadData, ReadGarbage, ReadClose, loop, entry, outbound
  <2> QED
    BY <2>1, <2>2, <1>0 DEF LoopTypes, Position
<1>7. /\ task[c] = "reading" /\ cause[c] = "none" /\ ~cancel[c]
      /\ sent[c] \in Seq(Frames)
      /\ Numbered(sent[c]) /\ UpTo(sent[c], n) /\ All(sent[c], n) /\ Whole(sent[c])
  BY <1>0, <1>1, <1>3 DEF Read, Reading, TaskOrder, Stream
<1>8. ASSUME NEW t \in Seq(Frames), sent' = [sent EXCEPT ![c] = t], task' = task,
             cause' = cause, Numbered(t), UpTo(t, n + l), All(t, n + l), Quiet(t), Whole(t)
      PROVE  SessionInv'
  <2>1. sent' \in [Conns -> Seq(Frames)] /\ sent'[c] = t
        /\ \A d \in Conns : d # c => sent'[d] = sent[d]
    BY <1>8, <1>0
  <2>2. TaskTypes'
    BY <1>8, <1>0, <1>4, <1>6 DEF TaskTypes
  <2>3. \A d \in Conns : d # c => Stream(d)'
    BY <1>8, <1>4, <1>5, <2>1 DEF Stream, Reading
  <2>4. Stream(c)'
    BY <1>8, <1>4, <2>1 DEF Stream
  <2>5. \A d \in Conns : TaskOrder(d)'
    BY <1>8, <1>5 DEF TaskOrder
  <2> QED
    BY <2>1, <2>2, <2>3, <2>4, <2>5, <1>5, <1>6, Types
<1>9. ASSUME NEW t \in Seq(Frames), sent' = [sent EXCEPT ![c] = t],
             NEW k \in {"checked", "draining"}, task' = [task EXCEPT ![c] = k],
             NEW why \in {"disconnect", "error", "garbage"},
             k = "checked" => why # "garbage",
             cause' = [cause EXCEPT ![c] = why],
             Numbered(t), UpTo(t, n + l), Quiet(t)
      PROVE  SessionInv'
  <2>1. sent' \in [Conns -> Seq(Frames)] /\ sent'[c] = t
        /\ \A d \in Conns : d # c => sent'[d] = sent[d]
    BY <1>9, <1>0
  <2>2. /\ task' \in [Conns -> {"none", "reading", "checked", "announced", "draining",
                                "eofSent", "done"}]
        /\ cause' \in [Conns -> {"none", "disconnect", "error", "garbage", "lost"}]
        /\ task'[c] = k /\ cause'[c] = why
        /\ \A d \in Conns : d # c => task'[d] = task[d] /\ cause'[d] = cause[d]
    BY <1>9, <1>0 DEF TaskTypes
  <2>3. TaskTypes'
    BY <2>2, <1>0, <1>4, <1>6 DEF TaskTypes
  <2>4. \A d \in Conns : d # c => Stream(d)'
    BY <2>2, <1>4, <1>5, <2>1 DEF Stream, Reading
  <2>5. Stream(c)'
    BY <1>9, <1>4, <2>1, <2>2 DEF Stream, Reading
  <2>6. conns[c] # "absent"
    BY <1>7 DEF TaskOrder
  <2>7. TaskOrder(c)'
    BY <1>9, <2>2, <1>5, <2>6 DEF TaskOrder
  <2>8. \A d \in Conns : d # c => TaskOrder(d)'
    BY <2>2, <1>5 DEF TaskOrder
  <2> QED
    BY <2>1, <2>3, <2>4, <2>5, <2>7, <2>8, <1>5, <1>6, Types
<1>10. CASE ReadData(c, kinds)
  <2> DEFINE t == Forwarded(c, kinds, FALSE)
  <2>1. t \in Seq(Frames) /\ DOMAIN t = 1..l /\ \A i \in 1..l : t[i] = Instruction(n + i)
    BY <1>3, ForwardedFrames
  <2> HIDE DEF t
  <2>2. /\ Numbered(sent[c] \o t) /\ UpTo(sent[c] \o t, n + l) /\ All(sent[c] \o t, n + l)
        /\ Whole(sent[c] \o t) /\ Quiet(sent[c] \o t)
    BY <2>1, <1>7, MoreInstructions
  <2>3. sent' = [sent EXCEPT ![c] = sent[c] \o t]
    BY <1>10 DEF ReadData, Send, t
  <2>4. sent[c] \o t \in Seq(Frames)
    BY <2>1, <1>7
  <2> QED
    BY <1>10, <2>2, <2>3, <2>4, <1>8 DEF ReadData, outbound
<1>11. ASSUME NEW f \in Frames, ~Drawn(f)
       PROVE  /\ sent[c] \o Append(Forwarded(c, kinds, TRUE), f) \in Seq(Frames)
              /\ Numbered(sent[c] \o Append(Forwarded(c, kinds, TRUE), f))
              /\ UpTo(sent[c] \o Append(Forwarded(c, kinds, TRUE), f), n + l)
              /\ Quiet(sent[c] \o Append(Forwarded(c, kinds, TRUE), f))
  <2> DEFINE t == Forwarded(c, kinds, TRUE)
  <2>1. PICK m \in 0..Len(kinds) :
          /\ t \in Seq(Frames) /\ DOMAIN t = 1..m
          /\ \A i \in 1..m : t[i] = Instruction(out[c] + i)
    BY ForwardedFrames
  <2> HIDE DEF t
  <2>2. m \in Nat /\ m <= l /\ \A i \in 1..m : t[i] = Instruction(n + i)
    BY <2>1, <1>3
  <2>3. /\ Numbered(sent[c] \o t) /\ UpTo(sent[c] \o t, n + m) /\ Quiet(sent[c] \o t)
    BY <2>1, <2>2, <1>7, MoreInstructions
  <2>4. sent[c] \o t \in Seq(Frames)
    BY <2>1, <1>7
  <2>5. <<f>> \in Seq(Frames) /\ \A i \in DOMAIN <<f>> : ~Drawn(<<f>>[i])
    BY <1>11, FewFrames
  <2>6. /\ Numbered((sent[c] \o t) \o <<f>>) /\ UpTo((sent[c] \o t) \o <<f>>, n + m)
        /\ Quiet((sent[c] \o t) \o <<f>>)
    <3>1. n + m \in Nat
      BY <2>2
    <3> QED
      BY <2>3, <2>4, <2>5, <3>1, OtherFrames
  <2>7. (sent[c] \o t) \o <<f>> = sent[c] \o Append(t, f)
        /\ (sent[c] \o t) \o <<f>> \in Seq(Frames)
    BY <2>1, <1>7, <1>11, LastFrame
  <2>8. UpTo((sent[c] \o t) \o <<f>>, n + l)
    <3> DEFINE u == (sent[c] \o t) \o <<f>>
    <3>1. u \in Seq(Frames) /\ UpTo(u, n + m)
      BY <2>6, <2>7
    <3> HIDE DEF u
    <3>2. ASSUME NEW i \in DOMAIN u, Drawn(u[i]) PROVE u[i].no <= n + l
      <4>1. u[i] \in Frames
        BY <3>1
      <4>2. u[i].no \in Nat /\ u[i].no <= n + m
        BY <3>1, <3>2, <4>1 DEF UpTo, Frames, Drawn
      <4> QED
        BY <4>2, <2>2
    <3>3. UpTo(u, n + l)
      BY <3>2 DEF UpTo
    <3> QED
      BY <3>3 DEF u
  <2> QED
    BY <2>6, <2>7, <2>8 DEF t
<1>12. CASE ReadGarbage(c, kinds)
  <2>1. Close("ProtocolError") \in Frames /\ ~Drawn(Close("ProtocolError"))
    BY FrameKinds
  <2>2. /\ sent' = [sent EXCEPT ![c] = sent[c] \o
                      Append(Forwarded(c, kinds, TRUE), Close("ProtocolError"))]
        /\ cause' = [cause EXCEPT ![c] = "garbage"]
        /\ task' = [task EXCEPT ![c] = "draining"]
    BY <1>12 DEF ReadGarbage, Send
  <2> QED
    BY <2>1, <2>2, <1>9, <1>11
<1>13. ASSUME NEW how \in {"disconnect", "error"}, ReadClose(c, kinds, how)
       PROVE  SessionInv'
  <2>1. Ending(how) \in Frames /\ ~Drawn(Ending(how))
    BY FrameKinds
  <2>2. PICK k \in {"checked", "draining"} :
          /\ sent' = [sent EXCEPT ![c] = sent[c] \o
                        Append(Forwarded(c, kinds, TRUE), Ending(how))]
          /\ cause' = [cause EXCEPT ![c] = how]
          /\ task' = [task EXCEPT ![c] = k]
    BY <1>13 DEF ReadClose, Send
  <2> QED
    BY <2>1, <2>2, <1>9, <1>11
<1> QED
  BY <1>10, <1>12, <1>13

LEMMA SessionInit == Init => SessionInv
<1> SUFFICES ASSUME Init PROVE SessionInv
  OBVIOUS
<1>1. LoopTypes /\ TaskTypes /\ Position
  BY DEF Init, LoopTypes, TaskTypes, Position
<1>2. EntryTypes /\ sent \in [Conns -> Seq(Frames)]
  BY DEF Init, EntryTypes
<1>3. ASSUME NEW c \in Conns PROVE TaskOrder(c) /\ Stream(c)
  <2>1. /\ task[c] = "none" /\ cause[c] = "none" /\ conns[c] = "absent"
        /\ sent[c] = <<>> /\ out[c] = 0
    BY DEF Init
  <2>2. Numbered(<<>>) /\ UpTo(<<>>, 0) /\ All(<<>>, 0) /\ Quiet(<<>>) /\ Whole(<<>>)
    BY DEF Numbered, UpTo, All, Quiet, Whole
  <2> QED
    BY <2>1, <2>2 DEF TaskOrder, Stream
<1> QED
  BY <1>1, <1>2, <1>3, Types DEF SessionInv

LEMMA SessionStep == SessionInv /\ [Next]_vars => SessionInv'
<1> SUFFICES ASSUME SessionInv, [Next]_vars PROVE SessionInv'
  OBVIOUS
<1>1. CASE UNCHANGED vars
  <2>1. UNCHANGED <<run, busy, todo, primary, reason, result, closeReq, signals, conns,
                    cleanup, cancel, task, cause, back, guacd, out, told, sent, opens,
                    reads, closes>>
    BY <1>1 DEF vars, loop, entry, outbound, server, counters
  <2>2. TypeOK' /\ Position'
    BY <2>1 DEF SessionInv, TypeOK, Position
  <2>3. \A c \in Conns : TaskOrder(c)' /\ Stream(c)'
    BY <2>1 DEF SessionInv, TaskOrder, Stream, Reading
  <2> QED
    BY <2>2, <2>3 DEF SessionInv
<1>2. CASE Next
  <2>1. CASE RunLoop
    BY <2>1, SilentSteps, RunTaskSpeaks DEF RunLoop
  <2>2. CASE Peer
    BY <2>2, SilentSteps, RunTaskSpeaks, OpenBackendStep DEF Peer
  <2>3. CASE CloseChannel \/ NotifyRunLoop
    BY <2>3, SilentSteps
  <2>4. ASSUME NEW c \in Conns,
               Outbound(c) \/ Guacd(c) \/ CleanupFires(c) \/ NotifyCleanup(c)
        PROVE  SessionInv'
    BY <2>4, SilentSteps, TaskSteps, ReadSteps DEF Outbound, Guacd
  <2> QED
    BY <1>2, <2>1, <2>2, <2>3, <2>4 DEF Next
<1> QED
  BY <1>1, <1>2

LEMMA SessionInvariant == Spec => []SessionInv
BY SessionInit, SessionStep, PTL DEF Spec

\* Every variable of the gateway's channel keeps its type.
THEOREM TypeCorrect == Spec => []TypeOK
<1>1. SessionInv => TypeOK
  BY DEF SessionInv
<1> QED
  BY <1>1, SessionInvariant, PTL

\* Whatever guacd sends and however the peer opens and closes connections,
\* the peer gets what guacd draws in order and without a gap, all of it until
\* guacd ends the session, and nothing after it was told that it broke.
THEOREM DrawnInOrder == Spec => []FramesInOrder
<1>1. SessionInv => FramesInOrder
  BY DEF SessionInv, Stream, Numbered, All, Quiet, Drawn, Broken, FramesInOrder
<1> QED
  BY <1>1, SessionInvariant, PTL

-----------------------------------------------------------------------------
(* The primary connection.                                                 *)

\* Taking the first signal, and adding one.
LEMMA SignalQueue ==
    ASSUME NEW s \in Seq(Conns), NEW c \in Conns
    PROVE  /\ s # <<>> =>
                /\ 1 \in DOMAIN s /\ Head(s) = s[1]
                /\ \A i \in DOMAIN Tail(s) : i + 1 \in DOMAIN s /\ Tail(s)[i] = s[i + 1]
           /\ \A i \in DOMAIN Append(s, c) :
                \/ i \in DOMAIN s /\ Append(s, c)[i] = s[i]
                \/ Append(s, c)[i] = c
OBVIOUS

\* What guacd was told on the primary connection stays.
LEMMA ToldSame ==
    ASSUME DisconnectFirst, primary' = primary, primary # 0 => told'[primary] = told[primary]
    PROVE  DisconnectFirst'
BY DEF DisconnectFirst

\* It is told to disconnect, or, after that, that the stream is over.
LEMMA ToldMore ==
    ASSUME DisconnectFirst, primary' = primary, primary \in Conns,
           told[primary] \in Seq({"disconnect", "eof", "fin"}),
           \/ told'[primary] = told[primary] \o <<"disconnect", "eof">>
           \/ /\ told'[primary] = Append(told[primary], "fin")
              /\ \E i \in DOMAIN told[primary] : told[primary][i] = "disconnect"
    PROVE  /\ DisconnectFirst'
           /\ \E i \in DOMAIN told'[primary] : told'[primary][i] = "disconnect"
<1>1. PICK t \in Seq({"disconnect", "eof", "fin"}), n \in Nat :
        t = told[primary] /\ n = Len(t) /\ DOMAIN t = 1..n
  OBVIOUS
<1>2. primary # 0 =>
        \A j \in 1..n : t[j] = "fin" => \E i \in 1..(j - 1) : t[i] = "disconnect"
  BY <1>1 DEF DisconnectFirst
<1>3. CASE told'[primary] = t \o <<"disconnect", "eof">>
  <2>1. PICK u : u = t \o <<"disconnect", "eof">>
    OBVIOUS
  <2>2. /\ DOMAIN u = 1..(n + 2) /\ \A i \in 1..n : u[i] = t[i]
        /\ u[n + 1] = "disconnect" /\ u[n + 2] = "eof"
    BY <2>1, <1>1
  <2>3. \A j \in 1..(n + 2) : u[j] = "fin" => j \in 1..n /\ t[j] = "fin"
    BY SMTT(30), <2>2
  <2>4. ASSUME primary # 0, NEW j \in 1..(n + 2), u[j] = "fin"
        PROVE  \E i \in 1..(j - 1) : u[i] = "disconnect"
    <3>1. j \in 1..n /\ t[j] = "fin"
      BY <2>3, <2>4
    <3>2. PICK i \in 1..(j - 1) : t[i] = "disconnect"
      BY <3>1, <1>2, <2>4
    <3>3. u[i] = "disconnect"
      BY <3>1, <3>2, <2>2
    <3> QED
      BY <3>3
  <2>5. DisconnectFirst'
    BY SMTT(30), <2>1, <2>2, <2>4, <1>3 DEF DisconnectFirst
  <2>6. n + 1 \in DOMAIN u
    BY <2>2
  <2> QED
    BY <2>1, <2>2, <2>5, <2>6, <1>3
<1>4. CASE /\ told'[primary] = Append(t, "fin")
           /\ \E i \in DOMAIN t : t[i] = "disconnect"
  <2>1. PICK u : u = Append(t, "fin")
    OBVIOUS
  <2>2. DOMAIN u = 1..(n + 1) /\ \A i \in 1..n : u[i] = t[i]
    BY <2>1, <1>1
  <2>3. PICK k \in 1..n : t[k] = "disconnect"
    BY <1>4, <1>1
  <2>4. ASSUME primary # 0, NEW j \in 1..(n + 1), u[j] = "fin"
        PROVE  \E i \in 1..(j - 1) : u[i] = "disconnect"
    <3>1. CASE j \in 1..n
      <4>1. PICK i \in 1..(j - 1) : t[i] = "disconnect"
        BY <3>1, <1>2, <2>2, <2>4
      <4>2. u[i] = "disconnect"
        BY <3>1, <4>1, <2>2
      <4> QED
        BY <4>2
    <3>2. CASE j = n + 1
      BY <3>2, <2>2, <2>3
    <3> QED
      BY <3>1, <3>2
  <2>5. DisconnectFirst'
    BY <2>1, <2>2, <2>4, <1>4 DEF DisconnectFirst
  <2>6. k \in DOMAIN u /\ u[k] = "disconnect"
    BY <2>2, <2>3
  <2> QED
    BY <2>1, <2>5, <2>6, <1>4
<1> QED
  BY <1>1, <1>3, <1>4

\* The primary connection, while the peer closes only what is open.
LEMMA PrimaryStep ==
    ASSUME ~StrayCloses, SessionInv, PrimaryInv, Next
    PROVE  PrimaryInv'
<1>0. LoopTypes /\ EntryTypes /\ TaskTypes
  BY Types DEF SessionInv
<1>00. Position /\ (\A c \in Conns : TaskOrder(c)) /\ 0 \notin Conns
  BY ConnNumbers DEF SessionInv
<1> USE DEF PrimaryInv, LoopTypes, EntryTypes, TaskTypes
<1>1. CASE SendOpened
  <2>1. BeforePrimary'
    BY <1>1, <1>0, <1>00 DEF BeforePrimary, Position, TaskOrder, SendOpened, loop, entry,
       outbound, server, counters
  <2>2. Primary'
    BY <1>1, <1>0, <1>00 DEF BeforePrimary, Primary, Live, Position, TaskOrder,
       SendOpened, loop, entry, outbound, server, counters
  <2>3. Listed'
    BY <1>1, <1>0, <1>00 DEF Listed, Position, TaskOrder, SendOpened, loop, entry,
       outbound, server, counters
  <2>4. ErrorStored'
    BY <1>1, <1>0, <1>00 DEF BeforePrimary, Primary, Listed, ErrorStored, Live, Reported,
       IsCritical, Position, TaskOrder, SendOpened, loop, entry, outbound, server,
       counters
  <2>5. DisconnectFirst'
    BY <1>1, <1>0, <1>00 DEF BeforePrimary, Primary, DisconnectFirst, Position,
       TaskOrder, SendOpened, loop, entry, outbound, server, counters
  <2> QED
    BY <2>1, <2>2, <2>3, <2>4, <2>5
<1>2. CASE ClearPrimary
  <2>1. BeforePrimary'
    BY <1>2, <1>0, <1>00 DEF BeforePrimary, Position, TaskOrder, ClearPrimary, Hang,
       loop, entry, outbound, server, counters
  <2>2. Primary'
    BY <1>2, <1>0, <1>00 DEF BeforePrimary, Primary, Live, Position, TaskOrder,
       ClearPrimary, Hang, loop, entry, outbound, server, counters
  <2>3. Listed'
    BY <1>2, <1>0, <1>00 DEF Listed, Position, TaskOrder, ClearPrimary, Hang, loop,
       entry, outbound, server, counters
  <2>4. ErrorStored'
    BY <1>2, <1>0, <1>00 DEF BeforePrimary, Primary, Listed, ErrorStored, Live, Reported,
       IsCritical, Position, TaskOrder, ClearPrimary, Hang, loop, entry, outbound,
       server, counters
  <2>5. DisconnectFirst'
    BY <1>2, <1>0, <1>00 DEF BeforePrimary, Primary, DisconnectFirst, Position,
       TaskOrder, ClearPrimary, Hang, loop, entry, outbound, server, counters
  <2> QED
    BY <2>1, <2>2, <2>3, <2>4, <2>5
<1>3. CASE CriticalClosure
  <2>1. BeforePrimary'
    BY <1>3, <1>0, <1>00 DEF BeforePrimary, Position, TaskOrder, CriticalClosure, Write,
       loop, entry, outbound, server, counters
  <2>2. Primary'
    <3>1. primary \in Conns /\ primary' = primary /\ signals # <<>> /\ signals' = Tail(signals)
          /\ cleanup' = cleanup /\ task' = task /\ conns' = conns
          /\ run = "running" /\ run' = "closing"
      BY <1>3, <1>0, <1>00 DEF CriticalClosure
    <3>2. 1 \in DOMAIN signals /\ signals[1] = primary
      BY <1>3, <1>0, <3>1, SignalQueue DEF CriticalClosure
    <3>3. task[primary] = "done"
      BY <1>3, <1>00, <3>1, <3>2 DEF Primary, Live, CriticalClosure
    <3>4. \/ conns[primary] = "absent" \/ back'[primary] = "dead"
          \/ \E i \in DOMAIN told'[primary] : told'[primary][i] = "disconnect"
      <4>1. CASE conns[primary] # "absent" /\ back[primary] = "running" /\ guacd[primary] # "gone"
        <5>1. told'[primary] = told[primary] \o <<"disconnect", "eof">>
          BY <4>1, <1>3, <1>0, <3>1 DEF CriticalClosure, Write
        <5>2. told[primary] \in Seq({"disconnect", "eof", "fin"})
          BY <1>0, <3>1
        <5> QED
          BY <5>1, <5>2, <3>1, ToldMore
      <4>2. CASE conns[primary] = "absent" \/ back[primary] # "running"
        <5>1. back'[primary] = back[primary]
          BY <4>2, <1>3, <1>0, <3>1 DEF CriticalClosure, Write
        <5> QED
          BY <4>2, <5>1, <3>1, <1>00 DEF TaskOrder
      <4>3. CASE conns[primary] # "absent" /\ back[primary] = "running" /\ guacd[primary] = "gone"
        BY <4>3, <1>3, <1>0, <3>1 DEF CriticalClosure, Write
      <4> QED
        BY <4>1, <4>2, <4>3
    <3> QED
      BY <3>1, <3>3, <3>4, <1>00 DEF Primary, Live
  <2>3. Listed'
    BY <1>3, <1>0, <1>00 DEF Listed, Position, TaskOrder, CriticalClosure, Write, loop,
       entry, outbound, server, counters
  <2>4. ErrorStored'
    BY <1>3, <1>0, <1>00 DEF BeforePrimary, Primary, Listed, ErrorStored, Live, Reported,
       IsCritical, Position, TaskOrder, CriticalClosure, Write, loop, entry, outbound,
       server, counters
  <2>5. DisconnectFirst'
    <3>1. primary \in Conns /\ primary' = primary
      BY <1>3, <1>0, <1>00 DEF CriticalClosure
    <3>2. told'[primary] \in {told[primary], told[primary] \o <<"disconnect", "eof">>}
      BY <1>3, <3>1, <1>0 DEF CriticalClosure, Write
    <3>3. CASE told'[primary] = told[primary]
      BY <3>1, <3>3, ToldSame
    <3>4. CASE told'[primary] = told[primary] \o <<"disconnect", "eof">>
      <4>1. told[primary] \in Seq({"disconnect", "eof", "fin"})
        BY <1>0, <3>1
      <4> QED
        BY <4>1, <3>1, <3>4, ToldMore
    <3> QED
      BY <3>2, <3>3, <3>4
  <2> QED
    BY <2>1, <2>2, <2>3, <2>4, <2>5
<1>4. CASE LeaveCritical
  <2>1. BeforePrimary'
    BY <1>4, <1>0, <1>00 DEF BeforePrimary, Position, TaskOrder, LeaveCritical,
       LeaveLoop, RemoveConn, loop, entry, outbound, server, counters
  <2>2. Primary'
    BY <1>4, <1>0, <1>00 DEF BeforePrimary, Primary, Live, Position, TaskOrder,
       LeaveCritical, LeaveLoop, RemoveConn, loop, entry, outbound, server, counters
  <2>3. Listed'
    BY <1>4, <1>0, <1>00 DEF Listed, Position, TaskOrder, LeaveCritical, LeaveLoop,
       RemoveConn, loop, entry, outbound, server, counters
  <2>4. ErrorStored'
    BY <1>4, <1>0, <1>00 DEF BeforePrimary, Primary, Listed, ErrorStored, Live, Reported,
       IsCritical, Position, TaskOrder, LeaveCritical, LeaveLoop, RemoveConn, loop,
       entry, outbound, server, counters
  <2>5. DisconnectFirst'
    <3>1. busy = primary /\ primary \in Conns /\ primary' = primary
      BY <1>4, <1>0, <1>00 DEF LeaveCritical, Position
    <3>2. CASE conns[primary] = "absent" \/ back[primary] = "dead"
      <4>1. told'[primary] = told[primary]
        BY <1>4, <1>0, <3>1, <3>2 DEF LeaveCritical, RemoveConn
      <4> QED
        BY <3>1, <4>1, ToldSame
    <3>3. CASE conns[primary] # "absent" /\ back[primary] # "dead"
      <4>1. told'[primary] = Append(told[primary], "fin")
        BY <1>4, <1>0, <3>1, <3>3 DEF LeaveCritical, RemoveConn
      <4>2. \E i \in DOMAIN told[primary] : told[primary][i] = "disconnect"
        BY <1>4, <1>00, <3>1, <3>3 DEF LeaveCritical, Primary
      <4>3. told[primary] \in Seq({"disconnect", "eof", "fin"})
        BY <1>0, <3>1
      <4> QED
        BY <3>1, <4>1, <4>2, <4>3, ToldMore
    <3> QED
      BY <3>2, <3>3
  <2> QED
    BY <2>1, <2>2, <2>3, <2>4, <2>5
<1>5. CASE IgnoreSignal
  <2>1. BeforePrimary'
    BY <1>5, <1>0, <1>00 DEF BeforePrimary, Position, TaskOrder, IgnoreSignal, loop,
       entry, outbound, server, counters
  <2>2. Primary'
    <3>1. signals # <<>> /\ signals' = Tail(signals)
      BY <1>5 DEF IgnoreSignal
    <3>2. \A i \in DOMAIN signals' : \E j \in DOMAIN signals : signals'[i] = signals[j]
      <4>1. \A i \in DOMAIN Tail(signals) :
              i + 1 \in DOMAIN signals /\ Tail(signals)[i] = signals[i + 1]
        BY <1>0, <3>1, SignalQueue
      <4> QED
        BY <3>1, <4>1
    <3>3. UNCHANGED <<primary, cleanup, run, task, conns, back, told>>
      BY <1>5 DEF IgnoreSignal, loop, entry
    <3> QED
      BY <3>2, <3>3 DEF Primary, Live
  <2>3. Listed'
    BY <1>5, <1>0, <1>00 DEF Listed, Position, TaskOrder, IgnoreSignal, loop, entry,
       outbound, server, counters
  <2>4. ErrorStored'
    BY <1>5, <1>0, <1>00 DEF BeforePrimary, Primary, Listed, ErrorStored, Live, Reported,
       IsCritical, Position, TaskOrder, IgnoreSignal, loop, entry, outbound, server,
       counters
  <2>5. DisconnectFirst'
    BY <1>5, <1>0, <1>00 DEF BeforePrimary, Primary, DisconnectFirst, Position,
       TaskOrder, IgnoreSignal, loop, entry, outbound, server, counters
  <2> QED
    BY <2>1, <2>2, <2>3, <2>4, <2>5
<1>6. CASE CloseBackendEnds
  <2>1. BeforePrimary'
    BY <1>6, <1>0, <1>00 DEF BeforePrimary, Position, TaskOrder, CloseBackendEnds,
       RemoveConn, loop, entry, outbound, server, counters
  <2>2. Primary'
    BY <1>6, <1>0, <1>00 DEF BeforePrimary, Primary, Live, Position, TaskOrder,
       CloseBackendEnds, RemoveConn, loop, entry, outbound, server, counters
  <2>3. Listed'
    BY <1>6, <1>0, <1>00 DEF Listed, Position, TaskOrder, CloseBackendEnds, RemoveConn,
       loop, entry, outbound, server, counters
  <2>4. ErrorStored'
    BY <1>6, <1>0, <1>00 DEF BeforePrimary, Primary, Listed, ErrorStored, Live, Reported,
       IsCritical, Position, TaskOrder, CloseBackendEnds, RemoveConn, loop, entry,
       outbound, server, counters
  <2>5. DisconnectFirst'
    <3>1. primary' = primary /\ (primary # 0 => told'[primary] = told[primary])
      BY <1>6, <1>0, <1>00 DEF BeforePrimary, Primary, Listed, Position, CloseBackendEnds, RemoveConn, loop
    <3> QED
      BY <3>1, ToldSame
  <2> QED
    BY <2>1, <2>2, <2>3, <2>4, <2>5
<1>7. CASE End
  <2>1. BeforePrimary'
    BY <1>7, <1>0, <1>00 DEF BeforePrimary, Position, TaskOrder, End, loop, entry,
       outbound, server, counters
  <2>2. Primary'
    BY <1>7, <1>0, <1>00 DEF BeforePrimary, Primary, Live, Position, TaskOrder, End,
       loop, entry, outbound, server, counters
  <2>3. Listed'
    BY <1>7, <1>0, <1>00 DEF Listed, Position, TaskOrder, End, loop, entry, outbound,
       server, counters
  <2>4. ErrorStored'
    BY <1>7, <1>0, <1>00 DEF BeforePrimary, Primary, Listed, ErrorStored, Live, Reported,
       IsCritical, Position, TaskOrder, End, loop, entry, outbound, server, counters
  <2>5. DisconnectFirst'
    BY <1>7, <1>0, <1>00 DEF BeforePrimary, Primary, DisconnectFirst, Position,
       TaskOrder, End, loop, entry, outbound, server, counters
  <2> QED
    BY <2>1, <2>2, <2>3, <2>4, <2>5
<1>8. CASE CloseChannel
  <2>1. BeforePrimary'
    BY <1>8, <1>0, <1>00 DEF BeforePrimary, Position, TaskOrder, CloseChannel, Closing,
       loop, entry, outbound, server, counters
  <2>2. Primary'
    BY <1>8, <1>0, <1>00 DEF BeforePrimary, Primary, Live, Position, TaskOrder,
       CloseChannel, Closing, loop, entry, outbound, server, counters
  <2>3. Listed'
    BY <1>8, <1>0, <1>00 DEF Listed, Position, TaskOrder, CloseChannel, Closing, loop,
       entry, outbound, server, counters
  <2>4. ErrorStored'
    BY <1>8, <1>0, <1>00 DEF BeforePrimary, Primary, Listed, ErrorStored, Live, Reported,
       IsCritical, Position, TaskOrder, CloseChannel, Closing, loop, entry, outbound,
       server, counters
  <2>5. DisconnectFirst'
    BY <1>8, <1>0, <1>00 DEF BeforePrimary, Primary, DisconnectFirst, Position,
       TaskOrder, CloseChannel, Closing, loop, entry, outbound, server, counters
  <2> QED
    BY <2>1, <2>2, <2>3, <2>4, <2>5
<1>9. CASE NotifyRunLoop
  <2>1. BeforePrimary'
    BY <1>9, <1>0, <1>00 DEF BeforePrimary, Position, TaskOrder, NotifyRunLoop,
       LeaveLoop, loop, entry, outbound, server, counters
  <2>2. Primary'
    BY <1>9, <1>0, <1>00 DEF BeforePrimary, Primary, Live, Position, TaskOrder,
       NotifyRunLoop, LeaveLoop, loop, entry, outbound, server, counters
  <2>3. Listed'
    BY <1>9, <1>0, <1>00 DEF Listed, Position, TaskOrder, NotifyRunLoop, LeaveLoop, loop,
       entry, outbound, server, counters
  <2>4. ErrorStored'
    BY <1>9, <1>0, <1>00 DEF BeforePrimary, Primary, Listed, ErrorStored, Live, Reported,
       IsCritical, Position, TaskOrder, NotifyRunLoop, LeaveLoop, loop, entry, outbound,
       server, counters
  <2>5. DisconnectFirst'
    BY <1>9, <1>0, <1>00 DEF BeforePrimary, Primary, DisconnectFirst, Position,
       TaskOrder, NotifyRunLoop, LeaveLoop, loop, entry, outbound, server, counters
  <2> QED
    BY <2>1, <2>2, <2>3, <2>4, <2>5
<1>10. ASSUME NEW c \in Conns, CloseBackend(c)
      PROVE  PrimaryInv'
  <2>1. BeforePrimary'
    BY <1>10, <1>0, <1>00 DEF BeforePrimary, Position, TaskOrder, CloseBackend,
       MarkClosing, Hang, loop, entry, outbound, server, counters
  <2>2. Primary'
    BY <1>10, <1>0, <1>00 DEF BeforePrimary, Primary, Live, Position, TaskOrder,
       CloseBackend, MarkClosing, Hang, loop, entry, outbound, server, counters
  <2>3. Listed'
    BY <1>10, <1>0, <1>00 DEF Listed, Position, TaskOrder, CloseBackend, MarkClosing,
       Hang, loop, entry, outbound, server, counters
  <2>4. ErrorStored'
    BY <1>10, <1>0, <1>00 DEF BeforePrimary, Primary, Listed, ErrorStored, Live,
       Reported, IsCritical, Position, TaskOrder, CloseBackend, MarkClosing, Hang, loop,
       entry, outbound, server, counters
  <2>5. DisconnectFirst'
    BY <1>10, <1>0, <1>00 DEF BeforePrimary, Primary, DisconnectFirst, Position,
       TaskOrder, CloseBackend, MarkClosing, Hang, loop, entry, outbound, server, counters
  <2> QED
    BY <2>1, <2>2, <2>3, <2>4, <2>5
<1>11. ASSUME NEW c \in Conns, OpenExisting(c)
      PROVE  PrimaryInv'
  <2>1. BeforePrimary'
    BY <1>11, <1>0, <1>00 DEF BeforePrimary, Position, TaskOrder, OpenExisting, Open,
       loop, entry, outbound, server, counters
  <2>2. Primary'
    BY <1>11, <1>0, <1>00 DEF BeforePrimary, Primary, Live, Position, TaskOrder,
       OpenExisting, Open, loop, entry, outbound, server, counters
  <2>3. Listed'
    BY <1>11, <1>0, <1>00 DEF Listed, Position, TaskOrder, OpenExisting, Open, loop,
       entry, outbound, server, counters
  <2>4. ErrorStored'
    BY <1>11, <1>0, <1>00 DEF BeforePrimary, Primary, Listed, ErrorStored, Live,
       Reported, IsCritical, Position, TaskOrder, OpenExisting, Open, loop, entry,
       outbound, server, counters
  <2>5. DisconnectFirst'
    BY <1>11, <1>0, <1>00 DEF BeforePrimary, Primary, DisconnectFirst, Position,
       TaskOrder, OpenExisting, Open, loop, entry, outbound, server, counters
  <2> QED
    BY <2>1, <2>2, <2>3, <2>4, <2>5
<1>12. ASSUME NEW c \in Conns, OpenBackend(c)
      PROVE  PrimaryInv'
  <2>1. BeforePrimary'
    BY <1>12, <1>0, <1>00 DEF BeforePrimary, Position, TaskOrder, OpenBackend, Open,
       loop, entry, outbound, server, counters
  <2>2. Primary'
    BY <1>12, <1>0, <1>00 DEF BeforePrimary, Primary, Live, Position, TaskOrder,
       OpenBackend, Open, loop, entry, outbound, server, counters
  <2>3. Listed'
    BY <1>12, <1>0, <1>00 DEF Listed, Position, TaskOrder, OpenBackend, Open, loop,
       entry, outbound, server, counters
  <2>4. ErrorStored'
    BY <1>12, <1>0, <1>00 DEF BeforePrimary, Primary, Listed, ErrorStored, Live,
       Reported, IsCritical, Position, TaskOrder, OpenBackend, Open, loop, entry,
       outbound, server, counters
  <2>5. DisconnectFirst'
    BY <1>12, <1>0, <1>00 DEF BeforePrimary, Primary, DisconnectFirst, Position,
       TaskOrder, OpenBackend, Open, loop, entry, outbound, server, counters
  <2> QED
    BY <2>1, <2>2, <2>3, <2>4, <2>5
<1>13. ASSUME NEW c \in Conns, OpenFails(c)
      PROVE  PrimaryInv'
  <2>1. BeforePrimary'
    BY <1>13, <1>0, <1>00 DEF BeforePrimary, Position, TaskOrder, OpenFails, Open, loop,
       entry, outbound, server, counters
  <2>2. Primary'
    BY <1>13, <1>0, <1>00 DEF BeforePrimary, Primary, Live, Position, TaskOrder,
       OpenFails, Open, loop, entry, outbound, server, counters
  <2>3. Listed'
    BY <1>13, <1>0, <1>00 DEF Listed, Position, TaskOrder, OpenFails, Open, loop, entry,
       outbound, server, counters
  <2>4. ErrorStored'
    BY <1>13, <1>0, <1>00 DEF BeforePrimary, Primary, Listed, ErrorStored, Live,
       Reported, IsCritical, Position, TaskOrder, OpenFails, Open, loop, entry, outbound,
       server, counters
  <2>5. DisconnectFirst'
    <3>1. CASE primary = 0
      <4>1. \A d \in Conns : told'[d] = <<>>
        BY <1>13, <3>1 DEF OpenFails, BeforePrimary, entry
      <4>2. primary' # 0 => primary' \in Conns
        BY <1>13, <3>1 DEF OpenFails
      <4> QED
        BY <4>1, <4>2 DEF DisconnectFirst
    <3>2. CASE primary # 0
      <4>1. primary' = primary /\ told' = told
        BY <1>13, <3>2 DEF OpenFails, entry
      <4> QED
        BY <4>1, ToldSame
    <3> QED
      BY <3>1, <3>2
  <2> QED
    BY <2>1, <2>2, <2>3, <2>4, <2>5
<1>14. ASSUME NEW c \in Conns, ForwardData(c)
      PROVE  PrimaryInv'
  <2>1. BeforePrimary'
    BY <1>14, <1>0, <1>00 DEF BeforePrimary, Position, TaskOrder, ForwardData, Write,
       loop, entry, outbound, server, counters
  <2>2. Primary'
    BY <1>14, <1>0, <1>00 DEF BeforePrimary, Primary, Live, Position, TaskOrder,
       ForwardData, Write, loop, entry, outbound, server, counters
  <2>3. Listed'
    BY <1>14, <1>0, <1>00 DEF Listed, Position, TaskOrder, ForwardData, Write, loop,
       entry, outbound, server, counters
  <2>4. ErrorStored'
    BY <1>14, <1>0, <1>00 DEF BeforePrimary, Primary, Listed, ErrorStored, Live,
       Reported, IsCritical, Position, TaskOrder, ForwardData, Write, loop, entry,
       outbound, server, counters
  <2>5. DisconnectFirst'
    <3>1. told[c] \in Seq({"disconnect", "eof", "fin"})
      BY <1>0
    <3>2. told[c] \o <<>> = told[c]
      BY <3>1
    <3>3. told' = told /\ primary' = primary
      BY <1>14, <3>2, <1>0 DEF ForwardData, Write, loop
    <3> QED
      BY <3>3, ToldSame
  <2> QED
    BY <2>1, <2>2, <2>3, <2>4, <2>5
<1>15. ASSUME NEW c \in Conns, ForwardToDead(c)
      PROVE  PrimaryInv'
  <2>1. BeforePrimary'
    BY <1>15, <1>0, <1>00 DEF BeforePrimary, Position, TaskOrder, ForwardToDead, Message,
       Closing, MarkClosing, DelayedClose, Hang, loop, entry, outbound, server, counters
  <2>2. Primary'
    BY SMTT(30), <1>15, <1>0, <1>00 DEF BeforePrimary, Primary, Live, Position, TaskOrder,
       ForwardToDead, Message, Closing, MarkClosing, DelayedClose, Hang, loop, entry,
       outbound, server, counters
  <2>3. Listed'
    BY <1>15, <1>0, <1>00 DEF Listed, Position, TaskOrder, ForwardToDead, Message,
       Closing, MarkClosing, DelayedClose, Hang, loop, entry, outbound, server, counters
  <2>4. ErrorStored'
    BY <1>15, <1>0, <1>00 DEF BeforePrimary, Primary, Listed, ErrorStored, Live,
       Reported, IsCritical, Position, TaskOrder, ForwardToDead, Message, Closing,
       MarkClosing, DelayedClose, Hang, loop, entry, outbound, server, counters
  <2>5. DisconnectFirst'
    BY <1>15, <1>0, <1>00 DEF BeforePrimary, Primary, DisconnectFirst, Position,
       TaskOrder, ForwardToDead, Message, Closing, MarkClosing, DelayedClose, Hang, loop,
       entry, outbound, server, counters
  <2> QED
    BY <2>1, <2>2, <2>3, <2>4, <2>5
<1>16. ASSUME NEW c \in Conns, ClosePrimary(c)
      PROVE  PrimaryInv'
  <2>1. BeforePrimary'
    BY <1>16, <1>0, <1>00 DEF BeforePrimary, Position, TaskOrder, ClosePrimary, Message,
       Closing, MarkClosing, Write, loop, entry, outbound, server, counters
  <2>2. Primary'
    BY <1>16, <1>0, <1>00 DEF BeforePrimary, Primary, Live, Position, TaskOrder,
       ClosePrimary, Message, Closing, MarkClosing, Write, loop, entry, outbound, server,
       counters
  <2>3. Listed'
    BY <1>16, <1>0, <1>00 DEF Listed, Position, TaskOrder, ClosePrimary, Message,
       Closing, MarkClosing, Write, loop, entry, outbound, server, counters
  <2>4. ErrorStored'
    BY <1>16, <1>0, <1>00 DEF BeforePrimary, Primary, Listed, ErrorStored, Live,
       Reported, IsCritical, Position, TaskOrder, ClosePrimary, Message, Closing,
       MarkClosing, Write, loop, entry, outbound, server, counters
  <2>5. DisconnectFirst'
    <3>1. primary \in Conns /\ primary' = primary
      BY <1>16, <1>0, <1>00 DEF ClosePrimary
    <3>2. told'[primary] \in {told[primary], told[primary] \o <<"disconnect", "eof">>}
      BY <1>16, <3>1, <1>0 DEF ClosePrimary, Write
    <3>3. CASE told'[primary] = told[primary]
      BY <3>1, <3>3, ToldSame
    <3>4. CASE told'[primary] = told[primary] \o <<"disconnect", "eof">>
      <4>1. told[primary] \in Seq({"disconnect", "eof", "fin"})
        BY <1>0, <3>1
      <4> QED
        BY <4>1, <3>1, <3>4, ToldMore
    <3> QED
      BY <3>2, <3>3, <3>4
  <2> QED
    BY <2>1, <2>2, <2>3, <2>4, <2>5
<1>17. ASSUME NEW c \in Conns, FailPrimary(c)
      PROVE  PrimaryInv'
  <2>1. BeforePrimary'
    BY <1>17, <1>0, <1>00 DEF BeforePrimary, Position, TaskOrder, FailPrimary, Message,
       Closing, Hang, MarkClosing, loop, entry, outbound, server, counters
  <2>2. Primary'
    BY <1>17, <1>0, <1>00 DEF BeforePrimary, Primary, Live, Position, TaskOrder,
       FailPrimary, Message, Closing, Hang, MarkClosing, loop, entry, outbound, server,
       counters
  <2>3. Listed'
    BY <1>17, <1>0, <1>00 DEF Listed, Position, TaskOrder, FailPrimary, Message, Closing,
       Hang, MarkClosing, loop, entry, outbound, server, counters
  <2>4. ErrorStored'
    BY <1>17, <1>0, <1>00 DEF BeforePrimary, Primary, Listed, ErrorStored, Live,
       Reported, IsCritical, Position, TaskOrder, FailPrimary, Message, Closing, Hang,
       MarkClosing, loop, entry, outbound, server, counters
  <2>5. DisconnectFirst'
    BY <1>17, <1>0, <1>00 DEF BeforePrimary, Primary, DisconnectFirst, Position,
       TaskOrder, FailPrimary, Message, Closing, Hang, MarkClosing, loop, entry,
       outbound, server, counters
  <2> QED
    BY <2>1, <2>2, <2>3, <2>4, <2>5
<1>18. ASSUME NEW c \in Conns, HandleClose(c)
      PROVE  PrimaryInv'
  <2>1. BeforePrimary'
    BY <1>18, <1>0, <1>00 DEF BeforePrimary, Position, TaskOrder, HandleClose, Message,
       Closing, RemoveConn, DelayedClose, MarkClosing, loop, entry, outbound, server,
       counters
  <2>2. Primary'
    BY <1>18, <1>0, <1>00 DEF BeforePrimary, Primary, Live, Position, TaskOrder,
       HandleClose, Message, Closing, RemoveConn, DelayedClose, MarkClosing, loop, entry,
       outbound, server, counters
  <2>3. Listed'
    BY <1>18, <1>0, <1>00 DEF Listed, Position, TaskOrder, HandleClose, Message, Closing,
       RemoveConn, DelayedClose, MarkClosing, loop, entry, outbound, server, counters
  <2>4. ErrorStored'
    BY <1>18, <1>0, <1>00 DEF BeforePrimary, Primary, Listed, ErrorStored, Live,
       Reported, IsCritical, Position, TaskOrder, HandleClose, Message, Closing,
       RemoveConn, DelayedClose, MarkClosing, loop, entry, outbound, server, counters
  <2>5. DisconnectFirst'
    <3>1. primary' = primary /\ (primary # 0 => told'[primary] = told[primary])
      BY <1>18, <1>0, <1>00 DEF BeforePrimary, Primary, Listed, Position, HandleClose, RemoveConn, loop
    <3> QED
      BY <3>1, ToldSame
  <2> QED
    BY <2>1, <2>2, <2>3, <2>4, <2>5
<1>19. ASSUME NEW why \in {"Normal", "ProtocolError"}, HandleCloseChannel(why)
      PROVE  PrimaryInv'
  <2>1. BeforePrimary'
    BY <1>19, <1>0, <1>00 DEF BeforePrimary, Position, TaskOrder, HandleCloseChannel,
       Message, Closing, LeaveLoop, loop, entry, outbound, server, counters
  <2>2. Primary'
    BY <1>19, <1>0, <1>00 DEF BeforePrimary, Primary, Live, Position, TaskOrder,
       HandleCloseChannel, Message, Closing, LeaveLoop, loop, entry, outbound, server,
       counters
  <2>3. Listed'
    BY <1>19, <1>0, <1>00 DEF Listed, Position, TaskOrder, HandleCloseChannel, Message,
       Closing, LeaveLoop, loop, entry, outbound, server, counters
  <2>4. ErrorStored'
    BY <1>19, <1>0, <1>00 DEF BeforePrimary, Primary, Listed, ErrorStored, Live,
       Reported, IsCritical, Position, TaskOrder, HandleCloseChannel, Message, Closing,
       LeaveLoop, loop, entry, outbound, server, counters
  <2>5. DisconnectFirst'
    BY <1>19, <1>0, <1>00 DEF BeforePrimary, Primary, DisconnectFirst, Position,
       TaskOrder, HandleCloseChannel, Message, Closing, LeaveLoop, loop, entry, outbound,
       server, counters
  <2> QED
    BY <2>1, <2>2, <2>3, <2>4, <2>5
<1>20. ASSUME NEW c \in Conns, CleanupFires(c)
      PROVE  PrimaryInv'
  <2>1. BeforePrimary'
    BY <1>20, <1>0, <1>00 DEF BeforePrimary, Position, TaskOrder, CleanupFires,
       RemoveConn, loop, entry, outbound, server, counters
  <2>2. Primary'
    <3>1. primary # 0 => c # primary
      BY <1>20, <1>0 DEF CleanupFires, Primary
    <3>2. primary' = primary /\ run' = run /\ task' = task /\ signals' = signals
      BY <1>20 DEF CleanupFires, loop, outbound
    <3>3. \A d \in Conns : d # c => /\ conns'[d] = conns[d] /\ told'[d] = told[d]
                                    /\ back'[d] = back[d]
      BY <1>20, <1>0, RemoveConnMoves DEF CleanupFires
    <3>4. \A d \in Conns : d # c => cleanup'[d] = cleanup[d]
      BY <1>20, <1>0 DEF CleanupFires
    <3> QED
      BY <1>0, <3>1, <3>2, <3>3, <3>4 DEF Primary, Live
  <2>3. Listed'
    BY <1>20, <1>0, <1>00 DEF Listed, Position, TaskOrder, CleanupFires, RemoveConn,
       loop, entry, outbound, server, counters
  <2>4. ErrorStored'
    BY <1>20, <1>0, <1>00 DEF BeforePrimary, Primary, Listed, ErrorStored, Live,
       Reported, IsCritical, Position, TaskOrder, CleanupFires, RemoveConn, loop, entry,
       outbound, server, counters
  <2>5. DisconnectFirst'
    <3>1. primary' = primary /\ (primary # 0 => told'[primary] = told[primary])
      BY <1>20, <1>0, <1>00 DEF BeforePrimary, Primary, Listed, Position, CleanupFires, RemoveConn, loop
    <3> QED
      BY <3>1, ToldSame
  <2> QED
    BY <2>1, <2>2, <2>3, <2>4, <2>5
<1>21. ASSUME NEW c \in Conns, NotifyCleanup(c)
      PROVE  PrimaryInv'
  <2>1. BeforePrimary'
    BY <1>21, <1>0, <1>00 DEF BeforePrimary, Position, TaskOrder, NotifyCleanup, loop,
       entry, outbound, server, counters
  <2>2. Primary'
    BY <1>21, <1>0, <1>00 DEF BeforePrimary, Primary, Live, Position, TaskOrder,
       NotifyCleanup, loop, entry, outbound, server, counters
  <2>3. Listed'
    BY <1>21, <1>0, <1>00 DEF Listed, Position, TaskOrder, NotifyCleanup, loop, entry,
       outbound, server, counters
  <2>4. ErrorStored'
    BY <1>21, <1>0, <1>00 DEF BeforePrimary, Primary, Listed, ErrorStored, Live,
       Reported, IsCritical, Position, TaskOrder, NotifyCleanup, loop, entry, outbound,
       server, counters
  <2>5. DisconnectFirst'
    BY <1>21, <1>0, <1>00 DEF BeforePrimary, Primary, DisconnectFirst, Position,
       TaskOrder, NotifyCleanup, loop, entry, outbound, server, counters
  <2> QED
    BY <2>1, <2>2, <2>3, <2>4, <2>5
<1>22. ASSUME NEW c \in Conns, ReadLost(c)
      PROVE  PrimaryInv'
  <2>1. BeforePrimary'
    BY <1>22, <1>0, <1>00 DEF BeforePrimary, Position, TaskOrder, ReadLost, Exit, loop,
       entry, outbound, server, counters
  <2>2. Primary'
    <3>1. /\ task' \in [Conns -> {"none", "reading", "checked", "announced", "draining",
                                  "eofSent", "done"}]
          /\ task[c] # "none" /\ task[c] # "done" /\ task'[c] # "none"
          /\ \A d \in Conns : d # c => task'[d] = task[d]
      BY <1>22, <1>0 DEF ReadLost, Exit
    <3>2. signals' = signals \/ (signals' = Append(signals, c) /\ task'[c] = "done")
      BY <1>22, <1>0 DEF ReadLost, Exit
    <3>3. \A i \in DOMAIN signals' :
            \/ \E j \in DOMAIN signals : signals'[i] = signals[j]
            \/ signals'[i] = c /\ task'[c] = "done"
      <4>1. CASE signals' = signals
        BY <4>1
      <4>2. CASE signals' = Append(signals, c) /\ task'[c] = "done"
        <5>1. \A i \in DOMAIN Append(signals, c) :
                \/ i \in DOMAIN signals /\ Append(signals, c)[i] = signals[i]
                \/ Append(signals, c)[i] = c
          BY <1>0, SignalQueue
        <5> QED
          BY <4>2, <5>1
      <4> QED
        BY <3>2, <4>1, <4>2
    <3>4. UNCHANGED <<primary, cleanup, run, conns, back, told>>
      BY <1>22 DEF ReadLost, loop, entry
    <3>5. ASSUME primary # 0, Live
          PROVE  /\ task'[primary] # "none" => conns[primary] # "absent"
                 /\ \A i \in DOMAIN signals' :
                      signals'[i] = primary => task'[primary] = "done"
      <4>1. primary \in Conns
        BY <1>0, <3>5
      <4>2. task[primary] = "done" => task'[primary] = "done"
        BY <3>1, <4>1
      <4>3. task[primary] = "none" => task'[primary] = "none"
        BY <3>1, <4>1
      <4> QED
        BY <3>3, <3>5, <4>2, <4>3 DEF Primary
    <3>6. primary # 0 /\ task[primary] = "done" => task'[primary] = "done"
      BY <1>0, <3>1
    <3> QED
      BY <3>4, <3>5, <3>6 DEF Primary, Live
  <2>3. Listed'
    BY <1>22, <1>0, <1>00 DEF Listed, Position, TaskOrder, ReadLost, Exit, loop, entry,
       outbound, server, counters
  <2>4. ErrorStored'
    BY <1>22, <1>0, <1>00 DEF BeforePrimary, Primary, Listed, ErrorStored, Live,
       Reported, IsCritical, Position, TaskOrder, ReadLost, Exit, loop, entry, outbound,
       server, counters
  <2>5. DisconnectFirst'
    BY <1>22, <1>0, <1>00 DEF BeforePrimary, Primary, DisconnectFirst, Position,
       TaskOrder, ReadLost, Exit, loop, entry, outbound, server, counters
  <2> QED
    BY <2>1, <2>2, <2>3, <2>4, <2>5
<1>23. ASSUME NEW c \in Conns, Announce(c)
      PROVE  PrimaryInv'
  <2>1. BeforePrimary'
    BY <1>23, <1>0, <1>00 DEF BeforePrimary, Position, TaskOrder, Announce, loop, entry,
       outbound, server, counters
  <2>2. Primary'
    BY <1>23, <1>0, <1>00 DEF BeforePrimary, Primary, Live, Position, TaskOrder,
       Announce, loop, entry, outbound, server, counters
  <2>3. Listed'
    BY <1>23, <1>0, <1>00 DEF Listed, Position, TaskOrder, Announce, loop, entry,
       outbound, server, counters
  <2>4. ErrorStored'
    BY <1>23, <1>0, <1>00 DEF BeforePrimary, Primary, Listed, ErrorStored, Live,
       Reported, IsCritical, Position, TaskOrder, Announce, loop, entry, outbound,
       server, counters
  <2>5. DisconnectFirst'
    BY <1>23, <1>0, <1>00 DEF BeforePrimary, Primary, DisconnectFirst, Position,
       TaskOrder, Announce, loop, entry, outbound, server, counters
  <2> QED
    BY <2>1, <2>2, <2>3, <2>4, <2>5
<1>24. ASSUME NEW c \in Conns, StoreReason(c)
      PROVE  PrimaryInv'
  <2>1. BeforePrimary'
    BY <1>24, <1>0, <1>00 DEF BeforePrimary, Position, TaskOrder, StoreReason, Exit,
       loop, entry, outbound, server, counters
  <2>2. Primary'
    <3>1. /\ task' \in [Conns -> {"none", "reading", "checked", "announced", "draining",
                                  "eofSent", "done"}]
          /\ task[c] # "none" /\ task[c] # "done" /\ task'[c] # "none"
          /\ \A d \in Conns : d # c => task'[d] = task[d]
      BY <1>24, <1>0 DEF StoreReason, Exit
    <3>2. signals' = signals \/ (signals' = Append(signals, c) /\ task'[c] = "done")
      BY <1>24, <1>0 DEF StoreReason, Exit
    <3>3. \A i \in DOMAIN signals' :
            \/ \E j \in DOMAIN signals : signals'[i] = signals[j]
            \/ signals'[i] = c /\ task'[c] = "done"
      <4>1. CASE signals' = signals
        BY <4>1
      <4>2. CASE signals' = Append(signals, c) /\ task'[c] = "done"
        <5>1. \A i \in DOMAIN Append(signals, c) :
                \/ i \in DOMAIN signals /\ Append(signals, c)[i] = signals[i]
                \/ Append(signals, c)[i] = c
          BY <1>0, SignalQueue
        <5> QED
          BY <4>2, <5>1
      <4> QED
        BY <3>2, <4>1, <4>2
    <3>4. UNCHANGED <<primary, cleanup, run, conns, back, told>>
      BY <1>24 DEF StoreReason, loop, entry
    <3>5. ASSUME primary # 0, Live
          PROVE  /\ task'[primary] # "none" => conns[primary] # "absent"
                 /\ \A i \in DOMAIN signals' :
                      signals'[i] = primary => task'[primary] = "done"
      <4>1. primary \in Conns
        BY <1>0, <3>5
      <4>2. task[primary] = "done" => task'[primary] = "done"
        BY <3>1, <4>1
      <4>3. task[primary] = "none" => task'[primary] = "none"
        BY <3>1, <4>1
      <4> QED
        BY <3>3, <3>5, <4>2, <4>3 DEF Primary
    <3>6. primary # 0 /\ task[primary] = "done" => task'[primary] = "done"
      BY <1>0, <3>1
    <3> QED
      BY <3>4, <3>5, <3>6 DEF Primary, Live
  <2>3. Listed'
    BY <1>24, <1>0, <1>00 DEF Listed, Position, TaskOrder, StoreReason, Exit, loop,
       entry, outbound, server, counters
  <2>4. ErrorStored'
    BY <1>24, <1>0, <1>00 DEF BeforePrimary, Primary, Listed, ErrorStored, Live,
       Reported, IsCritical, Position, TaskOrder, StoreReason, Exit, loop, entry,
       outbound, server, counters
  <2>5. DisconnectFirst'
    BY <1>24, <1>0, <1>00 DEF BeforePrimary, Primary, DisconnectFirst, Position,
       TaskOrder, StoreReason, Exit, loop, entry, outbound, server, counters
  <2> QED
    BY <2>1, <2>2, <2>3, <2>4, <2>5
<1>25. ASSUME NEW c \in Conns, DrainedEof(c)
      PROVE  PrimaryInv'
  <2>1. BeforePrimary'
    BY <1>25, <1>0, <1>00 DEF BeforePrimary, Position, TaskOrder, DrainedEof, loop,
       entry, outbound, server, counters
  <2>2. Primary'
    BY <1>25, <1>0, <1>00 DEF BeforePrimary, Primary, Live, Position, TaskOrder,
       DrainedEof, loop, entry, outbound, server, counters
  <2>3. Listed'
    BY <1>25, <1>0, <1>00 DEF Listed, Position, TaskOrder, DrainedEof, loop, entry,
       outbound, server, counters
  <2>4. ErrorStored'
    BY <1>25, <1>0, <1>00 DEF BeforePrimary, Primary, Listed, ErrorStored, Live,
       Reported, IsCritical, Position, TaskOrder, DrainedEof, loop, entry, outbound,
       server, counters
  <2>5. DisconnectFirst'
    BY <1>25, <1>0, <1>00 DEF BeforePrimary, Primary, DisconnectFirst, Position,
       TaskOrder, DrainedEof, loop, entry, outbound, server, counters
  <2> QED
    BY <2>1, <2>2, <2>3, <2>4, <2>5
<1>26. ASSUME NEW c \in Conns, Leave(c)
      PROVE  PrimaryInv'
  <2>1. BeforePrimary'
    BY <1>26, <1>0, <1>00 DEF BeforePrimary, Position, TaskOrder, Leave, Exit, loop,
       entry, outbound, server, counters
  <2>2. Primary'
    <3>1. /\ task' \in [Conns -> {"none", "reading", "checked", "announced", "draining",
                                  "eofSent", "done"}]
          /\ task[c] # "none" /\ task[c] # "done" /\ task'[c] # "none"
          /\ \A d \in Conns : d # c => task'[d] = task[d]
      BY <1>26, <1>0 DEF Leave, Exit
    <3>2. signals' = signals \/ (signals' = Append(signals, c) /\ task'[c] = "done")
      BY <1>26, <1>0 DEF Leave, Exit
    <3>3. \A i \in DOMAIN signals' :
            \/ \E j \in DOMAIN signals : signals'[i] = signals[j]
            \/ signals'[i] = c /\ task'[c] = "done"
      <4>1. CASE signals' = signals
        BY <4>1
      <4>2. CASE signals' = Append(signals, c) /\ task'[c] = "done"
        <5>1. \A i \in DOMAIN Append(signals, c) :
                \/ i \in DOMAIN signals /\ Append(signals, c)[i] = signals[i]
                \/ Append(signals, c)[i] = c
          BY <1>0, SignalQueue
        <5> QED
          BY <4>2, <5>1
      <4> QED
        BY <3>2, <4>1, <4>2
    <3>4. UNCHANGED <<primary, cleanup, run, conns, back, told>>
      BY <1>26 DEF Leave, loop, entry
    <3>5. ASSUME primary # 0, Live
          PROVE  /\ task'[primary] # "none" => conns[primary] # "absent"
                 /\ \A i \in DOMAIN signals' :
                      signals'[i] = primary => task'[primary] = "done"
      <4>1. primary \in Conns
        BY <1>0, <3>5
      <4>2. task[primary] = "done" => task'[primary] = "done"
        BY <3>1, <4>1
      <4>3. task[primary] = "none" => task'[primary] = "none"
        BY <3>1, <4>1
      <4> QED
        BY <3>3, <3>5, <4>2, <4>3 DEF Primary
    <3>6. primary # 0 /\ task[primary] = "done" => task'[primary] = "done"
      BY <1>0, <3>1
    <3> QED
      BY <3>4, <3>5, <3>6 DEF Primary, Live
  <2>3. Listed'
    BY <1>26, <1>0, <1>00 DEF Listed, Position, TaskOrder, Leave, Exit, loop, entry,
       outbound, server, counters
  <2>4. ErrorStored'
    BY <1>26, <1>0, <1>00 DEF BeforePrimary, Primary, Listed, ErrorStored, Live,
       Reported, IsCritical, Position, TaskOrder, Leave, Exit, loop, entry, outbound,
       server, counters
  <2>5. DisconnectFirst'
    BY <1>26, <1>0, <1>00 DEF BeforePrimary, Primary, DisconnectFirst, Position,
       TaskOrder, Leave, Exit, loop, entry, outbound, server, counters
  <2> QED
    BY <2>1, <2>2, <2>3, <2>4, <2>5
<1>27. ASSUME NEW c \in Conns, NEW kinds \in Reads, ReadData(c, kinds)
      PROVE  PrimaryInv'
  <2>1. BeforePrimary'
    BY <1>27, <1>0, <1>00 DEF BeforePrimary, Position, TaskOrder, ReadData, Read, loop,
       entry, outbound, server, counters
  <2>2. Primary'
    BY <1>27, <1>0, <1>00 DEF BeforePrimary, Primary, Live, Position, TaskOrder,
       ReadData, Read, loop, entry, outbound, server, counters
  <2>3. Listed'
    BY <1>27, <1>0, <1>00 DEF Listed, Position, TaskOrder, ReadData, Read, loop, entry,
       outbound, server, counters
  <2>4. ErrorStored'
    BY <1>27, <1>0, <1>00 DEF BeforePrimary, Primary, Listed, ErrorStored, Live,
       Reported, IsCritical, Position, TaskOrder, ReadData, Read, loop, entry, outbound,
       server, counters
  <2>5. DisconnectFirst'
    BY <1>27, <1>0, <1>00 DEF BeforePrimary, Primary, DisconnectFirst, Position,
       TaskOrder, ReadData, Read, loop, entry, outbound, server, counters
  <2> QED
    BY <2>1, <2>2, <2>3, <2>4, <2>5
<1>28. ASSUME NEW c \in Conns, NEW kinds \in Reads, ReadGarbage(c, kinds)
      PROVE  PrimaryInv'
  <2>1. BeforePrimary'
    BY <1>28, <1>0, <1>00 DEF BeforePrimary, Position, TaskOrder, ReadGarbage, Read,
       Reading, loop, entry, outbound, server, counters
  <2>2. Primary'
    BY <1>28, <1>0, <1>00 DEF BeforePrimary, Primary, Live, Position, TaskOrder,
       ReadGarbage, Read, Reading, loop, entry, outbound, server, counters
  <2>3. Listed'
    BY <1>28, <1>0, <1>00 DEF Listed, Position, TaskOrder, ReadGarbage, Read, Reading,
       loop, entry, outbound, server, counters
  <2>4. ErrorStored'
    BY <1>28, <1>0, <1>00 DEF BeforePrimary, Primary, Listed, ErrorStored, Live,
       Reported, IsCritical, Position, TaskOrder, ReadGarbage, Read, Reading, loop,
       entry, outbound, server, counters
  <2>5. DisconnectFirst'
    BY <1>28, <1>0, <1>00 DEF BeforePrimary, Primary, DisconnectFirst, Position,
       TaskOrder, ReadGarbage, Read, Reading, loop, entry, outbound, server, counters
  <2> QED
    BY <2>1, <2>2, <2>3, <2>4, <2>5
<1>29. ASSUME NEW c \in Conns, NEW kinds \in Reads, NEW how \in {"disconnect", "error"}, ReadClose(c, kinds, how)
      PROVE  PrimaryInv'
  <2>1. BeforePrimary'
    BY <1>29, <1>0, <1>00 DEF BeforePrimary, Position, TaskOrder, ReadClose, Read,
       Reading, loop, entry, outbound, server, counters
  <2>2. Primary'
    BY <1>29, <1>0, <1>00 DEF BeforePrimary, Primary, Live, Position, TaskOrder,
       ReadClose, Read, Reading, loop, entry, outbound, server, counters
  <2>3. Listed'
    BY <1>29, <1>0, <1>00 DEF Listed, Position, TaskOrder, ReadClose, Read, Reading,
       loop, entry, outbound, server, counters
  <2>4. ErrorStored'
    BY <1>29, <1>0, <1>00 DEF BeforePrimary, Primary, Listed, ErrorStored, Live,
       Reported, IsCritical, Position, TaskOrder, ReadClose, Read, Reading, loop, entry,
       outbound, server, counters
  <2>5. DisconnectFirst'
    BY <1>29, <1>0, <1>00 DEF BeforePrimary, Primary, DisconnectFirst, Position,
       TaskOrder, ReadClose, Read, Reading, loop, entry, outbound, server, counters
  <2> QED
    BY <2>1, <2>2, <2>3, <2>4, <2>5
<1>30. ASSUME NEW c \in Conns, NEW how \in {"eof", "gone"}, GuacdCloses(c, how)
      PROVE  PrimaryInv'
  <2>1. BeforePrimary'
    BY <1>30, <1>0, <1>00 DEF BeforePrimary, Position, TaskOrder, GuacdCloses, loop,
       entry, outbound, server, counters
  <2>2. Primary'
    BY <1>30, <1>0, <1>00 DEF BeforePrimary, Primary, Live, Position, TaskOrder,
       GuacdCloses, loop, entry, outbound, server, counters
  <2>3. Listed'
    BY <1>30, <1>0, <1>00 DEF Listed, Position, TaskOrder, GuacdCloses, loop, entry,
       outbound, server, counters
  <2>4. ErrorStored'
    BY <1>30, <1>0, <1>00 DEF BeforePrimary, Primary, Listed, ErrorStored, Live,
       Reported, IsCritical, Position, TaskOrder, GuacdCloses, loop, entry, outbound,
       server, counters
  <2>5. DisconnectFirst'
    BY <1>30, <1>0, <1>00 DEF BeforePrimary, Primary, DisconnectFirst, Position,
       TaskOrder, GuacdCloses, loop, entry, outbound, server, counters
  <2> QED
    BY <2>1, <2>2, <2>3, <2>4, <2>5
<1> QED
  BY <1>1, <1>2, <1>3, <1>4, <1>5, <1>6, <1>7, <1>8, <1>9, <1>10, <1>11, <1>12, <1>13, <1>14, <1>15, <1>16, <1>17, <1>18, <1>19, <1>20, <1>21, <1>22, <1>23, <1>24, <1>25, <1>26, <1>27, <1>28, <1>29,
     <1>30 DEF Next, RunLoop, Outbound, Peer, Guacd

LEMMA PrimaryInvariant ==
    ASSUME ~StrayCloses
    PROVE  Spec => []PrimaryInv
<1>1. Init => PrimaryInv
  BY DEF Init, PrimaryInv, BeforePrimary, Primary, Listed, ErrorStored, Live,
         DisconnectFirst
<1>2. PrimaryInv /\ UNCHANGED vars => PrimaryInv'
  BY DEF PrimaryInv, BeforePrimary, Primary, Listed, ErrorStored, Live, Reported,
         IsCritical, DisconnectFirst, vars, loop, entry, outbound, server
<1>3. SessionInv /\ PrimaryInv /\ [Next]_vars => PrimaryInv'
  BY <1>2, PrimaryStep
<1> QED
  BY <1>1, <1>3, SessionInvariant, PTL DEF Spec

\* As long as the peer closes only connections that are open, guacd gets the
\* disconnect instruction of the primary session before its TCP connection is
\* shut.
THEOREM DisconnectPrecedes ==
    ASSUME ~StrayCloses
    PROVE  Spec => []DisconnectFirst
<1>1. PrimaryInv => DisconnectFirst
  BY DEF PrimaryInv
<1> QED
  BY <1>1, PrimaryInvariant, PTL

\* As long as the peer closes only connections that are open, an error that
\* guacd reported in the primary session is what run returns, unless the tube
\* closed the channel or the reason of a lost connection is stored.
THEOREM ErrorIsResult ==
    ASSUME ~StrayCloses
    PROVE  Spec => ErrorReported
<1> DEFINE Step == (/\ run # "ended" /\ run' = "ended"
                    /\ primary # 0 /\ cause[primary] = "error" /\ closeReq = "no")
                     => result' = "CriticalUpstreamClosed" \/ reason = "ConnectionLost"
<1>1. ASSUME SessionInv, PrimaryInv, [Next]_vars, run # "ended", run' = "ended",
             primary # 0, cause[primary] = "error", closeReq = "no"
      PROVE  result' = "CriticalUpstreamClosed" \/ reason = "ConnectionLost"
  <2>1. ASSUME UNCHANGED vars \/ CloseChannel \/ NotifyRunLoop \/ Peer PROVE FALSE
    BY <1>1, <2>1 DEF vars, loop, CloseChannel, NotifyRunLoop, Peer, OpenExisting, OpenBackend,
       OpenFails, ForwardData, ForwardToDead, ClosePrimary, FailPrimary, HandleClose,
       HandleCloseChannel, LeaveLoop, Hang
  <2>2. ASSUME NEW c \in Conns, Outbound(c) \/ Guacd(c) \/ CleanupFires(c) \/ NotifyCleanup(c)
        PROVE  FALSE
    BY <1>1, <2>2 DEF loop, Outbound, ReadLost, Announce, StoreReason, DrainedEof, Leave, Guacd,
       ReadData, ReadGarbage, ReadClose, GuacdCloses, CleanupFires, NotifyCleanup
  <2>3. ASSUME RunLoop PROVE End
    BY <1>1, <2>3 DEF RunLoop, loop, SendOpened, ClearPrimary, Hang, CriticalClosure,
       LeaveCritical, LeaveLoop, IgnoreSignal, CloseBackendEnds, CloseBackend
  <2>4. End
    BY <1>1, <2>1, <2>2, <2>3 DEF Next
  <2> QED
    BY <1>1, <2>4 DEF End, PrimaryInv, ErrorStored, Reported
<1>2. SessionInv /\ PrimaryInv /\ [Next]_vars => [Step]_vars
  BY <1>1
<1> QED
  BY <1>2, SessionInvariant, PrimaryInvariant, PTL DEF Spec, ErrorReported
=============================================================================
