---------------------------- MODULE TunnelProofs ----------------------------
(***************************************************************************)
(* Proofs about Tunnel: its types, what an ended channel releases, and the  *)
(* streams of a connection.                                                 *)
(***************************************************************************)
EXTENDS Tunnel, SequenceTheorems, TLAPS

-----------------------------------------------------------------------------
(* The inductive invariant.                                                *)

\* How far the task that accepts a connection is, and what there is of the
\* connection on the srv side.
Accepted(c) ==
    /\ handler[c] = "none" => sock["srv"][c] = "none"
    /\ handler[c] \in {"none", "accepted"} => reader["srv"][c] = "none"
    /\ handler[c] # "registered" => back["srv"][c] = "none"
    /\ handler[c] = "failed" => shut["srv"][c]
    /\ handler[c] = "registered" => conns["srv"][c] # "absent" \/ shut["srv"][c]

\* Connections wait once to be registered.
Waiting ==
    /\ \A i \in DOMAIN serverConns : handler[serverConns[i]] = "queued"
    /\ \A i, j \in DOMAIN serverConns : i # j => serverConns[i] # serverConns[j]

\* An entry has a backend task, and a backend task that writes an entry.
Backends(s, c) ==
    /\ back[s][c] = "none" => conns[s][c] = "absent" /\ got[s][c] = <<>>
    /\ back[s][c] = "running" => conns[s][c] # "absent"
    /\ conns[s][c] # "absent" => back[s][c] \in {"running", "dead"}

\* A connection the gateway opened is in the table or shut.
Opening(c) ==
    /\ sock["gw"][c] # "none" => conns["gw"][c] # "absent" \/ shut["gw"][c]
    /\ back["gw"][c] = "none" => ~shut["gw"][c]

\* What the end of a run loop leaves behind, step by step.
Leaving(s) ==
    /\ run[s] = "cleanup" => \A c \in Conns : conns[s][c] # "absent" => c \in todo[s]
    /\ run[s] = "ended" => \A c \in Conns : conns[s][c] = "absent" /\ cleanup[s][c] = 0

\* A side whose run loop was left has no messages to read.
Unread(s) == run[s] # "running" => net[s] = <<>>

\* Nothing is being accepted any more when the srv side has ended.
AcceptEnds ==
    run["srv"] = "ended" => \A c \in Conns : handler[c] \notin {"accepted", "queued"}

TableInv ==
    /\ TypeOK
    /\ \A c \in Conns : Accepted(c) /\ Opening(c)
    /\ Waiting
    /\ \A s \in Sides : Unread(s) /\ Leaving(s) /\ \A c \in Conns : Backends(s, c)
    /\ AcceptEnds

IsData(m, c) == m.type = "Data" /\ m.conn = c

\* The client has finished, and the gateway has written all of it.
EndSeen(c) ==
    /\ reader["srv"][c] = "done" /\ sock["srv"][c] # "open"
    /\ \A i \in DOMAIN net["gw"] : ~IsData(net["gw"][i], c)
    /\ Len(got["gw"][c]) = out["srv"][c]

\* The client's stream: nothing is sent before the request to open, nothing
\* of it arrives before the request, what is written is all that was sent but
\* is not on its way, and the end comes last.
ToGateway(c) ==
    /\ reader["srv"][c] = "none" =>
         /\ out["srv"][c] = 0 /\ back["gw"][c] = "none"
         /\ \A i \in DOMAIN net["gw"] :
              net["gw"][i].conn = c => net["gw"][i].type \notin {"Open", "Data", "Eof"}
    /\ \A i \in DOMAIN net["gw"] : net["gw"][i] = Control("Open", c) =>
         /\ back["gw"][c] = "none"
         /\ \A j \in DOMAIN net["gw"] :
              /\ j < i => ~IsData(net["gw"][j], c)
              /\ j # i => net["gw"][j] # Control("Open", c)
         /\ InOrder(Chunks("gw", c), 0, out["srv"][c])
    /\ run["gw"] = "running" /\ back["gw"][c] = "running" =>
         InOrder(Chunks("gw", c), Len(got["gw"][c]), out["srv"][c])
    /\ \A i \in DOMAIN got["gw"][c] : got["gw"][c][i] = i
    /\ \A i \in DOMAIN net["gw"] : net["gw"][i] = Control("Eof", c) =>
         /\ reader["srv"][c] = "done" /\ sock["srv"][c] # "open"
         /\ \A j \in DOMAIN net["gw"] : j > i => ~IsData(net["gw"][j], c)
    /\ shut["gw"][c] /\ back["gw"][c] = "running" => EndSeen(c)

\* The target's stream: what is written and what is on its way follow one
\* another, once the beginning is skipped.
ToServer(c) ==
    run["srv"] = "running" /\ back["srv"][c] \in {"none", "running"} =>
      \E k, m \in 0..out["gw"][c] : /\ InOrder(got["srv"][c], k, m)
                                    /\ InOrder(Chunks("srv", c), m, out["gw"][c])

StreamInv == \A c \in Conns : ToGateway(c) /\ ToServer(c)

-----------------------------------------------------------------------------
(* Types, in parts.                                                        *)

LoopTypes ==
    /\ run \in [Sides -> {"running", "cleanup", "ended"}]
    /\ busy \in [Sides -> {0} \cup Conns]
    /\ todo \in [Sides -> SUBSET Conns]
    /\ closeReason \in [Sides -> {"none", "AdminClosed", "ConnectionLost"}]
    /\ closeReq \in [Sides -> {"no", "sent", "notified"}]

NetTypes == net \in [Sides -> Seq(Messages)]

EntryTypes ==
    /\ conns \in [Sides -> [Conns -> {"absent", "ACTIVE", "CLOSING"}]]
    /\ reader \in [Sides -> [Conns -> {"none", "running", "closing", "done"}]]
    /\ back \in [Sides -> [Conns -> {"none", "running", "dead", "done"}]]
    /\ cleanup \in [Sides -> [Conns -> Nat]]

AcceptTypes ==
    /\ handler \in [Conns -> {"none", "accepted", "queued", "registered", "failed"}]
    /\ serverConns \in Seq(Conns)

TcpTypes ==
    /\ sock \in [Sides -> [Conns -> {"none", "open", "eof", "gone"}]]
    /\ shut \in [Sides -> [Conns -> BOOLEAN]]
    /\ out \in [Sides -> [Conns -> 0..MaxData]]
    /\ got \in [Sides -> [Conns -> Seq(0..MaxData)]]

LEMMA Types ==
    /\ TypeOK <=> LoopTypes /\ NetTypes /\ EntryTypes /\ AcceptTypes /\ TcpTypes
    /\ TypeOK' <=> LoopTypes' /\ NetTypes' /\ EntryTypes' /\ AcceptTypes' /\ TcpTypes'
BY DEF TypeOK, LoopTypes, NetTypes, EntryTypes, AcceptTypes, TcpTypes

LEMMA Numbers == 0 \notin Conns /\ Conns \subseteq Nat /\ MaxData \in Nat
BY TunnelAssumption DEF Conns

LEMMA BothSides ==
    /\ Sides = {"srv", "gw"} /\ Other("srv") = "gw" /\ Other("gw") = "srv"
    /\ \A s \in Sides : Other(s) \in Sides /\ Other(s) # s /\ Other(Other(s)) = s
BY DEF Sides, Other

\* One entry of a table of connections changes.
LEMMA Update ==
    ASSUME NEW T, NEW f \in [Sides -> [Conns -> T]], NEW s \in Sides, NEW c \in Conns,
           NEW v \in T
    PROVE  /\ [f EXCEPT ![s][c] = v] \in [Sides -> [Conns -> T]]
           /\ [f EXCEPT ![s][c] = v][s][c] = v
           /\ \A t \in Sides, d \in Conns :
                t # s \/ d # c => [f EXCEPT ![s][c] = v][t][d] = f[t][d]
OBVIOUS

-----------------------------------------------------------------------------
(* Messages.                                                               *)

LEMMA MessageTypes ==
    /\ \A c \in Conns :
         /\ \A t \in {"Open", "Opened", "Eof"} : Control(t, c) \in Messages
         /\ \A d \in 1..MaxData : Data(c, d) \in Messages
         /\ \A r \in {"Normal", "ConnectionFailed", "ConnectionLost"} :
              Close(c, r) \in Messages
    /\ Close(0, "AdminClosed") \in Messages
    /\ \A m \in Messages :
         /\ m.type \in {"Open", "Opened", "Eof", "Data", "Close"}
         /\ m.type \in {"Open", "Opened", "Eof", "Data"} => m.conn \in Conns
         /\ m.type = "Data" => m.chunk \in 1..MaxData /\ m = Data(m.conn, m.chunk)
         /\ m.type \in {"Open", "Opened", "Eof"} => m = Control(m.type, m.conn)
         /\ m.type = "Close" /\ m.conn # 0 => m.conn \in Conns
         /\ m.type = "Close" /\ m.conn = 0 => m.reason = "AdminClosed"
BY Numbers DEF Messages, Control, Data, Close

\* What a step does to the two directions of the data channel.
LEMMA Transport ==
    ASSUME LoopTypes, NetTypes, NEW s \in Sides, NEW m \in Messages
    PROVE  /\ Send(s, m) =>
                /\ NetTypes' /\ net'[s] = net[s]
                /\ run[Other(s)] = "running" =>
                     net'[Other(s)] = Append(net[Other(s)], m)
                /\ run[Other(s)] # "running" => net'[Other(s)] = <<>>
           /\ net[s] # <<>> /\ Consume(s) =>
                /\ NetTypes' /\ net'[s] = Tail(net[s])
                /\ net'[Other(s)] = net[Other(s)]
           /\ net[s] # <<>> /\ ConsumeAndSend(s, m) =>
                /\ NetTypes' /\ net'[s] = Tail(net[s])
                /\ run[Other(s)] = "running" =>
                     net'[Other(s)] = Append(net[Other(s)], m)
                /\ run[Other(s)] # "running" => net'[Other(s)] = <<>>
<1>1. PICK t \in Sides : t = Other(s) /\ t # s
  BY BothSides
<1>2. net[s] \in Seq(Messages) /\ net[t] \in Seq(Messages)
  BY <1>1 DEF NetTypes
<1>3. Queue(t, m) \in Seq(Messages)
  <2>1. Append(net[t], m) \in Seq(Messages) /\ <<>> \in Seq(Messages)
    BY <1>2
  <2> QED
    BY <2>1 DEF Queue
<1>4. net[s] # <<>> => Tail(net[s]) \in Seq(Messages)
  BY <1>2
<1>5. Send(s, m) => NetTypes' /\ net'[s] = net[s] /\ net'[t] = Queue(t, m)
  BY <1>1, <1>3 DEF Send, NetTypes
<1>6. net[s] # <<>> /\ Consume(s) => NetTypes' /\ net'[s] = Tail(net[s]) /\ net'[t] = net[t]
  BY <1>1, <1>4 DEF Consume, NetTypes
<1>7. net[s] # <<>> /\ ConsumeAndSend(s, m) =>
        NetTypes' /\ net'[s] = Tail(net[s]) /\ net'[t] = Queue(t, m)
  BY <1>1, <1>3, <1>4 DEF ConsumeAndSend, NetTypes
<1> QED
  BY <1>1, <1>5, <1>6, <1>7 DEF Queue

\* The message a run loop handles.
LEMMA Received ==
    ASSUME LoopTypes, NetTypes, NEW s \in Sides, NEW t, Receives(s, t)
    PROVE  /\ run[s] = "running" /\ busy[s] = 0 /\ net[s] # <<>>
           /\ net[s] \in Seq(Messages)
           /\ Head(net[s]) \in Messages /\ Head(net[s]).type = t
BY DEF Receives, NetTypes

-----------------------------------------------------------------------------
(* What the steps that handlers share do to the table of connections.      *)

LEMMA RemoveConnEffect ==
    ASSUME EntryTypes, TcpTypes, NEW s \in Sides, NEW c \in Conns, RemoveConn(s, c),
           cleanup' \in [Sides -> [Conns -> Nat]]
    PROVE  /\ EntryTypes' /\ shut' \in [Sides -> [Conns -> BOOLEAN]]
           /\ \A t \in Sides, d \in Conns : t # s \/ d # c =>
                /\ conns'[t][d] = conns[t][d] /\ reader'[t][d] = reader[t][d]
                /\ back'[t][d] = back[t][d] /\ shut'[t][d] = shut[t][d]
           /\ conns[s][c] = "absent" => UNCHANGED <<conns, reader, back, shut>>
           /\ conns[s][c] # "absent" =>
                /\ conns'[s][c] = "absent" /\ back'[s][c] = "done" /\ shut'[s][c]
                /\ reader'[s][c] = IF reader[s][c] = "running" THEN "done" ELSE reader[s][c]
<1>1. CASE conns[s][c] = "absent"
  BY <1>1 DEF RemoveConn, EntryTypes, TcpTypes
<1>2. CASE conns[s][c] # "absent"
  <2> DEFINE r == IF reader[s][c] = "running" THEN "done" ELSE reader[s][c]
  <2>1. /\ conns' = [conns EXCEPT ![s][c] = "absent"]
        /\ reader' = [reader EXCEPT ![s][c] = r]
        /\ back' = [back EXCEPT ![s][c] = "done"]
        /\ shut' = [shut EXCEPT ![s][c] = TRUE]
    BY <1>2 DEF RemoveConn
  <2>2. r \in {"none", "running", "closing", "done"}
    BY DEF EntryTypes
  <2> HIDE DEF r
  <2>3. /\ conns' \in [Sides -> [Conns -> {"absent", "ACTIVE", "CLOSING"}]]
        /\ conns'[s][c] = "absent"
        /\ \A t \in Sides, d \in Conns : t # s \/ d # c => conns'[t][d] = conns[t][d]
    BY <2>1, Update DEF EntryTypes
  <2>4. /\ reader' \in [Sides -> [Conns -> {"none", "running", "closing", "done"}]]
        /\ reader'[s][c] = r
        /\ \A t \in Sides, d \in Conns : t # s \/ d # c => reader'[t][d] = reader[t][d]
    BY <2>1, <2>2, Update DEF EntryTypes
  <2>5. /\ back' \in [Sides -> [Conns -> {"none", "running", "dead", "done"}]]
        /\ back'[s][c] = "done"
        /\ \A t \in Sides, d \in Conns : t # s \/ d # c => back'[t][d] = back[t][d]
    BY <2>1, Update DEF EntryTypes
  <2>6. /\ shut' \in [Sides -> [Conns -> BOOLEAN]]
        /\ shut'[s][c] = TRUE
        /\ \A t \in Sides, d \in Conns : t # s \/ d # c => shut'[t][d] = shut[t][d]
    <3>1. shut \in [Sides -> [Conns -> BOOLEAN]]
      BY DEF TcpTypes
    <3>2. shut' \in [Sides -> [Conns -> BOOLEAN]]
      BY <2>1, <3>1
    <3>3. shut'[s][c] = TRUE
      BY <2>1, <3>1
    <3>4. \A t \in Sides, d \in Conns : t # s \/ d # c => shut'[t][d] = shut[t][d]
      BY <2>1, <3>1
    <3> QED
      BY <3>2, <3>3, <3>4
  <2> QED
    BY <1>2, <2>3, <2>4, <2>5, <2>6 DEF EntryTypes, r
<1> QED
  BY <1>1, <1>2

LEMMA DelayedCloseEffect ==
    ASSUME EntryTypes, NEW s \in Sides, NEW c \in Conns, DelayedClose(s, c), back' = back
    PROVE  /\ EntryTypes'
           /\ \A t \in Sides, d \in Conns :
                /\ (conns'[t][d] = "absent") <=> (conns[t][d] = "absent")
                /\ \/ reader'[t][d] = reader[t][d]
                   \/ reader[t][d] = "running" /\ reader'[t][d] = "done" /\ t = "gw"
                /\ t # s => cleanup'[t][d] = cleanup[t][d]
<1> DEFINE e == IF conns[s][c] = "absent" THEN conns[s][c] ELSE "CLOSING"
           r == IF s = "gw" /\ conns[s][c] # "absent" /\ reader[s][c] = "running"
                THEN "done" ELSE reader[s][c]
<1>1. /\ conns' = [conns EXCEPT ![s][c] = e]
      /\ reader' = [reader EXCEPT ![s][c] = r]
      /\ cleanup' = [cleanup EXCEPT ![s][c] = cleanup[s][c] + 1]
  BY DEF DelayedClose
<1>2. /\ e \in {"absent", "ACTIVE", "CLOSING"}
      /\ (e = "absent") <=> (conns[s][c] = "absent")
      /\ r \in {"none", "running", "closing", "done"}
      /\ r = reader[s][c] \/ (reader[s][c] = "running" /\ r = "done" /\ s = "gw")
      /\ cleanup[s][c] + 1 \in Nat
  BY DEF EntryTypes
<1> HIDE DEF e, r
<1>3. /\ conns' \in [Sides -> [Conns -> {"absent", "ACTIVE", "CLOSING"}]]
      /\ conns'[s][c] = e
      /\ \A t \in Sides, d \in Conns : t # s \/ d # c => conns'[t][d] = conns[t][d]
  BY <1>1, <1>2, Update DEF EntryTypes
<1>4. /\ reader' \in [Sides -> [Conns -> {"none", "running", "closing", "done"}]]
      /\ reader'[s][c] = r
      /\ \A t \in Sides, d \in Conns : t # s \/ d # c => reader'[t][d] = reader[t][d]
  BY <1>1, <1>2, Update DEF EntryTypes
<1>5. /\ cleanup' \in [Sides -> [Conns -> Nat]]
      /\ \A t \in Sides, d \in Conns : t # s \/ d # c => cleanup'[t][d] = cleanup[t][d]
  BY <1>1, <1>2, Update DEF EntryTypes
<1>6. ASSUME NEW t \in Sides, NEW d \in Conns
      PROVE  /\ (conns'[t][d] = "absent") <=> (conns[t][d] = "absent")
             /\ \/ reader'[t][d] = reader[t][d]
                \/ reader[t][d] = "running" /\ reader'[t][d] = "done" /\ t = "gw"
             /\ t # s => cleanup'[t][d] = cleanup[t][d]
  <2>1. CASE t = s /\ d = c
    BY <2>1, <1>2, <1>3, <1>4
  <2>2. CASE t # s \/ d # c
    BY <2>2, <1>3, <1>4, <1>5
  <2> QED
    BY <2>1, <2>2
<1> QED
  BY <1>3, <1>4, <1>5, <1>6 DEF EntryTypes

LEMMA WriteEffect ==
    ASSUME EntryTypes, TcpTypes, NEW s \in Sides, NEW c \in Conns,
           NEW what \in 0..MaxData, Write(s, c, what)
    PROVE  /\ back' \in [Sides -> [Conns -> {"none", "running", "dead", "done"}]]
           /\ got' \in [Sides -> [Conns -> Seq(0..MaxData)]]
           /\ \A t \in Sides, d \in Conns : t # s \/ d # c =>
                back'[t][d] = back[t][d] /\ got'[t][d] = got[t][d]
           /\ \/ /\ conns[s][c] # "absent" /\ back[s][c] = "running"
                 /\ back'[s][c] = "running"
                 /\ got'[s][c] = Append(got[s][c], what)
              \/ /\ conns[s][c] # "absent" /\ back[s][c] = "running"
                 /\ back'[s][c] = "dead" /\ got'[s][c] = got[s][c]
              \/ /\ conns[s][c] = "absent" \/ back[s][c] # "running"
                 /\ back'[s][c] = back[s][c] /\ got'[s][c] = got[s][c]
<1> DEFINE live == conns[s][c] # "absent" /\ back[s][c] = "running"
           g == IF live /\ sock[s][c] # "gone" THEN Append(got[s][c], what) ELSE got[s][c]
           b == IF live /\ sock[s][c] = "gone" THEN "dead" ELSE back[s][c]
<1>1. got' = [got EXCEPT ![s][c] = g] /\ back' = [back EXCEPT ![s][c] = b]
  BY DEF Write
<1>2. got[s][c] \in Seq(0..MaxData)
  BY DEF TcpTypes
<1>3. Append(got[s][c], what) \in Seq(0..MaxData)
  BY <1>2
<1>4. g \in Seq(0..MaxData) /\ b \in {"none", "running", "dead", "done"}
  BY <1>2, <1>3 DEF EntryTypes
<1>5. \/ live /\ b = "running" /\ g = Append(got[s][c], what)
      \/ live /\ b = "dead" /\ g = got[s][c]
      \/ ~live /\ b = back[s][c] /\ g = got[s][c]
  OBVIOUS
<1> HIDE DEF g, b
<1>6. /\ got' \in [Sides -> [Conns -> Seq(0..MaxData)]] /\ got'[s][c] = g
      /\ \A t \in Sides, d \in Conns : t # s \/ d # c => got'[t][d] = got[t][d]
  BY <1>1, <1>4, Update DEF TcpTypes
<1>7. /\ back' \in [Sides -> [Conns -> {"none", "running", "dead", "done"}]]
      /\ back'[s][c] = b
      /\ \A t \in Sides, d \in Conns : t # s \/ d # c => back'[t][d] = back[t][d]
  BY <1>1, <1>4, Update DEF EntryTypes
<1> QED
  BY <1>5, <1>6, <1>7

LEMMA LeaveLoopEffect ==
    ASSUME LoopTypes, NetTypes, NEW s \in Sides, LeaveLoop(s)
    PROVE  /\ NetTypes' /\ net'[s] = <<>> /\ net'[Other(s)] = net[Other(s)]
           /\ run' \in [Sides -> {"running", "cleanup", "ended"}]
           /\ run'[s] = "cleanup" /\ run'[Other(s)] = run[Other(s)]
           /\ todo' \in [Sides -> SUBSET Conns]
           /\ todo'[s] = {c \in Conns : conns[s][c] # "absent"}
           /\ todo'[Other(s)] = todo[Other(s)]
<1>1. Other(s) \in Sides /\ Other(s) # s
  BY BothSides
<1> QED
  BY <1>1 DEF LeaveLoop, LoopTypes, NetTypes

-----------------------------------------------------------------------------
(* Streams: sequences of chunks in which other items are 0.                *)

\* An item that is no chunk joins a stream.
LEMMA InOrderReply ==
    ASSUME NEW g \in Seq(Nat), NEW k \in Nat, NEW n \in Nat, InOrder(g, k, n)
    PROVE  InOrder(Append(g, 0), k, n)
<1> DEFINE h == Append(g, 0)
<1>1. /\ Len(g) \in Nat /\ DOMAIN g = 1..Len(g) /\ DOMAIN h = 1..(Len(g) + 1)
      /\ \A i \in DOMAIN g : h[i] = g[i] /\ i \in DOMAIN h
      /\ \A i \in DOMAIN h : i \in DOMAIN g \/ h[i] = 0
  OBVIOUS
<1> HIDE DEF h
<1>2. k <= n
  BY DEF InOrder
<1>3. \A i \in DOMAIN h : h[i] # 0 => h[i] \in (k + 1)..n
  BY <1>1 DEF InOrder
<1>4. \A i, j \in DOMAIN h : i < j /\ h[i] # 0 /\ h[j] # 0 => h[i] < h[j]
  BY <1>1 DEF InOrder
<1>5. \A d \in (k + 1)..n : \E i \in DOMAIN h : h[i] = d
  BY <1>1 DEF InOrder
<1> QED
  BY <1>2, <1>3, <1>4, <1>5 DEF InOrder, h

\* The next chunk joins a stream.
LEMMA InOrderNext ==
    ASSUME NEW g \in Seq(Nat), NEW k \in Nat, NEW n \in Nat, InOrder(g, k, n)
    PROVE  InOrder(Append(g, n + 1), k, n + 1)
<1> DEFINE h == Append(g, n + 1)
           l == Len(g) + 1
<1>1. /\ Len(g) \in Nat /\ DOMAIN g = 1..Len(g) /\ DOMAIN h = 1..l
      /\ \A i \in DOMAIN g : h[i] = g[i] /\ i \in DOMAIN h /\ i < l
      /\ \A i \in DOMAIN h : (i \in DOMAIN g /\ i < l) \/ i = l
      /\ l \in DOMAIN h /\ h[l] = n + 1 /\ l \in Nat
  OBVIOUS
<1> HIDE DEF h, l
<1>2. k <= n + 1
  BY DEF InOrder
<1>3. \A i \in DOMAIN h : h[i] # 0 => h[i] \in (k + 1)..(n + 1)
  BY <1>1 DEF InOrder
<1>4. ASSUME NEW i \in DOMAIN h, NEW j \in DOMAIN h, i < j, h[i] # 0, h[j] # 0
      PROVE  h[i] < h[j]
  <2>1. i \in DOMAIN g /\ h[i] = g[i]
    BY <1>1, <1>4
  <2>2. g[i] \in (k + 1)..n
    BY <2>1, <1>4 DEF InOrder
  <2>3. CASE j = l
    BY <2>1, <2>2, <2>3, <1>1
  <2>4. CASE j \in DOMAIN g
    BY <2>1, <2>4, <1>1, <1>4 DEF InOrder
  <2> QED
    BY <2>3, <2>4, <1>1
<1>5. ASSUME NEW d \in (k + 1)..(n + 1) PROVE \E i \in DOMAIN h : h[i] = d
  <2>1. CASE d = n + 1
    BY <2>1, <1>1
  <2>2. CASE d # n + 1
    <3>1. d \in (k + 1)..n
      BY <2>2
    <3>2. PICK i \in DOMAIN g : g[i] = d
      BY <3>1 DEF InOrder
    <3> QED
      BY <3>2, <1>1
  <2> QED
    BY <2>1, <2>2
<1> QED
  BY <1>2, <1>3, <1>4, <1>5 DEF InOrder, h

\* The head of a stream is taken: it is the next chunk or no chunk.
LEMMA InOrderTail ==
    ASSUME NEW g \in Seq(Nat), g # <<>>, NEW k \in Nat, NEW n \in Nat, InOrder(g, k, n)
    PROVE  /\ Head(g) = 0 => InOrder(Tail(g), k, n)
           /\ Head(g) # 0 => Head(g) = k + 1 /\ k + 1 <= n /\ InOrder(Tail(g), k + 1, n)
<1> DEFINE h == Tail(g)
<1>1. /\ Len(g) \in Nat /\ DOMAIN g = 1..Len(g) /\ 1 \in DOMAIN g
      /\ \A i \in DOMAIN h : h[i] = g[i + 1] /\ i + 1 \in DOMAIN g /\ i \in Nat /\ i > 0
      /\ \A i \in DOMAIN g : i # 1 => \E j \in DOMAIN h : j + 1 = i /\ h[j] = g[i]
      /\ \A i \in DOMAIN g : i \in Nat /\ i >= 1 /\ g[i] \in Nat
  <2>1. h \in Seq(Nat) /\ Len(h) = Len(g) - 1 /\ DOMAIN h = 1..(Len(g) - 1) /\ Len(g) >= 1
    OBVIOUS
  <2>2. \A i \in 1..Len(h) : h[i] = g[i + 1]
    OBVIOUS
  <2> HIDE DEF h
  <2>3. ASSUME NEW i \in 1..Len(g), i # 1
        PROVE  \E j \in DOMAIN h : j + 1 = i /\ h[j] = g[i]
    <3>1. i - 1 \in 1..Len(h) /\ (i - 1) + 1 = i
      BY <2>1, <2>3
    <3> QED
      BY <2>1, <2>2, <3>1
  <2>4. \A i \in DOMAIN h : h[i] = g[i + 1] /\ i + 1 \in DOMAIN g /\ i \in Nat /\ i > 0
    <3>1. Len(g) \in Nat /\ DOMAIN g = 1..Len(g) /\ DOMAIN h = 1..Len(h)
      BY <2>1
    <3>2. \A i \in 1..Len(h) : i + 1 \in 1..Len(g) /\ i \in Nat /\ i > 0
      BY <2>1, <3>1
    <3> QED
      BY <2>2, <3>1, <3>2
  <2>5. \A i \in DOMAIN g : i \in Nat /\ i >= 1 /\ g[i] \in Nat
    OBVIOUS
  <2>6. DOMAIN g = 1..Len(g) /\ 1 \in DOMAIN g /\ Len(g) \in Nat
    BY <2>1
  <2> QED
    BY <2>3, <2>4, <2>5, <2>6
<1>2. Head(g) = g[1]
  OBVIOUS
<1> HIDE DEF h
<1>3. /\ k <= n
      /\ \A i \in DOMAIN g : g[i] # 0 => g[i] \in (k + 1)..n
      /\ \A i, j \in DOMAIN g : i < j /\ g[i] # 0 /\ g[j] # 0 => g[i] < g[j]
      /\ \A d \in (k + 1)..n : \E i \in DOMAIN g : g[i] = d
  BY DEF InOrder
<1>4. \A i, j \in DOMAIN h : i < j /\ h[i] # 0 /\ h[j] # 0 => h[i] < h[j]
  <2> SUFFICES ASSUME NEW i \in DOMAIN h, NEW j \in DOMAIN h, i < j, h[i] # 0, h[j] # 0
               PROVE  h[i] < h[j]
    OBVIOUS
  <2>1. i + 1 < j + 1 /\ i + 1 \in DOMAIN g /\ j + 1 \in DOMAIN g
    BY <1>1
  <2> QED
    BY <1>1, <1>3, <2>1
<1>5. CASE g[1] = 0
  <2>1. \A i \in DOMAIN h : h[i] # 0 => h[i] \in (k + 1)..n
    BY <1>1, <1>3
  <2>2. ASSUME NEW d \in (k + 1)..n PROVE \E i \in DOMAIN h : h[i] = d
    <3>1. PICK i \in DOMAIN g : g[i] = d
      BY <1>3
    <3>2. i # 1
      BY <3>1, <1>5
    <3> QED
      BY <1>1, <3>1, <3>2
  <2> QED
    BY <1>2, <1>3, <1>4, <1>5, <2>1, <2>2 DEF InOrder, h
<1>6. CASE g[1] # 0
  <2>1. g[1] \in (k + 1)..n
    BY <1>1, <1>3, <1>6
  <2>2. PICK i \in DOMAIN g : g[i] = k + 1
    <3>1. k + 1 \in (k + 1)..n
      BY <2>1
    <3> QED
      BY <1>3, <3>1
  <2>3. g[1] = k + 1
    <3>1. CASE i = 1
      BY <3>1, <2>2
    <3>2. CASE i # 1
      <4>1. 1 < i /\ g[i] # 0
        BY <1>1, <2>2, <3>2
      <4>2. g[1] < g[i]
        BY <1>1, <1>3, <1>6, <4>1
      <4> QED
        BY <4>2, <2>1, <2>2
    <3> QED
      BY <3>1, <3>2
  <2>4. ASSUME NEW j \in DOMAIN h, h[j] # 0 PROVE h[j] \in (k + 2)..n
    <3>1. j + 1 \in DOMAIN g /\ g[j + 1] # 0 /\ 1 < j + 1 /\ h[j] = g[j + 1]
      BY <1>1, <2>4
    <3>2. g[1] < g[j + 1] /\ g[j + 1] \in (k + 1)..n
      BY <1>1, <1>3, <1>6, <3>1
    <3> QED
      BY <3>1, <3>2, <2>3
  <2>5. ASSUME NEW d \in (k + 2)..n PROVE \E j \in DOMAIN h : h[j] = d
    <3>1. PICK j \in DOMAIN g : g[j] = d
      BY <1>3
    <3>2. j # 1
      BY <3>1, <2>3
    <3> QED
      BY <1>1, <3>1, <3>2
  <2>6. k + 1 <= n /\ k + 1 + 1 = k + 2
    BY <2>1
  <2> QED
    BY <1>2, <1>4, <1>6, <2>3, <2>4, <2>5, <2>6 DEF InOrder, h
<1> QED
  BY <1>5, <1>6, <1>2

\* A stream without chunks is complete, and the other way round.
LEMMA InOrderEmpty ==
    ASSUME NEW g, NEW k \in Nat, NEW n \in Nat, \A i \in DOMAIN g : g[i] = 0
    PROVE  InOrder(g, k, n) <=> k = n
<1>1. ASSUME InOrder(g, k, n) PROVE k = n
  <2>1. k <= n /\ \A d \in (k + 1)..n : \E i \in DOMAIN g : g[i] = d
    BY <1>1 DEF InOrder
  <2>2. \A d \in (k + 1)..n : d # 0
    OBVIOUS
  <2>3. CASE k < n
    <3>1. n \in (k + 1)..n
      BY <2>3
    <3> QED
      BY <2>1, <2>2, <3>1
  <2> QED
    BY <2>1, <2>3
<1>2. ASSUME k = n PROVE InOrder(g, k, n)
  BY <1>2 DEF InOrder
<1> QED
  BY <1>1, <1>2

\* A stream written chunk by chunk from the first.
LEMMA InOrderFromStart ==
    ASSUME NEW g \in Seq(Nat), \A i \in DOMAIN g : g[i] = i
    PROVE  InOrder(g, 0, Len(g))
<1>1. Len(g) \in Nat /\ DOMAIN g = 1..Len(g)
  OBVIOUS
<1> QED
  BY <1>1 DEF InOrder

-----------------------------------------------------------------------------
(* The chunks of a connection on their way.                                *)

LEMMA ChunksAppend ==
    ASSUME NetTypes, NEW s \in Sides, NEW c \in Conns, NEW m \in Messages,
           net'[s] = Append(net[s], m)
    PROVE  /\ Chunks(s, c) \in Seq(Nat)
           /\ IsData(m, c) => Chunks(s, c)' = Append(Chunks(s, c), m.chunk)
           /\ ~IsData(m, c) => Chunks(s, c)' = Append(Chunks(s, c), 0)
<1> DEFINE Chunk(x) == IF IsData(x, c) THEN x.chunk ELSE 0
           q == net[s]
           g == Chunks(s, c)
           h == Chunks(s, c)'
<1>1. q \in Seq(Messages) /\ Len(q) \in Nat /\ DOMAIN q = 1..Len(q)
  BY DEF NetTypes
<1>2. \A x \in Messages : Chunk(x) \in Nat
  BY MessageTypes, Numbers DEF IsData
<1>3. /\ net'[s] \in Seq(Messages) /\ Len(net'[s]) = Len(q) + 1
      /\ DOMAIN net'[s] = 1..(Len(q) + 1)
      /\ \A i \in 1..Len(q) : net'[s][i] = q[i]
      /\ net'[s][Len(q) + 1] = m
  BY <1>1
<1>4. g = [i \in 1..Len(q) |-> Chunk(q[i])]
  BY <1>1 DEF Chunks, IsData
<1>5. h = [i \in 1..(Len(q) + 1) |-> Chunk(net'[s][i])]
  BY <1>3 DEF Chunks, IsData
<1>6. \A i \in 1..Len(q) : Chunk(q[i]) \in Nat
  BY <1>1, <1>2
<1>7. Chunk(m) \in Nat
  BY <1>2
<1> HIDE DEF Chunk
<1>8. g \in Seq(Nat) /\ Len(g) = Len(q)
  BY <1>1, <1>4, <1>6
<1>9. h \in Seq(Nat) /\ Len(h) = Len(q) + 1
  <2>1. \A i \in 1..(Len(q) + 1) : Chunk(net'[s][i]) \in Nat
    <3>1. \A i \in 1..(Len(q) + 1) : i \in 1..Len(q) \/ i = Len(q) + 1
      BY <1>1
    <3> QED
      BY <3>1, <1>3, <1>6, <1>7
  <2> QED
    BY <1>1, <1>5, <2>1
<1>10. h = Append(g, Chunk(m))
  <2>1. /\ Append(g, Chunk(m)) \in Seq(Nat) /\ Len(Append(g, Chunk(m))) = Len(q) + 1
        /\ \A i \in 1..Len(q) : Append(g, Chunk(m))[i] = g[i]
        /\ Append(g, Chunk(m))[Len(q) + 1] = Chunk(m)
    BY <1>1, <1>7, <1>8
  <2>2. ASSUME NEW i \in 1..Len(h) PROVE h[i] = Append(g, Chunk(m))[i]
    <3>1. CASE i \in 1..Len(q)
      BY <3>1, <2>1, <1>1, <1>3, <1>4, <1>5
    <3>2. CASE i = Len(q) + 1
      BY <3>2, <2>1, <1>1, <1>3, <1>5
    <3>3. i \in 1..(Len(q) + 1)
      BY <1>9
    <3>4. i \in 1..Len(q) \/ i = Len(q) + 1
      BY <3>3, <1>1
    <3> QED
      BY <3>1, <3>2, <3>4
  <2> HIDE DEF g, h
  <2> QED
    BY <2>1, <2>2, <1>9, SeqEqual
<1> QED
  BY <1>8, <1>10 DEF Chunk

LEMMA ChunksTail ==
    ASSUME NetTypes, NEW s \in Sides, NEW c \in Conns, net[s] # <<>>,
           net'[s] = Tail(net[s])
    PROVE  /\ Chunks(s, c) \in Seq(Nat) /\ Chunks(s, c) # <<>>
           /\ Chunks(s, c)' = Tail(Chunks(s, c))
           /\ IsData(Head(net[s]), c) =>
                Head(Chunks(s, c)) = Head(net[s]).chunk /\ Head(net[s]).chunk # 0
           /\ ~IsData(Head(net[s]), c) => Head(Chunks(s, c)) = 0
<1> DEFINE Chunk(x) == IF IsData(x, c) THEN x.chunk ELSE 0
           q == net[s]
           g == Chunks(s, c)
           h == Chunks(s, c)'
<1>1. /\ q \in Seq(Messages) /\ Len(q) \in Nat /\ DOMAIN q = 1..Len(q) /\ Len(q) >= 1
      /\ Head(q) = q[1] /\ q[1] \in Messages
  BY DEF NetTypes
<1>2. \A x \in Messages : Chunk(x) \in Nat /\ (IsData(x, c) => Chunk(x) # 0)
  BY MessageTypes, Numbers DEF IsData
<1>3. /\ net'[s] \in Seq(Messages) /\ Len(net'[s]) = Len(q) - 1
      /\ DOMAIN net'[s] = 1..(Len(q) - 1)
      /\ \A i \in 1..(Len(q) - 1) : net'[s][i] = q[i + 1]
  BY <1>1
<1>4. g = [i \in 1..Len(q) |-> Chunk(q[i])]
  BY <1>1 DEF Chunks, IsData
<1>5. h = [i \in 1..(Len(q) - 1) |-> Chunk(net'[s][i])]
  BY <1>3 DEF Chunks, IsData
<1>6. \A i \in 1..Len(q) : Chunk(q[i]) \in Nat
  BY <1>1, <1>2
<1> HIDE DEF Chunk
<1>7. g \in Seq(Nat) /\ Len(g) = Len(q) /\ g # <<>> /\ Head(g) = Chunk(q[1])
  BY <1>1, <1>4, <1>6
<1>8. \A i \in 1..(Len(q) - 1) : i + 1 \in 1..Len(q)
  BY <1>1
<1>9. h \in Seq(Nat) /\ Len(h) = Len(q) - 1
  BY <1>1, <1>3, <1>5, <1>6, <1>8
<1>10. h = Tail(g)
  <2>1. /\ Tail(g) \in Seq(Nat) /\ Len(Tail(g)) = Len(q) - 1
        /\ \A i \in 1..(Len(q) - 1) : Tail(g)[i] = g[i + 1]
    BY <1>1, <1>7
  <2>2. ASSUME NEW i \in 1..Len(h) PROVE h[i] = Tail(g)[i]
    <3>1. i \in 1..(Len(q) - 1) /\ i + 1 \in 1..Len(q)
      BY <1>8, <1>9
    <3> QED
      BY <3>1, <2>1, <1>3, <1>4, <1>5
  <2> HIDE DEF g, h
  <2> QED
    BY <2>1, <2>2, <1>9, <1>7, SeqEqual
<1> QED
  BY <1>1, <1>2, <1>7, <1>10 DEF Chunk

\* Without data on their way there are no chunks.
LEMMA ChunksNone ==
    ASSUME NetTypes, NEW s \in Sides, NEW c \in Conns,
           \A i \in DOMAIN net[s] : ~IsData(net[s][i], c)
    PROVE  \A i \in DOMAIN Chunks(s, c) : Chunks(s, c)[i] = 0
BY DEF Chunks, IsData

-----------------------------------------------------------------------------
(* The steps and the messages.                                             *)

LEMMA NetStep ==
    ASSUME TableInv, Next
    PROVE  NetTypes' /\ \A t \in Sides : Unread(t)'
<1>0. LoopTypes /\ NetTypes /\ EntryTypes /\ AcceptTypes /\ TcpTypes
  BY Types DEF TableInv
<1>1. \A t \in Sides : Unread(t)
  BY DEF TableInv
<1> DEFINE Goal == NetTypes' /\ \A t \in Sides : Unread(t)'
<1>2. ASSUME net' = net, run' = run PROVE Goal
  BY <1>0, <1>1, <1>2 DEF NetTypes, Unread
<1>3. ASSUME NEW s \in Sides, NEW m \in Messages, Send(s, m), run' = run PROVE Goal
  <2>1. NetTypes'
    BY <1>0, <1>3, Transport
  <2>2. Unread(s)' /\ Unread(Other(s))'
    BY <1>0, <1>1, <1>3, Transport DEF Unread
  <2> QED
    BY <2>1, <2>2, BothSides
<1>4. ASSUME NEW s \in Sides, net[s] # <<>>, run[s] = "running", Consume(s), run' = run
      PROVE  Goal
  <2>1. Close(0, "AdminClosed") \in Messages
    BY MessageTypes
  <2>2. NetTypes' /\ net'[Other(s)] = net[Other(s)]
    BY <1>0, <1>4, <2>1, Transport
  <2>3. Unread(s)' /\ Unread(Other(s))'
    BY <1>1, <1>4, <2>2, BothSides DEF Unread
  <2> QED
    BY <2>2, <2>3, BothSides
<1>5. ASSUME NEW s \in Sides, net[s] # <<>>, run[s] = "running", NEW m \in Messages,
             ConsumeAndSend(s, m), run' = run
      PROVE  Goal
  <2>1. NetTypes'
    BY <1>0, <1>5, Transport
  <2>2. Unread(s)' /\ Unread(Other(s))'
    BY <1>0, <1>1, <1>5, Transport DEF Unread
  <2> QED
    BY <2>1, <2>2, BothSides
<1>6. ASSUME NEW s \in Sides, LeaveLoop(s) PROVE Goal
  <2>1. /\ NetTypes' /\ net'[s] = <<>> /\ net'[Other(s)] = net[Other(s)]
        /\ run'[Other(s)] = run[Other(s)]
    BY <1>0, <1>6, LeaveLoopEffect
  <2>2. Unread(s)' /\ Unread(Other(s))'
    BY <1>1, <2>1, BothSides DEF Unread
  <2> QED
    BY <2>1, <2>2, BothSides
<1> HIDE DEF Goal
<1>7. ASSUME NEW s \in Sides,
             RunLoop(s) \/ CloseChannel(s) \/ Notify(s) \/ Shutdown(s)
      PROVE  Goal
  <2>1. \A t : Receives(s, t) => net[s] # <<>> /\ run[s] = "running"
                                   /\ Head(net[s]) \in Messages /\ Head(net[s]).type = t
    BY <1>0, Received
  <2>2. CASE ForwardData(s) \/ HandleClose(s)
    BY <2>1, <2>2, <1>4 DEF ForwardData, HandleClose, loop
  <2>3. CASE ForwardToDead(s)
    <3>1. /\ Receives(s, "Data") /\ run' = run
          /\ ConsumeAndSend(s, Close(Head(net[s]).conn, "ConnectionLost"))
      BY <2>3 DEF ForwardToDead, loop
    <3>2. Close(Head(net[s]).conn, "ConnectionLost") \in Messages
      BY <2>1, <3>1, MessageTypes
    <3> QED
      BY <2>1, <3>1, <3>2, <1>5
  <2>4. CASE HandleCloseChannel(s)
    BY <2>4, <1>6 DEF HandleCloseChannel
  <2>5. CASE s = "srv" /\ Register
    BY <2>5, <1>2 DEF Register, loop
  <2>6. CASE s = "srv" /\ HandleConnectionOpened
    BY <2>1, <2>6, <1>4 DEF HandleConnectionOpened, loop
  <2>7. CASE s = "gw" /\ (OpenBackend \/ OpenRefused \/ HandleSendEof)
    BY <2>1, <2>7, <1>4 DEF OpenBackend, OpenRefused, HandleSendEof, loop
  <2>8. CASE s = "gw" /\ OpenFails
    <3>1. /\ Receives(s, "Open") /\ run' = run
          /\ ConsumeAndSend(s, Close(Head(net[s]).conn, "ConnectionFailed"))
      BY <2>8 DEF OpenFails, loop
    <3>2. Close(Head(net[s]).conn, "ConnectionFailed") \in Messages
      BY <2>1, <3>1, MessageTypes
    <3> QED
      BY <2>1, <3>1, <3>2, <1>5
  <2>9. CASE s = "gw" /\ Opened
    <3>1. busy[s] \in Conns /\ Send(s, Control("Opened", busy[s])) /\ run' = run
      BY <1>0, <2>9 DEF Opened, LoopTypes
    <3> QED
      BY <3>1, <1>3, MessageTypes
  <2>10. CASE CloseChannel(s)
    BY <2>10, <1>3, MessageTypes DEF CloseChannel
  <2>11. CASE NotifyRunLoop(s)
    BY <2>11, <1>2, <1>6 DEF NotifyRunLoop
  <2>12. CASE \E c \in Conns : NotifyCleanup(s, c)
    BY <2>12, <1>2 DEF NotifyCleanup
  <2>13. CASE CloseBackendEnds(s)
    BY <2>13, <1>2 DEF CloseBackendEnds
  <2>14. ASSUME NEW c \in Conns, CloseBackend(s, c) PROVE Goal
    BY <2>14, <1>3, MessageTypes DEF CloseBackend
  <2>15. CASE End(s)
    <3>1. /\ net' = net /\ run[s] = "cleanup"
          /\ run'[Other(s)] = run[Other(s)]
      BY <2>15, <1>0, BothSides DEF End, LoopTypes
    <3>2. NetTypes' /\ Unread(s)' /\ Unread(Other(s))'
      BY <3>1, <1>0, <1>1, BothSides DEF NetTypes, Unread
    <3> QED
      BY <3>2, BothSides DEF Goal
  <2> QED
    BY <1>7, <2>2, <2>3, <2>4, <2>5, <2>6, <2>7, <2>8, <2>9, <2>10, <2>11, <2>12, <2>13,
       <2>14, <2>15 DEF RunLoop, Notify, Shutdown
<1>8. ASSUME NEW s \in Sides, NEW c \in Conns,
             \/ ReaderTask(s, c) \/ CleanupFires(s, c)
             \/ PeerFinishes(s, c) \/ PeerResets(s, c)
      PROVE  Goal
  <2>1. CASE CleanupFires(s, c) \/ PeerFinishes(s, c) \/ PeerResets(s, c)
    BY <2>1, <1>2 DEF CleanupFires, PeerFinishes, PeerResets, loop
  <2>2. CASE Read(s, c)
    <3>1. out[s][c] \in 0..MaxData /\ out[s][c] < MaxData /\ MaxData \in Nat
      BY <2>2, <1>0, Numbers DEF Read, TcpTypes
    <3>2. Data(c, out[s][c] + 1) \in Messages
      BY <3>1, MessageTypes
    <3> QED
      BY <2>2, <3>2, <1>3 DEF Read, loop
  <2>3. CASE ReadError(s, c)
    BY <2>3, <1>2 DEF ReadError, loop
  <2>4. CASE s = "srv" /\ ReadEofAtServer(c)
    BY <2>4, <1>3, MessageTypes DEF ReadEofAtServer, loop
  <2>5. CASE s = "gw" /\ ReadEofAtGateway(c)
    BY <2>5, <1>2, <1>3, MessageTypes DEF ReadEofAtGateway, loop
  <2>6. CASE s = "gw" /\ StoreCloseReason(c)
    BY <2>6, <1>2 DEF StoreCloseReason
  <2> QED
    BY <1>8, <2>1, <2>2, <2>3, <2>4, <2>5, <2>6 DEF ReaderTask
<1>9. ASSUME NEW c \in Conns, Accept(c) \/ HandshakeFails(c) \/ SendOpen(c) PROVE Goal
  <2>1. CASE Accept(c) \/ HandshakeFails(c)
    BY <2>1, <1>2 DEF Accept, HandshakeFails, loop
  <2>2. CASE SendOpen(c)
    BY <2>2, <1>3, MessageTypes, BothSides DEF SendOpen, loop
  <2> QED
    BY <1>9, <2>1, <2>2
<1> QED
  BY <1>7, <1>8, <1>9 DEF Next, Goal

-----------------------------------------------------------------------------
(* The steps and the table of connections.                                 *)

LEMMA TableStep ==
    ASSUME TableInv, Next
    PROVE  TableInv'
<1>0. LoopTypes /\ NetTypes /\ EntryTypes /\ AcceptTypes /\ TcpTypes
  BY Types DEF TableInv
<1>a. /\ \A c \in Conns : Accepted(c) /\ Opening(c)
      /\ Waiting /\ AcceptEnds
      /\ \A s \in Sides : Leaving(s) /\ \A c \in Conns : Backends(s, c)
  BY DEF TableInv
<1>b. ASSUME LoopTypes', EntryTypes', AcceptTypes', TcpTypes',
             \A d \in Conns : Accepted(d)', \A d \in Conns : Opening(d)',
             Waiting', \A t \in Sides : Leaving(t)',
             \A t \in Sides, d \in Conns : Backends(t, d)', AcceptEnds'
      PROVE  TableInv'
  BY <1>b, NetStep, Types DEF TableInv
<1>1. ASSUME NEW c \in Conns, Accept(c) PROVE TableInv'
  <2>1. /\ LoopTypes' /\ EntryTypes'
        /\ \A t \in Sides : Leaving(t)'
        /\ \A t \in Sides, d \in Conns : Backends(t, d)'
    BY <1>1, <1>0, <1>a DEF LoopTypes, EntryTypes, Leaving, Backends, Accept, loop, entry
  <2>2. AcceptTypes'
    BY <1>1, <1>0, <1>a DEF AcceptTypes, Accept
  <2>3. TcpTypes'
    BY <1>1, <1>0, <1>a DEF TcpTypes, Accept
  <2>4. \A d \in Conns : Accepted(d)'
    BY <1>1, <1>0, <1>a DEF AcceptTypes, Accepted, Accept, entry
  <2>5. \A d \in Conns : Opening(d)'
    BY <1>1, <1>0, <1>a DEF Opening, Accept, entry
  <2>6. Waiting'
    BY <1>1, <1>0, <1>a DEF Waiting, Accept
  <2>7. AcceptEnds'
    BY <1>1, <1>0, <1>a DEF AcceptEnds, Accept, loop
  <2> QED
    BY <2>1, <2>2, <2>3, <2>4, <2>5, <2>6, <2>7, <1>b
<1>2. ASSUME NEW c \in Conns, HandshakeFails(c) PROVE TableInv'
  <2>1. /\ LoopTypes' /\ EntryTypes'
        /\ \A t \in Sides : Leaving(t)'
        /\ \A t \in Sides, d \in Conns : Backends(t, d)'
    BY <1>2, <1>0, <1>a
       DEF LoopTypes, EntryTypes, Leaving, Backends, HandshakeFails, loop, entry
  <2>2. AcceptTypes'
    BY <1>2, <1>0, <1>a DEF AcceptTypes, HandshakeFails
  <2>3. TcpTypes'
    BY <1>2, <1>0, <1>a DEF TcpTypes, HandshakeFails
  <2>4. \A d \in Conns : Accepted(d)'
    BY <1>2, <1>0, <1>a, BothSides DEF TcpTypes, Accepted, HandshakeFails, entry
  <2>5. \A d \in Conns : Opening(d)'
    BY <1>2, <1>0, <1>a DEF Opening, HandshakeFails, entry
  <2>6. Waiting'
    BY <1>2, <1>0, <1>a DEF Waiting, HandshakeFails
  <2>7. AcceptEnds'
    BY <1>2, <1>0, <1>a DEF AcceptEnds, HandshakeFails, loop
  <2> QED
    BY <2>1, <2>2, <2>3, <2>4, <2>5, <2>6, <2>7, <1>b
<1>3. ASSUME NEW c \in Conns, SendOpen(c) PROVE TableInv'
  <2>1. /\ LoopTypes' /\ TcpTypes'
        /\ \A d \in Conns : Opening(d)'
        /\ \A t \in Sides : Leaving(t)'
        /\ \A t \in Sides, d \in Conns : Backends(t, d)'
    BY <1>3, <1>0, <1>a
       DEF LoopTypes, TcpTypes, Opening, Leaving, Backends, SendOpen, loop, tcp
  <2>2. EntryTypes'
    BY <1>3, <1>0, <1>a DEF EntryTypes, SendOpen
  <2>3. AcceptTypes'
    BY <1>3, <1>0, <1>a DEF AcceptTypes, SendOpen
  <2>4. \A d \in Conns : Accepted(d)'
    BY <1>3, <1>0, <1>a DEF AcceptTypes, Accepted, SendOpen, tcp
  <2>5. Waiting'
    BY <1>3, <1>0, <1>a DEF AcceptTypes, Waiting, SendOpen
  <2>6. AcceptEnds'
    BY <1>3, <1>0, <1>a DEF AcceptEnds, SendOpen, loop
  <2> QED
    BY <2>1, <2>2, <2>3, <2>4, <2>5, <2>6, <1>b
<1>4. CASE Register
  <2>1. LoopTypes' /\ TcpTypes'
    BY <1>4, <1>0, <1>a DEF LoopTypes, TcpTypes, Register, loop, tcp
  <2>2. EntryTypes'
    BY <1>4, <1>0, <1>a DEF EntryTypes, Register
  <2>3. AcceptTypes'
    BY <1>4, <1>0, <1>a DEF AcceptTypes, Register
  <2>4. \A d \in Conns : Accepted(d)'
    BY <1>4, <1>0, <1>a, BothSides DEF EntryTypes, AcceptTypes, Accepted, Register, tcp
  <2>5. \A d \in Conns : Opening(d)'
    BY <1>4, <1>0, <1>a DEF Opening, Register, tcp
  <2>6. Waiting'
    <3>1. /\ serverConns # <<>> /\ serverConns' = Tail(serverConns)
          /\ handler' = [handler EXCEPT ![Head(serverConns)] = "registered"]
      BY <1>4 DEF Register
    <3>2. /\ serverConns \in Seq(Conns)
          /\ \A i \in DOMAIN serverConns' :
               /\ i + 1 \in DOMAIN serverConns /\ i + 1 # 1 /\ 1 \in DOMAIN serverConns
               /\ serverConns'[i] = serverConns[i + 1]
          /\ \A i, j \in DOMAIN serverConns' : i # j => i + 1 # j + 1
      BY <1>0, <3>1 DEF AcceptTypes
    <3>3. \A i \in DOMAIN serverConns : serverConns[i] \in Conns
      BY <3>2
    <3>4. Head(serverConns) = serverConns[1]
      BY <3>1, <3>2
    <3> QED
      BY <1>0, <1>a, <3>1, <3>2, <3>3, <3>4 DEF Waiting
  <2>7. \A t \in Sides : Leaving(t)'
    BY <1>4, <1>0, <1>a DEF Leaving, Register, loop
  <2>8. \A t \in Sides, d \in Conns : Backends(t, d)'
    BY <1>4, <1>0, <1>a DEF EntryTypes, Backends, Register, tcp
  <2>9. AcceptEnds'
    BY <1>4, <1>0, <1>a DEF AcceptEnds, Register, loop
  <2> QED
    BY <2>1, <2>2, <2>3, <2>4, <2>5, <2>6, <2>7, <2>8, <2>9, <1>b
<1>5. CASE OpenBackend
  <2>e. Head(net["gw"]).conn \in Conns
    BY <1>5, <1>0, Received, MessageTypes, BothSides DEF OpenBackend
  <2>1. AcceptTypes' /\ Waiting' /\ AcceptEnds'
    BY <1>5, <1>0, <1>a DEF AcceptTypes, Waiting, AcceptEnds, OpenBackend, accept
  <2>2. LoopTypes'
    BY <1>5, <1>0, <1>a, <2>e DEF LoopTypes, OpenBackend
  <2>3. EntryTypes'
    BY <1>5, <1>0, <1>a, <2>e DEF EntryTypes, OpenBackend
  <2>4. TcpTypes'
    BY <1>5, <1>0, <1>a, <2>e DEF TcpTypes, OpenBackend
  <2>5. \A d \in Conns : Accepted(d)'
    BY <1>5, <1>0, <1>a, <2>e DEF Accepted, OpenBackend, accept
  <2>6. \A d \in Conns : Opening(d)'
    BY <1>5, <1>0, <1>a, <2>e, BothSides DEF EntryTypes, Opening, OpenBackend
  <2>7. \A t \in Sides : Leaving(t)'
    <3>1. /\ UNCHANGED <<run, todo, cleanup>> /\ run["gw"] = "running"
          /\ \A d \in Conns : conns'["srv"][d] = conns["srv"][d]
      BY <1>5, <1>0, Received, BothSides DEF OpenBackend
    <3> QED
      BY <3>1, <1>a, BothSides DEF Leaving
  <2>8. \A t \in Sides, d \in Conns : Backends(t, d)'
    BY <1>5, <1>0, <1>a, <2>e DEF EntryTypes, Backends, OpenBackend
  <2> QED
    BY <2>1, <2>2, <2>3, <2>4, <2>5, <2>6, <2>7, <2>8, <1>b
<1>6. CASE OpenFails
  <2>1. /\ LoopTypes' /\ EntryTypes' /\ AcceptTypes' /\ TcpTypes'
        /\ \A d \in Conns : Accepted(d)'
        /\ \A d \in Conns : Opening(d)'
        /\ Waiting'
        /\ \A t \in Sides : Leaving(t)'
        /\ \A t \in Sides, d \in Conns : Backends(t, d)'
        /\ AcceptEnds'
    BY <1>6, <1>0, <1>a
       DEF LoopTypes, EntryTypes, AcceptTypes, TcpTypes, Accepted, Opening, Waiting,
           Leaving, Backends, AcceptEnds, OpenFails, loop, entry, accept, tcp
  <2> QED
    BY <2>1, <1>b
<1>7. CASE OpenRefused
  <2>1. /\ LoopTypes' /\ EntryTypes' /\ AcceptTypes' /\ TcpTypes'
        /\ \A d \in Conns : Accepted(d)'
        /\ \A d \in Conns : Opening(d)'
        /\ Waiting'
        /\ \A t \in Sides : Leaving(t)'
        /\ \A t \in Sides, d \in Conns : Backends(t, d)'
        /\ AcceptEnds'
    BY <1>7, <1>0, <1>a
       DEF LoopTypes, EntryTypes, AcceptTypes, TcpTypes, Accepted, Opening, Waiting,
           Leaving, Backends, AcceptEnds, OpenRefused, loop, entry, accept, tcp
  <2> QED
    BY <2>1, <1>b
<1>8. CASE Opened
  <2>1. /\ EntryTypes' /\ AcceptTypes' /\ TcpTypes'
        /\ \A d \in Conns : Accepted(d)'
        /\ \A d \in Conns : Opening(d)'
        /\ Waiting'
        /\ \A t \in Sides : Leaving(t)'
        /\ \A t \in Sides, d \in Conns : Backends(t, d)'
        /\ AcceptEnds'
    BY <1>8, <1>0, <1>a
       DEF EntryTypes, AcceptTypes, TcpTypes, Accepted, Opening, Waiting, Leaving,
           Backends, AcceptEnds, Opened, entry, accept, tcp
  <2>2. LoopTypes'
    BY <1>8, <1>0, <1>a DEF LoopTypes, Opened
  <2> QED
    BY <2>1, <2>2, <1>b
<1>9. CASE HandleConnectionOpened
  <2>c. Head(net["srv"]).conn \in Conns
    BY <1>9, <1>0, Received, MessageTypes, BothSides DEF HandleConnectionOpened
  <2>e. /\ back' \in [Sides -> [Conns -> {"none", "running", "dead", "done"}]]
        /\ got' \in [Sides -> [Conns -> Seq(0..MaxData)]]
        /\ \A t \in Sides, d \in Conns :
             \/ back'[t][d] = back[t][d] /\ got'[t][d] = got[t][d]
             \/ /\ back[t][d] = "running" /\ back'[t][d] \in {"running", "dead"}
                /\ conns[t][d] # "absent"
    <3>1. CASE Socks5
      <4>1. Write("srv", Head(net["srv"]).conn, Reply) /\ Reply \in 0..MaxData
        BY <1>9, <3>1, Numbers DEF HandleConnectionOpened, Reply
      <4> QED
        BY <4>1, <2>c, <1>0, <3>1, WriteEffect, BothSides
    <3>2. CASE ~Socks5
      BY <1>9, <3>2, <1>0 DEF HandleConnectionOpened, EntryTypes, TcpTypes
    <3> QED
      BY <3>1, <3>2
  <2>1. /\ LoopTypes' /\ AcceptTypes' /\ Waiting'
        /\ \A t \in Sides : Leaving(t)'
        /\ AcceptEnds'
    BY <1>9, <1>0, <1>a
       DEF LoopTypes, AcceptTypes, Waiting, Leaving, AcceptEnds, HandleConnectionOpened,
           loop, accept
  <2>2. EntryTypes'
    BY <1>9, <1>0, <1>a, <2>e, <2>c DEF EntryTypes, HandleConnectionOpened
  <2>3. TcpTypes'
    BY <1>9, <1>0, <1>a, <2>e, <2>c DEF TcpTypes, HandleConnectionOpened
  <2>4. \A d \in Conns : Accepted(d)'
    BY <1>9, <1>0, <1>a, <2>e, <2>c, BothSides DEF Accepted, HandleConnectionOpened, accept
  <2>5. \A d \in Conns : Opening(d)'
    BY <1>9, <1>0, <1>a, <2>e, <2>c, BothSides DEF Opening, HandleConnectionOpened
  <2>6. \A t \in Sides, d \in Conns : Backends(t, d)'
    BY <1>9, <1>0, <1>a, <2>e, <2>c, BothSides DEF Backends, HandleConnectionOpened
  <2> QED
    BY <2>1, <2>2, <2>3, <2>4, <2>5, <2>6, <1>b
<1>10. ASSUME NEW s \in Sides, ForwardData(s) PROVE TableInv'
  <2>c. Head(net[s]).conn \in Conns /\ Head(net[s]).chunk \in 0..MaxData
    BY <1>10, <1>0, Received, MessageTypes DEF ForwardData
  <2>e. /\ back' \in [Sides -> [Conns -> {"none", "running", "dead", "done"}]]
        /\ got' \in [Sides -> [Conns -> Seq(0..MaxData)]]
        /\ \A t \in Sides, d \in Conns :
             \/ back'[t][d] = back[t][d] /\ got'[t][d] = got[t][d]
             \/ /\ back[t][d] = "running" /\ back'[t][d] \in {"running", "dead"}
                /\ conns[t][d] # "absent"
    <3>1. Write(s, Head(net[s]).conn, Head(net[s]).chunk)
      BY <1>10 DEF ForwardData
    <3> QED
      BY <3>1, <2>c, <1>0, WriteEffect
  <2>1. /\ LoopTypes' /\ AcceptTypes' /\ Waiting'
        /\ \A t \in Sides : Leaving(t)'
        /\ AcceptEnds'
    BY <1>10, <1>0, <1>a
       DEF LoopTypes, AcceptTypes, Waiting, Leaving, AcceptEnds, ForwardData, loop, accept
  <2>2. EntryTypes'
    BY <1>10, <1>0, <1>a, <2>e, <2>c DEF EntryTypes, ForwardData
  <2>3. TcpTypes'
    BY <1>10, <1>0, <1>a, <2>e, <2>c DEF TcpTypes, ForwardData
  <2>4. \A d \in Conns : Accepted(d)'
    BY <1>10, <1>0, <1>a, <2>e, <2>c, BothSides DEF Accepted, ForwardData, accept
  <2>5. \A d \in Conns : Opening(d)'
    <3>1. UNCHANGED <<sock, conns, shut>> /\ "gw" \in Sides
      BY <1>10, BothSides DEF ForwardData
    <3> QED
      BY <3>1, <2>e, <1>a DEF Opening
  <2>6. \A t \in Sides, d \in Conns : Backends(t, d)'
    BY <1>10, <1>0, <1>a, <2>e, <2>c, Numbers, BothSides DEF Backends, ForwardData
  <2> QED
    BY <2>1, <2>2, <2>3, <2>4, <2>5, <2>6, <1>b
<1>11. ASSUME NEW s \in Sides, ForwardToDead(s) PROVE TableInv'
  <2>c. Head(net[s]).conn \in Conns /\ run[s] = "running"
    BY <1>11, <1>0, Received, MessageTypes DEF ForwardToDead
  <2>e. /\ EntryTypes'
        /\ \A t \in Sides, d \in Conns :
             /\ (conns'[t][d] = "absent") <=> (conns[t][d] = "absent")
             /\ reader'[t][d] = reader[t][d] \/ reader[t][d] = "running"
             /\ t # s => cleanup'[t][d] = cleanup[t][d]
    <3>1. DelayedClose(s, Head(net[s]).conn) /\ back' = back
      BY <1>11 DEF ForwardToDead
    <3> QED
      BY <3>1, <2>c, <1>0, DelayedCloseEffect
  <2>1. LoopTypes' /\ AcceptTypes' /\ TcpTypes' /\ Waiting' /\ AcceptEnds'
    BY <1>11, <1>0, <1>a
       DEF LoopTypes, AcceptTypes, TcpTypes, Waiting, AcceptEnds, ForwardToDead, loop,
           accept, tcp
  <2>2. EntryTypes'
    BY <2>e
  <2>3. \A d \in Conns : Accepted(d)'
    <3>1. UNCHANGED <<handler, sock, back, shut>> /\ "srv" \in Sides
      BY <1>11, BothSides DEF ForwardToDead, accept, tcp
    <3> QED
      BY <3>1, <2>e, <1>a DEF Accepted, Backends
  <2>4. \A d \in Conns : Opening(d)'
    BY <1>11, <1>0, <1>a, <2>e, <2>c, BothSides DEF Opening, ForwardToDead, tcp
  <2>5. \A t \in Sides : Leaving(t)'
    BY <1>11, <1>0, <1>a, <2>e, <2>c DEF Leaving, ForwardToDead, loop
  <2>6. \A t \in Sides, d \in Conns : Backends(t, d)'
    BY <1>11, <1>0, <1>a, <2>e, <2>c DEF Backends, ForwardToDead, tcp
  <2> QED
    BY <2>1, <2>2, <2>3, <2>4, <2>5, <2>6, <1>b
<1>12. CASE HandleSendEof
  <2>c. Head(net["gw"]).conn \in Conns
    BY <1>12, <1>0, Received, MessageTypes, BothSides DEF HandleSendEof
  <2>e. /\ shut' \in [Sides -> [Conns -> BOOLEAN]]
        /\ \A t \in Sides, d \in Conns :
             \/ shut'[t][d] = shut[t][d]
             \/ t = "gw" /\ shut'[t][d] /\ back[t][d] = "running"
    <3> DEFINE c == Head(net["gw"]).conn
               v == shut["gw"][c] \/ (conns["gw"][c] # "absent" /\ back["gw"][c] = "running")
    <3>1. shut' = [shut EXCEPT !["gw"][c] = v] /\ shut \in [Sides -> [Conns -> BOOLEAN]]
      BY <1>12, <1>0 DEF HandleSendEof, TcpTypes
    <3>2. v \in BOOLEAN /\ (v => shut["gw"][c] \/ back["gw"][c] = "running")
      BY <3>1
    <3>3. c \in Conns /\ "gw" \in Sides
      BY <2>c, BothSides
    <3> HIDE DEF c, v
    <3>4. /\ shut' \in [Sides -> [Conns -> BOOLEAN]] /\ shut'["gw"][c] = v
          /\ \A t \in Sides, d \in Conns : t # "gw" \/ d # c => shut'[t][d] = shut[t][d]
      BY <3>1, <3>2, <3>3, Update
    <3>5. v = shut["gw"][c] \/ (v /\ back["gw"][c] = "running")
      BY <3>1, <3>3 DEF v
    <3> QED
      BY <3>4, <3>5
  <2>1. /\ LoopTypes' /\ EntryTypes' /\ AcceptTypes' /\ Waiting'
        /\ \A t \in Sides : Leaving(t)'
        /\ \A t \in Sides, d \in Conns : Backends(t, d)'
        /\ AcceptEnds'
    BY <1>12, <1>0, <1>a
       DEF LoopTypes, EntryTypes, AcceptTypes, Waiting, Leaving, Backends, AcceptEnds,
           HandleSendEof, loop, entry, accept
  <2>2. TcpTypes'
    BY <1>12, <1>0, <1>a, <2>e, <2>c DEF TcpTypes, HandleSendEof
  <2>3. \A d \in Conns : Accepted(d)'
    BY <1>12, <1>0, <1>a, <2>e, <2>c DEF Accepted, HandleSendEof, entry, accept
  <2>4. \A d \in Conns : Opening(d)'
    BY <1>12, <1>0, <1>a, <2>e, <2>c DEF Opening, HandleSendEof, entry
  <2> QED
    BY <2>1, <2>2, <2>3, <2>4, <1>b
<1>13. ASSUME NEW s \in Sides, HandleClose(s) PROVE TableInv'
  <2>c. Head(net[s]).conn \in Conns /\ run[s] = "running"
    BY <1>13, <1>0, Received, MessageTypes DEF HandleClose
  <2>e. /\ EntryTypes' /\ shut' \in [Sides -> [Conns -> BOOLEAN]]
        /\ \A t \in Sides, d \in Conns :
             /\ reader'[t][d] = reader[t][d] \/ reader[t][d] = "running"
             /\ t # s => cleanup'[t][d] = cleanup[t][d]
             /\ \/ /\ (conns'[t][d] = "absent") <=> (conns[t][d] = "absent")
                   /\ back'[t][d] = back[t][d] /\ shut'[t][d] = shut[t][d]
                \/ /\ conns[t][d] # "absent" /\ conns'[t][d] = "absent"
                   /\ back'[t][d] = "done" /\ shut'[t][d]
    <3>1. CASE RemoveConn(s, Head(net[s]).conn) /\ UNCHANGED cleanup
      <4>1. cleanup' \in [Sides -> [Conns -> Nat]]
        BY <3>1, <1>0 DEF EntryTypes
      <4> QED
        BY <3>1, <4>1, <2>c, <1>0, RemoveConnEffect
    <3>2. CASE DelayedClose(s, Head(net[s]).conn) /\ UNCHANGED <<back, shut>>
      <4>1. shut' \in [Sides -> [Conns -> BOOLEAN]]
        BY <3>2, <1>0 DEF TcpTypes
      <4> QED
        BY <3>2, <4>1, <2>c, <1>0, DelayedCloseEffect
    <3> QED
      BY <1>13, <3>1, <3>2 DEF HandleClose
  <2>1. LoopTypes' /\ AcceptTypes' /\ Waiting' /\ AcceptEnds'
    BY <1>13, <1>0, <1>a
       DEF LoopTypes, AcceptTypes, Waiting, AcceptEnds, HandleClose, loop, accept
  <2>2. EntryTypes'
    BY <2>e
  <2>3. TcpTypes'
    BY <1>13, <1>0, <1>a, <2>e, <2>c DEF TcpTypes, HandleClose
  <2>4. \A d \in Conns : Accepted(d)'
    <3>1. UNCHANGED <<handler, sock>> /\ "srv" \in Sides
      BY <1>13, BothSides DEF HandleClose, accept
    <3> QED
      BY <3>1, <2>e, <1>a DEF Accepted, Backends
  <2>5. \A d \in Conns : Opening(d)'
    <3>1. UNCHANGED sock /\ "gw" \in Sides
      BY <1>13, BothSides DEF HandleClose
    <3> QED
      BY <3>1, <2>e, <1>a DEF Opening, Backends
  <2>6. \A t \in Sides : Leaving(t)'
    BY <1>13, <1>0, <1>a, <2>e, <2>c DEF Leaving, HandleClose, loop
  <2>7. \A t \in Sides, d \in Conns : Backends(t, d)'
    <3>1. got' = got
      BY <1>13 DEF HandleClose
    <3> QED
      BY <3>1, <2>e, <1>a DEF Backends
  <2> QED
    BY <2>1, <2>2, <2>3, <2>4, <2>5, <2>6, <2>7, <1>b
<1>14. ASSUME NEW s \in Sides, HandleCloseChannel(s) PROVE TableInv'
  <2>c. Head(net[s]).reason = "AdminClosed" /\ run[s] = "running"
    BY <1>14, <1>0, Received, MessageTypes DEF HandleCloseChannel
  <2>e. /\ run' \in [Sides -> {"running", "cleanup", "ended"}]
        /\ run'[s] = "cleanup" /\ run'[Other(s)] = run[Other(s)]
        /\ todo' \in [Sides -> SUBSET Conns]
        /\ todo'[s] = {d \in Conns : conns[s][d] # "absent"}
        /\ todo'[Other(s)] = todo[Other(s)]
    BY <1>14, <1>0, LeaveLoopEffect DEF HandleCloseChannel
  <2>1. /\ EntryTypes' /\ AcceptTypes' /\ TcpTypes'
        /\ \A d \in Conns : Accepted(d)'
        /\ \A d \in Conns : Opening(d)'
        /\ Waiting'
        /\ \A t \in Sides, d \in Conns : Backends(t, d)'
    BY <1>14, <1>0, <1>a
       DEF EntryTypes, AcceptTypes, TcpTypes, Accepted, Opening, Waiting, Backends,
           HandleCloseChannel, entry, accept, tcp
  <2>2. LoopTypes'
    BY <1>14, <1>0, <1>a, <2>e, <2>c DEF LoopTypes, HandleCloseChannel
  <2>3. \A t \in Sides : Leaving(t)'
    BY <1>14, <1>0, <1>a, <2>e, <2>c, BothSides DEF Leaving, HandleCloseChannel, entry
  <2>4. AcceptEnds'
    BY <1>14, <1>0, <1>a, <2>e, <2>c, BothSides DEF AcceptEnds, HandleCloseChannel, accept
  <2> QED
    BY <2>1, <2>2, <2>3, <2>4, <1>b
<1>15. ASSUME NEW s \in Sides, NEW c \in Conns, CleanupFires(s, c) PROVE TableInv'
  <2>c. /\ cleanup' \in [Sides -> [Conns -> Nat]] /\ run[s] # "ended"
        /\ \A t \in Sides, d \in Conns : t # s => cleanup'[t][d] = cleanup[t][d]
    <3>1. cleanup[s][c] \in Nat /\ cleanup[s][c] > 0
      BY <1>15, <1>0 DEF CleanupFires, EntryTypes
    <3>2. cleanup[s][c] - 1 \in Nat
      BY <3>1
    <3>3. cleanup' = [cleanup EXCEPT ![s][c] = cleanup[s][c] - 1]
      BY <1>15 DEF CleanupFires
    <3>4. /\ cleanup' \in [Sides -> [Conns -> Nat]]
          /\ \A t \in Sides, d \in Conns : t # s => cleanup'[t][d] = cleanup[t][d]
      BY <3>2, <3>3, <1>0, Update DEF EntryTypes
    <3> QED
      BY <3>1, <3>4, <1>a DEF Leaving
  <2>e. /\ EntryTypes' /\ shut' \in [Sides -> [Conns -> BOOLEAN]]
        /\ \A t \in Sides, d \in Conns :
             /\ reader'[t][d] = reader[t][d] \/ reader[t][d] = "running"
             /\ \/ /\ conns'[t][d] = conns[t][d]
                   /\ back'[t][d] = back[t][d] /\ shut'[t][d] = shut[t][d]
                \/ /\ conns[t][d] # "absent" /\ conns'[t][d] = "absent"
                   /\ back'[t][d] = "done" /\ shut'[t][d]
    BY <1>15, <2>c, <1>0, RemoveConnEffect DEF CleanupFires
  <2>1. LoopTypes' /\ AcceptTypes' /\ Waiting' /\ AcceptEnds'
    BY <1>15, <1>0, <1>a
       DEF LoopTypes, AcceptTypes, Waiting, AcceptEnds, CleanupFires, loop, accept
  <2>2. EntryTypes'
    BY <2>e
  <2>3. TcpTypes'
    BY <1>15, <1>0, <1>a, <2>e, <2>c DEF TcpTypes, CleanupFires
  <2>4. \A d \in Conns : Accepted(d)'
    <3>1. UNCHANGED <<handler, sock>> /\ "srv" \in Sides
      BY <1>15, BothSides DEF CleanupFires, accept
    <3> QED
      BY <3>1, <2>e, <1>a DEF Accepted, Backends
  <2>5. \A d \in Conns : Opening(d)'
    <3>1. UNCHANGED sock /\ "gw" \in Sides
      BY <1>15, BothSides DEF CleanupFires
    <3> QED
      BY <3>1, <2>e, <1>a DEF Opening, Backends
  <2>6. \A t \in Sides : Leaving(t)'
    BY <1>15, <1>0, <1>a, <2>e, <2>c, BothSides DEF Leaving, CleanupFires, loop
  <2>7. \A t \in Sides, d \in Conns : Backends(t, d)'
    <3>1. got' = got
      BY <1>15 DEF CleanupFires
    <3> QED
      BY <3>1, <2>e, <1>a DEF Backends
  <2> QED
    BY <2>1, <2>2, <2>3, <2>4, <2>5, <2>6, <2>7, <1>b
<1>16. ASSUME NEW s \in Sides, NEW c \in Conns, Read(s, c) PROVE TableInv'
  <2>e. out[s][c] + 1 \in 0..MaxData
    BY <1>16, <1>0, Numbers DEF Read, TcpTypes
  <2>1. /\ LoopTypes' /\ EntryTypes' /\ AcceptTypes'
        /\ \A d \in Conns : Accepted(d)'
        /\ \A d \in Conns : Opening(d)'
        /\ Waiting'
        /\ \A t \in Sides : Leaving(t)'
        /\ \A t \in Sides, d \in Conns : Backends(t, d)'
        /\ AcceptEnds'
    BY <1>16, <1>0, <1>a
       DEF LoopTypes, EntryTypes, AcceptTypes, Accepted, Opening, Waiting, Leaving,
           Backends, AcceptEnds, Read, loop, entry, accept
  <2>2. TcpTypes'
    BY <1>16, <1>0, <1>a, <2>e DEF TcpTypes, Read
  <2> QED
    BY <2>1, <2>2, <1>b
<1>17. ASSUME NEW c \in Conns, ReadEofAtServer(c) PROVE TableInv'
  <2>1. /\ LoopTypes' /\ AcceptTypes' /\ TcpTypes'
        /\ \A d \in Conns : Opening(d)'
        /\ Waiting'
        /\ \A t \in Sides : Leaving(t)'
        /\ \A t \in Sides, d \in Conns : Backends(t, d)'
        /\ AcceptEnds'
    BY <1>17, <1>0, <1>a
       DEF LoopTypes, AcceptTypes, TcpTypes, Opening, Waiting, Leaving, Backends,
           AcceptEnds, ReadEofAtServer, loop, accept, tcp
  <2>2. EntryTypes'
    BY <1>17, <1>0, <1>a DEF EntryTypes, ReadEofAtServer
  <2>3. \A d \in Conns : Accepted(d)'
    BY <1>17, <1>0, <1>a DEF Accepted, ReadEofAtServer, accept, tcp
  <2> QED
    BY <2>1, <2>2, <2>3, <1>b
<1>18. ASSUME NEW c \in Conns, ReadEofAtGateway(c) PROVE TableInv'
  <2>1. /\ LoopTypes' /\ AcceptTypes' /\ TcpTypes'
        /\ \A d \in Conns : Opening(d)'
        /\ Waiting'
        /\ \A t \in Sides : Leaving(t)'
        /\ \A t \in Sides, d \in Conns : Backends(t, d)'
        /\ AcceptEnds'
    BY <1>18, <1>0, <1>a
       DEF LoopTypes, AcceptTypes, TcpTypes, Opening, Waiting, Leaving, Backends,
           AcceptEnds, ReadEofAtGateway, loop, accept, tcp
  <2>2. EntryTypes'
    <3>1. PICK v \in {"closing", "done"} : reader' = [reader EXCEPT !["gw"][c] = v]
      BY <1>18 DEF ReadEofAtGateway
    <3> QED
      BY <1>18, <3>1, <1>0 DEF EntryTypes, ReadEofAtGateway
  <2>3. \A d \in Conns : Accepted(d)'
    BY <1>18, <1>0, <1>a, BothSides DEF EntryTypes, Accepted, ReadEofAtGateway, accept, tcp
  <2> QED
    BY <2>1, <2>2, <2>3, <1>b
<1>19. ASSUME NEW c \in Conns, StoreCloseReason(c) PROVE TableInv'
  <2>1. /\ AcceptTypes' /\ TcpTypes'
        /\ \A d \in Conns : Opening(d)'
        /\ Waiting'
        /\ \A t \in Sides : Leaving(t)'
        /\ \A t \in Sides, d \in Conns : Backends(t, d)'
        /\ AcceptEnds'
    BY <1>19, <1>0, <1>a
       DEF AcceptTypes, TcpTypes, Opening, Waiting, Leaving, Backends, AcceptEnds,
           StoreCloseReason, accept, tcp
  <2>2. LoopTypes'
    BY <1>19, <1>0, <1>a DEF LoopTypes, StoreCloseReason
  <2>3. EntryTypes'
    BY <1>19, <1>0, <1>a DEF EntryTypes, StoreCloseReason
  <2>4. \A d \in Conns : Accepted(d)'
    BY <1>19, <1>0, <1>a DEF Accepted, StoreCloseReason, accept, tcp
  <2> QED
    BY <2>1, <2>2, <2>3, <2>4, <1>b
<1>20. ASSUME NEW s \in Sides, NEW c \in Conns, ReadError(s, c) PROVE TableInv'
  <2>1. /\ LoopTypes' /\ AcceptTypes' /\ TcpTypes'
        /\ \A d \in Conns : Opening(d)'
        /\ Waiting'
        /\ \A t \in Sides : Leaving(t)'
        /\ \A t \in Sides, d \in Conns : Backends(t, d)'
        /\ AcceptEnds'
    BY <1>20, <1>0, <1>a
       DEF LoopTypes, AcceptTypes, TcpTypes, Opening, Waiting, Leaving, Backends,
           AcceptEnds, ReadError, loop, accept, tcp
  <2>2. EntryTypes'
    BY <1>20, <1>0, <1>a DEF EntryTypes, ReadError
  <2>3. \A d \in Conns : Accepted(d)'
    BY <1>20, <1>0, <1>a DEF Accepted, ReadError, accept, tcp
  <2> QED
    BY <2>1, <2>2, <2>3, <1>b
<1>21. ASSUME NEW s \in Sides, CloseChannel(s) PROVE TableInv'
  <2>1. /\ EntryTypes' /\ AcceptTypes' /\ TcpTypes'
        /\ \A d \in Conns : Accepted(d)'
        /\ \A d \in Conns : Opening(d)'
        /\ Waiting'
        /\ \A t \in Sides : Leaving(t)'
        /\ \A t \in Sides, d \in Conns : Backends(t, d)'
        /\ AcceptEnds'
    BY <1>21, <1>0, <1>a
       DEF EntryTypes, AcceptTypes, TcpTypes, Accepted, Opening, Waiting, Leaving,
           Backends, AcceptEnds, CloseChannel, entry, accept, tcp
  <2>2. LoopTypes'
    BY <1>21, <1>0, <1>a DEF LoopTypes, CloseChannel
  <2> QED
    BY <2>1, <2>2, <1>b
<1>22. ASSUME NEW s \in Sides, NotifyRunLoop(s) PROVE TableInv'
  <2>e. \/ run' = run /\ todo' = todo
        \/ /\ run' \in [Sides -> {"running", "cleanup", "ended"}]
           /\ run'[s] = "cleanup" /\ run'[Other(s)] = run[Other(s)]
           /\ todo' \in [Sides -> SUBSET Conns]
           /\ todo'[s] = {d \in Conns : conns[s][d] # "absent"}
           /\ todo'[Other(s)] = todo[Other(s)]
    BY <1>22, <1>0, LeaveLoopEffect DEF NotifyRunLoop
  <2>1. /\ EntryTypes' /\ AcceptTypes' /\ TcpTypes'
        /\ \A d \in Conns : Accepted(d)'
        /\ \A d \in Conns : Opening(d)'
        /\ Waiting'
        /\ \A t \in Sides, d \in Conns : Backends(t, d)'
    BY <1>22, <1>0, <1>a
       DEF EntryTypes, AcceptTypes, TcpTypes, Accepted, Opening, Waiting, Backends,
           NotifyRunLoop, entry, accept, tcp
  <2>2. LoopTypes'
    BY <1>22, <1>0, <1>a, <2>e DEF LoopTypes, NotifyRunLoop
  <2>3. \A t \in Sides : Leaving(t)'
    BY <1>22, <1>0, <1>a, <2>e, BothSides DEF Leaving, NotifyRunLoop, entry
  <2>4. AcceptEnds'
    BY <1>22, <1>0, <1>a, <2>e, BothSides DEF AcceptEnds, NotifyRunLoop, accept
  <2> QED
    BY <2>1, <2>2, <2>3, <2>4, <1>b
<1>23. ASSUME NEW s \in Sides, NEW c \in Conns, NotifyCleanup(s, c) PROVE TableInv'
  <2>c. cleanup[s][c] \in Nat /\ cleanup[s][c] > 0
    BY <1>23, <1>0 DEF NotifyCleanup, EntryTypes
  <2>e. cleanup[s][c] - 1 \in Nat
    BY <2>c
  <2>1. /\ AcceptTypes' /\ TcpTypes'
        /\ \A d \in Conns : Accepted(d)'
        /\ \A d \in Conns : Opening(d)'
        /\ Waiting'
        /\ \A t \in Sides, d \in Conns : Backends(t, d)'
        /\ AcceptEnds'
    BY <1>23, <1>0, <1>a
       DEF AcceptTypes, TcpTypes, Accepted, Opening, Waiting, Backends, AcceptEnds,
           NotifyCleanup, accept, tcp
  <2>2. LoopTypes'
    BY <1>23, <1>0, <1>a, <2>e, <2>c DEF LoopTypes, NotifyCleanup
  <2>3. EntryTypes'
    BY <1>23, <1>0, <1>a, <2>e, <2>c DEF EntryTypes, NotifyCleanup
  <2>4. \A t \in Sides : Leaving(t)'
    BY <1>23, <1>0, <1>a, <2>e, <2>c DEF Leaving, NotifyCleanup
  <2> QED
    BY <2>1, <2>2, <2>3, <2>4, <1>b
<1>24. ASSUME NEW s \in Sides, NEW c \in Conns, CloseBackend(s, c) PROVE TableInv'
  <2>1. AcceptTypes' /\ TcpTypes' /\ Waiting' /\ AcceptEnds'
    BY <1>24, <1>0, <1>a
       DEF AcceptTypes, TcpTypes, Waiting, AcceptEnds, CloseBackend, accept, tcp
  <2>2. LoopTypes'
    BY <1>24, <1>0, <1>a DEF LoopTypes, CloseBackend
  <2>3. EntryTypes'
    BY <1>24, <1>0, <1>a DEF EntryTypes, CloseBackend
  <2>4. \A d \in Conns : Accepted(d)'
    BY <1>24, <1>0, <1>a DEF Accepted, CloseBackend, accept, tcp
  <2>5. \A d \in Conns : Opening(d)'
    BY <1>24, <1>0, <1>a DEF Opening, CloseBackend, tcp
  <2>6. \A t \in Sides : Leaving(t)'
    BY <1>24, <1>0, <1>a DEF Leaving, CloseBackend
  <2>7. \A t \in Sides, d \in Conns : Backends(t, d)'
    BY <1>24, <1>0, <1>a DEF Backends, CloseBackend, tcp
  <2> QED
    BY <2>1, <2>2, <2>3, <2>4, <2>5, <2>6, <2>7, <1>b
<1>25. ASSUME NEW s \in Sides, CloseBackendEnds(s) PROVE TableInv'
  <2>c. busy[s] \in Conns /\ cleanup' \in [Sides -> [Conns -> Nat]]
    BY <1>25, <1>0 DEF CloseBackendEnds, LoopTypes, EntryTypes
  <2>e. /\ EntryTypes' /\ shut' \in [Sides -> [Conns -> BOOLEAN]]
        /\ conns'[s][busy[s]] = "absent"
        /\ \A t \in Sides, d \in Conns :
             /\ reader'[t][d] = reader[t][d] \/ reader[t][d] = "running"
             /\ \/ /\ conns'[t][d] = conns[t][d]
                   /\ back'[t][d] = back[t][d] /\ shut'[t][d] = shut[t][d]
                \/ /\ conns[t][d] # "absent" /\ conns'[t][d] = "absent"
                   /\ back'[t][d] = "done" /\ shut'[t][d]
    BY <1>25, <2>c, <1>0, RemoveConnEffect DEF CloseBackendEnds
  <2>1. AcceptTypes' /\ Waiting' /\ AcceptEnds'
    BY <1>25, <1>0, <1>a DEF AcceptTypes, Waiting, AcceptEnds, CloseBackendEnds, accept
  <2>2. LoopTypes'
    BY <1>25, <1>0, <1>a, <2>e, <2>c DEF LoopTypes, CloseBackendEnds
  <2>3. EntryTypes'
    BY <2>e
  <2>4. TcpTypes'
    BY <1>25, <1>0, <1>a, <2>e, <2>c DEF TcpTypes, CloseBackendEnds
  <2>5. \A d \in Conns : Accepted(d)'
    <3>1. UNCHANGED <<handler, sock>> /\ "srv" \in Sides
      BY <1>25, BothSides DEF CloseBackendEnds, accept
    <3> QED
      BY <3>1, <2>e, <1>a DEF Accepted, Backends
  <2>6. \A d \in Conns : Opening(d)'
    <3>1. UNCHANGED sock /\ "gw" \in Sides
      BY <1>25, BothSides DEF CloseBackendEnds
    <3> QED
      BY <3>1, <2>e, <1>a DEF Opening, Backends
  <2>7. \A t \in Sides : Leaving(t)'
    BY <1>25, <1>0, <1>a, <2>e, <2>c, BothSides DEF Leaving, CloseBackendEnds
  <2>8. \A t \in Sides, d \in Conns : Backends(t, d)'
    <3>1. got' = got
      BY <1>25 DEF CloseBackendEnds
    <3> QED
      BY <3>1, <2>e, <1>a DEF Backends
  <2> QED
    BY <2>1, <2>2, <2>3, <2>4, <2>5, <2>6, <2>7, <2>8, <1>b
<1>26. ASSUME NEW s \in Sides, End(s) PROVE TableInv'
  <2>c. shut \in [Sides -> [Conns -> BOOLEAN]] /\ "srv" \in Sides
    BY <1>0, BothSides DEF TcpTypes
  <2>e. /\ shut' \in [Sides -> [Conns -> BOOLEAN]]
        /\ \A d \in Conns :
             /\ shut["srv"][d] => shut'["srv"][d]
             /\ shut'["gw"][d] = shut["gw"][d]
             /\ s = "srv" /\ handler[d] \in {"accepted", "queued"} => shut'["srv"][d]
    <3>1. CASE s = "srv"
      <4> DEFINE dropped == {d \in Conns : handler[d] \in {"accepted", "queued"}}
                 g == [d \in Conns |-> shut["srv"][d] \/ d \in dropped]
      <4>1. shut' = [shut EXCEPT !["srv"] = g]
        BY <1>26, <3>1 DEF End
      <4>2. g \in [Conns -> BOOLEAN]
        BY <2>c
      <4>3. \A d \in Conns : (shut["srv"][d] => g[d])
                              /\ (handler[d] \in {"accepted", "queued"} => g[d])
        OBVIOUS
      <4> HIDE DEF g
      <4>4. shut' \in [Sides -> [Conns -> BOOLEAN]]
        BY <2>c, <4>1, <4>2
      <4>5. shut'["srv"] = g /\ shut'["gw"] = shut["gw"]
        BY <2>c, <4>1
      <4> QED
        BY <4>3, <4>4, <4>5
    <3>2. CASE s # "srv"
      BY <1>26, <2>c, <3>2 DEF End
    <3> QED
      BY <3>1, <3>2
  <2>1. \A t \in Sides, d \in Conns : Backends(t, d)'
    BY <1>26, <1>0, <1>a DEF Backends, End
  <2>2. LoopTypes'
    BY <1>26, <1>0, <1>a, <2>e, <2>c DEF LoopTypes, End
  <2>3. EntryTypes'
    BY <1>26, <1>0, <1>a, <2>e, <2>c DEF EntryTypes, End
  <2>4. AcceptTypes'
    <3>1. <<>> \in Seq(Conns)
      OBVIOUS
    <3>2. CASE s = "srv"
      BY <1>26, <3>1, <3>2, <1>0 DEF AcceptTypes, End
    <3>3. CASE s # "srv"
      BY <1>26, <3>3, <1>0 DEF AcceptTypes, End, accept
    <3> QED
      BY <3>2, <3>3
  <2>5. TcpTypes'
    BY <1>26, <1>0, <1>a, <2>e, <2>c DEF TcpTypes, End
  <2>6. \A d \in Conns : Accepted(d)'
    BY <1>26, <1>0, <1>a, <2>e, <2>c DEF AcceptTypes, Accepted, End, accept
  <2>7. \A d \in Conns : Opening(d)'
    BY <1>26, <1>0, <1>a, <2>e, <2>c DEF Opening, End
  <2>8. Waiting'
    <3>1. CASE s = "srv"
      <4>1. serverConns' = <<>>
        BY <1>26, <3>1 DEF End
      <4> QED
        BY <4>1 DEF Waiting
    <3>2. CASE s # "srv"
      <4>1. handler' = handler /\ serverConns' = serverConns
        BY <1>26, <3>2 DEF End, accept
      <4> QED
        BY <4>1, <1>a DEF Waiting
    <3> QED
      BY <3>1, <3>2
  <2>9. \A t \in Sides : Leaving(t)'
    BY <1>26, <1>0, <1>a, <2>e, <2>c DEF EntryTypes, Leaving, End
  <2>10. AcceptEnds'
    BY <1>26, <1>0, <1>a, <2>e, <2>c DEF AcceptEnds, End, accept
  <2> QED
    BY <2>1, <2>2, <2>3, <2>4, <2>5, <2>6, <2>7, <2>8, <2>9, <2>10, <1>b
<1>27. ASSUME NEW s \in Sides, NEW c \in Conns, PeerFinishes(s, c) PROVE TableInv'
  <2>1. /\ LoopTypes' /\ EntryTypes' /\ AcceptTypes' /\ Waiting'
        /\ \A t \in Sides : Leaving(t)'
        /\ \A t \in Sides, d \in Conns : Backends(t, d)'
        /\ AcceptEnds'
    BY <1>27, <1>0, <1>a
       DEF LoopTypes, EntryTypes, AcceptTypes, Waiting, Leaving, Backends, AcceptEnds,
           PeerFinishes, loop, entry, accept
  <2>2. TcpTypes'
    BY <1>27, <1>0, <1>a DEF TcpTypes, PeerFinishes
  <2>3. \A d \in Conns : Accepted(d)'
    BY <1>27, <1>0, <1>a DEF Accepted, PeerFinishes, entry, accept
  <2>4. \A d \in Conns : Opening(d)'
    BY <1>27, <1>0, <1>a DEF Opening, PeerFinishes, entry
  <2> QED
    BY <2>1, <2>2, <2>3, <2>4, <1>b
<1>28. ASSUME NEW s \in Sides, NEW c \in Conns, PeerResets(s, c) PROVE TableInv'
  <2>1. /\ LoopTypes' /\ EntryTypes' /\ AcceptTypes' /\ Waiting'
        /\ \A t \in Sides : Leaving(t)'
        /\ \A t \in Sides, d \in Conns : Backends(t, d)'
        /\ AcceptEnds'
    BY <1>28, <1>0, <1>a
       DEF LoopTypes, EntryTypes, AcceptTypes, Waiting, Leaving, Backends, AcceptEnds,
           PeerResets, loop, entry, accept
  <2>2. TcpTypes'
    BY <1>28, <1>0, <1>a DEF TcpTypes, PeerResets
  <2>3. \A d \in Conns : Accepted(d)'
    BY <1>28, <1>0, <1>a DEF Accepted, PeerResets, entry, accept
  <2>4. \A d \in Conns : Opening(d)'
    BY <1>28, <1>0, <1>a DEF Opening, PeerResets, entry
  <2> QED
    BY <2>1, <2>2, <2>3, <2>4, <1>b
<1> QED
  BY <1>1, <1>2, <1>3, <1>4, <1>5, <1>6, <1>7, <1>8, <1>9, <1>10, <1>11, <1>12, <1>13,
     <1>14, <1>15, <1>16, <1>17, <1>18, <1>19, <1>20, <1>21, <1>22, <1>23, <1>24, <1>25,
     <1>26, <1>27, <1>28
     DEF Next, RunLoop, Shutdown, ReaderTask, Notify

LEMMA TableInit == Init => TableInv
<1> SUFFICES ASSUME Init PROVE TableInv
  OBVIOUS
<1>1. LoopTypes
  BY DEF Init, LoopTypes
<1>2. NetTypes
  BY DEF Init, NetTypes
<1>3. EntryTypes
  BY DEF Init, EntryTypes, PerConn
<1>4. handler \in [Conns -> {"none", "accepted", "queued", "registered", "failed"}]
  BY DEF Init
<1>5. serverConns = <<>> /\ serverConns \in Seq(Conns)
  BY DEF Init
<1>6. sock \in [Sides -> [Conns -> {"none", "open", "eof", "gone"}]]
  BY DEF Init, PerConn
<1>7. shut \in [Sides -> [Conns -> BOOLEAN]]
  BY DEF Init, PerConn
<1>8. out \in [Sides -> [Conns -> 0..MaxData]]
  BY Numbers DEF Init, PerConn
<1>9. got \in [Sides -> [Conns -> Seq(0..MaxData)]]
  BY DEF Init, PerConn
<1>10. TypeOK
  BY <1>1, <1>2, <1>3, <1>4, <1>5, <1>6, <1>7, <1>8, <1>9, Types DEF AcceptTypes, TcpTypes
<1>11. \A c \in Conns :
         /\ handler[c] = "none" /\ sock["srv"][c] = "none" /\ sock["gw"][c] = "none"
         /\ reader["srv"][c] = "none" /\ back["srv"][c] = "none" /\ ~shut["gw"][c]
  BY BothSides DEF Init, PerConn
<1>12. \A c \in Conns : Accepted(c) /\ Opening(c)
  BY <1>11 DEF Accepted, Opening
<1>13. Waiting
  BY <1>5 DEF Waiting
<1>14. \A s \in Sides : run[s] = "running"
                        /\ \A c \in Conns : conns[s][c] = "absent" /\ back[s][c] = "none"
                                            /\ got[s][c] = <<>>
  BY DEF Init, PerConn
<1>15. \A s \in Sides : Unread(s) /\ Leaving(s) /\ \A c \in Conns : Backends(s, c)
  BY <1>14 DEF Unread, Leaving, Backends
<1>16. AcceptEnds
  BY <1>14, BothSides DEF AcceptEnds
<1> QED
  BY <1>10, <1>12, <1>13, <1>15, <1>16 DEF TableInv

LEMMA TableStutters ==
    ASSUME TableInv, UNCHANGED vars
    PROVE  TableInv'
<1> USE DEF vars, loop, entry, accept, tcp
<1>1. TypeOK'
  BY DEF TableInv, TypeOK
<1>2. \A c \in Conns : Accepted(c)' /\ Opening(c)'
  BY DEF TableInv, Accepted, Opening
<1>3. Waiting' /\ AcceptEnds'
  BY DEF TableInv, Waiting, AcceptEnds
<1>4. \A s \in Sides : Unread(s)' /\ Leaving(s)' /\ \A c \in Conns : Backends(s, c)'
  BY DEF TableInv, Unread, Leaving, Backends
<1> QED
  BY <1>1, <1>2, <1>3, <1>4 DEF TableInv

LEMMA TableHolds == Spec => []TableInv
<1>1. TableInv /\ [Next]_vars => TableInv'
  BY TableStep, TableStutters
<1> QED
  BY TableInit, <1>1, PTL DEF Spec

-----------------------------------------------------------------------------
(* The client's stream, and the steps that leave a connection alone.       *)

\* The server reads nothing for c, and neither does its reader start.
ServerRests(c) ==
    /\ out'["srv"][c] = out["srv"][c]
    /\ \/ reader'["srv"][c] = reader["srv"][c]
       \/ reader["srv"][c] = "running" /\ reader'["srv"][c] = "done"
    /\ sock'["srv"][c] = "open" =>
         sock["srv"][c] = "open" \/ reader["srv"][c] = "none"

\* The gateway writes nothing for c, its backend task does not start, and the
\* socket is shut only when the client's end is seen.
GatewayRests(c) ==
    /\ got'["gw"][c] = got["gw"][c]
    /\ (back'["gw"][c] = "none") <=> (back["gw"][c] = "none")
    /\ back'["gw"][c] = "running" =>
         /\ back["gw"][c] = "running"
         /\ shut'["gw"][c] => shut["gw"][c] \/ EndSeen(c)

\* A message that is none of the stream of c.
Foreign(m, c) == m.conn = c => m.type \notin {"Open", "Data", "Eof"}

\* The message that is taken is no data of c, or data that is not written.
Unwritten(s, c) ==
    IsData(Head(net[s]), c) =>
      back'[s][c] # "running" /\ (s = "srv" => back'[s][c] # "none")

\* The messages on their way to side s that come and go are none of the stream
\* of c, or nobody writes them.
WayRests(s, c) ==
    \/ run'[s] # "running" /\ net'[s] = <<>>
    \/ /\ run'[s] = run[s]
       /\ \/ net'[s] = net[s]
          \/ \E m \in Messages : net'[s] = Append(net[s], m) /\ Foreign(m, c)
          \/ net[s] # <<>> /\ net'[s] = Tail(net[s]) /\ Unwritten(s, c)

LEMMA ToGatewayRests ==
    ASSUME TableInv, NEW c \in Conns, ToGateway(c),
           ServerRests(c), GatewayRests(c), WayRests("gw", c)
    PROVE  ToGateway(c)'
<1>0. LoopTypes /\ NetTypes /\ EntryTypes /\ AcceptTypes /\ TcpTypes
  BY Types DEF TableInv
<1> DEFINE q == net["gw"]
           r == net'["gw"]
<1>1. /\ q \in Seq(Messages) /\ Len(q) \in Nat /\ DOMAIN q = 1..Len(q)
      /\ \A i \in DOMAIN q : q[i] \in Messages
  BY <1>0, BothSides DEF NetTypes
<1>2. /\ out["srv"][c] \in Nat /\ got["gw"][c] \in Seq(Nat) /\ Len(got["gw"][c]) \in Nat
  <2>1. /\ out["srv"][c] \in 0..MaxData /\ got["gw"][c] \in Seq(0..MaxData)
    BY <1>0, BothSides DEF TcpTypes
  <2> QED
    BY <2>1, Numbers
<1>3. \A i \in DOMAIN got'["gw"][c] : got'["gw"][c][i] = i
  BY DEF ToGateway, GatewayRests
<1>4. CASE net'["gw"] = <<>> /\ run'["gw"] # "running"
  BY <1>3, <1>4 DEF ToGateway, EndSeen, ServerRests, GatewayRests
<1>5. CASE net'["gw"] = net["gw"] /\ run'["gw"] = run["gw"]
  <2>1. Chunks("gw", c)' = Chunks("gw", c)
    BY <1>5 DEF Chunks
  <2> QED
    BY <1>3, <1>5, <2>1 DEF ToGateway, ServerRests, GatewayRests, InOrder, EndSeen
<1>6. ASSUME NEW m \in Messages, run'["gw"] = run["gw"], net'["gw"] = Append(net["gw"], m),
             m.conn = c => m.type \notin {"Open", "Data", "Eof"}
      PROVE  ToGateway(c)'
  <2>1. /\ DOMAIN r = 1..(Len(q) + 1) /\ r[Len(q) + 1] = m
        /\ \A i \in DOMAIN q : r[i] = q[i] /\ i \in DOMAIN r /\ i < Len(q) + 1
        /\ \A i \in DOMAIN r : i \in DOMAIN q \/ i = Len(q) + 1
    BY <1>1, <1>6
  <2>2. m # Control("Open", c) /\ m # Control("Eof", c) /\ ~IsData(m, c)
    BY <1>6 DEF Control, IsData
  <2>3. ASSUME NEW k \in Nat, InOrder(Chunks("gw", c), k, out["srv"][c])
        PROVE  InOrder(Chunks("gw", c)', k, out'["srv"][c])
    <3>1. Chunks("gw", c) \in Seq(Nat) /\ Chunks("gw", c)' = Append(Chunks("gw", c), 0)
      BY <1>0, <1>6, <2>2, ChunksAppend, BothSides
    <3>2. InOrder(Append(Chunks("gw", c), 0), k, out["srv"][c])
      BY <1>2, <2>3, <3>1, InOrderReply
    <3> QED
      BY <3>1, <3>2 DEF ServerRests
  <2> HIDE DEF q, r
  <2>4. \A i \in DOMAIN r : (r[i] = q[i] /\ i \in DOMAIN q) \/ (i = Len(q) + 1 /\ r[i] = m)
    BY <2>1
  <2>5. reader'["srv"][c] = "none" =>
         /\ out'["srv"][c] = 0 /\ back'["gw"][c] = "none"
         /\ \A i \in DOMAIN r :
              r[i].conn = c => r[i].type \notin {"Open", "Data", "Eof"}
    BY <1>6, <2>4 DEF ToGateway, ServerRests, GatewayRests, q
  <2>6. ASSUME NEW i \in DOMAIN r, r[i] = Control("Open", c)
        PROVE  /\ back'["gw"][c] = "none"
               /\ \A j \in DOMAIN r :
                    /\ j < i => ~IsData(r[j], c)
                    /\ j # i => r[j] # Control("Open", c)
               /\ InOrder(Chunks("gw", c)', 0, out'["srv"][c])
    <3>1. i \in DOMAIN q /\ q[i] = Control("Open", c)
      BY <2>2, <2>4, <2>6
    <3>2. /\ back["gw"][c] = "none"
          /\ \A j \in DOMAIN q : /\ j < i => ~IsData(q[j], c)
                                 /\ j # i => q[j] # Control("Open", c)
          /\ InOrder(Chunks("gw", c), 0, out["srv"][c])
      BY <3>1 DEF ToGateway, q
    <3> QED
      BY <2>2, <2>3, <2>4, <3>1, <3>2 DEF GatewayRests
  <2>7. run'["gw"] = "running" /\ back'["gw"][c] = "running" =>
          InOrder(Chunks("gw", c)', Len(got'["gw"][c]), out'["srv"][c])
    BY <1>2, <1>6, <2>3 DEF ToGateway, GatewayRests
  <2>8. ASSUME NEW i \in DOMAIN r, r[i] = Control("Eof", c)
        PROVE  /\ reader'["srv"][c] = "done" /\ sock'["srv"][c] # "open"
               /\ \A j \in DOMAIN r : j > i => ~IsData(r[j], c)
    <3>1. i \in DOMAIN q /\ q[i] = Control("Eof", c)
      BY <2>2, <2>4, <2>8
    <3> QED
      BY <2>2, <2>4, <3>1 DEF ToGateway, ServerRests, q
  <2>9. shut'["gw"][c] /\ back'["gw"][c] = "running" => EndSeen(c)'
    BY <2>2, <2>4 DEF ToGateway, EndSeen, ServerRests, GatewayRests, q, r
  <2> QED
    BY <1>3, <2>5, <2>6, <2>7, <2>8, <2>9 DEF ToGateway, r
<1>7. ASSUME run'["gw"] = run["gw"], net["gw"] # <<>>, net'["gw"] = Tail(net["gw"]),
             IsData(Head(net["gw"]), c) => back'["gw"][c] # "running"
      PROVE  ToGateway(c)'
  <2>1. /\ DOMAIN r = 1..(Len(q) - 1) /\ 1 \in DOMAIN q /\ Head(q) = q[1]
        /\ \A i \in 1..(Len(q) - 1) : r[i] = q[i + 1]
    BY <1>1, <1>7
  <2>2. \A i \in DOMAIN r : i \in Nat /\ i + 1 \in DOMAIN q /\ 1 < i + 1 /\ r[i] = q[i + 1]
    BY <1>1, <2>1
  <2>3. ASSUME NEW k \in Nat, InOrder(Chunks("gw", c), k, out["srv"][c]),
               ~IsData(Head(net["gw"]), c)
        PROVE  InOrder(Chunks("gw", c)', k, out'["srv"][c])
    <3>1. /\ Chunks("gw", c) \in Seq(Nat) /\ Chunks("gw", c) # <<>>
          /\ Chunks("gw", c)' = Tail(Chunks("gw", c)) /\ Head(Chunks("gw", c)) = 0
      BY <1>0, <1>7, <2>3, ChunksTail, BothSides
    <3>2. InOrder(Tail(Chunks("gw", c)), k, out["srv"][c])
      BY <1>2, <2>3, <3>1, InOrderTail
    <3> QED
      BY <3>1, <3>2 DEF ServerRests
  <2>4. Head(net["gw"]) = q[1]
    BY <2>1
  <2> HIDE DEF q, r
  <2>5. reader'["srv"][c] = "none" =>
         /\ out'["srv"][c] = 0 /\ back'["gw"][c] = "none"
         /\ \A i \in DOMAIN r :
              r[i].conn = c => r[i].type \notin {"Open", "Data", "Eof"}
    BY <2>2 DEF ToGateway, ServerRests, GatewayRests, q
  <2>6. ASSUME NEW i \in DOMAIN r, r[i] = Control("Open", c)
        PROVE  /\ back'["gw"][c] = "none"
               /\ \A j \in DOMAIN r :
                    /\ j < i => ~IsData(r[j], c)
                    /\ j # i => r[j] # Control("Open", c)
               /\ InOrder(Chunks("gw", c)', 0, out'["srv"][c])
    <3>1. i + 1 \in DOMAIN q /\ q[i + 1] = Control("Open", c) /\ 1 < i + 1
      BY <2>2, <2>6
    <3>2. /\ back["gw"][c] = "none"
          /\ \A j \in DOMAIN q : /\ j < i + 1 => ~IsData(q[j], c)
                                 /\ j # i + 1 => q[j] # Control("Open", c)
          /\ InOrder(Chunks("gw", c), 0, out["srv"][c])
      BY <3>1 DEF ToGateway, q
    <3>3. InOrder(Chunks("gw", c)', 0, out'["srv"][c])
      BY <2>1, <2>3, <2>4, <3>1, <3>2
    <3>4. ASSUME NEW j \in DOMAIN r
          PROVE  /\ j < i => ~IsData(r[j], c)
                 /\ j # i => r[j] # Control("Open", c)
      <4>1. i \in Nat /\ j \in Nat /\ j + 1 \in DOMAIN q /\ r[j] = q[j + 1]
        BY <2>2
      <4>2. (j < i => j + 1 < i + 1) /\ (j # i => j + 1 # i + 1)
        BY <4>1
      <4> QED
        BY <4>1, <4>2, <3>2
    <3> QED
      BY <3>2, <3>3, <3>4 DEF GatewayRests
  <2>7. run'["gw"] = "running" /\ back'["gw"][c] = "running" =>
          InOrder(Chunks("gw", c)', Len(got'["gw"][c]), out'["srv"][c])
    BY <1>2, <1>7, <2>3 DEF ToGateway, GatewayRests
  <2>8. ASSUME NEW i \in DOMAIN r, r[i] = Control("Eof", c)
        PROVE  /\ reader'["srv"][c] = "done" /\ sock'["srv"][c] # "open"
               /\ \A j \in DOMAIN r : j > i => ~IsData(r[j], c)
    <3>1. i + 1 \in DOMAIN q /\ q[i + 1] = Control("Eof", c)
      BY <2>2, <2>8
    <3>2. /\ reader["srv"][c] = "done" /\ sock["srv"][c] # "open"
          /\ \A j \in DOMAIN q : j > i + 1 => ~IsData(q[j], c)
      BY <3>1 DEF ToGateway, q
    <3>3. \A j \in DOMAIN r : j > i => j + 1 > i + 1
      BY <2>2
    <3> QED
      BY <2>2, <3>2, <3>3 DEF ServerRests
  <2>9. shut'["gw"][c] /\ back'["gw"][c] = "running" => EndSeen(c)'
    BY <2>2 DEF ToGateway, EndSeen, ServerRests, GatewayRests, q, r
  <2> QED
    BY <1>3, <2>5, <2>6, <2>7, <2>8, <2>9 DEF ToGateway, r
<1> QED
  BY <1>4, <1>5, <1>6, <1>7 DEF WayRests, Foreign, Unwritten

-----------------------------------------------------------------------------
(* The client's stream, and the steps that move it.                        *)

\* A message joins the others, or is dropped because nobody reads.
LEMMA Joins ==
    ASSUME TableInv, NEW m \in Messages, Send("srv", m), run' = run
    PROVE  \/ run'["gw"] # "running" /\ net'["gw"] = <<>>
           \/ /\ net'["gw"] = Append(net["gw"], m)
              /\ Len(net["gw"]) + 1 \in DOMAIN net'["gw"]
              /\ net'["gw"][Len(net["gw"]) + 1] = m
              /\ \A i \in DOMAIN net["gw"] : i < Len(net["gw"]) + 1
              /\ \A i \in DOMAIN net'["gw"] :
                   \/ i \in DOMAIN net["gw"] /\ net'["gw"][i] = net["gw"][i]
                   \/ i = Len(net["gw"]) + 1 /\ net'["gw"][i] = m
<1>1. LoopTypes /\ NetTypes /\ net["gw"] \in Seq(Messages)
  BY Types, BothSides DEF TableInv, NetTypes
<1>2. \/ run'["gw"] # "running" /\ net'["gw"] = <<>>
      \/ net'["gw"] = Append(net["gw"], m)
  BY <1>1, Transport, BothSides
<1> QED
  BY <1>1, <1>2

\* The first message is taken, the others keep their order.
LEMMA Leaves ==
    ASSUME TableInv, net["gw"] # <<>>, net'["gw"] = Tail(net["gw"])
    PROVE  /\ 1 \in DOMAIN net["gw"] /\ Head(net["gw"]) = net["gw"][1]
           /\ \A i \in DOMAIN net'["gw"] :
                /\ i \in Nat /\ i + 1 \in DOMAIN net["gw"] /\ i + 1 > 1
                /\ net'["gw"][i] = net["gw"][i + 1]
<1>1. net["gw"] \in Seq(Messages)
  BY Types, BothSides DEF TableInv, NetTypes
<1> QED
  BY <1>1

LEMMA Numbered ==
    ASSUME TableInv, NEW s \in Sides, NEW c \in Conns
    PROVE  /\ out[s][c] \in Nat /\ got[s][c] \in Seq(Nat) /\ Len(got[s][c]) \in Nat
<1>1. out[s][c] \in 0..MaxData /\ got[s][c] \in Seq(0..MaxData)
  BY Types DEF TableInv, TcpTypes
<1> QED
  BY <1>1, Numbers

LEMMA ToGatewayOpens ==
    ASSUME TableInv, NEW c \in Conns, ToGateway(c), SendOpen(c)
    PROVE  ToGateway(c)'
<1> DEFINE q == net["gw"]
           r == net'["gw"]
<1>0. LoopTypes /\ NetTypes /\ EntryTypes /\ AcceptTypes /\ TcpTypes
  BY Types DEF TableInv
<1>1. reader["srv"][c] = "none"
  BY DEF SendOpen, TableInv, Accepted
<1>2. /\ out["srv"][c] = 0 /\ back["gw"][c] = "none"
      /\ \A i \in DOMAIN q : q[i].conn = c => q[i].type \notin {"Open", "Data", "Eof"}
  BY <1>1 DEF ToGateway
<1>3. /\ run' = run /\ Control("Open", c) \in Messages /\ Send("srv", Control("Open", c))
      /\ reader'["srv"][c] = "running" /\ UNCHANGED <<out, back, got, shut>>
  BY <1>0, MessageTypes, BothSides DEF SendOpen, EntryTypes, loop, tcp
<1>4. \A i \in DOMAIN got'["gw"][c] : got'["gw"][c][i] = i
  BY <1>3 DEF ToGateway
<1>5. CASE run'["gw"] # "running" /\ r = <<>>
  BY <1>2, <1>3, <1>4, <1>5 DEF ToGateway
<1>6. CASE r = Append(q, Control("Open", c))
  <2>1. \A i \in DOMAIN q : /\ ~IsData(q[i], c) /\ q[i] # Control("Open", c)
                            /\ q[i] # Control("Eof", c)
    BY <1>2 DEF IsData, Control
  <2>2. /\ ~IsData(Control("Open", c), c) /\ Control("Open", c) # Control("Eof", c)
    BY DEF IsData, Control
  <2>3. \A i \in DOMAIN r :
          \/ i \in DOMAIN q /\ r[i] = q[i]
          \/ i = Len(q) + 1 /\ r[i] = Control("Open", c)
    <3>1. q \in Seq(Messages)
      BY <1>0, BothSides DEF NetTypes
    <3> QED
      BY <3>1, <1>3, <1>6
  <2>4. InOrder(Chunks("gw", c)', 0, out'["srv"][c])
    <3>1. \A i \in DOMAIN Chunks("gw", c) : Chunks("gw", c)[i] = 0
      BY <1>0, <2>1, ChunksNone, BothSides
    <3>2. InOrder(Chunks("gw", c), 0, 0)
      BY <3>1, InOrderEmpty
    <3>3. Chunks("gw", c) \in Seq(Nat) /\ Chunks("gw", c)' = Append(Chunks("gw", c), 0)
      BY <1>0, <1>3, <1>6, <2>2, ChunksAppend, BothSides
    <3>4. InOrder(Append(Chunks("gw", c), 0), 0, 0)
      BY <3>2, <3>3, InOrderReply
    <3> QED
      BY <3>3, <3>4, <1>2, <1>3
  <2> HIDE DEF q, r
  <2>5. \A i \in DOMAIN r : ~IsData(r[i], c) /\ r[i] # Control("Eof", c)
    BY <2>1, <2>2, <2>3
  <2>6. \A i, j \in DOMAIN r : r[i] = Control("Open", c) /\ r[j] = Control("Open", c) => i = j
    BY <2>1, <2>3
  <2> QED
    BY <1>2, <1>3, <1>4, <2>4, <2>5, <2>6 DEF ToGateway, r
<1> QED
  BY <1>3, <1>5, <1>6, Joins

LEMMA ToGatewayReads ==
    ASSUME TableInv, NEW c \in Conns, ToGateway(c), Read("srv", c)
    PROVE  ToGateway(c)'
<1> DEFINE q == net["gw"]
           r == net'["gw"]
           n == out["srv"][c]
           m == Data(c, n + 1)
<1>0. LoopTypes /\ NetTypes /\ EntryTypes /\ AcceptTypes /\ TcpTypes
  BY Types DEF TableInv
<1>1. n \in Nat /\ n + 1 \in 1..MaxData /\ Len(got["gw"][c]) \in Nat
  BY <1>0, Numbers, Numbered, BothSides DEF Read, TcpTypes
<1>2. /\ run' = run /\ m \in Messages /\ Send("srv", m) /\ out'["srv"][c] = n + 1
      /\ reader["srv"][c] = "running" /\ sock["srv"][c] = "open"
      /\ UNCHANGED <<reader, back, sock, got, shut>>
  BY <1>0, <1>1, MessageTypes, BothSides DEF Read, TcpTypes, loop, entry
<1>3. \A i \in DOMAIN got'["gw"][c] : got'["gw"][c][i] = i
  BY <1>2 DEF ToGateway
<1>4. ~(shut["gw"][c] /\ back["gw"][c] = "running")
  BY <1>2 DEF ToGateway, EndSeen
<1>5. CASE run'["gw"] # "running" /\ r = <<>>
  BY <1>2, <1>3, <1>4, <1>5 DEF ToGateway
<1>6. CASE r = Append(q, m)
  <2>1. \A i \in DOMAIN q : q[i] # Control("Eof", c)
    BY <1>2 DEF ToGateway
  <2>2. /\ IsData(m, c) /\ m.chunk = n + 1
        /\ m # Control("Eof", c) /\ m # Control("Open", c)
    BY DEF IsData, Control, Data
  <2>3. /\ \A i \in DOMAIN r : \/ i \in DOMAIN q /\ r[i] = q[i]
                               \/ i = Len(q) + 1 /\ r[i] = m
        /\ \A i \in DOMAIN q : i < Len(q) + 1 /\ Len(q) + 1 > i /\ i \in Nat
        /\ Len(q) + 1 \in Nat
    <3>1. q \in Seq(Messages)
      BY <1>0, BothSides DEF NetTypes
    <3> HIDE DEF m
    <3> QED
      BY <3>1, <1>2, <1>6
  <2>4. ASSUME NEW k \in Nat, InOrder(Chunks("gw", c), k, n)
        PROVE  InOrder(Chunks("gw", c)', k, out'["srv"][c])
    <3>1. Chunks("gw", c) \in Seq(Nat) /\ Chunks("gw", c)' = Append(Chunks("gw", c), n + 1)
      BY <1>0, <1>2, <1>6, <2>2, ChunksAppend, BothSides
    <3>2. InOrder(Append(Chunks("gw", c), n + 1), k, n + 1)
      BY <1>1, <2>4, <3>1, InOrderNext
    <3> QED
      BY <1>2, <3>1, <3>2
  <2> HIDE DEF q, r, m, n
  <2>5. \A i \in DOMAIN r : r[i] # Control("Eof", c)
    BY <2>1, <2>2, <2>3
  <2>6. ASSUME NEW i \in DOMAIN r, r[i] = Control("Open", c)
        PROVE  /\ back'["gw"][c] = "none"
               /\ \A j \in DOMAIN r :
                    /\ j < i => ~IsData(r[j], c)
                    /\ j # i => r[j] # Control("Open", c)
               /\ InOrder(Chunks("gw", c)', 0, out'["srv"][c])
    <3>1. i \in DOMAIN q /\ q[i] = Control("Open", c)
      BY <2>2, <2>3, <2>6
    <3>2. /\ back["gw"][c] = "none"
          /\ \A j \in DOMAIN q : /\ j < i => ~IsData(q[j], c)
                                 /\ j # i => q[j] # Control("Open", c)
          /\ InOrder(Chunks("gw", c), 0, n)
      BY <3>1 DEF ToGateway, q, n
    <3>3. ASSUME NEW j \in DOMAIN r
          PROVE  /\ j < i => ~IsData(r[j], c)
                 /\ j # i => r[j] # Control("Open", c)
      <4>1. CASE j \in DOMAIN q /\ r[j] = q[j]
        BY <4>1, <3>2
      <4>2. CASE j = Len(q) + 1 /\ r[j] = m
        BY <4>2, <2>2, <2>3, <3>1
      <4> QED
        BY <4>1, <4>2, <2>3
    <3> QED
      BY <1>2, <2>4, <3>2, <3>3
  <2>7. run'["gw"] = "running" /\ back'["gw"][c] = "running" =>
          InOrder(Chunks("gw", c)', Len(got'["gw"][c]), out'["srv"][c])
    BY <1>1, <1>2, <2>4 DEF ToGateway, n
  <2> QED
    BY <1>2, <1>3, <1>4, <2>5, <2>6, <2>7 DEF ToGateway, r
<1> QED
  BY <1>2, <1>5, <1>6, Joins

LEMMA ToGatewayEnds ==
    ASSUME TableInv, NEW c \in Conns, ToGateway(c), ReadEofAtServer(c)
    PROVE  ToGateway(c)'
<1> DEFINE q == net["gw"]
           r == net'["gw"]
           m == Control("Eof", c)
<1>0. LoopTypes /\ NetTypes /\ EntryTypes /\ AcceptTypes /\ TcpTypes
  BY Types DEF TableInv
<1>1. out["srv"][c] \in Nat /\ Len(got["gw"][c]) \in Nat
  BY Numbered, BothSides
<1>2. /\ run' = run /\ m \in Messages /\ Send("srv", m)
      /\ reader["srv"][c] = "running" /\ reader'["srv"][c] = "done"
      /\ sock["srv"][c] = "eof"
      /\ UNCHANGED <<out, back, sock, got, shut>>
  BY <1>0, MessageTypes, BothSides DEF ReadEofAtServer, EntryTypes, loop, tcp
<1>3. \A i \in DOMAIN got'["gw"][c] : got'["gw"][c][i] = i
  BY <1>2 DEF ToGateway
<1>4. ~(shut["gw"][c] /\ back["gw"][c] = "running")
  BY <1>2 DEF ToGateway, EndSeen
<1>5. CASE run'["gw"] # "running" /\ r = <<>>
  BY <1>2, <1>3, <1>4, <1>5 DEF ToGateway
<1>6. CASE r = Append(q, m)
  <2>1. \A i \in DOMAIN q : q[i] # Control("Eof", c)
    BY <1>2 DEF ToGateway
  <2>2. ~IsData(m, c) /\ m # Control("Open", c)
    BY DEF IsData, Control
  <2>3. /\ \A i \in DOMAIN r : \/ i \in DOMAIN q /\ r[i] = q[i]
                               \/ i = Len(q) + 1 /\ r[i] = m
        /\ \A i \in DOMAIN r : ~(i > Len(q) + 1)
    <3>1. q \in Seq(Messages)
      BY <1>0, BothSides DEF NetTypes
    <3> HIDE DEF m
    <3> QED
      BY <3>1, <1>2, <1>6
  <2>4. ASSUME NEW k \in Nat, InOrder(Chunks("gw", c), k, out["srv"][c])
        PROVE  InOrder(Chunks("gw", c)', k, out'["srv"][c])
    <3>1. Chunks("gw", c) \in Seq(Nat) /\ Chunks("gw", c)' = Append(Chunks("gw", c), 0)
      BY <1>0, <1>2, <1>6, <2>2, ChunksAppend, BothSides
    <3>2. InOrder(Append(Chunks("gw", c), 0), k, out["srv"][c])
      BY <1>1, <2>4, <3>1, InOrderReply
    <3> QED
      BY <1>2, <3>1, <3>2
  <2> HIDE DEF q, r, m
  <2>5. ASSUME NEW i \in DOMAIN r, r[i] = Control("Eof", c)
        PROVE  /\ reader'["srv"][c] = "done" /\ sock'["srv"][c] # "open"
               /\ \A j \in DOMAIN r : j > i => ~IsData(r[j], c)
    BY <1>2, <2>1, <2>3, <2>5
  <2>6. ASSUME NEW i \in DOMAIN r, r[i] = Control("Open", c)
        PROVE  /\ back'["gw"][c] = "none"
               /\ \A j \in DOMAIN r :
                    /\ j < i => ~IsData(r[j], c)
                    /\ j # i => r[j] # Control("Open", c)
               /\ InOrder(Chunks("gw", c)', 0, out'["srv"][c])
    <3>1. i \in DOMAIN q /\ q[i] = Control("Open", c)
      BY <2>2, <2>3, <2>6
    <3>2. /\ back["gw"][c] = "none"
          /\ \A j \in DOMAIN q : /\ j < i => ~IsData(q[j], c)
                                 /\ j # i => q[j] # Control("Open", c)
          /\ InOrder(Chunks("gw", c), 0, out["srv"][c])
      BY <3>1 DEF ToGateway, q
    <3> QED
      BY <1>2, <2>2, <2>3, <2>4, <3>2
  <2>7. run'["gw"] = "running" /\ back'["gw"][c] = "running" =>
          InOrder(Chunks("gw", c)', Len(got'["gw"][c]), out'["srv"][c])
    BY <1>1, <1>2, <2>4 DEF ToGateway
  <2> QED
    BY <1>2, <1>3, <1>4, <2>5, <2>6, <2>7 DEF ToGateway, r
<1> QED
  BY <1>2, <1>5, <1>6, Joins

LEMMA ToGatewayStarts ==
    ASSUME TableInv, NEW c \in Conns, ToGateway(c), OpenBackend,
           Head(net["gw"]).conn = c
    PROVE  ToGateway(c)'
<1> DEFINE q == net["gw"]
           r == net'["gw"]
<1>0. LoopTypes /\ NetTypes /\ EntryTypes /\ AcceptTypes /\ TcpTypes
  BY Types DEF TableInv
<1>1. /\ Receives("gw", "Open") /\ Consume("gw") /\ run' = run
      /\ back'["gw"][c] = "running" /\ reader'["srv"][c] = reader["srv"][c]
      /\ sock'["srv"][c] = sock["srv"][c] /\ UNCHANGED <<out, got, shut>>
  BY <1>0, BothSides DEF OpenBackend, EntryTypes, TcpTypes
<1>2. q # <<>> /\ Head(q) = Control("Open", c) /\ r = Tail(q)
  <2>1. Head(q) \in Messages /\ Head(q).type = "Open" /\ q # <<>>
    BY <1>0, <1>1, Received, BothSides
  <2>2. Close(0, "AdminClosed") \in Messages
    BY MessageTypes
  <2> QED
    BY <1>0, <1>1, <2>1, <2>2, MessageTypes, Transport, BothSides
<1>3. /\ 1 \in DOMAIN q /\ q[1] = Control("Open", c)
      /\ \A i \in DOMAIN r : /\ i \in Nat /\ i + 1 \in DOMAIN q /\ i + 1 # 1
                             /\ r[i] = q[i + 1]
  BY <1>2, Leaves
<1>4. /\ back["gw"][c] = "none" /\ reader["srv"][c] # "none"
      /\ \A j \in DOMAIN q : j # 1 => q[j] # Control("Open", c)
      /\ InOrder(Chunks("gw", c), 0, out["srv"][c])
  BY <1>3 DEF ToGateway, Control
<1>5. got["gw"][c] = <<>> /\ ~shut["gw"][c]
  BY <1>4, BothSides DEF TableInv, Backends, Opening
<1>6. InOrder(Chunks("gw", c)', 0, out'["srv"][c])
  <2>1. ~IsData(Head(q), c)
    BY <1>2 DEF IsData, Control
  <2>2. /\ Chunks("gw", c) \in Seq(Nat) /\ Chunks("gw", c) # <<>>
        /\ Chunks("gw", c)' = Tail(Chunks("gw", c)) /\ Head(Chunks("gw", c)) = 0
    BY <1>0, <1>2, <2>1, ChunksTail, BothSides
  <2>3. InOrder(Tail(Chunks("gw", c)), 0, out["srv"][c])
    BY <1>4, <2>2, InOrderTail, Numbered, BothSides
  <2> QED
    BY <1>1, <2>2, <2>3
<1>7. Len(got'["gw"][c]) = 0 /\ \A i \in DOMAIN got'["gw"][c] : got'["gw"][c][i] = i
  BY <1>1, <1>5
<1> HIDE DEF q, r
<1>8. ASSUME NEW i \in DOMAIN r, r[i] = Control("Eof", c)
      PROVE  /\ reader'["srv"][c] = "done" /\ sock'["srv"][c] # "open"
             /\ \A j \in DOMAIN r : j > i => ~IsData(r[j], c)
  <2>1. i + 1 \in DOMAIN q /\ q[i + 1] = Control("Eof", c)
    BY <1>3, <1>8
  <2>2. /\ reader["srv"][c] = "done" /\ sock["srv"][c] # "open"
        /\ \A j \in DOMAIN q : j > i + 1 => ~IsData(q[j], c)
    BY <2>1 DEF ToGateway, q
  <2>3. \A j \in DOMAIN r : j > i => j + 1 > i + 1
    BY <1>3
  <2> QED
    BY <1>1, <1>3, <2>2, <2>3
<1>9. \A i \in DOMAIN r : r[i] # Control("Open", c)
  BY <1>3, <1>4
<1> QED
  BY <1>1, <1>4, <1>5, <1>6, <1>7, <1>8, <1>9 DEF ToGateway, r

LEMMA ToGatewayWrites ==
    ASSUME TableInv, NEW c \in Conns, ToGateway(c), Receives("gw", "Data"), Consume("gw"),
           run' = run, Head(net["gw"]).conn = c, back["gw"][c] = "running",
           back'["gw"][c] = "running",
           got'["gw"][c] = Append(got["gw"][c], Head(net["gw"]).chunk),
           UNCHANGED <<reader, sock, shut, out>>
    PROVE  ToGateway(c)'
<1> DEFINE q == net["gw"]
           r == net'["gw"]
           n == out["srv"][c]
           l == Len(got["gw"][c])
<1>0. LoopTypes /\ NetTypes /\ EntryTypes /\ AcceptTypes /\ TcpTypes
  BY Types DEF TableInv
<1>1. q # <<>> /\ IsData(Head(q), c) /\ r = Tail(q) /\ run["gw"] = "running"
  <2>1. Head(q) \in Messages /\ Head(q).type = "Data" /\ q # <<>> /\ run["gw"] = "running"
    BY <1>0, Received, BothSides
  <2>2. Close(0, "AdminClosed") \in Messages
    BY MessageTypes
  <2> QED
    BY <1>0, <2>1, <2>2, Transport, BothSides DEF IsData
<1>2. /\ 1 \in DOMAIN q /\ q[1] = Head(q)
      /\ \A i \in DOMAIN r : /\ i \in Nat /\ i + 1 \in DOMAIN q /\ i + 1 > 1
                             /\ r[i] = q[i + 1]
  BY <1>1, Leaves
<1>3. l \in Nat /\ n \in Nat /\ got["gw"][c] \in Seq(Nat)
  BY Numbered, BothSides
<1>4. InOrder(Chunks("gw", c), l, n)
  BY <1>1 DEF ToGateway
<1>5. Head(q).chunk = l + 1 /\ InOrder(Chunks("gw", c)', l + 1, n)
  <2>1. /\ Chunks("gw", c) \in Seq(Nat) /\ Chunks("gw", c) # <<>>
        /\ Chunks("gw", c)' = Tail(Chunks("gw", c))
        /\ Head(Chunks("gw", c)) = Head(q).chunk /\ Head(q).chunk # 0
    BY <1>0, <1>1, ChunksTail, BothSides
  <2> HIDE DEF l, n
  <2>2. /\ Head(Chunks("gw", c)) # 0
        /\ Head(Chunks("gw", c)) = l + 1 /\ InOrder(Tail(Chunks("gw", c)), l + 1, n)
    BY <1>3, <1>4, <2>1, InOrderTail
  <2> QED
    BY <2>1, <2>2
<1>6. /\ Len(got'["gw"][c]) = l + 1
      /\ \A i \in DOMAIN got'["gw"][c] : got'["gw"][c][i] = i
  <2>1. got'["gw"][c] = Append(got["gw"][c], l + 1)
    BY <1>5
  <2>2. \A i \in 1..l : got["gw"][c][i] = i
    BY <1>3 DEF ToGateway
  <2> QED
    BY <1>3, <2>1, <2>2
<1>7. /\ reader["srv"][c] # "none"
      /\ \A i \in DOMAIN q : q[i] # Control("Open", c)
      /\ ~(shut["gw"][c] /\ back["gw"][c] = "running")
  <2>1. back["gw"][c] # "none"
    OBVIOUS
  <2> QED
    BY <1>1, <1>2, <2>1 DEF ToGateway, EndSeen
<1> HIDE DEF q, r
<1>8. ASSUME NEW i \in DOMAIN r, r[i] = Control("Eof", c)
      PROVE  /\ reader'["srv"][c] = "done" /\ sock'["srv"][c] # "open"
             /\ \A j \in DOMAIN r : j > i => ~IsData(r[j], c)
  <2>1. i + 1 \in DOMAIN q /\ q[i + 1] = Control("Eof", c)
    BY <1>2, <1>8
  <2>2. /\ reader["srv"][c] = "done" /\ sock["srv"][c] # "open"
        /\ \A j \in DOMAIN q : j > i + 1 => ~IsData(q[j], c)
    BY <2>1 DEF ToGateway, q
  <2>3. \A j \in DOMAIN r : j > i => j + 1 > i + 1
    BY <1>2
  <2> QED
    BY <1>2, <2>2, <2>3
<1>9. \A i \in DOMAIN r : r[i] # Control("Open", c)
  BY <1>2, <1>7
<1> QED
  BY <1>3, <1>5, <1>6, <1>7, <1>8, <1>9 DEF ToGateway, r

-----------------------------------------------------------------------------
(* The target's stream.                                                    *)

\* The gateway reads nothing for c, and the server neither writes anything nor
\* starts to.
ClientRests(c) ==
    /\ out'["gw"][c] = out["gw"][c] /\ got'["srv"][c] = got["srv"][c]
    /\ back'["srv"][c] \in {"none", "running"} => back["srv"][c] \in {"none", "running"}

LEMMA ToServerRests ==
    ASSUME TableInv, NEW c \in Conns, ToServer(c), ClientRests(c), WayRests("srv", c)
    PROVE  ToServer(c)'
<1> DEFINE n == out["gw"][c]
           g == got["srv"][c]
<1>0. NetTypes /\ n \in Nat
  BY Types, Numbered, BothSides DEF TableInv
<1> HIDE DEF n, g
<1>1. SUFFICES ASSUME run'["srv"] = "running", back'["srv"][c] \in {"none", "running"}
               PROVE  \E k, m \in 0..n : InOrder(g, k, m) /\ InOrder(Chunks("srv", c)', m, n)
  BY DEF ToServer, ClientRests, n, g
<1>2. run["srv"] = "running" /\ back["srv"][c] \in {"none", "running"}
  BY <1>1 DEF WayRests, ClientRests
<1>3. PICK k, m \in 0..n : InOrder(g, k, m) /\ InOrder(Chunks("srv", c), m, n)
  BY <1>2 DEF ToServer, n, g
<1>4. m \in Nat
  BY <1>0
<1>5. InOrder(Chunks("srv", c)', m, n)
  <2>1. CASE net'["srv"] = net["srv"]
    <3>1. Chunks("srv", c)' = Chunks("srv", c)
      BY <2>1 DEF Chunks
    <3> QED
      BY <1>3, <3>1
  <2>2. ASSUME NEW x \in Messages, net'["srv"] = Append(net["srv"], x), ~IsData(x, c)
        PROVE  InOrder(Chunks("srv", c)', m, n)
    <3>1. /\ Chunks("srv", c) \in Seq(Nat)
          /\ Chunks("srv", c)' = Append(Chunks("srv", c), 0)
      BY <1>0, <2>2, ChunksAppend, BothSides
    <3>2. InOrder(Append(Chunks("srv", c), 0), m, n)
      BY <1>0, <1>3, <1>4, <3>1, InOrderReply
    <3> QED
      BY <3>1, <3>2
  <2>3. ASSUME net["srv"] # <<>>, net'["srv"] = Tail(net["srv"]),
               ~IsData(Head(net["srv"]), c)
        PROVE  InOrder(Chunks("srv", c)', m, n)
    <3>1. /\ Chunks("srv", c) \in Seq(Nat) /\ Chunks("srv", c) # <<>>
          /\ Chunks("srv", c)' = Tail(Chunks("srv", c)) /\ Head(Chunks("srv", c)) = 0
      BY <1>0, <2>3, ChunksTail, BothSides
    <3>2. InOrder(Tail(Chunks("srv", c)), m, n)
      BY <1>0, <1>3, <1>4, <3>1, InOrderTail
    <3> QED
      BY <3>1, <3>2
  <2>4. \A x \in Messages : (x.conn = c => x.type \notin {"Open", "Data", "Eof"})
                              => ~IsData(x, c)
    BY DEF IsData
  <2> QED
    BY <1>1, <2>1, <2>2, <2>3, <2>4 DEF WayRests, Foreign, Unwritten
<1> QED
  BY <1>3, <1>5

LEMMA ToServerReads ==
    ASSUME TableInv, NEW c \in Conns, ToServer(c), Read("gw", c)
    PROVE  ToServer(c)'
<1> DEFINE n == out["gw"][c]
           g == got["srv"][c]
<1>0. LoopTypes /\ NetTypes /\ TcpTypes /\ n \in Nat
  BY Types, Numbered, BothSides DEF TableInv
<1>1. n + 1 \in 1..MaxData
  BY <1>0, Numbers, BothSides DEF Read, TcpTypes
<1>2. /\ run' = run /\ out'["gw"][c] = n + 1 /\ Send("gw", Data(c, n + 1))
      /\ UNCHANGED <<back, got>> /\ Data(c, n + 1) \in Messages
  BY <1>0, <1>1, MessageTypes, BothSides DEF Read, TcpTypes, loop, entry
<1> HIDE DEF n, g
<1>3. SUFFICES ASSUME run["srv"] = "running", back["srv"][c] \in {"none", "running"}
               PROVE  \E k, m \in 0..(n + 1) :
                        InOrder(g, k, m) /\ InOrder(Chunks("srv", c)', m, n + 1)
  BY <1>2 DEF ToServer, n, g
<1>4. PICK k, m \in 0..n : InOrder(g, k, m) /\ InOrder(Chunks("srv", c), m, n)
  BY <1>3 DEF ToServer, n, g
<1>5. m \in Nat /\ k \in 0..(n + 1) /\ m \in 0..(n + 1)
  BY <1>0
<1>6. net'["srv"] = Append(net["srv"], Data(c, n + 1))
  BY <1>0, <1>2, <1>3, Transport, BothSides
<1>7. IsData(Data(c, n + 1), c) /\ Data(c, n + 1).chunk = n + 1
  BY DEF IsData, Data
<1>8. /\ Chunks("srv", c) \in Seq(Nat)
      /\ Chunks("srv", c)' = Append(Chunks("srv", c), n + 1)
  BY <1>0, <1>2, <1>6, <1>7, ChunksAppend, BothSides
<1>9. InOrder(Append(Chunks("srv", c), n + 1), m, n + 1)
  BY <1>0, <1>4, <1>5, <1>8, InOrderNext
<1> QED
  BY <1>4, <1>5, <1>8, <1>9

\* A chunk is written, or dropped while the connection is not registered.
LEMMA ToServerWrites ==
    ASSUME TableInv, NEW c \in Conns, ToServer(c), Receives("srv", "Data"),
           Consume("srv"), run' = run, Head(net["srv"]).conn = c, out' = out,
           back'["srv"][c] = back["srv"][c],
           \/ back["srv"][c] = "none" /\ got'["srv"][c] = got["srv"][c]
           \/ got'["srv"][c] = Append(got["srv"][c], Head(net["srv"]).chunk)
    PROVE  ToServer(c)'
<1> DEFINE n == out["gw"][c]
           g == got["srv"][c]
           h == got'["srv"][c]
<1>0. LoopTypes /\ NetTypes /\ n \in Nat /\ g \in Seq(Nat)
  BY Types, Numbered, BothSides DEF TableInv
<1>1. /\ net["srv"] # <<>> /\ IsData(Head(net["srv"]), c) /\ run["srv"] = "running"
      /\ net'["srv"] = Tail(net["srv"])
  <2>1. Close(0, "AdminClosed") \in Messages
    BY MessageTypes
  <2> QED
    BY <1>0, <2>1, Received, Transport, BothSides DEF IsData
<1>2. back["srv"][c] = "none" => g = <<>>
  BY BothSides DEF TableInv, Backends
<1>3. \/ back["srv"][c] = "none" /\ h = g
      \/ h = Append(g, Head(net["srv"]).chunk)
  OBVIOUS
<1> HIDE DEF n, g, h
<1>4. SUFFICES ASSUME back["srv"][c] \in {"none", "running"}
               PROVE  \E k, m \in 0..n : InOrder(h, k, m) /\ InOrder(Chunks("srv", c)', m, n)
  BY DEF ToServer, n, h
<1>5. PICK k, m \in 0..n : InOrder(g, k, m) /\ InOrder(Chunks("srv", c), m, n)
  BY <1>1, <1>4 DEF ToServer, n, g
<1>6. m \in Nat /\ k \in Nat
  BY <1>0
<1>7. /\ Chunks("srv", c) \in Seq(Nat) /\ Chunks("srv", c) # <<>>
      /\ Chunks("srv", c)' = Tail(Chunks("srv", c))
      /\ Head(Chunks("srv", c)) = Head(net["srv"]).chunk /\ Head(net["srv"]).chunk # 0
  BY <1>0, <1>1, ChunksTail, BothSides
<1>8. /\ Head(Chunks("srv", c)) # 0
      /\ Head(Chunks("srv", c)) = m + 1 /\ m + 1 <= n
      /\ InOrder(Tail(Chunks("srv", c)), m + 1, n)
  BY <1>0, <1>5, <1>6, <1>7, InOrderTail
<1>9. m + 1 \in 0..n
  BY <1>6, <1>8, <1>0
<1>10. CASE back["srv"][c] = "none" /\ h = g
  <2>1. InOrder(h, m + 1, m + 1)
    BY <1>2, <1>6, <1>10 DEF InOrder
  <2> QED
    BY <1>7, <1>8, <1>9, <2>1
<1>11. CASE h = Append(g, Head(net["srv"]).chunk)
  <2>1. InOrder(Append(g, m + 1), k, m + 1)
    BY <1>0, <1>5, <1>6, InOrderNext
  <2>2. h = Append(g, m + 1)
    BY <1>7, <1>8, <1>11
  <2> QED
    BY <1>5, <1>7, <1>8, <1>9, <2>1, <2>2
<1> QED
  BY <1>3, <1>10, <1>11

\* The SOCKS5 reply is written.
LEMMA ToServerReplies ==
    ASSUME TableInv, NEW c \in Conns, ToServer(c), Receives("srv", "Opened"),
           Consume("srv"), run' = run, out' = out,
           back["srv"][c] = "running", got'["srv"][c] = Append(got["srv"][c], 0)
    PROVE  ToServer(c)'
<1> DEFINE n == out["gw"][c]
           g == got["srv"][c]
<1>0. LoopTypes /\ NetTypes /\ n \in Nat /\ g \in Seq(Nat)
  BY Types, Numbered, BothSides DEF TableInv
<1>1. /\ net["srv"] # <<>> /\ ~IsData(Head(net["srv"]), c) /\ run["srv"] = "running"
      /\ net'["srv"] = Tail(net["srv"])
  <2>1. Close(0, "AdminClosed") \in Messages
    BY MessageTypes
  <2> QED
    BY <1>0, <2>1, Received, Transport, BothSides DEF IsData
<1> HIDE DEF n, g
<1>2. PICK k, m \in 0..n : InOrder(g, k, m) /\ InOrder(Chunks("srv", c), m, n)
  BY <1>1 DEF ToServer, n, g
<1>3. m \in Nat /\ k \in Nat
  BY <1>0
<1>4. InOrder(Append(g, 0), k, m)
  BY <1>0, <1>2, <1>3, InOrderReply
<1>5. /\ Chunks("srv", c) \in Seq(Nat) /\ Chunks("srv", c) # <<>>
      /\ Chunks("srv", c)' = Tail(Chunks("srv", c)) /\ Head(Chunks("srv", c)) = 0
  BY <1>0, <1>1, ChunksTail, BothSides
<1>6. InOrder(Tail(Chunks("srv", c)), m, n)
  BY <1>0, <1>2, <1>3, <1>5, InOrderTail
<1> QED
  BY <1>2, <1>4, <1>5, <1>6 DEF ToServer, n, g

-----------------------------------------------------------------------------
(* The steps and the streams.                                              *)

\* What the handlers and the tasks do to the messages on their way.
LEMMA WaysRest ==
    ASSUME TableInv, NEW c \in Conns
    PROVE  /\ net' = net /\ run' = run => \A s \in Sides : WayRests(s, c)
           /\ \A s \in Sides, m \in Messages : Send(s, m) /\ run' = run => WayRests(s, c)
           /\ \A s \in Sides, m \in Messages :
                Send(s, m) /\ run' = run /\ Foreign(m, c) => \A t \in Sides : WayRests(t, c)
           /\ \A s \in Sides : \A t :
                Receives(s, t) /\ Consume(s) /\ run' = run => WayRests(Other(s), c)
           /\ \A s \in Sides : \A t :
                Receives(s, t) /\ Consume(s) /\ run' = run /\ Unwritten(s, c) =>
                  \A u \in Sides : WayRests(u, c)
           /\ \A s \in Sides : LeaveLoop(s) => \A t \in Sides : WayRests(t, c)
<1>0. LoopTypes /\ NetTypes
  BY Types DEF TableInv
<1>1. ASSUME net' = net, run' = run PROVE \A s \in Sides : WayRests(s, c)
  BY <1>1 DEF WayRests
<1>2. ASSUME NEW s \in Sides, NEW m \in Messages, Send(s, m), run' = run
      PROVE  WayRests(s, c) /\ (Foreign(m, c) => WayRests(Other(s), c))
  BY <1>0, <1>2, Transport DEF WayRests
<1>3. ASSUME NEW s \in Sides, NEW t, Receives(s, t), Consume(s), run' = run
      PROVE  WayRests(Other(s), c) /\ (Unwritten(s, c) => WayRests(s, c))
  <2>1. Close(0, "AdminClosed") \in Messages /\ net[s] # <<>>
    BY <1>0, <1>3, MessageTypes, Received
  <2> QED
    BY <1>0, <1>3, <2>1, Transport DEF WayRests
<1>4. ASSUME NEW s \in Sides, LeaveLoop(s) PROVE WayRests(s, c) /\ WayRests(Other(s), c)
  BY <1>0, <1>4, LeaveLoopEffect DEF WayRests
<1>5. \A s \in Sides : \A t \in Sides : t = s \/ t = Other(s)
  BY BothSides
<1> QED
  BY <1>1, <1>2, <1>3, <1>4, <1>5

LEMMA AnswerRests ==
    ASSUME TableInv, NEW c \in Conns, NEW s \in Sides, NEW t, NEW m \in Messages,
           Receives(s, t), ConsumeAndSend(s, m), run' = run, Foreign(m, c), Unwritten(s, c)
    PROVE  \A u \in Sides : WayRests(u, c)
<1>0. LoopTypes /\ NetTypes
  BY Types DEF TableInv
<1>1. net[s] # <<>>
  BY <1>0, Received
<1>2. WayRests(Other(s), c) /\ WayRests(s, c)
  BY <1>0, <1>1, Transport DEF WayRests
<1> QED
  BY <1>2, BothSides

\* A connection leaves the table.
LEMMA RemovalRests ==
    ASSUME TableInv, NEW c \in Conns, NEW s \in Sides, NEW d \in Conns, RemoveConn(s, d),
           cleanup' \in [Sides -> [Conns -> Nat]], UNCHANGED <<sock, out, got>>
    PROVE  ServerRests(c) /\ GatewayRests(c) /\ ClientRests(c)
<1>0. EntryTypes /\ TcpTypes
  BY Types DEF TableInv
<1>1. \A t \in Sides : \/ /\ back'[t][c] = back[t][c] /\ shut'[t][c] = shut[t][c]
                          /\ reader'[t][c] = reader[t][c]
                       \/ /\ conns[t][c] # "absent" /\ back'[t][c] = "done"
                          /\ \/ reader'[t][c] = reader[t][c]
                             \/ reader[t][c] = "running" /\ reader'[t][c] = "done"
  BY <1>0, RemoveConnEffect
<1>2. \A t \in Sides : conns[t][c] # "absent" => back[t][c] # "none"
  BY DEF TableInv, Backends
<1> QED
  BY <1>1, <1>2, BothSides DEF ServerRests, GatewayRests, ClientRests

\* A connection is marked CLOSING.
LEMMA DelayRests ==
    ASSUME TableInv, NEW c \in Conns, NEW s \in Sides, NEW d \in Conns, DelayedClose(s, d),
           UNCHANGED <<back, shut, sock, out, got>>
    PROVE  ServerRests(c) /\ GatewayRests(c) /\ ClientRests(c)
<1>0. EntryTypes
  BY Types DEF TableInv
<1>1. \/ reader'["srv"][c] = reader["srv"][c]
      \/ reader["srv"][c] = "running" /\ reader'["srv"][c] = "done"
  BY <1>0, DelayedCloseEffect, BothSides
<1> QED
  BY <1>1 DEF ServerRests, GatewayRests, ClientRests

LEMMA TablesRest ==
    ASSUME NEW c \in Conns
    PROVE  /\ UNCHANGED <<out, reader, sock>> => ServerRests(c)
           /\ UNCHANGED <<got, back, shut>> => GatewayRests(c)
           /\ UNCHANGED <<got, back, out>> => ClientRests(c)
BY DEF ServerRests, GatewayRests, ClientRests

LEMMA StreamStep ==
    ASSUME TableInv, StreamInv, Next
    PROVE  StreamInv'
<1> SUFFICES ASSUME NEW c \in Conns PROVE ToGateway(c)' /\ ToServer(c)'
  BY DEF StreamInv
<1>0. LoopTypes /\ NetTypes /\ EntryTypes /\ AcceptTypes /\ TcpTypes
  BY Types DEF TableInv
<1>1. ToGateway(c) /\ ToServer(c)
  BY DEF StreamInv
<1> DEFINE Goal == ToGateway(c)' /\ ToServer(c)'
<1>2. ASSUME ServerRests(c), GatewayRests(c), WayRests("gw", c) PROVE ToGateway(c)'
  BY <1>1, <1>2, ToGatewayRests
<1>3. ASSUME ClientRests(c), WayRests("srv", c) PROVE ToServer(c)'
  BY <1>1, <1>3, ToServerRests
<1>4. ASSUME ServerRests(c), GatewayRests(c), ClientRests(c),
             \A s \in Sides : WayRests(s, c)
      PROVE  Goal
  BY <1>2, <1>3, <1>4, BothSides
<1>5. /\ \A d \in Conns : /\ Foreign(Control("Opened", d), c)
                          /\ \A r : Foreign(Close(d, r), c)
                          /\ \A t, x : d # c => Foreign(Control(t, d), c) /\ Foreign(Data(d, x), c)
      /\ \A r : Foreign(Close(0, r), c)
  BY DEF Foreign, Control, Close, Data
<1>6. \A s \in Sides : \A t : Receives(s, t) /\ t # "Data" => Unwritten(s, c)
  BY DEF Receives, Unwritten, IsData
<1> HIDE DEF Goal
<1>7. ASSUME NEW s \in Sides,
             RunLoop(s) \/ CloseChannel(s) \/ Notify(s) \/ Shutdown(s)
      PROVE  Goal
  <2>1. CASE ForwardData(s)
    <3> DEFINE d == Head(net[s]).conn
    <3>1. /\ Receives(s, "Data") /\ Consume(s) /\ run' = run
          /\ Write(s, d, Head(net[s]).chunk)
          /\ UNCHANGED <<reader, sock, shut, out>>
      BY <2>1 DEF ForwardData, loop
    <3>2. d \in Conns /\ Head(net[s]).chunk \in 0..MaxData
      BY <1>0, <3>1, Received, MessageTypes, Numbers
    <3>3. ASSUME NEW e \in Conns, NEW t \in Sides, t # s \/ e # d
          PROVE  back'[t][e] = back[t][e] /\ got'[t][e] = got[t][e]
      BY <1>0, <3>1, <3>2, <3>3, WriteEffect
    <3>4. \/ /\ back[s][d] = "running" /\ back'[s][d] = "running"
             /\ got'[s][d] = Append(got[s][d], Head(net[s]).chunk)
          \/ /\ back[s][d] = "running" /\ back'[s][d] = "dead"
             /\ got'[s][d] = got[s][d]
          \/ /\ conns[s][d] = "absent" \/ back[s][d] # "running"
             /\ back'[s][d] = back[s][d] /\ got'[s][d] = got[s][d]
      BY ZenonT(60), <1>0, <3>1, <3>2, WriteEffect
    <3>5. back[s][d] = "running" => conns[s][d] # "absent"
      BY <3>2 DEF TableInv, Backends
    <3>6. WayRests(Other(s), c) /\ ServerRests(c)
      BY <3>1, WaysRest, TablesRest
    <3>7. d # c => Unwritten(s, c)
      BY DEF Unwritten, IsData
    <3>8. Unwritten(s, c) => WayRests(s, c)
      BY <3>1, WaysRest
    <3> HIDE DEF d
    <3>9. CASE s = "gw"
      <4>1. ClientRests(c)
        BY <3>1, <3>3, <3>9, BothSides DEF ClientRests
      <4>2. ToServer(c)'
        BY <3>6, <3>9, <4>1, <1>3, BothSides
      <4>3. CASE d # c
        <5>1. GatewayRests(c)
          BY <3>1, <3>3, <3>9, <4>3 DEF GatewayRests
        <5> QED
          BY <5>1, <4>2, <4>3, <3>6, <3>7, <3>8, <3>9, <1>2 DEF Goal
      <4>4. CASE d = c /\ back'["gw"][c] = "running"
        <5>1. /\ back["gw"][c] = "running"
              /\ got'["gw"][c] = Append(got["gw"][c], Head(net["gw"]).chunk)
          BY <3>4, <3>5, <3>9, <4>4
        <5>2. Head(net["gw"]).conn = c
          BY <3>9, <4>4 DEF d
        <5> QED
          BY <5>1, <5>2, <4>2, <4>4, <3>1, <3>9, <1>1, ToGatewayWrites DEF Goal
      <4>5. CASE d = c /\ back'["gw"][c] # "running"
        <5>1. GatewayRests(c)
          BY <3>4, <3>9, <4>5 DEF GatewayRests
        <5>2. Unwritten(s, c)
          BY <3>9, <4>5 DEF Unwritten
        <5> QED
          BY <5>1, <5>2, <4>2, <3>6, <3>8, <3>9, <1>2 DEF Goal
      <4> QED
        BY <4>3, <4>4, <4>5
    <3>10. CASE s = "srv"
      <4>1. GatewayRests(c)
        BY <3>1, <3>3, <3>10, BothSides DEF GatewayRests
      <4>2. ToGateway(c)'
        BY <3>6, <3>10, <4>1, <1>2, BothSides
      <4>3. CASE d # c
        <5>1. ClientRests(c)
          BY <3>1, <3>3, <3>10, <4>3 DEF ClientRests
        <5> QED
          BY <5>1, <4>2, <4>3, <3>7, <3>8, <3>10, <1>3 DEF Goal
      <4>4. CASE d = c /\ back'["srv"][c] \in {"none", "running"}
        <5>1. /\ back'["srv"][c] = back["srv"][c]
              /\ \/ back["srv"][c] = "none" /\ got'["srv"][c] = got["srv"][c]
                 \/ got'["srv"][c] = Append(got["srv"][c], Head(net["srv"]).chunk)
          BY <3>4, <3>5, <3>10, <4>4
        <5>2. Head(net["srv"]).conn = c /\ out' = out
          BY <3>1, <3>10, <4>4 DEF d
        <5> QED
          BY <5>1, <5>2, <4>2, <3>1, <3>10, <1>1, ToServerWrites DEF Goal
      <4>5. CASE d = c /\ back'["srv"][c] \notin {"none", "running"}
        <5>1. ClientRests(c)
          BY <3>1, <3>4, <3>10, <4>5 DEF ClientRests
        <5>2. Unwritten(s, c)
          BY <3>10, <4>5 DEF Unwritten
        <5> QED
          BY <5>1, <5>2, <4>2, <3>8, <3>10, <1>3 DEF Goal
      <4> QED
        BY <4>3, <4>4, <4>5
    <3> QED
      BY <3>9, <3>10, BothSides
  <2>2. CASE ForwardToDead(s)
    <3>1. /\ Receives(s, "Data") /\ run' = run
          /\ ConsumeAndSend(s, Close(Head(net[s]).conn, "ConnectionLost"))
          /\ DelayedClose(s, Head(net[s]).conn)
          /\ back[s][Head(net[s]).conn] = "dead"
          /\ UNCHANGED <<back, shut, sock, out, got>>
      BY <2>2 DEF ForwardToDead, loop, tcp
    <3>2. Head(net[s]).conn \in Conns
      BY <1>0, <3>1, Received, MessageTypes
    <3>3. Close(Head(net[s]).conn, "ConnectionLost") \in Messages
      BY <3>2, MessageTypes
    <3>4. Unwritten(s, c)
      BY <3>1 DEF Unwritten, IsData
    <3>5. \A u \in Sides : WayRests(u, c)
      <4> DEFINE m == Close(Head(net[s]).conn, "ConnectionLost")
      <4>1. Foreign(m, c)
        BY <1>5, <3>2
      <4> HIDE DEF m
      <4> QED
        <5>1. ConsumeAndSend(s, m) /\ m \in Messages
          BY <3>1, <3>3 DEF m
        <5> QED
          BY <3>1, <3>4, <4>1, <5>1, AnswerRests
    <3> QED
      BY <1>4, <3>1, <3>2, <3>5, DelayRests
  <2>3. CASE HandleClose(s)
    <3>1. /\ Receives(s, "Close") /\ Consume(s) /\ run' = run
          /\ Head(net[s]).conn # 0 /\ UNCHANGED <<sock, out, got>>
          /\ \/ RemoveConn(s, Head(net[s]).conn) /\ UNCHANGED cleanup
             \/ DelayedClose(s, Head(net[s]).conn) /\ UNCHANGED <<back, shut>>
      BY <2>3 DEF HandleClose, loop
    <3>2. Head(net[s]).conn \in Conns
      BY <1>0, <3>1, Received, MessageTypes
    <3>3. \A u \in Sides : WayRests(u, c)
      BY <1>6, <3>1, WaysRest
    <3>4. ServerRests(c) /\ GatewayRests(c) /\ ClientRests(c)
      <4>1. UNCHANGED cleanup => cleanup' \in [Sides -> [Conns -> Nat]]
        BY <1>0 DEF EntryTypes
      <4> QED
        BY <3>1, <3>2, <4>1, RemovalRests, DelayRests
    <3> QED
      BY <1>4, <3>3, <3>4
  <2>4. CASE HandleCloseChannel(s)
    BY <2>4, <1>4, WaysRest, TablesRest DEF HandleCloseChannel, entry, tcp
  <2>5. CASE s = "srv" /\ Register
    <3>1. /\ UNCHANGED <<run, net, reader, sock, shut, out, got>>
          /\ back'["gw"] = back["gw"]
      BY <2>5, <1>0, BothSides DEF Register, EntryTypes, loop, tcp
    <3>2. ServerRests(c) /\ GatewayRests(c) /\ \A u \in Sides : WayRests(u, c)
      BY <3>1, WaysRest DEF ServerRests, GatewayRests
    <3>3. back["srv"][c] = "none" \/ back'["srv"][c] = back["srv"][c]
      <4>1. serverConns # <<>> /\ serverConns \in Seq(Conns)
        BY <2>5, <1>0 DEF Register, AcceptTypes
      <4>2. 1 \in DOMAIN serverConns /\ Head(serverConns) = serverConns[1]
            /\ Head(serverConns) \in Conns
        BY <4>1
      <4>3. back["srv"][Head(serverConns)] = "none"
        BY <4>2 DEF TableInv, Waiting, Accepted
      <4> QED
        BY <2>5, <1>0, <4>2, <4>3 DEF Register, EntryTypes
    <3>4. ClientRests(c)
      BY <3>1, <3>3 DEF ClientRests
    <3> QED
      BY <1>4, <3>2, <3>4
  <2>6. CASE s = "srv" /\ HandleConnectionOpened
    <3> DEFINE d == Head(net["srv"]).conn
    <3>1. /\ Receives("srv", "Opened") /\ Consume("srv") /\ run' = run
          /\ IF Socks5 THEN Write("srv", d, Reply) ELSE UNCHANGED <<got, back>>
          /\ UNCHANGED <<reader, sock, shut, out>>
      BY <2>6 DEF HandleConnectionOpened, loop
    <3>2. d \in Conns /\ Reply \in 0..MaxData
      BY <1>0, <3>1, Received, MessageTypes, Numbers, BothSides DEF Reply
    <3>3. \A u \in Sides : WayRests(u, c)
      BY <1>6, <3>1, WaysRest, BothSides
    <3>4. ServerRests(c)
      BY <3>1, TablesRest
    <3>5. CASE ~Socks5
      BY <1>4, <3>1, <3>3, <3>4, <3>5, TablesRest
    <3>6. CASE Socks5
      <4>1. \A t \in Sides, e \in Conns : t # "srv" \/ e # d =>
              back'[t][e] = back[t][e] /\ got'[t][e] = got[t][e]
        BY <1>0, <3>1, <3>2, <3>6, WriteEffect, BothSides
      <4>2. \/ /\ back["srv"][d] = "running" /\ back'["srv"][d] = "running"
               /\ got'["srv"][d] = Append(got["srv"][d], Reply)
            \/ /\ back["srv"][d] = "running" /\ back'["srv"][d] = "dead"
               /\ got'["srv"][d] = got["srv"][d]
            \/ back'["srv"][d] = back["srv"][d] /\ got'["srv"][d] = got["srv"][d]
        BY ZenonT(30), <1>0, <3>1, <3>2, <3>6, WriteEffect, BothSides
      <4>3. GatewayRests(c)
        BY <3>1, <4>1, BothSides DEF GatewayRests
      <4>4. ToGateway(c)'
        BY <1>2, <3>3, <3>4, <4>3, BothSides
      <4>5. CASE ClientRests(c)
        BY <1>3, <3>3, <4>4, <4>5, BothSides DEF Goal
      <4>6. CASE ~ClientRests(c)
        <5>1. d = c
          BY <3>1, <4>1, <4>6, BothSides DEF ClientRests
        <5>2. back["srv"][c] = "running" /\ got'["srv"][c] = Append(got["srv"][c], 0)
          <6> HIDE DEF d
          <6> QED
            BY <3>1, <4>2, <4>6, <5>1 DEF ClientRests, Reply
        <5> QED
          BY <1>1, <3>1, <4>4, <5>2, ToServerReplies DEF Goal
      <4> QED
        BY <4>5, <4>6
    <3> QED
      BY <3>5, <3>6
  <2>7. CASE s = "gw" /\ OpenBackend
    <3> DEFINE d == Head(net["gw"]).conn
    <3>1. /\ Receives("gw", "Open") /\ Consume("gw") /\ run' = run
          /\ UNCHANGED <<shut, out, got>>
          /\ reader'["srv"] = reader["srv"] /\ sock'["srv"] = sock["srv"]
          /\ back'["srv"] = back["srv"]
      BY <2>7, <1>0, BothSides DEF OpenBackend, EntryTypes, TcpTypes
    <3>2. d # c => back'["gw"][c] = back["gw"][c]
      BY <2>7, <1>0, BothSides DEF OpenBackend, EntryTypes
    <3>3. \A u \in Sides : WayRests(u, c)
      BY <1>6, <3>1, WaysRest, BothSides
    <3>4. ServerRests(c) /\ ClientRests(c)
      BY <3>1 DEF ServerRests, ClientRests
    <3>5. CASE d # c
      <4>1. GatewayRests(c)
        BY <3>1, <3>2, <3>5 DEF GatewayRests
      <4> QED
        BY <1>4, <3>3, <3>4, <4>1
    <3>6. CASE d = c
      <4>1. ToGateway(c)'
        BY <2>7, <1>1, <3>6, ToGatewayStarts
      <4> QED
        BY <1>3, <3>3, <3>4, <4>1, BothSides DEF Goal
    <3> QED
      BY <3>5, <3>6
  <2>8. CASE s = "gw" /\ OpenFails
    <3>1. /\ Receives("gw", "Open") /\ run' = run
          /\ ConsumeAndSend("gw", Close(Head(net["gw"]).conn, "ConnectionFailed"))
          /\ UNCHANGED <<reader, back, sock, shut, out, got>>
      BY <2>8 DEF OpenFails, loop, entry, tcp
    <3>2. Head(net["gw"]).conn \in Conns
      BY <1>0, <3>1, Received, MessageTypes, BothSides
    <3>3. \A u \in Sides : WayRests(u, c)
      <4> DEFINE m == Close(Head(net["gw"]).conn, "ConnectionFailed")
      <4>1. m \in Messages /\ Foreign(m, c)
        BY <1>5, <3>2, MessageTypes
      <4>2. Unwritten("gw", c)
        BY <1>6, <3>1, BothSides
      <4>3. Receives("gw", "Open") /\ ConsumeAndSend("gw", m) /\ run' = run
        BY <3>1
      <4> HIDE DEF m
      <4> QED
        BY <4>1, <4>2, <4>3, AnswerRests, BothSides
    <3> QED
      BY <1>4, <3>1, <3>3, TablesRest
  <2>9. CASE s = "gw" /\ OpenRefused
    <3>1. \A u \in Sides : WayRests(u, c)
      BY <2>9, <1>6, WaysRest, BothSides DEF OpenRefused, loop
    <3> QED
      BY <2>9, <1>4, <3>1, TablesRest DEF OpenRefused, entry, tcp
  <2>10. CASE s = "gw" /\ Opened
    <3>1. /\ busy["gw"] \in Conns /\ Send("gw", Control("Opened", busy["gw"])) /\ run' = run
          /\ UNCHANGED <<reader, back, sock, shut, out, got>>
      BY <1>0, <2>10, BothSides DEF Opened, LoopTypes, entry, tcp
    <3>2. \A u \in Sides : WayRests(u, c)
      BY <1>5, <3>1, WaysRest, MessageTypes, BothSides
    <3> QED
      BY <1>4, <3>1, <3>2, TablesRest
  <2>11. CASE s = "gw" /\ HandleSendEof
    <3> DEFINE d == Head(net["gw"]).conn
               v == shut["gw"][d] \/ (conns["gw"][d] # "absent" /\ back["gw"][d] = "running")
    <3>1. /\ Receives("gw", "Eof") /\ Consume("gw") /\ run' = run
          /\ shut' = [shut EXCEPT !["gw"][d] = v]
          /\ UNCHANGED <<reader, back, sock, out, got>>
      BY <2>11 DEF HandleSendEof, loop, entry
    <3>2. \A u \in Sides : WayRests(u, c)
      BY <1>6, <3>1, WaysRest, BothSides
    <3>3. ServerRests(c) /\ ClientRests(c)
      BY <3>1, TablesRest
    <3>4. d # c => shut'["gw"][c] = shut["gw"][c]
      <4> HIDE DEF v
      <4> QED
        BY <1>0, <3>1 DEF TcpTypes
    <3>5. ASSUME d = c, back["gw"][c] = "running" PROVE EndSeen(c)
      <4>1. /\ net["gw"] \in Seq(Messages) /\ net["gw"] # <<>> /\ run["gw"] = "running"
            /\ Head(net["gw"]) = Control("Eof", c)
        BY <1>0, <3>1, <3>5, Received, MessageTypes, BothSides
      <4>2. 1 \in DOMAIN net["gw"] /\ net["gw"][1] = Control("Eof", c)
            /\ \A i \in DOMAIN net["gw"] : i = 1 \/ i > 1
        BY <4>1
      <4>3. /\ reader["srv"][c] = "done" /\ sock["srv"][c] # "open"
            /\ \A i \in DOMAIN net["gw"] : i > 1 => ~IsData(net["gw"][i], c)
        BY <1>1, <4>2 DEF ToGateway
      <4>4. \A i \in DOMAIN net["gw"] : ~IsData(net["gw"][i], c)
        BY <4>2, <4>3 DEF IsData, Control
      <4>5. InOrder(Chunks("gw", c), Len(got["gw"][c]), out["srv"][c])
        BY <1>1, <3>5, <4>1 DEF ToGateway
      <4>6. \A i \in DOMAIN Chunks("gw", c) : Chunks("gw", c)[i] = 0
        BY <1>0, <4>4, ChunksNone, BothSides
      <4>7. Len(got["gw"][c]) = out["srv"][c]
        <5>1. Len(got["gw"][c]) \in Nat /\ out["srv"][c] \in Nat
          BY Numbered, BothSides
        <5> QED
          BY <4>5, <4>6, <5>1, InOrderEmpty
      <4> QED
        BY <4>3, <4>4, <4>7 DEF EndSeen
    <3> HIDE DEF d
    <3>6. GatewayRests(c)
      BY <3>1, <3>4, <3>5 DEF GatewayRests
    <3> QED
      BY <1>4, <3>2, <3>3, <3>6
  <2>12. CASE CloseChannel(s)
    <3>1. \A u \in Sides : WayRests(u, c)
      BY <2>12, <1>5, WaysRest, MessageTypes DEF CloseChannel
    <3> QED
      BY <2>12, <1>4, <3>1, TablesRest DEF CloseChannel, entry, tcp
  <2>13. CASE NotifyRunLoop(s)
    <3>1. \A u \in Sides : WayRests(u, c)
      BY <2>13, WaysRest DEF NotifyRunLoop
    <3> QED
      BY <2>13, <1>4, <3>1, TablesRest DEF NotifyRunLoop, entry, tcp
  <2>14. CASE \E d \in Conns : NotifyCleanup(s, d)
    <3>1. UNCHANGED <<run, net, reader, back, tcp>>
      BY <2>14 DEF NotifyCleanup
    <3> QED
      BY <1>4, <3>1, WaysRest, TablesRest DEF tcp
  <2>15. ASSUME NEW d \in Conns, CloseBackend(s, d) PROVE Goal
    <3>1. \A u \in Sides : WayRests(u, c)
      BY <2>15, <1>5, WaysRest, MessageTypes DEF CloseBackend
    <3> QED
      BY <2>15, <1>4, <3>1, TablesRest DEF CloseBackend, tcp
  <2>16. CASE CloseBackendEnds(s)
    <3>1. busy[s] \in Conns /\ cleanup' \in [Sides -> [Conns -> Nat]]
      BY <2>16, <1>0 DEF CloseBackendEnds, LoopTypes, EntryTypes
    <3>2. RemoveConn(s, busy[s]) /\ UNCHANGED <<run, net, sock, out, got>>
      BY <2>16 DEF CloseBackendEnds
    <3> QED
      BY <1>4, <3>1, <3>2, RemovalRests, WaysRest
  <2>17. CASE End(s)
    <3>1. /\ UNCHANGED <<net, reader, back, sock, out, got>> /\ run[s] = "cleanup"
          /\ run'[s] = "ended" /\ run'[Other(s)] = run[Other(s)]
      BY <2>17, <1>0, BothSides DEF End, LoopTypes
    <3>2. shut'["gw"] = shut["gw"]
      BY <2>17, <1>0, BothSides DEF End, TcpTypes
    <3>3. net[s] = <<>>
      BY <3>1 DEF TableInv, Unread
    <3>4. WayRests(s, c) /\ WayRests(Other(s), c)
      BY <3>1, <3>3 DEF WayRests
    <3>5. ServerRests(c) /\ ClientRests(c)
      BY <3>1, TablesRest
    <3>6. GatewayRests(c)
      BY <3>1, <3>2 DEF GatewayRests
    <3> QED
      BY <1>4, <3>4, <3>5, <3>6, BothSides
  <2> QED
    BY <1>7, <2>1, <2>2, <2>3, <2>4, <2>5, <2>6, <2>7, <2>8, <2>9, <2>10, <2>11, <2>12,
       <2>13, <2>14, <2>15, <2>16, <2>17 DEF RunLoop, Notify, Shutdown
<1>8. ASSUME NEW s \in Sides, NEW d \in Conns,
             \/ ReaderTask(s, d) \/ CleanupFires(s, d)
             \/ PeerFinishes(s, d) \/ PeerResets(s, d)
      PROVE  Goal
  <2>1. CASE CleanupFires(s, d)
    <3>1. cleanup' \in [Sides -> [Conns -> Nat]]
      <4>1. cleanup[s][d] - 1 \in Nat
        BY <2>1, <1>0 DEF CleanupFires, EntryTypes
      <4> QED
        BY <2>1, <1>0, <4>1, Update DEF CleanupFires, EntryTypes
    <3>2. RemoveConn(s, d) /\ UNCHANGED <<run, net, sock, out, got>>
      BY <2>1 DEF CleanupFires, loop
    <3> QED
      BY <1>4, <3>1, <3>2, RemovalRests, WaysRest
  <2>2. CASE PeerFinishes(s, d) \/ PeerResets(s, d)
    <3>1. /\ UNCHANGED <<run, net, reader, back, shut, out, got>>
          /\ sock'["srv"][c] = "open" => sock["srv"][c] = "open"
      BY <2>2, <1>0, BothSides DEF PeerFinishes, PeerResets, TcpTypes, loop, entry
    <3>2. ServerRests(c)
      BY <3>1 DEF ServerRests
    <3> QED
      BY <1>4, <3>1, <3>2, WaysRest, TablesRest
  <2>3. CASE Read(s, d)
    <3> DEFINE m == Data(d, out[s][d] + 1)
    <3>1. /\ run' = run /\ Send(s, m) /\ UNCHANGED <<reader, back, sock, shut, got>>
          /\ out' = [out EXCEPT ![s][d] = out[s][d] + 1]
      BY <2>3 DEF Read, loop, entry
    <3>2. m \in Messages
      <4>1. out[s][d] \in 0..MaxData /\ out[s][d] < MaxData /\ MaxData \in Nat
        BY <2>3, <1>0, Numbers DEF Read, TcpTypes
      <4> QED
        BY <4>1, MessageTypes
    <3>3. GatewayRests(c) /\ WayRests(s, c)
      BY <3>1, <3>2, WaysRest, TablesRest
    <3>4. d # c => WayRests(Other(s), c)
      BY <1>5, <3>1, <3>2, WaysRest, BothSides
    <3>5. \A t \in Sides : t # s \/ d # c => out'[t][c] = out[t][c]
      BY <1>0, <3>1 DEF TcpTypes
    <3> HIDE DEF m
    <3>6. s # "srv" \/ d # c => ServerRests(c)
      BY <3>1, <3>5, BothSides DEF ServerRests
    <3>7. s # "gw" \/ d # c => ClientRests(c)
      BY <3>1, <3>5, BothSides DEF ClientRests
    <3>8. CASE d # c
      BY <1>4, <3>3, <3>4, <3>6, <3>7, <3>8, BothSides
    <3>9. CASE d = c /\ s = "srv"
      BY <1>1, <1>3, <2>3, <3>3, <3>7, <3>9, ToGatewayReads DEF Goal
    <3>10. CASE d = c /\ s = "gw"
      BY <1>1, <1>2, <2>3, <3>3, <3>6, <3>10, ToServerReads DEF Goal
    <3> QED
      BY <3>8, <3>9, <3>10, BothSides
  <2>4. CASE ReadError(s, d)
    <3>1. /\ UNCHANGED <<run, net, back, sock, shut, out, got>>
          /\ \/ reader'["srv"][c] = reader["srv"][c]
             \/ reader["srv"][c] = "running" /\ reader'["srv"][c] = "done"
      BY <2>4, <1>0, BothSides DEF ReadError, EntryTypes, loop, tcp
    <3>2. ServerRests(c)
      BY <3>1 DEF ServerRests
    <3> QED
      BY <1>4, <3>1, <3>2, WaysRest, TablesRest
  <2>5. CASE s = "srv" /\ ReadEofAtServer(d)
    <3>1. /\ run' = run /\ Send("srv", Control("Eof", d)) /\ Control("Eof", d) \in Messages
          /\ UNCHANGED <<back, sock, shut, out, got>>
      BY <2>5, MessageTypes DEF ReadEofAtServer, loop, tcp
    <3>2. WayRests("srv", c) /\ (d # c => WayRests("gw", c))
      BY <1>5, <3>1, WaysRest, BothSides
    <3>3. ToServer(c)'
      BY <1>3, <3>1, <3>2, TablesRest
    <3>4. CASE d # c
      <4>1. reader'["srv"][c] = reader["srv"][c]
        BY <2>5, <1>0, <3>4, BothSides DEF ReadEofAtServer, EntryTypes
      <4>2. ServerRests(c)
        BY <3>1, <4>1 DEF ServerRests
      <4> QED
        BY <1>2, <3>1, <3>2, <3>3, <3>4, <4>2, TablesRest DEF Goal
    <3>5. CASE d = c
      BY <1>1, <2>5, <3>3, <3>5, ToGatewayEnds DEF Goal
    <3> QED
      BY <3>4, <3>5
  <2>6. CASE s = "gw" /\ (ReadEofAtGateway(d) \/ StoreCloseReason(d))
    <3>1. /\ run' = run /\ UNCHANGED <<back, sock, shut, out, got>>
          /\ reader'["srv"][c] = reader["srv"][c]
          /\ net' = net \/ Send("gw", Close(d, "ConnectionLost"))
      BY <2>6, <1>0, BothSides
         DEF ReadEofAtGateway, StoreCloseReason, EntryTypes, loop, tcp
    <3>2. ServerRests(c)
      BY <3>1 DEF ServerRests
    <3>3. \A u \in Sides : WayRests(u, c)
      BY <1>5, <3>1, WaysRest, MessageTypes, BothSides
    <3> QED
      BY <1>4, <3>1, <3>2, <3>3, TablesRest
  <2> QED
    BY <1>8, <2>1, <2>2, <2>3, <2>4, <2>5, <2>6 DEF ReaderTask
<1>9. ASSUME NEW d \in Conns, Accept(d) \/ HandshakeFails(d) \/ SendOpen(d) PROVE Goal
  <2>1. CASE Accept(d)
    <3>1. /\ UNCHANGED <<run, net, reader, back, shut, out, got>>
          /\ sock'["srv"][c] = sock["srv"][c] \/ (d = c /\ handler[c] = "none")
      BY <2>1, <1>0, BothSides DEF Accept, TcpTypes, loop, entry
    <3>2. handler[c] = "none" => reader["srv"][c] = "none"
      BY DEF TableInv, Accepted
    <3>3. ServerRests(c)
      BY <3>1, <3>2 DEF ServerRests
    <3> QED
      BY <1>4, <3>1, <3>3, WaysRest, TablesRest
  <2>2. CASE HandshakeFails(d)
    <3>1. /\ UNCHANGED <<run, net, reader, back, sock, out, got>>
          /\ shut'["gw"] = shut["gw"]
      BY <2>2, <1>0, BothSides DEF HandshakeFails, TcpTypes, loop, entry
    <3>2. GatewayRests(c)
      BY <3>1 DEF GatewayRests
    <3> QED
      BY <1>4, <3>1, <3>2, WaysRest, TablesRest
  <2>3. CASE SendOpen(d)
    <3>1. /\ run' = run /\ Send("srv", Control("Open", d)) /\ Control("Open", d) \in Messages
          /\ UNCHANGED <<back, sock, shut, out, got>>
      BY <2>3, MessageTypes DEF SendOpen, loop, tcp
    <3>2. WayRests("srv", c) /\ (d # c => WayRests("gw", c))
      BY <1>5, <3>1, WaysRest, BothSides
    <3>3. ToServer(c)'
      BY <1>3, <3>1, <3>2, TablesRest
    <3>4. CASE d # c
      <4>1. reader'["srv"][c] = reader["srv"][c]
        BY <2>3, <1>0, <3>4, BothSides DEF SendOpen, EntryTypes
      <4>2. ServerRests(c)
        BY <3>1, <4>1 DEF ServerRests
      <4> QED
        BY <1>2, <3>1, <3>2, <3>3, <3>4, <4>2, TablesRest DEF Goal
    <3>5. CASE d = c
      BY <1>1, <2>3, <3>3, <3>5, ToGatewayOpens DEF Goal
    <3> QED
      BY <3>4, <3>5
  <2> QED
    BY <1>9, <2>1, <2>2, <2>3
<1> QED
  BY <1>7, <1>8, <1>9 DEF Next, Goal

LEMMA StreamInit == Init => StreamInv
<1> SUFFICES ASSUME Init, NEW c \in Conns PROVE ToGateway(c) /\ ToServer(c)
  BY DEF StreamInv
<1>1. \A s \in Sides : /\ net[s] = <<>> /\ out[s][c] = 0 /\ got[s][c] = <<>>
                       /\ back[s][c] = "none" /\ ~shut[s][c]
  BY DEF Init, PerConn
<1>2. ToGateway(c)
  BY <1>1, BothSides DEF ToGateway
<1>3. InOrder(<<>>, 0, 0)
  BY DEF InOrder
<1>4. InOrder(Chunks("srv", c), 0, 0)
  BY <1>1, BothSides DEF InOrder, Chunks
<1>5. got["srv"][c] = <<>> /\ out["gw"][c] = 0 /\ 0 \in 0..0
  BY <1>1, BothSides
<1>6. ToServer(c)
  BY <1>3, <1>4, <1>5 DEF ToServer
<1> QED
  BY <1>2, <1>6

LEMMA StreamStutters ==
    ASSUME StreamInv, UNCHANGED vars
    PROVE  StreamInv'
<1> SUFFICES ASSUME NEW c \in Conns PROVE ToGateway(c)' /\ ToServer(c)'
  BY DEF StreamInv
<1>1. UNCHANGED <<run, net, reader, back, sock, shut, out, got>>
  BY DEF vars, loop, entry, tcp
<1>2. Chunks("gw", c)' = Chunks("gw", c) /\ Chunks("srv", c)' = Chunks("srv", c)
  BY <1>1 DEF Chunks
<1>3. ToGateway(c)'
  BY <1>1, <1>2 DEF StreamInv, ToGateway, EndSeen, InOrder
<1>4. ToServer(c)'
  <2>1. ToServer(c)
    BY DEF StreamInv
  <2> QED
    BY <1>1, <1>2, <2>1 DEF ToServer
<1> QED
  BY <1>3, <1>4

LEMMA StreamHolds == Spec => [](TableInv /\ StreamInv)
<1>1. Init => TableInv /\ StreamInv
  BY TableInit, StreamInit
<1>2. TableInv /\ StreamInv /\ [Next]_vars => (TableInv /\ StreamInv)'
  BY TableStep, TableStutters, StreamStep, StreamStutters
<1> QED
  BY <1>1, <1>2, PTL DEF Spec

-----------------------------------------------------------------------------
(* Theorems.                                                               *)

\* The variables keep their types, in particular the messages: every message
\* on its way names a connection that was accepted, or the channel itself.
THEOREM TypeCorrect == Spec => []TypeOK
<1>1. TableInv => TypeOK
  BY DEF TableInv
<1> QED
  BY TableHolds, <1>1, PTL

\* Channel::run of either side returns only after every socket the channel
\* accepted or opened is shut, whatever the order in which connections are
\* accepted, registered, closed by a peer, and the delayed clean-ups fire.
THEOREM EndedClean == Spec => []EndedReleases
<1>1. TableInv => EndedReleases
  <2> SUFFICES ASSUME TableInv, NEW s \in Sides, NEW c \in Conns, run[s] = "ended"
               PROVE  /\ sock[s][c] # "none" => shut[s][c]
                      /\ conns[s][c] = "absent" /\ cleanup[s][c] = 0
    BY DEF EndedReleases
  <2>1. conns[s][c] = "absent" /\ cleanup[s][c] = 0
    BY DEF TableInv, Leaving
  <2>2. CASE s = "srv"
    <3>1. handler[c] \in {"none", "registered", "failed"}
      BY <2>2 DEF TableInv, AcceptEnds, TypeOK
    <3> QED
      BY <2>1, <2>2, <3>1 DEF TableInv, Accepted
  <2>3. CASE s = "gw"
    BY <2>1, <2>3 DEF TableInv, Opening
  <2> QED
    BY <2>2, <2>3, BothSides, <2>1
<1> QED
  BY TableHolds, <1>1, PTL

\* Neither direction of a served connection loses, repeats or reorders a chunk:
\* what was written and what is on its way make up what was read, and the target
\* is told of the client's end only after all of it is written.  This holds for
\* any number of connections that open, close and are closed around it.
THEOREM StreamsWhole == Spec => []StreamsIntact
<1>1. TableInv /\ StreamInv => StreamsIntact
  <2> SUFFICES ASSUME TableInv, StreamInv, NEW c \in Conns
      PROVE
        /\ run["gw"] = "running" /\ back["gw"][c] = "running" =>
             \E m \in 0..out["srv"][c] : /\ InOrder(got["gw"][c], 0, m)
                                         /\ InOrder(Chunks("gw", c), m, out["srv"][c])
        /\ run["srv"] = "running" /\ back["srv"][c] = "running" =>
             \E k, m \in 0..out["gw"][c] : /\ InOrder(got["srv"][c], k, m)
                                           /\ InOrder(Chunks("srv", c), m, out["gw"][c])
        /\ shut["gw"][c] /\ back["gw"][c] = "running" =>
             Len(got["gw"][c]) = out["srv"][c] /\ sock["srv"][c] # "open"
    BY BothSides DEF StreamsIntact
  <2>1. ToGateway(c) /\ ToServer(c)
    BY DEF StreamInv
  <2>2. ASSUME run["gw"] = "running", back["gw"][c] = "running"
        PROVE  \E m \in 0..out["srv"][c] : /\ InOrder(got["gw"][c], 0, m)
                                           /\ InOrder(Chunks("gw", c), m, out["srv"][c])
    <3> DEFINE m == Len(got["gw"][c])
    <3>1. out["srv"][c] \in Nat /\ got["gw"][c] \in Seq(Nat) /\ m \in Nat
      BY Numbered, BothSides
    <3>2. InOrder(Chunks("gw", c), m, out["srv"][c])
      BY <2>1, <2>2 DEF ToGateway
    <3>3. InOrder(got["gw"][c], 0, m)
      BY <2>1, <3>1, InOrderFromStart DEF ToGateway
    <3>4. m <= out["srv"][c]
      BY <3>2 DEF InOrder
    <3> QED
      BY <3>1, <3>2, <3>3, <3>4
  <2>3. run["srv"] = "running" /\ back["srv"][c] = "running" =>
          \E k, m \in 0..out["gw"][c] : /\ InOrder(got["srv"][c], k, m)
                                        /\ InOrder(Chunks("srv", c), m, out["gw"][c])
    BY <2>1 DEF ToServer
  <2>4. shut["gw"][c] /\ back["gw"][c] = "running" =>
          Len(got["gw"][c]) = out["srv"][c] /\ sock["srv"][c] # "open"
    BY <2>1 DEF ToGateway, EndSeen
  <2> QED
    BY <2>2, <2>3, <2>4
<1> QED
  BY StreamHolds, <1>1, PTL
=============================================================================
