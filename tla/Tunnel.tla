------------------------------- MODULE Tunnel -------------------------------
(***************************************************************************)
(* A TCP tunnel: two Channels joined by a reliable, ordered data channel.  *)
(* The "srv" channel (server mode) listens on a local port, accepts TCP    *)
(* clients and asks its peer to open a backend for each; the "gw" channel  *)
(* (client mode) connects to the target.  Each accepted connection has one *)
(* number, used on both sides, and on each side                            *)
(*   - an entry of Channel.conns (ACTIVE or CLOSING),                      *)
(*   - a reader task (socket -> data channel), and                         *)
(*   - a backend task (data channel -> socket).                            *)
(* A channel's run loop handles one message at a time; the readers, the    *)
(* tasks that accept connections and the delayed clean-ups run beside it.  *)
(*                                                                         *)
(* Both tunnel protocols are covered: SOCKS5 differs from port forwarding  *)
(* by the handshake before OpenConnection, the deferred reply and the      *)
(* destination check.                                                      *)
(***************************************************************************)
EXTENDS Naturals, Sequences, FiniteSets

CONSTANTS
    Socks5,     \* TRUE: SOCKS5 tunnel, FALSE: port forwarding
    NumConns,   \* bound: connections the local clients open
    MaxData,    \* bound: chunks a TCP peer sends
    MaxResets,  \* bound: TCP peers that reset their connection
    MaxCloses   \* bound: how many of the two tubes close the channel

ASSUME TunnelAssumption ==
    /\ NumConns \in Nat \ {0}
    /\ MaxData \in Nat
    /\ MaxResets \in Nat
    /\ MaxCloses \in 0..2
    /\ Socks5 \in BOOLEAN

Conns == 1..NumConns
Sides == {"srv", "gw"}
Other(s) == IF s = "srv" THEN "gw" ELSE "srv"

VARIABLES
    run,          \* run[s]: Channel::run of side s: running, cleanup, ended
    busy,         \* busy[s]: the connection the run task is half way through
    todo,         \* todo[s]: what cleanup_all_connections still has to close
    closeReason,  \* closeReason[s]: channel_close_reason
    closeReq,     \* closeReq[s]: progress of Tube::close_channel
    net,          \* net[s]: messages on their way to side s
    conns,        \* conns[s][c]: Channel.conns
    reader,       \* reader[s][c]: the task that reads the socket
    back,         \* back[s][c]: backend_task, that writes the socket
    cleanup,      \* cleanup[s][c]: delayed removals waiting out their grace
    handler,      \* handler[c]: progress of handle_tunnel_server_connection
    serverConns,  \* the queue of accepted connections to the srv run loop
    sock,         \* sock[s][c]: what the TCP peer of side s did
    shut,         \* shut[s][c]: side s has shut its writing half
    out,          \* out[s][c]: chunks read from the TCP peer of side s
    got           \* got[s][c]: what was written to the TCP peer of side s

loop == <<run, busy, todo, closeReason, closeReq>>
entry == <<conns, reader, back, cleanup>>
accept == <<handler, serverConns>>
tcp == <<sock, shut, out, got>>
vars == <<loop, net, entry, accept, tcp>>

\* Control messages and data of a connection (0: the channel itself).
Control(type, c) == [type |-> type, conn |-> c]
Close(c, reason) == [type |-> "Close", conn |-> c, reason |-> reason]
Data(c, chunk) == [type |-> "Data", conn |-> c, chunk |-> chunk]
Reply == 0   \* the SOCKS5 success response, in a client's stream

PerConn(v) == [s \in Sides |-> [c \in Conns |-> v]]

-----------------------------------------------------------------------------
Init ==
    /\ run = [s \in Sides |-> "running"]
    /\ busy = [s \in Sides |-> 0]
    /\ todo = [s \in Sides |-> {}]
    /\ closeReason = [s \in Sides |-> "none"]
    /\ closeReq = [s \in Sides |-> "no"]
    /\ net = [s \in Sides |-> <<>>]
    /\ conns = PerConn("absent")
    /\ reader = PerConn("none")
    /\ back = PerConn("none")
    /\ cleanup = PerConn(0)
    /\ handler = [c \in Conns |-> "none"]
    /\ serverConns = <<>>
    /\ sock = PerConn("none")
    /\ shut = PerConn(FALSE)
    /\ out = PerConn(0)
    /\ got = PerConn(<<>>)

-----------------------------------------------------------------------------
(* Steps shared by the handlers.                                           *)

\* A message for a side whose run loop has exited is never read.
Queue(s, m) == IF run[s] = "running" THEN Append(net[s], m) ELSE <<>>

Send(s, m) == net' = [net EXCEPT ![Other(s)] = Queue(Other(s), m)]

\* conns.remove, then Conn::graceful_shutdown of what was there: the reader
\* stops (one that is closing finishes first) and the backend task writes
\* what it has and shuts the socket.
RemoveConn(s, c) ==
    IF conns[s][c] = "absent"
    THEN UNCHANGED <<conns, reader, back, shut>>
    ELSE /\ conns' = [conns EXCEPT ![s][c] = "absent"]
         /\ reader' = [reader EXCEPT ![s][c] = IF @ = "running" THEN "done" ELSE @]
         /\ back' = [back EXCEPT ![s][c] = "done"]
         /\ shut' = [shut EXCEPT ![s][c] = TRUE]

\* Mutant: the removal is not scheduled.
DelayedClose_unscheduled(s, c) ==
    /\ conns' = [conns EXCEPT ![s][c] = IF @ = "absent" THEN @ ELSE "CLOSING"]
    /\ UNCHANGED <<reader, cleanup>>

\* The delayed branch of a close: the entry is marked CLOSING, its read task
\* is cancelled and a task that removes whatever has this number after the
\* grace period is spawned, also when there is no entry.  The token reaches
\* gw's outbound task only: a connection accepted by srv is read by a task
\* that never saw it.
DelayedClose(s, c) ==
    /\ conns' = [conns EXCEPT ![s][c] = IF @ = "absent" THEN @ ELSE "CLOSING"]
    /\ reader' = [reader EXCEPT ![s][c] =
                    IF s = "gw" /\ conns[s][c] # "absent" /\ @ = "running"
                    THEN "done" ELSE @]
    /\ cleanup' = [cleanup EXCEPT ![s][c] = @ + 1]

\* The run loop exits, reads no further message, and cleanup_all_connections
\* lists what is left.
LeaveLoop(s) ==
    /\ net' = [net EXCEPT ![s] = <<>>]
    /\ run' = [run EXCEPT ![s] = "cleanup"]
    /\ todo' = [todo EXCEPT ![s] = {c \in Conns : conns[s][c] # "absent"}]

-----------------------------------------------------------------------------
(* The srv side accepts connections.                                       *)

\* The accept loop numbers the connections from 1 and spawns a task for each.
Accept(c) ==
    /\ run["srv"] = "running"
    /\ handler[c] = "none"
    /\ \A d \in Conns : d < c => handler[d] # "none"
    /\ handler' = [handler EXCEPT ![c] = "accepted"]
    /\ sock' = [sock EXCEPT !["srv"][c] = "open"]
    /\ UNCHANGED <<loop, net, entry, serverConns, shut, out, got>>

\* The SOCKS5 handshake fails: the task ends and drops the stream.
HandshakeFails(c) ==
    /\ Socks5
    /\ handler[c] = "accepted"
    /\ handler' = [handler EXCEPT ![c] = "failed"]
    /\ shut' = [shut EXCEPT !["srv"][c] = TRUE]
    /\ UNCHANGED <<loop, net, entry, serverConns, sock, out, got>>

\* OpenConnection is sent, only then the reader is spawned, and the writer
\* and the reader task are handed to the run loop.
SendOpen(c) ==
    /\ handler[c] = "accepted"
    /\ handler' = [handler EXCEPT ![c] = "queued"]
    /\ serverConns' = Append(serverConns, c)
    /\ Send("srv", Control("Open", c))
    /\ reader' = [reader EXCEPT !["srv"][c] = "running"]
    /\ UNCHANGED <<loop, conns, back, cleanup, tcp>>

\* The run loop takes a connection from the queue and registers it.
Register ==
    /\ run["srv"] = "running"
    /\ serverConns # <<>>
    /\ LET c == Head(serverConns) IN
        /\ handler' = [handler EXCEPT ![c] = "registered"]
        /\ conns' = [conns EXCEPT !["srv"][c] = "ACTIVE"]
        /\ back' = [back EXCEPT !["srv"][c] = "running"]
    /\ serverConns' = Tail(serverConns)
    /\ UNCHANGED <<loop, net, reader, cleanup, tcp>>

-----------------------------------------------------------------------------
(* The run loop of side s handles the message at the head of net[s].       *)

Receives(s, type) ==
    /\ run[s] = "running"
    /\ busy[s] = 0
    /\ net[s] # <<>>
    /\ Head(net[s]).type = type

\* The message is taken and nothing is sent.
Consume(s) == net' = [net EXCEPT ![s] = Tail(@)]

\* The message is taken and m is sent to the other side.
ConsumeAndSend(s, m) ==
    net' = [net EXCEPT ![s] = Tail(@), ![Other(s)] = Queue(Other(s), m)]

\* gw connects to the target, spawns the reader and the backend task and
\* registers the connection.  ConnectionOpened follows in Opened.
OpenBackend ==
    /\ Receives("gw", "Open")
    /\ Consume("gw")
    /\ LET c == Head(net["gw"]).conn IN
        /\ busy' = [busy EXCEPT !["gw"] = c]
        /\ conns' = [conns EXCEPT !["gw"][c] = "ACTIVE"]
        /\ reader' = [reader EXCEPT !["gw"][c] = "running"]
        /\ back' = [back EXCEPT !["gw"][c] = "running"]
        /\ sock' = [sock EXCEPT !["gw"][c] = "open"]
    /\ UNCHANGED <<run, todo, closeReason, closeReq, cleanup, accept,
                   shut, out, got>>

\* The target cannot be resolved, is not allowed or refuses: gw answers with
\* CloseConnection(ConnectionFailed).
OpenFails ==
    /\ Receives("gw", "Open")
    /\ ConsumeAndSend("gw", Close(Head(net["gw"]).conn, "ConnectionFailed"))
    /\ UNCHANGED <<loop, entry, accept, tcp>>

\* A SOCKS5 destination whose port is not allowed is refused with an error
\* that leaves the handler early, without an answer.
OpenRefused ==
    /\ Socks5
    /\ Receives("gw", "Open")
    /\ Consume("gw")
    /\ UNCHANGED <<loop, entry, accept, tcp>>

Opened ==
    /\ run["gw"] = "running"
    /\ busy["gw"] # 0
    /\ busy' = [busy EXCEPT !["gw"] = 0]
    /\ Send("gw", Control("Opened", busy["gw"]))
    /\ UNCHANGED <<run, todo, closeReason, closeReq, entry, accept, tcp>>

\* What the run loop hands to a live backend task is written to the socket;
\* a failing write ends the task.
Write(s, c, what) ==
    LET live == conns[s][c] # "absent" /\ back[s][c] = "running" IN
    /\ got' = [got EXCEPT ![s][c] =
                  IF live /\ sock[s][c] # "gone" THEN Append(@, what) ELSE @]
    /\ back' = [back EXCEPT ![s][c] =
                  IF live /\ sock[s][c] = "gone" THEN "dead" ELSE @]

\* ConnectionOpened at srv: a registered SOCKS5 client gets the deferred
\* reply; for an unknown connection the message only causes a log line.
HandleConnectionOpened ==
    /\ Receives("srv", "Opened")
    /\ Consume("srv")
    /\ IF Socks5 THEN Write("srv", Head(net["srv"]).conn, Reply)
                 ELSE UNCHANGED <<got, back>>
    /\ UNCHANGED <<loop, conns, reader, cleanup, accept, sock, shut, out>>

\* Data is written to the socket; data for an unknown connection is lost.
ForwardData(s) ==
    /\ Receives(s, "Data")
    /\ Consume(s)
    /\ LET c == Head(net[s]).conn IN
        /\ conns[s][c] = "absent" \/ back[s][c] # "dead"
        /\ Write(s, c, Head(net[s]).chunk)
    /\ UNCHANGED <<loop, conns, reader, cleanup, accept, sock, shut, out>>

\* Data for a connection whose backend task is dead closes the connection
\* with ConnectionLost (close_backend, delayed).
ForwardToDead(s) ==
    /\ Receives(s, "Data")
    /\ LET c == Head(net[s]).conn IN
        /\ conns[s][c] # "absent"
        /\ back[s][c] = "dead"
        /\ ConsumeAndSend(s, Close(c, "ConnectionLost"))
        /\ DelayedClose(s, c)
    /\ UNCHANGED <<loop, back, accept, tcp>>

\* SendEOF: the backend task of a registered connection shuts the writing
\* half of the socket and stays.
HandleSendEof ==
    /\ Receives("gw", "Eof")
    /\ Consume("gw")
    /\ LET c == Head(net["gw"]).conn IN
        shut' = [shut EXCEPT !["gw"][c] =
                   @ \/ (conns["gw"][c] # "absent" /\ back["gw"][c] = "running")]
    /\ UNCHANGED <<loop, entry, accept, sock, out, got>>

\* CloseConnection of a connection, without an answer: at once for a normal
\* close, delayed for any other reason.
HandleClose(s) ==
    /\ Receives(s, "Close")
    /\ Head(net[s]).conn # 0
    /\ Consume(s)
    /\ LET c == Head(net[s]).conn IN
        \/ /\ Head(net[s]).reason = "Normal"
           /\ RemoveConn(s, c)
           /\ UNCHANGED cleanup
        \/ /\ Head(net[s]).reason # "Normal"
           /\ DelayedClose(s, c)
           /\ UNCHANGED <<back, shut>>
    /\ UNCHANGED <<loop, accept, sock, out, got>>

\* Mutant: connection 0 is taken for one more connection.
HandleCloseChannel_ignored(s) ==
    /\ Receives(s, "Close")
    /\ Head(net[s]).conn = 0
    /\ Consume(s)
    /\ UNCHANGED <<loop, entry, accept, tcp>>

\* CloseConnection of connection 0 makes the run loop exit.
HandleCloseChannel(s) ==
    /\ Receives(s, "Close")
    /\ Head(net[s]).conn = 0
    /\ LeaveLoop(s)
    /\ closeReason' = [closeReason EXCEPT ![s] = Head(net[s]).reason]
    /\ UNCHANGED <<busy, closeReq, entry, accept, tcp>>

\* The grace period is over: whatever entry has the number is removed.
CleanupFires(s, c) ==
    /\ cleanup[s][c] > 0
    /\ cleanup' = [cleanup EXCEPT ![s][c] = @ - 1]
    /\ RemoveConn(s, c)
    /\ UNCHANGED <<loop, net, accept, sock, out, got>>

-----------------------------------------------------------------------------
(* The reader tasks.                                                       *)

Read(s, c) ==
    /\ reader[s][c] = "running"
    /\ sock[s][c] = "open"
    /\ out[s][c] < MaxData
    /\ out' = [out EXCEPT ![s][c] = @ + 1]
    /\ Send(s, Data(c, out[s][c] + 1))
    /\ UNCHANGED <<loop, entry, accept, sock, shut, got>>

\* Mutant: SendEOF overtakes the data that waits to be sent.
ReadEofAtServer_ahead(c) ==
    /\ reader["srv"][c] = "running"
    /\ sock["srv"][c] = "eof"
    /\ reader' = [reader EXCEPT !["srv"][c] = "done"]
    /\ net' = [net EXCEPT !["gw"] = <<Control("Eof", c)>> \o @]
    /\ UNCHANGED <<loop, conns, back, cleanup, accept, tcp>>

\* The local client has finished sending: SendEOF, and the reader ends.
ReadEofAtServer(c) ==
    /\ reader["srv"][c] = "running"
    /\ sock["srv"][c] = "eof"
    /\ reader' = [reader EXCEPT !["srv"][c] = "done"]
    /\ Send("srv", Control("Eof", c))
    /\ UNCHANGED <<loop, conns, back, cleanup, accept, tcp>>

\* The target has closed: CloseConnection(ConnectionLost) is sent, and then
\* stored as the reason of the channel, unless the channel has a reason
\* already.  The signal to the run loop that follows (conn_closed_tx) has no
\* effect for a tunnel.
ReadEofAtGateway(c) ==
    /\ reader["gw"][c] = "running"
    /\ sock["gw"][c] = "eof"
    /\ IF closeReason["gw"] = "none"
       THEN /\ Send("gw", Close(c, "ConnectionLost"))
            /\ reader' = [reader EXCEPT !["gw"][c] = "closing"]
       ELSE /\ reader' = [reader EXCEPT !["gw"][c] = "done"]
            /\ UNCHANGED net
    /\ UNCHANGED <<loop, conns, back, cleanup, accept, tcp>>

StoreCloseReason(c) ==
    /\ reader["gw"][c] = "closing"
    /\ reader' = [reader EXCEPT !["gw"][c] = "done"]
    /\ closeReason' = [closeReason EXCEPT !["gw"] = "ConnectionLost"]
    /\ UNCHANGED <<run, busy, todo, closeReq, net, conns, back, cleanup,
                   accept, tcp>>

\* A read error ends the reader without a message on either side.
ReadError(s, c) ==
    /\ reader[s][c] = "running"
    /\ sock[s][c] = "gone"
    /\ reader' = [reader EXCEPT ![s][c] = "done"]
    /\ UNCHANGED <<loop, net, conns, back, cleanup, accept, tcp>>

-----------------------------------------------------------------------------
(* Closing a channel.                                                      *)

\* Tube::close_channel stores the reason and tells the peer ...
CloseChannel(s) ==
    /\ Cardinality({t \in Sides : closeReq[t] # "no"}) < MaxCloses
    /\ closeReq[s] = "no"
    /\ closeReq' = [closeReq EXCEPT ![s] = "sent"]
    /\ closeReason' = [closeReason EXCEPT ![s] = "AdminClosed"]
    /\ Send(s, Close(0, "AdminClosed"))
    /\ UNCHANGED <<run, busy, todo, entry, accept, tcp>>

\* ... and 100 ms later calls notify_one, which wakes one waiter of
\* shutdown_notify: the run loop, or a delayed clean-up, which then ends
\* without removing its connection.
NotifyRunLoop(s) ==
    /\ closeReq[s] = "sent"
    /\ closeReq' = [closeReq EXCEPT ![s] = "notified"]
    /\ IF run[s] = "running"
       THEN busy[s] = 0 /\ LeaveLoop(s)
       ELSE UNCHANGED <<run, todo, net>>
    /\ UNCHANGED <<busy, closeReason, entry, accept, tcp>>

NotifyCleanup(s, c) ==
    /\ closeReq[s] = "sent"
    /\ closeReq' = [closeReq EXCEPT ![s] = "notified"]
    /\ cleanup[s][c] > 0
    /\ cleanup' = [cleanup EXCEPT ![s][c] = @ - 1]
    /\ UNCHANGED <<run, busy, todo, closeReason, net, conns, reader, back,
                   accept, tcp>>

\* cleanup_all_connections closes what is left one by one with Normal: the
\* peer is told, and half a second later the entry is removed.
CloseBackend(s, c) ==
    /\ run[s] = "cleanup"
    /\ busy[s] = 0
    /\ c \in todo[s]
    /\ busy' = [busy EXCEPT ![s] = c]
    /\ conns' = [conns EXCEPT ![s][c] = IF @ = "absent" THEN @ ELSE "CLOSING"]
    /\ Send(s, Close(c, "Normal"))
    /\ UNCHANGED <<run, todo, closeReason, closeReq, reader, back, cleanup,
                   accept, tcp>>

CloseBackendEnds(s) ==
    /\ run[s] = "cleanup"
    /\ busy[s] # 0
    /\ RemoveConn(s, busy[s])
    /\ todo' = [todo EXCEPT ![s] = @ \ {busy[s]}]
    /\ busy' = [busy EXCEPT ![s] = 0]
    /\ UNCHANGED <<run, closeReason, closeReq, net, cleanup, accept,
                   sock, out, got>>

\* Mutant: connections that are not registered yet are forgotten.
End_forgets_accepted(s) ==
    /\ run[s] = "cleanup"
    /\ todo[s] = {}
    /\ run' = [run EXCEPT ![s] = "ended"]
    /\ cleanup' = [cleanup EXCEPT ![s] = [c \in Conns |-> 0]]
    /\ UNCHANGED <<busy, todo, closeReason, closeReq, net, conns, reader, back,
                   accept, tcp>>

\* run returns and the Channel is dropped: its clean-up tasks and the tasks
\* of connections being accepted are aborted.  The reader of a connection
\* that was not registered is detached and goes on.
End(s) ==
    /\ run[s] = "cleanup"
    /\ todo[s] = {}
    /\ run' = [run EXCEPT ![s] = "ended"]
    /\ cleanup' = [cleanup EXCEPT ![s] = [c \in Conns |-> 0]]
    /\ IF s = "srv"
       THEN LET dropped == {c \in Conns :
                              handler[c] \in {"accepted", "queued"}} IN
            /\ handler' = [c \in Conns |->
                             IF c \in dropped THEN "failed" ELSE handler[c]]
            /\ serverConns' = <<>>
            /\ shut' = [shut EXCEPT !["srv"] =
                          [c \in Conns |-> @[c] \/ c \in dropped]]
       ELSE UNCHANGED <<accept, shut>>
    /\ UNCHANGED <<busy, todo, closeReason, closeReq, net, conns, reader, back,
                   sock, out, got>>

-----------------------------------------------------------------------------
(* The TCP peers (external).  Events nobody can notice any more are left   *)
(* out.                                                                    *)

PeerFinishes(s, c) ==
    /\ run[s] # "ended"
    /\ sock[s][c] = "open"
    /\ reader[s][c] \in {"none", "running"}
    /\ sock' = [sock EXCEPT ![s][c] = "eof"]
    /\ UNCHANGED <<loop, net, entry, accept, shut, out, got>>

PeerResets(s, c) ==
    /\ run[s] # "ended"
    /\ sock[s][c] \in {"open", "eof"}
    /\ reader[s][c] \in {"none", "running"} \/ back[s][c] = "running"
    /\ Cardinality({p \in Sides \X Conns : sock[p[1]][p[2]] = "gone"}) < MaxResets
    /\ sock' = [sock EXCEPT ![s][c] = "gone"]
    /\ UNCHANGED <<loop, net, entry, accept, shut, out, got>>

-----------------------------------------------------------------------------
RunLoop(s) ==
    \/ ForwardData(s) \/ ForwardToDead(s)
    \/ HandleClose(s) \/ HandleCloseChannel(s)
    \/ s = "srv" /\ (Register \/ HandleConnectionOpened)
    \/ s = "gw" /\ (OpenBackend \/ OpenFails \/ OpenRefused \/ Opened
                      \/ HandleSendEof)

Shutdown(s) ==
    \/ CloseBackendEnds(s) \/ End(s)
    \/ \E c \in Conns : CloseBackend(s, c)

ReaderTask(s, c) ==
    \/ Read(s, c) \/ ReadError(s, c)
    \/ s = "srv" /\ ReadEofAtServer(c)
    \/ s = "gw" /\ (ReadEofAtGateway(c) \/ StoreCloseReason(c))

Notify(s) == NotifyRunLoop(s) \/ \E c \in Conns : NotifyCleanup(s, c)

Next ==
    \/ \E s \in Sides : RunLoop(s) \/ CloseChannel(s) \/ Notify(s) \/ Shutdown(s)
    \/ \E s \in Sides, c \in Conns :
         \/ ReaderTask(s, c) \/ CleanupFires(s, c)
         \/ PeerFinishes(s, c) \/ PeerResets(s, c)
    \/ \E c \in Conns : Accept(c) \/ HandshakeFails(c) \/ SendOpen(c)

\* Every task of the program that can go on does; the TCP peers and the
\* caller of close_channel may stop at any point.
Fairness ==
    /\ \A s \in Sides : WF_vars(RunLoop(s) \/ Shutdown(s)) /\ WF_vars(Notify(s))
    /\ \A s \in Sides, c \in Conns :
         WF_vars(ReaderTask(s, c)) /\ WF_vars(CleanupFires(s, c))
    /\ \A c \in Conns : WF_vars(SendOpen(c))

Spec == Init /\ [][Next]_vars /\ Fairness

-----------------------------------------------------------------------------
Messages ==
    [type : {"Open", "Opened", "Eof"}, conn : Conns]
      \cup [type : {"Data"}, conn : Conns, chunk : 1..MaxData]
      \cup [type : {"Close"}, conn : Conns,
            reason : {"Normal", "ConnectionFailed", "ConnectionLost"}]
      \cup [type : {"Close"}, conn : {0}, reason : {"AdminClosed"}]

\* What the variables range over.
TypeOK ==
    /\ run \in [Sides -> {"running", "cleanup", "ended"}]
    /\ busy \in [Sides -> {0} \cup Conns]
    /\ todo \in [Sides -> SUBSET Conns]
    /\ closeReason \in [Sides -> {"none", "AdminClosed", "ConnectionLost"}]
    /\ closeReq \in [Sides -> {"no", "sent", "notified"}]
    /\ net \in [Sides -> Seq(Messages)]
    /\ conns \in [Sides -> [Conns -> {"absent", "ACTIVE", "CLOSING"}]]
    /\ reader \in [Sides -> [Conns -> {"none", "running", "closing", "done"}]]
    /\ back \in [Sides -> [Conns -> {"none", "running", "dead", "done"}]]
    /\ cleanup \in [Sides -> [Conns -> Nat]]
    /\ handler \in [Conns -> {"none", "accepted", "queued", "registered",
                              "failed"}]
    /\ serverConns \in Seq(Conns)
    /\ sock \in [Sides -> [Conns -> {"none", "open", "eof", "gone"}]]
    /\ shut \in [Sides -> [Conns -> BOOLEAN]]
    /\ out \in [Sides -> [Conns -> 0..MaxData]]
    /\ got \in [Sides -> [Conns -> Seq(0..MaxData)]]

\* The chunks of connection c on their way to side s (0: another message).
Chunks(s, c) ==
    [i \in DOMAIN net[s] |->
       IF net[s][i].type = "Data" /\ net[s][i].conn = c THEN net[s][i].chunk ELSE 0]

\* The chunks in g, replies aside, are k + 1, ..., n: each once, in this order.
InOrder(g, k, n) ==
    /\ k <= n
    /\ \A i \in DOMAIN g : g[i] # 0 => g[i] \in (k + 1)..n
    /\ \A i, j \in DOMAIN g : i < j /\ g[i] # 0 /\ g[j] # 0 => g[i] < g[j]
    /\ \A d \in (k + 1)..n : \E i \in DOMAIN g : g[i] = d

\* Nothing is lost on the way while a connection is served: what the gateway
\* wrote to the target, followed by what is on its way to it, is everything
\* the client sent.  A client may miss the beginning, which is discarded when
\* it arrives before the run loop has registered the connection, but nothing
\* after it.  The target sees the end of the client's stream only after
\* everything the client has sent.
StreamsIntact ==
    \A c \in Conns :
      LET Served(s) == /\ run[s] = "running"
                       /\ conns[s][c] # "absent"
                       /\ back[s][c] = "running"
          Sent(s) == out[Other(s)][c]
          Intact(s, k) == \E m \in 0..Sent(s) : /\ InOrder(got[s][c], k, m)
                                               /\ InOrder(Chunks(s, c), m, Sent(s))
      IN  /\ Served("gw") => Intact("gw", 0)
          /\ Served("srv") => \E k \in 0..Sent("srv") : Intact("srv", k)
          /\ shut["gw"][c] /\ back["gw"][c] = "running" =>
               Len(got["gw"][c]) = out["srv"][c] /\ sock["srv"][c] # "open"

\* A channel that has ended has shut every socket it accepted or opened, also
\* those of connections that were still on their way to the run loop, and
\* leaves neither an entry nor a delayed clean-up.
EndedReleases ==
    \A s \in Sides, c \in Conns :
      run[s] = "ended" =>
        /\ sock[s][c] # "none" => shut[s][c]
        /\ conns[s][c] = "absent" /\ cleanup[s][c] = 0

\* Closing one end of the tunnel ends the other end: time and again, every
\* channel whose peer was closed has ended.
PeerFollows ==
    []<>(\A s \in Sides : closeReq[s] # "no" => run[Other(s)] = "ended")

\* A closed connection leaves the registry after its grace period, or the
\* channel is being closed (a notification may have cancelled the clean-up).
ClosingRemoved ==
    []<>(\A s \in Sides, c \in Conns :
           conns[s][c] = "CLOSING" => closeReq[s] # "no")
=============================================================================
