---------------------------- MODULE GuacdChannel ----------------------------
(***************************************************************************)
(* The gateway end of a remote-desktop channel (client mode, protocol      *)
(* Guacd, external guacd): the run loop of Channel, the connections it     *)
(* opens to guacd on the peer's request, and for each of them              *)
(*   - the outbound task, that parses what guacd sends, forwards it and    *)
(*     signals the run loop when it exits, and                             *)
(*   - the backend task, that writes to guacd.                             *)
(* The first connection opened is the primary: its end ends the channel.   *)
(*                                                                         *)
(* The peer and guacd are the environment: the peer may send any message   *)
(* at any time, guacd any instruction.  A message of the peer is modelled  *)
(* by the step of the run loop that handles it.                            *)
(***************************************************************************)
EXTENDS Naturals, Sequences, FiniteSets

CONSTANTS
    NumConns,    \* bound: connection numbers the peer uses
    MaxOpens,    \* bound: OpenConnection messages
    MaxReads,    \* bound: reads of guacd data, per channel
    MaxDeaths,   \* bound: connections guacd resets
    MaxCloses,   \* bound: messages of the peer that close something, and
                 \* calls of close_channel
    MaxInputs,   \* bound: reads and closes together
    StrayCloses, \* TRUE: the peer may close what is not open (any more)
    Reads        \* what guacd may have sent when the outbound task reads

ASSUME GuacdChannelAssumption ==
    /\ NumConns \in Nat \ {0}
    /\ {MaxOpens, MaxReads, MaxCloses, MaxDeaths, MaxInputs} \subseteq Nat
    /\ StrayCloses \in BOOLEAN
    /\ Reads \subseteq Seq({"draw", "sync"})

Conns == 1..NumConns

VARIABLES
    run,       \* where the run task is
    busy,      \* the connection it is half way through (0: none)
    todo,      \* what cleanup_all_connections still has to close
    primary,   \* primary_guacd_conn_no (0: None)
    reason,    \* channel_close_reason
    result,    \* what run returned
    closeReq,  \* progress of Tube::close_channel
    signals,   \* conn_closed_rx
    conns,     \* conns[c]: entry of Channel.conns
    cleanup,   \* cleanup[c]: delayed removals waiting out their grace
    cancel,    \* cancel[c]: cancel_read_task of the entry's outbound task
    task,      \* task[c]: the outbound task
    cause,     \* cause[c]: why it closes the session
    back,      \* back[c]: the backend task
    guacd,     \* guacd[c]: guacd's end of the TCP connection
    out,       \* out[c]: instructions guacd sent in this session
    told,      \* told[c]: what guacd was told in this session, but for data
    sent,      \* sent[c]: frames of c sent to the peer in this session
    opens, reads, closes  \* counters of what is bounded

loop == <<run, busy, todo, primary, result, closeReq>>
entry == <<conns, cleanup, cancel, back, told>>
outbound == <<task, cause, signals, reason>>
server == <<guacd, out>>
counters == <<opens, reads, closes>>
vars == <<loop, entry, outbound, server, sent, counters>>

\* Frames of a connection: control messages, instructions written by the
\* channel or that end the session, and the n-th instruction of guacd.
Opened == [type |-> "Opened"]
Eof == [type |-> "Eof"]
Close(why) == [type |-> "Close", reason |-> why]
Ending(opcode) == [type |-> "Ending", opcode |-> opcode]
Instruction(n) == [type |-> "Instruction", no |-> n]

\* CloseConnectionReason::is_critical.
IsCritical(r) == r \in {"GuacdError", "ProtocolError"}

-----------------------------------------------------------------------------
Init ==
    /\ run = "running" /\ busy = 0 /\ todo = {}
    /\ primary = 0
    /\ reason = "none" /\ result = "none" /\ closeReq = "no"
    /\ signals = <<>>
    /\ sent = [c \in Conns |-> <<>>]
    /\ conns = [c \in Conns |-> "absent"]
    /\ cleanup = [c \in Conns |-> 0]
    /\ cancel = [c \in Conns |-> FALSE]
    /\ task = [c \in Conns |-> "none"]
    /\ cause = [c \in Conns |-> "none"]
    /\ back = [c \in Conns |-> "none"]
    /\ guacd = [c \in Conns |-> "none"]
    /\ out = [c \in Conns |-> 0]
    /\ told = [c \in Conns |-> <<>>]
    /\ opens = 0 /\ reads = 0 /\ closes = 0

-----------------------------------------------------------------------------
(* Steps shared by the handlers.                                           *)

Send(c, frames) == sent' = [sent EXCEPT ![c] = @ \o frames]

\* One of the bounded number of closes.
Closing ==
    /\ closes < MaxCloses /\ reads + closes < MaxInputs
    /\ closes' = closes + 1
    /\ UNCHANGED <<opens, reads>>

\* A message of the peer that closes something is handled.
Message == run = "running" /\ Closing

\* data_tx of a registered connection: the backend task writes to guacd, and
\* a failing write ends it.
Write(c, what) ==
    LET live == conns[c] # "absent" /\ back[c] = "running" IN
    /\ told' = [told EXCEPT ![c] = IF live /\ guacd[c] # "gone" THEN @ \o what ELSE @]
    /\ back' = [back EXCEPT ![c] = IF live /\ guacd[c] = "gone" THEN "dead" ELSE @]

\* conns.remove and Conn::graceful_shutdown: the outbound task is cancelled
\* and the backend task shuts the TCP connection.
RemoveConn(c) ==
    IF conns[c] = "absent"
    THEN UNCHANGED <<conns, cancel, back, told>>
    ELSE /\ conns' = [conns EXCEPT ![c] = "absent"]
         /\ cancel' = [cancel EXCEPT ![c] = TRUE]
         /\ back' = [back EXCEPT ![c] = "done"]
         /\ told' = [told EXCEPT ![c] = IF back[c] = "dead" THEN @
                                        ELSE Append(@, "fin")]

MarkClosing(c) ==
    conns' = [conns EXCEPT ![c] = IF @ = "absent" THEN @ ELSE "CLOSING"]

\* The delayed branch of a close: the outbound task is cancelled and the
\* removal scheduled.
DelayedClose(c) ==
    /\ MarkClosing(c)
    /\ cancel' = [cancel EXCEPT ![c] = @ \/ conns[c] # "absent"]
    /\ cleanup' = [cleanup EXCEPT ![c] = @ + 1]

\* cleanup_all_connections lists what is left.
LeaveLoop(left) ==
    /\ run' = "cleanup"
    /\ busy' = 0
    /\ todo' = {c \in left : conns[c] # "absent"}

\* The outbound task exits and signals the run loop.
Exit(c) ==
    /\ task' = [task EXCEPT ![c] = "done"]
    /\ signals' = Append(signals, c)

-----------------------------------------------------------------------------
(* OpenConnection.                                                         *)

Open(c) ==
    /\ run = "running"
    /\ opens < MaxOpens
    /\ opens' = opens + 1
    /\ UNCHANGED <<reads, closes>>

\* A connection that is open already is acknowledged, one that is closing
\* refused.
OpenExisting(c) ==
    /\ Open(c)
    /\ conns[c] # "absent"
    /\ Send(c, <<IF conns[c] = "ACTIVE" THEN Opened ELSE Close("ConnectionFailed")>>)
    /\ UNCHANGED <<loop, entry, outbound, server>>

\* open_backend: the first connection becomes the primary; guacd is connected
\* and answers the handshake; the tasks are spawned and the connection is
\* registered.  ConnectionOpened follows.  (The outbound task of an earlier
\* connection with this number has ended: it was cancelled at the latest when
\* that connection was removed.)
OpenBackend(c) ==
    /\ Open(c)
    /\ conns[c] = "absent"
    /\ task[c] \in {"none", "done"}
    /\ primary' = IF primary = 0 THEN c ELSE primary
    /\ conns' = [conns EXCEPT ![c] = "ACTIVE"]
    /\ cancel' = [cancel EXCEPT ![c] = FALSE]
    /\ task' = [task EXCEPT ![c] = "reading"]
    /\ cause' = [cause EXCEPT ![c] = "none"]
    /\ back' = [back EXCEPT ![c] = "running"]
    /\ guacd' = [guacd EXCEPT ![c] = "up"]
    /\ out' = [out EXCEPT ![c] = 0]
    /\ told' = [told EXCEPT ![c] = <<>>]
    /\ sent' = [sent EXCEPT ![c] = <<>>]
    /\ run' = "opening" /\ busy' = c
    /\ UNCHANGED <<todo, result, closeReq, cleanup, signals, reason>>

SendOpened ==
    /\ run = "opening"
    /\ run' = "running" /\ busy' = 0
    /\ Send(busy, <<Opened>>)
    /\ UNCHANGED <<todo, primary, result, closeReq, entry, outbound, server,
                   counters>>

\* Guacd cannot be reached or refuses the handshake: the peer is told once by
\* the handshake (GuacdError), and once by handle_open_connection.  An
\* address that does not resolve fails before the primary is set.
OpenFails(c) ==
    /\ Open(c)
    /\ conns[c] = "absent"
    /\ \/ /\ Send(c, <<Close("ConnectionFailed")>>)
          /\ primary' \in {primary, IF primary = 0 THEN c ELSE primary}
       \/ /\ Send(c, <<Close("GuacdError"), Close("ConnectionFailed")>>)
          /\ primary' = IF primary = 0 THEN c ELSE primary
    /\ UNCHANGED <<run, busy, todo, result, closeReq, entry, outbound, server>>

-----------------------------------------------------------------------------
(* The other messages of the peer.                                         *)

\* Data for guacd; data for an unknown connection is lost.
ForwardData(c) ==
    /\ run = "running"
    /\ conns[c] = "absent" \/ back[c] # "dead"
    /\ Write(c, <<>>)
    /\ UNCHANGED <<loop, conns, cleanup, cancel, outbound, server, sent, counters>>

\* internal_handle_connection_close locks primary_guacd_conn_no, finds the
\* connection in it and, with the guard still alive, locks it again: the run
\* task waits for itself.
Hang == run' = "hung" /\ UNCHANGED <<busy, todo>>

\* Data for a connection whose backend task is dead: close_backend with
\* ConnectionLost.
ForwardToDead(c) ==
    /\ Message
    /\ conns[c] # "absent" /\ back[c] = "dead"
    /\ IF c = primary
       THEN /\ Hang
            /\ MarkClosing(c)
            /\ UNCHANGED <<cancel, cleanup, sent>>
       ELSE /\ DelayedClose(c)
            /\ Send(c, <<Close("ConnectionLost")>>)
            /\ UNCHANGED <<run, busy, todo>>
    /\ UNCHANGED <<primary, result, closeReq, back, told, outbound, server>>

\* CloseConnection(Normal) of the primary: guacd and the peer are sent a
\* disconnect instruction first, and the run task sleeps for 100 ms ...
ClosePrimary(c) ==
    /\ Message
    /\ c = primary
    /\ MarkClosing(c)
    /\ Write(c, <<"disconnect", "eof">>)
    /\ Send(c, <<Ending("log"), Ending("disconnect")>>)
    /\ run' = "telling" /\ busy' = c
    /\ UNCHANGED <<todo, primary, result, closeReq, cleanup, cancel, outbound,
                   server>>

\* ... and then clears the primary.
ClearPrimary ==
    /\ run = "telling"
    /\ Hang
    /\ UNCHANGED <<primary, result, closeReq, entry, outbound, server, sent,
                   counters>>

\* CloseConnection of the primary with any other reason.
FailPrimary(c) ==
    /\ Message
    /\ c = primary
    /\ MarkClosing(c)
    /\ Hang
    /\ UNCHANGED <<primary, result, closeReq, cleanup, cancel, back, told,
                   outbound, server, sent>>

\* CloseConnection of another connection: at once if it is normal, delayed
\* otherwise.
HandleClose(c) ==
    /\ Message
    /\ c # primary
    /\ StrayCloses \/ conns[c] = "ACTIVE"
    /\ \/ RemoveConn(c) /\ UNCHANGED cleanup
       \/ DelayedClose(c) /\ UNCHANGED <<back, told>>
    /\ UNCHANGED <<loop, outbound, server, sent>>

\* CloseConnection of connection 0: the run loop exits.  A critical reason is
\* not replaced by one that is not.
HandleCloseChannel(why) ==
    /\ Message
    /\ reason' = IF IsCritical(reason) /\ ~IsCritical(why) THEN reason ELSE why
    /\ LeaveLoop(Conns)
    /\ UNCHANGED <<primary, result, closeReq, entry, task, cause, signals,
                   server, sent>>

\* The grace period is over: whatever entry has the number is removed.
CleanupFires(c) ==
    /\ cleanup[c] > 0
    /\ cleanup' = [cleanup EXCEPT ![c] = @ - 1]
    /\ RemoveConn(c)
    /\ UNCHANGED <<loop, outbound, server, sent, counters>>

-----------------------------------------------------------------------------
(* The end of an outbound task reaches the run loop.                       *)

\* Mutant: only the TCP shutdown is queued.
CriticalClosure_abrupt ==
    /\ run = "running"
    /\ signals # <<>>
    /\ Head(signals) = primary
    /\ signals' = Tail(signals)
    /\ Write(primary, <<"eof">>)
    /\ run' = "closing" /\ busy' = primary
    /\ UNCHANGED <<todo, primary, result, closeReq, conns, cleanup, cancel, task,
                   cause, reason, server, sent, counters>>

\* The primary's: a disconnect instruction and the end of the stream are
\* queued to guacd, and 50 ms later the connection is removed and the loop
\* left.
CriticalClosure ==
    /\ run = "running"
    /\ signals # <<>>
    /\ Head(signals) = primary
    /\ signals' = Tail(signals)
    /\ Write(primary, <<"disconnect", "eof">>)
    /\ run' = "closing" /\ busy' = primary
    /\ UNCHANGED <<todo, primary, result, closeReq, conns, cleanup, cancel, task,
                   cause, reason, server, sent, counters>>

LeaveCritical ==
    /\ run = "closing"
    /\ RemoveConn(busy)
    /\ LeaveLoop(Conns \ {busy})
    /\ UNCHANGED <<primary, result, closeReq, cleanup, outbound, server, sent,
                   counters>>

\* Any other connection's: nothing.
IgnoreSignal ==
    /\ run = "running"
    /\ signals # <<>>
    /\ Head(signals) # primary
    /\ signals' = Tail(signals)
    /\ UNCHANGED <<loop, entry, task, cause, reason, server, sent, counters>>

-----------------------------------------------------------------------------
(* The outbound task.                                                      *)

Reading(c) == task[c] = "reading" /\ ~cancel[c]

\* What a read yields, instruction by instruction: a sync flushes the batch
\* and is forwarded, other instructions are batched, and the end of the read
\* flushes the batch, unless the session is closed: then it is dropped.
LastSync(kinds) ==
    LET syncs == {i \in DOMAIN kinds : kinds[i] = "sync"} IN
    IF syncs = {} THEN 0 ELSE CHOOSE i \in syncs : \A j \in syncs : j <= i

Forwarded(c, kinds, closed) ==
    LET last == IF closed THEN LastSync(kinds) ELSE Len(kinds) IN
    [i \in 1..last |-> Instruction(out[c] + i)]

Read(c, kinds) ==
    /\ reads < MaxReads /\ reads + closes < MaxInputs
    /\ reads' = reads + 1
    /\ UNCHANGED <<opens, closes>>
    /\ Reading(c)
    /\ guacd[c] = "up"
    /\ out' = [out EXCEPT ![c] = @ + Len(kinds)]

ReadData(c, kinds) ==
    /\ Read(c, kinds)
    /\ kinds # <<>>
    /\ Send(c, Forwarded(c, kinds, FALSE))
    /\ UNCHANGED <<loop, entry, outbound, guacd>>

\* Mutant: what ends the session is passed on before the batch.
ReadClose_batch_last(c, kinds, how) ==
    /\ Read(c, kinds)
    /\ Send(c, <<Ending(how), Close("GuacdError")>> \o Forwarded(c, kinds, FALSE))
    /\ cause' = [cause EXCEPT ![c] = how]
    /\ task' = [task EXCEPT ![c] = "draining"]
    /\ UNCHANGED <<loop, entry, signals, reason, guacd>>

\* Guacd ends the session with a disconnect or an error instruction: it is
\* forwarded, and the task looks whether a reason is stored already.  If so
\* it only drains the connection, if not the peer is told.
ReadClose(c, kinds, how) ==
    /\ Read(c, kinds)
    /\ Send(c, Append(Forwarded(c, kinds, TRUE), Ending(how)))
    /\ cause' = [cause EXCEPT ![c] = how]
    /\ task' = [task EXCEPT ![c] = IF reason = "none" THEN "checked" ELSE "draining"]
    /\ UNCHANGED <<loop, entry, signals, reason, guacd>>

\* What guacd sends cannot be parsed: the peer is told in any case.
ReadGarbage(c, kinds) ==
    /\ Read(c, kinds)
    /\ Send(c, Append(Forwarded(c, kinds, TRUE), Close("ProtocolError")))
    /\ cause' = [cause EXCEPT ![c] = "garbage"]
    /\ task' = [task EXCEPT ![c] = "draining"]
    /\ UNCHANGED <<loop, entry, signals, reason, guacd>>

\* Guacd closes the connection without a word, or after an error: the same
\* look at the reason.
ReadLost(c) ==
    /\ task[c] \in {"reading", "draining"} /\ ~cancel[c]
    /\ guacd[c] = "eof"
    /\ cause[c] # "disconnect"
    /\ cause' = [cause EXCEPT ![c] = IF @ = "error" THEN @ ELSE "lost"]
    /\ IF reason = "none"
       THEN task' = [task EXCEPT ![c] = "checked"] /\ UNCHANGED signals
       ELSE Exit(c)
    /\ UNCHANGED <<loop, entry, reason, server, sent, counters>>

\* The peer is told ...
Announce(c) ==
    /\ task[c] = "checked"
    /\ task' = [task EXCEPT ![c] = "announced"]
    /\ Send(c, <<Close(CASE cause[c] = "disconnect" -> "Normal"
                         [] cause[c] = "error" -> "GuacdError"
                         [] cause[c] = "lost" -> "ConnectionLost")>>)
    /\ UNCHANGED <<loop, entry, cause, signals, reason, server, counters>>

\* Mutant: an error is not stored.
StoreReason_forgets(c) ==
    /\ task[c] = "announced"
    /\ IF cause[c] = "lost"
       THEN reason' = "ConnectionLost" /\ Exit(c)
       ELSE task' = [task EXCEPT ![c] = "draining"] /\ UNCHANGED <<signals, reason>>
    /\ UNCHANGED <<loop, entry, cause, server, sent, counters>>

\* ... and the reason stored, GuacdError for a disconnect too.  After that
\* the rest of what guacd sends is discarded until it closes.
StoreReason(c) ==
    /\ task[c] = "announced"
    /\ IF cause[c] = "lost"
       THEN reason' = "ConnectionLost" /\ Exit(c)
       ELSE /\ reason' = "GuacdError"
            /\ task' = [task EXCEPT ![c] = "draining"]
            /\ UNCHANGED signals
    /\ UNCHANGED <<loop, entry, cause, server, sent, counters>>

\* The end of the stream after a disconnect: SendEOF, and the task exits at
\* the next read.
DrainedEof(c) ==
    /\ task[c] = "draining" /\ ~cancel[c]
    /\ guacd[c] = "eof"
    /\ cause[c] = "disconnect"
    /\ task' = [task EXCEPT ![c] = "eofSent"]
    /\ Send(c, <<Eof>>)
    /\ UNCHANGED <<loop, entry, cause, signals, reason, server, counters>>

\* Mutant: the run loop is not told.
Leave_silent(c) ==
    /\ \/ cancel[c] /\ task[c] \in {"reading", "draining", "eofSent"}
       \/ guacd[c] = "gone" /\ task[c] \in {"reading", "draining", "eofSent"}
       \/ task[c] = "eofSent"
    /\ task' = [task EXCEPT ![c] = "done"]
    /\ UNCHANGED <<loop, entry, cause, signals, reason, server, sent, counters>>

\* The task is cancelled, its read fails, or it reads the end of the stream
\* again: it exits without a word to the peer.
Leave(c) ==
    /\ \/ cancel[c] /\ task[c] \in {"reading", "draining", "eofSent"}
       \/ guacd[c] = "gone" /\ task[c] \in {"reading", "draining", "eofSent"}
       \/ task[c] = "eofSent"
    /\ Exit(c)
    /\ UNCHANGED <<loop, entry, cause, reason, server, sent, counters>>

-----------------------------------------------------------------------------
(* Closing the channel.                                                    *)

\* Tube::close_channel stores the reason, tells the peer (a frame of
\* connection 0, which `sent' leaves out) ...
CloseChannel ==
    /\ Closing
    /\ closeReq = "no"
    /\ run # "ended"
    /\ closeReq' = "sent"
    /\ reason' = "AdminClosed"
    /\ UNCHANGED <<run, busy, todo, primary, result, entry, task, cause, signals,
                   server, sent>>

\* ... and wakes one waiter of shutdown_notify: the run loop, or a delayed
\* clean-up, which then ends without removing its connection.
NotifyRunLoop ==
    /\ closeReq = "sent"
    /\ closeReq' = "notified"
    /\ \/ run = "running" /\ LeaveLoop(Conns)
       \/ run \in {"cleanup", "ended", "hung"} /\ UNCHANGED <<run, busy, todo>>
    /\ UNCHANGED <<primary, result, entry, outbound, server, sent, counters>>

NotifyCleanup(c) ==
    /\ closeReq = "sent"
    /\ closeReq' = "notified"
    /\ cleanup[c] > 0
    /\ cleanup' = [cleanup EXCEPT ![c] = @ - 1]
    /\ UNCHANGED <<run, busy, todo, primary, result, conns, cancel, back, told,
                   outbound, server, sent, counters>>

\* cleanup_all_connections: close_backend(Normal) of each.  For the primary
\* it hangs; for another connection the peer is told, the outbound task gets
\* two seconds, and the connection is removed.
CloseBackend(c) ==
    /\ run = "cleanup" /\ busy = 0
    /\ c \in todo
    /\ MarkClosing(c)
    /\ IF c = primary
       THEN Hang /\ UNCHANGED sent
       ELSE /\ busy' = c
            /\ Send(c, <<Close("Normal")>>)
            /\ UNCHANGED <<run, todo>>
    /\ UNCHANGED <<primary, result, closeReq, cleanup, cancel, back, told,
                   outbound, server, counters>>

CloseBackendEnds ==
    /\ run = "cleanup" /\ busy # 0
    /\ RemoveConn(busy)
    /\ todo' = todo \ {busy}
    /\ busy' = 0
    /\ UNCHANGED <<run, primary, result, closeReq, cleanup, outbound, server,
                   sent, counters>>

\* run returns, and the Channel is dropped.
End ==
    /\ run = "cleanup" /\ todo = {}
    /\ run' = "ended"
    /\ result' = IF IsCritical(reason) THEN "CriticalUpstreamClosed" ELSE "Ok"
    /\ cleanup' = [c \in Conns |-> 0]
    /\ UNCHANGED <<busy, todo, primary, closeReq, conns, cancel, back, told,
                   outbound, server, sent, counters>>

-----------------------------------------------------------------------------
(* guacd (external) closes the connection, or dies.  Events nobody can      *)
(* notice any more are left out.                                           *)

GuacdCloses(c, how) ==
    /\ guacd[c] = "up"
    /\ run # "ended"
    /\ task[c] \notin {"none", "done"} \/ back[c] = "running"
    /\ how = "gone" =>
         Cardinality({d \in Conns : guacd[d] = "gone"}) < MaxDeaths
    /\ guacd' = [guacd EXCEPT ![c] = how]
    /\ UNCHANGED <<loop, entry, outbound, out, sent, counters>>

-----------------------------------------------------------------------------
RunLoop ==
    \/ SendOpened \/ ClearPrimary \/ CriticalClosure \/ LeaveCritical
    \/ IgnoreSignal \/ CloseBackendEnds \/ End
    \/ \E c \in Conns : CloseBackend(c)

Outbound(c) ==
    \/ ReadLost(c) \/ Announce(c) \/ StoreReason(c) \/ DrainedEof(c) \/ Leave(c)

Peer ==
    \/ \E c \in Conns :
         \/ OpenExisting(c) \/ OpenBackend(c) \/ OpenFails(c)
         \/ ForwardData(c) \/ ForwardToDead(c)
         \/ ClosePrimary(c) \/ FailPrimary(c) \/ HandleClose(c)
    \/ \E why \in {"Normal", "ProtocolError"} : HandleCloseChannel(why)

Guacd(c) ==
    \/ \E kinds \in Reads :
         \/ ReadData(c, kinds) \/ ReadGarbage(c, kinds)
         \/ \E how \in {"disconnect", "error"} : ReadClose(c, kinds, how)
    \/ \E how \in {"eof", "gone"} : GuacdCloses(c, how)

Next ==
    \/ RunLoop \/ Peer \/ CloseChannel \/ NotifyRunLoop
    \/ \E c \in Conns :
         Outbound(c) \/ Guacd(c) \/ CleanupFires(c) \/ NotifyCleanup(c)

\* The tasks of the program go on; the peer, guacd and the caller of
\* close_channel may stop.
Fairness ==
    /\ WF_vars(RunLoop)
    /\ WF_vars(NotifyRunLoop \/ \E c \in Conns : NotifyCleanup(c))
    /\ \A c \in Conns : WF_vars(Outbound(c)) /\ WF_vars(CleanupFires(c))

Spec == Init /\ [][Next]_vars /\ Fairness

-----------------------------------------------------------------------------
Frames ==
    [type : {"Opened", "Eof"}]
      \cup [type : {"Close"}, reason : {"Normal", "ConnectionFailed", "ConnectionLost",
                                       "GuacdError", "ProtocolError"}]
      \cup [type : {"Ending"}, opcode : {"log", "disconnect", "error"}]
      \cup [type : {"Instruction"}, no : Nat]

\* What the variables range over.
TypeOK ==
    /\ run \in {"running", "opening", "telling", "closing", "hung", "cleanup",
                "ended"}
    /\ busy \in {0} \cup Conns /\ primary \in {0} \cup Conns
    /\ todo \subseteq Conns
    /\ reason \in {"none", "AdminClosed", "Normal", "ProtocolError",
                   "ConnectionLost", "GuacdError"}
    /\ result \in {"none", "Ok", "CriticalUpstreamClosed"}
    /\ closeReq \in {"no", "sent", "notified"}
    /\ signals \in Seq(Conns)
    /\ conns \in [Conns -> {"absent", "ACTIVE", "CLOSING"}]
    /\ cleanup \in [Conns -> Nat]
    /\ cancel \in [Conns -> BOOLEAN]
    /\ task \in [Conns -> {"none", "reading", "checked", "announced", "draining",
                           "eofSent", "done"}]
    /\ cause \in [Conns -> {"none", "disconnect", "error", "garbage", "lost"}]
    /\ back \in [Conns -> {"none", "running", "dead", "done"}]
    /\ guacd \in [Conns -> {"none", "up", "eof", "gone"}]
    /\ out \in [Conns -> Nat]
    /\ told \in [Conns -> Seq({"disconnect", "eof", "fin"})]
    /\ sent \in [Conns -> Seq(Frames)]
    /\ {opens, reads, closes} \subseteq Nat

\* The peer gets what guacd draws in guacd's order and without a gap, also
\* across a sync, and all of it while guacd has not ended the session.  Once
\* the peer was told that the session broke, nothing of it is sent any more:
\* the outbound task drains what guacd still sends.
FramesInOrder ==
    \A c \in Conns :
      LET Drawn(i) == sent[c][i].type = "Instruction"
          Broken(i) == /\ sent[c][i].type = "Close"
                       /\ sent[c][i].reason \in {"GuacdError", "ProtocolError",
                                                "ConnectionLost"}
      IN  /\ \A i, j \in DOMAIN sent[c] :
               i < j /\ Drawn(i) /\ Drawn(j) => sent[c][i].no < sent[c][j].no
          /\ \A i \in DOMAIN sent[c] : Drawn(i) =>
               \A n \in 1..sent[c][i].no :
                 \E j \in 1..i : sent[c][j] = Instruction(n)
          /\ cause[c] = "none" =>
               \A n \in 1..out[c] :
                 \E i \in DOMAIN sent[c] : sent[c][i] = Instruction(n)
          /\ \A i, j \in DOMAIN sent[c] : i < j /\ Broken(i) => ~Drawn(j)

\* guacd gets a disconnect instruction before the TCP connection of the
\* primary is shut, so that it does not wait for the user.
DisconnectFirst ==
    primary # 0 =>
      \A j \in DOMAIN told[primary] :
        told[primary][j] = "fin" =>
          \E i \in 1..(j - 1) : told[primary][i] = "disconnect"

\* An error guacd reported in the primary session is the result of the
\* channel when its run loop ends, although it drains guacd and closes the
\* other connections in between; only a close by the local tube, or a
\* connection that was lost, replaces it.
ErrorReported ==
    [][(/\ run # "ended" /\ run' = "ended"
        /\ primary # 0 /\ cause[primary] = "error" /\ closeReq = "no")
         => result' = "CriticalUpstreamClosed" \/ reason = "ConnectionLost"]_vars

\* The end of the primary session ends the run loop, or the run task is the
\* one that hangs.
SessionEndsChannel ==
    []<>((primary # 0 /\ task[primary] = "done") => run \in {"ended", "hung"})

-----------------------------------------------------------------------------
(* What comments of the source say and the code does not do.               *)

\* A connection that is being closed is removed: "connection MUST be
\* removed".  Closing the primary leaves it there for ever.
CloseRemoves == []<>(\A c \in Conns : conns[c] # "CLOSING")
=============================================================================
