--------------------------- MODULE DatabaseSession ---------------------------
(***************************************************************************)
(* One client connection of keeperdb-proxy, from the listener to the end   *)
(* of its relay: the Gateway handshake and the credential store, the login *)
(* steps of the four protocol handlers, the registration, and then either  *)
(* the managed relay (session/relay.rs, session/manager.rs) with its query *)
(* limit, max_duration timer and query log (query_logging/service.rs), or  *)
(* the basic relay with two copying tasks.                                 *)
(*                                                                         *)
(* The relay loop, the timer task, the logging thread, client and database *)
(* run concurrently.  Whether a registration is accepted is decided by     *)
(* ConnectionTracker; connections share nothing else.                      *)
(*                                                                         *)
(* A query is its number; an answer is the number with "rows" (more comes) *)
(* or "done".  A query fits into one read.  A socket is the sequence of    *)
(* what was written and not read; a write completes once the peer has read *)
(* what was written before.                                                *)
(***************************************************************************)
EXTENDS Integers, Sequences, FiniteSets

CONSTANTS
  Confs,       \* the connections to consider: see AllConfs
  MaxSent,     \* bound: queries the client sends
  LogCapacity  \* CHANNEL_BUFFER_SIZE

\* proto: the database; gateway: the proxy takes credentials from handshakes;
\* handshake: the client begins with one; tracked: it has a session_uid or a
\* connection limit; timer, limit, idle: max_duration, max_queries (0: none)
\* and idle_timeout of its session; logging: its queries are to be logged;
\* pipelined: the client does not wait for answers.
AllConfs ==
  {c \in [proto : {"mysql", "postgres", "sqlserver", "oracle"}, gateway : BOOLEAN,
          handshake : BOOLEAN, tracked : BOOLEAN, timer : BOOLEAN, limit : 0..MaxSent,
          idle : BOOLEAN, logging : BOOLEAN, pipelined : BOOLEAN] :
     c.tracked => c.handshake \/ ~c.gateway}

ASSUME SessionAssumption ==
  /\ MaxSent \in Nat /\ LogCapacity \in Nat \ {0}
  /\ Confs \subseteq AllConfs

Numbers == 1..MaxSent
Quit == <<0, "quit">>
Requests == (Numbers \X {"query"}) \cup {Quit}
Answers == Numbers \X {"rows", "done"}
Shutdown == <<0, "shutdown">>

VARIABLES
  conf,       \* the connection: a member of Confs
  pc,         \* detecting, handshake, login, relay or over
  step,       \* steps of the handler's login that are done
  store,      \* its entry in the credential store: empty, stored or taken
  limits,     \* where its SessionConfig comes from: none (yet), session, defaults
  counted,    \* the tracker counts the connection
  releasing,  \* the release of its guard has been spawned
  admitted,   \* the client has been told that it is logged in
  sent,       \* queries the client has sent
  answered,   \* queries whose answer the client has read
  served,     \* queries the database has answered
  client_eof, \* the client has closed its connection
  server_eof, \* the database has closed its connection
  c2p,        \* queries from the client, not read by the proxy
  p2s,        \* queries from the proxy, not read by the database
  s2p,        \* answers of the database, not read by the proxy
  p2c,        \* answers from the proxy, not read by the client
  loop,       \* the managed relay: none, select, to_server, to_client, err, closing, ended
  chunk,      \* what it is writing
  query_count,
  pending_disconnect,  \* what follows the write to the server: select, err or closing
  signal,     \* the max_duration timer: off, running or sent
  to_server,  \* the task of the basic relay that copies to the server: none, run, ended
  to_client,  \* the task that copies to the client
  logger,     \* the logging thread: none, run or ended
  pending_queries,     \* queries read and not logged
  log_channel,         \* entries for the logging thread, and Shutdown
  logged,     \* entries the channel took
  skipped,    \* queries whose entry it had no room for
  written,    \* entries in the pipe
  pipe_active

connVars == <<conf, pc, step, store, limits, counted, releasing, admitted>>
peerVars == <<sent, answered, served, client_eof, server_eof>>
sockets == <<c2p, p2s, s2p, p2c>>
loopVars == <<loop, chunk, query_count, pending_disconnect, signal>>
copyVars == <<to_server, to_client>>
logVars == <<logger, pending_queries, log_channel, logged, skipped, written, pipe_active>>
relayVars == <<peerVars, sockets, loopVars, copyVars, logVars>>
vars == <<connVars, relayVars>>

Init ==
  /\ conf \in Confs
  /\ pc = "detecting" /\ step = 0 /\ store = "empty" /\ limits = "none"
  /\ counted = FALSE /\ releasing = FALSE /\ admitted = FALSE
  /\ sent = 0 /\ answered = 0 /\ served = 0 /\ client_eof = FALSE /\ server_eof = FALSE
  /\ c2p = << >> /\ p2s = << >> /\ s2p = << >> /\ p2c = << >>
  /\ loop = "none" /\ chunk = << >> /\ query_count = 0
  /\ pending_disconnect = "select" /\ signal = "off"
  /\ to_server = "none" /\ to_client = "none"
  /\ logger = "none" /\ pending_queries = << >> /\ log_channel = << >>
  /\ logged = << >> /\ skipped = {} /\ written = << >> /\ pipe_active = TRUE

-----------------------------------------------------------------------------
\* Connection::handle and the Gateway handshake.

\* The client's first bytes tell a handshake from a database protocol.
Detect ==
  /\ pc = "detecting"
  /\ pc' = CASE conf.handshake /\ conf.gateway -> "handshake"
             [] conf.handshake /\ ~conf.gateway -> "over"
             [] OTHER -> "login"
  /\ UNCHANGED <<conf, step, store, limits, counted, releasing, admitted, relayVars>>

\* select, args, connect: the credentials are stored, then "ready" is sent.
StoreCredentials ==
  /\ pc = "handshake" /\ store = "empty"
  /\ store' = "stored"
  /\ UNCHANGED <<conf, pc, step, limits, counted, releasing, admitted, relayVars>>

SendReady ==
  /\ pc = "handshake" /\ store = "stored"
  /\ pc' = "login"
  /\ UNCHANGED <<conf, step, store, limits, counted, releasing, admitted, relayVars>>

\* An unknown protocol, a timeout, an error or the end of the connection.
HandshakeFails ==
  /\ pc \in {"detecting", "handshake"}
  /\ pc' = "over"
  /\ UNCHANGED <<conf, step, store, limits, counted, releasing, admitted, relayVars>>

-----------------------------------------------------------------------------
\* The login steps of the handlers, in their order.

\* Mutant: the client gets its OK before the connection is registered.
MySQLSteps_ok_first == <<"connect", "client", "config", "credentials", "login", "answer",
                         "register">>

MySQLSteps == <<"connect", "client", "config", "credentials", "login", "register", "answer">>

PostgresSteps == <<"client", "config", "credentials", "connect", "login", "register",
                   "answer", "ready">>

SQLServerSteps == <<"client", "connect", "client", "config", "credentials", "register",
                    "login", "answer">>

\* Mutant: the configuration is asked for when the credentials are gone.
OracleSteps_credentials_first == <<"client", "connect", "credentials", "config", "login",
                                   "answer">>

\* Oracle connections are not registered.
OracleSteps == <<"client", "connect", "config", "credentials", "login", "answer">>

LoginSteps ==
  CASE conf.proto = "mysql" -> MySQLSteps
    [] conf.proto = "postgres" -> PostgresSteps
    [] conf.proto = "sqlserver" -> SQLServerSteps
    [] conf.proto = "oracle" -> OracleSteps

\* The step the handler is at.
At(names) == pc = "login" /\ step < Len(LoginSteps) /\ LoginSteps[step + 1] \in names

\* The provider knows the session: from its handshake as long as the
\* credentials are stored, or from the settings.
Known == ~conf.gateway \/ store = "stored"

\* The Oracle handler goes on with defaults, and without credentials.
Lenient == conf.proto = "oracle"

NextStep ==
  /\ step' = step + 1
  /\ UNCHANGED <<conf, pc, releasing, relayVars>>

\* Steps that talk to the client or the database.
Exchange ==
  /\ At({"connect", "client", "login", "ready"})
  /\ NextStep /\ UNCHANGED <<store, limits, counted, admitted>>

\* get_session_config and resolve_logging_config look into the store.
GetSessionConfig ==
  /\ At({"config"}) /\ (Known \/ Lenient)
  /\ limits' = IF Known THEN "session" ELSE "defaults"
  /\ NextStep /\ UNCHANGED <<store, counted, admitted>>

\* get_auth takes the credentials out of the store.
GetAuth ==
  /\ At({"credentials"}) /\ (Known \/ Lenient)
  /\ store' = IF store = "stored" THEN "taken" ELSE store
  /\ NextStep /\ UNCHANGED <<limits, counted, admitted>>

\* The tracker accepts the connection.
Register ==
  /\ At({"register"})
  /\ counted' = conf.tracked
  /\ NextStep /\ UNCHANGED <<store, limits, admitted>>

\* The client learns that it is logged in.
Admit ==
  /\ At({"answer"})
  /\ admitted' = TRUE
  /\ NextStep /\ UNCHANGED <<store, limits, counted>>

\* Every step may fail: a refusal by the tracker or the database, an error, the
\* end of a connection.  The MySQL and PostgreSQL handlers release a guard they
\* hold, the SQL Server handler drops it.
LoginFails ==
  /\ pc = "login" /\ step < Len(LoginSteps)
  /\ pc' = "over"
  /\ releasing' = (counted /\ conf.proto # "sqlserver")
  /\ UNCHANGED <<conf, step, store, limits, counted, admitted, relayVars>>

Limited == limits = "session" /\ (conf.timer \/ conf.limit # 0 \/ conf.idle)

\* The pipe is opened first, which may fail.  With a limit or a log the relay
\* is managed, otherwise two tasks copy.
StartRelay ==
  /\ pc = "login" /\ step = Len(LoginSteps)
  /\ pc' = "relay"
  /\ \E log \in IF conf.logging THEN {"none", "run"} ELSE {"none"} :
       /\ logger' = log
       /\ LET managed == Limited \/ log = "run" IN
          /\ loop' = IF managed THEN "select" ELSE "none"
          /\ to_server' = IF managed THEN "none" ELSE "run"
          /\ to_client' = IF managed THEN "none" ELSE "run"
  /\ signal' = IF limits = "session" /\ conf.timer THEN "running" ELSE "off"
  /\ UNCHANGED <<conf, step, store, limits, counted, releasing, admitted, peerVars, sockets,
                 chunk, query_count, pending_disconnect, pending_queries, log_channel, logged,
                 skipped, written, pipe_active>>

-----------------------------------------------------------------------------
\* The client, the database, the timer.

\* Some task of the relay still runs.
Relaying == loop \notin {"none", "ended"} \/ to_server = "run" \/ to_client = "run"

\* A client that does not pipeline waits for the answer of its last query.
ClientSend ==
  /\ Relaying /\ ~client_eof /\ sent < MaxSent
  /\ conf.pipelined \/ answered = sent
  /\ sent' = sent + 1
  /\ c2p' = Append(c2p, <<sent + 1, "query">>)
  /\ UNCHANGED <<connVars, answered, served, client_eof, server_eof, p2s, s2p, p2c, loopVars,
                 copyVars, logVars>>

\* The client leaves, with its protocol's farewell or without.
ClientCloses ==
  /\ Relaying /\ ~client_eof
  /\ client_eof' = TRUE
  /\ c2p' \in {c2p, Append(c2p, Quit)}
  /\ UNCHANGED <<connVars, sent, answered, served, server_eof, p2s, s2p, p2c, loopVars,
                 copyVars, logVars>>

ClientReads ==
  /\ Relaying /\ ~client_eof /\ p2c # << >>
  /\ p2c' = Tail(p2c)
  /\ answered' = IF Head(p2c)[2] = "done" THEN answered + 1 ELSE answered
  /\ UNCHANGED <<connVars, sent, served, client_eof, server_eof, c2p, p2s, s2p, loopVars,
                 copyVars, logVars>>

\* A query is answered in one message or in several.
ServerAnswers ==
  /\ Relaying /\ ~server_eof /\ p2s # << >> /\ Head(p2s) # Quit
  /\ LET q == Head(p2s)[1] IN
     s2p' \in {s2p \o << <<q, "done">> >>, s2p \o << <<q, "rows">>, <<q, "done">> >>}
  /\ p2s' = Tail(p2s)
  /\ served' = served + 1
  /\ UNCHANGED <<connVars, sent, answered, client_eof, server_eof, c2p, p2c, loopVars,
                 copyVars, logVars>>

\* The database closes, on a Quit or for reasons of its own.
ServerCloses ==
  /\ Relaying /\ ~server_eof
  /\ server_eof' = TRUE /\ p2s' = << >>
  /\ UNCHANGED <<connVars, sent, answered, served, client_eof, c2p, s2p, p2c, loopVars,
                 copyVars, logVars>>

\* The max_duration timer is due.
TimerFires ==
  /\ signal = "running"
  /\ signal' = "sent"
  /\ UNCHANGED <<connVars, peerVars, sockets, loop, chunk, query_count, pending_disconnect,
                 copyVars, logVars>>

-----------------------------------------------------------------------------
\* managed_relay_loop: select takes any branch that is ready.

\* What one read may return: everything that is there, or a part of it.
Reads(socket) == {SubSeq(socket, 1, n) : n \in 1..Len(socket)}
Unread(socket, data) == SubSeq(socket, Len(data) + 1, Len(socket))

\* Mutant: the signal is taken and the loop goes on.
SelectSignal_goes_on ==
  /\ loop = "select" /\ signal = "sent"
  /\ signal' = "off"
  /\ UNCHANGED <<connVars, peerVars, sockets, loop, chunk, query_count, pending_disconnect,
                 copyVars, logVars>>

SelectSignal ==
  /\ loop = "select" /\ signal = "sent"
  /\ loop' = "err"
  /\ UNCHANGED <<connVars, peerVars, sockets, chunk, query_count, pending_disconnect, signal,
                 copyVars, logVars>>

SelectIdle ==
  /\ loop = "select" /\ c2p = << >> /\ ~client_eof
  /\ loop' = "err"
  /\ UNCHANGED <<connVars, peerVars, sockets, chunk, query_count, pending_disconnect, signal,
                 copyVars, logVars>>

\* Either side has closed.
SelectEof ==
  /\ loop = "select"
  /\ (client_eof /\ c2p = << >>) \/ (server_eof /\ s2p = << >>)
  /\ loop' = "closing"
  /\ UNCHANGED <<connVars, peerVars, sockets, chunk, query_count, pending_disconnect, signal,
                 copyVars, logVars>>

\* Byte 4 of what was read is taken for a MySQL command, whatever the protocol.
Commands(item) ==
  IF conf.proto = "mysql" THEN {IF item = Quit THEN "quit" ELSE "query"}
  ELSE {"quit", "query", "other"}

\* Mutant: one query too many.
LimitReached_above(count) == conf.limit # 0 /\ count > conf.limit

\* increment_query_count
LimitReached(count) == conf.limit # 0 /\ count >= conf.limit

\* A read from the client: only the first item of it is looked at.
SelectClient ==
  /\ loop = "select"
  /\ \E data \in Reads(c2p) : \E cmd \in Commands(Head(data)) :
       /\ c2p' = Unread(c2p, data)
       /\ chunk' = data
       /\ query_count' = IF cmd = "query" THEN query_count + 1 ELSE query_count
       /\ pending_disconnect' =
            CASE cmd = "quit" -> "closing"
              [] cmd = "query" /\ limits = "session" /\ LimitReached(query_count') -> "err"
              [] OTHER -> "select"
       /\ pending_queries' =
            IF logger = "run" /\ cmd # "quit" /\ Head(data) # Quit
            THEN Append(pending_queries, Head(data)[1]) ELSE pending_queries
  /\ loop' = "to_server"
  /\ UNCHANGED <<connVars, peerVars, p2s, s2p, p2c, signal, copyVars, logger, log_channel,
                 logged, skipped, written, pipe_active>>

\* write_all and flush, which wait for the database to read.
WriteServer ==
  /\ loop = "to_server"
  /\ \/ server_eof /\ loop' = "closing" /\ UNCHANGED p2s
     \/ ~server_eof /\ p2s = << >> /\ p2s' = chunk /\ loop' = pending_disconnect
  /\ chunk' = << >>
  /\ UNCHANGED <<connVars, peerVars, c2p, s2p, p2c, query_count, pending_disconnect, signal,
                 copyVars, logVars>>

\* What the extractors take for the outcome of a query, in what one read from
\* the database returned; the empty set if there is none.  MySQL and Oracle take
\* the first packet, whatever it says,
FirstPacket(data) == {data[1]}

\* PostgreSQL looks for the first message that ends an answer,
FirstEnd(data) ==
  LET ends == {i \in 1..Len(data) : data[i][2] = "done"}
  IN  {data[i] : i \in {i \in ends : \A j \in ends : i <= j}}

\* and SQL Server looks only at the first token.
FirstToken(data) == {data[1]} \cap (Numbers \X {"done"})

Outcome(data) ==
  CASE conf.proto = "postgres" -> FirstEnd(data)
    [] conf.proto = "sqlserver" -> FirstToken(data)
    [] OTHER -> FirstPacket(data)

\* try_send
Submit(entry) ==
  \/ /\ Len(log_channel) < LogCapacity
     /\ log_channel' = Append(log_channel, entry) /\ logged' = Append(logged, entry)
     /\ UNCHANGED skipped
  \/ /\ Len(log_channel) >= LogCapacity
     /\ skipped' = skipped \cup {entry[1]}
     /\ UNCHANGED <<log_channel, logged>>

\* Mutant: the query that was logged stays at the front of the queue.
LogAnswer_keeps(data) ==
  /\ UNCHANGED pending_queries
  /\ \/ Outcome(data) = {} /\ UNCHANGED <<log_channel, logged, skipped>>
     \/ \E item \in Outcome(data) : Submit(<<Head(pending_queries), item[1]>>)

\* The oldest pending query goes to the log with the outcome; without one it
\* stays pending.
LogAnswer(data) ==
  \/ Outcome(data) = {} /\ UNCHANGED <<pending_queries, log_channel, logged, skipped>>
  \/ \E item \in Outcome(data) :
       /\ pending_queries' = Tail(pending_queries)
       /\ Submit(<<Head(pending_queries), item[1]>>)

\* A read from the database.
SelectServer ==
  /\ loop = "select"
  /\ \E data \in Reads(s2p) :
       /\ s2p' = Unread(s2p, data)
       /\ chunk' = data
       /\ IF pending_queries # << >> THEN LogAnswer(data)
          ELSE UNCHANGED <<pending_queries, log_channel, logged, skipped>>
  /\ loop' = "to_client"
  /\ UNCHANGED <<connVars, peerVars, c2p, p2s, p2c, query_count, pending_disconnect, signal,
                 copyVars, logger, written, pipe_active>>

WriteClient ==
  /\ loop = "to_client"
  /\ \/ client_eof /\ loop' = "closing" /\ UNCHANGED p2c
     \/ ~client_eof /\ p2c = << >> /\ p2c' = chunk /\ loop' = "select"
  /\ chunk' = << >>
  /\ UNCHANGED <<connVars, peerVars, c2p, p2s, s2p, query_count, pending_disconnect, signal,
                 copyVars, logVars>>

\* send_err_packet, which waits for the client to read.
SendErr ==
  /\ loop = "err" /\ (client_eof \/ p2c = << >>)
  /\ loop' = "closing"
  /\ UNCHANGED <<connVars, peerVars, sockets, chunk, query_count, pending_disconnect, signal,
                 copyVars, logVars>>

\* Mutant: the handler returns without releasing its guard.
Closed_unreleased ==
  /\ pc' = "over"
  /\ UNCHANGED <<conf, step, store, limits, counted, releasing, admitted>>

\* The relay returns and the handler releases its guard.
Closed ==
  /\ pc' = "over" /\ releasing' = counted
  /\ UNCHANGED <<conf, step, store, limits, counted, admitted>>

\* The loop waits for room to shut the log down; the timer is aborted.
Close ==
  /\ loop = "closing"
  /\ \/ /\ logger = "run" /\ Len(log_channel) < LogCapacity
        /\ log_channel' = Append(log_channel, Shutdown)
     \/ logger = "none" /\ UNCHANGED log_channel
  /\ loop' = "ended" /\ signal' = "off"
  /\ Closed
  /\ UNCHANGED <<peerVars, sockets, chunk, query_count, pending_disconnect, copyVars, logger,
                 pending_queries, logged, skipped, written, pipe_active>>

RelayStep ==
  \/ SelectSignal \/ SelectEof \/ SelectClient \/ SelectServer
  \/ WriteServer \/ WriteClient \/ SendErr \/ Close

-----------------------------------------------------------------------------
\* The basic relay: copy_with_logging in both directions.

CopyToServer ==
  /\ to_server = "run"
  /\ \/ \E data \in Reads(c2p) :
          /\ c2p' = Unread(c2p, data)
          /\ \/ server_eof /\ to_server' = "ended" /\ UNCHANGED p2s
             \/ ~server_eof /\ p2s = << >> /\ p2s' = data /\ UNCHANGED to_server
     \/ c2p = << >> /\ to_server' = "ended" /\ UNCHANGED <<c2p, p2s>>
  /\ UNCHANGED <<connVars, peerVars, s2p, p2c, loopVars, to_client, logVars>>

CopyToClient ==
  /\ to_client = "run"
  /\ \/ \E data \in Reads(s2p) :
          /\ s2p' = Unread(s2p, data)
          /\ \/ client_eof /\ to_client' = "ended" /\ UNCHANGED p2c
             \/ ~client_eof /\ p2c = << >> /\ p2c' = data /\ UNCHANGED to_client
     \/ s2p = << >> /\ to_client' = "ended" /\ UNCHANGED <<s2p, p2c>>
  /\ UNCHANGED <<connVars, peerVars, c2p, p2s, loopVars, to_server, logVars>>

\* One direction has ended; the task of the other goes on without its handle.
BasicEnds ==
  /\ pc = "relay" /\ "ended" \in {to_server, to_client}
  /\ Closed
  /\ UNCHANGED relayVars

-----------------------------------------------------------------------------
\* release_spawn's task and the logging thread.

Release ==
  /\ releasing /\ counted
  /\ counted' = FALSE
  /\ UNCHANGED <<conf, pc, step, store, limits, releasing, admitted, relayVars>>

\* The reader of the pipe may have gone.
LogWrite ==
  /\ logger = "run" /\ log_channel # << >> /\ Head(log_channel) # Shutdown
  /\ log_channel' = Tail(log_channel)
  /\ \/ pipe_active /\ written' = Append(written, Head(log_channel)) /\ UNCHANGED pipe_active
     \/ pipe_active' = FALSE /\ UNCHANGED written
  /\ UNCHANGED <<connVars, peerVars, sockets, loopVars, copyVars, logger, pending_queries,
                 logged, skipped>>

\* Mutant: the thread ends with its session instead of with the shutdown message.
LogEnd_at_once ==
  /\ logger = "run" /\ pc = "over"
  /\ logger' = "ended"
  /\ UNCHANGED <<connVars, peerVars, sockets, loopVars, copyVars, log_channel,
                 pending_queries, logged, skipped, written, pipe_active>>

LogEnd ==
  /\ logger = "run" /\ log_channel # << >> /\ Head(log_channel) = Shutdown
  /\ logger' = "ended" /\ log_channel' = Tail(log_channel)
  /\ UNCHANGED <<connVars, peerVars, sockets, loopVars, copyVars, pending_queries, logged,
                 skipped, written, pipe_active>>

Next ==
  \/ Detect \/ StoreCredentials \/ SendReady \/ HandshakeFails
  \/ Exchange \/ GetSessionConfig \/ GetAuth \/ Register \/ Admit \/ LoginFails \/ StartRelay
  \/ ClientSend \/ ClientCloses \/ ClientReads \/ ServerAnswers \/ ServerCloses \/ TimerFires
  \/ RelayStep \/ SelectIdle \/ CopyToServer \/ CopyToClient \/ BasicEnds
  \/ Release \/ LogWrite \/ LogEnd

\* The tasks of the proxy run.  Client, database and pipe promise nothing, a
\* login may wait for ever, and the idle timeout is not counted upon.
Fairness == WF_vars(RelayStep) /\ WF_vars(BasicEnds) /\ WF_vars(Release)

Spec == Init /\ [][Next]_vars /\ Fairness

-----------------------------------------------------------------------------
TypeOK ==
  /\ conf \in Confs
  /\ pc \in {"detecting", "handshake", "login", "relay", "over"}
  /\ step \in 0..Len(LoginSteps) /\ store \in {"empty", "stored", "taken"}
  /\ limits \in {"none", "session", "defaults"}
  /\ counted \in BOOLEAN /\ releasing \in BOOLEAN /\ admitted \in BOOLEAN
  /\ sent \in 0..MaxSent /\ answered \in 0..sent /\ served \in 0..sent
  /\ client_eof \in BOOLEAN /\ server_eof \in BOOLEAN
  /\ c2p \in Seq(Requests) /\ p2s \in Seq(Requests)
  /\ s2p \in Seq(Answers) /\ p2c \in Seq(Answers)
  /\ loop \in {"none", "select", "to_server", "to_client", "err", "closing", "ended"}
  /\ chunk \in IF loop = "to_client" THEN Seq(Answers) ELSE Seq(Requests)
  /\ query_count \in 0..(MaxSent + 1)
  /\ pending_disconnect \in {"select", "err", "closing"}
  /\ signal \in {"off", "running", "sent"}
  /\ to_server \in {"none", "run", "ended"} /\ to_client \in {"none", "run", "ended"}
  /\ logger \in {"none", "run", "ended"} /\ pending_queries \in Seq(Numbers)
  /\ log_channel \in Seq((Numbers \X Numbers) \cup {Shutdown})
  /\ Len(log_channel) <= LogCapacity
  /\ logged \in Seq(Numbers \X Numbers) /\ written \in Seq(Numbers \X Numbers)
  /\ skipped \subseteq Numbers /\ pipe_active \in BOOLEAN

\* A connection that has to be tracked is counted before its client is told
\* that it is logged in, and for as long as it relays (mysql.rs "MUST happen
\* BEFORE sending OK to client").  Oracle connections are not tracked.
CountedWhileAdmitted ==
  admitted /\ pc # "over" /\ conf.tracked /\ conf.proto # "oracle" => counted /\ ~releasing

\* When queries flow, the credentials of the handshake are no longer in the
\* store, and the limits in force are those the handshake came with: asking for
\* the credentials first would leave an Oracle session without its limits.
OwnLimits ==
  pc = "relay" =>
    /\ store # "stored"
    /\ conf.handshake \/ ~conf.gateway => limits = "session"

\* A MySQL client that waits for its answers gets at most max_queries queries
\* to the database, the one that ends the session included; one that pipelines
\* gets at most max_queries reads.
QueriesBounded ==
  loop # "none" /\ conf.proto = "mysql" /\ conf.limit # 0 =>
    /\ query_count <= conf.limit
    /\ ~conf.pipelined => served + Cardinality({i \in 1..Len(p2s) : p2s[i] # Quit}) <= conf.limit

\* The log has queries in the order they were sent, each at most once, and, for
\* a client that waits, next to the outcome of the same query.  SQL Server is
\* left out: an answer that begins with rows leaves its query pending, and the
\* next outcome is logged for it.
LogFaithful ==
  conf.proto # "sqlserver" =>
    /\ \A i, j \in 1..Len(logged) : i < j => logged[i][1] < logged[j][1]
    /\ ~conf.pipelined => \A i \in 1..Len(logged) : logged[i][1] = logged[i][2]

\* Whatever a waiting client got an answer to is in the log, unless the channel
\* was full; and when the logging thread has ended, every entry the channel took
\* is in the pipe, unless the pipe broke.
LogComplete ==
  /\ logger # "none" /\ ~conf.pipelined /\ conf.proto # "sqlserver" =>
       \A q \in 1..answered : q \in skipped \/ \E i \in 1..Len(logged) : logged[i][1] = q
  /\ logger = "ended" /\ pipe_active => written = logged

\* The managed relay waits for a peer that does not read, or for the log.
Stalled ==
  \/ loop = "to_server" /\ p2s # << >> /\ ~server_eof
  \/ loop \in {"to_client", "err"} /\ p2c # << >> /\ ~client_eof
  \/ loop = "closing" /\ logger = "run" /\ Len(log_channel) = LogCapacity

\* Once max_duration is over the session ends, unless the relay waits for a peer
\* that does not read or for a full log.
TimerEndsSession == signal = "sent" ~> pc = "over" \/ Stalled

\* A SQL Server login that failed after the registration.
Leaked == conf.proto = "sqlserver" /\ step < Len(LoginSteps)

\* A connection that is over is not counted for ever, except a failed SQL Server
\* login.
EndReleases == pc = "over" ~> ~counted \/ Leaked
==============================================================================
