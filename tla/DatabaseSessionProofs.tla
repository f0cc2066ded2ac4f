----------------------- MODULE DatabaseSessionProofs -----------------------
(***************************************************************************)
(* Proofs about DatabaseSession, for any set of connections, any number of *)
(* queries and any capacity of the log.                                    *)
(***************************************************************************)
EXTENDS DatabaseSession, SequenceTheorems, FiniteSetTheorems, WellFoundedInduction, TLAPS

-----------------------------------------------------------------------------
\* The login.

\* The number of the step that asks for the SessionConfig; the credentials are
\* asked for in the next one.
ConfigStep ==
  CASE conf.proto = "mysql" -> 3
    [] conf.proto = "postgres" -> 2
    [] conf.proto = "sqlserver" -> 4
    [] conf.proto = "oracle" -> 3

Protocols == {"mysql", "postgres", "sqlserver", "oracle"}

\* What the variables of the connection may hold.
ConnectionTypes ==
  /\ conf \in Confs
  /\ pc \in {"detecting", "handshake", "login", "relay", "over"}
  /\ step \in 0..Len(LoginSteps) /\ store \in {"empty", "stored", "taken"}
  /\ limits \in {"none", "session", "defaults"}
  /\ counted \in BOOLEAN /\ releasing \in BOOLEAN /\ admitted \in BOOLEAN

\* The registration is behind every handler that has answered its client, and
\* nothing is released before the connection is over.
Counting ==
  /\ admitted /\ conf.proto # "oracle" => step >= 6
  /\ pc # "over" => ~releasing
  /\ step >= 6 /\ conf.proto # "oracle" /\ pc # "over" => counted = conf.tracked

\* The credentials of a handshake are in the store until the handler, which has
\* asked for the limits before, takes them.
Stored ==
  /\ pc \in {"detecting", "handshake"} => step = 0
  /\ pc = "detecting" => store = "empty"
  /\ pc = "handshake" => conf.gateway /\ conf.handshake /\ store # "taken"
  /\ pc = "login" /\ conf.handshake => conf.gateway
  /\ pc = "login" /\ conf.handshake /\ step <= ConfigStep => store = "stored"
  /\ ~(conf.gateway /\ conf.handshake) => store = "empty"
  /\ pc \in {"login", "relay"} /\ step > ConfigStep => store # "stored"
  /\ pc = "relay" => step = Len(LoginSteps)

\* Who has passed the step that asks for them has the limits of its session;
\* only an Oracle client without a handshake goes on with the defaults.
Configured ==
  pc \in {"login", "relay"} /\ step >= ConfigStep
    => limits = "session" \/ (conf.proto = "oracle" /\ conf.gateway /\ ~conf.handshake)

LoginInv == ConnectionTypes /\ Counting /\ Stored /\ Configured

\* Where the four handlers ask, take, register and answer.
LEMMA Order ==
  ASSUME conf \in Confs
  PROVE  /\ conf.proto \in Protocols /\ conf.tracked \in BOOLEAN
         /\ conf.gateway \in BOOLEAN /\ conf.handshake \in BOOLEAN
         /\ ConfigStep \in 1..4 /\ Len(LoginSteps) \in 6..8
         /\ \A n \in 1..Len(LoginSteps) :
              /\ LoginSteps[n] = "config" => n = ConfigStep
              /\ LoginSteps[n] = "credentials" <=> n = ConfigStep + 1
              /\ LoginSteps[n] = "register" <=> n = 6 /\ conf.proto # "oracle"
              /\ LoginSteps[n] = "answer" => n >= 7 \/ conf.proto = "oracle"
              /\ n = ConfigStep => LoginSteps[n] = "config"
<1>1. /\ conf.proto \in Protocols /\ conf.tracked \in BOOLEAN
      /\ conf.gateway \in BOOLEAN /\ conf.handshake \in BOOLEAN
  BY SessionAssumption DEF AllConfs, Protocols
<1>2. CASE conf.proto = "mysql"
  BY <1>1, <1>2 DEF LoginSteps, MySQLSteps, ConfigStep
<1>3. CASE conf.proto = "postgres"
  BY <1>1, <1>3 DEF LoginSteps, PostgresSteps, ConfigStep
<1>4. CASE conf.proto = "sqlserver"
  BY <1>1, <1>4 DEF LoginSteps, SQLServerSteps, ConfigStep
<1>5. CASE conf.proto = "oracle"
  BY <1>1, <1>5 DEF LoginSteps, OracleSteps, ConfigStep
<1>6. QED
  BY <1>1, <1>2, <1>3, <1>4, <1>5 DEF Protocols

LEMMA LoginInit == Init => LoginInv
<1> SUFFICES ASSUME Init PROVE LoginInv
  OBVIOUS
<1>1. conf \in Confs /\ pc = "detecting" /\ step = 0 /\ store = "empty" /\ limits = "none"
      /\ counted = FALSE /\ releasing = FALSE /\ admitted = FALSE
  BY DEF Init
<1>2. ConfigStep \in 1..4 /\ Len(LoginSteps) \in 6..8
  BY <1>1, Order
<1>3. ConnectionTypes
  <2>1. step \in 0..Len(LoginSteps)
    BY <1>1, <1>2
  <2>2. QED
    BY <1>1, <2>1, Zenon DEF ConnectionTypes
<1>4. Counting /\ Stored /\ Configured
  BY <1>1, <1>2 DEF Counting, Stored, Configured
<1>5. QED
  BY <1>3, <1>4 DEF LoginInv

\* What a step of the handshake or of a login does, and what the others leave.
LEMMA LoginStep ==
  ASSUME LoginInv, [Next]_vars
  PROVE  LoginInv'
<1> DEFINE L == Len(LoginSteps)
           C == ConfigStep
<1>o. /\ conf.proto \in Protocols /\ conf.tracked \in BOOLEAN
      /\ conf.gateway \in BOOLEAN /\ conf.handshake \in BOOLEAN
      /\ C \in 1..4 /\ L \in 6..8 /\ step \in 0..L
      /\ \A n \in 1..L :
           /\ LoginSteps[n] = "config" => n = C
           /\ LoginSteps[n] = "credentials" <=> n = C + 1
           /\ LoginSteps[n] = "register" <=> n = 6 /\ conf.proto # "oracle"
           /\ LoginSteps[n] = "answer" => n >= 7 \/ conf.proto = "oracle"
           /\ n = C => LoginSteps[n] = "config"
  BY Order DEF LoginInv, ConnectionTypes
<1>c. conf' = conf /\ LoginSteps' = LoginSteps /\ ConfigStep' = ConfigStep
  <2>1. conf' = conf
    BY DEF Next, Detect, StoreCredentials, SendReady, HandshakeFails, Exchange,
       GetSessionConfig, GetAuth, Register, Admit, LoginFails, NextStep, StartRelay, ClientSend,
       ClientCloses, ClientReads, ServerAnswers, ServerCloses, TimerFires, RelayStep,
       SelectSignal, SelectEof, SelectClient, SelectServer, WriteServer, WriteClient, SendErr,
       Close, Closed, SelectIdle, CopyToServer, CopyToClient, BasicEnds, Release, LogWrite,
       LogEnd, connVars, vars
  <2>2. QED
    BY <2>1 DEF LoginSteps, ConfigStep
<1> USE DEF LoginInv, ConnectionTypes, Counting, Stored, Configured
<1> HIDE DEF L, C
<1>1. CASE Detect
  BY <1>1, <1>o, <1>c DEF Detect, L, C
<1>2. CASE StoreCredentials
  BY <1>2, <1>o, <1>c DEF StoreCredentials, L, C
<1>3. CASE SendReady
  BY <1>3, <1>o, <1>c DEF SendReady, L, C
<1>4. CASE HandshakeFails
  BY <1>4, <1>o, <1>c DEF HandshakeFails, L, C
<1>5. CASE Exchange
  BY <1>5, <1>o, <1>c DEF Exchange, At, NextStep, L, C
<1>6. CASE GetSessionConfig
  BY <1>6, <1>o, <1>c DEF GetSessionConfig, At, NextStep, Known, Lenient, L, C
<1>7. CASE GetAuth
  BY <1>7, <1>o, <1>c DEF GetAuth, At, NextStep, Known, Lenient, L, C
<1>8. CASE Register
  BY <1>8, <1>o, <1>c DEF Register, At, NextStep, L, C
<1>9. CASE Admit
  BY <1>9, <1>o, <1>c DEF Admit, At, NextStep, L, C
<1>10. CASE LoginFails
  BY <1>10, <1>o, <1>c DEF LoginFails, L, C
<1>11. CASE StartRelay
  BY <1>11, <1>o, <1>c DEF StartRelay, L, C
<1>12. CASE Closed
  BY <1>12, <1>o, <1>c DEF Closed, L, C
<1>13. CASE Release
  BY <1>13, <1>o, <1>c DEF Release, L, C
<1>14. CASE UNCHANGED connVars
  BY <1>14, <1>o, <1>c DEF connVars, L, C
<1>15. QED
  BY <1>1, <1>2, <1>3, <1>4, <1>5, <1>6, <1>7, <1>8, <1>9, <1>10, <1>11, <1>12, <1>13, <1>14
     DEF Next, ClientSend, ClientCloses, ClientReads, ServerAnswers, ServerCloses, TimerFires,
         RelayStep, SelectSignal, SelectEof, SelectClient, SelectServer, WriteServer,
         WriteClient, SendErr, Close, SelectIdle, CopyToServer, CopyToClient, BasicEnds,
         LogWrite, LogEnd, vars

-----------------------------------------------------------------------------
\* The relay.

\* What its variables may hold.
RelayTypes ==
  /\ sent \in 0..MaxSent /\ answered \in Nat /\ served \in Nat
  /\ client_eof \in BOOLEAN /\ server_eof \in BOOLEAN
  /\ c2p \in Seq(Requests) /\ p2s \in Seq(Requests)
  /\ s2p \in Seq(Answers) /\ p2c \in Seq(Answers)
  /\ loop \in {"none", "select", "to_server", "to_client", "err", "closing", "ended"}
  /\ chunk \in IF loop = "to_client" THEN Seq(Answers) ELSE Seq(Requests)
  /\ query_count \in Nat
  /\ pending_disconnect \in {"select", "err", "closing"}
  /\ signal \in {"off", "running", "sent"}
  /\ to_server \in {"none", "run", "ended"} /\ to_client \in {"none", "run", "ended"}
  /\ logger \in {"none", "run", "ended"} /\ pending_queries \in Seq(Numbers)
  /\ log_channel \in Seq((Numbers \X Numbers) \cup {Shutdown})
  /\ Len(log_channel) <= LogCapacity
  /\ logged \in Seq(Numbers \X Numbers) /\ written \in Seq(Numbers \X Numbers)
  /\ skipped \subseteq Numbers /\ pipe_active \in BOOLEAN

\* One of the two relays runs, the managed one for as long as the handler.
Modes ==
  /\ pc \in {"detecting", "handshake", "login"} =>
       /\ loop = "none" /\ to_server = "none" /\ to_client = "none" /\ logger = "none"
       /\ sent = 0 /\ query_count = 0
  /\ loop # "none" => to_server = "none" /\ to_client = "none"
  /\ loop \notin {"none", "ended"} => pc = "relay"
  /\ logger # "none" => loop # "none"
  /\ logger = "ended" => loop = "ended"
  /\ loop \notin {"to_server", "to_client"} => chunk = << >>
  /\ logger = "none" => /\ pending_queries = << >> /\ log_channel = << >>
                        /\ logged = << >> /\ written = << >> /\ skipped = {}

\* Queries a+1, ..., b, and after them perhaps the farewell.
Stretch(s, a, b) ==
  /\ Len(s) \in {b - a, b - a + 1}
  /\ \A i \in 1..(b - a) : s[i] = <<a + i, "query">>
  /\ Len(s) = b - a + 1 => s[Len(s)] = Quit

\* The requests on their way, in their order: x of them have been written to
\* the database, y read by the proxy.
RequestsFlow(x, y) ==
  /\ served <= x /\ x <= y /\ y <= sent
  /\ server_eof => p2s = << >>
  /\ ~server_eof => Stretch(p2s, served, x)
  /\ ~server_eof /\ loop = "to_server" => Stretch(chunk, x, y)
  /\ ~server_eof /\ loop # "to_server" => x = y
  /\ Stretch(c2p, y, sent)
  /\ ~client_eof => Len(c2p) = sent - y

\* The query whose answer goes on or begins after this message.
Following(item) == IF item[2] = "done" THEN item[1] + 1 ELSE item[1]

\* A piece of the stream of answers, from query m on and before the end of n's.
Chain(s, m, n) ==
  /\ \A i \in 1..Len(s) : m <= s[i][1] /\ Following(s[i]) <= n
  /\ \A i, j \in 1..Len(s) : i < j => Following(s[i]) <= s[j][1]

\* The answers on their way, in their order: the client has been written those
\* before u, the proxy has read those before v.
AnswersFlow(u, v) ==
  /\ answered < u /\ u <= v /\ v <= served + 1
  /\ Chain(p2c, answered + 1, u)
  /\ loop = "to_client" => Chain(chunk, u, v)
  /\ Chain(s2p, v, served + 1)
  /\ \A i \in 1..Len(s2p) : s2p[i][1] <= served

\* A client that waits has at most one query without its answer.
OneOutstanding == ~conf.pipelined => sent <= answered + 1

\* The loop can come back to select.
GoesOn == loop \in {"select", "to_client"} \/ (loop = "to_server" /\ pending_disconnect = "select")

\* The relay counts what it reads, and stops at the limit.
Counted(y) ==
  /\ query_count <= y \/ (query_count = y + 1 /\ c2p = << >> /\ client_eof)
  /\ conf.proto = "mysql" /\ loop # "none" =>
       /\ ~conf.pipelined => query_count = y
       /\ conf.limit # 0 => query_count <= conf.limit /\ (GoesOn => query_count < conf.limit)

\* The log takes the queries in their order.
LogOrder(y) ==
  /\ \A i, j \in 1..Len(logged) : i < j => logged[i][1] < logged[j][1]
  /\ \A i \in 1..Len(logged) : logged[i][1] <= y
  /\ \A i, j \in 1..Len(pending_queries) : i < j => pending_queries[i] < pending_queries[j]
  /\ \A i \in 1..Len(logged), j \in 1..Len(pending_queries) :
       logged[i][1] < pending_queries[j]
  /\ \A j \in 1..Len(pending_queries) : pending_queries[j] <= y

InLog(q) == q \in skipped \/ \E i \in 1..Len(logged) : logged[i][1] = q
Pending(q) == \E j \in 1..Len(pending_queries) : pending_queries[j] = q

\* For a client that waits: a query is pending until the end of its answer is
\* read, and by then its entry is made.
LogMatches(v, y) ==
  ~conf.pipelined /\ conf.proto # "sqlserver" =>
    /\ \A j \in 1..Len(pending_queries) : v <= pending_queries[j]
    /\ \A i \in 1..Len(logged) : logged[i][1] = logged[i][2]
    /\ logger # "none" =>
         /\ \A q \in 1..(v - 1) : InLog(q)
         /\ GoesOn => \A q \in 1..y : InLog(q) \/ Pending(q)

Flow(u, v, x, y) ==
  /\ RequestsFlow(x, y) /\ AnswersFlow(u, v)
  /\ Counted(y) /\ LogOrder(y) /\ LogMatches(v, y)

\* The channel holds the entries that are not written yet, and at last Shutdown.
Entries == Len(logged) - Len(written)
Channel ==
  /\ \A i \in 1..Len(log_channel) : log_channel[i] = Shutdown => loop = "ended"
  /\ pipe_active =>
       /\ Entries >= 0 /\ Len(log_channel) \in {Entries, Entries + 1}
       /\ \A i \in 1..Len(written) : written[i] = logged[i]
       /\ \A i \in 1..Entries : log_channel[i] = logged[Len(written) + i]
       /\ Len(log_channel) = Entries + 1 => loop = "ended" /\ log_channel[Entries + 1] = Shutdown
       /\ logger = "ended" => Entries = 0 /\ log_channel = << >>

RelayInv ==
  /\ RelayTypes /\ Modes /\ OneOutstanding /\ Channel
  /\ \E u, v, x, y \in Nat : Flow(u, v, x, y)

\* What one read returns and leaves.
LEMMA ReadSplits ==
  ASSUME NEW S, NEW s \in Seq(S), NEW data \in Reads(s)
  PROVE  /\ data \in Seq(S) /\ Len(data) \in 1..Len(s)
         /\ \A i \in 1..Len(data) : data[i] = s[i]
         /\ Unread(s, data) \in Seq(S) /\ Len(Unread(s, data)) = Len(s) - Len(data)
         /\ \A i \in 1..Len(Unread(s, data)) : Unread(s, data)[i] = s[Len(data) + i]
         /\ Head(data) = s[1] /\ data # << >>
<1>1. PICK n \in 1..Len(s) : data = SubSeq(s, 1, n)
  BY DEF Reads
<1>2. Len(s) \in Nat /\ n \in Nat
  BY LenProperties
<1>3. \A i \in 1..n : s[i] \in S
  BY <1>2, ElementOfSeq
<1>4. /\ data \in Seq(S) /\ Len(data) = n
      /\ \A i \in 1..n : data[i] = s[i]
  BY <1>1, <1>2, <1>3, SubSeqProperties
<1>5. /\ Unread(s, data) \in Seq(S) /\ Len(Unread(s, data)) = Len(s) - n
      /\ \A i \in 1..(Len(s) - n) : Unread(s, data)[i] = s[n + i]
  <2>1. Unread(s, data) = SubSeq(s, n + 1, Len(s))
    BY <1>4 DEF Unread
  <2>2. CASE n = Len(s)
    <3>1. Unread(s, data) = << >>
      BY <1>2, <2>1, <2>2, SubSeqProperties
    <3>2. QED
      BY <1>2, <2>2, <3>1
  <2>3. CASE n < Len(s)
    <3>1. \A i \in (n + 1)..Len(s) : s[i] \in S
      BY <1>2, ElementOfSeq
    <3>2. /\ SubSeq(s, n + 1, Len(s)) \in Seq(S)
          /\ Len(SubSeq(s, n + 1, Len(s))) = Len(s) - (n + 1) + 1
          /\ \A i \in 1..(Len(s) - (n + 1) + 1) : SubSeq(s, n + 1, Len(s))[i] = s[(n + 1) + i - 1]
      BY <1>2, <2>3, <3>1, SubSeqProperties
    <3>3. QED
      BY <1>2, <2>1, <2>3, <3>2
  <2>4. QED
    BY <1>2, <2>2, <2>3
<1>6. Head(data) = data[1] /\ data # << >>
  BY <1>2, <1>4
<1>7. QED
  BY <1>2, <1>4, <1>5, <1>6

\* One read from a stretch of requests splits it; it begins with the farewell
\* only if nothing else is left.
LEMMA StretchSplits ==
  ASSUME NEW s \in Seq(Requests), NEW a \in Nat, NEW b \in Nat, a <= b, Stretch(s, a, b),
         NEW data \in Reads(s)
  PROVE  \E c \in Nat :
           /\ a <= c /\ c <= b
           /\ Stretch(data, a, c) /\ Stretch(Unread(s, data), c, b)
           /\ Len(s) = b - a => Len(Unread(s, data)) = b - c
           /\ Head(data) # Quit => a < c /\ Head(data) = <<a + 1, "query">>
           /\ Head(data) = Quit => a = b /\ Len(s) = b - a + 1 /\ Unread(s, data) = << >>
<1> DEFINE r == Unread(s, data)
<1>1. /\ data \in Seq(Requests) /\ Len(data) \in 1..Len(s)
      /\ \A i \in 1..Len(data) : data[i] = s[i]
      /\ r \in Seq(Requests) /\ Len(r) = Len(s) - Len(data)
      /\ \A i \in 1..Len(r) : r[i] = s[Len(data) + i]
      /\ Head(data) = s[1]
  BY ReadSplits
<1>2. /\ Len(s) \in {b - a, b - a + 1}
      /\ \A i \in 1..(b - a) : s[i] = <<a + i, "query">>
      /\ Len(s) = b - a + 1 => s[Len(s)] = Quit
  BY DEF Stretch
<1>3. Len(s) \in Nat /\ Len(data) \in Nat /\ Len(r) \in Nat
  BY <1>1, LenProperties
<1> HIDE DEF r
<1>4. CASE Len(data) <= b - a
  <2> DEFINE c == a + Len(data)
  <2>1. c \in Nat /\ a < c /\ c <= b /\ c - a = Len(data) /\ Len(r) \in {b - c, b - c + 1}
    <3>1. 1 <= Len(data) /\ Len(r) = Len(s) - Len(data)
      BY <1>1, <1>3
    <3>2. Len(s) = b - a \/ Len(s) = b - a + 1
      BY <1>2
    <3>3. QED
      BY ONLY a \in Nat, b \in Nat, <1>3, <1>4, <3>1, <3>2
  <2>2. Stretch(data, a, c)
    <3> HIDE DEF c
    <3>1. ASSUME NEW i \in 1..(c - a) PROVE data[i] = <<a + i, "query">>
      <4>1. i \in 1..Len(data) /\ i \in 1..(b - a)
        BY <1>3, <1>4, <2>1
      <4>2. QED
        BY <1>1, <1>2, <4>1
    <3>2. Len(data) # c - a + 1
      BY <1>3, <2>1
    <3>3. QED
      BY <2>1, <3>1, <3>2 DEF Stretch
  <2>3. Stretch(r, c, b)
    <3>1. ASSUME NEW i \in 1..(b - c) PROVE r[i] = <<c + i, "query">>
      <4>1. i \in 1..Len(r) /\ Len(data) + i \in 1..(b - a) /\ a + (Len(data) + i) = c + i
        BY <1>3, <1>4, <2>1
      <4>2. QED
        BY <1>1, <1>2, <4>1
    <3>2. Len(r) = b - c + 1 => r[Len(r)] = Quit
      <4>1. Len(r) = b - c + 1 => /\ Len(s) = b - a + 1 /\ Len(r) \in 1..Len(r)
                                  /\ Len(data) + Len(r) = Len(s)
        BY <1>1, <1>2, <1>3, <2>1
      <4>2. QED
        BY <1>1, <1>2, <4>1
    <3>3. QED
      BY <2>1, <3>1, <3>2 DEF Stretch
  <2>4. Head(data) = <<a + 1, "query">> /\ Head(data) # Quit
    <3>1. 1 \in 1..(b - a)
      BY <1>1, <1>3, <1>4
    <3>2. s[1] = <<a + 1, "query">>
      BY <1>2, <3>1
    <3>3. QED
      BY <1>1, <3>2 DEF Quit
  <2>5. Len(s) = b - a => Len(r) = b - c
    BY <1>1, <1>3
  <2>6. QED
    BY <2>1, <2>2, <2>3, <2>4, <2>5 DEF r
<1>5. CASE Len(data) > b - a
  <2>1. Len(data) = Len(s) /\ Len(s) = b - a + 1 /\ Len(r) = 0
    BY <1>1, <1>2, <1>3, <1>5
  <2>2. Stretch(data, a, b)
    BY <1>1, <1>2, <1>3, <2>1 DEF Stretch
  <2>3. Stretch(r, b, b)
    BY <2>1 DEF Stretch
  <2>4. Unread(s, data) = << >>
    BY <1>1, <2>1, EmptySeq DEF r
  <2>5. CASE a < b
    <3>1. s[1] = <<a + 1, "query">>
      BY <1>2, <2>5
    <3>2. Head(data) = <<a + 1, "query">> /\ Head(data) # Quit
      BY <1>1, <3>1 DEF Quit
    <3>3. QED
      BY <2>1, <2>2, <2>3, <2>5, <3>2 DEF r
  <2>6. CASE a = b
    <3>1. Head(data) = Quit
      BY <1>1, <1>2, <2>1, <2>6
    <3>2. QED
      BY <2>1, <2>2, <2>3, <2>4, <2>6, <3>1 DEF r
  <2>7. QED
    BY <2>5, <2>6
<1>6. QED
  BY <1>3, <1>4, <1>5

\* The numbers of the answers in a socket.
LEMMA AnswerNumbers ==
  ASSUME NEW s \in Seq(Answers), NEW i \in 1..Len(s)
  PROVE  /\ s[i][1] \in Nat /\ s[i][1] \in Numbers /\ s[i][2] \in {"rows", "done"}
         /\ Following(s[i]) \in Nat
         /\ s[i][1] <= Following(s[i]) /\ Following(s[i]) <= s[i][1] + 1
<1>1. s[i] \in Answers
  BY ElementOfSeq
<1>2. s[i][1] \in Numbers /\ s[i][2] \in {"rows", "done"}
  BY <1>1 DEF Answers
<1>3. s[i][1] \in Nat
  BY <1>2, SessionAssumption DEF Numbers
<1>4. QED
  BY <1>2, <1>3 DEF Following

\* One read from a piece of the stream of answers splits it after its last
\* message.
LEMMA ChainSplits ==
  ASSUME NEW s \in Seq(Answers), NEW m \in Nat, NEW n \in Nat, Chain(s, m, n),
         NEW data \in Reads(s)
  PROVE  LET w == Following(data[Len(data)])
         IN  /\ w \in Nat /\ m <= w /\ w <= n
             /\ Chain(data, m, w) /\ Chain(Unread(s, data), w, n)
<1> DEFINE r == Unread(s, data)
           L == Len(data)
           w == Following(data[L])
<1>1. /\ L \in 1..Len(s)
      /\ \A i \in 1..L : data[i] = s[i]
      /\ Len(r) = Len(s) - L
      /\ \A i \in 1..Len(r) : r[i] = s[L + i]
  <2>1. /\ Len(data) \in 1..Len(s)
        /\ \A i \in 1..Len(data) : data[i] = s[i]
        /\ Len(Unread(s, data)) = Len(s) - Len(data)
        /\ \A i \in 1..Len(Unread(s, data)) : Unread(s, data)[i] = s[Len(data) + i]
    BY ReadSplits, Zenon
  <2>2. QED
    BY <2>1, Zenon
<1>2. Len(s) \in Nat /\ L \in Nat
  BY <1>1, LenProperties
<1>3. \A i \in 1..Len(s) : /\ s[i][1] \in Nat
                           /\ Following(s[i]) \in Nat /\ s[i][1] <= Following(s[i])
  BY AnswerNumbers
<1>4. /\ \A i \in 1..Len(s) : m <= s[i][1] /\ Following(s[i]) <= n
      /\ \A i, j \in 1..Len(s) : i < j => Following(s[i]) <= s[j][1]
  BY DEF Chain
<1> HIDE DEF r, L
<1>5. w = Following(s[L]) /\ w \in Nat /\ m <= w /\ w <= n /\ s[L][1] <= w
  <2>1. L \in 1..L /\ data[L] = s[L]
    BY <1>1, <1>2
  <2>2. QED
    BY <1>1, <1>3, <1>4, <2>1
<1> HIDE DEF w
<1>6. Chain(data, m, w)
  <2>1. ASSUME NEW i \in 1..L PROVE m <= data[i][1] /\ Following(data[i]) <= w
    <3>1. i \in 1..Len(s) /\ data[i] = s[i] /\ (i < L \/ i = L)
      BY <1>1, <1>2
    <3>2. i < L => Following(s[i]) <= s[L][1]
      BY <1>1, <1>4, <3>1
    <3>3. Following(s[i]) <= w
      BY <1>1, <1>3, <1>5, <3>1, <3>2
    <3>4. QED
      BY <1>4, <3>1, <3>3
  <2>2. ASSUME NEW i \in 1..L, NEW j \in 1..L, i < j PROVE Following(data[i]) <= data[j][1]
    <3>1. i \in 1..Len(s) /\ j \in 1..Len(s) /\ data[i] = s[i] /\ data[j] = s[j]
      BY <1>1, <1>2
    <3>2. QED
      BY <1>4, <2>2, <3>1
  <2>3. QED
    BY <2>1, <2>2 DEF Chain, L
<1>7. Chain(r, w, n)
  <2>1. ASSUME NEW i \in 1..Len(r)
        PROVE  r[i] = s[L + i] /\ L + i \in 1..Len(s) /\ L < L + i
    BY <1>1, <1>2
  <2>2. ASSUME NEW i \in 1..Len(r) PROVE w <= r[i][1] /\ Following(r[i]) <= n
    BY <1>1, <1>4, <1>5, <2>1
  <2>3. ASSUME NEW i \in 1..Len(r), NEW j \in 1..Len(r), i < j
        PROVE  Following(r[i]) <= r[j][1]
    <3>1. L + i < L + j
      BY <1>2, <2>3
    <3>2. QED
      BY <1>4, <2>1, <3>1
  <2>4. QED
    BY <2>2, <2>3 DEF Chain
<1>8. QED
  BY <1>5, <1>6, <1>7 DEF r, w, L

\* Nothing flows before the relay.
LEMMA RelayInit == Init => RelayInv
<1> SUFFICES ASSUME Init PROVE RelayInv
  OBVIOUS
<1>0. /\ sent = 0 /\ answered = 0 /\ served = 0 /\ query_count = 0
      /\ client_eof = FALSE /\ server_eof = FALSE /\ pipe_active = TRUE
      /\ loop = "none" /\ pending_disconnect = "select" /\ signal = "off"
      /\ to_server = "none" /\ to_client = "none" /\ logger = "none" /\ skipped = {}
      /\ c2p = << >> /\ p2s = << >> /\ s2p = << >> /\ p2c = << >> /\ chunk = << >>
      /\ pending_queries = << >> /\ log_channel = << >> /\ logged = << >> /\ written = << >>
  BY DEF Init
<1>1. RelayTypes
  <2>1. sent \in 0..MaxSent /\ answered \in Nat /\ served \in Nat /\ query_count \in Nat
    BY <1>0, SessionAssumption
  <2>2. /\ c2p \in Seq(Requests) /\ p2s \in Seq(Requests) /\ chunk \in Seq(Requests)
        /\ s2p \in Seq(Answers) /\ p2c \in Seq(Answers) /\ pending_queries \in Seq(Numbers)
        /\ log_channel \in Seq((Numbers \X Numbers) \cup {Shutdown})
        /\ logged \in Seq(Numbers \X Numbers) /\ written \in Seq(Numbers \X Numbers)
    BY <1>0
  <2>3. Len(log_channel) <= LogCapacity
    BY <1>0, SessionAssumption
  <2>4. chunk \in IF loop = "to_client" THEN Seq(Answers) ELSE Seq(Requests)
    BY <1>0, <2>2
  <2>5. skipped \subseteq Numbers
    BY <1>0
  <2>6. QED
    BY <1>0, <2>1, <2>2, <2>3, <2>4, <2>5, Zenon DEF RelayTypes
<1> USE DEF Init
<1>2. Modes /\ OneOutstanding /\ Channel
  BY DEF Modes, OneOutstanding, Channel, Entries
<1>3. RequestsFlow(0, 0)
  BY DEF RequestsFlow, Stretch
<1>4. AnswersFlow(1, 1)
  BY DEF AnswersFlow, Chain
<1>5. Counted(0) /\ LogOrder(0) /\ LogMatches(1, 0)
  BY DEF Counted, LogOrder, LogMatches, GoesOn
<1>6. QED
  BY <1>1, <1>2, <1>3, <1>4, <1>5 DEF RelayInv, Flow

\* Steps of the handler do not touch the relay.
LEMMA HandlerKeepsRelay ==
  ASSUME RelayInv, UNCHANGED <<conf, relayVars>>,
         pc' \in {"detecting", "handshake", "login"} => pc \in {"detecting", "handshake", "login"},
         pc = "relay" => pc' = "relay" \/ loop \in {"none", "ended"}
  PROVE  RelayInv'
<1> USE DEF relayVars, peerVars, sockets, loopVars, copyVars, logVars
<1>1. PICK u \in Nat, v \in Nat, x \in Nat, y \in Nat : Flow(u, v, x, y)
  BY DEF RelayInv
<1>2. RelayTypes'
  BY DEF RelayInv, RelayTypes
<1>3. Modes' /\ OneOutstanding' /\ Channel'
  BY DEF RelayInv, Modes, OneOutstanding, Channel, Entries
<1>4. RequestsFlow(x, y)' /\ AnswersFlow(u, v)'
  BY <1>1 DEF Flow, RequestsFlow, AnswersFlow
<1>5. Counted(y)' /\ LogOrder(y)' /\ LogMatches(v, y)'
  BY <1>1 DEF Flow, Counted, GoesOn, LogOrder, LogMatches, InLog, Pending
<1>6. QED
  BY <1>2, <1>3, <1>4, <1>5 DEF RelayInv, Flow

\* The relay starts with nothing under way.
LEMMA StartKeepsRelay ==
  ASSUME RelayInv, conf \in Confs, StartRelay
  PROVE  RelayInv'
<1> USE DEF peerVars, sockets
<1>1. PICK u \in Nat, v \in Nat, x \in Nat, y \in Nat : Flow(u, v, x, y)
  BY DEF RelayInv
<1>2. /\ loop = "none" /\ to_server = "none" /\ to_client = "none" /\ logger = "none"
      /\ sent = 0 /\ query_count = 0 /\ chunk = << >> /\ pending_queries = << >>
      /\ log_channel = << >> /\ logged = << >> /\ written = << >> /\ skipped = {}
  BY DEF RelayInv, Modes, StartRelay
<1>3. /\ UNCHANGED <<conf, sent, answered, served, client_eof, server_eof, c2p, p2s, s2p, p2c,
                     chunk, query_count, pending_disconnect, pending_queries, log_channel,
                     logged, skipped, written, pipe_active>>
      /\ pc' = "relay" /\ loop' \in {"none", "select"} /\ logger' \in {"none", "run"}
      /\ logger' = "run" => loop' = "select"
      /\ loop' = "select" => to_server' = "none" /\ to_client' = "none"
      /\ to_server' \in {"none", "run"} /\ to_client' \in {"none", "run"}
      /\ signal' \in {"off", "running"}
  BY DEF StartRelay
<1>4. RelayTypes'
  BY <1>2, <1>3 DEF RelayInv, RelayTypes
<1>5. Modes' /\ OneOutstanding' /\ Channel'
  BY <1>2, <1>3 DEF RelayInv, Modes, OneOutstanding, Channel, Entries
<1>6. RequestsFlow(x, y)' /\ AnswersFlow(u, v)'
  BY <1>1, <1>2, <1>3 DEF Flow, RequestsFlow, AnswersFlow
<1>7. y = 0 /\ v = 1 /\ conf.limit \in Nat
  <2>1. served \in Nat /\ answered \in Nat
    BY DEF RelayInv, RelayTypes
  <2>2. /\ served <= x /\ x <= y /\ y <= 0
        /\ answered < u /\ u <= v /\ v <= served + 1
    BY <1>1, <1>2 DEF Flow, RequestsFlow, AnswersFlow
  <2>3. conf.limit \in Nat
    BY SessionAssumption DEF AllConfs
  <2>4. QED
    BY <2>1, <2>2, <2>3
<1>8. Counted(y)'
  BY <1>2, <1>3, <1>7 DEF Counted
<1>9. LogOrder(y)' /\ LogMatches(v, y)'
  BY <1>2, <1>3, <1>7 DEF LogOrder, LogMatches
<1>10. QED
  BY <1>4, <1>5, <1>6, <1>8, <1>9 DEF RelayInv, Flow

\* The timer, and the branches of the loop that only lead to its end.
LEMMA EndingKeepsRelay ==
  ASSUME RelayInv, TimerFires \/ SelectSignal \/ SelectIdle \/ SelectEof \/ SendErr
  PROVE  RelayInv'
<1> USE DEF peerVars, sockets, copyVars, logVars, connVars
<1>1. PICK u \in Nat, v \in Nat, x \in Nat, y \in Nat : Flow(u, v, x, y)
  BY DEF RelayInv
<1>2. /\ UNCHANGED <<conf, pc, sent, answered, served, client_eof, server_eof, c2p, p2s, s2p,
                     p2c, chunk, query_count, pending_disconnect, to_server, to_client, logger,
                     pending_queries, log_channel, logged, skipped, written, pipe_active>>
      /\ \/ loop' = loop
         \/ loop \in {"select", "err"} /\ loop' \in {"err", "closing"}
      /\ signal' \in {signal, "sent"}
  BY DEF TimerFires, SelectSignal, SelectIdle, SelectEof, SendErr
<1>3. RelayTypes'
  BY SMTT(30), <1>2 DEF RelayInv, RelayTypes
<1>4. Modes' /\ OneOutstanding'
  BY <1>2 DEF RelayInv, Modes, OneOutstanding
<1>5. Channel'
  BY <1>2 DEF RelayInv, Channel, Entries
<1>6. RequestsFlow(x, y)' /\ AnswersFlow(u, v)'
  BY <1>1, <1>2 DEF Flow, RequestsFlow, AnswersFlow
<1>7. Counted(y)' /\ LogOrder(y)' /\ LogMatches(v, y)'
  BY <1>1, <1>2 DEF Flow, Counted, GoesOn, LogOrder, LogMatches, InLog, Pending
<1>8. QED
  BY <1>3, <1>4, <1>5, <1>6, <1>7 DEF RelayInv, Flow

\* Client and database act only once the relay has started.
LEMMA RelayingStarted ==
  ASSUME Modes, Relaying
  PROVE  pc \notin {"detecting", "handshake", "login"}
BY DEF Modes, Relaying

\* Joining two pieces of the stream of answers.
LEMMA ChainJoins ==
  ASSUME NEW s \in Seq(Answers), NEW t \in Seq(Answers), NEW m \in Nat, NEW n \in Nat,
         NEW k \in Nat, m <= n, n <= k, Chain(s, m, n), Chain(t, n, k)
  PROVE  Chain(s \o t, m, k)
<1> DEFINE r == s \o t
<1>1. /\ Len(r) = Len(s) + Len(t)
      /\ \A i \in 1..Len(r) : r[i] = IF i <= Len(s) THEN s[i] ELSE t[i - Len(s)]
  BY ConcatProperties
<1>2. Len(s) \in Nat /\ Len(t) \in Nat
  BY LenProperties
<1>3. /\ \A i \in 1..Len(s) : s[i][1] \in Nat /\ Following(s[i]) \in Nat
      /\ \A i \in 1..Len(t) : t[i][1] \in Nat /\ Following(t[i]) \in Nat
  BY AnswerNumbers
<1>4. /\ \A i \in 1..Len(s) : m <= s[i][1] /\ Following(s[i]) <= n
      /\ \A i, j \in 1..Len(s) : i < j => Following(s[i]) <= s[j][1]
      /\ \A i \in 1..Len(t) : n <= t[i][1] /\ Following(t[i]) <= k
      /\ \A i, j \in 1..Len(t) : i < j => Following(t[i]) <= t[j][1]
  BY DEF Chain
<1> HIDE DEF r
<1>5. ASSUME NEW i \in 1..Len(r)
      PROVE  \/ i \in 1..Len(s) /\ r[i] = s[i]
             \/ i > Len(s) /\ i - Len(s) \in 1..Len(t) /\ r[i] = t[i - Len(s)]
  BY <1>1, <1>2
<1>6. ASSUME NEW i \in 1..Len(r)
      PROVE  m <= r[i][1] /\ Following(r[i]) <= k
  <2>1. CASE i \in 1..Len(s) /\ r[i] = s[i]
    BY <1>3, <1>4, <2>1
  <2>2. CASE i - Len(s) \in 1..Len(t) /\ r[i] = t[i - Len(s)]
    BY <1>3, <1>4, <2>2
  <2>3. QED
    BY <1>5, <2>1, <2>2
<1>7. ASSUME NEW i \in 1..Len(r), NEW j \in 1..Len(r), i < j
      PROVE  Following(r[i]) <= r[j][1]
  <2>1. CASE j \in 1..Len(s) /\ r[j] = s[j]
    <3>1. i \in 1..Len(s) /\ r[i] = s[i]
      BY <1>1, <1>2, <1>7, <2>1
    <3>2. QED
      BY <1>4, <1>7, <2>1, <3>1
  <2>2. CASE j - Len(s) \in 1..Len(t) /\ r[j] = t[j - Len(s)]
    <3>1. CASE i \in 1..Len(s) /\ r[i] = s[i]
      <4>1. Following(s[i]) <= n /\ n <= t[j - Len(s)][1]
        BY <1>4, <2>2, <3>1
      <4>2. Following(s[i]) \in Nat /\ t[j - Len(s)][1] \in Nat
        BY <1>3, <2>2, <3>1
      <4>3. QED
        BY <2>2, <3>1, <4>1, <4>2
    <3>2. CASE i - Len(s) \in 1..Len(t) /\ r[i] = t[i - Len(s)]
      <4>1. i - Len(s) < j - Len(s)
        BY <1>2, <1>7
      <4>2. QED
        BY <1>4, <2>2, <3>2, <4>1
    <3>3. QED
      BY <1>5, <3>1, <3>2
  <2>3. QED
    BY <1>5, <2>1, <2>2
<1>8. QED
  BY <1>6, <1>7 DEF Chain, r

\* A query goes to the end of what the client has sent.
LEMMA ClientSendKeepsRelay ==
  ASSUME RelayInv, ClientSend
  PROVE  RelayInv'
<1> USE DEF loopVars, copyVars, logVars, connVars
<1>1. PICK u \in Nat, v \in Nat, x \in Nat, y \in Nat : Flow(u, v, x, y)
  BY DEF RelayInv
<1>2. /\ UNCHANGED <<conf, pc, answered, served, client_eof, server_eof, p2s, s2p, p2c, loop,
                     chunk, query_count, pending_disconnect, signal, to_server, to_client,
                     logger, pending_queries, log_channel, logged, skipped, written,
                     pipe_active>>
      /\ ~client_eof /\ sent < MaxSent /\ sent' = sent + 1
      /\ c2p' = Append(c2p, <<sent + 1, "query">>)
      /\ pc \notin {"detecting", "handshake", "login"}
      /\ conf.pipelined \/ answered = sent
  BY RelayingStarted DEF ClientSend, RelayInv
<1>3. /\ c2p \in Seq(Requests) /\ sent \in 0..MaxSent /\ MaxSent \in Nat /\ served \in Nat
      /\ <<sent + 1, "query">> \in Requests /\ Len(c2p) \in Nat
  <2>1. c2p \in Seq(Requests) /\ sent \in 0..MaxSent /\ MaxSent \in Nat /\ served \in Nat
    BY SessionAssumption DEF RelayInv, RelayTypes
  <2>2. sent + 1 \in Numbers
    BY <1>2, <2>1 DEF Numbers
  <2>3. QED
    BY <2>1, <2>2, LenProperties DEF Requests
<1>4. /\ c2p' \in Seq(Requests) /\ Len(c2p') = Len(c2p) + 1
      /\ \A i \in 1..Len(c2p) : c2p'[i] = c2p[i]
      /\ c2p'[Len(c2p) + 1] = <<sent + 1, "query">>
  BY <1>2, <1>3, AppendProperties
<1>5. sent' \in 0..MaxSent
  BY <1>2, <1>3
<1>6. RelayTypes'
  BY <1>2, <1>4, <1>5 DEF RelayInv, RelayTypes
<1>7. Modes' /\ OneOutstanding' /\ Channel'
  BY <1>2, <1>3 DEF RelayInv, Modes, OneOutstanding, Channel, Entries
<1>8. RequestsFlow(x, y)'
  <2>1. /\ served <= x /\ x <= y /\ y <= sent /\ Len(c2p) = sent - y
        /\ \A i \in 1..(sent - y) : c2p[i] = <<y + i, "query">>
    BY <1>1, <1>2 DEF Flow, RequestsFlow, Stretch
  <2>2. Len(c2p') = sent' - y /\ Len(c2p') # sent' - y + 1 /\ y <= sent'
    BY <1>2, <1>3, <1>4, <2>1
  <2>3. ASSUME NEW i \in 1..(sent' - y) PROVE c2p'[i] = <<y + i, "query">>
    <3>1. i \in 1..(sent - y) \/ (i = Len(c2p) + 1 /\ y + i = sent + 1)
      BY <1>2, <1>3, <2>1
    <3>2. QED
      BY <1>4, <2>1, <3>1
  <2>4. Stretch(c2p', y, sent')
    BY <2>2, <2>3 DEF Stretch
  <2>5. QED
    BY <1>1, <1>2, <2>2, <2>4 DEF Flow, RequestsFlow, Stretch
<1>9. AnswersFlow(u, v)'
  BY <1>1, <1>2 DEF Flow, AnswersFlow
<1>10. Counted(y)' /\ LogOrder(y)' /\ LogMatches(v, y)'
  BY <1>1, <1>2 DEF Flow, Counted, GoesOn, LogOrder, LogMatches, InLog, Pending
<1>11. QED
  BY <1>6, <1>7, <1>8, <1>9, <1>10 DEF RelayInv, Flow

\* The farewell is the last of what the client sends.
LEMMA ClientClosesKeepsRelay ==
  ASSUME RelayInv, ClientCloses
  PROVE  RelayInv'
<1> USE DEF loopVars, copyVars, logVars, connVars
<1>1. PICK u \in Nat, v \in Nat, x \in Nat, y \in Nat : Flow(u, v, x, y)
  BY DEF RelayInv
<1>2. /\ UNCHANGED <<conf, pc, sent, answered, served, server_eof, p2s, s2p, p2c, loop, chunk,
                     query_count, pending_disconnect, signal, to_server, to_client, logger,
                     pending_queries, log_channel, logged, skipped, written, pipe_active>>
      /\ ~client_eof /\ client_eof' = TRUE /\ c2p' \in {c2p, Append(c2p, Quit)}
  BY DEF ClientCloses
<1>3. c2p \in Seq(Requests) /\ sent \in Nat /\ Quit \in Requests /\ Len(c2p) \in Nat
  BY SessionAssumption, LenProperties DEF RelayInv, RelayTypes, Requests
<1>4. /\ Append(c2p, Quit) \in Seq(Requests) /\ Len(Append(c2p, Quit)) = Len(c2p) + 1
      /\ \A i \in 1..Len(c2p) : Append(c2p, Quit)[i] = c2p[i]
      /\ Append(c2p, Quit)[Len(c2p) + 1] = Quit
  BY <1>3, AppendProperties
<1>5. RelayTypes'
  <2>1. client_eof' \in BOOLEAN /\ c2p' \in Seq(Requests)
    BY <1>2, <1>3, <1>4
  <2>2. QED
    BY <1>2, <2>1 DEF RelayInv, RelayTypes
<1>6. Modes' /\ OneOutstanding' /\ Channel'
  BY <1>2 DEF RelayInv, Modes, OneOutstanding, Channel, Entries
<1>7. RequestsFlow(x, y)'
  <2>1. /\ y <= sent /\ Len(c2p) = sent - y /\ Stretch(c2p, y, sent)
        /\ \A i \in 1..(sent - y) : c2p[i] = <<y + i, "query">>
    BY <1>1, <1>2 DEF Flow, RequestsFlow, Stretch
  <2>2. Stretch(Append(c2p, Quit), y, sent)
    BY <1>4, <2>1 DEF Stretch
  <2>3. Stretch(c2p', y, sent)
    BY <1>2, <2>1, <2>2
  <2>4. QED
    BY <1>1, <1>2, <2>3 DEF Flow, RequestsFlow, Stretch
<1>8. AnswersFlow(u, v)'
  BY <1>1, <1>2 DEF Flow, AnswersFlow
<1>9. Counted(y)' /\ LogOrder(y)' /\ LogMatches(v, y)'
  BY <1>1, <1>2 DEF Flow, Counted, GoesOn, LogOrder, LogMatches, InLog, Pending
<1>10. QED
  BY <1>5, <1>6, <1>7, <1>8, <1>9 DEF RelayInv, Flow

\* The client reads the next message; the end of an answer raises its count.
LEMMA ClientReadsKeepsRelay ==
  ASSUME RelayInv, ClientReads
  PROVE  RelayInv'
<1> USE DEF loopVars, copyVars, logVars, connVars
<1>1. PICK u \in Nat, v \in Nat, x \in Nat, y \in Nat : Flow(u, v, x, y)
  BY DEF RelayInv
<1>2. /\ UNCHANGED <<conf, pc, sent, served, client_eof, server_eof, c2p, p2s, s2p, loop, chunk,
                     query_count, pending_disconnect, signal, to_server, to_client, logger,
                     pending_queries, log_channel, logged, skipped, written, pipe_active>>
      /\ p2c # << >> /\ p2c' = Tail(p2c)
      /\ answered' = IF Head(p2c)[2] = "done" THEN answered + 1 ELSE answered
  BY DEF ClientReads
<1>3. p2c \in Seq(Answers) /\ answered \in Nat /\ served \in Nat /\ sent \in Nat
  BY SessionAssumption DEF RelayInv, RelayTypes
<1>4. /\ Len(p2c) \in Nat /\ Len(p2c) >= 1 /\ Head(p2c) = p2c[1]
      /\ p2c' \in Seq(Answers) /\ Len(p2c') = Len(p2c) - 1
      /\ \A i \in 1..Len(p2c') : p2c'[i] = p2c[i + 1]
  <2>1. Len(p2c) \in Nat /\ Len(p2c) # 0
    BY <1>2, <1>3, LenProperties, EmptySeq
  <2>2. QED
    BY <1>2, <1>3, <2>1, HeadTailProperties
<1>5. answered' \in Nat /\ answered <= answered'
  BY <1>2, <1>3
<1>6. RelayTypes'
  BY <1>2, <1>4, <1>5 DEF RelayInv, RelayTypes
<1>7. Modes' /\ Channel'
  BY <1>2 DEF RelayInv, Modes, Channel, Entries
<1>8. OneOutstanding'
  BY <1>2, <1>3, <1>5 DEF RelayInv, OneOutstanding
<1>9. RequestsFlow(x, y)'
  BY <1>1, <1>2 DEF Flow, RequestsFlow
<1>10. AnswersFlow(u, v)'
  <2>1. /\ answered < u
        /\ \A i \in 1..Len(p2c) : answered + 1 <= p2c[i][1] /\ Following(p2c[i]) <= u
        /\ \A i, j \in 1..Len(p2c) : i < j => Following(p2c[i]) <= p2c[j][1]
    BY <1>1 DEF Flow, AnswersFlow, Chain
  <2>2. \A i \in 1..Len(p2c) : p2c[i][1] \in Nat /\ Following(p2c[i]) \in Nat
    BY <1>3, AnswerNumbers
  <2>3. 1 \in 1..Len(p2c) /\ answered' + 1 <= Following(p2c[1])
    <3>1. 1 \in 1..Len(p2c)
      BY <1>4
    <3>2. answered + 1 <= p2c[1][1] /\ p2c[1][1] \in Nat
      BY <2>1, <2>2, <3>1
    <3>3. QED
      BY <1>2, <1>3, <1>4, <3>1, <3>2 DEF Following
  <2>4. answered' < u
    BY <1>5, <2>1, <2>2, <2>3
  <2>5. ASSUME NEW i \in 1..Len(p2c')
        PROVE  answered' + 1 <= p2c'[i][1] /\ Following(p2c'[i]) <= u
    <3>1. i + 1 \in 1..Len(p2c) /\ 1 < i + 1 /\ p2c'[i] = p2c[i + 1]
      BY <1>4
    <3>2. Following(p2c[1]) <= p2c[i + 1][1]
      BY <2>1, <2>3, <3>1
    <3>3. QED
      BY <1>5, <2>1, <2>2, <2>3, <3>1, <3>2
  <2>6. ASSUME NEW i \in 1..Len(p2c'), NEW j \in 1..Len(p2c'), i < j
        PROVE  Following(p2c'[i]) <= p2c'[j][1]
    <3>1. /\ i + 1 \in 1..Len(p2c) /\ j + 1 \in 1..Len(p2c) /\ i + 1 < j + 1
          /\ p2c'[i] = p2c[i + 1] /\ p2c'[j] = p2c[j + 1]
      BY <1>4, <2>6
    <3>2. QED
      BY <2>1, <3>1
  <2>7. Chain(p2c', answered' + 1, u)
    BY <2>5, <2>6 DEF Chain
  <2>8. QED
    BY <1>1, <1>2, <2>4, <2>7 DEF Flow, AnswersFlow, Chain
<1>11. Counted(y)' /\ LogOrder(y)' /\ LogMatches(v, y)'
  BY <1>1, <1>2 DEF Flow, Counted, GoesOn, LogOrder, LogMatches, InLog, Pending
<1>12. QED
  BY <1>6, <1>7, <1>8, <1>9, <1>10, <1>11 DEF RelayInv, Flow

\* The database answers the first query it has.
LEMMA ServerAnswersKeepsRelay ==
  ASSUME RelayInv, ServerAnswers
  PROVE  RelayInv'
<1> USE DEF loopVars, copyVars, logVars, connVars
<1>1. PICK u \in Nat, v \in Nat, x \in Nat, y \in Nat : Flow(u, v, x, y)
  BY DEF RelayInv
<1> DEFINE q == Head(p2s)[1]
           One == << <<q, "done">> >>
           Two == << <<q, "rows">>, <<q, "done">> >>
<1>2. /\ UNCHANGED <<conf, pc, sent, answered, client_eof, server_eof, c2p, p2c, loop, chunk,
                     query_count, pending_disconnect, signal, to_server, to_client, logger,
                     pending_queries, log_channel, logged, skipped, written, pipe_active>>
      /\ ~server_eof /\ p2s # << >> /\ Head(p2s) # Quit
      /\ s2p' \in {s2p \o One, s2p \o Two}
      /\ p2s' = Tail(p2s) /\ served' = served + 1
  BY DEF ServerAnswers
<1>3. /\ p2s \in Seq(Requests) /\ s2p \in Seq(Answers)
      /\ answered \in Nat /\ served \in Nat /\ sent \in 0..MaxSent /\ MaxSent \in Nat
  BY SessionAssumption DEF RelayInv, RelayTypes
<1>4. /\ Len(p2s) \in Nat /\ Len(p2s) >= 1 /\ Head(p2s) = p2s[1]
      /\ p2s' \in Seq(Requests) /\ Len(p2s') = Len(p2s) - 1
      /\ \A i \in 1..Len(p2s') : p2s'[i] = p2s[i + 1]
  <2>1. Len(p2s) \in Nat /\ Len(p2s) # 0
    BY <1>2, <1>3, LenProperties, EmptySeq
  <2>2. QED
    BY <1>2, <1>3, <2>1, HeadTailProperties
<1>5. /\ served <= x /\ x <= y /\ y <= sent /\ Len(p2s) \in {x - served, x - served + 1}
      /\ \A i \in 1..(x - served) : p2s[i] = <<served + i, "query">>
      /\ Len(p2s) = x - served + 1 => p2s[Len(p2s)] = Quit
  BY <1>1, <1>2 DEF Flow, RequestsFlow, Stretch
<1>6. served < x
  BY <1>2, <1>3, <1>4, <1>5
<1>7. p2s[1] = <<served + 1, "query">>
  <2>1. 1 \in 1..(x - served)
    BY <1>3, <1>6
  <2>2. QED
    BY <1>5, <2>1
<1>8. q = served + 1 /\ q \in Nat /\ q \in Numbers
  <2>1. q = served + 1
    BY <1>4, <1>7
  <2>2. served + 1 <= x /\ x <= y /\ y <= sent /\ sent <= MaxSent
    BY <1>3, <1>5, <1>6
  <2>3. served + 1 \in 1..MaxSent
    BY <1>3, <2>2
  <2>4. QED
    BY <1>3, <2>1, <2>3 DEF Numbers
<1> HIDE DEF q
<1>9. /\ One \in Seq(Answers) /\ Len(One) = 1 /\ One[1] = <<q, "done">>
      /\ Two \in Seq(Answers) /\ Len(Two) = 2 /\ Two[1] = <<q, "rows">> /\ Two[2] = <<q, "done">>
  <2>1. <<q, "done">> \in Answers /\ <<q, "rows">> \in Answers
    BY <1>8 DEF Answers
  <2>2. One \in Seq(Answers) /\ Len(One) = 1 /\ One[1] = <<q, "done">>
    BY <2>1, SMTT(30)
  <2>3. Two \in Seq(Answers) /\ Len(Two) = 2 /\ Two[1] = <<q, "rows">> /\ Two[2] = <<q, "done">>
    BY <2>1, SMTT(30)
  <2>4. QED
    BY <2>2, <2>3
<1> HIDE DEF One, Two
<1>10. Chain(One, q, q + 1) /\ Chain(Two, q, q + 1)
  <2>1. /\ Following(<<q, "done">>) = q + 1 /\ Following(<<q, "rows">>) = q
        /\ <<q, "done">>[1] = q /\ <<q, "rows">>[1] = q
    BY DEF Following
  <2>2. Chain(One, q, q + 1)
    <3>1. ASSUME NEW i \in 1..Len(One) PROVE q <= One[i][1] /\ Following(One[i]) <= q + 1
      <4>1. i = 1
        BY <1>9
      <4>2. One[1][1] = q /\ Following(One[1]) = q + 1
        BY <1>9, <2>1
      <4>3. QED
        BY <1>8, <4>1, <4>2
    <3>2. ~\E i, j \in 1..Len(One) : i < j
      BY <1>9
    <3>3. QED
      BY <3>1, <3>2 DEF Chain
  <2>3. Two[1][1] = q /\ Two[2][1] = q /\ Following(Two[1]) = q /\ Following(Two[2]) = q + 1
    BY <1>9, <2>1
  <2>4. ASSUME NEW i \in 1..2 PROVE q <= Two[i][1] /\ Following(Two[i]) <= q + 1
    <3>1. i = 1 \/ i = 2
      OBVIOUS
    <3>2. QED
      BY <1>8, <2>3, <3>1
  <2>5. ASSUME NEW i \in 1..2, NEW j \in 1..2, i < j PROVE Following(Two[i]) <= Two[j][1]
    <3>1. i = 1 /\ j = 2
      BY <2>5
    <3>2. QED
      BY <1>8, <2>3, <3>1
  <2>6. QED
    BY <1>9, <2>2, <2>4, <2>5 DEF Chain
<1>11. PICK t \in Seq(Answers) : /\ s2p' = s2p \o t /\ Chain(t, q, q + 1)
                                 /\ \A i \in 1..Len(t) : t[i][1] = q
  <2>1. \A i \in 1..1 : One[i][1] = q
    BY <1>9
  <2>2. \A i \in 1..2 : Two[i][1] = q
    BY <1>9
  <2>3. QED
    BY <1>2, <1>9, <1>10, <2>1, <2>2
<1>12. RelayTypes'
  <2>1. s2p' \in Seq(Answers) /\ served' \in Nat
    BY <1>2, <1>3, <1>11, ConcatProperties
  <2>2. QED
    BY <1>2, <1>4, <2>1 DEF RelayInv, RelayTypes
<1>13. Modes' /\ OneOutstanding' /\ Channel'
  BY <1>2 DEF RelayInv, Modes, OneOutstanding, Channel, Entries
<1>14. RequestsFlow(x, y)'
  <2>1. served' <= x /\ Len(p2s') \in {x - served', x - served' + 1}
    BY <1>2, <1>3, <1>4, <1>5, <1>6
  <2>2. ASSUME NEW i \in 1..(x - served') PROVE p2s'[i] = <<served' + i, "query">>
    <3>1. i + 1 \in 1..(x - served) /\ served + (i + 1) = served' + i /\ i \in 1..Len(p2s')
      BY <1>2, <1>3, <2>1
    <3>2. QED
      BY <1>4, <1>5, <3>1
  <2>3. Len(p2s') = x - served' + 1 => p2s'[Len(p2s')] = Quit
    <3>1. Len(p2s') = x - served' + 1
            => /\ Len(p2s) = x - served + 1 /\ Len(p2s') \in 1..Len(p2s')
               /\ Len(p2s') + 1 = Len(p2s)
      BY <1>2, <1>3, <1>4, <2>1
    <3>2. QED
      BY <1>4, <1>5, <3>1
  <2>4. Stretch(p2s', served', x)
    BY <2>1, <2>2, <2>3 DEF Stretch
  <2>5. QED
    BY <1>1, <1>2, <2>1, <2>4 DEF Flow, RequestsFlow, Stretch
<1>15. AnswersFlow(u, v)'
  <2>1. /\ v <= served + 1 /\ Chain(s2p, v, served + 1)
        /\ \A i \in 1..Len(s2p) : s2p[i][1] <= served
    BY <1>1 DEF Flow, AnswersFlow
  <2>2. Chain(s2p', v, served' + 1)
    <3>1. Chain(s2p, v, q) /\ q <= q + 1 /\ v <= q /\ q + 1 = served' + 1 /\ q + 1 \in Nat
      BY <1>2, <1>3, <1>8, <2>1
    <3>2. Chain(s2p \o t, v, q + 1)
      BY <1>3, <1>8, <1>11, <3>1, ChainJoins
    <3>3. QED
      BY <1>11, <3>1, <3>2
  <2>3. ASSUME NEW i \in 1..Len(s2p') PROVE s2p'[i][1] <= served'
    <3>1. /\ Len(s2p') = Len(s2p) + Len(t)
          /\ s2p'[i] = IF i <= Len(s2p) THEN s2p[i] ELSE t[i - Len(s2p)]
          /\ Len(s2p) \in Nat /\ Len(t) \in Nat
      BY <1>3, <1>11, ConcatProperties, LenProperties
    <3>2. CASE i <= Len(s2p)
      <4>1. i \in 1..Len(s2p) /\ s2p'[i] = s2p[i]
        BY <3>1, <3>2
      <4>2. s2p[i][1] \in Nat
        BY <1>3, <4>1, AnswerNumbers
      <4>3. QED
        BY <1>2, <1>3, <2>1, <4>1, <4>2
    <3>3. CASE i > Len(s2p)
      <4>1. i - Len(s2p) \in 1..Len(t) /\ s2p'[i] = t[i - Len(s2p)]
        BY <3>1, <3>3
      <4>2. t[i - Len(s2p)][1] = q
        BY <1>11, <4>1
      <4>3. QED
        BY <1>2, <1>3, <1>8, <4>1, <4>2
    <3>4. QED
      BY <3>1, <3>2, <3>3
  <2>4. v <= served' + 1
    BY <1>2, <1>3, <2>1
  <2>5. QED
    BY <1>1, <1>2, <2>2, <2>3, <2>4 DEF Flow, AnswersFlow, Chain
<1>16. Counted(y)' /\ LogOrder(y)' /\ LogMatches(v, y)'
  BY <1>1, <1>2 DEF Flow, Counted, GoesOn, LogOrder, LogMatches, InLog, Pending
<1>17. QED
  BY <1>12, <1>13, <1>14, <1>15, <1>16 DEF RelayInv, Flow

\* What the database has not read is lost when it closes.
LEMMA ServerClosesKeepsRelay ==
  ASSUME RelayInv, ServerCloses
  PROVE  RelayInv'
<1> USE DEF loopVars, copyVars, logVars, connVars
<1>1. PICK u \in Nat, v \in Nat, x \in Nat, y \in Nat : Flow(u, v, x, y)
  BY DEF RelayInv
<1>2. /\ UNCHANGED <<conf, pc, sent, answered, served, client_eof, c2p, s2p, p2c, loop, chunk,
                     query_count, pending_disconnect, signal, to_server, to_client, logger,
                     pending_queries, log_channel, logged, skipped, written, pipe_active>>
      /\ server_eof' = TRUE /\ p2s' = << >>
  BY DEF ServerCloses
<1>3. RelayTypes'
  <2>1. server_eof' \in BOOLEAN /\ p2s' \in Seq(Requests)
    BY <1>2
  <2>2. QED
    BY <1>2, <2>1 DEF RelayInv, RelayTypes
<1>4. Modes' /\ OneOutstanding' /\ Channel'
  BY <1>2 DEF RelayInv, Modes, OneOutstanding, Channel, Entries
<1>5. RequestsFlow(x, y)' /\ AnswersFlow(u, v)'
  BY <1>1, <1>2 DEF Flow, RequestsFlow, AnswersFlow
<1>6. Counted(y)' /\ LogOrder(y)' /\ LogMatches(v, y)'
  BY <1>1, <1>2 DEF Flow, Counted, GoesOn, LogOrder, LogMatches, InLog, Pending
<1>7. QED
  BY <1>3, <1>4, <1>5, <1>6 DEF RelayInv, Flow

\* The managed relay reads from the client.
LEMMA SelectClientKeepsRelay ==
  ASSUME RelayInv, LoginInv, SelectClient
  PROVE  RelayInv'
<1> USE DEF peerVars, copyVars, connVars
<1>1. PICK u \in Nat, v \in Nat, x \in Nat, y \in Nat : Flow(u, v, x, y)
  BY DEF RelayInv
<1> DEFINE Handles(data, cmd) ==
        /\ c2p' = Unread(c2p, data) /\ chunk' = data
        /\ query_count' = IF cmd = "query" THEN query_count + 1 ELSE query_count
        /\ pending_disconnect' =
             CASE cmd = "quit" -> "closing"
               [] cmd = "query" /\ limits = "session" /\ LimitReached(query_count') -> "err"
               [] OTHER -> "select"
        /\ pending_queries' =
             IF logger = "run" /\ cmd # "quit" /\ Head(data) # Quit
             THEN Append(pending_queries, Head(data)[1]) ELSE pending_queries
<1>a. PICK data \in Reads(c2p) : \E cmd \in Commands(Head(data)) : Handles(data, cmd)
  BY DEF SelectClient
<1>2. PICK cmd \in Commands(Head(data)) : Handles(data, cmd)
  BY <1>a
<1>3. /\ UNCHANGED <<conf, pc, limits, sent, answered, served, client_eof, server_eof, p2s, s2p,
                     p2c, signal, to_server, to_client, logger, log_channel, logged, skipped,
                     written, pipe_active>>
      /\ loop = "select" /\ loop' = "to_server"
  BY DEF SelectClient
<1>4. /\ c2p \in Seq(Requests) /\ sent \in 0..MaxSent /\ MaxSent \in Nat /\ sent \in Nat
      /\ answered \in Nat /\ served \in Nat /\ query_count \in Nat
      /\ pending_queries \in Seq(Numbers) /\ logged \in Seq(Numbers \X Numbers)
  BY SessionAssumption DEF RelayInv, RelayTypes
<1>5. /\ served <= x /\ x <= y /\ y <= sent /\ Stretch(c2p, y, sent)
      /\ ~server_eof => x = y
      /\ ~client_eof => Len(c2p) = sent - y
      /\ answered < u /\ u <= v /\ v <= served + 1
  BY <1>1, <1>3 DEF Flow, RequestsFlow, AnswersFlow
<1>6. /\ data \in Seq(Requests) /\ c2p' \in Seq(Requests) /\ data # << >>
      /\ Len(c2p) \in Nat /\ Len(c2p) >= 1
  BY <1>2, <1>4, ReadSplits, LenProperties
<1>7. PICK c \in Nat :
        /\ y <= c /\ c <= sent
        /\ Stretch(data, y, c) /\ Stretch(c2p', c, sent)
        /\ Len(c2p) = sent - y => Len(c2p') = sent - c
        /\ Head(data) # Quit => y < c /\ Head(data) = <<y + 1, "query">>
        /\ Head(data) = Quit => y = sent /\ Len(c2p) = sent - y + 1 /\ c2p' = << >>
  <2>1. c2p' = Unread(c2p, data)
    BY <1>2
  <2>2. \E c \in Nat :
          /\ y <= c /\ c <= sent
          /\ Stretch(data, y, c) /\ Stretch(Unread(c2p, data), c, sent)
          /\ Len(c2p) = sent - y => Len(Unread(c2p, data)) = sent - c
          /\ Head(data) # Quit => y < c /\ Head(data) = <<y + 1, "query">>
          /\ Head(data) = Quit => /\ y = sent /\ Len(c2p) = sent - y + 1
                                  /\ Unread(c2p, data) = << >>
    BY <1>4, <1>5, StretchSplits, ZenonT(30)
  <2>3. PICK c \in Nat :
          /\ y <= c /\ c <= sent
          /\ Stretch(data, y, c) /\ Stretch(Unread(c2p, data), c, sent)
          /\ Len(c2p) = sent - y => Len(Unread(c2p, data)) = sent - c
          /\ Head(data) # Quit => y < c /\ Head(data) = <<y + 1, "query">>
          /\ Head(data) = Quit => /\ y = sent /\ Len(c2p) = sent - y + 1
                                  /\ Unread(c2p, data) = << >>
    BY <2>2
  <2>4. /\ Stretch(c2p', c, sent)
        /\ Len(c2p) = sent - y => Len(c2p') = sent - c
        /\ Head(data) = Quit => c2p' = << >>
    BY <2>1, <2>3
  <2>5. QED
    BY <2>3, <2>4
<1>8. ~conf.pipelined => c <= y + 1
  BY <1>3, <1>4, <1>5, <1>7 DEF RelayInv, OneOutstanding
<1>9. query_count <= y
  <2>1. c2p # << >>
    BY <1>6
  <2>2. QED
    BY <1>1, <2>1 DEF Flow, Counted
<1>10. /\ pending_queries' \in Seq(Numbers)
       /\ Head(data) # Quit => y + 1 \in Numbers /\ Head(data)[1] = y + 1
  <2>1. Head(data) # Quit => y + 1 \in Numbers /\ Head(data)[1] = y + 1
    BY <1>4, <1>5, <1>7 DEF Numbers
  <2>2. QED
    BY <1>2, <1>4, <2>1, AppendProperties
<1>11. query_count' \in Nat /\ pending_disconnect' \in {"select", "err", "closing"}
  BY <1>2, <1>4
<1>12. RelayTypes'
  BY <1>2, <1>3, <1>6, <1>10, <1>11 DEF RelayInv, RelayTypes
<1>13. Modes' /\ OneOutstanding' /\ Channel'
  <2>1. pc = "relay" /\ logger # "ended" /\ to_server = "none" /\ to_client = "none"
    BY <1>3 DEF RelayInv, Modes
  <2>2. logger = "none" => pending_queries' = pending_queries
    BY <1>2
  <2>3. Modes'
    BY <1>3, <2>1, <2>2 DEF RelayInv, Modes
  <2>4. OneOutstanding' /\ Channel'
    BY <1>3 DEF RelayInv, OneOutstanding, Channel, Entries
  <2>5. QED
    BY <2>3, <2>4
<1>14. RequestsFlow(x, c)'
  <2>1. x <= c
    BY <1>5, <1>7
  <2>2. ~server_eof => Stretch(chunk', x, c)
    BY <1>2, <1>5, <1>7
  <2>3. QED
    BY <1>1, <1>3, <1>7, <1>5, <2>1, <2>2 DEF Flow, RequestsFlow, Stretch
<1>15. AnswersFlow(u, v)'
  BY <1>1, <1>3 DEF Flow, AnswersFlow
<1>16. Counted(c)'
  <2>1. query_count' <= c \/ (query_count' = c + 1 /\ c2p' = << >> /\ client_eof)
    <3>1. CASE Head(data) = Quit
      <4>1. c = y /\ c2p' = << >> /\ client_eof
        BY <1>4, <1>5, <1>6, <1>7, <3>1
      <4>2. QED
        BY <1>2, <1>4, <1>9, <4>1
    <3>2. CASE Head(data) # Quit
      <4>1. y < c
        BY <1>7, <3>2
      <4>2. query_count' \in {query_count, query_count + 1}
        BY <1>2
      <4>3. QED
        BY <1>4, <1>9, <4>1, <4>2
    <3>3. QED
      BY <3>1, <3>2
  <2>2. ASSUME conf.proto = "mysql"
        PROVE  /\ ~conf.pipelined => query_count' = c
               /\ conf.limit # 0 => /\ query_count' <= conf.limit
                                    /\ pending_disconnect' = "select" => query_count' < conf.limit
    <3>1. cmd = IF Head(data) = Quit THEN "quit" ELSE "query"
      BY <1>2, <2>2 DEF Commands
    <3>2. /\ ~conf.pipelined => query_count = y
          /\ conf.limit # 0 => query_count < conf.limit
      BY <1>1, <1>3, <2>2 DEF Flow, Counted, GoesOn
    <3>3. conf.limit \in Nat
      BY SessionAssumption DEF LoginInv, ConnectionTypes, AllConfs
    <3>4. ~conf.pipelined => query_count' = c
      BY SMTT(30), <1>2, <1>4, <1>7, <1>8, <3>1, <3>2
    <3>5. limits = "session"
      <4>1. pc = "relay"
        BY <1>3 DEF RelayInv, Modes
      <4>2. step >= ConfigStep
        BY <4>1, Order DEF LoginInv, ConnectionTypes, Stored
      <4>3. QED
        BY <2>2, <4>1, <4>2 DEF LoginInv, Configured
    <3>6. CASE cmd = "quit"
      BY <1>2, <1>4, <3>2, <3>3, <3>4, <3>6
    <3>7. CASE cmd = "query"
      <4>1. query_count' = query_count + 1
        BY <1>2, <3>7
      <4>2. conf.limit # 0 /\ ~(query_count' < conf.limit) => pending_disconnect' = "err"
        BY SMTT(30), <1>2, <1>4, <3>3, <3>5, <3>7, <4>1 DEF LimitReached
      <4>3. QED
        BY <1>4, <3>2, <3>3, <3>4, <4>1, <4>2
    <3>8. QED
      BY <3>1, <3>6, <3>7
  <2>3. QED
    BY <1>3, <2>1, <2>2 DEF Counted, GoesOn
<1>17. CASE pending_queries' = pending_queries
  <2>1. LogOrder(c)'
    <3>1. /\ \A i \in 1..Len(logged) : logged[i][1] \in Nat /\ logged[i][1] <= c
          /\ \A j \in 1..Len(pending_queries) : pending_queries[j] \in Nat /\ pending_queries[j] <= c
      <4>1. /\ \A i \in 1..Len(logged) : logged[i] \in Numbers \X Numbers
            /\ \A j \in 1..Len(pending_queries) : pending_queries[j] \in Numbers
        BY <1>4, ElementOfSeq
      <4>2. /\ \A i \in 1..Len(logged) : logged[i][1] \in Nat
            /\ \A j \in 1..Len(pending_queries) : pending_queries[j] \in Nat
        BY <4>1 DEF Numbers
      <4>3. QED
        BY SMTT(30), <1>1, <1>7, <4>2 DEF Flow, LogOrder
    <3>2. QED
      BY <1>1, <1>3, <1>17, <3>1 DEF Flow, LogOrder
  <2>2. ASSUME logger # "none", GoesOn', ~conf.pipelined, conf.proto # "sqlserver"
        PROVE  \A q \in 1..c : InLog(q) \/ Pending(q)
    <3>1. logger = "run"
      BY <1>3, <2>2 DEF RelayInv, RelayTypes, Modes
    <3>2. pending_disconnect' = "select"
      BY <1>3, <2>2 DEF GoesOn
    <3>3. cmd # "quit"
      BY <1>2, <3>2
    <3>4. Head(data) = Quit
      <4>1. SUFFICES ASSUME Head(data) # Quit PROVE FALSE
        OBVIOUS
      <4>2. pending_queries' = Append(pending_queries, y + 1) /\ y + 1 \in Numbers
        BY <1>2, <1>10, <3>1, <3>3, <4>1
      <4>3. Len(pending_queries') = Len(pending_queries) + 1 /\ Len(pending_queries) \in Nat
        BY <1>4, <4>2, AppendProperties, LenProperties
      <4>4. QED
        BY <1>17, <4>3
    <3>5. c = y
      BY <1>4, <1>7, <3>4
    <3>6. QED
      BY <1>1, <1>3, <2>2, <3>5 DEF Flow, LogMatches, GoesOn
  <2>3. LogMatches(v, c)'
    BY <1>1, <1>3, <1>17, <2>2 DEF Flow, LogMatches, InLog, Pending
  <2>4. QED
    BY <1>12, <1>13, <1>14, <1>15, <1>16, <2>1, <2>3 DEF RelayInv, Flow
<1>18. CASE pending_queries' # pending_queries
  <2>1. /\ Head(data) # Quit /\ pending_queries' = Append(pending_queries, y + 1)
        /\ y + 1 \in Numbers /\ y < c
    BY <1>2, <1>7, <1>10, <1>18
  <2>2. /\ Len(pending_queries) \in Nat /\ Len(pending_queries') = Len(pending_queries) + 1
        /\ \A j \in 1..Len(pending_queries) : pending_queries'[j] = pending_queries[j]
        /\ pending_queries'[Len(pending_queries) + 1] = y + 1
    BY <1>4, <2>1, AppendProperties, LenProperties
  <2>3. /\ \A i \in 1..Len(logged) : logged[i][1] \in Nat /\ logged[i][1] <= y
        /\ \A j \in 1..Len(pending_queries) : pending_queries[j] \in Nat /\ pending_queries[j] <= y
    <3>1. /\ \A i \in 1..Len(logged) : logged[i] \in Numbers \X Numbers
          /\ \A j \in 1..Len(pending_queries) : pending_queries[j] \in Numbers
      BY <1>4, ElementOfSeq
    <3>2. /\ \A i \in 1..Len(logged) : logged[i][1] \in Nat
          /\ \A j \in 1..Len(pending_queries) : pending_queries[j] \in Nat
      BY <3>1 DEF Numbers
    <3>3. QED
      BY <1>1, <3>2 DEF Flow, LogOrder
  <2>4. ASSUME NEW j \in 1..Len(pending_queries')
        PROVE  \/ j \in 1..Len(pending_queries) /\ pending_queries'[j] = pending_queries[j]
               \/ j = Len(pending_queries) + 1 /\ pending_queries'[j] = y + 1
    BY <2>2
  <2>5. LogOrder(c)'
    <3>1. ASSUME NEW i \in 1..Len(pending_queries'), NEW j \in 1..Len(pending_queries'), i < j
          PROVE  pending_queries'[i] < pending_queries'[j]
      <4>1. i \in 1..Len(pending_queries) /\ pending_queries'[i] = pending_queries[i]
        BY <2>2, <3>1
      <4>2. CASE j \in 1..Len(pending_queries) /\ pending_queries'[j] = pending_queries[j]
        BY <1>1, <3>1, <4>1, <4>2 DEF Flow, LogOrder
      <4>3. CASE pending_queries'[j] = y + 1
        BY <2>3, <4>1, <4>3
      <4>4. QED
        BY <2>4, <4>2, <4>3
    <3>2. ASSUME NEW i \in 1..Len(logged), NEW j \in 1..Len(pending_queries')
          PROVE  logged[i][1] < pending_queries'[j]
      <4>1. CASE j \in 1..Len(pending_queries) /\ pending_queries'[j] = pending_queries[j]
        BY <1>1, <4>1 DEF Flow, LogOrder
      <4>2. CASE pending_queries'[j] = y + 1
        BY <2>3, <4>2
      <4>3. QED
        BY <2>4, <4>1, <4>2
    <3>3. ASSUME NEW j \in 1..Len(pending_queries') PROVE pending_queries'[j] <= c
      BY <2>1, <2>3, <2>4
    <3>4. \A i \in 1..Len(logged) : logged[i][1] <= c
      BY <2>1, <2>3
    <3>5. QED
      BY <1>1, <1>3, <3>1, <3>2, <3>3, <3>4 DEF Flow, LogOrder
  <2>6. LogMatches(v, c)'
    <3>1. SUFFICES ASSUME ~conf.pipelined, conf.proto # "sqlserver" PROVE LogMatches(v, c)'
      BY <1>3 DEF LogMatches
    <3>2. /\ \A j \in 1..Len(pending_queries) : v <= pending_queries[j]
          /\ \A i \in 1..Len(logged) : logged[i][1] = logged[i][2]
          /\ logger # "none" => /\ \A q \in 1..(v - 1) : InLog(q)
                                /\ \A q \in 1..y : InLog(q) \/ Pending(q)
      BY <1>1, <1>3, <3>1 DEF Flow, LogMatches, GoesOn
    <3>3. v <= y + 1
      BY <1>4, <1>5
    <3>4. ASSUME NEW j \in 1..Len(pending_queries') PROVE v <= pending_queries'[j]
      BY <2>4, <3>2, <3>3
    <3>5. \A q : InLog(q) => InLog(q)'
      BY <1>3 DEF InLog
    <3>6. Len(pending_queries) + 1 \in 1..Len(pending_queries')
      BY <2>2
    <3>7. \A q : Pending(q) \/ q = y + 1 => Pending(q)'
      BY <2>2, <3>6 DEF Pending
    <3>8. c = y + 1
      BY <1>8, <2>1, <3>1
    <3>9. ASSUME NEW q \in 1..c, logger # "none" PROVE InLog(q)' \/ Pending(q)'
      <4>1. q \in 1..y \/ q = y + 1
        BY <3>8
      <4>2. QED
        BY <3>2, <3>5, <3>7, <3>9, <4>1
    <3>10. QED
      BY <1>3, <3>2, <3>4, <3>5, <3>9 DEF LogMatches
  <2>7. QED
    BY <1>12, <1>13, <1>14, <1>15, <1>16, <2>5, <2>6 DEF RelayInv, Flow
<1>19. QED
  BY <1>17, <1>18

\* Nothing is in a socket that has been read empty.
LEMMA EmptyStretch ==
  ASSUME NEW a \in Nat, NEW b \in Nat, a <= b, Stretch(<< >>, a, b)
  PROVE  a = b
BY DEF Stretch

\* What begins later begins later than anything before.
LEMMA ChainFrom ==
  ASSUME NEW s \in Seq(Answers), NEW k \in Nat, NEW m \in Nat, NEW n \in Nat, k <= m,
         Chain(s, m, n)
  PROVE  Chain(s, k, n)
<1>1. \A i \in 1..Len(s) : s[i][1] \in Nat
  BY AnswerNumbers
<1>2. QED
  BY <1>1 DEF Chain

\* The managed relay writes to the database what it has read.
LEMMA WriteServerKeepsRelay ==
  ASSUME RelayInv, WriteServer
  PROVE  RelayInv'
<1> USE DEF peerVars, copyVars, logVars, connVars
<1>1. PICK u \in Nat, v \in Nat, x \in Nat, y \in Nat : Flow(u, v, x, y)
  BY DEF RelayInv
<1>2. /\ UNCHANGED <<conf, pc, sent, answered, served, client_eof, server_eof, c2p, s2p, p2c,
                     query_count, pending_disconnect, signal, to_server, to_client, logger,
                     pending_queries, log_channel, logged, skipped, written, pipe_active>>
      /\ loop = "to_server" /\ chunk' = << >>
      /\ \/ server_eof /\ loop' = "closing" /\ p2s' = p2s
         \/ ~server_eof /\ p2s = << >> /\ p2s' = chunk /\ loop' = pending_disconnect
  BY DEF WriteServer
<1>3. /\ pending_disconnect \in {"select", "err", "closing"} /\ served \in Nat
      /\ chunk \in Seq(Requests) /\ p2s \in Seq(Requests)
  BY <1>2 DEF RelayInv, RelayTypes
<1>4. loop' \in {"select", "err", "closing"} /\ (GoesOn' => GoesOn)
  BY <1>2, <1>3 DEF GoesOn
<1>5. RelayTypes'
  <2>1. p2s' \in Seq(Requests) /\ chunk' \in Seq(Requests)
    BY <1>2, <1>3
  <2>2. QED
    BY <1>2, <1>4, <2>1 DEF RelayInv, RelayTypes
<1>6. Modes' /\ OneOutstanding' /\ Channel'
  <2>1. pc = "relay" /\ logger # "ended" /\ to_server = "none" /\ to_client = "none"
    BY <1>2 DEF RelayInv, Modes
  <2>2. Modes'
    BY <1>2, <1>4, <2>1 DEF RelayInv, Modes
  <2>3. OneOutstanding' /\ Channel'
    BY <1>2, <1>4 DEF RelayInv, OneOutstanding, Channel, Entries
  <2>4. QED
    BY <2>2, <2>3
<1>7. AnswersFlow(u, v)'
  BY <1>1, <1>2, <1>4 DEF Flow, AnswersFlow
<1>8. Counted(y)' /\ LogOrder(y)' /\ LogMatches(v, y)'
  <2> HIDE DEF GoesOn
  <2>1. Counted(y)'
    BY <1>1, <1>2, <1>4 DEF Flow, Counted
  <2>2. LogOrder(y)' /\ LogMatches(v, y)'
    BY <1>1, <1>2, <1>4 DEF Flow, LogOrder, LogMatches, InLog, Pending
  <2>3. QED
    BY <2>1, <2>2
<1>9. CASE server_eof
  <2>1. RequestsFlow(x, y)'
    BY <1>1, <1>2, <1>9 DEF Flow, RequestsFlow
  <2>2. QED
    BY <1>5, <1>6, <1>7, <1>8, <2>1 DEF RelayInv, Flow
<1>10. CASE ~server_eof
  <2>1. /\ p2s = << >> /\ p2s' = chunk /\ served <= x /\ x <= y
        /\ Stretch(p2s, served, x) /\ Stretch(chunk, x, y)
    BY <1>1, <1>2, <1>10 DEF Flow, RequestsFlow
  <2>2. x = served
    BY <1>3, <2>1, EmptyStretch
  <2>3. Stretch(p2s', served, y) /\ served <= y
    BY <2>1, <2>2
  <2>4. RequestsFlow(y, y)'
    BY <1>1, <1>2, <1>4, <1>10, <2>3 DEF Flow, RequestsFlow, Stretch
  <2>5. QED
    BY <1>5, <1>6, <1>7, <1>8, <2>4 DEF RelayInv, Flow
<1>11. QED
  BY <1>9, <1>10

\* And to the client.
LEMMA WriteClientKeepsRelay ==
  ASSUME RelayInv, WriteClient
  PROVE  RelayInv'
<1> USE DEF peerVars, copyVars, logVars, connVars
<1>1. PICK u \in Nat, v \in Nat, x \in Nat, y \in Nat : Flow(u, v, x, y)
  BY DEF RelayInv
<1>2. /\ UNCHANGED <<conf, pc, sent, answered, served, client_eof, server_eof, c2p, p2s, s2p,
                     query_count, pending_disconnect, signal, to_server, to_client, logger,
                     pending_queries, log_channel, logged, skipped, written, pipe_active>>
      /\ loop = "to_client" /\ chunk' = << >>
      /\ \/ client_eof /\ loop' = "closing" /\ p2c' = p2c
         \/ ~client_eof /\ p2c = << >> /\ p2c' = chunk /\ loop' = "select"
  BY DEF WriteClient
<1>3. chunk \in Seq(Answers) /\ p2c \in Seq(Answers) /\ answered \in Nat
  BY <1>2 DEF RelayInv, RelayTypes
<1>4. loop' \in {"select", "closing"} /\ (GoesOn' => GoesOn)
  BY <1>2 DEF GoesOn
<1>5. RelayTypes'
  <2>1. p2c' \in Seq(Answers) /\ chunk' \in Seq(Requests)
    BY <1>2, <1>3
  <2>2. QED
    BY <1>2, <1>4, <2>1 DEF RelayInv, RelayTypes
<1>6. Modes' /\ OneOutstanding' /\ Channel'
  <2>1. pc = "relay" /\ logger # "ended" /\ to_server = "none" /\ to_client = "none"
    BY <1>2 DEF RelayInv, Modes
  <2>2. Modes'
    BY <1>2, <1>4, <2>1 DEF RelayInv, Modes
  <2>3. OneOutstanding' /\ Channel'
    BY <1>2, <1>4 DEF RelayInv, OneOutstanding, Channel, Entries
  <2>4. QED
    BY <2>2, <2>3
<1>7. RequestsFlow(x, y)'
  BY <1>1, <1>2, <1>4 DEF Flow, RequestsFlow
<1>8. Counted(y)' /\ LogOrder(y)' /\ LogMatches(v, y)'
  <2>1. Counted(y)'
    BY <1>1, <1>2, <1>4 DEF Flow, Counted
  <2>2. LogOrder(y)' /\ LogMatches(v, y)'
    BY <1>1, <1>2, <1>4 DEF Flow, LogOrder, LogMatches, InLog, Pending
  <2>3. QED
    BY <2>1, <2>2
<1>9. CASE client_eof
  <2>1. AnswersFlow(u, v)'
    BY <1>1, <1>2, <1>9 DEF Flow, AnswersFlow
  <2>2. QED
    BY <1>5, <1>6, <1>7, <1>8, <2>1 DEF RelayInv, Flow
<1>10. CASE ~client_eof
  <2>1. answered < u /\ u <= v /\ Chain(chunk, u, v) /\ p2c' = chunk
    BY <1>1, <1>2, <1>10 DEF Flow, AnswersFlow
  <2>2. answered < v /\ answered + 1 <= u /\ answered + 1 \in Nat
    BY <1>3, <2>1
  <2>3. Chain(p2c', answered + 1, v)
    BY <1>3, <2>1, <2>2, ChainFrom
  <2>4. AnswersFlow(v, v)'
    BY <1>1, <1>2, <1>4, <2>2, <2>3 DEF Flow, AnswersFlow, Chain
  <2>5. QED
    BY <1>5, <1>6, <1>7, <1>8, <2>4 DEF RelayInv, Flow
<1>11. QED
  BY <1>9, <1>10

\* Later requests do not disturb the order of the log.
LEMMA LogOrderUpTo ==
  ASSUME RelayTypes, NEW y \in Nat, NEW c \in Nat, y <= c, LogOrder(y)
  PROVE  LogOrder(c)
<1>1. /\ \A i \in 1..Len(logged) : logged[i] \in Numbers \X Numbers
      /\ \A j \in 1..Len(pending_queries) : pending_queries[j] \in Numbers
  BY ElementOfSeq DEF RelayTypes
<1>2. /\ \A i \in 1..Len(logged) : logged[i][1] \in Nat
      /\ \A j \in 1..Len(pending_queries) : pending_queries[j] \in Nat
  BY <1>1, SessionAssumption DEF Numbers
<1>3. QED
  BY <1>2 DEF LogOrder

\* The basic relay copies to the database.
LEMMA CopyToServerKeepsRelay ==
  ASSUME RelayInv, CopyToServer
  PROVE  RelayInv'
<1> USE DEF peerVars, loopVars, logVars, connVars
<1>1. PICK u \in Nat, v \in Nat, x \in Nat, y \in Nat : Flow(u, v, x, y)
  BY DEF RelayInv
<1>2. /\ UNCHANGED <<conf, pc, sent, answered, served, client_eof, server_eof, s2p, p2c, loop,
                     chunk, query_count, pending_disconnect, signal, to_client, logger,
                     pending_queries, log_channel, logged, skipped, written, pipe_active>>
      /\ to_server = "run" /\ to_server' \in {"run", "ended"}
      /\ \/ \E data \in Reads(c2p) :
              /\ c2p' = Unread(c2p, data)
              /\ \/ server_eof /\ p2s' = p2s
                 \/ ~server_eof /\ p2s = << >> /\ p2s' = data
         \/ c2p = << >> /\ UNCHANGED <<c2p, p2s>>
  BY DEF CopyToServer
<1>3. loop = "none" /\ logger = "none" /\ pc \notin {"detecting", "handshake", "login"}
  BY <1>2 DEF RelayInv, Modes
<1>4. /\ c2p \in Seq(Requests) /\ p2s \in Seq(Requests) /\ served \in Nat /\ sent \in Nat
      /\ query_count \in Nat
  BY SessionAssumption DEF RelayInv, RelayTypes
<1>5. /\ served <= x /\ x <= y /\ y <= sent /\ Stretch(c2p, y, sent)
      /\ ~server_eof => x = y /\ Stretch(p2s, served, x)
      /\ ~client_eof => Len(c2p) = sent - y
  BY <1>1, <1>3 DEF Flow, RequestsFlow
<1>6. Modes' /\ OneOutstanding' /\ Channel' /\ AnswersFlow(u, v)'
  <2>1. Modes' /\ OneOutstanding'
    BY <1>2, <1>3 DEF RelayInv, Modes, OneOutstanding
  <2>2. Channel'
    BY <1>2 DEF RelayInv, Channel, Entries
  <2>3. AnswersFlow(u, v)'
    BY <1>1, <1>2 DEF Flow, AnswersFlow
  <2>4. QED
    BY <2>1, <2>2, <2>3
<1>7. CASE UNCHANGED <<c2p, p2s>>
  <2>1. RelayTypes'
    BY <1>2, <1>7 DEF RelayInv, RelayTypes
  <2>2. RequestsFlow(x, y)'
    BY <1>1, <1>2, <1>7 DEF Flow, RequestsFlow
  <2>3. Counted(y)' /\ LogOrder(y)' /\ LogMatches(v, y)'
    BY <1>1, <1>2, <1>7 DEF Flow, Counted, GoesOn, LogOrder, LogMatches, InLog, Pending
  <2>4. QED
    BY <1>6, <2>1, <2>2, <2>3 DEF RelayInv, Flow
<1>8. ASSUME NEW data \in Reads(c2p), c2p' = Unread(c2p, data),
             \/ server_eof /\ p2s' = p2s
             \/ ~server_eof /\ p2s = << >> /\ p2s' = data
      PROVE  RelayInv'
  <2>1. data \in Seq(Requests) /\ c2p' \in Seq(Requests) /\ c2p # << >>
    BY <1>4, <1>8, ReadSplits
  <2>2. PICK c \in Nat :
          /\ y <= c /\ c <= sent
          /\ Stretch(data, y, c) /\ Stretch(Unread(c2p, data), c, sent)
          /\ Len(c2p) = sent - y => Len(Unread(c2p, data)) = sent - c
    <3>1. \E c \in Nat :
            /\ y <= c /\ c <= sent
            /\ Stretch(data, y, c) /\ Stretch(Unread(c2p, data), c, sent)
            /\ Len(c2p) = sent - y => Len(Unread(c2p, data)) = sent - c
            /\ Head(data) # Quit => y < c /\ Head(data) = <<y + 1, "query">>
            /\ Head(data) = Quit => /\ y = sent /\ Len(c2p) = sent - y + 1
                                    /\ Unread(c2p, data) = << >>
      BY <1>4, <1>5, StretchSplits, ZenonT(30)
    <3>2. QED
      BY <3>1
  <2>3. RelayTypes'
    <3>1. p2s' \in Seq(Requests)
      BY <1>4, <1>8, <2>1
    <3>2. QED
      BY SMTT(30), <1>2, <2>1, <3>1 DEF RelayInv, RelayTypes
  <2>4. Counted(c)'
    <3>1. query_count <= y
      BY <1>1, <2>1 DEF Flow, Counted
    <3>2. query_count <= c
      BY <1>4, <2>2, <3>1
    <3>3. QED
      BY <1>2, <1>3, <3>2 DEF Counted
  <2>5. LogOrder(c)'
    <3>1. LogOrder(c)
      BY <1>1, <2>2, LogOrderUpTo DEF Flow, RelayInv
    <3>2. QED
      BY <1>2, <3>1 DEF LogOrder
  <2>6. LogMatches(v, c)'
    BY <1>1, <1>2, <1>3 DEF Flow, LogMatches
  <2>7. CASE server_eof
    <3>1. RequestsFlow(x, c)'
      <4>1. x <= c
        BY <1>5, <2>2
      <4>2. QED
        BY <1>1, <1>2, <1>3, <1>8, <2>2, <2>7, <4>1 DEF Flow, RequestsFlow
    <3>2. QED
      BY <1>6, <2>3, <2>4, <2>5, <2>6, <3>1 DEF RelayInv, Flow
  <2>8. CASE ~server_eof
    <3>1. x = served /\ y = served
      BY <1>4, <1>5, <1>8, <2>8, EmptyStretch
    <3>2. Stretch(p2s', served, c) /\ served <= c
      BY <1>8, <2>2, <2>8, <3>1
    <3>3. RequestsFlow(c, c)'
      <4>1. Stretch(c2p', c, sent) /\ (~client_eof => Len(c2p') = sent - c)
        BY <1>5, <1>8, <2>2
      <4>2. QED
        BY <1>2, <1>3, <2>2, <2>8, <3>2, <4>1 DEF RequestsFlow, Stretch
    <3>4. QED
      BY <1>6, <2>3, <2>4, <2>5, <2>6, <3>3 DEF RelayInv, Flow
  <2>9. QED
    BY <2>7, <2>8
<1>9. QED
  BY <1>2, <1>7, <1>8

\* And to the client.
LEMMA CopyToClientKeepsRelay ==
  ASSUME RelayInv, CopyToClient
  PROVE  RelayInv'
<1> USE DEF peerVars, loopVars, logVars, connVars
<1>1. PICK u \in Nat, v \in Nat, x \in Nat, y \in Nat : Flow(u, v, x, y)
  BY DEF RelayInv
<1>2. /\ UNCHANGED <<conf, pc, sent, answered, served, client_eof, server_eof, c2p, p2s, loop,
                     chunk, query_count, pending_disconnect, signal, to_server, logger,
                     pending_queries, log_channel, logged, skipped, written, pipe_active>>
      /\ to_client = "run" /\ to_client' \in {"run", "ended"}
      /\ \/ \E data \in Reads(s2p) :
              /\ s2p' = Unread(s2p, data)
              /\ \/ client_eof /\ p2c' = p2c
                 \/ ~client_eof /\ p2c = << >> /\ p2c' = data
         \/ s2p = << >> /\ UNCHANGED <<s2p, p2c>>
  BY DEF CopyToClient
<1>3. loop = "none" /\ logger = "none" /\ pc \notin {"detecting", "handshake", "login"}
  BY <1>2 DEF RelayInv, Modes
<1>4. s2p \in Seq(Answers) /\ p2c \in Seq(Answers) /\ served \in Nat /\ answered \in Nat
  BY DEF RelayInv, RelayTypes
<1>5. /\ answered < u /\ u <= v /\ v <= served + 1 /\ Chain(p2c, answered + 1, u)
      /\ Chain(s2p, v, served + 1)
      /\ \A i \in 1..Len(s2p) : s2p[i][1] <= served
  BY <1>1 DEF Flow, AnswersFlow
<1>6. Modes' /\ OneOutstanding' /\ Channel' /\ RequestsFlow(x, y)'
  <2>1. Modes' /\ OneOutstanding'
    BY <1>2, <1>3 DEF RelayInv, Modes, OneOutstanding
  <2>2. Channel'
    BY <1>2 DEF RelayInv, Channel, Entries
  <2>3. RequestsFlow(x, y)'
    BY <1>1, <1>2 DEF Flow, RequestsFlow
  <2>4. QED
    BY <2>1, <2>2, <2>3
<1>7. Counted(y)' /\ LogOrder(y)'
  BY <1>1, <1>2 DEF Flow, Counted, GoesOn, LogOrder
<1>8. \A w : LogMatches(w, y)'
  BY <1>2, <1>3 DEF RelayInv, Modes, LogMatches
<1>9. CASE UNCHANGED <<s2p, p2c>>
  <2>1. RelayTypes'
    BY <1>2, <1>9 DEF RelayInv, RelayTypes
  <2>2. AnswersFlow(u, v)'
    BY <1>1, <1>2, <1>9 DEF Flow, AnswersFlow
  <2>3. QED
    BY <1>6, <1>7, <1>8, <2>1, <2>2 DEF RelayInv, Flow
<1>10. ASSUME NEW data \in Reads(s2p), s2p' = Unread(s2p, data),
              \/ client_eof /\ p2c' = p2c
              \/ ~client_eof /\ p2c = << >> /\ p2c' = data
       PROVE  RelayInv'
  <2>1. /\ data \in Seq(Answers) /\ s2p' \in Seq(Answers) /\ Len(s2p') = Len(s2p) - Len(data)
        /\ \A i \in 1..Len(s2p') : s2p'[i] = s2p[Len(data) + i]
        /\ Len(data) \in 1..Len(s2p) /\ Len(s2p) \in Nat
    BY <1>4, <1>10, ReadSplits, LenProperties
  <2>2. PICK w \in Nat : /\ v <= w /\ w <= served + 1
                         /\ Chain(data, v, w) /\ Chain(s2p', w, served + 1)
    <3>1. served + 1 \in Nat
      BY <1>4
    <3>2. QED
      BY <1>4, <1>5, <1>10, <3>1, ChainSplits
  <2>3. RelayTypes'
    <3>1. p2c' \in Seq(Answers) /\ s2p' \in Seq(Answers)
      BY <1>4, <1>10, <2>1
    <3>2. to_client' \in {"none", "run", "ended"}
      BY <1>2
    <3> HIDE <1>10
    <3>3. QED
      BY <1>2, <3>1, <3>2 DEF RelayInv, RelayTypes
  <2>4. ASSUME NEW i \in 1..Len(s2p') PROVE s2p'[i][1] <= served
    <3>1. Len(data) + i \in 1..Len(s2p) /\ s2p'[i] = s2p[Len(data) + i]
      BY <2>1
    <3>2. QED
      BY <1>5, <3>1
  <2>5. CASE client_eof
    <3>1. u <= w
      BY <1>5, <2>2
    <3>2. AnswersFlow(u, w)'
      BY <1>2, <1>3, <1>5, <1>10, <2>2, <2>4, <2>5, <3>1 DEF AnswersFlow
    <3>3. QED
      BY <1>6, <1>7, <1>8, <2>3, <3>2 DEF RelayInv, Flow
  <2>6. CASE ~client_eof
    <3>1. answered < w /\ answered + 1 <= v /\ answered + 1 \in Nat
      BY <1>4, <1>5, <2>2
    <3>2. Chain(p2c', answered + 1, w)
      BY <1>10, <2>1, <2>2, <2>6, <3>1, ChainFrom
    <3>3. AnswersFlow(w, w)'
      BY <1>2, <1>3, <2>2, <2>4, <3>1, <3>2 DEF AnswersFlow
    <3>4. QED
      BY <1>6, <1>7, <1>8, <2>3, <3>3 DEF RelayInv, Flow
  <2>7. QED
    BY <2>5, <2>6
<1>11. QED
  BY <1>2, <1>9, <1>10

\* The outcome is one of the messages that were read.  PostgreSQL finds one if
\* there is the end of an answer among them, MySQL and Oracle always do.
LEMMA OutcomeRead ==
  ASSUME NEW data \in Seq(Answers), data # << >>
  PROVE  /\ \A item \in Outcome(data) : \E i \in 1..Len(data) : item = data[i]
         /\ Outcome(data) = {} /\ conf.proto # "sqlserver"
              => \A i \in 1..Len(data) : data[i][2] # "done"
<1>1. Len(data) \in Nat /\ 1 \in 1..Len(data)
  BY EmptySeq, LenProperties
<1> DEFINE ends == {i \in 1..Len(data) : data[i][2] = "done"}
<1>2. CASE conf.proto = "postgres"
  <2>1. Outcome(data) = {data[i] : i \in {i \in ends : \A j \in ends : i <= j}}
    BY <1>2 DEF Outcome, FirstEnd
  <2>2. \A item \in Outcome(data) : \E i \in 1..Len(data) : item = data[i]
    BY <2>1
  <2>3. ends # {} => \E i \in ends : \A j \in ends : i <= j
    <3> HIDE DEF ends
    <3>1. ends \subseteq Nat
      BY <1>1 DEF ends
    <3>2. ends # {} => \E i \in ends : \A j \in ends : ~(<<j, i>> \in OpToRel(<, Nat))
      BY <3>1, NatLessThanWellFounded, WFMin
    <3>3. \A i, j \in ends : ~(<<j, i>> \in OpToRel(<, Nat)) => i <= j
      BY <3>1 DEF OpToRel
    <3>4. QED
      BY <3>2, <3>3
  <2>4. Outcome(data) = {} => ends = {}
    BY <2>1, <2>3
  <2>5. QED
    BY <2>2, <2>4
<1>3. CASE conf.proto = "sqlserver"
  BY <1>1, <1>3 DEF Outcome, FirstToken
<1>4. CASE conf.proto \notin {"postgres", "sqlserver"}
  BY <1>1, <1>4 DEF Outcome, FirstPacket
<1>5. QED
  BY <1>2, <1>3, <1>4

\* The oldest pending query leaves with its entry, which the channel takes if it
\* has room.
LEMMA EntryKeepsLog ==
  ASSUME RelayTypes, Channel, NEW y \in Nat, LogOrder(y), pending_queries # << >>,
         NEW n \in Numbers, loop = "select", loop' = "to_client", logger # "ended",
         UNCHANGED <<written, pipe_active, logger>>,
         pending_queries' = Tail(pending_queries), Submit(<<Head(pending_queries), n>>)
  PROVE  /\ pending_queries' \in Seq(Numbers) /\ logged' \in Seq(Numbers \X Numbers)
         /\ log_channel' \in Seq((Numbers \X Numbers) \cup {Shutdown})
         /\ Len(log_channel') <= LogCapacity /\ skipped' \subseteq Numbers
         /\ LogOrder(y)' /\ Channel'
<1> DEFINE h == Head(pending_queries)
           e == <<h, n>>
           E == (Numbers \X Numbers) \cup {Shutdown}
<1>1. /\ pending_queries \in Seq(Numbers) /\ logged \in Seq(Numbers \X Numbers)
      /\ log_channel \in Seq(E) /\ Len(log_channel) <= LogCapacity /\ skipped \subseteq Numbers
      /\ written \in Seq(Numbers \X Numbers) /\ LogCapacity \in Nat
  BY SessionAssumption DEF RelayTypes
<1>2. /\ Len(pending_queries) \in Nat /\ Len(pending_queries) >= 1 /\ h = pending_queries[1]
      /\ h \in Numbers
      /\ pending_queries' \in Seq(Numbers) /\ Len(pending_queries') = Len(pending_queries) - 1
      /\ \A j \in 1..Len(pending_queries') : pending_queries'[j] = pending_queries[j + 1]
  <2>1. Len(pending_queries) \in Nat /\ Len(pending_queries) # 0
    BY <1>1, LenProperties, EmptySeq
  <2>2. QED
    BY <1>1, <2>1, HeadTailProperties
<1>3. e \in Numbers \X Numbers /\ e \in E /\ e # Shutdown /\ e[1] = h
  <2>1. e \in Numbers \X Numbers /\ e[1] = h
    BY <1>2
  <2>2. 0 \notin Numbers
    BY SessionAssumption DEF Numbers
  <2>3. QED
    BY <2>1, <2>2 DEF Shutdown
<1>4. Submit(e)
  OBVIOUS
<1> HIDE DEF h, e, E
<1>5. /\ Len(logged) \in Nat /\ Len(log_channel) \in Nat /\ Len(written) \in Nat
  BY <1>1, LenProperties
<1>6. /\ \A i \in 1..Len(logged) : logged[i][1] \in Nat
      /\ \A j \in 1..Len(pending_queries) : pending_queries[j] \in Nat
  <2>1. /\ \A i \in 1..Len(logged) : logged[i] \in Numbers \X Numbers
        /\ \A j \in 1..Len(pending_queries) : pending_queries[j] \in Numbers
    BY <1>1, ElementOfSeq
  <2>2. QED
    BY <2>1, SessionAssumption DEF Numbers
<1>7. /\ 1 \in 1..Len(pending_queries)
      /\ \A j \in 1..Len(pending_queries') :
           /\ j + 1 \in 1..Len(pending_queries) /\ 1 < j + 1
           /\ pending_queries'[j] = pending_queries[j + 1]
  BY <1>2
<1>8. /\ \A i, j \in 1..Len(pending_queries') : i < j => pending_queries'[i] < pending_queries'[j]
      /\ \A j \in 1..Len(pending_queries') : h < pending_queries'[j] /\ pending_queries'[j] <= y
      /\ \A i \in 1..Len(logged), j \in 1..Len(pending_queries') :
           logged[i][1] < pending_queries'[j]
      /\ \A i \in 1..Len(logged) : logged[i][1] < h
      /\ h <= y
  <2>1. ASSUME NEW i \in 1..Len(pending_queries'), NEW j \in 1..Len(pending_queries'), i < j
        PROVE  pending_queries'[i] < pending_queries'[j]
    <3>1. i + 1 < j + 1
      BY <2>1
    <3>2. QED
      BY <1>7, <3>1 DEF LogOrder
  <2>2. \A j \in 1..Len(pending_queries') : h < pending_queries'[j] /\ pending_queries'[j] <= y
    BY <1>2, <1>7 DEF LogOrder
  <2>3. \A i \in 1..Len(logged), j \in 1..Len(pending_queries') :
          logged[i][1] < pending_queries'[j]
    BY <1>7 DEF LogOrder
  <2>4. (\A i \in 1..Len(logged) : logged[i][1] < h) /\ h <= y
    BY <1>2, <1>7 DEF LogOrder
  <2>5. QED
    BY <2>1, <2>2, <2>3, <2>4
<1>9. CASE Len(log_channel) >= LogCapacity
  <2>1. skipped' = skipped \cup {h} /\ log_channel' = log_channel /\ logged' = logged
    BY <1>1, <1>3, <1>4, <1>5, <1>9 DEF Submit
  <2>2. LogOrder(y)'
    BY <1>8, <2>1 DEF LogOrder
  <2>3. Channel'
    BY <2>1 DEF Channel, Entries
  <2>4. QED
    BY <1>1, <1>2, <2>1, <2>2, <2>3 DEF E
<1>10. CASE Len(log_channel) < LogCapacity
  <2>1. skipped' = skipped /\ log_channel' = Append(log_channel, e) /\ logged' = Append(logged, e)
    BY <1>1, <1>4, <1>5, <1>10 DEF Submit
  <2>2. /\ logged' \in Seq(Numbers \X Numbers) /\ Len(logged') = Len(logged) + 1
        /\ \A i \in 1..Len(logged) : logged'[i] = logged[i]
        /\ logged'[Len(logged) + 1] = e
    BY <1>1, <1>3, <2>1, AppendProperties
  <2>3. /\ log_channel' \in Seq(E) /\ Len(log_channel') = Len(log_channel) + 1
        /\ \A i \in 1..Len(log_channel) : log_channel'[i] = log_channel[i]
        /\ log_channel'[Len(log_channel) + 1] = e
    BY <1>1, <1>3, <2>1, AppendProperties
  <2>4. Len(log_channel') <= LogCapacity
    BY <1>1, <1>5, <1>10, <2>3
  <2>5. ASSUME NEW i \in 1..Len(logged')
        PROVE  \/ i \in 1..Len(logged) /\ logged'[i] = logged[i]
               \/ i = Len(logged) + 1 /\ logged'[i][1] = h
    <3>1. i \in 1..Len(logged) \/ i = Len(logged) + 1
      BY <1>5, <2>2
    <3>2. logged'[Len(logged) + 1][1] = h
      BY <1>3, <2>2
    <3>3. QED
      BY <2>2, <3>1, <3>2
  <2>6. LogOrder(y)'
    <3>1. ASSUME NEW i \in 1..Len(logged'), NEW j \in 1..Len(logged'), i < j
          PROVE  logged'[i][1] < logged'[j][1]
      <4>1. i \in 1..Len(logged) /\ logged'[i] = logged[i]
        BY <1>5, <2>2, <3>1
      <4>2. CASE j \in 1..Len(logged) /\ logged'[j] = logged[j]
        BY <3>1, <4>1, <4>2 DEF LogOrder
      <4>3. CASE logged'[j][1] = h
        BY <1>8, <4>1, <4>3
      <4>4. QED
        BY <2>5, <4>2, <4>3
    <3>2. ASSUME NEW i \in 1..Len(logged') PROVE logged'[i][1] <= y
      BY <1>8, <2>5 DEF LogOrder
    <3>3. ASSUME NEW i \in 1..Len(logged'), NEW j \in 1..Len(pending_queries')
          PROVE  logged'[i][1] < pending_queries'[j]
      BY <1>8, <2>5
    <3>4. QED
      BY <1>8, <3>1, <3>2, <3>3 DEF LogOrder
  <2>7. Channel'
    <3>1. ASSUME NEW i \in 1..Len(log_channel') PROVE log_channel'[i] # Shutdown
      <4>1. \/ i \in 1..Len(log_channel) /\ log_channel'[i] = log_channel[i]
            \/ log_channel'[i] = e
        BY <1>5, <2>3
      <4>2. QED
        BY <1>3, <4>1 DEF Channel
    <3>2. CASE ~pipe_active
      BY <3>1, <3>2 DEF Channel
    <3>3. CASE pipe_active
      <4> DEFINE k == Entries
      <4>1. /\ k \in Nat /\ Len(log_channel) = k /\ Len(logged) = Len(written) + k
            /\ \A i \in 1..Len(written) : written[i] = logged[i]
            /\ \A i \in 1..k : log_channel[i] = logged[Len(written) + i]
        <5>1. /\ k >= 0 /\ Len(log_channel) \in {k, k + 1}
              /\ Len(log_channel) = k + 1 => loop = "ended"
              /\ \A i \in 1..Len(written) : written[i] = logged[i]
              /\ \A i \in 1..k : log_channel[i] = logged[Len(written) + i]
          BY <3>3 DEF Channel
        <5>2. k = Len(logged) - Len(written)
          BY DEF Entries
        <5> HIDE DEF k
        <5>3. k \in Nat /\ Len(logged) = Len(written) + k
          BY ONLY <1>5, <5>1, <5>2
        <5>4. QED
          BY <5>1, <5>3
      <4> HIDE DEF k
      <4>2. Entries' = k + 1 /\ Len(log_channel') = k + 1
        BY <1>5, <2>2, <2>3, <4>1 DEF Entries
      <4>3. ASSUME NEW i \in 1..Len(written) PROVE written[i] = logged'[i]
        <5>1. i \in 1..Len(logged)
          BY <1>5, <4>1
        <5>2. QED
          BY <2>2, <4>1, <5>1
      <4>4. ASSUME NEW i \in 1..(k + 1) PROVE log_channel'[i] = logged'[Len(written) + i]
        <5>1. CASE i \in 1..k
          <6>1. i \in 1..Len(log_channel) /\ Len(written) + i \in 1..Len(logged)
            BY <1>5, <4>1, <5>1
          <6>2. QED
            BY <2>2, <2>3, <4>1, <5>1, <6>1
        <5>2. CASE i = k + 1
          <6>1. Len(written) + i = Len(logged) + 1 /\ i = Len(log_channel) + 1
            BY <1>5, <4>1, <5>2
          <6>2. QED
            BY <2>2, <2>3, <6>1
        <5>3. QED
          BY <4>1, <5>1, <5>2
      <4>5. Entries' >= 0 /\ Len(log_channel') # Entries' + 1
        BY <4>1, <4>2
      <4>6. QED
        BY <3>1, <4>2, <4>3, <4>4, <4>5 DEF Channel
    <3>4. QED
      BY <3>2, <3>3
  <2>8. QED
    BY <1>1, <1>2, <2>1, <2>2, <2>3, <2>4, <2>6, <2>7 DEF E
<1>11. QED
  BY <1>1, <1>5, <1>9, <1>10

\* The managed relay reads from the database, and logs.
LEMMA SelectServerKeepsRelay ==
  ASSUME RelayInv, SelectServer
  PROVE  RelayInv'
<1> USE DEF peerVars, copyVars, connVars
<1>1. PICK u \in Nat, v \in Nat, x \in Nat, y \in Nat : Flow(u, v, x, y)
  BY DEF RelayInv
<1>2. PICK data \in Reads(s2p) :
        /\ s2p' = Unread(s2p, data) /\ chunk' = data
        /\ IF pending_queries # << >> THEN LogAnswer(data)
           ELSE UNCHANGED <<pending_queries, log_channel, logged, skipped>>
  BY DEF SelectServer
<1>3. /\ UNCHANGED <<conf, pc, sent, answered, served, client_eof, server_eof, c2p, p2s, p2c,
                     query_count, pending_disconnect, signal, to_server, to_client, logger,
                     written, pipe_active>>
      /\ loop = "select" /\ loop' = "to_client"
  BY DEF SelectServer
<1>4. /\ s2p \in Seq(Answers) /\ sent \in Nat /\ answered \in Nat /\ served \in Nat
      /\ pending_queries \in Seq(Numbers)
  BY SessionAssumption DEF RelayInv, RelayTypes
<1>5. /\ answered < u /\ u <= v /\ v <= served + 1 /\ Chain(s2p, v, served + 1)
      /\ \A i \in 1..Len(s2p) : s2p[i][1] <= served
      /\ served <= x /\ x <= y /\ y <= sent /\ Chain(p2c, answered + 1, u)
  BY <1>1 DEF Flow, RequestsFlow, AnswersFlow
<1>6. /\ data \in Seq(Answers) /\ s2p' \in Seq(Answers) /\ data # << >>
      /\ Len(s2p') = Len(s2p) - Len(data) /\ Len(data) \in 1..Len(s2p) /\ Len(s2p) \in Nat
      /\ \A i \in 1..Len(data) : data[i] = s2p[i]
      /\ \A i \in 1..Len(s2p') : s2p'[i] = s2p[Len(data) + i]
  <2>1. s2p' = Unread(s2p, data)
    BY <1>2
  <2>2. QED
    BY <1>4, <2>1, ReadSplits, LenProperties
<1> DEFINE w == Following(data[Len(data)])
<1>7. /\ w \in Nat /\ v <= w /\ w <= served + 1
      /\ Chain(data, v, w) /\ Chain(s2p', w, served + 1)
  <2>1. served + 1 \in Nat
    BY <1>4
  <2>2. s2p' = Unread(s2p, data)
    BY <1>2
  <2>3. /\ w \in Nat /\ v <= w /\ w <= served + 1
        /\ Chain(data, v, w) /\ Chain(Unread(s2p, data), w, served + 1)
    BY <1>4, <1>5, <2>1, ChainSplits
  <2>4. QED
    BY <2>2, <2>3
<1>8. AnswersFlow(u, w)'
  <2>1. ASSUME NEW i \in 1..Len(s2p') PROVE s2p'[i][1] <= served
    <3>1. Len(data) + i \in 1..Len(s2p) /\ s2p'[i] = s2p[Len(data) + i]
      BY <1>6
    <3>2. QED
      BY <1>5, <3>1
  <2>2. Chain(data, u, w) /\ u <= w
    BY <1>5, <1>6, <1>7, ChainFrom
  <2>3. chunk' = data
    BY <1>2
  <2> HIDE DEF w
  <2>4. QED
    BY <1>3, <1>5, <1>7, <2>1, <2>2, <2>3 DEF AnswersFlow
<1>9. RequestsFlow(x, y)'
  BY <1>1, <1>3 DEF Flow, RequestsFlow
<1>10. Counted(y)' /\ OneOutstanding'
  BY <1>1, <1>3 DEF Flow, Counted, GoesOn, RelayInv, OneOutstanding
<1>11. logger # "ended" /\ pc = "relay" /\ to_server = "none" /\ to_client = "none"
  BY <1>3 DEF RelayInv, Modes
<1>12. CASE UNCHANGED <<pending_queries, log_channel, logged, skipped>>
           /\ (pending_queries = << >> \/ Outcome(data) = {})
  <2>1. RelayTypes'
    <3>1. chunk' \in Seq(Answers)
      BY <1>2, <1>6
    <3>2. QED
      BY <1>3, <1>6, <1>12, <3>1 DEF RelayInv, RelayTypes
  <2>2. Modes' /\ Channel' /\ LogOrder(y)'
    <3>1. Modes'
      BY <1>3, <1>11, <1>12 DEF RelayInv, Modes
    <3>2. Channel'
      BY <1>3, <1>12 DEF RelayInv, Channel, Entries
    <3>3. LogOrder(y)'
      BY <1>1, <1>12 DEF Flow, LogOrder
    <3>4. QED
      BY <3>1, <3>2, <3>3
  <2>3. LogMatches(w, y)'
    <3>1. SUFFICES ASSUME ~conf.pipelined, conf.proto # "sqlserver" PROVE LogMatches(w, y)'
      BY <1>3 DEF LogMatches
    <3>2. /\ \A j \in 1..Len(pending_queries) : v <= pending_queries[j]
          /\ \A i \in 1..Len(logged) : logged[i][1] = logged[i][2]
          /\ logger # "none" => /\ \A q \in 1..(v - 1) : InLog(q)
                                /\ \A q \in 1..y : InLog(q) \/ Pending(q)
      BY <1>1, <1>3, <3>1 DEF Flow, LogMatches, GoesOn
    <3>3. Len(data) \in 1..Len(data) /\ data[Len(data)][1] <= served
      BY <1>5, <1>6
    <3>4. sent <= v
      BY <1>4, <1>5, <3>1 DEF RelayInv, OneOutstanding
    <3>5. /\ data[Len(data)][1] \in Nat /\ v <= data[Len(data)][1]
      BY <1>6, <1>7, <3>3, AnswerNumbers DEF Chain
    <3>6. v = y /\ data[Len(data)][1] = v
      BY <1>4, <1>5, <3>3, <3>4, <3>5
    <3>7. CASE pending_queries = << >>
      <4>1. ~\E q : Pending(q)
        BY <3>7 DEF Pending
      <4>2. w <= v + 1
        BY <3>6 DEF Following
      <4>3. ASSUME NEW q \in 1..(w - 1), logger # "none" PROVE InLog(q)
        <5> HIDE DEF w
        <5>1. q \in 1..y
          BY <1>7, <3>6, <4>2
        <5>2. QED
          BY <3>2, <4>1, <4>3, <5>1
      <4>4. \A q : (InLog(q)' <=> InLog(q)) /\ (Pending(q)' <=> Pending(q))
        BY <1>12 DEF InLog, Pending
      <4> HIDE DEF w
      <4>5. Len(pending_queries') = 0
        BY <1>12, <3>7
      <4>6. QED
        BY <1>3, <1>12, <3>2, <4>3, <4>4, <4>5 DEF LogMatches
    <3>8. CASE Outcome(data) = {}
      <4>1. data[Len(data)][2] # "done"
        BY <1>6, <3>1, <3>3, <3>8, OutcomeRead
      <4>2. w = v
        BY <3>6, <4>1 DEF Following
      <4>3. \A q : (InLog(q)' <=> InLog(q)) /\ (Pending(q)' <=> Pending(q))
        BY <1>12 DEF InLog, Pending
      <4> HIDE DEF w
      <4>4. QED
        BY <1>3, <1>12, <3>2, <4>2, <4>3 DEF LogMatches
    <3>9. QED
      BY <1>12, <3>7, <3>8
  <2> HIDE DEF w
  <2>4. QED
    BY <1>7, <1>8, <1>9, <1>10, <2>1, <2>2, <2>3 DEF RelayInv, Flow
<1>13. ASSUME NEW item \in Outcome(data), pending_queries # << >>,
              pending_queries' = Tail(pending_queries),
              Submit(<<Head(pending_queries), item[1]>>)
       PROVE  RelayInv'
  <2>1. PICK i0 \in 1..Len(data) : item = data[i0]
    BY <1>6, OutcomeRead
  <2>2. item[1] \in Numbers /\ item[1] \in Nat /\ v <= item[1] /\ item[1] <= served
    <3>1. item[1] \in Numbers /\ item[1] \in Nat
      BY <1>6, <2>1, AnswerNumbers
    <3>2. v <= item[1]
      BY <1>7, <2>1 DEF Chain
    <3>3. i0 \in 1..Len(s2p) /\ data[i0] = s2p[i0]
      BY <1>6
    <3>4. QED
      BY <1>5, <2>1, <3>1, <3>2, <3>3
  <2>3. /\ pending_queries' \in Seq(Numbers) /\ logged' \in Seq(Numbers \X Numbers)
        /\ log_channel' \in Seq((Numbers \X Numbers) \cup {Shutdown})
        /\ Len(log_channel') <= LogCapacity /\ skipped' \subseteq Numbers
        /\ LogOrder(y)' /\ Channel'
    <3>1. RelayTypes /\ Channel /\ LogOrder(y)
      BY <1>1 DEF RelayInv, Flow
    <3>2. QED
      BY <1>3, <1>11, <1>13, <2>2, <3>1, EntryKeepsLog
  <2>4. RelayTypes'
    <3>1. chunk' \in Seq(Answers)
      BY <1>2, <1>6
    <3> HIDE <1>13
    <3>2. QED
      BY <1>3, <1>6, <2>3, <3>1 DEF RelayInv, RelayTypes
  <2>5. Modes'
    <3>1. logger # "none"
      BY <1>13 DEF RelayInv, Modes
    <3>2. QED
      BY <1>3, <1>11, <3>1 DEF RelayInv, Modes
  <2>6. LogMatches(w, y)'
    <3>1. SUFFICES ASSUME ~conf.pipelined, conf.proto # "sqlserver" PROVE LogMatches(w, y)'
      BY <1>3 DEF LogMatches
    <3>2. /\ \A j \in 1..Len(pending_queries) : v <= pending_queries[j]
          /\ \A i \in 1..Len(logged) : logged[i][1] = logged[i][2]
          /\ logger # "none" => \A q \in 1..(v - 1) : InLog(q)
      BY <1>1, <1>3, <3>1 DEF Flow, LogMatches
    <3>3. sent <= v
      BY <1>4, <1>5, <3>1 DEF RelayInv, OneOutstanding
    <3>4. v = y /\ item[1] = v /\ w <= v + 1
      BY SMTT(30), <1>4, <1>5, <1>7, <2>2, <3>3
    <3>5. \A j \in 1..Len(pending_queries) : pending_queries[j] = v
      <4>1. \A j \in 1..Len(pending_queries) : pending_queries[j] \in Nat
        <5>1. \A j \in 1..Len(pending_queries) : pending_queries[j] \in Numbers
          BY <1>4, ElementOfSeq
        <5>2. QED
          BY <5>1, SessionAssumption DEF Numbers
      <4>2. \A j \in 1..Len(pending_queries) : pending_queries[j] <= y
        BY <1>1 DEF Flow, LogOrder
      <4>3. QED
        BY <3>2, <3>4, <4>1, <4>2
    <3>6. Len(pending_queries) = 1
      <4>1. PICK n \in Nat : n = Len(pending_queries) /\ n # 0
        BY <1>4, <1>13, LenProperties, EmptySeq
      <4>2. ASSUME n > 1 PROVE FALSE
        <5>1. 1 \in 1..n /\ 2 \in 1..n
          BY <4>2
        <5>2. pending_queries[1] < pending_queries[2]
          BY <1>1, <4>1, <5>1 DEF Flow, LogOrder
        <5>3. QED
          BY <3>5, <4>1, <5>1, <5>2
      <4>3. n = 1
        BY <4>1, <4>2
      <4>4. QED
        BY <4>1, <4>3
    <3>7. Head(pending_queries) = v /\ Len(pending_queries') = 0
      <4>1. Len(Tail(pending_queries)) = Len(pending_queries) - 1
        BY <1>4, <1>13, HeadTailProperties
      <4>2. Head(pending_queries) = pending_queries[1]
        BY <1>4, <3>6
      <4>3. QED
        BY <1>13, <3>5, <3>6, <4>1, <4>2
    <3>8. Submit(<<v, v>>)
      BY <1>13, <3>4, <3>7
    <3>9. /\ \A q : InLog(q) \/ q = v => InLog(q)'
          /\ \A i \in 1..Len(logged') : logged'[i][1] = logged'[i][2]
      <4>1. logged \in Seq(Numbers \X Numbers) /\ <<v, v>> \in Numbers \X Numbers
        BY <2>2, <3>4 DEF RelayInv, RelayTypes
      <4>2. Len(logged) \in Nat
        BY <4>1, LenProperties
      <4>3. CASE skipped' = skipped \cup {v} /\ logged' = logged
        BY <3>2, <4>3 DEF InLog
      <4>4. CASE skipped' = skipped /\ logged' = Append(logged, <<v, v>>)
        <5>1. /\ Len(logged') = Len(logged) + 1
              /\ \A i \in 1..Len(logged) : logged'[i] = logged[i]
              /\ logged'[Len(logged) + 1] = <<v, v>>
          BY <4>1, <4>4, AppendProperties
        <5>2. Len(logged) + 1 \in 1..Len(logged')
          BY <4>2, <5>1
        <5>3. \A q : InLog(q) => InLog(q)'
          BY <4>2, <4>4, <5>1 DEF InLog
        <5>4. InLog(v)'
          BY <5>1, <5>2 DEF InLog
        <5>5. ASSUME NEW i \in 1..Len(logged') PROVE logged'[i][1] = logged'[i][2]
          <6>1. i \in 1..Len(logged) \/ i = Len(logged) + 1
            BY <4>2, <5>1
          <6>2. QED
            BY <3>2, <5>1, <6>1
        <5>6. QED
          BY <5>3, <5>4, <5>5
      <4>5. QED
        BY <3>8, <4>3, <4>4 DEF Submit
    <3> HIDE DEF w
    <3>10. ASSUME logger # "none" PROVE \A q \in 1..v : InLog(q)'
      <4>1. \A q \in 1..v : q \in 1..(v - 1) \/ q = v
        OBVIOUS
      <4>2. QED
        BY <3>2, <3>9, <3>10, <4>1
    <3>11. \A q \in 1..(w - 1) : q \in 1..v
      BY <1>7, <3>4
    <3>12. QED
      BY <1>3, <3>4, <3>7, <3>9, <3>10, <3>11 DEF LogMatches
  <2> HIDE DEF w
  <2>7. QED
    BY <1>7, <1>8, <1>9, <1>10, <2>3, <2>4, <2>5, <2>6 DEF RelayInv, Flow
<1>14. QED
  BY <1>2, <1>12, <1>13 DEF LogAnswer

\* The loop ends: the log is told, the handler is over.
LEMMA CloseKeepsRelay ==
  ASSUME RelayInv, Close
  PROVE  RelayInv'
<1> USE DEF peerVars, sockets, copyVars
<1>1. PICK u \in Nat, v \in Nat, x \in Nat, y \in Nat : Flow(u, v, x, y)
  BY DEF RelayInv
<1>2. /\ UNCHANGED <<conf, sent, answered, served, client_eof, server_eof, c2p, p2s, s2p, p2c,
                     chunk, query_count, pending_disconnect, to_server, to_client, logger,
                     pending_queries, logged, skipped, written, pipe_active>>
      /\ loop = "closing" /\ loop' = "ended" /\ pc' = "over" /\ signal' = "off"
      /\ \/ /\ logger = "run" /\ Len(log_channel) < LogCapacity
            /\ log_channel' = Append(log_channel, Shutdown)
         \/ logger = "none" /\ log_channel' = log_channel
  BY DEF Close, Closed
<1> DEFINE E == (Numbers \X Numbers) \cup {Shutdown}
<1>3. /\ log_channel \in Seq(E) /\ Shutdown \in E /\ Len(log_channel) <= LogCapacity
      /\ LogCapacity \in Nat /\ Len(log_channel) \in Nat
  BY SessionAssumption, LenProperties DEF RelayInv, RelayTypes
<1> HIDE DEF E
<1>4. logger = "run" =>
        /\ log_channel' \in Seq(E) /\ Len(log_channel') = Len(log_channel) + 1
        /\ \A i \in 1..Len(log_channel) : log_channel'[i] = log_channel[i]
        /\ log_channel'[Len(log_channel) + 1] = Shutdown
  BY <1>2, <1>3, AppendProperties
<1>5. RelayTypes'
  <2>1. log_channel' \in Seq(E) /\ Len(log_channel') <= LogCapacity
    BY <1>2, <1>3, <1>4
  <2>2. QED
    BY <1>2, <2>1 DEF RelayInv, RelayTypes, E
<1>6. Modes' /\ OneOutstanding'
  BY <1>2 DEF RelayInv, Modes, OneOutstanding
<1>7. Channel'
  <2>1. CASE ~pipe_active
    BY <1>2, <2>1 DEF Channel
  <2>2. CASE logger = "none"
    BY <1>2, <2>2 DEF RelayInv, Channel, Entries
  <2>3. CASE pipe_active /\ logger = "run"
    <3>1. PICK k : k = Entries
      OBVIOUS
    <3>2. /\ k >= 0 /\ Len(log_channel) = k
          /\ \A i \in 1..Len(written) : written[i] = logged[i]
          /\ \A i \in 1..k : log_channel[i] = logged[Len(written) + i]
      BY <1>2, <2>3, <3>1 DEF RelayInv, Channel
    <3>3. Entries' = k
      BY <1>2, <3>1 DEF Entries
    <3>4. Len(log_channel') = k + 1 /\ log_channel'[k + 1] = Shutdown /\ k \in Nat
      BY <1>3, <1>4, <2>3, <3>2
    <3>5. \A i \in 1..k : log_channel'[i] = logged[Len(written) + i]
      BY <1>4, <2>3, <3>2
    <3>6. QED
      BY <1>2, <2>3, <3>2, <3>3, <3>4, <3>5 DEF Channel
  <2>4. QED
    BY <1>2, <2>1, <2>2, <2>3
<1>8. RequestsFlow(x, y)' /\ AnswersFlow(u, v)'
  BY <1>1, <1>2 DEF Flow, RequestsFlow, AnswersFlow
<1>9. Counted(y)' /\ LogOrder(y)' /\ LogMatches(v, y)'
  BY <1>1, <1>2 DEF Flow, Counted, GoesOn, LogOrder, LogMatches, InLog, Pending
<1>10. QED
  BY <1>5, <1>6, <1>7, <1>8, <1>9 DEF RelayInv, Flow

\* The logging thread takes the next message out of the channel.
LEMMA LoggingKeepsRelay ==
  ASSUME RelayInv, LogWrite \/ LogEnd
  PROVE  RelayInv'
<1> USE DEF peerVars, sockets, loopVars, copyVars, connVars
<1>1. PICK u \in Nat, v \in Nat, x \in Nat, y \in Nat : Flow(u, v, x, y)
  BY DEF RelayInv
<1> DEFINE E == (Numbers \X Numbers) \cup {Shutdown}
           h == Head(log_channel)
<1>2. /\ UNCHANGED <<conf, pc, sent, answered, served, client_eof, server_eof, c2p, p2s, s2p,
                     p2c, loop, chunk, query_count, pending_disconnect, signal, to_server,
                     to_client, pending_queries, logged, skipped>>
      /\ logger = "run" /\ log_channel # << >> /\ log_channel' = Tail(log_channel)
      /\ \/ h # Shutdown /\ logger' = logger
         \/ h = Shutdown /\ logger' = "ended" /\ UNCHANGED <<written, pipe_active>>
      /\ \/ pipe_active' = FALSE /\ written' = written
         \/ pipe_active' = pipe_active /\ written' = written /\ h = Shutdown
         \/ pipe_active' = pipe_active /\ written' = Append(written, h) /\ h # Shutdown
  BY DEF LogWrite, LogEnd
<1>3. /\ log_channel \in Seq(E) /\ Len(log_channel) <= LogCapacity /\ LogCapacity \in Nat
      /\ written \in Seq(Numbers \X Numbers) /\ logged \in Seq(Numbers \X Numbers)
      /\ pipe_active \in BOOLEAN
  BY SessionAssumption DEF RelayInv, RelayTypes
<1>4. /\ Len(log_channel) \in Nat /\ Len(written) \in Nat /\ Len(logged) \in Nat
      /\ Len(log_channel) >= 1 /\ h = log_channel[1]
      /\ h \in E /\ log_channel' \in Seq(E) /\ Len(log_channel') = Len(log_channel) - 1
      /\ \A i \in 1..Len(log_channel') : log_channel'[i] = log_channel[i + 1]
  <2>1. Len(log_channel) \in Nat /\ Len(log_channel) # 0
    BY <1>2, <1>3, LenProperties, EmptySeq
  <2>2. QED
    BY <1>2, <1>3, <2>1, HeadTailProperties, LenProperties
<1>5. h # Shutdown => h \in Numbers \X Numbers
  BY <1>4
<1> HIDE DEF E, h
<1>6. written' \in Seq(Numbers \X Numbers)
  <2>1. CASE written' = written
    BY <1>3, <2>1
  <2>2. CASE written' = Append(written, h) /\ h # Shutdown
    <3>1. h \in Numbers \X Numbers
      BY <1>5, <2>2
    <3>2. QED
      BY <1>3, <2>2, <3>1, AppendProperties
  <2>3. QED
    BY <1>2, <2>1, <2>2
<1>7. RelayTypes'
  <2>1. Len(log_channel') <= LogCapacity
    BY ONLY <1>3, <1>4
  <2>2. pipe_active' \in BOOLEAN
    BY <1>2, <1>3
  <2>3. logger' \in {"none", "run", "ended"}
    BY <1>2
  <2>4. log_channel' \in Seq((Numbers \X Numbers) \cup {Shutdown})
    BY <1>4 DEF E
  <2>5. QED
    BY <1>2, <1>6, <2>1, <2>2, <2>3, <2>4 DEF RelayInv, RelayTypes
<1>8. h = Shutdown => loop = "ended"
  <2>1. 1 \in 1..Len(log_channel)
    BY <1>4
  <2>2. QED
    BY <1>4, <2>1 DEF RelayInv, Channel
<1>9. Modes' /\ OneOutstanding'
  BY <1>2, <1>8 DEF RelayInv, Modes, OneOutstanding
<1>10. Channel'
  <2>1. ASSUME NEW i \in 1..Len(log_channel'), log_channel'[i] = Shutdown PROVE loop = "ended"
    <3>1. i + 1 \in 1..Len(log_channel) /\ log_channel'[i] = log_channel[i + 1]
      BY <1>4
    <3>2. QED
      BY <2>1, <3>1 DEF RelayInv, Channel
  <2>2. CASE ~pipe_active'
    BY <1>2, <2>1, <2>2 DEF Channel
  <2>3. CASE pipe_active'
    <3>1. pipe_active
      BY <1>2, <2>3
    <3>2. PICK k : k = Len(logged) - Len(written) /\ k = Entries
      BY DEF Entries
    <3>3. /\ k \in Nat /\ Len(log_channel) \in {k, k + 1}
          /\ \A i \in 1..Len(written) : written[i] = logged[i]
          /\ \A i \in 1..k : log_channel[i] = logged[Len(written) + i]
          /\ Len(log_channel) = k + 1 => loop = "ended" /\ log_channel[k + 1] = Shutdown
      <4>1. /\ k >= 0 /\ Len(log_channel) \in {k, k + 1}
            /\ \A i \in 1..Len(written) : written[i] = logged[i]
            /\ \A i \in 1..k : log_channel[i] = logged[Len(written) + i]
            /\ Len(log_channel) = k + 1 => loop = "ended" /\ log_channel[k + 1] = Shutdown
        BY <3>1, <3>2 DEF RelayInv, Channel
      <4>2. k \in Nat
        BY <1>4, <3>2, <4>1
      <4>3. QED
        BY <4>1, <4>2
    <3>4. CASE h # Shutdown
      <4>1. k >= 1
        BY <1>4, <3>3, <3>4
      <4>2. written' = Append(written, h) /\ logger' = "run"
        BY <1>2, <2>3, <3>4
      <4>3. /\ Len(written') = Len(written) + 1
            /\ \A i \in 1..Len(written) : written'[i] = written[i]
            /\ written'[Len(written) + 1] = h
        BY <1>3, <1>5, <3>4, <4>2, AppendProperties
      <4>4. h = logged[Len(written) + 1]
        BY <1>4, <3>3, <4>1
      <4>5. Entries' = k - 1
        BY <1>2, <1>4, <3>2, <4>3 DEF Entries
      <4>6. ASSUME NEW i \in 1..Len(written') PROVE written'[i] = logged[i]
        <5>1. i \in 1..Len(written) \/ i = Len(written) + 1
          BY <1>4, <4>3
        <5>2. QED
          BY <3>3, <4>3, <4>4, <5>1
      <4>7. ASSUME NEW i \in 1..(k - 1)
            PROVE  log_channel'[i] = logged[Len(written') + i]
        <5>1. /\ i \in 1..Len(log_channel') /\ i + 1 \in 1..k
              /\ Len(written) + (i + 1) = Len(written') + i
          BY <1>4, <3>3, <4>3
        <5>2. QED
          BY <1>4, <3>3, <5>1
      <4>8. /\ k - 1 >= 0 /\ Len(log_channel') \in {k - 1, (k - 1) + 1}
            /\ Len(log_channel') = (k - 1) + 1
                 => loop = "ended" /\ log_channel'[(k - 1) + 1] = Shutdown
        <5>1. k - 1 >= 0 /\ Len(log_channel') \in {k - 1, (k - 1) + 1}
          BY <1>4, <3>3, <4>1
        <5>2. ASSUME Len(log_channel') = (k - 1) + 1
              PROVE  loop = "ended" /\ log_channel'[(k - 1) + 1] = Shutdown
          <6>1. Len(log_channel) = k + 1 /\ (k - 1) + 1 = k /\ k \in 1..Len(log_channel')
            BY <1>4, <3>3, <4>1, <5>2
          <6>2. QED
            BY <1>4, <3>3, <6>1
        <5>3. QED
          BY <5>1, <5>2
      <4>9. QED
        BY <1>2, <2>1, <4>2, <4>5, <4>6, <4>7, <4>8 DEF Channel
    <3>5. CASE h = Shutdown
      <4>1. k = 0
        <5>1. SUFFICES ASSUME k >= 1 PROVE FALSE
          BY <3>3
        <5>2. Len(written) + 1 \in 1..Len(logged) /\ 1 \in 1..k
          BY <1>4, <3>2, <3>3, <5>1
        <5>3. h = logged[Len(written) + 1]
          BY <1>4, <3>3, <5>2
        <5>4. h \in Numbers \X Numbers
          BY <1>3, <5>2, <5>3, ElementOfSeq
        <5>5. 0 \notin Numbers
          BY SessionAssumption DEF Numbers
        <5>6. QED
          BY <3>5, <5>4, <5>5 DEF Shutdown
      <4>2. Len(log_channel') = 0 /\ log_channel' = << >>
        <5>1. Len(log_channel') = 0
          BY <1>4, <3>3, <4>1
        <5>2. QED
          BY <1>4, <5>1, EmptySeq
      <4>3. written' = written /\ Entries' = 0
        BY <1>2, <3>2, <3>5, <4>1 DEF Entries
      <4>4. QED
        BY <1>2, <2>1, <3>3, <4>1, <4>2, <4>3 DEF Channel
    <3>6. QED
      BY <3>4, <3>5
  <2>4. QED
    BY <2>2, <2>3
<1>11. RequestsFlow(x, y)' /\ AnswersFlow(u, v)'
  BY <1>1, <1>2 DEF Flow, RequestsFlow, AnswersFlow
<1>12. Counted(y)' /\ LogOrder(y)'
  BY <1>1, <1>2 DEF Flow, Counted, GoesOn, LogOrder
<1>13. LogMatches(v, y)'
  BY <1>1, <1>2 DEF Flow, LogMatches, GoesOn, InLog, Pending
<1>14. QED
  BY <1>7, <1>9, <1>10, <1>11, <1>12, <1>13 DEF RelayInv, Flow

-----------------------------------------------------------------------------
\* The inductive invariant of a connection.
Inv == LoginInv /\ RelayInv

\* It holds in every reachable state.
LEMMA Invariance == Spec => []Inv
<1>1. Init => Inv
  BY LoginInit, RelayInit DEF Inv
<1>2. ASSUME Inv, [Next]_vars PROVE RelayInv'
  <2>1. LoginInv /\ RelayInv /\ conf \in Confs
    BY <1>2 DEF Inv, LoginInv, ConnectionTypes
  <2>2. CASE Detect \/ StoreCredentials \/ SendReady \/ HandshakeFails
    BY <2>1, <2>2, HandlerKeepsRelay
       DEF Detect, StoreCredentials, SendReady, HandshakeFails
  <2>3. CASE Exchange \/ GetSessionConfig \/ GetAuth \/ Register \/ Admit
    BY <2>1, <2>3, HandlerKeepsRelay
       DEF Exchange, GetSessionConfig, GetAuth, Register, Admit, NextStep
  <2>4. CASE LoginFails \/ Release \/ UNCHANGED vars
    BY <2>1, <2>4, HandlerKeepsRelay DEF LoginFails, Release, vars, connVars
  <2>5. CASE BasicEnds
    <3>1. loop = "none"
      BY <2>1, <2>5 DEF BasicEnds, RelayInv, Modes
    <3>2. QED
      BY <2>1, <2>5, <3>1, HandlerKeepsRelay DEF BasicEnds, Closed
  <2>6. CASE RelayStep \/ SelectIdle
    BY <2>1, <2>6, EndingKeepsRelay, SelectClientKeepsRelay, SelectServerKeepsRelay,
       WriteServerKeepsRelay, WriteClientKeepsRelay, CloseKeepsRelay DEF RelayStep
  <2>7. QED
    BY <1>2, <2>1, <2>2, <2>3, <2>4, <2>5, <2>6, StartKeepsRelay, EndingKeepsRelay,
       ClientSendKeepsRelay, ClientClosesKeepsRelay, ClientReadsKeepsRelay,
       ServerAnswersKeepsRelay, ServerClosesKeepsRelay, CopyToServerKeepsRelay,
       CopyToClientKeepsRelay, LoggingKeepsRelay DEF Next
<1>3. Inv /\ [Next]_vars => Inv'
  BY <1>2, LoginStep DEF Inv
<1>4. QED
  BY <1>1, <1>3, PTL DEF Spec

\* The variables of a connection keep to their types; no more queries are
\* answered than were sent, and no more is counted than was read.
THEOREM TypeCorrect == Spec => []TypeOK
<1>1. ASSUME Inv PROVE TypeOK
  <2>1. PICK u \in Nat, v \in Nat, x \in Nat, y \in Nat : Flow(u, v, x, y)
    BY <1>1 DEF Inv, RelayInv
  <2>2. /\ sent \in 0..MaxSent /\ MaxSent \in Nat /\ answered \in Nat /\ served \in Nat
        /\ query_count \in Nat
    BY <1>1, SessionAssumption DEF Inv, RelayInv, RelayTypes
  <2>3. /\ served <= x /\ x <= y /\ y <= sent
        /\ answered < u /\ u <= v /\ v <= served + 1 /\ query_count <= y + 1
    <3>1. query_count <= y \/ query_count = y + 1
      BY <2>1 DEF Flow, Counted
    <3>2. query_count <= y + 1
      BY <2>2, <3>1
    <3>3. QED
      BY <2>1, <3>2 DEF Flow, RequestsFlow, AnswersFlow
  <2>4. answered \in 0..sent /\ served \in 0..sent /\ query_count \in 0..(MaxSent + 1)
    BY <2>2, <2>3
  <2>5. QED
    BY <1>1, <2>4 DEF Inv, RelayInv, RelayTypes, LoginInv, ConnectionTypes, TypeOK
<1>2. QED
  BY <1>1, Invariance, PTL

\* A connection that has to be tracked is counted before its client is told
\* that it is logged in, and until its handler is over, in every handler.
THEOREM CountedFirst == Spec => []CountedWhileAdmitted
<1>1. Inv => CountedWhileAdmitted
  BY DEF Inv, LoginInv, ConnectionTypes, Counting, CountedWhileAdmitted
<1>2. QED
  BY <1>1, Invariance, PTL

\* When queries flow, the credentials have left the store and the limits are
\* those of the handshake.
THEOREM LimitsAreOwn == Spec => []OwnLimits
<1>1. ASSUME Inv PROVE OwnLimits
  <2>1. ConfigStep \in 1..4 /\ Len(LoginSteps) \in 6..8
    BY <1>1, Order DEF Inv, LoginInv, ConnectionTypes
  <2>2. pc = "relay" => step >= ConfigStep /\ step > ConfigStep
    <3>1. pc = "relay" => step = Len(LoginSteps)
      BY <1>1 DEF Inv, LoginInv, Stored
    <3>2. PICK c \in 1..4, n \in 6..8 : c = ConfigStep /\ n = Len(LoginSteps)
      BY <2>1
    <3>3. c < n /\ c <= n
      OBVIOUS
    <3>4. QED
      BY <3>1, <3>2, <3>3
  <2>3. QED
    BY <1>1, <2>2 DEF Inv, LoginInv, Stored, Configured, OwnLimits
<1>2. QED
  BY <1>1, Invariance, PTL

\* A managed MySQL relay reads at most max_queries commands; a client that
\* waits for its answers gets at most that many queries to the database.
THEOREM QueryLimit == Spec => []QueriesBounded
<1>1. ASSUME Inv PROVE QueriesBounded
  <2>1. SUFFICES ASSUME loop # "none", conf.proto = "mysql", conf.limit # 0
                 PROVE  /\ query_count <= conf.limit
                        /\ ~conf.pipelined =>
                             served + Cardinality({i \in 1..Len(p2s) : p2s[i] # Quit}) <= conf.limit
    BY DEF QueriesBounded
  <2>2. PICK u \in Nat, v \in Nat, x \in Nat, y \in Nat : Flow(u, v, x, y)
    BY <1>1 DEF Inv, RelayInv
  <2>3. /\ query_count <= conf.limit
        /\ ~conf.pipelined => query_count = y
    BY <2>1, <2>2 DEF Flow, Counted
  <2>4. served <= x /\ x <= y /\ served \in Nat /\ conf.limit \in Nat /\ Len(p2s) \in Nat
    <3>1. conf.limit \in Nat
      BY <1>1, SessionAssumption DEF Inv, LoginInv, ConnectionTypes, AllConfs
    <3>2. served \in Nat /\ Len(p2s) \in Nat
      BY <1>1, LenProperties DEF Inv, RelayInv, RelayTypes
    <3>3. QED
      BY <2>2, <3>1, <3>2 DEF Flow, RequestsFlow
  <2>5. CASE server_eof
    <3>1. p2s = << >>
      BY <2>2, <2>5 DEF Flow, RequestsFlow
    <3>2. {i \in 1..Len(p2s) : p2s[i] # Quit} = {}
      BY <3>1
    <3>3. Cardinality({i \in 1..Len(p2s) : p2s[i] # Quit}) = 0
      BY <3>2, FS_EmptySet
    <3>4. QED
      BY <2>3, <2>4, <3>3
  <2>6. CASE ~server_eof
    <3>1. /\ Len(p2s) \in {x - served, x - served + 1}
          /\ \A i \in 1..(x - served) : p2s[i] = <<served + i, "query">>
          /\ Len(p2s) = x - served + 1 => p2s[Len(p2s)] = Quit
      BY <2>2, <2>6 DEF Flow, RequestsFlow, Stretch
    <3>2. \A i \in 1..(x - served) : p2s[i] # Quit
      BY <3>1 DEF Quit
    <3>3. {i \in 1..Len(p2s) : p2s[i] # Quit} = 1..(x - served)
      <4>1. ASSUME NEW i \in 1..Len(p2s), p2s[i] # Quit PROVE i \in 1..(x - served)
        BY <2>4, <3>1, <4>1
      <4>2. 1..(x - served) \subseteq 1..Len(p2s)
        BY <2>4, <3>1
      <4>3. QED
        BY <3>2, <4>1, <4>2
    <3>4. Cardinality(1..(x - served)) = x - served
      <4>1. Cardinality(1..(x - served)) =
              IF 1 > x - served THEN 0 ELSE (x - served) - 1 + 1
        BY <2>4, FS_Interval
      <4>2. QED
        BY <2>4, <4>1
    <3>5. Cardinality({i \in 1..Len(p2s) : p2s[i] # Quit}) = x - served
      BY <3>3, <3>4
    <3>6. QED
      BY <2>3, <2>4, <3>5
  <2>7. QED
    BY <2>5, <2>6
<1>2. QED
  BY <1>1, Invariance, PTL

\* The log has the queries in their order, each at most once, and those of a
\* client that waits next to their own outcome, whatever the reads split.
THEOREM LogIsFaithful == Spec => []LogFaithful
<1>1. ASSUME Inv PROVE LogFaithful
  <2>1. PICK u \in Nat, v \in Nat, x \in Nat, y \in Nat : Flow(u, v, x, y)
    BY <1>1 DEF Inv, RelayInv
  <2>2. QED
    BY <2>1 DEF Flow, LogOrder, LogMatches, LogFaithful
<1>2. QED
  BY <1>1, Invariance, PTL

\* What a waiting client got an answer to is logged or was skipped, and what the
\* channel took is in the pipe when the logging thread has ended.
THEOREM LogIsComplete == Spec => []LogComplete
<1>1. ASSUME Inv PROVE LogComplete
  <2>1. PICK u \in Nat, v \in Nat, x \in Nat, y \in Nat : Flow(u, v, x, y)
    BY <1>1 DEF Inv, RelayInv
  <2>2. ASSUME logger # "none", ~conf.pipelined, conf.proto # "sqlserver",
               NEW q \in 1..answered
        PROVE  q \in skipped \/ \E i \in 1..Len(logged) : logged[i][1] = q
    <3>1. answered < u /\ u <= v /\ answered \in Nat
      BY <1>1, <2>1 DEF Flow, AnswersFlow, Inv, RelayInv, RelayTypes
    <3>2. q \in 1..(v - 1)
      BY <3>1
    <3>3. QED
      BY <2>1, <2>2, <3>2 DEF Flow, LogMatches, InLog
  <2>3. ASSUME logger = "ended", pipe_active PROVE written = logged
    <3>1. /\ written \in Seq(Numbers \X Numbers) /\ logged \in Seq(Numbers \X Numbers)
          /\ Len(written) \in Nat /\ Len(logged) \in Nat
      BY <1>1, LenProperties DEF Inv, RelayInv, RelayTypes
    <3>2. Len(logged) - Len(written) = 0 /\ \A i \in 1..Len(written) : written[i] = logged[i]
      BY <1>1, <2>3 DEF Inv, RelayInv, Channel, Entries
    <3>3. Len(logged) = Len(written)
      BY <3>1, <3>2
    <3>4. QED
      BY <3>1, <3>2, <3>3, SeqEqual
  <2>4. QED
    BY <2>2, <2>3 DEF LogComplete
<1>2. QED
  BY <1>1, Invariance, PTL
==============================================================================
