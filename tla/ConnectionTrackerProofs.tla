----------------------- MODULE ConnectionTrackerProofs -----------------------
(***************************************************************************)
(* Proofs about ConnectionTracker, for any sets of connections, sessions,  *)
(* addresses, targets and application names, and any limit.                *)
(***************************************************************************)
EXTENDS ConnectionTracker, FiniteSetTheorems, TLAPS

\* A connection that is under way has a tunnel, and one with a target has a
\* session; force_release_tunnel knows its session.
Assigned ==
  /\ \A c \in Conns :
       /\ pc[c] # "idle" => conn[c].tunnel \in TunnelIds
       /\ conn[c].target \in Targets => conn[c].tunnel \in Sessions
       /\ pc[c] \in {"claim", "look", "undo", "withdraw", "disconnect"}
            => conn[c].target \in Targets
  /\ pc[Forcer] # "idle" => forced \in Sessions

Inv == TypeOK /\ Assigned /\ CountsItsOwn /\ OneToolPerTunnel

\* What the tail of a queue of requests is.
LEMMA QueueTypes ==
  ASSUME NEW S, NEW q \in Seq(S), NEW k \in S
  PROVE  /\ Append(q, k) \in Seq(S)
         /\ q # << >> => Tail(q) \in Seq(S) /\ Append(Tail(q), k) \in Seq(S)
  OBVIOUS

\* What normalize_application_name returns.
LEMMA NormalTypes ==
  ASSUME NEW n \in Names \cup {NoName}
  PROVE  normalize_application_name(n) \in Tools \cup {NoName}
  BY TrackerAssumption DEF normalize_application_name

\* Before the first connection.
LEMMA InitInv == Init => Inv
<1> SUFFICES ASSUME Init PROVE Inv
  OBVIOUS
<1>1. TypeOK
  BY DEF Init, TypeOK, Steps, NoTunnel, NoClaim, NotAccepted
<1>2. \A u \in TunnelIds : tunnels[u].sessions = {}
  BY DEF Init, NoTunnel
<1>3. pc[Forcer] = "idle" /\ \A c \in Conns : pc[c] = "idle"
  BY DEF Init
<1>4. \A c \in Conns : conn[c].target = NoTarget
  BY DEF Init, NotAccepted
<1>5. QED
  BY <1>1, <1>2, <1>3, <1>4, TrackerAssumption
     DEF Inv, Assigned, CountsItsOwn, OneToolPerTunnel

\* A connection that is not counted may go to another step, and get other
\* data, without any tunnel noticing.
LEMMA NotCountedMoves ==
  ASSUME Inv, NEW c \in Conns, pc[c] \notin {"registered", "release", "dropped"},
         tunnels' = tunnels,
         \A d \in Conns \ {c} : pc'[d] = pc[d] /\ conn'[d] = conn[d]
  PROVE  CountsItsOwn' /\ OneToolPerTunnel'
<1>1. \A u \in TunnelIds : tunnels[u].sessions \subseteq Conns \ {c}
  BY DEF Inv, TypeOK, CountsItsOwn
<1>2. QED
  BY <1>1 DEF Inv, CountsItsOwn, OneToolPerTunnel

\* What connection c is assigned when it moves to `step` with data r.
LEMMA AssignedMoves ==
  ASSUME Inv, NEW c \in Conns, NEW step, NEW r,
         pc' = [pc EXCEPT ![c] = step], conn' = [conn EXCEPT ![c] = r], forced' = forced,
         step # "idle" => r.tunnel \in TunnelIds,
         r.target \in Targets => r.tunnel \in Sessions,
         step \in {"claim", "look", "undo", "withdraw", "disconnect"} => r.target \in Targets
  PROVE  Assigned'
<1>0. /\ pc \in [Conns \cup {Forcer} -> Steps] /\ Forcer # c
      /\ DOMAIN conn = Conns
  BY TrackerAssumption DEF Inv, TypeOK
<1>1. pc'[c] = step /\ pc'[Forcer] = pc[Forcer] /\ \A d \in Conns \ {c} : pc'[d] = pc[d]
  BY <1>0
<1>2. conn'[c] = r /\ \A d \in Conns \ {c} : conn'[d] = conn[d]
  BY <1>0
<1>3. QED
  BY <1>1, <1>2 DEF Inv, Assigned

\* Accepting a connection.
LEMMA AcceptKeepsInv ==
  ASSUME Inv, NEW c \in Conns, NEW n \in Names \cup {NoName},
         NEW u \in TunnelIds, NEW t \in Targets \cup {NoTarget}, NEW step \in {"claim", "limits"},
         pc[c] = "idle",
         step = "claim" => t \in Targets,
         t \in Targets => u \in Sessions,
         conn' = [conn EXCEPT ![c] = [tunnel |-> u, target |-> t,
                                      application |-> normalize_application_name(n)]],
         Goto(c, step),
         UNCHANGED <<tunnels, active_sessions, forced, lockVars>>
  PROVE  Inv'
<1> DEFINE r == [tunnel |-> u, target |-> t, application |-> normalize_application_name(n)]
<1>1. r \in [tunnel : TunnelIds \cup {NoOne}, target : Targets \cup {NoTarget},
             application : Tools \cup {NoName}]
  BY NormalTypes
<1>2. TypeOK'
  BY <1>1 DEF Inv, TypeOK, Steps, Goto, lockVars
<1>3. /\ r.tunnel = u /\ r.target = t
      /\ pc' = [pc EXCEPT ![c] = step] /\ conn' = [conn EXCEPT ![c] = r] /\ forced' = forced
  BY DEF Goto
<1>4. Assigned'
  <2> HIDE DEF r
  <2> QED
    BY <1>3, AssignedMoves
<1>5. \A d \in Conns \ {c} : pc'[d] = pc[d] /\ conn'[d] = conn[d]
  BY <1>3 DEF Inv, TypeOK
<1>6. CountsItsOwn' /\ OneToolPerTunnel'
  BY <1>5, NotCountedMoves
<1>7. QED
  BY <1>2, <1>4, <1>6 DEF Inv

ConnType == [tunnel : TunnelIds \cup {NoOne}, target : Targets \cup {NoTarget},
             application : Tools \cup {NoName}]
ClaimType == [uid : Sessions \cup {NoOne}, application : Tools \cup {NoName},
              last_disconnect : {"none", "recent", "expired", "stale"}]
ClaimsType == [Targets -> ClaimType]

\* A step of a connection that is not counted, by its effect.
LEMMA MoveKeepsInv ==
  ASSUME Inv, NEW c \in Conns, NEW step \in Steps, NEW r \in ConnType,
         pc[c] \notin {"registered", "release", "dropped"},
         Goto(c, step), conn' = [conn EXCEPT ![c] = r], tunnels' = tunnels, forced' = forced,
         active_sessions' \in ClaimsType,
         holder' \in Conns \cup {NoOne}, readers' \in SUBSET Conns,
         waiting' \in Seq(Conns \cup {Forcer}),
         step # "idle" => r.tunnel \in TunnelIds,
         r.target \in Targets => r.tunnel \in Sessions,
         step \in {"claim", "look", "undo", "withdraw", "disconnect"} => r.target \in Targets
  PROVE  Inv'
<1>1. TypeOK'
  BY DEF Inv, TypeOK, Goto, ConnType, ClaimsType, ClaimType
<1>2. Assigned'
  BY AssignedMoves DEF Goto
<1>3. \A d \in Conns \ {c} : pc'[d] = pc[d] /\ conn'[d] = conn[d]
  BY DEF Inv, TypeOK, Goto
<1>4. CountsItsOwn' /\ OneToolPerTunnel'
  BY <1>3, NotCountedMoves
<1>5. QED
  BY <1>1, <1>2, <1>4 DEF Inv

\* The same when the connection keeps its data.
LEMMA StepKeepsInv ==
  ASSUME Inv, NEW c \in Conns, NEW step \in Steps,
         pc[c] \notin {"idle", "registered", "release", "dropped"},
         Goto(c, step), conn' = conn, tunnels' = tunnels, forced' = forced,
         active_sessions' \in ClaimsType,
         holder' \in Conns \cup {NoOne}, readers' \in SUBSET Conns,
         waiting' \in Seq(Conns \cup {Forcer}),
         step \in {"claim", "look", "undo", "withdraw", "disconnect"}
           => conn[c].target \in Targets
  PROVE  Inv'
<1> DEFINE r == conn[c]
<1>1. r \in ConnType /\ conn' = [conn EXCEPT ![c] = r]
  BY DEF Inv, TypeOK, ConnType
<1>2. /\ r.tunnel \in TunnelIds
      /\ r.target \in Targets => r.tunnel \in Sessions
      /\ step \in {"claim", "look", "undo", "withdraw", "disconnect"} => r.target \in Targets
  BY DEF Inv, Assigned
<1> HIDE DEF r
<1>3. QED
  BY <1>1, <1>2, MoveKeepsInv

\* The same when the connection is over.
LEMMA OverKeepsInv ==
  ASSUME Inv, NEW c \in Conns, Over(c),
         pc[c] \notin {"registered", "release", "dropped"},
         tunnels' = tunnels, forced' = forced,
         active_sessions' \in ClaimsType,
         holder' \in Conns \cup {NoOne}, readers' \in SUBSET Conns,
         waiting' \in Seq(Conns \cup {Forcer})
  PROVE  Inv'
<1>1. NotAccepted \in ConnType /\ NotAccepted.target \notin Targets
  BY TrackerAssumption DEF NotAccepted, ConnType
<1>2. Goto(c, "idle") /\ conn' = [conn EXCEPT ![c] = NotAccepted] /\ "idle" \in Steps
  BY DEF Over, Steps
<1>3. QED
  BY <1>1, <1>2, MoveKeepsInv

\* A queue after the grant of its first request.
LEMMA QueueServed ==
  ASSUME Inv, waiting # << >>
  PROVE  /\ Tail(waiting) \in Seq(Conns \cup {Forcer})
         /\ \A k \in Conns : Append(Tail(waiting), k) \in Seq(Conns \cup {Forcer})
  BY QueueTypes DEF Inv, TypeOK

\* A connection that claims a target has a session of its own to claim it for,
\* and any claim it may leave is a claim.
LEMMA ClaimTypes ==
  ASSUME Inv, NEW c \in Conns, pc[c] \in {"claim", "look", "undo", "withdraw", "disconnect"}
  PROVE  /\ conn[c].target \in Targets /\ conn[c].tunnel \in Sessions
         /\ active_sessions \in ClaimsType
         /\ OwnClaim(c) \in ClaimType /\ NoClaim \in ClaimType
         /\ ClaimOf(c) \in ClaimType
         /\ \A l \in {"none", "recent"} : [ClaimOf(c) EXCEPT !.last_disconnect = l] \in ClaimType
         /\ \A claim \in ClaimType : SetClaim(c, claim) => active_sessions' \in ClaimsType
<1>1. conn[c].target \in Targets /\ conn[c].tunnel \in Sessions
  BY DEF Inv, Assigned
<1>2. active_sessions \in ClaimsType
  BY DEF Inv, TypeOK, ClaimsType, ClaimType
<1>3. conn[c].application \in Tools \cup {NoName}
  BY DEF Inv, TypeOK
<1>4. OwnClaim(c) \in ClaimType /\ NoClaim \in ClaimType
  BY <1>1, <1>3 DEF OwnClaim, ClaimType, NoClaim
<1>5. ClaimOf(c) \in ClaimType
  BY <1>1, <1>2 DEF ClaimOf, ClaimsType
<1>6. \A l \in {"none", "recent"} : [ClaimOf(c) EXCEPT !.last_disconnect = l] \in ClaimType
  BY <1>5 DEF ClaimType
<1>7. \A claim \in ClaimType : SetClaim(c, claim) => active_sessions' \in ClaimsType
  BY <1>2 DEF SetClaim, ClaimsType
<1>8. QED
  BY <1>1, <1>2, <1>4, <1>5, <1>6, <1>7

\* A connection claims its target, takes it over, or is turned away.
LEMMA ClaimKeepsInv ==
  ASSUME Inv, NEW c \in Conns,
         ClaimFree(c) \/ ClaimOwn(c) \/ ClaimContested(c) \/ TakeOver(c)
  PROVE  Inv'
<1>1. /\ pc[c] \in {"claim", "look"} /\ tunnels' = tunnels /\ forced' = forced
      /\ {"limits", "look"} \subseteq Steps /\ readers' = readers
  BY DEF ClaimFree, ClaimOwn, ClaimContested, TakeOver, Granted, lockVars, Steps
<1>2. holder \in Conns \cup {NoOne} /\ readers \in SUBSET Conns
      /\ waiting \in Seq(Conns \cup {Forcer}) /\ c \in Conns \cup {Forcer}
  BY DEF Inv, TypeOK
<1>3. CASE ClaimFree(c)
  <2>1. Goto(c, "limits") /\ SetClaim(c, OwnClaim(c)) /\ UNCHANGED <<conn, holder, waiting>>
    BY <1>3 DEF ClaimFree, lockVars
  <2>2. active_sessions' \in ClaimsType
    BY <1>1, <2>1, ClaimTypes
  <2>3. QED
    BY <1>1, <1>2, <2>1, <2>2, StepKeepsInv
<1>4. CASE ClaimOwn(c)
  <2>1. UNCHANGED <<holder, waiting>>
    BY <1>4 DEF ClaimOwn, lockVars
  <2>2. CASE Over(c) /\ UNCHANGED active_sessions
    <3>1. active_sessions' \in ClaimsType
      BY <1>1, <2>2, ClaimTypes
    <3>2. QED
      BY <1>1, <1>2, <2>1, <2>2, <3>1, OverKeepsInv
  <2>3. CASE ~(Over(c) /\ UNCHANGED active_sessions)
    <3>1. /\ Goto(c, "limits") /\ UNCHANGED conn
          /\ \/ SetClaim(c, OwnClaim(c)) \/ SetClaim(c, ClaimOf(c))
             \/ SetClaim(c, [ClaimOf(c) EXCEPT !.last_disconnect = "none"])
      BY <1>4, <2>3, Zenon DEF ClaimOwn
    <3>2. active_sessions' \in ClaimsType
      BY <1>1, <3>1, ClaimTypes
    <3>3. QED
      BY <1>1, <1>2, <2>1, <3>1, <3>2, StepKeepsInv
  <2>4. QED
    BY <2>2, <2>3
<1>5. CASE ClaimContested(c)
  <2>1. /\ Goto(c, "look") /\ waiting' = Append(waiting, c) /\ holder' = c
        /\ UNCHANGED <<conn, active_sessions>>
    BY <1>5 DEF ClaimContested, Request
  <2>2. waiting' \in Seq(Conns \cup {Forcer})
    BY <1>2, <2>1, QueueTypes
  <2>3. active_sessions' \in ClaimsType /\ conn[c].target \in Targets
    BY <1>1, <2>1, ClaimTypes
  <2>4. QED
    BY <1>1, <1>2, <2>1, <2>2, <2>3, StepKeepsInv
<1>6. CASE TakeOver(c)
  <2>1. holder' = NoOne /\ waiting' = Tail(waiting) /\ waiting # << >>
    BY <1>6 DEF TakeOver, Granted
  <2>2. waiting' \in Seq(Conns \cup {Forcer})
    BY <2>1, QueueServed
  <2>3. CASE tunnels[ClaimOf(c).uid] = NoTunnel
    <3>1. Goto(c, "limits") /\ SetClaim(c, OwnClaim(c)) /\ UNCHANGED conn
      BY <1>6, <2>3 DEF TakeOver
    <3>2. active_sessions' \in ClaimsType
      BY <1>1, <3>1, ClaimTypes
    <3>3. QED
      BY <1>1, <1>2, <2>1, <2>2, <3>1, <3>2, StepKeepsInv
  <2>4. CASE tunnels[ClaimOf(c).uid] # NoTunnel
    <3>1. Over(c) /\ UNCHANGED active_sessions
      BY <1>6, <2>4 DEF TakeOver
    <3>2. active_sessions' \in ClaimsType
      BY <1>1, <3>1, ClaimTypes
    <3>3. QED
      BY <1>1, <1>2, <2>1, <2>2, <3>1, <3>2, OverKeepsInv
  <2>5. QED
    BY <2>3, <2>4
<1>7. QED
  BY <1>3, <1>4, <1>5, <1>6

\* A connection asks to be counted, is refused, and undoes its claim; or it
\* notes its disconnect.
LEMMA UncountedKeepsInv ==
  ASSUME Inv, NEW c \in Conns,
         Enlist(c) \/ RegisterFails(c) \/ Undo(c) \/ Withdraw(c) \/ Disconnect(c)
  PROVE  Inv'
<1>1. /\ pc[c] \in {"limits", "register", "undo", "withdraw", "disconnect"}
      /\ tunnels' = tunnels /\ forced' = forced /\ holder' = holder
      /\ {"register", "undo", "withdraw"} \subseteq Steps
  BY DEF Enlist, RegisterFails, Undo, Withdraw, Disconnect, Granted, GrantedToWrite, lockVars, Steps
<1>2. holder \in Conns \cup {NoOne} /\ readers \in SUBSET Conns
      /\ waiting \in Seq(Conns \cup {Forcer}) /\ c \in Conns \cup {Forcer}
      /\ active_sessions \in ClaimsType /\ conn[c].target \in Targets \cup {NoTarget}
  BY DEF Inv, TypeOK, ClaimsType, ClaimType
<1>3. CASE Enlist(c)
  <2>1. /\ Goto(c, "register") /\ waiting' = Append(waiting, c)
        /\ UNCHANGED <<conn, active_sessions, readers>>
    BY <1>3 DEF Enlist, Request
  <2>2. waiting' \in Seq(Conns \cup {Forcer})
    BY <1>2, <2>1, QueueTypes
  <2>3. QED
    BY <1>1, <1>2, <2>1, <2>2, StepKeepsInv
<1>4. CASE RegisterFails(c)
  <2>1. waiting # << >> /\ UNCHANGED <<active_sessions, readers>>
    BY <1>4 DEF RegisterFails, GrantedToWrite, Granted
  <2>2. CASE conn[c].target = NoTarget
    <3>1. Over(c) /\ waiting' = Tail(waiting)
      BY <1>4, <2>2 DEF RegisterFails
    <3>2. QED
      BY <1>1, <1>2, <2>1, <3>1, QueueServed, OverKeepsInv
  <2>3. CASE conn[c].target # NoTarget
    <3>1. Goto(c, "undo") /\ waiting' = Append(Tail(waiting), c) /\ UNCHANGED conn
      BY <1>4, <2>3 DEF RegisterFails, RequestAgain
    <3>2. QED
      BY <1>1, <1>2, <2>1, <2>3, <3>1, QueueServed, StepKeepsInv
  <2>4. QED
    BY <2>2, <2>3
<1>5. CASE Undo(c)
  <2>1. waiting # << >> /\ waiting' = Tail(waiting) /\ UNCHANGED active_sessions
        /\ pc[c] = "undo"
    BY <1>5 DEF Undo, Granted, Leave
  <2>2. conn[c].target \in Targets
    BY <2>1 DEF Inv, Assigned
  <2>3. CASE tunnels[conn[c].tunnel] # NoTunnel
    <3>1. Over(c) /\ UNCHANGED readers
      BY <1>5, <2>3 DEF Undo
    <3>2. QED
      BY <1>1, <1>2, <2>1, <3>1, QueueServed, OverKeepsInv
  <2>4. CASE tunnels[conn[c].tunnel] = NoTunnel
    <3>1. Goto(c, "withdraw") /\ readers' = readers \cup {c} /\ UNCHANGED conn
      BY <1>5, <2>4 DEF Undo, Leave
    <3>2. QED
      BY <1>1, <1>2, <2>1, <2>2, <3>1, QueueServed, StepKeepsInv
  <2>5. QED
    BY <2>3, <2>4
<1>6. CASE Withdraw(c)
  <2>1. Over(c) /\ readers' = readers \ {c} /\ waiting' = waiting
    BY <1>6 DEF Withdraw
  <2>2. active_sessions' = active_sessions \/ SetClaim(c, NoClaim)
    BY <1>6 DEF Withdraw
  <2>3. active_sessions' \in ClaimsType
    <3>1. pc[c] = "withdraw"
      BY <1>6 DEF Withdraw
    <3>2. QED
      BY <1>2, <2>2, <3>1, ClaimTypes
  <2>4. QED
    BY <1>1, <1>2, <2>1, <2>3, OverKeepsInv
<1>7. CASE Disconnect(c)
  <2>1. Over(c) /\ readers' = readers /\ waiting' = waiting
    BY <1>7 DEF Disconnect, lockVars
  <2>2. \/ active_sessions' = active_sessions
        \/ SetClaim(c, [ClaimOf(c) EXCEPT !.last_disconnect = "recent"])
    BY <1>7 DEF Disconnect
  <2>3. active_sessions' \in ClaimsType
    <3>1. pc[c] = "disconnect"
      BY <1>7 DEF Disconnect
    <3>2. QED
      BY <1>2, <2>2, <3>1, ClaimTypes
  <2>4. QED
    BY <1>1, <1>2, <2>1, <2>3, OverKeepsInv
<1>8. QED
  BY <1>3, <1>4, <1>5, <1>6, <1>7

TunnelType == [sessions : SUBSET Conns, application : Tools \cup {NoName}]

\* A connection is counted.
LEMMA RegisterKeepsInv ==
  ASSUME Inv, NEW c \in Conns, Register(c)
  PROVE  Inv'
<1> DEFINE u == conn[c].tunnel
           app == conn[c].application
<1>1. /\ pc[c] = "register" /\ waiting # << >> /\ waiting' = Tail(waiting)
      /\ pc' = [pc EXCEPT ![c] = "registered"]
      /\ UNCHANGED <<active_sessions, conn, forced, holder, readers>>
  BY DEF Register, GrantedToWrite, Granted, Leave, Goto
<1>2. u \in TunnelIds /\ app \in Tools \cup {NoName} /\ tunnels \in [TunnelIds -> TunnelType]
  BY <1>1 DEF Inv, TypeOK, Assigned, TunnelType
<1>3. /\ tunnels' \in [TunnelIds -> TunnelType]
      /\ \A v \in TunnelIds \ {u} : tunnels'[v] = tunnels[v]
      /\ tunnels'[u].sessions \subseteq tunnels[u].sessions \cup {c}
      /\ tunnels'[u].application # NoName =>
           /\ app = tunnels'[u].application
           /\ tunnels[u].sessions = {} \/ tunnels[u].application = tunnels'[u].application
  <2>0. tunnels' = [tunnels EXCEPT ![u] = With(tunnels[u], c)]
    BY DEF Register
  <2>1. CASE tunnels[u] = NoTunnel
    <3>1. With(tunnels[u], c) = [sessions |-> {c}, application |-> app]
      BY <2>1 DEF With
    <3>2. tunnels[u].sessions = {}
      BY <2>1 DEF NoTunnel
    <3>3. QED
      BY <1>2, <2>0, <3>1, <3>2 DEF TunnelType
  <2>2. CASE tunnels[u] # NoTunnel
    <3>1. With(tunnels[u], c) = [tunnels[u] EXCEPT !.sessions = @ \cup {c}]
      BY <2>2 DEF With
    <3>2. tunnels[u].application # NoName => app = tunnels[u].application
      BY <2>2 DEF Register, Refused, WrongTool
    <3>3. QED
      BY <1>2, <2>0, <3>1, <3>2 DEF TunnelType
  <2>3. QED
    BY <2>1, <2>2
<1> HIDE DEF u, app
<1>4. TypeOK'
  BY <1>1, <1>3, QueueServed DEF Inv, TypeOK, TunnelType, Steps
<1>5. Assigned'
  <2>1. u = conn[c].tunnel
    BY DEF u
  <2>2. pc'[c] = "registered" /\ pc'[Forcer] = pc[Forcer] /\ \A d \in Conns \ {c} : pc'[d] = pc[d]
    BY <1>1, TrackerAssumption DEF Inv, TypeOK
  <2>3. QED
    BY <1>1, <1>2, <2>1, <2>2 DEF Inv, Assigned
<1>6. CountsItsOwn'
  BY <1>1, <1>2, <1>3 DEF Inv, TypeOK, CountsItsOwn, u, Steps
<1>7. OneToolPerTunnel'
  <2> SUFFICES ASSUME NEW v \in TunnelIds, NEW d \in tunnels'[v].sessions,
                      tunnels'[v].application # NoName
               PROVE  conn[d].application = tunnels'[v].application
    BY <1>1 DEF OneToolPerTunnel
  <2>1. CASE v # u
    BY <2>1, <1>3 DEF Inv, OneToolPerTunnel
  <2>2. CASE v = u /\ d = c
    BY <2>2, <1>3 DEF app
  <2>3. CASE v = u /\ d # c
    <3>1. d \in tunnels[u].sessions
      BY <2>3, <1>3
    <3>2. tunnels[u].application = tunnels'[u].application
      BY <2>3, <3>1, <1>3
    <3>3. QED
      BY <2>3, <3>1, <3>2 DEF Inv, OneToolPerTunnel
  <2>4. QED
    BY <2>1, <2>2, <2>3
<1>8. QED
  BY <1>4, <1>5, <1>6, <1>7 DEF Inv

\* A registered connection ends, or is dropped: it is still counted.
LEMMA EndKeepsInv ==
  ASSUME Inv, NEW c \in Conns, End(c) \/ LoginFails(c)
  PROVE  Inv'
<1> DEFINE step == IF End(c) THEN "release" ELSE "dropped"
<1>1. /\ pc[c] = "registered" /\ pc' = [pc EXCEPT ![c] = step]
      /\ waiting' = waiting \/ waiting' = Append(waiting, c)
      /\ UNCHANGED <<tunnels, active_sessions, conn, forced, holder, readers>>
  BY DEF End, LoginFails, Request, Goto, lockVars
<1>2. step \in {"release", "dropped"}
  OBVIOUS
<1> HIDE DEF step
<1>3. waiting' \in Seq(Conns \cup {Forcer})
  <2>1. waiting \in Seq(Conns \cup {Forcer}) /\ c \in Conns \cup {Forcer}
    BY DEF Inv, TypeOK
  <2>2. QED
    BY <1>1, <2>1, QueueTypes
<1>4. TypeOK'
  BY <1>1, <1>2, <1>3 DEF Inv, TypeOK, Steps
<1>5. pc'[c] = step /\ pc'[Forcer] = pc[Forcer] /\ \A d \in Conns \ {c} : pc'[d] = pc[d]
  BY <1>1, TrackerAssumption DEF Inv, TypeOK
<1>6. Assigned' /\ CountsItsOwn' /\ OneToolPerTunnel'
  BY <1>1, <1>2, <1>5 DEF Inv, Assigned, CountsItsOwn, OneToolPerTunnel
<1>7. QED
  BY <1>4, <1>6 DEF Inv

\* Tunnel u loses connections, and only u does.
LEMMA WithoutTypes ==
  ASSUME Inv, NEW u \in TunnelIds, NEW c \in Conns,
         tunnels' = [tunnels EXCEPT ![u] = Without(@, c)] \/
         tunnels' = [tunnels EXCEPT ![u] = NoTunnel]
  PROVE  /\ tunnels' \in [TunnelIds -> TunnelType]
         /\ \A v \in TunnelIds : /\ tunnels'[v].sessions \subseteq tunnels[v].sessions
                                 /\ tunnels'[v].sessions # {}
                                      => tunnels'[v].application = tunnels[v].application
         /\ c \notin tunnels'[u].sessions
         /\ \A v \in TunnelIds \ {u} : tunnels'[v] = tunnels[v]
<1>1. tunnels \in [TunnelIds -> TunnelType] /\ tunnels[u] \in TunnelType
  BY DEF Inv, TypeOK, TunnelType
<1>2. NoTunnel \in TunnelType /\ NoTunnel.sessions = {}
  BY DEF NoTunnel, TunnelType
<1>3. /\ Without(tunnels[u], c) \in TunnelType
      /\ Without(tunnels[u], c).sessions \subseteq tunnels[u].sessions \ {c}
      /\ Without(tunnels[u], c).sessions # {}
           => Without(tunnels[u], c).application = tunnels[u].application
  BY <1>1, <1>2 DEF Without, TunnelType
<1> DEFINE new == tunnels'[u]
<1>4. /\ tunnels' = [tunnels EXCEPT ![u] = new]
      /\ new = Without(tunnels[u], c) \/ new = NoTunnel
  BY <1>1
<1>5. /\ new \in TunnelType /\ new.sessions \subseteq tunnels[u].sessions \ {c}
      /\ new.sessions # {} => new.application = tunnels[u].application
  BY <1>2, <1>3, <1>4
<1> HIDE DEF new
<1>6. /\ tunnels' \in [TunnelIds -> TunnelType]
      /\ \A v \in TunnelIds \ {u} : tunnels'[v] = tunnels[v]
      /\ tunnels'[u] = new
  BY <1>1, <1>4, <1>5
<1>7. QED
  BY <1>5, <1>6

\* A connection is released.
LEMMA ReleaseKeepsInv ==
  ASSUME Inv, NEW c \in Conns, Release(c)
  PROVE  Inv'
<1> DEFINE u == conn[c].tunnel
           step == pc'[c]
           r == conn'[c]
<1>1. /\ pc[c] = "release" /\ waiting # << >> /\ waiting' = Tail(waiting)
      /\ tunnels' = [tunnels EXCEPT ![u] = Without(@, c)]
      /\ UNCHANGED <<active_sessions, forced, holder, readers>>
  BY DEF Release, GrantedToWrite, Granted, Leave
<1>2. /\ pc' = [pc EXCEPT ![c] = step] /\ conn' = [conn EXCEPT ![c] = r]
      /\ \/ step = "idle" /\ r = NotAccepted
         \/ step = "disconnect" /\ r = conn[c] /\ conn[c].target # NoTarget
  BY DEF Release, Leave, Over, Goto, Inv, TypeOK
<1>3. u \in TunnelIds /\ conn[c] \in ConnType
  BY <1>1 DEF Inv, Assigned, TypeOK, ConnType
<1>4. /\ tunnels' \in [TunnelIds -> TunnelType]
      /\ \A v \in TunnelIds : /\ tunnels'[v].sessions \subseteq tunnels[v].sessions
                              /\ tunnels'[v].sessions # {}
                                   => tunnels'[v].application = tunnels[v].application
      /\ \A v \in TunnelIds : c \notin tunnels'[v].sessions
  <2>1. \A v \in TunnelIds \ {u} : c \notin tunnels[v].sessions
    BY DEF Inv, CountsItsOwn
  <2>2. QED
    BY <1>1, <1>3, <2>1, WithoutTypes
<1>5. /\ r \in ConnType /\ step \in Steps
      /\ step # "idle" => r.tunnel \in TunnelIds
      /\ r.target \in Targets => r.tunnel \in Sessions
      /\ step \in {"claim", "look", "undo", "withdraw", "disconnect"} => r.target \in Targets
  BY <1>2, <1>3, TrackerAssumption DEF Inv, Assigned, NotAccepted, ConnType, Steps
<1> HIDE DEF step, r
<1>6. TypeOK'
  BY <1>1, <1>2, <1>4, <1>5, QueueServed DEF Inv, TypeOK, TunnelType, ConnType
<1>7. Assigned'
  BY <1>1, <1>2, <1>5, AssignedMoves
<1>8. \A d \in Conns \ {c} : pc'[d] = pc[d] /\ conn'[d] = conn[d]
  BY <1>2 DEF Inv, TypeOK
<1>9. \A v \in TunnelIds : tunnels'[v].sessions \subseteq Conns \ {c}
  BY <1>4 DEF TunnelType
<1>10. CountsItsOwn'
  BY <1>4, <1>8, <1>9 DEF Inv, CountsItsOwn
<1>11. OneToolPerTunnel'
  BY <1>4, <1>8, <1>9 DEF Inv, OneToolPerTunnel
<1>12. QED
  BY <1>6, <1>7, <1>10, <1>11 DEF Inv

\* force_release_tunnel.
LEMMA ForceKeepsInv ==
  ASSUME Inv, (\E s \in Sessions : ForceRelease(s)) \/ ForceRemove \/ ForceDisconnect
  PROVE  Inv'
<1> DEFINE step == pc'[Forcer]
<1>1. /\ pc' = [pc EXCEPT ![Forcer] = step] /\ conn' = conn
      /\ holder' = holder /\ readers' = readers
      /\ step \in {"idle", "release", "disconnect"}
  BY DEF ForceRelease, ForceRemove, ForceDisconnect, Request, Leave, Goto, lockVars, Inv, TypeOK
<1>2. step # "idle" => forced' \in Sessions
  BY DEF ForceRelease, ForceRemove, ForceDisconnect, Request, Leave, Goto, lockVars,
         GrantedToWrite, Granted, Inv, TypeOK, Assigned
<1>3. forced' \in Sessions \cup {NoOne}
  BY DEF ForceRelease, ForceRemove, ForceDisconnect, Inv, TypeOK
<1>4. waiting' \in Seq(Conns \cup {Forcer})
  <2>1. waiting \in Seq(Conns \cup {Forcer}) /\ Forcer \in Conns \cup {Forcer}
    BY DEF Inv, TypeOK
  <2>2. CASE \E s \in Sessions : ForceRelease(s)
    BY <2>1, <2>2, QueueTypes DEF ForceRelease, Request
  <2>3. CASE ForceRemove
    BY <2>3, QueueServed DEF ForceRemove, Leave, GrantedToWrite, Granted
  <2>4. CASE ForceDisconnect
    BY <2>1, <2>4 DEF ForceDisconnect, lockVars
  <2>5. QED
    BY <2>2, <2>3, <2>4
<1>5. active_sessions' \in ClaimsType
  <2>1. active_sessions \in ClaimsType
    BY DEF Inv, TypeOK, ClaimsType, ClaimType
  <2>2. CASE ForceDisconnect
    <3>1. \A t \in Targets : [active_sessions[t] EXCEPT !.last_disconnect = "recent"] \in ClaimType
      BY <2>1 DEF ClaimsType, ClaimType
    <3>2. QED
      BY <2>1, <2>2, <3>1 DEF ForceDisconnect, ClaimsType
  <2>3. CASE ~ForceDisconnect
    BY <2>1, <2>3 DEF ForceRelease, ForceRemove
  <2>4. QED
    BY <2>2, <2>3
<1>6. /\ tunnels' \in [TunnelIds -> TunnelType]
      /\ \A v \in TunnelIds : /\ tunnels'[v].sessions \subseteq tunnels[v].sessions
                              /\ tunnels'[v].sessions # {}
                                   => tunnels'[v].application = tunnels[v].application
  <2>1. tunnels \in [TunnelIds -> TunnelType]
    BY DEF Inv, TypeOK, TunnelType
  <2>2. CASE ForceRemove
    <3>1. tunnels' = [tunnels EXCEPT ![forced] = NoTunnel]
      BY <2>2 DEF ForceRemove
    <3>2. NoTunnel \in TunnelType /\ NoTunnel.sessions = {}
      BY DEF NoTunnel, TunnelType
    <3>3. QED
      BY <2>1, <3>1, <3>2
  <2>3. CASE ~ForceRemove
    BY <2>1, <2>3 DEF ForceRelease, ForceDisconnect
  <2>4. QED
    BY <2>2, <2>3
<1> HIDE DEF step
<1>7. TypeOK'
  BY <1>1, <1>3, <1>4, <1>5, <1>6 DEF Inv, TypeOK, TunnelType, ClaimsType, ClaimType, Steps
<1>8. pc'[Forcer] = step /\ \A c \in Conns : pc'[c] = pc[c]
  BY <1>1, TrackerAssumption DEF Inv, TypeOK
<1>9. Assigned'
  BY <1>1, <1>2, <1>8 DEF Inv, Assigned
<1>10. \A u \in TunnelIds : tunnels[u].sessions \subseteq Conns
  BY DEF Inv, TypeOK
<1>11. CountsItsOwn'
  BY <1>1, <1>6, <1>8, <1>10 DEF Inv, CountsItsOwn
<1>12. OneToolPerTunnel'
  BY <1>1, <1>6 DEF Inv, OneToolPerTunnel
<1>13. QED
  BY <1>7, <1>9, <1>11, <1>12 DEF Inv

\* The clean-up task, and time.
LEMMA TimeKeepsInv ==
  ASSUME Inv,
         \/ cleanup_stale_sessions
         \/ \E t \in Targets : Age(t)
  PROVE  Inv'
<1>1. UNCHANGED <<tunnels, pc, conn, forced, holder, readers, waiting>>
  BY DEF cleanup_stale_sessions, Age, lockVars
<1>2. active_sessions \in ClaimsType
  BY DEF Inv, TypeOK, ClaimsType, ClaimType
<1>3. active_sessions' \in ClaimsType
  <2>1. CASE cleanup_stale_sessions
    <3>1. NoClaim \in ClaimType
      BY DEF NoClaim, ClaimType
    <3>2. QED
      BY <1>2, <2>1, <3>1 DEF cleanup_stale_sessions, ClaimsType
  <2>2. CASE \E t \in Targets : Age(t)
    BY <1>2, <2>2 DEF Age, ClaimsType, ClaimType
  <2>3. QED
    BY <2>1, <2>2
<1>4. TypeOK'
  BY <1>1, <1>3 DEF Inv, TypeOK, ClaimsType, ClaimType
<1>5. Assigned' /\ CountsItsOwn' /\ OneToolPerTunnel'
  BY <1>1 DEF Inv, Assigned, CountsItsOwn, OneToolPerTunnel
<1>6. QED
  BY <1>4, <1>5 DEF Inv

\* Every step keeps Inv.
LEMMA NextKeepsInv == Inv /\ [Next]_vars => Inv'
<1> SUFFICES ASSUME Inv, [Next]_vars PROVE Inv'
  OBVIOUS
<1>1. ASSUME NEW c \in Conns, NEW n \in Names \cup {NoName}, NEW u \in Sessions,
             NEW t \in Targets, Accept(c, u, t, n)
      PROVE  Inv'
  <2>1. u \in TunnelIds
    BY DEF TunnelIds
  <2>2. QED
    BY <1>1, <2>1, AcceptKeepsInv DEF Accept
<1>2. ASSUME NEW c \in Conns, NEW n \in Names \cup {NoName}, NEW a \in Addresses,
             AcceptWithoutSession(c, a, n)
      PROVE  Inv'
  <2>1. a \in TunnelIds /\ NoTarget \notin Targets
    BY TrackerAssumption DEF TunnelIds
  <2>2. QED
    BY <1>2, <2>1, AcceptKeepsInv DEF AcceptWithoutSession
<1>3. ASSUME NEW c \in Conns, Connection(c)
      PROVE  Inv'
  BY <1>3, ClaimKeepsInv, UncountedKeepsInv, RegisterKeepsInv, EndKeepsInv, ReleaseKeepsInv
     DEF Connection
<1>4. CASE UNCHANGED vars
  BY <1>4 DEF vars, lockVars, Inv, TypeOK, Assigned, CountsItsOwn, OneToolPerTunnel
<1>5. QED
  BY <1>1, <1>2, <1>3, <1>4, ForceKeepsInv, TimeKeepsInv DEF Next

\* Inv is an invariant.
LEMMA Invariance == Spec => []Inv
  BY InitInv, NextKeepsInv, PTL DEF Spec

\* The state of the tracker keeps its shape.
THEOREM TypeCorrect == Spec => []TypeOK
<1>1. Inv => TypeOK
  BY DEF Inv
<1>2. QED
  BY <1>1, Invariance, PTL

\* A tunnel counts only its own connections, each from its registration to its
\* release, however try_register_with_limits_and_app, release_session and
\* force_release_tunnel interleave.
THEOREM CountsOnlyItsOwn == Spec => []CountsItsOwn
<1>1. Inv => CountsItsOwn
  BY DEF Inv
<1>2. QED
  BY <1>1, Invariance, PTL

\* All connections of a tunnel whose first connection named its application
\* are of that application.
THEOREM OneTool == Spec => []OneToolPerTunnel
<1>1. Inv => OneToolPerTunnel
  BY DEF Inv
<1>2. QED
  BY <1>1, Invariance, PTL

-----------------------------------------------------------------------------
\* The steps that change a tunnel.
LEMMA TunnelSteps ==
  ASSUME [Next]_vars
  PROVE  \/ tunnels' = tunnels
         \/ \E c \in Conns : Register(c) \/ Release(c)
         \/ ForceRemove
<1>1. CASE UNCHANGED vars
  BY <1>1 DEF vars
<1>2. ASSUME NEW c \in Conns, Connection(c)
      PROVE  tunnels' = tunnels \/ Register(c) \/ Release(c)
  BY <1>2 DEF Connection, ClaimFree, ClaimOwn, ClaimContested, TakeOver, Enlist, RegisterFails,
              Undo, Withdraw, End, LoginFails, Disconnect
<1>3. CASE \E c \in Conns, n \in Names \cup {NoName} :
             \/ \E u \in Sessions, t \in Targets : Accept(c, u, t, n)
             \/ \E a \in Addresses : AcceptWithoutSession(c, a, n)
  BY <1>3 DEF Accept, AcceptWithoutSession
<1>4. CASE \/ \E s \in Sessions : ForceRelease(s)
           \/ ForceDisconnect \/ cleanup_stale_sessions
           \/ \E t \in Targets : Age(t)
  BY <1>4 DEF ForceRelease, ForceDisconnect, cleanup_stale_sessions, Age
<1>5. QED
  BY <1>1, <1>2, <1>3, <1>4 DEF Next

\* What a registration does to the connections of each tunnel.
LEMMA RegisterAdds ==
  ASSUME Inv, NEW c \in Conns, Register(c), NEW u \in TunnelIds
  PROVE  \/ tunnels'[u].sessions = tunnels[u].sessions
         \/ tunnels'[u].sessions = {c}
         \/ /\ tunnels'[u].sessions = tunnels[u].sessions \cup {c}
            /\ ~(Cardinality(tunnels[u].sessions) >= MaxConnections)
<1>1. tunnels \in [TunnelIds -> TunnelType]
  BY DEF Inv, TypeOK, TunnelType
<1>2. tunnels' = [tunnels EXCEPT ![conn[c].tunnel] = With(tunnels[conn[c].tunnel], c)]
  BY DEF Register
<1>3. CASE u # conn[c].tunnel
  BY <1>1, <1>2, <1>3
<1>4. CASE u = conn[c].tunnel /\ tunnels[u] = NoTunnel
  <2>1. With(tunnels[u], c).sessions = {c}
    BY <1>4 DEF With
  <2>2. QED
    BY <1>1, <1>2, <1>4, <2>1
<1>5. CASE u = conn[c].tunnel /\ tunnels[u] # NoTunnel
  <2>1. With(tunnels[u], c).sessions = tunnels[u].sessions \cup {c}
    BY <1>1, <1>5 DEF With, TunnelType
  <2>2. ~(Cardinality(tunnels[u].sessions) >= MaxConnections)
    BY <1>5 DEF Register, Refused
  <2>3. QED
    BY <1>1, <1>2, <1>5, <2>1, <2>2
<1>6. QED
  BY <1>3, <1>4, <1>5

\* A registration is undone only by its own release.
LEMMA ReleaseRemoves ==
  ASSUME Inv, NEW c \in Conns, Release(c), NEW u \in TunnelIds
  PROVE  /\ tunnels'[u].sessions \subseteq tunnels[u].sessions
         /\ tunnels[u].sessions \ tunnels'[u].sessions \subseteq {c}
         /\ pc[c] = "release" /\ pc'[c] # "release"
<1>1. tunnels \in [TunnelIds -> TunnelType]
  BY DEF Inv, TypeOK, TunnelType
<1>2. /\ tunnels' = [tunnels EXCEPT ![conn[c].tunnel] = Without(tunnels[conn[c].tunnel], c)]
      /\ pc[c] = "release" /\ pc'[c] # "release"
  BY DEF Release, GrantedToWrite, Granted, Leave, Over, Goto, Inv, TypeOK
<1>3. CASE u # conn[c].tunnel
  BY <1>1, <1>2, <1>3
<1>4. CASE u = conn[c].tunnel
  <2>1. /\ Without(tunnels[u], c).sessions \subseteq tunnels[u].sessions
        /\ tunnels[u].sessions \ Without(tunnels[u], c).sessions \subseteq {c}
    BY <1>1 DEF Without, TunnelType, NoTunnel
  <2>2. QED
    BY <1>1, <1>2, <1>4, <2>1
<1>5. QED
  BY <1>3, <1>4

\* Counting one more connection keeps within the limit.
LEMMA LimitKept ==
  ASSUME Inv, LimitHolds, [Next]_vars, NEW u \in TunnelIds
  PROVE  Cardinality(tunnels'[u].sessions) <= MaxConnections
<1>1. /\ tunnels[u].sessions \in SUBSET Conns
      /\ IsFiniteSet(Conns) /\ MaxConnections \in Nat \ {0}
  BY TrackerAssumption DEF Inv, TypeOK
<1>2. /\ IsFiniteSet(tunnels[u].sessions) /\ Cardinality(tunnels[u].sessions) \in Nat
      /\ Cardinality(tunnels[u].sessions) <= MaxConnections
  BY <1>1, FS_Subset, FS_CardinalityType DEF LimitHolds
<1>3. ASSUME tunnels'[u].sessions \subseteq tunnels[u].sessions
      PROVE  Cardinality(tunnels'[u].sessions) <= MaxConnections
  <2>1. /\ Cardinality(tunnels'[u].sessions) <= Cardinality(tunnels[u].sessions)
        /\ IsFiniteSet(tunnels'[u].sessions)
    BY <1>2, <1>3, FS_Subset
  <2>2. Cardinality(tunnels'[u].sessions) \in Nat
    BY <2>1, FS_CardinalityType
  <2>3. QED
    BY <1>1, <1>2, <2>1, <2>2
<1>4. ASSUME NEW c \in Conns, Register(c)
      PROVE  Cardinality(tunnels'[u].sessions) <= MaxConnections
  <2>1. CASE tunnels'[u].sessions = tunnels[u].sessions
    BY <1>3, <2>1
  <2>2. CASE tunnels'[u].sessions = {c}
    BY <1>1, <2>2, FS_Singleton
  <2>3. CASE /\ tunnels'[u].sessions = tunnels[u].sessions \cup {c}
             /\ ~(Cardinality(tunnels[u].sessions) >= MaxConnections)
    <3>1. Cardinality(tunnels[u].sessions \cup {c}) =
            IF c \in tunnels[u].sessions THEN Cardinality(tunnels[u].sessions)
                                         ELSE Cardinality(tunnels[u].sessions) + 1
      BY <1>2, FS_AddElement
    <3>2. QED
      BY <1>1, <1>2, <2>3, <3>1
  <2>4. QED
    BY <1>4, <2>1, <2>2, <2>3, RegisterAdds
<1>5. ASSUME NEW c \in Conns, Release(c)
      PROVE  tunnels'[u].sessions \subseteq tunnels[u].sessions
  BY <1>5, ReleaseRemoves
<1>6. CASE ForceRemove
  <2>1. tunnels \in [TunnelIds -> TunnelType] /\ tunnels' = [tunnels EXCEPT ![forced] = NoTunnel]
    BY <1>6 DEF ForceRemove, Inv, TypeOK, TunnelType
  <2>2. tunnels'[u].sessions \subseteq tunnels[u].sessions
    BY <2>1 DEF NoTunnel
  <2>3. QED
    BY <1>3, <2>2
<1>7. QED
  BY <1>3, <1>4, <1>5, <1>6, TunnelSteps

\* No tunnel ever counts more than max_connections connections: the limit is
\* checked and the connection counted under one write lock.
THEOREM ConnectionLimit == Spec => []LimitHolds
<1>1. Init => LimitHolds
  <2>1. Init => \A u \in TunnelIds : tunnels[u].sessions = {}
    BY DEF Init, NoTunnel
  <2>2. Cardinality({}) <= MaxConnections
    BY FS_EmptySet, TrackerAssumption
  <2>3. QED
    BY <2>1, <2>2 DEF LimitHolds
<1>2. Inv /\ LimitHolds /\ [Next]_vars => LimitHolds'
  BY LimitKept DEF LimitHolds
<1>3. QED
  BY <1>1, <1>2, Invariance, PTL DEF Spec

\* A registration is taken away only by its own release_session, or by the
\* force_release_tunnel of its session.
THEOREM RegistrationSurvives == Spec => OnlyOwnRelease
<1>1. ASSUME Inv, [Next]_vars, NEW u \in TunnelIds,
             NEW c \in tunnels[u].sessions \ tunnels'[u].sessions
      PROVE  \/ pc[c] = "release" /\ pc'[c] # "release"
             \/ pc[Forcer] = "release" /\ forced = u
  <2>1. tunnels \in [TunnelIds -> TunnelType]
    BY <1>1 DEF Inv, TypeOK, TunnelType
  <2>2. CASE \E d \in Conns : Register(d)
    <3>1. PICK d \in Conns : Register(d)
      BY <2>2
    <3>2. \/ tunnels'[u].sessions = tunnels[u].sessions
          \/ tunnels'[u].sessions = tunnels[u].sessions \cup {d}
          \/ tunnels[u] = NoTunnel
      BY <1>1, <2>1, <3>1 DEF Register, With, TunnelType
    <3>3. QED
      BY <3>2 DEF NoTunnel
  <2>3. CASE \E d \in Conns : Release(d)
    <3>1. PICK d \in Conns : Release(d)
      BY <2>3
    <3>2. c = d /\ pc[d] = "release" /\ pc'[d] # "release"
      BY <1>1, <3>1, ReleaseRemoves
    <3>3. QED
      BY <3>2
  <2>4. CASE ForceRemove
    BY <1>1, <2>1, <2>4 DEF ForceRemove, GrantedToWrite, Granted
  <2>5. CASE tunnels' = tunnels
    BY <2>5
  <2>6. QED
    BY <1>1, <2>2, <2>3, <2>4, <2>5, TunnelSteps
<1>2. Inv /\ [Next]_vars =>
        [\A u \in TunnelIds : \A c \in tunnels[u].sessions \ tunnels'[u].sessions :
           \/ pc[c] = "release" /\ pc'[c] # "release"
           \/ pc[Forcer] = "release" /\ forced = u]_vars
  BY <1>1
<1>3. QED
  BY <1>2, Invariance, PTL DEF Spec, OnlyOwnRelease

-----------------------------------------------------------------------------
\* The claims of sessions that each connect to one target.

\* Connections of a session are all for its target.
OneTargetEach(Home) ==
  \A c \in Conns : conn[c].tunnel \in Sessions => conn[c].target = Home[conn[c].tunnel]

\* Steps from which a connection goes on to a tunnel that is not empty, or to
\* the end of its claim.
Heading == {"limits", "register", "undo", "withdraw", "disconnect"}

Covered(s) ==
  \/ tunnels[s] # NoTunnel
  \/ \E c \in Conns : conn[c].tunnel = s /\ pc[c] \in Heading
  \/ forced = s

\* A claim is for the target of its session, and covered while it is connected.
Held(Home, t) ==
  active_sessions[t] # NoClaim =>
    /\ active_sessions[t].uid \in Sessions /\ Home[active_sessions[t].uid] = t
    /\ active_sessions[t].last_disconnect = "none" => Covered(active_sessions[t].uid)

ClaimsHeld(Home) ==
  /\ pc[Forcer] = "idle" => forced = NoOne
  /\ \A t \in Targets : Held(Home, t)

\* A step of connection c leaves the others and force_release_tunnel alone.
LEMMA OnlyItMoves ==
  ASSUME Inv, NEW c \in Conns, Connection(c)
  PROVE  /\ \A d \in Conns \ {c} : pc'[d] = pc[d] /\ conn'[d] = conn[d]
         /\ conn'[c] = conn[c] \/ (conn'[c] = NotAccepted /\ pc'[c] = "idle")
         /\ pc'[Forcer] = pc[Forcer] /\ forced' = forced
<1>1. /\ pc \in [Conns \cup {Forcer} -> Steps] /\ Forcer # c /\ Forcer \notin Conns
      /\ DOMAIN conn = Conns
  BY TrackerAssumption DEF Inv, TypeOK
<1>2. forced' = forced
  BY DEF Connection, ClaimFree, ClaimOwn, ClaimContested, TakeOver, Enlist, Register,
         RegisterFails, Undo, Withdraw, End, LoginFails, Release, Disconnect
<1>3. (Over(c) \/ (\E step \in Steps : Goto(c, step) /\ UNCHANGED conn))
  <2>1. \A step \in {"limits", "look", "register", "undo", "registered", "withdraw", "release",
                     "dropped", "disconnect"} : step \in Steps
    BY DEF Steps
  <2>2. CASE ClaimFree(c) \/ ClaimOwn(c) \/ ClaimContested(c) \/ TakeOver(c)
    BY <2>1, <2>2 DEF ClaimFree, ClaimOwn, ClaimContested, TakeOver, Request
  <2>3. CASE Enlist(c) \/ Register(c) \/ RegisterFails(c) \/ Undo(c) \/ Withdraw(c)
    BY <2>1, <2>3 DEF Enlist, Register, RegisterFails, Undo, Withdraw, Request, RequestAgain, Leave
  <2>4. CASE End(c) \/ LoginFails(c) \/ Release(c) \/ Disconnect(c)
    BY <2>1, <2>4 DEF End, LoginFails, Release, Disconnect, Request, Leave
  <2>5. QED
    BY <2>2, <2>3, <2>4 DEF Connection
<1>4. QED
  BY <1>1, <1>2, <1>3 DEF Over, Goto

\* A session stays covered if the connection that moves does not leave it bare.
LEMMA CoverKept ==
  ASSUME Inv, NEW c \in Conns, NEW s, Covered(s), forced' = forced,
         \A d \in Conns \ {c} : pc'[d] = pc[d] /\ conn'[d] = conn[d],
         tunnels[s] # NoTunnel \/ (conn[c].tunnel = s /\ pc[c] \in Heading) =>
           tunnels'[s] # NoTunnel \/ (conn'[c].tunnel = s /\ pc'[c] \in Heading)
  PROVE  Covered(s)'
<1>1. CASE tunnels[s] # NoTunnel
  BY <1>1 DEF Covered
<1>2. CASE forced = s
  BY <1>2 DEF Covered
<1>3. ASSUME NEW d \in Conns, conn[d].tunnel = s, pc[d] \in Heading
      PROVE  Covered(s)'
  <2>1. CASE d = c
    BY <1>3, <2>1 DEF Covered
  <2>2. CASE d # c
    BY <1>3, <2>2 DEF Covered
  <2>3. QED
    BY <2>1, <2>2
<1>4. QED
  BY <1>1, <1>2, <1>3 DEF Covered

\* A claim that is not changed stays held if its session stays covered.
LEMMA HeldKept ==
  ASSUME NEW Home, NEW t \in Targets, Held(Home, t), active_sessions'[t] = active_sessions[t],
         \A s \in Sessions : Covered(s) => Covered(s)'
  PROVE  Held(Home, t)'
  BY DEF Held

\* A connection claims its target, takes it over, or is turned away.
LEMMA ClaimKeepsHeld ==
  ASSUME NEW Home, Inv, OneTargetEach(Home), ClaimsHeld(Home), NEW c \in Conns,
         ClaimFree(c) \/ ClaimOwn(c) \/ ClaimContested(c) \/ TakeOver(c), NEW t \in Targets
  PROVE  Held(Home, t)'
<1>1. pc[c] \in {"claim", "look"} /\ tunnels' = tunnels /\ Connection(c)
  BY DEF ClaimFree, ClaimOwn, ClaimContested, TakeOver, Granted, Connection
<1>2. \A s \in Sessions : Covered(s) => Covered(s)'
  <2>1. pc[c] \notin Heading
    BY <1>1 DEF Heading
  <2>2. QED
    BY <1>1, <2>1, OnlyItMoves, CoverKept
<1>3. CASE active_sessions'[t] = active_sessions[t]
  BY <1>2, <1>3, HeldKept DEF ClaimsHeld
<1>4. CASE active_sessions'[t] # active_sessions[t]
  <2>1. conn[c].target \in Targets /\ conn[c].tunnel \in Sessions /\ active_sessions \in ClaimsType
    BY <1>1, ClaimTypes
  <2>2. PICK claim :
          /\ SetClaim(c, claim) /\ claim.uid = conn[c].tunnel /\ Goto(c, "limits") /\ conn' = conn
    <3>1. OwnClaim(c).uid = conn[c].tunnel
      BY DEF OwnClaim
    <3>2. CASE ClaimFree(c) \/ TakeOver(c)
      BY <1>4, <3>1, <3>2 DEF ClaimFree, TakeOver
    <3>3. CASE ClaimOwn(c)
      <4>1. /\ Goto(c, "limits") /\ conn' = conn /\ ClaimOf(c).uid = conn[c].tunnel
            /\ \/ SetClaim(c, OwnClaim(c)) \/ SetClaim(c, ClaimOf(c))
               \/ SetClaim(c, [ClaimOf(c) EXCEPT !.last_disconnect = "none"])
        BY <1>4, <3>3, Zenon DEF ClaimOwn
      <4>2. [ClaimOf(c) EXCEPT !.last_disconnect = "none"].uid = ClaimOf(c).uid
        BY <1>1, ClaimTypes DEF ClaimType
      <4>3. QED
        BY <3>1, <4>1, <4>2
    <3>4. CASE ClaimContested(c)
      BY <1>4, <3>4 DEF ClaimContested
    <3>5. QED
      BY <3>2, <3>3, <3>4
  <2>3. t = conn[c].target /\ active_sessions'[t] = claim
    BY <1>4, <2>1, <2>2 DEF SetClaim, ClaimsType
  <2>4. Home[claim.uid] = t
    BY <2>1, <2>2, <2>3 DEF OneTargetEach
  <2>5. pc'[c] \in Heading /\ conn'[c].tunnel = claim.uid
    BY <2>2 DEF Goto, Heading, Inv, TypeOK
  <2>6. Covered(claim.uid)'
    BY <2>5 DEF Covered
  <2>7. QED
    BY <2>1, <2>2, <2>3, <2>4, <2>6 DEF Held
<1>5. QED
  BY <1>3, <1>4

\* A connection is counted, refused, or ends.
LEMMA CountKeepsHeld ==
  ASSUME NEW Home, Inv, OneTargetEach(Home), ClaimsHeld(Home), Home \in [Sessions -> Targets],
         NEW c \in Conns,
         \/ Enlist(c) \/ Register(c) \/ RegisterFails(c) \/ Undo(c)
         \/ End(c) \/ LoginFails(c) \/ Release(c),
         NEW t \in Targets
  PROVE  Held(Home, t)'
<1>1. active_sessions' = active_sessions /\ Connection(c)
  BY DEF Enlist, Register, RegisterFails, Undo, End, LoginFails, Release, lockVars, Connection
<1>2. /\ \A d \in Conns \ {c} : pc'[d] = pc[d] /\ conn'[d] = conn[d]
      /\ forced' = forced
  BY <1>1, OnlyItMoves
<1>t. /\ tunnels \in [TunnelIds -> TunnelType] /\ pc \in [Conns \cup {Forcer} -> Steps]
      /\ Sessions \subseteq TunnelIds
  BY DEF Inv, TypeOK, TunnelType, TunnelIds
<1>3. ASSUME NEW s \in Sessions,
             tunnels[s] # NoTunnel \/ (conn[c].tunnel = s /\ pc[c] \in Heading)
      PROVE  tunnels'[s] # NoTunnel \/ (conn'[c].tunnel = s /\ pc'[c] \in Heading)
  <2>1. CASE Enlist(c)
    <3>1. tunnels' = tunnels /\ conn' = conn /\ pc'[c] \in Heading
      BY <2>1, <1>t DEF Enlist, Request, Goto, Heading
    <3>2. QED
      BY <1>3, <3>1
  <2>2. CASE Register(c)
    <3>1. tunnels' = [tunnels EXCEPT ![conn[c].tunnel] = With(tunnels[conn[c].tunnel], c)]
      BY <2>2 DEF Register
    <3>2. \A tunnel \in TunnelType : With(tunnel, c) # NoTunnel
      BY DEF With, TunnelType, NoTunnel
    <3>3. QED
      BY <1>3, <1>t, <3>1, <3>2
  <2>3. CASE RegisterFails(c)
    <3>1. tunnels' = tunnels /\ tunnels[conn[c].tunnel] # NoTunnel
      BY <2>3 DEF RegisterFails
    <3>2. QED
      BY <1>3, <3>1
  <2>4. CASE Undo(c)
    <3>1. tunnels' = tunnels
          /\ (tunnels[conn[c].tunnel] = NoTunnel => conn' = conn /\ Goto(c, "withdraw"))
      BY <2>4 DEF Undo, Leave
    <3>2. QED
      BY <1>3, <1>t, <3>1 DEF Goto, Heading
  <2>5. CASE End(c) \/ LoginFails(c)
    <3>1. tunnels' = tunnels /\ pc[c] \notin Heading
      BY <2>5 DEF End, LoginFails, Heading
    <3>2. QED
      BY <1>3, <3>1
  <2>6. CASE Release(c)
    <3>1. /\ pc[c] = "release"
          /\ tunnels' = [tunnels EXCEPT ![conn[c].tunnel] = Without(tunnels[conn[c].tunnel], c)]
      BY <2>6 DEF Release, GrantedToWrite, Granted
    <3>2. tunnels[s] # NoTunnel
      BY <1>3, <3>1 DEF Heading
    <3>3. CASE tunnels'[s] = NoTunnel
      <4>1. s = conn[c].tunnel
        BY <1>t, <3>1, <3>2, <3>3
      <4>2. conn[c].target # NoTarget
        BY <4>1, TrackerAssumption DEF OneTargetEach
      <4>3. Goto(c, "disconnect") /\ conn' = conn
        BY <2>6, <3>2, <3>3, <4>1, <4>2 DEF Release, Leave
      <4>4. QED
        BY <1>t, <4>1, <4>3 DEF Goto, Heading
    <3>4. QED
      BY <3>3
  <2>7. QED
    BY <2>1, <2>2, <2>3, <2>4, <2>5, <2>6
<1>4. \A s \in Sessions : Covered(s) => Covered(s)'
  BY <1>2, <1>3, CoverKept
<1>5. QED
  BY <1>1, <1>4, HeldKept DEF ClaimsHeld

\* The last connection of a session withdraws its claim or notes the disconnect.
LEMMA EndKeepsHeld ==
  ASSUME NEW Home, Inv, OneTargetEach(Home), ClaimsHeld(Home), NEW c \in Conns,
         Withdraw(c) \/ Disconnect(c), NEW t \in Targets
  PROVE  Held(Home, t)'
<1>1. pc[c] \in {"withdraw", "disconnect"} /\ tunnels' = tunnels /\ Connection(c)
  BY DEF Withdraw, Disconnect, Connection
<1>2. /\ \A d \in Conns \ {c} : pc'[d] = pc[d] /\ conn'[d] = conn[d]
      /\ forced' = forced
  BY <1>1, OnlyItMoves
<1>3. /\ conn[c].target \in Targets /\ conn[c].tunnel \in Sessions
      /\ active_sessions \in ClaimsType
  BY <1>1, ClaimTypes
<1>4. conn[c].target = Home[conn[c].tunnel]
  BY <1>3 DEF OneTargetEach
<1>5. \A s \in Sessions : s # conn[c].tunnel /\ Covered(s) => Covered(s)'
  BY <1>1, <1>2, CoverKept
<1>6. CASE t # conn[c].target
  <2>1. active_sessions'[t] = active_sessions[t]
    BY <1>3, <1>6 DEF Withdraw, Disconnect, SetClaim, ClaimsType
  <2>2. Held(Home, t)
    BY DEF ClaimsHeld
  <2>3. QED
    BY <1>4, <1>5, <1>6, <2>1, <2>2 DEF Held
<1>7. CASE t = conn[c].target /\ ClaimOf(c).uid # conn[c].tunnel
  <2>1. active_sessions'[t] = active_sessions[t] /\ active_sessions[t].uid # conn[c].tunnel
    BY <1>7 DEF Withdraw, Disconnect, ClaimOf
  <2>2. Held(Home, t)
    BY DEF ClaimsHeld
  <2>3. QED
    BY <1>5, <2>1, <2>2 DEF Held
<1>8. CASE t = conn[c].target /\ ClaimOf(c).uid = conn[c].tunnel
  <2>1. CASE Withdraw(c)
    <3>1. active_sessions'[t] = NoClaim
      BY <1>3, <1>8, <2>1 DEF Withdraw, SetClaim, ClaimsType
    <3>2. QED
      BY <3>1 DEF Held
  <2>2. CASE Disconnect(c)
    <3>1. active_sessions'[t] = [active_sessions[t] EXCEPT !.last_disconnect = "recent"]
      BY <1>3, <1>8, <2>2 DEF Disconnect, SetClaim, ClaimsType, ClaimOf
    <3>2. active_sessions'[t].uid = conn[c].tunnel /\ active_sessions'[t].last_disconnect = "recent"
      BY <1>3, <1>8, <3>1 DEF ClaimsType, ClaimType, ClaimOf
    <3>3. QED
      BY <1>3, <1>4, <1>8, <3>2 DEF Held
  <2>3. QED
    BY <2>1, <2>2
<1>9. QED
  BY <1>6, <1>7, <1>8

\* force_release_tunnel holds the claims of its session until it has noted that
\* they are disconnected.
LEMMA ForceKeepsHeld ==
  ASSUME NEW Home, Inv, ClaimsHeld(Home),
         (\E s \in Sessions : ForceRelease(s)) \/ ForceRemove \/ ForceDisconnect
  PROVE  ClaimsHeld(Home)'
<1>t. /\ tunnels \in [TunnelIds -> TunnelType] /\ pc \in [Conns \cup {Forcer} -> Steps]
      /\ Sessions \subseteq TunnelIds /\ NoOne \notin Sessions /\ Forcer \notin Conns
      /\ active_sessions \in ClaimsType
  BY TrackerAssumption DEF Inv, TypeOK, TunnelType, TunnelIds, ClaimsType, ClaimType
<1>1. conn' = conn /\ \A c \in Conns : pc'[c] = pc[c]
  BY <1>t DEF ForceRelease, ForceRemove, ForceDisconnect, Request, Leave, Goto
<1>2. ASSUME NEW s \in Sessions, ForceRelease(s)
      PROVE  ClaimsHeld(Home)'
  <2>1. /\ tunnels' = tunnels /\ active_sessions' = active_sessions /\ forced = NoOne
        /\ pc'[Forcer] = "release"
    BY <1>t, <1>2 DEF ForceRelease, Request, Goto, ClaimsHeld
  <2>2. \A u \in Sessions : Covered(u) => Covered(u)'
    BY <1>t, <1>1, <2>1 DEF Covered
  <2>3. QED
    BY <2>1, <2>2, HeldKept DEF ClaimsHeld
<1>3. CASE ForceRemove
  <2>1. /\ tunnels' = [tunnels EXCEPT ![forced] = NoTunnel] /\ active_sessions' = active_sessions
        /\ forced' = forced /\ pc'[Forcer] = "disconnect"
    BY <1>t, <1>3 DEF ForceRemove, Leave, Goto
  <2>2. \A u \in Sessions : Covered(u) => Covered(u)'
    BY <1>t, <1>1, <2>1 DEF Covered
  <2>3. QED
    BY <2>1, <2>2, HeldKept DEF ClaimsHeld
<1>4. CASE ForceDisconnect
  <2>1. /\ tunnels' = tunnels /\ forced' = NoOne
        /\ \A t \in Targets : active_sessions'[t] =
             IF active_sessions[t].uid = forced /\ active_sessions[t].last_disconnect = "none"
             THEN [active_sessions[t] EXCEPT !.last_disconnect = "recent"]
             ELSE active_sessions[t]
    BY <1>4 DEF ForceDisconnect
  <2>2. \A u \in Sessions : u # forced /\ Covered(u) => Covered(u)'
    BY <1>1, <2>1 DEF Covered
  <2>3. ASSUME NEW t \in Targets PROVE Held(Home, t)'
    <3>1. Held(Home, t) /\ active_sessions[t] \in ClaimType
      BY <1>t DEF ClaimsHeld, ClaimsType
    <3>2. CASE active_sessions[t].uid = forced /\ active_sessions[t].last_disconnect = "none"
      <4>1. /\ active_sessions'[t].uid = active_sessions[t].uid
            /\ active_sessions'[t].last_disconnect = "recent"
        BY <2>1, <3>1, <3>2 DEF ClaimType
      <4>2. active_sessions[t] # NoClaim
        <5>1. forced \in Sessions
          BY <1>4 DEF ForceDisconnect, Inv, Assigned
        <5>2. QED
          BY <1>t, <3>2, <5>1 DEF NoClaim
      <4>3. QED
        BY <3>1, <4>1, <4>2 DEF Held
    <3>3. CASE ~(active_sessions[t].uid = forced /\ active_sessions[t].last_disconnect = "none")
      <4>1. active_sessions'[t] = active_sessions[t]
        BY <2>1, <3>3
      <4>2. QED
        BY <2>2, <3>1, <3>3, <4>1 DEF Held
    <3>4. QED
      BY <3>2, <3>3
  <2>4. QED
    BY <2>1, <2>3 DEF ClaimsHeld
<1>5. QED
  BY <1>2, <1>3, <1>4

\* Claims are removed, or age, only after their session has disconnected.
LEMMA TimeKeepsHeld ==
  ASSUME NEW Home, Inv, ClaimsHeld(Home), cleanup_stale_sessions \/ \E t \in Targets : Age(t)
  PROVE  ClaimsHeld(Home)'
<1>1. UNCHANGED <<tunnels, pc, conn, forced>>
  BY DEF cleanup_stale_sessions, Age
<1>2. \A s \in Sessions : Covered(s) => Covered(s)'
  BY <1>1 DEF Covered
<1>t. active_sessions \in ClaimsType
  BY DEF Inv, TypeOK, ClaimsType, ClaimType
<1>3. ASSUME NEW t \in Targets PROVE Held(Home, t)'
  <2>1. Held(Home, t) /\ active_sessions[t] \in ClaimType
    BY <1>t DEF ClaimsHeld, ClaimsType
  <2>2. \/ active_sessions'[t] = active_sessions[t]
        \/ active_sessions'[t] = NoClaim
        \/ /\ active_sessions'[t].uid = active_sessions[t].uid
           /\ active_sessions'[t].last_disconnect # "none"
           /\ active_sessions[t] # NoClaim
    <3>1. CASE cleanup_stale_sessions
      BY <3>1 DEF cleanup_stale_sessions
    <3>2. ASSUME NEW v \in Targets, Age(v)
          PROVE  \/ active_sessions'[t] = active_sessions[t]
                 \/ /\ active_sessions'[t].uid = active_sessions[t].uid
                    /\ active_sessions'[t].last_disconnect # "none"
                    /\ active_sessions[t] # NoClaim
      <4>1. CASE t # v
        BY <1>t, <3>2, <4>1 DEF Age, ClaimsType
      <4>2. CASE t = v
        <5>1. /\ active_sessions[t].last_disconnect \in {"recent", "expired"}
              /\ active_sessions'[t] = [active_sessions[t] EXCEPT !.last_disconnect =
                   IF active_sessions[t].last_disconnect = "recent" THEN "expired" ELSE "stale"]
          BY <1>t, <3>2, <4>2 DEF Age, ClaimsType
        <5>2. QED
          BY <2>1, <5>1 DEF ClaimType, NoClaim
      <4>3. QED
        BY <4>1, <4>2
    <3>3. QED
      BY <3>1, <3>2
  <2>3. QED
    BY <1>2, <2>1, <2>2 DEF Held
<1>4. QED
  BY <1>1, <1>3 DEF ClaimsHeld

\* Every step keeps the claims held.
LEMMA ClaimsHeldStep ==
  ASSUME NEW Home \in [Sessions -> Targets], Inv, OneTargetEach(Home), ClaimsHeld(Home),
         [Next]_vars
  PROVE  ClaimsHeld(Home)'
<1>1. ASSUME NEW c \in Conns, pc[c] = "idle", UNCHANGED <<tunnels, active_sessions, forced>>,
             \E step \in {"claim", "limits"} : Goto(c, step),
             \A d \in Conns \ {c} : conn'[d] = conn[d]
      PROVE  ClaimsHeld(Home)'
  <2>1. /\ \A d \in Conns \ {c} : pc'[d] = pc[d]
        /\ pc'[Forcer] = pc[Forcer]
    BY <1>1, TrackerAssumption DEF Goto, Inv, TypeOK
  <2>2. pc[c] \notin Heading
    BY <1>1 DEF Heading
  <2>3. \A s \in Sessions : Covered(s) => Covered(s)'
    BY <1>1, <2>1, <2>2, CoverKept
  <2>4. QED
    BY <1>1, <2>1, <2>3, HeldKept DEF ClaimsHeld
<1>2. CASE \E c \in Conns, n \in Names \cup {NoName} :
             \/ \E u \in Sessions, t \in Targets : Accept(c, u, t, n)
             \/ \E a \in Addresses : AcceptWithoutSession(c, a, n)
  <2>1. PICK c \in Conns, n \in Names \cup {NoName} :
          \/ \E u \in Sessions, t \in Targets : Accept(c, u, t, n)
          \/ \E a \in Addresses : AcceptWithoutSession(c, a, n)
    BY <1>2
  <2>2. \A d \in Conns \ {c} : conn'[d] = conn[d]
    BY <2>1 DEF Accept, AcceptWithoutSession, Inv, TypeOK
  <2>3. /\ pc[c] = "idle" /\ UNCHANGED <<tunnels, active_sessions, forced>>
        /\ \E step \in {"claim", "limits"} : Goto(c, step)
    BY <2>1 DEF Accept, AcceptWithoutSession
  <2>4. QED
    BY <1>1, <2>2, <2>3
<1>3. ASSUME NEW c \in Conns, Connection(c)
      PROVE  ClaimsHeld(Home)'
  <2>1. \A t \in Targets : Held(Home, t)'
    BY <1>3, ClaimKeepsHeld, CountKeepsHeld, EndKeepsHeld DEF Connection
  <2>2. pc'[Forcer] = pc[Forcer] /\ forced' = forced
    BY <1>3, OnlyItMoves
  <2>3. QED
    BY <2>1, <2>2 DEF ClaimsHeld
<1>4. CASE UNCHANGED vars
  BY <1>4 DEF vars, ClaimsHeld, Held, Covered
<1>5. QED
  BY <1>2, <1>3, <1>4, ForceKeepsHeld, TimeKeepsHeld DEF Next

LEMMA ClaimsHeldInit ==
  ASSUME NEW Home, Init
  PROVE  ClaimsHeld(Home)
  BY DEF Init, ClaimsHeld, Held

LEMMA HeldNotOrphaned ==
  ASSUME NEW Home, ClaimsHeld(Home)
  PROVE  ClaimsNotOrphaned
  BY DEF ClaimsHeld, Held, Covered, Heading, ClaimsNotOrphaned, Underway

\* As long as the connections of a session are all for one target, no claim is
\* orphaned: its session has connections, some on their way in or out, or is
\* being force-released, unless its application lock is running out.
THEOREM ClaimsCovered ==
  ASSUME NEW Home \in [Sessions -> Targets]
  PROVE  Spec /\ []OneTargetEach(Home) => []ClaimsNotOrphaned
<1>1. Init => ClaimsHeld(Home)
  BY ClaimsHeldInit
<1>2. Inv /\ OneTargetEach(Home) /\ ClaimsHeld(Home) /\ [Next]_vars => ClaimsHeld(Home)'
  BY ClaimsHeldStep
<1>3. ClaimsHeld(Home) => ClaimsNotOrphaned
  BY HeldNotOrphaned
<1>4. QED
  BY <1>1, <1>2, <1>3, Invariance, PTL DEF Spec

\* Only connections without a session have no target.
SessionTargets == \A c \in Conns : conn[c].tunnel \in Sessions => conn[c].target \in Targets

LEMMA SessionTargetsStep == Inv /\ SessionTargets /\ [Next]_vars => SessionTargets'
<1> SUFFICES ASSUME Inv, SessionTargets, [Next]_vars PROVE SessionTargets'
  OBVIOUS
<1>t. DOMAIN conn = Conns /\ NoOne \notin Sessions /\ Sessions \cap Addresses = {}
  BY TrackerAssumption DEF Inv, TypeOK
<1>1. ASSUME NEW c \in Conns, NEW n \in Names \cup {NoName},
             \/ \E u \in Sessions, t \in Targets : Accept(c, u, t, n)
             \/ \E a \in Addresses : AcceptWithoutSession(c, a, n)
      PROVE  SessionTargets'
  <2>1. /\ \A d \in Conns \ {c} : conn'[d] = conn[d]
        /\ conn'[c].target \in Targets \/ conn'[c].tunnel \in Addresses
    BY <1>1, <1>t DEF Accept, AcceptWithoutSession
  <2>2. QED
    BY <1>t, <2>1 DEF SessionTargets
<1>2. ASSUME NEW c \in Conns, Connection(c)
      PROVE  SessionTargets'
  <2>1. NotAccepted.tunnel \notin Sessions
    BY <1>t DEF NotAccepted
  <2>2. QED
    BY <1>2, <2>1, OnlyItMoves DEF SessionTargets
<1>3. CASE conn' = conn
  BY <1>3 DEF SessionTargets
<1>4. QED
  BY <1>1, <1>2, <1>3
     DEF Next, vars, ForceRelease, ForceRemove, ForceDisconnect, cleanup_stale_sessions, Age

\* In particular no claim is orphaned if there is one target.
THEOREM OneTargetClaimsCovered ==
  ASSUME NEW t, Targets = {t}
  PROVE  Spec => []ClaimsNotOrphaned
<1> DEFINE Home == [s \in Sessions |-> t]
<1>1. Init => SessionTargets
  BY TrackerAssumption DEF Init, NotAccepted, SessionTargets
<1>2. Home \in [Sessions -> Targets]
  OBVIOUS
<1>3. SessionTargets => OneTargetEach(Home)
  BY DEF SessionTargets, OneTargetEach
<1> HIDE DEF Home
<1>4. Init => ClaimsHeld(Home)
  BY ClaimsHeldInit
<1>5. Inv /\ SessionTargets /\ ClaimsHeld(Home) /\ [Next]_vars => ClaimsHeld(Home)'
  BY <1>2, <1>3, ClaimsHeldStep
<1>6. ClaimsHeld(Home) => ClaimsNotOrphaned
  BY HeldNotOrphaned
<1>7. QED
  BY <1>1, <1>4, <1>5, <1>6, SessionTargetsStep, Invariance, PTL DEF Spec

-----------------------------------------------------------------------------
\* The locks.

Tasks == Conns \cup {Forcer}
Waits == {"look", "register", "undo", "release"}
InQueue(q, k) == \E i \in DOMAIN q : q[i] = k
Once(q) == \A i, j \in DOMAIN q : q[i] = q[j] => i = j

\* The tasks that wait for the tunnels lock are in its queue, once each; the
\* locks are held by the tasks at the steps that hold them.
LocksMatch ==
  /\ \A k \in Tasks : pc[k] \in Waits <=> InQueue(waiting, k)
  /\ Once(waiting)
  /\ \A c \in Conns : (holder = c <=> pc[c] = "look") /\ (c \in readers <=> pc[c] = "withdraw")
  /\ pc[Forcer] \in {"idle", "release", "disconnect"}

\* Whenever a lock is held or asked for, and the cycle of NoLockCycle is not
\* closed, some task holds all that its next step needs.
LocksAdvance ==
  (waiting # << >> \/ readers # {} \/ holder # NoOne) /\ NoLockCycle =>
    \/ \E c \in Conns :
         \/ Granted(c, "look") \/ Granted(c, "undo") \/ GrantedToWrite(c, "register")
         \/ pc[c] = "withdraw" /\ ClaimsFree
    \/ \E k \in Tasks : GrantedToWrite(k, "release")

\* A request joins the queue at its end.
LEMMA QueueJoined ==
  ASSUME NEW q \in Seq(Tasks), NEW k \in Tasks, Once(q), ~InQueue(q, k)
  PROVE  Once(Append(q, k)) /\ \A j : InQueue(Append(q, k), j) <=> InQueue(q, j) \/ j = k
<1>1. /\ Len(q) \in Nat /\ DOMAIN q = 1..Len(q) /\ DOMAIN Append(q, k) = 1..(Len(q) + 1)
      /\ \A i \in 1..Len(q) : Append(q, k)[i] = q[i]
      /\ Append(q, k)[Len(q) + 1] = k
  OBVIOUS
<1>2. \A i \in 1..(Len(q) + 1) : i \in 1..Len(q) \/ i = Len(q) + 1
  BY <1>1
<1>3. Len(q) + 1 \in 1..(Len(q) + 1) /\ \A i \in 1..Len(q) : i \in 1..(Len(q) + 1)
  BY <1>1
<1>4. \A j : InQueue(Append(q, k), j) <=> InQueue(q, j) \/ j = k
  BY <1>1, <1>2, <1>3 DEF InQueue
<1>5. \A i \in 1..Len(q) : q[i] # k
  BY <1>1 DEF InQueue
<1>6. Once(Append(q, k))
  BY <1>1, <1>2, <1>5 DEF Once
<1>7. QED
  BY <1>4, <1>6

\* A grant takes the first request off the queue.
LEMMA QueueGranted ==
  ASSUME NEW q \in Seq(Tasks), q # << >>, Once(q)
  PROVE  Once(Tail(q)) /\ \A j : InQueue(Tail(q), j) <=> InQueue(q, j) /\ j # Head(q)
<1>1. /\ Len(q) \in Nat \ {0} /\ DOMAIN q = 1..Len(q) /\ DOMAIN Tail(q) = 1..(Len(q) - 1)
      /\ \A i \in 1..(Len(q) - 1) : Tail(q)[i] = q[i + 1]
      /\ Head(q) = q[1]
  OBVIOUS
<1>2. Once(Tail(q))
  <2> SUFFICES ASSUME NEW i \in 1..(Len(q) - 1), NEW j \in 1..(Len(q) - 1), q[i + 1] = q[j + 1]
               PROVE  i = j
    BY <1>1 DEF Once
  <2>1. i + 1 \in 1..Len(q) /\ j + 1 \in 1..Len(q)
    BY <1>1
  <2>2. i + 1 = j + 1
    BY <1>1, <2>1 DEF Once
  <2>3. QED
    BY <2>2
<1>3. ASSUME NEW j, InQueue(Tail(q), j) PROVE InQueue(q, j) /\ j # Head(q)
  <2>1. PICK i \in 1..(Len(q) - 1) : q[i + 1] = j
    BY <1>1, <1>3 DEF InQueue
  <2>2. i + 1 \in 1..Len(q) /\ 1 \in 1..Len(q) /\ i + 1 # 1
    BY <1>1
  <2>3. QED
    BY <1>1, <2>1, <2>2 DEF InQueue, Once
<1>4. ASSUME NEW j, InQueue(q, j), j # Head(q) PROVE InQueue(Tail(q), j)
  <2>1. PICK i \in 1..Len(q) : q[i] = j /\ i # 1
    BY <1>1, <1>4 DEF InQueue
  <2>2. i - 1 \in 1..(Len(q) - 1) /\ (i - 1) + 1 = i
    BY <1>1, <2>1
  <2>3. Tail(q)[i - 1] = j
    BY <1>1, <2>1, <2>2
  <2>4. QED
    BY <1>1, <2>2, <2>3 DEF InQueue
<1>5. QED
  BY <1>2, <1>3, <1>4

\* What a step of task k does to the queue: k waits before and after or not.
QueueMoves(k) ==
  \/ pc[k] \notin Waits /\ pc'[k] \notin Waits /\ waiting' = waiting
  \/ pc[k] \notin Waits /\ pc'[k] \in Waits /\ waiting' = Append(waiting, k)
  \/ /\ pc[k] \in Waits /\ waiting # << >> /\ Head(waiting) = k
     /\ \/ pc'[k] \notin Waits /\ waiting' = Tail(waiting)
        \/ pc'[k] \in Waits /\ waiting' = Append(Tail(waiting), k)

LEMMA QueueKept ==
  ASSUME Inv, LocksMatch, NEW k \in Tasks, QueueMoves(k),
         \A j \in Tasks \ {k} : pc'[j] = pc[j]
  PROVE  Once(waiting') /\ \A j \in Tasks : pc'[j] \in Waits <=> InQueue(waiting', j)
<1>1. waiting \in Seq(Tasks) /\ Once(waiting)
      /\ \A j \in Tasks : pc[j] \in Waits <=> InQueue(waiting, j)
  BY DEF Inv, TypeOK, LocksMatch, Tasks
<1>2. CASE pc[k] \notin Waits /\ pc'[k] \notin Waits /\ waiting' = waiting
  BY <1>1, <1>2
<1>3. CASE pc[k] \notin Waits /\ pc'[k] \in Waits /\ waiting' = Append(waiting, k)
  <2>1. Once(waiting') /\ \A j : InQueue(waiting', j) <=> InQueue(waiting, j) \/ j = k
    BY <1>1, <1>3, QueueJoined
  <2>2. QED
    BY <1>1, <1>3, <2>1
<1>4. CASE pc[k] \in Waits /\ waiting # << >> /\ Head(waiting) = k
  <2>1. /\ Once(Tail(waiting)) /\ Tail(waiting) \in Seq(Tasks)
        /\ \A j : InQueue(Tail(waiting), j) <=> InQueue(waiting, j) /\ j # k
    BY <1>1, <1>4, QueueGranted, QueueTypes
  <2>2. CASE pc'[k] \notin Waits /\ waiting' = Tail(waiting)
    BY <1>1, <2>1, <2>2
  <2>3. CASE pc'[k] \in Waits /\ waiting' = Append(Tail(waiting), k)
    <3>1. Once(waiting') /\ \A j : InQueue(waiting', j) <=> InQueue(Tail(waiting), j) \/ j = k
      BY <2>1, <2>3, QueueJoined
    <3>2. QED
      BY <1>1, <2>1, <2>3, <3>1
  <2>4. QED
    BY <1>4, <2>2, <2>3 DEF QueueMoves
<1>5. QED
  BY <1>2, <1>3, <1>4 DEF QueueMoves

\* What a connection's step does to the locks it holds.
HoldMoves(c) ==
  /\ \/ pc[c] # "look" /\ pc'[c] # "look" /\ holder' = holder
     \/ pc[c] # "look" /\ pc'[c] = "look" /\ holder = NoOne /\ holder' = c
     \/ pc[c] = "look" /\ pc'[c] # "look" /\ holder' = NoOne
  /\ \/ (pc[c] = "withdraw" <=> pc'[c] = "withdraw") /\ readers' = readers
     \/ pc'[c] = "withdraw" /\ readers' = readers \cup {c}
     \/ pc'[c] # "withdraw" /\ readers' = readers \ {c}

\* The steps of a connection, as far as the locks see them.
LEMMA LockSteps ==
  ASSUME Inv, LocksMatch, NEW c \in Conns, Connection(c)
  PROVE  QueueMoves(c) /\ HoldMoves(c)
<1>t. pc \in [Tasks -> Steps] /\ c \in Tasks
  BY DEF Inv, TypeOK, Tasks
<1>g. \A step : Goto(c, step) => pc'[c] = step
  BY <1>t DEF Goto
<1>1. CASE ClaimFree(c) \/ ClaimOwn(c)
  <2>1. pc[c] = "claim" /\ pc'[c] \in {"limits", "idle"} /\ UNCHANGED <<holder, readers, waiting>>
    BY <1>1, <1>g DEF ClaimFree, ClaimOwn, Over, lockVars
  <2>2. QED
    BY <2>1 DEF QueueMoves, HoldMoves, Waits
<1>2. CASE ClaimContested(c)
  <2>1. /\ pc[c] = "claim" /\ pc'[c] = "look" /\ holder = NoOne /\ holder' = c
        /\ waiting' = Append(waiting, c) /\ readers' = readers
    BY <1>2, <1>g DEF ClaimContested, Request, ClaimsFree
  <2>2. QED
    BY <2>1 DEF QueueMoves, HoldMoves, Waits
<1>3. CASE TakeOver(c)
  <2>1. /\ pc[c] = "look" /\ waiting # << >> /\ Head(waiting) = c
        /\ pc'[c] \in {"limits", "idle"} /\ holder' = NoOne
        /\ waiting' = Tail(waiting) /\ readers' = readers
    BY <1>3, <1>g DEF TakeOver, Granted, Over
  <2>2. QED
    BY <2>1 DEF QueueMoves, HoldMoves, Waits
<1>4. CASE Enlist(c) \/ End(c)
  <2>1. /\ pc[c] \in {"limits", "registered"} /\ pc'[c] \in {"register", "release"}
        /\ waiting' = Append(waiting, c) /\ UNCHANGED <<holder, readers>>
    BY <1>4, <1>g DEF Enlist, End, Request
  <2>2. QED
    BY <2>1 DEF QueueMoves, HoldMoves, Waits
<1>5. CASE Register(c) \/ Release(c)
  <2>1. /\ pc[c] \in {"register", "release"} /\ waiting # << >> /\ Head(waiting) = c
        /\ pc'[c] \in {"registered", "disconnect", "idle"}
        /\ waiting' = Tail(waiting) /\ UNCHANGED <<holder, readers>>
    BY <1>5, <1>g DEF Register, Release, GrantedToWrite, Granted, Leave, Over
  <2>2. QED
    BY <2>1 DEF QueueMoves, HoldMoves, Waits
<1>6. CASE RegisterFails(c)
  <2>1. /\ pc[c] = "register" /\ waiting # << >> /\ Head(waiting) = c
        /\ \/ pc'[c] = "idle" /\ waiting' = Tail(waiting)
           \/ pc'[c] = "undo" /\ waiting' = Append(Tail(waiting), c)
        /\ UNCHANGED <<holder, readers>>
    BY <1>6, <1>g DEF RegisterFails, GrantedToWrite, Granted, RequestAgain, Over
  <2>2. QED
    BY <2>1 DEF QueueMoves, HoldMoves, Waits
<1>7. CASE Undo(c)
  <2>1. /\ pc[c] = "undo" /\ waiting # << >> /\ Head(waiting) = c
        /\ \/ pc'[c] = "idle" /\ readers' = readers
           \/ pc'[c] = "withdraw" /\ readers' = readers \cup {c}
        /\ waiting' = Tail(waiting) /\ holder' = holder
    BY <1>7, <1>g DEF Undo, Granted, Leave, Over
  <2>2. QED
    BY <2>1 DEF QueueMoves, HoldMoves, Waits
<1>8. CASE Withdraw(c)
  <2>1. /\ pc[c] = "withdraw" /\ pc'[c] = "idle" /\ readers' = readers \ {c}
        /\ UNCHANGED <<holder, waiting>>
    BY <1>8, <1>g DEF Withdraw, Over
  <2>2. QED
    BY <2>1 DEF QueueMoves, HoldMoves, Waits
<1>9. CASE LoginFails(c) \/ Disconnect(c)
  <2>1. /\ pc[c] \in {"registered", "disconnect"} /\ pc'[c] \in {"dropped", "idle"}
        /\ UNCHANGED <<holder, readers, waiting>>
    BY <1>9, <1>g DEF LoginFails, Disconnect, Over, lockVars
  <2>2. QED
    BY <2>1 DEF QueueMoves, HoldMoves, Waits
<1>10. QED
  BY <1>1, <1>2, <1>3, <1>4, <1>5, <1>6, <1>7, <1>8, <1>9 DEF Connection

LEMMA LocksMatchStep == Inv /\ LocksMatch /\ [Next]_vars => LocksMatch'
<1> SUFFICES ASSUME Inv, LocksMatch, [Next]_vars PROVE LocksMatch'
  OBVIOUS
<1>t. /\ pc \in [Tasks -> Steps] /\ Forcer \in Tasks /\ Forcer \notin Conns /\ NoOne \notin Conns
      /\ Tasks = Conns \cup {Forcer}
  BY TrackerAssumption DEF Inv, TypeOK, Tasks
<1>1. ASSUME NEW c \in Conns, Connection(c)
      PROVE  LocksMatch'
  <2>1. \A j \in Tasks \ {c} : pc'[j] = pc[j]
    BY <1>1, <1>t, OnlyItMoves
  <2>2. QueueMoves(c) /\ HoldMoves(c)
    BY <1>1, LockSteps
  <2>3. Once(waiting') /\ \A j \in Tasks : pc'[j] \in Waits <=> InQueue(waiting', j)
    BY <1>t, <2>1, <2>2, QueueKept
  <2>4. \A d \in Conns : (holder = d <=> pc[d] = "look") /\ (d \in readers <=> pc[d] = "withdraw")
    BY DEF LocksMatch
  <2>5. \A d \in Conns : holder' = d <=> pc'[d] = "look"
    BY <1>t, <2>1, <2>2, <2>4 DEF HoldMoves
  <2>6. \A d \in Conns : d \in readers' <=> pc'[d] = "withdraw"
    BY <1>t, <2>1, <2>2, <2>4 DEF HoldMoves
  <2>7. pc'[Forcer] \in {"idle", "release", "disconnect"}
    BY <1>t, <2>1 DEF LocksMatch
  <2>8. QED
    BY <2>3, <2>5, <2>6, <2>7 DEF LocksMatch, Once, InQueue
<1>2. ASSUME NEW k \in Tasks, QueueMoves(k), \A j \in Tasks \ {k} : pc'[j] = pc[j],
             UNCHANGED <<holder, readers>>,
             pc[k] \notin {"look", "withdraw"}, pc'[k] \notin {"look", "withdraw"},
             pc'[Forcer] \in {"idle", "release", "disconnect"}
      PROVE  LocksMatch'
  <2>1. Once(waiting') /\ \A j \in Tasks : pc'[j] \in Waits <=> InQueue(waiting', j)
    BY <1>2, QueueKept
  <2>2. \A d \in Conns : /\ holder' = d <=> pc'[d] = "look"
                         /\ d \in readers' <=> pc'[d] = "withdraw"
    BY <1>t, <1>2 DEF LocksMatch
  <2>3. QED
    BY <1>2, <2>1, <2>2 DEF LocksMatch, Once, InQueue
<1>3. ASSUME NEW c \in Conns, NEW n \in Names \cup {NoName},
             \/ \E u \in Sessions, t \in Targets : Accept(c, u, t, n)
             \/ \E a \in Addresses : AcceptWithoutSession(c, a, n)
      PROVE  LocksMatch'
  <2>1. /\ pc[c] = "idle" /\ \E step \in {"claim", "limits"} : Goto(c, step)
        /\ UNCHANGED <<holder, readers, waiting>>
    BY <1>3 DEF Accept, AcceptWithoutSession, lockVars
  <2>2. pc'[c] \in {"claim", "limits"} /\ \A j \in Tasks \ {c} : pc'[j] = pc[j]
    BY <1>t, <2>1 DEF Goto
  <2>3. QueueMoves(c)
    BY <2>1, <2>2 DEF QueueMoves, Waits
  <2>4. pc'[Forcer] \in {"idle", "release", "disconnect"}
    BY <1>t, <2>2 DEF LocksMatch
  <2>5. QED
    BY <1>2, <1>t, <2>1, <2>2, <2>3, <2>4
<1>4. CASE (\E s \in Sessions : ForceRelease(s)) \/ ForceRemove \/ ForceDisconnect
  <2>1. /\ UNCHANGED <<holder, readers>>
        /\ \/ pc[Forcer] = "idle" /\ Goto(Forcer, "release") /\ waiting' = Append(waiting, Forcer)
           \/ /\ pc[Forcer] = "release" /\ waiting # << >> /\ Head(waiting) = Forcer
              /\ Goto(Forcer, "disconnect") /\ waiting' = Tail(waiting)
           \/ pc[Forcer] = "disconnect" /\ Goto(Forcer, "idle") /\ waiting' = waiting
    BY <1>4 DEF ForceRelease, ForceRemove, ForceDisconnect, Request, Leave, GrantedToWrite,
                Granted, lockVars
  <2>2. \A j \in Tasks \ {Forcer} : pc'[j] = pc[j]
    BY <1>t, <2>1 DEF Goto
  <2>3. \A step : Goto(Forcer, step) => pc'[Forcer] = step
    BY <1>t DEF Goto
  <2>4. QueueMoves(Forcer) /\ pc'[Forcer] \in {"idle", "release", "disconnect"}
    BY <2>1, <2>3 DEF QueueMoves, Waits
  <2>5. pc[Forcer] \notin {"look", "withdraw"}
    BY <2>1
  <2>6. QED
    BY <1>2, <1>t, <2>1, <2>2, <2>4, <2>5
<1>5. CASE UNCHANGED <<pc, holder, readers, waiting>>
  BY <1>5 DEF LocksMatch, Once, InQueue
<1>6. CASE UNCHANGED vars \/ cleanup_stale_sessions \/ \E t \in Targets : Age(t)
  BY <1>5, <1>6 DEF vars, cleanup_stale_sessions, Age, lockVars
<1>7. QED
  BY <1>1, <1>3, <1>4, <1>6 DEF Next

\* The two locks of the tracker block its tasks in no other way than the cycle
\* of NoLockCycle: the request that is first in line can be granted, or a task
\* that has the tunnels locked can lock the claims.
THEOREM NoOtherDeadlock == Spec => []LocksAdvance
<1>1. Init => LocksMatch
  BY TrackerAssumption DEF Init, LocksMatch, Tasks, Waits, InQueue, Once
<1>2. ASSUME Inv, LocksMatch PROVE LocksAdvance
  <2> SUFFICES ASSUME waiting # << >> \/ readers # {} \/ holder # NoOne, NoLockCycle
               PROVE  \/ \E c \in Conns :
                           \/ Granted(c, "look") \/ Granted(c, "undo")
                           \/ GrantedToWrite(c, "register")
                           \/ pc[c] = "withdraw" /\ ClaimsFree
                      \/ \E k \in Tasks : GrantedToWrite(k, "release")
    BY DEF LocksAdvance
  <2>t. /\ waiting \in Seq(Tasks) /\ holder \in Conns \cup {NoOne} /\ readers \subseteq Conns
        /\ Tasks = Conns \cup {Forcer}
    BY <1>2 DEF Inv, TypeOK, Tasks
  <2>m. /\ \A k \in Tasks : pc[k] \in Waits <=> InQueue(waiting, k)
        /\ \A c \in Conns : (holder = c <=> pc[c] = "look") /\ (c \in readers <=> pc[c] = "withdraw")
        /\ pc[Forcer] \in {"idle", "release", "disconnect"}
    BY <1>2 DEF LocksMatch
  <2>1. CASE readers # {} /\ holder = NoOne
    <3>1. PICK c \in Conns : pc[c] = "withdraw"
      BY <2>1, <2>t, <2>m
    <3>2. QED
      BY <2>1, <3>1 DEF ClaimsFree
  <2>2. CASE waiting = << >>
    <3>1. \A k : ~InQueue(waiting, k)
      BY <2>2 DEF InQueue
    <3>2. holder = NoOne
      BY <3>1, <2>t, <2>m DEF Waits
    <3>3. QED
      BY <2>1, <2>2, <3>2
  <2>3. CASE waiting # << >> /\ ~(readers # {} /\ holder = NoOne)
    <3>1. PICK k \in Tasks : k = Head(waiting)
      BY <2>3, <2>t
    <3>2. InQueue(waiting, k)
      BY <2>3, <2>t, <3>1 DEF InQueue
    <3>3. pc[k] \in Waits /\ (k \notin Conns => pc[k] = "release")
      BY <3>2, <2>t, <2>m DEF Waits
    <3>4. CASE pc[k] \in {"look", "undo"}
      BY <2>3, <2>t, <3>1, <3>3, <3>4 DEF Granted
    <3>5. CASE pc[k] \in {"register", "release"}
      <4>1. pc[k] # "look"
        BY <3>5
      <4>2. ASSUME readers # {} PROVE FALSE
        <5>1. holder # NoOne
          BY <2>3, <4>2
        <5>2. holder \in Conns
          BY <5>1, <2>t
        <5>3. pc[holder] = "look"
          BY <5>2, <2>m
        <5>4. k # holder
          BY <4>1, <5>3
        <5>5. QED
          BY <2>3, <3>1, <3>5, <4>2, <5>1, <5>4 DEF NoLockCycle
      <4>3. readers = {}
        BY <4>2
      <4>4. QED
        BY <2>3, <3>1, <3>3, <3>5, <4>3, <2>t DEF GrantedToWrite, Granted
    <3>6. QED
      BY <3>3, <3>4, <3>5 DEF Waits
  <2>4. QED
    BY <2>1, <2>2, <2>3
<1>3. QED
  BY <1>1, <1>2, LocksMatchStep, Invariance, PTL DEF Spec
==============================================================================
