-------------------------- MODULE ConnectionTracker --------------------------
(***************************************************************************)
(* ConnectionTracker of keeperdb-proxy (server/connection_tracker.rs) and  *)
(* its callers, the protocol handlers: a connection claims its database    *)
(* target for its session, is counted in the tunnel of its session, relays *)
(* traffic, and gives the registration back.                               *)
(*                                                                         *)
(* The claims (active_sessions) and the counts (tunnels) are behind two    *)
(* tokio RwLocks.  A section that awaits nothing while it holds a lock is  *)
(* one step; the two sections that take the second lock inside the first   *)
(* are not.  The tunnels lock is fair: it is granted in the order of the   *)
(* requests, so a reader waits behind a writer that waits.                 *)
(***************************************************************************)
EXTENDS Integers, Sequences, FiniteSets

CONSTANTS
  Conns,           \* client connections at a time, each a task
  Sessions,        \* session_uids of the Gateway
  Addresses,       \* client addresses or record uids, for connections without a session
  Targets,         \* database targets
  Names,           \* application names as clients send them
  Tools,           \* what names are normalised to
  ToolOf,          \* the normalisation
  MaxConnections   \* max_connections of a tunnel

NoName == "no name"
NoTarget == "no target"
NoOne == "no one"
Forcer == "force_release_tunnel"  \* the one task that is not a connection

ASSUME TrackerAssumption ==
  /\ IsFiniteSet(Conns)
  /\ ToolOf \in [Names -> Tools]
  /\ MaxConnections \in Nat \ {0}
  /\ NoName \notin Names \cup Tools /\ NoTarget \notin Targets
  /\ NoOne \notin Conns \cup Sessions \cup Addresses /\ Forcer \notin Conns
  /\ Sessions \cap Addresses = {}

TunnelIds == Sessions \cup Addresses
NoTunnel == [sessions |-> {}, application |-> NoName]
NoClaim == [uid |-> NoOne, application |-> NoName, last_disconnect |-> "none"]
NotAccepted == [tunnel |-> NoOne, target |-> NoTarget, application |-> NoName]

VARIABLES
  tunnels,          \* tunnel -> its TunnelState
  active_sessions,  \* target -> the claim on it
  pc,               \* task -> where it stands
  conn,             \* connection -> its tunnel, target and application
  forced,           \* session that force_release_tunnel is releasing
  holder,           \* task that holds the active_sessions lock across an await
  readers,          \* tasks that hold the tunnels lock (for reading) across an await
  waiting           \* requests for the tunnels lock, in order

lockVars == <<holder, readers, waiting>>
vars == <<tunnels, active_sessions, pc, conn, forced, lockVars>>

normalize_application_name(n) == IF n = NoName THEN NoName ELSE ToolOf[n]

Init ==
  /\ tunnels = [u \in TunnelIds |-> NoTunnel]
  /\ active_sessions = [t \in Targets |-> NoClaim]
  /\ pc = [k \in Conns \cup {Forcer} |-> "idle"]
  /\ conn = [c \in Conns |-> NotAccepted]
  /\ forced = NoOne
  /\ holder = NoOne /\ readers = {}
  /\ waiting = << >>

-----------------------------------------------------------------------------
\* The locks.

\* The active_sessions lock is only ever taken for writing.
ClaimsFree == holder = NoOne

\* Task k is granted the tunnels lock it waits for at pc step `at`.
Granted(k, at) ==
  /\ pc[k] = at
  /\ waiting # << >> /\ Head(waiting) = k

GrantedToWrite(k, at) == Granted(k, at) /\ readers = {}

Goto(k, step) == pc' = [pc EXCEPT ![k] = step]

\* Task k goes on to step `at`, in which it waits for the tunnels lock.
Request(k, at) == Goto(k, at) /\ waiting' = Append(waiting, k)

\* A request is granted and the task, at a step of its own now, waits for
\* the tunnels lock again.
RequestAgain(k, at) == Goto(k, at) /\ waiting' = Append(Tail(waiting), k)

\* A request is granted and nothing is held once the step is over.
Leave(k, step) == Goto(k, step) /\ waiting' = Tail(waiting)

\* The task of connection c is over; c may stand for a new connection.
Over(c) == Goto(c, "idle") /\ conn' = [conn EXCEPT ![c] = NotAccepted]

-----------------------------------------------------------------------------
\* A connection registers: the handler calls try_register_for_target_with_app
\* when it has a session, try_register_with_limits_and_app when it has none.

Accept(c, u, t, n) ==
  /\ pc[c] = "idle"
  /\ conn' = [conn EXCEPT ![c] = [tunnel |-> u, target |-> t,
                                  application |-> normalize_application_name(n)]]
  /\ Goto(c, "claim")
  /\ UNCHANGED <<tunnels, active_sessions, forced, lockVars>>

AcceptWithoutSession(c, a, n) ==
  /\ pc[c] = "idle"
  /\ conn' = [conn EXCEPT ![c] = [tunnel |-> a, target |-> NoTarget,
                                  application |-> normalize_application_name(n)]]
  /\ Goto(c, "limits")
  /\ UNCHANGED <<tunnels, active_sessions, forced, lockVars>>

ClaimOf(c) == active_sessions[conn[c].target]

\* The claim a connection makes for itself.
OwnClaim(c) == [uid |-> conn[c].tunnel, application |-> conn[c].application,
                last_disconnect |-> "none"]

SetClaim(c, claim) ==
  active_sessions' = [active_sessions EXCEPT ![conn[c].target] = claim]

\* The target is free, or its session has disconnected: claim it.
ClaimFree(c) ==
  /\ pc[c] = "claim" /\ ClaimsFree
  /\ \/ ClaimOf(c) = NoClaim
     \/ ClaimOf(c).uid # conn[c].tunnel /\ ClaimOf(c).last_disconnect # "none"
  /\ SetClaim(c, OwnClaim(c))
  /\ Goto(c, "limits")
  /\ UNCHANGED <<tunnels, conn, forced, lockVars>>

LockExpired(c) == ClaimOf(c).last_disconnect \in {"expired", "stale"}

\* Mutant: only a name that differs is refused, not one that is missing.
WrongTool_lenient(expected, provided) ==
  expected # NoName /\ provided # NoName /\ provided # expected

\* The application a claim or a tunnel expects is not the one provided.
WrongTool(expected, provided) == expected # NoName /\ provided # expected

\* The target is claimed by the same session: its application must match
\* while the application lock lasts.
ClaimOwn(c) ==
  LET claim == ClaimOf(c)
      app == conn[c].application
  IN
  /\ pc[c] = "claim" /\ ClaimsFree
  /\ claim.uid = conn[c].tunnel
  /\ IF ~LockExpired(c) /\ WrongTool(claim.application, app)
     THEN Over(c) /\ UNCHANGED active_sessions
     ELSE /\ SetClaim(c, CASE LockExpired(c) -> OwnClaim(c)
                           [] ~LockExpired(c) /\ app # NoName ->
                                [claim EXCEPT !.last_disconnect = "none"]
                           [] OTHER -> claim)
          /\ Goto(c, "limits")
          /\ UNCHANGED conn
  /\ UNCHANGED <<tunnels, forced, lockVars>>

\* Another session holds the target and has not disconnected: look at its
\* tunnel, with the claims still locked.
ClaimContested(c) ==
  /\ pc[c] = "claim" /\ ClaimsFree
  /\ ClaimOf(c) # NoClaim /\ ClaimOf(c).uid # conn[c].tunnel
  /\ ClaimOf(c).last_disconnect = "none"
  /\ holder' = c
  /\ Request(c, "look")
  /\ UNCHANGED <<tunnels, active_sessions, conn, forced, readers>>

\* The holder's tunnel is gone: take the target over; or it is not: give up.
TakeOver(c) ==
  /\ Granted(c, "look")
  /\ holder' = NoOne
  /\ waiting' = Tail(waiting)
  /\ IF tunnels[ClaimOf(c).uid] = NoTunnel
     THEN SetClaim(c, OwnClaim(c)) /\ Goto(c, "limits") /\ UNCHANGED conn
     ELSE Over(c) /\ UNCHANGED active_sessions
  /\ UNCHANGED <<tunnels, forced, readers>>

\* The claims are unlocked before the tunnels lock is asked for.
Enlist(c) ==
  /\ pc[c] = "limits"
  /\ Request(c, "register")
  /\ UNCHANGED <<tunnels, active_sessions, conn, forced, holder, readers>>

\* Mutant: one connection too many.
Refused_off_by_one(tunnel, app) ==
  \/ WrongTool(tunnel.application, app)
  \/ Cardinality(tunnel.sessions) > MaxConnections

\* An existing tunnel refuses a connection of another application, and one
\* too many; its grace period is only logged, and left out.
Refused(tunnel, app) ==
  \/ WrongTool(tunnel.application, app)
  \/ Cardinality(tunnel.sessions) >= MaxConnections

\* A tunnel with connection c, opened if c is its first.
With(tunnel, c) ==
  IF tunnel = NoTunnel
  THEN [sessions |-> {c}, application |-> conn[c].application]
  ELSE [tunnel EXCEPT !.sessions = @ \cup {c}]

\* try_register_with_limits_and_app.
Register(c) ==
  LET u == conn[c].tunnel IN
  /\ GrantedToWrite(c, "register")
  /\ \/ tunnels[u] = NoTunnel
     \/ ~Refused(tunnels[u], conn[c].application)
  /\ tunnels' = [tunnels EXCEPT ![u] = With(@, c)]
  /\ Leave(c, "registered")
  /\ UNCHANGED <<active_sessions, conn, forced, holder, readers>>

\* A connection that had claimed its target goes on to see whether it should
\* withdraw the claim.
RegisterFails(c) ==
  LET u == conn[c].tunnel IN
  /\ GrantedToWrite(c, "register")
  /\ tunnels[u] # NoTunnel /\ Refused(tunnels[u], conn[c].application)
  /\ IF conn[c].target = NoTarget
     THEN Over(c) /\ waiting' = Tail(waiting)
     ELSE RequestAgain(c, "undo") /\ UNCHANGED conn
  /\ UNCHANGED <<tunnels, active_sessions, forced, holder, readers>>

\* It does if its tunnel is gone by now: it holds the tunnels lock while it
\* waits for the claims.
Undo(c) ==
  /\ Granted(c, "undo")
  /\ IF tunnels[conn[c].tunnel] # NoTunnel
     THEN Over(c) /\ waiting' = Tail(waiting) /\ UNCHANGED readers
     ELSE Leave(c, "withdraw") /\ readers' = readers \cup {c} /\ UNCHANGED conn
  /\ UNCHANGED <<tunnels, active_sessions, forced, holder>>

Withdraw(c) ==
  /\ pc[c] = "withdraw" /\ ClaimsFree
  /\ IF ClaimOf(c).uid = conn[c].tunnel THEN SetClaim(c, NoClaim)
                                        ELSE UNCHANGED active_sessions
  /\ readers' = readers \ {c}
  /\ Over(c)
  /\ UNCHANGED <<tunnels, forced, holder, waiting>>

-----------------------------------------------------------------------------
\* A connection ends.

\* The relay is over, or the handler failed on one of the paths that release
\* the guard: release_spawn starts the release.
End(c) ==
  /\ pc[c] = "registered"
  /\ Request(c, "release")
  /\ UNCHANGED <<tunnels, active_sessions, conn, forced, holder, readers>>

\* The SQL Server handler registers before it logs in; when the login fails it
\* returns and the guard, dropped, only logs.
LoginFails(c) ==
  /\ pc[c] = "registered"
  /\ Goto(c, "dropped")
  /\ UNCHANGED <<tunnels, active_sessions, conn, forced, lockVars>>

\* Mutant: the release removes the tunnel, not the connection.
Without_tunnel(tunnel, c) == NoTunnel

\* A tunnel without connection c, removed once it is empty.
Without(tunnel, c) ==
  IF tunnel.sessions \subseteq {c} THEN NoTunnel
  ELSE [tunnel EXCEPT !.sessions = @ \ {c}]

\* Mutant: the disconnect is not noted.
Release_forgets(c) ==
  /\ GrantedToWrite(c, "release")
  /\ tunnels' = [tunnels EXCEPT ![conn[c].tunnel] = Without(@, c)]
  /\ Over(c) /\ waiting' = Tail(waiting)
  /\ UNCHANGED <<active_sessions, forced, holder, readers>>

\* release_session, and the first half of release_session_for_target: a tunnel
\* that this release emptied starts the timeout of the application lock.
Release(c) ==
  LET u == conn[c].tunnel IN
  /\ GrantedToWrite(c, "release")
  /\ tunnels' = [tunnels EXCEPT ![u] = Without(@, c)]
  /\ IF tunnels[u] # NoTunnel /\ tunnels'[u] = NoTunnel /\ conn[c].target # NoTarget
     THEN Leave(c, "disconnect") /\ UNCHANGED conn
     ELSE Over(c) /\ waiting' = Tail(waiting)
  /\ UNCHANGED <<active_sessions, forced, holder, readers>>

Disconnect(c) ==
  /\ pc[c] = "disconnect" /\ ClaimsFree
  /\ IF ClaimOf(c).uid = conn[c].tunnel
     THEN SetClaim(c, [ClaimOf(c) EXCEPT !.last_disconnect = "recent"])
     ELSE UNCHANGED active_sessions
  /\ Over(c)
  /\ UNCHANGED <<tunnels, forced, lockVars>>

-----------------------------------------------------------------------------
\* force_release_tunnel, the clean-up task, and time.

ForceRelease(s) ==
  /\ pc[Forcer] = "idle"
  /\ forced' = s
  /\ Request(Forcer, "release")
  /\ UNCHANGED <<tunnels, active_sessions, conn, holder, readers>>

ForceRemove ==
  /\ GrantedToWrite(Forcer, "release")
  /\ tunnels' = [tunnels EXCEPT ![forced] = NoTunnel]
  /\ Leave(Forcer, "disconnect")
  /\ UNCHANGED <<active_sessions, conn, forced, holder, readers>>

ForceDisconnect ==
  /\ pc[Forcer] = "disconnect" /\ ClaimsFree
  /\ active_sessions' = [t \in Targets |->
       IF active_sessions[t].uid = forced /\ active_sessions[t].last_disconnect = "none"
       THEN [active_sessions[t] EXCEPT !.last_disconnect = "recent"]
       ELSE active_sessions[t]]
  /\ Goto(Forcer, "idle")
  /\ forced' = NoOne
  /\ UNCHANGED <<tunnels, conn, lockVars>>

cleanup_stale_sessions ==
  /\ ClaimsFree
  /\ \E t \in Targets : active_sessions[t].last_disconnect = "stale"
  /\ active_sessions' = [t \in Targets |->
       IF active_sessions[t].last_disconnect = "stale" THEN NoClaim ELSE active_sessions[t]]
  /\ UNCHANGED <<tunnels, pc, conn, forced, lockVars>>

\* The application lock of a disconnected claim times out, long before the
\* claim is stale.
Age(t) ==
  /\ active_sessions[t].last_disconnect \in {"recent", "expired"}
  /\ active_sessions' = [active_sessions EXCEPT ![t].last_disconnect =
                           IF @ = "recent" THEN "expired" ELSE "stale"]
  /\ UNCHANGED <<tunnels, pc, conn, forced, lockVars>>

-----------------------------------------------------------------------------
Connection(c) ==
  \/ ClaimFree(c) \/ ClaimOwn(c) \/ ClaimContested(c) \/ TakeOver(c)
  \/ Enlist(c) \/ Register(c) \/ RegisterFails(c) \/ Undo(c) \/ Withdraw(c)
  \/ End(c) \/ LoginFails(c) \/ Release(c) \/ Disconnect(c)

Next ==
  \/ \E c \in Conns, n \in Names \cup {NoName} :
       \/ \E u \in Sessions, t \in Targets : Accept(c, u, t, n)
       \/ \E a \in Addresses : AcceptWithoutSession(c, a, n)
  \/ \E c \in Conns : Connection(c)
  \/ \E s \in Sessions : ForceRelease(s)
  \/ ForceRemove \/ ForceDisconnect
  \/ cleanup_stale_sessions
  \/ \E t \in Targets : Age(t)

Spec == Init /\ [][Next]_vars

-----------------------------------------------------------------------------
\* Properties.

Steps == {"idle", "claim", "look", "limits", "register", "undo", "withdraw",
          "registered", "dropped", "release", "disconnect"}

\* Application names are normalised before they are stored, and only sessions
\* claim targets.
TypeOK ==
  /\ tunnels \in [TunnelIds -> [sessions : SUBSET Conns, application : Tools \cup {NoName}]]
  /\ active_sessions \in [Targets -> [uid : Sessions \cup {NoOne},
                                      application : Tools \cup {NoName},
                                      last_disconnect : {"none", "recent", "expired", "stale"}]]
  /\ pc \in [Conns \cup {Forcer} -> Steps]
  /\ conn \in [Conns -> [tunnel : TunnelIds \cup {NoOne}, target : Targets \cup {NoTarget},
                         application : Tools \cup {NoName}]]
  /\ forced \in Sessions \cup {NoOne}
  /\ holder \in Conns \cup {NoOne} /\ readers \in SUBSET Conns
  /\ waiting \in Seq(Conns \cup {Forcer})

\* However registrations, releases and forced releases interleave, a tunnel
\* never counts more connections than it may have.
LimitHolds == \A u \in TunnelIds : Cardinality(tunnels[u].sessions) <= MaxConnections

\* A tunnel whose first connection named its application has only connections
\* of that application, although the claim that was checked may have been
\* taken over, or its lock may have run out, by the time a connection registers.
OneToolPerTunnel ==
  \A u \in TunnelIds : \A c \in tunnels[u].sessions :
    tunnels[u].application # NoName => conn[c].application = tunnels[u].application

\* What a tunnel counts are its own connections, from their registration to
\* their release: no release is lost and no connection is counted twice or
\* counted again after its session was force-released.
CountsItsOwn ==
  \A u \in TunnelIds : \A c \in tunnels[u].sessions :
    conn[c].tunnel = u /\ pc[c] \in {"registered", "release", "dropped"}

\* A registration disappears only by its own release or by the forced release
\* of its session: a late release, whose tunnel was force-released and opened
\* again by others, never takes theirs away.
OnlyOwnRelease ==
  [][\A u \in TunnelIds : \A c \in tunnels[u].sessions \ tunnels'[u].sessions :
       \/ pc[c] = "release" /\ pc'[c] # "release"
       \/ pc[Forcer] = "release" /\ forced = u]_vars

\* Connections of session s on their way in or out.
Underway(s) ==
  \E c \in Conns : conn[c].tunnel = s /\ pc[c] \in {"limits", "register", "undo", "withdraw",
                                                     "release", "disconnect"}

\* A claim is never orphaned: unless its application lock is running out, its
\* session has connections, or some on their way in or out, or is being
\* force-released.  (For sessions of one target.)
ClaimsNotOrphaned ==
  \A t \in Targets :
    LET claim == active_sessions[t] IN
    claim # NoClaim /\ claim.last_disconnect = "none" =>
      tunnels[claim.uid] # NoTunnel \/ Underway(claim.uid) \/ forced = claim.uid

\* "safe to call concurrently": no connection waits with the claims locked
\* behind a writer that waits for one that has the tunnels locked and waits
\* for the claims.
NoLockCycle ==
  ~ /\ holder # NoOne /\ readers # {}
    /\ Head(waiting) # holder /\ pc[Head(waiting)] \in {"register", "release"}
==============================================================================
