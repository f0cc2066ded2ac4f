--------------------------- MODULE PeerConnection ---------------------------
(***************************************************************************)
(* The peer connection of one tube (webrtc_core.rs): the offer/answer      *)
(* exchange with its buffered ICE candidates, the handler of connection    *)
(* states, ICE restarts with their answer timer, the keepalive task, and   *)
(* the two ways a connection is closed.  Descriptions, candidates and      *)
(* credentials are opaque: what matters is which signalling state they     *)
(* lead to and whether they reach the ICE agent.                           *)
(*                                                                         *)
(* The webrtc library is modelled from how it is used: it applies an offer *)
(* only in the stable state and an answer only to an outstanding offer,    *)
(* runs the state handler for one state change at a time, and refuses      *)
(* everything once it is closed.                                           *)
(***************************************************************************)
EXTENDS Naturals, Sequences, FiniteSets, FiniteSetsExt

CONSTANTS
  Candidates,   \* the remote peer's ICE candidates
  MaxOffers,    \* offers made by create_offer or by Python's restart_ice
  MaxRemotes,   \* remote descriptions that are applied
  MaxChanges,   \* changes of the connection state seen by the ICE agent
  MaxRestarts   \* restart tasks that are spawned

ASSUME BoundsAreNaturals ==
  {MaxOffers, MaxRemotes, MaxChanges, MaxRestarts} \subseteq Nat

VARIABLES
  trickle,     \* trickle_ice, fixed for the connection
  signaling,   \* RTCSignalingState
  remoteDesc,  \* remote_description().is_some()
  pcState,     \* RTCPeerConnectionState
  events,      \* state changes the library has still to report
  handler,     \* the installed on_peer_connection_state_change
  handling,    \* what the state handler is in the middle of
  closing,     \* is_closing
  registered,  \* the restart callback is in tube_callbacks
  keepalive,   \* the keepalive task is running
  iceGuard,    \* the ICE agent permit is held
  status,      \* TubeStatus
  closeReq,    \* close_tube has been called, for whatever reason
  tube,        \* how far the registry is with closing the tube
  call,        \* the description that is applied while its call goes on
  notified,    \* the callback of a signalling change is due
  adding,      \* add_ice_candidate's task per candidate
  pending,     \* pending_incoming_ice_candidates
  added,       \* how often the agent was given each candidate
  inProgress,  \* ice_restart_in_progress
  restart,     \* restart tasks, each with its answer timer
  offers, remotes, changes  \* bounded inputs so far

negotiation == <<signaling, remoteDesc, call, notified>>
candidates == <<adding, pending, added>>
resources == <<handler, registered, keepalive, iceGuard>>
lifecycle == <<closing, status, closeReq, tube>>
restarts == <<inProgress, restart>>
inputs == <<offers, remotes, changes>>
vars == <<trickle, negotiation, candidates, pcState, events, handling,
          resources, lifecycle, restarts, inputs>>

Restarts == 1..MaxRestarts
Terminal == {"disconnected", "failed", "closed"}

\* Types, and a restart callback is registered with trickle ICE only.
TypeOK ==
  /\ trickle \in BOOLEAN
  /\ registered => trickle
  /\ signaling \in {"stable", "local", "remote"}
  /\ remoteDesc \in BOOLEAN
  /\ pcState \in {"new", "connected", "disconnected", "failed", "closed"}
  /\ events \in Seq({"connected", "disconnected", "failed", "closed"})
  /\ handler \in {"initial", "monitoring", "cleared"}
  /\ handling \in {"idle", "starting", "waiting"}
  /\ {closing, registered, keepalive, iceGuard, closeReq, notified,
      inProgress} \subseteq BOOLEAN
  /\ status \in {"connecting", "active"} \cup Terminal
  /\ tube \in {"open", "closing", "closed"}
  /\ call \in {"idle", "answer", "offer", "local"}
  /\ adding \in [Candidates -> {"new", "unready", "done"}]
  /\ pending \subseteq Candidates
  /\ added \in [Candidates -> Nat]
  /\ restart \in [Restarts -> {"none", "offering", "waiting", "timedout", "done"}]

\* A connection that create_peer_connection has made: the initial state
\* handler is installed, the ICE agent permit taken, nothing negotiated.
Init ==
  /\ trickle \in BOOLEAN
  /\ signaling = "stable" /\ remoteDesc = FALSE
  /\ call = "idle" /\ notified = FALSE
  /\ pcState = "new" /\ events = << >> /\ handling = "idle"
  /\ handler = "initial" /\ registered = FALSE
  /\ keepalive = FALSE /\ iceGuard = TRUE
  /\ closing = FALSE /\ status = "connecting"
  /\ closeReq = FALSE /\ tube = "open"
  /\ adding = [c \in Candidates |-> "new"] /\ pending = {}
  /\ added = [c \in Candidates |-> 0]
  /\ inProgress = FALSE /\ restart = [n \in Restarts |-> "none"]
  /\ offers = 0 /\ remotes = 0 /\ changes = 0

----------------------------------------------------------------------------
(* Offers, answers and candidates.                                         *)

\* The library changes its signalling state; the callback that
\* setup_ice_candidate_handler installs for it exists with trickle ICE only
\* and until close() clears it.
Signal(state) ==
  /\ pcState # "closed"
  /\ signaling' = state
  /\ notified' = (notified \/ (trickle /\ handler # "cleared"))

\* Tube::create_offer: create_description_with_checks refuses a second offer,
\* set_local_description applies it and flushes what is buffered if a remote
\* description is set (the non-trickle path sets it without a flush).
CreateOffer ==
  /\ call = "idle" /\ tube # "closed"
  /\ offers < MaxOffers /\ offers' = offers + 1
  /\ ~closing
  /\ signaling = "stable"
  /\ Signal("local")
  /\ call' = IF trickle /\ remoteDesc THEN "local" ELSE "idle"
  /\ UNCHANGED <<trickle, remoteDesc, candidates, pcState, events, handling,
                 resources, lifecycle, restarts, remotes, changes>>

\* Python's restart_ice: an offer by restart_ice_internal, without the flag.
\* A restart that fails changes nothing here but the breaker's counters.
RestartIce ==
  /\ call = "idle" /\ tube # "closed"
  /\ offers < MaxOffers /\ offers' = offers + 1
  /\ trickle
  /\ signaling = "stable"
  /\ Signal("local")
  /\ UNCHANGED <<trickle, remoteDesc, call, candidates, pcState, events, handling,
                 resources, lifecycle, restarts, remotes, changes>>

\* validate_signaling_state_transition, with the library's own rule for what
\* it lets pass.
ValidRemote(kind) == signaling = IF kind = "answer" THEN "local" ELSE "stable"

\* set_remote_description, up to the description being applied.
SetRemote(kind) ==
  /\ call = "idle" /\ tube # "closed"
  /\ remotes < MaxRemotes /\ remotes' = remotes + 1
  /\ ~closing
  /\ ValidRemote(kind)
  /\ Signal(IF kind = "answer" THEN "stable" ELSE "remote")
  /\ remoteDesc' = TRUE
  /\ call' = kind
  /\ UNCHANGED <<trickle, candidates, pcState, events, handling,
                 resources, lifecycle, restarts, offers, changes>>

\* The agent takes candidates unless it is closed; the error is logged.
Give(cs) == added' = [c \in Candidates |-> IF c \in cs /\ pcState # "closed"
                                          THEN added[c] + 1 ELSE added[c]]

\* flush_buffered_incoming_ice_candidates: what is buffered is taken under
\* the lock of the buffer, and nobody else sees it before it is added.
Flush ==
  /\ Give(pending)
  /\ pending' = {}

\* The flush of the signalling state callback.
FlushCallback ==
  /\ notified
  /\ notified' = FALSE
  /\ IF remoteDesc THEN Flush ELSE UNCHANGED <<pending, added>>
  /\ UNCHANGED <<trickle, signaling, remoteDesc, call, adding, pcState,
                 events, handling, resources, lifecycle, restarts, inputs>>

\* The end of set_remote_description with an answer: a flush, and whatever
\* restart is in progress is complete.
AnswerApplied ==
  /\ call = "answer"
  /\ Flush
  /\ inProgress' = FALSE
  /\ call' = "idle"
  /\ UNCHANGED <<trickle, signaling, remoteDesc, notified, adding, pcState, events,
                 handling, resources, lifecycle, restart, inputs>>

\* Mutant: only an answer makes the buffered candidates usable.
OfferApplied_without_flush ==
  /\ call = "offer"
  /\ UNCHANGED <<pending, added>>
  /\ IF closing \/ signaling # "remote" \/ pcState = "closed"
       THEN /\ call' = "idle"
            /\ UNCHANGED <<signaling, notified>>
       ELSE /\ Signal("stable")
            /\ call' = IF trickle THEN "local" ELSE "idle"
  /\ UNCHANGED <<trickle, remoteDesc, adding, pcState, events, handling,
                 resources, lifecycle, restarts, inputs>>

\* The end of set_remote_description with an offer, and create_answer, with
\* which the caller goes on.
OfferApplied ==
  /\ call = "offer"
  /\ Flush
  /\ IF closing \/ signaling # "remote" \/ pcState = "closed"
       THEN /\ call' = "idle"
            /\ UNCHANGED <<signaling, notified>>
       ELSE /\ Signal("stable")
            /\ call' = IF trickle THEN "local" ELSE "idle"
  /\ UNCHANGED <<trickle, remoteDesc, adding, pcState, events, handling,
                 resources, lifecycle, restarts, inputs>>

\* The end of set_local_description when a remote description is set.
LocalApplied ==
  /\ call = "local"
  /\ Flush
  /\ call' = "idle"
  /\ UNCHANGED <<trickle, signaling, remoteDesc, notified, adding, pcState, events,
                 handling, resources, lifecycle, restarts, inputs>>

\* add_ice_candidate: with a remote description the candidate is added ...
CandidateArrives(c) ==
  /\ adding[c] = "new"
  /\ ~closing /\ tube # "closed"
  /\ adding' = [adding EXCEPT ![c] = IF remoteDesc THEN "done" ELSE "unready"]
  /\ IF remoteDesc THEN Give({c}) ELSE UNCHANGED added
  /\ UNCHANGED <<trickle, negotiation, pending, pcState, events, handling,
                 resources, lifecycle, restarts, inputs>>

\* ... and without it is buffered, which happens in a second step.
CandidateBuffered(c) ==
  /\ adding[c] = "unready"
  /\ adding' = [adding EXCEPT ![c] = "done"]
  /\ pending' = pending \cup {c}
  /\ UNCHANGED <<trickle, negotiation, added, pcState, events, handling,
                 resources, lifecycle, restarts, inputs>>

----------------------------------------------------------------------------
(* The state of the connection and its handlers.                           *)

\* What the ICE agent makes of the network.
StateChanges(state) ==
  /\ \/ state = "connected" /\ pcState = "new" /\ remoteDesc /\ signaling = "stable"
     \/ state = "connected" /\ pcState \in {"disconnected", "failed"}
     \/ state = "disconnected" /\ pcState = "connected"
     \/ state = "failed" /\ pcState \in {"connected", "disconnected"}
     \/ state = "failed" /\ pcState = "new" /\ remoteDesc
  /\ changes < MaxChanges /\ changes' = changes + 1
  /\ pcState' = state
  /\ events' = Append(events, state)
  /\ UNCHANGED <<trickle, negotiation, candidates, handling, resources, lifecycle,
                 restarts, offers, remotes>>

\* The library's close(): the state becomes Closed and is reported, once.
ClosePc ==
  IF pcState = "closed" THEN UNCHANGED <<pcState, events>>
  ELSE /\ pcState' = "closed"
       /\ events' = Append(events, "closed")

\* The report of a state change is due and no handler is running.
Reports(state) ==
  /\ events # << >> /\ Head(events) = state
  /\ handling = "idle"
  /\ events' = Tail(events)

\* Connected in either handler makes the tube active.
HandleConnected ==
  /\ Reports("connected")
  /\ status' = IF handler = "cleared" THEN status ELSE "active"
  /\ handling' = IF handler = "initial" THEN "starting" ELSE "idle"
  /\ UNCHANGED <<trickle, negotiation, candidates, pcState, resources, closing,
                 closeReq, tube, restarts, inputs>>

\* start_monitoring, called by the initial handler: the restart callback is
\* registered with trickle ICE only, and the initial handler replaced; then
\* start_keepalive.
StartMonitoring ==
  /\ handling = "starting"
  /\ registered' = trickle
  /\ handler' = "monitoring"
  /\ keepalive' = TRUE
  /\ handling' = "idle"
  /\ UNCHANGED <<trickle, negotiation, candidates, pcState, events, iceGuard,
                 lifecycle, restarts, inputs>>

\* Mutant: a keepalive task trusts close() to stop it.
KeepaliveTick_trusting ==
  /\ keepalive
  /\ pcState \in (IF trickle THEN {"failed"} ELSE {"failed", "disconnected"})
  /\ keepalive' = FALSE
  /\ UNCHANGED <<trickle, negotiation, candidates, pcState, events, handling, handler,
                 registered, iceGuard, lifecycle, restarts, inputs>>

\* The keepalive task ends itself when a tick finds the connection gone.
KeepaliveTick ==
  /\ keepalive
  /\ pcState \in (IF trickle THEN {"failed", "closed"} ELSE Terminal)
  /\ keepalive' = FALSE
  /\ UNCHANGED <<trickle, negotiation, candidates, pcState, events, handling, handler,
                 registered, iceGuard, lifecycle, restarts, inputs>>

\* Mutant: the new status is stored before the old one is looked at.
Terminate_marks_first(state) ==
  /\ closing' = TRUE
  /\ status' = state
  /\ closeReq' = (closeReq \/ state \notin Terminal)

\* A terminal state: the handler marks the connection as closing and asks the
\* registry to close the tube unless its status shows somebody has.
Terminate(state) ==
  /\ closing' = TRUE
  /\ status' = state
  /\ closeReq' = (closeReq \/ status \notin Terminal)

\* Disconnected: with trickle ICE the handler waits and then asks for a
\* restart; without, the connection is given up.
HandleDisconnected ==
  /\ Reports("disconnected")
  /\ IF handler = "monitoring" /\ ~trickle
       THEN Terminate("disconnected")
       ELSE UNCHANGED <<closing, status, closeReq>>
  /\ handling' = IF handler = "monitoring" /\ trickle THEN "waiting" ELSE "idle"
  /\ UNCHANGED <<trickle, negotiation, candidates, pcState, resources, tube,
                 restarts, inputs>>

\* The next restart task.
NextRestart == Min({n \in Restarts : restart[n] = "none"})

\* trigger_ice_restart: the registered callback spawns a task that runs
\* handle_ice_restart_with_signaling, which goes on if it is the one to set
\* the flag.
Trigger ==
  IF registered /\ ~inProgress /\ \E n \in Restarts : restart[n] = "none"
  THEN /\ inProgress' = TRUE
       /\ restart' = [restart EXCEPT ![NextRestart] = "offering"]
  ELSE UNCHANGED restarts

\* The wait of the Disconnected handler is over, whatever the state is now.
WaitEnds ==
  /\ handling = "waiting"
  /\ handling' = "idle"
  /\ Trigger
  /\ UNCHANGED <<trickle, negotiation, candidates, pcState, events, resources, lifecycle,
                 inputs>>

HandleFailed ==
  /\ Reports("failed")
  /\ IF handler = "monitoring" /\ ~trickle
       THEN Terminate("failed")
       ELSE UNCHANGED <<closing, status, closeReq>>
  /\ IF handler = "monitoring" /\ trickle THEN Trigger ELSE UNCHANGED restarts
  /\ UNCHANGED <<trickle, negotiation, candidates, pcState, handling, resources, tube,
                 inputs>>

HandleClosed ==
  /\ Reports("closed")
  /\ IF handler = "monitoring" THEN Terminate("closed")
                               ELSE UNCHANGED <<closing, status, closeReq>>
  /\ UNCHANGED <<trickle, negotiation, candidates, pcState, handling, resources, tube,
                 restarts, inputs>>

\* The network monitor reports a change that calls for a restart.
NetworkChange ==
  /\ registered
  /\ Trigger
  /\ UNCHANGED <<trickle, negotiation, candidates, pcState, events, handling, resources,
                 lifecycle, inputs>>

----------------------------------------------------------------------------
(* ICE restarts.                                                           *)

\* restart_ice_internal makes the offer the local description; it is sent and
\* the answer timer started.
RestartOffers(n) ==
  /\ restart[n] = "offering"
  /\ signaling = "stable"
  /\ Signal("local")
  /\ restart' = [restart EXCEPT ![n] = "waiting"]
  /\ UNCHANGED <<trickle, remoteDesc, call, candidates, pcState, events, handling,
                 resources, lifecycle, inProgress, inputs>>

\* Any error, the open breaker's or the library's (in a state other than
\* stable it has no other answer), is taken for a tripped breaker: the
\* connection is marked as closing and closed, and so is its tube.
RestartFails(n) ==
  /\ restart[n] = "offering"
  /\ restart' = [restart EXCEPT ![n] = "done"]
  /\ inProgress' = FALSE
  /\ closing' = TRUE
  /\ ClosePc
  /\ closeReq' = TRUE
  /\ UNCHANGED <<trickle, negotiation, candidates, handling, resources,
                 status, tube, inputs>>

\* Mutant: an answer timer that has run out only ends the restart.
AnswerTimeout_gives_up(n) ==
  /\ restart[n] = "waiting"
  /\ inProgress' = FALSE
  /\ restart' = [restart EXCEPT ![n] = "done"]
  /\ UNCHANGED <<trickle, negotiation, candidates, pcState, events, handling, resources,
                 lifecycle, inputs>>

\* The answer timer runs out and looks at the flag.
AnswerTimeout(n) ==
  /\ restart[n] = "waiting"
  /\ inProgress' = FALSE
  /\ restart' = [restart EXCEPT ![n] = IF inProgress THEN "timedout" ELSE "done"]
  /\ UNCHANGED <<trickle, negotiation, candidates, pcState, events, handling, resources,
                 lifecycle, inputs>>

\* If it was still set the connection and its tube are closed.
TimeoutCloses(n) ==
  /\ restart[n] = "timedout"
  /\ ClosePc
  /\ closeReq' = TRUE
  /\ restart' = [restart EXCEPT ![n] = "done"]
  /\ UNCHANGED <<trickle, negotiation, candidates, handling, resources, closing, status,
                 tube, inProgress, inputs>>

----------------------------------------------------------------------------
(* Closing the tube.                                                       *)

\* Python or another task closes the tube ...
CloseTube ==
  /\ tube = "open"
  /\ tube' = "closing"
  /\ status' = "closed"
  /\ UNCHANGED <<trickle, negotiation, candidates, pcState, events, handling, resources,
                 closing, closeReq, restarts, inputs>>

\* ... or the registry takes up a request of this module.
CloseRequested ==
  /\ closeReq
  /\ CloseTube

\* WebRTCPeerConnection::close: the first one to set is_closing stops the
\* keepalive and the monitoring, clears the callbacks, drops the permit and
\* closes the connection; any other takes it for closed.
Close ==
  /\ tube = "closing"
  /\ tube' = "closed"
  /\ closing' = TRUE
  /\ IF closing
       THEN UNCHANGED <<resources, pcState, events>>
       ELSE /\ handler' = "cleared"
            /\ registered' = FALSE
            /\ keepalive' = FALSE
            /\ iceGuard' = FALSE
            /\ ClosePc
  /\ UNCHANGED <<trickle, negotiation, candidates, handling, status, closeReq,
                 restarts, inputs>>

----------------------------------------------------------------------------
\* What Python, the remote peer and the network decide.
Environment ==
  \/ CreateOffer \/ RestartIce
  \/ \E kind \in {"answer", "offer"} : SetRemote(kind)
  \/ \E c \in Candidates : CandidateArrives(c)
  \/ \E state \in {"connected", "disconnected", "failed"} : StateChanges(state)
  \/ NetworkChange \/ CloseTube

CallSteps == AnswerApplied \/ OfferApplied \/ LocalApplied

HandlerSteps == HandleConnected \/ StartMonitoring
                \/ HandleDisconnected \/ WaitEnds \/ HandleFailed \/ HandleClosed

RestartSteps(n) == RestartOffers(n) \/ RestartFails(n)
                   \/ AnswerTimeout(n) \/ TimeoutCloses(n)

CloseSteps == CloseRequested \/ Close

Next ==
  \/ Environment
  \/ CallSteps \/ FlushCallback \/ HandlerSteps \/ KeepaliveTick \/ CloseSteps
  \/ \E c \in Candidates : CandidateBuffered(c)
  \/ \E n \in Restarts : RestartSteps(n)

\* The runtime runs every task that can run and every timer runs out; nothing
\* is assumed of Python, the peer and the network.
Fairness ==
  /\ WF_vars(CallSteps) /\ WF_vars(FlushCallback) /\ WF_vars(HandlerSteps)
  /\ WF_vars(KeepaliveTick) /\ WF_vars(CloseSteps)
  /\ \A c \in Candidates : WF_vars(CandidateBuffered(c))
  /\ \A n \in Restarts : WF_vars(RestartSteps(n))

Spec == Init /\ [][Next]_vars /\ Fairness

----------------------------------------------------------------------------
\* A candidate that is buffered when the flush of a new remote description
\* begins reaches the agent, unless the connection is closed first
\* (set_remote_description, flush_buffered_incoming_ice_candidates).
BufferedReachAgent ==
  \A c \in Candidates :
    (c \in pending /\ call \in {"answer", "offer"})
      ~> (added[c] = 1 \/ pcState = "closed")

\* No description will be applied any more and no call is under way.
PeerSilent == remotes = MaxRemotes /\ call = "idle"

\* A restart that waits for a peer that has fallen silent ends in a closed
\* connection and a closed tube, whichever restart's timer gets there first.
SilentPeerCloses ==
  (inProgress /\ PeerSilent) ~> (pcState = "closed" /\ tube = "closed")

\* Without trickle ICE a lost or failed connection closes its tube: the
\* monitoring handler asks the registry for it unless it has been asked.
LostConnectionCloses ==
  (~trickle /\ handler = "monitoring" /\ handling = "idle" /\ events # << >>
     /\ Head(events) \in {"disconnected", "failed"}) ~> (tube = "closed")

\* The keepalive task ends once the connection is closed, also when close()
\* came before the handler of Connected started it, or was skipped.
KeepaliveEnds == (pcState = "closed") ~> ~keepalive

\* What closing a tube releases: "Close peer connection (releases TURN
\* allocation, stops refresh timers)" (tube.rs, Tube::close).
ClosedTubeReleases == tube = "closed" => pcState = "closed" /\ ~iceGuard
=============================================================================
