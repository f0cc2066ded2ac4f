---------------------------- MODULE TubeRegistry ----------------------------
(***************************************************************************)
(* The tube registry of tube_registry.rs: an actor that executes one       *)
(* command at a time, the close tasks it spawns, and the two concurrent    *)
(* maps they share without a common lock.                                  *)
(*                                                                         *)
(* A tube id names a slot of the map; a tube is one incarnation of it,     *)
(* numbered in the order of creation, because a client may create an id    *)
(* again once its tube is gone.  The command queue has any number of       *)
(* independent senders, so "the actor takes a command" may be any command. *)
(***************************************************************************)
EXTENDS Integers, FiniteSets

CONSTANTS
  TubeIds,
  Convs,     \* conversation ids
  Closers,   \* close tasks that may run at the same time
  MaxTubes   \* bound: tubes created

ASSUME RegistryAssumption ==
  /\ MaxTubes \in Nat
  /\ IsFiniteSet(TubeIds) /\ IsFiniteSet(Convs) /\ IsFiniteSet(Closers)

Tubes == 1..MaxTubes
NoTube == 0
None == "none"
ActorIdle == [step |-> "idle", tube_id |-> None, conv |-> None, tube |-> NoTube]
CloserIdle == [step |-> "idle", tube_id |-> None, tube |-> NoTube]

VARIABLES
  tubes,           \* tube id -> its tube
  conversations,   \* conversation id -> tube id
  actor,           \* the command being executed
  closer,          \* per close task: where it stands
  last_tube,       \* number of the newest tube
  closing,         \* tubes whose closing flag is set
  peer_connection, \* per tube: none, live, or dead (failed, and idle for 5 minutes)
  failed,          \* history: tubes whose creation was reported as failed
  unclosed,        \* history: tubes whose close found no peer connection, or timed out
  closes           \* history: per tube, how many times its close was carried out

maps == <<tubes, conversations>>
tubeVars == <<last_tube, closing, peer_connection>>
history == <<failed, unclosed, closes>>
vars == <<maps, actor, closer, tubeVars, history>>

Init ==
  /\ tubes = [t \in TubeIds |-> NoTube]
  /\ conversations = [v \in Convs |-> None]
  /\ actor = ActorIdle
  /\ closer = [k \in Closers |-> CloserIdle]
  /\ last_tube = 0
  /\ closing = {}
  /\ peer_connection = [i \in Tubes |-> "none"]
  /\ failed = {} /\ unclosed = {}
  /\ closes = [i \in Tubes |-> 0]

-----------------------------------------------------------------------------
\* CreateTube: handle_create_tube, awaited by the actor.

\* The id exists: only a conversation (and a channel) is added to its tube.
UseExisting(t, v) ==
  /\ actor = ActorIdle /\ tubes[t] # NoTube
  /\ actor' = [step |-> "associate", tube_id |-> t, conv |-> v, tube |-> tubes[t]]
  /\ UNCHANGED <<maps, closer, tubeVars, history>>

AssociateExisting ==
  /\ actor.step = "associate"
  /\ conversations' = [conversations EXCEPT ![actor.conv] = actor.tube_id]
  /\ actor' = ActorIdle
  /\ UNCHANGED <<tubes, closer, tubeVars, history>>

\* Mutant: an existing tube is not looked for.
CreateNew_unchecked(t, v) ==
  /\ actor = ActorIdle /\ last_tube < MaxTubes
  /\ last_tube' = last_tube + 1
  /\ actor' = [step |-> "prepare", tube_id |-> t, conv |-> v, tube |-> last_tube + 1]
  /\ UNCHANGED <<maps, closer, closing, peer_connection, history>>

CreateNew(t, v) ==
  /\ actor = ActorIdle /\ tubes[t] = NoTube /\ last_tube < MaxTubes
  /\ last_tube' = last_tube + 1
  /\ actor' = [step |-> "prepare", tube_id |-> t, conv |-> v, tube |-> last_tube + 1]
  /\ UNCHANGED <<maps, closer, closing, peer_connection, history>>

\* Phase 1 is slow (it fetches credentials) and may fail or time out.
PrepareFails ==
  /\ actor.step = "prepare"
  /\ actor' = ActorIdle
  /\ UNCHANGED <<maps, closer, tubeVars, history>>

\* Phase 2: the two insertions.
InsertTube ==
  /\ actor.step = "prepare"
  /\ tubes' = [tubes EXCEPT ![actor.tube_id] = actor.tube]
  /\ actor' = [actor EXCEPT !.step = "insert_conversation"]
  /\ UNCHANGED <<conversations, closer, tubeVars, history>>

InsertConversation ==
  /\ actor.step = "insert_conversation"
  /\ conversations' = [conversations EXCEPT ![actor.conv] = actor.tube_id]
  /\ actor' = [actor EXCEPT !.step = "connect"]
  /\ UNCHANGED <<tubes, closer, tubeVars, history>>

\* Phase 3: the peer connection, then the channels and the offer or answer.
Connect ==
  /\ actor.step = "connect"
  /\ peer_connection' = [peer_connection EXCEPT ![actor.tube] = "live"]
  /\ actor' = [actor EXCEPT !.step = "offer"]
  /\ UNCHANGED <<maps, closer, last_tube, closing, history>>

CreateSucceeds ==
  /\ actor.step = "offer"
  /\ actor' = ActorIdle
  /\ UNCHANGED <<maps, closer, tubeVars, history>>

\* An error or the timeout ends the command after the insertions, which stay.
CreateFails ==
  /\ actor.step \in {"connect", "offer"}
  /\ failed' = failed \cup {actor.tube}
  /\ actor' = ActorIdle
  /\ UNCHANGED <<maps, closer, tubeVars, unclosed, closes>>

-----------------------------------------------------------------------------
\* The other commands.

AssociateConversation(t, v) ==
  /\ actor = ActorIdle
  /\ conversations' = [conversations EXCEPT ![v] = t]
  /\ UNCHANGED <<tubes, actor, closer, tubeVars, history>>

\* The close runs in a task of its own; the actor goes on.
CloseTube(k, t) ==
  /\ actor = ActorIdle
  /\ closer[k] = CloserIdle
  /\ closer' = [closer EXCEPT ![k] = [step |-> "lookup", tube_id |-> t, tube |-> NoTube]]
  /\ UNCHANGED <<maps, actor, tubeVars, history>>

Shutdown ==
  /\ actor = ActorIdle
  /\ actor' = [ActorIdle EXCEPT !.step = "stopped"]
  /\ UNCHANGED <<maps, closer, tubeVars, history>>

\* Mutant: the sweep goes by the tube's status, which a failed creation never
\* sets.
stale_tube_sweeper_by_status(t) ==
  /\ tubes[t] # NoTube /\ peer_connection[tubes[t]] = "dead"
  /\ tubes[t] \notin failed
  /\ \E k \in Closers : CloseTube(k, t)

\* The periodic sweep of the metrics collector sends a CloseTube for every
\* registered tube whose peer connection is dead.
stale_tube_sweeper(t) ==
  /\ tubes[t] # NoTube /\ peer_connection[tubes[t]] = "dead"
  /\ \E k \in Closers : CloseTube(k, t)

-----------------------------------------------------------------------------
\* close_tube_async.

CloserGoto(k, step) == closer' = [closer EXCEPT ![k].step = step]

Lookup(k) ==
  /\ closer[k].step = "lookup"
  /\ LET i == tubes[closer[k].tube_id] IN
     closer' = [closer EXCEPT ![k] =
                  IF i = NoTube THEN CloserIdle
                  ELSE [@ EXCEPT !.step = "flag", !.tube = i]]
  /\ UNCHANGED <<maps, actor, tubeVars, history>>

\* Mutant: the flag is read and written in two steps, and the read is stale.
SetClosing_unchecked(k) ==
  /\ closer[k].step = "flag"
  /\ closing' = closing \cup {closer[k].tube}
  /\ closes' = [closes EXCEPT ![closer[k].tube] = @ + 1]
  /\ CloserGoto(k, "close")
  /\ UNCHANGED <<maps, actor, last_tube, peer_connection, failed, unclosed>>

\* The compare_exchange on the closing flag picks the task that closes: it
\* sets the status, notifies the channels and the signal sender, and awaits
\* tube.close().
SetClosing(k) ==
  /\ closer[k].step = "flag" /\ closer[k].tube \notin closing
  /\ closing' = closing \cup {closer[k].tube}
  /\ closes' = [closes EXCEPT ![closer[k].tube] = @ + 1]
  /\ CloserGoto(k, "close")
  /\ UNCHANGED <<maps, actor, last_tube, peer_connection, failed, unclosed>>

\* A second close returns at once, unless the tube looks stuck.
AlreadyClosing(k) ==
  /\ closer[k].step = "flag" /\ closer[k].tube \in closing
  /\ peer_connection[closer[k].tube] # "dead"
  /\ closer' = [closer EXCEPT ![k] = CloserIdle]
  /\ UNCHANGED <<maps, actor, tubeVars, history>>

ForceRemove(k) ==
  /\ closer[k].step = "flag" /\ closer[k].tube \in closing
  /\ peer_connection[closer[k].tube] = "dead"
  /\ CloserGoto(k, "remove")
  /\ UNCHANGED <<maps, actor, tubeVars, history>>

\* Mutant: the tube is removed without waiting for its close, whose task is
\* dropped.
TubeCloses_unawaited(k) ==
  /\ closer[k].step = "close"
  /\ CloserGoto(k, "remove")
  /\ UNCHANGED <<maps, actor, tubeVars, history>>

\* A creation may not have stored its peer connection yet.
TubeCloses(k) ==
  LET i == closer[k].tube IN
  /\ closer[k].step = "close"
  /\ peer_connection' = [peer_connection EXCEPT ![i] = "none"]
  /\ unclosed' = IF peer_connection[i] = "none" THEN unclosed \cup {i} ELSE unclosed
  /\ CloserGoto(k, "remove")
  /\ UNCHANGED <<maps, actor, last_tube, closing, failed, closes>>

\* Mutant: a close that times out gives up.
TubeCloseTimesOut_gives_up(k) ==
  /\ closer[k].step = "close"
  /\ closer' = [closer EXCEPT ![k] = CloserIdle]
  /\ UNCHANGED <<maps, actor, tubeVars, history>>

\* tube.close() did not get to its peer connection in 30 seconds.
TubeCloseTimesOut(k) ==
  /\ closer[k].step = "close"
  /\ unclosed' = unclosed \cup {closer[k].tube}
  /\ CloserGoto(k, "remove")
  /\ UNCHANGED <<maps, actor, tubeVars, failed, closes>>

\* The removal is by id, whatever tube is under it by now.
RemoveTube(k) ==
  /\ closer[k].step = "remove"
  /\ tubes' = [tubes EXCEPT ![closer[k].tube_id] = NoTube]
  /\ CloserGoto(k, "retain")
  /\ UNCHANGED <<conversations, actor, tubeVars, history>>

RetainConversations(k) ==
  /\ closer[k].step = "retain"
  /\ conversations' = [v \in Convs |->
       IF conversations[v] = closer[k].tube_id THEN None ELSE conversations[v]]
  /\ closer' = [closer EXCEPT ![k] = CloserIdle]
  /\ UNCHANGED <<tubes, actor, tubeVars, history>>

-----------------------------------------------------------------------------
\* A peer connection fails, or is closed by the peer, and stays idle.
PeerDies(i) ==
  /\ peer_connection[i] = "live"
  /\ peer_connection' = [peer_connection EXCEPT ![i] = "dead"]
  /\ UNCHANGED <<maps, actor, closer, last_tube, closing, history>>

Create ==
  \/ AssociateExisting \/ PrepareFails \/ InsertTube \/ InsertConversation
  \/ Connect \/ CreateSucceeds \/ CreateFails

Close(k) ==
  \/ Lookup(k) \/ SetClosing(k) \/ AlreadyClosing(k) \/ ForceRemove(k)
  \/ TubeCloses(k) \/ TubeCloseTimesOut(k) \/ RemoveTube(k) \/ RetainConversations(k)

Next ==
  \/ \E t \in TubeIds, v \in Convs :
       UseExisting(t, v) \/ CreateNew(t, v) \/ AssociateConversation(t, v)
  \/ Create
  \/ \E k \in Closers : Close(k) \/ \E t \in TubeIds : CloseTube(k, t)
  \/ \E i \in Tubes : PeerDies(i)
  \/ Shutdown

Spec == Init /\ [][Next]_vars

\* The actor's command is bounded by tube_creation_timeout, every await of a
\* close task by a timeout; the periodic sweep queues a close for every dead
\* tube it meets, and the queue is served in order.
Fairness ==
  /\ WF_vars(Create)
  /\ \A k \in Closers : WF_vars(Close(k))
  /\ \A t \in TubeIds : SF_vars(stale_tube_sweeper(t))

FairSpec == Spec /\ Fairness

-----------------------------------------------------------------------------
\* Properties.

ActorSteps == {"idle", "associate", "prepare", "insert_conversation", "connect",
               "offer", "stopped"}
CloserSteps == {"idle", "lookup", "flag", "close", "remove", "retain"}

\* The maps name existing tubes and ids, the actor and the close tasks stand
\* at a step of their code.
TypeOK ==
  /\ tubes \in [TubeIds -> Tubes \cup {NoTube}]
  /\ conversations \in [Convs -> TubeIds \cup {None}]
  /\ actor \in [step : ActorSteps, tube_id : TubeIds \cup {None},
                conv : Convs \cup {None}, tube : Tubes \cup {NoTube}]
  /\ closer \in [Closers -> [step : CloserSteps, tube_id : TubeIds \cup {None},
                             tube : Tubes \cup {NoTube}]]
  /\ last_tube \in 0..MaxTubes
  /\ closing \in SUBSET Tubes
  /\ peer_connection \in [Tubes -> {"none", "live", "dead"}]
  /\ failed \in SUBSET Tubes /\ unclosed \in SUBSET Tubes
  /\ closes \in [Tubes -> Nat]

Registered(i) == \E t \in TubeIds : tubes[t] = i

\* Whatever close commands, clean-ups and forced removals race, the close of
\* a tube (its status, its signals, its channels) is carried out at most once.
ClosedOnce == \A i \in Tubes : closes[i] <= 1

\* A tube is put only where there is none: the actor's serial execution and
\* the look-up of the existing tube protect one client's tube from another's
\* create, although closes change the map all along.
NeverReplaced ==
  [][\A t \in TubeIds : tubes[t] # tubes'[t] => NoTube \in {tubes[t], tubes'[t]}]_vars

\* A tube enters the registry once, when it is the newest and before anything
\* has begun to close it: a close that overtakes the creation of its tube is
\* never undone by the rest of that creation.
EntersOpen ==
  [][\A i \in Tubes : ~Registered(i) /\ Registered(i)'
                         => i = last_tube /\ i \notin closing]_vars

\* A tube whose closing flag is set leaves the registry, even when its close
\* fails or times out ("ALWAYS remove").
ClosingTubesLeave == \A i \in Tubes : i \in closing ~> ~Registered(i)

\* A tube whose peer connection died is collected unless the actor stops,
\* also when the close that was tried first hung.
DeadTubesLeave ==
  \A i \in Tubes :
    peer_connection[i] = "dead" /\ Registered(i)
      ~> (~Registered(i) \/ actor.step = "stopped")

\* A tube that was closed and that the registry and its tasks no longer hold
\* has closed its peer connection (the rule of Tube's Drop: close before
\* dropping).  Two ways out are left: its close timed out, or overtook the
\* creation, which stored the peer connection afterwards.
ClosedBeforeDropped ==
  \A i \in closing :
    \/ peer_connection[i] = "none" \/ i \in unclosed
    \/ Registered(i) \/ actor.tube = i
    \/ \E k \in Closers : closer[k].tube = i
=============================================================================
