------------------------- MODULE TubeRegistryProofs -------------------------
(***************************************************************************)
(* Proofs about TubeRegistry, for any number of ids, conversations, close  *)
(* tasks and tubes.                                                        *)
(***************************************************************************)
EXTENDS TubeRegistry, TLAPS

\* A command or a close task that is under way names a slot and a tube.
InProgress ==
  /\ actor.step \in {"associate", "prepare", "insert_conversation", "connect", "offer"}
       => actor.tube_id \in TubeIds /\ actor.conv \in Convs /\ actor.tube \in Tubes
  /\ \A k \in Closers :
       /\ closer[k].step # "idle" => closer[k].tube_id \in TubeIds
       /\ closer[k].step \notin {"idle", "lookup"} => closer[k].tube \in Tubes

\* Nothing has seen a tube with a number that has not been given out.
Known ==
  /\ \A t \in TubeIds : tubes[t] <= last_tube
  /\ \A k \in Closers : closer[k].tube <= last_tube
  /\ \A i \in closing : i <= last_tube

\* The tube in preparation is private to the actor, and its slot stays empty:
\* only the actor fills slots.
Private ==
  actor.step = "prepare" =>
    /\ actor.tube = last_tube
    /\ tubes[actor.tube_id] = NoTube
    /\ actor.tube \notin closing
    /\ \A t \in TubeIds : tubes[t] # actor.tube
    /\ \A k \in Closers : closer[k].tube # actor.tube

\* The closing flag records the one close of a tube.
FlagCounts == \A i \in Tubes : closes[i] = IF i \in closing THEN 1 ELSE 0

Inv == TypeOK /\ InProgress /\ Known /\ Private /\ FlagCounts

\* An empty registry with an idle actor satisfies the invariant.
LEMMA InitInv == Init => Inv
  BY RegistryAssumption
     DEF Init, Inv, TypeOK, InProgress, Known, Private, FlagCounts, Tubes, NoTube,
         ActorIdle, CloserIdle, ActorSteps, CloserSteps

\* The commands of the actor keep it: a new tube has a number nobody knows.
LEMMA CommandsKeepInv ==
  ASSUME Inv, NEW t \in TubeIds, NEW v \in Convs,
         UseExisting(t, v) \/ CreateNew(t, v) \/ AssociateConversation(t, v)
  PROVE  Inv'
<1> USE RegistryAssumption
    DEF Inv, TypeOK, InProgress, Known, Private, FlagCounts, Tubes, NoTube,
        ActorIdle, ActorSteps, maps, tubeVars, history
<1>1. CASE UseExisting(t, v)
  <2>1. actor' = [step |-> "associate", tube_id |-> t, conv |-> v, tube |-> tubes[t]]
    BY <1>1 DEF UseExisting
  <2>2. tubes[t] \in 1..MaxTubes
    BY <1>1 DEF UseExisting
  <2>3. UNCHANGED <<tubes, conversations, closer, last_tube, closing, peer_connection,
                    failed, unclosed, closes>>
    BY <1>1 DEF UseExisting
  <2>4. TypeOK'
    BY <2>1, <2>2, <2>3
  <2>5. InProgress' /\ Known' /\ Private' /\ FlagCounts'
    BY <2>1, <2>2, <2>3
  <2>6. QED
    BY <2>4, <2>5
<1>2. CASE CreateNew(t, v)
  <2>1. /\ actor' = [step |-> "prepare", tube_id |-> t, conv |-> v, tube |-> last_tube + 1]
        /\ tubes[t] = 0 /\ last_tube < MaxTubes /\ last_tube' = last_tube + 1
        /\ UNCHANGED <<tubes, conversations, closer, closing, peer_connection,
                       failed, unclosed, closes>>
    BY <1>2 DEF CreateNew
  <2>2. last_tube + 1 \in 1..MaxTubes
    BY <2>1
  <2>3. TypeOK' /\ FlagCounts'
    <3>1. last_tube' \in 0..MaxTubes
      BY <2>1, <2>2
    <3>2. actor' \in [step : ActorSteps, tube_id : TubeIds \cup {None},
                      conv : Convs \cup {None}, tube : Tubes \cup {NoTube}]
      BY <2>1, <2>2
    <3>3. QED
      BY <2>1, <3>1, <3>2
  <2>4. InProgress'
    BY <2>1, <2>2
  <2>5. Known'
    <3>1. /\ last_tube \in Int /\ closing \in SUBSET Int
          /\ \A u \in TubeIds : tubes[u] \in Int
          /\ \A k \in Closers : closer[k].tube \in Int
      OBVIOUS
    <3>2. QED
      BY <2>1, <3>1
  <2>6. Private'
    BY <2>1
  <2>7. QED
    BY <2>3, <2>4, <2>5, <2>6
<1>3. CASE AssociateConversation(t, v)
  BY <1>3 DEF AssociateConversation
<1>4. QED
  BY <1>1, <1>2, <1>3

\* So does every step of handle_create_tube.
LEMMA CreateKeepsInv ==
  ASSUME Inv, Create
  PROVE  Inv'
<1> USE RegistryAssumption
    DEF Inv, TypeOK, InProgress, Known, Private, FlagCounts, Tubes, NoTube,
        ActorIdle, ActorSteps, maps, tubeVars, history
<1>1. CASE AssociateExisting
  BY <1>1 DEF AssociateExisting
<1>2. CASE PrepareFails
  BY <1>2 DEF PrepareFails
<1>3. CASE InsertTube
  <2>1. actor.tube_id \in TubeIds /\ actor.tube \in 1..MaxTubes /\ actor.tube = last_tube
    BY <1>3 DEF InsertTube
  <2>2. actor' = [actor EXCEPT !.step = "insert_conversation"]
    BY <1>3 DEF InsertTube
  <2>3. /\ tubes' = [tubes EXCEPT ![actor.tube_id] = actor.tube]
        /\ UNCHANGED <<conversations, closer, last_tube, closing, peer_connection,
                       failed, unclosed, closes>>
    BY <1>3 DEF InsertTube
  <2>4. TypeOK'
    BY <2>1, <2>2, <2>3
  <2>5. InProgress' /\ Private' /\ FlagCounts'
    BY <1>3, <2>1, <2>2, <2>3 DEF InsertTube
  <2>6. Known'
    BY <2>1, <2>3
  <2>7. QED
    BY <2>4, <2>5, <2>6
<1>4. CASE InsertConversation
  BY <1>4 DEF InsertConversation
<1>5. CASE Connect
  BY <1>5 DEF Connect
<1>6. CASE CreateSucceeds
  BY <1>6 DEF CreateSucceeds
<1>7. CASE CreateFails
  BY <1>7 DEF CreateFails
<1>8. QED
  BY <1>1, <1>2, <1>3, <1>4, <1>5, <1>6, <1>7 DEF Create

\* What a close task knows: its step, the id and the tube it looked up.
CloserType == [step : CloserSteps, tube_id : TubeIds \cup {None}, tube : Tubes \cup {NoTube}]

\* A step of one close task that leaves the flags alone keeps the invariant,
\* if what the task knows afterwards it knew before or found in the map, and
\* if entries of the map are only removed.
LEMMA CloserMoves ==
  ASSUME Inv, NEW k \in Closers, NEW r \in CloserType,
         closer' = [closer EXCEPT ![k] = r],
         r.step # "idle" => r.tube_id \in TubeIds,
         r.step \notin {"idle", "lookup"} => r.tube \in Tubes,
         r.tube \in {NoTube, closer[k].tube} \/ (\E t \in TubeIds : tubes[t] = r.tube),
         tubes' \in [TubeIds -> Tubes \cup {NoTube}],
         \A t \in TubeIds : tubes'[t] \in {tubes[t], NoTube},
         conversations' \in [Convs -> TubeIds \cup {None}],
         peer_connection' \in [Tubes -> {"none", "live", "dead"}],
         unclosed' \in SUBSET Tubes,
         UNCHANGED <<actor, last_tube, closing, failed, closes>>
  PROVE  Inv'
<1>1. /\ closer \in [Closers -> CloserType] /\ closer'[k] = r
      /\ \A j \in Closers : j # k => closer'[j] = closer[j]
  BY DEF Inv, TypeOK, CloserType
<1>2. TypeOK'
  <2>1. closer' \in [Closers -> CloserType]
    BY <1>1
  <2>2. QED
    BY <2>1 DEF Inv, TypeOK, CloserType
<1>3. InProgress'
  BY <1>1 DEF Inv, InProgress
<1>4. NoTube <= last_tube /\ NoTube \notin Tubes
  BY RegistryAssumption DEF Inv, TypeOK, NoTube, Tubes
<1>5. r.tube <= last_tube
  BY <1>4 DEF Inv, Known
<1>6. Known'
  BY <1>1, <1>4, <1>5 DEF Inv, Known
<1>7. Private'
  <2>1. SUFFICES ASSUME actor.step = "prepare"
                 PROVE  /\ tubes'[actor.tube_id] = NoTube
                        /\ \A t \in TubeIds : tubes'[t] # actor.tube
                        /\ \A j \in Closers : closer'[j].tube # actor.tube
    BY DEF Inv, Private
  <2>2. actor.tube \in Tubes /\ actor.tube_id \in TubeIds /\ actor.tube # NoTube
    BY <1>4, <2>1 DEF Inv, InProgress
  <2>3. /\ tubes[actor.tube_id] = NoTube
        /\ \A t \in TubeIds : tubes[t] # actor.tube
        /\ \A j \in Closers : closer[j].tube # actor.tube
    BY <2>1 DEF Inv, Private
  <2>4. QED
    BY <1>1, <2>2, <2>3
<1>8. FlagCounts'
  BY DEF Inv, FlagCounts
<1>9. QED
  BY <1>2, <1>3, <1>6, <1>7, <1>8 DEF Inv

\* Going on to another step of close_tube_async keeps the invariant too.
LEMMA CloserGoesOn ==
  ASSUME Inv, NEW k \in Closers, NEW s \in {"remove", "retain"},
         closer[k].step \in {"flag", "close", "remove"}, CloserGoto(k, s),
         tubes' \in [TubeIds -> Tubes \cup {NoTube}],
         \A t \in TubeIds : tubes'[t] \in {tubes[t], NoTube},
         conversations' = conversations,
         peer_connection' \in [Tubes -> {"none", "live", "dead"}],
         unclosed' \in SUBSET Tubes,
         UNCHANGED <<actor, last_tube, closing, failed, closes>>
  PROVE  Inv'
<1> DEFINE r == [closer[k] EXCEPT !.step = s]
<1>1. closer \in [Closers -> CloserType] /\ conversations \in [Convs -> TubeIds \cup {None}]
  BY DEF Inv, TypeOK, CloserType
<1>2. s \in CloserSteps
  BY DEF CloserSteps
<1>3. closer[k].tube_id \in TubeIds /\ closer[k].tube \in Tubes
  BY DEF Inv, InProgress
<1>4. r \in CloserType /\ r.tube_id = closer[k].tube_id /\ r.tube = closer[k].tube
  BY <1>1, <1>2 DEF CloserType
<1>5. closer' = [closer EXCEPT ![k] = r]
  BY <1>1 DEF CloserGoto
<1> HIDE DEF r
<1>6. QED
  BY <1>1, <1>3, <1>4, <1>5, CloserMoves

\* And so does returning from close_tube_async.
LEMMA CloserReturns ==
  ASSUME Inv, NEW k \in Closers, closer' = [closer EXCEPT ![k] = CloserIdle],
         conversations' \in [Convs -> TubeIds \cup {None}],
         UNCHANGED <<tubes, actor, tubeVars, history>>
  PROVE  Inv'
<1>1. CloserIdle \in CloserType /\ CloserIdle.step = "idle" /\ CloserIdle.tube = NoTube
  BY DEF CloserIdle, CloserType, CloserSteps
<1>2. /\ tubes' \in [TubeIds -> Tubes \cup {NoTube}]
      /\ \A t \in TubeIds : tubes'[t] \in {tubes[t], NoTube}
      /\ peer_connection' \in [Tubes -> {"none", "live", "dead"}]
      /\ unclosed' \in SUBSET Tubes
      /\ UNCHANGED <<actor, last_tube, closing, failed, closes>>
  BY DEF Inv, TypeOK, tubeVars, history
<1>3. QED
  BY <1>1, <1>2, CloserMoves

\* So every step of a close task keeps it: the task meets only registered
\* tubes, and the compare_exchange on the flag lets one task through.
LEMMA CloseKeepsInv ==
  ASSUME Inv, NEW k \in Closers,
         Close(k) \/ (\E t \in TubeIds : CloseTube(k, t))
  PROVE  Inv'
<1>t. /\ tubes \in [TubeIds -> Tubes \cup {NoTube}]
      /\ conversations \in [Convs -> TubeIds \cup {None}]
      /\ peer_connection \in [Tubes -> {"none", "live", "dead"}]
      /\ closer \in [Closers -> CloserType]
      /\ unclosed \in SUBSET Tubes
  BY DEF Inv, TypeOK, CloserType
<1>p. /\ closer[k].step # "idle" => closer[k].tube_id \in TubeIds
      /\ closer[k].step \notin {"idle", "lookup"} => closer[k].tube \in Tubes
  BY DEF Inv, InProgress
<1>1. CASE Lookup(k)
  <2> DEFINE i == tubes[closer[k].tube_id]
             r == [closer[k] EXCEPT !.step = "flag", !.tube = i]
  <2>1. CASE i = NoTube
    BY <1>1, <1>t, <2>1, CloserReturns DEF Lookup, maps
  <2>2. CASE i # NoTube
    <3>1. closer' = [closer EXCEPT ![k] = r] /\ UNCHANGED <<maps, actor, tubeVars, history>>
      BY <1>1, <1>t, <2>2 DEF Lookup
    <3>2. closer[k].tube_id \in TubeIds /\ i \in Tubes
      BY <1>1, <1>p, <1>t, <2>2 DEF Lookup
    <3>3. /\ r \in CloserType /\ r.step = "flag" /\ r.tube_id = closer[k].tube_id
          /\ r.tube = i
      BY <1>t, <3>2 DEF CloserType, CloserSteps
    <3>4. \E t \in TubeIds : tubes[t] = r.tube
      BY <3>2, <3>3
    <3> HIDE DEF r, i
    <3>5. QED
      BY <1>t, <3>1, <3>2, <3>3, <3>4, CloserMoves DEF maps, tubeVars, history
  <2>3. QED
    BY <2>1, <2>2
<1>2. CASE SetClosing(k)
  <2> DEFINE c == closer[k].tube
  <2>1. c \in Tubes /\ c \notin closing /\ closer[k].step = "flag"
    BY <1>2, <1>p DEF SetClosing
  <2>2. /\ closing' = closing \cup {c}
        /\ closes' = [closes EXCEPT ![c] = @ + 1]
        /\ closer' = [closer EXCEPT ![k].step = "close"]
        /\ UNCHANGED <<tubes, conversations, actor, last_tube, peer_connection,
                       failed, unclosed>>
    BY <1>2 DEF SetClosing, CloserGoto, maps
  <2>3. \A j \in Closers : /\ closer'[j].tube = closer[j].tube
                           /\ closer'[j].tube_id = closer[j].tube_id
                           /\ closer'[j].step = IF j = k THEN "close" ELSE closer[j].step
    BY <1>t, <2>2 DEF CloserType
  <2>4. closer' \in [Closers -> CloserType]
    BY <1>t, <2>2 DEF CloserType, CloserSteps
  <2>5. TypeOK'
    BY <2>1, <2>2, <2>4 DEF Inv, TypeOK, CloserType
  <2>6. InProgress'
    BY <2>1, <2>2, <2>3, <1>p DEF Inv, InProgress
  <2>7. Known'
    BY <2>1, <2>2, <2>3 DEF Inv, Known
  <2>8. Private'
    BY <2>1, <2>2, <2>3 DEF Inv, Private
  <2>9. FlagCounts'
    BY <2>1, <2>2 DEF Inv, FlagCounts, TypeOK
  <2>10. QED
    BY <2>5, <2>6, <2>7, <2>8, <2>9 DEF Inv
<1>3. CASE AlreadyClosing(k)
  BY <1>3, <1>t, CloserReturns DEF AlreadyClosing, maps
<1>4. CASE ForceRemove(k)
  BY <1>4, <1>t, CloserGoesOn DEF ForceRemove, maps, tubeVars, history
<1>5. CASE TubeCloses(k)
  <2>1. closer[k].step = "close" /\ closer[k].tube \in Tubes
    BY <1>5, <1>p DEF TubeCloses
  <2>2. /\ peer_connection' \in [Tubes -> {"none", "live", "dead"}]
        /\ unclosed' \in SUBSET Tubes
    BY <1>5, <1>t, <2>1 DEF TubeCloses
  <2>3. QED
    BY <1>5, <1>t, <2>1, <2>2, CloserGoesOn DEF TubeCloses, maps
<1>6. CASE TubeCloseTimesOut(k)
  BY <1>6, <1>t, <1>p, CloserGoesOn DEF TubeCloseTimesOut, maps, tubeVars
<1>7. CASE RemoveTube(k)
  <2>1. /\ tubes' \in [TubeIds -> Tubes \cup {NoTube}]
        /\ \A t \in TubeIds : tubes'[t] \in {tubes[t], NoTube}
    BY <1>7, <1>t DEF RemoveTube
  <2>2. QED
    BY <1>7, <1>t, <2>1, CloserGoesOn DEF RemoveTube, tubeVars, history
<1>8. CASE RetainConversations(k)
  <2>1. conversations' \in [Convs -> TubeIds \cup {None}]
    BY <1>8, <1>t DEF RetainConversations
  <2>2. QED
    BY <1>8, <2>1, CloserReturns DEF RetainConversations
<1>9. CASE \E t \in TubeIds : CloseTube(k, t)
  <2>1. PICK t \in TubeIds : CloseTube(k, t)
    BY <1>9
  <2> DEFINE r == [step |-> "lookup", tube_id |-> t, tube |-> NoTube]
  <2>2. closer' = [closer EXCEPT ![k] = r] /\ UNCHANGED <<maps, actor, tubeVars, history>>
    BY <2>1, <1>t DEF CloseTube
  <2>3. r \in CloserType /\ r.step = "lookup" /\ r.tube_id \in TubeIds /\ r.tube = NoTube
    BY DEF CloserType, CloserSteps
  <2> HIDE DEF r
  <2>4. QED
    BY <1>t, <2>2, <2>3, CloserMoves DEF maps, tubeVars, history
<1>10. QED
  BY <1>1, <1>2, <1>3, <1>4, <1>5, <1>6, <1>7, <1>8, <1>9 DEF Close

\* The inductive invariant holds in every reachable state.
LEMMA Invariance == Spec => []Inv
<1>1. Inv /\ [Next]_vars => Inv'
  <2> SUFFICES ASSUME Inv, [Next]_vars PROVE Inv'
    OBVIOUS
  <2>1. CASE \E i \in Tubes : PeerDies(i)
    BY <2>1 DEF PeerDies, Inv, TypeOK, InProgress, Known, Private, FlagCounts,
                maps, history
  <2>2. CASE Shutdown
    BY <2>2 DEF Shutdown, Inv, TypeOK, InProgress, Known, Private, FlagCounts,
                ActorIdle, ActorSteps, NoTube, maps, tubeVars, history
  <2>3. CASE UNCHANGED vars
    BY <2>3 DEF vars, maps, tubeVars, history, Inv, TypeOK, InProgress, Known,
                Private, FlagCounts
  <2>4. QED
    BY <2>1, <2>2, <2>3, CommandsKeepInv, CreateKeepsInv, CloseKeepsInv DEF Next
<1>2. QED
  BY <1>1, InitInv, PTL DEF Spec

\* The maps, the actor and the close tasks keep to their types.
THEOREM TypeCorrect == Spec => []TypeOK
<1>1. Inv => TypeOK
  BY DEF Inv
<1>2. QED
  BY <1>1, Invariance, PTL

\* However many close commands, sweeps and forced removals race for a tube,
\* its close is carried out at most once (close_tube_async).
THEOREM CloseHappensOnce == Spec => []ClosedOnce
<1>1. Inv => ClosedOnce
  BY DEF Inv, FlagCounts, ClosedOnce
<1>2. QED
  BY <1>1, Invariance, PTL

\* Only InsertTube fills a slot.
LEMMA OnlyInsertionFills ==
  ASSUME Inv, [Next]_vars
  PROVE  \/ InsertTube
         \/ \A t \in TubeIds : tubes'[t] \in {tubes[t], NoTube}
<1>1. CASE \E t \in TubeIds, v \in Convs :
             UseExisting(t, v) \/ CreateNew(t, v) \/ AssociateConversation(t, v)
  BY <1>1 DEF UseExisting, CreateNew, AssociateConversation, maps
<1>2. CASE Create
  BY <1>2 DEF Create, AssociateExisting, PrepareFails, InsertConversation, Connect,
              CreateSucceeds, CreateFails, maps
<1>3. CASE \E k \in Closers : Close(k) \/ \E t \in TubeIds : CloseTube(k, t)
  BY <1>3 DEF Close, Lookup, SetClosing, AlreadyClosing, ForceRemove, TubeCloses,
              TubeCloseTimesOut, RemoveTube, RetainConversations, CloseTube, maps,
              Inv, TypeOK
<1>4. CASE (\E i \in Tubes : PeerDies(i)) \/ Shutdown \/ UNCHANGED vars
  BY <1>4 DEF PeerDies, Shutdown, maps, vars
<1>5. QED
  BY <1>1, <1>2, <1>3, <1>4 DEF Next

\* No create, whatever closes run beside it, puts a tube over another one.
THEOREM NoReplacement == Spec => NeverReplaced
<1>1. ASSUME Inv, [Next]_vars, NEW t \in TubeIds, tubes[t] # tubes'[t]
      PROVE  NoTube \in {tubes[t], tubes'[t]}
  <2>1. CASE InsertTube
    BY <1>1, <2>1 DEF InsertTube, Inv, TypeOK, Private, InProgress
  <2>2. QED
    BY <1>1, <2>1, OnlyInsertionFills
<1>2. Inv /\ [Next]_vars
        => [\A t \in TubeIds : tubes[t] # tubes'[t] => NoTube \in {tubes[t], tubes'[t]}]_vars
  BY <1>1
<1>3. QED
  BY <1>2, Invariance, PTL DEF Spec, NeverReplaced

\* A tube enters the registry when it is the newest and nothing has begun to
\* close it: no late step of a creation undoes a close.
THEOREM EntryIsOpen == Spec => EntersOpen
<1>1. ASSUME Inv, [Next]_vars, NEW i \in Tubes, ~Registered(i), Registered(i)'
      PROVE  i = last_tube /\ i \notin closing
  <2>1. CASE InsertTube
    BY <1>1, <2>1 DEF InsertTube, Inv, TypeOK, Private, InProgress, Registered
  <2>2. CASE \A t \in TubeIds : tubes'[t] \in {tubes[t], NoTube}
    BY <1>1, <2>2 DEF Registered, NoTube, Tubes
  <2>3. QED
    BY <1>1, <2>1, <2>2, OnlyInsertionFills
<1>2. Inv /\ [Next]_vars
        => [\A i \in Tubes : ~Registered(i) /\ Registered(i)'
                               => i = last_tube /\ i \notin closing]_vars
  BY <1>1
<1>3. QED
  BY <1>2, Invariance, PTL DEF Spec, EntersOpen
-----------------------------------------------------------------------------
\* Close before drop.

\* handle_create_tube has a tube in hand and has not stored its peer connection.
Connecting(i) ==
  actor.step \in {"prepare", "insert_conversation", "connect"} /\ actor.tube = i

\* A close task is at tube.close() for this tube.
AboutToClose(i) == \E k \in Closers : closer[k].step = "close" /\ closer[k].tube = i

\* Only the creation gives a tube its peer connection, and only once.
NotYetConnected ==
  \A i \in Tubes :
    /\ Connecting(i) => i <= last_tube
    /\ Connecting(i) \/ last_tube < i => peer_connection[i] = "none"

\* Once the flag is set, either the close is still ahead, or it is behind and
\* left no peer connection that a creation could still bring back; else it is
\* one of those the history calls unclosed.
CloseSettled ==
  \A i \in closing :
    \/ i \in unclosed \/ AboutToClose(i)
    \/ peer_connection[i] = "none" /\ ~Connecting(i)

\* The peer connection of a tube is stored by one step of its creation.
LEMMA StepKeepsNotYetConnected ==
  ASSUME Inv, NotYetConnected, [Next]_vars
  PROVE  NotYetConnected'
<1> USE RegistryAssumption DEF NotYetConnected, Connecting, Tubes
<1>t. last_tube \in Nat /\ peer_connection \in [Tubes -> {"none", "live", "dead"}]
  BY DEF Inv, TypeOK
<1>1. CASE \E t \in TubeIds, v \in Convs :
             UseExisting(t, v) \/ CreateNew(t, v) \/ AssociateConversation(t, v)
  BY <1>1, <1>t DEF UseExisting, CreateNew, AssociateConversation, tubeVars
<1>2. CASE Create
  <2>1. CASE Connect
    <3>1. actor.tube \in Tubes /\ actor.tube <= last_tube
      BY <2>1 DEF Connect, Inv, InProgress
    <3>2. QED
      BY <2>1, <3>1, <1>t DEF Connect
  <2>2. QED
    BY <1>2, <2>1 DEF Create, AssociateExisting, PrepareFails, InsertTube,
       InsertConversation, CreateSucceeds, CreateFails, ActorIdle, tubeVars, Inv, TypeOK
<1>3. CASE \E k \in Closers : Close(k) \/ \E t \in TubeIds : CloseTube(k, t)
  BY <1>3, <1>t DEF Close, Lookup, SetClosing, AlreadyClosing, ForceRemove, TubeCloses,
     TubeCloseTimesOut, RemoveTube, RetainConversations, CloseTube, tubeVars
<1>4. CASE \E i \in Tubes : PeerDies(i)
  BY <1>4, <1>t DEF PeerDies
<1>5. CASE Shutdown \/ UNCHANGED vars
  BY <1>5 DEF Shutdown, ActorIdle, vars, tubeVars
<1>6. QED
  BY <1>1, <1>2, <1>3, <1>4, <1>5 DEF Next

\* A close that overtakes the creation is recorded as unclosed, so no step of
\* the creation unsettles a close.
LEMMA StepKeepsCloseSettled ==
  ASSUME Inv, NotYetConnected, CloseSettled, [Next]_vars
  PROVE  CloseSettled'
<1>t. /\ peer_connection \in [Tubes -> {"none", "live", "dead"}] /\ closing \subseteq Tubes
      /\ closer \in [Closers -> CloserType] /\ last_tube \in Nat
  BY RegistryAssumption DEF Inv, TypeOK, CloserType
<1> SUFFICES ASSUME NEW i \in closing'
             PROVE  \/ i \in unclosed' \/ AboutToClose(i)'
                    \/ peer_connection'[i] = "none" /\ ~Connecting(i)'
  BY DEF CloseSettled
<1>1. CASE \E t \in TubeIds, v \in Convs :
             UseExisting(t, v) \/ CreateNew(t, v) \/ AssociateConversation(t, v)
  <2>1. i \in closing /\ UNCHANGED <<closer, peer_connection, unclosed>>
    BY <1>1 DEF UseExisting, CreateNew, AssociateConversation, tubeVars, history
  <2>2. i <= last_tube /\ i \in Nat
    BY <2>1, <1>t, RegistryAssumption DEF Inv, Known, Tubes
  <2>3. AboutToClose(i)' <=> AboutToClose(i)
    BY <2>1 DEF AboutToClose
  <2>4. Connecting(i)' => Connecting(i)
    BY <1>1, <1>t, <2>2 DEF UseExisting, CreateNew, AssociateConversation, Connecting
  <2>5. QED
    BY <2>1, <2>3, <2>4 DEF CloseSettled
<1>2. CASE Create
  <2>1. i \in closing /\ UNCHANGED <<closer, unclosed>>
    BY <1>2 DEF Create, AssociateExisting, PrepareFails, InsertTube, InsertConversation,
       Connect, CreateSucceeds, CreateFails, tubeVars, history
  <2>2. AboutToClose(i)' <=> AboutToClose(i)
    BY <2>1 DEF AboutToClose
  <2>3. CASE Connect
    BY <2>1, <2>2, <2>3, <1>t DEF Connect, CloseSettled, Connecting
  <2>4. CASE ~Connect
    <3>1. peer_connection' = peer_connection
      BY <1>2, <2>4 DEF Create, AssociateExisting, PrepareFails, InsertTube,
         InsertConversation, CreateSucceeds, CreateFails, tubeVars
    <3>2. Connecting(i)' => Connecting(i)
      BY <1>2, <2>4 DEF Create, AssociateExisting, PrepareFails, InsertTube,
         InsertConversation, CreateSucceeds, CreateFails, Connecting, ActorIdle, Inv, TypeOK
    <3>3. QED
      BY <2>1, <2>2, <3>1, <3>2 DEF CloseSettled
  <2>5. QED
    BY <2>3, <2>4
<1>3. CASE \E k \in Closers : Close(k) \/ \E t \in TubeIds : CloseTube(k, t)
  <2>1. PICK k \in Closers : Close(k) \/ \E t \in TubeIds : CloseTube(k, t)
    BY <1>3
  <2>2. Connecting(i)' <=> Connecting(i)
    BY <2>1 DEF Close, Lookup, SetClosing, AlreadyClosing, ForceRemove, TubeCloses,
       TubeCloseTimesOut, RemoveTube, RetainConversations, CloseTube, Connecting
  <2>3. CASE SetClosing(k)
    <3>1. /\ closing' = closing \cup {closer[k].tube}
          /\ closer' = [closer EXCEPT ![k].step = "close"]
          /\ UNCHANGED <<peer_connection, unclosed>>
      BY <2>3 DEF SetClosing, CloserGoto
    <3>2. /\ closer'[k].step = "close" /\ closer'[k].tube = closer[k].tube
          /\ \A j \in Closers : j # k => closer'[j] = closer[j]
      BY <3>1, <1>t DEF CloserType
    <3>3. AboutToClose(i) => AboutToClose(i)'
      BY <3>2 DEF AboutToClose
    <3>4. i \in closing \/ AboutToClose(i)'
      BY <3>1, <3>2 DEF AboutToClose
    <3>5. QED
      BY <2>2, <3>1, <3>3, <3>4 DEF CloseSettled
  <2>4. CASE TubeCloses(k)
    <3>1. /\ closer[k].step = "close" /\ closer[k].tube \in Tubes
          /\ closer' = [closer EXCEPT ![k].step = "remove"]
          /\ peer_connection' = [peer_connection EXCEPT ![closer[k].tube] = "none"]
          /\ unclosed' = IF peer_connection[closer[k].tube] = "none"
                         THEN unclosed \cup {closer[k].tube} ELSE unclosed
          /\ i \in closing
      BY <2>4 DEF TubeCloses, CloserGoto, Inv, InProgress
    <3>2. CASE i = closer[k].tube
      BY <3>1, <3>2, <1>t, <2>2 DEF NotYetConnected
    <3>3. CASE i # closer[k].tube
      <4>1. AboutToClose(i) => AboutToClose(i)'
        BY <3>1, <3>3, <1>t DEF AboutToClose, CloserType
      <4>2. peer_connection'[i] = peer_connection[i]
        BY <3>1, <3>3, <1>t
      <4>3. QED
        BY <3>1, <4>1, <4>2, <2>2 DEF CloseSettled
    <3>4. QED
      BY <3>2, <3>3
  <2>5. CASE TubeCloseTimesOut(k)
    <3>1. /\ closer' = [closer EXCEPT ![k].step = "remove"]
          /\ unclosed' = unclosed \cup {closer[k].tube}
          /\ i \in closing /\ peer_connection' = peer_connection
      BY <2>5 DEF TubeCloseTimesOut, CloserGoto, tubeVars
    <3>2. i # closer[k].tube /\ AboutToClose(i) => AboutToClose(i)'
      BY <3>1, <1>t DEF AboutToClose, CloserType
    <3>3. QED
      BY <3>1, <3>2, <2>2 DEF CloseSettled
  <2>6. CASE ~SetClosing(k) /\ ~TubeCloses(k) /\ ~TubeCloseTimesOut(k)
    <3>1. UNCHANGED <<closing, peer_connection, unclosed>>
      BY <2>1, <2>6 DEF Close, Lookup, AlreadyClosing, ForceRemove, RemoveTube,
         RetainConversations, CloseTube, tubeVars, history
    <3>2. /\ closer[k].step # "close"
          /\ \A j \in Closers : j # k => closer'[j] = closer[j]
      BY <2>1, <2>6, <1>t DEF Close, Lookup, AlreadyClosing, ForceRemove, RemoveTube,
         RetainConversations, CloseTube, CloserGoto, CloserIdle
    <3>3. AboutToClose(i) => AboutToClose(i)'
      BY <3>2 DEF AboutToClose
    <3>4. QED
      BY <2>2, <3>1, <3>3 DEF CloseSettled
  <2>7. QED
    BY <2>3, <2>4, <2>5, <2>6
<1>4. CASE \E j \in Tubes : PeerDies(j)
  <2>1. PICK j \in Tubes : PeerDies(j)
    BY <1>4
  <2>2. /\ i \in closing /\ UNCHANGED <<actor, closer, unclosed>>
        /\ peer_connection[j] = "live"
        /\ peer_connection' = [peer_connection EXCEPT ![j] = "dead"]
    BY <2>1 DEF PeerDies, history
  <2>3. /\ AboutToClose(i)' <=> AboutToClose(i)
        /\ Connecting(i)' <=> Connecting(i)
    BY <2>2 DEF AboutToClose, Connecting
  <2>4. peer_connection[i] = "none" => peer_connection'[i] = "none"
    BY <2>2, <1>t
  <2>5. QED
    BY <2>2, <2>3, <2>4 DEF CloseSettled
<1>5. CASE Shutdown \/ UNCHANGED vars
  BY <1>5 DEF Shutdown, ActorIdle, vars, tubeVars, history, CloseSettled, AboutToClose,
     Connecting
<1>6. QED
  BY <1>1, <1>2, <1>3, <1>4, <1>5 DEF Next

\* A tube that was closed, and that neither the registry nor a task holds any
\* more, has closed its peer connection, but for a close that timed out or that
\* overtook the creation (the rule of Tube's Drop).
THEOREM CloseBeforeDrop == Spec => []ClosedBeforeDropped
<1>1. Init => NotYetConnected /\ CloseSettled
  BY DEF Init, NotYetConnected, CloseSettled, Connecting, ActorIdle
<1>2. Inv /\ NotYetConnected /\ CloseSettled /\ [Next]_vars
        => NotYetConnected' /\ CloseSettled'
  BY StepKeepsNotYetConnected, StepKeepsCloseSettled
<1>3. CloseSettled => ClosedBeforeDropped
  BY DEF CloseSettled, ClosedBeforeDropped, AboutToClose
<1>4. QED
  BY <1>1, <1>2, <1>3, Invariance, PTL DEF Spec
=============================================================================
