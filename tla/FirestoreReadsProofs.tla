------------------------- MODULE FirestoreReadsProofs -------------------------
(***************************************************************************)
(* For any documents, any number of reads and any faults of the            *)
(* connection: the tables of listens agree, the stream lives while it is   *)
(* wanted, no read is forgotten, what a read hears from the server is not  *)
(* older than the read, and the read path implements DocumentReads.        *)
(***************************************************************************)
EXTENDS FirestoreReads, FiniteSetTheorems, SequenceTheorems, TLAPS

\* The type invariant by owner.
TypeApp    == /\ asked \in 0..MaxGets /\ docOf \in [Gets -> Docs]
              /\ tasks \in Seq([op : {"add", "remove"}, g : Gets])
              /\ muted \subseteq Gets
              /\ events \in [Gets -> Seq(Answers)]
              /\ answers \in [Gets -> Seq(Answers)]
TypeListen == /\ listeners \in [Docs -> SUBSET Gets] /\ raised \subseteq Gets
              /\ views \in [Docs -> {"none", "local", "synced"}]
              /\ cache \in [Docs -> Versions]
TypeOnline == /\ online \in {"Unknown", "Online", "Offline"}
              /\ timer \in BOOLEAN /\ failed \in BOOLEAN
TypeStream == /\ targets \subseteq Docs /\ stream \in Streams
              /\ idle \in BOOLEAN /\ pending \in [Docs -> Int]
TypeWire   == /\ requests \in [Docs -> Seq({"watch", "unwatch"})]
              /\ changes \in [Docs -> Seq(Messages)]
              /\ watched \in [Docs -> {"no", "added", "current"}]
              /\ shown \in [Docs -> Versions]
TypeRest   == /\ server \in [Docs -> Versions] /\ floor \in [Gets -> Versions]
              /\ shared \subseteq Gets /\ doubted \subseteq Gets
              /\ crossed \in BOOLEAN /\ drops \in 0..MaxDrops

LEMMA TypeParts ==
    TypeOK <=> /\ TypeApp /\ TypeListen /\ TypeOnline
               /\ TypeStream /\ TypeWire /\ TypeRest
BY Zenon DEF TypeOK, TypeApp, TypeListen, TypeOnline, TypeStream, TypeWire, TypeRest

-----------------------------------------------------------------------------
(***************************************************************************)
(* Families of sequences.                                                  *)
(***************************************************************************)
LEMMA AppendAt ==
    ASSUME NEW S, NEW I, NEW f \in [I -> Seq(S)], NEW i \in I, NEW x \in S
    PROVE  [f EXCEPT ![i] = Append(@, x)] \in [I -> Seq(S)]
<1>1. Append(f[i], x) \in Seq(S)
    BY AppendProperties
<1> QED
    BY <1>1

LEMMA TailAt ==
    ASSUME NEW S, NEW I, NEW f \in [I -> Seq(S)], NEW i \in I, f[i] # <<>>
    PROVE  /\ [f EXCEPT ![i] = Tail(@)] \in [I -> Seq(S)]
           /\ Head(f[i]) \in S
<1>1. Tail(f[i]) \in Seq(S) /\ Head(f[i]) \in S
    BY HeadTailProperties
<1> QED
    BY <1>1

LEMMA QuietType == Quiet \in [Docs -> Seq({"watch", "unwatch"})] /\ Quiet \in [Docs -> Seq(Messages)]
BY EmptySeq DEF Quiet

-----------------------------------------------------------------------------
(***************************************************************************)
(* Types.                                                                  *)
(***************************************************************************)
LEMMA VersionsType == Versions \subseteq Nat /\ 0 \in Versions
BY BoundsAssumption DEF Versions

LEMMA InitType == Init => TypeOK
<1> SUFFICES ASSUME Init PROVE TypeOK
    OBVIOUS
<1> USE BoundsAssumption DEF Init
<1>1. TypeApp
    BY EmptySeq DEF TypeApp, Gets
<1>2. TypeListen
  <2>1. cache = [d \in Docs |-> 0] /\ listeners = [d \in Docs |-> {}] /\ raised = {}
      OBVIOUS
  <2>2. views \in [Docs -> {"none", "local", "synced"}]
      OBVIOUS
  <2> HIDE DEF Init
  <2> QED
      BY <2>1, <2>2, VersionsType DEF TypeListen
<1>3. TypeOnline
    BY DEF TypeOnline
<1>4. TypeStream
  <2>1. targets = {} /\ stream = "Initial" /\ idle = FALSE /\ pending = [d \in Docs |-> 0]
      OBVIOUS
  <2> HIDE DEF Init
  <2>2. pending \in [Docs -> Int]
      BY <2>1
  <2> QED
      BY <2>1, <2>2 DEF TypeStream, Streams
<1>5. TypeWire
    BY QuietType, VersionsType DEF TypeWire
<1>6. TypeRest
  <2>1. drops \in 0..MaxDrops
      OBVIOUS
  <2>2. server \in [Docs -> Versions] /\ floor \in [Gets -> Versions]
      BY VersionsType
  <2>3. shared \subseteq Gets /\ doubted \subseteq Gets /\ crossed \in BOOLEAN
      OBVIOUS
  <2> HIDE DEF Init
  <2> QED
      BY <2>1, <2>2, <2>3 DEF TypeRest
<1> QED
    BY <1>1, <1>2, <1>3, <1>4, <1>5, <1>6, TypeParts

LEMMA SnapshotType ==
    ASSUME NEW view, NEW v \in Versions
    PROVE  Snapshot(view, v) \in Answers
BY DEF Snapshot, Answers

LEMMA MessageType ==
    /\ Message("denied") \in Answers
    /\ \A kind \in {"added", "removed", "denied"} : Message(kind) \in Messages
BY VersionsType DEF Message, Answers, Messages

\* Whom Tell(news) tells.
Due(news) == {g \in UNION {listeners'[d] : d \in Docs} :
                 IF g \in raised THEN docOf[g] \in news
                 ELSE InitialDue(views'[docOf[g]], cache'[docOf[g]], online')}

LEMMA TellIs ==
    ASSUME NEW news, Tell(news)
    PROVE  /\ raised' = raised \cup Due(news)
           /\ events' = [g \in Gets |->
                  IF g \in Due(news)
                  THEN Append(events[g], Snapshot(views'[docOf[g]], cache'[docOf[g]]))
                  ELSE events[g]]
BY Zenon DEF Tell, Due

LEMMA TellType ==
    ASSUME TypeApp, TypeListen, NEW news, Tell(news),
           listeners' \in [Docs -> SUBSET Gets], cache' \in [Docs -> Versions]
    PROVE  raised' \subseteq Gets /\ events' \in [Gets -> Seq(Answers)]
<1>1. Due(news) \subseteq Gets
    BY DEF Due
<1>2. ASSUME NEW g \in Gets
      PROVE  Append(events[g], Snapshot(views'[docOf[g]], cache'[docOf[g]])) \in Seq(Answers)
    BY SnapshotType, AppendProperties DEF TypeApp
<1>3. raised' \subseteq Gets
    BY <1>1, TellIs DEF TypeListen
<1>4. events' = [g \in Gets |->
          IF g \in Due(news)
          THEN Append(events[g], Snapshot(views'[docOf[g]], cache'[docOf[g]]))
          ELSE events[g]]
    BY TellIs
<1>5. \A g \in Gets : events[g] \in Seq(Answers)
    BY DEF TypeApp
<1> QED
    BY <1>2, <1>3, <1>4, <1>5

LEMMA ViewsAtType ==
    ASSUME TypeListen, NEW state
    PROVE  ViewsAt(state) \in [Docs -> {"none", "local", "synced"}]
BY DEF TypeListen, ViewsAt

LEMMA WaitingType == TypeApp => Waiting \subseteq Gets
BY BoundsAssumption DEF TypeApp, Waiting, Gets

LEMMA BroadcastType ==
    ASSUME TypeApp, TypeListen, TypeRest, NEW state, Broadcast(state)
    PROVE  /\ TypeListen' /\ events' \in [Gets -> Seq(Answers)]
           /\ doubted' \subseteq Gets
<1>1. listeners' \in [Docs -> SUBSET Gets] /\ cache' \in [Docs -> Versions]
    BY DEF Broadcast, TypeListen
<1>2. views' \in [Docs -> {"none", "local", "synced"}]
    BY ViewsAtType DEF Broadcast
<1>3. raised' \subseteq Gets /\ events' \in [Gets -> Seq(Answers)]
    BY <1>1, TellType DEF Broadcast
<1>4. doubted' \subseteq Gets
    BY WaitingType DEF Broadcast, TypeRest
<1> QED
    BY <1>1, <1>2, <1>3, <1>4 DEF TypeListen

LEMMA ClosedType ==
    ASSUME Closed
    PROVE  TypeWire' /\ idle' \in BOOLEAN /\ pending' \in [Docs -> Int]
<1>1. pending' \in [Docs -> Int]
    BY DEF Closed
<1>0. idle' \in BOOLEAN
    BY DEF Closed
<1>2. requests' \in [Docs -> Seq({"watch", "unwatch"})] /\ changes' \in [Docs -> Seq(Messages)]
    BY QuietType DEF Closed
<1>3. watched' \in [Docs -> {"no", "added", "current"}]
    BY DEF Closed
<1>4. shown' \in [Docs -> Versions]
    BY VersionsType DEF Closed
<1> QED
    BY <1>0, <1>1, <1>2, <1>3, <1>4 DEF TypeWire

LEMMA SendType ==
    ASSUME TypeWire, TypeStream, NEW d \in Docs,
           NEW request \in {"watch", "unwatch"}, Send(d, request)
    PROVE  /\ requests' \in [Docs -> Seq({"watch", "unwatch"})]
           /\ pending' \in [Docs -> Int]
<1>1. requests' \in [Docs -> Seq({"watch", "unwatch"})]
    BY AppendAt DEF Send, TypeWire
<1>2. pending' \in [Docs -> Int]
    BY DEF Send, TypeStream
<1> QED
    BY <1>1, <1>2

LEMMA StartType ==
    ASSUME TypeOnline, NEW f \in BOOLEAN, HandleWatchStreamStart(f)
    PROVE  TypeOnline'
BY DEF TypeOnline, HandleWatchStreamStart

LEMMA UpdateStateType ==
    ASSUME NEW state \in {"Unknown", "Online", "Offline"}, UpdateState(state)
    PROVE  TypeOnline'
BY DEF TypeOnline, UpdateState

LEMMA ListenType ==
    ASSUME TypeListen, TypeOnline, TypeStream, TypeWire, NEW d \in Docs, Listen(d)
    PROVE  /\ views' \in [Docs -> {"none", "local", "synced"}]
           /\ TypeOnline' /\ TypeStream' /\ TypeWire'
<1>1. views' \in [Docs -> {"none", "local", "synced"}] /\ targets' \subseteq Docs
    BY DEF Listen, TypeListen, TypeStream
<1>2. CASE /\ Send(d, "watch") /\ idle' = FALSE
           /\ UNCHANGED <<onlineVars, stream, changes, watched, shown>>
    BY <1>1, <1>2, SendType DEF onlineVars, TypeOnline, TypeStream, TypeWire
<1>3. CASE /\ stream' = IF stream = "Error" THEN "Backoff" ELSE "Starting"
           /\ HandleWatchStreamStart(failed)
           /\ UNCHANGED <<idle, pending, wireVars>>
  <2>1. TypeOnline'
      BY <1>3, StartType DEF TypeOnline
  <2> QED
      BY <1>1, <1>3, <2>1 DEF wireVars, TypeStream, TypeWire, Streams
<1>4. CASE UNCHANGED <<onlineVars, stream, idle, pending, wireVars>>
    BY <1>1, <1>4 DEF onlineVars, wireVars, TypeOnline, TypeStream, TypeWire
<1> QED
    BY <1>2, <1>3, <1>4 DEF Listen

LEMMA StopListeningType ==
    ASSUME TypeListen, TypeOnline, TypeStream, TypeWire, NEW d \in Docs, StopListening(d)
    PROVE  /\ views' \in [Docs -> {"none", "local", "synced"}]
           /\ TypeOnline' /\ TypeStream' /\ TypeWire'
<1>1. /\ views' \in [Docs -> {"none", "local", "synced"}]
      /\ targets' \subseteq Docs /\ UNCHANGED stream
    BY DEF StopListening, TypeListen, TypeStream
<1>2. CASE stream = "Open"
  <2>1. /\ Send(d, "unwatch") /\ idle' = (targets' = {})
        /\ UNCHANGED <<onlineVars, changes, watched, shown>>
      BY <1>2 DEF StopListening
  <2> QED
      BY <1>1, <2>1, SendType DEF onlineVars, TypeOnline, TypeStream, TypeWire
<1>3. CASE stream # "Open"
  <2>1. /\ UpdateState("Unknown") \/ UNCHANGED onlineVars
        /\ UNCHANGED <<idle, pending, wireVars>>
      BY <1>3 DEF StopListening
  <2>2. TypeOnline'
      BY <2>1, UpdateStateType DEF onlineVars, TypeOnline
  <2> QED
      BY <1>1, <2>1, <2>2 DEF wireVars, TypeStream, TypeWire
<1> QED
    BY <1>2, <1>3

\* The groups of variables, expanded.
LEMMA Groups ==
    /\ UNCHANGED appVars => (TypeApp => TypeApp')
    /\ UNCHANGED listenVars => (TypeListen => TypeListen')
    /\ UNCHANGED onlineVars => (TypeOnline => TypeOnline')
    /\ UNCHANGED streamVars => (TypeStream => TypeStream')
    /\ UNCHANGED wireVars => (TypeWire => TypeWire')
    /\ UNCHANGED <<server, floor, shared, doubted, crossed, drops>>
           => (TypeRest => TypeRest')
BY DEF appVars, listenVars, onlineVars, streamVars, wireVars,
       TypeApp, TypeListen, TypeOnline, TypeStream, TypeWire, TypeRest

\* The tasks that are left, and one more.
LEMMA TasksType ==
    ASSUME TypeApp, NEW op \in {"add", "remove"}, NEW g \in Gets
    PROVE  /\ Append(tasks, Task(op, g)) \in Seq([op : {"add", "remove"}, g : Gets])
           /\ tasks # <<>> => Tail(tasks) \in Seq([op : {"add", "remove"}, g : Gets])
<1>1. Task(op, g) \in [op : {"add", "remove"}, g : Gets]
    BY DEF Task
<1> QED
    BY <1>1, AppendProperties, HeadTailProperties DEF TypeApp

LEMMA GetDocumentType == TypeOK /\ GetDocument => TypeOK'
<1> SUFFICES ASSUME TypeApp, TypeListen, TypeOnline, TypeStream, TypeWire, TypeRest,
                    GetDocument
             PROVE  TypeOK'
    BY TypeParts
<1>1. asked' \in 0..MaxGets /\ asked' \in Gets
    BY BoundsAssumption DEF GetDocument, TypeApp, Gets
<1>2. tasks' \in Seq([op : {"add", "remove"}, g : Gets])
    BY <1>1, TasksType DEF GetDocument
<1>3. TypeApp'
    BY <1>1, <1>2 DEF GetDocument, TypeApp
<1>4. floor' \in [Gets -> Versions]
    BY <1>1 DEF GetDocument, TypeApp, TypeRest
<1>5. TypeRest'
    BY <1>1, <1>4 DEF GetDocument, TypeRest
<1>6. TypeListen' /\ TypeOnline' /\ TypeStream' /\ TypeWire'
    BY Groups DEF GetDocument
<1> QED
    BY <1>3, <1>5, <1>6 DEF TypeOK, TypeApp, TypeListen, TypeOnline, TypeStream,
       TypeWire, TypeRest

LEMMA AddQueryListenerType ==
    ASSUME TypeOK, NEW g \in Gets, AddQueryListener(g)
    PROVE  TypeOK'
<1>0. TypeApp /\ TypeListen /\ TypeOnline /\ TypeStream /\ TypeWire /\ TypeRest
    BY TypeParts
<1> DEFINE d == docOf[g]
<1>1. d \in Docs
    BY <1>0 DEF TypeApp
<1>2. listeners' \in [Docs -> SUBSET Gets] /\ cache' \in [Docs -> Versions]
    BY <1>0, <1>1 DEF AddQueryListener, TypeListen
<1>3. /\ views' \in [Docs -> {"none", "local", "synced"}]
      /\ TypeOnline' /\ TypeStream' /\ TypeWire'
  <2>1. CASE Listen(d)
      BY <1>0, <1>1, <2>1, ListenType
  <2>2. CASE UNCHANGED <<views, onlineVars, streamVars, wireVars>>
      BY <1>0, <2>2, Groups DEF TypeListen
  <2> QED
      BY <2>1, <2>2 DEF AddQueryListener
<1>4. raised' \subseteq Gets /\ events' \in [Gets -> Seq(Answers)]
    BY <1>0, <1>2, TellType DEF AddQueryListener
<1>5. tasks' \in Seq([op : {"add", "remove"}, g : Gets])
    BY <1>0, TasksType DEF AddQueryListener
<1>6. TypeApp' /\ TypeListen'
    BY <1>0, <1>2, <1>3, <1>4, <1>5 DEF AddQueryListener, TypeApp, TypeListen
<1>7. TypeRest'
    BY <1>0 DEF AddQueryListener, TypeRest
<1> QED
    BY <1>3, <1>6, <1>7 DEF TypeOK, TypeApp, TypeListen, TypeOnline, TypeStream,
       TypeWire, TypeRest

LEMMA RemoveQueryListenerType ==
    ASSUME TypeOK, NEW g \in Gets, RemoveQueryListener(g)
    PROVE  TypeOK'
<1>0. TypeApp /\ TypeListen /\ TypeOnline /\ TypeStream /\ TypeWire /\ TypeRest
    BY TypeParts
<1> DEFINE d == docOf[g]
<1>1. d \in Docs
    BY <1>0 DEF TypeApp
<1>2. /\ views' \in [Docs -> {"none", "local", "synced"}]
      /\ TypeOnline' /\ TypeStream' /\ TypeWire'
  <2>1. CASE StopListening(d)
      BY <1>0, <1>1, <2>1, StopListeningType
  <2>2. CASE UNCHANGED <<views, onlineVars, streamVars, wireVars>>
      BY <1>0, <2>2, Groups DEF TypeListen
  <2> QED
      BY <2>1, <2>2 DEF RemoveQueryListener
<1>3. tasks' \in Seq([op : {"add", "remove"}, g : Gets])
    BY <1>0, TasksType DEF RemoveQueryListener
<1>4. TypeApp' /\ TypeListen'
    BY <1>0, <1>1, <1>2, <1>3 DEF RemoveQueryListener, TypeApp, TypeListen
<1>5. TypeRest'
    BY <1>0 DEF RemoveQueryListener, TypeRest
<1> QED
    BY <1>2, <1>4, <1>5 DEF TypeOK, TypeApp, TypeListen, TypeOnline, TypeStream,
       TypeWire, TypeRest

LEMMA OnEventType ==
    ASSUME TypeOK, NEW g \in Gets, OnEvent(g)
    PROVE  TypeOK'
<1>0. TypeApp /\ TypeListen /\ TypeOnline /\ TypeStream /\ TypeWire /\ TypeRest
    BY TypeParts
<1>1. events' \in [Gets -> Seq(Answers)] /\ Head(events[g]) \in Answers
    BY <1>0, TailAt DEF OnEvent, TypeApp
<1>2. answers' \in [Gets -> Seq(Answers)]
  <2>1. CASE answers' = [answers EXCEPT ![g] = Append(@, Head(events[g]))]
      BY <1>0, <1>1, <2>1, AppendAt DEF TypeApp
  <2>2. CASE answers' = answers
      BY <1>0, <2>2 DEF TypeApp
  <2> QED
      BY <2>1, <2>2 DEF OnEvent
<1>3. tasks' \in Seq([op : {"add", "remove"}, g : Gets]) /\ muted' \subseteq Gets
    BY <1>0, TasksType DEF OnEvent, TypeApp
<1>4. TypeApp'
    BY <1>0, <1>1, <1>2, <1>3 DEF OnEvent, TypeApp
<1>5. TypeListen' /\ TypeOnline' /\ TypeStream' /\ TypeWire' /\ TypeRest'
    BY <1>0, Groups DEF OnEvent
<1> QED
    BY <1>4, <1>5 DEF TypeOK, TypeApp, TypeListen, TypeOnline, TypeStream,
       TypeWire, TypeRest

LEMMA StreamClosesType ==
    ASSUME TypeOK, StreamCloses
    PROVE  /\ TypeApp' /\ TypeListen' /\ TypeOnline' /\ TypeStream' /\ TypeWire'
           /\ doubted' \subseteq Gets
           /\ UNCHANGED <<server, floor, shared, crossed>>
<1>0. TypeApp /\ TypeListen /\ TypeOnline /\ TypeStream /\ TypeWire /\ TypeRest
    BY TypeParts
<1>1. TypeWire' /\ idle' \in BOOLEAN /\ pending' \in [Docs -> Int]
    BY ClosedType DEF StreamCloses
<1>2. TypeStream'
    BY <1>0, <1>1 DEF StreamCloses, TypeStream, Streams
<1>3. /\ TypeListen' /\ TypeOnline'
      /\ events' \in [Gets -> Seq(Answers)] /\ doubted' \subseteq Gets
  <2>1. CASE Broadcast("Offline") /\ failed' = TRUE /\ timer' = FALSE
    <3>1. online' = "Offline"
        BY <2>1 DEF Broadcast
    <3>2. TypeOnline'
        BY <2>1, <3>1 DEF TypeOnline
    <3> QED
        BY <1>0, <2>1, <3>2, BroadcastType
  <2>2. CASE /\ UNCHANGED <<listenVars, events, doubted>>
             /\ HandleWatchStreamStart(failed) \/ UpdateState("Unknown")
    <3>1. TypeOnline'
        BY <1>0, <2>2, StartType, UpdateStateType DEF TypeOnline
    <3> QED
        BY <1>0, <2>2, <3>1, Groups DEF TypeApp, TypeRest
  <2> QED
      BY <2>1, <2>2 DEF StreamCloses, HandleWatchStreamFailure
<1>4. TypeApp'
    BY <1>0, <1>3 DEF StreamCloses, TypeApp
<1> QED
    BY <1>1, <1>2, <1>3, <1>4 DEF StreamCloses

LEMMA OnlineStateTimeoutType ==
    ASSUME TypeOK, OnlineStateTimeout
    PROVE  TypeOK'
<1>0. TypeApp /\ TypeListen /\ TypeOnline /\ TypeStream /\ TypeWire /\ TypeRest
    BY TypeParts
<1>1. TypeListen' /\ events' \in [Gets -> Seq(Answers)] /\ doubted' \subseteq Gets
    BY <1>0, BroadcastType DEF OnlineStateTimeout
<1>2. TypeOnline'
    BY <1>0 DEF OnlineStateTimeout, Broadcast, TypeOnline
<1>3. TypeApp' /\ TypeRest'
    BY <1>0, <1>1 DEF OnlineStateTimeout, TypeApp, TypeRest
<1>4. TypeStream' /\ TypeWire'
    BY <1>0, Groups DEF OnlineStateTimeout
<1> QED
    BY <1>1, <1>2, <1>3, <1>4 DEF TypeOK, TypeApp, TypeListen, TypeOnline,
       TypeStream, TypeWire, TypeRest

\* The steps of the connection and of the server that tell nobody anything.
LEMMA QuietStepsType ==
    ASSUME TypeOK,
           \/ StreamOpens \/ BackoffElapses \/ IdleTimeout \/ RestartNetwork
           \/ \E d \in Docs : ServerWrites(d) \/ ServerAnswers(d) \/ ServerShows(d)
    PROVE  TypeOK'
<1>0. TypeApp /\ TypeListen /\ TypeOnline /\ TypeStream /\ TypeWire /\ TypeRest
    BY TypeParts
<1> USE DEF TypeOK, TypeApp, TypeListen, TypeOnline, TypeStream, TypeWire, TypeRest
<1>1. CASE StreamOpens
  <2>1. requests' \in [Docs -> Seq({"watch", "unwatch"})]
    <3>1. <<"watch">> \in Seq({"watch", "unwatch"}) /\ <<>> \in Seq({"watch", "unwatch"})
        OBVIOUS
    <3> QED
        BY <1>1, <3>1 DEF StreamOpens
  <2>2. pending' \in [Docs -> Int]
      BY <1>1 DEF StreamOpens
  <2>3. TypeWire' /\ TypeStream'
      BY <1>0, <1>1, <2>1, <2>2 DEF StreamOpens, Streams
  <2>4. TypeApp' /\ TypeListen' /\ TypeOnline' /\ TypeRest'
    <3> HIDE DEF TypeOK, TypeApp, TypeListen, TypeOnline, TypeStream, TypeWire, TypeRest
    <3> QED
        BY <1>0, <1>1, Groups DEF StreamOpens
  <2> QED
      BY <2>3, <2>4
<1>2. CASE BackoffElapses
  <2>1. TypeStream'
      BY <1>0, <1>2 DEF BackoffElapses, Streams
  <2>2. TypeApp' /\ TypeListen' /\ TypeOnline' /\ TypeWire' /\ TypeRest'
    <3> HIDE DEF TypeOK, TypeApp, TypeListen, TypeOnline, TypeStream, TypeWire, TypeRest
    <3> QED
        BY <1>0, <1>2, Groups DEF BackoffElapses
  <2> QED
      BY <2>1, <2>2
<1>3. CASE IdleTimeout
  <2>1. TypeWire' /\ idle' \in BOOLEAN /\ pending' \in [Docs -> Int]
      BY <1>3, ClosedType DEF IdleTimeout
  <2>2. TypeStream'
      BY <1>0, <1>3, <2>1 DEF IdleTimeout, Streams
  <2>3. TypeApp' /\ TypeListen' /\ TypeOnline' /\ TypeRest'
    <3> HIDE DEF TypeOK, TypeApp, TypeListen, TypeOnline, TypeStream, TypeWire, TypeRest
    <3> QED
        BY <1>0, <1>3, Groups, UpdateStateType DEF IdleTimeout
  <2> QED
      BY <2>1, <2>2, <2>3
<1>4. CASE RestartNetwork
  <2>1. TypeWire' /\ idle' \in BOOLEAN /\ pending' \in [Docs -> Int]
      BY <1>4, ClosedType DEF RestartNetwork
  <2>2. TypeStream' /\ TypeOnline'
      BY <1>0, <1>4, <2>1 DEF RestartNetwork, Streams
  <2>3. drops' \in 0..MaxDrops
      BY <1>0, <1>4, BoundsAssumption DEF RestartNetwork
  <2>4. TypeRest'
      BY <1>0, <1>4, <2>3 DEF RestartNetwork
  <2>5. TypeApp' /\ TypeListen'
    <3> HIDE DEF TypeOK, TypeApp, TypeListen, TypeOnline, TypeStream, TypeWire, TypeRest
    <3> QED
        BY <1>0, <1>4, Groups DEF RestartNetwork
  <2> QED
      BY <2>1, <2>2, <2>4, <2>5
<1>5. ASSUME NEW d \in Docs, ServerWrites(d)
      PROVE  TypeOK'
  <2>1. server' \in [Docs -> Versions]
      BY <1>0, <1>5, BoundsAssumption DEF ServerWrites, Versions
  <2>2. TypeRest'
      BY <1>0, <1>5, <2>1 DEF ServerWrites
  <2>3. TypeApp' /\ TypeListen' /\ TypeOnline' /\ TypeStream' /\ TypeWire'
    <3> HIDE DEF TypeOK, TypeApp, TypeListen, TypeOnline, TypeStream, TypeWire, TypeRest
    <3> QED
        BY <1>0, <1>5, Groups DEF ServerWrites
  <2> QED
      BY <2>2, <2>3
<1>6. ASSUME NEW d \in Docs, ServerAnswers(d)
      PROVE  TypeOK'
  <2>1. requests' \in [Docs -> Seq({"watch", "unwatch"})]
      BY <1>0, <1>6, TailAt DEF ServerAnswers
  <2>2. PICK kind \in {"added", "removed", "denied"} :
            /\ changes' = [changes EXCEPT ![d] = Append(@, Message(kind))]
            /\ watched' = [watched EXCEPT ![d] = IF kind = "added" THEN "added" ELSE "no"]
      BY <1>6 DEF ServerAnswers
  <2>3. changes' \in [Docs -> Seq(Messages)]
      BY <1>0, <2>2, AppendAt, MessageType
  <2>4. TypeWire'
      BY <1>0, <1>6, <2>1, <2>2, <2>3 DEF ServerAnswers
  <2>5. TypeApp' /\ TypeListen' /\ TypeOnline' /\ TypeStream' /\ TypeRest'
    <3> HIDE DEF TypeOK, TypeApp, TypeListen, TypeOnline, TypeStream, TypeWire, TypeRest
    <3> QED
        BY <1>0, <1>6, Groups DEF ServerAnswers, streamVars, onlineVars, listenVars, appVars
  <2> QED
      BY <2>4, <2>5
<1>7. ASSUME NEW d \in Docs, ServerShows(d)
      PROVE  TypeOK'
  <2>1. [kind |-> "shown", v |-> server[d]] \in Messages
      BY <1>0 DEF Messages
  <2>2. changes' \in [Docs -> Seq(Messages)]
      BY <1>0, <1>7, <2>1, AppendAt DEF ServerShows
  <2>3. TypeWire'
      BY <1>0, <1>7, <2>2 DEF ServerShows
  <2>4. TypeApp' /\ TypeListen' /\ TypeOnline' /\ TypeStream' /\ TypeRest'
    <3> HIDE DEF TypeOK, TypeApp, TypeListen, TypeOnline, TypeStream, TypeWire, TypeRest
    <3> QED
        BY <1>0, <1>7, Groups DEF ServerShows
  <2> QED
      BY <2>3, <2>4
<1> QED
    BY <1>1, <1>2, <1>3, <1>4, <1>5, <1>6, <1>7

LEMMA OnWatchStreamChangeType ==
    ASSUME TypeOK, NEW d \in Docs, OnWatchStreamChange(d)
    PROVE  TypeOK'
<1>0. TypeApp /\ TypeListen /\ TypeOnline /\ TypeStream /\ TypeWire /\ TypeRest
    BY TypeParts
<1>1. TypeOnline'
    BY UpdateStateType DEF OnWatchStreamChange
<1>2. changes' \in [Docs -> Seq(Messages)] /\ Head(changes[d]) \in Messages
    BY <1>0, TailAt DEF OnWatchStreamChange, TypeWire
<1>3. TypeWire'
    BY <1>0, <1>2 DEF OnWatchStreamChange, TypeWire
<1>4. /\ TypeListen' /\ events' \in [Gets -> Seq(Answers)]
      /\ targets' \subseteq Docs /\ pending' \in [Docs -> Int] /\ crossed' \in BOOLEAN
  <2>1. CASE ReadAck(d)
    <3>1. TypeListen'
        BY <1>0, <2>1, Groups DEF ReadAck
    <3> QED
        BY <1>0, <2>1, <3>1 DEF ReadAck, TypeApp, TypeStream, TypeRest
  <2>2. CASE ReadShown(d)
    <3>1. UNCHANGED <<targets, pending, crossed>>
        BY <2>2 DEF ReadShown
    <3>2. CASE UNCHANGED <<listenVars, events>>
      <4>1. TypeListen'
          BY <1>0, <3>2, Groups
      <4> QED
          BY <1>0, <3>1, <3>2, <4>1 DEF TypeApp, TypeStream, TypeRest
    <3>3. CASE d \in targets /\ pending[d] = 0
      <4>1. /\ cache' = [cache EXCEPT ![d] = IF Head(changes[d]).v > @ THEN Head(changes[d]).v ELSE @]
            /\ views' = [views EXCEPT ![d] = "synced"]
            /\ UNCHANGED listeners
            /\ \E news : Tell(news)
          BY <2>2, <3>3 DEF ReadShown
      <4>2. Head(changes[d]).v \in Versions
          BY <1>2 DEF Messages
      <4>3. cache' \in [Docs -> Versions] /\ listeners' \in [Docs -> SUBSET Gets]
          BY <1>0, <4>1, <4>2 DEF TypeListen
      <4>4. views' \in [Docs -> {"none", "local", "synced"}]
          BY <1>0, <4>1 DEF TypeListen
      <4>5. raised' \subseteq Gets /\ events' \in [Gets -> Seq(Answers)]
          BY <1>0, <4>1, <4>3, TellType
      <4> QED
          BY <1>0, <3>1, <4>3, <4>4, <4>5 DEF TypeListen, TypeStream, TypeRest
    <3> QED
        BY <2>2, <3>2, <3>3 DEF ReadShown
  <2>3. CASE ReadDenied(d)
    <3>1. crossed' \in BOOLEAN
        BY <1>0, <2>3 DEF ReadDenied, TypeRest
    <3>2. CASE UNCHANGED <<listenVars, events, targets, pending>>
      <4>1. TypeListen'
          BY <1>0, <3>2, Groups
      <4> QED
          BY <1>0, <3>1, <3>2, <4>1 DEF TypeApp, TypeStream
    <3>3. CASE d \in targets
      <4>1. /\ targets' = targets \ {d}
            /\ pending' = [pending EXCEPT ![d] = 0]
            /\ views' = [views EXCEPT ![d] = "none"]
            /\ listeners' = [listeners EXCEPT ![d] = {}]
            /\ events' = [g \in Gets |->
                   IF g \in listeners[d]
                   THEN Append(events[g], Message("denied")) ELSE events[g]]
            /\ UNCHANGED <<raised, cache>>
          BY <2>3, <3>3 DEF ReadDenied
      <4>2. events' \in [Gets -> Seq(Answers)]
        <5>1. \A g \in Gets : /\ events[g] \in Seq(Answers)
                              /\ Append(events[g], Message("denied")) \in Seq(Answers)
            BY <1>0, MessageType, AppendProperties DEF TypeApp
        <5> QED
            BY <4>1, <5>1
      <4>3. TypeListen'
          BY <1>0, <4>1 DEF TypeListen
      <4> QED
          BY <1>0, <3>1, <4>1, <4>2, <4>3 DEF TypeStream
    <3> QED
        BY <2>3, <3>2, <3>3 DEF ReadDenied
  <2> QED
      BY <2>1, <2>2, <2>3 DEF OnWatchStreamChange
<1>5. TypeApp' /\ TypeStream' /\ TypeRest'
    BY <1>0, <1>4 DEF OnWatchStreamChange, TypeApp, TypeStream, TypeRest
<1> QED
    BY <1>1, <1>3, <1>4, <1>5 DEF TypeOK, TypeApp, TypeListen, TypeOnline,
       TypeStream, TypeWire, TypeRest

LEMMA NextType == TypeOK /\ [Next]_vars => TypeOK'
<1> SUFFICES ASSUME TypeOK, [Next]_vars PROVE TypeOK'
    OBVIOUS
<1>1. CASE GetDocument
    BY <1>1, GetDocumentType
<1>2. ASSUME NEW g \in Gets, AddQueryListener(g) \/ RemoveQueryListener(g) \/ OnEvent(g)
      PROVE  TypeOK'
    BY <1>2, AddQueryListenerType, RemoveQueryListenerType, OnEventType
<1>3. CASE StreamFails \/ StreamDrops
  <2>1. StreamCloses /\ drops' \in 0..MaxDrops
      BY <1>3, BoundsAssumption DEF StreamFails, StreamDrops, TypeOK
  <2>2. TypeRest'
      BY <2>1, StreamClosesType DEF TypeRest, TypeOK
  <2> QED
      BY <2>1, <2>2, StreamClosesType DEF TypeOK, TypeApp, TypeListen,
         TypeOnline, TypeStream, TypeWire, TypeRest
<1>4. CASE \/ StreamOpens \/ BackoffElapses \/ IdleTimeout \/ RestartNetwork
           \/ \E d \in Docs : ServerWrites(d) \/ ServerAnswers(d) \/ ServerShows(d)
    BY <1>4, QuietStepsType
<1>5. CASE OnlineStateTimeout
    BY <1>5, OnlineStateTimeoutType
<1>6. ASSUME NEW d \in Docs, OnWatchStreamChange(d)
      PROVE  TypeOK'
    BY <1>6, OnWatchStreamChangeType
<1>7. CASE UNCHANGED vars
    BY <1>7, TypeParts, Groups DEF vars, TypeOK, TypeApp, TypeListen, TypeOnline,
       TypeStream, TypeWire, TypeRest
<1> QED
    BY <1>1, <1>2, <1>3, <1>4, <1>5, <1>6, <1>7 DEF Next

\* The read path is well typed.
THEOREM TypeCorrect == Spec => []TypeOK
<1> QED
    BY InitType, NextType, PTL DEF Spec

-----------------------------------------------------------------------------
(***************************************************************************)
(* The tables.                                                             *)
(***************************************************************************)
LEMMA InitTables == Init => TablesAgree
BY DEF Init, TablesAgree

\* What a change of the online state leaves of the tables.
LEMMA TablesBroadcast ==
    ASSUME TypeOK, TablesAgree, NEW state, Broadcast(state), UNCHANGED <<docOf, targets>>
    PROVE  TablesAgree'
BY DEF Broadcast, ViewsAt, TablesAgree, TypeOK

LEMMA NextTables == TypeOK /\ TablesAgree /\ [Next]_vars => TablesAgree'
<1> SUFFICES ASSUME TypeOK, TablesAgree, [Next]_vars PROVE TablesAgree'
    OBVIOUS
<1>1. ASSUME UNCHANGED <<docOf, targets, listeners, views>>
      PROVE  TablesAgree'
    BY <1>1 DEF TablesAgree
<1>2. ASSUME NEW g \in Gets, AddQueryListener(g)
      PROVE  TablesAgree'
  <2> DEFINE d == docOf[g]
  <2>1. d \in Docs
      BY DEF TypeOK
  <2>2. UNCHANGED docOf /\ listeners' = [listeners EXCEPT ![d] = @ \cup {g}]
      BY <1>2 DEF AddQueryListener
  <2>3. CASE listeners[d] = {}
    <3>1. views' = [views EXCEPT ![d] = "local"] /\ targets' = targets \cup {d}
        BY <1>2, <2>3 DEF AddQueryListener, Listen
    <3>2. \A e \in Docs : /\ listeners'[e] = IF e = d THEN listeners[e] \cup {g} ELSE listeners[e]
                          /\ views'[e] = IF e = d THEN "local" ELSE views[e]
        BY <2>1, <2>2, <3>1 DEF TypeOK
    <3>3. targets' = {e \in Docs : listeners'[e] # {}}
        BY <2>1, <3>1, <3>2 DEF TablesAgree
    <3>4. targets' = {e \in Docs : views'[e] # "none"}
      <4>1. targets = {e \in Docs : views[e] # "none"}
          BY DEF TablesAgree
      <4>2. \A e \in Docs : views'[e] # "none" <=> e = d \/ views[e] # "none"
          BY <3>2
      <4> QED
          BY <2>1, <3>1, <4>1, <4>2
    <3>5. \A e \in Docs : \A f \in listeners'[e] : docOf'[f] = e
        BY <2>2, <3>2 DEF TablesAgree
    <3> QED
        BY <3>3, <3>4, <3>5 DEF TablesAgree
  <2>4. CASE listeners[d] # {}
    <3>1. UNCHANGED <<views, targets>>
        BY <1>2, <2>4 DEF AddQueryListener, streamVars
    <3> QED
        BY <2>1, <2>2, <2>4, <3>1 DEF TablesAgree, TypeOK
  <2> QED
      BY <2>3, <2>4
<1>3. ASSUME NEW g \in Gets, RemoveQueryListener(g)
      PROVE  TablesAgree'
  <2> DEFINE d == docOf[g]
  <2>1. d \in Docs
      BY DEF TypeOK
  <2>2. UNCHANGED docOf /\ listeners' = [listeners EXCEPT ![d] = @ \ {g}]
      BY <1>3 DEF RemoveQueryListener
  <2>3. CASE listeners[d] = {g}
    <3>1. views' = [views EXCEPT ![d] = "none"] /\ targets' = targets \ {d}
        BY <1>3, <2>3 DEF RemoveQueryListener, StopListening
    <3> QED
        BY <2>1, <2>2, <2>3, <3>1 DEF TablesAgree, TypeOK
  <2>4. CASE listeners[d] # {g}
    <3>1. UNCHANGED <<views, targets>>
        BY <1>3, <2>4 DEF RemoveQueryListener, streamVars
    <3> QED
        BY <2>1, <2>2, <2>4, <3>1 DEF TablesAgree, TypeOK
  <2> QED
      BY <2>3, <2>4
<1>4. CASE StreamCloses
    BY <1>1, <1>4, TablesBroadcast DEF StreamCloses, HandleWatchStreamFailure, listenVars
<1>5. CASE OnlineStateTimeout
    BY <1>5, TablesBroadcast DEF OnlineStateTimeout, streamVars
<1>6. ASSUME NEW d \in Docs, OnWatchStreamChange(d)
      PROVE  TablesAgree'
  <2>1. UNCHANGED docOf
      BY <1>6 DEF OnWatchStreamChange
  <2>2. CASE ReadAck(d)
      BY <1>1, <2>1, <2>2 DEF ReadAck, listenVars
  <2>3. CASE ReadShown(d)
    <3>1. CASE UNCHANGED listenVars
        BY <1>1, <2>1, <2>3, <3>1 DEF ReadShown, listenVars
    <3>2. CASE /\ d \in targets /\ UNCHANGED <<listeners, targets>>
               /\ views' = [views EXCEPT ![d] = "synced"]
        BY <2>1, <3>2 DEF TablesAgree, TypeOK
    <3> QED
        BY <2>3, <3>1, <3>2 DEF ReadShown
  <2>4. CASE ReadDenied(d)
    <3>1. CASE UNCHANGED <<listenVars, targets>>
        BY <1>1, <2>1, <3>1 DEF listenVars
    <3>2. CASE /\ targets' = targets \ {d}
               /\ views' = [views EXCEPT ![d] = "none"]
               /\ listeners' = [listeners EXCEPT ![d] = {}]
        BY <2>1, <3>2 DEF TablesAgree, TypeOK
    <3> QED
        BY <2>4, <3>1, <3>2 DEF ReadDenied
  <2> QED
      BY <1>6, <2>2, <2>3, <2>4 DEF OnWatchStreamChange
<1>7. CASE GetDocument \/ \E g \in Gets : OnEvent(g)
    BY <1>1, <1>7 DEF GetDocument, OnEvent, listenVars, streamVars
<1>8. CASE StreamOpens \/ BackoffElapses \/ IdleTimeout \/ RestartNetwork
    BY <1>1, <1>8 DEF StreamOpens, BackoffElapses, IdleTimeout, RestartNetwork,
       appVars, listenVars
<1>9. CASE \E d \in Docs : ServerWrites(d) \/ ServerAnswers(d) \/ ServerShows(d)
    BY <1>1, <1>9 DEF ServerWrites, ServerAnswers, ServerShows, appVars, listenVars, streamVars
<1>10. CASE UNCHANGED vars
    BY <1>1, <1>10 DEF vars, appVars, listenVars, streamVars
<1> QED
    BY <1>2, <1>3, <1>4, <1>5, <1>6, <1>7, <1>8, <1>9, <1>10 DEF Next, StreamFails, StreamDrops

\* Through joins, removals and denials, in any order, EventManager, SyncEngine
\* and RemoteStore agree on what is listened to: the assertions of
\* SyncEngine::Listen, SyncEngine::StopListening and RemoteStore::StopListening
\* never fail.
THEOREM TablesCorrect == Spec => []TablesAgree
<1> QED
    BY InitType, NextType, InitTables, NextTables, PTL DEF Spec

-----------------------------------------------------------------------------
(***************************************************************************)
(* The stream and its timers.                                              *)
(***************************************************************************)
LEMMA InitStream == Init => StreamWanted
BY DEF Init, StreamWanted

LEMMA NextStream == TypeOK /\ StreamWanted /\ [Next]_vars => StreamWanted'
<1> SUFFICES ASSUME TypeOK, StreamWanted, [Next]_vars PROVE StreamWanted'
    OBVIOUS
<1>0. targets \subseteq Docs /\ stream \in Streams /\ online \in {"Unknown", "Online", "Offline"}
      /\ timer \in BOOLEAN /\ failed \in BOOLEAN /\ idle \in BOOLEAN
    BY DEF TypeOK
<1>1. ASSUME UNCHANGED <<targets, stream, idle, online, timer, failed>>
      PROVE  StreamWanted'
    BY <1>1 DEF StreamWanted, Started
<1>2. ASSUME NEW d \in Docs, Listen(d)
      PROVE  StreamWanted'
  <2>1. targets' = targets \cup {d}
      BY <1>2 DEF Listen
  <2>2. CASE stream = "Open" /\ idle' = FALSE /\ UNCHANGED <<onlineVars, stream>>
      BY <2>1, <2>2 DEF StreamWanted, Started, onlineVars
  <2>3. CASE /\ ~Started
             /\ stream' = IF stream = "Error" THEN "Backoff" ELSE "Starting"
             /\ HandleWatchStreamStart(failed)
             /\ UNCHANGED idle
      BY <1>0, <2>1, <2>3 DEF StreamWanted, Started, HandleWatchStreamStart
  <2>4. CASE Started /\ stream # "Open" /\ UNCHANGED <<onlineVars, stream, idle>>
      BY <2>1, <2>4 DEF StreamWanted, Started, onlineVars
  <2> QED
      BY <1>2, <2>2, <2>3, <2>4 DEF Listen
<1>3. ASSUME NEW d \in Docs, StopListening(d)
      PROVE  StreamWanted'
  <2>1. targets' = targets \ {d} /\ UNCHANGED stream
      BY <1>3 DEF StopListening
  <2>2. CASE stream = "Open"
    <3>1. idle' = (targets' = {}) /\ UNCHANGED onlineVars
        BY <1>3, <2>2 DEF StopListening
    <3> QED
        BY <2>1, <2>2, <3>1 DEF StreamWanted, Started, onlineVars
  <2>3. CASE stream # "Open"
    <3>1. UpdateState("Unknown") \/ UNCHANGED onlineVars
        BY <1>3, <2>3 DEF StopListening
    <3>2. UNCHANGED idle
        BY <1>3, <2>3 DEF StopListening
    <3> QED
        BY <1>0, <2>1, <2>3, <3>1, <3>2 DEF StreamWanted, Started, UpdateState, onlineVars
  <2> QED
      BY <2>2, <2>3
<1>4. ASSUME NEW g \in Gets, AddQueryListener(g) \/ RemoveQueryListener(g)
      PROVE  StreamWanted'
  <2>1. docOf[g] \in Docs
      BY DEF TypeOK
  <2>2. Listen(docOf[g]) \/ StopListening(docOf[g]) \/ UNCHANGED <<onlineVars, streamVars>>
      BY <1>4 DEF AddQueryListener, RemoveQueryListener
  <2> QED
      BY <1>1, <1>2, <1>3, <2>1, <2>2 DEF onlineVars, streamVars
<1>5. CASE StreamCloses
  <2>1. UNCHANGED targets /\ idle' = FALSE
      BY <1>5 DEF StreamCloses, Closed
  <2>2. CASE targets # {}
    <3>1. stream' = "Backoff" /\ HandleWatchStreamFailure
        BY <1>5, <2>2 DEF StreamCloses
    <3> QED
        BY <1>0, <2>1, <2>2, <3>1 DEF StreamWanted, Started, HandleWatchStreamFailure,
           HandleWatchStreamStart, Broadcast
  <2>3. CASE targets = {}
    <3>1. stream' = "Error" /\ UpdateState("Unknown")
        BY <1>5, <2>3 DEF StreamCloses
    <3> QED
        BY <2>1, <2>3, <3>1 DEF StreamWanted, Started, UpdateState
  <2> QED
      BY <2>2, <2>3
<1>6. CASE OnlineStateTimeout
    BY <1>0, <1>6 DEF OnlineStateTimeout, Broadcast, StreamWanted, Started, streamVars
<1>7. CASE StreamOpens
    BY <1>0, <1>7 DEF StreamOpens, StreamWanted, Started, onlineVars
<1>8. CASE BackoffElapses
    BY <1>0, <1>8 DEF BackoffElapses, StreamWanted, Started, onlineVars
<1>9. CASE IdleTimeout
    BY <1>0, <1>9 DEF IdleTimeout, Closed, UpdateState, StreamWanted, Started
<1>10. CASE RestartNetwork
    BY <1>0, <1>10 DEF RestartNetwork, Closed, StreamWanted, Started
<1>11. ASSUME NEW d \in Docs, OnWatchStreamChange(d)
       PROVE  StreamWanted'
  <2>1. UpdateState("Online") /\ UNCHANGED <<stream, idle>>
      BY <1>11 DEF OnWatchStreamChange
  <2>2. targets' \subseteq targets
      BY <1>11 DEF OnWatchStreamChange, ReadAck, ReadShown, ReadDenied
  <2> QED
      BY <1>0, <2>1, <2>2 DEF UpdateState, StreamWanted, Started
<1>12. CASE GetDocument \/ \E g \in Gets : OnEvent(g)
    BY <1>1, <1>12 DEF GetDocument, OnEvent, onlineVars, streamVars
<1>13. CASE \E d \in Docs : ServerWrites(d) \/ ServerAnswers(d) \/ ServerShows(d)
    BY <1>1, <1>13 DEF ServerWrites, ServerAnswers, ServerShows, onlineVars, streamVars
<1>14. CASE UNCHANGED vars
    BY <1>1, <1>14 DEF vars, onlineVars, streamVars
<1> QED
    BY <1>4, <1>5, <1>6, <1>7, <1>8, <1>9, <1>10, <1>11, <1>12, <1>13, <1>14
       DEF Next, StreamFails, StreamDrops

\* The stream lives while a document is listened to, the idle timer runs only
\* when none is, and the online state timer only at Unknown: the assertions of
\* OnWatchStreamClose and of OnlineStateTracker never fail.
THEOREM StreamCorrect == Spec => []StreamWanted
<1> QED
    BY InitType, NextType, InitStream, NextStream, PTL DEF Spec
-----------------------------------------------------------------------------
(***************************************************************************)
(* What becomes of a read.                                                 *)
(***************************************************************************)
Deaf(g) == \A d \in Docs : g \notin listeners[d]

\* A read whose listener has not been added.
Untouched(g) == /\ events[g] = <<>> /\ answers[g] = <<>>
                /\ g \notin muted /\ g \notin raised /\ Deaf(g)

Places == 1..Len(tasks)

\* A task to add a listener is the only one of its read and comes before
\* everything else of it; one to remove a listener follows an answer.
TasksInOrder ==
    /\ \A i \in Places :
           /\ tasks[i].op = "add" => tasks[i].g <= asked /\ Untouched(tasks[i].g)
           /\ tasks[i].op = "remove" => tasks[i].g \in muted
    /\ \A i, j \in Places : tasks[i].op = "add" /\ tasks[i] = tasks[j] => i = j

AskedFirst(g) == g > asked => Untouched(g)

\* Nothing is told to a read that has an answer: it is muted, or was denied and
\* hears no more.
AnsweredOnce(g) ==
    /\ g \in muted => answers[g] # <<>>
    /\ answers[g] # <<>> => g \in muted \/ (events[g] = <<>> /\ Deaf(g))

\* A denial is the last thing a read hears.
DeniedLast(g) ==
    \A i \in 1..Len(events[g]) :
        events[g][i].kind = "denied" => i = Len(events[g]) /\ Deaf(g)

\* What the server did not say is for reads that were waiting offline.
DoubtKnown(g) ==
    g \notin muted => \A i \in 1..Len(events[g]) :
        events[g][i].kind \in {"cache", "missing"} => g \in doubted

Fate(g) == AskedFirst(g) /\ AnsweredOnce(g) /\ DeniedLast(g) /\ DoubtKnown(g)

OfflineDoubted == online = "Offline" => Waiting \subseteq doubted

ReadInv == TasksInOrder /\ (\A g \in Gets : Fate(g)) /\ OfflineDoubted

LEMMA TailPlaces ==
    ASSUME NEW S, NEW s \in Seq(S), s # <<>>
    PROVE  /\ Len(s) \in Nat /\ Len(Tail(s)) = Len(s) - 1
           /\ 1 \in 1..Len(s) /\ Head(s) = s[1]
           /\ \A i \in 1..Len(Tail(s)) : i + 1 \in 1..Len(s) /\ Tail(s)[i] = s[i + 1]
OBVIOUS

LEMMA AppendPlaces ==
    ASSUME NEW S, NEW s \in Seq(S), NEW x \in S
    PROVE  /\ Len(s) \in Nat /\ Len(Append(s, x)) = Len(s) + 1
           /\ \A i \in 1..Len(s) : Append(s, x)[i] = s[i]
           /\ Append(s, x)[Len(s) + 1] = x
OBVIOUS

LEMMA Sequences ==
    ASSUME TypeOK
    PROVE  /\ asked \in Nat
           /\ tasks \in Seq([op : {"add", "remove"}, g : Gets])
           /\ Len(tasks) \in Nat
           /\ \A i \in Places : tasks[i] \in [op : {"add", "remove"}, g : Gets]
           /\ \A g \in Gets : /\ events[g] \in Seq(Answers) /\ Len(events[g]) \in Nat
                              /\ answers[g] \in Seq(Answers)
                              /\ \A i \in 1..Len(events[g]) : events[g][i] \in Answers
<1>1. asked \in Nat
    BY BoundsAssumption DEF TypeOK
<1>2. /\ tasks \in Seq([op : {"add", "remove"}, g : Gets])
      /\ \A g \in Gets : events[g] \in Seq(Answers) /\ answers[g] \in Seq(Answers)
    BY DEF TypeOK
<1>3. ASSUME NEW S, NEW s \in Seq(S)
      PROVE  Len(s) \in Nat /\ \A i \in 1..Len(s) : s[i] \in S
    OBVIOUS
<1>4. Len(tasks) \in Nat
      /\ \A i \in Places : tasks[i] \in [op : {"add", "remove"}, g : Gets]
    BY <1>2, <1>3 DEF Places
<1>5. \A g \in Gets : /\ Len(events[g]) \in Nat
                      /\ \A i \in 1..Len(events[g]) : events[g][i] \in Answers
    BY <1>2, <1>3
<1> QED
    BY <1>1, <1>2, <1>4, <1>5

LEMMA InitReads == Init => ReadInv
<1> SUFFICES ASSUME Init PROVE ReadInv
    OBVIOUS
<1>0. Len(tasks) = 0 /\ Places = {}
    BY DEF Init, Places
<1>1. TasksInOrder
    BY <1>0 DEF TasksInOrder
<1>2. ASSUME NEW g \in Gets PROVE Fate(g)
    BY DEF Init, Fate, AskedFirst, AnsweredOnce, DeniedLast, DoubtKnown, Untouched, Deaf
<1>3. OfflineDoubted
    BY DEF Init, OfflineDoubted
<1> QED
    BY <1>1, <1>2, <1>3 DEF ReadInv

\* A step that the reads do not notice.
LEMMA QuietReads ==
    ASSUME ReadInv,
           UNCHANGED <<asked, docOf, tasks, events, muted, answers, listeners,
                       raised, doubted>>,
           online' = online \/ online' # "Offline"
    PROVE  ReadInv'
<1>1. TasksInOrder'
    BY DEF ReadInv, TasksInOrder, Places, Untouched, Deaf
<1>2. ASSUME NEW g \in Gets PROVE Fate(g)'
    BY DEF ReadInv, Fate, AskedFirst, AnsweredOnce, DeniedLast, DoubtKnown, Untouched, Deaf
<1>3. OfflineDoubted'
    BY DEF ReadInv, OfflineDoubted, Waiting
<1> QED
    BY <1>1, <1>2, <1>3 DEF ReadInv

\* What a step may do that tells listeners of news: H are the reads whose
\* listener it adds.
Telling(news, H) ==
    /\ Tell(news)
    /\ UNCHANGED <<asked, docOf, muted, answers>>
    /\ doubted \subseteq doubted'
    /\ online' = "Offline" => Waiting \subseteq doubted'
    /\ \A g \in Gets : g \in raised /\ docOf[g] \in news
                           => views'[docOf[g]] = "synced" \/ online' = "Offline"
    /\ \A g \in Gets, d \in Docs : g \in listeners'[d] => g \in listeners[d] \/ g \in H
    /\ \A g \in H : g <= asked /\ Untouched(g)

LEMMA DueListens ==
    ASSUME TypeOK, TypeOK', NEW news, NEW g \in Due(news)
    PROVE  g \in Gets /\ ~Deaf(g)'
BY DEF Due, Deaf, TypeOK

LEMMA StillUntouched ==
    ASSUME TypeOK, TypeOK', NEW news, NEW H, Telling(news, H),
           NEW g \in Gets \ H, Untouched(g)
    PROVE  Untouched(g)'
<1>1. Deaf(g)'
    BY DEF Telling, Untouched, Deaf
<1>2. g \notin Due(news)
    BY <1>1, DueListens
<1>3. Tell(news) /\ UNCHANGED <<muted, answers>>
    BY DEF Telling
<1> QED
    BY <1>1, <1>2, <1>3, TellIs DEF Untouched

LEMMA TellingFate ==
    ASSUME TypeOK, TypeOK', TablesAgree', ReadInv, NEW news, NEW H, Telling(news, H),
           NEW g \in Gets
    PROVE  Fate(g)'
<1>0. /\ Tell(news) /\ UNCHANGED <<asked, docOf, muted, answers>>
      /\ doubted \subseteq doubted'
      /\ online' = "Offline" => Waiting \subseteq doubted'
      /\ g \in raised /\ docOf[g] \in news => views'[docOf[g]] = "synced" \/ online' = "Offline"
      /\ Deaf(g) => Deaf(g)' \/ (g <= asked /\ Untouched(g))
    BY DEF Telling, Deaf
<1>1. AskedFirst(g) /\ AnsweredOnce(g) /\ DeniedLast(g) /\ DoubtKnown(g)
    BY DEF ReadInv, Fate
<1>2. asked \in Nat /\ g \in Nat
    BY BoundsAssumption DEF TypeOK, Gets
<1>3. CASE g \notin Due(news)
  <2>1. events'[g] = events[g] /\ (g \in raised' <=> g \in raised)
      BY <1>0, <1>3, TellIs
  <2>2. AskedFirst(g)'
      BY <1>0, <1>1, <1>2, <2>1 DEF AskedFirst, Untouched
  <2>3. AnsweredOnce(g)'
      BY <1>0, <1>1, <2>1 DEF AnsweredOnce, Untouched
  <2>4. DeniedLast(g)'
    <3> SUFFICES ASSUME NEW i \in 1..Len(events[g]), events[g][i].kind = "denied"
                 PROVE  i = Len(events[g]) /\ Deaf(g)'
        BY <2>1 DEF DeniedLast
    <3>1. i = Len(events[g]) /\ Deaf(g)
        BY <1>1 DEF DeniedLast
    <3>2. events[g] # <<>>
        OBVIOUS
    <3> QED
        BY <1>0, <3>1, <3>2 DEF Untouched
  <2>5. DoubtKnown(g)'
      BY <1>0, <1>1, <2>1 DEF DoubtKnown
  <2> QED
      BY <2>2, <2>3, <2>4, <2>5 DEF Fate
<1>4. CASE g \in Due(news)
  <2> DEFINE s == Snapshot(views'[docOf[g]], cache'[docOf[g]])
  <2>1. events'[g] = Append(events[g], s)
      BY <1>0, <1>4, TellIs
  <2>2. ~Deaf(g)'
      BY <1>4, DueListens
  <2>3. g <= asked
      BY <1>0, <1>1, <1>2, <2>2 DEF AskedFirst, Untouched
  <2>4. Deaf(g) => Untouched(g)
      BY <1>0, <2>2
  <2>5. s \in Answers /\ s.kind # "denied"
        /\ (s.kind # "server" => views'[docOf[g]] # "synced")
    <3>1. cache'[docOf[g]] \in Versions
        BY <1>0 DEF TypeOK
    <3>2. s \in Answers
        BY <3>1, SnapshotType
    <3> QED
        BY <3>2 DEF Snapshot
  <2> HIDE DEF s
  <2>6. /\ Len(events[g]) \in Nat /\ Len(events'[g]) = Len(events[g]) + 1
        /\ \A i \in 1..Len(events[g]) : events'[g][i] = events[g][i]
        /\ events'[g][Len(events[g]) + 1] = s
      BY <2>1, <2>5, Sequences, AppendPlaces
  <2>7. AskedFirst(g)'
      BY <1>0, <1>2, <2>3 DEF AskedFirst
  <2>8. AnsweredOnce(g)'
      BY <1>0, <1>1, <2>4 DEF AnsweredOnce, Untouched
  <2>9. DeniedLast(g)'
    <3> SUFFICES ASSUME NEW i \in 1..Len(events'[g]), events'[g][i].kind = "denied"
                 PROVE  FALSE
        BY DEF DeniedLast
    <3>1. i \in 1..Len(events[g])
        BY <2>5, <2>6
    <3>2. Deaf(g)
        BY <1>1, <2>6, <3>1 DEF DeniedLast
    <3> QED
        BY <2>4, <2>6, <3>1, <3>2 DEF Untouched
  <2>10. DoubtKnown(g)'
    <3> SUFFICES ASSUME g \notin muted, NEW i \in 1..Len(events'[g]),
                        events'[g][i].kind \in {"cache", "missing"}
                 PROVE  g \in doubted'
        BY <1>0 DEF DoubtKnown
    <3>1. CASE i \in 1..Len(events[g])
        BY <1>0, <1>1, <2>6, <3>1 DEF DoubtKnown
    <3>2. CASE i = Len(events[g]) + 1
      <4>1. views'[docOf[g]] # "synced"
          BY <2>5, <2>6, <3>2
      <4>2. online' = "Offline"
          BY <1>0, <1>4, <4>1 DEF Due, InitialDue
      <4>3. answers[g] = <<>>
          BY <1>1, <2>4 DEF AnsweredOnce, Untouched
      <4> QED
          BY <1>0, <1>2, <2>3, <4>2, <4>3 DEF Waiting, Gets
    <3> QED
        BY <2>6, <3>1, <3>2
  <2> QED
      BY <2>7, <2>8, <2>9, <2>10 DEF Fate
<1> QED
    BY <1>3, <1>4

LEMMA TellingReads ==
    ASSUME TypeOK, TypeOK', TablesAgree', ReadInv, NEW news, NEW H, Telling(news, H),
           TasksInOrder'
    PROVE  ReadInv'
<1>1. \A g \in Gets : Fate(g)'
    BY TellingFate
<1>2. OfflineDoubted'
    BY DEF Telling, OfflineDoubted, Waiting
<1> QED
    BY <1>1, <1>2 DEF ReadInv

LEMMA AddReads ==
    ASSUME TypeOK, TypeOK', TablesAgree', ReadInv, NEW h \in Gets, AddQueryListener(h)
    PROVE  ReadInv'
<1>1. /\ tasks # <<>> /\ Head(tasks) = Task("add", h) /\ tasks' = Tail(tasks)
      /\ listeners' = [listeners EXCEPT ![docOf[h]] = @ \cup {h}]
      /\ Tell({}) /\ UNCHANGED <<asked, docOf, muted, answers, doubted>>
    BY DEF AddQueryListener
<1>2. /\ Len(tasks) \in Nat /\ Len(tasks') = Len(tasks) - 1
      /\ 1 \in Places /\ tasks[1] = Task("add", h)
      /\ \A i \in Places' : i + 1 \in Places /\ tasks'[i] = tasks[i + 1]
    BY <1>1, Sequences, TailPlaces DEF Places
<1>3. tasks[1].op = "add" /\ tasks[1].g = h
    BY <1>2 DEF Task
<1>4. h <= asked /\ Untouched(h)
    BY <1>2, <1>3 DEF ReadInv, TasksInOrder
<1>5. online' = online \/ online' # "Offline"
  <2>1. Listen(docOf[h]) \/ UNCHANGED onlineVars
      BY DEF AddQueryListener
  <2> QED
      BY <2>1 DEF Listen, HandleWatchStreamStart, onlineVars
<1>6. online' = "Offline" => Waiting \subseteq doubted'
    BY <1>1, <1>5 DEF ReadInv, OfflineDoubted
<1>7. \A g \in Gets, d \in Docs : g \in listeners'[d] => g \in listeners[d] \/ g \in {h}
    BY <1>1 DEF TypeOK
<1>8. Telling({}, {h})
    BY <1>1, <1>4, <1>6, <1>7 DEF Telling
<1>9. TasksInOrder'
  <2>1. ASSUME NEW i \in Places'
        PROVE  /\ (tasks[i].op = "add" => tasks[i].g <= asked /\ Untouched(tasks[i].g))'
               /\ (tasks[i].op = "remove" => tasks[i].g \in muted)'
    <3>1. /\ i + 1 \in Places /\ tasks'[i] = tasks[i + 1] /\ i + 1 # 1
        BY <1>2 DEF Places
    <3>2. PICK t \in [op : {"add", "remove"}, g : Gets] : t = tasks[i + 1]
        BY <3>1, Sequences
    <3>3. CASE t.op = "remove"
        BY <1>1, <3>1, <3>2, <3>3 DEF ReadInv, TasksInOrder
    <3>4. CASE t.op = "add"
      <4>1. t.g <= asked /\ Untouched(t.g)
          BY <3>1, <3>2, <3>4 DEF ReadInv, TasksInOrder
      <4>2. t.g # h
        <5> SUFFICES ASSUME t.g = h PROVE FALSE
            OBVIOUS
        <5>1. tasks[i + 1] = tasks[1]
            BY <1>2, <3>2, <3>4 DEF Task
        <5> QED
            BY <1>2, <1>3, <3>1, <5>1 DEF ReadInv, TasksInOrder
      <4>3. Untouched(t.g)'
          BY <1>8, <3>2, <4>1, <4>2, StillUntouched
      <4> QED
          BY <1>1, <3>1, <3>2, <3>4, <4>1, <4>3 DEF Untouched, Deaf
    <3> QED
        BY <3>2, <3>3, <3>4
  <2>2. ASSUME NEW i \in Places', NEW j \in Places',
               tasks'[i].op = "add", tasks'[i] = tasks'[j]
        PROVE  i = j
    <3>1. i + 1 = j + 1
        BY <1>2, <2>2 DEF ReadInv, TasksInOrder
    <3> QED
        BY <1>2, <3>1 DEF Places
  <2> QED
      BY <2>1, <2>2, Zenon DEF TasksInOrder
<1> QED
    BY <1>8, <1>9, TellingReads

\* Telling news to listeners of old leaves the tasks as they are.
LEMMA NewsReads ==
    ASSUME TypeOK, TypeOK', TablesAgree', ReadInv, NEW news, Telling(news, {}),
           UNCHANGED tasks
    PROVE  ReadInv'
<1>1. TasksInOrder'
  <2>1. ASSUME NEW i \in Places, tasks[i].op = "add"
        PROVE  (tasks[i].g <= asked /\ Untouched(tasks[i].g))'
    <3>1. PICK g \in Gets : g = tasks[i].g
        BY Sequences
    <3>2. g <= asked /\ Untouched(g)
        BY <2>1, <3>1 DEF ReadInv, TasksInOrder
    <3>3. Untouched(g)'
        BY <3>2, StillUntouched
    <3> QED
        BY <3>1, <3>2, <3>3 DEF Telling, Untouched, Deaf
  <2>2. UNCHANGED <<Places, muted>>
      BY DEF Places, Telling
  <2> QED
      BY <2>1, <2>2 DEF ReadInv, TasksInOrder
<1> QED
    BY <1>1, TellingReads

\* Going offline, whether a failure or the timer says so.
LEMMA BroadcastReads ==
    ASSUME TypeOK, TypeOK', TablesAgree', ReadInv, Broadcast("Offline"),
           UNCHANGED <<asked, docOf, tasks, muted, answers>>
    PROVE  ReadInv'
<1>1. Telling({d \in Docs : views'[d] # views[d]}, {})
    BY DEF Telling, Broadcast
<1> QED
    BY <1>1, NewsReads

LEMMA DeniedReads ==
    ASSUME TypeOK, TypeOK', TablesAgree, ReadInv, NEW d \in Docs, d \in targets, ReadDenied(d),
           UNCHANGED <<asked, docOf, tasks, muted, answers, doubted>>, online' = "Online"
    PROVE  ReadInv'
<1>1. /\ listeners' = [listeners EXCEPT ![d] = {}] /\ UNCHANGED raised
      /\ events' = [g \in Gets |->
             IF g \in listeners[d]
             THEN Append(events[g], Message("denied")) ELSE events[g]]
    BY DEF ReadDenied
<1>2. \A g \in Gets : Deaf(g) => Deaf(g)' /\ g \notin listeners[d]
    BY <1>1 DEF Deaf, TypeOK
<1>3. \A g \in Gets : Untouched(g) => Untouched(g)'
    BY <1>1, <1>2 DEF Untouched
<1>4. TasksInOrder'
  <2>1. ASSUME NEW i \in Places, tasks[i].op = "add"
        PROVE  (tasks[i].g <= asked /\ Untouched(tasks[i].g))'
    <3>1. PICK g \in Gets : g = tasks[i].g
        BY Sequences
    <3>2. g <= asked /\ Untouched(g)'
        BY <1>3, <2>1, <3>1 DEF ReadInv, TasksInOrder
    <3> QED
        BY <3>1, <3>2 DEF Untouched, Deaf
  <2>2. UNCHANGED Places
      BY DEF Places
  <2> QED
      BY <2>1, <2>2 DEF ReadInv, TasksInOrder
<1>5. ASSUME NEW g \in Gets
      PROVE  Fate(g)'
  <2>1. AskedFirst(g) /\ AnsweredOnce(g) /\ DeniedLast(g) /\ DoubtKnown(g)
      BY DEF ReadInv, Fate
  <2>2. CASE g \notin listeners[d]
    <3>1. events'[g] = events[g]
        BY <1>1, <2>2
    <3>2. AskedFirst(g)' /\ AnsweredOnce(g)'
        BY <1>2, <1>3, <2>1, <3>1 DEF AskedFirst, AnsweredOnce
    <3>3. DeniedLast(g)' /\ DoubtKnown(g)'
        BY <1>2, <2>1, <3>1 DEF DeniedLast, DoubtKnown
    <3> QED
        BY <3>2, <3>3 DEF Fate
  <2>3. CASE g \in listeners[d]
    <3>1. Deaf(g)' /\ ~Deaf(g)
      <4>1. docOf[g] = d /\ \A e \in Docs : g \in listeners[e] => e = d
          BY <2>3 DEF TablesAgree
      <4> QED
          BY <1>1, <2>3, <4>1 DEF Deaf, TypeOK
    <3>2. Message("denied") \in Answers /\ Message("denied").kind = "denied"
        BY MessageType DEF Message
    <3>3. /\ Len(events[g]) \in Nat /\ Len(events'[g]) = Len(events[g]) + 1
          /\ \A i \in 1..Len(events[g]) : events'[g][i] = events[g][i]
          /\ events'[g][Len(events[g]) + 1] = Message("denied")
        BY <1>1, <2>3, <3>2, Sequences, AppendPlaces
    <3>4. AskedFirst(g)'
        BY <2>1, <3>1 DEF AskedFirst, Untouched
    <3>5. AnsweredOnce(g)'
        BY <2>1, <3>1 DEF AnsweredOnce
    <3>6. DeniedLast(g)'
        BY <2>1, <3>1, <3>3 DEF DeniedLast
    <3>7. DoubtKnown(g)'
        BY <2>1, <3>2, <3>3 DEF DoubtKnown
    <3> QED
        BY <3>4, <3>5, <3>6, <3>7 DEF Fate
  <2> QED
      BY <2>2, <2>3
<1>6. OfflineDoubted'
    BY DEF OfflineDoubted
<1> QED
    BY <1>4, <1>5, <1>6 DEF ReadInv

LEMMA GetReads ==
    ASSUME TypeOK, ReadInv, GetDocument
    PROVE  ReadInv'
<1>1. /\ asked < MaxGets /\ asked' = asked + 1 /\ asked' \in Gets
      /\ tasks' = Append(tasks, Task("add", asked'))
      /\ doubted' = (IF online = "Offline" THEN doubted \cup {asked'} ELSE doubted)
      /\ UNCHANGED <<docOf, events, muted, answers, listeners, raised, online>>
    BY BoundsAssumption DEF GetDocument, listenVars, onlineVars, TypeOK, Gets
<1>2. Task("add", asked') \in [op : {"add", "remove"}, g : Gets]
      /\ Task("add", asked').op = "add" /\ Task("add", asked').g = asked'
    BY <1>1 DEF Task
<1>3. /\ Len(tasks) \in Nat /\ Len(tasks') = Len(tasks) + 1
      /\ \A i \in Places : tasks'[i] = tasks[i]
      /\ tasks'[Len(tasks) + 1] = Task("add", asked')
    BY <1>1, <1>2, Sequences, AppendPlaces DEF Places
<1>4. Places' = Places \cup {Len(tasks) + 1}
    BY <1>3 DEF Places
<1>5. asked \in Nat
    BY Sequences
<1>6. Untouched(asked + 1)
    BY <1>1, <1>5 DEF ReadInv, Fate, AskedFirst
<1>7. TasksInOrder'
  <2>1. ASSUME NEW i \in Places'
        PROVE  /\ (tasks[i].op = "add" => tasks[i].g <= asked /\ Untouched(tasks[i].g))'
               /\ (tasks[i].op = "remove" => tasks[i].g \in muted)'
    <3>1. CASE i \in Places
      <4>1. PICK t \in [op : {"add", "remove"}, g : Gets] : t = tasks[i]
          BY <3>1, Sequences
      <4>2. t.op = "add" => t.g <= asked + 1 /\ Untouched(t.g)
          BY <1>5, <3>1, <4>1 DEF ReadInv, TasksInOrder, Gets
      <4>3. t.op = "remove" => t.g \in muted
          BY <3>1, <4>1 DEF ReadInv, TasksInOrder
      <4> QED
          BY <1>1, <1>3, <3>1, <4>1, <4>2, <4>3 DEF Untouched, Deaf
    <3>2. CASE i = Len(tasks) + 1
      <4>1. tasks'[i].op = "add" /\ tasks'[i].g = asked + 1
          BY <1>1, <1>2, <1>3, <3>2
      <4>2. PICK g \in Gets : g = asked' /\ tasks'[i].g = g
          BY <1>1, <4>1
      <4>3. Untouched(g)' /\ g <= asked'
        <5>1. Untouched(g)
            BY <1>1, <1>6, <4>2
        <5> QED
            BY <1>1, <1>5, <4>2, <5>1 DEF Untouched, Deaf
      <4> QED
          BY <4>1, <4>2, <4>3 DEF Untouched, Deaf
    <3> QED
        BY <1>4, <3>1, <3>2
  <2>2. ASSUME NEW i \in Places, tasks[i].op = "add"
        PROVE  tasks[i].g # asked'
      BY <1>1, <1>5, <2>2, Sequences DEF ReadInv, TasksInOrder, Gets
  <2>3. ASSUME NEW i \in Places', NEW j \in Places',
               tasks'[i].op = "add", tasks'[i] = tasks'[j]
        PROVE  i = j
      BY <1>2, <1>3, <1>4, <2>2, <2>3 DEF ReadInv, TasksInOrder
  <2> QED
      BY <2>1, <2>3, Zenon DEF TasksInOrder
<1>8. ASSUME NEW g \in Gets
      PROVE  Fate(g)'
  <2>1. AskedFirst(g) /\ AnsweredOnce(g) /\ DeniedLast(g) /\ DoubtKnown(g)
      BY DEF ReadInv, Fate
  <2>2. AskedFirst(g)'
      BY <1>1, <1>5, <2>1 DEF AskedFirst, Untouched, Deaf, Gets
  <2>3. AnsweredOnce(g)' /\ DeniedLast(g)'
      BY <1>1, <2>1 DEF AnsweredOnce, DeniedLast, Deaf
  <2>4. DoubtKnown(g)'
      BY <1>1, <2>1 DEF DoubtKnown
  <2> QED
      BY <2>2, <2>3, <2>4 DEF Fate
<1>9. OfflineDoubted'
    BY <1>1, <1>5 DEF ReadInv, OfflineDoubted, Waiting
<1> QED
    BY <1>7, <1>8, <1>9 DEF ReadInv

LEMMA RemoveReads ==
    ASSUME TypeOK, ReadInv, NEW h \in Gets, RemoveQueryListener(h)
    PROVE  ReadInv'
<1>1. /\ tasks # <<>> /\ tasks' = Tail(tasks)
      /\ listeners' = [listeners EXCEPT ![docOf[h]] = @ \ {h}]
      /\ UNCHANGED <<asked, docOf, events, muted, answers, raised, doubted>>
    BY DEF RemoveQueryListener
<1>2. /\ Len(tasks) \in Nat /\ Len(tasks') = Len(tasks) - 1
      /\ \A i \in Places' : i + 1 \in Places /\ tasks'[i] = tasks[i + 1]
    BY <1>1, Sequences, TailPlaces DEF Places
<1>3. online' = online \/ online' # "Offline"
  <2>1. StopListening(docOf[h]) \/ UNCHANGED onlineVars
      BY DEF RemoveQueryListener
  <2> QED
      BY <2>1 DEF StopListening, UpdateState, onlineVars
<1>4. \A g \in Gets : Deaf(g) => Deaf(g)'
    BY <1>1 DEF Deaf, TypeOK
<1>5. \A g \in Gets : Untouched(g) => Untouched(g)'
    BY <1>1, <1>4 DEF Untouched
<1>6. TasksInOrder'
  <2>1. ASSUME NEW i \in Places'
        PROVE  /\ (tasks[i].op = "add" => tasks[i].g <= asked /\ Untouched(tasks[i].g))'
               /\ (tasks[i].op = "remove" => tasks[i].g \in muted)'
    <3>1. i + 1 \in Places /\ tasks'[i] = tasks[i + 1]
        BY <1>2
    <3>2. PICK t \in [op : {"add", "remove"}, g : Gets] : t = tasks[i + 1]
        BY <3>1, Sequences
    <3>3. /\ t.op = "add" => t.g <= asked /\ Untouched(t.g)'
          /\ t.op = "remove" => t.g \in muted
        BY <1>5, <3>1, <3>2 DEF ReadInv, TasksInOrder
    <3> QED
        BY <1>1, <3>1, <3>2, <3>3 DEF Untouched, Deaf
  <2>2. ASSUME NEW i \in Places', NEW j \in Places',
               tasks'[i].op = "add", tasks'[i] = tasks'[j]
        PROVE  i = j
    <3>1. i + 1 = j + 1
        BY <1>2, <2>2 DEF ReadInv, TasksInOrder
    <3> QED
        BY <1>2, <3>1 DEF Places
  <2> QED
      BY <2>1, <2>2, Zenon DEF TasksInOrder
<1>7. ASSUME NEW g \in Gets
      PROVE  Fate(g)'
    BY <1>1, <1>4, <1>5 DEF ReadInv, Fate, AskedFirst, AnsweredOnce, DeniedLast, DoubtKnown
<1>8. OfflineDoubted'
    BY <1>1, <1>3 DEF ReadInv, OfflineDoubted, Waiting
<1> QED
    BY <1>6, <1>7, <1>8 DEF ReadInv

\* The read h hears an event, and nothing happens to the others.
LEMMA EventReads ==
    ASSUME TypeOK, ReadInv, NEW h \in Gets, OnEvent(h)
    PROVE  ReadInv'
<1>1. /\ events[h] # <<>> /\ events' = [events EXCEPT ![h] = Tail(@)]
      /\ UNCHANGED <<asked, docOf, listeners, raised, doubted, online>>
    BY DEF OnEvent, listenVars, onlineVars
<1> DEFINE e == Head(events[h])
<1>2. /\ Len(events[h]) \in Nat /\ Len(events'[h]) = Len(events[h]) - 1
      /\ 1 \in 1..Len(events[h]) /\ e = events[h][1] /\ e \in Answers
      /\ \A i \in 1..Len(events'[h]) :
             i + 1 \in 1..Len(events[h]) /\ events'[h][i] = events[h][i + 1]
    BY <1>1, Sequences, TailPlaces DEF TypeOK
<1> HIDE DEF e
<1>3. AskedFirst(h) /\ AnsweredOnce(h) /\ DeniedLast(h) /\ DoubtKnown(h)
    BY DEF ReadInv, Fate
<1>4. h <= asked /\ ~Untouched(h) /\ asked \in Nat
    BY <1>1, <1>3, Sequences DEF AskedFirst, Untouched, Gets
<1>5. \/ h \in muted /\ UNCHANGED <<tasks, muted, answers>>
      \/ /\ h \notin muted /\ e.kind = "denied" /\ UNCHANGED <<tasks, muted>>
         /\ answers' = [answers EXCEPT ![h] = Append(@, e)]
      \/ /\ h \notin muted /\ muted' = muted \cup {h}
         /\ tasks' = Append(tasks, Task("remove", h))
         /\ answers' = [answers EXCEPT ![h] = Append(@, e)]
    BY DEF OnEvent, e
<1>6. \A g \in Gets : /\ answers'[g] = answers[g] \/ (g = h /\ answers'[g] # <<>>)
                      /\ g \in muted' => g \in muted \/ g = h
                      /\ g \in muted => g \in muted'
  <2>1. Append(answers[h], e) # <<>> /\ answers \in [Gets -> Seq(Answers)]
    <3>1. answers[h] \in Seq(Answers)
        BY Sequences
    <3>2. Append(answers[h], e) # <<>>
        BY <3>1, <1>2, AppendProperties
    <3> QED
        BY <3>2 DEF TypeOK
  <2>2. UNCHANGED answers \/ answers' = [answers EXCEPT ![h] = Append(@, e)]
      BY <1>5
  <2>3. ASSUME NEW g \in Gets
        PROVE  answers'[g] = answers[g] \/ (g = h /\ answers'[g] # <<>>)
      BY <2>1, <2>2
  <2>4. UNCHANGED muted \/ muted' = muted \cup {h}
      BY <1>5
  <2> QED
      BY <2>3, <2>4
<1>7. \A g \in Gets : Untouched(g) => Untouched(g)' /\ g # h
  <2> SUFFICES ASSUME NEW g \in Gets, Untouched(g) PROVE Untouched(g)' /\ g # h
      OBVIOUS
  <2>1. g # h
      BY <1>4
  <2>2. events'[g] = events[g]
      BY <1>1, <2>1 DEF TypeOK
  <2> QED
      BY <1>1, <1>6, <2>1, <2>2 DEF Untouched, Deaf
<1>8. TasksInOrder'
  <2>1. CASE UNCHANGED <<tasks, muted>>
    <3>1. ASSUME NEW i \in Places
          PROVE  /\ (tasks[i].op = "add" => tasks[i].g <= asked /\ Untouched(tasks[i].g))'
                 /\ (tasks[i].op = "remove" => tasks[i].g \in muted)'
      <4>1. PICK t \in [op : {"add", "remove"}, g : Gets] : t = tasks[i]
          BY Sequences
      <4>2. /\ t.op = "add" => t.g <= asked /\ Untouched(t.g)'
            /\ t.op = "remove" => t.g \in muted
          BY <1>7, <4>1 DEF ReadInv, TasksInOrder
      <4> QED
          BY <1>1, <2>1, <4>1, <4>2 DEF Untouched, Deaf
    <3>2. UNCHANGED Places
        BY <2>1 DEF Places
    <3> QED
        BY <2>1, <3>1, <3>2 DEF ReadInv, TasksInOrder
  <2>2. CASE muted' = muted \cup {h} /\ tasks' = Append(tasks, Task("remove", h))
    <3>1. /\ Task("remove", h) \in [op : {"add", "remove"}, g : Gets]
          /\ Task("remove", h).op = "remove" /\ Task("remove", h).g = h
        BY DEF Task
    <3>2. /\ Len(tasks) \in Nat /\ Len(tasks') = Len(tasks) + 1
          /\ \A i \in Places : tasks'[i] = tasks[i]
          /\ tasks'[Len(tasks) + 1] = Task("remove", h)
        BY <2>2, <3>1, Sequences, AppendPlaces DEF Places
    <3>3. Places' = Places \cup {Len(tasks) + 1}
        BY <3>2 DEF Places
    <3>4. ASSUME NEW i \in Places'
          PROVE  /\ (tasks[i].op = "add" => tasks[i].g <= asked /\ Untouched(tasks[i].g))'
                 /\ (tasks[i].op = "remove" => tasks[i].g \in muted)'
      <4>1. CASE i \in Places
        <5>1. PICK t \in [op : {"add", "remove"}, g : Gets] : t = tasks[i]
            BY <4>1, Sequences
        <5>2. /\ t.op = "add" => t.g <= asked /\ Untouched(t.g)'
              /\ t.op = "remove" => t.g \in muted
            BY <1>7, <4>1, <5>1 DEF ReadInv, TasksInOrder
        <5> QED
            BY <1>1, <2>2, <3>2, <4>1, <5>1, <5>2 DEF Untouched, Deaf
      <4>2. CASE i = Len(tasks) + 1
          BY <2>2, <3>1, <3>2, <4>2
      <4> QED
          BY <3>3, <4>1, <4>2
    <3>5. ASSUME NEW i \in Places', NEW j \in Places',
                 tasks'[i].op = "add", tasks'[i] = tasks'[j]
          PROVE  i = j
        BY <3>1, <3>2, <3>3, <3>5 DEF ReadInv, TasksInOrder
    <3> QED
        BY <3>4, <3>5, Zenon DEF TasksInOrder
  <2> QED
      BY <1>5, <2>1, <2>2
<1>9. ASSUME NEW g \in Gets
      PROVE  Fate(g)'
  <2>1. CASE g # h
    <3>1. events'[g] = events[g] /\ answers'[g] = answers[g] /\ (g \in muted' <=> g \in muted)
        BY <1>1, <1>6, <2>1 DEF TypeOK
    <3>2. Untouched(g) => Untouched(g)'
        BY <1>7
    <3> QED
        BY <1>1, <3>1, <3>2 DEF ReadInv, Fate, AskedFirst, AnsweredOnce, DeniedLast,
           DoubtKnown, Deaf
  <2>2. CASE g = h
    <3>1. AskedFirst(h)'
        BY <1>1, <1>4 DEF AskedFirst, Gets
    <3>2. e.kind = "denied" => events'[h] = <<>> /\ Deaf(h)'
      <4> SUFFICES ASSUME e.kind = "denied" PROVE events'[h] = <<>> /\ Deaf(h)'
          OBVIOUS
      <4>1. 1 = Len(events[h]) /\ Deaf(h)
          BY <1>2, <1>3 DEF DeniedLast
      <4>2. events'[h] = Tail(events[h]) /\ events[h] \in Seq(Answers)
          BY <1>1 DEF TypeOK
      <4>3. events'[h] = <<>>
        <5>1. events'[h] \in Seq(Answers) /\ Len(events'[h]) = 0
            BY <1>1, <1>2, <4>1, <4>2, HeadTailProperties
        <5> QED
            BY <5>1, EmptySeq
      <4> QED
          BY <1>1, <4>1, <4>3 DEF Deaf
    <3>3. AnsweredOnce(h)'
      <4>1. CASE h \in muted
          BY <1>3, <1>5, <4>1 DEF AnsweredOnce
      <4>2. CASE h \notin muted
        <5>1. answers'[h] = Append(answers[h], e) /\ answers[h] \in Seq(Answers)
            BY <1>5, <4>2 DEF TypeOK
        <5>2. answers'[h] # <<>>
            BY <1>2, <5>1, AppendProperties
        <5> QED
            BY <1>5, <3>2, <4>2, <5>2 DEF AnsweredOnce
      <4> QED
          BY <4>1, <4>2
    <3>4. DeniedLast(h)'
      <4> SUFFICES ASSUME NEW i \in 1..Len(events'[h]), events'[h][i].kind = "denied"
                   PROVE  i = Len(events'[h]) /\ Deaf(h)'
          BY DEF DeniedLast
      <4>1. i + 1 = Len(events[h]) /\ Deaf(h)
          BY <1>2, <1>3 DEF DeniedLast
      <4> QED
          BY <1>1, <1>2, <4>1 DEF Deaf
    <3>5. DoubtKnown(h)'
        BY <1>1, <1>2, <1>3, <1>6 DEF DoubtKnown
    <3> QED
        BY <2>2, <3>1, <3>3, <3>4, <3>5 DEF Fate
  <2> QED
      BY <2>1, <2>2
<1>10. OfflineDoubted'
  <2>1. 1..asked \subseteq Gets
      BY BoundsAssumption DEF TypeOK, Gets
  <2>2. ASSUME NEW g \in Waiting' PROVE g \in Waiting
    <3>1. g \in 1..asked /\ answers'[g] = <<>>
        BY <1>1 DEF Waiting
    <3> QED
        BY <1>6, <2>1, <3>1 DEF Waiting
  <2> QED
      BY <1>1, <2>2 DEF ReadInv, OfflineDoubted
<1> QED
    BY <1>8, <1>9, <1>10 DEF ReadInv

LEMMA ChangeReads ==
    ASSUME TypeOK, TypeOK', TablesAgree, TablesAgree', ReadInv,
           NEW d \in Docs, OnWatchStreamChange(d)
    PROVE  ReadInv'
<1>1. /\ UNCHANGED <<asked, docOf, tasks, muted, answers, doubted>>
      /\ online' = "Online"
    BY DEF OnWatchStreamChange, UpdateState
<1>2. CASE UNCHANGED <<listenVars, events>>
    BY <1>1, <1>2, QuietReads DEF listenVars
<1>3. CASE d \in targets /\ ReadShown(d)
  <2>1. PICK news \in {{}, {d}} :
            /\ views' = [views EXCEPT ![d] = "synced"] \/ UNCHANGED <<listenVars, events>>
            /\ UNCHANGED listeners
            /\ Tell(news) \/ UNCHANGED <<listenVars, events>>
      BY <1>3 DEF ReadShown, listenVars
  <2>2. CASE Tell(news) /\ views' = [views EXCEPT ![d] = "synced"]
    <3>1. \A g \in Gets : docOf[g] \in news => views'[docOf[g]] = "synced"
      <4>1. views'[d] = "synced"
          BY <2>2 DEF TypeOK
      <4> QED
          BY <4>1
    <3>2. Telling(news, {})
        BY <1>1, <2>1, <2>2, <3>1 DEF Telling
    <3> QED
        BY <1>1, <3>2, NewsReads
  <2> QED
      BY <1>2, <2>1, <2>2
<1>4. CASE d \in targets /\ ReadDenied(d)
    BY <1>1, <1>4, DeniedReads
<1> QED
    BY <1>2, <1>3, <1>4 DEF OnWatchStreamChange, ReadAck, ReadShown, ReadDenied

LEMMA NextReads ==
    TypeOK /\ TypeOK' /\ TablesAgree /\ TablesAgree' /\ ReadInv /\ [Next]_vars => ReadInv'
<1> SUFFICES ASSUME TypeOK, TypeOK', TablesAgree, TablesAgree', ReadInv, [Next]_vars
             PROVE  ReadInv'
    OBVIOUS
<1>1. CASE GetDocument
    BY <1>1, GetReads
<1>2. ASSUME NEW g \in Gets, AddQueryListener(g) \/ RemoveQueryListener(g) \/ OnEvent(g)
      PROVE  ReadInv'
    BY <1>2, AddReads, RemoveReads, EventReads
<1>3. CASE StreamCloses
  <2>1. UNCHANGED <<asked, docOf, tasks, muted, answers>>
      BY <1>3 DEF StreamCloses
  <2>2. \/ Broadcast("Offline")
        \/ /\ UNCHANGED <<listenVars, events, doubted>>
           /\ HandleWatchStreamStart(failed) \/ UpdateState("Unknown")
      BY <1>3 DEF StreamCloses, HandleWatchStreamFailure
  <2> QED
      BY <2>1, <2>2, BroadcastReads, QuietReads DEF listenVars, HandleWatchStreamStart, UpdateState
<1>4. CASE OnlineStateTimeout
    BY <1>4, BroadcastReads DEF OnlineStateTimeout
<1>5. ASSUME NEW d \in Docs, OnWatchStreamChange(d)
      PROVE  ReadInv'
    BY <1>5, ChangeReads
<1>6. CASE \/ StreamOpens \/ BackoffElapses \/ IdleTimeout \/ RestartNetwork
           \/ \E d \in Docs : ServerWrites(d) \/ ServerAnswers(d) \/ ServerShows(d)
           \/ UNCHANGED vars
  <2>1. UNCHANGED <<appVars, listenVars, doubted>>
      BY <1>6 DEF StreamOpens, BackoffElapses, IdleTimeout, RestartNetwork,
         ServerWrites, ServerAnswers, ServerShows, vars
  <2>2. online' = online \/ online' # "Offline"
      BY <1>6 DEF StreamOpens, BackoffElapses, IdleTimeout, RestartNetwork, UpdateState,
         ServerWrites, ServerAnswers, ServerShows, vars, onlineVars
  <2> QED
      BY <2>1, <2>2, QuietReads DEF appVars, listenVars
<1> QED
    BY <1>1, <1>2, <1>3, <1>4, <1>5, <1>6 DEF Next, StreamFails, StreamDrops

LEMMA ReadInvHolds == Spec => []ReadInv
<1> QED
    BY InitType, NextType, InitTables, NextTables, InitReads, NextReads, PTL DEF Spec

-----------------------------------------------------------------------------
(***************************************************************************)
(* Where a read without an answer waits.                                   *)
(***************************************************************************)
Coming(g)  == \E i \in Places : tasks[i] = Task("add", g)
Hoping(g)  == /\ g \in listeners[docOf[g]] /\ g \notin raised
              /\ views[docOf[g]] = "local" /\ online # "Offline"
Kept(g)    == Coming(g) \/ events[g] # <<>> \/ Hoping(g)

LEMMA NobodyParts == NobodyForgotten <=> \A g \in Waiting : Kept(g)
BY DEF NobodyForgotten, Kept, Coming, Hoping, Places

\* After everybody was told, a listener has heard something or may hope.
LEMMA TellKept ==
    ASSUME TypeOK, TypeOK', TablesAgree', NEW news, Tell(news), UNCHANGED docOf,
           NEW g \in Gets, Kept(g),
           Coming(g) => Coming(g)' \/ (g \in listeners'[docOf[g]] /\ g \notin raised),
           g \in listeners[docOf[g]] => g \in listeners'[docOf[g]]
    PROVE  Kept(g)'
<1>1. CASE Coming(g)'
    BY <1>1 DEF Kept
<1>2. events'[g] = IF g \in Due(news)
                   THEN Append(events[g], Snapshot(views'[docOf[g]], cache'[docOf[g]]))
                   ELSE events[g]
    BY TellIs
<1>3. g \in Due(news) => events'[g] # <<>>
  <2>1. Snapshot(views'[docOf[g]], cache'[docOf[g]]) \in Answers /\ events[g] \in Seq(Answers)
    <3>1. cache'[docOf[g]] \in Versions
        BY DEF TypeOK
    <3> QED
        BY <3>1, SnapshotType, Sequences
  <2> QED
      BY <1>2, <2>1, AppendProperties
<1>4. CASE events[g] # <<>>
    BY <1>2, <1>3, <1>4 DEF Kept
<1>5. CASE g \in listeners'[docOf[g]] /\ g \notin raised
  <2>1. CASE g \in Due(news)
      BY <1>3, <2>1 DEF Kept
  <2>2. CASE g \notin Due(news)
    <3>1. docOf[g] \in Docs /\ docOf' = docOf
        BY DEF TypeOK
    <3>2. ~InitialDue(views'[docOf[g]], cache'[docOf[g]], online')
        BY <1>5, <2>2, <3>1 DEF Due
    <3>3. views'[docOf[g]] # "synced" /\ online' # "Offline"
        BY <3>2 DEF InitialDue
    <3>4. views'[docOf[g]] = "local"
      <4>1. listeners'[docOf[g]] # {}
          BY <1>5
      <4>2. views'[docOf[g]] # "none"
          BY <3>1, <4>1 DEF TablesAgree
      <4> QED
          BY <3>1, <3>3, <4>2 DEF TypeOK
    <3>5. g \notin raised'
        BY <1>5, <2>2, TellIs
    <3> QED
        BY <1>5, <3>1, <3>3, <3>4, <3>5 DEF Kept, Hoping
  <2> QED
      BY <2>1, <2>2
<1> QED
    BY <1>1, <1>4, <1>5 DEF Kept, Hoping

\* Taking the first task off the queue leaves those of other reads.
LEMMA ComingLater ==
    ASSUME TypeOK, tasks # <<>>, tasks' = Tail(tasks), NEW g \in Gets, Coming(g),
           Head(tasks) # Task("add", g)
    PROVE  Coming(g)'
<1>1. /\ Len(tasks) \in Nat /\ Len(tasks') = Len(tasks) - 1 /\ Head(tasks) = tasks[1]
      /\ \A i \in Places' : tasks'[i] = tasks[i + 1]
    BY Sequences, TailPlaces DEF Places
<1>2. PICK i \in Places : tasks[i] = Task("add", g)
    BY DEF Coming
<1>3. i # 1
    BY <1>1, <1>2
<1>4. i - 1 \in Places' /\ tasks'[i - 1] = tasks[i]
    BY <1>1, <1>3 DEF Places
<1> QED
    BY <1>2, <1>4 DEF Coming

LEMMA ComingStill ==
    ASSUME TypeOK, NEW t \in [op : {"add", "remove"}, g : Gets],
           tasks' = Append(tasks, t) \/ UNCHANGED tasks, NEW g \in Gets
    PROVE  /\ Coming(g) => Coming(g)'
           /\ tasks' = Append(tasks, t) /\ t = Task("add", g) => Coming(g)'
<1>1. CASE tasks' = Append(tasks, t)
  <2>1. /\ Len(tasks) \in Nat /\ Len(tasks') = Len(tasks) + 1
        /\ \A i \in Places : tasks'[i] = tasks[i]
        /\ tasks'[Len(tasks) + 1] = t
      BY <1>1, Sequences, AppendPlaces DEF Places
  <2>2. Places \subseteq Places' /\ Len(tasks) + 1 \in Places'
      BY <2>1 DEF Places
  <2> QED
      BY <2>1, <2>2 DEF Coming
<1>2. CASE UNCHANGED tasks
  <2>1. Coming(g) => Coming(g)'
      BY <1>2 DEF Coming, Places
  <2>2. tasks # Append(tasks, t)
      BY Sequences, AppendPlaces
  <2> QED
      BY <1>2, <2>1, <2>2
<1> QED
    BY <1>1, <1>2

LEMMA QuietKept ==
    ASSUME TypeOK, UNCHANGED <<appVars, listenVars>>,
           online' = online \/ online' # "Offline", NEW g \in Gets, Kept(g)
    PROVE  Kept(g)'
BY DEF appVars, listenVars, Kept, Coming, Hoping, Places

LEMMA NextForgotten ==
    ASSUME TypeOK, TypeOK', TablesAgree, TablesAgree', ReadInv, NobodyForgotten,
           [Next]_vars, NEW g \in Waiting'
    PROVE  Kept(g)'
<1>0. /\ g \in Gets /\ answers'[g] = <<>> /\ docOf[g] \in Docs
      /\ g \in Waiting => Kept(g)
      /\ docOf' = docOf => docOf'[g] = docOf[g]
  <2>1. g \in Gets
      BY BoundsAssumption DEF Waiting, TypeOK, Gets
  <2> QED
      BY <2>1, NobodyParts DEF Waiting, TypeOK
<1>1. ASSUME UNCHANGED <<asked, answers>>
      PROVE  Kept(g)
    BY <1>0, <1>1 DEF Waiting
<1>2. CASE GetDocument
  <2>1. /\ asked' = asked + 1 /\ asked' \in Gets
        /\ tasks' = Append(tasks, Task("add", asked'))
        /\ UNCHANGED <<docOf, events, answers, listenVars, online>>
      BY <1>2, BoundsAssumption DEF GetDocument, onlineVars, TypeOK, Gets
  <2>2. Task("add", asked') \in [op : {"add", "remove"}, g : Gets]
      BY <2>1 DEF Task
  <2>3. CASE g = asked'
      BY <1>0, <2>1, <2>2, <2>3, ComingStill DEF Kept
  <2>4. CASE g # asked'
    <3>1. g \in Waiting
        BY <1>0, <2>1, <2>4, Sequences DEF Waiting
    <3> QED
        BY <1>0, <2>1, <2>2, <3>1, ComingStill DEF Kept, Hoping, listenVars
  <2> QED
      BY <2>3, <2>4
<1>3. ASSUME NEW h \in Gets, AddQueryListener(h)
      PROVE  Kept(g)'
  <2>1. /\ tasks # <<>> /\ Head(tasks) = Task("add", h) /\ tasks' = Tail(tasks)
        /\ listeners' = [listeners EXCEPT ![docOf[h]] = @ \cup {h}]
        /\ Tell({}) /\ UNCHANGED <<asked, docOf, answers>>
      BY <1>3 DEF AddQueryListener
  <2>2. Kept(g)
      BY <1>1, <2>1
  <2>3. /\ g \in listeners[docOf[g]] => g \in listeners'[docOf[g]]
        /\ g = h => g \in listeners'[docOf[g]]
      BY <1>0, <2>1 DEF TypeOK
  <2>4. g = h => g \notin raised
    <3>1. 1 \in Places /\ tasks[1] = Task("add", h)
        BY <2>1, Sequences, TailPlaces DEF Places
    <3> QED
        BY <3>1 DEF ReadInv, TasksInOrder, Task, Untouched
  <2>5. Coming(g) => Coming(g)' \/ g = h
    <3>1. g # h => Head(tasks) # Task("add", g)
        BY <2>1 DEF Task
    <3> QED
        BY <1>0, <2>1, <3>1, ComingLater
  <2> QED
      BY <1>0, <2>1, <2>2, <2>3, <2>4, <2>5, TellKept
<1>4. ASSUME NEW h \in Gets, RemoveQueryListener(h)
      PROVE  Kept(g)'
  <2>1. /\ tasks # <<>> /\ Head(tasks) = Task("remove", h) /\ tasks' = Tail(tasks)
        /\ listeners' = [listeners EXCEPT ![docOf[h]] = @ \ {h}]
        /\ UNCHANGED <<asked, docOf, answers, events, raised>>
      BY <1>4 DEF RemoveQueryListener
  <2>2. Kept(g)
      BY <1>1, <2>1
  <2>3. g # h
    <3>1. 1 \in Places /\ tasks[1] = Task("remove", h)
        BY <2>1, Sequences, TailPlaces DEF Places
    <3>2. h \in muted
        BY <3>1 DEF ReadInv, TasksInOrder, Task
    <3>3. answers[h] # <<>>
        BY <3>2 DEF ReadInv, Fate, AnsweredOnce
    <3> QED
        BY <1>0, <2>1, <3>3
  <2>4. Coming(g) => Coming(g)'
    <3>1. Head(tasks) # Task("add", g)
        BY <2>1 DEF Task
    <3> QED
        BY <1>0, <2>1, <3>1, ComingLater
  <2>5. Hoping(g) => Hoping(g)'
    <3> SUFFICES ASSUME Hoping(g) PROVE Hoping(g)'
        OBVIOUS
    <3>1. g \in listeners'[docOf[g]]
        BY <1>0, <2>1, <2>3 DEF Hoping, TypeOK
    <3>2. online' # "Offline"
      <4>1. StopListening(docOf[h]) \/ UNCHANGED onlineVars
          BY <1>4 DEF RemoveQueryListener
      <4> QED
          BY <4>1 DEF Hoping, StopListening, UpdateState, onlineVars
    <3>3. views'[docOf[g]] = "local"
      <4>1. CASE listeners[docOf[h]] = {h}
        <5>1. docOf[h] # docOf[g] /\ docOf[h] \in Docs
            BY <2>3, <4>1 DEF Hoping, TypeOK
        <5>2. views' = [views EXCEPT ![docOf[h]] = "none"]
            BY <1>4, <4>1 DEF RemoveQueryListener, StopListening
        <5> QED
            BY <1>0, <5>1, <5>2 DEF Hoping, TypeOK
      <4>2. CASE listeners[docOf[h]] # {h}
          BY <1>4, <4>2 DEF RemoveQueryListener, Hoping
      <4> QED
          BY <4>1, <4>2
    <3> QED
        BY <2>1, <3>1, <3>2, <3>3 DEF Hoping
  <2> QED
      BY <2>1, <2>2, <2>4, <2>5 DEF Kept
<1>5. ASSUME NEW h \in Gets, OnEvent(h)
      PROVE  Kept(g)'
  <2>1. /\ events' = [events EXCEPT ![h] = Tail(@)]
        /\ UNCHANGED <<asked, docOf, listeners, raised, views, online>>
        /\ tasks' = Append(tasks, Task("remove", h)) \/ UNCHANGED tasks
        /\ Task("remove", h) \in [op : {"add", "remove"}, g : Gets]
      BY <1>5 DEF OnEvent, listenVars, onlineVars, Task
  <2>2. g # h /\ answers[g] = <<>>
    <3>1. CASE h \in muted
      <4>1. answers' = answers
          BY <1>5, <3>1 DEF OnEvent
      <4>2. answers[h] # <<>>
          BY <3>1 DEF ReadInv, Fate, AnsweredOnce
      <4> QED
          BY <1>0, <4>1, <4>2
    <3>2. CASE h \notin muted
      <4>1. answers' = [answers EXCEPT ![h] = Append(@, Head(events[h]))]
          BY <1>5, <3>2 DEF OnEvent
      <4>2. Append(answers[h], Head(events[h])) # <<>>
        <5>1. Head(events[h]) \in Answers /\ answers[h] \in Seq(Answers)
            BY <1>5, TailAt DEF OnEvent, TypeOK
        <5> QED
            BY <5>1, AppendProperties
      <4> QED
          BY <1>0, <4>1, <4>2 DEF TypeOK
    <3> QED
        BY <3>1, <3>2
  <2>3. Kept(g)
      BY <1>0, <2>1, <2>2 DEF Waiting
  <2>4. events'[g] = events[g]
      BY <1>0, <2>1, <2>2 DEF TypeOK
  <2> QED
      BY <1>0, <2>1, <2>3, <2>4, ComingStill DEF Kept, Hoping
<1>6. ASSUME Broadcast("Offline"), UNCHANGED <<asked, docOf, tasks, answers>>
      PROVE  Kept(g)'
  <2>1. Coming(g) => Coming(g)'
      BY <1>6 DEF Coming, Places
  <2>2. UNCHANGED listeners /\ Tell({d \in Docs : views'[d] # views[d]})
      BY <1>6 DEF Broadcast
  <2> QED
      BY <1>0, <1>1, <1>6, <2>1, <2>2, TellKept
<1>7. CASE StreamCloses
  <2>1. UNCHANGED <<asked, docOf, tasks, muted, answers>>
      BY <1>7 DEF StreamCloses
  <2>2. \/ Broadcast("Offline")
        \/ /\ UNCHANGED <<listenVars, events>>
           /\ HandleWatchStreamStart(failed) \/ UpdateState("Unknown")
      BY <1>7 DEF StreamCloses, HandleWatchStreamFailure
  <2> QED
      BY <1>0, <1>1, <1>6, <2>1, <2>2, QuietKept
         DEF appVars, HandleWatchStreamStart, UpdateState
<1>8. CASE OnlineStateTimeout
    BY <1>6, <1>8 DEF OnlineStateTimeout
<1>9. ASSUME NEW d \in Docs, OnWatchStreamChange(d)
      PROVE  Kept(g)'
  <2>1. /\ UNCHANGED <<asked, docOf, tasks, muted, answers>> /\ online' = "Online"
        /\ Kept(g)
      BY <1>1, <1>9 DEF OnWatchStreamChange, UpdateState
  <2>2. Coming(g) => Coming(g)'
      BY <2>1 DEF Coming, Places
  <2>3. CASE UNCHANGED <<listenVars, events>>
      BY <1>0, <2>1, <2>3, QuietKept DEF appVars
  <2>4. ASSUME NEW news, Tell(news), UNCHANGED listeners
        PROVE  Kept(g)'
      BY <1>0, <2>1, <2>2, <2>4, TellKept
  <2>5. CASE d \in targets /\ ReadDenied(d)
    <3>1. /\ listeners' = [listeners EXCEPT ![d] = {}] /\ UNCHANGED raised
          /\ views' = [views EXCEPT ![d] = "none"]
          /\ events' = [h \in Gets |->
                 IF h \in listeners[d]
                 THEN Append(events[h], Message("denied")) ELSE events[h]]
        BY <2>5 DEF ReadDenied
    <3>2. CASE g \in listeners[d]
      <4>1. events'[g] # <<>>
        <5>1. Message("denied") \in Answers /\ events[g] \in Seq(Answers)
            BY <1>0, MessageType, Sequences
        <5> QED
            BY <1>0, <3>1, <3>2, <5>1, AppendProperties
      <4> QED
          BY <4>1 DEF Kept
    <3>3. CASE g \notin listeners[d]
      <4>1. events'[g] = events[g]
          BY <1>0, <3>1, <3>3
      <4>2. Hoping(g) => Hoping(g)'
          BY <1>0, <2>1, <3>1, <3>3 DEF Hoping, TypeOK
      <4> QED
          BY <2>1, <2>2, <4>1, <4>2 DEF Kept
    <3> QED
        BY <3>2, <3>3
  <2>6. \/ UNCHANGED <<listenVars, events>>
        \/ \E news \in SUBSET Docs : Tell(news) /\ UNCHANGED listeners
        \/ d \in targets /\ ReadDenied(d)
    <3>1. ReadShown(d) => \/ UNCHANGED <<listenVars, events>>
                          \/ \E news \in {{}, {d}} : Tell(news) /\ UNCHANGED listeners
        BY DEF ReadShown
    <3> QED
        BY <1>9, <3>1 DEF OnWatchStreamChange, ReadAck, ReadDenied
  <2> QED
      BY <2>3, <2>4, <2>5, <2>6
<1>10. CASE \/ StreamOpens \/ BackoffElapses \/ IdleTimeout \/ RestartNetwork
            \/ \E d \in Docs : ServerWrites(d) \/ ServerAnswers(d) \/ ServerShows(d)
            \/ UNCHANGED vars
  <2>1. UNCHANGED <<appVars, listenVars>>
      BY <1>10 DEF StreamOpens, BackoffElapses, IdleTimeout, RestartNetwork,
         ServerWrites, ServerAnswers, ServerShows, vars
  <2>2. online' = online \/ online' # "Offline"
      BY <1>10 DEF StreamOpens, BackoffElapses, IdleTimeout, RestartNetwork, UpdateState,
         ServerWrites, ServerAnswers, ServerShows, vars, onlineVars
  <2> QED
      BY <1>0, <1>1, <2>1, <2>2, QuietKept DEF appVars
<1> QED
    BY <1>2, <1>3, <1>4, <1>5, <1>7, <1>8, <1>9, <1>10 DEF Next, StreamFails, StreamDrops

\* A read that was not denied is on its way to its listener, has an answer on
\* the main queue, or waits where it may still hear of its document: through
\* joins, losses of the connection and late messages none is forgotten.
THEOREM NobodyIsForgotten == Spec => []NobodyForgotten
<1>1. Init => NobodyForgotten
  <2> SUFFICES ASSUME Init PROVE Waiting = {}
      BY NobodyParts
  <2>1. asked = 0
      BY DEF Init
  <2> QED
      BY <2>1 DEF Waiting
<1>2. TypeOK /\ TypeOK' /\ TablesAgree /\ TablesAgree' /\ ReadInv /\ NobodyForgotten
          /\ [Next]_vars => NobodyForgotten'
  <2> SUFFICES ASSUME TypeOK, TypeOK', TablesAgree, TablesAgree', ReadInv,
                      NobodyForgotten, [Next]_vars
               PROVE  NobodyForgotten'
      OBVIOUS
  <2>1. \A g \in Waiting' : Kept(g)'
      BY NextForgotten
  <2> QED
      BY <2>1 DEF NobodyForgotten, Kept, Coming, Hoping, Places
<1> QED
    BY <1>1, <1>2, TypeCorrect, TablesCorrect, ReadInvHolds, PTL DEF Spec

-----------------------------------------------------------------------------
(***************************************************************************)
(* Refinement of DocumentReads.                                            *)
(***************************************************************************)

\* A step that neither asks, nor answers, nor goes offline.
LEMMA QuietPromise ==
    ASSUME UNCHANGED <<asked, answers, doubted>>, online' = online \/ online' # "Offline"
    PROVE  DR!RNext \/ UNCHANGED DR!readVars
BY DEF DR!RNext, DR!RGoOnline, DR!readVars

LEMMA BroadcastPromise ==
    ASSUME ReadInv, Broadcast("Offline"), UNCHANGED <<asked, answers>>
    PROVE  DR!RNext \/ UNCHANGED DR!readVars
<1>1. online' = "Offline" /\ doubted' = doubted \cup Waiting /\ Waiting = DR!Waiting
    BY DEF Broadcast, Waiting, DR!Waiting
<1>2. CASE online = "Offline"
  <2>1. doubted' = doubted
      BY <1>1, <1>2 DEF ReadInv, OfflineDoubted
  <2> QED
      BY <1>1, <1>2, <2>1 DEF DR!readVars
<1>3. CASE online # "Offline"
    BY <1>1, <1>3 DEF DR!RNext, DR!RGoOffline
<1> QED
    BY <1>2, <1>3

LEMMA EventPromise ==
    ASSUME TypeOK, ReadInv, NEW h \in Gets, OnEvent(h)
    PROVE  DR!RNext \/ UNCHANGED DR!readVars
<1>1. events[h] # <<>> /\ UNCHANGED <<asked, online, doubted>>
    BY DEF OnEvent, onlineVars
<1>2. CASE h \in muted
  <2>1. answers' = answers
      BY <1>2 DEF OnEvent
  <2> QED
      BY <1>1, <2>1 DEF DR!readVars
<1>3. CASE h \notin muted
  <2> DEFINE e == Head(events[h])
  <2>1. answers' = [answers EXCEPT ![h] = Append(@, e)]
      BY <1>3 DEF OnEvent
  <2>2. e \in Answers /\ 1 \in 1..Len(events[h]) /\ e = events[h][1]
      BY <1>1, Sequences, TailPlaces DEF TypeOK
  <2> HIDE DEF e
  <2>3. answers[h] = <<>>
      BY <1>1, <1>3 DEF ReadInv, Fate, AnsweredOnce
  <2>4. h <= asked
      BY <1>1, Sequences DEF ReadInv, Fate, AskedFirst, Untouched, Gets
  <2>5. h \in DR!Waiting
      BY <2>3, <2>4, Sequences DEF DR!Waiting, Gets
  <2>6. e.kind \in {"cache", "missing"} => h \in doubted
      BY <1>3, <2>2 DEF ReadInv, Fate, DoubtKnown
  <2>7. answers' = [answers EXCEPT ![h] = <<e>>]
    <3>1. Append(<<>>, e) = <<e>>
        OBVIOUS
    <3> QED
        BY <2>1, <2>3, <3>1 DEF TypeOK
  <2>8. e \in DR!Answers
      BY <2>2 DEF Answers, Versions, DR!Answers
  <2>9. DR!RAnswer
      BY <1>1, <2>5, <2>6, <2>7, <2>8 DEF DR!RAnswer
  <2> QED
      BY <2>9 DEF DR!RNext
<1> QED
    BY <1>2, <1>3

LEMMA StepKeepsReads ==
    TypeOK /\ ReadInv /\ [Next]_vars => [DR!RNext]_(DR!readVars)
<1> SUFFICES ASSUME TypeOK, ReadInv, [Next]_vars
             PROVE  DR!RNext \/ UNCHANGED DR!readVars
    OBVIOUS
<1>1. CASE GetDocument
  <2>1. DR!RAsk
      BY <1>1 DEF GetDocument, DR!RAsk, onlineVars
  <2> QED
      BY <2>1 DEF DR!RNext
<1>2. ASSUME NEW g \in Gets, AddQueryListener(g)
      PROVE  DR!RNext \/ UNCHANGED DR!readVars
  <2>1. UNCHANGED <<asked, answers, doubted>>
      BY <1>2 DEF AddQueryListener
  <2>2. online' = online \/ online' # "Offline"
      BY <1>2 DEF AddQueryListener, Listen, HandleWatchStreamStart, onlineVars
  <2> QED
      BY <2>1, <2>2, QuietPromise
<1>3. ASSUME NEW g \in Gets, RemoveQueryListener(g)
      PROVE  DR!RNext \/ UNCHANGED DR!readVars
  <2>1. UNCHANGED <<asked, answers, doubted>>
      BY <1>3 DEF RemoveQueryListener
  <2>2. online' = online \/ online' # "Offline"
      BY <1>3 DEF RemoveQueryListener, StopListening, UpdateState, onlineVars
  <2> QED
      BY <2>1, <2>2, QuietPromise
<1>4. ASSUME NEW g \in Gets, OnEvent(g)
      PROVE  DR!RNext \/ UNCHANGED DR!readVars
    BY <1>4, EventPromise
<1>5. CASE StreamCloses
  <2>1. UNCHANGED <<asked, answers>>
      BY <1>5 DEF StreamCloses
  <2>2. \/ Broadcast("Offline")
        \/ UNCHANGED doubted /\ (online' = online \/ online' # "Offline")
      BY <1>5 DEF StreamCloses, HandleWatchStreamFailure, HandleWatchStreamStart, UpdateState
  <2> QED
      BY <2>1, <2>2, BroadcastPromise, QuietPromise
<1>6. CASE OnlineStateTimeout
    BY <1>6, BroadcastPromise DEF OnlineStateTimeout
<1>7. ASSUME NEW d \in Docs, OnWatchStreamChange(d)
      PROVE  DR!RNext \/ UNCHANGED DR!readVars
  <2>1. UNCHANGED <<asked, answers, doubted>> /\ online' = "Online"
      BY <1>7 DEF OnWatchStreamChange, UpdateState
  <2> QED
      BY <2>1, QuietPromise
<1>8. CASE \/ StreamOpens \/ BackoffElapses \/ IdleTimeout \/ RestartNetwork
           \/ \E d \in Docs : ServerWrites(d) \/ ServerAnswers(d) \/ ServerShows(d)
           \/ UNCHANGED vars
  <2>1. UNCHANGED <<appVars, doubted>>
      BY <1>8 DEF StreamOpens, BackoffElapses, IdleTimeout, RestartNetwork,
         ServerWrites, ServerAnswers, ServerShows, vars
  <2>2. online' = online \/ online' # "Offline"
      BY <1>8 DEF StreamOpens, BackoffElapses, IdleTimeout, RestartNetwork, UpdateState,
         ServerWrites, ServerAnswers, ServerShows, vars, onlineVars
  <2> QED
      BY <2>1, <2>2, QuietPromise DEF appVars
<1> QED
    BY <1>1, <1>2, <1>3, <1>4, <1>5, <1>6, <1>7, <1>8 DEF Next, StreamFails, StreamDrops

\* The read path implements DocumentReads: through failures, time-outs, denials
\* and late messages each read is answered once, and with what the server did
\* not say only if the client believed itself offline while the read waited.
THEOREM ImplementsReads == Spec => KeepsReads
<1>1. Init => DR!RInit
    BY DEF Init, DR!RInit, DR!Gets, Gets
<1> QED
    BY <1>1, StepKeepsReads, TypeCorrect, ReadInvHolds, PTL
    DEF Spec, KeepsReads, DR!RSpec

-----------------------------------------------------------------------------
(***************************************************************************)
(* Old messages and new listens.                                           *)
(***************************************************************************)
AckPlaces(q) == {i \in 1..Len(q) : q[i].kind # "shown"}

\* The acknowledgements and denials among the messages q.
Acks(q) == Cardinality(AckPlaces(q))

\* Nothing is on its way but on an open stream.
WireInv ==
    stream # "Open" => /\ requests = Quiet /\ changes = Quiet
                       /\ watched = [d \in Docs |-> "no"]

\* The acknowledgements due are those on their way or to be asked for.
Counted(d) == pending[d] = Len(requests[d]) + Acks(changes[d])

\* A message that shows the document is followed by an acknowledgement, or is
\* as new as any listener that started the listen.
OldOrFollowed(d) ==
    \A i \in 1..Len(changes[d]) :
        \/ changes[d][i].kind # "shown"
        \/ requests[d] # <<>>
        \/ \E j \in AckPlaces(changes[d]) : j > i
        \/ \A g \in listeners[d] \ shared : changes[d][i].v >= floor[g]

\* A synced view is as new as its listeners.
SyncedFresh(d) ==
    views[d] = "synced" => \A g \in listeners[d] \ shared : cache[d] >= floor[g]

\* What a read hears of the server is not older than the read.
AllFresh(q, v) == \A i \in 1..Len(q) : q[i].kind = "server" => q[i].v >= v

ReadFresh(g) ==
    g \notin shared => AllFresh(events[g], floor[g]) /\ AllFresh(answers[g], floor[g])

Past(g) == floor[g] <= server[docOf[g]]

FreshInv ==
    /\ \A d \in Docs : Counted(d) /\ OldOrFollowed(d) /\ SyncedFresh(d)
    /\ \A g \in Gets : ReadFresh(g)

FreshAll == WireInv /\ (\A g \in Gets : Past(g)) /\ (~crossed => FreshInv)

LEMMA AcksType ==
    ASSUME NEW q \in Seq(Messages)
    PROVE  IsFiniteSet(AckPlaces(q)) /\ Acks(q) \in Nat /\ (Acks(q) = 0 <=> AckPlaces(q) = {})
<1>1. IsFiniteSet(1..Len(q))
    BY FS_Interval
<1>2. IsFiniteSet(AckPlaces(q))
    BY <1>1, FS_Subset DEF AckPlaces
<1> QED
    BY <1>2, FS_CardinalityType, FS_EmptySet DEF Acks

LEMMA AcksNone == Acks(<<>>) = 0
<1>1. AckPlaces(<<>>) = {}
    BY DEF AckPlaces
<1> QED
    BY <1>1, FS_EmptySet DEF Acks

LEMMA AcksAppend ==
    ASSUME NEW q \in Seq(Messages), NEW m \in Messages
    PROVE  /\ AckPlaces(Append(q, m)) = AckPlaces(q) \cup (IF m.kind = "shown" THEN {} ELSE {Len(q) + 1})
           /\ Acks(Append(q, m)) = IF m.kind = "shown" THEN Acks(q) ELSE Acks(q) + 1
<1>1. /\ Len(q) \in Nat /\ Len(Append(q, m)) = Len(q) + 1
      /\ \A i \in 1..Len(q) : Append(q, m)[i] = q[i]
      /\ Append(q, m)[Len(q) + 1] = m
    BY AppendPlaces
<1>2. AckPlaces(Append(q, m)) = AckPlaces(q) \cup (IF m.kind = "shown" THEN {} ELSE {Len(q) + 1})
    BY <1>1 DEF AckPlaces
<1>3. Len(q) + 1 \notin AckPlaces(q)
    BY <1>1 DEF AckPlaces
<1>4. m.kind # "shown" => Acks(Append(q, m)) = Acks(q) + 1
    BY <1>2, <1>3, AcksType, FS_AddElement DEF Acks
<1>5. m.kind = "shown" => Acks(Append(q, m)) = Acks(q)
    BY <1>2 DEF Acks
<1> QED
    BY <1>2, <1>4, <1>5

LEMMA AcksTail ==
    ASSUME NEW q \in Seq(Messages), q # <<>>
    PROVE  Acks(Tail(q)) = IF Head(q).kind = "shown" THEN Acks(q) ELSE Acks(q) - 1
<1> DEFINE S == AckPlaces(q) \ {1}
           T == AckPlaces(Tail(q))
           f == [i \in S |-> i - 1]
<1>1. /\ Len(q) \in Nat /\ Len(Tail(q)) = Len(q) - 1
      /\ 1 \in 1..Len(q) /\ Head(q) = q[1]
      /\ \A i \in 1..Len(Tail(q)) : i + 1 \in 1..Len(q) /\ Tail(q)[i] = q[i + 1]
    BY TailPlaces
<1>2. f \in Bijection(S, T)
  <2>1. f \in [S -> T]
    <3> SUFFICES ASSUME NEW i \in S PROVE i - 1 \in T
        OBVIOUS
    <3>1. i \in 1..Len(q) /\ i # 1 /\ q[i].kind # "shown"
        BY DEF AckPlaces
    <3>2. i - 1 \in 1..Len(Tail(q)) /\ (i - 1) + 1 = i
        BY <1>1, <3>1
    <3>3. Tail(q)[i - 1] = q[i]
        BY <1>1, <3>2
    <3> QED
        BY <3>1, <3>2, <3>3 DEF AckPlaces
  <2>2. ASSUME NEW i \in S, NEW j \in S, f[i] = f[j] PROVE i = j
    <3>1. i \in Nat /\ j \in Nat /\ i - 1 = j - 1
        BY <2>2 DEF AckPlaces
    <3> QED
        BY <3>1
  <2>3. ASSUME NEW j \in T PROVE \E i \in S : f[i] = j
    <3>1. j \in 1..Len(Tail(q)) /\ Tail(q)[j].kind # "shown"
        BY DEF AckPlaces
    <3>2. j + 1 \in 1..Len(q) /\ Tail(q)[j] = q[j + 1]
        BY <1>1, <3>1
    <3>3. j + 1 \in S /\ f[j + 1] = j
        BY <1>1, <3>1, <3>2 DEF AckPlaces
    <3> QED
        BY <3>3
  <2>4. IsInjective(f)
      BY <2>2 DEF IsInjective
  <2> HIDE DEF f
  <2> QED
      BY <2>1, <2>3, <2>4 DEF Bijection, Injection, Surjection
<1>3. IsFiniteSet(AckPlaces(q)) /\ Acks(q) \in Nat
    BY AcksType
<1>4. /\ IsFiniteSet(S)
      /\ Cardinality(S) = IF 1 \in AckPlaces(q) THEN Acks(q) - 1 ELSE Acks(q)
    BY <1>3, FS_RemoveElement DEF Acks
<1>5. 1 \in AckPlaces(q) <=> Head(q).kind # "shown"
    BY <1>1 DEF AckPlaces
<1>6. ExistsBijection(S, T)
    BY <1>2 DEF ExistsBijection
<1>7. Cardinality(T) = Cardinality(S)
    BY <1>4, <1>6, FS_Bijection
<1> QED
    BY <1>4, <1>5, <1>7 DEF Acks

LEMMA AllFreshAppend ==
    ASSUME NEW q \in Seq(Answers), NEW a \in Answers, NEW v, AllFresh(q, v),
           a.kind = "server" => a.v >= v
    PROVE  AllFresh(Append(q, a), v)
BY AppendPlaces DEF AllFresh

LEMMA AllFreshTail ==
    ASSUME NEW q \in Seq(Answers), q # <<>>, NEW v, AllFresh(q, v)
    PROVE  AllFresh(Tail(q), v) /\ (Head(q).kind = "server" => Head(q).v >= v)
BY TailPlaces DEF AllFresh

LEMMA Amounts ==
    ASSUME TypeOK
    PROVE  /\ \A g \in Gets : floor[g] \in Nat
           /\ \A d \in Docs : /\ cache[d] \in Nat /\ server[d] \in Nat
                              /\ pending[d] \in Int
                              /\ requests[d] \in Seq({"watch", "unwatch"})
                              /\ Len(requests[d]) \in Nat
                              /\ changes[d] \in Seq(Messages)
                              /\ Len(changes[d]) \in Nat
                              /\ Acks(changes[d]) \in Nat
                              /\ \A i \in 1..Len(changes[d]) : changes[d][i].v \in Nat
<1>1. /\ \A g \in Gets : floor[g] \in Nat
      /\ \A d \in Docs : cache[d] \in Nat /\ server[d] \in Nat /\ pending[d] \in Int
    BY VersionsType DEF TypeOK
<1>2. ASSUME NEW d \in Docs
      PROVE  /\ requests[d] \in Seq({"watch", "unwatch"}) /\ changes[d] \in Seq(Messages)
    BY DEF TypeOK
<1>3. ASSUME NEW S, NEW q \in Seq(S)
      PROVE  Len(q) \in Nat /\ \A i \in 1..Len(q) : q[i] \in S
    OBVIOUS
<1>4. \A m \in Messages : m.v \in Nat
    BY VersionsType DEF Messages
<1>5. ASSUME NEW d \in Docs
      PROVE  /\ Len(requests[d]) \in Nat /\ Len(changes[d]) \in Nat
             /\ \A i \in 1..Len(changes[d]) : changes[d][i].v \in Nat
    BY <1>2, <1>3, <1>4
<1>6. ASSUME NEW d \in Docs
      PROVE  Acks(changes[d]) \in Nat
    BY <1>2, AcksType
<1> QED
    BY <1>1, <1>2, <1>5, <1>6

\* The messages of a document that a step leaves alone.
LEMMA SameWire ==
    ASSUME TypeOK, TypeOK', NEW d \in Docs, Counted(d), OldOrFollowed(d),
           requests'[d] = requests[d], changes'[d] = changes[d], pending'[d] = pending[d],
           \A g \in listeners'[d] \ shared' :
               g \in listeners[d] \ shared /\ floor'[g] = floor[g]
    PROVE  Counted(d)' /\ OldOrFollowed(d)'
<1>1. Counted(d)'
    BY DEF Counted
<1>2. OldOrFollowed(d)'
    BY Zenon DEF OldOrFollowed
<1> QED
    BY <1>1, <1>2

LEMMA ClosedWire ==
    ASSUME Closed, NEW d \in Docs
    PROVE  Counted(d)' /\ OldOrFollowed(d)'
<1>1. requests'[d] = <<>> /\ changes'[d] = <<>> /\ pending'[d] = 0
    BY DEF Closed, Quiet
<1>2. Counted(d)'
    BY <1>1, AcksNone DEF Counted
<1>3. OldOrFollowed(d)'
    BY <1>1 DEF OldOrFollowed
<1> QED
    BY <1>2, <1>3

\* A request is sent: nothing that shows the document counts before its
\* acknowledgement.
LEMMA SentWire ==
    ASSUME TypeOK, NEW d \in Docs, Counted(d), NEW r \in {"watch", "unwatch"}, Send(d, r),
           UNCHANGED changes
    PROVE  Counted(d)' /\ OldOrFollowed(d)'
<1>1. requests'[d] = Append(requests[d], r) /\ pending'[d] = pending[d] + 1
  <2>1. /\ requests' = [requests EXCEPT ![d] = Append(@, r)]
        /\ pending' = [pending EXCEPT ![d] = @ + 1]
      BY DEF Send
  <2>2. d \in DOMAIN requests /\ d \in DOMAIN pending
      BY DEF TypeOK
  <2> QED
      BY <2>1, <2>2
<1>2. Len(requests'[d]) = Len(requests[d]) + 1 /\ requests'[d] # <<>>
  <2>1. requests[d] \in Seq({"watch", "unwatch"})
      BY Amounts
  <2>2. ASSUME NEW S, NEW q \in Seq(S), NEW x \in S
        PROVE  Len(Append(q, x)) = Len(q) + 1 /\ Append(q, x) # <<>>
      OBVIOUS
  <2> QED
      BY <1>1, <2>1, <2>2
<1>3. Counted(d)'
  <2>1. Len(requests[d]) \in Nat /\ Acks(changes[d]) \in Nat
      BY Amounts
  <2>2. pending[d] + 1 = (Len(requests[d]) + 1) + Acks(changes[d])
      BY <2>1 DEF Counted
  <2> QED
      BY <1>1, <1>2, <2>2 DEF Counted
<1>4. OldOrFollowed(d)'
    BY <1>2 DEF OldOrFollowed
<1> QED
    BY <1>3, <1>4

\* What listeners are told of synced views is fresh.
LEMMA ToldFresh ==
    ASSUME TypeOK, TypeOK', TablesAgree', NEW news, Tell(news), UNCHANGED <<docOf, answers, floor>>,
           shared \subseteq shared', \A d \in Docs : SyncedFresh(d)',
           NEW g \in Gets, ReadFresh(g)
    PROVE  ReadFresh(g)'
<1> SUFFICES ASSUME g \notin shared' PROVE AllFresh(events'[g], floor[g])
    BY DEF ReadFresh
<1>1. AllFresh(events[g], floor[g])
    BY DEF ReadFresh
<1> DEFINE s == Snapshot(views'[docOf[g]], cache'[docOf[g]])
<1>2. events'[g] = IF g \in Due(news) THEN Append(events[g], s) ELSE events[g]
    BY TellIs
<1>3. CASE g \notin Due(news)
    BY <1>1, <1>2, <1>3
<1>4. CASE g \in Due(news)
  <2>1. g \in listeners'[docOf[g]] /\ docOf[g] \in Docs /\ cache'[docOf[g]] \in Versions
    <3>1. PICK d \in Docs : g \in listeners'[d]
        BY <1>4 DEF Due
    <3>2. docOf[g] = d
        BY <3>1 DEF TablesAgree
    <3> QED
        BY <3>1, <3>2 DEF TypeOK
  <2>2. s \in Answers /\ s.v = cache'[docOf[g]]
        /\ (s.kind = "server" => views'[docOf[g]] = "synced")
      BY <2>1, SnapshotType DEF Snapshot
  <2>3. s.kind = "server" => s.v >= floor[g]
      BY <2>1, <2>2 DEF SyncedFresh
  <2> HIDE DEF s
  <2>4. events[g] \in Seq(Answers)
      BY Sequences
  <2> QED
      BY <1>1, <1>2, <1>4, <2>2, <2>3, <2>4, AllFreshAppend
<1> QED
    BY <1>3, <1>4

LEMMA InitFresh == Init => FreshAll
<1> SUFFICES ASSUME Init PROVE FreshAll
    OBVIOUS
<1>1. WireInv
    BY DEF Init, WireInv
<1>2. ASSUME NEW g \in Gets PROVE Past(g) /\ ReadFresh(g)
  <2>1. events[g] = <<>> /\ answers[g] = <<>> /\ floor[g] = 0 /\ docOf[g] \in Docs
      BY DEF Init
  <2>2. server[docOf[g]] = 0
      BY <2>1 DEF Init
  <2>3. AllFresh(<<>>, 0)
      BY DEF AllFresh
  <2> QED
      BY <2>1, <2>2, <2>3 DEF Past, ReadFresh
<1>3. ASSUME NEW d \in Docs PROVE Counted(d) /\ OldOrFollowed(d) /\ SyncedFresh(d)
  <2>1. /\ requests[d] = <<>> /\ changes[d] = <<>> /\ pending[d] = 0 /\ views[d] = "none"
      BY DEF Init, Quiet
  <2> QED
      BY <2>1, AcksNone DEF Counted, OldOrFollowed, SyncedFresh
<1> QED
    BY <1>1, <1>2, <1>3 DEF FreshAll, FreshInv

\* Nothing is on its way but on an open stream, and the server never falls
\* behind the reads.
LEMMA NextWire == TypeOK /\ WireInv /\ [Next]_vars => WireInv'
<1> SUFFICES ASSUME TypeOK, WireInv, [Next]_vars PROVE WireInv'
    OBVIOUS
<1>1. CASE /\ UNCHANGED <<requests, changes, watched>>
           /\ stream' # "Open" => stream # "Open"
    BY <1>1 DEF WireInv
<1>2. CASE Closed
    BY <1>2 DEF Closed, WireInv
<1>3. CASE stream' = "Open"
    BY <1>3 DEF WireInv
<1>4. ASSUME NEW g \in Gets, AddQueryListener(g) \/ RemoveQueryListener(g)
      PROVE  WireInv'
  <2>1. Listen(docOf[g]) \/ StopListening(docOf[g]) \/ UNCHANGED <<streamVars, wireVars>>
      BY <1>4 DEF AddQueryListener, RemoveQueryListener
  <2>2. \/ stream' = "Open"
        \/ /\ UNCHANGED <<requests, changes, watched>> /\ stream # "Open"
        \/ UNCHANGED <<stream, requests, changes, watched>>
    <3>1. Listen(docOf[g]) => \/ stream' = "Open"
                              \/ UNCHANGED <<requests, changes, watched>> /\ stream # "Open"
        BY DEF Listen, wireVars, Started
    <3>2. StopListening(docOf[g]) => \/ stream' = "Open"
                                     \/ UNCHANGED <<requests, changes, watched>> /\ stream # "Open"
        BY DEF StopListening, wireVars
    <3> QED
        BY <2>1, <3>1, <3>2 DEF streamVars, wireVars
  <2> QED
      BY <2>2 DEF WireInv
<1>5. CASE \/ GetDocument \/ (\E g \in Gets : OnEvent(g)) \/ OnlineStateTimeout
           \/ (\E d \in Docs : ServerWrites(d)) \/ UNCHANGED vars
  <2>1. UNCHANGED <<stream, requests, changes, watched>>
      BY <1>5 DEF GetDocument, OnEvent, OnlineStateTimeout, ServerWrites, vars, streamVars, wireVars
  <2> QED
      BY <1>1, <2>1
<1>6. CASE StreamOpens
    BY <1>3, <1>6 DEF StreamOpens
<1>7. CASE StreamCloses \/ IdleTimeout \/ RestartNetwork
    BY <1>2, <1>7 DEF StreamCloses, IdleTimeout, RestartNetwork
<1>8. CASE BackoffElapses
    BY <1>1, <1>8 DEF BackoffElapses, wireVars
<1>9. ASSUME NEW d \in Docs, ServerAnswers(d) \/ ServerShows(d) \/ OnWatchStreamChange(d)
      PROVE  WireInv'
  <2>1. requests[d] # <<>> \/ changes[d] # <<>> \/ watched[d] # "no"
      BY <1>9 DEF ServerAnswers, ServerShows, OnWatchStreamChange
  <2>2. stream = "Open"
      BY <2>1 DEF WireInv, Quiet
  <2>3. stream' = stream
      BY <1>9 DEF ServerAnswers, ServerShows, OnWatchStreamChange, streamVars
  <2> QED
      BY <1>3, <2>2, <2>3
<1> QED
    BY <1>4, <1>5, <1>6, <1>7, <1>8, <1>9 DEF Next, StreamFails, StreamDrops

LEMMA NextPast ==
    ASSUME TypeOK, TypeOK', \A g \in Gets : Past(g), [Next]_vars, NEW g \in Gets
    PROVE  Past(g)'
<1>1. docOf' = docOf /\ docOf[g] \in Docs
  <2>1. docOf' = docOf
    <3>1. UNCHANGED appVars => UNCHANGED docOf
        BY DEF appVars
    <3> QED
        BY <3>1 DEF Next, vars, GetDocument, AddQueryListener, RemoveQueryListener, OnEvent,
           StreamOpens, StreamFails, StreamDrops, StreamCloses, BackoffElapses, IdleTimeout,
           RestartNetwork, OnlineStateTimeout, ServerWrites, ServerAnswers, ServerShows,
           OnWatchStreamChange
  <2> QED
      BY <2>1 DEF TypeOK
<1>2. CASE GetDocument
  <2>1. asked' \in Gets /\ UNCHANGED server /\ asked' = asked + 1
      BY <1>2, BoundsAssumption DEF GetDocument, TypeOK, Gets
  <2>2. floor' = [floor EXCEPT ![asked'] = server[docOf[asked']]]
      BY <1>2 DEF GetDocument
  <2>3. CASE g = asked'
    <3>1. floor'[g] = server[docOf[g]]
        BY <1>1, <2>1, <2>2, <2>3 DEF TypeOK
    <3> QED
        BY <1>1, <2>1, <3>1, Amounts DEF Past
  <2>4. CASE g # asked'
    <3>1. floor'[g] = floor[g]
        BY <2>2, <2>4 DEF TypeOK
    <3> QED
        BY <1>1, <2>1, <3>1 DEF Past
  <2> QED
      BY <2>3, <2>4
<1>3. ASSUME NEW d \in Docs, ServerWrites(d)
      PROVE  Past(g)'
  <2>1. server' = [server EXCEPT ![d] = @ + 1] /\ UNCHANGED floor
      BY <1>3 DEF ServerWrites
  <2>2. server'[docOf[g]] >= server[docOf[g]]
    <3>1. server[docOf[g]] \in Nat
        BY <1>1, Amounts
    <3>2. server'[docOf[g]] = IF docOf[g] = d THEN server[docOf[g]] + 1 ELSE server[docOf[g]]
        BY <1>1, <2>1 DEF TypeOK
    <3> QED
        BY <3>1, <3>2
  <2>3. floor[g] \in Nat /\ server[docOf[g]] \in Nat /\ server'[docOf[g]] \in Nat
      BY <1>1, Amounts, VersionsType DEF TypeOK
  <2> QED
      BY <1>1, <2>1, <2>2, <2>3 DEF Past
<1>4. CASE ~GetDocument /\ ~ \E d \in Docs : ServerWrites(d)
  <2>1. UNCHANGED <<floor, server>>
      BY <1>4 DEF Next, vars, AddQueryListener, RemoveQueryListener, OnEvent,
         StreamOpens, StreamFails, StreamDrops, StreamCloses, BackoffElapses, IdleTimeout,
         RestartNetwork, OnlineStateTimeout, ServerAnswers, ServerShows, OnWatchStreamChange
  <2> QED
      BY <1>1, <2>1 DEF Past
<1> QED
    BY <1>2, <1>3, <1>4

\* A step of the app: GetDocument and OnEvent.
LEMMA AppFresh ==
    ASSUME TypeOK, TypeOK', ReadInv, FreshInv,
           GetDocument \/ \E h \in Gets : OnEvent(h)
    PROVE  FreshInv'
<1>1. UNCHANGED <<listeners, views, cache, requests, changes, pending, shared>>
    BY DEF GetDocument, OnEvent, listenVars, streamVars, wireVars
<1>2. ASSUME NEW g \in Gets, \E d \in Docs : g \in listeners[d]
      PROVE  floor'[g] = floor[g]
  <2>1. CASE GetDocument
    <3>1. asked' = asked + 1 /\ asked' \in Gets /\ floor' = [floor EXCEPT ![asked'] = server[docOf[asked']]]
        BY <2>1, BoundsAssumption DEF GetDocument, TypeOK, Gets
    <3>2. Untouched(asked')
        BY <3>1, Sequences DEF ReadInv, Fate, AskedFirst
    <3>3. g # asked'
        BY <1>2, <3>2 DEF Untouched, Deaf
    <3> QED
        BY <3>1, <3>3 DEF TypeOK
  <2>2. CASE UNCHANGED floor
      BY <2>2
  <2> QED
      BY <2>1, <2>2 DEF OnEvent
<1>3. ASSUME NEW d \in Docs
      PROVE  Counted(d)' /\ OldOrFollowed(d)' /\ SyncedFresh(d)'
  <2>1. \A g \in listeners[d] : g \in Gets /\ floor'[g] = floor[g]
      BY <1>2 DEF TypeOK
  <2>2. Counted(d)' /\ OldOrFollowed(d)'
      BY <1>1, <2>1, SameWire DEF FreshInv
  <2>3. SyncedFresh(d)'
      BY <1>1, <2>1 DEF FreshInv, SyncedFresh
  <2> QED
      BY <2>2, <2>3
<1>4. ASSUME NEW g \in Gets
      PROVE  ReadFresh(g)'
  <2> SUFFICES ASSUME g \notin shared
               PROVE  AllFresh(events'[g], floor'[g]) /\ AllFresh(answers'[g], floor'[g])
      BY <1>1 DEF ReadFresh
  <2>0. /\ AllFresh(events[g], floor[g]) /\ AllFresh(answers[g], floor[g])
        /\ events[g] \in Seq(Answers) /\ answers[g] \in Seq(Answers)
      BY Sequences DEF FreshInv, ReadFresh
  <2>1. CASE GetDocument
    <3>1. asked' = asked + 1 /\ asked' \in Gets /\ UNCHANGED <<events, answers>>
          /\ floor' = [floor EXCEPT ![asked'] = server[docOf[asked']]]
        BY <2>1, BoundsAssumption DEF GetDocument, TypeOK, Gets
    <3>2. CASE g = asked'
      <4>1. events[g] = <<>> /\ answers[g] = <<>>
          BY <3>1, <3>2, Sequences DEF ReadInv, Fate, AskedFirst, Untouched
      <4>2. \A v : AllFresh(<<>>, v)
          BY DEF AllFresh
      <4> QED
          BY <3>1, <4>1, <4>2
    <3>3. CASE g # asked'
      <4>1. floor'[g] = floor[g]
          BY <3>1, <3>3 DEF TypeOK
      <4> QED
          BY <2>0, <3>1, <4>1
    <3> QED
        BY <3>2, <3>3
  <2>2. ASSUME NEW h \in Gets, OnEvent(h)
        PROVE  AllFresh(events'[g], floor'[g]) /\ AllFresh(answers'[g], floor'[g])
    <3>1. /\ events[h] # <<>> /\ events' = [events EXCEPT ![h] = Tail(@)] /\ UNCHANGED floor
          /\ \/ UNCHANGED answers
             \/ answers' = [answers EXCEPT ![h] = Append(@, Head(events[h]))]
        BY <2>2 DEF OnEvent
    <3>2. CASE g # h
      <4>1. events'[g] = events[g] /\ answers'[g] = answers[g]
          BY <3>1, <3>2 DEF TypeOK
      <4> QED
          BY <2>0, <3>1, <4>1
    <3>3. CASE g = h
      <4> DEFINE e == Head(events[g])
      <4>1. /\ events'[g] = Tail(events[g])
            /\ answers'[g] = answers[g] \/ answers'[g] = Append(answers[g], e)
          BY <3>1, <3>3 DEF TypeOK
      <4>2. /\ AllFresh(Tail(events[g]), floor[g]) /\ e \in Answers
            /\ e.kind = "server" => e.v >= floor[g]
          BY <2>0, <3>1, <3>3, AllFreshTail, TailAt DEF TypeOK
      <4> HIDE DEF e
      <4>3. AllFresh(Append(answers[g], e), floor[g])
          BY <2>0, <4>2, AllFreshAppend
      <4> QED
          BY <2>0, <3>1, <4>1, <4>2, <4>3
    <3> QED
        BY <3>2, <3>3
  <2> QED
      BY <2>1, <2>2
<1> QED
    BY <1>3, <1>4 DEF FreshInv

LEMMA AddFresh ==
    ASSUME TypeOK, TypeOK', TablesAgree', WireInv, FreshInv,
           NEW h \in Gets, AddQueryListener(h)
    PROVE  FreshInv'
<1> DEFINE d == docOf[h]
<1>0. d \in Docs
    BY DEF TypeOK
<1>1. /\ listeners' = [listeners EXCEPT ![d] = @ \cup {h}] /\ Tell({})
      /\ UNCHANGED <<docOf, answers, floor, cache>>
    BY DEF AddQueryListener
<1>2. shared \subseteq shared' /\ (listeners[d] # {} => h \in shared')
    BY DEF AddQueryListener
<1>3. ASSUME NEW e \in Docs, listeners[d] # {} \/ e # d
      PROVE  \A g \in listeners'[e] \ shared' : g \in listeners[e] \ shared /\ floor'[g] = floor[g]
    BY <1>0, <1>1, <1>2, <1>3 DEF TypeOK
<1>4. ASSUME NEW e \in Docs
      PROVE  SyncedFresh(e)'
  <2>1. CASE e = d /\ listeners[d] = {}
    <3>1. views' = [views EXCEPT ![d] = "local"]
        BY <2>1 DEF AddQueryListener, Listen
    <3>2. views'[e] = "local"
        BY <1>0, <2>1, <3>1 DEF TypeOK
    <3> QED
        BY <3>2 DEF SyncedFresh
  <2>2. CASE listeners[d] # {} \/ e # d
    <3>1. views'[e] = views[e]
        BY <1>0, <2>2 DEF AddQueryListener, Listen, TypeOK
    <3> QED
        BY <1>1, <1>3, <2>2, <3>1 DEF FreshInv, SyncedFresh
  <2> QED
      BY <2>1, <2>2
<1>5. ASSUME NEW e \in Docs
      PROVE  Counted(e)' /\ OldOrFollowed(e)'
  <2>1. Counted(e) /\ OldOrFollowed(e)
      BY DEF FreshInv
  <2>2. CASE listeners[d] # {}
      BY <1>3, <2>1, <2>2, SameWire DEF AddQueryListener, streamVars, wireVars
  <2>3. CASE listeners[d] = {} /\ stream = "Open"
    <3>1. Send(d, "watch") /\ UNCHANGED changes
        BY <2>3 DEF AddQueryListener, Listen, Started
    <3>2. CASE e = d
        BY <1>0, <2>1, <3>1, <3>2, SentWire
    <3>3. CASE e # d
      <4>1. requests'[e] = requests[e] /\ pending'[e] = pending[e]
          BY <3>1, <3>3 DEF Send, TypeOK
      <4> QED
          BY <1>3, <2>1, <3>1, <3>3, <4>1, SameWire
    <3> QED
        BY <3>2, <3>3
  <2>4. CASE listeners[d] = {} /\ stream # "Open"
    <3>1. UNCHANGED <<requests, changes, pending>>
        BY <2>4 DEF AddQueryListener, Listen, wireVars
    <3>2. changes[e] = <<>>
        BY <2>4 DEF WireInv, Quiet
    <3>3. Counted(e)'
        BY <2>1, <3>1 DEF Counted
    <3>4. OldOrFollowed(e)'
        BY <3>1, <3>2 DEF OldOrFollowed
    <3> QED
        BY <3>3, <3>4
  <2> QED
      BY <2>2, <2>3, <2>4
<1>6. ASSUME NEW g \in Gets
      PROVE  ReadFresh(g)'
  <2>1. ReadFresh(g)
      BY DEF FreshInv
  <2> QED
      BY <1>1, <1>2, <1>4, <2>1, ToldFresh
<1> QED
    BY <1>4, <1>5, <1>6 DEF FreshInv

LEMMA RemoveFresh ==
    ASSUME TypeOK, TypeOK', FreshInv, NEW h \in Gets, RemoveQueryListener(h)
    PROVE  FreshInv'
<1> DEFINE d == docOf[h]
<1>0. d \in Docs
    BY DEF TypeOK
<1>1. /\ listeners' = [listeners EXCEPT ![d] = @ \ {h}]
      /\ UNCHANGED <<docOf, events, answers, floor, cache, shared>>
    BY DEF RemoveQueryListener
<1>2. ASSUME NEW e \in Docs
      PROVE  \A g \in listeners'[e] \ shared' : g \in listeners[e] \ shared /\ floor'[g] = floor[g]
    BY <1>0, <1>1 DEF TypeOK
<1>3. ASSUME NEW e \in Docs
      PROVE  SyncedFresh(e)'
  <2>1. views' = [views EXCEPT ![d] = "none"] \/ UNCHANGED views
      BY DEF RemoveQueryListener, StopListening
  <2>2. views'[e] = "synced" => views[e] = "synced"
      BY <2>1 DEF TypeOK
  <2> QED
      BY <1>1, <1>2, <2>2 DEF FreshInv, SyncedFresh
<1>4. ASSUME NEW e \in Docs
      PROVE  Counted(e)' /\ OldOrFollowed(e)'
  <2>1. Counted(e) /\ OldOrFollowed(e)
      BY DEF FreshInv
  <2>2. UNCHANGED changes
      BY DEF RemoveQueryListener, StopListening, wireVars
  <2>3. Send(d, "unwatch") \/ UNCHANGED <<requests, pending>>
      BY DEF RemoveQueryListener, StopListening, streamVars, wireVars
  <2>4. CASE Send(d, "unwatch") /\ e = d
      BY <1>0, <2>1, <2>2, <2>4, SentWire
  <2>5. CASE UNCHANGED <<requests, pending>> \/ (Send(d, "unwatch") /\ e # d)
    <3>1. requests'[e] = requests[e] /\ pending'[e] = pending[e]
        BY <2>5 DEF Send, TypeOK
    <3> QED
        BY <1>2, <2>1, <2>2, <3>1, SameWire
  <2> QED
      BY <2>3, <2>4, <2>5
<1>5. ASSUME NEW g \in Gets
      PROVE  ReadFresh(g)'
    BY <1>1 DEF FreshInv, ReadFresh
<1> QED
    BY <1>3, <1>4, <1>5 DEF FreshInv

\* A step of the connection: the views stay or are told to be out of sync.
LEMMA BroadcastFresh ==
    ASSUME TypeOK, TypeOK', TablesAgree', FreshInv,
           UNCHANGED <<docOf, answers, floor, shared>>,
           UNCHANGED <<listenVars, events>> \/ Broadcast("Offline"),
           Closed \/ UNCHANGED <<requests, changes, pending>>
    PROVE  FreshInv'
<1>1. UNCHANGED <<listeners, cache>>
    BY DEF Broadcast, listenVars
<1>2. ASSUME NEW e \in Docs
      PROVE  SyncedFresh(e)'
  <2>1. views' = ViewsAt("Offline") \/ UNCHANGED views
      BY DEF Broadcast, listenVars
  <2>2. views'[e] = "synced" => views[e] = "synced"
      BY <2>1 DEF ViewsAt
  <2> QED
      BY <1>1, <2>2 DEF FreshInv, SyncedFresh
<1>3. ASSUME NEW e \in Docs
      PROVE  Counted(e)' /\ OldOrFollowed(e)'
  <2>1. CASE Closed
      BY <2>1, ClosedWire
  <2>2. CASE UNCHANGED <<requests, changes, pending>>
      BY <1>1, <2>2, SameWire DEF FreshInv
  <2> QED
      BY <2>1, <2>2
<1>4. ASSUME NEW g \in Gets
      PROVE  ReadFresh(g)'
  <2>1. ReadFresh(g)
      BY DEF FreshInv
  <2>2. CASE UNCHANGED <<listenVars, events>>
      BY <2>1, <2>2 DEF ReadFresh
  <2>3. CASE Broadcast("Offline")
      BY <1>2, <2>1, <2>3, ToldFresh DEF Broadcast
  <2> QED
      BY <2>2, <2>3
<1> QED
    BY <1>2, <1>3, <1>4 DEF FreshInv

LEMMA OpensFresh ==
    ASSUME TypeOK, TypeOK', WireInv, FreshInv, StreamOpens
    PROVE  FreshInv'
<1>1. /\ UNCHANGED <<listeners, views, cache, events, answers, changes, floor, shared>>
      /\ stream = "Starting"
    BY DEF StreamOpens, appVars, listenVars
<1>2. ASSUME NEW d \in Docs
      PROVE  Counted(d)' /\ OldOrFollowed(d)' /\ SyncedFresh(d)'
  <2>1. changes'[d] = <<>>
      BY <1>1 DEF WireInv, Quiet
  <2>2. /\ requests'[d] = IF d \in targets THEN <<"watch">> ELSE <<>>
        /\ pending'[d] = IF d \in targets THEN 1 ELSE 0
      BY DEF StreamOpens
  <2>3. Counted(d)'
    <3>1. Len(<<"watch">>) = 1 /\ Len(<<>>) = 0
        OBVIOUS
    <3> QED
        BY <2>1, <2>2, <3>1, AcksNone DEF Counted
  <2>4. OldOrFollowed(d)'
      BY <2>1 DEF OldOrFollowed
  <2>5. SyncedFresh(d)'
      BY <1>1 DEF FreshInv, SyncedFresh
  <2> QED
      BY <2>3, <2>4, <2>5
<1>3. ASSUME NEW g \in Gets
      PROVE  ReadFresh(g)'
    BY <1>1 DEF FreshInv, ReadFresh
<1> QED
    BY <1>2, <1>3 DEF FreshInv

\* A message m of the server about d, in answer to a request or as it likes.
LEMMA ServerFresh ==
    ASSUME TypeOK, TypeOK', TablesAgree, \A g \in Gets : Past(g), FreshInv,
           NEW d \in Docs, ServerAnswers(d) \/ ServerShows(d)
    PROVE  FreshInv'
<1>1. UNCHANGED <<listeners, views, cache, events, answers, pending, floor, shared>>
    BY DEF ServerAnswers, ServerShows, appVars, listenVars, streamVars
<1>2. PICK m \in Messages :
          /\ changes' = [changes EXCEPT ![d] = Append(@, m)]
          /\ \/ m.kind # "shown" /\ requests[d] # <<>>
                /\ requests' = [requests EXCEPT ![d] = Tail(@)]
             \/ m.kind = "shown" /\ m.v = server[d] /\ UNCHANGED requests
  <2>1. CASE ServerAnswers(d)
    <3>1. PICK kind \in {"added", "removed", "denied"} :
              changes' = [changes EXCEPT ![d] = Append(@, Message(kind))]
        BY <2>1 DEF ServerAnswers
    <3>2. Message(kind) \in Messages /\ Message(kind).kind # "shown"
        BY MessageType DEF Message
    <3> QED
        BY <2>1, <3>1, <3>2 DEF ServerAnswers
  <2>2. CASE ServerShows(d)
    <3>1. [kind |-> "shown", v |-> server[d]] \in Messages
        BY DEF TypeOK, Messages
    <3> QED
        BY <2>2, <3>1 DEF ServerShows
  <2> QED
      BY <2>1, <2>2
<1>3. ASSUME NEW e \in Docs
      PROVE  Counted(e)' /\ OldOrFollowed(e)'
  <2>1. Counted(e) /\ OldOrFollowed(e)
      BY DEF FreshInv
  <2>2. CASE e # d
    <3>1. changes'[e] = changes[e] /\ requests'[e] = requests[e]
        BY <1>2, <2>2 DEF TypeOK
    <3> QED
        BY <1>1, <2>1, <3>1, SameWire
  <2>3. CASE e = d
    <3> DEFINE q == changes[d]
    <3>1. /\ q \in Seq(Messages) /\ Len(q) \in Nat /\ Acks(q) \in Nat
          /\ requests[d] \in Seq({"watch", "unwatch"}) /\ Len(requests[d]) \in Nat
        BY Amounts
    <3>2. changes'[d] = Append(q, m)
        BY <1>2 DEF TypeOK
    <3>3. /\ Len(Append(q, m)) = Len(q) + 1
          /\ \A i \in 1..Len(q) : Append(q, m)[i] = q[i]
          /\ Append(q, m)[Len(q) + 1] = m
        BY <3>1, AppendPlaces
    <3>4. /\ AckPlaces(Append(q, m)) = AckPlaces(q) \cup (IF m.kind = "shown" THEN {} ELSE {Len(q) + 1})
          /\ Acks(Append(q, m)) = IF m.kind = "shown" THEN Acks(q) ELSE Acks(q) + 1
        BY <3>1, AcksAppend
    <3> HIDE DEF q
    <3>5. CASE m.kind # "shown" /\ requests[d] # <<>> /\ requests' = [requests EXCEPT ![d] = Tail(@)]
      <4>1. requests'[d] = Tail(requests[d])
          BY <3>5 DEF TypeOK
      <4>2. Len(requests'[d]) = Len(requests[d]) - 1
          BY <3>1, <3>5, <4>1, HeadTailProperties
      <4>3. pending'[d] = Len(requests'[d]) + Acks(changes'[d])
        <5>1. pending[d] = Len(requests[d]) + Acks(q)
            BY <2>1, <2>3 DEF Counted, q
        <5>2. Acks(changes'[d]) = Acks(q) + 1
            BY <3>2, <3>4, <3>5
        <5> QED
            BY <1>1, <3>1, <4>2, <5>1, <5>2
      <4>4. \A i \in 1..Len(changes'[d]) :
                \/ changes'[d][i].kind # "shown"
                \/ \E j \in AckPlaces(changes'[d]) : j > i
        <5>1. Len(q) + 1 \in AckPlaces(changes'[d])
            BY <3>2, <3>4, <3>5
        <5>2. changes'[d][Len(q) + 1].kind # "shown" /\ Len(changes'[d]) = Len(q) + 1
            BY <3>2, <3>3, <3>5
        <5>3. ASSUME NEW i \in 1..Len(q) PROVE Len(q) + 1 > i
            BY <3>1
        <5>4. 1..Len(changes'[d]) = 1..Len(q) \cup {Len(q) + 1}
            BY <3>1, <5>2
        <5> QED
            BY <5>1, <5>2, <5>3, <5>4
      <4>5. OldOrFollowed(d)'
          BY <4>4 DEF OldOrFollowed
      <4>6. Counted(d)'
          BY <4>3 DEF Counted
      <4> QED
          BY <2>3, <4>5, <4>6
    <3>6. CASE m.kind = "shown" /\ m.v = server[d] /\ UNCHANGED requests
      <4>1. Counted(d)'
        <5>1. Acks(changes'[d]) = Acks(q)
            BY <3>2, <3>4, <3>6
        <5> QED
            BY <1>1, <2>1, <2>3, <3>6, <5>1 DEF Counted, q
      <4>2. \A g \in listeners[d] \ shared : m.v >= floor[g]
        <5> SUFFICES ASSUME NEW g \in listeners[d] PROVE server[d] >= floor[g]
            BY <3>6
        <5>1. g \in Gets /\ docOf[g] = d
            BY DEF TypeOK, TablesAgree
        <5> QED
            BY <5>1, Amounts DEF Past
      <4>3. OldOrFollowed(d)'
        <5> SUFFICES ASSUME NEW i \in 1..Len(changes'[d])
                     PROVE  \/ changes'[d][i].kind # "shown"
                            \/ requests'[d] # <<>>
                            \/ \E j \in AckPlaces(changes'[d]) : j > i
                            \/ \A g \in listeners'[d] \ shared' : changes'[d][i].v >= floor'[g]
            BY DEF OldOrFollowed
        <5>1. CASE i = Len(q) + 1
            BY <1>1, <3>2, <3>3, <4>2, <5>1
        <5>2. CASE i \in 1..Len(q)
          <6>1. changes'[d][i] = q[i] /\ AckPlaces(q) \subseteq AckPlaces(changes'[d])
              BY <3>2, <3>3, <3>4, <5>2
          <6>2. \/ q[i].kind # "shown"
                \/ requests[d] # <<>>
                \/ \E j \in AckPlaces(q) : j > i
                \/ \A g \in listeners[d] \ shared : q[i].v >= floor[g]
              BY <2>1, <2>3, <5>2 DEF OldOrFollowed, q
          <6> QED
              BY <1>1, <3>6, <6>1, <6>2
        <5> QED
            BY <3>1, <3>2, <3>3, <5>1, <5>2
      <4> QED
          BY <2>3, <4>1, <4>3
    <3> QED
        BY <1>2, <3>5, <3>6
  <2> QED
      BY <2>2, <2>3
<1>4. ASSUME NEW e \in Docs
      PROVE  SyncedFresh(e)'
    BY <1>1 DEF FreshInv, SyncedFresh
<1>5. ASSUME NEW g \in Gets
      PROVE  ReadFresh(g)'
    BY <1>1 DEF FreshInv, ReadFresh
<1> QED
    BY <1>3, <1>4, <1>5 DEF FreshInv

\* The next message about d is read: those behind it are as old, or as well
\* followed, as before.
LEMMA LaterMessages ==
    ASSUME TypeOK, NEW d \in Docs, changes[d] # <<>>, changes' = [changes EXCEPT ![d] = Tail(@)],
           OldOrFollowed(d), UNCHANGED <<requests, floor, shared>>,
           listeners'[d] \subseteq listeners[d]
    PROVE  OldOrFollowed(d)'
<1> DEFINE q == changes[d]
<1>1. q \in Seq(Messages) /\ changes'[d] = Tail(q)
    BY Amounts DEF TypeOK
<1>2. /\ Len(q) \in Nat /\ Len(Tail(q)) = Len(q) - 1
      /\ \A i \in 1..Len(Tail(q)) : i + 1 \in 1..Len(q) /\ Tail(q)[i] = q[i + 1]
    BY <1>1, TailPlaces
<1> HIDE DEF q
<1> SUFFICES ASSUME NEW i \in 1..Len(changes'[d])
             PROVE  \/ changes'[d][i].kind # "shown"
                    \/ requests'[d] # <<>>
                    \/ \E j \in AckPlaces(changes'[d]) : j > i
                    \/ \A g \in listeners'[d] \ shared' : changes'[d][i].v >= floor'[g]
    BY DEF OldOrFollowed
<1>3. i + 1 \in 1..Len(q) /\ changes'[d][i] = q[i + 1]
    BY <1>1, <1>2
<1>4. \/ q[i + 1].kind # "shown"
      \/ requests[d] # <<>>
      \/ \E j \in AckPlaces(q) : j > i + 1
      \/ \A g \in listeners[d] \ shared : q[i + 1].v >= floor[g]
    BY <1>3 DEF OldOrFollowed, q
<1>5. ASSUME NEW j \in AckPlaces(q), j > i + 1
      PROVE  j - 1 \in AckPlaces(changes'[d]) /\ j - 1 > i
  <2>1. j \in 1..Len(q) /\ q[j].kind # "shown"
      BY DEF AckPlaces
  <2>2. j - 1 \in 1..Len(Tail(q)) /\ (j - 1) + 1 = j
      BY <1>2, <1>5, <2>1
  <2>3. Tail(q)[j - 1] = q[j]
      BY <1>2, <2>2
  <2>4. j - 1 \in AckPlaces(Tail(q))
      BY <2>1, <2>2, <2>3 DEF AckPlaces
  <2>5. j - 1 > i
      BY <1>5, <2>1
  <2> QED
      BY <1>1, <2>4, <2>5
<1> QED
    BY <1>3, <1>4, <1>5

LEMMA ChangeFresh ==
    ASSUME TypeOK, TypeOK', TablesAgree', FreshInv, NEW d \in Docs, OnWatchStreamChange(d),
           ~crossed'
    PROVE  FreshInv'
<1> DEFINE q == changes[d]
<1>0. /\ q # <<>> /\ changes' = [changes EXCEPT ![d] = Tail(@)]
      /\ UNCHANGED <<docOf, answers, requests, floor, shared>>
      /\ ReadAck(d) \/ ReadShown(d) \/ ReadDenied(d)
    BY DEF OnWatchStreamChange
<1>1. /\ q \in Seq(Messages) /\ changes'[d] = Tail(q)
      /\ Len(requests[d]) \in Nat /\ Acks(q) \in Nat
      /\ requests[d] \in Seq({"watch", "unwatch"})
    BY <1>0, Amounts DEF TypeOK
<1>2. Acks(Tail(q)) = IF Head(q).kind = "shown" THEN Acks(q) ELSE Acks(q) - 1
    BY <1>0, <1>1, AcksTail
<1>3. pending[d] = Len(requests[d]) + Acks(q)
    BY DEF FreshInv, Counted
<1>4. 1 \in 1..Len(q) /\ Head(q) = q[1]
    BY <1>0, <1>1, TailPlaces
<1>5. ReadDenied(d) => d \in targets /\ pending[d] = 1 /\ Head(q).kind = "denied"
    BY DEF ReadDenied
<1> HIDE DEF q
<1>6. UNCHANGED shared /\ \A e \in Docs : listeners'[e] \subseteq listeners[e]
  <2>1. UNCHANGED listeners \/ listeners' = [listeners EXCEPT ![d] = {}]
      BY <1>0 DEF ReadAck, ReadShown, ReadDenied, listenVars
  <2> QED
      BY <1>0, <2>1 DEF TypeOK
<1>7. Counted(d)'
  <2>1. CASE ReadAck(d)
    <3>1. Head(q).kind # "shown" /\ pending'[d] = pending[d] - 1
        BY <2>1 DEF ReadAck, TypeOK, q
    <3>2. Acks(changes'[d]) = Acks(q) - 1 /\ requests'[d] = requests[d]
        BY <1>0, <1>1, <1>2, <3>1
    <3>3. pending[d] - 1 = Len(requests[d]) + (Acks(q) - 1)
      <4>1. Len(requests[d]) \in Nat /\ Acks(q) \in Nat
          BY <1>1
      <4>2. \A a, b \in Nat : (a + b) - 1 = a + (b - 1)
          OBVIOUS
      <4> QED
          BY <1>3, <4>1, <4>2
    <3>4. pending'[d] = Len(requests'[d]) + Acks(changes'[d])
        BY <3>1, <3>2, <3>3
    <3> QED
        BY <3>4 DEF Counted
  <2>2. CASE ReadShown(d)
    <3>1. Head(q).kind = "shown" /\ pending'[d] = pending[d]
        BY <2>2 DEF ReadShown, q
    <3>2. pending'[d] = Len(requests'[d]) + Acks(changes'[d])
        BY <1>0, <1>1, <1>2, <1>3, <3>1
    <3> QED
        BY <3>2 DEF Counted
  <2>3. CASE ReadDenied(d)
    <3>1. pending[d] = 1 /\ Head(q).kind # "shown" /\ d \in targets
        BY <1>5, <2>3
    <3>2. pending'[d] = 0
      <4>1. pending' = [pending EXCEPT ![d] = 0]
          BY <2>3, <3>1 DEF ReadDenied
      <4> QED
          BY <4>1 DEF TypeOK
    <3>3. pending'[d] = Len(requests'[d]) + Acks(changes'[d])
      <4>1. Acks(changes'[d]) = Acks(q) - 1 /\ requests'[d] = requests[d]
          BY <1>0, <1>1, <1>2, <3>1
      <4>2. Tail(q) \in Seq(Messages)
          BY <1>0, <1>1, HeadTailProperties
      <4>3. Acks(changes'[d]) \in Nat
          BY <1>1, <4>2, AcksType
      <4>4. Len(requests[d]) + (Acks(q) - 1) = 0
          BY <1>1, <1>3, <3>1
      <4> QED
          BY <3>2, <4>1, <4>4
    <3> QED
        BY <3>3 DEF Counted
  <2> QED
      BY <1>0, <2>1, <2>2, <2>3
<1>8. OldOrFollowed(d)'
    BY <1>0, <1>6, LaterMessages DEF FreshInv, q
<1>9. ASSUME NEW e \in Docs, e # d
      PROVE  Counted(e)' /\ OldOrFollowed(e)'
  <2>1. changes'[e] = changes[e] /\ requests'[e] = requests[e]
      BY <1>0, <1>9 DEF TypeOK
  <2>2. pending'[e] = pending[e]
    <3>1. UNCHANGED pending \/ \E n : pending' = [pending EXCEPT ![d] = n]
        BY <1>0 DEF ReadAck, ReadShown, ReadDenied
    <3> QED
        BY <1>9, <3>1 DEF TypeOK
  <2> QED
      BY <1>0, <1>6, <2>1, <2>2, SameWire DEF FreshInv
<1>10. ASSUME NEW e \in Docs
       PROVE  SyncedFresh(e)'
  <2> SUFFICES ASSUME views'[e] = "synced", NEW g \in listeners'[e] \ shared'
               PROVE  cache'[e] >= floor'[g]
      BY DEF SyncedFresh
  <2>1. g \in listeners[e] \ shared /\ g \in Gets /\ floor'[g] = floor[g]
      BY <1>0, <1>6 DEF TypeOK
  <2>2. CASE views[e] = "synced" /\ cache'[e] = cache[e]
      BY <2>1, <2>2 DEF FreshInv, SyncedFresh
  <2>3. CASE e = d /\ ReadShown(d) /\ pending[d] = 0
                /\ cache' = [cache EXCEPT ![d] = IF Head(q).v > @ THEN Head(q).v ELSE @]
    <3>1. Len(requests[d]) = 0 /\ Acks(q) = 0
        BY <1>1, <1>3, <2>3
    <3>2. requests[d] = <<>> /\ AckPlaces(q) = {}
        BY <1>1, <3>1, EmptySeq, AcksType
    <3>3. Head(q).kind = "shown"
        BY <2>3 DEF ReadShown, q
    <3>4. q[1].v >= floor[g]
      <4>1. OldOrFollowed(d)
          BY DEF FreshInv
      <4> QED
          BY <1>4, <2>1, <2>3, <3>2, <3>3, <4>1 DEF OldOrFollowed, q
    <3>5. cache'[d] >= q[1].v
      <4>1. cache[d] \in Nat /\ q[1].v \in Nat
          BY <1>4, Amounts DEF q
      <4>2. cache'[d] = IF q[1].v > cache[d] THEN q[1].v ELSE cache[d]
          BY <1>4, <2>3 DEF TypeOK
      <4> QED
          BY <4>1, <4>2
    <3>6. cache'[d] \in Nat /\ q[1].v \in Nat /\ floor[g] \in Nat
        BY <1>4, <2>1, Amounts, VersionsType DEF TypeOK, q
    <3> QED
        BY <2>1, <2>3, <3>4, <3>5, <3>6
  <2>4. \/ views[e] = "synced" /\ cache'[e] = cache[e]
        \/ e = d /\ ReadShown(d) /\ pending[d] = 0
                /\ cache' = [cache EXCEPT ![d] = IF Head(q).v > @ THEN Head(q).v ELSE @]
    <3>1. CASE ReadAck(d)
        BY <3>1 DEF ReadAck, listenVars
    <3>2. CASE ReadDenied(d)
      <4>1. UNCHANGED cache /\ views' = [views EXCEPT ![d] = "none"]
          BY <1>5, <3>2 DEF ReadDenied
      <4> QED
          BY <4>1 DEF TypeOK
    <3>3. CASE ReadShown(d)
      <4>1. CASE d \in targets /\ pending[d] = 0
        <5>1. /\ cache' = [cache EXCEPT ![d] = IF Head(q).v > @ THEN Head(q).v ELSE @]
              /\ views' = [views EXCEPT ![d] = "synced"]
            BY <3>3, <4>1 DEF ReadShown, q
        <5>2. CASE e = d
            BY <3>3, <4>1, <5>1, <5>2
        <5>3. CASE e # d
            BY <5>1, <5>3 DEF TypeOK
        <5> QED
            BY <5>2, <5>3
      <4>2. CASE ~(d \in targets /\ pending[d] = 0)
          BY <3>3, <4>2 DEF ReadShown, listenVars
      <4> QED
          BY <4>1, <4>2
    <3> QED
        BY <1>0, <3>1, <3>2, <3>3
  <2> QED
      BY <2>2, <2>3, <2>4
<1>11. ASSUME NEW g \in Gets
       PROVE  ReadFresh(g)'
  <2>1. ReadFresh(g)
      BY DEF FreshInv
  <2>2. CASE UNCHANGED events
      BY <1>0, <2>1, <2>2 DEF ReadFresh
  <2>3. ASSUME NEW news, Tell(news)
        PROVE  ReadFresh(g)'
      BY <1>0, <1>10, <2>1, <2>3, ToldFresh
  <2>4. CASE events' = [h \in Gets |-> IF h \in listeners[d]
                                       THEN Append(events[h], Message("denied")) ELSE events[h]]
    <3>1. /\ Message("denied") \in Answers /\ Message("denied").kind # "server"
          /\ events[g] \in Seq(Answers)
        BY MessageType, Sequences DEF Message
    <3>2. events'[g] = events[g] \/ events'[g] = Append(events[g], Message("denied"))
        BY <2>4
    <3>3. \A v : AllFresh(events[g], v) => AllFresh(Append(events[g], Message("denied")), v)
        BY <3>1, AllFreshAppend
    <3> QED
        BY <1>0, <2>1, <3>2, <3>3 DEF ReadFresh
  <2>5. \/ UNCHANGED events
        \/ \E news \in SUBSET Docs : Tell(news)
        \/ events' = [h \in Gets |-> IF h \in listeners[d]
                                     THEN Append(events[h], Message("denied")) ELSE events[h]]
    <3>1. ReadShown(d) => UNCHANGED events \/ \E news \in {{}, {d}} : Tell(news)
        BY DEF ReadShown
    <3> QED
        BY <1>0, <3>1 DEF ReadAck, ReadDenied
  <2> QED
      BY <2>2, <2>3, <2>4, <2>5
<1> QED
    BY <1>7, <1>8, <1>9, <1>10, <1>11 DEF FreshInv

LEMMA NextFresh ==
    ASSUME TypeOK, TypeOK', TablesAgree, TablesAgree', ReadInv, FreshAll, [Next]_vars
    PROVE  FreshAll'
<1>1. WireInv' /\ \A g \in Gets : Past(g)'
    BY NextWire, NextPast DEF FreshAll
<1>2. crossed => crossed'
    BY DEF Next, vars, GetDocument, AddQueryListener, RemoveQueryListener, OnEvent,
       StreamOpens, StreamFails, StreamDrops, StreamCloses, BackoffElapses, IdleTimeout,
       RestartNetwork, OnlineStateTimeout, ServerWrites, ServerAnswers, ServerShows,
       OnWatchStreamChange, ReadAck, ReadShown, ReadDenied
<1>3. ASSUME ~crossed' PROVE FreshInv'
  <2>0. FreshInv /\ WireInv /\ \A g \in Gets : Past(g)
      BY <1>2, <1>3 DEF FreshAll
  <2>1. CASE GetDocument \/ \E g \in Gets : OnEvent(g)
      BY <2>0, <2>1, AppFresh
  <2>2. ASSUME NEW g \in Gets, AddQueryListener(g) \/ RemoveQueryListener(g)
        PROVE  FreshInv'
      BY <2>0, <2>2, AddFresh, RemoveFresh
  <2>3. CASE StreamOpens
      BY <2>0, <2>3, OpensFresh
  <2>4. CASE StreamCloses
    <3>1. /\ Closed /\ UNCHANGED <<docOf, answers, floor, shared>>
          /\ UNCHANGED <<listenVars, events>> \/ Broadcast("Offline")
        BY <2>4 DEF StreamCloses, HandleWatchStreamFailure
    <3> QED
        BY <2>0, <3>1, BroadcastFresh
  <2>5. CASE IdleTimeout \/ RestartNetwork
    <3>1. Closed /\ UNCHANGED <<docOf, answers, floor, shared, listenVars, events>>
        BY <2>5 DEF IdleTimeout, RestartNetwork, appVars
    <3> QED
        BY <2>0, <3>1, BroadcastFresh
  <2>6. CASE BackoffElapses \/ OnlineStateTimeout \/ (\E d \in Docs : ServerWrites(d)) \/ UNCHANGED vars
    <3>1. /\ UNCHANGED <<docOf, answers, floor, shared, requests, changes, pending>>
          /\ UNCHANGED <<listenVars, events>> \/ Broadcast("Offline")
        BY <2>6 DEF BackoffElapses, OnlineStateTimeout, ServerWrites, vars, appVars,
           streamVars, wireVars
    <3> QED
        BY <2>0, <3>1, BroadcastFresh
  <2>7. ASSUME NEW d \in Docs, ServerAnswers(d) \/ ServerShows(d)
        PROVE  FreshInv'
      BY <2>0, <2>7, ServerFresh
  <2>8. ASSUME NEW d \in Docs, OnWatchStreamChange(d)
        PROVE  FreshInv'
      BY <1>3, <2>0, <2>8, ChangeFresh
  <2> QED
      BY <2>1, <2>2, <2>3, <2>4, <2>5, <2>6, <2>7, <2>8 DEF Next, StreamFails, StreamDrops
<1> QED
    BY <1>1, <1>3 DEF FreshAll

\* Whatever messages of an earlier listen are still on their way under the same
\* target id, what a read that started its listen hears from the server is not
\* older than the read: counting acknowledgements keeps the listens apart.
THEOREM FreshCorrect == Spec => []FreshReads
<1>1. FreshAll => FreshReads
    BY DEF FreshAll, FreshInv, ReadFresh, AllFresh, FreshReads
<1>2. TypeOK /\ TypeOK' /\ TablesAgree /\ TablesAgree' /\ ReadInv /\ FreshAll
          /\ [Next]_vars => FreshAll'
    BY NextFresh
<1> QED
    BY <1>1, <1>2, InitFresh, TypeCorrect, TablesCorrect, ReadInvHolds, PTL DEF Spec
=============================================================================
