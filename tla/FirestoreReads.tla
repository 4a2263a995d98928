---------------------------- MODULE FirestoreReads ----------------------------
(***************************************************************************)
(* The read path of the Firestore client GMM links: getDocument registers  *)
(* a listener, takes the first event and removes the listener again.  A    *)
(* listener waits for the server as long as the client believes itself     *)
(* online; OnlineStateTracker's timer and failure count end that belief.   *)
(* Three tables, of EventManager, SyncEngine and RemoteStore, say which    *)
(* documents are listened to, and the WatchStream names them by target ids *)
(* that are used again, so WatchChangeAggregator counts acknowledgements   *)
(* to tell late messages of an earlier listen from those of the present.   *)
(*                                                                         *)
(* The worker queue runs one task at a time, and each is one action here;  *)
(* events of different reads, and messages about different documents, are  *)
(* taken in any order.  Open and Healthy are one state, and                *)
(* the messages between two snapshots, which only the aggregator sees, are *)
(* one with the snapshot.  Listens are of documents that the user has no   *)
(* unsent write for.  Of the server it is assumed that it acknowledges     *)
(* each watch and unwatch, or denies the watch, in order.                  *)
(***************************************************************************)
EXTENDS Integers, Sequences

CONSTANTS
    Docs,
    \* Bounds: reads of the app, states of a document, and times an open
    \* connection is lost or the network restarted.
    MaxGets, MaxVersion, MaxDrops

ASSUME BoundsAssumption ==
    /\ MaxGets \in Nat
    /\ MaxVersion \in Nat
    /\ MaxDrops \in Nat

Gets == 1..MaxGets

Versions == 0..MaxVersion

\* A document is created and deleted in turn; at 0 it never existed.
Exists(v) == v % 2 = 1

VARIABLES
    \* the app and ListenOnce: the reads made, the document of each, its tasks
    \* on the worker queue, the events on the main queue, the listeners that
    \* take no more of them, and what the completion handlers were told
    asked, docOf, tasks, events, muted, answers,
    \* EventManager, and the QueryListeners that had their initial event
    listeners, raised,
    \* SyncEngine's views and the local cache
    views, cache,
    \* OnlineStateTracker
    online, timer, failed,
    \* RemoteStore, WatchStream and the acknowledgements due
    targets, stream, idle, pending,
    \* the open stream and the server: for each document, the requests and the
    \* messages on their way, whether it is watched and what was last shown
    requests, changes, watched, shown, server,
    \* history: the server's version when a read was asked, the reads that
    \* joined a listen, those in whose time the client was offline, and whether
    \* a denial met another request for the same document
    floor, shared, doubted, crossed,
    \* progress towards MaxDrops
    drops

appVars    == <<asked, docOf, tasks, events, muted, answers>>
listenVars == <<listeners, raised, views, cache>>
onlineVars == <<online, timer, failed>>
streamVars == <<targets, stream, idle, pending>>
wireVars   == <<requests, changes, watched, shown>>
vars == <<appVars, listenVars, onlineVars, streamVars, wireVars, server, floor,
          shared, doubted, crossed, drops>>

Streams == {"Initial", "Starting", "Open", "Error", "Backoff"}

Answers == [kind : {"server", "cache", "missing", "denied"}, v : Versions]

Messages == [kind : {"added", "removed", "denied", "shown"}, v : Versions]

Task(op, g) == [op |-> op, g |-> g]

Message(kind) == [kind |-> kind, v |-> 0]

Started == stream \in {"Starting", "Open", "Backoff"}

Quiet == [d \in Docs |-> <<>>]

\* The reads that were asked and have no answer yet.
Waiting == {g \in 1..asked : answers[g] = <<>>}

Init ==
    /\ asked = 0 /\ docOf \in [Gets -> Docs] /\ tasks = <<>>
    /\ events = [g \in Gets |-> <<>>] /\ muted = {}
    /\ answers = [g \in Gets |-> <<>>]
    /\ listeners = [d \in Docs |-> {}] /\ raised = {}
    /\ views = [d \in Docs |-> "none"] /\ cache = [d \in Docs |-> 0]
    /\ online = "Unknown" /\ timer = FALSE /\ failed = FALSE
    /\ targets = {} /\ stream = "Initial" /\ idle = FALSE
    /\ pending = [d \in Docs |-> 0]
    /\ requests = Quiet /\ changes = Quiet
    /\ watched = [d \in Docs |-> "no"] /\ shown = [d \in Docs |-> 0]
    /\ server = [d \in Docs |-> 0]
    /\ floor = [g \in Gets |-> 0] /\ shared = {} /\ doubted = {}
    /\ crossed = FALSE /\ drops = 0

-----------------------------------------------------------------------------
(***************************************************************************)
(* Views and listeners.                                                    *)
(***************************************************************************)

\* What a view that is synced, or not, makes of the document's state v.
Snapshot(view, v) ==
    [kind |-> IF view = "synced" THEN "server"
              ELSE IF Exists(v) THEN "cache" ELSE "missing",
     v |-> v]

\* ShouldRaiseInitialEvent with wait_for_sync_when_online.
InitialDue(view, v, state) == view = "synced" \/ state = "Offline"

\* The listeners hear of the new state of things: those that had their initial
\* event of any change of their view (a document in news), the others as soon
\* as it is due.
Tell(news) ==
    LET due == {g \in UNION {listeners'[d] : d \in Docs} :
                   IF g \in raised THEN docOf[g] \in news
                   ELSE InitialDue(views'[docOf[g]], cache'[docOf[g]], online')}
    IN /\ raised' = raised \cup due
       /\ events' = [g \in Gets |->
              IF g \in due
              THEN Append(events[g], Snapshot(views'[docOf[g]], cache'[docOf[g]]))
              ELSE events[g]]

\* ApplyOnlineStateChange: a view is no longer synced when the client is offline.
ViewsAt(state) ==
    [d \in Docs |-> IF state = "Offline" /\ views[d] = "synced"
                    THEN "local" ELSE views[d]]

\* SetAndBroadcast, to the views and then to the listeners.
Broadcast(state) ==
    /\ online' = state
    /\ views' = ViewsAt(state)
    /\ UNCHANGED <<listeners, cache>>
    /\ Tell({d \in Docs : views'[d] # views[d]})
    /\ doubted' = IF state = "Offline" THEN doubted \cup Waiting ELSE doubted

\* UpdateState clears the timer and the failure count.  To a state that is not
\* Offline there is nothing to tell.
UpdateState(state) ==
    /\ online' = state
    /\ timer' = FALSE
    /\ failed' = FALSE

\* HandleWatchStreamStart, after the failures f: the timer is started unless
\* the connection has failed before.
HandleWatchStreamStart(f) ==
    /\ online' = IF f THEN online ELSE "Unknown"
    /\ timer' = (timer \/ ~f)
    /\ failed' = f

-----------------------------------------------------------------------------
(***************************************************************************)
(* The stream.                                                             *)
(***************************************************************************)

\* Mutant: only the targets still listened to are reset.
ClosedListened ==
    /\ idle' = FALSE
    /\ pending' = [d \in targets |-> 0]
    /\ requests' = Quiet /\ changes' = Quiet
    /\ watched' = [d \in Docs |-> "no"]
    /\ shown' = [d \in Docs |-> 0]

\* Close: what the old connection still carries is lost, and the aggregator
\* goes with it.
Closed ==
    /\ idle' = FALSE
    /\ pending' = [d \in Docs |-> 0]
    /\ requests' = Quiet /\ changes' = Quiet
    /\ watched' = [d \in Docs |-> "no"]
    /\ shown' = [d \in Docs |-> 0]

\* Each request to the server is counted until it is acknowledged.
Send(d, request) ==
    /\ requests' = [requests EXCEPT ![d] = Append(@, request)]
    /\ pending' = [pending EXCEPT ![d] = @ + 1]

\* Mutant: a stream that ended with an error is not started again.
ListenLazily(d) ==
    /\ views' = [views EXCEPT ![d] = "local"]
    /\ targets' = targets \cup {d}
    /\ \/ /\ stream = "Open"
          /\ Send(d, "watch") /\ idle' = FALSE
          /\ UNCHANGED <<onlineVars, stream, changes, watched, shown>>
       \/ /\ stream = "Initial"
          /\ stream' = "Starting"
          /\ HandleWatchStreamStart(failed)
          /\ UNCHANGED <<idle, pending, wireVars>>
       \/ /\ stream \notin {"Initial", "Open"}
          /\ UNCHANGED <<onlineVars, stream, idle, pending, wireVars>>

\* SyncEngine::Listen and RemoteStore::Listen: the target is sent at once on an
\* open stream, or when the stream, started if it was not, opens.
Listen(d) ==
    /\ views' = [views EXCEPT ![d] = "local"]
    /\ targets' = targets \cup {d}
    /\ \/ /\ stream = "Open"
          /\ Send(d, "watch") /\ idle' = FALSE
          /\ UNCHANGED <<onlineVars, stream, changes, watched, shown>>
       \/ /\ ~Started
          /\ stream' = IF stream = "Error" THEN "Backoff" ELSE "Starting"
          /\ HandleWatchStreamStart(failed)
          /\ UNCHANGED <<idle, pending, wireVars>>
       \/ /\ Started /\ stream # "Open"
          /\ UNCHANGED <<onlineVars, stream, idle, pending, wireVars>>

\* SyncEngine::StopListening and RemoteStore::StopListening: the last target to
\* go marks an open stream idle, and makes the state Unknown otherwise.
StopListening(d) ==
    /\ views' = [views EXCEPT ![d] = "none"]
    /\ targets' = targets \ {d}
    /\ IF stream = "Open"
       THEN /\ Send(d, "unwatch") /\ idle' = (targets' = {})
            /\ UNCHANGED <<onlineVars, changes, watched, shown>>
       ELSE /\ IF targets' = {} THEN UpdateState("Unknown")
                                ELSE UNCHANGED onlineVars
            /\ UNCHANGED <<idle, pending, wireVars>>
    /\ UNCHANGED stream

-----------------------------------------------------------------------------
(***************************************************************************)
(* The app, and the tasks and events it causes.                            *)
(***************************************************************************)

\* getDocument: a listener is on its way to the worker queue.
GetDocument ==
    /\ asked < MaxGets
    /\ asked' = asked + 1
    /\ tasks' = Append(tasks, Task("add", asked'))
    /\ floor' = [floor EXCEPT ![asked'] = server[docOf[asked']]]
    /\ doubted' = IF online = "Offline" THEN doubted \cup {asked'} ELSE doubted
    /\ UNCHANGED <<docOf, events, muted, answers, listenVars,
                   onlineVars, streamVars, wireVars, server, shared, crossed,
                   drops>>

\* Mutant: a later listener waits for the next snapshot.
AddQueryListenerBlind(g) ==
    LET d == docOf[g] IN
    /\ tasks # <<>> /\ Head(tasks) = Task("add", g)
    /\ tasks' = Tail(tasks)
    /\ listeners' = [listeners EXCEPT ![d] = @ \cup {g}]
    /\ UNCHANGED cache
    /\ IF listeners[d] = {}
       THEN Listen(d) /\ UNCHANGED shared /\ Tell({})
       ELSE /\ shared' = shared \cup {g}
            /\ UNCHANGED <<raised, events, views, onlineVars, streamVars, wireVars>>
    /\ UNCHANGED <<asked, docOf, muted, answers, server, floor, doubted,
                   crossed, drops>>

\* AddQueryListener: the first listener of a document starts the listen; a
\* later one takes the view as it is.
AddQueryListener(g) ==
    LET d == docOf[g] IN
    /\ tasks # <<>> /\ Head(tasks) = Task("add", g)
    /\ tasks' = Tail(tasks)
    /\ listeners' = [listeners EXCEPT ![d] = @ \cup {g}]
    /\ IF listeners[d] = {}
       THEN Listen(d) /\ UNCHANGED shared
       ELSE /\ shared' = shared \cup {g}
            /\ UNCHANGED <<views, onlineVars, streamVars, wireVars>>
    /\ UNCHANGED cache
    /\ Tell({})
    /\ UNCHANGED <<asked, docOf, muted, answers, server, floor,
                   doubted, crossed, drops>>

\* RemoveQueryListener: one that an error removed already is not found.
RemoveQueryListener(g) ==
    LET d == docOf[g] IN
    /\ tasks # <<>> /\ Head(tasks) = Task("remove", g)
    /\ tasks' = Tail(tasks)
    /\ listeners' = [listeners EXCEPT ![d] = @ \ {g}]
    /\ IF listeners[d] = {g}
       THEN StopListening(d)
       ELSE UNCHANGED <<views, onlineVars, streamVars, wireVars>>
    /\ UNCHANGED <<asked, docOf, events, muted, answers, raised, cache,
                   server, floor, shared, doubted, crossed, drops>>

\* Mutant: the listener is removed but not muted.
OnEventUnmuted(g) ==
    /\ events[g] # <<>>
    /\ events' = [events EXCEPT ![g] = Tail(@)]
    /\ answers' = [answers EXCEPT ![g] = Append(@, Head(events[g]))]
    /\ tasks' = IF Head(events[g]).kind = "denied" THEN tasks
                ELSE Append(tasks, Task("remove", g))
    /\ UNCHANGED <<asked, docOf, muted, listenVars, onlineVars,
                   streamVars, wireVars, server, floor, shared, doubted, crossed, drops>>

\* ListenOnce::OnEvent on the main queue, if the listener is not muted: the
\* first event mutes it and has it removed; an error has removed it already.
OnEvent(g) ==
    /\ events[g] # <<>>
    /\ events' = [events EXCEPT ![g] = Tail(@)]
    /\ IF g \in muted
       THEN UNCHANGED <<tasks, muted, answers>>
       ELSE /\ answers' = [answers EXCEPT ![g] = Append(@, Head(events[g]))]
            /\ IF Head(events[g]).kind = "denied"
               THEN UNCHANGED <<tasks, muted>>
               ELSE /\ muted' = muted \cup {g}
                    /\ tasks' = Append(tasks, Task("remove", g))
    /\ UNCHANGED <<asked, docOf, listenVars, onlineVars, streamVars,
                   wireVars, server, floor, shared, doubted, crossed, drops>>

-----------------------------------------------------------------------------
(***************************************************************************)
(* The connection.                                                         *)
(***************************************************************************)

\* OnWatchStreamOpen sends every target.
StreamOpens ==
    /\ stream = "Starting"
    /\ stream' = "Open"
    /\ requests' = [d \in Docs |-> IF d \in targets THEN <<"watch">> ELSE <<>>]
    /\ pending' = [d \in Docs |-> IF d \in targets THEN 1 ELSE 0]
    /\ UNCHANGED <<appVars, listenVars, onlineVars, targets, idle, changes,
                   watched, shown, server, floor, shared, doubted, crossed, drops>>

\* Mutant: the failure is counted and the state left as it is.
HandleWatchStreamFailureQuietly ==
    IF online = "Online"
    THEN /\ HandleWatchStreamStart(failed)
         /\ UNCHANGED <<listenVars, events, doubted>>
    ELSE /\ failed' = TRUE
         /\ timer' = FALSE
         /\ UNCHANGED <<online, listenVars, events, doubted>>

\* HandleWatchStreamFailure, then HandleWatchStreamStart: a failure at Online
\* gives the server another time span, any other makes the client offline.
HandleWatchStreamFailure ==
    IF online = "Online"
    THEN /\ HandleWatchStreamStart(failed)
         /\ UNCHANGED <<listenVars, events, doubted>>
    ELSE /\ failed' = TRUE
         /\ timer' = FALSE
         /\ Broadcast("Offline")

\* OnWatchStreamClose with an error: the stream is retried, after a pause, if
\* there are targets.
StreamCloses ==
    /\ Closed
    /\ IF targets # {}
       THEN /\ stream' = "Backoff"
            /\ HandleWatchStreamFailure
       ELSE /\ stream' = "Error"
            /\ UpdateState("Unknown")
            /\ UNCHANGED <<listenVars, events, doubted>>
    /\ UNCHANGED <<asked, docOf, tasks, muted, answers, targets,
                   server, floor, shared, crossed>>

\* A connection that cannot be made, as often as it likes.
StreamFails == stream = "Starting" /\ StreamCloses /\ UNCHANGED drops

\* A connection that breaks.
StreamDrops ==
    /\ stream = "Open"
    /\ drops < MaxDrops
    /\ drops' = drops + 1
    /\ StreamCloses

BackoffElapses ==
    /\ stream = "Backoff"
    /\ stream' = "Starting"
    /\ UNCHANGED <<appVars, listenVars, onlineVars, targets, idle, pending,
                   wireVars, server, floor, shared, doubted, crossed, drops>>

\* The idle timer stops the stream.
IdleTimeout ==
    /\ idle
    /\ stream' = "Initial"
    /\ Closed
    /\ UpdateState("Unknown")
    /\ UNCHANGED <<appVars, listenVars, targets, server, floor, shared, doubted, crossed,
                   drops>>

\* RestartNetwork, at a change of the network or the credentials.
RestartNetwork ==
    /\ drops < MaxDrops
    /\ drops' = drops + 1
    /\ Closed
    /\ online' = "Unknown"
    /\ failed' = FALSE
    /\ stream' = IF targets = {} THEN "Initial" ELSE "Starting"
    /\ timer' = (targets # {})
    /\ UNCHANGED <<appVars, listenVars, targets, server, floor, shared, doubted, crossed>>

\* The online state timer: the client gives the server up.
OnlineStateTimeout ==
    /\ timer
    /\ timer' = FALSE
    /\ UNCHANGED failed
    /\ Broadcast("Offline")
    /\ UNCHANGED <<asked, docOf, tasks, muted, answers, streamVars,
                   wireVars, server, floor, shared, crossed, drops>>

-----------------------------------------------------------------------------
(***************************************************************************)
(* The server and its messages.                                            *)
(***************************************************************************)

\* Another device writes.
ServerWrites(d) ==
    /\ server[d] < MaxVersion
    /\ server' = [server EXCEPT ![d] = @ + 1]
    /\ UNCHANGED <<appVars, listenVars, onlineVars, streamVars, wireVars, floor,
                   shared, doubted, crossed, drops>>

ServerAnswers(d) ==
    /\ requests[d] # <<>>
    /\ requests' = [requests EXCEPT ![d] = Tail(@)]
    /\ \E kind \in IF Head(requests[d]) = "watch" THEN {"added", "denied"}
                                                  ELSE {"removed"} :
           /\ changes' = [changes EXCEPT ![d] = Append(@, Message(kind))]
           /\ watched' = [watched EXCEPT ![d] =
                              IF kind = "added" THEN "added" ELSE "no"]
    /\ UNCHANGED <<appVars, listenVars, onlineVars, streamVars, shown, server,
                   floor, shared, doubted, crossed, drops>>

\* The document and CURRENT, or a later change of the document, with the
\* snapshot they are part of.
ServerShows(d) ==
    /\ \/ watched[d] = "added"
       \/ watched[d] = "current" /\ shown[d] # server[d]
    /\ watched' = [watched EXCEPT ![d] = "current"]
    /\ shown' = [shown EXCEPT ![d] = server[d]]
    /\ changes' = [changes EXCEPT ![d] =
                       Append(@, [kind |-> "shown", v |-> server[d]])]
    /\ UNCHANGED <<appVars, listenVars, onlineVars, streamVars, requests,
                   server, floor, shared, doubted, crossed, drops>>

\* HandleTargetChange, Added or Removed: an acknowledgement.
ReadAck(d) ==
    /\ Head(changes[d]).kind \in {"added", "removed"}
    /\ pending' = [pending EXCEPT ![d] = @ - 1]
    /\ UNCHANGED <<listenVars, events, targets, crossed>>

\* Mutant: the message counts for any target listened to.
ReadShownAlways(d) ==
    LET v == Head(changes[d]).v IN
    /\ Head(changes[d]).kind = "shown"
    /\ IF d \in targets
       THEN /\ cache' = [cache EXCEPT ![d] = IF v > @ THEN v ELSE @]
            /\ views' = [views EXCEPT ![d] = "synced"]
            /\ UNCHANGED listeners
            /\ Tell(IF \/ views[d] = "local"
                       \/ cache'[d] # cache[d] /\ (Exists(v) \/ Exists(cache[d]))
                    THEN {d} ELSE {})
       ELSE UNCHANGED <<listenVars, events>>
    /\ UNCHANGED <<targets, pending, crossed>>

\* RaiseWatchSnapshot and ApplyRemoteEvent: the message counts only for an
\* active target, which no acknowledgement is due for.
ReadShown(d) ==
    LET v == Head(changes[d]).v IN
    /\ Head(changes[d]).kind = "shown"
    /\ IF d \in targets /\ pending[d] = 0
       THEN /\ cache' = [cache EXCEPT ![d] = IF v > @ THEN v ELSE @]
            /\ views' = [views EXCEPT ![d] = "synced"]
            /\ UNCHANGED listeners
            /\ Tell(IF \/ views[d] = "local"
                       \/ cache'[d] # cache[d] /\ (Exists(v) \/ Exists(cache[d]))
                    THEN {d} ELSE {})
       ELSE UNCHANGED <<listenVars, events>>
    /\ UNCHANGED <<targets, pending, crossed>>

\* Mutant: the listeners are told, but stay.
ReadDeniedStaying(d) ==
    /\ Head(changes[d]).kind = "denied"
    /\ crossed' = (crossed \/ d \notin targets \/ pending[d] # 1)
    /\ IF d \in targets
       THEN /\ targets' = targets \ {d}
            /\ pending' = [pending EXCEPT ![d] = 0]
            /\ views' = [views EXCEPT ![d] = "none"]
            /\ events' = [g \in Gets |->
                   IF g \in listeners[d]
                   THEN Append(events[g], Message("denied")) ELSE events[g]]
            /\ UNCHANGED <<listeners, raised, cache>>
       ELSE UNCHANGED <<listenVars, events, targets, pending>>

\* ProcessTargetError and HandleRejectedListen: every listener hears of the
\* error and is gone; a target that is not listened to is ignored, and the
\* acknowledgement that was due for it stays due.
ReadDenied(d) ==
    /\ Head(changes[d]).kind = "denied"
    /\ crossed' = (crossed \/ d \notin targets \/ pending[d] # 1)
    /\ IF d \in targets
       THEN /\ targets' = targets \ {d}
            /\ pending' = [pending EXCEPT ![d] = 0]
            /\ views' = [views EXCEPT ![d] = "none"]
            /\ listeners' = [listeners EXCEPT ![d] = {}]
            /\ events' = [g \in Gets |->
                   IF g \in listeners[d]
                   THEN Append(events[g], Message("denied")) ELSE events[g]]
            /\ UNCHANGED <<raised, cache>>
       ELSE UNCHANGED <<listenVars, events, targets, pending>>

\* OnWatchStreamChange: any message says that the client is online.
OnWatchStreamChange(d) ==
    /\ changes[d] # <<>>
    /\ changes' = [changes EXCEPT ![d] = Tail(@)]
    /\ UpdateState("Online")
    /\ ReadAck(d) \/ ReadShown(d) \/ ReadDenied(d)
    /\ UNCHANGED <<asked, docOf, tasks, muted, answers, stream, idle,
                   requests, watched, shown, server, floor, shared, doubted, drops>>

Next ==
    \/ GetDocument
    \/ \E g \in Gets : AddQueryListener(g) \/ RemoveQueryListener(g) \/ OnEvent(g)
    \/ StreamOpens \/ StreamFails \/ StreamDrops \/ BackoffElapses
    \/ IdleTimeout \/ RestartNetwork \/ OnlineStateTimeout
    \/ \E d \in Docs : \/ ServerWrites(d) \/ ServerAnswers(d)
                       \/ ServerShows(d) \/ OnWatchStreamChange(d)

Spec == Init /\ [][Next]_vars

\* The main queue and the worker queue run what is posted to them, timers fire,
\* an attempt to connect ends one way or the other, and an open connection is
\* answered unless it breaks.
FairSpec ==
    /\ Spec
    /\ WF_vars(\E g \in Gets : AddQueryListener(g) \/ RemoveQueryListener(g))
    /\ \A g \in Gets : WF_vars(OnEvent(g))
    /\ WF_vars(StreamOpens \/ StreamFails)
    /\ WF_vars(BackoffElapses)
    /\ WF_vars(OnlineStateTimeout)
    /\ \A d \in Docs : /\ WF_vars(ServerAnswers(d) \/ ServerShows(d))
                       /\ WF_vars(OnWatchStreamChange(d))

-----------------------------------------------------------------------------
TypeOK ==
    /\ asked \in 0..MaxGets /\ docOf \in [Gets -> Docs]
    /\ tasks \in Seq([op : {"add", "remove"}, g : Gets]) /\ muted \subseteq Gets
    /\ events \in [Gets -> Seq(Answers)] /\ answers \in [Gets -> Seq(Answers)]
    /\ listeners \in [Docs -> SUBSET Gets] /\ raised \subseteq Gets
    /\ views \in [Docs -> {"none", "local", "synced"}]
    /\ cache \in [Docs -> Versions]
    /\ online \in {"Unknown", "Online", "Offline"}
    /\ timer \in BOOLEAN /\ failed \in BOOLEAN
    /\ targets \subseteq Docs /\ stream \in Streams /\ idle \in BOOLEAN
    /\ pending \in [Docs -> Int]
    /\ requests \in [Docs -> Seq({"watch", "unwatch"})]
    /\ changes \in [Docs -> Seq(Messages)]
    /\ watched \in [Docs -> {"no", "added", "current"}]
    /\ shown \in [Docs -> Versions] /\ server \in [Docs -> Versions]
    /\ floor \in [Gets -> Versions] /\ shared \subseteq Gets
    /\ doubted \subseteq Gets /\ crossed \in BOOLEAN /\ drops \in 0..MaxDrops

(***************************************************************************)
(* EventManager, SyncEngine and RemoteStore always agree on what is        *)
(* listened to, through joins, answers that come while a listener is being *)
(* removed, and denials: the assertions "We already listen to query",      *)
(* "Trying to stop listening to a query not found" and "target not         *)
(* currently watched" never fail.                                          *)
(***************************************************************************)
TablesAgree ==
    /\ targets = {d \in Docs : listeners[d] # {}}
    /\ targets = {d \in Docs : views[d] # "none"}
    /\ \A d \in Docs : \A g \in listeners[d] : docOf[g] = d

(***************************************************************************)
(* The stream is alive or coming back while a document is listened to, the *)
(* idle timer runs only when none is, and the online state timer only      *)
(* while the state is Unknown and an attempt to connect is under way: the  *)
(* assertions of OnWatchStreamClose and OnlineStateTracker.                *)
(***************************************************************************)
StreamWanted ==
    /\ targets # {} => Started
    /\ idle => stream = "Open" /\ targets = {}
    /\ timer => online = "Unknown" /\ ~failed /\ Started
    /\ failed => online = "Offline"

(***************************************************************************)
(* A read that was not denied is never forgotten: it is on its way to its  *)
(* listener, waits behind one that may still hear of its document, or has  *)
(* its answer on the main queue; and a listener keeps waiting only while   *)
(* there is hope, the view not synced and the client not offline.          *)
(***************************************************************************)
NobodyForgotten ==
    \A g \in Waiting :
        \/ \E i \in 1..Len(tasks) : tasks[i] = Task("add", g)
        \/ events[g] # <<>>
        \/ /\ g \in listeners[docOf[g]] /\ g \notin raised
           /\ views[docOf[g]] = "local" /\ online # "Offline"

(***************************************************************************)
(* What a read hears from the server is not older than the read, although  *)
(* messages of an earlier listen for the document, under the same target   *)
(* id, may still be on their way; unless it joined a listen that was there *)
(* before it, whose view it takes as it is.                                *)
(***************************************************************************)
FreshReads ==
    ~crossed => \A g \in Gets \ shared : \A i \in 1..Len(answers[g]) :
        answers[g][i].kind = "server" => answers[g][i].v >= floor[g]

(***************************************************************************)
(* What the app may rely on: DocumentReads.                                *)
(***************************************************************************)
DR == INSTANCE DocumentReads WITH offline <- (online = "Offline")

(* The read path keeps the promise of DocumentReads at every step.         *)
KeepsReads == DR!RSpec

(***************************************************************************)
(* Every read is answered at last, whether the connection is made or not:  *)
(* again and again, nobody waits.                                          *)
(***************************************************************************)
ReadsAnswered == []<>(Waiting = {} \/ crossed)

(***************************************************************************)
(* "If the timeout is reached, we transition to Offline rather than        *)
(* waiting indefinitely" (online_state_tracker.cc): while a read waits and *)
(* the state is neither Online nor Offline, the timer runs.                *)
(***************************************************************************)
TimeoutRuns == online = "Unknown" /\ targets # {} => timer

=============================================================================
