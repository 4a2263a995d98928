--------------------------- MODULE FirestoreWrites ---------------------------
(***************************************************************************)
(* The write path of the Firestore client GMM links: SyncEngine and        *)
(* LocalStore file a write under the user they know, RemoteStore keeps a   *)
(* pipeline of that user's oldest batches and sends them on one WriteStream*)
(* whose connection can fail at any step.  A result names no batch: it is  *)
(* taken for the front of the pipeline, and so is the status that ends the *)
(* stream.  Auth announces a change of session through the main queue, so  *)
(* Firestore learns of it late.                                            *)
(*                                                                         *)
(* The worker queue runs one task at a time, and each is one action here.  *)
(* Open and Healthy are one state, and the stream token, which the         *)
(* handshake does not send, is left out.  Of the server it is assumed that *)
(* it takes a stream's writes in order and applies nothing of a stream     *)
(* once the client has closed it; the rules are not in the repository, so  *)
(* what it does to a write under another user's credentials is left open.  *)
(***************************************************************************)
EXTENDS Naturals, FiniteSets, Sequences

CONSTANTS
    Uids, NoUid,
    MaxPipeline,    \* kMaxPendingWrites
    \* Bounds: writes of the app, announcements of Auth, and failures (of a
    \* stream, of the network, of the process).
    MaxWrites, MaxChanges, MaxFailures

Users == Uids \cup {NoUid}

Writes == 1..MaxWrites

ASSUME UidsAssumption == NoUid \notin Uids

ASSUME BoundsAssumption ==
    /\ MaxPipeline \in Nat \ {0}
    /\ MaxWrites \in Nat
    /\ MaxChanges \in Nat
    /\ MaxFailures \in Nat

VARIABLES
    \* FIRAuth: the current user, and the announcements on the main queue
    authUser, notices,
    \* SyncEngine and LocalStore: the user they serve, the completion handlers
    \* by batch id; in LevelDB, the batches of each user
    user, callbacks, queue, nextId,
    \* RemoteStore and WriteStream
    pipeline, stream, ticket, handshake, idle,
    \* the open stream: writes on their way, results on theirs, and whether a
    \* write has been refused, which ends the stream
    sent, results, refusal,
    \* history: the writes made, those applied, the last one applied to each
    \* user's document, what each completion handler heard, and the documents
    \* one of whose writes was filed or sent as another user's
    filed, writes, applied, latest, told, stray,
    \* progress towards the bounds
    changes, failures

authVars   == <<authUser, notices, changes>>
localVars  == <<user, callbacks, queue, nextId>>
streamVars == <<stream, ticket, handshake, idle, sent, results, refusal>>
madeVars   == <<filed, writes>>
serverVars == <<applied, latest, stray>>
vars == <<authVars, localVars, pipeline, streamVars, madeVars, serverVars,
          told, failures>>

Streams  == {"Initial", "Starting", "Open", "Error", "Backoff"}
Refusals == {"none", "refused", "overtakes"}
Outcomes == {"none", "ok", "refused"}

\* A mutation batch and an entry of mutation_callbacks_ name the same things:
\* the id, which is reused, and the write.
Batch == [id : Nat \ {0}, w : Writes]

Batches == UNION {queue[u] : u \in Users}

Front(P) == {b \in P : \A c \in P : b.id <= c.id}

Init ==
    /\ authUser \in Users /\ user = authUser /\ notices = <<>> /\ changes = 0
    /\ callbacks = [u \in Users |-> {}] /\ queue = [u \in Users |-> {}]
    /\ nextId = 1 /\ pipeline = {}
    /\ stream = "Initial" /\ ticket = NoUid /\ handshake = FALSE
    /\ idle = FALSE /\ sent = {} /\ results = {} /\ refusal = "none"
    /\ filed = 0 /\ writes = [w \in Writes |-> [doc |-> NoUid, good |-> FALSE]]
    /\ applied = {} /\ latest = [u \in Users |-> 0] /\ stray = {}
    /\ told = [w \in Writes |-> "none"] /\ failures = 0

-----------------------------------------------------------------------------
(***************************************************************************)
(* The pipeline.                                                           *)
(***************************************************************************)

\* The batches of Q that FillWritePipeline has not retrieved yet: those after
\* the last one of the pipeline P.
After(P, Q) == {b \in Q : \A p \in P : p.id < b.id}

\* FillWritePipeline appends the next ones, in order, until the pipeline is
\* full or there are none left.
Filled(P, Q) ==
    {P \cup N : N \in {S \in SUBSET After(P, Q) :
        /\ \A b \in S, c \in After(P, Q) : c.id < b.id => c \in S
        /\ Cardinality(P) + Cardinality(S) <= MaxPipeline
        /\ \/ S = After(P, Q)
           \/ Cardinality(P) + Cardinality(S) = MaxPipeline}}

\* Mutant: what is appended is not sent.
FillOpenUnsent(P, Q) ==
    /\ pipeline' \in Filled(P, Q)
    /\ sent' = sent
    /\ idle' = (pipeline' = {})
    /\ UNCHANGED <<stream, ticket, handshake>>

\* Mutant: sending does not cancel the idle timer.
FillOpenTicking(P, Q) ==
    /\ pipeline' \in Filled(P, Q)
    /\ sent' = sent \cup (pipeline' \ P)
    /\ idle' = (idle \/ pipeline' = {})
    /\ UNCHANGED <<stream, ticket, handshake>>

\* FillWritePipeline on a stream past its handshake: what is appended is sent,
\* which cancels the idle timer, and an empty pipeline starts it.
FillOpen(P, Q) ==
    /\ pipeline' \in Filled(P, Q)
    /\ sent' = sent \cup (pipeline' \ P)
    /\ idle' = ((idle /\ pipeline' = P) \/ pipeline' = {})
    /\ UNCHANGED <<stream, ticket, handshake>>

\* Mutant: the stream is left as it is.
FillClosedIdly(P, Q, state) == pipeline' \in Filled(P, Q) /\ stream' = state

\* FillWritePipeline otherwise: the stream is started if it is wanted and is
\* not yet, after a pause when it ended in an error.
FillClosed(P, Q, state) ==
    /\ pipeline' \in Filled(P, Q)
    /\ stream' = CASE pipeline' = {}      -> state
                   [] state = "Initial"   -> "Starting"
                   [] state = "Error"     -> "Backoff"
                   [] OTHER               -> state

\* Mutant: the results of the old connection are still read.
ClosedListening ==
    /\ ticket' = NoUid /\ handshake' = FALSE /\ idle' = FALSE /\ sent' = {}
    /\ UNCHANGED results /\ refusal' = "none"

\* Close: whatever the old connection still carries is lost.
Closed ==
    /\ ticket' = NoUid
    /\ handshake' = FALSE
    /\ idle' = FALSE
    /\ sent' = {}
    /\ results' = {}
    /\ refusal' = "none"

\* Mutant: the pipeline is not emptied.
RestartNetworkKeeping(u) == FillClosed(pipeline, queue[u], "Initial") /\ Closed

\* RestartNetwork: the stream stopped, the pipeline emptied and filled again.
RestartNetwork(u) == FillClosed({}, queue[u], "Initial") /\ Closed

\* Mutant: the greatest id, not one more.
LoadLastBatchId ==
    \E n \in {0} \cup {b.id : b \in Batches} :
        /\ \A b \in Batches : b.id <= n
        /\ nextId' = n

\* LoadNextBatchIdFromDb: one more than the greatest id of any user's batches,
\* so that the ids of settled batches can come again.
LoadNextBatchId ==
    \E n \in {1} \cup {b.id + 1 : b \in Batches} :
        /\ \A b \in Batches : b.id < n
        /\ nextId' = n

\* NotifyUser: the completion handler filed under that id hears, once.
NotifyUser(b, outcome) ==
    /\ told' = [w \in Writes |-> IF [id |-> b.id, w |-> w] \in callbacks[user]
                                 THEN outcome ELSE told[w]]
    /\ callbacks' = [callbacks EXCEPT ![user] = {c \in @ : c.id # b.id}]

\* AcknowledgeBatch and RejectBatch both remove the batch.
RemoveBatch(b) == queue' = [queue EXCEPT ![user] = @ \ {b}]

-----------------------------------------------------------------------------
(***************************************************************************)
(* Auth and the app.                                                       *)
(***************************************************************************)

\* updateCurrentUser: the session is another one, or has another token; the
\* announcement is posted to the main queue.
SessionChanges ==
    /\ changes < MaxChanges
    /\ changes' = changes + 1
    /\ authUser' \in Users
    /\ notices' = Append(notices, authUser')
    /\ UNCHANGED <<localVars, pipeline, streamVars, madeVars, serverVars, told,
                   failures>>

\* Mutant: the mutation queue is swapped under a stream that goes on.
DeliverQuietly ==
    /\ notices # <<>>
    /\ notices' = Tail(notices)
    /\ user' = Head(notices)
    /\ LoadNextBatchId
    /\ pipeline' \in Filled({}, queue[user'])
    /\ UNCHANGED <<authUser, changes, callbacks, queue, streamVars, madeVars,
                   serverVars, told, failures>>

\* The announcement arrives: HandleCredentialChange swaps the mutation queue
\* if the user is another one, and restarts the streams in any case.
Deliver ==
    /\ notices # <<>>
    /\ notices' = Tail(notices)
    /\ user' = Head(notices)
    /\ IF user' # user THEN LoadNextBatchId ELSE UNCHANGED nextId
    /\ RestartNetwork(user')
    /\ UNCHANGED <<authUser, changes, callbacks, queue, madeVars, serverVars,
                   told, failures>>

\* WriteMutations: the app writes the document of the user Auth names; the
\* batch is filed under the user Firestore knows.  Whether the server will
\* take the write is decided by what it says.
File ==
    /\ filed < MaxWrites
    /\ authUser \in Uids
    /\ filed' = filed + 1
    /\ \E good \in BOOLEAN :
           writes' = [writes EXCEPT ![filed'] = [doc |-> authUser, good |-> good]]
    /\ LET b == [id |-> nextId, w |-> filed'] IN
           /\ queue' = [queue EXCEPT ![user] = @ \cup {b}]
           \* insert: an entry already under that id stays
           /\ callbacks' = [callbacks EXCEPT ![user] =
                  IF \E c \in @ : c.id = b.id THEN @ ELSE @ \cup {b}]
    /\ nextId' = nextId + 1
    /\ IF handshake
       THEN FillOpen(pipeline, queue'[user])
       ELSE /\ FillClosed(pipeline, queue'[user], stream)
            /\ UNCHANGED <<ticket, handshake, idle, sent>>
    /\ stray' = IF user = authUser THEN stray ELSE stray \cup {authUser}
    /\ UNCHANGED <<authVars, user, results, refusal, applied, latest, told,
                   failures>>

-----------------------------------------------------------------------------
(***************************************************************************)
(* The stream.                                                             *)
(***************************************************************************)

\* GetToken takes the token of the user Auth has now, whose announcement may
\* still be on its way; the stream opens with it and sends the handshake.
StreamOpens ==
    /\ stream = "Starting"
    /\ stream' = "Open"
    /\ ticket' = authUser
    /\ UNCHANGED <<authVars, localVars, pipeline, handshake, idle, sent,
                   results, refusal, madeVars, serverVars, told, failures>>

\* OnWriteStreamHandshakeComplete sends the whole pipeline.
HandshakeCompletes ==
    /\ stream = "Open" /\ ~handshake
    /\ handshake' = TRUE
    /\ sent' = pipeline
    /\ UNCHANGED <<authVars, localVars, pipeline, stream, ticket, idle, results,
                   refusal, madeVars, serverVars, told, failures>>

\* The server takes the oldest write, under the credentials of the stream.
Foreign(w) == writes[w].doc # ticket

ServerApplies ==
    /\ refusal = "none"
    /\ \E b \in Front(sent) :
           /\ writes[b.w].good \/ Foreign(b.w)
           /\ sent' = sent \ {b}
           /\ results' = results \cup {b}
           /\ applied' = applied \cup {b.w}
           /\ latest' = [latest EXCEPT ![writes[b.w].doc] = b.w]
           /\ stray' = IF Foreign(b.w) THEN stray \cup {writes[b.w].doc} ELSE stray
    /\ UNCHANGED <<authVars, localVars, pipeline, stream, ticket, handshake,
                   idle, refusal, madeVars, told, failures>>

ServerRefuses ==
    /\ refusal = "none"
    /\ \E b \in Front(sent) :
           /\ ~writes[b.w].good \/ Foreign(b.w)
           /\ stray' = IF Foreign(b.w) THEN stray \cup {writes[b.w].doc} ELSE stray
    /\ refusal' = "refused"
    /\ UNCHANGED <<authVars, localVars, pipeline, stream, ticket, handshake,
                   idle, sent, results, madeVars, applied, latest, told,
                   failures>>

\* OnWriteStreamMutationResult: the oldest result settles the front of the
\* pipeline.  A write sent behind a refused one fails by itself, and then the
\* status is taken before the results that have not been read.
ResultRead ==
    /\ \E r \in Front(results) : results' = results \ {r}
    /\ \E b \in Front(pipeline) :
           /\ NotifyUser(b, "ok")
           /\ RemoveBatch(b)
           /\ FillOpen(pipeline \ {b}, queue'[user])
    /\ refusal' = IF refusal = "refused" /\ Cardinality(sent) > 1
                  THEN "overtakes" ELSE refusal
    /\ UNCHANGED <<authVars, user, nextId, madeVars, serverVars, failures>>

\* The stream ends with a permanent error after the handshake:
\* HandleWriteError rejects the front of the pipeline and goes on at once.
RefusalRead ==
    /\ refusal = "overtakes" \/ (refusal = "refused" /\ results = {})
    /\ \E b \in Front(pipeline) :
           /\ NotifyUser(b, "refused")
           /\ RemoveBatch(b)
           /\ FillClosed(pipeline \ {b}, queue'[user], "Initial")
    /\ Closed
    /\ UNCHANGED <<authVars, user, nextId, madeVars, serverVars, failures>>

\* Mutant: every error of the stream rejects a write.
StreamFailsForGood ==
    /\ failures < MaxFailures
    /\ failures' = failures + 1
    /\ stream = "Open"
    /\ \E b \in Front(pipeline) :
           /\ NotifyUser(b, "refused")
           /\ RemoveBatch(b)
           /\ FillClosed(pipeline \ {b}, queue'[user], "Initial")
    /\ Closed
    /\ UNCHANGED <<authVars, user, nextId, madeVars, serverVars>>

\* The stream ends with any other error, or its token cannot be had: it is
\* retried after a pause if there is something to send.
StreamFails ==
    /\ failures < MaxFailures
    /\ failures' = failures + 1
    /\ stream \in {"Starting", "Open"}
    /\ stream' = IF pipeline = {} THEN "Error" ELSE "Backoff"
    /\ Closed
    /\ UNCHANGED <<authVars, localVars, pipeline, madeVars, serverVars, told>>

BackoffElapses ==
    /\ stream = "Backoff"
    /\ stream' = "Starting"
    /\ UNCHANGED <<authVars, localVars, pipeline, ticket, handshake, idle, sent,
                   results, refusal, madeVars, serverVars, told, failures>>

\* The idle timer stops the stream.
IdleTimeout ==
    /\ idle
    /\ stream' = "Initial"
    /\ Closed
    /\ UNCHANGED <<authVars, localVars, pipeline, madeVars, serverVars, told,
                   failures>>

\* The phone is on another network: the streams are restarted.
ConnectivityChanges ==
    /\ failures < MaxFailures
    /\ failures' = failures + 1
    /\ RestartNetwork(user)
    /\ UNCHANGED <<authVars, localVars, madeVars, serverVars, told>>

\* The process ends and starts again with what LevelDB and the keychain hold.
Restart ==
    /\ failures < MaxFailures
    /\ failures' = failures + 1
    /\ user' = authUser
    /\ notices' = <<>>
    /\ callbacks' = [u \in Users |-> {}]
    /\ LoadNextBatchId
    /\ RestartNetwork(authUser)
    /\ UNCHANGED <<authUser, changes, queue, madeVars, serverVars, told>>

Next ==
    \/ SessionChanges \/ Deliver \/ File
    \/ StreamOpens \/ HandshakeCompletes
    \/ ServerApplies \/ ServerRefuses \/ ResultRead \/ RefusalRead
    \/ StreamFails \/ BackoffElapses \/ IdleTimeout
    \/ ConnectivityChanges \/ Restart

Spec == Init /\ [][Next]_vars

\* The main queue and the worker queue run what is posted to them, a timer
\* fires, and a connection that does not fail is answered.
FairSpec ==
    /\ Spec
    /\ WF_vars(Deliver)
    /\ WF_vars(StreamOpens) /\ WF_vars(HandshakeCompletes)
    /\ WF_vars(ServerApplies \/ ServerRefuses)
    /\ WF_vars(ResultRead \/ RefusalRead)
    /\ WF_vars(BackoffElapses)

-----------------------------------------------------------------------------
TypeOK ==
    /\ authUser \in Users /\ notices \in Seq(Users)
    /\ user \in Users
    /\ callbacks \in [Users -> SUBSET Batch] /\ queue \in [Users -> SUBSET Batch]
    /\ nextId \in Nat \ {0} /\ pipeline \subseteq Batch
    /\ stream \in Streams /\ ticket \in Users
    /\ handshake \in BOOLEAN /\ idle \in BOOLEAN
    /\ sent \subseteq Batch /\ results \subseteq Batch /\ refusal \in Refusals
    /\ filed \in 0..MaxWrites
    /\ writes \in [Writes -> [doc : Users, good : BOOLEAN]]
    /\ applied \subseteq Writes /\ latest \in [Users -> 0..MaxWrites]
    /\ told \in [Writes -> Outcomes] /\ stray \subseteq Users
    /\ changes \in 0..MaxChanges /\ failures \in 0..MaxFailures

(***************************************************************************)
(* The pipeline holds the oldest batches of the user Firestore serves, and *)
(* is empty only if there are none: no change of user, refusal or restart  *)
(* leaves a batch behind or takes one of another user (FillWritePipeline   *)
(* asks the local store only for what comes after the last it has).        *)
(***************************************************************************)
PipelineIsFront ==
    /\ pipeline \subseteq queue[user]
    /\ \A b \in pipeline, c \in queue[user] : c.id < b.id => c \in pipeline
    /\ pipeline = {} => queue[user] = {}

(***************************************************************************)
(* OnWriteStreamMutationResult settles the front of the pipeline, whatever *)
(* the result is of: it is right because, after the handshake, what is on  *)
(* the stream is the pipeline, results first; and before it, nothing is.   *)
(***************************************************************************)
Correlated ==
    /\ sent \cup results = IF handshake THEN pipeline ELSE {}
    /\ sent \cap results = {}
    /\ \A r \in results, s \in sent : r.id < s.id
    /\ \A r \in results : r.w \in applied
    /\ refusal # "none" => sent # {}

(***************************************************************************)
(* Batch ids come again after a change of user or a restart; still, the    *)
(* completion handler NotifyUser finds under the id of a batch is that of  *)
(* its own write.                                                          *)
(***************************************************************************)
CallbackIsOwn == \A u \in Users : callbacks[u] \subseteq queue[u]

(***************************************************************************)
(* The stream is alive or coming back while there is something to send,    *)
(* and the idle timer runs only when there is nothing: the assertion of    *)
(* OnWriteStreamClose that no stream is stopped while it is needed.        *)
(***************************************************************************)
StreamNeeded ==
    /\ pipeline # {} => stream \in {"Starting", "Open", "Backoff"}
    /\ idle => stream = "Open" /\ pipeline = {}
    /\ handshake => stream = "Open"

(***************************************************************************)
(* When no announcement of Auth is under way, Firestore serves the user of *)
(* the session, and an open stream carries that user's credentials: a      *)
(* token read early or a user learned late does not outlast them.          *)
(***************************************************************************)
CredentialsCatchUp ==
    notices = <<>> => /\ user = authUser
                      /\ stream = "Open" => ticket = user

(***************************************************************************)
(* A write the server would take is applied or still queued, through       *)
(* retries, refusals of others, changes of user and crashes; unless a      *)
(* write of its document was filed or sent as another user's.              *)
(***************************************************************************)
GoodWritesKept ==
    \A w \in 1..filed :
        writes[w].good /\ writes[w].doc \notin stray
            => w \in applied \/ \E b \in Batches : b.w = w

(***************************************************************************)
(* Once nothing of a document waits, the server holds its last write: a    *)
(* retry that applies an old write again does not have the last word.      *)
(***************************************************************************)
Converged ==
    \A u \in Uids \ stray :
        (\A b \in queue[u] : writes[b.w].doc # u) =>
            \A w \in applied : writes[w].doc = u => w <= latest[u]

(***************************************************************************)
(* What the app may rely on: WriteQueue.                                   *)
(***************************************************************************)
WQ == INSTANCE WriteQueue WITH
          pending <- [u \in Users |-> {b.w : b \in queue[u]}],
          waiting <- [u \in Users |-> {b.w : b \in callbacks[u]}]

(* The write path keeps the promise of WriteQueue at every step.           *)
KeepsQueue == WQ!QSpec

(***************************************************************************)
(* When failures and changes of session have come to an end, the writes of *)
(* the user of the session are all settled: no stream stays closed with a  *)
(* batch waiting, and no refused batch blocks those behind it.             *)
(***************************************************************************)
QueueDrains == <>[](user = authUser /\ queue[user] = {})

=============================================================================
