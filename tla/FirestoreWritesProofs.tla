------------------------- MODULE FirestoreWritesProofs -------------------------
(***************************************************************************)
(* For any number of users, writes, changes of session and failures, and   *)
(* any size of pipeline: the pipeline is the front of the queue, a result  *)
(* is that of the batch it settles, and the write path implements          *)
(* WriteQueue.                                                             *)
(***************************************************************************)
EXTENDS FirestoreWrites, FiniteSetTheorems, SequenceTheorems, TLAPS

\* The type invariant by owner.
TypeAuth   == authUser \in Users /\ notices \in Seq(Users) /\ changes \in 0..MaxChanges
TypeLocal  == /\ user \in Users
              /\ callbacks \in [Users -> SUBSET Batch]
              /\ queue \in [Users -> SUBSET Batch]
              /\ nextId \in Nat \ {0}
TypeStream == /\ pipeline \subseteq Batch
              /\ stream \in Streams /\ ticket \in Users
              /\ handshake \in BOOLEAN /\ idle \in BOOLEAN
              /\ sent \subseteq Batch /\ results \subseteq Batch
              /\ refusal \in Refusals
TypeServer == /\ filed \in 0..MaxWrites
              /\ writes \in [Writes -> [doc : Users, good : BOOLEAN]]
              /\ applied \subseteq Writes /\ latest \in [Users -> 0..MaxWrites]
              /\ told \in [Writes -> Outcomes] /\ stray \subseteq Users
              /\ failures \in 0..MaxFailures

LEMMA TypeParts == TypeOK <=> TypeAuth /\ TypeLocal /\ TypeStream /\ TypeServer
BY Zenon DEF TypeOK, TypeAuth, TypeLocal, TypeStream, TypeServer

LEMMA InitType == Init => TypeOK
<1> SUFFICES ASSUME Init PROVE TypeOK
    OBVIOUS
<1> USE BoundsAssumption DEF Init, Users
<1>1. TypeAuth
    BY EmptySeq DEF TypeAuth
<1>2. TypeLocal
    BY DEF TypeLocal
<1>3. TypeStream
    BY DEF TypeStream, Streams, Refusals
<1>4. TypeServer
  <2>1. writes \in [Writes -> [doc : Users, good : BOOLEAN]]
      OBVIOUS
  <2>2. told \in [Writes -> Outcomes] /\ latest \in [Users -> 0..MaxWrites]
      BY DEF Outcomes
  <2> QED
      BY <2>1, <2>2 DEF TypeServer
<1> QED
    BY <1>1, <1>2, <1>3, <1>4, TypeParts

\* What FillWritePipeline leaves in the pipeline are batches.
LEMMA FilledType ==
    ASSUME NEW P \in SUBSET Batch, NEW Q \in SUBSET Batch, NEW R \in Filled(P, Q)
    PROVE  R \subseteq Batch
BY DEF Filled, After

LEMMA FillOpenType ==
    ASSUME TypeStream, NEW P \in SUBSET Batch, NEW Q \in SUBSET Batch,
           FillOpen(P, Q)
    PROVE  /\ pipeline' \subseteq Batch /\ sent' \subseteq Batch
           /\ idle' \in BOOLEAN /\ stream' \in Streams
           /\ ticket' \in Users /\ handshake' \in BOOLEAN
BY FilledType DEF FillOpen, TypeStream

LEMMA FillClosedType ==
    ASSUME NEW P \in SUBSET Batch, NEW Q \in SUBSET Batch,
           NEW state \in Streams, FillClosed(P, Q, state)
    PROVE  pipeline' \subseteq Batch /\ stream' \in Streams
BY FilledType DEF FillClosed, Streams

LEMMA ClosedType ==
    ASSUME Closed
    PROVE  /\ ticket' \in Users /\ handshake' \in BOOLEAN /\ idle' \in BOOLEAN
           /\ sent' \subseteq Batch /\ results' \subseteq Batch
           /\ refusal' \in Refusals
BY DEF Closed, Users, Refusals

LEMMA RestartNetworkType ==
    ASSUME TypeLocal, NEW u \in Users, RestartNetwork(u)
    PROVE  TypeStream'
<1>1. pipeline' \subseteq Batch /\ stream' \in Streams
    BY FillClosedType DEF RestartNetwork, TypeLocal, Streams
<1> QED
    BY <1>1, ClosedType DEF RestartNetwork, TypeStream

\* The id after the greatest one is greater than all.
LEMMA LoadNextBatchIdType ==
    ASSUME TypeLocal, LoadNextBatchId
    PROVE  nextId' \in Nat \ {0} /\ \A b \in Batches : b.id < nextId'
<1>1. Batches \subseteq Batch
    BY DEF TypeLocal, Batches
<1> QED
    BY <1>1 DEF LoadNextBatchId, Batch

\* Telling the app and removing the batch change nothing of another type.
LEMMA SettleType ==
    ASSUME TypeLocal, TypeServer, NEW b \in Batch, NEW outcome \in Outcomes,
           NotifyUser(b, outcome), RemoveBatch(b)
    PROVE  /\ callbacks' \in [Users -> SUBSET Batch]
           /\ queue' \in [Users -> SUBSET Batch]
           /\ told' \in [Writes -> Outcomes]
           /\ queue'[user] = queue[user] \ {b}
BY DEF TypeLocal, TypeServer, NotifyUser, RemoveBatch

LEMMA NextType == TypeOK /\ [Next]_vars => TypeOK'
<1> SUFFICES ASSUME TypeOK, [Next]_vars
             PROVE  TypeAuth' /\ TypeLocal' /\ TypeStream' /\ TypeServer'
    BY Zenon DEF TypeOK, TypeAuth, TypeLocal, TypeStream, TypeServer
<1>0. TypeAuth /\ TypeLocal /\ TypeStream /\ TypeServer
    BY TypeParts
<1>1. CASE SessionChanges
  <2>1. TypeAuth'
    <3>1. authUser' \in Users /\ changes' \in 0..MaxChanges
        BY <1>0, <1>1, BoundsAssumption DEF SessionChanges, TypeAuth
    <3>2. notices' \in Seq(Users)
        BY <1>0, <1>1, <3>1, AppendProperties DEF SessionChanges, TypeAuth
    <3> QED
        BY <3>1, <3>2 DEF TypeAuth
  <2>2. TypeLocal' /\ TypeStream' /\ TypeServer'
      BY <1>0, <1>1 DEF SessionChanges, TypeLocal, TypeStream, TypeServer,
         localVars, streamVars, madeVars, serverVars
  <2> QED
      BY <2>1, <2>2
<1>2. CASE Deliver
  <2>1. notices' \in Seq(Users) /\ user' \in Users
      BY <1>0, <1>2, HeadTailProperties DEF Deliver, TypeAuth
  <2>2. TypeAuth'
      BY <1>0, <1>2, <2>1 DEF Deliver, TypeAuth
  <2>3. nextId' \in Nat \ {0}
      BY <1>0, <1>2, LoadNextBatchIdType DEF Deliver, TypeLocal
  <2>4. TypeLocal'
      BY <1>0, <1>2, <2>1, <2>3 DEF Deliver, TypeLocal
  <2>5. TypeStream'
      BY <1>0, <1>2, <2>1, RestartNetworkType DEF Deliver
  <2>6. TypeServer'
      BY <1>0, <1>2 DEF Deliver, TypeServer, madeVars, serverVars
  <2> QED
      BY <2>2, <2>4, <2>5, <2>6
<1>3. CASE File
  <2> DEFINE b == [id |-> nextId, w |-> filed']
  <2>1. filed' \in Writes /\ b \in Batch
      BY <1>0, <1>3, BoundsAssumption DEF File, TypeServer, TypeLocal, Writes, Batch
  <2>2. TypeAuth'
      BY <1>0, <1>3 DEF File, TypeAuth, authVars
  <2>3. TypeLocal'
      BY <1>0, <1>3, <2>1 DEF File, TypeLocal
  <2>4. TypeStream'
    <3>1. user \in Users /\ queue'[user] \in SUBSET Batch
        BY <1>0, <2>3 DEF TypeLocal
    <3>2. CASE handshake
      <4>1. FillOpen(pipeline, queue'[user])
          BY <1>3, <3>2 DEF File
      <4>2. results' \subseteq Batch /\ refusal' \in Refusals
          BY <1>0, <1>3 DEF File, TypeStream
      <4> QED
          BY <1>0, <3>1, <4>1, <4>2, FillOpenType DEF TypeStream
    <3>3. CASE ~handshake
      <4>1. FillClosed(pipeline, queue'[user], stream)
          BY <1>3, <3>3 DEF File
      <4>2. pipeline' \subseteq Batch /\ stream' \in Streams
          BY <1>0, <3>1, <4>1, FillClosedType DEF TypeStream
      <4> QED
          BY <1>0, <1>3, <3>3, <4>2 DEF File, TypeStream
    <3> QED
        BY <3>2, <3>3
  <2>5. TypeServer'
    <3>1. writes' \in [Writes -> [doc : Users, good : BOOLEAN]]
      <4>1. PICK good \in BOOLEAN :
                writes' = [writes EXCEPT ![filed'] = [doc |-> authUser, good |-> good]]
          BY <1>3 DEF File
      <4>2. [doc |-> authUser, good |-> good] \in [doc : Users, good : BOOLEAN]
          BY <1>0 DEF TypeAuth
      <4> QED
          BY <1>0, <4>1, <4>2 DEF TypeServer
    <3>2. filed' \in 0..MaxWrites /\ stray' \subseteq Users
        BY <1>0, <1>3, <2>1 DEF File, TypeServer, TypeAuth, Writes
    <3> QED
        BY <1>0, <1>3, <3>1, <3>2 DEF File, TypeServer
  <2> QED
      BY <2>2, <2>3, <2>4, <2>5
<1>4. CASE StreamOpens
    BY <1>0, <1>4 DEF StreamOpens, TypeAuth, TypeLocal, TypeStream, TypeServer,
       Streams, authVars, localVars, madeVars, serverVars
<1>5. CASE HandshakeCompletes
    BY <1>0, <1>5 DEF HandshakeCompletes, TypeAuth, TypeLocal, TypeStream,
       TypeServer, authVars, localVars, madeVars, serverVars
<1>6. CASE ServerApplies
  <2>1. PICK b \in Front(sent) :
            /\ sent' = sent \ {b} /\ results' = results \cup {b}
            /\ applied' = applied \cup {b.w}
            /\ latest' = [latest EXCEPT ![writes[b.w].doc] = b.w]
            /\ stray' = IF Foreign(b.w) THEN stray \cup {writes[b.w].doc} ELSE stray
      BY <1>6 DEF ServerApplies
  <2>2. b \in Batch /\ b.w \in Writes /\ b.w \in 0..MaxWrites
      BY <1>0, <2>1 DEF Front, TypeStream, Batch, Writes
  <2>3. writes[b.w].doc \in Users
      BY <1>0, <2>2 DEF TypeServer
  <2>4. latest' \in [Users -> 0..MaxWrites]
      BY <1>0, <2>1, <2>2 DEF TypeServer
  <2>5. TypeServer'
      BY <1>0, <1>6, <2>1, <2>2, <2>3, <2>4 DEF ServerApplies, TypeServer, madeVars
  <2>6. TypeStream'
      BY <1>0, <1>6, <2>1, <2>2 DEF ServerApplies, TypeStream
  <2>7. TypeAuth' /\ TypeLocal'
      BY <1>0, <1>6 DEF ServerApplies, TypeAuth, TypeLocal, authVars, localVars
  <2> QED
      BY <2>5, <2>6, <2>7
<1>7. CASE ServerRefuses
  <2>1. stray' \subseteq Users
    <3>1. PICK b \in Front(sent) :
            stray' = IF Foreign(b.w) THEN stray \cup {writes[b.w].doc} ELSE stray
        BY <1>7 DEF ServerRefuses
    <3>2. b.w \in Writes
        BY <1>0, <3>1 DEF Front, TypeStream, Batch
    <3> QED
        BY <1>0, <3>1, <3>2 DEF TypeServer
  <2>2. TypeServer'
      BY <1>0, <1>7, <2>1 DEF ServerRefuses, TypeServer, madeVars
  <2>3. TypeAuth' /\ TypeLocal' /\ TypeStream'
      BY <1>0, <1>7 DEF ServerRefuses, TypeAuth, TypeLocal, TypeStream, Refusals,
         authVars, localVars
  <2> QED
      BY <2>2, <2>3
<1>8. CASE ResultRead
  <2>1. PICK b \in Front(pipeline) : /\ NotifyUser(b, "ok") /\ RemoveBatch(b)
                                     /\ FillOpen(pipeline \ {b}, queue'[user])
      BY <1>8 DEF ResultRead
  <2>2. b \in Batch /\ "ok" \in Outcomes
      BY <1>0, <2>1 DEF Front, TypeStream, Outcomes
  <2>3. /\ callbacks' \in [Users -> SUBSET Batch]
        /\ queue' \in [Users -> SUBSET Batch] /\ told' \in [Writes -> Outcomes]
      BY <1>0, <2>1, <2>2, SettleType
  <2>4. TypeLocal'
      BY <1>0, <1>8, <2>3 DEF ResultRead, TypeLocal
  <2>5. TypeServer'
      BY <1>0, <1>8, <2>3 DEF ResultRead, TypeServer, madeVars, serverVars
  <2>6. TypeStream'
    <3>1. pipeline \ {b} \in SUBSET Batch /\ queue'[user] \in SUBSET Batch
        BY <1>0, <2>3 DEF TypeStream, TypeLocal
    <3>2. results' \subseteq Batch /\ refusal' \in Refusals
        BY <1>0, <1>8 DEF ResultRead, TypeStream, Refusals
    <3> QED
        BY <1>0, <2>1, <3>1, <3>2, FillOpenType DEF TypeStream
  <2>7. TypeAuth'
      BY <1>0, <1>8 DEF ResultRead, TypeAuth, authVars
  <2> QED
      BY <2>4, <2>5, <2>6, <2>7
<1>9. CASE RefusalRead
  <2>1. PICK b \in Front(pipeline) :
            /\ NotifyUser(b, "refused") /\ RemoveBatch(b)
            /\ FillClosed(pipeline \ {b}, queue'[user], "Initial")
      BY <1>9 DEF RefusalRead
  <2>2. b \in Batch /\ "refused" \in Outcomes
      BY <1>0, <2>1 DEF Front, TypeStream, Outcomes
  <2>3. /\ callbacks' \in [Users -> SUBSET Batch]
        /\ queue' \in [Users -> SUBSET Batch] /\ told' \in [Writes -> Outcomes]
      BY <1>0, <2>1, <2>2, SettleType
  <2>4. TypeLocal'
      BY <1>0, <1>9, <2>3 DEF RefusalRead, TypeLocal
  <2>5. TypeServer'
      BY <1>0, <1>9, <2>3 DEF RefusalRead, TypeServer, madeVars, serverVars
  <2>6. TypeStream'
    <3>1. pipeline \ {b} \in SUBSET Batch /\ queue'[user] \in SUBSET Batch
        BY <1>0, <2>3 DEF TypeStream, TypeLocal
    <3>2. pipeline' \subseteq Batch /\ stream' \in Streams
        BY <2>1, <3>1, FillClosedType DEF Streams
    <3> QED
        BY <1>9, <3>2, ClosedType DEF RefusalRead, TypeStream
  <2>7. TypeAuth'
      BY <1>0, <1>9 DEF RefusalRead, TypeAuth, authVars
  <2> QED
      BY <2>4, <2>5, <2>6, <2>7
<1>10. CASE StreamFails
  <2>1. TypeStream'
      BY <1>0, <1>10, ClosedType DEF StreamFails, TypeStream, Streams
  <2>2. TypeAuth' /\ TypeLocal' /\ TypeServer'
      BY <1>0, <1>10, BoundsAssumption DEF StreamFails, TypeAuth, TypeLocal,
         TypeServer, authVars, localVars, madeVars, serverVars
  <2> QED
      BY <2>1, <2>2
<1>11. CASE BackoffElapses
    BY <1>0, <1>11 DEF BackoffElapses, TypeAuth, TypeLocal, TypeStream,
       TypeServer, Streams, authVars, localVars, madeVars, serverVars
<1>12. CASE IdleTimeout
  <2>1. TypeStream'
      BY <1>0, <1>12, ClosedType DEF IdleTimeout, TypeStream, Streams
  <2>2. TypeAuth' /\ TypeLocal' /\ TypeServer'
      BY <1>0, <1>12 DEF IdleTimeout, TypeAuth, TypeLocal, TypeServer,
         authVars, localVars, madeVars, serverVars
  <2> QED
      BY <2>1, <2>2
<1>13. CASE ConnectivityChanges
  <2>1. TypeStream'
      BY <1>0, <1>13, RestartNetworkType DEF ConnectivityChanges, TypeLocal
  <2>2. TypeAuth' /\ TypeLocal' /\ TypeServer'
      BY <1>0, <1>13, BoundsAssumption DEF ConnectivityChanges, TypeAuth,
         TypeLocal, TypeServer, authVars, localVars, madeVars, serverVars
  <2> QED
      BY <2>1, <2>2
<1>14. CASE Restart
  <2>1. TypeStream'
      BY <1>0, <1>14, RestartNetworkType DEF Restart, TypeAuth
  <2>2. TypeAuth'
      BY <1>0, <1>14, EmptySeq DEF Restart, TypeAuth
  <2>3. TypeLocal'
      BY <1>0, <1>14, LoadNextBatchIdType DEF Restart, TypeLocal, TypeAuth
  <2>4. TypeServer'
      BY <1>0, <1>14, BoundsAssumption DEF Restart, TypeServer, madeVars, serverVars
  <2> QED
      BY <2>1, <2>2, <2>3, <2>4
<1>15. CASE UNCHANGED vars
    BY <1>0, <1>15 DEF vars, TypeAuth, TypeLocal, TypeStream, TypeServer, authVars,
       localVars, streamVars, madeVars, serverVars
<1> QED
    BY <1>1, <1>2, <1>3, <1>4, <1>5, <1>6, <1>7, <1>8, <1>9, <1>10, <1>11, <1>12,
       <1>13, <1>14, <1>15 DEF Next

(***************************************************************************)
(* Every variable of the write path keeps its type.                        *)
(***************************************************************************)
THEOREM TypeCorrect == Spec => []TypeOK
BY InitType, NextType, PTL DEF Spec


-----------------------------------------------------------------------------
(***************************************************************************)
(* The queues: ids are in the order of the writes, one to a batch, and     *)
(* below the next one, whoever's queue they are in.                        *)
(***************************************************************************)
Fresh == \A u \in Users : \A b \in queue[u] : b.id < nextId /\ b.w <= filed

Ascending(Q) == \A b, c \in Q : /\ b.id = c.id => b = c
                                /\ b.id < c.id => b.w < c.w

Ordered == \A u \in Users : Ascending(queue[u])

\* P is the beginning of Q, as far as it goes.
IsFrontOf(P, Q) ==
    /\ P \subseteq Q
    /\ \A b \in P, c \in Q : c.id < b.id => c \in P

\* A stream past its handshake is open, and only such a one is idle.
IdleShaken == idle => handshake

QueueInv == /\ Fresh /\ Ordered /\ PipelineIsFront /\ Correlated
            /\ CallbackIsOwn /\ StreamNeeded /\ IdleShaken

\* FillWritePipeline continues the front of the queue, and leaves nothing only
\* if there is nothing.
LEMMA FilledFront ==
    ASSUME NEW P \in SUBSET Batch, NEW Q \in SUBSET Batch, Ascending(Q),
           IsFrontOf(P, Q), NEW R \in Filled(P, Q)
    PROVE  IsFrontOf(R, Q) /\ P \subseteq R /\ (R = {} => Q = {})
<1>1. PICK N \in SUBSET After(P, Q) :
          /\ R = P \cup N
          /\ \A b \in N, c \in After(P, Q) : c.id < b.id => c \in N
          /\ N = After(P, Q) \/ Cardinality(P) + Cardinality(N) = MaxPipeline
    BY DEF Filled
<1>2. \A b \in R, c \in Q : c.id < b.id => c \in R
  <2> SUFFICES ASSUME NEW b \in R, NEW c \in Q, c.id < b.id PROVE c \in R
      OBVIOUS
  <2>1. CASE b \in P
      BY <1>1, <2>1 DEF IsFrontOf
  <2>2. CASE b \in N /\ c \in After(P, Q)
      BY <1>1, <2>2
  <2>3. CASE c \notin After(P, Q)
    <3>1. PICK p \in P : ~(p.id < c.id)
        BY <2>3 DEF After
    <3>2. p \in Q /\ p.id \in Nat /\ c.id \in Nat
        BY DEF IsFrontOf, Batch
    <3>3. c.id < p.id \/ c.id = p.id
        BY <3>1, <3>2
    <3> QED
        BY <1>1, <3>2, <3>3 DEF IsFrontOf, Ascending
  <2> QED
      BY <1>1, <2>1, <2>2, <2>3
<1>3. R = {} => Q = {}
  <2> SUFFICES ASSUME R = {} PROVE Q = {}
      OBVIOUS
  <2>1. P = {} /\ N = {}
      BY <1>1
  <2>2. Cardinality(P) + Cardinality(N) # MaxPipeline
      BY <2>1, FS_EmptySet, BoundsAssumption
  <2> QED
      BY <1>1, <2>1, <2>2 DEF After
<1>4. R \subseteq Q
    BY <1>1 DEF After, IsFrontOf
<1> QED
    BY <1>1, <1>2, <1>3, <1>4 DEF IsFrontOf

\* Without its first batch the pipeline is the front of the queue without it.
LEMMA RemovedFront ==
    ASSUME NEW P \in SUBSET Batch, NEW Q \in SUBSET Batch, Ascending(Q),
           IsFrontOf(P, Q), NEW b \in Front(P)
    PROVE  /\ IsFrontOf(P \ {b}, Q \ {b})
           /\ Ascending(Q \ {b})
           /\ b \in Q /\ \A c \in Q : b.id <= c.id
<1>1. \A c \in Q : b.id <= c.id
    BY DEF Front, IsFrontOf, Batch
<1> QED
    BY <1>1 DEF Front, IsFrontOf, Ascending

\* Starting from nothing, the pipeline is the front of the queue.
LEMMA EmptyFront == \A Q : IsFrontOf({}, Q)
BY DEF IsFrontOf

\* FillWritePipeline starts the stream when it is wanted.
LEMMA FillClosedNeeded ==
    ASSUME NEW P \in SUBSET Batch, NEW Q \in SUBSET Batch, Ascending(Q),
           IsFrontOf(P, Q), NEW state \in Streams, FillClosed(P, Q, state)
    PROVE  /\ IsFrontOf(pipeline', Q) /\ (pipeline' = {} => Q = {})
           /\ pipeline' # {} => stream' \in {"Starting", "Open", "Backoff"}
           /\ state \notin {"Initial", "Error"} => stream' = state
BY FilledFront DEF FillClosed, Streams

\* FillWritePipeline on a stream past its handshake sends what it appends.
LEMMA FillOpenNeeded ==
    ASSUME NEW P \in SUBSET Batch, NEW Q \in SUBSET Batch, Ascending(Q),
           IsFrontOf(P, Q), FillOpen(P, Q)
    PROVE  /\ IsFrontOf(pipeline', Q) /\ (pipeline' = {} => Q = {})
           /\ P \subseteq pipeline' /\ sent' = sent \cup (pipeline' \ P)
           /\ \A b \in P, c \in pipeline' \ P : b.id < c.id
           /\ idle' => pipeline' = {} \/ (idle /\ pipeline' = P)
           /\ stream' = stream /\ handshake' = handshake
<1>1. pipeline' \in Filled(P, Q)
    BY DEF FillOpen
<1>2. \A b \in P, c \in pipeline' \ P : b.id < c.id
    BY <1>1 DEF Filled, After
<1> QED
    BY <1>1, <1>2, FilledFront DEF FillOpen

LEMMA InitQueueInv == Init => QueueInv
BY DEF Init, QueueInv, Fresh, Ordered, Ascending, PipelineIsFront, Correlated,
   CallbackIsOwn, StreamNeeded, IdleShaken


\* What the last part of the invariant says is about one user's queue.
LEMMA QueueTypes ==
    ASSUME TypeOK
    PROVE  /\ user \in Users /\ \A u \in Users : queue[u] \in SUBSET Batch
           /\ pipeline \in SUBSET Batch
BY DEF TypeOK

\* RestartNetwork builds the pipeline and the stream anew.
LEMMA RestartNetworkInv ==
    ASSUME TypeOK, Ordered, NEW u \in Users, RestartNetwork(u),
           user' = u, queue' = queue
    PROVE  PipelineIsFront' /\ Correlated' /\ StreamNeeded' /\ IdleShaken'
<1>1. Ascending(queue[u]) /\ queue[u] \in SUBSET Batch
    BY QueueTypes DEF Ordered
<1>2. /\ IsFrontOf(pipeline', queue[u]) /\ (pipeline' = {} => queue[u] = {})
      /\ pipeline' # {} => stream' \in {"Starting", "Open", "Backoff"}
    BY <1>1, FillClosedNeeded, EmptyFront DEF RestartNetwork, Streams
<1>3. PipelineIsFront'
    BY <1>2 DEF PipelineIsFront, IsFrontOf
<1>4. Correlated' /\ StreamNeeded' /\ IdleShaken'
    BY <1>2 DEF RestartNetwork, Closed, Correlated, StreamNeeded, IdleShaken
<1> QED
    BY <1>3, <1>4

\* Settling the front of the pipeline keeps the queues in order and the
\* completion handlers with their batches.
LEMMA SettledQueues ==
    ASSUME TypeOK, Fresh, Ordered, PipelineIsFront, CallbackIsOwn,
           NEW b \in Front(pipeline), NEW outcome \in Outcomes,
           NotifyUser(b, outcome), RemoveBatch(b),
           user' = user, nextId' = nextId, filed' = filed
    PROVE  /\ Fresh' /\ Ordered' /\ CallbackIsOwn'
           /\ b \in queue[user] /\ \A c \in queue[user] : b.id <= c.id
           /\ queue'[user] = queue[user] \ {b}
           /\ queue'[user] \in SUBSET Batch /\ Ascending(queue'[user])
           /\ IsFrontOf(pipeline \ {b}, queue'[user])
<1>1. Ascending(queue[user]) /\ IsFrontOf(pipeline, queue[user])
    BY QueueTypes DEF Ordered, PipelineIsFront, IsFrontOf
<1>2. /\ IsFrontOf(pipeline \ {b}, queue[user] \ {b})
      /\ Ascending(queue[user] \ {b})
      /\ b \in queue[user] /\ \A c \in queue[user] : b.id <= c.id
    BY <1>1, QueueTypes, RemovedFront
<1>3. /\ queue'[user] = queue[user] \ {b}
      /\ \A u \in Users : u # user => queue'[u] = queue[u]
    BY DEF RemoveBatch, TypeOK
<1>4. /\ callbacks'[user] = {c \in callbacks[user] : c.id # b.id}
      /\ \A u \in Users : u # user => callbacks'[u] = callbacks[u]
    BY DEF NotifyUser, TypeOK
<1>5. Fresh'
    BY <1>3 DEF Fresh
<1>6. Ordered'
    BY <1>2, <1>3 DEF Ordered
<1>7. CallbackIsOwn'
    BY <1>3, <1>4 DEF CallbackIsOwn
<1> QED
    BY <1>2, <1>3, <1>5, <1>6, <1>7, QueueTypes

\* The oldest result is that of the front of the pipeline.
LEMMA ResultIsFront ==
    ASSUME TypeOK, Ordered, PipelineIsFront, Correlated,
           NEW r \in Front(results), NEW b \in Front(pipeline)
    PROVE  r = b /\ b \notin sent /\ handshake
<1>1. handshake /\ sent \cup results = pipeline
    BY DEF Correlated, Front
<1>2. r \in pipeline /\ r.id \in Nat /\ b.id \in Nat /\ b.id <= r.id
    BY <1>1 DEF Front, TypeOK, Batch
<1>3. b \notin sent
    BY <1>2 DEF Correlated, Front
<1>4. r.id <= b.id
    BY <1>1, <1>3 DEF Front
<1>5. r.id = b.id
    BY <1>2, <1>4
<1>6. r \in queue[user] /\ b \in queue[user]
    BY <1>2 DEF PipelineIsFront, Front
<1> QED
    BY <1>1, <1>3, <1>5, <1>6, QueueTypes DEF Ordered, Ascending

LEMMA NextQueueInv == TypeOK /\ QueueInv /\ [Next]_vars => QueueInv'
<1> SUFFICES ASSUME TypeOK, QueueInv, [Next]_vars PROVE QueueInv'
    OBVIOUS
<1>0. /\ Fresh /\ Ordered /\ PipelineIsFront /\ Correlated
      /\ CallbackIsOwn /\ StreamNeeded /\ IdleShaken
    BY DEF QueueInv
<1>1. CASE SessionChanges
    BY <1>0, <1>1 DEF SessionChanges, QueueInv, Fresh, Ordered, PipelineIsFront,
       Correlated, CallbackIsOwn, StreamNeeded, IdleShaken, localVars,
       streamVars, madeVars, serverVars
<1>2. CASE Deliver
  <2>1. user' \in Users
      BY <1>2, HeadTailProperties DEF Deliver, TypeOK
  <2>2. PipelineIsFront' /\ Correlated' /\ StreamNeeded' /\ IdleShaken'
      BY <1>0, <1>2, <2>1, RestartNetworkInv DEF Deliver
  <2>3. TypeLocal
      BY TypeParts
  <2>4. Fresh'
      BY <1>0, <1>2, <2>3, LoadNextBatchIdType DEF Deliver, Fresh, Batches, madeVars
  <2> QED
      BY <1>0, <1>2, <2>2, <2>4 DEF Deliver, QueueInv, Ordered, CallbackIsOwn
<1>3. CASE File
  <2> DEFINE b == [id |-> nextId, w |-> filed']
             Q == queue[user] \cup {b}
  <2>1. b \in Batch /\ filed' = filed + 1 /\ nextId' = nextId + 1
        /\ nextId \in Nat /\ filed \in Nat
      BY <1>3, BoundsAssumption DEF File, TypeOK, Writes, Batch
  <2>2. /\ queue'[user] = Q
        /\ \A u \in Users : u # user => queue'[u] = queue[u]
      BY <1>3 DEF File, TypeOK
  <2>3. user' = user /\ results' = results /\ refusal' = refusal /\ applied' = applied
      BY <1>3 DEF File
  <2>4. Fresh'
    <3> SUFFICES ASSUME NEW u \in Users, NEW c \in queue'[u]
                 PROVE  c.id < nextId' /\ c.w <= filed'
        BY DEF Fresh
    <3>1. CASE c = b
        BY <2>1, <3>1
    <3>2. CASE c \in queue[u]
      <4>1. c.id \in Nat /\ c.w \in Nat
          BY <3>2, QueueTypes DEF Batch, Writes
      <4> QED
          BY <1>0, <2>1, <3>2, <4>1 DEF Fresh
    <3> QED
        BY <2>2, <3>1, <3>2
  <2>5. \A c \in queue[user] : /\ c.id \in Nat /\ c.w \in Nat
                               /\ c.id < b.id /\ c.w < b.w
    <3> SUFFICES ASSUME NEW c \in queue[user]
                 PROVE  /\ c.id \in Nat /\ c.w \in Nat
                        /\ c.id < b.id /\ c.w < b.w
        OBVIOUS
    <3>1. c.id \in Nat /\ c.w \in Nat
        BY QueueTypes DEF Batch, Writes
    <3>2. c.id < nextId /\ c.w <= filed
        BY <1>0, QueueTypes DEF Fresh
    <3> QED
        BY <2>1, <3>1, <3>2
  <2>6. Ascending(Q)
      BY <1>0, <2>1, <2>5, QueueTypes DEF Ordered, Ascending
  <2>7. Ordered'
      BY <1>0, <2>2, <2>6 DEF Ordered
  <2>8. CallbackIsOwn'
    <3>1. /\ callbacks'[user] \subseteq callbacks[user] \cup {b}
          /\ \A u \in Users : u # user => callbacks'[u] = callbacks[u]
        BY <1>3 DEF File, TypeOK
    <3> QED
        BY <1>0, <2>2, <3>1 DEF CallbackIsOwn
  <2>9. IsFrontOf(pipeline, Q)
    <3>1. ASSUME NEW p \in pipeline PROVE ~(b.id < p.id)
      <4>1. p \in queue[user]
          BY <1>0 DEF PipelineIsFront
      <4> QED
          BY <2>1, <2>5, <4>1
    <3> QED
        BY <1>0, <3>1 DEF IsFrontOf, PipelineIsFront
  <2>10. Q \in SUBSET Batch /\ pipeline \in SUBSET Batch
      BY <2>1, QueueTypes
  <2>11. CASE handshake
    <3>1. FillOpen(pipeline, Q)
        BY <1>3, <2>2, <2>11 DEF File
    <3>2. /\ IsFrontOf(pipeline', Q) /\ (pipeline' = {} => Q = {})
          /\ pipeline \subseteq pipeline' /\ sent' = sent \cup (pipeline' \ pipeline)
          /\ \A p \in pipeline, c \in pipeline' \ pipeline : p.id < c.id
          /\ idle' => pipeline' = {} \/ (idle /\ pipeline' = pipeline)
          /\ stream' = stream /\ handshake' = handshake
        BY <2>6, <2>9, <2>10, <3>1, FillOpenNeeded
    <3>3. PipelineIsFront'
        BY <2>2, <2>3, <3>2 DEF PipelineIsFront, IsFrontOf
    <3>4. sent \cup results = pipeline
        BY <1>0, <2>11 DEF Correlated
    <3>5. Correlated'
        BY <1>0, <2>3, <2>11, <3>2, <3>4 DEF Correlated
    <3>6. StreamNeeded' /\ IdleShaken'
        BY <1>0, <2>11, <3>2 DEF StreamNeeded, IdleShaken
    <3> QED
        BY <2>4, <2>7, <2>8, <3>3, <3>5, <3>6 DEF QueueInv
  <2>12. CASE ~handshake
    <3>1. /\ FillClosed(pipeline, Q, stream)
          /\ UNCHANGED <<ticket, handshake, idle, sent>>
        BY <1>3, <2>2, <2>12 DEF File
    <3>2. stream \in Streams
        BY DEF TypeOK
    <3>3. /\ IsFrontOf(pipeline', Q) /\ (pipeline' = {} => Q = {})
          /\ pipeline' # {} => stream' \in {"Starting", "Open", "Backoff"}
        BY <2>6, <2>9, <2>10, <3>1, <3>2, FillClosedNeeded
    <3>4. PipelineIsFront'
        BY <2>2, <2>3, <3>3 DEF PipelineIsFront, IsFrontOf
    <3>5. Correlated'
        BY <1>0, <2>3, <2>12, <3>1 DEF Correlated
    <3>6. StreamNeeded' /\ IdleShaken'
        BY <1>0, <2>12, <3>1, <3>3 DEF StreamNeeded, IdleShaken
    <3> QED
        BY <2>4, <2>7, <2>8, <3>4, <3>5, <3>6 DEF QueueInv
  <2> QED
      BY <2>11, <2>12
<1>4. CASE StreamOpens
    BY <1>0, <1>4 DEF StreamOpens, QueueInv, Fresh, Ordered, PipelineIsFront,
       Correlated, CallbackIsOwn, StreamNeeded, IdleShaken, localVars, madeVars,
       serverVars
<1>5. CASE HandshakeCompletes
  <2>1. Fresh' /\ Ordered' /\ PipelineIsFront' /\ CallbackIsOwn'
      BY <1>0, <1>5 DEF HandshakeCompletes, Fresh, Ordered, PipelineIsFront,
         CallbackIsOwn, localVars, madeVars
  <2>2. Correlated'
      BY <1>0, <1>5 DEF HandshakeCompletes, Correlated, serverVars
  <2>3. StreamNeeded' /\ IdleShaken'
      BY <1>0, <1>5 DEF HandshakeCompletes, StreamNeeded, IdleShaken
  <2> QED
      BY <2>1, <2>2, <2>3 DEF QueueInv
<1>6. CASE ServerApplies
  <2>1. PICK b \in Front(sent) : /\ sent' = sent \ {b}
                                 /\ results' = results \cup {b}
                                 /\ applied' = applied \cup {b.w}
      BY <1>6 DEF ServerApplies
  <2>2. /\ UNCHANGED <<localVars, pipeline, stream, handshake, idle, refusal, filed>>
        /\ refusal = "none"
      BY <1>6 DEF ServerApplies, madeVars
  <2>3. Fresh' /\ Ordered' /\ PipelineIsFront' /\ CallbackIsOwn'
        /\ StreamNeeded' /\ IdleShaken'
      BY <1>0, <2>2 DEF Fresh, Ordered, PipelineIsFront, CallbackIsOwn,
         StreamNeeded, IdleShaken, localVars
  <2>4. sent \subseteq pipeline
      BY <1>0 DEF Correlated
  <2>5. \A c \in sent \ {b} : b.id < c.id
    <3> SUFFICES ASSUME NEW c \in sent, c # b PROVE b.id < c.id
        OBVIOUS
    <3>1. b.id <= c.id /\ b.id \in Nat /\ c.id \in Nat
        BY DEF Front, TypeOK, Batch
    <3>2. b \in queue[user] /\ c \in queue[user]
        BY <1>0, <2>4 DEF Front, PipelineIsFront
    <3>3. b.id # c.id
        BY <1>0, <3>2, QueueTypes DEF Ordered, Ascending
    <3> QED
        BY <3>1, <3>3
  <2>6. Correlated'
      BY <1>0, <2>1, <2>2, <2>5 DEF Correlated, Front
  <2> QED
      BY <2>3, <2>6 DEF QueueInv
<1>7. CASE ServerRefuses
  <2>1. sent # {}
      BY <1>7 DEF ServerRefuses, Front
  <2>2. Correlated'
      BY <1>0, <1>7, <2>1 DEF ServerRefuses, Correlated
  <2>3. Fresh' /\ Ordered' /\ PipelineIsFront' /\ CallbackIsOwn'
        /\ StreamNeeded' /\ IdleShaken'
      BY <1>0, <1>7 DEF ServerRefuses, Fresh, Ordered, PipelineIsFront,
         CallbackIsOwn, StreamNeeded, IdleShaken, localVars, madeVars
  <2> QED
      BY <2>2, <2>3 DEF QueueInv
<1>8. CASE ResultRead
  <2>1. PICK r \in Front(results) : results' = results \ {r}
      BY <1>8 DEF ResultRead
  <2>2. PICK b \in Front(pipeline) : /\ NotifyUser(b, "ok") /\ RemoveBatch(b)
                                     /\ FillOpen(pipeline \ {b}, queue'[user])
      BY <1>8 DEF ResultRead
  <2>3. r = b /\ b \notin sent /\ handshake
      BY <1>0, ResultIsFront
  <2>4. user' = user /\ nextId' = nextId /\ filed' = filed /\ applied' = applied
      BY <1>8 DEF ResultRead, madeVars, serverVars
  <2>5. /\ Fresh' /\ Ordered' /\ CallbackIsOwn'
        /\ queue'[user] \in SUBSET Batch /\ Ascending(queue'[user])
        /\ IsFrontOf(pipeline \ {b}, queue'[user])
      BY <1>0, <2>2, <2>4, SettledQueues DEF Outcomes
  <2> DEFINE P == pipeline \ {b}
  <2>6. /\ IsFrontOf(pipeline', queue'[user]) /\ (pipeline' = {} => queue'[user] = {})
        /\ P \subseteq pipeline' /\ sent' = sent \cup (pipeline' \ P)
        /\ \A p \in P, c \in pipeline' \ P : p.id < c.id
        /\ idle' => pipeline' = {} \/ (idle /\ pipeline' = P)
        /\ stream' = stream /\ handshake' = handshake
      BY <2>2, <2>5, QueueTypes, FillOpenNeeded
  <2>7. PipelineIsFront'
      BY <2>4, <2>6 DEF PipelineIsFront, IsFrontOf
  <2>8. sent \cup results = pipeline
      BY <1>0, <2>3 DEF Correlated
  <2>9. Correlated'
    <3>1. sent' \cup results' = pipeline'
        BY <2>1, <2>3, <2>6, <2>8
    <3>2. sent' \cap results' = {}
        BY <1>0, <2>1, <2>3, <2>6, <2>8 DEF Correlated
    <3>3. \A q \in results', c \in sent' : q.id < c.id
        BY <1>0, <2>1, <2>3, <2>6, <2>8 DEF Correlated
    <3>4. refusal' # "none" => sent' # {}
        BY <1>0, <1>8, <2>6 DEF ResultRead, Correlated
    <3> QED
        BY <1>0, <2>1, <2>3, <2>4, <2>6, <3>1, <3>2, <3>3, <3>4 DEF Correlated
  <2>10. StreamNeeded' /\ IdleShaken'
      BY <1>0, <2>2, <2>3, <2>6 DEF StreamNeeded, IdleShaken, Front
  <2> QED
      BY <2>5, <2>7, <2>9, <2>10 DEF QueueInv
<1>9. CASE RefusalRead
  <2>1. PICK b \in Front(pipeline) :
            /\ NotifyUser(b, "refused") /\ RemoveBatch(b)
            /\ FillClosed(pipeline \ {b}, queue'[user], "Initial")
      BY <1>9 DEF RefusalRead
  <2>2. user' = user /\ nextId' = nextId /\ filed' = filed /\ Closed
      BY <1>9 DEF RefusalRead, madeVars
  <2>3. /\ Fresh' /\ Ordered' /\ CallbackIsOwn'
        /\ queue'[user] \in SUBSET Batch /\ Ascending(queue'[user])
        /\ IsFrontOf(pipeline \ {b}, queue'[user])
      BY <1>0, <2>1, <2>2, SettledQueues DEF Outcomes
  <2>4. /\ IsFrontOf(pipeline', queue'[user]) /\ (pipeline' = {} => queue'[user] = {})
        /\ pipeline' # {} => stream' \in {"Starting", "Open", "Backoff"}
      BY <2>1, <2>3, QueueTypes, FillClosedNeeded DEF Streams
  <2>5. PipelineIsFront'
      BY <2>2, <2>4 DEF PipelineIsFront, IsFrontOf
  <2>6. Correlated' /\ StreamNeeded' /\ IdleShaken'
      BY <2>2, <2>4 DEF Closed, Correlated, StreamNeeded, IdleShaken
  <2> QED
      BY <2>3, <2>5, <2>6 DEF QueueInv
<1>10. CASE StreamFails
    BY <1>0, <1>10 DEF StreamFails, Closed, QueueInv, Fresh, Ordered,
       PipelineIsFront, Correlated, CallbackIsOwn, StreamNeeded, IdleShaken,
       localVars, madeVars, serverVars
<1>11. CASE BackoffElapses
    BY <1>0, <1>11 DEF BackoffElapses, QueueInv, Fresh, Ordered, PipelineIsFront,
       Correlated, CallbackIsOwn, StreamNeeded, IdleShaken, localVars, madeVars,
       serverVars
<1>12. CASE IdleTimeout
    BY <1>0, <1>12 DEF IdleTimeout, Closed, QueueInv, Fresh, Ordered,
       PipelineIsFront, Correlated, CallbackIsOwn, StreamNeeded, IdleShaken,
       localVars, madeVars, serverVars
<1>13. CASE ConnectivityChanges
  <2>1. user \in Users /\ user' = user /\ queue' = queue
      BY <1>13, QueueTypes DEF ConnectivityChanges, localVars
  <2>2. PipelineIsFront' /\ Correlated' /\ StreamNeeded' /\ IdleShaken'
      BY <1>0, <1>13, <2>1, RestartNetworkInv DEF ConnectivityChanges
  <2>3. Fresh' /\ Ordered' /\ CallbackIsOwn'
      BY <1>0, <1>13 DEF ConnectivityChanges, Fresh, Ordered, CallbackIsOwn,
         localVars, madeVars
  <2> QED
      BY <2>2, <2>3 DEF QueueInv
<1>14. CASE Restart
  <2>1. authUser \in Users /\ user' = authUser /\ queue' = queue
      BY <1>14 DEF Restart, TypeOK
  <2>2. PipelineIsFront' /\ Correlated' /\ StreamNeeded' /\ IdleShaken'
      BY <1>0, <1>14, <2>1, RestartNetworkInv DEF Restart
  <2>3. TypeLocal
      BY TypeParts
  <2>4. Fresh'
      BY <1>0, <1>14, <2>3, LoadNextBatchIdType DEF Restart, Fresh, Batches, madeVars
  <2>5. CallbackIsOwn'
      BY <1>14 DEF Restart, CallbackIsOwn
  <2> QED
      BY <1>0, <2>1, <2>2, <2>4, <2>5 DEF QueueInv, Ordered
<1>15. CASE UNCHANGED vars
    BY <1>0, <1>15 DEF vars, QueueInv, Fresh, Ordered, PipelineIsFront, Correlated,
       CallbackIsOwn, StreamNeeded, IdleShaken, localVars, streamVars, madeVars,
       serverVars
<1> QED
    BY <1>1, <1>2, <1>3, <1>4, <1>5, <1>6, <1>7, <1>8, <1>9, <1>10, <1>11, <1>12,
       <1>13, <1>14, <1>15 DEF Next

LEMMA QueueInvHolds == Spec => []QueueInv
BY InitQueueInv, NextQueueInv, TypeCorrect, PTL DEF Spec

(***************************************************************************)
(* Whatever was refused, lost or restarted, the pipeline is the beginning  *)
(* of the queue of the user Firestore serves.                              *)
(***************************************************************************)
THEOREM PipelineFront == Spec => []PipelineIsFront
<1>1. QueueInv => PipelineIsFront
    BY DEF QueueInv
<1> QED
    BY <1>1, QueueInvHolds, PTL

(***************************************************************************)
(* A result is taken for the front of the pipeline, and it is the result   *)
(* of that batch: whatever the pipeline's size and however often the       *)
(* stream was lost.                                                        *)
(***************************************************************************)
THEOREM ResultsCorrelated == Spec => []Correlated
<1>1. QueueInv => Correlated
    BY DEF QueueInv
<1> QED
    BY <1>1, QueueInvHolds, PTL

(***************************************************************************)
(* A batch id that comes again never finds the completion handler of an    *)
(* earlier write.                                                          *)
(***************************************************************************)
THEOREM CallbacksOwn == Spec => []CallbackIsOwn
<1>1. QueueInv => CallbackIsOwn
    BY DEF QueueInv
<1> QED
    BY <1>1, QueueInvHolds, PTL

(***************************************************************************)
(* No stream is stopped while it is needed: the assertion of               *)
(* OnWriteStreamClose.                                                     *)
(***************************************************************************)
THEOREM StreamAlive == Spec => []StreamNeeded
<1>1. QueueInv => StreamNeeded
    BY DEF QueueInv
<1> QED
    BY <1>1, QueueInvHolds, PTL


-----------------------------------------------------------------------------
(***************************************************************************)
(* Credentials: the last announcement under way is of the session.         *)
(***************************************************************************)
Announced ==
    /\ notices # <<>> => notices[Len(notices)] = authUser
    /\ CredentialsCatchUp

\* What is not a change of session or of stream leaves them as they are.
LEMMA SameCredentials ==
    ASSUME Announced, UNCHANGED <<authUser, notices, user>>,
           stream' = "Open" => stream = "Open" /\ ticket' = ticket
    PROVE  Announced'
BY DEF Announced, CredentialsCatchUp

\* RestartNetwork leaves no stream open.
LEMMA RestartedClosed ==
    ASSUME NEW u, RestartNetwork(u)
    PROVE  stream' # "Open"
BY DEF RestartNetwork, FillClosed

LEMMA NextAnnounced == TypeOK /\ QueueInv /\ Announced /\ [Next]_vars => Announced'
<1> SUFFICES ASSUME TypeOK, QueueInv, Announced, [Next]_vars PROVE Announced'
    OBVIOUS
<1>0. StreamNeeded
    BY DEF QueueInv
<1>1. CASE SessionChanges
  <2>1. authUser' \in Users /\ notices \in Seq(Users)
      BY <1>1 DEF SessionChanges, TypeOK
  <2>2. Len(notices') = Len(notices) + 1 /\ notices'[Len(notices')] = authUser'
      BY <1>1, <2>1, AppendProperties DEF SessionChanges
  <2>3. notices' # <<>>
      BY <1>1, <2>1, AppendProperties DEF SessionChanges
  <2> QED
      BY <2>2, <2>3 DEF Announced, CredentialsCatchUp
<1>2. CASE Deliver
  <2>1. /\ notices \in Seq(Users) /\ notices # <<>> /\ notices' = Tail(notices)
        /\ user' = Head(notices) /\ authUser' = authUser /\ stream' # "Open"
      BY <1>2, RestartedClosed DEF Deliver, TypeOK
  <2>2. notices[Len(notices)] = authUser
      BY <2>1 DEF Announced
  <2>3. CASE Tail(notices) = <<>>
    <3>1. Len(Tail(notices)) = Len(notices) - 1 /\ Len(notices) \in Nat
        BY <2>1, HeadTailProperties, LenProperties
    <3>2. Len(Tail(notices)) = 0
        BY <2>3
    <3>3. Len(notices) = 1
        BY <3>1, <3>2
    <3> QED
        BY <2>1, <2>2, <2>3, <3>3 DEF Announced, CredentialsCatchUp
  <2>4. CASE Tail(notices) # <<>>
    <3>1. /\ Len(Tail(notices)) = Len(notices) - 1 /\ Len(notices) \in Nat
          /\ Len(Tail(notices)) > 0
        BY <2>1, <2>4, HeadTailProperties, EmptySeq
    <3>2. Tail(notices)[Len(notices) - 1] = notices[Len(notices)]
        BY <2>1, <3>1
    <3> QED
        BY <2>1, <2>2, <2>4, <3>1, <3>2 DEF Announced, CredentialsCatchUp
  <2> QED
      BY <2>3, <2>4
<1>3. CASE File
  <2>1. stream' = "Open" => stream = "Open"
      BY <1>0, <1>3 DEF File, FillOpen, FillClosed, StreamNeeded
  <2>2. ticket' = ticket /\ UNCHANGED <<authUser, notices, user>>
      BY <1>3 DEF File, FillOpen, authVars
  <2> QED
      BY <2>1, <2>2, SameCredentials
<1>4. CASE StreamOpens
    BY <1>4 DEF StreamOpens, Announced, CredentialsCatchUp, authVars, localVars
<1>5. CASE HandshakeCompletes \/ ServerApplies \/ ServerRefuses \/ BackoffElapses
    BY <1>5, SameCredentials DEF HandshakeCompletes, ServerApplies, ServerRefuses,
       BackoffElapses, authVars, localVars
<1>6. CASE ResultRead
    BY <1>6, SameCredentials DEF ResultRead, FillOpen, authVars
<1>7. CASE RefusalRead
  <2>1. stream' # "Open"
      BY <1>7 DEF RefusalRead, FillClosed
  <2> QED
      BY <1>7, <2>1, SameCredentials DEF RefusalRead, authVars
<1>8. CASE StreamFails \/ IdleTimeout
    BY <1>8, SameCredentials DEF StreamFails, IdleTimeout, authVars, localVars
<1>9. CASE ConnectivityChanges
    BY <1>9, RestartedClosed, SameCredentials DEF ConnectivityChanges, authVars,
       localVars
<1>10. CASE Restart
    BY <1>10, RestartedClosed DEF Restart, Announced, CredentialsCatchUp
<1>11. CASE UNCHANGED vars
    BY <1>11, SameCredentials DEF vars, authVars, localVars, streamVars
<1> QED
    BY <1>1, <1>2, <1>3, <1>4, <1>5, <1>6, <1>7, <1>8, <1>9, <1>10, <1>11 DEF Next

(***************************************************************************)
(* However the announcements of Auth and the restarts of the stream        *)
(* interleave, once none is under way Firestore serves the user of the     *)
(* session with that user's credentials.                                   *)
(***************************************************************************)
THEOREM CredentialsCaughtUp == Spec => []CredentialsCatchUp
<1>1. Init => Announced
    BY DEF Init, Announced, CredentialsCatchUp
<1>2. Announced => CredentialsCatchUp
    BY DEF Announced
<1> QED
    BY <1>1, <1>2, NextAnnounced, TypeCorrect, QueueInvHolds, PTL DEF Spec

-----------------------------------------------------------------------------
(***************************************************************************)
(* Refinement of WriteQueue.                                               *)
(***************************************************************************)

\* Settling the front of the pipeline is settling the oldest write, and the
\* completion handler that hears is its own.
LEMMA SettleStep ==
    ASSUME TypeOK, QueueInv, NEW b \in Front(pipeline),
           NEW outcome \in {"ok", "refused"}, outcome = "ok" => b.w \in applied,
           NotifyUser(b, outcome), RemoveBatch(b),
           UNCHANGED <<user, filed, applied, nextId>>
    PROVE  WQ!QSettle
<1>1. /\ Ordered /\ CallbackIsOwn /\ Fresh /\ PipelineIsFront
    BY DEF QueueInv
<1>2. /\ b \in queue[user] /\ \A c \in queue[user] : b.id <= c.id
      /\ queue' = [queue EXCEPT ![user] = @ \ {b}]
    BY <1>1, SettledQueues DEF Outcomes, RemoveBatch
<1>3. user \in Users /\ queue[user] \in SUBSET Batch /\ b \in Batch
    BY <1>2, QueueTypes
<1> DEFINE pend == [u \in Users |-> {c.w : c \in queue[u]}]
           wait == [u \in Users |-> {c.w : c \in callbacks[u]}]
<1>4. \A c \in queue[user] : (c.w = b.w => c = b) /\ b.w <= c.w
  <2> SUFFICES ASSUME NEW c \in queue[user]
               PROVE  (c.w = b.w => c = b) /\ b.w <= c.w
      OBVIOUS
  <2>1. c.id \in Nat /\ b.id \in Nat /\ c.w \in Nat /\ b.w \in Nat
      BY <1>3 DEF Batch, Writes
  <2>2. c = b \/ (b.id < c.id /\ b.w < c.w)
      BY <1>1, <1>2, <1>3, <2>1 DEF Ordered, Ascending
  <2> QED
      BY <2>1, <2>2
<1>5. pend' = [pend EXCEPT ![user] = @ \ {b.w}]
  <2>1. {c.w : c \in queue[user] \ {b}} = {c.w : c \in queue[user]} \ {b.w}
      BY <1>4
  <2> QED
      BY <1>2, <2>1 DEF TypeOK
<1>6. \A c \in callbacks[user] : (c.id = b.id <=> c.w = b.w) /\ (c.id = b.id => c = b)
    BY <1>1, <1>2, <1>3, <1>4 DEF CallbackIsOwn, Ordered, Ascending
<1>7. wait' = [wait EXCEPT ![user] = @ \ {b.w}]
  <2>1. {c.w : c \in {d \in callbacks[user] : d.id # b.id}}
            = {c.w : c \in callbacks[user]} \ {b.w}
      BY <1>6
  <2>2. callbacks' = [callbacks EXCEPT ![user] = {c \in @ : c.id # b.id}]
      BY DEF NotifyUser
  <2> QED
      BY <2>1, <2>2 DEF TypeOK
<1>8. told' = [told EXCEPT ![b.w] = IF b.w \in wait[user] THEN outcome ELSE @]
  <2>1. b.w \in Writes /\ told \in [Writes -> Outcomes]
      BY <1>3 DEF Batch, TypeOK
  <2>2. told' = [w \in Writes |-> IF [id |-> b.id, w |-> w] \in callbacks[user]
                                  THEN outcome ELSE told[w]]
      BY DEF NotifyUser
  <2>3. ASSUME NEW w \in Writes
        PROVE  [id |-> b.id, w |-> w] \in callbacks[user]
                   <=> w = b.w /\ b.w \in wait[user]
    <3>1. ASSUME [id |-> b.id, w |-> w] \in callbacks[user]
          PROVE  w = b.w /\ b.w \in wait[user]
      <4>1. [id |-> b.id, w |-> w] = b
          BY <1>6, <3>1
      <4>2. b \in callbacks[user] /\ w = b.w
          BY <3>1, <4>1
      <4> QED
          BY <1>3, <4>2
    <3>2. ASSUME w = b.w, b.w \in wait[user]
          PROVE  [id |-> b.id, w |-> w] \in callbacks[user]
      <4>1. PICK c \in callbacks[user] : c.w = b.w
          BY <1>3, <3>2
      <4>2. c = b
          BY <1>6, <4>1
      <4>3. [id |-> b.id, w |-> b.w] = b
          BY <1>3 DEF Batch
      <4> QED
          BY <3>2, <4>1, <4>2, <4>3
    <3> QED
        BY <3>1, <3>2
  <2> QED
      BY <2>1, <2>2, <2>3
<1>9. b.w \in pend[user] /\ \A v \in pend[user] : b.w <= v
    BY <1>2, <1>3, <1>4
<1> QED
    BY <1>5, <1>7, <1>8, <1>9 DEF WQ!QSettle, WQ!Outcomes

\* A batch more is a write more.
LEMMA WritesOf ==
    \A S, id, w : {c.w : c \in S \cup {[id |-> id, w |-> w]}}
                     = {c.w : c \in S} \cup {w}
<1> SUFFICES ASSUME NEW S, NEW id, NEW w
             PROVE  {c.w : c \in S \cup {[id |-> id, w |-> w]}}
                        = {c.w : c \in S} \cup {w}
    OBVIOUS
<1> DEFINE b == [id |-> id, w |-> w]
<1>1. b.w = w
    OBVIOUS
<1> HIDE DEF b
<1>2. {c.w : c \in S \cup {b}} = {c.w : c \in S} \cup {b.w}
    BY Zenon
<1> QED
    BY <1>1, <1>2 DEF b

LEMMA StepKeepsQueue ==
    TypeOK /\ QueueInv /\ [Next]_vars => [WQ!QNext]_(WQ!queueVars)
<1> SUFFICES ASSUME TypeOK, QueueInv, [Next]_vars
             PROVE  WQ!QNext \/ UNCHANGED WQ!queueVars
    OBVIOUS
<1> USE DEF WQ!QNext
<1>0. /\ Fresh /\ Ordered /\ PipelineIsFront /\ Correlated
      /\ CallbackIsOwn /\ StreamNeeded
    BY DEF QueueInv
<1>1. CASE \/ SessionChanges \/ StreamOpens \/ HandshakeCompletes \/ ServerRefuses
           \/ StreamFails \/ BackoffElapses \/ IdleTimeout \/ ConnectivityChanges
           \/ UNCHANGED vars
  <2>1. UNCHANGED <<user, callbacks, queue, filed, applied, told>>
      BY <1>1 DEF SessionChanges, StreamOpens, HandshakeCompletes, ServerRefuses,
         StreamFails, BackoffElapses, IdleTimeout, ConnectivityChanges, vars,
         localVars, madeVars, serverVars
  <2> QED
      BY <2>1 DEF WQ!queueVars
<1>2. CASE Deliver
  <2>1. user' \in Users /\ UNCHANGED <<callbacks, queue, filed, applied, told>>
      BY <1>2, HeadTailProperties DEF Deliver, TypeOK, madeVars, serverVars
  <2> QED
      BY <2>1 DEF WQ!QSwitch
<1>3. CASE File
  <2> DEFINE b == [id |-> nextId, w |-> filed']
             pend == [u \in Users |-> {c.w : c \in queue[u]}]
             wait == [u \in Users |-> {c.w : c \in callbacks[u]}]
  <2>1. user \in Users /\ nextId \in Nat
      BY DEF TypeOK
  <2>2. queue' = [queue EXCEPT ![user] = @ \cup {b}]
      BY <1>3 DEF File
  <2>3. pend' = [pend EXCEPT ![user] = @ \cup {filed'}]
    <3>1. {c.w : c \in queue[user] \cup {b}} = {c.w : c \in queue[user]} \cup {filed'}
        BY WritesOf
    <3> QED
        BY <2>1, <2>2, <3>1 DEF TypeOK
  <2>4. ~ \E c \in callbacks[user] : c.id = b.id
    <3>1. \A c \in queue[user] : c.id < nextId /\ c.id \in Nat
        BY <1>0, <2>1, QueueTypes DEF Fresh, Batch
    <3> QED
        BY <1>0, <2>1, <3>1 DEF CallbackIsOwn
  <2>5. callbacks' = [callbacks EXCEPT ![user] = @ \cup {b}]
      BY <1>3, <2>4 DEF File
  <2>6. wait' = [wait EXCEPT ![user] = @ \cup {filed'}]
    <3>1. {c.w : c \in callbacks[user] \cup {b}}
              = {c.w : c \in callbacks[user]} \cup {filed'}
        BY WritesOf
    <3> QED
        BY <2>1, <2>5, <3>1 DEF TypeOK
  <2>7. filed < MaxWrites /\ filed' = filed + 1 /\ UNCHANGED <<user, applied, told>>
      BY <1>3 DEF File
  <2> QED
      BY <2>3, <2>6, <2>7 DEF WQ!QFile
<1>4. CASE ServerApplies
  <2>1. PICK b \in Front(sent) : applied' = applied \cup {b.w}
      BY <1>4 DEF ServerApplies
  <2>2. b \in queue[user] /\ user \in Users
      BY <1>0, <2>1 DEF Front, Correlated, PipelineIsFront, TypeOK
  <2>3. UNCHANGED <<user, callbacks, queue, filed, told>>
      BY <1>4 DEF ServerApplies, localVars, madeVars
  <2> QED
      BY <2>1, <2>2, <2>3 DEF WQ!QApply
<1>5. CASE ResultRead
  <2>1. PICK r \in Front(results) : TRUE
      BY <1>5 DEF ResultRead
  <2>2. PICK b \in Front(pipeline) : NotifyUser(b, "ok") /\ RemoveBatch(b)
      BY <1>5 DEF ResultRead
  <2>3. b \in results
      BY <1>0, <2>1, <2>2, ResultIsFront DEF Front
  <2>4. b.w \in applied
      BY <1>0, <2>3 DEF Correlated
  <2>5. UNCHANGED <<user, filed, applied, nextId>>
      BY <1>5 DEF ResultRead, madeVars, serverVars
  <2> QED
      BY <2>2, <2>4, <2>5, SettleStep
<1>6. CASE RefusalRead
  <2>1. PICK b \in Front(pipeline) : NotifyUser(b, "refused") /\ RemoveBatch(b)
      BY <1>6 DEF RefusalRead
  <2>2. UNCHANGED <<user, filed, applied, nextId>>
      BY <1>6 DEF RefusalRead, madeVars, serverVars
  <2> QED
      BY <2>1, <2>2, SettleStep
<1>7. CASE Restart
  <2>1. user' \in Users /\ callbacks' = [u \in Users |-> {}]
        /\ UNCHANGED <<queue, filed, applied, told>>
      BY <1>7 DEF Restart, TypeOK, madeVars, serverVars
  <2> QED
      BY <2>1 DEF WQ!QCrash
<1> QED
    BY <1>1, <1>2, <1>3, <1>4, <1>5, <1>6, <1>7 DEF Next

(***************************************************************************)
(* The write path implements WriteQueue: through failures, refusals,       *)
(* changes of user and crashes it settles each user's writes one at a      *)
(* time, the oldest first, acknowledges what the server has applied, and   *)
(* tells each completion handler the outcome of its own write.             *)
(***************************************************************************)
THEOREM ImplementsQueue == Spec => KeepsQueue
<1>1. Init => WQ!QInit
    BY DEF Init, WQ!QInit, WQ!Writes, Writes
<1> QED
    BY <1>1, StepKeepsQueue, TypeCorrect, QueueInvHolds, PTL
    DEF Spec, KeepsQueue, WQ!QSpec


-----------------------------------------------------------------------------
(***************************************************************************)
(* The documents: what is refused, kept and applied last.  DocOf is the    *)
(* document of a write; a document is clean while none of its writes was   *)
(* filed or sent as another user's.                                        *)
(***************************************************************************)
DocOf(w) == writes[w].doc

\* The write the stream is ending for deserves it.
RefusedIsBad ==
    refusal # "none" =>
        \A s \in Front(sent) : ~writes[s.w].good \/ DocOf(s.w) \in stray

\* Only writes that were made are applied, and of a clean document only those
\* the server takes.
AppliedIsGood ==
    \A w \in applied : w <= filed /\ (DocOf(w) \notin stray => writes[w].good)

\* A write of a clean document waits in the queue of its own user,
OwnQueue == \A u \in Users : \A b \in queue[u] : DocOf(b.w) \in stray \cup {u}

\* and while it does, so do all that were made after it.
InOrder ==
    \A u \in Users \ stray : \A b \in queue[u], v \in 1..filed :
        b.w < v /\ DocOf(v) = u => \E c \in queue[u] : c.w = v

\* What was applied is not newer than the last word, or is to be sent again.
LastWord ==
    \A u \in Uids \ stray : \A w \in applied :
        DocOf(w) = u =>
            \/ w <= latest[u]
            \/ \E b \in queue[u] : b.w = w /\ (u = user => b \notin results)

HistoryInv == /\ RefusedIsBad /\ AppliedIsGood /\ OwnQueue /\ InOrder
              /\ LastWord /\ GoodWritesKept

\* Steps that only change the stream, or nothing of it that matters here.
LEMMA QuietHistory ==
    ASSUME HistoryInv, UNCHANGED <<queue, filed, writes, applied, latest, stray>>,
           \/ results' = {} /\ refusal' = "none"
           \/ UNCHANGED <<user, results, refusal, sent>>
    PROVE  HistoryInv'
<1>1. RefusedIsBad' /\ AppliedIsGood' /\ OwnQueue' /\ InOrder' /\ GoodWritesKept'
    BY DEF HistoryInv, RefusedIsBad, AppliedIsGood, OwnQueue, InOrder,
       GoodWritesKept, DocOf, Front, Batches
<1>2. LastWord'
    BY DEF HistoryInv, LastWord, DocOf
<1> QED
    BY <1>1, <1>2 DEF HistoryInv

\* What is sent behind does not change which write is the oldest on its way.
LEMMA SentBehind ==
    ASSUME TypeOK, sent # {}, NEW P \in SUBSET Batch, sent \subseteq P,
           NEW N \in SUBSET Batch, \A p \in P, c \in N : p.id < c.id,
           NEW s \in Front(sent \cup N)
    PROVE  s \in Front(sent)
<1>1. PICK t \in sent : TRUE
    OBVIOUS
<1>2. s \in sent
  <2> SUFFICES ASSUME s \in N PROVE FALSE
      BY DEF Front
  <2>1. t.id < s.id /\ s.id <= t.id /\ s.id \in Nat /\ t.id \in Nat
      BY <1>1 DEF Front, Batch
  <2> QED
      BY <2>1
<1> QED
    BY <1>2 DEF Front

\* The batch a refusal rejects is applied already, or deserves it.
LEMMA RejectedFront ==
    ASSUME TypeOK, QueueInv, RefusedIsBad, RefusalRead, NEW b \in Front(pipeline)
    PROVE  b \in results \/ ~writes[b.w].good \/ DocOf(b.w) \in stray
<1>1. refusal # "none" /\ sent # {} /\ Correlated
    BY DEF QueueInv, Correlated, RefusalRead
<1>2. sent \cup results = pipeline
    BY <1>1 DEF Correlated
<1>3. b \in results \/ b \in Front(sent)
    BY <1>2 DEF Front
<1> QED
    BY <1>1, <1>3 DEF RefusedIsBad

\* Settling the front of the pipeline, which is applied or deserves its refusal.
LEMMA SettledHistory ==
    ASSUME TypeOK, QueueInv, HistoryInv, NEW b \in Front(pipeline),
           NEW outcome \in Outcomes, NotifyUser(b, outcome), RemoveBatch(b),
           UNCHANGED <<user, nextId, filed, writes, applied, latest, stray>>,
           b \in results \/ ~writes[b.w].good \/ DocOf(b.w) \in stray,
           \/ results' = {}
           \/ results' = results \ {b} /\ b \in results
    PROVE  AppliedIsGood' /\ OwnQueue' /\ InOrder' /\ LastWord' /\ GoodWritesKept'
<1>1. /\ b \in queue[user] /\ \A c \in queue[user] : b.id <= c.id
      /\ queue'[user] = queue[user] \ {b} /\ Ordered /\ Correlated
    BY SettledQueues DEF QueueInv
<1>2. \A u \in Users : u # user => queue'[u] = queue[u]
    BY DEF RemoveBatch, TypeOK
<1>3. \A u \in Users : queue'[u] \subseteq queue[u]
    BY <1>1, <1>2
<1>4. user \in Users /\ \A c \in queue[user] : c.id \in Nat /\ c.w \in Nat
    BY QueueTypes DEF Batch, Writes
<1>5. \A c \in queue[user] \ {b} : b.w < c.w
  <2> SUFFICES ASSUME NEW c \in queue[user], c # b PROVE b.w < c.w
      OBVIOUS
  <2>1. b.id < c.id
      BY <1>1, <1>4 DEF Ordered, Ascending
  <2> QED
      BY <1>1, <1>4, <2>1 DEF Ordered, Ascending
<1>6. AppliedIsGood' /\ OwnQueue'
    BY <1>3 DEF HistoryInv, AppliedIsGood, OwnQueue, DocOf
<1>7. InOrder'
  <2> SUFFICES ASSUME NEW u \in Users \ stray, NEW d \in queue'[u],
                      NEW v \in 1..filed, d.w < v, DocOf(v) = u
               PROVE  \E c \in queue'[u] : c.w = v
      BY DEF InOrder, DocOf
  <2>1. PICK c \in queue[u] : c.w = v
      BY <1>3 DEF HistoryInv, InOrder
  <2>2. CASE u # user
      BY <1>2, <2>1, <2>2
  <2>3. CASE u = user
    <3>1. b.w < d.w /\ d.w \in Nat /\ b.w \in Nat /\ v \in Nat
        BY <1>1, <1>4, <1>5, <2>3
    <3>2. c # b
        BY <2>1, <3>1
    <3> QED
        BY <1>1, <2>1, <2>3, <3>2
  <2> QED
      BY <2>2, <2>3
<1>8. LastWord'
  <2> SUFFICES ASSUME NEW u \in Uids \ stray, NEW w \in applied, DocOf(w) = u,
                      ~(w <= latest[u])
               PROVE  \E c \in queue'[u] : c.w = w /\ (u = user => c \notin results')
      BY DEF LastWord, DocOf
  <2>1. PICK c \in queue[u] : c.w = w /\ (u = user => c \notin results)
      BY DEF HistoryInv, LastWord
  <2>2. CASE u # user
      BY <1>2, <2>1, <2>2 DEF Users
  <2>3. CASE u = user
    <3>1. writes[w].good
        BY DEF HistoryInv, AppliedIsGood
    <3>2. c # b
        BY <2>1, <2>3, <3>1
    <3> QED
        BY <1>1, <2>1, <2>3, <3>2
  <2> QED
      BY <2>2, <2>3
<1>9. GoodWritesKept'
  <2> SUFFICES ASSUME NEW w \in 1..filed, writes[w].good, DocOf(w) \notin stray,
                      w \notin applied
               PROVE  \E u \in Users : \E c \in queue'[u] : c.w = w
      BY DEF GoodWritesKept, DocOf, Batches
  <2>1. PICK u \in Users : \E c \in queue[u] : c.w = w
      BY DEF HistoryInv, GoodWritesKept, DocOf, Batches
  <2>2. PICK c \in queue[u] : c.w = w
      BY <2>1
  <2>3. c # b
      BY <1>1, <2>2 DEF Correlated, DocOf
  <2> QED
      BY <1>1, <1>2, <2>2, <2>3
<1> QED
    BY <1>6, <1>7, <1>8, <1>9

LEMMA NextHistoryInv ==
    TypeOK /\ QueueInv /\ HistoryInv /\ [Next]_vars => HistoryInv'
<1> SUFFICES ASSUME TypeOK, QueueInv, HistoryInv, [Next]_vars PROVE HistoryInv'
    OBVIOUS
<1>0. /\ Fresh /\ Ordered /\ PipelineIsFront /\ Correlated
      /\ CallbackIsOwn /\ StreamNeeded
      /\ RefusedIsBad /\ AppliedIsGood /\ OwnQueue /\ InOrder /\ LastWord
      /\ GoodWritesKept
    BY DEF QueueInv, HistoryInv
<1>1. CASE SessionChanges \/ StreamOpens \/ BackoffElapses \/ UNCHANGED vars
    BY <1>1, QuietHistory DEF SessionChanges, StreamOpens, BackoffElapses, vars,
       localVars, streamVars, madeVars, serverVars
<1>2. CASE \/ Deliver \/ StreamFails \/ IdleTimeout \/ ConnectivityChanges
           \/ Restart
    BY <1>2, QuietHistory DEF Deliver, StreamFails, IdleTimeout,
       ConnectivityChanges, Restart, RestartNetwork, Closed, localVars, madeVars,
       serverVars
<1>3. CASE HandshakeCompletes
  <2>1. results' = {} /\ refusal' = "none"
      BY <1>0, <1>3 DEF HandshakeCompletes, Correlated
  <2> QED
      BY <1>3, <2>1, QuietHistory DEF HandshakeCompletes, localVars, madeVars,
         serverVars
<1>4. CASE File
  <2> DEFINE b == [id |-> nextId, w |-> filed']
  <2>1. /\ filed' = filed + 1 /\ filed \in Nat /\ filed' \in Writes
        /\ user' = user /\ results' = results /\ refusal' = refusal
        /\ applied' = applied /\ latest' = latest
        /\ stray \subseteq stray'
      BY <1>4, BoundsAssumption DEF File, TypeOK, Writes
  <2>2. /\ user \in Users /\ queue'[user] = queue[user] \cup {b}
        /\ \A u \in Users : u # user => queue'[u] = queue[u]
      BY <1>4 DEF File, TypeOK
  <2>3. /\ \A w \in Writes : w # filed' => writes'[w] = writes[w]
        /\ writes'[filed'].doc = authUser
      BY <1>4, <2>1 DEF File, TypeOK
  <2>4. user # authUser => authUser \in stray'
      BY <1>4 DEF File
  <2>5. \A w \in 1..filed : w \in Writes /\ w # filed' /\ writes'[w] = writes[w]
      BY <2>1, <2>3, BoundsAssumption DEF Writes
  <2>6. \A u \in Users : \A c \in queue[u] : c.w \in 1..filed
    <3> SUFFICES ASSUME NEW u \in Users, NEW c \in queue[u] PROVE c.w \in 1..filed
        OBVIOUS
    <3>1. c.w \in Writes /\ c.w <= filed
        BY <1>0, QueueTypes DEF Fresh, Batch
    <3> QED
        BY <2>1, <3>1 DEF Writes
  <2>7. applied \subseteq 1..filed
    <3> SUFFICES ASSUME NEW w \in applied PROVE w \in 1..filed
        OBVIOUS
    <3>1. w \in Writes /\ w <= filed
        BY <1>0 DEF AppliedIsGood, TypeOK
    <3> QED
        BY <2>1, <3>1 DEF Writes
  <2>14. b \in queue'[user] /\ b.w = filed'
      BY <2>2
  <2>8. RefusedIsBad'
    <3> SUFFICES ASSUME refusal # "none", NEW s \in Front(sent')
                 PROVE  ~writes'[s.w].good \/ writes'[s.w].doc \in stray'
        BY <2>1 DEF RefusedIsBad, DocOf, Front
    <3>1. sent # {} /\ handshake /\ sent \subseteq pipeline
        BY <1>0 DEF Correlated
    <3>2. FillOpen(pipeline, queue'[user])
        BY <1>4, <3>1 DEF File
    <3>3. PICK N \in SUBSET After(pipeline, queue'[user]) : pipeline' = pipeline \cup N
        BY <3>2 DEF FillOpen, Filled
    <3>4. sent' = sent \cup (pipeline' \ pipeline)
        BY <3>2 DEF FillOpen
    <3>5. /\ pipeline' \ pipeline \in SUBSET Batch
          /\ \A p \in pipeline, c \in pipeline' \ pipeline : p.id < c.id
      <4>1. queue'[user] \in SUBSET Batch
          BY <2>1, <2>2, QueueTypes, <1>4 DEF Batch, TypeOK
      <4> QED
          BY <3>3, <4>1 DEF After
    <3>6. s \in Front(sent)
        BY <3>1, <3>4, <3>5, QueueTypes, SentBehind
    <3>7. s.w \in 1..filed
        BY <1>0, <2>2, <2>6, <3>1, <3>6 DEF Front, PipelineIsFront
    <3> QED
        BY <1>0, <2>1, <2>5, <3>6, <3>7 DEF RefusedIsBad, DocOf
  <2>9. AppliedIsGood'
    <3> SUFFICES ASSUME NEW w \in applied
                 PROVE  w <= filed' /\ (writes'[w].doc \notin stray' => writes'[w].good)
        BY <2>1 DEF AppliedIsGood, DocOf
    <3>1. w \in 1..filed /\ writes'[w] = writes[w]
        BY <2>5, <2>7
    <3>2. w <= filed'
        BY <2>1, <3>1
    <3> QED
        BY <1>0, <2>1, <3>1, <3>2 DEF AppliedIsGood, DocOf
  <2>10. OwnQueue'
    <3> SUFFICES ASSUME NEW u \in Users, NEW c \in queue'[u]
                 PROVE  writes'[c.w].doc \in stray' \cup {u}
        BY DEF OwnQueue, DocOf
    <3>1. CASE c \in queue[u]
        BY <1>0, <2>1, <2>5, <2>6, <3>1 DEF OwnQueue, DocOf
    <3>2. CASE c = b /\ u = user
        BY <2>3, <2>4, <3>2
    <3> QED
        BY <2>2, <3>1, <3>2
  <2>11. InOrder'
    <3> SUFFICES ASSUME NEW u \in Users \ stray', NEW d \in queue'[u],
                        NEW v \in 1..filed', d.w < v, writes'[v].doc = u
                 PROVE  \E c \in queue'[u] : c.w = v
        BY DEF InOrder, DocOf
    <3>1. CASE v = filed'
      <4>1. u = user
          BY <2>3, <2>4, <3>1
      <4> QED
          BY <2>14, <3>1, <4>1
    <3>2. CASE v # filed'
      <4>1. v \in 1..filed /\ writes'[v] = writes[v]
          BY <2>1, <2>5, <3>2
      <4>2. d # b
          BY <2>1, <4>1
      <4>3. d \in queue[u]
          BY <2>2, <4>2
      <4>4. \E c \in queue[u] : c.w = v
          BY <1>0, <2>1, <4>1, <4>3 DEF InOrder, DocOf
      <4> QED
          BY <2>2, <4>4
    <3> QED
        BY <3>1, <3>2
  <2>12. LastWord'
    <3> SUFFICES ASSUME NEW u \in Uids \ stray', NEW w \in applied,
                        writes'[w].doc = u, ~(w <= latest[u])
                 PROVE  \E c \in queue'[u] : c.w = w /\ (u = user => c \notin results)
        BY <2>1 DEF LastWord, DocOf
    <3>1. DocOf(w) = u
        BY <2>5, <2>7 DEF DocOf
    <3>2. PICK c \in queue[u] : c.w = w /\ (u = user => c \notin results)
        BY <1>0, <2>1, <3>1 DEF LastWord
    <3> QED
        BY <2>2, <3>2 DEF Users
  <2>13. GoodWritesKept'
    <3> SUFFICES ASSUME NEW w \in 1..filed', writes'[w].good,
                        writes'[w].doc \notin stray', w \notin applied
                 PROVE  \E u \in Users : \E c \in queue'[u] : c.w = w
        BY <2>1 DEF GoodWritesKept, Batches
    <3>1. CASE w = filed'
        BY <2>2, <2>14, <3>1
    <3>2. CASE w # filed'
      <4>1. w \in 1..filed /\ writes'[w] = writes[w]
          BY <2>1, <2>5, <3>2
      <4>2. PICK u \in Users : \E c \in queue[u] : c.w = w
          BY <1>0, <2>1, <4>1 DEF GoodWritesKept, Batches
      <4> QED
          BY <2>2, <4>2
    <3> QED
        BY <3>1, <3>2
  <2> QED
      BY <2>8, <2>9, <2>10, <2>11, <2>12, <2>13 DEF HistoryInv
<1>5. CASE ServerApplies
  <2>1. PICK b \in Front(sent) :
            /\ writes[b.w].good \/ Foreign(b.w)
            /\ results' = results \cup {b} /\ applied' = applied \cup {b.w}
            /\ latest' = [latest EXCEPT ![DocOf(b.w)] = b.w]
            /\ stray' = IF Foreign(b.w) THEN stray \cup {DocOf(b.w)} ELSE stray
      BY <1>5 DEF ServerApplies, DocOf
  <2>2. /\ UNCHANGED <<user, queue, filed, writes>>
        /\ refusal' = "none" /\ stray \subseteq stray'
      BY <1>5, <2>1 DEF ServerApplies, localVars, madeVars
  <2>3. b \in sent /\ sent \subseteq pipeline /\ b \in queue[user] /\ user \in Users
      BY <1>0, <2>1 DEF Front, Correlated, PipelineIsFront, TypeOK
  <2>4. b.w \in Writes /\ b.w <= filed /\ b.w \in Nat /\ b.id \in Nat
      BY <1>0, <2>3, QueueTypes DEF Fresh, Batch, Writes
  <2>5. DocOf(b.w) \in Users
      BY <2>4 DEF DocOf, TypeOK
  <2>6. AppliedIsGood'
      BY <1>0, <2>1, <2>2, <2>4 DEF AppliedIsGood, DocOf
  <2>7. OwnQueue' /\ InOrder' /\ GoodWritesKept' /\ RefusedIsBad'
      BY <1>0, <2>1, <2>2 DEF OwnQueue, InOrder, GoodWritesKept, RefusedIsBad, DocOf,
         Batches
  <2>8. LastWord'
    <3> SUFFICES ASSUME NEW u \in Uids \ stray', NEW w \in applied', DocOf(w) = u,
                        ~(w <= latest'[u])
                 PROVE  \E c \in queue[u] : c.w = w /\ (u = user => c \notin results')
        BY <2>2 DEF LastWord, DocOf
    <3>1. u \in Users \ stray /\ w \in 1..filed /\ w \in Nat
      <4>1. w \in applied \/ w = b.w
          BY <2>1
      <4>2. w \in Writes /\ w <= filed /\ filed \in Nat
          BY <1>0, <2>4, <4>1 DEF AppliedIsGood, TypeOK
      <4> QED
          BY <2>2, <4>2 DEF Users, Writes
    <3>2. CASE DocOf(b.w) # u
      <4>1. latest'[u] = latest[u] /\ w \in applied
          BY <2>1, <3>1, <3>2
      <4>2. PICK c \in queue[u] : c.w = w /\ (u = user => c \notin results)
          BY <1>0, <3>1, <4>1 DEF LastWord
      <4>3. c # b
          BY <3>2, <4>2
      <4> QED
          BY <2>1, <4>2, <4>3
    <3>3. CASE DocOf(b.w) = u
      <4>1. u = user
          BY <1>0, <2>3, <3>1, <3>3 DEF OwnQueue
      <4>2. latest'[u] = b.w
          BY <2>1, <2>5, <3>1, <3>3 DEF TypeOK
      <4>3. b.w < w
          BY <2>4, <3>1, <4>2
      <4>4. PICK c \in queue[u] : c.w = w
          BY <1>0, <2>3, <3>1, <4>1, <4>3 DEF InOrder
      <4>5. c.id \in Nat /\ c \in queue[user] /\ c # b
        <5>1. b.w # w
            BY <2>4, <3>1, <4>3
        <5> QED
            BY <2>3, <4>1, <4>4, <5>1, QueueTypes DEF Batch
      <4>6. b.id < c.id
        <5>1. c.id < b.id => c.w < b.w
            BY <1>0, <2>3, <4>5 DEF Ordered, Ascending
        <5>2. ~(c.w < b.w)
            BY <2>4, <3>1, <4>3, <4>4
        <5>3. c.id # b.id
            BY <1>0, <2>3, <4>5 DEF Ordered, Ascending
        <5> QED
            BY <2>4, <4>5, <5>1, <5>2, <5>3
      <4>7. \A r \in results : r.id < b.id
          BY <1>0, <2>3 DEF Correlated
      <4>8. c \notin results
        <5> SUFFICES ASSUME c \in results PROVE FALSE
            OBVIOUS
        <5>1. c.id < b.id
            BY <4>7
        <5> QED
            BY <2>4, <4>5, <4>6, <5>1
      <4> QED
          BY <2>1, <4>4, <4>5, <4>8
    <3> QED
        BY <3>2, <3>3
  <2> QED
      BY <2>6, <2>7, <2>8 DEF HistoryInv
<1>6. CASE ServerRefuses
  <2>1. PICK b \in Front(sent) :
            /\ ~writes[b.w].good \/ Foreign(b.w)
            /\ stray' = IF Foreign(b.w) THEN stray \cup {DocOf(b.w)} ELSE stray
      BY <1>6 DEF ServerRefuses, DocOf
  <2>2. /\ UNCHANGED <<user, queue, filed, writes, sent, results, applied, latest>>
        /\ stray \subseteq stray'
      BY <1>6, <2>1 DEF ServerRefuses, localVars, madeVars
  <2>3. \A s \in Front(sent) : s = b
    <3> SUFFICES ASSUME NEW s \in Front(sent) PROVE s = b
        OBVIOUS
    <3>1. s.id <= b.id /\ b.id <= s.id /\ s.id \in Nat /\ b.id \in Nat
        BY <2>1 DEF Front, TypeOK, Batch
    <3>2. s \in queue[user] /\ b \in queue[user]
        BY <1>0, <2>1 DEF Front, Correlated, PipelineIsFront
    <3> QED
        BY <1>0, <3>1, <3>2, QueueTypes DEF Ordered, Ascending
  <2>4. RefusedIsBad'
      BY <2>1, <2>2, <2>3 DEF RefusedIsBad, DocOf, Front
  <2>5. AppliedIsGood' /\ OwnQueue' /\ InOrder' /\ LastWord' /\ GoodWritesKept'
      BY <1>0, <2>2 DEF AppliedIsGood, OwnQueue, InOrder, LastWord, GoodWritesKept,
         DocOf, Batches
  <2> QED
      BY <2>4, <2>5 DEF HistoryInv
<1>7. CASE ResultRead
  <2>1. PICK r \in Front(results) : results' = results \ {r}
      BY <1>7 DEF ResultRead
  <2>2. PICK b \in Front(pipeline) : /\ NotifyUser(b, "ok") /\ RemoveBatch(b)
                                     /\ FillOpen(pipeline \ {b}, queue'[user])
      BY <1>7 DEF ResultRead
  <2>3. r = b /\ b \notin sent /\ handshake /\ b \in results
      BY <1>0, <2>1, ResultIsFront DEF Front
  <2>4. UNCHANGED <<user, nextId, filed, writes, applied, latest, stray>>
      BY <1>7 DEF ResultRead, madeVars, serverVars
  <2>5. AppliedIsGood' /\ OwnQueue' /\ InOrder' /\ LastWord' /\ GoodWritesKept'
      BY <2>1, <2>2, <2>3, <2>4, SettledHistory DEF Outcomes
  <2>6. RefusedIsBad'
    <3> SUFFICES ASSUME refusal # "none", NEW s \in Front(sent')
                 PROVE  ~writes[s.w].good \/ DocOf(s.w) \in stray
        BY <1>7, <2>4 DEF ResultRead, RefusedIsBad, DocOf, Front
    <3> DEFINE P == pipeline \ {b}
    <3>1. sent # {} /\ sent \subseteq P
        BY <1>0, <2>3 DEF Correlated
    <3>2. /\ queue'[user] \in SUBSET Batch /\ P \in SUBSET Batch
        BY <1>0, <2>2, <2>4, QueueTypes, SettledQueues DEF Outcomes
    <3>3. PICK N \in SUBSET After(P, queue'[user]) : pipeline' = P \cup N
        BY <2>2 DEF FillOpen, Filled
    <3>4. sent' = sent \cup (pipeline' \ P)
        BY <2>2 DEF FillOpen
    <3>5. /\ pipeline' \ P \in SUBSET Batch
          /\ \A p \in P, c \in pipeline' \ P : p.id < c.id
        BY <3>2, <3>3 DEF After
    <3>6. s \in Front(sent)
        BY <3>1, <3>2, <3>4, <3>5, SentBehind
    <3> QED
        BY <1>0, <3>6 DEF RefusedIsBad
  <2> QED
      BY <2>5, <2>6 DEF HistoryInv
<1>8. CASE RefusalRead
  <2>1. PICK b \in Front(pipeline) : NotifyUser(b, "refused") /\ RemoveBatch(b)
      BY <1>8 DEF RefusalRead
  <2>2. UNCHANGED <<user, nextId, filed, writes, applied, latest, stray>>
        /\ results' = {} /\ refusal' = "none"
      BY <1>8 DEF RefusalRead, Closed, madeVars, serverVars
  <2>3. AppliedIsGood' /\ OwnQueue' /\ InOrder' /\ LastWord' /\ GoodWritesKept'
      BY <1>0, <1>8, <2>1, <2>2, RejectedFront, SettledHistory DEF Outcomes
  <2>4. RefusedIsBad'
      BY <2>2 DEF RefusedIsBad
  <2> QED
      BY <2>3, <2>4 DEF HistoryInv
<1> QED
    BY <1>1, <1>2, <1>3, <1>4, <1>5, <1>6, <1>7, <1>8 DEF Next

LEMMA HistoryInvHolds == Spec => []HistoryInv
<1>1. Init => HistoryInv
    BY DEF Init, HistoryInv, RefusedIsBad, AppliedIsGood, OwnQueue, InOrder,
       LastWord, GoodWritesKept
<1> QED
    BY <1>1, NextHistoryInv, TypeCorrect, QueueInvHolds, PTL DEF Spec

(***************************************************************************)
(* A write the server would take is never lost: it is applied or queued,   *)
(* whatever else was refused, lost or restarted.                           *)
(***************************************************************************)
THEOREM GoodKept == Spec => []GoodWritesKept
<1>1. HistoryInv => GoodWritesKept
    BY DEF HistoryInv
<1> QED
    BY <1>1, HistoryInvHolds, PTL

(***************************************************************************)
(* However often old writes were sent again, once nothing of a document    *)
(* waits the last write applied to it is the newest.                       *)
(***************************************************************************)
THEOREM Converges == Spec => []Converged
<1>1. TypeOK /\ HistoryInv => Converged
  <2> SUFFICES ASSUME TypeOK, HistoryInv, NEW u \in Uids \ stray,
                      \A b \in queue[u] : writes[b.w].doc # u,
                      NEW w \in applied, writes[w].doc = u
               PROVE  w <= latest[u]
      BY DEF Converged
  <2> QED
      BY DEF HistoryInv, LastWord, DocOf
<1> QED
    BY <1>1, HistoryInvHolds, TypeCorrect, PTL

=============================================================================
