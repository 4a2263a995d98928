------------------------------- MODULE LifeProofs -------------------------------
(***************************************************************************)
(* The screens, FirebaseAuth and Firestore together keep the promise of    *)
(* AccountLife, and a registration is handed on from step to step, for any *)
(* numbers of users, slots and addresses, any bound MaxPending and any set *)
(* of faults.                                                              *)
(*                                                                         *)
(* Every action of Account is an action of AccountLife, or changes nothing *)
(* of what AccountLife speaks of.  What the maps need beyond RegInv is     *)
(* Closed: whoever is told that an account is gone is told the truth, and  *)
(* a deletion among the writes is the one ErasurePending looks for.        *)
(***************************************************************************)
EXTENDS RegistrationProofs

Deleted(u) == accounts[u].status = "deleted"

ToldTruth ==
    /\ \A s \in Slots, u \in Uids : calls[s].answer = "gone" /\ calls[s].uid = u => Deleted(u)
    /\ \A u \in Uids : deleting[u] = "done" => Deleted(u)

PlainDelete(w) == w.op = "delete" => w = Delete(w.doc)

DeletesPlain == \A u \in Users : \A w \in Elems(writes[u]) : PlainDelete(w)

Closed == ToldTruth /\ DeletesPlain

(***************************************************************************)
(* Closed is an invariant.                                                 *)
(***************************************************************************)
\* An account that is gone does not come back.
LEMMA DeletedStays ==
    ASSUME IndInv, [Next]_vars, NEW u \in Uids, Deleted(u)
    PROVE  Deleted(u)'
<1>1. accounts \in [Uids -> Account] /\ session \in Users
    BY TypeParts DEF IndInv
<1>2. CASE UNCHANGED accounts
    BY <1>2 DEF Deleted
<1>3. ASSUME NEW v \in Uids, MailLink(v) PROVE Deleted(u)'
    BY <1>1, <1>3 DEF MailLink, Deleted, Live
<1>4. CASE ResendLink
    BY <1>1, <1>3, <1>4 DEF ResendLink, Users
<1>5. ASSUME NEW h, Saved(h) PROVE Deleted(u)'
  <2>1. CASE session = NoUid
      BY <1>2, <1>5, <2>1 DEF Saved
  <2>2. CASE session \in Uids
      BY <1>3, <1>5, <2>2, NoUidAssumption DEF Saved
  <2> QED
      BY <1>1, <2>1, <2>2 DEF Users
<1>6. CASE Server
  <2>1. ASSUME NEW s \in Slots, ServeCreate(s) PROVE Deleted(u)'
      BY <1>1, <2>1 DEF ServeCreate, Unborn, Deleted
  <2>2. ASSUME NEW v \in Uids, ServeDelete(v) PROVE Deleted(u)'
      BY <1>1, <2>2 DEF ServeDelete, Deleted
  <2> QED
      BY <1>2, <1>6, <2>1, <2>2 DEF Server, ServeSignIn, ServeReload, FailCall
<1>7. CASE Mailbox
    BY <1>1, <1>7 DEF Mailbox, OpenLink, Deleted
<1>8. CASE RunHandler
  <2>1. PICK h : h = Head(mainQ)
      OBVIOUS
  <2> QED
      BY <1>2, <1>5, <1>8, <2>1 DEF RunHandler, Created, GoHome, NoAccountFound, EmailChecked,
         BackRefused, BackDeletes, PhotoUploaded, OnlyScreens, authVars
<1>9. CASE Taps /\ ~ResendLink
    BY <1>2, <1>9 DEF Taps, CreateAccountAction, Back, RegisterAction, LogIn, VerifyBack,
       CheckEmailVerification, StartButtonAction, LogOut, DeleteAccount, authVars
<1>10. CASE WorkQueue
    BY <1>2, <1>10 DEF WorkQueue, ReplyEntry, ReplyRefused, ReplyReload, ReplyDelete, RefreshRefused
<1>11. CASE SplashTimer \/ Lookup \/ WriteStream \/ Storage \/ Restart
    BY <1>2, <1>11 DEF SplashTimer, OnlyScreens, Lookup, WriteStream, Storage, Restart, AuthRestart,
       authVars
<1> QED
    BY <1>2, <1>4, <1>6, <1>7, <1>8, <1>9, <1>10, <1>11 DEF Next, vars, authVars

\* Nobody hears anything new.
Silent ==
    /\ \A s \in Slots : calls'[s].answer = "gone"
                        => calls[s].answer = "gone" /\ calls'[s].uid = calls[s].uid
    /\ \A u \in Uids : deleting'[u] = "done" => deleting[u] = "done"

LEMMA SilentCalls ==
    ASSUME TypeOK,
           \/ UNCHANGED calls
           \/ \E change \in Changes : calls' = CallsReowned(change)
           \/ \E r : r.answer = "none" /\ Start(r)
           \/ \E s \in Slots : Finish(s)
           \/ calls' = [s \in Slots |-> Idle],
           NEW s \in Slots, calls'[s].answer = "gone"
    PROVE  calls[s].answer = "gone" /\ calls'[s].uid = calls[s].uid
<1>1. CallsType(calls) /\ calls[s] \in Call /\ Idle.answer = "none"
    BY TypeParts, IdleType DEF CallsType
<1>2. ASSUME NEW change \in Changes, calls' = CallsReowned(change)
      PROVE  calls'[s].answer = calls[s].answer /\ calls'[s].uid = calls[s].uid
    BY <1>1, <1>2 DEF CallsReowned, Call
<1>3. ASSUME NEW r, r.answer = "none", Start(r) PROVE calls'[s] = calls[s]
    BY <1>1, <1>3 DEF Start, CallsType
<1>4. ASSUME NEW t \in Slots, Finish(t) PROVE calls'[s] = calls[s]
    BY <1>1, <1>4 DEF Finish, CallsType
<1> QED
    BY <1>1, <1>2, <1>3, <1>4

LEMMA SilentStep ==
    ASSUME IndInv, Next, \A s \in Slots : ~ServeReload(s), \A u \in Uids : ~ServeDelete(u)
    PROVE  Silent
<1>1. TypeOK /\ CallsType(calls) /\ deleting \in [Uids -> {"no", "back", "profile", "done"}]
      /\ session \in Users /\ PathType
    BY TypeParts DEF IndInv, PathType
<1>2. \A r : r.answer = "none" /\ Start(r) /\ UNCHANGED deleting => Silent
    BY <1>1, SilentCalls DEF Silent
<1>3. \A k, e, u, w : Start(Request(k, e, u, w)) /\ UNCHANGED deleting => Silent
    BY <1>2 DEF Request
<1>4. \A s \in Slots : Finish(s) /\ UNCHANGED deleting => Silent
    BY <1>1, SilentCalls DEF Silent
<1>5. \A change \in Changes : calls' = CallsReowned(change) /\ UNCHANGED deleting => Silent
    BY <1>1, SilentCalls DEF Silent
<1>6. UNCHANGED <<calls, deleting>> => Silent
    BY DEF Silent
<1>7. \A u \in Uids, origin \in {"back", "profile"} :
        DeleteRequested(u, origin) => \A v \in Uids : deleting'[v] = "done" => deleting[v] = "done"
    BY <1>1 DEF DeleteRequested
<1>8. \A queue : PresentMain(queue) /\ UNCHANGED deleting => Silent
    BY <1>5, ChangeTypes DEF PresentMain
<1>9. CASE Taps
  <2>1. CASE DeleteAccount
      BY <1>1, <1>7, <2>1 DEF DeleteAccount, Users, Silent
  <2> QED
      BY <1>3, <1>5, <1>6, <1>8, <1>9, <2>1, ChangeTypes DEF Taps, CreateAccountAction, Back,
         RegisterAction, LogIn, VerifyBack, CheckEmailVerification, ResendLink, StartButtonAction,
         LogOut, authVars
<1>10. CASE RunHandler
  <2>1. PICK h : h = Head(mainQ) /\ mainQ # <<>>
      BY <1>10 DEF RunHandler
  <2>2. CASE BackDeletes(h)
    <3>1. PICK after \in Changes : calls' = CallsReowned(after)
        BY <2>2, ChangeTypes DEF BackDeletes
    <3>2. h.uid \in Uids
        BY <1>1, <2>1, QueueTypes, HandlerFacts, TypeParts
    <3> QED
        BY <1>1, <1>7, <2>2, <3>1, <3>2, SilentCalls DEF BackDeletes, Silent
  <2> QED
      BY <1>6, <1>8, <1>10, <2>1, <2>2 DEF RunHandler, Created, Saved, GoHome, NoAccountFound,
         EmailChecked, BackRefused, PhotoUploaded, OnlyScreens, Stay, Push, authVars
<1>11. CASE SplashTimer
    BY <1>6, <1>8, <1>11 DEF SplashTimer, OnlyScreens
<1>12. CASE Server
  <2>1. PICK s \in Slots : ServeCreate(s) \/ ServeSignIn(s) \/ FailCall(s)
      BY <1>12 DEF Server
  <2>2. UNCHANGED deleting
      BY <2>1 DEF ServeCreate, ServeSignIn, FailCall
  <2>3. ASSUME NEW u, NEW verdict, verdict # "gone", Answer(s, u, verdict) PROVE Silent
      BY <1>1, <2>2, <2>3 DEF Answer, CallsType, Call, Silent
  <2>4. CASE FailCall(s)
      BY <1>1, <2>2, <2>4 DEF FailCall, CallsType, Call, Silent
  <2> QED
      BY <2>1, <2>3, <2>4 DEF ServeCreate, ServeSignIn, Verdict
<1>13. CASE WorkQueue
  <2>1. ASSUME NEW u \in Uids, ReplyDelete(u) PROVE Silent
      BY <1>1, <2>1 DEF ReplyDelete, Silent
  <2> QED
      BY <1>4, <1>6, <1>13, <2>1 DEF WorkQueue, ReplyEntry, ReplyRefused, ReplyReload, RefreshRefused
<1>14. CASE Lookup
    BY <1>4, <1>14 DEF Lookup, Finish
<1>15. CASE Mailbox \/ WriteStream \/ Storage
    BY <1>6, <1>15 DEF Mailbox, OpenLink, WriteStream, Storage, authVars
<1>16. CASE Restart
    BY <1>1, <1>16, SilentCalls DEF Restart, AuthRestart, Silent
<1> QED
    BY <1>9, <1>10, <1>11, <1>12, <1>13, <1>14, <1>15, <1>16 DEF Next

\* "User not found" is what the server says of an account that is gone, and a
\* deletion is done when it is.
LEMMA ToldTruthStep ==
    ASSUME IndInv, RegInv, ToldTruth, [Next]_vars
    PROVE  ToldTruth'
<1>1. /\ CallsType(calls) /\ accounts \in [Uids -> Account]
      /\ deleting \in [Uids -> {"no", "back", "profile", "done"}]
    BY TypeParts DEF IndInv
<1>2. ASSUME Silent PROVE ToldTruth'
    BY <1>2, DeletedStays DEF Silent, ToldTruth
<1>3. CASE UNCHANGED vars
    BY <1>2, <1>3 DEF Silent, vars, authVars
<1>4. ASSUME NEW s \in Slots, ServeReload(s) PROVE ToldTruth'
  <2>1. PICK u \in Uids : u = calls[s].uid
      BY <1>1, <1>4 DEF ServeReload, Awaiting, CallsType
  <2>2. Born(u)
    <3>1. GoodCall(calls[s]) /\ CallStage(calls[s]) # "photo"
        BY <1>4 DEF RegInv, CallsGood, ServeReload, Awaiting, CallStage
    <3> QED
        BY <2>1, <3>1 DEF GoodCall, Good
  <2>3. PICK verdict :
          /\ verdict = (IF Live(u) THEN Verdict(u) ELSE "gone")
          /\ calls' = [calls EXCEPT ![s].uid = u, ![s].answer = verdict]
          /\ UNCHANGED <<accounts, deleting>>
      BY <1>4, <2>1 DEF ServeReload, Answer
  <2>4. verdict = "gone" => Deleted(u)
    <3>1. accounts[u].status \in Statuses
        BY <1>1 DEF Account
    <3> QED
        BY <2>2, <2>3, <3>1 DEF Verdict, Live, Born, Deleted, Statuses
  <2>5. /\ calls'[s].uid = u /\ calls'[s].answer = verdict
        /\ \A t \in Slots \ {s} : calls'[t] = calls[t]
      BY <1>1, <2>3 DEF CallsType, Call
  <2>6. \A v \in Uids : Deleted(v) => Deleted(v)'
      BY DeletedStays
  <2>7. ASSUME NEW t \in Slots, NEW v \in Uids, calls'[t].answer = "gone", calls'[t].uid = v
        PROVE  Deleted(v)'
    <3>1. CASE t = s
        BY <2>4, <2>5, <2>6, <2>7, <3>1
    <3>2. CASE t # s
        BY <2>5, <2>6, <2>7, <3>2 DEF ToldTruth
    <3> QED
        BY <3>1, <3>2
  <2> QED
      BY <2>3, <2>6, <2>7 DEF ToldTruth
<1>5. ASSUME NEW u \in Uids, ServeDelete(u) PROVE ToldTruth'
  <2>1. UNCHANGED calls /\ \A v \in Uids \ {u} : deleting'[v] = deleting[v]
      BY <1>1, <1>5 DEF ServeDelete
  <2>2. deleting'[u] = "done" => Deleted(u)'
      BY <1>1, <1>5 DEF ServeDelete, Deleted
  <2> QED
      BY <2>1, <2>2, DeletedStays DEF ToldTruth
<1> QED
    BY <1>2, <1>3, <1>4, <1>5, SilentStep

\* A deletion that was reowned was that deletion before.
LEMMA PlainReowned ==
    ASSUME NEW q \in Seq(Write), NEW change \in Changes, change[Gone] = Gone,
           \A w \in Elems(q) : PlainDelete(w), NEW i \in DOMAIN q,
           Reowned(q, change)[i].op = "delete"
    PROVE  q[i] = Delete(q[i].doc) /\ Reowned(q, change)[i] = q[i]
<1>1. q[i] \in Write /\ Reowned(q, change)[i] = [q[i] EXCEPT !.owner = change[@]]
    BY DEF Reowned
<1>2. q[i].op = "delete" /\ q[i].doc \in Uids
    BY <1>1 DEF Write
<1>3. q[i] = Delete(q[i].doc)
    BY <1>2 DEF Elems, PlainDelete
<1> QED
    BY <1>2, <1>3, DeleteReowned

LEMMA PlainQueue ==
    ASSUME NEW q \in Seq(Write), NEW change \in Changes, change[Gone] = Gone,
           \A w \in Elems(q) : PlainDelete(w)
    PROVE  \A w \in Elems(Reowned(q, change)) : PlainDelete(w)
<1> SUFFICES ASSUME NEW i \in DOMAIN q, Reowned(q, change)[i].op = "delete"
             PROVE  Reowned(q, change)[i] = Delete(Reowned(q, change)[i].doc)
    BY ReownedWritesNew DEF Elems, PlainDelete
<1> QED
    BY PlainReowned

\* The queues with a deletion at the end of one.
LEMMA PlainEnqueued ==
    ASSUME NEW base \in [Users -> Seq(Write)], NEW s \in Uids, NEW queues,
           \A u \in Users : \A w \in Elems(base[u]) : PlainDelete(w),
           queues = [base EXCEPT ![s] = Enqueued(@, Delete(s))]
    PROVE  \A u \in Users : \A w \in Elems(queues[u]) : PlainDelete(w)
<1>1. /\ s \in Users /\ queues[s] = Enqueued(base[s], Delete(s))
      /\ \A u \in Users : u # s => queues[u] = base[u]
    BY DEF Users
<1>2. PICK q \in Seq(Write) : q = base[s]
    BY <1>1
<1>3. \A w \in Elems(Enqueued(q, Delete(s))) : w \in Elems(q) \/ w = Delete(s)
    BY EnqueuedDelete DEF Elems
<1>4. PlainDelete(Delete(s))
    BY DEF PlainDelete, Delete
<1> QED
    BY <1>1, <1>2, <1>3, <1>4

\* A step erases the document of the current user.
Erases ==
    /\ UNCHANGED docs
    /\ session \in Uids
    /\ erased' = erased \cup {session}
    /\ \E change \in Changes :
         /\ change[Gone] = Gone
         /\ writes' = [WritesReowned(change) EXCEPT ![session] = Enqueued(@, Delete(session))]

\* What a step does to the documents and their writes, once more.
LEMMA StoreForms ==
    ASSUME IndInv, [Next]_vars
    PROVE  \/ UNCHANGED <<docs, writes, erased>>
           \/ UNCHANGED <<docs, erased>> /\ \E change \in Changes :
                  change[Gone] = Gone /\ writes' = WritesReowned(change)
           \/ UNCHANGED <<docs, erased>> /\ \E s \in Users, w \in Write :
                  w.op # "delete" /\ writes' = [writes EXCEPT ![s] = Append(@, w)]
           \/ Erases
           \/ WriteStream
<1>1. TypeOK /\ PathType /\ session \in Users
    BY TypeParts DEF IndInv, PathType
<1>2. DeleteAccount => UNCHANGED <<docs, writes, erased>> \/ Erases
    BY <1>1, AsBeforeReowned, AsBeforeIsIdentity, ChangesOfGone DEF DeleteAccount, Erases, Users
<1>3. ASSUME NEW h, BackDeletes(h) PROVE UNCHANGED <<docs, writes, erased>> \/ Erases
    BY <1>1, <1>3, ChangeTypes, ChangesOfGone DEF BackDeletes, Erases, Users
<1> QED
    BY <1>2, <1>3, StoreStep

LEMMA DeletesPlainStep ==
    ASSUME IndInv, DeletesPlain, [Next]_vars
    PROVE  DeletesPlain'
<1>1. writes \in [Users -> Seq(Write)] /\ session \in Users
    BY TypeParts DEF IndInv
<1>2. CASE UNCHANGED writes
    BY <1>2 DEF DeletesPlain
<1>3. ASSUME NEW change \in Changes, change[Gone] = Gone
      PROVE  \A u \in Users : \A w \in Elems(WritesReowned(change)[u]) : PlainDelete(w)
  <2>1. ASSUME NEW u \in Users PROVE \A w \in Elems(Reowned(writes[u], change)) : PlainDelete(w)
      BY <1>1, <1>3, PlainQueue DEF DeletesPlain
  <2> QED
      BY <2>1 DEF WritesReowned
<1>4. ASSUME NEW s \in Users, NEW w \in Write, w.op # "delete",
             writes' = [writes EXCEPT ![s] = Append(@, w)]
      PROVE  DeletesPlain'
  <2>1. /\ writes[s] \in Seq(Write) /\ writes'[s] = Append(writes[s], w)
        /\ \A u \in Users : u # s => writes'[u] = writes[u]
      BY <1>1, <1>4
  <2>2. Elems(Append(writes[s], w)) = Elems(writes[s]) \cup {w}
      BY <2>1, ElemsAppend
  <2> QED
      BY <1>4, <2>1, <2>2 DEF DeletesPlain, PlainDelete
<1>5. CASE Erases
  <2>a. PICK change \in Changes :
          /\ change[Gone] = Gone
          /\ writes' = [WritesReowned(change) EXCEPT ![session] = Enqueued(@, Delete(session))]
      BY <1>5 DEF Erases
  <2>b. PICK base \in [Users -> Seq(Write)] : base = WritesReowned(change)
      BY <1>1, WritesReownedType
  <2>c. PICK s \in Uids : s = session
      BY <1>5 DEF Erases
  <2>d. PICK queues : queues = writes'
      OBVIOUS
  <2>1. queues = [base EXCEPT ![s] = Enqueued(@, Delete(s))]
      BY <2>a, <2>b, <2>c, <2>d
  <2>2. \A u \in Users : \A w \in Elems(base[u]) : PlainDelete(w)
      BY <1>3, <2>a, <2>b
  <2>3. \A u \in Users : \A w \in Elems(queues[u]) : PlainDelete(w)
      BY <2>1, <2>2, PlainEnqueued
  <2> QED
      BY <2>d, <2>3 DEF DeletesPlain
<1>6. CASE WriteStream
  <2>1. writes[session] # <<>> /\ writes' = [writes EXCEPT ![session] = Tail(@)]
      BY <1>6 DEF WriteStream, Acknowledge, Refuse
  <2>2. /\ writes'[session] = Tail(writes[session]) /\ writes[session] \in Seq(Write)
        /\ \A u \in Users : u # session => writes'[u] = writes[u]
      BY <1>1, <2>1
  <2>3. Elems(Tail(writes[session])) \subseteq Elems(writes[session])
      BY <2>1, <2>2, ElemsTail
  <2> QED
      BY <1>1, <2>2, <2>3 DEF DeletesPlain
<1>7. ASSUME NEW change \in Changes, change[Gone] = Gone, writes' = WritesReowned(change)
      PROVE  DeletesPlain'
    BY <1>3, <1>7 DEF DeletesPlain
<1> QED
    BY <1>2, <1>4, <1>5, <1>6, <1>7, StoreForms

LEMMA InitClosed == Init => Closed
BY NoUidAssumption
   DEF Init, AuthInit, StoreInit, Closed, ToldTruth, DeletesPlain, Elems, Idle, Request

\* The invariant the maps rest on.
LifeInv == IndInv /\ RegInv /\ Closed

LEMMA SpecLifeInv == Spec => []LifeInv
<1>1. Init => Closed
    BY InitClosed
<1>2. (IndInv /\ RegInv) /\ Closed /\ [Next]_vars => Closed'
    BY ToldTruthStep, DeletesPlainStep DEF Closed
<1>3. (IndInv /\ RegInv) /\ Closed => LifeInv
    BY DEF LifeInv
<1> QED
    BY <1>1, <1>2, <1>3, SpecRegInv, PTL DEF Spec

(***************************************************************************)
(* The documents.                                                          *)
(***************************************************************************)
\* No deletion comes of a change of owners.
LEMMA HeldReowned ==
    ASSUME TypeOK, DeletesPlain, NEW change \in Changes, change[Gone] = Gone, NEW u \in Uids,
           NEW queues, queues = WritesReowned(change), Holding(queues, u)
    PROVE  Holding(writes, u)
<1>1. PICK w \in Users : \E i \in DOMAIN queues[w] : queues[w][i] = Delete(u)
    BY DEF Holding
<1>2. PICK q \in Seq(Write) : q = writes[w] /\ queues[w] = Reowned(q, change)
    BY TypeParts DEF WritesReowned
<1>3. PICK i \in DOMAIN q : Reowned(q, change)[i] = Delete(u)
    BY <1>1, <1>2, ReownedWritesNew
<1>4. Delete(u).op = "delete" /\ \A x \in Elems(q) : PlainDelete(x)
    BY <1>2 DEF Delete, DeletesPlain
<1>5. q[i] = Delete(u)
    BY <1>3, <1>4, PlainReowned
<1> QED
    BY <1>2, <1>5 DEF Holding

\* Nor one of another user of a deletion.
LEMMA HeldEnqueued ==
    ASSUME NEW base \in [Users -> Seq(Write)], NEW s \in Uids, NEW u \in Uids, u # s, NEW queues,
           queues[s] = Enqueued(base[s], Delete(s)),
           \A w \in Users : w # s => queues[w] = base[w],
           Holding(queues, u)
    PROVE  Holding(base, u)
<1>1. s \in Users
    BY DEF Users
<1>2. PICK q \in Seq(Write) : q = base[s]
    BY <1>1
<1>3. PICK r : r = Enqueued(q, Delete(s))
    OBVIOUS
<1>4. \A i \in DOMAIN r : r[i] = Delete(s) \/ (i \in DOMAIN q /\ r[i] = q[i])
    BY <1>3, EnqueuedDelete
<1>5. Delete(s) # Delete(u)
    BY DEF Delete
<1>6. PICK w \in Users : \E i \in DOMAIN queues[w] : queues[w][i] = Delete(u)
    BY DEF Holding
<1> QED
    BY <1>1, <1>2, <1>3, <1>4, <1>5, <1>6 DEF Holding

\* What AccountLife calls the document of u.
RecordOf(u) ==
    IF u \notin erased
      THEN IF docs[u].profile THEN "saved" ELSE "none"
      ELSE IF ErasurePending(u) THEN "doomed"
      ELSE IF docs[u].profile THEN "spared" ELSE "erased"

LEMMA RecordsAre ==
    /\ Records = [u \in Uids |-> RecordOf(u)]
    /\ Records' = [u \in Uids |-> RecordOf(u)']
BY DEF Records, RecordOf

\* The three things a record is made of.
LEMMA RecordKept ==
    ASSUME NEW u \in Uids, u \in erased' <=> u \in erased,
           docs'[u].profile <=> docs[u].profile,
           u \in erased => (ErasurePending(u)' <=> ErasurePending(u))
    PROVE  RecordOf(u)' = RecordOf(u)
BY DEF RecordOf

LEMMA RecordsKept ==
    ASSUME IndInv, DeletesPlain, UNCHANGED <<docs, erased>>,
           \/ UNCHANGED writes
           \/ \E change \in Changes : change[Gone] = Gone /\ writes' = WritesReowned(change)
           \/ \E s \in Users, w \in Write :
                  w.op # "delete" /\ writes' = [writes EXCEPT ![s] = Append(@, w)]
    PROVE  Records' = Records
<1>1. TypeOK /\ writes \in [Users -> Seq(Write)]
    BY TypeParts DEF IndInv
<1>2. ASSUME \A u \in Uids : ErasurePending(u)' <=> ErasurePending(u) PROVE Records' = Records
    BY <1>2, RecordKept, RecordsAre
<1>3. CASE UNCHANGED writes
    BY <1>2, <1>3 DEF ErasurePending
<1>4. ASSUME NEW change \in Changes, change[Gone] = Gone, writes' = WritesReowned(change),
             NEW u \in Uids
      PROVE  ErasurePending(u)' <=> ErasurePending(u)
  <2>1. PICK queues : queues = writes'
      OBVIOUS
  <2>2. Holding(queues, u) <=> Holding(writes, u)
      BY <1>1, <1>4, <2>1, PendingReowned, HeldReowned
  <2> QED
      BY <2>1, <2>2 DEF ErasurePending, Holding
<1>5. ASSUME NEW s \in Users, NEW w \in Write, w.op # "delete",
             writes' = [writes EXCEPT ![s] = Append(@, w)], NEW u \in Uids
      PROVE  ErasurePending(u)' <=> ErasurePending(u)
  <2>1. /\ writes'[s] = Append(writes[s], w) /\ writes[s] \in Seq(Write)
        /\ \A x \in Users \ {s} : writes'[x] = writes[x]
      BY <1>1, <1>5
  <2>2. Elems(writes'[s]) = Elems(writes[s]) \cup {w}
      BY <2>1, ElemsAppend
  <2>3. w # Delete(u)
      BY <1>5 DEF Delete
  <2>4. ASSUME NEW x \in Users PROVE Delete(u) \in Elems(writes'[x]) <=> Delete(u) \in Elems(writes[x])
      BY <2>1, <2>2, <2>3
  <2>5. /\ ErasurePending(u) <=> \E x \in Users : Delete(u) \in Elems(writes[x])
        /\ ErasurePending(u)' <=> \E x \in Users : Delete(u) \in Elems(writes'[x])
      BY DEF ErasurePending, Elems
  <2> QED
      BY <2>4, <2>5
<1> QED
    BY <1>2, <1>3, <1>4, <1>5

\* The document of the user who asked is doomed, and no other.
LEMMA RecordsErased ==
    ASSUME IndInv, DeletesPlain, Erases
    PROVE  Records' = [Records EXCEPT ![session] = "doomed"]
<1>1. TypeOK /\ writes \in [Users -> Seq(Write)]
    BY TypeParts DEF IndInv
<1>2. PICK change \in Changes :
        /\ change[Gone] = Gone
        /\ writes' = [WritesReowned(change) EXCEPT ![session] = Enqueued(@, Delete(session))]
    BY DEF Erases
<1>3. PICK base \in [Users -> Seq(Write)] : base = WritesReowned(change)
    BY <1>1, WritesReownedType
<1>4. PICK s \in Uids : s = session
    BY DEF Erases
<1>5. PICK queues : queues = writes'
    OBVIOUS
<1>6. queues = [base EXCEPT ![s] = Enqueued(@, Delete(s))]
    BY <1>2, <1>3, <1>4, <1>5
<1>7. RecordOf(s)' = "doomed"
  <2>1. Holding(queues, s)
      BY <1>6, PendingDelete
  <2>2. ErasurePending(s)'
      BY <1>5, <2>1 DEF ErasurePending, Holding
  <2>3. s \in erased'
      BY <1>4 DEF Erases
  <2> QED
      BY <2>2, <2>3 DEF RecordOf
<1>8. ASSUME NEW u \in Uids, u # s PROVE RecordOf(u)' = RecordOf(u)
  <2>a. Holding(base, u) => Holding(queues, u)
      BY <1>6, PendingDelete
  <2>b. Holding(queues, u) => Holding(base, u)
    <3> SUFFICES ASSUME Holding(queues, u) PROVE Holding(base, u)
        OBVIOUS
    <3>1. /\ queues[s] = Enqueued(base[s], Delete(s))
          /\ \A w \in Users : w # s => queues[w] = base[w]
        BY <1>6 DEF Users
    <3> QED
        BY <1>8, <3>1, HeldEnqueued
  <2>1. Holding(queues, u) <=> Holding(base, u)
      BY <2>a, <2>b
  <2>2. Holding(base, u) <=> Holding(writes, u)
    <3>1. base = WritesReowned(change) /\ change[Gone] = Gone
        BY <1>2, <1>3
    <3>2. Holding(writes, u) => Holding(base, u)
        BY <1>1, <3>1, PendingReowned
    <3>3. Holding(base, u) => Holding(writes, u)
        BY <1>1, <3>1, HeldReowned
    <3> QED
        BY <3>2, <3>3
  <2>3. ErasurePending(u)' <=> ErasurePending(u)
      BY <1>5, <2>1, <2>2 DEF ErasurePending, Holding
  <2> QED
      BY <1>4, <1>8, <2>3, RecordKept DEF Erases
<1> QED
    BY <1>4, <1>7, <1>8, RecordsAre

\* The write the stream takes is its user's own, and no other document changes.
LEMMA Taken ==
    ASSUME IndInv, RegInv, DeletesPlain, WriteStream, ~astray
    PROVE  /\ session \in Uids
           /\ \E q \in Seq(Write) :
                /\ q # <<>> /\ q = writes[session] /\ writes'[session] = Tail(q)
                /\ Head(q) \in Write /\ Head(q).doc = session
                /\ Head(q).op = "delete" => session \in erased /\ Head(q) = Delete(session)
                /\ Followed(q, erased)
           /\ UNCHANGED <<session, cached, accounts, deleting, erased, astray, path>>
           /\ \A u \in Uids : u # session =>
                docs'[u] = docs[u] /\ (ErasurePending(u)' <=> ErasurePending(u))
           /\ ErasurePending(session)'
                <=> \E i \in DOMAIN writes'[session] : writes'[session][i] = Delete(session)
           /\ ErasurePending(session)
                <=> \E i \in DOMAIN writes[session] : writes[session][i] = Delete(session)
<1>1. /\ writes \in [Users -> Seq(Write)] /\ docs \in [Uids -> Document]
      /\ Ordered(writes, erased) /\ session \in Users
    BY TypeParts DEF IndInv, RegInv, Steady
<1>2. /\ writes[session] # <<>> /\ writes' = [writes EXCEPT ![session] = Tail(@)]
      /\ UNCHANGED <<session, cached, accounts, deleting, erased, astray, path>>
      /\ docs' = docs \/ docs' = [docs EXCEPT ![Head(writes[session]).doc] = Effect(@, Head(writes[session]))]
    BY DEF WriteStream, Acknowledge, Refuse, authVars, observed
<1>3. session \in Uids
    BY <1>1, <1>2 DEF Ordered, Users
<1>4. PICK q \in Seq(Write) : q = writes[session] /\ q # <<>> /\ Followed(q, erased)
    BY <1>1, <1>2 DEF Ordered
<1>5. PICK w \in Write : w = Head(q) /\ w \in Elems(q)
    BY <1>4, ElemsTail, HeadTailProperties
<1>6. w.doc = session /\ PlainDelete(w) /\ GoodWrite(w)
    BY <1>1, <1>3, <1>4, <1>5 DEF Ordered, DeletesPlain, RegInv, WritesGood
<1>7. w.op = "delete" => session \in erased /\ w = Delete(session)
    BY <1>6 DEF GoodWrite, Good, WriteStage, WriteUser, PlainDelete
<1>8. writes'[session] = Tail(q) /\ \A x \in Users : x # session => writes'[x] = writes[x]
    BY <1>1, <1>2, <1>4
<1>9. ASSUME NEW u \in Uids, NEW x \in Users, x # u
      PROVE  /\ \A i \in DOMAIN writes[x] : writes[x][i] # Delete(u)
             /\ \A i \in DOMAIN writes'[x] : writes'[x][i] # Delete(u)
  <2>1. \A y \in Elems(writes[x]) : y # Delete(u)
    <3>1. x \in Uids => \A y \in Elems(writes[x]) : y.doc = x
        BY <1>1 DEF Ordered
    <3>2. Delete(u).doc = u
        BY DEF Delete
    <3>3. x = NoUid => writes[x] = <<>>
        BY <1>1 DEF Ordered
    <3> QED
        BY <1>9, <3>1, <3>2, <3>3 DEF Users, Elems
  <2>2. Elems(writes'[x]) \subseteq Elems(writes[x])
      BY <1>4, <1>8, ElemsTail
  <2> QED
      BY <2>1, <2>2 DEF Elems
<1>10. ASSUME NEW u \in Uids
       PROVE  /\ ErasurePending(u) <=> \E i \in DOMAIN writes[u] : writes[u][i] = Delete(u)
              /\ ErasurePending(u)' <=> \E i \in DOMAIN writes'[u] : writes'[u][i] = Delete(u)
    BY <1>9 DEF ErasurePending, Users
<1>11. ASSUME NEW u \in Uids, u # session
       PROVE  docs'[u] = docs[u] /\ (ErasurePending(u)' <=> ErasurePending(u))
  <2>1. docs'[u] = docs[u]
      BY <1>1, <1>2, <1>4, <1>5, <1>6, <1>11
  <2>2. writes'[u] = writes[u]
      BY <1>8, <1>11 DEF Users
  <2> QED
      BY <1>10, <2>1, <2>2
<1> QED
    BY <1>2, <1>3, <1>4, <1>5, <1>6, <1>7, <1>8, <1>10, <1>11

\* A document is saved, erased, or spared by a refusal, or nothing happens.
LEMMA RecordsSettled ==
    ASSUME IndInv, RegInv, DeletesPlain, WriteStream, ~astray
    PROVE  \/ Records' = Records
           \/ /\ Records[session] = "none"
              /\ Records' = [Records EXCEPT ![session] = "saved"]
           \/ /\ Records[session] = "doomed"
              /\ \/ Records' = [Records EXCEPT ![session] = "erased"]
                 \/ "write" \in Faults /\ Records' = [Records EXCEPT ![session] = "spared"]
<1>1. PICK s \in Uids : s = session
    BY Taken
<1>2. PICK q \in Seq(Write) :
        /\ q # <<>> /\ q = writes[s] /\ writes'[s] = Tail(q)
        /\ Head(q) \in Write /\ Head(q).doc = s
        /\ Head(q).op = "delete" => s \in erased /\ Head(q) = Delete(s)
        /\ Followed(q, erased)
    BY <1>1, Taken
<1>3. PICK w \in Write : w = Head(q)
    BY <1>2
<1>4. w.doc = s /\ w = q[1] /\ 1 \in DOMAIN q /\ w.op \in WriteOps
    BY <1>2, <1>3, TailPositions DEF Write
<1>5. /\ erased' = erased
      /\ ErasurePending(s)' <=> \E i \in DOMAIN Tail(q) : Tail(q)[i] = Delete(s)
      /\ ErasurePending(s) <=> \E i \in DOMAIN q : q[i] = Delete(s)
    BY <1>1, <1>2, Taken
<1>6. ASSUME NEW u \in Uids, u # s PROVE RecordOf(u)' = RecordOf(u)
    BY <1>1, <1>6, RecordKept, Taken
<1>7. docs \in [Uids -> Document]
    BY TypeParts DEF IndInv
<1>8. PICK doc \in Document : doc = docs[s]
    BY <1>7
<1>9. \/ "write" \in Faults /\ docs'[s] = doc
      \/ docs'[s] = Effect(doc, w)
    BY <1>1, <1>2, <1>3, <1>4, <1>7, <1>8 DEF WriteStream, Acknowledge, Refuse
<1>10. ErasurePending(s)' => ErasurePending(s)
    BY <1>2, <1>5, TailPositions
<1>11. ErasurePending(s) /\ ~ErasurePending(s)' => w = Delete(s)
  <2>1. \A i \in DOMAIN q : i # 1 /\ q[i] = Delete(s) => ErasurePending(s)'
      BY <1>2, <1>5, TailHolds
  <2> QED
      BY <1>4, <1>5, <2>1
<1>12. w.op # "delete" /\ s \in erased => w.op = "photo" \/ ErasurePending(s)'
  <2> SUFFICES ASSUME w.op = "save", s \in erased PROVE ErasurePending(s)'
      BY <1>4 DEF WriteOps
  <2>1. PICK j \in DOMAIN q : 1 < j /\ q[j] = Delete(s)
      BY <1>2, <1>4 DEF Followed, RegWrite
  <2> QED
      BY <1>2, <1>5, <2>1, TailHolds
<1>13. Records' = [Records EXCEPT ![s] = RecordOf(s)'] /\ Records[s] = RecordOf(s)
    BY <1>6, RecordsAre
<1>14. RecordOf(s)' = RecordOf(s) => Records' = Records
    BY <1>6, RecordsAre
<1>15. CASE s \notin erased
  <2>1. w.op \in {"save", "photo"}
      BY <1>2, <1>3, <1>4, <1>15 DEF WriteOps
  <2>2. docs'[s].profile = doc.profile \/ docs'[s].profile = TRUE
      BY <1>9, <2>1, Effects
  <2>3. RecordOf(s)' = IF docs'[s].profile THEN "saved" ELSE "none"
      BY <1>5, <1>15 DEF RecordOf
  <2>4. RecordOf(s) = IF doc.profile THEN "saved" ELSE "none"
      BY <1>8, <1>15 DEF RecordOf
  <2> QED
      BY <1>1, <1>13, <1>14, <2>2, <2>3, <2>4
<1>16. CASE s \in erased /\ ErasurePending(s)'
    BY <1>5, <1>10, <1>14, <1>16 DEF RecordOf
<1>17. CASE s \in erased /\ ErasurePending(s) /\ ~ErasurePending(s)'
  <2>1. w = Delete(s) /\ w.op = "delete"
      BY <1>11, <1>17 DEF Delete
  <2>2. RecordOf(s) = "doomed" /\ RecordOf(s)' = IF docs'[s].profile THEN "spared" ELSE "erased"
      BY <1>5, <1>17 DEF RecordOf
  <2>3. "write" \in Faults \/ ~docs'[s].profile
      BY <1>9, <2>1, Effects DEF Missing
  <2> QED
      BY <1>1, <1>13, <2>2, <2>3
<1>18. CASE s \in erased /\ ~ErasurePending(s) /\ ~ErasurePending(s)'
  <2>1. w.op = "photo"
    <3>1. w.op # "delete"
        BY <1>2, <1>3, <1>4, <1>5, <1>18
    <3> QED
        BY <1>12, <1>18, <3>1
  <2>2. docs'[s].profile = doc.profile
      BY <1>9, <2>1, Effects
  <2> QED
      BY <1>5, <1>8, <1>14, <1>18, <2>2 DEF RecordOf
<1> QED
    BY <1>10, <1>15, <1>16, <1>17, <1>18

(***************************************************************************)
(* Every action is an action of AccountLife.                               *)
(***************************************************************************)
LEMMA SameStandings == UNCHANGED accounts => Standings' = Standings
BY DEF Standings

LEMMA SameClosings == UNCHANGED deleting => Closings' = Closings
BY DEF Closings

LEMMA SameTrust == UNCHANGED <<session, cached>> => (Trusted' <=> Trusted)
BY DEF Trusted

\* Nothing AccountLife speaks of changes.
LEMMA ElsewhereMaps ==
    ASSUME Standings' = Standings, UNCHANGED <<deleting, session>>,
           Trusted' <=> Trusted, Records' = Records \/ astray'
    PROVE  Life!LMove
BY SameClosings DEF Life!LMove, Life!Elsewhere, Life!RecordsStay, Life!SessionStays


LEMMA MailMaps ==
    ASSUME IndInv, session \in Uids, MailLink(session), UNCHANGED <<deleting, session, cached>>,
           Records' = Records \/ astray'
    PROVE  Life!LMove
<1>1. accounts \in [Uids -> Account]
    BY TypeParts DEF IndInv
<1>2. PICK u \in Uids : u = session
    OBVIOUS
<1>3. CASE UNCHANGED accounts
    BY <1>3, ElsewhereMaps, SameStandings, SameTrust
<1>4. CASE accounts' = [accounts EXCEPT ![u].status = IF @ = "new" THEN "mailed" ELSE @]
  <2>1. \A v \in Uids : accounts'[v].status =
            IF v = u /\ accounts[u].status = "new" THEN "mailed" ELSE accounts[v].status
      BY <1>1, <1>4 DEF Account
  <2>2. CASE accounts[u].status = "new"
    <3>1. Standings[u] = "new" /\ Standings' = [Standings EXCEPT ![u] = "mailed"]
        BY <2>1, <2>2 DEF Standings
    <3>2. Life!Mail(u)
        BY <1>2, <3>1, SameClosings, SameTrust
           DEF Life!Mail, Life!Becomes, Life!RecordsStay, Life!SessionStays
    <3> QED
        BY <3>2 DEF Life!LMove
  <2>3. CASE accounts[u].status # "new"
    <3>1. Standings' = Standings
        BY <2>1, <2>3 DEF Standings
    <3> QED
        BY <3>1, ElsewhereMaps, SameTrust
  <2> QED
      BY <2>2, <2>3
<1> QED
    BY <1>2, <1>3, <1>4 DEF MailLink

LEMMA ServerMaps == ASSUME LifeInv, Server PROVE Life!LMove
<1>1. /\ accounts \in [Uids -> Account] /\ IndInv /\ RegInv /\ DeletesPlain
      /\ deleting \in [Uids -> {"no", "back", "profile", "done"}]
    BY TypeParts DEF LifeInv, IndInv, Closed
<1>2. UNCHANGED <<session, cached>> /\ Records' = Records
  <2>1. UNCHANGED storeVars /\ UNCHANGED observed
      BY DEF Server
  <2>2. UNCHANGED <<docs, writes, erased>>
      BY <2>1 DEF storeVars, observed
  <2>3. Records' = Records
      BY <2>2 DEF Records, ErasurePending
  <2> QED
      BY <2>3 DEF Server, ServeCreate, ServeSignIn, ServeReload, FailCall, ServeDelete
<1>3. ASSUME NEW s \in Slots, ServeCreate(s) PROVE Life!LMove
  <2>1. PICK u \in Uids : /\ accounts[u].status = "absent"
                          /\ accounts' = [accounts EXCEPT ![u] = [status |-> "new", email |-> calls[s].email]]
      BY <1>3 DEF ServeCreate, Unborn
  <2>2. Standings[u] = "absent" /\ Standings' = [Standings EXCEPT ![u] = "new"]
      BY <1>1, <2>1 DEF Standings
  <2>3. Life!Open(u)
      BY <1>2, <1>3, <2>2, SameClosings, SameTrust
         DEF ServeCreate, Life!Open, Life!Becomes, Life!RecordsStay, Life!SessionStays
  <2> QED
      BY <2>3 DEF Life!LMove
<1>4. ASSUME UNCHANGED <<accounts, deleting>> PROVE Life!LMove
    BY <1>2, <1>4, ElsewhereMaps, SameStandings, SameTrust
<1>5. ASSUME NEW u \in Uids, ServeDelete(u) PROVE Life!LMove
  <2>1. deleting[u] \in {"back", "profile"} /\ Closings[u] = "asked"
      BY <1>5 DEF ServeDelete, Closings
  <2>2. CASE /\ Live(u)
             /\ accounts' = [accounts EXCEPT ![u] = [status |-> "deleted", email |-> NoEmail]]
             /\ deleting' = [deleting EXCEPT ![u] = "done"]
    <3>1. Standings[u] \in {"new", "mailed", "verified"} /\ Standings' = [Standings EXCEPT ![u] = "deleted"]
        BY <1>1, <2>2 DEF Standings, Live
    <3>2. Closings' = [Closings EXCEPT ![u] = "done"]
        BY <1>1, <2>2 DEF Closings
    <3>3. Life!Close(u)
        BY <1>2, <2>1, <3>1, <3>2, SameTrust DEF Life!Close, Life!RecordsStay, Life!SessionStays
    <3> QED
        BY <3>3 DEF Life!LMove
  <2>3. CASE deleting' = [deleting EXCEPT ![u] = "no"] /\ UNCHANGED accounts
    <3>1. Closings' = [Closings EXCEPT ![u] = "no"]
        BY <1>1, <2>3 DEF Closings
    <3>2. Life!CloseEnds(u)
        BY <1>2, <2>1, <2>3, <3>1, SameStandings, SameTrust
           DEF Life!CloseEnds, Life!RecordsStay, Life!SessionStays
    <3> QED
        BY <3>2 DEF Life!LMove
  <2> QED
      BY <1>5, <2>2, <2>3 DEF ServeDelete
<1> QED
    BY <1>3, <1>4, <1>5 DEF Server, ServeSignIn, ServeReload, FailCall

LEMMA MailboxMaps == ASSUME LifeInv, Mailbox PROVE Life!LMove
<1>1. accounts \in [Uids -> Account]
    BY TypeParts DEF LifeInv, IndInv
<1>2. PICK u \in Uids : /\ accounts[u].status = "mailed"
                        /\ accounts' = [accounts EXCEPT ![u].status = "verified"]
    BY DEF Mailbox, OpenLink
<1>3. UNCHANGED <<session, cached, deleting, docs, writes, erased>>
    BY DEF Mailbox, OpenLink, storeVars, observed
<1>4. Records' = Records
    BY <1>3 DEF Records, ErasurePending
<1>5. Standings[u] = "mailed" /\ Standings' = [Standings EXCEPT ![u] = "verified"]
    BY <1>1, <1>2 DEF Standings, Account
<1>6. Life!Confirm(u)
    BY <1>3, <1>4, <1>5, SameClosings, SameTrust
       DEF Life!Confirm, Life!Becomes, Life!RecordsStay, Life!SessionStays
<1> QED
    BY <1>6 DEF Life!LMove

\* Someone is signed out whose account is gone, or who leaves the tab bar.
LEMMA LeaveMaps ==
    ASSUME session \in Uids, Deleted(session) \/ Inside, session' = NoUid,
           UNCHANGED <<accounts, deleting>>, Records' = Records
    PROVE  Life!LMove
<1>1. session # NoUid /\ ~Trusted' /\ (Deleted(session) => Standings[session] = "deleted")
    BY NoUidAssumption DEF Trusted, Standings, Deleted
<1>2. Life!Leave
    BY <1>1, SameStandings, SameClosings DEF Life!Leave, Life!SignedOut, Life!RecordsStay
<1> QED
    BY <1>2 DEF Life!LMove

LEMMA WorkQueueMaps == ASSUME LifeInv, LifeInv', WorkQueue PROVE Life!LMove
<1>1. /\ accounts \in [Uids -> Account] /\ session \in Users /\ CallsType(calls)
      /\ cached \in [Uids -> BOOLEAN]
      /\ deleting \in [Uids -> {"no", "back", "profile", "done"}]
      /\ RegInv /\ TrustIsEarned /\ TrustIsEarned' /\ ToldTruth
    BY TypeParts DEF LifeInv, IndInv, Closed
<1>2. Records' = Records /\ UNCHANGED accounts
  <2>1. UNCHANGED <<docs, writes, erased>>
      BY DEF WorkQueue, storeVars
  <2> QED
      BY <2>1 DEF Records, ErasurePending, WorkQueue, ReplyEntry, ReplyRefused, ReplyReload,
         ReplyDelete, RefreshRefused
<1>3. ASSUME NEW s \in Slots, ReplyEntry(s) PROVE Life!LMove
  <2>1. PICK u \in Uids : u = calls[s].uid
      BY <1>1, <1>3 DEF ReplyEntry, CallsType
  <2>2. Born(u)
    <3>1. GoodCall(calls[s]) /\ CallStage(calls[s]) # "photo"
        BY <1>1, <1>3 DEF RegInv, CallsGood, ReplyEntry, CallStage
    <3> QED
        BY <2>1, <3>1 DEF GoodCall, Good
  <2>3. /\ session' = u /\ UNCHANGED deleting
        /\ cached' = [cached EXCEPT ![u] = calls[s].answer = "verified"]
      BY <1>3, <2>1 DEF ReplyEntry
  <2>4. Trusted' => VerifiedOrGone(u)
      BY <1>1, <1>2, <2>3 DEF Trusted, TrustIsEarned, VerifiedOrGone
  <2>5. Standings[u] = accounts[u].status
      BY DEF Standings
  <2>6. Life!Enter(u)
      BY <1>2, <2>2, <2>3, <2>4, <2>5, SameStandings, SameClosings
         DEF Life!Enter, Life!Existing, Life!Confirmed, Life!RecordsStay, Born, VerifiedOrGone
  <2> QED
      BY <2>6 DEF Life!LMove
<1>4. ASSUME NEW s \in Slots, ReplyRefused(s) PROVE Life!LMove
    BY <1>2, <1>4, ElsewhereMaps, SameStandings, SameTrust DEF ReplyRefused
<1>5. ASSUME NEW s \in Slots, ReplyReload(s) PROVE Life!LMove
  <2>1. PICK u \in Uids : u = calls[s].uid
      BY <1>1, <1>5 DEF ReplyReload, CallsType
  <2>2. /\ UNCHANGED deleting
        /\ \/ calls[s].answer = "gone" /\ session = u /\ session' = NoUid
           \/ UNCHANGED session
      BY <1>5, <2>1 DEF ReplyReload, SignedOutIf
  <2>3. CASE calls[s].answer = "gone" /\ session = u /\ session' = NoUid
    <3>1. Deleted(session) /\ session \in Uids
        BY <1>1, <2>1, <2>3 DEF ToldTruth
    <3> QED
        BY <1>2, <2>2, <2>3, <3>1, LeaveMaps
  <2>4. CASE UNCHANGED session /\ session = NoUid
    <3>1. Trusted' <=> Trusted
        BY <2>4 DEF Trusted
    <3> QED
        BY <1>2, <2>2, <2>4, <3>1, ElsewhereMaps, SameStandings
  <2>5. CASE UNCHANGED session /\ session \in Uids
    <3>1. Trusted' => VerifiedOrGone(session)
        BY <1>1, <1>2, <2>5 DEF Trusted, TrustIsEarned, VerifiedOrGone
    <3>2. Standings[session] = accounts[session].status /\ session # NoUid
        BY <2>5, NoUidAssumption DEF Standings
    <3>3. Life!Believe
        BY <1>2, <2>2, <2>5, <3>1, <3>2, SameStandings, SameClosings
           DEF Life!Believe, Life!Confirmed, Life!RecordsStay, VerifiedOrGone
    <3> QED
        BY <3>3 DEF Life!LMove
  <2> QED
      BY <1>1, <2>2, <2>3, <2>4, <2>5 DEF Users
<1>6. ASSUME NEW u \in Uids, ReplyDelete(u) PROVE Life!LMove
  <2>1. Closings[u] = "done" /\ Closings' = [Closings EXCEPT ![u] = "no"]
      BY <1>1, <1>6 DEF ReplyDelete, Closings
  <2>2. Standings[u] = "deleted"
      BY <1>1, <1>6 DEF ReplyDelete, ToldTruth, Deleted, Standings
  <2>3. \/ UNCHANGED session /\ (Trusted' <=> Trusted)
        \/ session = u /\ session' = NoUid /\ ~Trusted'
      BY <1>6, SameTrust DEF ReplyDelete, SignedOutIf, Trusted
  <2>4. Life!CloseEnds(u)
      BY <1>2, <2>1, <2>2, <2>3, SameStandings
         DEF Life!CloseEnds, Life!SessionStays, Life!SignedOut, Life!RecordsStay
  <2> QED
      BY <2>4 DEF Life!LMove
<1>7. CASE RefreshRefused
  <2>1. session \in Uids /\ session' = NoUid /\ UNCHANGED deleting /\ ~Live(session)
      BY <1>1, <1>7 DEF RefreshRefused, Users
  <2>2. Deleted(session)
    <3>1. Born(session) /\ accounts[session].status \in Statuses
        BY <1>1, <2>1 DEF RegInv, People, Account
    <3> QED
        BY <2>1, <3>1 DEF Born, Live, Deleted, Statuses
  <2> QED
      BY <1>2, <2>1, <2>2, LeaveMaps
<1> QED
    BY <1>3, <1>4, <1>5, <1>6, <1>7 DEF WorkQueue

\* Steps from screen to screen.
LEMMA ScreensMap ==
    ASSUME LifeInv, UNCHANGED <<accounts, deleting, session, cached, docs, erased>>,
           \/ UNCHANGED writes
           \/ writes' = WritesReowned(AfterPop)
           \/ writes' = WritesReowned(AfterCover)
           \/ \E s \in Users, w \in Write :
                  w.op # "delete" /\ writes' = [writes EXCEPT ![s] = Append(@, w)]
    PROVE  Life!LMove
<1>1. IndInv /\ DeletesPlain /\ PathType
    BY TypeParts DEF LifeInv, IndInv, Closed, PathType
<1>2. Records' = Records
    BY <1>1, RecordsKept, ChangeTypes, ChangesOfGone
<1> QED
    BY <1>2, ElsewhereMaps, SameStandings, SameTrust

\* An account is to be deleted; the session, and what of the document, are said apart.
LEMMA AskedMaps ==
    ASSUME LifeInv, NEW u \in Uids, Born(u), NEW origin \in {"back", "profile"},
           DeleteRequested(u, origin), UNCHANGED accounts,
           \/ /\ UNCHANGED <<session, cached>>
              /\ \/ Records' = Records \/ astray'
                 \/ session = u /\ Erases
           \/ Inside /\ session = u /\ session' = NoUid /\ Records' = Records
    PROVE  Life!LMove
<1>1. /\ IndInv /\ DeletesPlain
      /\ deleting \in [Uids -> {"no", "back", "profile", "done"}]
    BY TypeParts DEF LifeInv, IndInv, Closed
<1>2. Life!Asked(u)
  <2>1. Closings' = [Closings EXCEPT ![u] = IF @ = "no" THEN "asked" ELSE @]
      BY <1>1 DEF Closings, DeleteRequested
  <2>2. Standings[u] # "absent"
      BY DEF Born, Standings
  <2> QED
      BY <2>1, <2>2, SameStandings DEF Life!Asked, Life!Existing
<1>3. CASE UNCHANGED <<session, cached>> /\ (Records' = Records \/ astray')
  <2>1. Life!AskOnly(u)
      BY <1>2, <1>3, SameTrust DEF Life!AskOnly, Life!RecordsStay, Life!SessionStays
  <2> QED
      BY <2>1 DEF Life!LMove
<1>4. CASE UNCHANGED <<session, cached>> /\ session = u /\ Erases
  <2>1. Records' = [Records EXCEPT ![u] = "doomed"]
      BY <1>1, <1>4, RecordsErased
  <2>2. Life!AskErasing(u)
      BY <1>2, <1>4, <2>1, SameTrust DEF Life!AskErasing, Life!SessionStays
  <2> QED
      BY <2>2 DEF Life!LMove
<1>5. CASE Inside /\ session = u /\ session' = NoUid /\ Records' = Records
  <2>1. Life!AskLeaving(u)
      BY <1>2, <1>5 DEF Life!AskLeaving, Life!SignedOut, Life!RecordsStay, Trusted
  <2> QED
      BY <2>1 DEF Life!LMove
<1> QED
    BY <1>3, <1>4, <1>5

LEMMA TapsMap == ASSUME LifeInv, Taps PROVE Life!LMove
<1>1. /\ TypeOK /\ IndInv /\ DeletesPlain /\ People /\ session \in Users
    BY TypeParts DEF LifeInv, IndInv, Closed, RegInv
<1>2. CASE LogOut
  <2>1. UNCHANGED <<accounts, cached, deleting, docs, writes, erased>> /\ session' = NoUid /\ Inside
      BY <1>2 DEF LogOut, storeVars, observed, Inside
  <2>2. Records' = Records
      BY <1>1, <2>1, RecordsKept
  <2>3. CASE session = NoUid
    <3>1. UNCHANGED session
        BY <2>1, <2>3
    <3> QED
        BY <2>1, <2>2, <3>1, ElsewhereMaps, SameStandings, SameTrust
  <2>4. CASE session \in Uids
      BY <2>1, <2>2, <2>4, LeaveMaps
  <2> QED
      BY <1>1, <2>3, <2>4 DEF Users
<1>3. CASE DeleteAccount
  <2>1. PICK u \in Uids : u = session /\ Born(u)
      BY <1>1, <1>3 DEF DeleteAccount, Users, People
  <2>2. UNCHANGED <<accounts, cached, docs>> /\ DeleteRequested(u, "profile") /\ Inside
      BY <1>3, <2>1 DEF DeleteAccount, Inside
  <2>3. CASE session' = NoUid /\ UNCHANGED <<writes, erased>>
    <3>1. Records' = Records
        BY <1>1, <2>2, <2>3, RecordsKept
    <3> QED
        BY <2>1, <2>2, <2>3, <3>1, AskedMaps
  <2>4. CASE /\ UNCHANGED session /\ erased' = erased \cup {session}
             /\ writes' = [writes EXCEPT ![session] = Enqueued(@, Delete(session))]
    <3>1. Erases
      <4>1. AsBefore \in Changes /\ AsBefore[Gone] = Gone /\ writes = WritesReowned(AsBefore)
          BY <1>1, AsBeforeReowned, AsBeforeIsIdentity DEF Owners
      <4> QED
          BY <2>1, <2>2, <2>4, <4>1 DEF Erases
    <3> QED
        BY <2>1, <2>2, <2>4, <3>1, AskedMaps
  <2> QED
      BY <1>3, <2>3, <2>4 DEF DeleteAccount
<1>4. CASE ResendLink
  <2>1. session \in Uids /\ MailLink(session) /\ UNCHANGED <<deleting, session, cached, docs, writes, erased>>
      BY <1>1, <1>4 DEF ResendLink, Users, storeVars, observed
  <2>2. Records' = Records
      BY <1>1, <2>1, RecordsKept
  <2> QED
      BY <1>1, <2>1, <2>2, MailMaps
<1>5. CASE Back
    BY <1>5, ScreensMap DEF Back, observed
<1>6. CASE StartButtonAction
    BY <1>6, ScreensMap DEF StartButtonAction, PresentMain, observed
<1>7. ASSUME UNCHANGED <<accounts, deleting, session, cached, storeVars, erased>> PROVE Life!LMove
    BY <1>7, ScreensMap DEF storeVars
<1>8. CASE CreateAccountAction \/ VerifyBack \/ CheckEmailVerification
           \/ \E e \in Emails : RegisterAction(e) \/ LogIn(e)
    BY <1>7, <1>8 DEF CreateAccountAction, VerifyBack, CheckEmailVerification, RegisterAction, LogIn,
       authVars, observed
<1> QED
    BY <1>2, <1>3, <1>4, <1>5, <1>6, <1>8 DEF Taps

\* The handler of the back button: what it deletes is the user of the tap, and
\* the document that goes is of the same user, or the user had left the screen.
LEMMA BackDeletesMaps ==
    ASSUME LifeInv, mainQ # <<>>, NEW h, h = Head(mainQ), BackDeletes(h)
    PROVE  Life!LMove
<1>1. /\ IndInv /\ RegInv /\ DeletesPlain /\ TypeOK /\ PathType /\ session \in Users
    BY TypeParts DEF LifeInv, IndInv, Closed, PathType
<1>2. h.uid \in Uids /\ Good("back", h.uid, h.owner)
    BY <1>1, HandlerTaken DEF GoodHandler, HandlerStage, BackDeletes
<1>3. PICK u \in Uids : u = h.uid /\ Born(u)
    BY <1>2 DEF Good
<1>4. DeleteRequested(u, "back") /\ UNCHANGED <<accounts, session, cached, docs>>
    BY <1>3 DEF BackDeletes
<1>5. CASE session # NoUid /\ Alive(h) /\ OnScreen(h.owner)
  <2>1. CASE astray'
      BY <1>3, <1>4, <2>1, AskedMaps
  <2>2. CASE ~astray'
    <3>1. session = u
        BY <1>2, <1>3, <1>5, <2>2 DEF Good, BackDeletes
    <3>2. PICK change \in Changes :
            /\ change[Gone] = Gone
            /\ writes' = [WritesReowned(change) EXCEPT ![session] = Enqueued(@, Delete(session))]
        BY <1>1, <1>5, ChangeTypes, ChangesOfGone DEF BackDeletes
    <3>3. Erases
        BY <1>3, <1>4, <1>5, <3>1, <3>2 DEF Erases, BackDeletes
    <3> QED
        BY <1>3, <1>4, <3>1, <3>3, AskedMaps
  <2> QED
      BY <2>1, <2>2
<1>6. CASE session # NoUid /\ Alive(h) /\ ~OnScreen(h.owner)
  <2>1. astray'
      BY <1>6 DEF BackDeletes
  <2> QED
      BY <1>3, <1>4, <2>1, AskedMaps
<1>7. CASE ~(session # NoUid /\ Alive(h))
  <2>1. UNCHANGED <<writes, erased>>
      BY <1>7 DEF BackDeletes
  <2>2. Records' = Records
      BY <1>1, <1>4, <2>1, RecordsKept
  <2> QED
      BY <1>3, <1>4, <2>2, AskedMaps
<1> QED
    BY <1>5, <1>6, <1>7

LEMMA RunHandlerMaps == ASSUME LifeInv, RunHandler PROVE Life!LMove
<1>1. /\ IndInv /\ RegInv /\ DeletesPlain /\ session \in Users
    BY TypeParts DEF LifeInv, IndInv, Closed
<1>2. PICK h : h = Head(mainQ) /\ mainQ # <<>>
    BY DEF RunHandler
<1>3. h.uid \in Uids /\ h.owner \in Owners
    BY <1>1, <1>2, HandlerTaken
<1>4. CASE Created(h)
  <2>1. \/ UNCHANGED writes
        \/ \E s \in Users, w \in Write :
               w.op # "delete" /\ writes' = [writes EXCEPT ![s] = Append(@, w)]
    <3>1. Save(h.uid, h.owner) \in Write /\ Save(h.uid, h.owner).op # "delete"
        BY <1>3, HandlerWrites DEF Save
    <3> QED
        BY <1>1, <1>4, <3>1 DEF Created
  <2> QED
      BY <1>4, <2>1, ScreensMap DEF Created, authVars, observed
<1>5. CASE PhotoUploaded(h)
  <2>1. \/ UNCHANGED writes
        \/ \E s \in Users, w \in Write :
               w.op # "delete" /\ writes' = [writes EXCEPT ![s] = Append(@, w)]
    <3>1. CASE session = NoUid
        BY <1>5, <3>1 DEF PhotoUploaded
    <3>2. CASE session \in Uids
      <4>1. SetPhoto(session, h.uid) \in Write /\ SetPhoto(session, h.uid).op # "delete"
          BY <1>3, <3>2, HandlerWrites DEF SetPhoto
      <4> QED
          BY <1>1, <1>5, <3>2, <4>1, NoUidAssumption DEF PhotoUploaded
    <3> QED
        BY <1>1, <3>1, <3>2 DEF Users
  <2> QED
      BY <1>5, <2>1, ScreensMap DEF PhotoUploaded, authVars, observed
<1>6. CASE Saved(h)
  <2>1. /\ UNCHANGED <<session, cached, deleting, docs, writes, erased>>
        /\ IF session # NoUid THEN MailLink(session) ELSE UNCHANGED accounts
      BY <1>6 DEF Saved, Push, Stay, observed
  <2>2. Records' = Records
      BY <1>1, <2>1, RecordsKept
  <2>3. CASE session = NoUid
      BY <2>1, <2>2, <2>3, ElsewhereMaps, SameStandings, SameTrust
  <2>4. CASE session \in Uids
      BY <1>1, <2>1, <2>2, <2>4, MailMaps, NoUidAssumption
  <2> QED
      BY <1>1, <2>3, <2>4 DEF Users
<1>7. CASE GoHome(h) \/ NoAccountFound(h) \/ EmailChecked(h) \/ BackRefused(h)
    BY <1>7, ScreensMap DEF GoHome, NoAccountFound, EmailChecked, BackRefused, OnlyScreens, Stay,
       Push, PresentMain, observed
<1>8. CASE BackDeletes(h)
    BY <1>2, <1>8, BackDeletesMaps
<1> QED
    BY <1>2, <1>4, <1>5, <1>6, <1>7, <1>8 DEF RunHandler

LEMMA WriteStreamMaps == ASSUME LifeInv, WriteStream PROVE Life!LMove
<1>1. IndInv /\ RegInv /\ DeletesPlain /\ session \in Users
    BY TypeParts DEF LifeInv, IndInv, Closed
<1>2. UNCHANGED <<accounts, deleting, session, cached, astray>>
    BY DEF WriteStream, authVars, observed
<1>3. CASE Records' = Records \/ astray
    BY <1>2, <1>3, ElsewhereMaps, SameStandings, SameTrust
<1>4. CASE Records' # Records /\ ~astray
  <2>1. PICK u \in Uids : u = session /\ Born(u)
      BY <1>1, <1>4, Taken DEF RegInv, People
  <2>2. \/ /\ Records[u] = "none"
           /\ Records' = [Records EXCEPT ![u] = "saved"]
        \/ /\ Records[u] = "doomed"
           /\ \/ Records' = [Records EXCEPT ![u] = "erased"]
              \/ "write" \in Faults /\ Records' = [Records EXCEPT ![u] = "spared"]
      BY <1>1, <1>4, <2>1, RecordsSettled
  <2>3. Standings[u] # "absent"
      BY <2>1 DEF Born, Standings
  <2>4. Life!Save(u) \/ Life!Erase(u) \/ Life!Spare(u)
      BY <1>2, <2>1, <2>2, <2>3, SameStandings, SameClosings, SameTrust
         DEF Life!Save, Life!Erase, Life!Spare, Life!RecordBecomes, Life!Existing, Life!SessionStays
  <2> QED
      BY <2>4 DEF Life!LMove
<1> QED
    BY <1>3, <1>4

\* The keychain keeps who was signed in, Firestore what was filed.
LEMMA RestartMaps == ASSUME LifeInv, Restart PROVE Life!LMove
<1>1. IndInv /\ DeletesPlain /\ session \in Users
    BY TypeParts DEF LifeInv, IndInv, Closed
<1>2. Records' = Records
  <2>1. [w \in Owners |-> Gone] \in Changes /\ [w \in Owners |-> Gone][Gone] = Gone
      BY ChangeTypes DEF Owners
  <2> QED
      BY <1>1, <2>1, RecordsKept DEF Restart, StoreRestart, observed
<1>3. Closings' = [u \in Uids |-> "no"]
    BY DEF Restart, AuthRestart, Closings
<1>4. UNCHANGED <<session, accounts>> /\ (Trusted' <=> Trusted)
    BY <1>1 DEF Restart, AuthRestart, Trusted, Users
<1>5. Life!Die
    BY <1>2, <1>3, <1>4, SameStandings DEF Life!Die, Life!RecordsStay, Life!SessionStays
<1> QED
    BY <1>5 DEF Life!LMove

LEMMA MoveMaps == ASSUME LifeInv, LifeInv', Next PROVE Life!LMove
<1>1. CASE SplashTimer
    BY <1>1, ScreensMap DEF SplashTimer, OnlyScreens, PresentMain, observed
<1>2. CASE Lookup
    BY <1>2, ScreensMap DEF Lookup, storeVars, observed
<1>3. CASE Storage
    BY <1>3, ScreensMap DEF Storage, PhotoStored, UploadFails, authVars, observed
<1> QED
    BY <1>1, <1>2, <1>3, TapsMap, RunHandlerMaps, ServerMaps, MailboxMaps, WorkQueueMaps,
       WriteStreamMaps, RestartMaps DEF Next

\* What went astray stays astray.
LEMMA StrayStays == Next /\ astray => astray'
<1> SUFFICES ASSUME Next PROVE astray => astray'
    OBVIOUS
<1>1. CASE Taps
    BY <1>1 DEF Taps, CreateAccountAction, Back, RegisterAction, LogIn, VerifyBack,
       CheckEmailVerification, ResendLink, StartButtonAction, LogOut, DeleteAccount, observed
<1>2. CASE RunHandler
    BY <1>2 DEF RunHandler, Created, Saved, GoHome, NoAccountFound, EmailChecked, BackRefused,
       BackDeletes, PhotoUploaded, OnlyScreens, observed
<1>3. CASE ~Taps /\ ~RunHandler
    BY <1>3 DEF Next, SplashTimer, OnlyScreens, Server, Mailbox, WorkQueue, Lookup, WriteStream,
       Storage, Restart, observed
<1> QED
    BY <1>1, <1>2, <1>3

LEMMA InitMaps == Init => Life!LInit
<1> SUFFICES ASSUME Init PROVE Life!LInit
    OBVIOUS
<1>1. /\ Standings = [u \in Uids |-> "absent"]
      /\ Closings = [u \in Uids |-> "no"]
    BY DEF Init, AuthInit, Standings, Closings
<1>2. Records = [u \in Uids |-> "none"]
    BY DEF Init, StoreInit, Records, Missing
<1>3. session = NoUid /\ ~Trusted /\ ~astray
    BY DEF Init, AuthInit, Trusted
<1>4. ~Inside
    BY DEF Init, Inside, Top
<1> QED
    BY <1>1, <1>2, <1>3, <1>4 DEF Life!LInit

\* What the app promises each of its users, whatever the others do on the same
\* phone, it keeps: an account is opened, mailed, verified and closed in that
\* order; whoever is signed in stays so until signing out in the tab bar or the
\* account is gone; the phone believes an address verified only if it is; and a
\* document is saved and erased only while its user is signed in, is erased only
\* on that user's demand, and never comes back.
THEOREM LifeKept == Spec => KeepsLife
<1>1. Init => Life!LInit
    BY InitMaps
<1>2. LifeInv /\ LifeInv' /\ [Next]_vars => [Life!LNext]_(Life!lifeVars)
  <2> SUFFICES ASSUME LifeInv, LifeInv', [Next]_vars PROVE [Life!LNext]_(Life!lifeVars)
      OBVIOUS
  <2>1. CASE UNCHANGED vars
    <3>1. UNCHANGED <<Standings, Closings, Records, session, astray>>
        BY <2>1 DEF vars, authVars, storeVars, observed, Standings, Closings, Records, ErasurePending
    <3>2. Trusted' = Trusted /\ Inside' = Inside
        BY <2>1 DEF vars, authVars, Trusted, Inside, Top
    <3> QED
        BY <3>1, <3>2 DEF Life!lifeVars
  <2>2. CASE Next
    <3>1. Life!LMove
        BY <2>2, MoveMaps
    <3>2. Inside' \in BOOLEAN /\ astray' \in BOOLEAN
        BY DEF Inside, LifeInv, IndInv, TypeOK
    <3> QED
        BY <2>2, <3>1, <3>2, StrayStays DEF Life!LNext
  <2> QED
      BY <2>1, <2>2
<1> QED
    BY <1>1, <1>2, SpecLifeInv, PTL DEF Spec, KeepsLife, Life!LSpec

(***************************************************************************)
(* A registration is handed on.                                            *)
(***************************************************************************)
\* Under the registration screen there is only Welcome, and no handler owned
\* by a screen in front is of another screen's.
LEMMA AtRegisterFacts ==
    ASSUME IndInv, RegInv, Top = "Register"
    PROVE  /\ PathType /\ Len(path) = 2 /\ path[1] = "Welcome" /\ path[2] = "Register"
           /\ DOMAIN path = 1..2 /\ HasNavigation /\ CanPop
           /\ \A h : h = Head(mainQ) /\ mainQ # <<>> /\ h.k \in {"back", "continue"}
                     => ~OnScreen(h.owner)
<1>1. PathType /\ Shape
    BY TypeParts DEF IndInv, PathType, RegInv
<1>2. Len(path) = 2 /\ path[1] = "Welcome" /\ path[2] = "Register" /\ DOMAIN path = 1..2
    BY <1>1, RegisterIsSecond, PathFacts
<1>3. ASSUME mainQ # <<>>, NEW h, h = Head(mainQ), h.k \in {"back", "continue"}, OnScreen(h.owner)
      PROVE  FALSE
  <2>1. Owned(h.k, h.owner)
      BY <1>3, HandlerTaken DEF GoodHandler, Good, HandlerStage
  <2>2. h.owner \in DOMAIN path /\ path[h.owner] = "Verify"
      BY <1>3, <2>1 DEF Owned, Home, Registrations
  <2> QED
      BY <1>2, <2>2
<1> QED
    BY <1>1, <1>2, <1>3 DEF HasNavigation, CanPop

\* The main queue loses at most its head.
MainQueueMoves ==
    \/ UNCHANGED mainQ
    \/ \E h \in Handlers : mainQ' = Append(mainQ, h)
    \/ RunHandler /\ mainQ # <<>> /\ mainQ' = Rest

\* The queues of writes lose at most the one the stream takes.
WritesMove ==
    \/ UNCHANGED writes
    \/ \E s \in Users, w \in Write : writes' = [writes EXCEPT ![s] = Append(@, w)]
    \/ \E s \in Uids : writes' = [writes EXCEPT ![s] = Enqueued(@, Delete(s))]
    \/ WriteStream

\* While the user stays on the registration screen, no controller goes.
LEMMA TapsAtRegister ==
    ASSUME IndInv, RegInv, Taps, Top = "Register", OnPath("Register")'
    PROVE  UNCHANGED <<path, mainQ, writes>>
<1>1. ~Back
  <2> SUFFICES ASSUME Back PROVE FALSE
      OBVIOUS
  <2>a. PathType /\ path' = Popped /\ CanPop
      BY AtRegisterFacts DEF Back
  <2>b. /\ DOMAIN path' = 1..(Len(path) - 1)
        /\ \A i \in 1..(Len(path) - 1) : path'[i] = path[i]
      BY <2>a, PopKeeps
  <2>1. DOMAIN path' = 1..1 /\ path'[1] = "Welcome"
    <3>1. Len(path) = 2 /\ path[1] = "Welcome"
        BY AtRegisterFacts
    <3>2. 1..(Len(path) - 1) = 1..1 /\ 1 \in 1..(Len(path) - 1)
        BY <3>1
    <3> QED
        BY <2>b, <3>1, <3>2
  <2> QED
      BY <2>1 DEF OnPath
<1> QED
    BY <1>1 DEF Taps, CreateAccountAction, RegisterAction, LogIn, AtWelcome, VerifyBack,
       CheckEmailVerification, ResendLink, StartButtonAction, LogOut, DeleteAccount, storeVars

LEMMA HandlersAtRegister ==
    ASSUME IndInv, RegInv, RunHandler, Top = "Register", OnPath("Register")'
    PROVE  /\ path' = path \/ Saved(Head(mainQ))
           /\ mainQ # <<>> /\ mainQ' = Rest
           /\ WritesMove
<1>1. TypeOK /\ session \in Users
    BY TypeParts DEF IndInv
<1>2. PICK h : h = Head(mainQ) /\ mainQ # <<>>
    BY DEF RunHandler
<1>3. h.uid \in Uids /\ h.owner \in Owners /\ Rest \in Seq(Handlers)
    BY <1>2, HandlerTaken
<1>4. path' # <<"Main">>
    BY DEF OnPath
<1>5. CASE Created(h)
    BY <1>1, <1>2, <1>3, <1>5, HandlerWrites DEF Created, WritesMove
<1>6. CASE PhotoUploaded(h)
  <2>1. CASE session = NoUid
      BY <1>2, <1>6, <2>1 DEF PhotoUploaded, WritesMove
  <2>2. CASE session \in Uids
      BY <1>1, <1>2, <1>3, <1>6, <2>2, HandlerWrites DEF PhotoUploaded, WritesMove
  <2> QED
      BY <1>1, <2>1, <2>2 DEF Users
<1>7. CASE Saved(h)
    BY <1>2, <1>7 DEF Saved, Push, Stay, WritesMove
<1>8. CASE GoHome(h)
    BY <1>2, <1>4, <1>8 DEF GoHome, PresentMain, Stay, WritesMove
<1>9. CASE NoAccountFound(h) \/ BackRefused(h)
    BY <1>2, <1>9 DEF NoAccountFound, BackRefused, Stay, WritesMove
<1>10. CASE EmailChecked(h)
    BY <1>2, <1>10, AtRegisterFacts DEF EmailChecked, Stay, WritesMove
<1>11. CASE BackDeletes(h)
  <2>1. ~OnScreen(h.owner)
      BY <1>2, <1>11, AtRegisterFacts DEF BackDeletes
  <2>2. /\ path' = path /\ mainQ' = Reowned(Rest, AsBefore)
        /\ \/ UNCHANGED writes
           \/ session # NoUid /\ writes' = [WritesReowned(AsBefore) EXCEPT ![session] = Enqueued(@, Delete(session))]
      BY <1>11, <2>1 DEF BackDeletes
  <2> QED
      BY <1>1, <1>2, <1>3, <2>2, AsBeforeReowned DEF WritesMove, Users
<1> QED
    BY <1>2, <1>5, <1>6, <1>7, <1>8, <1>9, <1>10, <1>11 DEF RunHandler

LEMMA RegisterStep ==
    ASSUME IndInv, RegInv, Next, Top = "Register", OnPath("Register")'
    PROVE  /\ path' = path \/ (mainQ # <<>> /\ Saved(Head(mainQ)))
           /\ MainQueueMoves /\ WritesMove
<1>1. TypeOK /\ CallsType(calls) /\ mainQ \in Seq(Handlers)
    BY TypeParts DEF IndInv
<1>2. CASE Taps
    BY <1>2, TapsAtRegister DEF MainQueueMoves, WritesMove
<1>3. CASE RunHandler
    BY <1>3, HandlersAtRegister DEF MainQueueMoves
<1>4. ~SplashTimer
    BY DEF SplashTimer
<1>5. ~Restart
    BY DEF Restart, OnPath
<1>6. CASE Server \/ Mailbox
    BY <1>6 DEF Server, Mailbox, storeVars, MainQueueMoves, WritesMove
<1>7. CASE WorkQueue
  <2>1. UNCHANGED path /\ UNCHANGED writes
      BY <1>7 DEF WorkQueue, storeVars
  <2>2. ASSUME NEW s \in Slots, ReplyEntry(s) \/ ReplyReload(s) PROVE MainQueueMoves
    <3>1. Post(Handler(calls[s].k, calls[s].uid, calls[s].owner))
        BY <2>2 DEF ReplyEntry, ReplyReload
    <3>2. Handler(calls[s].k, calls[s].uid, calls[s].owner) \in Handlers
        BY <1>1, <2>2 DEF ReplyEntry, ReplyReload, CallsType, Call, Handler, Handlers, HandlerKinds
    <3> QED
        BY <3>1, <3>2 DEF Post, MainQueueMoves
  <2> QED
      BY <1>7, <2>1, <2>2 DEF WorkQueue, ReplyRefused, MainQueueMoves, WritesMove
<1>8. CASE Lookup
  <2>1. UNCHANGED path /\ UNCHANGED writes
      BY <1>8 DEF Lookup, storeVars
  <2>2. PICK s \in Slots :
          /\ calls[s].k = "get"
          /\ \/ UNCHANGED mainQ
             \/ \E k \in {"get", "missing"} : Post(Handler(k, calls[s].uid, calls[s].owner))
      BY <1>8 DEF Lookup
  <2>3. \A k \in {"get", "missing"} : Handler(k, calls[s].uid, calls[s].owner) \in Handlers
      BY <1>1, <2>2 DEF CallsType, Call, Handler, Handlers, HandlerKinds
  <2> QED
      BY <2>1, <2>2, <2>3 DEF Post, MainQueueMoves, WritesMove
<1>9. CASE WriteStream
  <2>1. UNCHANGED path /\ WritesMove
      BY <1>9 DEF WriteStream, WritesMove
  <2>2. CASE UNCHANGED mainQ
      BY <2>1, <2>2 DEF MainQueueMoves
  <2>3. CASE ~UNCHANGED mainQ
    <3>1. PICK w : w = Head(writes[session])
        OBVIOUS
    <3>2. Post(Handler("saved", w.doc, w.owner)) /\ writes[session] # <<>>
        BY <1>9, <2>3, <3>1 DEF WriteStream, Acknowledge, Refuse
    <3>3. w \in Write
      <4>1. writes[session] \in Seq(Write)
          BY TypeParts DEF IndInv
      <4> QED
          BY <3>1, <3>2, <4>1, HeadTailProperties
    <3>4. Handler("saved", w.doc, w.owner) \in Handlers
        BY <3>3 DEF Write, Handler, Handlers, HandlerKinds
    <3> QED
        BY <2>1, <3>2, <3>4 DEF Post, MainQueueMoves
  <2> QED
      BY <2>2, <2>3
<1>10. CASE Storage
  <2>1. UNCHANGED path /\ UNCHANGED writes
      BY <1>10 DEF Storage, PhotoStored, UploadFails
  <2>2. ASSUME NEW u \in Uids, PhotoStored(u) PROVE MainQueueMoves
    <3>1. Handler("photo", u, Gone) \in Handlers
        BY DEF Handler, Handlers, HandlerKinds, Owners
    <3> QED
        BY <2>2, <3>1 DEF PhotoStored, Post, MainQueueMoves
  <2> QED
      BY <1>10, <2>1, <2>2 DEF Storage, UploadFails, MainQueueMoves, WritesMove
<1> QED
    BY <1>2, <1>3, <1>4, <1>5, <1>6, <1>7, <1>8, <1>9, <1>10 DEF Next

\* What waits in the main queue goes on waiting, but for the head.
LEMMA HandlerPasses ==
    ASSUME IndInv, MainQueueMoves, NEW i \in DOMAIN mainQ
    PROVE  \/ \E j \in DOMAIN mainQ' : mainQ'[j] = mainQ[i]
           \/ i = 1 /\ RunHandler
<1>1. mainQ \in Seq(Handlers)
    BY TypeParts DEF IndInv
<1>2. ASSUME NEW h \in Handlers, mainQ' = Append(mainQ, h) PROVE i \in DOMAIN mainQ' /\ mainQ'[i] = mainQ[i]
    BY <1>1, <1>2
<1>3. CASE RunHandler /\ mainQ # <<>> /\ mainQ' = Rest /\ i # 1
    BY <1>1, <1>3, TailPositions DEF Rest
<1> QED
    BY <1>2, <1>3 DEF MainQueueMoves

LEMMA WritePasses ==
    ASSUME IndInv, WritesMove, NEW u \in Users, NEW i \in DOMAIN writes[u]
    PROVE  \/ \E j \in DOMAIN writes'[u] : writes'[u][j] = writes[u][i]
           \/ i = 1 /\ u = session /\ WriteStream
<1>1. writes \in [Users -> Seq(Write)] /\ writes[u] \in Seq(Write) /\ session \in Users
    BY TypeParts DEF IndInv
<1>2. ASSUME NEW s \in Users, NEW w \in Write, writes' = [writes EXCEPT ![s] = Append(@, w)]
      PROVE  i \in DOMAIN writes'[u] /\ writes'[u][i] = writes[u][i]
  <2>1. writes'[u] = IF u = s THEN Append(writes[u], w) ELSE writes[u]
      BY <1>1, <1>2
  <2> QED
      BY <1>1, <2>1
<1>3. ASSUME NEW s \in Uids, writes' = [writes EXCEPT ![s] = Enqueued(@, Delete(s))]
      PROVE  i \in DOMAIN writes'[u] /\ writes'[u][i] = writes[u][i]
  <2>1. PICK q \in Seq(Write) : q = writes[u]
      BY <1>1
  <2>2. writes'[u] = IF u = s THEN Enqueued(q, Delete(s)) ELSE q
      BY <1>1, <1>3, <2>1
  <2>3. PICK r : r = Enqueued(q, Delete(s))
      OBVIOUS
  <2>4. i \in DOMAIN r /\ r[i] = q[i]
      BY <2>1, <2>3, EnqueuedDelete
  <2> QED
      BY <2>1, <2>2, <2>3, <2>4
<1>4. CASE WriteStream
  <2>1. writes[session] # <<>> /\ writes' = [writes EXCEPT ![session] = Tail(@)]
      BY <1>4 DEF WriteStream, Acknowledge, Refuse
  <2>2. CASE u # session
      BY <1>1, <2>1, <2>2
  <2>3. CASE u = session /\ i # 1
    <3>1. writes'[u] = Tail(writes[u]) /\ writes[u] # <<>>
        BY <1>1, <2>1, <2>3
    <3>2. i - 1 \in DOMAIN Tail(writes[u]) /\ Tail(writes[u])[i - 1] = writes[u][i]
        BY <1>1, <2>3, <3>1, TailPositions
    <3> QED
        BY <3>1, <3>2
  <2> QED
      BY <1>4, <2>2, <2>3
<1> QED
    BY <1>2, <1>3, <1>4 DEF WritesMove

\* With one registration at a time, where one is its user is, and waits.
LEMMA WhereRegistrationIs ==
    ASSUME IndInv, RegInv, ~astray
    PROVE  /\ \A i \in DOMAIN mainQ : RegHandler(mainQ[i]) /\ OnScreen(mainQ[i].owner)
                  => Top = "Register" /\ session = mainQ[i].uid
           /\ \A u \in Users : \A i \in DOMAIN writes[u] :
                  RegWrite(writes[u][i]) /\ OnScreen(writes[u][i].owner)
                  => Top = "Register" /\ session = writes[u][i].doc
<1>1. ASSUME NEW h \in Elems(mainQ), RegHandler(h), OnScreen(h.owner)
      PROVE  Top = "Register" /\ session = h.uid
  <2>1. Good(HandlerStage(h), h.uid, h.owner) /\ HandlerStage(h) \in {"created", "saved"}
      BY <1>1 DEF RegInv, HandlersGood, GoodHandler, RegHandler, HandlerStage
  <2> QED
      BY <1>1, <2>1 DEF Good, Registrations, AtRegister, OnScreen, Gone
<1>2. ASSUME NEW u \in Users, NEW w \in Elems(writes[u]), RegWrite(w), OnScreen(w.owner)
      PROVE  Top = "Register" /\ session = w.doc
  <2>1. Good("created", w.doc, w.owner)
      BY <1>2 DEF RegInv, WritesGood, GoodWrite, RegWrite, WriteStage, WriteUser
  <2> QED
      BY <1>2, <2>1 DEF Good, Registrations, AtRegister, OnScreen, Gone
<1> QED
    BY <1>1, <1>2 DEF Elems

\* From the answer to the queue of writes of the one signed in.
LEMMA AnsweredHandedOn ==
    ASSUME IndInv, RegInv, Next, ~astray, OnPath("Register")', NEW u \in Uids, Answered(u)
    PROVE  Answered(u)' \/ Filed(u)'
<1>1. PICK i \in DOMAIN mainQ : mainQ[i].k = "create" /\ mainQ[i].uid = u /\ OnScreen(mainQ[i].owner)
    BY DEF Answered
<1>2. Top = "Register" /\ session = u /\ RegHandler(mainQ[i])
    BY <1>1, WhereRegistrationIs DEF RegHandler
<1>3. MainQueueMoves
    BY <1>2, RegisterStep
<1>4. CASE \E j \in DOMAIN mainQ' : mainQ'[j] = mainQ[i]
    BY <1>1, <1>4 DEF Answered
<1>5. CASE i = 1 /\ RunHandler
  <2>1. mainQ \in Seq(Handlers) /\ writes \in [Users -> Seq(Write)] /\ u \in Users
      BY TypeParts DEF IndInv, Users
  <2>2. PICK h : h = mainQ[1] /\ h = Head(mainQ)
      BY <1>5, <2>1 DEF RunHandler
  <2>3. Created(h) /\ Alive(h) /\ h.uid = u /\ OnScreen(h.owner) /\ h.uid \in Uids /\ h.owner \in Owners
    <3>1. h.k = "create" /\ h.uid = u /\ OnScreen(h.owner) /\ h.owner \in Owners
        BY <1>1, <1>5, <2>1, <2>2, HandlerFacts
    <3> QED
        BY <1>5, <2>2, <3>1 DEF RunHandler, Created, Saved, GoHome, NoAccountFound, EmailChecked,
           BackRefused, BackDeletes, PhotoUploaded, Alive, OnScreen, Gone
  <2>4. PICK w \in Write : w = Save(u, h.owner) /\ w.op = "save" /\ w.doc = u /\ OnScreen(w.owner)
      BY <2>3, HandlerWrites DEF Save
  <2>5. session' = u /\ writes'[u] = Append(writes[u], w)
      BY <1>2, <2>1, <2>3, <2>4 DEF Created, authVars
  <2>6. Len(writes[u]) + 1 \in DOMAIN writes'[u] /\ writes'[u][Len(writes[u]) + 1] = w
      BY <2>1, <2>5
  <2> QED
      BY <2>4, <2>5, <2>6 DEF Filed
<1> QED
    BY <1>3, <1>4, <1>5, HandlerPasses

\* From there to the handler of the save, unless the server refuses it.
LEMMA FiledHandedOn ==
    ASSUME IndInv, RegInv, RegInv', Next, ~astray, ~astray', OnPath("Register")',
           NEW u \in Uids, Filed(u)
    PROVE  Filed(u)' \/ SavedFor(u)' \/ SaveRefused(u)
<1>1. u \in Users /\ writes[u] \in Seq(Write) /\ mainQ \in Seq(Handlers)
    BY TypeParts DEF IndInv, Users
<1>2. PICK i \in DOMAIN writes[u] :
        writes[u][i].op = "save" /\ writes[u][i].doc = u /\ OnScreen(writes[u][i].owner)
    BY DEF Filed
<1>3. Top = "Register" /\ session = u
    BY <1>1, <1>2, WhereRegistrationIs DEF RegWrite
<1>4. WritesMove
    BY <1>3, RegisterStep
<1>5. PICK w \in Write : w = writes[u][i]
    BY <1>1
<1>6. ASSUME NEW j \in DOMAIN writes'[u], writes'[u][j] = w PROVE Filed(u)'
  <2>1. GoodWrite(w)'
      BY <1>1, <1>6 DEF RegInv, WritesGood, Elems
  <2>2. Good("created", u, w.owner)'
      BY <1>2, <1>5, <2>1 DEF GoodWrite, WriteStage, WriteUser
  <2>3. session' = u
      BY <1>2, <1>5, <2>2 DEF Good, Registrations, OnScreen, Gone
  <2> QED
      BY <1>2, <1>5, <1>6, <2>3 DEF Filed
<1>7. CASE i = 1 /\ WriteStream
  <2>1. w = Head(writes[u]) /\ writes[u] # <<>>
      BY <1>1, <1>5, <1>7
  <2>2. CASE Acknowledge(session)
    <3>1. mainQ' = Append(mainQ, Handler("saved", u, w.owner))
        BY <1>2, <1>3, <1>5, <2>1, <2>2 DEF Acknowledge, Post
    <3>2. Len(mainQ) + 1 \in DOMAIN mainQ' /\ mainQ'[Len(mainQ) + 1] = Handler("saved", u, w.owner)
      <4>1. PICK h : h = Handler("saved", u, w.owner)
          OBVIOUS
      <4> QED
          BY <1>1, <3>1, <4>1
    <3> QED
        BY <1>2, <1>5, <3>2 DEF SavedFor, Handler
  <2>3. CASE Refuse(session)
    <3>1. writes'[u] = Tail(writes[u]) /\ UNCHANGED docs
      <4>1. writes \in [Users -> Seq(Write)]
          BY TypeParts DEF IndInv
      <4> QED
          BY <1>1, <1>3, <2>3, <4>1 DEF Refuse
    <3> QED
        BY <1>2, <1>5, <2>1, <3>1 DEF SaveRefused
  <2> QED
      BY <1>7, <2>2, <2>3 DEF WriteStream
<1> QED
    BY <1>1, <1>4, <1>5, <1>6, <1>7, WritePasses

\* And from there to the verification screen.
LEMMA SavedHandedOn ==
    ASSUME IndInv, RegInv, Next, ~astray, OnPath("Register")', NEW u \in Uids, SavedFor(u)
    PROVE  SavedFor(u)' \/ Top' = "Verify"
<1>1. PICK i \in DOMAIN mainQ : mainQ[i].k = "saved" /\ mainQ[i].uid = u /\ OnScreen(mainQ[i].owner)
    BY DEF SavedFor
<1>2. Top = "Register" /\ mainQ \in Seq(Handlers)
    BY <1>1, WhereRegistrationIs, TypeParts DEF RegHandler, IndInv
<1>3. MainQueueMoves
    BY <1>2, RegisterStep
<1>4. CASE \E j \in DOMAIN mainQ' : mainQ'[j] = mainQ[i]
    BY <1>1, <1>4 DEF SavedFor
<1>5. CASE i = 1 /\ RunHandler
  <2>1. PICK h : h = mainQ[1] /\ h = Head(mainQ)
      BY <1>2, <1>5 DEF RunHandler
  <2>2. Saved(h)
      BY <1>1, <1>5, <2>1 DEF RunHandler, Created, GoHome, NoAccountFound, EmailChecked,
         BackRefused, BackDeletes, PhotoUploaded
  <2>3. path' = Append(path, "Verify") /\ path \in Seq(Screens)
      BY <1>1, <1>2, <1>5, <2>1, <2>2, AtRegisterFacts DEF Saved, Push, Pushed, PathType
  <2> QED
      BY <2>3 DEF Top
<1> QED
    BY <1>3, <1>4, <1>5, HandlerPasses

\* Each step of a registration hands it on -- the answer, the document filed,
\* the document saved, the verification screen -- and never to a queue that is
\* not sent: only the user's leaving, or the server's refusal, ends it early.
THEOREM HandedOn == Spec => RegistrationHandedOn
<1>1. LifeInv /\ LifeInv' /\ [Next]_vars
      => [ \A u \in Uids :
             /\ Answered(u) => Answered(u)' \/ Filed(u)' \/ LeftRegister
             /\ Filed(u) => Filed(u)' \/ SavedFor(u)' \/ SaveRefused(u) \/ LeftRegister
             /\ SavedFor(u) => SavedFor(u)' \/ Top' = "Verify" \/ LeftRegister ]_vars
  <2> SUFFICES ASSUME LifeInv, LifeInv', Next, ~astray', OnPath("Register")', NEW u \in Uids
               PROVE  /\ Answered(u) => Answered(u)' \/ Filed(u)'
                      /\ Filed(u) => Filed(u)' \/ SavedFor(u)' \/ SaveRefused(u)
                      /\ SavedFor(u) => SavedFor(u)' \/ Top' = "Verify"
      BY DEF LeftRegister
  <2>1. ~astray
      BY StrayStays
  <2> QED
      BY <2>1, AnsweredHandedOn, FiledHandedOn, SavedHandedOn DEF LifeInv
<1> QED
    BY <1>1, SpecLifeInv, PTL DEF Spec, RegistrationHandedOn
=============================================================================
