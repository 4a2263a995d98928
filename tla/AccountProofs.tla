----------------------------- MODULE AccountProofs -----------------------------
(***************************************************************************)
(* Type correctness of Account, and that the phone never believes an       *)
(* address verified that is not, for any numbers of users, slots and       *)
(* addresses, any bound MaxPending and any set of faults.                  *)
(***************************************************************************)
EXTENDS Account, SequenceTheorems, TLAPS

Changes == [Owners -> Owners]

\* What happens to a controller happens to the owners of its handlers.
LEMMA ChangeTypes ==
    AfterPop \in Changes /\ AfterCover \in Changes /\ AsBefore \in Changes
        /\ [w \in Owners |-> Gone] \in Changes
BY DEF AfterPop, AfterCover, AsBefore, Changes, Owners, Gone, Covered

\* Owners change, queues of handlers stay queues of handlers.
LEMMA ReownedHandlers ==
    ASSUME NEW q \in Seq(Handlers), NEW change \in Changes
    PROVE  Reowned(q, change) \in Seq(Handlers)
<1>1. ASSUME NEW i \in DOMAIN q
      PROVE  [q[i] EXCEPT !.owner = change[@]] \in Handlers
  <2>1. q[i] \in Handlers
      OBVIOUS
  <2>2. change[q[i].owner] \in Owners
      BY <2>1 DEF Handlers, Changes
  <2> QED
      BY <2>1, <2>2 DEF Handlers
<1>2. DOMAIN q = 1..Len(q) /\ Len(q) \in Nat
    OBVIOUS
<1> QED
    BY <1>1, <1>2 DEF Reowned

\* The same of queues of writes.
LEMMA ReownedQueue ==
    ASSUME NEW q \in Seq(Write), NEW change \in Changes
    PROVE  Reowned(q, change) \in Seq(Write)
<1>1. ASSUME NEW i \in DOMAIN q
      PROVE  [q[i] EXCEPT !.owner = change[@]] \in Write
  <2>1. q[i] \in Write
      OBVIOUS
  <2>2. change[q[i].owner] \in Owners
      BY <2>1 DEF Write, Changes
  <2> QED
      BY <2>1, <2>2 DEF Write
<1>2. DOMAIN q = 1..Len(q) /\ Len(q) \in Nat
    OBVIOUS
<1> QED
    BY <1>1, <1>2 DEF Reowned

\* The same of the queues of all users, and of the requests in flight.
LEMMA WritesReownedType ==
    ASSUME writes \in [Users -> Seq(Write)], NEW change \in Changes
    PROVE  WritesReowned(change) \in [Users -> Seq(Write)]
<1>1. ASSUME NEW u \in Users PROVE Reowned(writes[u], change) \in Seq(Write)
    BY <1>1, ReownedQueue
<1> QED
    BY <1>1 DEF WritesReowned

\* What AuthType says of the requests in flight.
CallsType(c) ==
    /\ c \in [Slots -> Call]
    /\ \A s \in Slots :
         \/ c[s].k \in {"back", "continue", "get"}
         \/ c[s].answer \in {"verified", "unverified"}
         => c[s].uid \in Uids

LEMMA CallsReownedType ==
    ASSUME CallsType(calls), NEW change \in Changes
    PROVE  CallsType(CallsReowned(change))
<1>1. ASSUME NEW s \in Slots
      PROVE  [calls[s] EXCEPT !.owner = change[@]]
                = [k |-> calls[s].k, email |-> calls[s].email,
                   uid |-> calls[s].uid, answer |-> calls[s].answer,
                   owner |-> change[calls[s].owner]]
    BY <1>1 DEF CallsType, Call
<1>2. ASSUME NEW s \in Slots PROVE change[calls[s].owner] \in Owners
    BY <1>2 DEF CallsType, Call, Changes
<1> QED
    BY <1>1, <1>2 DEF CallsType, CallsReowned, Call

LEMMA PathPopped ==
    ASSUME path \in Seq(Screens) \ {<<>>}
    PROVE  Popped \in Seq(Screens) \ {<<>>}
<1>1. CASE CanPop
  <2>1. Len(path) - 1 \in Nat /\ Len(path) - 1 >= 1
      BY <1>1 DEF CanPop
  <2>2. \A i \in 1..(Len(path) - 1) : path[i] \in Screens
      BY <2>1
  <2>3. Popped = SubSeq(path, 1, Len(path) - 1)
      BY <1>1 DEF Popped
  <2>4. Popped \in Seq(Screens) /\ Len(Popped) = Len(path) - 1
      BY <2>1, <2>2, <2>3, SubSeqProperties
  <2> QED
      BY <2>1, <2>4
<1> QED
    BY <1>1 DEF Popped

LEMMA PathPushed ==
    ASSUME path \in Seq(Screens) \ {<<>>}, NEW screen \in Screens
    PROVE  Pushed(screen) \in Seq(Screens) \ {<<>>}
BY DEF Pushed

\* A new Splash is on top of what was there.
LEMMA PathOfLogin ==
    ASSUME path \in Seq(Screens) \ {<<>>}, NEW screen \in {"SplashIn", "SplashOut"},
           path' = Append(path, screen)
    PROVE  path' \in Seq(Screens) \ {<<>>}
<1>1. screen \in Screens
    BY DEF Screens
<1>2. Append(path, screen) \in Seq(Screens) /\ Append(path, screen) # <<>>
    BY <1>1
<1> QED
    BY <1>2

(***************************************************************************)
(* Requests.                                                               *)
(***************************************************************************)
\* A request that names a user when its kind needs one keeps the type.
LEMMA StartKeepsType ==
    ASSUME CallsType(calls), NEW r \in Call, r.answer = "none",
           r.k \in {"back", "continue", "get"} => r.uid \in Uids,
           Start(r)
    PROVE  CallsType(calls')
<1>1. PICK s \in Slots : calls' = [calls EXCEPT ![s] = r]
    BY DEF Start
<1> QED
    BY <1>1 DEF CallsType

LEMMA RequestType ==
    ASSUME NEW k \in CallKinds, NEW e \in Emails \cup {NoEmail}, NEW u \in Users,
           NEW w \in Owners
    PROVE  /\ Request(k, e, u, w) \in Call
           /\ Request(k, e, u, w).answer = "none"
           /\ Request(k, e, u, w).uid = u
           /\ Request(k, e, u, w).k = k
BY DEF Request, Call, Answers

LEMMA IdleType == Idle \in Call /\ Idle.answer = "none" /\ Idle.k = "idle"
BY RequestType DEF Idle, Owners, Gone, Users, CallKinds

LEMMA FinishKeepsType ==
    ASSUME CallsType(calls), NEW s \in Slots, Finish(s)
    PROVE  CallsType(calls')
BY IdleType DEF CallsType, Finish

\* Requests that only start, end or change owner leave trust as it was.
LEMMA TrustKept ==
    ASSUME TrustIsEarned, UNCHANGED <<accounts, cached>>,
           \A s \in Slots : calls'[s].answer = "verified"
               => calls[s].answer = "verified" /\ calls'[s].uid = calls[s].uid
    PROVE  TrustIsEarned'
BY DEF TrustIsEarned, VerifiedOrGone

LEMMA TrustKeptByStart ==
    ASSUME TrustIsEarned, CallsType(calls), UNCHANGED <<accounts, cached>>,
           NEW r, r.answer = "none", Start(r)
    PROVE  TrustIsEarned'
<1>1. PICK s \in Slots : calls' = [calls EXCEPT ![s] = r]
    BY DEF Start
<1> QED
    BY <1>1, TrustKept DEF CallsType

LEMMA TrustKeptByFinish ==
    ASSUME TrustIsEarned, CallsType(calls), UNCHANGED <<accounts, cached>>,
           NEW s \in Slots, Finish(s)
    PROVE  TrustIsEarned'
BY TrustKept, IdleType DEF CallsType, Finish

LEMMA TrustKeptByOwners ==
    ASSUME TrustIsEarned, CallsType(calls), UNCHANGED <<accounts, cached>>,
           NEW change, calls' = CallsReowned(change)
    PROVE  TrustIsEarned'
BY TrustKept DEF CallsType, CallsReowned, Call

\* A deletion requested, a mail sent: the accounts keep their type, and no
\* account stops being verified.
LEMMA DeleteRequestedType ==
    ASSUME AuthType, NEW u \in Uids, NEW origin \in {"back", "profile"},
           DeleteRequested(u, origin)
    PROVE  deleting' \in [Uids -> {"no", "back", "profile", "done"}]
BY DEF AuthType, DeleteRequested

LEMMA MailLinkType ==
    ASSUME AuthType, NEW u \in Uids, MailLink(u)
    PROVE  /\ accounts' \in [Uids -> Account]
           /\ \A v \in Uids : VerifiedOrGone(v) => VerifiedOrGone(v)'
<1>1. CASE UNCHANGED accounts
    BY <1>1 DEF AuthType, VerifiedOrGone
<1>2. CASE Live(u) /\ accounts' = [accounts EXCEPT ![u].status = IF @ = "new" THEN "mailed" ELSE @]
  <2>1. accounts[u] \in Account
      BY DEF AuthType
  <2> DEFINE status == IF accounts[u].status = "new" THEN "mailed" ELSE accounts[u].status
  <2>2. status \in Statuses
      BY <2>1 DEF Account, Statuses
  <2>3. accounts' = [accounts EXCEPT ![u] = [@ EXCEPT !.status = status]]
      BY <1>2
  <2>4. [accounts[u] EXCEPT !.status = status] \in Account
      BY <2>1, <2>2 DEF Account
  <2>5. accounts' \in [Uids -> Account]
      BY <2>3, <2>4 DEF AuthType
  <2>6. /\ \A v \in Uids : v # u => accounts'[v] = accounts[v]
        /\ accounts'[u].status = status
      BY <2>1, <2>3 DEF AuthType, Account
  <2> QED
      BY <2>5, <2>6 DEF VerifiedOrGone
<1> QED
    BY <1>1, <1>2 DEF MailLink

(***************************************************************************)
(* The inductive invariant: TypeOK and TrustIsEarned together.  One lemma  *)
(* per action, for each group of actions; a group shares the parts of the  *)
(* state it leaves alone.                                                  *)
(***************************************************************************)
IndInv == TypeOK /\ TrustIsEarned

\* TypeOK with the types the lemmas above speak of, one conjunct a variable.
LEMMA TypeParts ==
    TypeOK <=>
        /\ path \in Seq(Screens) \ {<<>>} /\ mainQ \in Seq(Handlers)
        /\ accounts \in [Uids -> Account] /\ session \in Users
        /\ cached \in [Uids -> BOOLEAN] /\ CallsType(calls)
        /\ deleting \in [Uids -> {"no", "back", "profile", "done"}]
        /\ docs \in [Uids -> Document] /\ writes \in [Users -> Seq(Write)]
        /\ uploads \subseteq Uids
        /\ astray \in BOOLEAN /\ erased \subseteq Uids
BY DEF TypeOK, MainThreadType, AuthType, StoreType, CallsType

LEMMA DepthIsOwner == path \in Seq(Screens) \ {<<>>} => Len(path) \in Owners
BY DEF Owners

LEMMA InitIndInv == Init => IndInv
<1> SUFFICES ASSUME Init PROVE IndInv
    OBVIOUS
<1>1. CallsType(calls)
    BY IdleType DEF Init, AuthInit, CallsType
<1>2. MainThreadType
    BY DEF Init, MainThreadType, Screens
<1>3. AuthType
  <2>1. [status |-> "absent", email |-> NoEmail] \in Account
      BY DEF Account, Statuses
  <2> QED
      BY <1>1, <2>1 DEF Init, AuthInit, AuthType, CallsType, Users
<1>4. StoreType
  <2>1. Missing \in Document
      BY DEF Missing, Document, Users
  <2>2. <<>> \in Seq(Write)
      OBVIOUS
  <2> QED
      BY <2>1, <2>2 DEF Init, StoreInit, StoreType
<1>5. TypeOK
    BY <1>2, <1>3, <1>4 DEF Init, TypeOK
<1>6. TrustIsEarned
    BY IdleType DEF Init, AuthInit, TrustIsEarned
<1> QED
    BY <1>5, <1>6 DEF IndInv

LEMMA StutterIndInv == IndInv /\ UNCHANGED vars => IndInv'
BY DEF IndInv, TypeOK, MainThreadType, AuthType, StoreType, TrustIsEarned, VerifiedOrGone,
    vars, authVars, storeVars, observed

\* A write joins a queue of writes.
LEMMA DeleteType ==
    ASSUME NEW u \in Uids, NEW q \in Seq(Write)
    PROVE  Enqueued(q, Delete(u)) \in Seq(Write)
<1>1. Delete(u) \in Write
    BY DEF Delete, Write, WriteOps, Users, Owners, Gone
<1> QED
    BY <1>1 DEF Enqueued

\* Taps that start a request.
LEMMA RequestTaps ==
    ASSUME IndInv, NEW r \in Call, r.answer = "none",
           r.k \in {"back", "continue", "get"} => r.uid \in Uids,
           Start(r),
           UNCHANGED <<path, mainQ, accounts, session, cached, deleting, storeVars, erased>>,
           astray' \in BOOLEAN
    PROVE  IndInv'
<1>1. CallsType(calls')
    BY TypeParts, StartKeepsType DEF IndInv
<1>2. TypeOK'
    BY <1>1, TypeParts DEF IndInv, TypeOK, MainThreadType, AuthType, StoreType, CallsType,
        storeVars
<1>3. TrustIsEarned'
    BY TypeParts, TrustKeptByStart DEF IndInv
<1> QED
    BY <1>2, <1>3 DEF IndInv

LEMMA TapsIndInv == IndInv /\ Taps => IndInv'
<1> SUFFICES ASSUME IndInv, Taps PROVE IndInv'
    OBVIOUS
<1> USE DEF IndInv
<1>a. Len(path) \in Owners
    BY TypeParts, DepthIsOwner
<1>1. ASSUME CreateAccountAction PROVE IndInv'
  <2>1. path' \in Seq(Screens) \ {<<>>}
      BY <1>1, TypeParts, PathPushed DEF CreateAccountAction, Screens
  <2> QED
      BY <1>1, <2>1 DEF CreateAccountAction, TypeOK, MainThreadType, AuthType, StoreType,
          TrustIsEarned, VerifiedOrGone, authVars, storeVars, observed
<1>2. ASSUME NEW e \in Emails, RegisterAction(e) PROVE IndInv'
  <2> DEFINE r == Request("create", e, NoUid, Len(path))
  <2>1. r \in Call /\ r.answer = "none" /\ r.k = "create"
      BY <1>a, RequestType DEF CallKinds, Users
  <2>2. astray' \in BOOLEAN
      BY <1>2, TypeParts DEF RegisterAction
  <2> QED
      BY <1>2, <2>1, <2>2, RequestTaps DEF RegisterAction
<1>3. ASSUME NEW e \in Emails, LogIn(e) PROVE IndInv'
  <2>1. CASE session = NoUid
    <3> DEFINE r == Request("signIn", e, NoUid, Len(path))
    <3>1. r \in Call /\ r.answer = "none" /\ r.k = "signIn"
        BY <1>a, RequestType DEF CallKinds, Users
    <3> QED
        BY <1>3, <2>1, <3>1, TypeParts, RequestTaps DEF LogIn, observed
  <2>2. CASE session # NoUid
    <3> DEFINE r == Request("get", NoEmail, session, Len(path))
    <3>1. session \in Uids
        BY <2>2, TypeParts DEF Users
    <3>2. r \in Call /\ r.answer = "none" /\ r.uid = session
        BY <1>a, <3>1, RequestType DEF CallKinds, Users
    <3> QED
        BY <1>3, <2>2, <3>1, <3>2, TypeParts, RequestTaps DEF LogIn, observed
  <2> QED
      BY <2>1, <2>2
<1>4. ASSUME Back PROVE IndInv'
  <2>1. CallsType(calls')
      BY <1>4, TypeParts, CallsReownedType, ChangeTypes DEF Back
  <2>2. mainQ' \in Seq(Handlers)
      BY <1>4, TypeParts, ReownedHandlers, ChangeTypes DEF Back
  <2>3. writes' \in [Users -> Seq(Write)]
      BY <1>4, TypeParts, WritesReownedType, ChangeTypes DEF Back
  <2>4. path' \in Seq(Screens) \ {<<>>}
      BY <1>4, TypeParts, PathPopped DEF Back
  <2>5. TypeOK'
      BY <1>4, <2>1, <2>2, <2>3, <2>4 DEF Back, TypeOK, MainThreadType, AuthType,
          StoreType, CallsType, observed
  <2>6. TrustIsEarned'
      BY <1>4, TypeParts, TrustKeptByOwners DEF Back
  <2> QED
      BY <2>5, <2>6
<1>5. ASSUME VerifyBack PROVE IndInv'
  <2> DEFINE r == Request("back", NoEmail, session, Len(path))
  <2>1. session \in Uids
      BY <1>5, TypeParts DEF VerifyBack, Users
  <2>2. r \in Call /\ r.answer = "none" /\ r.uid = session
      BY <1>a, <2>1, RequestType DEF CallKinds, Users
  <2> QED
      BY <1>5, <2>1, <2>2, TypeParts, RequestTaps DEF VerifyBack, observed
<1>6. ASSUME CheckEmailVerification PROVE IndInv'
  <2> DEFINE r == Request("continue", NoEmail, session, Len(path))
  <2>1. session \in Uids
      BY <1>6, TypeParts DEF CheckEmailVerification, Users
  <2>2. r \in Call /\ r.answer = "none" /\ r.uid = session
      BY <1>a, <2>1, RequestType DEF CallKinds, Users
  <2> QED
      BY <1>6, <2>1, <2>2, TypeParts, RequestTaps DEF CheckEmailVerification, observed
<1>7. ASSUME ResendLink PROVE IndInv'
  <2>1. session \in Uids
      BY <1>7, TypeParts DEF ResendLink, Users
  <2>2. /\ accounts' \in [Uids -> Account]
        /\ \A v \in Uids : VerifiedOrGone(v) => VerifiedOrGone(v)'
      BY <1>7, <2>1, MailLinkType DEF ResendLink, TypeOK
  <2>3. TypeOK'
      BY <1>7, <2>2 DEF ResendLink, TypeOK, MainThreadType, AuthType, StoreType,
          storeVars, observed
  <2>4. TrustIsEarned'
      BY <1>7, <2>2, TypeParts DEF ResendLink, TrustIsEarned, CallsType
  <2> QED
      BY <2>3, <2>4
<1>8. ASSUME StartButtonAction PROVE IndInv'
  <2>1. CallsType(calls')
      BY <1>8, TypeParts, CallsReownedType, ChangeTypes DEF StartButtonAction, PresentMain
  <2>2. mainQ' \in Seq(Handlers)
      BY <1>8, TypeParts, ReownedHandlers, ChangeTypes DEF StartButtonAction, PresentMain
  <2>3. writes' \in [Users -> Seq(Write)]
      BY <1>8, TypeParts, WritesReownedType, ChangeTypes DEF StartButtonAction, PresentMain
  <2>4. path' \in Seq(Screens) \ {<<>>}
      BY <1>8 DEF StartButtonAction, PresentMain, Screens
  <2>5. TypeOK'
      BY <1>8, <2>1, <2>2, <2>3, <2>4 DEF StartButtonAction, TypeOK, MainThreadType,
          AuthType, StoreType, CallsType, observed
  <2>6. TrustIsEarned'
      BY <1>8, TypeParts, TrustKeptByOwners DEF StartButtonAction, PresentMain
  <2> QED
      BY <2>5, <2>6
<1>9. ASSUME LogOut PROVE IndInv'
  <2>1. path' \in Seq(Screens) \ {<<>>}
      BY <1>9, TypeParts, PathOfLogin DEF LogOut, BackToLogin
  <2> QED
      BY <1>9, <2>1 DEF LogOut, TypeOK, MainThreadType, AuthType, StoreType, Users,
          TrustIsEarned, VerifiedOrGone, storeVars, observed
<1>10. ASSUME DeleteAccount PROVE IndInv'
  <2>1. session \in Uids
      BY <1>10, TypeParts DEF DeleteAccount, Users
  <2>2. deleting' \in [Uids -> {"no", "back", "profile", "done"}]
      BY <1>10, <2>1, DeleteRequestedType DEF DeleteAccount, TypeOK
  <2>3. path' \in Seq(Screens) \ {<<>>}
    <3>1. PICK screen \in {"SplashIn", "SplashOut"} : path' = Append(path, screen)
        BY <1>10 DEF DeleteAccount, BackToLogin
    <3> QED
        BY <3>1, TypeParts, PathOfLogin
  <2>4. /\ session' \in Users /\ writes' \in [Users -> Seq(Write)]
        /\ erased' \subseteq Uids
    <3>1. Enqueued(writes[session], Delete(session)) \in Seq(Write)
        BY <2>1, TypeParts, DeleteType
    <3> QED
        BY <1>10, <2>1, <3>1, TypeParts DEF DeleteAccount, Users
  <2>5. TypeOK'
      BY <1>10, <2>2, <2>3, <2>4 DEF DeleteAccount, TypeOK, MainThreadType, AuthType,
          StoreType
  <2>6. TrustIsEarned'
      BY <1>10 DEF DeleteAccount, TrustIsEarned, VerifiedOrGone
  <2> QED
      BY <2>5, <2>6
<1> QED
    BY <1>1, <1>2, <1>3, <1>4, <1>5, <1>6, <1>7, <1>8, <1>9, <1>10 DEF Taps

(***************************************************************************)
(* Handlers.                                                               *)
(***************************************************************************)
\* A handler posted is a handler queued.
LEMMA PostType ==
    ASSUME mainQ \in Seq(Handlers), NEW h \in Handlers, Post(h)
    PROVE  mainQ' \in Seq(Handlers)
BY AppendProperties DEF Post

\* The oldest handler, and what is left of the queue without it.
LEMMA QueueTypes ==
    ASSUME mainQ \in Seq(Handlers), mainQ # <<>>
    PROVE  Head(mainQ) \in Handlers /\ Rest \in Seq(Handlers)
BY HeadTailProperties DEF Rest

\* Presenting the tab bar keeps the types of what it covers.
LEMMA PresentMainTypes ==
    ASSUME TypeOK, NEW q \in Seq(Handlers), PresentMain(q)
    PROVE  /\ path' \in Seq(Screens) \ {<<>>} /\ mainQ' \in Seq(Handlers)
           /\ CallsType(calls') /\ writes' \in [Users -> Seq(Write)]
<1>1. path' \in Seq(Screens) \ {<<>>}
    BY DEF PresentMain, Screens
<1>2. mainQ' \in Seq(Handlers)
    BY ReownedHandlers, ChangeTypes DEF PresentMain
<1>3. CallsType(calls')
    BY TypeParts, CallsReownedType, ChangeTypes DEF PresentMain
<1>4. writes' \in [Users -> Seq(Write)]
    BY TypeParts, WritesReownedType, ChangeTypes DEF PresentMain
<1> QED
    BY <1>1, <1>2, <1>3, <1>4

\* Handlers, and the timer, that move the user and nothing else.
LEMMA ScreenHandlers ==
    ASSUME IndInv, NEW q \in Seq(Handlers), NEW screen \in Screens,
           \/ PresentMain(q)
           \/ Stay(q)
           \/ path' = Pushed(screen) /\ mainQ' = q /\ UNCHANGED <<calls, writes>>,
           OnlyScreens
    PROVE  IndInv'
<1>1. /\ path' \in Seq(Screens) \ {<<>>} /\ mainQ' \in Seq(Handlers)
      /\ CallsType(calls') /\ writes' \in [Users -> Seq(Write)]
  <2>1. CASE PresentMain(q)
      BY <2>1, PresentMainTypes DEF IndInv
  <2>2. CASE Stay(q)
      BY <2>2, TypeParts DEF IndInv, Stay
  <2>3. CASE path' = Pushed(screen) /\ mainQ' = q /\ UNCHANGED <<calls, writes>>
      BY <2>3, TypeParts, PathPushed DEF IndInv
  <2> QED
      BY <2>1, <2>2, <2>3
<1>2. TypeOK'
    BY <1>1 DEF IndInv, OnlyScreens, observed, TypeOK, MainThreadType, AuthType, StoreType,
        CallsType
<1>3. TrustIsEarned'
  <2>1. CASE PresentMain(q)
      BY <2>1, TypeParts, TrustKeptByOwners DEF IndInv, PresentMain, OnlyScreens
  <2>2. CASE UNCHANGED calls
      BY <2>2 DEF IndInv, TrustIsEarned, VerifiedOrGone, OnlyScreens
  <2> QED
      BY <2>1, <2>2 DEF Stay
<1> QED
    BY <1>2, <1>3 DEF IndInv

\* A write filed by a handler.
LEMMA HandlerWrites ==
    ASSUME NEW u \in Uids, NEW v \in Uids, NEW w \in Owners
    PROVE  Save(u, w) \in Write /\ SetPhoto(u, v) \in Write
BY DEF Save, SetPhoto, Write, WriteOps, Users, Owners, Gone

LEMMA RunHandlerIndInv == IndInv /\ RunHandler => IndInv'
<1> SUFFICES ASSUME IndInv, RunHandler PROVE IndInv'
    OBVIOUS
<1> DEFINE h == Head(mainQ)
<1>a. h \in Handlers /\ Rest \in Seq(Handlers)
    BY TypeParts, QueueTypes DEF IndInv, RunHandler
<1>b. h.uid \in Uids /\ h.owner \in Owners
    BY <1>a DEF Handlers
<1> HIDE DEF h
<1>1. ASSUME Created(h) PROVE IndInv'
  <2>1. writes' \in [Users -> Seq(Write)]
    <3>1. Append(writes[session], Save(h.uid, h.owner)) \in Seq(Write)
        BY <1>b, TypeParts, HandlerWrites, AppendProperties DEF IndInv
    <3> QED
        BY <1>1, <3>1, TypeParts DEF Created, IndInv
  <2> QED
      BY <1>1, <1>a, <2>1 DEF Created, IndInv, TypeOK, MainThreadType, AuthType, StoreType,
          TrustIsEarned, VerifiedOrGone, authVars, observed
<1>2. ASSUME Saved(h) PROVE IndInv'
  <2>1. /\ accounts' \in [Uids -> Account]
        /\ \A v \in Uids : VerifiedOrGone(v) => VerifiedOrGone(v)'
      BY <1>2, MailLinkType, TypeParts DEF Saved, IndInv, TypeOK, VerifiedOrGone, Users
  <2>2. /\ path' \in Seq(Screens) \ {<<>>} /\ mainQ' \in Seq(Handlers)
        /\ UNCHANGED <<calls, writes>>
      BY <1>2, <1>a, TypeParts, PathPushed DEF Saved, IndInv, Push, Stay, Screens
  <2>3. uploads' \subseteq Uids
      BY <1>2, TypeParts DEF Saved, IndInv, Users
  <2>4. TypeOK'
      BY <1>2, <2>1, <2>2, <2>3 DEF Saved, IndInv, TypeOK, MainThreadType, AuthType, StoreType,
          observed
  <2>5. TrustIsEarned'
      BY <1>2, <2>1, <2>2, TypeParts DEF Saved, IndInv, TrustIsEarned, CallsType
  <2> QED
      BY <2>4, <2>5 DEF IndInv
<1>3. ASSUME GoHome(h) \/ NoAccountFound(h) \/ EmailChecked(h) \/ BackRefused(h)
      PROVE  IndInv'
  <2>1. PresentMain(Rest) \/ Stay(Rest) \/ Push("Info")
      BY <1>3 DEF GoHome, NoAccountFound, EmailChecked, BackRefused
  <2>2. OnlyScreens
      BY <1>3 DEF GoHome, NoAccountFound, EmailChecked, BackRefused
  <2>3. "Info" \in Screens
      BY DEF Screens
  <2> QED
      BY <2>1, <2>2, <2>3, <1>a, ScreenHandlers DEF Push
<1>4. ASSUME BackDeletes(h) PROVE IndInv'
  <2> DEFINE goOn  == session # NoUid /\ Alive(h)
             pops  == goOn /\ OnScreen(h.owner)
             after == IF pops THEN AfterPop ELSE AsBefore
  <2>1. after \in Changes
      BY ChangeTypes
  <2>2. path' \in Seq(Screens) \ {<<>>}
      BY <1>4, TypeParts, PathPopped DEF BackDeletes, IndInv
  <2>3. mainQ' \in Seq(Handlers)
    <3>1. mainQ' = Reowned(Rest, after)
        BY <1>4 DEF BackDeletes
    <3> QED
        BY <3>1, <2>1, <1>a, ReownedHandlers
  <2>4. calls' = CallsReowned(after)
      BY <1>4 DEF BackDeletes
  <2>5. CallsType(calls')
      BY <2>1, <2>4, TypeParts, CallsReownedType DEF IndInv
  <2>6. writes' \in [Users -> Seq(Write)] /\ erased' \subseteq Uids
    <3>1. WritesReowned(after) \in [Users -> Seq(Write)]
        BY <2>1, TypeParts, WritesReownedType DEF IndInv
    <3>2. CASE ~goOn
        BY <1>4, <3>2, TypeParts DEF BackDeletes, IndInv
    <3>3. CASE goOn
      <4>1. session \in Uids
          BY <3>3, TypeParts DEF IndInv, Users
      <4>2. writes' = [WritesReowned(after) EXCEPT
                          ![session] = Enqueued(@, Delete(session))]
          BY <1>4, <3>3 DEF BackDeletes
      <4>3. Enqueued(WritesReowned(after)[session], Delete(session)) \in Seq(Write)
          BY <3>1, <4>1, DeleteType DEF Users
      <4>4. erased' = erased \cup {session}
          BY <1>4, <3>3 DEF BackDeletes
      <4> QED
          BY <3>1, <4>1, <4>2, <4>3, <4>4, TypeParts DEF IndInv, Users
    <3> QED
        BY <3>2, <3>3
  <2>7. deleting' \in [Uids -> {"no", "back", "profile", "done"}]
      BY <1>4, <1>b, DeleteRequestedType DEF BackDeletes, IndInv, TypeOK
  <2>8. TypeOK'
      BY <1>4, <2>2, <2>3, <2>5, <2>6, <2>7 DEF BackDeletes, IndInv, TypeOK, MainThreadType,
          AuthType, StoreType, CallsType
  <2>9. TrustIsEarned'
      BY <1>4, <2>4, TypeParts, TrustKeptByOwners DEF BackDeletes, IndInv
  <2> QED
      BY <2>8, <2>9 DEF IndInv
<1>5. ASSUME PhotoUploaded(h) PROVE IndInv'
  <2>1. writes' \in [Users -> Seq(Write)]
    <3>1. CASE session = NoUid
        BY <1>5, <3>1, TypeParts DEF PhotoUploaded, IndInv
    <3>2. CASE session # NoUid
      <4>1. Append(writes[session], SetPhoto(session, h.uid)) \in Seq(Write)
          BY <1>b, <3>2, TypeParts, HandlerWrites, AppendProperties DEF IndInv, Users
      <4> QED
          BY <1>5, <3>2, <4>1, TypeParts DEF PhotoUploaded, IndInv
    <3> QED
        BY <3>1, <3>2
  <2> QED
      BY <1>5, <1>a, <2>1 DEF PhotoUploaded, IndInv, TypeOK, MainThreadType, AuthType,
          StoreType, TrustIsEarned, VerifiedOrGone, authVars, observed
<1> QED
    BY <1>1, <1>2, <1>3, <1>4, <1>5 DEF RunHandler, h

LEMMA SplashTimerIndInv == IndInv /\ SplashTimer => IndInv'
<1> SUFFICES ASSUME IndInv, SplashTimer PROVE IndInv'
    OBVIOUS
<1>1. OnlyScreens
    BY DEF SplashTimer
<1>2. CASE PresentMain(mainQ)
    BY <1>1, <1>2, TypeParts, ScreenHandlers DEF IndInv, Screens
<1>3. CASE UNCHANGED <<mainQ, calls, writes>> /\ path' \in Seq(Screens) \ {<<>>}
    BY <1>1, <1>3 DEF OnlyScreens, IndInv, TypeOK, MainThreadType, AuthType, StoreType,
        TrustIsEarned, VerifiedOrGone, observed
<1>4. PresentMain(mainQ) \/ UNCHANGED <<mainQ, calls, writes>>
    BY DEF SplashTimer
<1>5. PresentMain(mainQ) \/ path' \in Seq(Screens) \ {<<>>}
  <2>1. /\ <<"Welcome">> \in Seq(Screens) \ {<<>>}
        /\ <<"Verify">> \in Seq(Screens) \ {<<>>}
        /\ "SplashOver" \in Screens
      BY DEF Screens
  <2>2. [path EXCEPT ![Len(path)] = "SplashOver"] \in Seq(Screens) \ {<<>>}
      BY <2>1, TypeParts, ExceptSeq DEF IndInv
  <2> QED
      BY <2>1, <2>2 DEF SplashTimer
<1> QED
    BY <1>2, <1>3, <1>4, <1>5

(***************************************************************************)
(* The server, and the work queue of FirebaseAuth.                         *)
(***************************************************************************)
\* Steps that touch the auth state, and queue at most one handler.
LEMMA AuthSteps ==
    ASSUME IndInv,
           UNCHANGED <<path, storeVars, erased>>,
           mainQ' \in Seq(Handlers), astray' \in BOOLEAN,
           accounts' \in [Uids -> Account], session' \in Users,
           cached' \in [Uids -> BOOLEAN], CallsType(calls'),
           deleting' \in [Uids -> {"no", "back", "profile", "done"}]
    PROVE  TypeOK'
BY DEF IndInv, TypeOK, MainThreadType, AuthType, StoreType, CallsType, storeVars

\* The server answers, and answers "verified" only of a verified address.
LEMMA AnswerTypes ==
    ASSUME CallsType(calls), NEW s \in Slots, NEW u \in Uids,
           NEW verdict \in Answers, Answer(s, u, verdict)
    PROVE  /\ CallsType(calls')
           /\ calls'[s].uid = u /\ calls'[s].answer = verdict
           /\ \A t \in Slots \ {s} : calls'[t] = calls[t]
<1>1. /\ [calls[s] EXCEPT !.uid = u, !.answer = verdict] \in Call
      /\ [calls[s] EXCEPT !.uid = u, !.answer = verdict].uid = u
      /\ [calls[s] EXCEPT !.uid = u, !.answer = verdict].answer = verdict
    BY DEF CallsType, Call, Users
<1>2. calls' = [calls EXCEPT ![s] = [calls[s] EXCEPT !.uid = u, !.answer = verdict]]
    BY DEF Answer, CallsType, Call
<1> QED
    BY <1>1, <1>2 DEF CallsType

LEMMA ServerIndInv == IndInv /\ Server => IndInv'
<1> SUFFICES ASSUME IndInv, Server PROVE IndInv'
    OBVIOUS
<1> USE DEF IndInv
<1>a. UNCHANGED <<path, mainQ, storeVars, observed>>
    BY DEF Server
<1>1. ASSUME NEW s \in Slots, ServeCreate(s) PROVE IndInv'
  <2>1. PICK u \in Unborn :
          /\ accounts' = [accounts EXCEPT
                            ![u] = [status |-> "new", email |-> calls[s].email]]
          /\ Answer(s, u, "unverified")
      BY <1>1 DEF ServeCreate
  <2>2. u \in Uids /\ ~VerifiedOrGone(u)
      BY <2>1 DEF Unborn, VerifiedOrGone
  <2>3. /\ CallsType(calls') /\ calls'[s].answer = "unverified"
        /\ \A t \in Slots \ {s} : calls'[t] = calls[t]
      BY <2>1, <2>2, TypeParts, AnswerTypes DEF Answers
  <2>4. accounts' \in [Uids -> Account]
    <3>1. [status |-> "new", email |-> calls[s].email] \in Account
        BY TypeParts DEF CallsType, Call, Account, Statuses
    <3> QED
        BY <2>1, <3>1, TypeParts
  <2>5. TypeOK'
      BY <1>1, <1>a, <2>3, <2>4, AuthSteps, TypeParts DEF ServeCreate, observed
  <2>6. \A v \in Uids : VerifiedOrGone(v) => VerifiedOrGone(v)'
      BY <2>1, <2>2, TypeParts DEF VerifiedOrGone
  <2>7. TrustIsEarned'
      BY <1>1, <2>3, <2>6, TypeParts DEF ServeCreate, TrustIsEarned, CallsType
  <2> QED
      BY <2>5, <2>7
<1>2. ASSUME NEW s \in Slots, ServeSignIn(s) \/ ServeReload(s) PROVE IndInv'
  <2>1. PICK u \in Uids, verdict \in {"verified", "unverified", "gone"} :
          /\ Answer(s, u, verdict)
          /\ verdict = "verified" => accounts[u].status = "verified"
    <3>1. CASE ServeSignIn(s)
        BY <3>1 DEF ServeSignIn, Holders, Verdict
    <3>2. CASE ServeReload(s)
      <4>1. calls[s].uid \in Uids
          BY <3>2, TypeParts DEF ServeReload, Awaiting, CallsType
      <4> QED
          BY <3>2, <4>1 DEF ServeReload, Verdict
    <3> QED
        BY <1>2, <3>1, <3>2
  <2>2. /\ CallsType(calls') /\ calls'[s].answer = verdict /\ calls'[s].uid = u
        /\ \A t \in Slots \ {s} : calls'[t] = calls[t]
      BY <2>1, TypeParts, AnswerTypes DEF Answers
  <2>3. UNCHANGED <<accounts, session, cached, deleting>>
      BY <1>2 DEF ServeSignIn, ServeReload
  <2>4. TypeOK'
      BY <1>a, <2>2, <2>3, AuthSteps, TypeParts DEF observed
  <2>5. TrustIsEarned'
      BY <2>1, <2>2, <2>3 DEF TrustIsEarned, VerifiedOrGone
  <2> QED
      BY <2>4, <2>5
<1>3. ASSUME NEW s \in Slots, FailCall(s) PROVE IndInv'
  <2>1. calls' = [calls EXCEPT ![s] = [calls[s] EXCEPT !.answer = "error"]]
      BY <1>3 DEF FailCall
  <2>2. [calls[s] EXCEPT !.answer = "error"] \in Call
      BY TypeParts DEF CallsType, Call, Answers
  <2>3. CallsType(calls')
      BY <2>1, <2>2, TypeParts DEF CallsType, Call
  <2>4. TypeOK'
      BY <1>3, <1>a, <2>3, AuthSteps, TypeParts DEF FailCall, observed
  <2>5. \A t \in Slots : calls'[t].answer = "verified" => calls'[t] = calls[t]
      BY <2>1, TypeParts DEF CallsType, Call
  <2>6. TrustIsEarned'
      BY <1>3, <2>5 DEF FailCall, TrustIsEarned, VerifiedOrGone
  <2> QED
      BY <2>4, <2>6
<1>4. ASSUME NEW u \in Uids, ServeDelete(u) PROVE IndInv'
  <2>1. accounts' \in [Uids -> Account]
    <3>1. [status |-> "deleted", email |-> NoEmail] \in Account
        BY DEF Account, Statuses
    <3> QED
        BY <1>4, <3>1, TypeParts DEF ServeDelete
  <2>2. deleting' \in [Uids -> {"no", "back", "profile", "done"}]
      BY <1>4, TypeParts DEF ServeDelete
  <2>3. TypeOK'
      BY <1>4, <1>a, <2>1, <2>2, AuthSteps, TypeParts DEF ServeDelete, observed
  <2>4. \A v \in Uids : VerifiedOrGone(v) => VerifiedOrGone(v)'
      BY <1>4, TypeParts DEF ServeDelete, VerifiedOrGone
  <2>5. TrustIsEarned'
      BY <1>4, <2>4, TypeParts DEF ServeDelete, TrustIsEarned, CallsType
  <2> QED
      BY <2>3, <2>5
<1> QED
    BY <1>1, <1>2, <1>3, <1>4 DEF Server

LEMMA MailboxIndInv == IndInv /\ Mailbox => IndInv'
<1> SUFFICES ASSUME IndInv, NEW u \in Uids, OpenLink(u),
                    UNCHANGED <<path, mainQ, storeVars, observed>>
             PROVE  IndInv'
    BY DEF Mailbox
<1>1. accounts' \in [Uids -> Account]
    BY TypeParts DEF IndInv, OpenLink, Account, Statuses
<1>2. TypeOK'
    BY <1>1, AuthSteps, TypeParts DEF IndInv, OpenLink, observed
<1>3. \A v \in Uids : VerifiedOrGone(v) => VerifiedOrGone(v)'
    BY TypeParts DEF IndInv, OpenLink, VerifiedOrGone, Account
<1>4. TrustIsEarned'
    BY <1>3, TypeParts DEF IndInv, OpenLink, TrustIsEarned, CallsType
<1> QED
    BY <1>2, <1>4 DEF IndInv

LEMMA WorkQueueIndInv == IndInv /\ WorkQueue => IndInv'
<1> SUFFICES ASSUME IndInv, WorkQueue PROVE IndInv'
    OBVIOUS
<1> USE DEF IndInv
<1>a. UNCHANGED <<path, storeVars, erased>> /\ astray' \in BOOLEAN
    BY TypeParts DEF WorkQueue
<1>1. ASSUME NEW s \in Slots, ReplyEntry(s) PROVE IndInv'
  <2>1. calls[s] \in Call /\ calls[s].uid \in Uids
      BY <1>1, TypeParts DEF ReplyEntry, CallsType
  <2>2. Handler(calls[s].k, calls[s].uid, calls[s].owner) \in Handlers
      BY <1>1, <2>1 DEF ReplyEntry, Handler, Handlers, HandlerKinds, Call
  <2>3. CallsType(calls')
      BY <1>1, TypeParts, FinishKeepsType DEF ReplyEntry
  <2>4. TypeOK'
      BY <1>1, <1>a, <2>1, <2>2, <2>3, AuthSteps, AppendProperties, TypeParts
         DEF ReplyEntry, Post, Users
  <2>5. UNCHANGED accounts /\ \A u \in Uids : cached'[u] => cached[u] \/ VerifiedOrGone(u)
      BY <1>1, <2>1, TypeParts DEF ReplyEntry, TrustIsEarned
  <2>6. TrustIsEarned'
      BY <1>1, <2>5, TypeParts, IdleType
         DEF ReplyEntry, Finish, TrustIsEarned, VerifiedOrGone, CallsType
  <2> QED
      BY <2>4, <2>6
<1>2. ASSUME NEW s \in Slots, ReplyRefused(s) PROVE IndInv'
  <2>1. CallsType(calls')
      BY <1>2, TypeParts, FinishKeepsType DEF ReplyRefused
  <2>2. TypeOK'
      BY <1>2, <1>a, <2>1, AuthSteps, TypeParts DEF ReplyRefused
  <2>3. TrustIsEarned'
      BY <1>2, TypeParts, TrustKeptByFinish DEF ReplyRefused
  <2> QED
      BY <2>2, <2>3
<1>3. ASSUME NEW s \in Slots, ReplyReload(s) PROVE IndInv'
  <2>1. calls[s] \in Call /\ calls[s].uid \in Uids
      BY <1>3, TypeParts DEF ReplyReload, CallsType
  <2>2. Handler(calls[s].k, calls[s].uid, calls[s].owner) \in Handlers
      BY <1>3, <2>1 DEF ReplyReload, Handler, Handlers, HandlerKinds, Call
  <2>3. CallsType(calls')
      BY <1>3, TypeParts, FinishKeepsType DEF ReplyReload
  <2>4. session' \in Users /\ cached' \in [Uids -> BOOLEAN]
      BY <1>3, <2>1, TypeParts DEF ReplyReload, SignedOutIf, Users
  <2>5. TypeOK'
      BY <1>3, <1>a, <2>2, <2>3, <2>4, AuthSteps, AppendProperties, TypeParts
         DEF ReplyReload, Post
  <2>6. UNCHANGED accounts /\ \A u \in Uids : cached'[u] => cached[u] \/ VerifiedOrGone(u)
      BY <1>3, <2>1, TypeParts DEF ReplyReload, TrustIsEarned
  <2>7. TrustIsEarned'
      BY <1>3, <2>6, TypeParts, IdleType
         DEF ReplyReload, Finish, TrustIsEarned, VerifiedOrGone, CallsType
  <2> QED
      BY <2>5, <2>7
<1>4. ASSUME NEW u \in Uids, ReplyDelete(u), UNCHANGED mainQ PROVE IndInv'
  <2>1. session' \in Users
      BY <1>4, TypeParts DEF ReplyDelete, SignedOutIf, Users
  <2>2. TypeOK'
      BY <1>4, <1>a, <2>1, AuthSteps, TypeParts DEF ReplyDelete
  <2>3. TrustIsEarned'
      BY <1>4 DEF ReplyDelete, TrustIsEarned, VerifiedOrGone
  <2> QED
      BY <2>2, <2>3
<1>5. ASSUME RefreshRefused, UNCHANGED mainQ PROVE IndInv'
  <2>1. TypeOK'
      BY <1>5, <1>a, AuthSteps, TypeParts DEF RefreshRefused, Users
  <2>2. TrustIsEarned'
      BY <1>5 DEF RefreshRefused, TrustIsEarned, VerifiedOrGone
  <2> QED
      BY <2>1, <2>2
<1> QED
    BY <1>1, <1>2, <1>3, <1>4, <1>5 DEF WorkQueue

LEMMA LookupIndInv == IndInv /\ Lookup => IndInv'
<1> SUFFICES ASSUME IndInv, Lookup PROVE IndInv'
    OBVIOUS
<1> USE DEF IndInv
<1>1. PICK s \in Slots :
        /\ calls[s].k = "get"
        /\ calls' = [calls EXCEPT ![s] = Idle]
        /\ \/ \E k \in {"get", "missing"} :
                Post(Handler(k, calls[s].uid, calls[s].owner))
           \/ UNCHANGED mainQ
    BY DEF Lookup
<1>2. calls[s] \in Call /\ calls[s].uid \in Uids
    BY <1>1, TypeParts DEF CallsType
<1>3. \A k \in {"get", "missing"} : Handler(k, calls[s].uid, calls[s].owner) \in Handlers
    BY <1>2 DEF Handler, Handlers, HandlerKinds, Call
<1>4. mainQ' \in Seq(Handlers)
  <2>1. CASE UNCHANGED mainQ
      BY <2>1, TypeParts
  <2>2. ASSUME NEW k \in {"get", "missing"}, Post(Handler(k, calls[s].uid, calls[s].owner))
        PROVE  mainQ' \in Seq(Handlers)
      BY <2>2, <1>3, PostType, TypeParts
  <2> QED
      BY <1>1, <2>1, <2>2
<1>5. Finish(s)
    BY <1>1 DEF Finish
<1>6. CallsType(calls')
    BY <1>5, TypeParts, FinishKeepsType
<1>7. TypeOK'
    BY <1>4, <1>6, AuthSteps, TypeParts DEF Lookup, observed
<1>8. TrustIsEarned'
    BY <1>5, TypeParts, TrustKeptByFinish DEF Lookup
<1> QED
    BY <1>7, <1>8

(***************************************************************************)
(* The write stream, Storage, and the death of the process.                *)
(***************************************************************************)
\* Steps that touch the store, and queue at most one handler.
LEMMA StoreSteps ==
    ASSUME IndInv, UNCHANGED <<path, authVars, observed>>,
           mainQ' \in Seq(Handlers), docs' \in [Uids -> Document],
           writes' \in [Users -> Seq(Write)], uploads' \subseteq Uids
    PROVE  IndInv'
BY DEF IndInv, TypeOK, MainThreadType, AuthType, StoreType, TrustIsEarned, VerifiedOrGone,
    authVars, observed

LEMMA EffectType ==
    ASSUME NEW doc \in Document, NEW w \in Write
    PROVE  Effect(doc, w) \in Document
<1>1. CASE w.op = "save"
    BY <1>1 DEF Effect, Document, Users
<1>2. CASE w.op = "photo"
    BY <1>2 DEF Effect, Document, Write
<1>3. CASE w.op = "delete"
    BY <1>3 DEF Effect, Document, Missing, Users
<1> QED
    BY <1>1, <1>2, <1>3 DEF Write, WriteOps

LEMMA WriteStreamIndInv == IndInv /\ WriteStream => IndInv'
<1> SUFFICES ASSUME IndInv, WriteStream PROVE IndInv'
    OBVIOUS
<1> DEFINE w == Head(writes[session])
<1>1. w \in Write /\ Tail(writes[session]) \in Seq(Write)
    BY TypeParts, HeadTailProperties DEF IndInv, WriteStream, Acknowledge, Refuse
<1>2. w.doc \in Uids /\ Handler("saved", w.doc, w.owner) \in Handlers
    BY <1>1 DEF Write, Handler, Handlers, HandlerKinds
<1> HIDE DEF w
<1>3. writes' \in [Users -> Seq(Write)]
    BY <1>1, TypeParts DEF IndInv, WriteStream, Acknowledge, Refuse
<1>4. mainQ' \in Seq(Handlers)
  <2>1. UNCHANGED mainQ \/ Post(Handler("saved", w.doc, w.owner))
      BY DEF WriteStream, Acknowledge, Refuse, w
  <2> QED
      BY <2>1, <1>2, PostType, TypeParts DEF IndInv
<1>5. docs' \in [Uids -> Document]
  <2>1. Effect(docs[w.doc], w) \in Document
      BY <1>1, <1>2, EffectType, TypeParts DEF IndInv
  <2> QED
      BY <2>1, <1>2, TypeParts DEF IndInv, WriteStream, Acknowledge, Refuse, w
<1> QED
    BY <1>3, <1>4, <1>5, StoreSteps, TypeParts
       DEF IndInv, WriteStream, Acknowledge, Refuse

LEMMA StorageIndInv == IndInv /\ Storage => IndInv'
<1> SUFFICES ASSUME IndInv, Storage PROVE IndInv'
    OBVIOUS
<1>1. PICK u \in Uids : PhotoStored(u) \/ UploadFails(u)
    BY DEF Storage
<1>2. Handler("photo", u, Gone) \in Handlers
    BY DEF Handler, Handlers, HandlerKinds, Owners, Gone
<1>3. mainQ' \in Seq(Handlers)
  <2>1. UNCHANGED mainQ \/ Post(Handler("photo", u, Gone))
      BY <1>1 DEF PhotoStored, UploadFails
  <2> QED
      BY <2>1, <1>2, PostType, TypeParts DEF IndInv
<1> QED
    BY <1>1, <1>3, StoreSteps, TypeParts DEF IndInv, Storage, PhotoStored, UploadFails

LEMMA RestartIndInv == IndInv /\ Restart => IndInv'
<1> SUFFICES ASSUME IndInv, Restart PROVE IndInv'
    OBVIOUS
<1> USE DEF IndInv
<1>1. CallsType(calls')
    BY IdleType DEF Restart, AuthRestart, CallsType
<1>2. writes' \in [Users -> Seq(Write)]
    BY TypeParts, WritesReownedType, ChangeTypes DEF Restart, StoreRestart
<1>3. path' \in Seq(Screens) \ {<<>>} /\ mainQ' \in Seq(Handlers)
    BY DEF Restart, Screens
<1>4. /\ cached' \in [Uids -> BOOLEAN]
      /\ deleting' \in [Uids -> {"no", "back", "profile", "done"}]
    BY TypeParts DEF Restart, AuthRestart
<1>5. TypeOK'
    BY <1>1, <1>2, <1>3, <1>4 DEF Restart, AuthRestart, StoreRestart, TypeOK,
        MainThreadType, AuthType, StoreType, CallsType, observed
<1>6. TrustIsEarned'
    BY IdleType DEF Restart, AuthRestart, TrustIsEarned, VerifiedOrGone
<1> QED
    BY <1>5, <1>6

(***************************************************************************)
(* The theorems.                                                           *)
(***************************************************************************)
LEMMA NextIndInv == IndInv /\ [Next]_vars => IndInv'
BY TapsIndInv, RunHandlerIndInv, SplashTimerIndInv, ServerIndInv, MailboxIndInv,
   WorkQueueIndInv, LookupIndInv, WriteStreamIndInv, StorageIndInv, RestartIndInv,
   StutterIndInv DEF Next

LEMMA InductiveInvariant == Spec => []IndInv
BY InitIndInv, NextIndInv, PTL DEF Spec

\* Screens, queues, requests, documents and writes keep their types: in
\* particular no handler is ever queued without a user it speaks of.
THEOREM TypeCorrect == Spec => []TypeOK
<1>1. IndInv => TypeOK
    BY DEF IndInv
<1> QED
    BY <1>1, InductiveInvariant, PTL

\* However replies, crashes, deletions and re-registrations interleave, the
\* phone believes an address verified only if its link was opened, or if the
\* account is gone: isEmailVerified, which Splash and the continue button
\* trust, is never true ahead of the server.
THEOREM TrustCorrect == Spec => []TrustIsEarned
<1>1. IndInv => TrustIsEarned
    BY DEF IndInv
<1> QED
    BY <1>1, InductiveInvariant, PTL
================================================================================
