-------------------------------- MODULE Account --------------------------------
(***************************************************************************)
(* Registration, verification, sign-in, sign-out and account deletion:     *)
(* the Splash, Welcome, Register, EmailVerification, WelcomeInfo and       *)
(* Profile controllers, composed with FirebaseAuth (AuthService) and with  *)
(* the users documents (UserStore).                                        *)
(*                                                                         *)
(* Handlers and taps run on the main thread, one at a time; everything     *)
(* between them -- servers, the Auth work queue, the write stream,         *)
(* uploads, the mail client, the death of the process -- interleaves.      *)
(***************************************************************************)
EXTENDS AuthService, UserStore

CONSTANT MaxPending     \* bound: taps wait while this much is unfinished

ASSUME MaxPendingAssumption == MaxPending \in Nat \ {0}

\* Observation only, read by no action.  "astray": a registration was submitted
\* while another was unfinished, a registration or a tap on the back button was
\* answered after the user had left the screen it was made on, or a sign-in after
\* an earlier log-in had covered it.  "erased": the users whose document the app
\* asked to delete.
VARIABLES astray, erased

observed == <<astray, erased>>

vars == <<path, mainQ, authVars, storeVars, observed>>

(***************************************************************************)
(* Taps.                                                                   *)
(***************************************************************************)
Busy == {s \in Slots : calls[s] # Idle}

Unfinished ==
    Cardinality(Busy) + Len(mainQ) + Cardinality(uploads) + Len(writes[session])

Tap == Unfinished < MaxPending

Pending(kinds, owner) ==
    \/ \E s \in Slots : calls[s].k \in kinds /\ calls[s].owner = owner
    \/ \E i \in DOMAIN mainQ : mainQ[i].k \in kinds /\ mainQ[i].owner = owner

\* Mutant: no overlay over Welcome.
AtWelcomeUncovered == Top = "Welcome"

\* The loading overlay over Welcome swallows taps until signIn completes.
AtWelcome == Top = "Welcome" /\ ~Pending({"signIn"}, Len(path))

\* A registration somewhere between createUser and the end of saveUser.
Registering ==
    \/ \E s \in Slots : calls[s].k = "create"
    \/ \E i \in DOMAIN mainQ : mainQ[i].k \in {"create", "saved"}
    \/ \E u \in Users : \E i \in DOMAIN writes[u] : writes[u][i].op = "save"

\* WelcomeViewController.createAccountAction
CreateAccountAction ==
    /\ Tap /\ AtWelcome
    /\ path' = Pushed("Register")
    /\ UNCHANGED <<mainQ, authVars, storeVars, observed>>

\* RegisterViewController.registerAction, the form being valid.  The spinner
\* is removed before the request is answered, so the button can be hit again.
RegisterAction(e) ==
    /\ Tap /\ Top = "Register"
    /\ Start(Request("create", e, NoUid, Len(path)))
    /\ astray' = (astray \/ Registering)
    /\ UNCHANGED <<path, mainQ, accounts, session, cached, deleting,
                   storeVars, erased>>

\* WelcomeViewController.logIn with the right password.  With a session the
\* typed email is not looked at: only the document of that session is.
LogIn(e) ==
    /\ Tap /\ AtWelcome
    /\ IF session = NoUid
         THEN Start(Request("signIn", e, NoUid, Len(path)))
         ELSE Start(Request("get", NoEmail, session, Len(path)))
    /\ UNCHANGED <<path, mainQ, accounts, session, cached, deleting,
                   storeVars, observed>>

\* A pop the user asks for: the back and log-in buttons of Register, the back
\* button of WelcomeInfo, and the swipe that Register and Profile unlock for
\* their whole navigation stack by clearing the gesture's delegate.
Back ==
    /\ Tap /\ CanPop
    /\ path' = Popped
    /\ calls' = CallsReowned(AfterPop)
    /\ mainQ' = Reowned(mainQ, AfterPop)
    /\ writes' = WritesReowned(AfterPop)
    /\ UNCHANGED <<accounts, session, cached, deleting, docs, uploads, observed>>

\* EmailVerificationViewController.onBack
VerifyBack ==
    /\ Tap /\ Top = "Verify" /\ session # NoUid
    /\ Start(Request("back", NoEmail, session, Len(path)))
    /\ UNCHANGED <<path, mainQ, accounts, session, cached, deleting,
                   storeVars, observed>>

\* EmailVerificationViewController.checkEmailVerification; its spinner covers
\* the button until the handler has run.
CheckEmailVerification ==
    /\ Tap /\ Top = "Verify" /\ session # NoUid
    /\ ~Pending({"continue"}, Len(path))
    /\ Start(Request("continue", NoEmail, session, Len(path)))
    /\ UNCHANGED <<path, mainQ, accounts, session, cached, deleting,
                   storeVars, observed>>

\* EmailVerificationViewController.sendEmailVerification
ResendLink ==
    /\ Tap /\ Top = "Verify" /\ session # NoUid
    /\ ~Pending({"continue"}, Len(path))
    /\ MailLink(session)
    /\ UNCHANGED <<path, mainQ, session, cached, calls, deleting, storeVars, observed>>

\* Presenting the tab bar covers the navigation stack with all it holds.
PresentMain(queue) ==
    /\ path' = <<"Main">>
    /\ calls' = CallsReowned(AfterCover)
    /\ mainQ' = Reowned(queue, AfterCover)
    /\ writes' = WritesReowned(AfterCover)

\* WelcomeInfoViewController.startButtonAction
StartButtonAction ==
    /\ Tap /\ Top = "Info"
    /\ PresentMain(mainQ)
    /\ UNCHANGED <<accounts, session, cached, deleting, docs, uploads, observed>>

\* backToLoginScreen: the new Splash looks for a current user as it loads.
BackToLogin(current) ==
    path' = Append(path, IF current = NoUid THEN "SplashOut" ELSE "SplashIn")

\* ProfileViewController.logOut.  When signOut throws nothing else happens.
LogOut ==
    /\ Tap /\ Top = "Main"
    /\ session' = NoUid
    /\ BackToLogin(NoUid)
    /\ UNCHANGED <<mainQ, accounts, cached, calls, deleting, storeVars, observed>>

\* ProfileViewController.showActionSheet, OK: sign out (which the keychain may
\* refuse), delete the captured FIRUser, then delete the document and the photo
\* of whoever is signed in by then.
DeleteAccount ==
    /\ Tap /\ Top = "Main" /\ session # NoUid
    /\ DeleteRequested(session, "profile")
    /\ \/ /\ session' = NoUid
          /\ UNCHANGED <<writes, erased>>
       \/ /\ writes' = [writes EXCEPT ![session] = Enqueued(@, Delete(session))]
          /\ erased' = erased \cup {session}
          /\ UNCHANGED session
    /\ BackToLogin(session')
    /\ UNCHANGED <<mainQ, accounts, cached, calls, docs, uploads, astray>>

(***************************************************************************)
(* Completion handlers, run by the main queue in the order of posting.     *)
(***************************************************************************)
Alive(h) == h.owner # Gone

Rest == Tail(mainQ)

\* Handlers that leave the Firebase client alone.
OnlyScreens == UNCHANGED <<accounts, session, cached, deleting, docs, uploads, observed>>

Stay(queue) == path' = path /\ mainQ' = queue /\ UNCHANGED <<calls, writes>>

Push(screen) == path' = Pushed(screen) /\ mainQ' = Rest /\ UNCHANGED <<calls, writes>>

\* Mutant: the photo is uploaded beside the save, not after it.
CreatedUploading(h) ==
    /\ h.k = "create"
    /\ writes' = IF Alive(h)
                   THEN [writes EXCEPT ![session] = Append(@, Save(h.uid, h.owner))]
                   ELSE writes
    /\ uploads' = IF Alive(h) THEN uploads \cup {h.uid} ELSE uploads
    /\ mainQ' = Rest
    /\ UNCHANGED <<path, authVars, docs, observed>>

\* RegisterViewController.createUser's completion: saveUser, if still there.
\* Firestore files the write under the user signed in by now.
Created(h) ==
    /\ h.k = "create"
    /\ writes' = IF Alive(h)
                   THEN [writes EXCEPT ![session] = Append(@, Save(h.uid, h.owner))]
                   ELSE writes
    /\ mainQ' = Rest
    /\ UNCHANGED <<path, authVars, docs, uploads, observed>>

\* saveUser's completion: upload the photo, mail the link to the current user,
\* and show the verification screen.
Saved(h) ==
    /\ h.k = "saved"
    /\ uploads' = IF Alive(h) /\ session # NoUid THEN uploads \cup {session}
                                                  ELSE uploads
    /\ IF session # NoUid THEN MailLink(session) ELSE UNCHANGED accounts
    /\ IF OnScreen(h.owner) THEN Push("Verify") ELSE Stay(Rest)
    /\ UNCHANGED <<session, cached, deleting, docs, observed>>

\* WelcomeViewController.goToHomeScreen, from logIn's handlers: UIKit refuses
\* it to a controller that is covered or not on top.  Nothing looks at
\* isEmailVerified.
GoHome(h) ==
    /\ h.k \in {"signIn", "get"}
    /\ IF OnScreen(h.owner) /\ h.owner = Len(path) THEN PresentMain(Rest) ELSE Stay(Rest)
    /\ OnlyScreens

\* getUser found no document: "No account found. Please create an account."
NoAccountFound(h) ==
    /\ h.k = "missing"
    /\ Stay(Rest)
    /\ OnlyScreens

\* Mutant: the flag is not looked at.
EmailUnchecked(h) ==
    /\ h.k = "continue"
    /\ IF OnScreen(h.owner) THEN Push("Info") ELSE Stay(Rest)
    /\ OnlyScreens

\* checkEmailVerification's completion.
EmailChecked(h) ==
    /\ h.k = "continue"
    /\ IF cached[h.uid] /\ OnScreen(h.owner) THEN Push("Info") ELSE Stay(Rest)
    /\ OnlyScreens

\* onBack's completion for a verified address: only an alert.
BackRefused(h) ==
    /\ h.k = "back" /\ cached[h.uid]
    /\ Stay(Rest)
    /\ OnlyScreens

\* onBack's completion otherwise: delete the FIRUser captured by the tap, then,
\* for whoever is signed in now, the document; leave the screen.
BackDeletes(h) ==
    /\ h.k = "back" /\ ~cached[h.uid]
    /\ DeleteRequested(h.uid, "back")
    /\ LET goOn  == session # NoUid /\ Alive(h)
            pops  == goOn /\ OnScreen(h.owner)
            after == IF pops THEN AfterPop ELSE AsBefore
        IN  /\ path' = IF pops THEN Popped ELSE path
            /\ mainQ' = Reowned(Rest, after)
            /\ calls' = CallsReowned(after)
            /\ writes' = IF goOn
                 THEN [WritesReowned(after) EXCEPT
                         ![session] = Enqueued(@, Delete(session))]
                 ELSE writes
            /\ erased' = IF goOn THEN erased \cup {session} ELSE erased
            /\ astray' = (astray \/ (goOn /\ ~OnScreen(h.owner)))
    /\ UNCHANGED <<accounts, session, cached, docs, uploads>>

\* StorageManager's completion: savePhotoReferenceForUser for the user signed
\* in now, with the reference of the photo uploaded for h.uid.
PhotoUploaded(h) ==
    /\ h.k = "photo"
    /\ writes' = IF session # NoUid
                   THEN [writes EXCEPT ![session] =
                           Append(@, SetPhoto(session, h.uid))]
                   ELSE writes
    /\ mainQ' = Rest
    /\ UNCHANGED <<path, authVars, docs, uploads, observed>>

RunHandler ==
    /\ mainQ # <<>>
    /\ LET h == Head(mainQ) IN
         \/ Created(h)     \/ Saved(h)         \/ GoHome(h)
         \/ NoAccountFound(h) \/ EmailChecked(h) \/ BackRefused(h)
         \/ BackDeletes(h) \/ PhotoUploaded(h)

\* SplashViewController.viewDidLoad's block, six seconds later.  Its loadUser
\* presents the tab bar once more, which UIKit refuses.
SplashTimer ==
    /\ \/ /\ Top = "SplashOut"
          /\ path' = <<"Welcome">>
          /\ UNCHANGED <<mainQ, calls, writes>>
       \/ /\ Top = "SplashIn" /\ session = NoUid
          /\ path' = [path EXCEPT ![Len(path)] = "SplashOver"]
          /\ UNCHANGED <<mainQ, calls, writes>>
       \/ /\ Top = "SplashIn" /\ session # NoUid /\ cached[session]
          /\ PresentMain(mainQ)
       \/ /\ Top = "SplashIn" /\ session # NoUid /\ ~cached[session]
          /\ path' = <<"Verify">>
          /\ UNCHANGED <<mainQ, calls, writes>>
    /\ OnlyScreens

(***************************************************************************)
(* Everything that is not the main thread.                                 *)
(***************************************************************************)
Server ==
    /\ \/ \E s \in Slots : \/ ServeCreate(s) \/ ServeSignIn(s)
                           \/ ServeReload(s) \/ FailCall(s)
       \/ \E u \in Uids : ServeDelete(u)
    /\ UNCHANGED <<path, mainQ, storeVars, observed>>

Mailbox ==
    /\ \E u \in Uids : OpenLink(u)
    /\ UNCHANGED <<path, mainQ, storeVars, observed>>

WorkQueue ==
    /\ \/ \E s \in Slots :
            /\ ReplyEntry(s)
            /\ astray' = \/ astray
                         \/ ~OnScreen(calls[s].owner)
                         \/ calls[s].k = "create" /\ calls[s].owner # Len(path)
       \/ (\E s \in Slots : ReplyRefused(s) \/ ReplyReload(s)) /\ UNCHANGED astray
       \/ (\E u \in Uids : ReplyDelete(u)) /\ UNCHANGED <<mainQ, astray>>
       \/ RefreshRefused /\ UNCHANGED <<mainQ, astray>>
    /\ UNCHANGED <<path, storeVars, erased>>

\* getDocument for WelcomeViewController.logIn: found, missing, or an error.
Lookup ==
    /\ \E s \in Slots :
         /\ calls[s].k = "get"
         /\ calls' = [calls EXCEPT ![s] = Idle]
         /\ \/ LET found == ExistsFor(session, calls[s].uid)
               IN  Post(Handler(IF found THEN "get" ELSE "missing",
                                calls[s].uid, calls[s].owner))
            \/ "request" \in Faults /\ UNCHANGED mainQ
    /\ UNCHANGED <<path, accounts, session, cached, deleting, storeVars, observed>>

WriteStream ==
    /\ Acknowledge(session) \/ Refuse(session)
    /\ UNCHANGED <<path, authVars, observed>>

Storage ==
    /\ \E u \in Uids : PhotoStored(u) \/ UploadFails(u)
    /\ UNCHANGED <<path, authVars, observed>>

\* The process dies and is launched again.
Restart ==
    /\ "restart" \in Faults
    /\ path' = <<IF session = NoUid THEN "SplashOut" ELSE "SplashIn">>
    /\ mainQ' = <<>>
    /\ AuthRestart
    /\ StoreRestart
    /\ UNCHANGED observed

Init ==
    /\ path = <<"SplashOut">>
    /\ mainQ = <<>>
    /\ AuthInit
    /\ StoreInit
    /\ astray = FALSE
    /\ erased = {}

Taps ==
    \/ CreateAccountAction \/ Back
    \/ \E e \in Emails : RegisterAction(e) \/ LogIn(e)
    \/ VerifyBack \/ CheckEmailVerification \/ ResendLink
    \/ StartButtonAction
    \/ LogOut \/ DeleteAccount

Next ==
    \/ Taps \/ RunHandler \/ SplashTimer
    \/ Server \/ Mailbox \/ WorkQueue \/ Lookup \/ WriteStream \/ Storage
    \/ Restart

Spec == Init /\ [][Next]_vars

(***************************************************************************)
(* Properties.                                                             *)
(***************************************************************************)
\* Every variable keeps its type.
TypeOK ==
    /\ MainThreadType /\ AuthType /\ StoreType
    /\ astray \in BOOLEAN
    /\ erased \subseteq Uids

VerifiedOrGone(u) == accounts[u].status \in {"verified", "deleted"}

\* The phone believes an address verified, and an answer on its way says so,
\* only if the link was opened or the account is gone since -- whatever replies
\* are late, lost or out of order.
TrustIsEarned ==
    /\ \A u \in Uids : cached[u] => VerifiedOrGone(u)
    /\ \A s \in Slots : calls[s].answer = "verified" => VerifiedOrGone(calls[s].uid)

\* Whoever enters the app from the Splash of a launch or from WelcomeInfo, the
\* screens that follow a check of isEmailVerified, has a verified address.
VerifiedEntry ==
    [][ path' = <<"Main">> /\ (path = <<"SplashIn">> \/ Top = "Info") /\ ~astray
        => session = NoUid \/ VerifiedOrGone(session) ]_vars

\* With one registration at a time, no write is filed under another user than
\* the one whose document it changes, nor under nobody.
OwnWrites ==
    ~astray =>
        /\ writes[NoUid] = <<>>
        /\ \A u \in Uids : \A i \in DOMAIN writes[u] : writes[u][i].doc = u

\* The handler of the back button deletes the account and the document of one
\* and the same user, although it looks the user up twice.
BackErasesOneUser ==
    [][ \A u, v \in Uids :
          deleting[u] = "no" /\ deleting'[u] = "back" /\ v \in erased' \ erased
          => u = v \/ astray' ]_vars

ErasurePending(u) == \E w \in Users : \E i \in DOMAIN writes[w] : writes[w][i] = Delete(u)

ErasureLost(u) == u \in erased /\ docs[u].profile /\ ~ErasurePending(u)

DeleteRefused(u) ==
    \E w \in Users :
        writes[w] # <<>> /\ Head(writes[w]) = Delete(u) /\ writes'[w] = Tail(writes[w])

\* A profile the app set out to erase is erased, or its erasure is still
\* queued: a crash does not forget it and no older write outlives it.  Only
\* the server, refusing it, undoes an erasure.
ErasureKept ==
    [][ \A u \in Uids :
          ErasureLost(u)' => ErasureLost(u) \/ DeleteRefused(u) \/ astray' ]_vars

\* With one registration at a time, a document with the photo of its user and
\* no profile is what an erasure left.
HalfRecord ==
    \A u \in Uids :
        docs[u].photo = u /\ ~docs[u].profile => u \in erased \/ astray

OnPath(screen) == \E i \in DOMAIN path : path[i] = screen

\* A registration whose answer found its screen still there leads on: to the
\* verification screen, unless the user leaves first or registrations overlap.
RegistrationLeadsOn ==
    (\E i \in DOMAIN mainQ : mainQ[i].k = "create" /\ OnScreen(mainQ[i].owner))
        ~> (OnPath("Verify") \/ ~OnPath("Register") \/ astray)

\* The registration of u on its way, its screen still there: the account was
\* answered, the document is filed with the queue that is being sent, saved.
Answered(u) ==
    \E i \in DOMAIN mainQ : mainQ[i].k = "create" /\ mainQ[i].uid = u /\ OnScreen(mainQ[i].owner)

Filed(u) ==
    /\ session = u
    /\ \E i \in DOMAIN writes[u] : /\ writes[u][i].op = "save" /\ writes[u][i].doc = u
                                  /\ OnScreen(writes[u][i].owner)

SavedFor(u) ==
    \E i \in DOMAIN mainQ : mainQ[i].k = "saved" /\ mainQ[i].uid = u /\ OnScreen(mainQ[i].owner)

LeftRegister == ~OnPath("Register")' \/ astray'

SaveRefused(u) ==
    /\ writes[u] # <<>> /\ Head(writes[u]).op = "save" /\ Head(writes[u]).doc = u
    /\ writes'[u] = Tail(writes[u]) /\ UNCHANGED docs

\* What RegistrationLeadsOn rests on: each step of a registration hands it on,
\* never between two queues and never to a queue that is not sent, until the
\* user has left the screen or the server refused the document.
RegistrationHandedOn ==
    [][ \A u \in Uids :
          /\ Answered(u) => Answered(u)' \/ Filed(u)' \/ LeftRegister
          /\ Filed(u) => Filed(u)' \/ SavedFor(u)' \/ SaveRefused(u) \/ LeftRegister
          /\ SavedFor(u) => SavedFor(u)' \/ Top' = "Verify" \/ LeftRegister ]_vars

(***************************************************************************)
(* What the app promises each of its users: AccountLife.                   *)
(***************************************************************************)
Standings == [u \in Uids |-> accounts[u].status]

Closings ==
    [u \in Uids |-> IF deleting[u] \in {"back", "profile"} THEN "asked" ELSE deleting[u]]

Records ==
    [u \in Uids |->
        IF u \notin erased
          THEN IF docs[u].profile THEN "saved" ELSE "none"
          ELSE IF ErasurePending(u) THEN "doomed"
          ELSE IF docs[u].profile THEN "spared" ELSE "erased"]

Trusted == session # NoUid /\ cached[session]

Inside == Top = "Main"

Life == INSTANCE AccountLife WITH
            Refusals <- "write" \in Faults,
            account  <- Standings,
            closing  <- Closings,
            record   <- Records,
            current  <- session,
            trusted  <- Trusted,
            inside   <- Inside,
            strayed  <- astray

\* The screens, the handlers, FirebaseAuth and Firestore together keep the
\* promise of AccountLife at every step.
KeepsLife == Life!LSpec

(***************************************************************************)
(* What the app tells its user, or its reader, and does not keep.          *)
(***************************************************************************)
\* "This email address is already verified.": the back button deletes no
\* account whose address is.
BackSparesVerified ==
    [][ \A u \in Uids :
          accounts[u].status = "verified" /\ accounts'[u].status = "deleted"
          => deleting[u] # "back" ]_vars

\* "Please continue with the setup process.": once the address is known to be
\* verified, the continue button leads on.
ContinueLeadsOn ==
    [][ /\ mainQ # <<>> /\ Len(mainQ') < Len(mainQ)
        /\ Head(mainQ).k = "continue" /\ OnScreen(Head(mainQ).owner)
        /\ cached[Head(mainQ).uid]
        => path' # path ]_vars

(***************************************************************************)
(* The system under fair scheduling: the main queue, the Auth work queue,  *)
(* the servers and the write stream of a connected phone do what is there  *)
(* to be done.  The user and the mail client owe nobody anything.          *)
(***************************************************************************)
Fairness ==
    /\ WF_vars(RunHandler) /\ WF_vars(WriteStream) /\ WF_vars(SplashTimer)
    /\ WF_vars(Server) /\ WF_vars(WorkQueue) /\ WF_vars(Lookup) /\ WF_vars(Storage)

FairSpec == Spec /\ Fairness
================================================================================
