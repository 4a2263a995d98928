------------------------------ MODULE AuthService ------------------------------
(***************************************************************************)
(* FirebaseAuth as GMM uses it: the accounts on the server, the current    *)
(* user of the phone (which the keychain preserves) with the email-        *)
(* verified flag its FIRUser caches, and the requests in flight.  The      *)
(* server serves a request, then the reply is processed on the Auth work   *)
(* queue, where current user and cache change, and only then is the        *)
(* completion handler posted to the main queue.  Requests are not ordered  *)
(* among themselves, and each may be lost on the way out or back.          *)
(***************************************************************************)
EXTENDS MainThread, FiniteSets

CONSTANTS
    Emails, NoEmail,
    Slots       \* requests started by a tap that can be in flight at once

VARIABLES
    accounts,   \* server: the account behind each uid
    session,    \* Auth.currentUser
    cached,     \* phone: isEmailVerified of the FIRUser of each uid
    calls,      \* requests started by a tap
    deleting    \* progress of the request that deletes each user

ASSUME NoEmailAssumption == NoEmail \notin Emails

authVars == <<accounts, session, cached, calls, deleting>>

Statuses == {"absent", "new", "mailed", "verified", "deleted"}

Account == [status : Statuses, email : Emails \cup {NoEmail}]

Live(u) == accounts[u].status \in {"new", "mailed", "verified"}

\* Uids the server has not handed out yet; how many there are is a bound.
Unborn == {u \in Uids : accounts[u].status = "absent"}

Holders(e) == {u \in Uids : Live(u) /\ accounts[u].email = e}

(***************************************************************************)
(* Requests.  "back" and "continue" are the reloads of the verification    *)
(* screen, "get" is getDocument for the sign-in screen.                    *)
(***************************************************************************)
CallKinds == {"idle", "create", "signIn", "back", "continue", "get"}
Answers   == {"none", "verified", "unverified", "gone", "error"}

Call == [k : CallKinds, email : Emails \cup {NoEmail}, uid : Users,
         answer : Answers, owner : Owners]

Request(k, email, uid, owner) ==
    [k |-> k, email |-> email, uid |-> uid, answer |-> "none", owner |-> owner]

Idle == Request("idle", NoEmail, NoUid, Gone)

Start(request) ==
    \E s \in Slots : /\ calls[s] = Idle
                     /\ calls' = [calls EXCEPT ![s] = request]

Finish(s) == calls' = [calls EXCEPT ![s] = Idle]

CallsReowned(change) ==
    [s \in Slots |-> [calls[s] EXCEPT !.owner = change[@]]]

\* user.delete: a second request for the same user is refused by the server.
DeleteRequested(u, origin) ==
    deleting' = [deleting EXCEPT ![u] = IF @ = "no" THEN origin ELSE @]

\* user.sendEmailVerification, or its failure.  Nothing on the phone depends
\* on when the mail goes out, so it goes out at once.
MailLink(u) ==
    \/ Live(u) /\ accounts' = [accounts EXCEPT ![u].status =
                                 IF @ = "new" THEN "mailed" ELSE @]
    \/ ("request" \in Faults \/ ~Live(u)) /\ UNCHANGED accounts

(***************************************************************************)
(* The server.                                                             *)
(***************************************************************************)
Verdict(u) == IF accounts[u].status = "verified" THEN "verified" ELSE "unverified"

Awaiting(s, k) == calls[s].k = k /\ calls[s].answer = "none"

Answer(s, u, verdict) ==
    calls' = [calls EXCEPT ![s].uid = u, ![s].answer = verdict]

ServeCreate(s) ==
    /\ Awaiting(s, "create")
    /\ Holders(calls[s].email) = {}
    /\ \E u \in Unborn :
         /\ accounts' = [accounts EXCEPT
                           ![u] = [status |-> "new", email |-> calls[s].email]]
         /\ Answer(s, u, "unverified")
    /\ UNCHANGED <<session, cached, deleting>>

ServeSignIn(s) ==
    /\ Awaiting(s, "signIn")
    /\ \E u \in Holders(calls[s].email) : Answer(s, u, Verdict(u))
    /\ UNCHANGED <<accounts, session, cached, deleting>>

ServeReload(s) ==
    /\ Awaiting(s, "back") \/ Awaiting(s, "continue")
    /\ LET u == calls[s].uid
       IN  Answer(s, u, IF Live(u) THEN Verdict(u) ELSE "gone")
    /\ UNCHANGED <<accounts, session, cached, deleting>>

\* A refusal, a request that never arrives, or an answer that never returns.
FailCall(s) ==
    /\ \/ "request" \in Faults
       \/ Awaiting(s, "create") /\ (Holders(calls[s].email) # {} \/ Unborn = {})
       \/ Awaiting(s, "signIn") /\ Holders(calls[s].email) = {}
    /\ calls[s].k \notin {"idle", "get"}
    /\ calls[s].answer # "error"
    /\ calls' = [calls EXCEPT ![s].answer = "error"]
    /\ UNCHANGED <<accounts, session, cached, deleting>>

ServeDelete(u) ==
    /\ deleting[u] \in {"back", "profile"}
    /\ \/ /\ Live(u)
          /\ accounts' = [accounts EXCEPT ![u] = [status |-> "deleted", email |-> NoEmail]]
          /\ deleting' = [deleting EXCEPT ![u] = "done"]
       \/ /\ "request" \in Faults \/ ~Live(u)
          /\ deleting' = [deleting EXCEPT ![u] = "no"]
          /\ UNCHANGED accounts
    /\ UNCHANGED <<session, cached, calls>>

\* The owner of the address opens the link of a verification mail.
OpenLink(u) ==
    /\ accounts[u].status = "mailed"
    /\ accounts' = [accounts EXCEPT ![u].status = "verified"]
    /\ UNCHANGED <<session, cached, calls, deleting>>

(***************************************************************************)
(* The Auth work queue of the phone.                                       *)
(***************************************************************************)
\* Ending the session of the FIRUser a refusal or a deletion was for.  Users are
\* compared by the identity of their uid string, so one who has signed in anew
\* since is left alone; which FIRUser a session holds is not in the model, and
\* both outcomes are possible.
SignedOutIf(u) ==
    \/ session = u /\ session' = NoUid
    \/ UNCHANGED session

\* createUser or signIn succeeded: the new FIRUser becomes the current user
\* before the completion handler is posted.
ReplyEntry(s) ==
    /\ calls[s].k \in {"create", "signIn"}
    /\ calls[s].answer \in {"verified", "unverified"}
    /\ session' = calls[s].uid
    /\ cached' = [cached EXCEPT ![calls[s].uid] = calls[s].answer = "verified"]
    /\ Post(Handler(calls[s].k, calls[s].uid, calls[s].owner))
    /\ Finish(s)
    /\ UNCHANGED <<accounts, deleting>>

\* createUser or signIn failed: the handler only raises an alert.
ReplyRefused(s) ==
    /\ calls[s].k \in {"create", "signIn"}
    /\ calls[s].answer = "error"
    /\ Finish(s)
    /\ UNCHANGED <<accounts, session, cached, deleting, mainQ>>

\* Mutant: whatever is not a "no" counts as a "yes".
ReplyReloadTrusting(s) ==
    /\ calls[s].k \in {"back", "continue"}
    /\ calls[s].answer # "none"
    /\ LET u == calls[s].uid IN
         /\ cached' = [cached EXCEPT ![u] = calls[s].answer # "unverified"]
         /\ IF calls[s].answer = "gone" THEN SignedOutIf(u) ELSE UNCHANGED session
         /\ Post(Handler(calls[s].k, u, calls[s].owner))
    /\ Finish(s)
    /\ UNCHANGED <<accounts, deleting>>

\* reload: the handler is posted whether or not the reload succeeded; only an
\* answer refreshes the cached flag, and "user not found" signs the user out.
ReplyReload(s) ==
    /\ calls[s].k \in {"back", "continue"}
    /\ calls[s].answer # "none"
    /\ LET u == calls[s].uid IN
         /\ cached' = IF calls[s].answer \in {"verified", "unverified"}
                        THEN [cached EXCEPT ![u] = calls[s].answer = "verified"]
                        ELSE cached
         /\ IF calls[s].answer = "gone" THEN SignedOutIf(u) ELSE UNCHANGED session
         /\ Post(Handler(calls[s].k, u, calls[s].owner))
    /\ Finish(s)
    /\ UNCHANGED <<accounts, deleting>>

\* delete succeeded on the server, which signs the user out.
ReplyDelete(u) ==
    /\ deleting[u] = "done"
    /\ deleting' = [deleting EXCEPT ![u] = "no"]
    /\ SignedOutIf(u)
    /\ UNCHANGED <<accounts, cached, calls>>

\* Any other request of a user whose account is gone is refused, and that
\* refusal ends the session too.
RefreshRefused ==
    /\ session # NoUid
    /\ ~Live(session)
    /\ session' = NoUid
    /\ UNCHANGED <<accounts, cached, calls, deleting>>

\* A new process: requests are gone, the keychain keeps the current user.
AuthRestart ==
    /\ calls' = [s \in Slots |-> Idle]
    /\ deleting' = [u \in Uids |-> "no"]
    /\ cached' = [u \in Uids |-> u = session /\ cached[u]]
    /\ UNCHANGED <<accounts, session>>

AuthInit ==
    /\ accounts = [u \in Uids |-> [status |-> "absent", email |-> NoEmail]]
    /\ session = NoUid
    /\ cached = [u \in Uids |-> FALSE]
    /\ calls = [s \in Slots |-> Idle]
    /\ deleting = [u \in Uids |-> "no"]

AuthType ==
    /\ accounts \in [Uids -> Account]
    /\ session \in Users
    /\ cached \in [Uids -> BOOLEAN]
    /\ calls \in [Slots -> Call]
    /\ \A s \in Slots :
         \/ calls[s].k \in {"back", "continue", "get"}
         \/ calls[s].answer \in {"verified", "unverified"}
         => calls[s].uid \in Uids
    /\ deleting \in [Uids -> {"no", "back", "profile", "done"}]
================================================================================
