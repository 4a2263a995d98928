------------------------------ MODULE AccountLife ------------------------------
(***************************************************************************)
(* What the app promises each of its users, whatever the others do on the  *)
(* same phone: an account is opened, verified and closed in that order;    *)
(* whoever is signed in has an account and stays so until signing out      *)
(* inside the app, or the account is gone; the phone believes an address   *)
(* verified only if it is; and a user's document is saved and erased only  *)
(* while that user is signed in, is erased only on that user's demand, and *)
(* never comes back.  Account is shown to keep this promise.               *)
(*                                                                         *)
(* The promise about documents is for users who make one registration at   *)
(* a time and wait for its answer; "strayed" says when they did not.       *)
(***************************************************************************)
CONSTANTS
    Uids, NoUid,
    Refusals        \* whether Firestore may refuse a write for good

VARIABLES
    account,        \* the account of each user
    closing,        \* the request that deletes it
    record,         \* the profile document of each user
    current,        \* who is signed in
    trusted,        \* the phone believes the current user's address verified
    inside,         \* the tab bar is in front
    strayed

lifeVars == <<account, closing, record, current, trusted, inside, strayed>>

Existing(u) == account[u] # "absent"

Confirmed(u) == account[u] \in {"verified", "deleted"}

LInit ==
    /\ account = [u \in Uids |-> "absent"]
    /\ closing = [u \in Uids |-> "no"]
    /\ record = [u \in Uids |-> "none"]
    /\ current = NoUid /\ ~trusted /\ ~inside /\ ~strayed

\* The documents stay as they are, or nothing is promised of them any more.
RecordsStay == UNCHANGED record \/ strayed'

SessionStays == UNCHANGED current /\ (trusted' <=> trusted)

(***************************************************************************)
(* The account.                                                            *)
(***************************************************************************)
Becomes(u, old, new) ==
    /\ account[u] = old
    /\ account' = [account EXCEPT ![u] = new]
    /\ RecordsStay /\ SessionStays /\ UNCHANGED closing

Open(u) == Becomes(u, "absent", "new")

Mail(u) == current = u /\ Becomes(u, "new", "mailed")

Confirm(u) == Becomes(u, "mailed", "verified")

\* A user's account is to be deleted, and with it the document, while that
\* user is signed in.
Asked(u) ==
    /\ Existing(u)
    /\ closing' = [closing EXCEPT ![u] = IF @ = "no" THEN "asked" ELSE @]
    /\ UNCHANGED account

AskOnly(u) == Asked(u) /\ RecordsStay /\ SessionStays

AskErasing(u) ==
    /\ Asked(u) /\ current = u
    /\ record' = [record EXCEPT ![u] = "doomed"]
    /\ SessionStays

SignedOut == current' = NoUid /\ ~trusted'

AskLeaving(u) == Asked(u) /\ inside /\ current = u /\ SignedOut /\ RecordsStay

Close(u) ==
    /\ closing[u] = "asked" /\ account[u] \in {"new", "mailed", "verified"}
    /\ account' = [account EXCEPT ![u] = "deleted"]
    /\ closing' = [closing EXCEPT ![u] = "done"]
    /\ RecordsStay /\ SessionStays

CloseEnds(u) ==
    /\ closing[u] # "no"
    /\ closing' = [closing EXCEPT ![u] = "no"]
    /\ SessionStays \/ (account[u] = "deleted" /\ current = u /\ SignedOut)
    /\ RecordsStay /\ UNCHANGED account

(***************************************************************************)
(* The session.                                                            *)
(***************************************************************************)
Enter(u) ==
    /\ Existing(u)
    /\ current' = u
    /\ trusted' => Confirmed(u)
    /\ RecordsStay /\ UNCHANGED <<account, closing>>

Believe ==
    /\ current # NoUid /\ UNCHANGED current
    /\ trusted' => Confirmed(current)
    /\ RecordsStay /\ UNCHANGED <<account, closing>>

Leave ==
    /\ current # NoUid
    /\ inside \/ account[current] = "deleted"
    /\ SignedOut
    /\ RecordsStay /\ UNCHANGED <<account, closing>>

(***************************************************************************)
(* The document.                                                           *)
(***************************************************************************)
RecordBecomes(u, old, new) ==
    /\ current = u
    /\ record[u] = old
    /\ record' = [record EXCEPT ![u] = new]
    /\ SessionStays /\ UNCHANGED <<account, closing>>

Save(u) == Existing(u) /\ RecordBecomes(u, "none", "saved")

Erase(u) == RecordBecomes(u, "doomed", "erased")

\* The server refuses to delete the document, and the app does not ask again.
Spare(u) == Refusals /\ RecordBecomes(u, "doomed", "spared")

(***************************************************************************)
(* The process dies: the requests under way are forgotten, what was asked  *)
(* of Firestore is not.                                                    *)
(***************************************************************************)
Die ==
    /\ closing' = [u \in Uids |-> "no"]
    /\ RecordsStay /\ SessionStays /\ UNCHANGED account

Elsewhere == RecordsStay /\ SessionStays /\ UNCHANGED <<account, closing>>

LMove ==
    \/ \E u \in Uids :
         \/ Open(u) \/ Mail(u) \/ Confirm(u) \/ Close(u) \/ CloseEnds(u)
         \/ AskOnly(u) \/ AskErasing(u) \/ AskLeaving(u)
         \/ Enter(u)
         \/ Save(u) \/ Erase(u) \/ Spare(u)
    \/ Believe \/ Leave \/ Die \/ Elsewhere

LNext ==
    /\ LMove
    /\ inside' \in BOOLEAN
    /\ strayed' \in BOOLEAN /\ (strayed => strayed')

LSpec == LInit /\ [][LNext]_lifeVars
================================================================================
