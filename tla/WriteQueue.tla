------------------------------ MODULE WriteQueue ------------------------------
(***************************************************************************)
(* What Firestore promises an app that writes: the writes of each user are *)
(* kept, across a change of user and a crash, and settled one at a time,   *)
(* the oldest first, each once; a write is acknowledged only when the      *)
(* server has applied it; and while the process lives, the completion      *)
(* handler of a write, and no other, hears of its outcome.  UserStore      *)
(* builds on this promise; FirestoreWrites is shown to keep it.            *)
(***************************************************************************)
EXTENDS Naturals

CONSTANTS Users, MaxWrites

VARIABLES
    user,       \* whose writes are being settled
    filed,      \* how many writes the app has made: they are numbered 1, 2...
    pending,    \* each user's unsettled writes
    waiting,    \* those whose completion handler is still in memory
    applied,    \* the writes the server has applied
    told        \* what the completion handler of each write has heard

queueVars == <<user, filed, pending, waiting, applied, told>>

Writes == 1..MaxWrites

Outcomes == {"ok", "refused"}

QInit ==
    /\ user \in Users
    /\ filed = 0
    /\ pending = [u \in Users |-> {}]
    /\ waiting = [u \in Users |-> {}]
    /\ applied = {}
    /\ told = [w \in Writes |-> "none"]

QFile ==
    /\ filed < MaxWrites
    /\ filed' = filed + 1
    /\ pending' = [pending EXCEPT ![user] = @ \cup {filed'}]
    /\ waiting' = [waiting EXCEPT ![user] = @ \cup {filed'}]
    /\ UNCHANGED <<user, applied, told>>

\* A retry can apply a write again, which changes nothing here.
QApply ==
    \E w \in pending[user] :
        /\ applied' = applied \cup {w}
        /\ UNCHANGED <<user, filed, pending, waiting, told>>

QSettle ==
    \E w \in pending[user], outcome \in Outcomes :
        /\ \A v \in pending[user] : w <= v
        /\ outcome = "ok" => w \in applied
        /\ pending' = [pending EXCEPT ![user] = @ \ {w}]
        /\ waiting' = [waiting EXCEPT ![user] = @ \ {w}]
        /\ told' = [told EXCEPT ![w] = IF w \in waiting[user]
                                       THEN outcome ELSE @]
        /\ UNCHANGED <<user, filed, applied>>

QSwitch ==
    /\ user' \in Users
    /\ UNCHANGED <<filed, pending, waiting, applied, told>>

QCrash ==
    /\ user' \in Users
    /\ waiting' = [u \in Users |-> {}]
    /\ UNCHANGED <<filed, pending, applied, told>>

QNext == QFile \/ QApply \/ QSettle \/ QSwitch \/ QCrash

QSpec == QInit /\ [][QNext]_queueVars

=============================================================================
