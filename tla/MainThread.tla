------------------------------ MODULE MainThread ------------------------------
(***************************************************************************)
(* The part of UIKit the controllers of src/GMM/GMM/Controllers rely on:   *)
(* the stack of screens in front of the user and the FIFO main dispatch    *)
(* queue that completion handlers are posted to.                           *)
(*                                                                         *)
(* "path" is the stack above the last full-screen presentation.  Nothing   *)
(* in the app dismisses such a presentation, so what lies under it never   *)
(* comes back; but the controllers there stay alive, and so do the         *)
(* handlers that captured them.                                            *)
(***************************************************************************)
EXTENDS Integers, Sequences

CONSTANTS
    Uids,       \* user ids the server can hand out
    NoUid,      \* nil
    Faults      \* what the environment may do: a subset of FaultKinds

VARIABLES
    path,       \* screens from the root of the visible stack to the top
    mainQ       \* completion handlers posted to the main queue, oldest first

FaultKinds == {"restart", "request", "write", "upload", "storageDown"}

ASSUME FaultsAssumption == Faults \subseteq FaultKinds

ASSUME NoUidAssumption == NoUid \notin Uids

Users == Uids \cup {NoUid}

Screens ==
    {"SplashIn",   \* Splash whose viewDidLoad found a current user
     "SplashOut",  \* Splash whose viewDidLoad found none
     "SplashOver", \* Splash whose timer fired and showed nothing
     "Welcome", "Register", "Verify", "Info", "Main"}

(***************************************************************************)
(* A handler captures its controller weakly.  Its "owner" is the depth of  *)
(* that controller in "path", Covered when the controller is alive under a *)
(* full-screen presentation, Gone once it was popped and deallocated.      *)
(***************************************************************************)
Gone    == 0
Covered == -1
Owners  == {Covered, Gone} \cup Nat
OnScreen(owner) == owner > 0

Top == path[Len(path)]

\* Every stack sits in a UINavigationController, except the Splash of a
\* launch and the Verify screen that Splash presents bare.
HasNavigation == path[1] \in {"Welcome", "Main"}

CanPop == HasNavigation /\ Len(path) > 1

Pushed(screen) == IF HasNavigation THEN Append(path, screen) ELSE path

\* Mutant: the pop does not look for a navigation controller first.
PoppedAnywhere == SubSeq(path, 1, Len(path) - 1)

Popped == IF CanPop THEN SubSeq(path, 1, Len(path) - 1) ELSE path

\* What popping the top, or covering the whole stack, does to an owner.
AfterPop   == [w \in Owners |-> IF CanPop /\ w = Len(path) THEN Gone ELSE w]
AfterCover == [w \in Owners |-> IF OnScreen(w) THEN Covered ELSE w]
AsBefore   == [w \in Owners |-> w]

Reowned(queue, change) ==
    [i \in DOMAIN queue |-> [queue[i] EXCEPT !.owner = change[@]]]

(***************************************************************************)
(* A completion handler: what it completes, the user it was handed or      *)
(* captured, and the controller it captured weakly.                        *)
(***************************************************************************)
HandlerKinds == {"create", "signIn", "back", "continue", "get", "missing",
                 "saved", "photo"}

Handlers == [k : HandlerKinds, uid : Uids, owner : Owners]

Handler(k, uid, owner) == [k |-> k, uid |-> uid, owner |-> owner]

Post(handler) == mainQ' = Append(mainQ, handler)

MainThreadType ==
    /\ path \in Seq(Screens) \ {<<>>}
    /\ mainQ \in Seq(Handlers)
================================================================================
