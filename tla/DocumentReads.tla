----------------------------- MODULE DocumentReads -----------------------------
(***************************************************************************)
(* What Firestore promises an app that calls getDocument: a read is        *)
(* answered once, and with anything but the server's word, or its refusal, *)
(* only if the client believed itself offline since the read was asked.    *)
(* UserStore's lookups build on this promise; FirestoreReads is shown to   *)
(* keep it.                                                                *)
(***************************************************************************)
EXTENDS Naturals, Sequences

CONSTANTS MaxGets, MaxVersion

VARIABLES
    asked,      \* how many reads the app has asked for: they are numbered
    offline,    \* whether the client believes itself offline
    doubted,    \* the reads in whose time it did
    answers     \* what the completion handler of each read was told

readVars == <<asked, offline, doubted, answers>>

Gets == 1..MaxGets

Answers == [kind : {"server", "cache", "missing", "denied"}, v : 0..MaxVersion]

Waiting == {g \in 1..asked : answers[g] = <<>>}

RInit ==
    /\ asked = 0
    /\ offline = FALSE
    /\ doubted = {}
    /\ answers = [g \in Gets |-> <<>>]

RAsk ==
    /\ asked < MaxGets
    /\ asked' = asked + 1
    /\ doubted' = IF offline THEN doubted \cup {asked'} ELSE doubted
    /\ UNCHANGED <<offline, answers>>

RAnswer ==
    \E g \in Waiting, a \in Answers :
        /\ a.kind \in {"cache", "missing"} => g \in doubted
        /\ answers' = [answers EXCEPT ![g] = <<a>>]
        /\ UNCHANGED <<asked, offline, doubted>>

RGoOffline ==
    /\ ~offline
    /\ offline' = TRUE
    /\ doubted' = doubted \cup Waiting
    /\ UNCHANGED <<asked, answers>>

RGoOnline ==
    /\ offline
    /\ offline' = FALSE
    /\ UNCHANGED <<asked, doubted, answers>>

RNext == RAsk \/ RAnswer \/ RGoOffline \/ RGoOnline

RSpec == RInit /\ [][RNext]_readVars

=============================================================================
