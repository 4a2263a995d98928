-------------------------- MODULE MCFirestoreReads --------------------------
(* Instances of FirestoreReads for TLC, up to the names of the documents;   *)
(* other devices write one of them, and after a denial that crossed another *)
(* request, of which the properties say little, nothing more is explored.   *)
EXTENDS FirestoreReads

Explored ==
    /\ ~crossed
    /\ docOf[1] = CHOOSE d \in Docs : TRUE
    /\ \E d \in Docs : \A e \in Docs \ {d} : server[e] = 0

=============================================================================
