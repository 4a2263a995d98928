------------------------------- MODULE MCAccount -------------------------------
(* Account on small sets, for TLC. *)
EXTENDS Account, TLC

Symmetry == Permutations(Uids) \cup Permutations(Slots)
                \cup Permutations(Emails)

\* The cached flag of a FIRUser nothing refers to is garbage.
Referenced(u) ==
    \/ u = session
    \/ \E s \in Slots : calls[s].uid = u
    \/ \E i \in DOMAIN mainQ : mainQ[i].uid = u

View == <<path, mainQ, accounts, session, calls, deleting, storeVars,
          observed, [u \in Uids |-> Referenced(u) /\ cached[u]]>>

\* What is only promised while nothing went astray needs no state after.
NotAstray == ~astray
================================================================================
