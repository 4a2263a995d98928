----------------------------- MODULE MCProfileEdit -----------------------------
(* ProfileEdit on small bounds, for TLC. *)
EXTENDS ProfileEdit

\* What is only promised to a patient user needs no state after.
Patient == ~hasty
================================================================================
