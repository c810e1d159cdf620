----------------------------- MODULE MCConsole -----------------------------
(* Instances of Console for TLC. *)
EXTENDS Console

\* Two passwords that nothing tells apart but equality.
PasswordSymmetry == Permutations(Passwords)
=============================================================================
