---------------------------- MODULE MCAdminLogin ----------------------------
(* A small instance of AdminLogin for TLC. *)
EXTENDS AdminLogin, TLC

\* Logins are interchangeable, and so are changes.
Symmetry == Permutations(Logins) \cup Permutations(Changes)
=============================================================================
