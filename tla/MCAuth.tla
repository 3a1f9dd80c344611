-------------------------------- MODULE MCAuth --------------------------------
(* Instances of AuthSessions for TLC. *)
EXTENDS AuthSessions, TLC

\* Threads differ in nothing but their names, and so do session ids.
Symmetry == Permutations(Writer) \union Permutations(Session)
=============================================================================
