--------------------------- MODULE MCAuthManager ----------------------------
(***************************************************************************)
(* An instance of AuthManager for TLC: two addresses, three request ids    *)
(* and three tokens that do not all fit, one password for three roles.     *)
(***************************************************************************)
EXTENDS AuthManager, TLC

CONSTANTS t1, t2, t3, r1, r2, r3, a1, a2, p1

Symmetry == Permutations(Token) \cup Permutations(Request) \cup Permutations(Addr)

=============================================================================
