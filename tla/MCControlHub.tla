---------------------------- MODULE MCControlHub ----------------------------
(***************************************************************************)
(* Instances of ControlHub for TLC: two clients, an administrator's and a  *)
(* standard client's token, one key; or one client, also with a viewer's   *)
(* token, and two keys and a button.                                       *)
(***************************************************************************)
EXTENDS ControlHub, TLC

CONSTANTS c1, c2, k1, k2, b1, tView, tStandard, tAdmin

MCRoleOf == [t \in Token |-> CASE t = tView     -> RoleView
                               [] t = tStandard -> RoleStandard
                               [] t = tAdmin    -> RoleAdmin]

\* One chord of all the keys of the instance
MCChords == {Keys}

\* Clients are interchangeable; tokens are not, they have roles.
Symmetry == Permutations(Client)

=============================================================================
