---------------------------- MODULE MCWorkspace ----------------------------
(* Two accounts, one in each of two domains, of which the declared one may  *)
(* be unverified and the other one an alias.                                *)
EXTENDS Workspace, TLC

CONSTANTS u1, u2, root, other

MCDomainOf == (u1 :> root) @@ (u2 :> other)
MCDomainLists == {
    (root :> "verified") @@ (other :> "absent"),
    (root :> "unverified") @@ (other :> "verified")}
MCAliasLists == {
    {},
    {[name |-> other, parent |-> root, state |-> "verified"]}}
MCUserPages == {
    [u \in Users |-> "active"],
    (u1 :> "active") @@ (u2 :> "inactive"),
    (u1 :> "active") @@ (u2 :> "absent")}
=============================================================================
