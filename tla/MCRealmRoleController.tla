------------------------- MODULE MCRealmRoleController -------------------------
(* Instances of RealmRoleController for TLC. *)
EXTENDS RealmRoleController, TLC

CONSTANTS admin

R(name, attrs) == [name |-> name, attrs |-> attrs, description |-> "d"]

\* One role that is renamed or given other attributes.
OneRole == admin :> {R("admin", "a"), R("boss", "b")}
=============================================================================
