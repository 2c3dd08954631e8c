--------------------------- MODULE MCGroupController ---------------------------
(* Instances of GroupController for TLC. *)
EXTENDS GroupController, TLC

CONSTANTS top, sub

S(name, parent, attrs) == [name |-> name, parent |-> parent, attrs |-> attrs]

\* One group whose attributes may be edited.
OneGroup == top :> {S("team", None, "a"), S("team", None, "b")}

\* A group and its subgroup.
Family == top :> {S("team", None, "a")} @@ sub :> {S("squad", top, "a")}

\* The same, but the parent may be put below its own subgroup.
Circle == top :> {S("team", None, "a"), S("team", sub, "a")} @@ sub :> {S("squad", top, "a")}
=============================================================================
