---------------------------- MODULE MCRealmController ----------------------------
(* Instances of RealmController for TLC. *)
EXTENDS RealmController, TLC

CONSTANTS r1, r2

\* Two resources with names of their own.
Distinct == r1 :> "one" @@ r2 :> "two"

AllButHandDelete == Kinds \ {"handDelete"}
=============================================================================
