-------------------------- MODULE MCClientController --------------------------
(* Instances of ClientController for TLC. *)
EXTENDS ClientController, TLC

CONSTANTS app, role, key

C(id, settings, public, secret, roles) ==
    [clientId |-> id, settings |-> settings, public |-> public, secret |-> secret, roles |-> roles]

\* A confidential client whose settings and role change, and which may be made public.
WithRole(description) == role :> description
OneClient == app :> {C("app", "a", FALSE, key, WithRole("d")), C("app", "b", FALSE, key, WithRole("e")),
                     C("app", "a", TRUE, key, NoRoles)}

Symmetric == Permutations(Secrets)
=============================================================================
