---------------------------- MODULE MCClientManager ----------------------------
(* Instances of ClientManager for TLC. *)
EXTENDS ClientManager, TLC

CONSTANTS p1, p2, p3

\* Two configs, the first read at two generations; a key determines its settings.
MCObjects == {[name |-> "kc", version |-> 1, settings |-> "a"],
              [name |-> "kc", version |-> 2, settings |-> "b"],
              [name |-> "kc-prod", version |-> 1, settings |-> "a"]}
NoExtension == {}
\* "ns/kc-prod-<url>-1" begins with "ns/kc-".
PrefixExtension == {<<"kc", "kc-prod">>}

Symmetric == Permutations(Callers)
=============================================================================
