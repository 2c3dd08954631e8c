---------------------------- MODULE MCInstanceConfig ----------------------------
(* Instances of InstanceConfig for TLC. *)
EXTENDS InstanceConfig, TLC

AllButRecreate == Kinds \ {"recreate"}
Symmetric == Permutations(Dependents) \cup Permutations(Settings)
=============================================================================
