---------------------------- MODULE ManagedResource ----------------------------
(***************************************************************************)
(* What a finalizer promises about one custom resource and the Keycloak    *)
(* objects made for it, whatever the controller does in between: nothing   *)
(* is made in Keycloak for a resource that could vanish unseen, and a      *)
(* resource vanishes only once the object it names is gone.                *)
(***************************************************************************)
CONSTANTS Ids, None

VARIABLES life,      \* of the custom resource: absent, bare, or guarded by the finalizer
          tracked,   \* the Keycloak id it stands for, mostly what its status names, or None
          live       \* the Keycloak objects made for it that exist

vars == <<life, tracked, live>>

Init == life = "absent" /\ tracked = None /\ live = {}

\* A resource may know the id from the start: a realm's is the name of the resource.
Declare == /\ life = "absent"
           /\ life' = "bare"
           /\ tracked' \in Ids \cup {None}
           /\ UNCHANGED live

Guard == life = "bare" /\ life' = "guarded" /\ UNCHANGED <<tracked, live>>

\* Deleted before it was ever guarded.
Discard == /\ life = "bare"
           /\ tracked \notin live
           /\ life' = "absent"
           /\ tracked' = None
           /\ UNCHANGED live

Provision(i) == /\ life = "guarded"
                /\ i \notin live
                /\ live' = live \cup {i}
                /\ UNCHANGED <<life, tracked>>

\* An unguarded resource may be given an id, too: one its namesake left behind.
Track(i) == life # "absent" /\ tracked' = i /\ UNCHANGED <<life, live>>

\* Objects go from Keycloak at any time: deleted by hand, or with the realm.
Lose(S) == live' = live \ S /\ UNCHANGED <<life, tracked>>

\* The finalizer is removed, the object the resource names being gone.
Release == /\ life = "guarded"
           /\ tracked \notin live
           /\ life' = "absent"
           /\ tracked' = None
           /\ UNCHANGED live

Next == \/ Declare \/ Guard \/ Discard \/ Release
        \/ \E i \in Ids : Provision(i) \/ Track(i)
        \/ \E S \in SUBSET Ids : Lose(S)

Spec == Init /\ [][Next]_vars
=============================================================================
