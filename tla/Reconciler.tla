------------------------------- MODULE Reconciler -------------------------------
(***************************************************************************)
(* What the reconcilers of internal/controller share: one worker per kind  *)
(* of resource, which copies an object out of an informer cache that may   *)
(* lag, works through Reconcile one API call per step, and writes to an    *)
(* API server that refuses a write made from an old copy.  The steps are   *)
(* those of group_controller.go; the other controllers repeat them.        *)
(*                                                                         *)
(* Resource versions are abstracted to whether a copy is current: "stale"  *)
(* holds the resources whose cached copy is not, "fresh" says that the     *)
(* worker's is.  An API server call that fails for another reason than a   *)
(* conflict ends a reconcile as a Crash does.                              *)
(***************************************************************************)
EXTENDS Naturals

CONSTANTS
    MaxRetries,   \* groupMaxStatusRetries
    MaxEvents,    \* bound on edits, deletions, faults, crashes and outages together
    Disturbances, \* the kinds of event this instance admits
    None, Absent

ASSUME BoundsAssumption == MaxRetries \in Nat \ {0} /\ MaxEvents \in Nat

VARIABLES
    obj,       \* the API server's objects: spec, deleting, finalizer, owned, status
    cache,     \* the informer cache
    stale,     \* the resources whose cached copy is older than the object
    config,    \* the KeycloakInstanceConfig: "ready", "notReady" or "absent"
    at,        \* where the worker is
    me,        \* the resource it reconciles
    mine,      \* its in-memory copy
    fresh,     \* whether that copy's resource version is the object's
    outcome,   \* the result to be written to the status
    tries,     \* attempts made at writing it
    events     \* disturbances so far

cluster == <<obj, cache, stale>>
worker  == <<at, me, mine, fresh, outcome, tries>>

\* No object yet, and an idle worker.
Empty(resources) ==
    /\ obj = [g \in resources |-> Absent]
    /\ cache = obj
    /\ stale = {}
    /\ config = "notReady"
    /\ at = "idle" /\ me = None /\ mine = Absent /\ fresh = FALSE
    /\ outcome = None /\ tries = 0
    /\ events = 0
-----------------------------------------------------------------------------
Event(kind) == kind \in Disturbances /\ events < MaxEvents /\ events' = events + 1

\* The end of a reconcile.
Done == /\ at' = "idle" /\ me' = None /\ mine' = Absent /\ fresh' = FALSE
        /\ outcome' = None /\ tries' = 0

Goto(label) == at' = label /\ UNCHANGED <<me, fresh, outcome, tries>>

\* The beginning of updateStatus.
Report(o) == at' = "status" /\ outcome' = o /\ tries' = 1 /\ UNCHANGED <<me, fresh>>

\* Reconcile begins with a read of the cache.
Start(g) == /\ at = "idle"
            /\ cache[g] # Absent
            /\ at' = "client" /\ me' = g /\ mine' = cache[g] /\ fresh' = (g \notin stale)
            /\ UNCHANGED <<cluster, config, outcome, tries, events>>

\* getKeycloakClient, its config ready and a client logged in.
ClientReady == /\ at = "client"
               /\ config = "ready"
               /\ Goto(IF mine.deleting THEN "delete" ELSE "finalizer")
               /\ UNCHANGED <<mine, cluster, config, events>>

\* "is not ready": the resource waits, and is told so only when it is being deleted.
ClientNotReady(pending) ==
    /\ at = "client"
    /\ config = "notReady"
    /\ \/ ~mine.deleting /\ Done
       \/ mine.deleting /\ Report(pending) /\ UNCHANGED mine
    /\ UNCHANGED <<cluster, config, events>>

\* The config is missing, or the login fails.
ClientFails(o) ==
    /\ at = "client"
    /\ \/ config = "absent" /\ UNCHANGED events
       \/ config = "ready" /\ Event("fault")
    /\ \/ mine.deleting /\ Done
       \/ ~mine.deleting /\ Report(o) /\ UNCHANGED mine
    /\ UNCHANGED <<cluster, config>>

\* r.Update of the worker's copy.
Written(o) == /\ fresh
              /\ obj' = [obj EXCEPT ![me] = o]
              /\ mine' = o
              /\ stale' = stale \cup {me}
              /\ UNCHANGED cache

\* A mutant: the finalizer is added to the copy only.
EnsureFinalizerInMemory(next) ==
    /\ at = "finalizer"
    /\ mine' = [mine EXCEPT !.finalizer = TRUE]
    /\ Goto(next)
    /\ UNCHANGED <<cluster, config, events>>

EnsureFinalizer(next) ==
    /\ at = "finalizer"
    /\ \/ mine.finalizer /\ Goto(next) /\ UNCHANGED <<mine, cluster>>
       \/ ~mine.finalizer /\ Written([mine EXCEPT !.finalizer = TRUE]) /\ Goto(next)
       \/ ~mine.finalizer /\ ~fresh /\ Done /\ UNCHANGED cluster
    /\ UNCHANGED <<config, events>>
-----------------------------------------------------------------------------
(* One attempt at the status: read the cache, write what was read with the  *)
(* new status.                                                              *)

\* The resource is gone from the cache.
StatusGone == /\ at = "status"
              /\ cache[me] = Absent
              /\ Done
              /\ UNCHANGED <<cluster, config, events>>

StatusAccepted(o) == /\ at = "status"
                     /\ cache[me] # Absent
                     /\ me \notin stale
                     /\ obj' = [obj EXCEPT ![me] = o]
                     /\ stale' = stale \cup {me}
                     /\ Done
                     /\ UNCHANGED <<cache, config, events>>

\* A conflict: another attempt, at most MaxRetries in all.
StatusRefused == /\ at = "status"
                 /\ cache[me] # Absent
                 /\ me \in stale
                 /\ \/ tries = MaxRetries /\ Done
                    \/ /\ tries < MaxRetries
                       /\ tries' = tries + 1
                       /\ UNCHANGED <<at, me, mine, fresh, outcome>>
                 /\ UNCHANGED <<cluster, config, events>>

\* Removing the last finalizer of an object marked for deletion removes the object.
RemoveFinalizer ==
    /\ at = "unfinalize"
    /\ \/ /\ mine.finalizer /\ fresh
          /\ obj' = [obj EXCEPT ![me] = Absent]
          /\ stale' = stale \cup {me}
          /\ UNCHANGED cache
       \/ ~(mine.finalizer /\ fresh) /\ UNCHANGED cluster
    /\ Done
    /\ UNCHANGED <<config, events>>

\* The operator restarts.
Crash == at # "idle" /\ Event("crash") /\ Done /\ UNCHANGED <<cluster, config>>
-----------------------------------------------------------------------------
(* The API server and its other clients.                                    *)

\* Another client writes g: every copy of it is now old.
Touched(g, o) == /\ obj' = [obj EXCEPT ![g] = o]
                 /\ stale' = stale \cup {g}
                 /\ fresh' = (fresh /\ me # g)
                 /\ UNCHANGED <<cache, config, at, me, mine, outcome, tries>>

Create(g, o) == obj[g] = Absent /\ Touched(g, o) /\ UNCHANGED events

Edit(g, s) == /\ obj[g] # Absent /\ obj[g].spec # s
              /\ Event("edit")
              /\ Touched(g, [obj[g] EXCEPT !.spec = s])

\* A deletion only marks an object that has the finalizer.
Delete(g) == /\ obj[g] # Absent
             /\ ~obj[g].deleting
             /\ Event("edit")
             /\ Touched(g, IF obj[g].finalizer THEN [obj[g] EXCEPT !.deleting = TRUE] ELSE Absent)

\* The informer catches up.
Sync(g) == /\ g \in stale
           /\ cache' = [cache EXCEPT ![g] = obj[g]]
           /\ stale' = stale \ {g}
           /\ UNCHANGED <<obj, config, worker, events>>

\* The KeycloakInstanceConfig is created, becomes ready, loses readiness or is deleted.
ConfigChanges == /\ \/ config = "absent" /\ config' = "notReady" /\ UNCHANGED events
                    \/ config = "notReady" /\ config' = "ready" /\ UNCHANGED events
                    \/ config = "ready" /\ config' = "notReady" /\ Event("outage")
                    \/ config = "notReady" /\ config' = "absent" /\ Event("outage")
                 /\ UNCHANGED <<cluster, worker>>
-----------------------------------------------------------------------------
(* What holds of any such reconciler.                                       *)

Guarded(g) == obj[g] # Absent /\ obj[g].finalizer

\* A cached copy that is not stale is the object, a fresh working copy still has the
\* object's metadata, and until the worker writes a status, in the places "untouched" and
\* at both ends, it is the object.
CopiesAgree(resources, untouched) ==
    /\ \A g \in resources : g \notin stale => cache[g] = obj[g]
    /\ fresh => /\ obj[me] # Absent
                /\ obj[me].deleting = mine.deleting
                /\ obj[me].finalizer = mine.finalizer
                /\ obj[me].spec = mine.spec
    /\ fresh /\ at \in untouched => obj[me] = mine
    /\ fresh /\ at \in {"client", "delete", "unfinalize"} => obj[me] = mine /\ cache[me] = mine

\* A copy that shows the finalizer and no deletion is never a copy of the past in
\* that respect: the object still is guarded.  The finalizer thus protects what the
\* worker creates, however old its copy is.
GuardIsLasting(resources) ==
    /\ \A g \in resources :
         cache[g] # Absent /\ cache[g].finalizer /\ ~cache[g].deleting => Guarded(g)
    /\ at # "idle" /\ mine.finalizer /\ ~mine.deleting => Guarded(me)

\* A deleting object has the finalizer: without it, it would be gone.
DeletingIsGuarded(resources) ==
    /\ \A g \in resources : obj[g] # Absent /\ obj[g].deleting => obj[g].finalizer
    /\ \A g \in resources : cache[g] # Absent /\ cache[g].deleting => cache[g].finalizer
    /\ at # "idle" /\ mine.deleting => mine.finalizer

\* A resource that a copy shows as marked for deletion is marked still, or gone, or a
\* namesake that has no finalizer yet.
DeletionIsLasting(resources) ==
    /\ \A g \in resources :
         cache[g] # Absent /\ cache[g].deleting /\ Guarded(g) => obj[g].deleting
    /\ at # "idle" /\ mine.deleting /\ Guarded(me) => obj[me].deleting
    /\ at = "finalizer" /\ fresh => cache[me] = mine
=============================================================================
