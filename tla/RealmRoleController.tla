-------------------------- MODULE RealmRoleController --------------------------
(***************************************************************************)
(* internal/controller/realmrole_controller.go: the one worker that        *)
(* reconciles RealmRole resources, among a Realm resource and a Keycloak   *)
(* realm that others change too.  What the worker shares with the other    *)
(* controllers is in Reconciler.                                           *)
(***************************************************************************)
EXTENDS Reconciler

CONSTANTS
    RealmRoles,   \* RealmRole resources: namespace and name
    Specs,        \* Specs[g]: the specs a user may give g: name, attrs, description
    Ids,          \* Keycloak UUIDs, never reused, in the order they are given out
    Foreign       \* the roles whose realm is in another namespace: no owner reference

Kinds == {"edit", "outage", "realmDeleted", "handDelete", "handMade", "handEdit",
          "fault", "lostAnswer", "crash"}

ASSUME KindsAssumption == Disturbances \subseteq Kinds
ASSUME IdsAssumption == Ids \subseteq Nat
ASSUME NilAssumption == None \notin Ids \cup RealmRoles /\ Absent \notin Ids \cup RealmRoles

VARIABLES
    realm,     \* the Realm resource: "ready", "notReady" or "absent"
    kcRealm,   \* whether the realm exists in Keycloak
    kc,        \* the roles of the realm in Keycloak
    spent      \* the UUIDs Keycloak has given out

keycloak == <<kcRealm, kc, spent>>
peers    == <<config, realm>>
beyond   == <<keycloak, realm>>
vars     == <<cluster, keycloak, peers, worker, events>>
-----------------------------------------------------------------------------
Outcome(ready, realmReady, message) ==
    [ready |-> ready, realmReady |-> realmReady, message |-> message]

NewObject(s) ==
    [spec |-> s, deleting |-> FALSE, finalizer |-> FALSE, owned |-> FALSE,
     status |-> [ready |-> FALSE, realmReady |-> FALSE, message |-> "", uuid |-> None]]

Init == /\ Empty(RealmRoles)
        /\ realm = "absent"
        /\ kcRealm = FALSE
        /\ kc = [i \in Ids |-> Absent]
        /\ spent = {}

Exists(i) == i \in Ids /\ kc[i] # Absent

\* The UUID of the next object made: that they come in order is without loss, as nothing
\* compares them.
Unused(i) == i \in Ids \ spent /\ \A j \in Ids \ spent : i <= j

\* Keycloak refuses two roles of one name in a realm.
NameTaken(name) == \E i \in Ids : Exists(i) /\ kc[i].name = name
-----------------------------------------------------------------------------
(* Reconcile up to reconcileRealmRole or reconcileDelete.                   *)

Fail(message) == Report(Outcome(FALSE, TRUE, message))
Succeed(changed) == Report(Outcome(TRUE, TRUE, IF changed THEN "changed" ELSE "synced"))

Pending == Outcome(FALSE, FALSE, "deletion pending")
NoClient == Outcome(FALSE, FALSE, "no client")

ToRealmRole == \/ ClientReady \/ ClientNotReady(Pending) \/ ClientFails(NoClient)
               \/ EnsureFinalizer("realm")

ValidateRealm ==
    /\ at = "realm"
    /\ \/ realm = "ready" /\ Goto("owner")
       \/ realm = "absent" /\ Report(Outcome(FALSE, FALSE, "realm not found"))
       \/ realm = "notReady" /\ Report(Outcome(FALSE, FALSE, "realm not ready"))
    /\ UNCHANGED <<mine, cluster, keycloak, peers, events>>

SetOwnerReference ==
    /\ at = "owner"
    /\ \/ /\ mine.owned \/ me \in Foreign
          /\ Goto("fetch") /\ UNCHANGED <<mine, cluster>>
       \/ /\ ~mine.owned /\ me \notin Foreign
          /\ Written([mine EXCEPT !.owned = TRUE]) /\ Goto("fetch")
       \/ /\ ~mine.owned /\ me \notin Foreign /\ ~fresh
          /\ Fail("owner") /\ UNCHANGED <<mine, cluster>>
    /\ UNCHANGED <<keycloak, peers, events>>
-----------------------------------------------------------------------------
(* getOrCreateRealmRole and updateRealmRoleIfNeeded.                        *)

\* A mutant: the attributes are not compared.
DiffersInName(role) == role.name # mine.spec.name

\* getRealmRoleDiffs: the description is sent with an update but not compared.
Differs(role) == role.name # mine.spec.name \/ role.attrs # mine.spec.attrs

ClearRealmRoleState == mine' = [mine EXCEPT !.status.uuid = None]

FetchRealmRole ==
    /\ at = "fetch"
    /\ LET u == mine.status.uuid IN
         \/ u = None /\ Goto("create") /\ UNCHANGED mine
         \/ u # None /\ ~Exists(u) /\ ClearRealmRoleState /\ Goto("create")
         \/ /\ Exists(u) /\ UNCHANGED mine
            /\ \/ Differs(kc[u]) /\ Goto("update")
               \/ ~Differs(kc[u]) /\ Succeed(FALSE)
    /\ UNCHANGED <<cluster, keycloak, peers, events>>

FetchFails == /\ at = "fetch"
              /\ mine.status.uuid # None
              /\ Event("fault")
              /\ Fail("role not read")
              /\ UNCHANGED <<mine, cluster, keycloak, peers>>

Renamed(u) == kc[u].name # mine.spec.name

\* applyChangesToRealmRole.
Updated(u) == [kc EXCEPT ![u].name = mine.spec.name, ![u].attrs = mine.spec.attrs,
                         ![u].description = mine.spec.description]

\* A mutant: a role that is renamed is deleted and made anew.
UpdateByCreation ==
    /\ at = "update"
    /\ LET u == mine.status.uuid IN
         \/ Exists(u) /\ kc' = [kc EXCEPT ![u] = Absent] /\ Goto("create")
         \/ ~Exists(u) /\ Fail("update failed") /\ UNCHANGED kc
    /\ UNCHANGED <<mine, cluster, kcRealm, spent, peers, events>>

UpdateRealmRole ==
    /\ at = "update"
    /\ LET u == mine.status.uuid IN
         \/ /\ Exists(u)
            /\ Renamed(u) => ~NameTaken(mine.spec.name)
            /\ kc' = Updated(u)
            /\ \/ Succeed(TRUE) /\ UNCHANGED events
               \/ Event("lostAnswer") /\ Fail("update failed")
         \/ /\ Exists(u) => Renamed(u) /\ NameTaken(mine.spec.name)
            /\ Fail("update failed")
            /\ UNCHANGED <<kc, events>>
         \/ Event("fault") /\ Fail("update failed") /\ UNCHANGED kc
    /\ UNCHANGED <<mine, cluster, kcRealm, spent, peers>>

\* buildRealmRoleFromSpec: a role is created without its description.  "cr" is the
\* resource the role was made for, as bookkeeping.
NewRole == [name |-> mine.spec.name, attrs |-> mine.spec.attrs, description |-> None, cr |-> me]

CreateRealmRole(i) ==
    /\ at = "create"
    /\ kcRealm
    /\ ~NameTaken(mine.spec.name)
    /\ Unused(i)
    /\ kc' = [kc EXCEPT ![i] = NewRole]
    /\ spent' = spent \cup {i}
    /\ \/ Goto("store") /\ UNCHANGED events
       \/ Event("lostAnswer") /\ Fail("role not created")
    /\ UNCHANGED <<mine, cluster, kcRealm, peers>>

\* A mutant: a role that is in the way is adopted.
CreateAdopts ==
    /\ at = "create"
    /\ kcRealm /\ NameTaken(mine.spec.name)
    /\ Goto("store")
    /\ UNCHANGED <<mine, cluster, keycloak, peers, events>>

CreateFails ==
    /\ at = "create"
    /\ \/ /\ kcRealm /\ NameTaken(mine.spec.name)
          /\ Fail("manual intervention required")
          /\ UNCHANGED events
       \/ ~kcRealm /\ Fail("role not created") /\ UNCHANGED events
       \/ Event("fault") /\ Fail("role not created")
    /\ UNCHANGED <<mine, cluster, keycloak, peers>>

\* storeRealmRoleUUID looks for the new role's name in the list of all roles.
StoreRealmRoleUUID ==
    /\ at = "store"
    /\ \/ \E i \in Ids : /\ Exists(i) /\ kc[i].name = mine.spec.name
                         /\ mine' = [mine EXCEPT !.status.uuid = i]
                         /\ Succeed(TRUE)
                         /\ UNCHANGED events
       \/ ~kcRealm /\ Fail("roles not retrieved") /\ UNCHANGED <<mine, events>>
       \/ Event("fault") /\ Fail("roles not retrieved") /\ UNCHANGED mine
    /\ UNCHANGED <<cluster, keycloak, peers>>

\* The name is not in the list: a nil pointer is followed, and the panic, which the
\* manager recovers from, ends the reconcile without a status.
StorePanics == /\ at = "store"
               /\ kcRealm /\ ~NameTaken(mine.spec.name)
               /\ Done
               /\ UNCHANGED <<cluster, keycloak, peers, events>>
-----------------------------------------------------------------------------
(* updateStatus: read the cache, skip or write, at most MaxRetries times.   *)

StatusUnchanged(latest) == /\ latest.status.ready = outcome.ready
                           /\ latest.status.realmReady = outcome.realmReady
                           /\ latest.status.message = outcome.message

\* applyStatusUpdate: a UUID is taken over only when there is one.
StatusApplied(latest) ==
    [latest EXCEPT !.status = [ready |-> outcome.ready,
                               realmReady |-> outcome.realmReady,
                               message |-> outcome.message,
                               uuid |-> IF mine.status.uuid # None THEN mine.status.uuid
                                        ELSE latest.status.uuid]]

StatusSkipped == /\ at = "status"
                 /\ cache[me] # Absent
                 /\ StatusUnchanged(cache[me])
                 /\ Done
                 /\ UNCHANGED <<cluster, keycloak, peers, events>>

StatusWritten == /\ StatusAccepted(StatusApplied(cache[me]))
                 /\ ~StatusUnchanged(cache[me])
                 /\ UNCHANGED beyond

StatusConflict == /\ StatusRefused
                  /\ ~StatusUnchanged(cache[me])
                  /\ UNCHANGED beyond
-----------------------------------------------------------------------------
(* reconcileDelete.                                                         *)

\* A mutant: a 404 is an error.
DeleteRealmRoleThere ==
    /\ at = "delete"
    /\ LET u == mine.status.uuid IN
         \/ u = None /\ Goto("unfinalize") /\ UNCHANGED <<mine, kc>>
         \/ Exists(u) /\ kc' = [kc EXCEPT ![u] = Absent] /\ Goto("unfinalize") /\ UNCHANGED mine
         \/ u # None /\ ~Exists(u) /\ Done /\ UNCHANGED kc
    /\ UNCHANGED <<cluster, kcRealm, spent, peers, events>>

DeleteRealmRole ==
    /\ at = "delete"
    /\ LET u == mine.status.uuid IN
         \/ /\ u = None \/ realm = "absent" \/ ~Exists(u)
            /\ Goto("unfinalize") /\ UNCHANGED <<mine, kc, events>>
         \/ /\ Exists(u) /\ realm # "absent"
            /\ kc' = [kc EXCEPT ![u] = Absent]
            /\ \/ Goto("unfinalize") /\ UNCHANGED <<mine, events>>
               \/ Event("lostAnswer") /\ Done
    /\ UNCHANGED <<cluster, kcRealm, spent, peers>>

\* A mutant: an error of the deletion is logged only.
DeleteFailsQuietly ==
    /\ at = "delete"
    /\ mine.status.uuid # None
    /\ realm # "absent"
    /\ Event("fault")
    /\ Goto("unfinalize")
    /\ UNCHANGED <<mine, cluster, keycloak, peers>>

DeleteFails == /\ at = "delete"
               /\ mine.status.uuid # None
               /\ realm # "absent"
               /\ Event("fault")
               /\ Done
               /\ UNCHANGED <<cluster, keycloak, peers>>
-----------------------------------------------------------------------------
(* Everyone else.                                                           *)

\* The user, and the garbage collector once the owning Realm is gone.
User(g) == \/ \E s \in Specs[g] : Create(g, NewObject(s)) \/ Edit(g, s)
           \/ Delete(g)

\* The Realm resource: made with the Keycloak realm, gone after it.
RealmChanges == /\ \/ realm = "absent" /\ realm' = "notReady" /\ UNCHANGED <<keycloak, events>>
                   \/ /\ realm # "absent" /\ ~(realm = "ready" /\ kcRealm)
                      /\ realm' = "ready" /\ kcRealm' = TRUE
                      /\ UNCHANGED <<kc, spent, events>>
                   \/ realm = "ready" /\ realm' = "notReady" /\ Event("outage") /\ UNCHANGED keycloak
                   \/ realm # "absent" /\ "realmDeleted" \in Disturbances /\ ~kcRealm /\ realm' = "absent"
                        /\ UNCHANGED <<keycloak, events>>
                   \/ /\ kcRealm /\ Event("realmDeleted")
                      /\ kcRealm' = FALSE
                      /\ kc' = [i \in Ids |-> Absent]
                      /\ UNCHANGED <<realm, spent>>
                /\ UNCHANGED <<config, cluster, worker>>

\* An administrator works in the Keycloak console.
ConsoleDeletes(i) == /\ Exists(i)
                     /\ Event("handDelete")
                     /\ kc' = [kc EXCEPT ![i] = Absent]
                     /\ UNCHANGED <<cluster, kcRealm, spent, peers, worker>>

\* A role made under the worker's eyes, while it looks for the new role of that name, is
\* no different from the one it made.
MadeFor(name) == IF at = "store" /\ name = mine.spec.name THEN me ELSE None

ConsoleCreates(i) ==
    /\ kcRealm /\ Unused(i)
    /\ Event("handMade")
    /\ \E g \in RealmRoles : \E s \in Specs[g] :
         /\ ~NameTaken(s.name)
         /\ kc' = [kc EXCEPT ![i] = [name |-> s.name, attrs |-> s.attrs,
                                     description |-> s.description, cr |-> MadeFor(s.name)]]
    /\ spent' = spent \cup {i}
    /\ UNCHANGED <<cluster, kcRealm, peers, worker>>

ConsoleEdits(i) == /\ Exists(i)
                   /\ Event("handEdit")
                   /\ \E g \in RealmRoles : \E s \in Specs[g] :
                        kc' = [kc EXCEPT ![i].attrs = s.attrs, ![i].description = s.description]
                   /\ UNCHANGED <<cluster, kcRealm, spent, peers, worker>>
-----------------------------------------------------------------------------
Work == \/ (ToRealmRole \/ StatusGone \/ RemoveFinalizer) /\ UNCHANGED beyond
        \/ ValidateRealm \/ SetOwnerReference
        \/ FetchRealmRole \/ FetchFails \/ UpdateRealmRole
        \/ \E i \in Ids : CreateRealmRole(i)
        \/ CreateFails \/ StoreRealmRoleUUID \/ StorePanics
        \/ StatusSkipped \/ StatusWritten \/ StatusConflict
        \/ DeleteRealmRole \/ DeleteFails

Others == \/ RealmChanges
          \/ \E i \in Ids : ConsoleDeletes(i) \/ ConsoleCreates(i) \/ ConsoleEdits(i)

Next == \/ Work
        \/ \E g \in RealmRoles : (Start(g) \/ User(g) \/ Sync(g)) /\ UNCHANGED beyond
        \/ (ConfigChanges \/ Crash) /\ UNCHANGED beyond
        \/ Others

Spec == Init /\ [][Next]_vars

(***************************************************************************)
(* As in GroupController: the worker goes on, every role is requeued after *)
(* each outcome (realmrole_controller.go:488-493) or retried with backoff, *)
(* a panic included, and the informer catches up.                          *)
(***************************************************************************)
FairSpec == /\ Spec
            /\ WF_vars(Work)
            /\ \A g \in RealmRoles : /\ SF_vars(Start(g) /\ UNCHANGED beyond)
                                     /\ WF_vars(Sync(g) /\ UNCHANGED beyond)
-----------------------------------------------------------------------------
Labels == {"idle", "client", "finalizer", "realm", "owner", "fetch", "update", "create", "store",
           "status", "delete", "unfinalize"}
Maybe(S) == S \cup {None}
SpecSet == UNION {Specs[g] : g \in RealmRoles}
Messages == {"", "changed", "synced", "no client", "realm not found", "realm not ready", "owner",
             "role not read", "update failed", "role not created",
             "manual intervention required", "roles not retrieved", "deletion pending"}
Outcomes == [ready : BOOLEAN, realmReady : BOOLEAN, message : Messages]
OutcomeOK == outcome \in Outcomes \cup {None} /\ (at = "status" => outcome \in Outcomes)
Status == [ready : BOOLEAN, realmReady : BOOLEAN, message : Messages, uuid : Maybe(Ids)]
Object == [spec : SpecSet, deleting : BOOLEAN, finalizer : BOOLEAN, owned : BOOLEAN,
           status : Status]
KcRoles == [name : {s.name : s \in SpecSet}, attrs : {s.attrs : s \in SpecSet},
            description : Maybe({s.description : s \in SpecSet}), cr : Maybe(RealmRoles)]

ASSUME AbsentAssumption == Absent \notin Object /\ Absent \notin KcRoles

\* The type of every variable.
TypeOK == /\ obj \in [RealmRoles -> Object \cup {Absent}]
          /\ cache \in [RealmRoles -> Object \cup {Absent}]
          /\ stale \subseteq RealmRoles
          /\ config \in {"ready", "notReady", "absent"}
          /\ realm \in {"ready", "notReady", "absent"}
          /\ kcRealm \in BOOLEAN
          /\ kc \in [Ids -> KcRoles \cup {Absent}]
          /\ spent \subseteq Ids
          /\ at \in Labels
          /\ fresh \in BOOLEAN
          /\ tries \in 0..MaxRetries
          /\ events \in 0..MaxEvents
          /\ OutcomeOK
          /\ at = "idle" => me = None /\ mine = Absent /\ ~fresh
          /\ at # "idle" => me \in RealmRoles /\ mine \in Object

\* One resource and its roles, as the abstract life of a managed resource.
Life(g) == IF obj[g] = Absent THEN "absent" ELSE IF obj[g].finalizer THEN "guarded" ELSE "bare"
Tracked(g) == IF obj[g] = Absent THEN None ELSE obj[g].status.uuid
LiveOf(g) == {i \in Ids : Exists(i) /\ kc[i].cr = g}

Managed(g) == INSTANCE ManagedResource WITH life <- Life(g), tracked <- Tracked(g), live <- LiveOf(g)

\* Each RealmRole resource lives as ManagedResource says, against stale reads, refused
\* writes, crashes, panics, lost answers and the work of others in Keycloak: no role is
\* made for a resource without the finalizer, and the resource goes only after the role
\* its status names (realmrole_controller.go:104-110, 542-564).
ManagedSpec ==
    /\ \A g \in RealmRoles : Managed(g)!Init
    /\ [][\A g \in RealmRoles : Managed(g)!Next \/ UNCHANGED Managed(g)!vars]_vars

(***************************************************************************)
(* The parts of an inductive invariant.                                    *)
(***************************************************************************)
\* i is the id of an existing role made for g, or of none but such a role.
Live(i, g) == Exists(i) /\ kc[i].cr = g
NotAnothers(i, g) == Exists(i) => kc[i].cr = g

\* Before the worker's copy gets another status than the object.
Early == {"finalizer", "realm", "owner"}

\* What each place in Reconcile knows of the copy it works on.
PathsAreApart ==
    /\ at \in {"realm", "owner", "fetch", "update", "create", "store"}
          => mine.finalizer /\ ~mine.deleting
    /\ at = "finalizer" => ~mine.deleting
    /\ at \in {"delete", "unfinalize"} => mine.deleting

\* Every UUID in use has been given out, and Keycloak has no roles without a realm.
IdsAreSpent ==
    /\ \A i \in Ids : Exists(i) => i \in spent
    /\ \A g \in RealmRoles : obj[g] # Absent => obj[g].status.uuid \in spent \cup {None}
    /\ \A g \in RealmRoles : cache[g] # Absent => cache[g].status.uuid \in spent \cup {None}
    /\ at # "idle" => mine.status.uuid \in spent \cup {None}
    /\ ~kcRealm => \A i \in Ids : ~Exists(i)
    /\ realm = "absent" => ~kcRealm

\* A copy of an object that is no longer, or not yet, guarded names no role of its own
\* that exists: neither the copy of a released object nor that of its namesake.
UnguardedIsUntracked ==
    /\ \A g \in RealmRoles : obj[g] # Absent /\ ~Guarded(g) => ~Live(obj[g].status.uuid, g)
    /\ \A g \in RealmRoles :
         cache[g] # Absent /\ (~cache[g].finalizer \/ (cache[g].deleting /\ ~Guarded(g)))
            => ~Live(cache[g].status.uuid, g)
    /\ at # "idle" /\ (~mine.finalizer \/ (mine.deleting /\ ~Guarded(me)))
            => ~Live(mine.status.uuid, me)
    /\ at = "unfinalize" /\ fresh => ~Live(mine.status.uuid, me)

\* Keycloak holds no two roles of one name.
NamesAreUnique ==
    \A i, j \in Ids : Exists(i) /\ Exists(j) /\ kc[i].name = kc[j].name => i = j

\* While the UUID of a new role is looked up by its name, no other role has that name.
LookupFindsOwn ==
    at = "store" => \A i \in Ids : Exists(i) /\ kc[i].name = mine.spec.name => NotAnothers(i, me)

\* No copy of a resource names a role made for another one, or by hand.
TracksNoOthers ==
    /\ \A g \in RealmRoles : obj[g] # Absent => NotAnothers(obj[g].status.uuid, g)
    /\ \A g \in RealmRoles : cache[g] # Absent => NotAnothers(cache[g].status.uuid, g)
    /\ at # "idle" => NotAnothers(mine.status.uuid, me)

IInv == /\ TypeOK
        /\ CopiesAgree(RealmRoles, Early)
        /\ GuardIsLasting(RealmRoles)
        /\ DeletingIsGuarded(RealmRoles)
        /\ PathsAreApart
        /\ IdsAreSpent
        /\ UnguardedIsUntracked
        /\ NamesAreUnique
        /\ LookupFindsOwn
        /\ TracksNoOthers

\* Whatever its copy says and whoever else has a role of that name, before or after a
\* renaming: the worker changes and deletes no role but the one made for its resource;
\* the lookup in the list of all roles (realmrole_controller.go:374) takes no other.
MindsItsOwn ==
    [][kc' # kc /\ worker' # worker
         => \A i \in Ids : kc'[i] # kc[i] => NotAnothers(i, me)]_vars

\* The worker deletes a role only while the very resource it was made for, not one of the
\* past that the cache still shows, exists, has the finalizer and is marked for deletion.
DeletesOnlyCondemned ==
    [][\A i \in Ids : worker' # worker /\ kc[i] # Absent /\ kc'[i] = Absent =>
         \E g \in RealmRoles : kc[i].cr = g /\ Guarded(g) /\ obj[g].deleting]_vars

\* A resource that says Ready and is not being deleted names a role that exists.  It holds
\* when nobody but the operator takes roles away.
ReadyRoleExists ==
    \A g \in RealmRoles :
        obj[g] # Absent /\ ~obj[g].deleting /\ obj[g].status.ready => Exists(obj[g].status.uuid)

\* What makes it so: only a resource with the finalizer is ever Ready, and the outcome
\* that says so is that of a copy with the finalizer which names an existing role.
ReadyIsBacked ==
    /\ \A g \in RealmRoles : obj[g] # Absent /\ obj[g].status.ready => obj[g].finalizer
    /\ at = "status" /\ outcome.ready =>
         mine.finalizer /\ ~mine.deleting /\ Exists(mine.status.uuid)
    /\ ReadyRoleExists

Up == config = "ready" /\ realm = "ready" /\ kcRealm
Wanted(g) == obj[g] # Absent /\ ~obj[g].deleting
InSync(g) == LET u == obj[g].status.uuid IN
                 Exists(u) /\ kc[u].name = obj[g].spec.name /\ kc[u].attrs = obj[g].spec.attrs
AsksForHelp(g) == obj[g].status.message = "manual intervention required"

\* Another role has the name the spec asks for: Keycloak refuses it.
NameHeld(g) ==
    \E i \in Ids : Exists(i) /\ kc[i].name = obj[g].spec.name /\ i # obj[g].status.uuid

\* A wanted role comes to be reported Ready with the name and the attributes its spec
\* gives it, unless the operator asks for manual intervention or another role has the
\* name; neither a panic nor a lost status write leaves it in between for ever.
ConvergesOrAsks ==
    \A g \in RealmRoles :
        Wanted(g) /\ Up ~> \/ ~(Wanted(g) /\ Up)
                           \/ obj[g].status.ready /\ InSync(g)
                           \/ AsksForHelp(g)
                           \/ NameHeld(g)

\* A role marked for deletion goes, once its config is and stays ready.
DeletionCompletes ==
    \A g \in RealmRoles :
        obj[g] # Absent /\ ~Wanted(g) ~> obj[g] = Absent \/ config # "ready"
=============================================================================
