---------------------------- MODULE GroupController ----------------------------
(***************************************************************************)
(* internal/controller/group_controller.go: the one worker that reconciles *)
(* Group resources, among a Realm resource and a Keycloak realm that       *)
(* others change too.  One realm and one KeycloakInstanceConfig are        *)
(* modelled; what the worker shares with the other controllers is in       *)
(* Reconciler.                                                             *)
(***************************************************************************)
EXTENDS Reconciler, FiniteSets

CONSTANTS
    Groups,       \* Group resources: namespace and name
    Specs,        \* Specs[g]: the specs a user may give g: name, parent, attrs
    Ids,          \* Keycloak UUIDs, never reused, in the order they are given out
    Foreign       \* the groups whose realm is in another namespace: no owner reference

Kinds == {"edit", "outage", "realmDeleted", "handDelete", "handMade", "handEdit",
          "fault", "lostAnswer", "crash"}

ASSUME KindsAssumption == Disturbances \subseteq Kinds
ASSUME IdsAssumption == Ids \subseteq Nat
ASSUME NilAssumption == None \notin Ids \cup Groups /\ Absent \notin Ids \cup Groups
ASSUME SpecsAssumption ==
    \A g \in Groups : \A s \in Specs[g] : s.parent \in Groups \cup {None}

VARIABLES
    realm,     \* the Realm resource: "ready", "notReady" or "absent"
    kcRealm,   \* whether the realm exists in Keycloak
    kc,        \* the groups of the realm in Keycloak
    spent      \* the UUIDs Keycloak has given out

keycloak == <<kcRealm, kc, spent>>
peers    == <<config, realm>>
beyond   == <<keycloak, realm>>
vars     == <<cluster, keycloak, peers, worker, events>>
-----------------------------------------------------------------------------
Outcome(ready, realmReady, message) ==
    [ready |-> ready, realmReady |-> realmReady, message |-> message]

NewObject(s) ==
    [spec |-> s, deleting |-> FALSE, finalizer |-> FALSE, owned |-> FALSE,
     status |-> [ready |-> FALSE, realmReady |-> FALSE, message |-> "", uuid |-> None, parent |-> None]]

Init == /\ Empty(Groups)
        /\ realm = "absent"
        /\ kcRealm = FALSE
        /\ kc = [i \in Ids |-> Absent]
        /\ spent = {}

Exists(i) == i \in Ids /\ kc[i] # Absent

\* The UUID of the next group made: that they come in order is without loss, as nothing
\* compares them.
Unused(i) == i \in Ids \ spent /\ \A j \in Ids \ spent : i <= j

\* i and every group below it: Keycloak deletes a group with its subgroups.
Subtree(i) ==
    {j \in Ids : \A S \in SUBSET Ids :
        (i \in S /\ \A k \in Ids : Exists(k) /\ kc[k].parent \in S => k \in S) => j \in S}
Without(i) == [j \in Ids |-> IF j \in Subtree(i) THEN Absent ELSE kc[j]]

\* Keycloak refuses two groups of one name under one parent.
NameTaken(name, parent) == \E i \in Ids : Exists(i) /\ kc[i].name = name /\ kc[i].parent = parent
-----------------------------------------------------------------------------
(* Reconcile up to reconcileGroup or reconcileDelete.                       *)

Fail(message) == Report(Outcome(FALSE, TRUE, message))
Succeed(changed) == Report(Outcome(TRUE, TRUE, IF changed THEN "changed" ELSE "synced"))

Pending == Outcome(FALSE, FALSE, "deletion pending")
NoClient == Outcome(FALSE, FALSE, "no client")

ToGroup == \/ ClientReady \/ ClientNotReady(Pending) \/ ClientFails(NoClient)
           \/ EnsureFinalizer("realm")

ValidateRealm ==
    /\ at = "realm"
    /\ \/ realm = "ready" /\ Goto("owner")
       \/ realm = "absent" /\ Report(Outcome(FALSE, FALSE, "realm not found"))
       \/ realm = "notReady" /\ Report(Outcome(FALSE, FALSE, "realm not ready"))
    /\ UNCHANGED <<mine, cluster, keycloak, peers, events>>

SetOwnerReference ==
    /\ at = "owner"
    /\ \/ /\ mine.owned \/ me \in Foreign
          /\ Goto("parent") /\ UNCHANGED <<mine, cluster>>
       \/ /\ ~mine.owned /\ me \notin Foreign
          /\ Written([mine EXCEPT !.owned = TRUE]) /\ Goto("parent")
       \/ /\ ~mine.owned /\ me \notin Foreign /\ ~fresh
          /\ Fail("owner") /\ UNCHANGED <<mine, cluster>>
    /\ UNCHANGED <<keycloak, peers, events>>
-----------------------------------------------------------------------------
(* resolveParentGroup.                                                      *)

ParentOf(g) == IF g = None \/ cache[g] = Absent THEN None ELSE cache[g].spec.parent

\* The n-th group above p in the cached specs; None past the end of the chain.
Above(p) == LET up[k \in 0..Cardinality(Groups)] == IF k = 0 THEN p ELSE ParentOf(up[k - 1])
            IN  up

\* validateParentGroupHierarchy: the walk up from p comes back to g, or never ends.
Circular(g, p) == \/ \E n \in 0..Cardinality(Groups) : Above(p)[n] = g
                  \/ Above(p)[Cardinality(Groups)] # None

WithParent(u) == mine' = [mine EXCEPT !.status.parent = u]

\* A parent recorded earlier is kept for as long as Keycloak has it; any error drops it.
KeepParent ==
    /\ at = "parent"
    /\ \/ mine.spec.parent = None /\ WithParent(None) /\ Goto("fetch") /\ UNCHANGED events
       \/ /\ mine.spec.parent # None
          /\ Exists(mine.status.parent)
          /\ Goto("fetch") /\ UNCHANGED <<mine, events>>
       \/ /\ mine.spec.parent # None
          /\ ~Exists(mine.status.parent)
          /\ WithParent(None) /\ Goto("resolve") /\ UNCHANGED events
       \/ /\ mine.spec.parent # None
          /\ Exists(mine.status.parent)
          /\ Event("fault")
          /\ WithParent(None) /\ Goto("resolve")
    /\ UNCHANGED <<cluster, keycloak, peers>>

\* Otherwise the parent resource's own UUID is taken, once Keycloak confirms it; an
\* empty UUID and an unknown one are refused alike.
ResolveParent ==
    /\ at = "resolve"
    /\ LET p == mine.spec.parent IN
         \/ cache[p] = Absent /\ Fail("parent not found") /\ UNCHANGED mine
         \/ /\ cache[p] # Absent
            /\ Circular(me, p) /\ Fail("parent hierarchy") /\ UNCHANGED mine
         \/ /\ cache[p] # Absent /\ ~Circular(me, p)
            /\ LET there == cache[p].status IN
                 \/ ~there.ready /\ Fail("parent not ready") /\ UNCHANGED mine
                 \/ there.ready /\ ~Exists(there.uuid) /\ Fail("parent not in Keycloak") /\ UNCHANGED mine
                 \/ there.ready /\ Exists(there.uuid) /\ WithParent(there.uuid) /\ Goto("fetch")
    /\ UNCHANGED <<cluster, keycloak, peers, events>>

ResolveFails == /\ at = "resolve"
                /\ Event("fault")
                /\ Fail("parent not verified")
                /\ UNCHANGED <<mine, cluster, keycloak, peers>>
-----------------------------------------------------------------------------
(* getOrCreateGroup and updateGroupIfNeeded.                                *)

\* A mutant: the attributes are not compared.
DiffersInName(group) == group.name # mine.spec.name \/ group.parent # mine.status.parent

\* getGroupDiffs: the parent compared is the one in the status, not in the spec.
Differs(group) == \/ group.name # mine.spec.name
                  \/ group.parent # mine.status.parent
                  \/ group.attrs # mine.spec.attrs

\* clearGroupState drops the parent that was just resolved, too.
ClearGroupState == mine' = [mine EXCEPT !.status.uuid = None, !.status.parent = None]

FetchGroup ==
    /\ at = "fetch"
    /\ LET u == mine.status.uuid IN
         \/ u = None /\ Goto("create") /\ UNCHANGED mine
         \/ u # None /\ ~Exists(u) /\ ClearGroupState /\ Goto("create")
         \/ /\ Exists(u) /\ UNCHANGED mine
            /\ \/ Differs(kc[u]) /\ Goto("update")
               \/ ~Differs(kc[u]) /\ Succeed(FALSE)
    /\ UNCHANGED <<cluster, keycloak, peers, events>>

FetchFails == /\ at = "fetch"
              /\ mine.status.uuid # None
              /\ Event("fault")
              /\ Fail("group not read")
              /\ UNCHANGED <<mine, cluster, keycloak, peers>>

Renamed(u) == kc[u].name # mine.spec.name
Updated(u) == [kc EXCEPT ![u].name = mine.spec.name, ![u].attrs = mine.spec.attrs]

\* UpdateGroup: Keycloak takes the name and the attributes and leaves the parent.
UpdateGroup ==
    /\ at = "update"
    /\ LET u == mine.status.uuid IN
         \/ /\ Exists(u)
            /\ Renamed(u) => ~NameTaken(mine.spec.name, kc[u].parent)
            /\ kc' = Updated(u)
            /\ \/ Succeed(TRUE) /\ UNCHANGED events
               \/ Event("lostAnswer") /\ Fail("update failed")
         \/ /\ Exists(u) => Renamed(u) /\ NameTaken(mine.spec.name, kc[u].parent)
            /\ Fail("update failed")
            /\ UNCHANGED <<kc, events>>
         \/ Event("fault") /\ Fail("update failed") /\ UNCHANGED kc
    /\ UNCHANGED <<mine, cluster, kcRealm, spent, peers>>

\* buildGroupFromSpec.  "cr" is the resource the group was made for, as bookkeeping.
NewGroup == [name |-> mine.spec.name, parent |-> mine.status.parent,
             attrs |-> mine.spec.attrs, cr |-> me]

ParentThere == mine.status.parent = None \/ Exists(mine.status.parent)

CreateGroup(i) ==
    /\ at = "create"
    /\ kcRealm /\ ParentThere
    /\ ~NameTaken(mine.spec.name, mine.status.parent)
    /\ Unused(i)
    /\ kc' = [kc EXCEPT ![i] = NewGroup]
    /\ spent' = spent \cup {i}
    /\ \/ Goto("store") /\ UNCHANGED events
       \/ Event("lostAnswer") /\ Fail("group not created")
    /\ UNCHANGED <<mine, cluster, kcRealm, peers>>

CreateFails ==
    /\ at = "create"
    /\ \/ /\ kcRealm /\ ParentThere
          /\ NameTaken(mine.spec.name, mine.status.parent)
          /\ Fail("manual intervention required")
          /\ UNCHANGED events
       \/ ~(kcRealm /\ ParentThere) /\ Fail("group not created") /\ UNCHANGED events
       \/ Event("fault") /\ Fail("group not created")
    /\ UNCHANGED <<mine, cluster, keycloak, peers>>

\* A mutant: any group found is taken for the new one.
StoreAnyUUID ==
    /\ at = "store"
    /\ \E i \in Ids : Exists(i) /\ mine' = [mine EXCEPT !.status.uuid = i]
    /\ Succeed(TRUE)
    /\ UNCHANGED <<cluster, keycloak, peers, events>>

\* storeGroupUUID finds the new group by its name, anywhere in the realm.
StoreGroupUUID ==
    /\ at = "store"
    /\ \/ \E i \in Ids : /\ Exists(i)
                         /\ kc[i].name = mine.spec.name
                         /\ mine' = [mine EXCEPT !.status.uuid = i]
                         /\ Succeed(TRUE)
                         /\ UNCHANGED events
       \/ /\ ~\E i \in Ids : Exists(i) /\ kc[i].name = mine.spec.name
          /\ Fail("UUID not retrieved")
          /\ UNCHANGED <<mine, events>>
       \/ Event("fault") /\ Fail("UUID not retrieved") /\ UNCHANGED mine
    /\ UNCHANGED <<cluster, keycloak, peers>>
-----------------------------------------------------------------------------
(* updateStatus: read the cache, skip or write, at most MaxRetries times.   *)

StatusUnchanged(latest) == /\ latest.status.ready = outcome.ready
                           /\ latest.status.realmReady = outcome.realmReady
                           /\ latest.status.message = outcome.message

Keep(new, old) == IF new # None THEN new ELSE old

\* applyStatusUpdate: a UUID is taken over only when there is one.
StatusApplied(latest) ==
    [latest EXCEPT !.status = [ready |-> outcome.ready,
                               realmReady |-> outcome.realmReady,
                               message |-> outcome.message,
                               uuid |-> Keep(mine.status.uuid, latest.status.uuid),
                               parent |-> Keep(mine.status.parent, latest.status.parent)]]

StatusSkipped == /\ at = "status"
                 /\ cache[me] # Absent
                 /\ StatusUnchanged(cache[me])
                 /\ Done
                 /\ UNCHANGED <<cluster, keycloak, peers, events>>

StatusWritten == /\ StatusAccepted(StatusApplied(cache[me]))
                 /\ ~StatusUnchanged(cache[me])
                 /\ UNCHANGED beyond

StatusConflict == /\ StatusRefused
                  /\ ~StatusUnchanged(cache[me])
                  /\ UNCHANGED beyond
-----------------------------------------------------------------------------
(* reconcileDelete.                                                         *)

\* A mutant: a 404 is an error.
DeleteGroupThere ==
    /\ at = "delete"
    /\ LET u == mine.status.uuid IN
         \/ u = None /\ Goto("unfinalize") /\ UNCHANGED <<mine, kc>>
         \/ Exists(u) /\ kc' = Without(u) /\ Goto("unfinalize") /\ UNCHANGED mine
         \/ u # None /\ ~Exists(u) /\ Done /\ UNCHANGED kc
    /\ UNCHANGED <<cluster, kcRealm, spent, peers, events>>

DeleteGroup ==
    /\ at = "delete"
    /\ LET u == mine.status.uuid IN
         \/ /\ u = None \/ realm = "absent" \/ ~Exists(u)
            /\ Goto("unfinalize") /\ UNCHANGED <<mine, kc, events>>
         \/ /\ Exists(u) /\ realm # "absent"
            /\ kc' = Without(u)
            /\ \/ Goto("unfinalize") /\ UNCHANGED <<mine, events>>
               \/ Event("lostAnswer") /\ Done
    /\ UNCHANGED <<cluster, kcRealm, spent, peers>>

\* A mutant: the finalizer goes whatever Keycloak answers.
DeleteFailsQuietly == /\ at = "delete"
                      /\ mine.status.uuid # None
                      /\ realm # "absent"
                      /\ Event("fault")
                      /\ Goto("unfinalize")
                      /\ UNCHANGED <<mine, cluster, keycloak, peers>>

DeleteFails == /\ at = "delete"
               /\ mine.status.uuid # None
               /\ realm # "absent"
               /\ Event("fault")
               /\ Done
               /\ UNCHANGED <<cluster, keycloak, peers>>

-----------------------------------------------------------------------------
(* Everyone else.                                                           *)

\* The user, and the garbage collector once the owning Realm is gone.
User(g) == \/ \E s \in Specs[g] : Create(g, NewObject(s)) \/ Edit(g, s)
           \/ Delete(g)

\* The Realm resource: made with the Keycloak realm, gone after it.
RealmChanges == /\ \/ realm = "absent" /\ realm' = "notReady" /\ UNCHANGED <<keycloak, events>>
                   \/ /\ realm # "absent" /\ ~(realm = "ready" /\ kcRealm)
                      /\ realm' = "ready" /\ kcRealm' = TRUE
                      /\ UNCHANGED <<kc, spent, events>>
                   \/ realm = "ready" /\ realm' = "notReady" /\ Event("outage") /\ UNCHANGED keycloak
                   \/ realm # "absent" /\ "realmDeleted" \in Disturbances /\ ~kcRealm /\ realm' = "absent"
                        /\ UNCHANGED <<keycloak, events>>
                   \/ /\ kcRealm /\ Event("realmDeleted")
                      /\ kcRealm' = FALSE
                      /\ kc' = [i \in Ids |-> Absent]
                      /\ UNCHANGED <<realm, spent>>
                /\ UNCHANGED <<config, cluster, worker>>

\* An administrator works in the Keycloak console.
ConsoleDeletes(i) == /\ Exists(i)
                     /\ Event("handDelete")
                     /\ kc' = Without(i)
                     /\ UNCHANGED <<cluster, kcRealm, spent, peers, worker>>

ConsoleCreates(i) == /\ kcRealm /\ Unused(i)
                     /\ Event("handMade")
                     /\ \E g \in Groups : \E s \in Specs[g] : \E p \in Ids \cup {None} :
                          /\ p = None \/ Exists(p)
                          /\ ~NameTaken(s.name, p)
                          /\ kc' = [kc EXCEPT ![i] = [name |-> s.name, parent |-> p,
                                                      attrs |-> s.attrs, cr |-> None]]
                     /\ spent' = spent \cup {i}
                     /\ UNCHANGED <<cluster, kcRealm, peers, worker>>

ConsoleEdits(i) == /\ Exists(i)
                   /\ Event("handEdit")
                   /\ \E g \in Groups : \E s \in Specs[g] :
                        kc' = [kc EXCEPT ![i].attrs = s.attrs]
                   /\ UNCHANGED <<cluster, kcRealm, spent, peers, worker>>
-----------------------------------------------------------------------------
Work == \/ (ToGroup \/ StatusGone \/ RemoveFinalizer) /\ UNCHANGED beyond
        \/ ValidateRealm \/ SetOwnerReference
        \/ KeepParent \/ ResolveParent \/ ResolveFails
        \/ FetchGroup \/ FetchFails \/ UpdateGroup
        \/ \E i \in Ids : CreateGroup(i)
        \/ CreateFails \/ StoreGroupUUID
        \/ StatusSkipped \/ StatusWritten \/ StatusConflict
        \/ DeleteGroup \/ DeleteFails

Others == \/ RealmChanges
          \/ \E i \in Ids : ConsoleDeletes(i) \/ ConsoleCreates(i) \/ ConsoleEdits(i)

Next == \/ Work
        \/ \E g \in Groups : (Start(g) \/ User(g) \/ Sync(g)) /\ UNCHANGED beyond
        \/ (ConfigChanges \/ Crash) /\ UNCHANGED beyond
        \/ Others

Spec == Init /\ [][Next]_vars

(***************************************************************************)
(* The worker goes on with what it has begun; the work queue is served in  *)
(* turn and every outcome requeues the group (or fails, and is retried     *)
(* with backoff), hence strong fairness on starting each one; the informer *)
(* catches up.  Nothing is assumed of users, administrators and outages,   *)
(* nor of the retries of a status write beyond the code's own.             *)
(***************************************************************************)
FairSpec == /\ Spec
            /\ WF_vars(Work)
            /\ \A g \in Groups : /\ SF_vars(Start(g) /\ UNCHANGED beyond)
                               /\ WF_vars(Sync(g) /\ UNCHANGED beyond)
-----------------------------------------------------------------------------
Labels == {"idle", "client", "finalizer", "realm", "owner", "parent", "resolve", "fetch",
           "update", "create", "store", "status", "delete", "unfinalize"}
Maybe(S) == S \cup {None}
SpecSet == UNION {Specs[g] : g \in Groups}
Messages == {"", "changed", "synced", "no client", "realm not found", "realm not ready", "owner",
             "parent not found", "parent hierarchy", "parent not ready",
             "parent not in Keycloak", "parent not verified", "group not read", "update failed",
             "group not created", "manual intervention required", "UUID not retrieved",
             "deletion pending"}
Outcomes == [ready : BOOLEAN, realmReady : BOOLEAN, message : Messages]
OutcomeOK == outcome \in Outcomes \cup {None} /\ (at = "status" => outcome \in Outcomes)
Status == [ready : BOOLEAN, realmReady : BOOLEAN, message : Messages,
           uuid : Maybe(Ids), parent : Maybe(Ids)]
Object == [spec : SpecSet, deleting : BOOLEAN, finalizer : BOOLEAN, owned : BOOLEAN,
           status : Status]
KcGroups == [name : {s.name : s \in SpecSet}, parent : Maybe(Ids),
             attrs : {s.attrs : s \in SpecSet}, cr : Maybe(Groups)]

ASSUME AbsentAssumption == Absent \notin Object /\ Absent \notin KcGroups

\* The type of every variable.
TypeOK == /\ obj \in [Groups -> Object \cup {Absent}]
          /\ cache \in [Groups -> Object \cup {Absent}]
          /\ stale \subseteq Groups
          /\ config \in {"ready", "notReady", "absent"}
          /\ realm \in {"ready", "notReady", "absent"}
          /\ kcRealm \in BOOLEAN
          /\ kc \in [Ids -> KcGroups \cup {Absent}]
          /\ spent \subseteq Ids
          /\ at \in Labels
          /\ fresh \in BOOLEAN
          /\ tries \in 0..MaxRetries
          /\ events \in 0..MaxEvents
          /\ OutcomeOK
          /\ at = "idle" => me = None /\ mine = Absent /\ ~fresh
          /\ at # "idle" => me \in Groups /\ mine \in Object

\* One resource and its groups, as the abstract life of a managed resource.
Life(g) == IF obj[g] = Absent THEN "absent" ELSE IF obj[g].finalizer THEN "guarded" ELSE "bare"
Tracked(g) == IF obj[g] = Absent THEN None ELSE obj[g].status.uuid
LiveOf(g) == {i \in Ids : Exists(i) /\ kc[i].cr = g}

Managed(g) == INSTANCE ManagedResource WITH life <- Life(g), tracked <- Tracked(g), live <- LiveOf(g)

\* Each Group resource lives as ManagedResource says, against stale reads, refused
\* writes, crashes, lost answers and the work of others in Keycloak: no group is
\* made for a resource without the finalizer, and the resource goes only after the
\* group its status names (group_controller.go:108-114, 630-652).
ManagedSpec ==
    /\ \A g \in Groups : Managed(g)!Init
    /\ [][\A g \in Groups : Managed(g)!Next \/ UNCHANGED Managed(g)!vars]_vars

(***************************************************************************)
(* Why ManagedSpec holds: the parts of an inductive invariant.             *)
(***************************************************************************)
\* i is the id of an existing group made for g.
Live(i, g) == Exists(i) /\ kc[i].cr = g

\* Before the worker's copy gets another status than the object.
Early == {"finalizer", "realm", "owner"}

\* What each place in Reconcile knows of the copy it works on.
PathsAreApart ==
    /\ at \in {"realm", "owner", "parent", "resolve", "fetch", "update", "create", "store"}
          => mine.finalizer /\ ~mine.deleting
    /\ at = "finalizer" => ~mine.deleting
    /\ at \in {"delete", "unfinalize"} => mine.deleting

\* Every UUID in use has been given out, and Keycloak has no groups without a realm.
IdsAreSpent ==
    /\ \A i \in Ids : Exists(i) => i \in spent
    /\ \A g \in Groups : obj[g] # Absent => obj[g].status.uuid \in spent \cup {None}
    /\ \A g \in Groups : cache[g] # Absent => cache[g].status.uuid \in spent \cup {None}
    /\ at # "idle" => mine.status.uuid \in spent \cup {None}
    /\ ~kcRealm => \A i \in Ids : ~Exists(i)
    /\ realm = "absent" => ~kcRealm

\* A copy of an object that is no longer, or not yet, guarded names no group of its
\* own that exists: neither the copy of a released object nor that of its namesake.
UnguardedIsUntracked ==
    /\ \A g \in Groups : obj[g] # Absent /\ ~Guarded(g) => ~Live(obj[g].status.uuid, g)
    /\ \A g \in Groups :
         cache[g] # Absent /\ (~cache[g].finalizer \/ (cache[g].deleting /\ ~Guarded(g)))
            => ~Live(cache[g].status.uuid, g)
    /\ at # "idle" /\ (~mine.finalizer \/ (mine.deleting /\ ~Guarded(me)))
            => ~Live(mine.status.uuid, me)
    /\ at = "unfinalize" /\ fresh => ~Live(mine.status.uuid, me)

IInv == /\ TypeOK
        /\ CopiesAgree(Groups, Early)
        /\ GuardIsLasting(Groups)
        /\ DeletingIsGuarded(Groups)
        /\ PathsAreApart
        /\ IdsAreSpent
        /\ UnguardedIsUntracked

\* No two resources may ever ask for groups of one name.
NoNamesakes ==
    \A g, h \in Groups : g # h => \A s \in Specs[g], t \in Specs[h] : s.name # t.name

\* i is the id of a group made for g, or of none that exists.
NotAnothers(i, g) == Exists(i) => kc[i].cr = g

\* What makes the lookup by name find no group but the resource's own, as long as names
\* are unique to resources and nobody makes groups by hand: a copy has a spec of its
\* resource, and a group has a name of the resource it was made for.
NamesAreOwn ==
    /\ \A g \in Groups : obj[g] # Absent => obj[g].spec \in Specs[g]
    /\ \A g \in Groups : cache[g] # Absent => cache[g].spec \in Specs[g]
    /\ at # "idle" => mine.spec \in Specs[me]
    /\ \A i \in Ids : Exists(i) =>
         kc[i].cr \in Groups /\ kc[i].name \in {s.name : s \in Specs[kc[i].cr]}

\* Then no copy of a resource names a group made for another one.
TracksNoOthers ==
    /\ \A g \in Groups : obj[g] # Absent => NotAnothers(obj[g].status.uuid, g)
    /\ \A g \in Groups : cache[g] # Absent => NotAnothers(cache[g].status.uuid, g)
    /\ at # "idle" => NotAnothers(mine.status.uuid, me)

\* Whatever its copy says, the worker takes a group away only if that, or a group above it,
\* was made for the very resource it works on, which exists, has the finalizer and is
\* marked for deletion (group_controller.go:630-690).  It holds when no two resources ask
\* for one name and nobody makes a namesake by hand, as the new group's UUID is looked up
\* by name (group_controller.go:523).
DeletesOnlyCondemned ==
    [][\A i \in Ids : worker' # worker /\ kc[i] # Absent /\ kc'[i] = Absent =>
         /\ \E j \in Ids : i \in Subtree(j) /\ Exists(j) /\ kc[j].cr = me
         /\ Guarded(me) /\ obj[me].deleting]_vars

\* The groups that are never put below another one.
TopLevel == {g \in Groups : \A s \in Specs[g] : s.parent = None}

\* They have no parent, in no copy and not in Keycloak, and need none resolved.
TopLevelIsOnTop ==
    /\ \A g \in TopLevel : obj[g] # Absent => obj[g].status.parent = None
    /\ \A g \in TopLevel : cache[g] # Absent => cache[g].status.parent = None
    /\ at # "idle" /\ me \in TopLevel => mine.status.parent = None /\ at # "resolve"
    /\ \A i \in Ids : Exists(i) /\ kc[i].cr \in TopLevel => kc[i].parent = None

\* A top-level resource that says Ready and is not being deleted names a group that exists:
\* no deletion of another resource takes its group along.  It holds when names are unique
\* to resources and nobody but the operator makes groups or takes them away.
ReadyTopGroupExists ==
    \A g \in TopLevel :
        obj[g] # Absent /\ ~obj[g].deleting /\ obj[g].status.ready => Exists(obj[g].status.uuid)

\* What makes it so: only a resource with the finalizer is ever Ready, and the outcome
\* that says so is that of a copy with the finalizer which names an existing group.
ReadyIsBacked ==
    /\ \A g \in TopLevel : obj[g] # Absent /\ obj[g].status.ready => obj[g].finalizer
    /\ at = "status" /\ outcome.ready /\ me \in TopLevel =>
         mine.finalizer /\ ~mine.deleting /\ Exists(mine.status.uuid)
    /\ ReadyTopGroupExists

Up == config = "ready" /\ realm = "ready" /\ kcRealm
Wanted(g) == obj[g] # Absent /\ ~obj[g].deleting
InSync(g) == LET u == obj[g].status.uuid IN
                 Exists(u) /\ kc[u].name = obj[g].spec.name /\ kc[u].attrs = obj[g].spec.attrs
AsksForHelp(g) == obj[g].status.message = "manual intervention required"

\* A top-level group that is wanted while its realm and config are up comes to be
\* reported Ready with the Keycloak group its spec describes, or the operator asks for
\* manual intervention; no sequence of conflicts, crashes and lost answers leaves it
\* in between for ever.
ConvergesOrAsks ==
    \A g \in Groups :
        Wanted(g) /\ Up ~> \/ ~(Wanted(g) /\ Up)
                           \/ obj[g].status.ready /\ InSync(g)
                           \/ AsksForHelp(g)

\* A group marked for deletion goes, once its config is and stays ready.
DeletionCompletes ==
    \A g \in Groups :
        obj[g] # Absent /\ ~Wanted(g) ~> obj[g] = Absent \/ config # "ready"
-----------------------------------------------------------------------------
(* What the code's comments and the CRD promise and the code does not keep. *)

\* A group reported Ready is the one made for it (group_controller.go:520), at the top
\* level, or below its parent's group if it is a subgroup (group_types.go:26).
ReadyGroupIsInItsPlace ==
    [][StatusWritten /\ outcome.ready /\ Exists(mine.status.uuid)
         => LET group == kc[mine.status.uuid] IN
              /\ group.cr = me
              /\ IF mine.spec.parent = None THEN group.parent = None
                 ELSE Exists(group.parent) /\ kc[group.parent].cr = mine.spec.parent]_vars
=============================================================================
