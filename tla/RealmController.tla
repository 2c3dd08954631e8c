----------------------------- MODULE RealmController -----------------------------
(***************************************************************************)
(* internal/controller/realm_controller.go: the one worker that reconciles *)
(* Realm resources.  A Keycloak realm has no id of its own: it is known by *)
(* the name of the resource, whatever namespace that is in, so that two    *)
(* resources may mean the same realm.                                      *)
(***************************************************************************)
EXTENDS Reconciler

CONSTANTS
    Realms,      \* Realm resources: namespace and name
    Names,       \* the names of realms
    NameOf,      \* the name in each resource
    Settings     \* what a spec says: the fields of getDiffs

ASSUME NamesAssumption == NameOf \in [Realms -> Names]
ASSUME NoneAssumption == None \notin Realms

Kinds == {"edit", "outage", "handDelete", "handMade", "handEdit", "fault", "lostAnswer", "crash"}

ASSUME KindsAssumption == Disturbances \subseteq Kinds

VARIABLE kc    \* the realms in Keycloak

vars == <<cluster, config, worker, events, kc>>

NewObject(s) == [spec |-> s, deleting |-> FALSE, finalizer |-> FALSE, ready |-> FALSE]

Init == Empty(Realms) /\ kc = [n \in Names |-> Absent]

Name == NameOf[me]
There == kc[Name] # Absent
-----------------------------------------------------------------------------
\* Reconcile up to reconcileRealm or reconcileDelete, and after them.
ToRealm == \/ ClientReady \/ ClientNotReady(FALSE) \/ ClientFails(FALSE)
           \/ EnsureFinalizer("get")
FromRealm == StatusGone \/ StatusRefused \/ RemoveFinalizer

\* updateStatus writes every time: a status has a LastSyncTime.
StatusWritten == StatusAccepted([cache[me] EXCEPT !.ready = outcome])

\* A mutant: a realm that is there is taken for synchronized.
GetRealmOnly == /\ at = "get"
                /\ \/ ~There /\ Goto("create")
                   \/ There /\ Report(TRUE)
                /\ UNCHANGED <<mine, cluster, config, events, kc>>

GetRealm == /\ at = "get"
            /\ \/ ~There /\ Goto("create")
               \/ There /\ kc[Name].settings # mine.spec /\ Goto("update")
               \/ There /\ kc[Name].settings = mine.spec /\ Report(TRUE)
            /\ UNCHANGED <<mine, cluster, config, events, kc>>

\* A mutant: errors do not reach the status.
RealmFailsQuietly == /\ at \in {"get", "create", "update"}
                     /\ Event("fault")
                     /\ Report(TRUE)
                     /\ UNCHANGED <<mine, cluster, config, kc>>

\* Any other answer than a 404 to GetRealm, a 409 to NewRealm.
RealmFails == /\ at \in {"get", "create", "update"}
              /\ Event("fault")
              /\ Report(FALSE)
              /\ UNCHANGED <<mine, cluster, config, kc>>

\* "cr" is the resource the realm was made for, as bookkeeping.
CreateRealm ==
    /\ at = "create"
    /\ ~There
    /\ kc' = [kc EXCEPT ![Name] = [settings |-> mine.spec, cr |-> me]]
    /\ \/ Report(TRUE) /\ UNCHANGED events
       \/ Report(FALSE) /\ Event("lostAnswer")
    /\ UNCHANGED <<mine, cluster, config>>

\* A 409: requeued, with nothing said in the status.
CreateConflict == /\ at = "create"
                  /\ There
                  /\ Done
                  /\ UNCHANGED <<cluster, config, events, kc>>

\* A mutant: a realm that differs is made anew.
UpdateByCreation == /\ at = "update"
                    /\ kc' = [kc EXCEPT ![Name] = Absent]
                    /\ Goto("create")
                    /\ UNCHANGED <<mine, cluster, config, events>>

\* UpdateRealm writes the whole realm back as GetRealm returned it, with the spec's
\* fields; the fields the spec does not have are left out here.
UpdateRealm ==
    /\ at = "update"
    /\ \/ /\ There
          /\ kc' = [kc EXCEPT ![Name].settings = mine.spec]
          /\ \/ Report(TRUE) /\ UNCHANGED events
             \/ Report(FALSE) /\ Event("lostAnswer")
       \/ ~There /\ Report(FALSE) /\ UNCHANGED <<kc, events>>
    /\ UNCHANGED <<mine, cluster, config>>

\* A mutant: a 404 is an error.
DeleteRealmThere == /\ at = "delete"
                    /\ kc' = [kc EXCEPT ![Name] = Absent]
                    /\ \/ There /\ Goto("unfinalize") /\ UNCHANGED mine
                       \/ ~There /\ Done
                    /\ UNCHANGED <<cluster, config, events>>

\* reconcileDelete; a realm that is not there counts as deleted.
DeleteRealm ==
    /\ at = "delete"
    /\ kc' = [kc EXCEPT ![Name] = Absent]
    /\ \/ Goto("unfinalize") /\ UNCHANGED <<mine, events>>
       \/ There /\ Event("lostAnswer") /\ Done
    /\ UNCHANGED <<cluster, config>>

\* A mutant: the finalizer goes whatever Keycloak answers.
DeleteFailsQuietly == /\ at = "delete"
                      /\ Event("fault")
                      /\ Goto("unfinalize")
                      /\ UNCHANGED <<mine, cluster, config, kc>>

DeleteFails == /\ at = "delete"
               /\ Event("fault")
               /\ Done
               /\ UNCHANGED <<cluster, config, kc>>

Work == \/ (ToRealm \/ FromRealm \/ StatusWritten) /\ UNCHANGED kc
        \/ GetRealm \/ RealmFails \/ CreateRealm \/ CreateConflict \/ UpdateRealm
        \/ DeleteRealm \/ DeleteFails
-----------------------------------------------------------------------------
(* Everyone else.                                                           *)

User(r) == \/ \E s \in Settings : Create(r, NewObject(s)) \/ Edit(r, s)
           \/ Delete(r)

\* An administrator works in the Keycloak console.
Console(n) == /\ \/ kc[n] # Absent /\ Event("handDelete") /\ kc' = [kc EXCEPT ![n] = Absent]
                 \/ \E s \in Settings :
                      \/ /\ kc[n] = Absent /\ Event("handMade")
                         /\ kc' = [kc EXCEPT ![n] = [settings |-> s, cr |-> None]]
                      \/ /\ kc[n] # Absent /\ kc[n].settings # s /\ Event("handEdit")
                         /\ kc' = [kc EXCEPT ![n].settings = s]
              /\ UNCHANGED <<cluster, config, worker>>

Next == \/ Work
        \/ \E r \in Realms : (Start(r) \/ User(r) \/ Sync(r)) /\ UNCHANGED kc
        \/ (ConfigChanges \/ Crash) /\ UNCHANGED kc
        \/ \E n \in Names : Console(n)

Spec == Init /\ [][Next]_vars

(***************************************************************************)
(* The worker goes on with what it has begun; every outcome but the end of *)
(* a deletion requeues the resource (or is an error, retried with backoff) *)
(* and the queue is served in turn, hence strong fairness on starting each *)
(* resource; the informer catches up.                                      *)
(***************************************************************************)
FairSpec == /\ Spec
            /\ WF_vars(Work)
            /\ \A r \in Realms : SF_vars(Start(r) /\ UNCHANGED kc) /\ WF_vars(Sync(r) /\ UNCHANGED kc)
-----------------------------------------------------------------------------
Labels == {"idle", "client", "finalizer", "get", "create", "update", "status", "delete",
           "unfinalize"}
Object == [spec : Settings, deleting : BOOLEAN, finalizer : BOOLEAN, ready : BOOLEAN]
KcRealms == [settings : Settings, cr : Realms \cup {None}]

ASSUME AbsentAssumption == Absent \notin Object /\ Absent \notin KcRealms

\* The type of every variable.
TypeOK == /\ obj \in [Realms -> Object \cup {Absent}]
          /\ cache \in [Realms -> Object \cup {Absent}]
          /\ stale \subseteq Realms
          /\ config \in {"ready", "notReady", "absent"}
          /\ kc \in [Names -> KcRealms \cup {Absent}]
          /\ at \in Labels
          /\ fresh \in BOOLEAN
          /\ tries \in 0..MaxRetries
          /\ events \in 0..MaxEvents
          /\ outcome \in {TRUE, FALSE, None}
          /\ at = "status" => outcome \in BOOLEAN
          /\ at = "idle" => me = None /\ mine = Absent /\ ~fresh
          /\ at # "idle" => me \in Realms /\ mine \in Object

\* Every Keycloak realm the operator made is that of a resource that exists and has
\* the finalizer: no crash, lost answer, refused write or deletion in between leaves
\* one behind that no resource would clean up (realm_controller.go:83-89, 272-276).
NoRealmLeftBehind == \A n \in Names : kc[n] # Absent /\ kc[n].cr # None =>
                         NameOf[kc[n].cr] = n /\ Guarded(kc[n].cr)

\* One resource and its realm, known by name, as the abstract life of a managed resource.
Life(r) == IF obj[r] = Absent THEN "absent" ELSE IF obj[r].finalizer THEN "guarded" ELSE "bare"
Tracked(r) == IF obj[r] = Absent THEN None ELSE NameOf[r]
LiveOf(r) == {n \in Names : kc[n] # Absent /\ kc[n].cr = r}

Managed(r) == INSTANCE ManagedResource
    WITH Ids <- Names, life <- Life(r), tracked <- Tracked(r), live <- LiveOf(r)

\* Each Realm resource lives as ManagedResource says, whoever shares its name: no realm is
\* made for a resource without the finalizer, and the resource goes only after the realm
\* made for it (realm_controller.go:83-89, 262-283).
ManagedSpec ==
    /\ \A r \in Realms : Managed(r)!Init
    /\ [][\A r \in Realms : Managed(r)!Next \/ UNCHANGED Managed(r)!vars]_vars

\* What each place in Reconcile knows of the copy it works on.
PathsAreApart ==
    /\ at \in {"get", "create", "update"} => mine.finalizer /\ ~mine.deleting
    /\ at = "finalizer" => ~mine.deleting
    /\ at \in {"delete", "unfinalize"} => mine.deleting
    /\ at = "unfinalize" /\ fresh => kc[Name] = Absent \/ kc[Name].cr # me

IInv == /\ TypeOK
        /\ CopiesAgree(Realms, {"finalizer"})
        /\ GuardIsLasting(Realms)
        /\ DeletingIsGuarded(Realms)
        /\ PathsAreApart
        /\ NoRealmLeftBehind
        /\ DeletionIsLasting(Realms)

\* A resource that says Ready and is not being deleted has its realm in Keycloak,
\* however stale the copies the worker decided on: nobody but an administrator, or
\* the deletion of a resource of the same name, takes the realm away.
ReadyRealmExists ==
    \A r \in Realms : obj[r] # Absent /\ ~obj[r].deleting /\ obj[r].ready => kc[NameOf[r]] # Absent

\* What makes it so: only a resource with the finalizer is ever Ready, and the outcome
\* that says so is that of a copy with the finalizer, its realm there.
ReadyIsBacked ==
    /\ \A r \in Realms : obj[r] # Absent /\ obj[r].ready => obj[r].finalizer
    /\ at = "status" /\ outcome = TRUE => mine.finalizer /\ ~mine.deleting /\ There
    /\ ReadyRealmExists

\* The worker deletes the realm of a resource only while that very resource, not one of the
\* past that the cache still shows, is marked for deletion.
DeletesOnlyCondemned ==
    [][\A n \in Names :
         at' # at /\ kc[n] # Absent /\ kc'[n] = Absent /\ kc[n].cr # None =>
             Guarded(kc[n].cr) /\ obj[kc[n].cr].deleting]_vars

Wanted(r) == obj[r] # Absent /\ ~obj[r].deleting
InSync(r) == LET n == NameOf[r] IN kc[n] # Absent /\ kc[n].settings = obj[r].spec

\* A realm that is wanted while its config is ready comes to be Ready and as its spec
\* says, whatever conflicts with the console (409), crashes and lost answers came
\* before.  Each resource must have a name of its own.
Converges ==
    \A r \in Realms :
        Wanted(r) /\ config = "ready" ~> \/ ~(Wanted(r) /\ config = "ready")
                                         \/ obj[r].ready /\ InSync(r)

\* A realm marked for deletion goes, once its config is and stays ready.
DeletionCompletes ==
    \A r \in Realms : obj[r] # Absent /\ ~Wanted(r) ~> obj[r] = Absent \/ config # "ready"
=============================================================================
