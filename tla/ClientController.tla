---------------------------- MODULE ClientController ----------------------------
(***************************************************************************)
(* internal/controller/client: the one worker that reconciles Client       *)
(* resources in three stages, the OpenID client in Keycloak, its roles and *)
(* the Kubernetes Secret that hands its secret to applications, among      *)
(* others who change all three.  What the worker shares with the other     *)
(* controllers is in Reconciler.                                           *)
(*                                                                         *)
(* The fields of a client that are compared and sent together are one      *)
(* value, "settings"; the data, labels and annotations of a Secret are     *)
(* what tells them apart: the resource it is of and the client's secret.   *)
(***************************************************************************)
EXTENDS Reconciler

CONSTANTS
    Clients,      \* Client resources: namespace and name
    Specs,        \* Specs[g]: the specs a user may give g
    Ids,          \* Keycloak UUIDs, never reused, in the order they are given out
    Foreign,      \* the clients whose realm is in another namespace: no owner reference
    RoleNames,
    Secrets,      \* the values of a client's secret
    SecretNames,  \* Kubernetes Secrets: namespace and name
    Elsewhere     \* those of a namespace that is not the client's own

Kinds == {"edit", "outage", "realmDeleted", "handDelete", "handMade", "handEdit", "rotation",
          "fault", "lostAnswer", "crash"}

ASSUME KindsAssumption == Disturbances \subseteq Kinds
ASSUME IdsAssumption == Ids \subseteq Nat
ASSUME NilAssumption == /\ None \notin Ids \cup Clients \cup SecretNames
                        /\ Absent \notin Ids \cup Clients
                        /\ "gone" \notin Clients

VARIABLES
    realm,     \* the Realm resource: "ready", "notReady" or "absent"
    kcRealm,   \* whether the realm exists in Keycloak
    kc,        \* the clients of the realm in Keycloak, with their roles
    spent,     \* the UUIDs Keycloak has given out
    seen,      \* the client as the worker last read or left it in Keycloak
    changed,   \* clientChanged: this reconcile created or updated the client
    secrets,      \* the Kubernetes Secrets
    secretCache,  \* and what the informer has of them
    secretStale   \* those the informer is behind on

keycloak == <<kcRealm, kc, spent>>
peers    == <<config, realm>>
view     == <<seen, changed>>
vault    == <<secrets, secretCache, secretStale>>
beyond   == <<keycloak, realm, view, vault>>
vars     == <<cluster, keycloak, peers, worker, view, vault, events>>
-----------------------------------------------------------------------------
Outcome(ready, realmReady, message) ==
    [ready |-> ready, realmReady |-> realmReady, message |-> message]

\* Status.Secret is nil, or says that the Secret it names was created.
NewObject(s) ==
    [spec |-> s, deleting |-> FALSE, finalizer |-> FALSE, owned |-> FALSE,
     status |-> [ready |-> FALSE, realmReady |-> FALSE, message |-> "",
                 uuid |-> None, roles |-> {}, secret |-> None]]

Init == /\ Empty(Clients)
        /\ realm = "absent"
        /\ kcRealm = FALSE
        /\ kc = [i \in Ids |-> Absent]
        /\ spent = {}
        /\ seen = Absent /\ changed = FALSE
        /\ secrets = [n \in SecretNames |-> Absent]
        /\ secretCache = secrets
        /\ secretStale = {}

Exists(i) == i \in Ids /\ kc[i] # Absent

\* The UUID of the next object made: that they come in order is without loss, as nothing
\* compares them.
Unused(i) == i \in Ids \ spent /\ \A j \in Ids \ spent : i <= j

\* Keycloak refuses two clients of one clientId in a realm.
ClientIdTaken(c) == \E i \in Ids : Exists(i) /\ kc[i].clientId = c

NoRoles == [n \in RoleNames |-> None]
Named(roles) == {n \in RoleNames : roles[n] # None}
-----------------------------------------------------------------------------
(* Reconcile up to reconcileClient or reconcileDelete.                      *)

Forget == seen' = Absent /\ changed' = FALSE
Fail(message) == Report(Outcome(FALSE, TRUE, message)) /\ Forget
Succeed == Report(Outcome(TRUE, TRUE, IF changed THEN "changed" ELSE "synced")) /\ Forget

Pending == Outcome(FALSE, FALSE, "deletion pending")

\* The config is missing, or the login fails: nothing is reported.
NoKeycloakClient ==
    /\ at = "client"
    /\ \/ config = "absent" /\ UNCHANGED events
       \/ config = "ready" /\ Event("fault")
    /\ Done
    /\ UNCHANGED <<cluster, config>>

ToClient == \/ ClientReady \/ ClientNotReady(Pending) \/ NoKeycloakClient
            \/ EnsureFinalizer("realm")

ValidateRealm ==
    /\ at = "realm"
    /\ \/ realm = "ready" /\ Goto("owner")
       \/ realm = "absent" /\ Report(Outcome(FALSE, FALSE, "realm not found"))
       \/ realm = "notReady" /\ Report(Outcome(FALSE, FALSE, "realm not ready"))
    /\ UNCHANGED <<mine, cluster, keycloak, peers, view, vault, events>>

SetOwnerReference ==
    /\ at = "owner"
    /\ \/ /\ mine.owned \/ me \in Foreign
          /\ Goto("fetch") /\ UNCHANGED <<mine, cluster, view>>
       \/ /\ ~mine.owned /\ me \notin Foreign
          /\ Written([mine EXCEPT !.owned = TRUE]) /\ Goto("fetch") /\ UNCHANGED view
       \/ /\ ~mine.owned /\ me \notin Foreign /\ ~fresh
          /\ Fail("owner") /\ UNCHANGED <<mine, cluster>>
    /\ UNCHANGED <<keycloak, peers, vault, events>>
-----------------------------------------------------------------------------
(* getOrCreateClient and updateClientIfNeeded.                              *)

\* A mutant: whether the client is public is not compared.
DiffersInSettings(client) == client.settings # mine.spec.settings

\* getClientDiffs: neither the clientId nor the secret is compared.
Differs(client) == \/ client.settings # mine.spec.settings
                   \/ client.public # mine.spec.public

ClearClientState == mine' = [mine EXCEPT !.status.uuid = None, !.status.roles = {}]

FetchClient ==
    /\ at = "fetch"
    /\ LET u == mine.status.uuid IN
         \/ u = None /\ Goto("create") /\ UNCHANGED <<mine, seen>>
         \/ u # None /\ ~Exists(u) /\ ClearClientState /\ Goto("create") /\ UNCHANGED seen
         \/ /\ Exists(u)
            /\ seen' = kc[u]
            /\ Goto(IF Differs(kc[u]) THEN "update" ELSE "list")
            /\ UNCHANGED mine
    /\ UNCHANGED <<cluster, keycloak, peers, changed, vault, events>>

FetchFails == /\ at = "fetch"
              /\ mine.status.uuid # None
              /\ Event("fault")
              /\ Fail("client not read")
              /\ UNCHANGED <<mine, cluster, keycloak, peers, vault>>

\* applyChangesToClient: all of the client that was read, with the spec's fields.
Updated(u) == [kc EXCEPT ![u].settings = mine.spec.settings,
                         ![u].public = mine.spec.public,
                         ![u].secret = seen.secret]

\* A mutant: a client that differs is deleted and made anew.
UpdateByCreation ==
    /\ at = "update"
    /\ LET u == mine.status.uuid IN
         kc' = IF Exists(u) THEN [kc EXCEPT ![u] = Absent] ELSE kc
    /\ Goto("create")
    /\ seen' = Absent
    /\ UNCHANGED <<mine, cluster, kcRealm, spent, peers, changed, vault, events>>

UpdateClient ==
    /\ at = "update"
    /\ Exists(mine.status.uuid)
    /\ kc' = Updated(mine.status.uuid)
    /\ \/ changed' = TRUE /\ UNCHANGED events
       \/ Event("lostAnswer") /\ UNCHANGED changed
    /\ Goto("list")
    /\ UNCHANGED <<mine, cluster, kcRealm, spent, peers, seen, vault>>

\* The error is logged and the reconcile goes on.
UpdateFails ==
    /\ at = "update"
    /\ \/ ~Exists(mine.status.uuid) /\ UNCHANGED events
       \/ Event("fault")
    /\ Goto("list")
    /\ UNCHANGED <<mine, cluster, keycloak, peers, view, vault>>

\* buildClientFromSpec, to which Keycloak adds a secret.  "cr" is the resource the
\* client was made for, as bookkeeping.
NewClient(secret) == [clientId |-> mine.spec.clientId, settings |-> mine.spec.settings,
                      public |-> mine.spec.public, secret |-> secret, roles |-> NoRoles, cr |-> me]

CreateClient(i) ==
    /\ at = "create"
    /\ kcRealm
    /\ ~ClientIdTaken(mine.spec.clientId)
    /\ Unused(i)
    /\ \E secret \in Secrets : kc' = [kc EXCEPT ![i] = NewClient(secret)]
    /\ spent' = spent \cup {i}
    /\ \/ Goto("store") /\ UNCHANGED <<view, events>>
       \/ Event("lostAnswer") /\ Fail("client not created")
    /\ UNCHANGED <<mine, cluster, kcRealm, peers, vault>>

\* A mutant: a client that is in the way is adopted.
CreateAdopts ==
    /\ at = "create"
    /\ kcRealm /\ ClientIdTaken(mine.spec.clientId)
    /\ Goto("store")
    /\ UNCHANGED <<mine, cluster, keycloak, peers, view, vault, events>>

CreateFails ==
    /\ at = "create"
    /\ \/ /\ kcRealm /\ ClientIdTaken(mine.spec.clientId)
          /\ Fail("manual intervention required")
          /\ UNCHANGED events
       \/ ~kcRealm /\ Fail("client not created") /\ UNCHANGED events
       \/ Event("fault") /\ Fail("client not created")
    /\ UNCHANGED <<mine, cluster, keycloak, peers, vault>>

\* storeClientUUID finds the new client by its clientId.
StoreClientUUID ==
    /\ at = "store"
    /\ \E i \in Ids : /\ Exists(i) /\ kc[i].clientId = mine.spec.clientId
                      /\ mine' = [mine EXCEPT !.status.uuid = i, !.status.roles = {}]
                      /\ seen' = kc[i]
    /\ changed' = TRUE
    /\ Goto("list")
    /\ UNCHANGED <<cluster, keycloak, peers, vault, events>>

StoreFails ==
    /\ at = "store"
    /\ \/ ~ClientIdTaken(mine.spec.clientId) /\ UNCHANGED events
       \/ Event("fault")
    /\ Fail("UUID not retrieved")
    /\ UNCHANGED <<mine, cluster, keycloak, peers, vault>>
-----------------------------------------------------------------------------
(* reconcileClientRoles: seen.roles goes from the list that was read to the *)
(* roles of the spec, one call at a time.  Maps are iterated in any order.  *)

Unwanted == {n \in Named(seen.roles) : mine.spec.roles[n] = None}

\* cleanupTrackedRoles; the roles that are there need no call to be tracked.
Tracking(roles) ==
    {n \in Named(mine.spec.roles) : n \in mine.status.roles \/ roles[n] = mine.spec.roles[n]}

ListRoles ==
    /\ at = "list"
    /\ LET u == mine.status.uuid IN
         /\ Exists(u)
         /\ seen' = [seen EXCEPT !.roles = kc[u].roles]
         /\ mine' = [mine EXCEPT !.status.roles = Tracking(kc[u].roles)]
    /\ Goto("roles")
    /\ UNCHANGED <<cluster, keycloak, peers, changed, vault, events>>

ListFails == /\ at = "list"
             /\ \/ ~Exists(mine.status.uuid) /\ UNCHANGED events
                \/ Event("fault")
             /\ Fail("roles failed")
             /\ UNCHANGED <<mine, cluster, keycloak, peers, vault>>

\* deleteUnwantedRoles; a 404 is as good as a deletion.
DeleteRole(n) ==
    /\ at = "roles"
    /\ n \in Unwanted
    /\ LET u == mine.status.uuid IN
         kc' = IF Exists(u) THEN [kc EXCEPT ![u].roles[n] = None] ELSE kc
    /\ \/ seen' = [seen EXCEPT !.roles[n] = None] /\ UNCHANGED <<at, outcome, tries, changed, events>>
       \/ Event("lostAnswer") /\ Fail("roles failed")
    /\ UNCHANGED <<me, mine, fresh, cluster, kcRealm, spent, peers, vault>>

RoleThere(u, n) == Exists(u) /\ kc[u].roles[n] # None

\* createOrUpdateRoles, on a role that is not as the spec has it: created if it was not
\* listed, else updated.
WriteRole(n) ==
    /\ at = "roles"
    /\ Unwanted = {}
    /\ LET u == mine.status.uuid
           wanted == mine.spec.roles[n]
       IN  /\ seen.roles[n] # wanted
           /\ Exists(u)
           /\ RoleThere(u, n) <=> seen.roles[n] # None
           /\ kc' = [kc EXCEPT ![u].roles[n] = wanted]
           /\ \/ /\ mine' = [mine EXCEPT !.status.roles = @ \cup {n}]
                 /\ seen' = [seen EXCEPT !.roles[n] = wanted]
                 /\ UNCHANGED <<at, me, fresh, outcome, tries, changed, events>>
              \/ Event("lostAnswer") /\ Fail("roles failed") /\ UNCHANGED mine
    /\ UNCHANGED <<cluster, kcRealm, spent, peers, vault>>

\* A role to be created is there (409), one to be updated is not (404), or worse.
RolesFail ==
    /\ at = "roles"
    /\ seen.roles # mine.spec.roles
    /\ \/ /\ Unwanted = {}
          /\ \E n \in RoleNames : /\ seen.roles[n] # mine.spec.roles[n]
                                  /\ \/ RoleThere(mine.status.uuid, n) # (seen.roles[n] # None)
                                     \/ ~Exists(mine.status.uuid)
          /\ UNCHANGED events
       \/ Event("fault")
    /\ Fail("roles failed")
    /\ UNCHANGED <<mine, cluster, keycloak, peers, vault>>

\* The client is read once more, for its secret.
GetCurrentClient ==
    /\ at = "roles"
    /\ seen.roles = mine.spec.roles
    /\ \/ Exists(mine.status.uuid) /\ seen' = kc[mine.status.uuid] /\ Goto("secret")
          /\ UNCHANGED <<changed, events>>
       \/ ~Exists(mine.status.uuid) /\ Fail("client not read again") /\ UNCHANGED events
       \/ Event("fault") /\ Fail("client not read again")
    /\ UNCHANGED <<mine, cluster, keycloak, peers, vault>>
-----------------------------------------------------------------------------
(* reconcileClientSecret.                                                   *)

SecretWanted == ~mine.spec.public /\ mine.spec.secret # None

\* updateSecretStatus, on the copy only.
SecretStatus(n) == mine' = [mine EXCEPT !.status.secret = n]

\* A public client's Secret is deleted if the status knows of it; without createSecret
\* nothing is done.
NoSecretWanted ==
    /\ at = "secret"
    /\ ~SecretWanted
    /\ LET n == mine.status.secret IN
         IF mine.spec.public /\ n # None
         THEN /\ secrets' = [secrets EXCEPT ![n] = Absent]
              /\ secretStale' = secretStale \cup {n}
         ELSE UNCHANGED <<secrets, secretStale>>
    /\ Succeed
    /\ UNCHANGED <<mine, cluster, keycloak, peers, secretCache, events>>

\* getClientSecret, getKeycloakInstanceConfig and SetControllerReference come first.
MaySetSecret == ~seen.public /\ config = "ready" /\ mine.spec.secret \notin Elsewhere

\* The Secret that is there, as far as the informer knows, is this client's and current.
SecretCurrent(s) == s # Absent /\ s.of = me /\ s.value = seen.secret

\* A create of what is there, or an update of an old copy, is refused.
WriteRefused(n) == IF secretCache[n] = Absent THEN secrets[n] # Absent ELSE n \in secretStale

\* A Secret that exists gets the data and keeps its owner.
SecretFor(there) == [owner |-> IF there = Absent THEN me ELSE there.owner,
                     of |-> me, value |-> seen.secret]

\* A mutant: a Secret that exists is left as it is.
CreateSecretOnly ==
    /\ at = "secret"
    /\ SecretWanted
    /\ MaySetSecret
    /\ LET n == mine.spec.secret IN
         /\ secretCache[n] = Absent /\ secrets[n] = Absent
              => secrets' = [secrets EXCEPT ![n] = SecretFor(@)] /\ secretStale' = secretStale \cup {n}
         /\ ~(secretCache[n] = Absent /\ secrets[n] = Absent) => UNCHANGED <<secrets, secretStale>>
         /\ SecretStatus(n)
    /\ Succeed
    /\ UNCHANGED <<cluster, keycloak, peers, secretCache, events>>

CreateOrUpdateClientSecret ==
    /\ at = "secret"
    /\ SecretWanted
    /\ MaySetSecret
    /\ LET n == mine.spec.secret IN
         /\ \/ SecretCurrent(secretCache[n]) /\ UNCHANGED <<secrets, secretStale>>
            \/ /\ ~SecretCurrent(secretCache[n])
               /\ ~WriteRefused(n)
               /\ secrets' = [secrets EXCEPT ![n] = SecretFor(@)]
               /\ secretStale' = secretStale \cup {n}
         /\ SecretStatus(n)
    /\ Succeed
    /\ UNCHANGED <<cluster, keycloak, peers, secretCache, events>>

SecretFails ==
    /\ at = "secret"
    /\ SecretWanted
    /\ LET n == mine.spec.secret IN
         \/ ~MaySetSecret /\ UNCHANGED events
         \/ MaySetSecret /\ ~SecretCurrent(secretCache[n]) /\ WriteRefused(n) /\ UNCHANGED events
         \/ Event("fault")
    /\ SecretStatus(None)
    /\ Fail("secret failed")
    /\ UNCHANGED <<cluster, keycloak, peers, vault>>
-----------------------------------------------------------------------------
(* updateStatus: read the cache, skip or write, at most MaxRetries times.   *)

StatusUnchanged(latest) == /\ latest.status.ready = outcome.ready
                           /\ latest.status.realmReady = outcome.realmReady
                           /\ latest.status.message = outcome.message

\* applyStatusUpdate: the UUID and the tracked roles are taken over when there are any,
\* the state of the Secret never is.
StatusApplied(latest) ==
    [latest EXCEPT
        !.status.ready = outcome.ready,
        !.status.realmReady = outcome.realmReady,
        !.status.message = outcome.message,
        !.status.uuid = IF mine.status.uuid # None THEN mine.status.uuid ELSE @,
        !.status.roles = IF mine.status.roles # {} THEN mine.status.roles ELSE @]

StatusSkipped == /\ at = "status"
                 /\ cache[me] # Absent
                 /\ StatusUnchanged(cache[me])
                 /\ Done
                 /\ UNCHANGED <<cluster, config, events>>

StatusWritten == /\ StatusAccepted(StatusApplied(cache[me]))
                 /\ ~StatusUnchanged(cache[me])

StatusConflict == /\ StatusRefused
                  /\ ~StatusUnchanged(cache[me])
-----------------------------------------------------------------------------
(* reconcileDelete.                                                         *)

\* A mutant: a 404 is an error.
DeleteClientThere ==
    /\ at = "delete"
    /\ LET u == mine.status.uuid IN
         \/ u = None /\ Goto("unfinalize") /\ UNCHANGED <<mine, kc>>
         \/ Exists(u) /\ kc' = [kc EXCEPT ![u] = Absent] /\ Goto("unfinalize") /\ UNCHANGED mine
         \/ u # None /\ ~Exists(u) /\ Done /\ UNCHANGED kc
    /\ UNCHANGED <<cluster, kcRealm, spent, peers, view, vault, events>>

DeleteClient ==
    /\ at = "delete"
    /\ LET u == mine.status.uuid IN
         \/ /\ u = None \/ realm = "absent" \/ ~Exists(u)
            /\ Goto("unfinalize") /\ UNCHANGED <<mine, kc, events>>
         \/ /\ Exists(u) /\ realm # "absent"
            /\ kc' = [kc EXCEPT ![u] = Absent]
            /\ \/ Goto("unfinalize") /\ UNCHANGED <<mine, events>>
               \/ Event("lostAnswer") /\ Done
    /\ UNCHANGED <<cluster, kcRealm, spent, peers, view, vault>>

\* A mutant: an error of the deletion is logged only.
DeleteFailsQuietly ==
    /\ at = "delete"
    /\ mine.status.uuid # None
    /\ realm # "absent"
    /\ Event("fault")
    /\ Goto("unfinalize")
    /\ UNCHANGED <<mine, cluster, keycloak, peers, view, vault>>

\* deleteClientRoles has deleted what it could of the tracked roles.
WithoutRoles(u, S) ==
    [kc EXCEPT ![u].roles = [n \in RoleNames |-> IF n \in S THEN None ELSE @[n]]]

DeleteFails == /\ at = "delete"
               /\ realm # "absent"
               /\ Event("fault")
               /\ LET u == mine.status.uuid IN
                    /\ u # None
                    /\ \/ ~Exists(u) /\ UNCHANGED kc
                       \/ Exists(u) /\ \E S \in SUBSET mine.status.roles : kc' = WithoutRoles(u, S)
               /\ Done
               /\ UNCHANGED <<cluster, kcRealm, spent, peers, view, vault>>

\* The Secrets of a client that is gone, which a namesake of another UID does not own.
Orphaned(vaulted, g) ==
    [n \in SecretNames |-> IF vaulted[n] # Absent /\ vaulted[n].owner = g
                           THEN [vaulted[n] EXCEPT !.owner = "gone"] ELSE vaulted[n]]

ReleaseClient ==
    /\ RemoveFinalizer
    /\ IF mine.finalizer /\ fresh
       THEN secrets' = Orphaned(secrets, me) /\ secretCache' = Orphaned(secretCache, me)
       ELSE UNCHANGED <<secrets, secretCache>>
    /\ UNCHANGED <<keycloak, realm, view, secretStale>>
-----------------------------------------------------------------------------
(* Everyone else.                                                           *)

\* The user, and the garbage collector once the owning Realm is gone.  A clientId is
\* immutable.
User(g) == \/ \E s \in Specs[g] : \/ Create(g, NewObject(s))
                                  \/ Edit(g, s) /\ s.clientId = obj[g].spec.clientId
           \/ Delete(g)

\* The Realm resource: made with the Keycloak realm, gone after it.
RealmChanges == /\ \/ realm = "absent" /\ realm' = "notReady" /\ UNCHANGED <<keycloak, events>>
                   \/ /\ realm # "absent" /\ ~(realm = "ready" /\ kcRealm)
                      /\ realm' = "ready" /\ kcRealm' = TRUE
                      /\ UNCHANGED <<kc, spent, events>>
                   \/ realm = "ready" /\ realm' = "notReady" /\ Event("outage") /\ UNCHANGED keycloak
                   \/ realm # "absent" /\ "realmDeleted" \in Disturbances /\ ~kcRealm /\ realm' = "absent"
                        /\ UNCHANGED <<keycloak, events>>
                   \/ /\ kcRealm /\ Event("realmDeleted")
                      /\ kcRealm' = FALSE
                      /\ kc' = [i \in Ids |-> Absent]
                      /\ UNCHANGED <<realm, spent>>
                /\ UNCHANGED <<config, cluster, worker, view, vault>>

\* An administrator works in the Keycloak console.
ConsoleDeletes(i) == /\ Exists(i)
                     /\ Event("handDelete")
                     /\ \/ kc' = [kc EXCEPT ![i] = Absent]
                        \/ \E n \in Named(kc[i].roles) : kc' = [kc EXCEPT ![i].roles[n] = None]
                     /\ UNCHANGED <<cluster, kcRealm, spent, peers, worker, view, vault>>

\* A client made under the worker's eyes, while it looks for the new client of that
\* clientId, is no different from the one it made.
MadeFor(c) == IF at = "store" /\ c = mine.spec.clientId THEN me ELSE None

ConsoleCreates(i) ==
    /\ kcRealm /\ Unused(i)
    /\ Event("handMade")
    /\ \E g \in Clients : \E s \in Specs[g] : \E secret \in Secrets :
         /\ ~ClientIdTaken(s.clientId)
         /\ kc' = [kc EXCEPT ![i] = [clientId |-> s.clientId, settings |-> s.settings,
                                     public |-> s.public, secret |-> secret,
                                     roles |-> s.roles, cr |-> MadeFor(s.clientId)]]
    /\ spent' = spent \cup {i}
    /\ UNCHANGED <<cluster, kcRealm, peers, worker, view, vault>>

\* It sets other settings, and sets or creates a role.
ConsoleEdits(i) ==
    /\ Exists(i)
    /\ Event("handEdit")
    /\ \E g \in Clients : \E s \in Specs[g] :
         \/ kc' = [kc EXCEPT ![i].settings = s.settings, ![i].public = s.public]
         \/ \E n \in Named(s.roles) : kc' = [kc EXCEPT ![i].roles[n] = s.roles[n]]
    /\ UNCHANGED <<cluster, kcRealm, spent, peers, worker, view, vault>>

ConsoleRotates(i) == /\ Exists(i)
                     /\ Event("rotation")
                     /\ \E secret \in Secrets \ {kc[i].secret} : kc' = [kc EXCEPT ![i].secret = secret]
                     /\ UNCHANGED <<cluster, kcRealm, spent, peers, worker, view, vault>>

\* Users have a hand in the Secrets, too, and the garbage collector removes orphans.
SecretChanges(n) ==
    /\ \/ secrets[n] # Absent /\ Event("handDelete") /\ secrets' = [secrets EXCEPT ![n] = Absent]
       \/ /\ secrets[n] = Absent /\ Event("handMade")
          /\ \E v \in Secrets : secrets' = [secrets EXCEPT ![n] = [owner |-> None, of |-> None, value |-> v]]
       \/ /\ secrets[n] # Absent /\ secrets[n].owner = "gone"
          /\ secrets' = [secrets EXCEPT ![n] = Absent]
          /\ UNCHANGED events
    /\ secretStale' = secretStale \cup {n}
    /\ UNCHANGED <<cluster, keycloak, peers, worker, view, secretCache>>

SyncSecret(n) == /\ n \in secretStale
                 /\ secretCache' = [secretCache EXCEPT ![n] = secrets[n]]
                 /\ secretStale' = secretStale \ {n}
                 /\ UNCHANGED <<cluster, keycloak, peers, worker, view, secrets, events>>
-----------------------------------------------------------------------------
Work == \/ (ToClient \/ StatusGone \/ StatusSkipped \/ StatusWritten \/ StatusConflict)
             /\ UNCHANGED beyond
        \/ ValidateRealm \/ SetOwnerReference
        \/ FetchClient \/ FetchFails \/ UpdateClient \/ UpdateFails
        \/ \E i \in Ids : CreateClient(i)
        \/ CreateFails \/ StoreClientUUID \/ StoreFails
        \/ ListRoles \/ ListFails \/ RolesFail
        \/ \E n \in RoleNames : DeleteRole(n) \/ WriteRole(n)
        \/ GetCurrentClient
        \/ NoSecretWanted \/ CreateOrUpdateClientSecret \/ SecretFails
        \/ DeleteClient \/ DeleteFails \/ ReleaseClient

Restart == Crash /\ Forget /\ UNCHANGED <<keycloak, realm, vault>>

Others == \/ RealmChanges
          \/ \E i \in Ids : \/ ConsoleDeletes(i) \/ ConsoleCreates(i)
                            \/ ConsoleEdits(i) \/ ConsoleRotates(i)
          \/ \E n \in SecretNames : SecretChanges(n) \/ SyncSecret(n)

Next == \/ Work
        \/ \E g \in Clients : (Start(g) \/ User(g) \/ Sync(g)) /\ UNCHANGED beyond
        \/ ConfigChanges /\ UNCHANGED beyond
        \/ Restart
        \/ Others

Spec == Init /\ [][Next]_vars

(***************************************************************************)
(* As in GroupController: the worker goes on, every client is requeued     *)
(* after each outcome (status.go:42-52) or retried with backoff, and the   *)
(* informers catch up.                                                     *)
(***************************************************************************)
FairSpec == /\ Spec
            /\ WF_vars(Work)
            /\ \A g \in Clients : /\ SF_vars(Start(g) /\ UNCHANGED beyond)
                                  /\ WF_vars(Sync(g) /\ UNCHANGED beyond)
            /\ \A n \in SecretNames : WF_vars(SyncSecret(n))
-----------------------------------------------------------------------------
Labels == {"idle", "client", "finalizer", "realm", "owner", "fetch", "update", "create", "store",
           "list", "roles", "secret", "status", "delete", "unfinalize"}
Maybe(S) == S \cup {None}
SpecSet == UNION {Specs[g] : g \in Clients}
Messages == {"", "changed", "synced", "realm not found", "realm not ready", "owner",
             "client not read", "client not created", "manual intervention required",
             "UUID not retrieved", "roles failed", "client not read again", "secret failed",
             "deletion pending"}
Outcomes == [ready : BOOLEAN, realmReady : BOOLEAN, message : Messages]
OutcomeOK == outcome \in Outcomes \cup {None} /\ (at = "status" => outcome \in Outcomes)
Status == [ready : BOOLEAN, realmReady : BOOLEAN, message : Messages,
           uuid : Maybe(Ids), roles : SUBSET RoleNames, secret : Maybe(SecretNames)]
Object == [spec : SpecSet, deleting : BOOLEAN, finalizer : BOOLEAN, owned : BOOLEAN,
           status : Status]
Roles == [RoleNames -> Maybe(UNION {{s.roles[n] : n \in RoleNames} : s \in SpecSet})]
KcClients == [clientId : {s.clientId : s \in SpecSet}, settings : {s.settings : s \in SpecSet},
              public : BOOLEAN, secret : Secrets, roles : Roles, cr : Maybe(Clients)]
VaultSecrets == [owner : Maybe(Clients) \cup {"gone"}, of : Maybe(Clients), value : Secrets]

ASSUME AbsentAssumption ==
    Absent \notin Object /\ Absent \notin KcClients /\ Absent \notin VaultSecrets
ASSUME SpecsAssumption ==
    \A s \in SpecSet : /\ s.public \in BOOLEAN
                       /\ s.roles = [n \in RoleNames |-> s.roles[n]]
                       /\ s.secret \in Maybe(SecretNames)

\* The places where the worker holds what it read of the client.
Viewing == {"update", "list", "roles", "secret"}

ObjectsOK ==
    /\ obj \in [Clients -> Object \cup {Absent}]
    /\ cache \in [Clients -> Object \cup {Absent}]
    /\ stale \subseteq Clients
    /\ config \in {"ready", "notReady", "absent"}
    /\ realm \in {"ready", "notReady", "absent"}
    /\ kcRealm \in BOOLEAN
    /\ kc \in [Ids -> KcClients \cup {Absent}]
    /\ spent \subseteq Ids

WorkerOK ==
    /\ at \in Labels
    /\ fresh \in BOOLEAN
    /\ tries \in 0..MaxRetries
    /\ events \in 0..MaxEvents
    /\ OutcomeOK
    /\ at = "idle" => me = None /\ mine = Absent /\ ~fresh
    /\ at # "idle" => me \in Clients /\ mine \in Object

ViewOK == /\ changed \in BOOLEAN
          /\ at \in Viewing => seen \in KcClients
          /\ at \notin Viewing => seen = Absent /\ ~changed

VaultOK == /\ secrets \in [SecretNames -> VaultSecrets \cup {Absent}]
           /\ secretCache \in [SecretNames -> VaultSecrets \cup {Absent}]
           /\ secretStale \subseteq SecretNames

\* The type of every variable.
TypeOK == ObjectsOK /\ WorkerOK /\ ViewOK /\ VaultOK

\* One resource and its clients, as the abstract life of a managed resource.
Life(g) == IF obj[g] = Absent THEN "absent" ELSE IF obj[g].finalizer THEN "guarded" ELSE "bare"
Tracked(g) == IF obj[g] = Absent THEN None ELSE obj[g].status.uuid
LiveOf(g) == {i \in Ids : Exists(i) /\ kc[i].cr = g}

Managed(g) == INSTANCE ManagedResource WITH life <- Life(g), tracked <- Tracked(g), live <- LiveOf(g)

\* Each Client resource lives as ManagedResource says, against stale reads, refused
\* writes, crashes, lost answers and the work of others in Keycloak: no client is made
\* for a resource without the finalizer, and the resource goes only after the client its
\* status names (client/controller.go:109-111, 232-243).
ManagedSpec ==
    /\ \A g \in Clients : Managed(g)!Init
    /\ [][\A g \in Clients : Managed(g)!Next \/ UNCHANGED Managed(g)!vars]_vars

(***************************************************************************)
(* The parts of an inductive invariant.                                    *)
(***************************************************************************)
\* i is the id of an existing client made for g, or of none but such a client.
Live(i, g) == Exists(i) /\ kc[i].cr = g
NotAnothers(i, g) == Exists(i) => kc[i].cr = g

\* Before the worker's copy gets another status than the object.
Early == {"finalizer", "realm", "owner"}

\* What each place in Reconcile knows of the copy it works on.
PathsAreApart ==
    /\ at \in {"realm", "owner", "fetch", "create", "store"} \cup Viewing
          => mine.finalizer /\ ~mine.deleting
    /\ at = "finalizer" => ~mine.deleting
    /\ at \in {"delete", "unfinalize"} => mine.deleting

\* Every UUID in use has been given out, and Keycloak has no clients without a realm.
IdsAreSpent ==
    /\ \A i \in Ids : Exists(i) => i \in spent
    /\ \A g \in Clients : obj[g] # Absent => obj[g].status.uuid \in spent \cup {None}
    /\ \A g \in Clients : cache[g] # Absent => cache[g].status.uuid \in spent \cup {None}
    /\ at # "idle" => mine.status.uuid \in spent \cup {None}
    /\ ~kcRealm => \A i \in Ids : ~Exists(i)
    /\ realm = "absent" => ~kcRealm

\* A copy of an object that is no longer, or not yet, guarded names no client of its
\* own that exists: neither the copy of a released object nor that of its namesake.
UnguardedIsUntracked ==
    /\ \A g \in Clients : obj[g] # Absent /\ ~Guarded(g) => ~Live(obj[g].status.uuid, g)
    /\ \A g \in Clients :
         cache[g] # Absent /\ (~cache[g].finalizer \/ (cache[g].deleting /\ ~Guarded(g)))
            => ~Live(cache[g].status.uuid, g)
    /\ at # "idle" /\ (~mine.finalizer \/ (mine.deleting /\ ~Guarded(me)))
            => ~Live(mine.status.uuid, me)
    /\ at = "unfinalize" /\ fresh => ~Live(mine.status.uuid, me)

\* Keycloak holds no two clients of one clientId.
ClientIdsAreUnique ==
    \A i, j \in Ids : Exists(i) /\ Exists(j) /\ kc[i].clientId = kc[j].clientId => i = j

\* While the UUID of a new client is looked up by its clientId, no other client has it.
LookupFindsOwn ==
    at = "store" =>
        \A i \in Ids : Exists(i) /\ kc[i].clientId = mine.spec.clientId => NotAnothers(i, me)

\* No copy of a resource names a client made for another one, or by hand.
TracksNoOthers ==
    /\ \A g \in Clients : obj[g] # Absent => NotAnothers(obj[g].status.uuid, g)
    /\ \A g \in Clients : cache[g] # Absent => NotAnothers(cache[g].status.uuid, g)
    /\ at # "idle" => NotAnothers(mine.status.uuid, me)

\* A Secret has for owner a resource that is there and guarded, so that none outlives
\* its resource, and no status ever names one.
SecretsAreOwned ==
    /\ \A n \in SecretNames : /\ n \notin secretStale => secretCache[n] = secrets[n]
                              /\ secrets[n] # Absent /\ secrets[n].owner \in Clients
                                   => Guarded(secrets[n].owner)
    /\ \A g \in Clients : obj[g] # Absent => obj[g].status.secret = None
    /\ \A g \in Clients : cache[g] # Absent => cache[g].status.secret = None
    /\ at \notin {"idle", "status"} => mine.status.secret = None

IInv == /\ TypeOK
        /\ CopiesAgree(Clients, Early)
        /\ GuardIsLasting(Clients)
        /\ DeletingIsGuarded(Clients)
        /\ PathsAreApart
        /\ IdsAreSpent
        /\ UnguardedIsUntracked
        /\ ClientIdsAreUnique
        /\ LookupFindsOwn
        /\ TracksNoOthers
        /\ SecretsAreOwned

\* Whatever its copy says and whoever changes Keycloak under it, the worker changes and
\* deletes no client but the one made for its resource, nor the roles of another: its
\* lookup by clientId (client/keycloak_ops.go:72) never takes another client for its own.
MindsItsOwn ==
    [][kc' # kc /\ <<worker, view>>' # <<worker, view>>
         => \A i \in Ids : kc'[i] # kc[i] => NotAnothers(i, me)]_vars

\* The worker deletes a client only while the very resource it was made for, not one of
\* the past that the cache still shows, exists, has the finalizer and is marked for deletion.
DeletesOnlyCondemned ==
    [][\A i \in Ids :
         <<worker, view>>' # <<worker, view>> /\ kc[i] # Absent /\ kc'[i] = Absent =>
           \E g \in Clients : kc[i].cr = g /\ Guarded(g) /\ obj[g].deleting]_vars

\* A resource that says Ready and is not being deleted names a client that exists.  It
\* holds when nobody but the operator takes clients away.
ReadyClientExists ==
    \A g \in Clients :
        obj[g] # Absent /\ ~obj[g].deleting /\ obj[g].status.ready => Exists(obj[g].status.uuid)

\* What makes it so: only a resource with the finalizer is ever Ready, and the worker
\* decides on it with a copy that has the finalizer and names an existing client.
ReadyIsBacked ==
    /\ \A g \in Clients : obj[g] # Absent /\ obj[g].status.ready => obj[g].finalizer
    /\ at \in {"update", "list", "roles", "secret"} => Exists(mine.status.uuid)
    /\ at = "status" /\ outcome.ready =>
         mine.finalizer /\ ~mine.deleting /\ Exists(mine.status.uuid)
    /\ ReadyClientExists

Up == config = "ready" /\ realm = "ready" /\ kcRealm
Wanted(g) == obj[g] # Absent /\ ~obj[g].deleting
KeepsSecret(g) == ~obj[g].spec.public /\ obj[g].spec.secret # None
InSync(g) == LET u == obj[g].status.uuid IN
                 /\ Exists(u)
                 /\ kc[u].settings = obj[g].spec.settings
                 /\ kc[u].public = obj[g].spec.public
                 /\ kc[u].roles = obj[g].spec.roles
AsksForHelp(g) == obj[g].status.message = "manual intervention required"
Reachable(g) == Wanted(g) /\ Up /\ (KeepsSecret(g) => obj[g].spec.secret \notin Elsewhere)

\* A client that is wanted while its realm and config are up comes to be reported Ready
\* with the Keycloak client and the roles its spec describes, or the operator asks for
\* manual intervention; neither an update that failed unreported, nor roles made or
\* unmade by hand half-way through, nor a Secret that could not be written leave it in
\* between for ever.
ConvergesOrAsks ==
    \A g \in Clients :
        Reachable(g) ~> \/ ~Reachable(g)
                        \/ obj[g].status.ready /\ InSync(g)
                        \/ AsksForHelp(g)

\* The Secret an application reads comes to hold the secret the client has in Keycloak,
\* however often that is rotated and whoever changes or removes the Secret.
SecretFollows ==
    \A g \in Clients :
        Reachable(g) /\ KeepsSecret(g)
          ~> \/ ~(Reachable(g) /\ KeepsSecret(g))
             \/ AsksForHelp(g)
             \/ LET u == obj[g].status.uuid
                    s == secrets[obj[g].spec.secret]
                IN  Exists(u) /\ s # Absent /\ s.of = g /\ s.value = kc[u].secret

\* A client marked for deletion goes, once its config is and stays ready.
DeletionCompletes ==
    \A g \in Clients :
        obj[g] # Absent /\ ~Wanted(g) ~> obj[g] = Absent \/ config # "ready"
-----------------------------------------------------------------------------
\* What a comment promises and the code does not keep: once a client is public, the Secret
\* of its confidential days is cleaned up (client/controller.go:251).
PublicLeavesNoSecret ==
    [][NoSecretWanted /\ mine.spec.public
         => \A n \in SecretNames : secrets'[n] # Absent => secrets'[n].owner # me]_vars
=============================================================================
