------------------------- MODULE ClientControllerProofs -------------------------
(***************************************************************************)
(* Theorems about ClientController for any clients, specs, UUIDs, Secrets  *)
(* and bounds: IInv is inductive, each Client resource lives as            *)
(* ManagedResource says, the worker works on no client but its own and     *)
(* deletes it only when it is condemned, and Ready means there is one.     *)
(***************************************************************************)
EXTENDS ClientController, ReconcilerProofs, TLAPS

USE BoundsAssumption, NilAssumption, AbsentAssumption DEF Early, OutcomeOK

\* The outcomes of the code are outcomes.
LEMMA OutcomeType ==
    /\ \A r, q \in BOOLEAN, m \in Messages : Outcome(r, q, m) \in Outcomes
    /\ Pending \in Outcomes
BY DEF Outcome, Pending, Outcomes, Messages

\* The places and the bounds a reconcile starts and ends with.
LEMMA IdleType == /\ "idle" \in Labels /\ "idle" \notin Viewing /\ "status" \notin Viewing
                  /\ 0 \in 0..MaxRetries /\ 1 \in 0..MaxRetries /\ 0 \in 0..MaxEvents
BY DEF Labels, Viewing

\* The first state satisfies the inductive invariant.
LEMMA InitIInv == Init => IInv
<1> SUFFICES ASSUME Init PROVE IInv
  OBVIOUS
<1> USE DEF Init, Empty
<1>1. TypeOK
  BY IdleType DEF TypeOK, ObjectsOK, WorkerOK, ViewOK, VaultOK
<1>2. CopiesAgree(Clients, Early) /\ GuardIsLasting(Clients) /\ PathsAreApart
  BY IdleType DEF CopiesAgree, GuardIsLasting, PathsAreApart, Guarded
<1>3. DeletingIsGuarded(Clients) /\ IdsAreSpent
  BY DEF DeletingIsGuarded, IdsAreSpent, Exists
<1>4. UnguardedIsUntracked
  BY DEF UnguardedIsUntracked
<1>5. ClientIdsAreUnique /\ LookupFindsOwn /\ TracksNoOthers
  BY DEF ClientIdsAreUnique, LookupFindsOwn, TracksNoOthers, Exists
<1>6. SecretsAreOwned
  BY DEF SecretsAreOwned
<1>7. QED BY <1>1, <1>2, <1>3, <1>4, <1>5, <1>6 DEF IInv

\* A copy with other parts of its status is a copy still.
LEMMA StatusType ==
    ASSUME NEW o \in Object, NEW u \in Maybe(Ids), NEW R \in SUBSET RoleNames,
           NEW n \in Maybe(SecretNames)
    PROVE  /\ [o EXCEPT !.status.uuid = u, !.status.roles = R] \in Object
           /\ [o EXCEPT !.status.roles = R] \in Object
           /\ [o EXCEPT !.status.secret = n] \in Object
BY DEF Object, Status

\* Disturbances stay within their bound.
LEMMA EventsType ==
    ASSUME IInv, NEW kind, events' = events \/ Event(kind)
    PROVE  events' \in 0..MaxEvents
BY DEF IInv, TypeOK, WorkerOK, Event

\* Outside the places where it looks at a client, the worker remembers nothing of one.
LEMMA UnviewedFacts ==
    ASSUME IInv, at \notin Viewing
    PROVE  seen = Absent /\ changed = FALSE
BY DEF IInv, TypeOK, ViewOK

\* A step in which no client is made, renamed or handed to another resource.
NoneMade == \A i \in Ids : kc'[i] # Absent => /\ kc[i] # Absent
                                              /\ kc'[i].cr = kc[i].cr
                                              /\ kc'[i].clientId = kc[i].clientId

\* A step in which no client goes.
NoneLost == \A i \in Ids : kc[i] # Absent => kc'[i] # Absent

\* A reconcile that ends keeps the invariant, were clients deleted or not.
LEMMA DoneIInv ==
    ASSUME IInv, Done, UNCHANGED <<cluster, peers, kcRealm, spent, vault>>,
           seen' = Absent, changed' = FALSE, events' \in 0..MaxEvents,
           kc' \in [Ids -> KcClients \cup {Absent}], NoneMade
    PROVE  IInv'
<1> USE DEF Done, cluster, peers, vault, IInv, NoneMade
<1>1. TypeOK'
  BY IdleType DEF TypeOK, ObjectsOK, WorkerOK, ViewOK, VaultOK
<1>2. CopiesAgree(Clients, Early)' /\ GuardIsLasting(Clients)' /\ PathsAreApart'
  BY IdleType DEF CopiesAgree, GuardIsLasting, PathsAreApart, Guarded
<1>3. DeletingIsGuarded(Clients)' /\ IdsAreSpent'
  BY DEF DeletingIsGuarded, IdsAreSpent, Exists
<1>4. UnguardedIsUntracked'
  BY DEF UnguardedIsUntracked, Guarded, Live, Exists
<1>5. ClientIdsAreUnique' /\ LookupFindsOwn' /\ TracksNoOthers'
  BY DEF ClientIdsAreUnique, LookupFindsOwn, TracksNoOthers, NotAnothers, Exists
<1>6. SecretsAreOwned'
  BY DEF SecretsAreOwned, Guarded
<1>7. QED BY <1>1, <1>2, <1>3, <1>4, <1>5, <1>6

\* What the worker knows of clientIds and makers is known still when no client is made,
\* and it tracks the same client or none.
LEMMA KeptFacts ==
    ASSUME IInv, at # "idle", at' # "store", me' = me,
           mine'.status.uuid \in {mine.status.uuid, None}, NoneMade
    PROVE  ClientIdsAreUnique' /\ LookupFindsOwn' /\ NotAnothers(mine.status.uuid, me)'
BY DEF NoneMade, IInv, ClientIdsAreUnique, LookupFindsOwn, TracksNoOthers, NotAnothers, Exists

\* The Secrets, left alone.
LEMMA VaultFacts ==
    ASSUME IInv, UNCHANGED <<cluster, vault>>, at' = "status" \/ mine'.status.secret = None
    PROVE  VaultOK' /\ SecretsAreOwned'
BY DEF vault, cluster, IInv, TypeOK, VaultOK, SecretsAreOwned, Guarded

\* A worker that goes on and writes no object keeps the invariant, if the place it
\* comes to is one its copy may be in, and if what it makes in Keycloak, or begins to
\* track, is for a copy that is guarded.
LEMMA WorkIInv ==
    ASSUME IInv, at # "idle", at' \in Labels \ {"idle"},
           UNCHANGED <<cluster, peers, kcRealm, me, fresh>>,
           events' \in 0..MaxEvents, tries' \in 0..MaxRetries, OutcomeOK',
           mine' \in Object,
           mine' = [mine EXCEPT !.status = mine'.status],
           mine'.status.uuid \in spent' \cup {None},
           mine'.status.uuid = mine.status.uuid \/ (mine.finalizer /\ ~mine.deleting),
           kc' \in [Ids -> KcClients \cup {Absent}],
           spent \subseteq spent', spent' \subseteq Ids,
           \A i \in Ids : kc'[i] # Absent => i \in spent' /\ kcRealm,
           \A i \in Ids : kc'[i] # Absent =>
               \/ kc[i] # Absent /\ kc'[i].cr = kc[i].cr
               \/ i \notin spent /\ kc'[i].cr = me /\ mine.finalizer /\ ~mine.deleting,
           PathsAreApart', CopiesAgree(Clients, Early)',
           ClientIdsAreUnique', LookupFindsOwn', NotAnothers(mine.status.uuid, me)',
           ViewOK', VaultOK', SecretsAreOwned',
           at' = "unfinalize" /\ fresh => ~Live(mine.status.uuid, me)'
    PROVE  IInv'
<1> USE DEF cluster, peers, IInv
<1>0. /\ me \in Clients /\ mine \in Object /\ mine.status.uuid \in spent \cup {None}
      /\ mine'.deleting = mine.deleting /\ mine'.finalizer = mine.finalizer
  BY DEF TypeOK, WorkerOK, IdsAreSpent, Object
<1>1. TypeOK'
  BY <1>0 DEF TypeOK, ObjectsOK, WorkerOK
<1>2. GuardIsLasting(Clients)'
  BY <1>0 DEF GuardIsLasting, Guarded
<1>3. DeletingIsGuarded(Clients)' /\ IdsAreSpent'
  BY <1>0 DEF DeletingIsGuarded, IdsAreSpent, Exists
<1>4. ASSUME NEW i, NEW g \in Clients, i \in spent \cup {None}
      PROVE  (~Live(i, g) => ~Live(i, g)') /\ (NotAnothers(i, g) => NotAnothers(i, g)')
  BY <1>4 DEF Live, NotAnothers, Exists
<1>5. UnguardedIsUntracked'
  BY <1>0, <1>4 DEF UnguardedIsUntracked, Guarded, GuardIsLasting, IdsAreSpent
<1>6. TracksNoOthers'
  <2>1. \A g \in Clients : obj[g] # Absent => NotAnothers(obj[g].status.uuid, g)'
    BY <1>4 DEF TracksNoOthers, IdsAreSpent
  <2>2. \A g \in Clients : cache[g] # Absent => NotAnothers(cache[g].status.uuid, g)'
    BY <1>4 DEF TracksNoOthers, IdsAreSpent
  <2>3. QED BY <2>1, <2>2 DEF TracksNoOthers, NotAnothers, Exists
<1>7. QED BY <1>1, <1>2, <1>3, <1>5, <1>6
-----------------------------------------------------------------------------
(* The steps of the worker that write no object.                            *)

\* What holds of the copy between the finalizer and the status write.
LEMMA CopyFacts ==
    ASSUME IInv, at # "idle"
    PROVE  /\ me \in Clients
           /\ mine \in Object
           /\ mine = [mine EXCEPT !.status = mine.status]
           /\ mine.status.uuid \in spent \cup {None}
           /\ mine.status.uuid \in Maybe(Ids)
           /\ mine.status.roles \subseteq RoleNames
           /\ mine.spec \in SpecSet
           /\ kc \in [Ids -> KcClients \cup {Absent}]
           /\ spent \subseteq Ids
           /\ \A i \in Ids : kc[i] # Absent => i \in spent /\ kcRealm
           /\ OutcomeOK /\ tries \in 0..MaxRetries /\ events \in 0..MaxEvents
           /\ at \in Viewing => seen \in KcClients
           /\ changed \in BOOLEAN
           /\ at \notin {"idle", "status"} => mine.status.secret = None
BY DEF IInv, TypeOK, ObjectsOK, WorkerOK, ViewOK, IdsAreSpent, SecretsAreOwned, Object, Status,
   Exists

\* Going to write an outcome.
LEMMA ReportIInv ==
    ASSUME IInv, at # "idle", NEW o \in Outcomes, Report(o), seen' = Absent, changed' = FALSE,
           UNCHANGED <<mine, cluster, keycloak, peers, vault>>, events' \in 0..MaxEvents
    PROVE  IInv'
<1> USE DEF Report, keycloak
<1>1. at' = "status" /\ at' \in Labels /\ at' \notin Viewing
  BY DEF Labels, Viewing
<1>2. PathsAreApart' /\ CopiesAgree(Clients, Early)'
  BY <1>1 DEF IInv, PathsAreApart, CopiesAgree, cluster
<1>3. ViewOK' /\ NoneMade
  BY <1>1 DEF ViewOK, NoneMade
<1>4. QED
  BY <1>1, <1>2, <1>3, CopyFacts, IdleType, KeptFacts, VaultFacts, WorkIInv

\* Beginning a reconcile: the copy is the cache's.
LEMMA StartIInv ==
    ASSUME IInv, NEW g \in Clients, Start(g), UNCHANGED beyond
    PROVE  IInv'
<1> USE DEF Start, cluster, beyond, keycloak, peers, view, vault, IInv
<1>1. TypeOK'
  BY DEF TypeOK, ObjectsOK, WorkerOK, ViewOK, VaultOK, Labels, Viewing
<1>2. CopiesAgree(Clients, Early)' /\ GuardIsLasting(Clients)' /\ PathsAreApart'
  BY DEF TypeOK, ObjectsOK, WorkerOK, CopiesAgree, GuardIsLasting, PathsAreApart, Guarded, Viewing
<1>3. DeletingIsGuarded(Clients)' /\ IdsAreSpent'
  BY DEF TypeOK, ObjectsOK, WorkerOK, DeletingIsGuarded, IdsAreSpent, Exists
<1>4. UnguardedIsUntracked'
  BY DEF TypeOK, ObjectsOK, WorkerOK, UnguardedIsUntracked, Guarded, Live, Exists
<1>5. ClientIdsAreUnique' /\ LookupFindsOwn' /\ TracksNoOthers'
  BY DEF ClientIdsAreUnique, LookupFindsOwn, TracksNoOthers, NotAnothers, Exists
<1>6. SecretsAreOwned'
  BY DEF SecretsAreOwned, Guarded
<1>7. QED BY <1>1, <1>2, <1>3, <1>4, <1>5, <1>6

\* Looking at the config and at the realm.
LEMMA PrepareIInv ==
    ASSUME IInv, ClientReady \/ ClientNotReady(Pending) \/ NoKeycloakClient \/ ValidateRealm,
           UNCHANGED <<keycloak, realm, view, vault>>
    PROVE  IInv'
<1> USE DEF ClientReady, ClientNotReady, NoKeycloakClient, ValidateRealm
<1>1. /\ at # "idle" /\ at \notin Viewing /\ UNCHANGED <<cluster, keycloak, peers, view, vault>>
      /\ seen' = Absent /\ changed' = FALSE /\ kc' = kc /\ spent' = spent /\ kcRealm' = kcRealm
  BY UnviewedFacts DEF Viewing, peers, keycloak, view
<1>. events' \in 0..MaxEvents
  BY EventsType
<1>2. NoneMade
  BY <1>1 DEF NoneMade
<1>3. CASE Done
  BY <1>1, <1>2, <1>3, CopyFacts, DoneIInv
<1>4. ASSUME NEW o \in Outcomes, Report(o), UNCHANGED mine
      PROVE  IInv'
  BY <1>1, <1>4, ReportIInv
<1>5. CASE ClientReady \/ (ValidateRealm /\ Goto("owner"))
  <2> USE DEF Goto
  <2>1. /\ at' \in Labels \ {"idle"} /\ at' \notin {"unfinalize", "status", "store"}
        /\ at' \notin Viewing
    BY <1>5 DEF Labels, Viewing
  <2>2. UNCHANGED <<mine, me, fresh, outcome, tries>>
    BY <1>5
  <2>3. OutcomeOK' /\ ViewOK'
    BY <1>1, <2>1, <2>2, CopyFacts DEF ViewOK
  <2>4. PathsAreApart'
    BY <1>5, <2>1, <2>2 DEF IInv, PathsAreApart
  <2>5. CopiesAgree(Clients, Early)'
    BY <1>1, <1>5, <2>2 DEF IInv, CopiesAgree, cluster
  <2>6. mine'.status.secret = None
    BY <1>5, <2>2, CopyFacts
  <2>7. QED
    BY <1>1, <1>2, <2>1, <2>2, <2>3, <2>4, <2>5, <2>6, CopyFacts, KeptFacts, VaultFacts, WorkIInv
<1>6. QED
  BY <1>3, <1>4, <1>5, OutcomeType DEF Messages

Core == {"owner", "fetch", "create", "store"} \cup Viewing

\* Between the owner reference and the status write, the worker goes from place to
\* place with a copy that is guarded, and only its status changes.
LEMMA CoreIInv ==
    ASSUME IInv, at \in Core, at' \in (Core \ {"owner"}) \cup {"status"},
           UNCHANGED <<cluster, peers, kcRealm, me, fresh>>,
           events' \in 0..MaxEvents, tries' \in 0..MaxRetries, OutcomeOK',
           mine' \in Object,
           mine' = [mine EXCEPT !.status = mine'.status],
           mine'.status.uuid \in spent' \cup {None},
           kc' \in [Ids -> KcClients \cup {Absent}],
           spent \subseteq spent', spent' \subseteq Ids,
           \A i \in Ids : kc'[i] # Absent => i \in spent' /\ kcRealm,
           \A i \in Ids : kc'[i] # Absent =>
               \/ kc[i] # Absent /\ kc'[i].cr = kc[i].cr
               \/ i \notin spent /\ kc'[i].cr = me,
           ClientIdsAreUnique', LookupFindsOwn', NotAnothers(mine.status.uuid, me)',
           ViewOK', VaultOK', SecretsAreOwned'
    PROVE  IInv'
<1>1. at # "idle" /\ mine.finalizer /\ ~mine.deleting
  BY DEF IInv, PathsAreApart, Core, Viewing
<1>2. /\ mine \in Object /\ me \in Clients
      /\ mine'.deleting = mine.deleting /\ mine'.finalizer = mine.finalizer
      /\ mine'.spec = mine.spec
  BY <1>1, CopyFacts DEF Object
<1>3. /\ at' \in Labels \ {"idle"} /\ at' # "unfinalize"
      /\ at' \notin {"client", "finalizer", "realm", "owner", "delete", "unfinalize"}
  BY DEF Labels, Core, Viewing
<1>4. PathsAreApart'
  BY <1>1, <1>2, <1>3 DEF PathsAreApart
<1>5. CopiesAgree(Clients, Early)'
  BY <1>2, <1>3 DEF IInv, CopiesAgree, cluster
<1>6. QED BY <1>1, <1>2, <1>3, <1>4, <1>5, WorkIInv

\* The same for a step that makes no client, begins to track none and leaves the Secrets.
LEMMA KeepIInv ==
    ASSUME IInv, at \in Core, at' \in (Core \ {"owner", "store"}) \cup {"status"},
           UNCHANGED <<cluster, peers, kcRealm, spent, vault, me, fresh>>,
           events' \in 0..MaxEvents, tries' \in 0..MaxRetries, OutcomeOK', ViewOK',
           mine' \in Object,
           mine' = [mine EXCEPT !.status = mine'.status],
           mine'.status.uuid \in {mine.status.uuid, None},
           mine'.status.secret = mine.status.secret \/ at' = "status",
           kc' \in [Ids -> KcClients \cup {Absent}], NoneMade
    PROVE  IInv'
<1>1. at # "idle" /\ at # "status" /\ at' # "store"
  BY DEF Core, Viewing
<1>2. /\ ClientIdsAreUnique' /\ LookupFindsOwn' /\ NotAnothers(mine.status.uuid, me)'
      /\ VaultOK' /\ SecretsAreOwned'
  BY <1>1, CopyFacts, KeptFacts, VaultFacts
<1>3. /\ \A i \in Ids : kc'[i] # Absent => i \in spent' /\ kcRealm
      /\ \A i \in Ids : kc'[i] # Absent => kc[i] # Absent /\ kc'[i].cr = kc[i].cr
      /\ mine'.status.uuid \in spent' \cup {None}
  BY <1>1, CopyFacts DEF NoneMade
<1>4. QED BY <1>1, <1>2, <1>3, CopyFacts, CoreIInv

\* Reading the client the status names.
LEMMA FetchIInv ==
    ASSUME IInv, FetchClient \/ FetchFails
    PROVE  IInv'
<1> USE DEF FetchClient, FetchFails
<1>1. /\ at = "fetch" /\ at \in Core /\ at # "idle" /\ at \notin Viewing /\ kc' = kc /\ NoneMade
      /\ UNCHANGED <<cluster, peers, kcRealm, spent, vault, me, fresh>>
  BY DEF Goto, Fail, Report, keycloak, Core, Viewing, NoneMade
<1>2. events' \in 0..MaxEvents
  BY EventsType
<1>3. /\ at' \in {"create", "update", "list", "status"}
      /\ at' \in (Core \ {"owner", "store"}) \cup {"status"}
      /\ tries' \in 0..MaxRetries /\ OutcomeOK'
  BY <1>1, CopyFacts, OutcomeType, IdleType DEF Goto, Fail, Report, Messages, Core, Viewing
<1>4. ViewOK'
  <2>1. seen = Absent /\ changed = FALSE
    BY <1>1, UnviewedFacts
  <2>2. CASE Exists(mine.status.uuid) /\ seen' = kc[mine.status.uuid] /\ changed' = changed
             /\ at' \in {"update", "list"}
    BY <1>1, <2>1, <2>2, CopyFacts DEF Exists, ViewOK, Viewing
  <2>3. CASE seen' = Absent /\ changed' = FALSE /\ at' \in {"create", "status"}
    BY <2>3 DEF ViewOK, Viewing
  <2>4. QED BY <1>1, <2>1, <2>2, <2>3 DEF Goto, Fail, Forget, Report
<1>5. mine' = mine \/ ClearClientState
  OBVIOUS
<1>6. /\ mine' \in Object /\ mine' = [mine EXCEPT !.status = mine'.status]
      /\ mine'.status.uuid \in {mine.status.uuid, None}
      /\ mine'.status.secret = mine.status.secret
  <2>1. mine \in Object /\ None \in Maybe(Ids) /\ {} \in SUBSET RoleNames
        /\ None \in Maybe(SecretNames)
    BY <1>1, CopyFacts DEF Maybe
  <2>2. CASE mine' = mine
    BY <2>1, <2>2 DEF Object
  <2>3. CASE ClearClientState
    <3>1. mine' \in Object
      BY <2>1, <2>3, StatusType DEF ClearClientState
    <3>2. QED BY <2>1, <2>3, <3>1 DEF ClearClientState, Object, Status
  <2>4. QED BY <1>5, <2>2, <2>3
<1>7. QED
  BY <1>1, <1>2, <1>3, <1>4, <1>6, CopyFacts, KeepIInv

\* Another status of the copy's roles changes nothing else.
LEMMA RolesTracked ==
    ASSUME NEW o \in Object, NEW R \in SUBSET RoleNames
    PROVE  LET p == [o EXCEPT !.status.roles = R]
           IN  /\ p \in Object /\ p = [o EXCEPT !.status = p.status]
               /\ p.status.uuid = o.status.uuid /\ p.status.secret = o.status.secret
<1> DEFINE p == [o EXCEPT !.status.roles = R]
<1>1. p \in Object
  BY DEF Object, Status
<1>2. p = [o EXCEPT !.status = p.status] /\ p.status.uuid = o.status.uuid
      /\ p.status.secret = o.status.secret
  BY <1>1 DEF Object, Status
<1>3. QED BY <1>1, <1>2

WithRole(c, n, d) == [c EXCEPT !.roles[n] = d]

\* A client with one role changed is a client still.
LEMMA RoleType ==
    ASSUME NEW c \in KcClients, NEW s \in SpecSet, NEW n \in RoleNames,
           NEW d \in {s.roles[n], None}
    PROVE  /\ WithRole(c, n, d) \in KcClients
           /\ WithRole(c, n, d).cr = c.cr
           /\ WithRole(c, n, d).clientId = c.clientId
<1>1. s.roles[n] \in UNION {{t.roles[m] : m \in RoleNames} : t \in SpecSet}
  OBVIOUS
<1>2. [c.roles EXCEPT ![n] = d] \in Roles
  BY <1>1 DEF KcClients, Roles, Maybe
<1>3. QED BY <1>2 DEF WithRole, KcClients

\* One client of Keycloak, changed but not in its maker or its clientId.
LEMMA OneFacts ==
    ASSUME kc \in [Ids -> KcClients \cup {Absent}], NEW u, Exists(u),
           NEW c \in KcClients, c.cr = kc[u].cr, c.clientId = kc[u].clientId,
           kc' = [kc EXCEPT ![u] = c]
    PROVE  kc' \in [Ids -> KcClients \cup {Absent}] /\ NoneMade /\ NoneLost
BY DEF Exists, NoneMade, NoneLost

\* The update writes the client that is there, and leaves its maker and its clientId.
LEMMA UpdateFacts ==
    ASSUME IInv, UpdateClient \/ UpdateFails
    PROVE  kc' \in [Ids -> KcClients \cup {Absent}] /\ NoneMade /\ NoneLost
<1>1. at = "update" /\ at # "idle" /\ at \in Viewing
  BY DEF UpdateClient, UpdateFails, Viewing
<1>2. CASE kc' = kc
  BY <1>1, <1>2, CopyFacts DEF NoneMade, NoneLost
<1>3. CASE Exists(mine.status.uuid) /\ kc' = Updated(mine.status.uuid)
  <2> DEFINE u == mine.status.uuid
             field == [kc[u] EXCEPT !.settings = mine.spec.settings,
                                    !.public = mine.spec.public]
             c == [field EXCEPT !.secret = seen.secret]
  <2>1. u \in Ids /\ kc[u] \in KcClients /\ seen.secret \in Secrets /\ mine.spec \in SpecSet
    BY <1>1, <1>3, CopyFacts DEF Exists, KcClients
  <2>2. c \in KcClients /\ c.cr = kc[u].cr /\ c.clientId = kc[u].clientId
    BY <2>1, SpecsAssumption DEF KcClients
  <2>3. kc' = [kc EXCEPT ![u] = c]
    BY <1>1, <1>3, <2>1, CopyFacts DEF Updated, KcClients
  <2> HIDE DEF c
  <2>4. QED BY <1>1, <1>3, <2>2, <2>3, CopyFacts, OneFacts
<1>4. QED BY <1>2, <1>3 DEF UpdateClient, UpdateFails, keycloak

\* Updating the client, or going on without.
LEMMA UpdateIInv ==
    ASSUME IInv, UpdateClient \/ UpdateFails
    PROVE  IInv'
<1>1. /\ at = "update" /\ at \in Core /\ at # "idle" /\ at \in Viewing /\ at' = "list"
      /\ at' \in (Core \ {"owner", "store"}) \cup {"status"}
      /\ UNCHANGED <<cluster, peers, kcRealm, spent, vault, mine, me, fresh, outcome, tries, seen>>
  BY DEF UpdateClient, UpdateFails, Goto, keycloak, view, Core, Viewing
<1>2. events' \in 0..MaxEvents
  BY EventsType DEF UpdateClient, UpdateFails
<1>3. ViewOK' /\ OutcomeOK'
  <2>1. changed' \in BOOLEAN
    BY <1>1, CopyFacts DEF UpdateClient, UpdateFails, view
  <2>2. QED BY <1>1, <2>1, CopyFacts DEF ViewOK, Viewing
<1>4. kc' \in [Ids -> KcClients \cup {Absent}] /\ NoneMade
  BY UpdateFacts
<1>5. QED
  BY <1>1, <1>2, <1>3, <1>4, CopyFacts, KeepIInv

\* Creating the client, with an id never used before.
LEMMA CreateIInv ==
    ASSUME IInv, NEW i \in Ids, CreateClient(i)
    PROVE  IInv'
<1>1. /\ at = "create" /\ at \in Core /\ at # "idle" /\ at \notin Viewing
      /\ UNCHANGED <<cluster, peers, kcRealm, vault, mine, me, fresh>>
  BY DEF CreateClient, Fail, Goto, Report, Core, Viewing
<1>2. events' \in 0..MaxEvents
  BY EventsType DEF CreateClient
<1>3. /\ at' \in {"store", "status"} /\ at' \in (Core \ {"owner"}) \cup {"status"}
      /\ tries' \in 0..MaxRetries /\ OutcomeOK'
  BY <1>1, CopyFacts, OutcomeType, IdleType DEF CreateClient, Fail, Goto, Report, Messages, Core
<1>4. ViewOK' /\ VaultOK' /\ SecretsAreOwned'
  <2>1. seen' = Absent /\ changed' = FALSE
    BY <1>1, UnviewedFacts DEF CreateClient, Fail, Forget, view
  <2>2. ViewOK'
    BY <1>3, <2>1 DEF ViewOK, Viewing
  <2>3. QED BY <1>1, <2>2, CopyFacts, VaultFacts
<1>5. PICK v \in Secrets : kc' = [kc EXCEPT ![i] = NewClient(v)]
  BY DEF CreateClient
<1>6. /\ NewClient(v) \in KcClients /\ NewClient(v).cr = me
      /\ NewClient(v).clientId = mine.spec.clientId
  BY <1>1, CopyFacts, SpecsAssumption DEF NewClient, NoRoles, KcClients, Roles, Maybe
<1>7. /\ spent' = spent \cup {i}
      /\ i \notin spent /\ kcRealm /\ ~ClientIdTaken(mine.spec.clientId)
  BY DEF CreateClient, Unused
<1>8. ClientIdsAreUnique'
  BY <1>1, <1>5, <1>6, <1>7, CopyFacts DEF IInv, ClientIdsAreUnique, ClientIdTaken, Exists
<1>9. LookupFindsOwn'
  BY <1>1, <1>5, <1>6, <1>7, CopyFacts DEF LookupFindsOwn, ClientIdTaken, NotAnothers, Exists
<1>10. NotAnothers(mine.status.uuid, me)'
  BY <1>1, <1>5, <1>6, <1>7, CopyFacts DEF IInv, TracksNoOthers, NotAnothers, Exists
<1>11. QED
  BY <1>1, <1>2, <1>3, <1>4, <1>5, <1>6, <1>7, <1>8, <1>9, <1>10, CopyFacts, CoreIInv

\* Looking the new client up by its clientId.
LEMMA StoreIInv ==
    ASSUME IInv, StoreClientUUID
    PROVE  IInv'
<1>1. /\ at = "store" /\ at \in Core /\ at # "idle" /\ at' = "list"
      /\ at' \in (Core \ {"owner"}) \cup {"status"}
      /\ UNCHANGED <<cluster, keycloak, peers, vault, me, fresh, outcome, tries, events>>
  BY DEF StoreClientUUID, Goto, Core, Viewing
<1>2. PICK i \in Ids : /\ Exists(i) /\ kc[i].clientId = mine.spec.clientId
                       /\ mine' = [mine EXCEPT !.status.uuid = i, !.status.roles = {}]
                       /\ seen' = kc[i]
  BY DEF StoreClientUUID
<1>3. /\ mine' \in Object /\ mine' = [mine EXCEPT !.status = mine'.status]
      /\ mine'.status.uuid = i /\ mine'.status.secret = mine.status.secret
  <2>1. mine \in Object
    BY <1>1, CopyFacts
  <2>2. mine' \in Object
    BY <1>2, <2>1 DEF Object, Status, Maybe
  <2>3. QED BY <1>2, <2>1, <2>2 DEF Object, Status
<1>4. i \in spent /\ NotAnothers(i, me)
  BY <1>1, <1>2, CopyFacts DEF IInv, LookupFindsOwn, Exists
<1>5. /\ ClientIdsAreUnique' /\ LookupFindsOwn' /\ NotAnothers(mine.status.uuid, me)'
  BY <1>1, <1>3, <1>4 DEF IInv, ClientIdsAreUnique, LookupFindsOwn, NotAnothers, keycloak, Exists
<1>6. ViewOK' /\ VaultOK' /\ SecretsAreOwned'
  BY <1>1, <1>2, <1>3, CopyFacts, VaultFacts DEF StoreClientUUID, ViewOK, Viewing, Exists
<1>7. QED
  BY <1>1, <1>3, <1>4, <1>5, <1>6, CopyFacts, CoreIInv DEF keycloak

\* The failures between the fetch and the Secret.
LEMMA FailIInv ==
    ASSUME IInv, CreateFails \/ StoreFails \/ ListFails \/ RolesFail
    PROVE  IInv'
<1> USE DEF CreateFails, StoreFails, ListFails, RolesFail
<1>1. /\ at # "idle"
      /\ UNCHANGED <<mine, cluster, keycloak, peers, vault>>
  OBVIOUS
<1>2. events' \in 0..MaxEvents
  BY EventsType
<1>3. PICK m \in Messages : Fail(m)
  BY DEF Messages
<1>4. QED
  BY <1>1, <1>2, <1>3, OutcomeType, ReportIInv DEF Fail, Forget

\* Listing the roles.
LEMMA ListIInv ==
    ASSUME IInv, ListRoles
    PROVE  IInv'
<1> DEFINE u == mine.status.uuid
<1>1. /\ at = "list" /\ at \in Core /\ at # "idle" /\ at \in Viewing /\ at' = "roles"
      /\ at' \in (Core \ {"owner", "store"}) \cup {"status"} /\ kc' = kc /\ NoneMade
      /\ UNCHANGED <<cluster, peers, kcRealm, spent, vault, me, fresh, outcome, tries, events>>
  BY DEF ListRoles, Goto, keycloak, Core, Viewing, NoneMade
<1>2. seen \in KcClients /\ kc[u] \in KcClients
  BY <1>1, CopyFacts DEF ListRoles, Exists
<1>3. [seen EXCEPT !.roles = kc[u].roles] \in KcClients
  BY <1>2 DEF KcClients
<1>4. ViewOK'
  BY <1>1, <1>3, CopyFacts DEF ListRoles, ViewOK, Viewing
<1>5. Tracking(kc[u].roles) \in SUBSET RoleNames
  BY DEF Tracking, Named
<1>6. /\ mine' = [mine EXCEPT !.status.roles = Tracking(kc[u].roles)] /\ mine \in Object
  BY <1>1, CopyFacts DEF ListRoles
<1>7. /\ mine' \in Object /\ mine' = [mine EXCEPT !.status = mine'.status]
      /\ mine'.status.uuid = mine.status.uuid /\ mine'.status.secret = mine.status.secret
  BY <1>5, <1>6, RolesTracked
<1>8. QED
  BY <1>1, <1>4, <1>7, CopyFacts, KeepIInv

\* What a call about one role makes of the client in Keycloak.
LEMMA RoleFacts ==
    ASSUME IInv, at # "idle", NEW n \in RoleNames, NEW s \in SpecSet,
           NEW d \in {s.roles[n], None}, NEW u, Exists(u), kc' = [kc EXCEPT ![u].roles[n] = d]
    PROVE  kc' \in [Ids -> KcClients \cup {Absent}] /\ NoneMade /\ NoneLost
<1> DEFINE c == WithRole(kc[u], n, d)
<1>1. u \in Ids /\ kc[u] \in KcClients /\ kc \in [Ids -> KcClients \cup {Absent}]
  BY CopyFacts DEF Exists
<1>2. c \in KcClients /\ c.cr = kc[u].cr /\ c.clientId = kc[u].clientId
  BY <1>1, RoleType
<1>3. kc' = [kc EXCEPT ![u] = c]
  BY <1>1 DEF WithRole
<1> HIDE DEF c
<1>4. QED BY <1>1, <1>2, <1>3, OneFacts

\* The same of a call about one role.
LEMMA RoleCallFacts ==
    ASSUME IInv, NEW n \in RoleNames, DeleteRole(n) \/ WriteRole(n)
    PROVE  kc' \in [Ids -> KcClients \cup {Absent}] /\ NoneMade /\ NoneLost
<1> DEFINE u == mine.status.uuid
<1>1. at = "roles" /\ at # "idle" /\ mine.spec \in SpecSet
  BY CopyFacts DEF DeleteRole, WriteRole
<1>2. PICK d \in {mine.spec.roles[n], None} :
        \/ kc' = kc
        \/ Exists(u) /\ kc' = [kc EXCEPT ![u].roles[n] = d]
  BY DEF DeleteRole, WriteRole
<1>3. CASE kc' = kc
  BY <1>1, <1>3, CopyFacts DEF NoneMade, NoneLost
<1>4. CASE Exists(u) /\ kc' = [kc EXCEPT ![u].roles[n] = d]
  BY <1>1, <1>4, CopyFacts, RoleFacts
<1>5. QED BY <1>2, <1>3, <1>4

\* Deleting and writing roles, one at a time.
LEMMA RolesIInv ==
    ASSUME IInv, NEW n \in RoleNames, DeleteRole(n) \/ WriteRole(n)
    PROVE  IInv'
<1> USE DEF DeleteRole, WriteRole
<1> DEFINE u == mine.status.uuid
<1>1. /\ at = "roles" /\ at \in Core /\ at # "idle" /\ at \in Viewing
      /\ UNCHANGED <<cluster, peers, kcRealm, spent, vault, me, fresh>>
  BY DEF Fail, Report, Core, Viewing
<1>2. events' \in 0..MaxEvents
  BY EventsType
<1>3. /\ at' \in {"roles", "status"} /\ at' \in (Core \ {"owner", "store"}) \cup {"status"}
      /\ tries' \in 0..MaxRetries /\ OutcomeOK'
  BY <1>1, CopyFacts, OutcomeType, IdleType DEF Fail, Report, Messages, Core, Viewing
<1>4. PICK d \in {mine.spec.roles[n], None} :
        /\ \/ kc' = kc
           \/ Exists(u) /\ kc' = [kc EXCEPT ![u].roles[n] = d]
        /\ \/ at' = "roles" /\ seen' = [seen EXCEPT !.roles[n] = d] /\ changed' = changed
           \/ at' = "status" /\ Forget
  BY <1>1 DEF Fail, Report
<1>5. kc' \in [Ids -> KcClients \cup {Absent}] /\ NoneMade
  BY RoleCallFacts
<1>6. ViewOK'
  <2>1. seen \in KcClients /\ mine.spec \in SpecSet /\ changed \in BOOLEAN
    BY <1>1, CopyFacts
  <2>2. WithRole(seen, n, d) \in KcClients
    BY <2>1, RoleType
  <2>3. QED BY <1>4, <2>1, <2>2 DEF WithRole, ViewOK, Viewing, Forget
<1>7. mine' = mine \/ mine' = [mine EXCEPT !.status.roles = mine.status.roles \cup {n}]
  BY <1>1, CopyFacts DEF Object, Status
<1>8. /\ mine' \in Object /\ mine' = [mine EXCEPT !.status = mine'.status]
      /\ mine'.status.uuid = mine.status.uuid /\ mine'.status.secret = mine.status.secret
  <2>1. mine \in Object /\ mine.status.roles \cup {n} \in SUBSET RoleNames
    BY <1>1, CopyFacts
  <2>2. CASE mine' = mine
    BY <1>1, <2>2, CopyFacts
  <2>3. CASE mine' = [mine EXCEPT !.status.roles = mine.status.roles \cup {n}]
    BY <2>1, <2>3, RolesTracked
  <2>4. QED BY <1>7, <2>2, <2>3
<1>9. QED
  BY <1>1, <1>2, <1>3, <1>5, <1>6, <1>8, CopyFacts, KeepIInv

\* Reading the client once more.
LEMMA CurrentIInv ==
    ASSUME IInv, GetCurrentClient
    PROVE  IInv'
<1> USE DEF GetCurrentClient
<1>1. /\ at = "roles" /\ at \in Core /\ at # "idle" /\ at \in Viewing /\ kc' = kc /\ NoneMade
      /\ UNCHANGED <<mine, cluster, peers, kcRealm, spent, vault, me, fresh>>
  BY DEF Goto, Fail, Report, keycloak, Core, Viewing, NoneMade
<1>2. events' \in 0..MaxEvents
  BY EventsType
<1>3. /\ at' \in {"secret", "status"} /\ at' \in (Core \ {"owner", "store"}) \cup {"status"}
      /\ tries' \in 0..MaxRetries /\ OutcomeOK'
  BY <1>1, CopyFacts, OutcomeType, IdleType DEF Goto, Fail, Report, Messages, Core, Viewing
<1>4. ViewOK'
  BY <1>1, CopyFacts DEF Goto, Fail, Forget, Report, Exists, ViewOK, Viewing
<1>5. QED
  BY <1>1, <1>2, <1>3, <1>4, CopyFacts, KeepIInv

\* A Secret written while its client is guarded keeps an owner that is.
LEMMA VaultStep ==
    ASSUME IInv, at = "secret", UNCHANGED <<cluster, secretCache>>, at' = "status",
           NEW n \in SecretNames, NEW s \in VaultSecrets,
           s.owner \in Clients => Guarded(s.owner),
           secrets' = [secrets EXCEPT ![n] = s], secretStale' = secretStale \cup {n}
    PROVE  VaultOK' /\ SecretsAreOwned'
BY DEF cluster, IInv, TypeOK, VaultOK, SecretsAreOwned, Guarded

\* The Secret the worker writes.
LEMMA SecretForFacts ==
    ASSUME IInv, at = "secret", NEW n \in SecretNames
    PROVE  /\ SecretFor(secrets[n]) \in VaultSecrets
           /\ SecretFor(secrets[n]).owner \in Clients => Guarded(SecretFor(secrets[n]).owner)
<1>1. /\ at # "idle" /\ at \in Viewing /\ Guarded(me) /\ me \in Clients /\ seen.secret \in Secrets
  BY CopyFacts DEF IInv, PathsAreApart, GuardIsLasting, Viewing, KcClients
<1>2. secrets[n] \in VaultSecrets \cup {Absent}
  BY DEF IInv, TypeOK, VaultOK
<1>3. secrets[n] # Absent /\ secrets[n].owner \in Clients => Guarded(secrets[n].owner)
  BY DEF IInv, SecretsAreOwned
<1>4. QED BY <1>1, <1>2, <1>3 DEF SecretFor, VaultSecrets, Maybe

\* The Secret.
LEMMA SecretIInv ==
    ASSUME IInv, NoSecretWanted \/ CreateOrUpdateClientSecret \/ SecretFails
    PROVE  IInv'
<1> USE DEF NoSecretWanted, CreateOrUpdateClientSecret, SecretFails, SecretStatus
<1>1. /\ at = "secret" /\ at \in Core /\ at # "idle" /\ at \in Viewing
      /\ UNCHANGED <<cluster, keycloak, peers, me, fresh>>
  BY DEF Fail, Succeed, Report, Core, Viewing
<1>2. events' \in 0..MaxEvents
  BY EventsType
<1>3. /\ at' = "status" /\ tries' \in 0..MaxRetries /\ OutcomeOK'
      /\ seen' = Absent /\ changed' = FALSE
  BY OutcomeType, IdleType DEF Fail, Succeed, Report, Forget, Messages
<1>4. ViewOK' /\ NoneMade /\ at' \in (Core \ {"owner"}) \cup {"status"}
  BY <1>1, <1>3 DEF ViewOK, Viewing, NoneMade, keycloak
<1>5. mine.spec.secret \in Maybe(SecretNames) /\ mine \in Object
  BY <1>1, CopyFacts, SpecsAssumption
<1>6. mine' = mine \/ \E n \in Maybe(SecretNames) : mine' = [mine EXCEPT !.status.secret = n]
  BY <1>5 DEF Maybe
<1>7. /\ mine' \in Object /\ mine' = [mine EXCEPT !.status = mine'.status]
      /\ mine'.status.uuid = mine.status.uuid
  <2>1. CASE mine' = mine
    BY <1>1, <2>1, CopyFacts
  <2>2. ASSUME NEW n \in Maybe(SecretNames), mine' = [mine EXCEPT !.status.secret = n]
        PROVE  /\ mine' \in Object /\ mine' = [mine EXCEPT !.status = mine'.status]
               /\ mine'.status.uuid = mine.status.uuid
    BY <1>5, <2>2 DEF Object, Status
  <2>3. QED BY <1>6, <2>1, <2>2
<1>8. VaultOK' /\ SecretsAreOwned'
  <2>1. CASE UNCHANGED vault
    BY <1>1, <1>3, <2>1, VaultFacts
  <2>2. CASE CreateOrUpdateClientSecret /\ ~UNCHANGED vault
    <3>1. mine.spec.secret \in SecretNames
      BY <1>5, <2>2 DEF SecretWanted, Maybe
    <3> DEFINE n == mine.spec.secret
    <3>2. /\ secrets' = [secrets EXCEPT ![n] = SecretFor(secrets[n])]
          /\ secretStale' = secretStale \cup {n} /\ secretCache' = secretCache
      BY <2>2, <3>1 DEF vault, IInv, TypeOK, VaultOK
    <3>3. QED BY <1>1, <1>3, <3>1, <3>2, SecretForFacts, VaultStep
  <2>3. CASE NoSecretWanted
    BY <1>1, <2>1, <2>3, CopyFacts DEF vault
  <2>4. QED BY <2>1, <2>2, <2>3
<1>9. ClientIdsAreUnique' /\ LookupFindsOwn' /\ NotAnothers(mine.status.uuid, me)'
  BY <1>1, <1>3, <1>4, <1>7, KeptFacts
<1>10. QED
  BY <1>1, <1>2, <1>3, <1>4, <1>7, <1>8, <1>9, CopyFacts, CoreIInv DEF keycloak
-----------------------------------------------------------------------------
(* The steps of the worker that write objects.                              *)

\* The API server accepts the worker's copy, with the finalizer on it.
LEMMA WriteIInv ==
    ASSUME IInv, at \in {"finalizer", "owner"}, NEW o \in Object, Written(o),
           o.finalizer, ~o.deleting, o.status = mine.status,
           at' \in {"realm", "fetch"},
           UNCHANGED <<keycloak, peers, view, vault, events, me, fresh, outcome, tries>>
    PROVE  IInv'
<1> USE DEF Written, keycloak, peers, view, vault, IInv
<1>0. /\ me \in Clients /\ at # "idle" /\ at \notin Viewing /\ at' \notin Viewing
      /\ at' \in Labels \ {"idle", "client", "delete", "unfinalize"}
      /\ obj \in [Clients -> Object \cup {Absent}] /\ mine.status.secret = None
  BY CopyFacts DEF TypeOK, ObjectsOK, Labels, Viewing
<1>1. TypeOK'
  BY <1>0 DEF TypeOK, ObjectsOK, WorkerOK, ViewOK, VaultOK
<1>2. CopiesAgree(Clients, Early)'
  BY <1>0 DEF CopiesAgree
<1>3. GuardIsLasting(Clients)' /\ PathsAreApart'
  BY <1>0 DEF GuardIsLasting, PathsAreApart, Guarded
<1>4. DeletingIsGuarded(Clients)' /\ IdsAreSpent'
  BY <1>0 DEF DeletingIsGuarded, IdsAreSpent, Exists
<1>5. \A g \in Clients : Guarded(g) => Guarded(g)'
  BY <1>0 DEF Guarded
<1>6. \A g \in Clients : ~Guarded(g)' /\ obj'[g] # Absent => obj'[g] = obj[g]
  BY <1>0 DEF Guarded
<1>7. UnguardedIsUntracked'
  BY <1>0, <1>5, <1>6 DEF UnguardedIsUntracked, Live, Exists
<1>8. ClientIdsAreUnique' /\ LookupFindsOwn' /\ TracksNoOthers'
  BY <1>0 DEF ClientIdsAreUnique, LookupFindsOwn, TracksNoOthers, NotAnothers, Exists
<1>9. SecretsAreOwned'
  BY <1>0, <1>5 DEF SecretsAreOwned
<1>10. QED BY <1>1, <1>2, <1>3, <1>4, <1>7, <1>8, <1>9

\* Adding the finalizer.
LEMMA EnsureFinalizerIInv ==
    ASSUME IInv, EnsureFinalizer("realm"), UNCHANGED beyond
    PROVE  IInv'
<1>1. /\ at = "finalizer" /\ at # "idle" /\ ~mine.deleting /\ at \notin Viewing
      /\ UNCHANGED <<keycloak, peers, view, vault, events>> /\ NoneMade
      /\ UNCHANGED <<kc, spent, kcRealm>>
  BY DEF EnsureFinalizer, IInv, PathsAreApart, Viewing, beyond, peers, keycloak, NoneMade
<1>2. seen' = Absent /\ changed' = FALSE
  BY <1>1, UnviewedFacts DEF view
<1>3. CASE Done /\ UNCHANGED cluster
  BY <1>1, <1>2, <1>3, DoneIInv, CopyFacts
<1>4. CASE mine.finalizer /\ Goto("realm") /\ UNCHANGED <<mine, cluster>>
  <2>1. /\ at' = "realm" /\ at' \in Labels \ {"idle"} /\ at' \notin Viewing
        /\ UNCHANGED <<me, fresh, outcome, tries>>
    BY <1>4 DEF Goto, Labels, Viewing
  <2>2. PathsAreApart' /\ ViewOK'
    BY <1>1, <1>2, <1>4, <2>1 DEF PathsAreApart, ViewOK
  <2>3. CopiesAgree(Clients, Early)'
    BY <1>1, <1>4, <2>1 DEF IInv, CopiesAgree, cluster
  <2>4. mine'.status.secret = None
    BY <1>1, <1>4, CopyFacts
  <2>5. QED
    BY <1>1, <1>4, <2>1, <2>2, <2>3, <2>4, CopyFacts, KeptFacts, VaultFacts, WorkIInv
<1>5. CASE Written([mine EXCEPT !.finalizer = TRUE]) /\ Goto("realm")
  <2> DEFINE o == [mine EXCEPT !.finalizer = TRUE]
  <2>1. o \in Object /\ o.finalizer /\ ~o.deleting /\ o.status = mine.status
    BY <1>1, CopyFacts DEF Object
  <2>2. QED
    BY <1>1, <1>5, <2>1, WriteIInv DEF Goto
<1>6. QED BY <1>3, <1>4, <1>5 DEF EnsureFinalizer

\* Adding the owner reference.
LEMMA OwnerIInv ==
    ASSUME IInv, SetOwnerReference
    PROVE  IInv'
<1>1. /\ at = "owner" /\ at \in Core /\ at # "idle" /\ at \notin Viewing
      /\ ~mine.deleting /\ mine.finalizer /\ NoneMade
      /\ UNCHANGED <<keycloak, peers, vault, events, kc, spent, kcRealm>>
  BY DEF SetOwnerReference, IInv, PathsAreApart, Core, Viewing, keycloak, NoneMade
<1>2. CASE Fail("owner") /\ UNCHANGED <<mine, cluster>>
  <2>1. Outcome(FALSE, TRUE, "owner") \in Outcomes
    BY OutcomeType DEF Messages
  <2>2. QED BY <1>1, <1>2, <2>1, CopyFacts, ReportIInv DEF Fail, Forget
<1>3. CASE Goto("fetch") /\ UNCHANGED <<mine, cluster, view>>
  <2>1. /\ at' = "fetch" /\ at' \in (Core \ {"owner", "store"}) \cup {"status"}
        /\ UNCHANGED <<me, fresh, outcome, tries>>
    BY <1>3 DEF Goto, Core, Viewing
  <2>2. ViewOK'
    BY <1>1, <1>3, <2>1, UnviewedFacts DEF ViewOK, Viewing, view
  <2>3. QED
    BY <1>1, <1>3, <2>1, <2>2, CopyFacts, KeepIInv
<1>4. CASE Written([mine EXCEPT !.owned = TRUE]) /\ Goto("fetch") /\ UNCHANGED view
  <2> DEFINE o == [mine EXCEPT !.owned = TRUE]
  <2>1. o \in Object /\ o.finalizer /\ ~o.deleting /\ o.status = mine.status
    BY <1>1, CopyFacts DEF Object
  <2>2. QED
    BY <1>1, <1>4, <2>1, WriteIInv DEF Goto
<1>5. QED BY <1>2, <1>3, <1>4 DEF SetOwnerReference

\* The status applied to a copy changes nothing else, and names no id but one of the two.
LEMMA AppliedFacts ==
    ASSUME IInv, at = "status", NEW o \in Object
    PROVE  /\ StatusApplied(o) \in Object
           /\ StatusApplied(o).deleting = o.deleting
           /\ StatusApplied(o).finalizer = o.finalizer
           /\ StatusApplied(o).status.secret = o.status.secret
           /\ StatusApplied(o).status.ready = outcome.ready
           /\ StatusApplied(o).status.uuid =
                IF mine.status.uuid # None THEN mine.status.uuid ELSE o.status.uuid
<1>1. /\ outcome.ready \in BOOLEAN /\ outcome.realmReady \in BOOLEAN /\ outcome.message \in Messages
      /\ mine.status.uuid \in Maybe(Ids) /\ mine.status.roles \subseteq RoleNames
  BY CopyFacts DEF Outcomes
<1>2. QED BY <1>1 DEF StatusApplied, Object, Status

\* Writing the status, whatever copy it comes from, or giving up.
LEMMA StatusIInv ==
    ASSUME IInv, StatusSkipped \/ StatusWritten \/ StatusConflict \/ StatusGone, UNCHANGED beyond
    PROVE  IInv'
<1> USE DEF StatusAccepted, StatusRefused, StatusGone, beyond
<1>1. /\ at = "status" /\ at # "idle" /\ at \notin Viewing
      /\ UNCHANGED <<keycloak, peers, view, vault, events, kc, spent, kcRealm>>
      /\ events \in 0..MaxEvents /\ NoneMade
  BY CopyFacts DEF StatusSkipped, StatusWritten, StatusConflict, keycloak, peers, NoneMade, Viewing
<1>2. seen' = Absent /\ changed' = FALSE
  BY <1>1, UnviewedFacts DEF view
<1>3. CASE Done /\ UNCHANGED cluster
  BY <1>1, <1>2, <1>3, CopyFacts, DoneIInv
<1>4. CASE StatusConflict /\ ~Done
  <2>1. /\ UNCHANGED <<at, me, mine, fresh, outcome, cluster>> /\ tries' \in 0..MaxRetries
    BY <1>1, <1>4, CopyFacts DEF StatusConflict
  <2>2. /\ PathsAreApart' /\ CopiesAgree(Clients, Early)' /\ at' \in Labels \ {"idle"} /\ ViewOK'
    BY <1>1, <1>2, <2>1 DEF IInv, PathsAreApart, CopiesAgree, cluster, Labels, ViewOK
  <2>3. QED
    BY <1>1, <2>1, <2>2, CopyFacts, KeptFacts, VaultFacts, WorkIInv
<1>5. CASE StatusWritten
  <2> USE DEF Done, keycloak, peers
  <2> DEFINE o == StatusApplied(cache[me])
  <2>0. /\ me \in Clients /\ obj[me] = cache[me] /\ obj[me] # Absent /\ obj[me] \in Object
        /\ o \in Object /\ o.deleting = obj[me].deleting /\ o.finalizer = obj[me].finalizer
        /\ o.status.uuid \in {mine.status.uuid, obj[me].status.uuid}
        /\ o.status.uuid = mine.status.uuid \/ mine.status.uuid = None
        /\ o.status.secret = None
    BY <1>1, <1>5, AppliedFacts DEF StatusWritten, IInv, TypeOK, ObjectsOK, WorkerOK, CopiesAgree,
       SecretsAreOwned
  <2>1. /\ obj' = [obj EXCEPT ![me] = o] /\ stale' = stale \cup {me} /\ cache' = cache /\ Done
    BY <1>5 DEF StatusWritten
  <2> HIDE DEF o
  <2>2. TypeOK'
    BY <1>1, <1>2, <2>0, <2>1, IdleType DEF IInv, TypeOK, ObjectsOK, WorkerOK, ViewOK, VaultOK,
       vault
  <2>3. CopiesAgree(Clients, Early)' /\ PathsAreApart'
    BY <2>1, IdleType DEF IInv, TypeOK, ObjectsOK, CopiesAgree, PathsAreApart
  <2>4. \A g \in Clients : Guarded(g)' = Guarded(g)
    BY <2>0, <2>1 DEF IInv, TypeOK, ObjectsOK, Guarded
  <2>5. GuardIsLasting(Clients)' /\ DeletingIsGuarded(Clients)'
    BY <2>0, <2>1, <2>4 DEF IInv, TypeOK, ObjectsOK, GuardIsLasting, DeletingIsGuarded
  <2>6. IdsAreSpent'
    BY <1>1, <2>0, <2>1 DEF IInv, TypeOK, ObjectsOK, IdsAreSpent, Exists
  <2>7. ~Guarded(me) => ~Live(o.status.uuid, me)
    BY <1>1, <2>0 DEF IInv, UnguardedIsUntracked, GuardIsLasting
  <2>8. UnguardedIsUntracked'
    BY <1>1, <2>0, <2>1, <2>4, <2>7 DEF IInv, TypeOK, ObjectsOK, UnguardedIsUntracked, Live, Exists
  <2>9. NotAnothers(o.status.uuid, me)
    BY <1>1, <2>0 DEF IInv, TracksNoOthers
  <2>10. ClientIdsAreUnique' /\ LookupFindsOwn' /\ TracksNoOthers'
    BY <1>1, <2>0, <2>1, <2>9 DEF IInv, TypeOK, ObjectsOK, ClientIdsAreUnique, LookupFindsOwn,
       TracksNoOthers, NotAnothers, Exists
  <2>11. SecretsAreOwned'
    BY <1>1, <2>0, <2>1, <2>4 DEF IInv, TypeOK, ObjectsOK, VaultOK, SecretsAreOwned, vault
  <2>12. QED BY <2>2, <2>3, <2>5, <2>6, <2>8, <2>10, <2>11 DEF IInv
<1>6. QED BY <1>3, <1>4, <1>5 DEF StatusSkipped, StatusConflict

\* Deleting the client, or what could be deleted of its roles.
LEMMA DeleteFacts ==
    ASSUME IInv, DeleteClient \/ DeleteFails
    PROVE  /\ kc' \in [Ids -> KcClients \cup {Absent}] /\ NoneMade
           /\ DeleteFails => NoneLost
<1>1. at = "delete" /\ at # "idle"
  BY DEF DeleteClient, DeleteFails
<1>2. ASSUME kc' = kc PROVE NoneLost /\ kc' \in [Ids -> KcClients \cup {Absent}] /\ NoneMade
  BY <1>1, <1>2, CopyFacts DEF NoneMade, NoneLost
<1>3. ASSUME NEW u \in Ids, kc' = [kc EXCEPT ![u] = Absent]
      PROVE  kc' \in [Ids -> KcClients \cup {Absent}] /\ NoneMade
  BY <1>1, <1>3, CopyFacts DEF NoneMade
<1>4. ASSUME NEW u \in Ids, Exists(u), NEW S \in SUBSET mine.status.roles,
             kc' = WithoutRoles(u, S)
      PROVE  kc' \in [Ids -> KcClients \cup {Absent}] /\ NoneMade /\ NoneLost
  <2> DEFINE R == [n \in RoleNames |-> IF n \in S THEN None ELSE kc[u].roles[n]]
             c == [kc[u] EXCEPT !.roles = R]
  <2>1. kc[u] \in KcClients /\ kc[u].roles \in Roles
    BY <1>1, <1>4, CopyFacts DEF Exists, KcClients
  <2>2. R \in Roles
    BY <2>1 DEF Roles, Maybe
  <2>3. c \in KcClients /\ c.cr = kc[u].cr /\ c.clientId = kc[u].clientId
    BY <2>1, <2>2 DEF KcClients
  <2>4. kc' = [kc EXCEPT ![u] = c]
    BY <1>4 DEF WithoutRoles
  <2> HIDE DEF c
  <2>5. QED BY <1>1, <1>4, <2>3, <2>4, CopyFacts, OneFacts
<1>5. QED BY <1>1, <1>2, <1>3, <1>4 DEF DeleteClient, DeleteFails, Exists, Goto, Done

\* Deleting the client in Keycloak, or only some of its roles.
LEMMA DeleteIInv ==
    ASSUME IInv, DeleteClient \/ DeleteFails
    PROVE  IInv'
<1>1. /\ at = "delete" /\ at # "idle" /\ at \notin Viewing /\ mine.deleting
      /\ UNCHANGED <<cluster, kcRealm, spent, peers, view, vault>>
  BY DEF DeleteClient, DeleteFails, IInv, PathsAreApart, Viewing
<1>2. events' \in 0..MaxEvents
  BY EventsType DEF DeleteClient, DeleteFails
<1>3. seen' = Absent /\ changed' = FALSE
  BY <1>1, UnviewedFacts DEF view
<1>4. kc' \in [Ids -> KcClients \cup {Absent}] /\ NoneMade
  BY DeleteFacts
<1>5. CASE Done
  BY <1>1, <1>2, <1>3, <1>4, <1>5, DoneIInv
<1>6. CASE DeleteClient /\ Goto("unfinalize")
  <2>1. /\ at' = "unfinalize" /\ at' \in Labels \ {"idle"} /\ at' \notin Viewing
        /\ UNCHANGED <<mine, me, fresh, outcome, tries>>
    BY <1>6 DEF Goto, DeleteClient, Done, Labels, Viewing
  <2>2. PathsAreApart' /\ CopiesAgree(Clients, Early)' /\ ViewOK'
    BY <1>1, <1>3, <2>1 DEF IInv, PathsAreApart, CopiesAgree, cluster, ViewOK
  <2>3. ~Exists(mine.status.uuid)'
    <3>1. CASE realm = "absent"
      BY <1>1, <1>4, <2>1, <3>1 DEF IInv, IdsAreSpent, Exists, NoneMade
    <3>2. CASE kc' = kc /\ (mine.status.uuid = None \/ ~Exists(mine.status.uuid))
      BY <2>1, <3>2 DEF Exists
    <3>3. CASE kc' = [kc EXCEPT ![mine.status.uuid] = Absent] /\ Exists(mine.status.uuid)
      BY <1>1, <2>1, <3>3, CopyFacts DEF Exists
    <3>4. QED BY <1>6, <3>1, <3>2, <3>3 DEF DeleteClient
  <2>4. ~Live(mine.status.uuid, me)'
    BY <2>1, <2>3 DEF Live
  <2>5. /\ \A i \in Ids : kc'[i] # Absent => kc[i] # Absent /\ kc'[i].cr = kc[i].cr
        /\ mine'.status.secret = None
    BY <1>1, <1>4, <2>1, CopyFacts DEF NoneMade
  <2>6. QED
    BY <1>1, <1>2, <1>4, <2>1, <2>2, <2>4, <2>5, CopyFacts, KeptFacts, VaultFacts, WorkIInv
<1>7. QED BY <1>5, <1>6 DEF DeleteClient, DeleteFails

\* The Secrets left by a client that goes.
LEMMA OrphanedFacts ==
    ASSUME NEW v \in [SecretNames -> VaultSecrets \cup {Absent}], NEW g \in Clients
    PROVE  /\ Orphaned(v, g) \in [SecretNames -> VaultSecrets \cup {Absent}]
           /\ \A n \in SecretNames :
                Orphaned(v, g)[n] # Absent /\ Orphaned(v, g)[n].owner \in Clients
                  => v[n] # Absent /\ v[n].owner = Orphaned(v, g)[n].owner /\ v[n].owner # g
<1> SUFFICES ASSUME NEW n \in SecretNames
             PROVE  /\ Orphaned(v, g)[n] \in VaultSecrets \cup {Absent}
                    /\ Orphaned(v, g)[n] # Absent /\ Orphaned(v, g)[n].owner \in Clients
                         => v[n] # Absent /\ v[n].owner = Orphaned(v, g)[n].owner /\ v[n].owner # g
  BY DEF Orphaned
<1>1. CASE v[n] # Absent /\ v[n].owner = g
  <2>1. Orphaned(v, g)[n] = [v[n] EXCEPT !.owner = "gone"] /\ v[n] \in VaultSecrets
    BY <1>1 DEF Orphaned
  <2>2. QED BY <2>1 DEF VaultSecrets
<1>2. CASE ~(v[n] # Absent /\ v[n].owner = g)
  BY <1>2 DEF Orphaned
<1>3. QED BY <1>1, <1>2

\* Removing the finalizer, and with it the object.
LEMMA ReleaseIInv ==
    ASSUME IInv, ReleaseClient
    PROVE  IInv'
<1> USE DEF ReleaseClient, RemoveFinalizer
<1>1. /\ at = "unfinalize" /\ at # "idle" /\ at \notin Viewing /\ mine.deleting /\ Done
      /\ UNCHANGED <<keycloak, peers, view, events, kc, spent, kcRealm>>
      /\ events \in 0..MaxEvents /\ NoneMade
  BY CopyFacts DEF IInv, PathsAreApart, peers, Viewing, keycloak, NoneMade
<1>2. seen' = Absent /\ changed' = FALSE
  BY <1>1, UnviewedFacts DEF view
<1>3. CASE UNCHANGED cluster /\ ~(mine.finalizer /\ fresh)
  BY <1>1, <1>2, <1>3, CopyFacts, DoneIInv DEF vault
<1>4. CASE /\ fresh /\ obj' = [obj EXCEPT ![me] = Absent]
           /\ stale' = stale \cup {me} /\ cache' = cache
           /\ secrets' = Orphaned(secrets, me) /\ secretCache' = Orphaned(secretCache, me)
           /\ secretStale' = secretStale
  <2> USE DEF Done, keycloak, peers
  <2>1. /\ me \in Clients /\ obj[me] = mine /\ cache[me] = mine /\ mine.deleting
        /\ ~Live(mine.status.uuid, me)
    BY <1>1, <1>4 DEF IInv, TypeOK, WorkerOK, CopiesAgree, UnguardedIsUntracked
  <2>2. VaultOK'
    BY <1>4, <2>1, OrphanedFacts DEF IInv, TypeOK, VaultOK
  <2>3. TypeOK'
    BY <1>1, <1>2, <1>4, <2>1, <2>2, IdleType DEF IInv, TypeOK, ObjectsOK, WorkerOK, ViewOK
  <2>4. CopiesAgree(Clients, Early)' /\ PathsAreApart'
    BY <1>1, <1>4, IdleType DEF IInv, TypeOK, ObjectsOK, CopiesAgree, PathsAreApart
  <2>5. GuardIsLasting(Clients)' /\ DeletingIsGuarded(Clients)'
    BY <1>1, <1>4, <2>1 DEF IInv, TypeOK, ObjectsOK, Guarded, GuardIsLasting, DeletingIsGuarded
  <2>6. IdsAreSpent'
    BY <1>1, <1>4, <2>1 DEF IInv, TypeOK, ObjectsOK, IdsAreSpent, Exists
  <2>7. UnguardedIsUntracked'
    BY <1>1, <1>4, <2>1 DEF IInv, TypeOK, ObjectsOK, UnguardedIsUntracked, Guarded, Live, Exists
  <2>8. ClientIdsAreUnique' /\ LookupFindsOwn' /\ TracksNoOthers'
    BY <1>1, <1>4, <2>1 DEF IInv, TypeOK, ObjectsOK, ClientIdsAreUnique, LookupFindsOwn,
       TracksNoOthers, NotAnothers, Exists
  <2>9. SecretsAreOwned'
    <3>1. \A n \in SecretNames : n \notin secretStale' => secretCache'[n] = secrets'[n]
      BY <1>4 DEF IInv, SecretsAreOwned, Orphaned
    <3>2. \A g \in Clients : g # me /\ Guarded(g) => Guarded(g)'
      BY <1>4, <2>1 DEF IInv, TypeOK, ObjectsOK, Guarded
    <3>3. \A n \in SecretNames : secrets'[n] # Absent /\ secrets'[n].owner \in Clients
                                   => Guarded(secrets[n].owner)' /\ secrets'[n].owner = secrets[n].owner
      BY <1>4, <2>1, <3>2, OrphanedFacts DEF IInv, TypeOK, VaultOK, SecretsAreOwned
    <3>4. QED
      BY <1>1, <1>4, <2>1, <3>1, <3>3 DEF IInv, TypeOK, ObjectsOK, SecretsAreOwned, Guarded
  <2>10. QED BY <2>3, <2>4, <2>5, <2>6, <2>7, <2>8, <2>9 DEF IInv
<1>5. QED BY <1>3, <1>4
-----------------------------------------------------------------------------
(* The steps of everyone else.                                              *)

\* A write by another client of the API server that adds and removes no finalizer.
LEMMA TouchedIInv ==
    ASSUME IInv, NEW g \in Clients, NEW o \in Object \cup {Absent}, Touched(g, o),
           UNCHANGED beyond, events' \in 0..MaxEvents,
           Guarded(g) <=> o # Absent /\ o.finalizer,
           o # Absent => /\ o.deleting => o.finalizer
                         /\ o.status.uuid \in spent \cup {None}
                         /\ o.status.secret = None
                         /\ ~o.finalizer => ~Live(o.status.uuid, g)
                         /\ NotAnothers(o.status.uuid, g)
    PROVE  IInv'
<1> USE DEF Touched, beyond, keycloak, view, vault
<1>1. TypeOK'
  BY DEF IInv, TypeOK, ObjectsOK, WorkerOK, ViewOK, VaultOK
<1>2. CopiesAgree(Clients, Early)' /\ PathsAreApart'
  BY DEF IInv, TypeOK, ObjectsOK, WorkerOK, CopiesAgree, PathsAreApart
<1>3. \A h \in Clients : Guarded(h)' = Guarded(h)
  BY DEF IInv, TypeOK, ObjectsOK, Guarded
<1>4. GuardIsLasting(Clients)' /\ DeletingIsGuarded(Clients)'
  BY <1>3 DEF IInv, TypeOK, ObjectsOK, WorkerOK, GuardIsLasting, DeletingIsGuarded
<1>5. IdsAreSpent'
  BY DEF IInv, TypeOK, ObjectsOK, IdsAreSpent, Exists
<1>6. UnguardedIsUntracked'
  BY <1>3 DEF IInv, TypeOK, ObjectsOK, WorkerOK, UnguardedIsUntracked, Live, Exists
<1>7. ClientIdsAreUnique' /\ LookupFindsOwn' /\ TracksNoOthers'
  BY DEF IInv, TypeOK, ObjectsOK, ClientIdsAreUnique, LookupFindsOwn, TracksNoOthers, NotAnothers,
     Exists
<1>8. SecretsAreOwned'
  BY <1>3 DEF IInv, TypeOK, ObjectsOK, SecretsAreOwned
<1>9. QED BY <1>1, <1>2, <1>4, <1>5, <1>6, <1>7, <1>8 DEF IInv

\* The user.
LEMMA UserIInv ==
    ASSUME IInv, NEW g \in Clients, User(g), UNCHANGED beyond
    PROVE  IInv'
<1>1. events' \in 0..MaxEvents
  BY EventsType DEF User, Create, Edit, Delete
<1>2. ASSUME NEW s \in Specs[g], Create(g, NewObject(s)) PROVE IInv'
  <2>1. Touched(g, NewObject(s)) /\ obj[g] = Absent
    BY <1>2 DEF Create
  <2>2. NewObject(s) \in Object
    BY DEF NewObject, Object, Status, SpecSet, Maybe, Messages
  <2>3. QED
    BY <1>1, <2>1, <2>2, TouchedIInv DEF NewObject, Guarded, Live, NotAnothers, Exists
<1>3. ASSUME NEW s \in Specs[g], Edit(g, s) PROVE IInv'
  <2>1. Touched(g, [obj[g] EXCEPT !.spec = s])
    BY <1>3 DEF Edit
  <2>2. obj[g] # Absent /\ obj[g] \in Object /\ s \in SpecSet
    BY <1>3 DEF Edit, IInv, TypeOK, ObjectsOK, SpecSet
  <2> DEFINE o == [obj[g] EXCEPT !.spec = s]
  <2>3. /\ o \in Object /\ o.deleting = obj[g].deleting /\ o.finalizer = obj[g].finalizer
        /\ o.status = obj[g].status
    BY <2>2 DEF Object
  <2>4. QED
    BY <1>1, <2>1, <2>2, <2>3, TouchedIInv DEF IInv, DeletingIsGuarded, IdsAreSpent,
       UnguardedIsUntracked, TracksNoOthers, SecretsAreOwned, Guarded
<1>4. CASE Delete(g)
  <2>1. obj[g] # Absent /\ obj[g] \in Object
    BY <1>4 DEF Delete, IInv, TypeOK, ObjectsOK
  <2>2. CASE obj[g].finalizer
    <3> DEFINE o == [obj[g] EXCEPT !.deleting = TRUE]
    <3>1. /\ o \in Object /\ o.finalizer /\ o.status = obj[g].status
      BY <2>1, <2>2 DEF Object
    <3>2. QED
      BY <1>1, <1>4, <2>1, <2>2, <3>1, TouchedIInv DEF Delete, IInv, IdsAreSpent,
         TracksNoOthers, SecretsAreOwned, Guarded
  <2>3. CASE ~obj[g].finalizer
    BY <1>1, <1>4, <2>1, <2>3, TouchedIInv DEF Delete, Guarded
  <2>4. QED BY <2>2, <2>3
<1>5. QED BY <1>2, <1>3, <1>4 DEF User

\* The informer of the Client resources.
LEMMA SyncIInv ==
    ASSUME IInv, NEW g \in Clients, Sync(g), UNCHANGED beyond
    PROVE  IInv'
<1> USE DEF Sync, keycloak, worker, beyond, view, vault
<1>1. TypeOK'
  BY DEF IInv, TypeOK, ObjectsOK, WorkerOK, ViewOK, VaultOK
<1>2. CopiesAgree(Clients, Early)' /\ PathsAreApart'
  BY DEF IInv, TypeOK, ObjectsOK, WorkerOK, CopiesAgree, PathsAreApart
<1>3. GuardIsLasting(Clients)' /\ DeletingIsGuarded(Clients)'
  BY DEF IInv, TypeOK, ObjectsOK, Guarded, GuardIsLasting, DeletingIsGuarded
<1>4. IdsAreSpent'
  BY DEF IInv, TypeOK, ObjectsOK, IdsAreSpent, Exists
<1>5. UnguardedIsUntracked'
  BY DEF IInv, TypeOK, ObjectsOK, UnguardedIsUntracked, DeletingIsGuarded, Guarded, Live, Exists
<1>6. ClientIdsAreUnique' /\ LookupFindsOwn' /\ TracksNoOthers'
  BY DEF IInv, TypeOK, ObjectsOK, ClientIdsAreUnique, LookupFindsOwn, TracksNoOthers, NotAnothers,
     Exists
<1>7. SecretsAreOwned'
  BY DEF IInv, TypeOK, ObjectsOK, SecretsAreOwned, Guarded
<1>8. QED BY <1>1, <1>2, <1>3, <1>4, <1>5, <1>6, <1>7 DEF IInv

\* What goes on in Keycloak and with the config, the realm and the Secrets leaves the
\* objects and their copies alone, and makes no client for a resource but the one at work.
LEMMA ElsewhereIInv ==
    ASSUME IInv, UNCHANGED <<cluster, worker, view>>, events' \in 0..MaxEvents,
           config' \in {"ready", "notReady", "absent"},
           realm' \in {"ready", "notReady", "absent"}, kcRealm' \in BOOLEAN,
           kc' \in [Ids -> KcClients \cup {Absent}],
           spent \subseteq spent', spent' \subseteq Ids,
           \A i \in Ids : kc'[i] # Absent => /\ i \in spent' /\ kcRealm'
                                             /\ \/ kc[i] # Absent /\ kc'[i].cr = kc[i].cr
                                                \/ i \notin spent /\ kc'[i].cr = None
                                                \/ i \notin spent /\ at = "store" /\ kc'[i].cr = me,
           ClientIdsAreUnique', LookupFindsOwn', VaultOK',
           \A n \in SecretNames : /\ n \notin secretStale' => secretCache'[n] = secrets'[n]
                                  /\ secrets'[n] # Absent /\ secrets'[n].owner \in Clients
                                       => Guarded(secrets'[n].owner),
           realm' = "absent" => ~kcRealm'
    PROVE  IInv'
<1> USE DEF cluster, worker, view
<1>1. TypeOK'
  BY DEF IInv, TypeOK, ObjectsOK, WorkerOK, ViewOK
<1>2. CopiesAgree(Clients, Early)' /\ PathsAreApart'
  BY DEF IInv, CopiesAgree, PathsAreApart
<1>3. GuardIsLasting(Clients)' /\ DeletingIsGuarded(Clients)'
  BY DEF IInv, Guarded, GuardIsLasting, DeletingIsGuarded
<1>4. IdsAreSpent'
  BY DEF IInv, IdsAreSpent, Exists
<1>5. ASSUME NEW i \in spent \cup {None}, NEW g \in Clients
      PROVE  (~Live(i, g) => ~Live(i, g)') /\ (NotAnothers(i, g) => NotAnothers(i, g)')
  BY DEF Live, NotAnothers, Exists
<1>6. UnguardedIsUntracked'
  <2>1. \A g \in Clients : obj[g] # Absent => obj[g].status.uuid \in spent \cup {None}
    BY DEF IInv, IdsAreSpent
  <2>2. \A g \in Clients : cache[g] # Absent => cache[g].status.uuid \in spent \cup {None}
    BY DEF IInv, IdsAreSpent
  <2>3. at # "idle" => mine.status.uuid \in spent \cup {None} /\ me \in Clients
    BY DEF IInv, IdsAreSpent, TypeOK, WorkerOK
  <2>4. QED BY <1>5, <2>1, <2>2, <2>3 DEF IInv, UnguardedIsUntracked, Guarded
<1>7. TracksNoOthers'
  BY <1>5 DEF IInv, TypeOK, WorkerOK, TracksNoOthers, IdsAreSpent
<1>8. SecretsAreOwned'
  BY DEF IInv, SecretsAreOwned, Guarded
<1>9. QED BY <1>1, <1>2, <1>3, <1>4, <1>6, <1>7, <1>8 DEF IInv

\* What Keycloak and the vault hold: every client has an id given out, in a realm that is
\* there, and every Secret an owner that is guarded.
LEMMA KeycloakFacts ==
    ASSUME IInv
    PROVE  /\ kc \in [Ids -> KcClients \cup {Absent}]
           /\ spent \subseteq Ids /\ kcRealm \in BOOLEAN
           /\ config \in {"ready", "notReady", "absent"}
           /\ realm \in {"ready", "notReady", "absent"}
           /\ realm = "absent" => ~kcRealm
           /\ \A i \in Ids : kc[i] # Absent => i \in spent /\ kcRealm
BY DEF IInv, TypeOK, ObjectsOK, IdsAreSpent, Exists

\* A step in which no client is made, and the worker and the Secrets rest.
LEMMA RestFacts ==
    ASSUME IInv, UNCHANGED <<worker, vault>>, NoneMade
    PROVE  /\ ClientIdsAreUnique' /\ LookupFindsOwn' /\ VaultOK'
           /\ \A n \in SecretNames : /\ n \notin secretStale' => secretCache'[n] = secrets'[n]
                                     /\ secrets'[n] # Absent /\ secrets'[n].owner \in Clients
                                          => Guarded(secrets'[n].owner)
<1>1. ClientIdsAreUnique' /\ LookupFindsOwn'
  BY DEF NoneMade, IInv, ClientIdsAreUnique, LookupFindsOwn, NotAnothers, worker, Exists
<1>2. QED BY <1>1 DEF IInv, TypeOK, VaultOK, SecretsAreOwned, vault

\* The same, as the invariant needs it.
LEMMA RestIInv ==
    ASSUME IInv, UNCHANGED <<cluster, worker, view, vault, spent>>, events' \in 0..MaxEvents,
           config' \in {"ready", "notReady", "absent"},
           realm' \in {"ready", "notReady", "absent"}, kcRealm' \in BOOLEAN,
           kc' \in [Ids -> KcClients \cup {Absent}], NoneMade,
           \A i \in Ids : kc'[i] # Absent => kcRealm',
           realm' = "absent" => ~kcRealm'
    PROVE  IInv'
<1>1. \A i \in Ids : kc'[i] # Absent => i \in spent' /\ kc[i] # Absent /\ kc'[i].cr = kc[i].cr
  BY KeycloakFacts DEF NoneMade
<1>2. QED BY <1>1, KeycloakFacts, RestFacts, ElsewhereIInv

\* The config and the realm.
LEMMA PeersIInv ==
    ASSUME IInv, RealmChanges \/ (ConfigChanges /\ UNCHANGED beyond)
    PROVE  IInv'
<1>1. events' \in 0..MaxEvents
  BY EventsType DEF ConfigChanges, RealmChanges
<1>2. CASE ConfigChanges /\ UNCHANGED beyond
  <2>1. /\ kc' = kc /\ NoneMade /\ kcRealm' = kcRealm /\ realm' = realm
        /\ UNCHANGED <<cluster, worker, view, vault, spent>>
        /\ config' \in {"ready", "notReady", "absent"}
    BY <1>2 DEF beyond, keycloak, NoneMade, ConfigChanges
  <2>2. QED BY <1>1, <2>1, KeycloakFacts, RestIInv
<1>3. CASE RealmChanges
  <2>1. UNCHANGED <<config, cluster, worker, view, vault, spent>>
    BY <1>3 DEF RealmChanges, keycloak
  <2>2. CASE kc' = kc /\ (kcRealm' = kcRealm \/ kcRealm' = TRUE)
    <3>1. realm' \in {"ready", "notReady", "absent"} /\ (realm' = "absent" => ~kcRealm')
      BY <1>3, KeycloakFacts DEF RealmChanges, keycloak
    <3>2. (\A i \in Ids : kc'[i] # Absent => kcRealm') /\ NoneMade
      BY <2>2, KeycloakFacts DEF NoneMade
    <3>3. QED
      BY <1>1, <2>1, <2>2, <3>1, <3>2, KeycloakFacts, RestIInv
  <2>3. CASE kc' = [i \in Ids |-> Absent] /\ kcRealm' = FALSE /\ realm' = realm
    <3>1. NoneMade
      BY <2>3 DEF NoneMade
    <3>2. QED BY <1>1, <2>1, <2>3, <3>1, KeycloakFacts, RestIInv
  <2>4. QED BY <1>3, <2>2, <2>3 DEF RealmChanges, keycloak
<1>4. QED BY <1>2, <1>3

\* What an administrator deletes, edits and rotates keeps its maker and its clientId.
LEMMA ConsoleFacts ==
    ASSUME IInv, NEW i \in Ids, ConsoleDeletes(i) \/ ConsoleEdits(i) \/ ConsoleRotates(i)
    PROVE  /\ kc' \in [Ids -> KcClients \cup {Absent}] /\ NoneMade
           /\ ~ConsoleDeletes(i) => NoneLost
<1>1. /\ Exists(i) /\ kc[i] \in KcClients /\ kc \in [Ids -> KcClients \cup {Absent}]
  BY KeycloakFacts DEF ConsoleDeletes, ConsoleEdits, ConsoleRotates, Exists
<1>2. ASSUME kc' = [kc EXCEPT ![i] = Absent]
      PROVE  kc' \in [Ids -> KcClients \cup {Absent}] /\ NoneMade
  BY <1>1, <1>2 DEF NoneMade
<1>3. ASSUME NEW n \in Named(kc[i].roles), kc' = [kc EXCEPT ![i].roles[n] = None]
      PROVE  kc' \in [Ids -> KcClients \cup {Absent}] /\ NoneMade
  <2> DEFINE c == [kc[i] EXCEPT !.roles[n] = None]
  <2>1. [kc[i].roles EXCEPT ![n] = None] \in Roles
    BY <1>1, <1>3 DEF KcClients, Roles, Maybe
  <2>2. c \in KcClients /\ c.cr = kc[i].cr /\ c.clientId = kc[i].clientId
    BY <1>1, <2>1 DEF KcClients
  <2>3. kc' = [kc EXCEPT ![i] = c]
    BY <1>1, <1>3
  <2> HIDE DEF c
  <2>4. QED BY <1>1, <2>2, <2>3, OneFacts
<1>4. ASSUME NEW s \in SpecSet, kc' = [kc EXCEPT ![i].settings = s.settings, ![i].public = s.public]
      PROVE  kc' \in [Ids -> KcClients \cup {Absent}] /\ NoneMade /\ NoneLost
  <2> DEFINE c == [kc[i] EXCEPT !.settings = s.settings, !.public = s.public]
  <2>1. c \in KcClients /\ c.cr = kc[i].cr /\ c.clientId = kc[i].clientId
    BY <1>1, SpecsAssumption DEF KcClients
  <2>2. kc' = [kc EXCEPT ![i] = c]
    BY <1>1, <1>4 DEF KcClients
  <2> HIDE DEF c
  <2>3. QED BY <1>1, <2>1, <2>2, OneFacts
<1>5. ASSUME NEW s \in SpecSet, NEW n \in Named(s.roles), kc' = [kc EXCEPT ![i].roles[n] = s.roles[n]]
      PROVE  kc' \in [Ids -> KcClients \cup {Absent}] /\ NoneMade /\ NoneLost
  <2> DEFINE c == WithRole(kc[i], n, s.roles[n])
  <2>1. n \in RoleNames
    BY DEF Named
  <2>2. c \in KcClients /\ c.cr = kc[i].cr /\ c.clientId = kc[i].clientId
    BY <1>1, <2>1, RoleType
  <2>3. kc' = [kc EXCEPT ![i] = c]
    BY <1>1, <1>5 DEF WithRole
  <2> HIDE DEF c
  <2>4. QED BY <1>1, <2>2, <2>3, OneFacts
<1>6. ASSUME NEW v \in Secrets, kc' = [kc EXCEPT ![i].secret = v]
      PROVE  kc' \in [Ids -> KcClients \cup {Absent}] /\ NoneMade /\ NoneLost
  <2> DEFINE c == [kc[i] EXCEPT !.secret = v]
  <2>1. c \in KcClients /\ c.cr = kc[i].cr /\ c.clientId = kc[i].clientId
    BY <1>1 DEF KcClients
  <2>2. kc' = [kc EXCEPT ![i] = c]
    BY <1>1, <1>6
  <2> HIDE DEF c
  <2>3. QED BY <1>1, <2>1, <2>2, OneFacts
<1>7. CASE ConsoleDeletes(i)
  BY <1>2, <1>3, <1>7 DEF ConsoleDeletes
<1>8. CASE ConsoleEdits(i)
  BY <1>4, <1>5, <1>8 DEF ConsoleEdits, SpecSet
<1>9. CASE ConsoleRotates(i)
  BY <1>6, <1>9 DEF ConsoleRotates
<1>10. QED BY <1>7, <1>8, <1>9

\* What an administrator makes.
HandMade(s, v) == [clientId |-> s.clientId, settings |-> s.settings, public |-> s.public,
                   secret |-> v, roles |-> s.roles, cr |-> MadeFor(s.clientId)]

\* A client made by hand is of no resource, unless it is made while the worker looks for
\* the new client of that clientId.
LEMMA HandMadeFacts ==
    ASSUME IInv, NEW s \in SpecSet, NEW v \in Secrets
    PROVE  /\ HandMade(s, v) \in KcClients /\ HandMade(s, v).clientId = s.clientId
           /\ \/ HandMade(s, v).cr = None /\ (at = "store" => s.clientId # mine.spec.clientId)
              \/ HandMade(s, v).cr = me /\ at = "store"
<1>1. s.roles \in Roles /\ s.public \in BOOLEAN
  <2>1. \A n \in RoleNames : s.roles[n] \in Maybe(UNION {{t.roles[m] : m \in RoleNames} : t \in SpecSet})
    BY DEF Maybe
  <2>2. s.roles = [n \in RoleNames |-> s.roles[n]] /\ s.public \in BOOLEAN
    BY SpecsAssumption
  <2>3. QED BY <2>1, <2>2 DEF Roles
<1>2. MadeFor(s.clientId) \in Maybe(Clients)
  BY DEF MadeFor, Maybe, IInv, TypeOK, WorkerOK
<1>3. HandMade(s, v) \in KcClients
  BY <1>1, <1>2 DEF HandMade, KcClients
<1>4. QED BY <1>3 DEF HandMade, MadeFor

\* The administrator.
LEMMA ConsoleIInv ==
    ASSUME IInv, NEW i \in Ids,
           ConsoleDeletes(i) \/ ConsoleCreates(i) \/ ConsoleEdits(i) \/ ConsoleRotates(i)
    PROVE  IInv'
<1>1. events' \in 0..MaxEvents
  BY EventsType DEF ConsoleDeletes, ConsoleCreates, ConsoleEdits, ConsoleRotates
<1>2. UNCHANGED <<cluster, worker, view, vault, kcRealm, config, realm>>
  BY DEF ConsoleDeletes, ConsoleCreates, ConsoleEdits, ConsoleRotates, peers
<1>3. CASE ConsoleDeletes(i) \/ ConsoleEdits(i) \/ ConsoleRotates(i)
  <2>1. kc' \in [Ids -> KcClients \cup {Absent}] /\ NoneMade /\ spent' = spent
    BY <1>3, ConsoleFacts DEF ConsoleDeletes, ConsoleEdits, ConsoleRotates
  <2>2. \A j \in Ids : kc'[j] # Absent => kcRealm'
    BY <1>2, <2>1, KeycloakFacts DEF NoneMade
  <2>3. QED BY <1>1, <1>2, <2>1, <2>2, KeycloakFacts, RestIInv
<1>4. CASE ConsoleCreates(i)
  <2>1. PICK s \in SpecSet, v \in Secrets :
          ~ClientIdTaken(s.clientId) /\ kc' = [kc EXCEPT ![i] = HandMade(s, v)]
    BY <1>4 DEF ConsoleCreates, SpecSet, HandMade
  <2>2. kcRealm /\ spent' = spent \cup {i} /\ i \notin spent
    BY <1>4 DEF ConsoleCreates, Unused
  <2>3. ClientIdsAreUnique'
    BY <2>1, HandMadeFacts, KeycloakFacts DEF IInv, ClientIdsAreUnique, ClientIdTaken, Exists
  <2>4. LookupFindsOwn'
    BY <1>2, <2>1, HandMadeFacts, KeycloakFacts DEF IInv, LookupFindsOwn, NotAnothers, Exists, worker
  <2>5. /\ VaultOK'
        /\ \A n \in SecretNames : /\ n \notin secretStale' => secretCache'[n] = secrets'[n]
                                  /\ secrets'[n] # Absent /\ secrets'[n].owner \in Clients
                                       => Guarded(secrets'[n].owner)
    BY <1>2 DEF IInv, TypeOK, VaultOK, SecretsAreOwned, vault
  <2>6. QED
    BY <1>1, <1>2, <2>1, <2>2, <2>3, <2>4, <2>5, HandMadeFacts, KeycloakFacts, ElsewhereIInv
<1>5. QED BY <1>3, <1>4

\* The Secrets and their informer.
LEMMA SecretsIInv ==
    ASSUME IInv, NEW n \in SecretNames, SecretChanges(n) \/ SyncSecret(n)
    PROVE  IInv'
<1> USE DEF SecretChanges, SyncSecret
<1>1. events' \in 0..MaxEvents
  BY EventsType
<1>2. /\ UNCHANGED <<cluster, worker, view, kcRealm, config, realm, kc, spent>> /\ NoneMade
  BY DEF keycloak, peers, NoneMade
<1>3. ClientIdsAreUnique' /\ LookupFindsOwn'
  BY <1>2 DEF IInv, ClientIdsAreUnique, LookupFindsOwn, NotAnothers, worker, Exists
<1>4. /\ secrets \in [SecretNames -> VaultSecrets \cup {Absent}]
      /\ secretCache \in [SecretNames -> VaultSecrets \cup {Absent}]
      /\ secretStale \subseteq SecretNames
      /\ \A m \in SecretNames : m \notin secretStale => secretCache[m] = secrets[m]
      /\ \A m \in SecretNames : secrets[m] # Absent /\ secrets[m].owner \in Clients
                                  => Guarded(secrets[m].owner)
  BY DEF IInv, TypeOK, VaultOK, SecretsAreOwned
<1>5. /\ VaultOK'
      /\ \A m \in SecretNames : /\ m \notin secretStale' => secretCache'[m] = secrets'[m]
                                /\ secrets'[m] # Absent /\ secrets'[m].owner \in Clients
                                     => Guarded(secrets'[m].owner)
  <2>1. CASE SyncSecret(n)
    BY <1>4, <2>1 DEF VaultOK
  <2>2. CASE SecretChanges(n) /\ secrets' = [secrets EXCEPT ![n] = Absent]
    BY <1>4, <2>2 DEF VaultOK
  <2>3. ASSUME NEW v \in Secrets, secretStale' = secretStale \cup {n}, secretCache' = secretCache,
               secrets' = [secrets EXCEPT ![n] = [owner |-> None, of |-> None, value |-> v]]
        PROVE  /\ VaultOK'
               /\ \A m \in SecretNames : /\ m \notin secretStale' => secretCache'[m] = secrets'[m]
                                         /\ secrets'[m] # Absent /\ secrets'[m].owner \in Clients
                                              => Guarded(secrets'[m].owner)
    <3> DEFINE s == [owner |-> None, of |-> None, value |-> v]
    <3>1. s \in VaultSecrets /\ s.owner \notin Clients
      BY DEF VaultSecrets, Maybe
    <3> HIDE DEF s
    <3>2. QED BY <1>4, <2>3, <3>1 DEF VaultOK, s
  <2>4. QED BY <2>1, <2>2, <2>3
<1>6. QED
  BY <1>1, <1>2, <1>3, <1>5, KeycloakFacts, ElsewhereIInv

\* Every step preserves the inductive invariant.
LEMMA NextIInv == IInv /\ [Next]_vars => IInv'
<1> SUFFICES ASSUME IInv, [Next]_vars PROVE IInv'
  OBVIOUS
<1>1. ASSUME NEW g \in Clients, Start(g) \/ User(g) \/ Sync(g), UNCHANGED beyond PROVE IInv'
  BY <1>1, StartIInv, UserIInv, SyncIInv
<1>2. CASE (ToClient \/ StatusGone \/ StatusSkipped \/ StatusWritten \/ StatusConflict)
             /\ UNCHANGED beyond
  BY <1>2, PrepareIInv, EnsureFinalizerIInv, StatusIInv DEF ToClient, beyond
<1>3. CASE ValidateRealm
  BY <1>3, PrepareIInv DEF ValidateRealm, peers
<1>4. ASSUME Work PROVE IInv'
  BY <1>2, <1>3, <1>4, OwnerIInv, FetchIInv, UpdateIInv, CreateIInv, StoreIInv, FailIInv,
     ListIInv, RolesIInv, CurrentIInv, SecretIInv, DeleteIInv, ReleaseIInv DEF Work
<1>5. CASE Others \/ (ConfigChanges /\ UNCHANGED beyond)
  BY <1>5, PeersIInv, ConsoleIInv, SecretsIInv DEF Others
<1>6. CASE Restart
  <2>1. /\ events' \in 0..MaxEvents /\ Done /\ NoneMade /\ seen' = Absent /\ changed' = FALSE
        /\ UNCHANGED <<cluster, peers, kc, kcRealm, spent, vault>>
    BY <1>6, EventsType DEF Restart, Crash, Forget, keycloak, peers, NoneMade
  <2>2. QED BY <2>1, KeycloakFacts, DoneIInv
<1>7. CASE UNCHANGED vars
  <2>1. UNCHANGED <<cluster, worker, view, vault, spent, kc, kcRealm, config, realm, events>> /\ NoneMade
    BY <1>7 DEF vars, keycloak, peers, NoneMade
  <2>2. QED BY <2>1, EventsType, KeycloakFacts, RestIInv
<1>8. QED
  BY <1>1, <1>4, <1>5, <1>6, <1>7 DEF Next

\* The inductive invariant always holds.
THEOREM Invariance == Spec => []IInv
BY InitIInv, NextIInv, PTL DEF Spec

\* Every variable of the controller has its type.
THEOREM TypeCorrect == Spec => []TypeOK
<1>1. IInv => TypeOK
  BY DEF IInv
<1>2. QED BY <1>1, Invariance, PTL

\* The Secrets the worker owns in the cluster are those of resources that are there and
\* still have their finalizer.
THEOREM SecretsOutliveNoClient == Spec => []SecretsAreOwned
<1>1. IInv => SecretsAreOwned
  BY DEF IInv
<1>2. QED BY <1>1, Invariance, PTL

\* Whatever its copy says and whoever changes Keycloak under it, the worker changes and
\* deletes no client but the one made for its resource: the id it calls Keycloak with
\* comes from a copy of the resource or from a lookup by clientId
\* (client/keycloak_ops.go:72, client/controller.go:232-243).
THEOREM TouchesOnlyItsOwn == Spec => MindsItsOwn
<1>1. IInv /\ [Next]_vars
        => [kc' # kc /\ <<worker, view>>' # <<worker, view>>
              => \A i \in Ids : kc'[i] # kc[i] => NotAnothers(i, me)]_vars
  <2> SUFFICES ASSUME IInv, Next, kc' # kc, <<worker, view>>' # <<worker, view>>,
                      NEW i \in Ids, kc'[i] # kc[i]
               PROVE  NotAnothers(i, me)
    OBVIOUS
  <2>1. kc \in [Ids -> KcClients \cup {Absent}]
    BY KeycloakFacts
  <2>2. ASSUME at # "idle", i = mine.status.uuid PROVE NotAnothers(i, me)
    BY <2>2 DEF IInv, TracksNoOthers
  <2>3. CASE UpdateClient
    BY <2>1, <2>2, <2>3 DEF UpdateClient, Updated
  <2>4. ASSUME NEW n \in RoleNames, DeleteRole(n) \/ WriteRole(n) PROVE NotAnothers(i, me)
    BY <2>1, <2>2, <2>4 DEF DeleteRole, WriteRole
  <2>5. CASE DeleteClient \/ DeleteFails
    BY <2>1, <2>2, <2>5 DEF DeleteClient, DeleteFails, WithoutRoles
  <2>6. ASSUME NEW j \in Ids, CreateClient(j) PROVE NotAnothers(i, me)
    BY <2>1, <2>6, KeycloakFacts DEF CreateClient, Unused, NotAnothers, Exists
  <2>7. CASE Work
    BY <2>3, <2>4, <2>5, <2>6, <2>7 DEF Work, ValidateRealm, SetOwnerReference, FetchClient,
       FetchFails, UpdateFails, CreateFails, StoreClientUUID, StoreFails, ListRoles, ListFails,
       RolesFail, GetCurrentClient, NoSecretWanted, CreateOrUpdateClientSecret, SecretFails,
       ReleaseClient, keycloak, beyond
  <2>8. ~Others
    BY DEF Others, RealmChanges, ConsoleDeletes, ConsoleCreates, ConsoleEdits, ConsoleRotates,
       SecretChanges, SyncSecret, keycloak
  <2>9. QED BY <2>7, <2>8 DEF Next, beyond, keycloak, Restart
<1>2. QED BY <1>1, Invariance, PTL DEF Spec, MindsItsOwn
-----------------------------------------------------------------------------
(* What the worker deletes.                                                 *)

\* The lemmas of ReconcilerProofs apply.
LEMMA IsSound == IInv => Sound(Clients, Early)
BY DEF IInv, TypeOK, ObjectsOK, WorkerOK, Sound

\* The worker's own writes keep the deletions it knows of.
LEMMA WriteDeletion ==
    ASSUME IInv, DeletionIsLasting(Clients),
           EnsureFinalizer("realm") \/ SetOwnerReference \/ StatusWritten \/ RemoveFinalizer
    PROVE  DeletionIsLasting(Clients)'
<1> USE IsSound
<1>1. at # "idle" /\ mine \in Object /\ me \in Clients
  BY CopyFacts DEF EnsureFinalizer, SetOwnerReference, StatusWritten, StatusAccepted, RemoveFinalizer
<1>2. CASE EnsureFinalizer("realm") \/ SetOwnerReference
  <2>1. /\ ~mine.deleting /\ at \in Early
        /\ [mine EXCEPT !.finalizer = TRUE].deleting = mine.deleting
        /\ [mine EXCEPT !.owned = TRUE].deleting = mine.deleting
        /\ at = "finalizer" \/ Guarded(me)
    BY <1>1, <1>2 DEF EnsureFinalizer, SetOwnerReference, Object, IInv, PathsAreApart,
       GuardIsLasting
  <2>2. ASSUME NEW o, Written(o), ~o.deleting, at' \in {"realm", "fetch"}, me' = me
        PROVE  DeletionIsLasting(Clients)'
    BY <1>1, <2>1, <2>2, DeletionAfterWrite
  <2>3. CASE UNCHANGED <<mine, cluster>> /\ UNCHANGED <<me, fresh>> /\ at' # "finalizer"
    BY <1>1, <2>3, DeletionAfterWork DEF cluster
  <2>4. CASE Done /\ UNCHANGED cluster
    BY <2>4, DeletionAfterEnd DEF cluster
  <2>5. QED
    BY <1>1, <1>2, <2>1, <2>2, <2>3, <2>4
    DEF EnsureFinalizer, SetOwnerReference, Goto, Fail, Report
<1>3. CASE StatusWritten
  <2>1. at = "status" /\ cache[me] \in Object
    BY <1>1, <1>3 DEF StatusWritten, StatusAccepted, IInv, TypeOK, ObjectsOK
  <2>2. QED BY <1>3, <2>1, AppliedFacts, DeletionAfterStatus DEF StatusWritten
<1>4. CASE RemoveFinalizer
  BY <1>4, DeletionAfterRelease
<1>5. QED BY <1>2, <1>3, <1>4

\* A step of the worker keeps the deletions it knows of.
LEMMA WorkDeletion ==
    ASSUME IInv, DeletionIsLasting(Clients), Work
    PROVE  DeletionIsLasting(Clients)'
<1> USE IsSound
<1>1. CASE EnsureFinalizer("realm") \/ SetOwnerReference \/ StatusWritten \/ ReleaseClient
  BY <1>1, WriteDeletion DEF ReleaseClient
<1>2. ASSUME at # "idle", UNCHANGED <<cluster, me, fresh>>, mine'.deleting = mine.deleting,
             at' = "finalizer" => at = "client" /\ mine' = mine
      PROVE  DeletionIsLasting(Clients)'
  BY <1>2, DeletionAfterWork DEF cluster
<1>3. CASE Done /\ UNCHANGED cluster
  BY <1>3, DeletionAfterEnd DEF cluster
<1>4. CASE \/ ClientReady \/ ClientNotReady(Pending) \/ NoKeycloakClient \/ StatusGone
           \/ StatusSkipped \/ StatusConflict \/ ValidateRealm
           \/ DeleteClient \/ DeleteFails
  BY <1>2, <1>3, <1>4
  DEF ClientReady, ClientNotReady, NoKeycloakClient, StatusGone, StatusSkipped, StatusConflict,
      StatusRefused, ValidateRealm, DeleteClient, DeleteFails, Goto, Report
<1>5. CASE \/ FetchFails \/ UpdateClient \/ UpdateFails \/ \E i \in Ids : CreateClient(i)
           \/ CreateFails \/ StoreFails \/ ListFails \/ RolesFail \/ NoSecretWanted
           \/ GetCurrentClient \/ \E n \in RoleNames : DeleteRole(n)
  BY <1>2, <1>5
  DEF FetchFails, UpdateClient, UpdateFails, CreateClient, CreateFails, StoreFails, ListFails,
      RolesFail, NoSecretWanted, DeleteRole, GetCurrentClient, Goto, Fail, Succeed, Report
<1>6. CASE \/ FetchClient \/ StoreClientUUID \/ ListRoles \/ CreateOrUpdateClientSecret
           \/ SecretFails \/ \E n \in RoleNames : WriteRole(n)
  <2>1. at # "idle" /\ mine \in Object
    BY <1>6, CopyFacts DEF FetchClient, StoreClientUUID, ListRoles, CreateOrUpdateClientSecret,
       SecretFails, WriteRole
  <2>2. mine'.deleting = mine.deleting
    BY <1>6, <2>1 DEF FetchClient, ClearClientState, StoreClientUUID, ListRoles,
       CreateOrUpdateClientSecret, SecretFails, SecretStatus, WriteRole, Object
  <2>3. QED
    BY <1>2, <1>6, <2>1, <2>2
    DEF FetchClient, StoreClientUUID, ListRoles, CreateOrUpdateClientSecret, SecretFails,
        WriteRole, Goto, Fail, Succeed, Report
<1>7. QED BY <1>1, <1>4, <1>5, <1>6 DEF Work, ToClient

\* So does every other step.
LEMMA NextDeletion ==
    ASSUME IInv, DeletionIsLasting(Clients), [Next]_vars
    PROVE  DeletionIsLasting(Clients)'
<1> USE IsSound
<1>1. ASSUME NEW g \in Clients, Start(g) \/ User(g) \/ Sync(g)
      PROVE  DeletionIsLasting(Clients)'
  <2>1. ASSUME NEW s \in Specs[g], Create(g, NewObject(s)) PROVE DeletionIsLasting(Clients)'
    BY <2>1, DeletionAfterTouch DEF Create, NewObject
  <2>2. ASSUME NEW s \in Specs[g], Edit(g, s) PROVE DeletionIsLasting(Clients)'
    <3> DEFINE o == [obj[g] EXCEPT !.spec = s]
    <3>1. Touched(g, o) /\ obj[g] # Absent /\ obj[g] \in Object
      BY <2>2 DEF Edit, IInv, TypeOK, ObjectsOK
    <3>2. o.finalizer = obj[g].finalizer /\ o.deleting = obj[g].deleting
      BY <3>1 DEF Object
    <3>3. QED BY <3>1, <3>2, DeletionAfterTouch DEF Guarded
  <2>3. CASE Delete(g)
    <3> DEFINE o == IF obj[g].finalizer THEN [obj[g] EXCEPT !.deleting = TRUE] ELSE Absent
    <3>1. Touched(g, o) /\ obj[g] # Absent /\ obj[g] \in Object
      BY <2>3 DEF Delete, IInv, TypeOK, ObjectsOK
    <3>2. o # Absent => o.deleting /\ Guarded(g)
      BY <3>1 DEF Object, Guarded
    <3>3. QED BY <3>1, <3>2, DeletionAfterTouch
  <2>4. QED BY <1>1, <2>1, <2>2, <2>3, DeletionAfterStart, DeletionAfterSync DEF User
<1>2. CASE ConfigChanges \/ Restart \/ Others \/ UNCHANGED vars
  BY <1>2, DeletionAfterEnd
  DEF ConfigChanges, Restart, Crash, Others, RealmChanges, ConsoleDeletes, ConsoleCreates,
      ConsoleEdits, ConsoleRotates, SecretChanges, SyncSecret, vars, cluster
<1>3. QED BY <1>1, <1>2, WorkDeletion DEF Next

\* A client the worker takes away is that of a resource marked for deletion.
LEMMA CondemnedFacts ==
    ASSUME IInv, DeletionIsLasting(Clients), DeleteClient, NEW i \in Ids,
           kc[i] # Absent, kc'[i] = Absent
    PROVE  i = mine.status.uuid /\ kc[i].cr = me /\ Guarded(me) /\ obj[me].deleting
<1>1. at # "idle" /\ mine.deleting /\ me \in Clients
  BY CopyFacts DEF DeleteClient, IInv, PathsAreApart
<1>2. i = mine.status.uuid /\ Exists(i)
  BY KeycloakFacts DEF DeleteClient, Exists
<1>3. kc[i].cr = me
  BY <1>1, <1>2 DEF IInv, TracksNoOthers, NotAnothers
<1>4. Guarded(me)
  BY <1>1, <1>2, <1>3 DEF IInv, UnguardedIsUntracked, Live
<1>5. QED BY <1>1, <1>2, <1>3, <1>4 DEF DeletionIsLasting

\* The other steps of the worker take no client away.
LEMMA NothingElseDeletes ==
    ASSUME IInv, Work, ~DeleteClient
    PROVE  NoneLost
<1>1. ASSUME NEW i \in Ids, CreateClient(i) PROVE NoneLost
  BY <1>1, KeycloakFacts DEF CreateClient, Unused, NoneLost
<1>2. ASSUME NEW n \in RoleNames, DeleteRole(n) \/ WriteRole(n) PROVE NoneLost
  BY <1>2, RoleCallFacts
<1>3. CASE kc' = kc
  BY <1>3 DEF NoneLost
<1>4. QED
  BY <1>1, <1>2, <1>3, UpdateFacts, DeleteFacts DEF Work, ValidateRealm, SetOwnerReference,
     FetchClient, FetchFails, CreateFails, StoreClientUUID, StoreFails, ListRoles, ListFails,
     RolesFail, GetCurrentClient, NoSecretWanted, CreateOrUpdateClientSecret, SecretFails,
     ReleaseClient, keycloak, beyond

\* A client is taken away only for the deletion of the very resource it was made for,
\* however old the copy that says so: a cache that lags never condemns the client of a
\* resource created again under the same name (client/keycloak_ops.go:110-149).
THEOREM DeletesTheCondemned == Spec => DeletesOnlyCondemned
<1>1. Init => DeletionIsLasting(Clients)
  BY DEF Init, Empty, DeletionIsLasting
<1>2. IInv /\ DeletionIsLasting(Clients) /\ [Next]_vars => DeletionIsLasting(Clients)'
  BY NextDeletion
<1>3. IInv /\ DeletionIsLasting(Clients) /\ [Next]_vars
        => [\A i \in Ids :
              <<worker, view>>' # <<worker, view>> /\ kc[i] # Absent /\ kc'[i] = Absent =>
                \E g \in Clients : kc[i].cr = g /\ Guarded(g) /\ obj[g].deleting]_vars
  <2> SUFFICES ASSUME IInv, DeletionIsLasting(Clients), Next, NEW i \in Ids,
                      <<worker, view>>' # <<worker, view>>, kc[i] # Absent, kc'[i] = Absent
               PROVE  \E g \in Clients : kc[i].cr = g /\ Guarded(g) /\ obj[g].deleting
    OBVIOUS
  <2>1. ~Others
    BY DEF Others, RealmChanges, ConsoleDeletes, ConsoleCreates, ConsoleEdits, ConsoleRotates,
       SecretChanges, SyncSecret, keycloak
  <2>2. Work
    BY <2>1 DEF Next, beyond, keycloak, Restart
  <2>3. DeleteClient
    BY <2>2, NothingElseDeletes DEF NoneLost
  <2>4. me \in Clients
    BY <2>3, CopyFacts DEF DeleteClient
  <2>5. QED BY <2>3, <2>4, CondemnedFacts
<1>4. QED BY <1>1, <1>2, <1>3, Invariance, PTL DEF Spec, DeletesOnlyCondemned
-----------------------------------------------------------------------------
(* What Ready means, when nobody but the operator takes clients away.       *)

\* What the worker knows of its client at each place.
Backed == /\ at \in {"update", "list", "roles", "secret"} => Exists(mine.status.uuid)
          /\ at = "status" /\ outcome.ready =>
               mine.finalizer /\ ~mine.deleting /\ Exists(mine.status.uuid)

\* Ready clients among the objects.
ObjectsBacked ==
    \A g \in Clients : obj[g] # Absent /\ obj[g].status.ready =>
        obj[g].finalizer /\ (~obj[g].deleting => Exists(obj[g].status.uuid))

\* Taken together.
LEMMA BackedParts == /\ ReadyIsBacked <=> Backed /\ ObjectsBacked
                     /\ ReadyIsBacked' <=> Backed' /\ ObjectsBacked'
BY DEF ReadyIsBacked, ReadyClientExists, Backed, ObjectsBacked

\* A failure, and what is reported before the client is reached, is not Ready.
LEMMA NotReady ==
    /\ ~Pending.ready
    /\ \A m : Fail(m) => at' = "status" /\ ~outcome'.ready
    /\ \A q, m : ~Outcome(FALSE, q, m).ready
BY DEF Pending, Outcome, Fail, Report

\* A step that writes no object and loses no client.
LEMMA ObjectsKept ==
    ASSUME ObjectsBacked, UNCHANGED obj, NoneLost
    PROVE  ObjectsBacked'
BY DEF ObjectsBacked, NoneLost, Exists

\* A write of an object that is Ready only as it was before.
LEMMA ObjectsWritten ==
    ASSUME ObjectsBacked, NEW g \in Clients, NEW o, obj' = [obj EXCEPT ![g] = o],
           kc' = kc, obj = [h \in Clients |-> obj[h]],
           o # Absent /\ o.status.ready =>
               o.finalizer /\ (~o.deleting => Exists(o.status.uuid))
    PROVE  ObjectsBacked'
<1>1. obj'[g] = o /\ \A h \in Clients : h # g => obj'[h] = obj[h]
  OBVIOUS
<1>2. QED BY <1>1 DEF ObjectsBacked, Exists

\* The worker's steps between the owner reference and the status: each place after the
\* fetch knows that its client exists.
LEMMA CoreBacked ==
    ASSUME IInv, Backed, NoneLost,
           \/ FetchClient \/ FetchFails \/ UpdateClient \/ UpdateFails
           \/ \E i \in Ids : CreateClient(i)
           \/ CreateFails \/ StoreClientUUID \/ StoreFails
           \/ ListRoles \/ ListFails \/ RolesFail
           \/ \E n \in RoleNames : DeleteRole(n) \/ WriteRole(n)
           \/ GetCurrentClient
           \/ NoSecretWanted \/ CreateOrUpdateClientSecret \/ SecretFails
    PROVE  Backed'
<1>1. /\ at \in Core /\ mine.finalizer /\ ~mine.deleting /\ mine \in Object
  <2>1. at \in Core /\ at \notin {"idle", "owner"}
    BY DEF Core, Viewing, FetchClient, FetchFails, UpdateClient, UpdateFails, CreateClient,
       CreateFails, StoreClientUUID, StoreFails, ListRoles, ListFails, RolesFail, DeleteRole,
       WriteRole, GetCurrentClient, NoSecretWanted, CreateOrUpdateClientSecret, SecretFails
  <2>2. QED BY <2>1, CopyFacts DEF IInv, PathsAreApart, Core, Viewing
<1>2. \A u : Exists(u) => Exists(u)'
  BY DEF NoneLost, Exists
<1>3. ASSUME NEW m, Fail(m) PROVE Backed'
  BY <1>3, NotReady DEF Backed
<1>4. ASSUME at' \in {"create", "store"} PROVE Backed'
  BY <1>4 DEF Backed
<1>5. ASSUME Exists(mine.status.uuid), mine' = mine,
             at' \in {"update", "list", "roles", "secret", "status"}
      PROVE  Backed'
  BY <1>1, <1>2, <1>5 DEF Backed, Exists
<1>6. ASSUME NEW R, Exists(mine.status.uuid), mine' = [mine EXCEPT !.status.roles = R],
             at' \in {"roles"}
      PROVE  Backed'
  <2>1. mine'.status.uuid = mine.status.uuid
    BY <1>1, <1>6 DEF Object, Status
  <2>2. QED BY <1>2, <1>6, <2>1 DEF Backed, Exists
<1>7. ASSUME NEW n, Exists(mine.status.uuid), mine' = [mine EXCEPT !.status.secret = n],
             at' = "status"
      PROVE  Backed'
  <2>1. /\ mine'.status.uuid = mine.status.uuid /\ mine'.finalizer = mine.finalizer
        /\ mine'.deleting = mine.deleting
    BY <1>1, <1>7 DEF Object, Status
  <2>2. QED BY <1>1, <1>2, <1>7, <2>1 DEF Backed, Exists
<1>8. ASSUME NEW i \in Ids, Exists(i), mine' = [mine EXCEPT !.status.uuid = i, !.status.roles = {}],
             at' = "list"
      PROVE  Backed'
  <2>1. mine'.status.uuid = i
    BY <1>1, <1>8 DEF Object, Status
  <2>2. QED BY <1>2, <1>8, <2>1 DEF Backed, Exists
<1>9. at \in {"update", "list", "roles", "secret"} => Exists(mine.status.uuid)
  BY DEF Backed
<1>10. CASE FetchClient \/ FetchFails \/ UpdateClient \/ UpdateFails
  BY <1>3, <1>4, <1>5, <1>9, <1>10
  DEF FetchClient, FetchFails, UpdateClient, UpdateFails, Goto
<1>11. CASE (\E i \in Ids : CreateClient(i)) \/ CreateFails \/ StoreClientUUID \/ StoreFails
  BY <1>3, <1>4, <1>8, <1>11 DEF CreateClient, CreateFails, StoreClientUUID, StoreFails, Goto
<1>12. CASE ListRoles \/ ListFails \/ RolesFail \/ GetCurrentClient
  BY <1>3, <1>5, <1>6, <1>9, <1>12 DEF ListRoles, ListFails, RolesFail, GetCurrentClient, Goto
<1>13. ASSUME NEW n \in RoleNames, DeleteRole(n) \/ WriteRole(n) PROVE Backed'
  <2>1. at = "roles"
    BY <1>13 DEF DeleteRole, WriteRole
  <2>2. \/ at' = "roles" /\ \E R : mine' = [mine EXCEPT !.status.roles = R]
        \/ at' = "roles" /\ mine' = mine
        \/ Fail("roles failed")
    BY <1>1, <1>13, <2>1 DEF DeleteRole, WriteRole, Object, Status
  <2>3. QED BY <1>3, <1>5, <1>6, <1>9, <2>1, <2>2
<1>14. CASE NoSecretWanted \/ CreateOrUpdateClientSecret \/ SecretFails
  BY <1>3, <1>5, <1>7, <1>9, <1>14 DEF NoSecretWanted, CreateOrUpdateClientSecret, SecretFails,
     SecretStatus, Succeed, Report
<1>15. QED BY <1>10, <1>11, <1>12, <1>13, <1>14

\* The worker's other steps that write no object.
LEMMA EdgeBacked ==
    ASSUME IInv, Backed, NoneLost,
           \/ ClientReady \/ ClientNotReady(Pending) \/ NoKeycloakClient \/ ValidateRealm
           \/ EnsureFinalizer("realm") \/ SetOwnerReference
           \/ StatusGone \/ StatusSkipped \/ StatusConflict \/ StatusWritten
           \/ DeleteFails \/ RemoveFinalizer
    PROVE  Backed'
<1>1. CASE at' \notin {"update", "list", "roles", "secret", "status"}
  BY <1>1 DEF Backed
<1>2. CASE at' = "status" /\ ~outcome'.ready
  BY <1>2 DEF Backed
<1>3. CASE UNCHANGED <<at, mine, outcome>>
  BY <1>3 DEF Backed, NoneLost, Exists
<1>4. QED
  BY <1>1, <1>2, <1>3, NotReady
  DEF ClientReady, ClientNotReady, NoKeycloakClient, ValidateRealm, EnsureFinalizer,
      SetOwnerReference, StatusGone, StatusSkipped, StatusConflict, StatusRefused, StatusWritten,
      StatusAccepted, DeleteFails, RemoveFinalizer, Goto, Done, Report

\* The deletion of a client takes none away from a resource that is not being deleted.
LEMMA DeleteBacked ==
    ASSUME IInv, ReadyIsBacked, DeletionIsLasting(Clients), DeleteClient
    PROVE  ReadyIsBacked'
<1>1. at' \notin {"update", "list", "roles", "secret", "status"} /\ obj' = obj
  BY DEF DeleteClient, Goto, Done, cluster
<1>2. ASSUME NEW g \in Clients, obj[g] # Absent, obj[g].status.ready, ~obj[g].deleting
      PROVE  Exists(obj[g].status.uuid)'
  <2> DEFINE u == obj[g].status.uuid
  <2>1. Exists(u) /\ kc[u].cr = g
    BY <1>2 DEF ReadyIsBacked, ReadyClientExists, IInv, TracksNoOthers, NotAnothers
  <2>2. kc'[u] # Absent
    BY <1>2, <2>1, CondemnedFacts DEF Exists
  <2>3. QED BY <1>1, <2>1, <2>2 DEF Exists
<1>3. QED BY <1>1, <1>2 DEF ReadyIsBacked, ReadyClientExists

\* The worker's steps that write objects.
LEMMA WriteBacked ==
    ASSUME IInv, ReadyIsBacked, kc' = kc,
           EnsureFinalizer("realm") \/ SetOwnerReference \/ StatusWritten \/ RemoveFinalizer
    PROVE  ObjectsBacked'
<1>1. /\ at # "idle" /\ me \in Clients /\ mine \in Object
      /\ obj \in [Clients -> Object \cup {Absent}] /\ ObjectsBacked
  BY CopyFacts, BackedParts DEF EnsureFinalizer, RemoveFinalizer, SetOwnerReference,
     StatusWritten, StatusAccepted, IInv, TypeOK, ObjectsOK
<1>2. CASE obj' = obj
  BY <1>1, <1>2, ObjectsKept DEF NoneLost
<1>3. ASSUME NEW o \in Object, Written(o), at \in {"finalizer", "owner"},
             o.status = mine.status, o.finalizer, o.deleting = mine.deleting
      PROVE  ObjectsBacked'
  <2>1. obj[me] = mine /\ obj' = [obj EXCEPT ![me] = o] /\ mine # Absent
    BY <1>1, <1>3 DEF Written, IInv, CopiesAgree
  <2>2. QED BY <1>1, <1>3, <2>1, ObjectsWritten DEF ObjectsBacked
<1>4. CASE EnsureFinalizer("realm")
  <2>1. LET o == [mine EXCEPT !.finalizer = TRUE] IN
          o \in Object /\ o.status = mine.status /\ o.finalizer /\ o.deleting = mine.deleting
    BY <1>1 DEF Object
  <2>2. QED BY <1>2, <1>3, <1>4, <2>1 DEF EnsureFinalizer, cluster
<1>5. CASE SetOwnerReference
  <2>1. at = "owner" /\ mine.finalizer
    BY <1>5 DEF SetOwnerReference, IInv, PathsAreApart
  <2>2. LET o == [mine EXCEPT !.owned = TRUE] IN
          o \in Object /\ o.status = mine.status /\ o.finalizer /\ o.deleting = mine.deleting
    BY <1>1, <2>1 DEF Object
  <2>3. QED BY <1>2, <1>3, <1>5, <2>1, <2>2 DEF SetOwnerReference, cluster
<1>6. CASE RemoveFinalizer
  BY <1>1, <1>2, <1>6, ObjectsWritten DEF RemoveFinalizer, cluster
<1>7. CASE StatusWritten
  <2> DEFINE o == StatusApplied(cache[me])
  <2>1. /\ at = "status" /\ obj' = [obj EXCEPT ![me] = o]
        /\ cache[me] = obj[me] /\ obj[me] # Absent /\ obj[me] \in Object
    BY <1>1, <1>7 DEF StatusWritten, StatusAccepted, IInv, CopiesAgree
  <2>2. /\ o \in Object /\ o.finalizer = obj[me].finalizer
        /\ o.status.ready = outcome.ready
        /\ o.status.uuid =
             IF mine.status.uuid # None THEN mine.status.uuid ELSE obj[me].status.uuid
    BY <2>1, AppliedFacts
  <2>3. outcome.ready => /\ obj[me].finalizer
                         /\ Exists(mine.status.uuid) /\ mine.status.uuid # None
    BY <1>1, <2>1 DEF IInv, GuardIsLasting, Guarded, ReadyIsBacked, Exists
  <2> HIDE DEF o
  <2>4. QED BY <1>1, <2>1, <2>2, <2>3, ObjectsWritten
<1>8. QED BY <1>4, <1>5, <1>6, <1>7

\* The user and the informer.
LEMMA UserBacked ==
    ASSUME IInv, ReadyIsBacked, NEW g \in Clients, Start(g) \/ User(g) \/ Sync(g),
           UNCHANGED beyond
    PROVE  ReadyIsBacked'
<1>1. kc' = kc /\ obj \in [Clients -> Object \cup {Absent}] /\ Backed /\ ObjectsBacked
  BY BackedParts DEF beyond, keycloak, IInv, TypeOK, ObjectsOK
<1>2. Backed'
  BY <1>1 DEF Backed, Exists, Start, User, Create, Edit, Delete, Touched, Sync, worker
<1>3. CASE obj' = obj
  BY <1>1, <1>2, <1>3, BackedParts, ObjectsKept DEF NoneLost
<1>4. ASSUME NEW o, Touched(g, o),
             o # Absent /\ o.status.ready =>
                 /\ o.finalizer /\ obj[g] # Absent /\ obj[g].status = o.status
                 /\ ~o.deleting => ~obj[g].deleting
      PROVE  ReadyIsBacked'
  <2>1. obj' = [obj EXCEPT ![g] = o]
    BY <1>4 DEF Touched
  <2>2. o # Absent /\ o.status.ready => o.finalizer /\ (~o.deleting => Exists(o.status.uuid))
    BY <1>1, <1>4 DEF ObjectsBacked
  <2>3. ObjectsBacked'
    BY <1>1, <2>1, <2>2, ObjectsWritten
  <2>4. QED BY <1>2, <2>3, BackedParts
<1>5. ASSUME NEW s \in Specs[g], Create(g, NewObject(s)) PROVE ReadyIsBacked'
  BY <1>4, <1>5 DEF Create, NewObject
<1>6. ASSUME NEW s \in Specs[g], Edit(g, s) PROVE ReadyIsBacked'
  <2> DEFINE o == [obj[g] EXCEPT !.spec = s]
  <2>1. Touched(g, o) /\ obj[g] # Absent /\ obj[g] \in Object
    BY <1>1, <1>6 DEF Edit
  <2>2. /\ o.finalizer = obj[g].finalizer /\ o.status = obj[g].status
        /\ o.deleting = obj[g].deleting
    BY <2>1 DEF Object
  <2> HIDE DEF o
  <2>3. QED BY <1>1, <1>4, <2>1, <2>2 DEF ObjectsBacked
<1>7. CASE Delete(g)
  <2> DEFINE o == IF obj[g].finalizer THEN [obj[g] EXCEPT !.deleting = TRUE] ELSE Absent
  <2>1. Touched(g, o) /\ obj[g] # Absent /\ obj[g] \in Object
    BY <1>1, <1>7 DEF Delete
  <2>2. o # Absent => o.finalizer /\ o.status = obj[g].status /\ o.deleting
    BY <2>1 DEF Object
  <2> HIDE DEF o
  <2>3. QED BY <1>4, <2>1, <2>2
<1>8. QED BY <1>3, <1>5, <1>6, <1>7 DEF Start, Sync, User, cluster

\* Everyone else, as long as nobody takes clients away.
LEMMA OthersBacked ==
    ASSUME "handDelete" \notin Disturbances, "realmDeleted" \notin Disturbances,
           IInv, ReadyIsBacked,
           \/ Others
           \/ ConfigChanges /\ UNCHANGED beyond
           \/ Restart
           \/ UNCHANGED vars
    PROVE  ReadyIsBacked'
<1>1. obj' = obj
  BY DEF Others, RealmChanges, ConsoleDeletes, ConsoleCreates, ConsoleEdits, ConsoleRotates,
     SecretChanges, SyncSecret, ConfigChanges, Restart, Crash, vars, cluster
<1>2. UNCHANGED <<at, mine, outcome>> \/ at' = "idle"
  BY DEF Others, RealmChanges, ConsoleDeletes, ConsoleCreates, ConsoleEdits, ConsoleRotates,
     SecretChanges, SyncSecret, ConfigChanges, Restart, Crash, Done, vars, worker
<1>3. NoneLost
  <2>1. CASE kc' = kc
    BY <2>1 DEF NoneLost
  <2>2. ASSUME NEW i \in Ids, ConsoleCreates(i) PROVE NoneLost
    BY <2>2, KeycloakFacts DEF ConsoleCreates, Unused, NoneLost
  <2>3. ASSUME NEW i \in Ids, ConsoleEdits(i) \/ ConsoleRotates(i) PROVE NoneLost
    BY <2>3, ConsoleFacts DEF ConsoleDeletes, Event
  <2>4. QED
    BY <2>1, <2>2, <2>3 DEF Others, RealmChanges, ConsoleDeletes, SecretChanges, SyncSecret,
       ConfigChanges, Restart, Event, beyond, vars, keycloak
<1>4. Backed'
  BY <1>2, <1>3, BackedParts DEF Backed, NoneLost, Exists
<1>5. QED BY <1>1, <1>3, <1>4, BackedParts, ObjectsKept

\* A step keeps it so.
LEMMA NextBacked ==
    ASSUME "handDelete" \notin Disturbances, "realmDeleted" \notin Disturbances,
           IInv, DeletionIsLasting(Clients), ReadyIsBacked, [Next]_vars
    PROVE  ReadyIsBacked'
<1>1. CASE Work /\ ~DeleteClient
  <2>1. NoneLost /\ Backed /\ ObjectsBacked
    BY <1>1, NothingElseDeletes, BackedParts
  <2>2. Backed'
    BY <1>1, <2>1, CoreBacked, EdgeBacked DEF Work, ToClient, ReleaseClient
  <2>3. \/ obj' = obj
        \/ /\ EnsureFinalizer("realm") \/ SetOwnerReference \/ StatusWritten \/ RemoveFinalizer
           /\ kc' = kc
    BY <1>1 DEF Work, ToClient, ClientReady, ClientNotReady, NoKeycloakClient, StatusGone,
       StatusSkipped, StatusConflict, StatusRefused, ValidateRealm, FetchClient, FetchFails,
       UpdateClient, UpdateFails, CreateClient, CreateFails, StoreClientUUID, StoreFails,
       ListRoles, ListFails, RolesFail, DeleteRole, WriteRole, GetCurrentClient, NoSecretWanted,
       CreateOrUpdateClientSecret, SecretFails, DeleteFails, ReleaseClient, SetOwnerReference,
       cluster, beyond, keycloak
  <2>4. ObjectsBacked'
    BY <2>1, <2>3, WriteBacked, ObjectsKept
  <2>5. QED BY <2>2, <2>4, BackedParts
<1>2. QED BY <1>1, DeleteBacked, UserBacked, OthersBacked DEF Next

\* While nobody but the operator takes clients away, a resource that is Ready and not being
\* deleted names a client that exists, however old the copies and how many the conflicts,
\* faults, lost answers and crashes before (client/controller.go:99-193).
THEOREM ReadyIsTrue ==
    ASSUME "handDelete" \notin Disturbances, "realmDeleted" \notin Disturbances
    PROVE  Spec => []ReadyClientExists
<1>1. Init => DeletionIsLasting(Clients) /\ ReadyIsBacked
  BY DEF Init, Empty, DeletionIsLasting, ReadyIsBacked, ReadyClientExists
<1>2. IInv /\ DeletionIsLasting(Clients) /\ [Next]_vars => DeletionIsLasting(Clients)'
  BY NextDeletion
<1>3. IInv /\ DeletionIsLasting(Clients) /\ ReadyIsBacked /\ [Next]_vars => ReadyIsBacked'
  BY NextBacked
<1>4. ReadyIsBacked => ReadyClientExists
  BY DEF ReadyIsBacked
<1>5. QED BY <1>1, <1>2, <1>3, <1>4, Invariance, PTL DEF Spec
-----------------------------------------------------------------------------
(* Each Client resource implements ManagedResource.                      *)

\* What becomes of g in a step.
ManagedStep(g) == Managed(g)!Next \/ UNCHANGED Managed(g)!vars

\* A step that leaves the object's life and its id alone, and makes no client for it,
\* loses clients or does nothing.
LEMMA LoseStep ==
    ASSUME NEW g \in Clients, Life(g)' = Life(g), Tracked(g)' = Tracked(g),
           \A i \in Ids : kc'[i] # Absent /\ kc'[i].cr = g => kc[i] # Absent /\ kc[i].cr = g
    PROVE  ManagedStep(g)
<1> DEFINE S == {i \in Ids : /\ kc[i] # Absent /\ kc[i].cr = g
                             /\ ~(kc'[i] # Absent /\ kc'[i].cr = g)}
<1>1. LiveOf(g)' = LiveOf(g) \ S
  BY DEF LiveOf, Exists
<1>2. Managed(g)!Lose(S)
  BY <1>1 DEF Managed!Lose
<1>3. QED BY <1>2 DEF ManagedStep, Managed!Next

\* The same, when no object is written.
LEMMA QuietStep ==
    ASSUME IInv, NEW g \in Clients, obj' = obj, kc' = kc \/ NoneMade
    PROVE  ManagedStep(g)
BY LoseStep DEF Life, Tracked, NoneMade

\* No step of the worker but five writes an object or makes a client.
LEMMA WorkerStep ==
    ASSUME IInv, NEW g \in Clients,
           \/ (ClientReady \/ ClientNotReady(Pending) \/ NoKeycloakClient) /\ UNCHANGED beyond
           \/ (StatusGone \/ StatusSkipped \/ StatusConflict) /\ UNCHANGED beyond
           \/ ValidateRealm \/ FetchClient \/ FetchFails
           \/ UpdateClient \/ UpdateFails \/ CreateFails \/ StoreClientUUID \/ StoreFails
           \/ ListRoles \/ ListFails \/ RolesFail
           \/ \E n \in RoleNames : DeleteRole(n) \/ WriteRole(n)
           \/ GetCurrentClient \/ NoSecretWanted \/ CreateOrUpdateClientSecret \/ SecretFails
           \/ DeleteClient \/ DeleteFails \/ Restart
    PROVE  ManagedStep(g)
<1>1. obj' = obj
  BY DEF ClientReady, ClientNotReady, NoKeycloakClient, StatusGone, StatusSkipped, StatusConflict,
     StatusRefused, ValidateRealm, FetchClient, FetchFails, UpdateClient, UpdateFails, CreateFails,
     StoreClientUUID, StoreFails, ListRoles, ListFails, RolesFail, DeleteRole, WriteRole,
     GetCurrentClient, NoSecretWanted, CreateOrUpdateClientSecret, SecretFails, DeleteClient,
     DeleteFails, Restart, Crash, cluster
<1>2. CASE \/ UpdateClient \/ UpdateFails \/ DeleteClient \/ DeleteFails
           \/ \E n \in RoleNames : DeleteRole(n) \/ WriteRole(n)
  <2>1. NoneMade
    BY <1>2, UpdateFacts, RoleCallFacts, DeleteFacts
  <2>2. QED BY <1>1, <2>1, QuietStep
<1>3. CASE ~(\/ UpdateClient \/ UpdateFails \/ DeleteClient \/ DeleteFails
             \/ \E n \in RoleNames : DeleteRole(n) \/ WriteRole(n))
  <2>1. kc' = kc
    BY <1>3 DEF ClientReady, ClientNotReady, NoKeycloakClient, ValidateRealm, FetchClient,
       FetchFails, CreateFails, StoreClientUUID, StoreFails, ListRoles, ListFails, RolesFail,
       GetCurrentClient, NoSecretWanted, CreateOrUpdateClientSecret, SecretFails, Restart,
       keycloak, beyond
  <2>2. QED BY <1>1, <2>1, QuietStep
<1>4. QED BY <1>2, <1>3

\* A new client for the resource at work, while its copy shows the finalizer.
LEMMA ProvisionStep ==
    ASSUME IInv, NEW g \in Clients, g = me, NEW i \in Ids, i \notin spent, obj' = obj,
           at # "idle", mine.finalizer, ~mine.deleting,
           NEW c \in KcClients, c.cr = g, kc' = [kc EXCEPT ![i] = c]
    PROVE  ManagedStep(g)
<1>1. Guarded(g)
  BY DEF IInv, GuardIsLasting
<1>2. Life(g) = "guarded" /\ Life(g)' = Life(g) /\ Tracked(g)' = Tracked(g)
  BY <1>1 DEF Life, Tracked, Guarded
<1>3. i \notin LiveOf(g)
  BY KeycloakFacts DEF LiveOf, Exists
<1>4. LiveOf(g)' = LiveOf(g) \cup {i}
  BY KeycloakFacts DEF LiveOf, Exists
<1>5. Managed(g)!Provision(i)
  BY <1>2, <1>3, <1>4 DEF Managed!Provision
<1>6. QED BY <1>5 DEF ManagedStep, Managed!Next

\* A client is made only for a resource that has the finalizer.
LEMMA CreateStep ==
    ASSUME IInv, NEW g \in Clients, NEW i \in Ids, CreateClient(i)
    PROVE  ManagedStep(g)
<1>1. /\ obj' = obj /\ i \notin spent /\ mine.finalizer /\ ~mine.deleting /\ at # "idle"
  BY DEF CreateClient, Unused, cluster, IInv, PathsAreApart
<1>2. PICK v \in Secrets : kc' = [kc EXCEPT ![i] = NewClient(v)]
  BY DEF CreateClient
<1>3. NewClient(v) \in KcClients /\ NewClient(v).cr = me
  BY <1>1, CopyFacts, SpecsAssumption DEF NewClient, NoRoles, KcClients, Roles, Maybe
<1>4. CASE g # me
  <2>1. \A j \in Ids : kc'[j] # Absent /\ kc'[j].cr = g => kc[j] # Absent /\ kc[j].cr = g
    BY <1>1, <1>2, <1>3, <1>4, KeycloakFacts
  <2>2. QED BY <1>1, <2>1, LoseStep DEF Life, Tracked
<1>5. CASE g = me
  BY <1>1, <1>2, <1>3, <1>5, ProvisionStep
<1>6. QED BY <1>4, <1>5

\* The finalizer is added to a bare object; no other write of the copy is seen.
LEMMA WriteStep ==
    ASSUME IInv, NEW g \in Clients,
           (EnsureFinalizer("realm") /\ UNCHANGED keycloak) \/ SetOwnerReference
    PROVE  ManagedStep(g)
<1>1. at # "idle" /\ kc' = kc /\ me \in Clients /\ mine \in Object
      /\ obj \in [Clients -> Object \cup {Absent}]
  BY CopyFacts DEF EnsureFinalizer, SetOwnerReference, keycloak, IInv, TypeOK, ObjectsOK
<1>2. LiveOf(g)' = LiveOf(g)
  BY <1>1 DEF LiveOf, Exists
<1>3. CASE obj' = obj
  BY <1>1, <1>3, QuietStep
<1>4. CASE SetOwnerReference /\ Written([mine EXCEPT !.owned = TRUE])
  <2>1. fresh /\ obj[me] = mine /\ obj' = [obj EXCEPT ![me] = [mine EXCEPT !.owned = TRUE]]
    BY <1>4 DEF SetOwnerReference, Written, IInv, CopiesAgree
  <2>2. [mine EXCEPT !.owned = TRUE] # Absent
        /\ [mine EXCEPT !.owned = TRUE].finalizer = mine.finalizer
        /\ [mine EXCEPT !.owned = TRUE].status = mine.status
    BY <1>1 DEF Object
  <2>3. Life(g)' = Life(g) /\ Tracked(g)' = Tracked(g)
    BY <1>1, <2>1, <2>2 DEF Life, Tracked
  <2>4. QED BY <1>1, <2>3, LoseStep
<1>5. CASE EnsureFinalizer("realm") /\ ~mine.finalizer /\ Written([mine EXCEPT !.finalizer = TRUE])
  <2>1. fresh /\ obj[me] = mine /\ obj' = [obj EXCEPT ![me] = [mine EXCEPT !.finalizer = TRUE]]
    BY <1>5 DEF EnsureFinalizer, Written, IInv, CopiesAgree
  <2>2. [mine EXCEPT !.finalizer = TRUE] # Absent /\ mine # Absent
        /\ [mine EXCEPT !.finalizer = TRUE].finalizer
        /\ [mine EXCEPT !.finalizer = TRUE].status = mine.status
    BY <1>1 DEF Object
  <2>3. CASE g = me
    <3>1. Life(g) = "bare" /\ Life(g)' = "guarded" /\ Tracked(g)' = Tracked(g)
      BY <1>1, <1>5, <2>1, <2>2, <2>3 DEF Life, Tracked
    <3>2. Managed(g)!Guard
      BY <1>2, <3>1 DEF Managed!Guard
    <3>3. QED BY <3>2 DEF ManagedStep, Managed!Next
  <2>4. CASE g # me
    <3>1. Life(g)' = Life(g) /\ Tracked(g)' = Tracked(g)
      BY <1>1, <2>1, <2>4 DEF Life, Tracked
    <3>2. QED BY <1>1, <3>1, LoseStep
  <2>5. QED BY <2>3, <2>4
<1>6. QED
  BY <1>3, <1>4, <1>5 DEF EnsureFinalizer, SetOwnerReference, cluster

\* A status write has the resource track the UUID written.
LEMMA StatusStep ==
    ASSUME IInv, NEW g \in Clients, StatusWritten, UNCHANGED beyond
    PROVE  ManagedStep(g)
<1> DEFINE o == StatusApplied(cache[me])
<1>1. /\ me \in Clients /\ at = "status" /\ kc' = kc /\ obj' = [obj EXCEPT ![me] = o]
      /\ obj \in [Clients -> Object \cup {Absent}]
      /\ obj[me] = cache[me] /\ obj[me] # Absent /\ obj[me] \in Object
  BY DEF StatusWritten, StatusAccepted, beyond, IInv, TypeOK, ObjectsOK, WorkerOK, CopiesAgree,
     keycloak
<1>2. /\ o \in Object /\ o # Absent /\ o.finalizer = obj[me].finalizer
      /\ o.status.uuid \in Ids \/ o.status.uuid = obj[me].status.uuid
  BY <1>1, AppliedFacts, CopyFacts DEF Maybe
<1>3. Life(g)' = Life(g) /\ LiveOf(g)' = LiveOf(g)
  BY <1>1, <1>2 DEF Life, LiveOf, Exists
<1>4. CASE Tracked(g)' = Tracked(g)
  BY <1>1, <1>3, <1>4, LoseStep
<1>5. CASE Tracked(g)' # Tracked(g)
  <2>1. g = me /\ Tracked(g)' = o.status.uuid /\ o.status.uuid \in Ids /\ Life(g) # "absent"
    BY <1>1, <1>2, <1>5 DEF Tracked, Life
  <2>2. Managed(g)!Track(o.status.uuid)
    BY <1>3, <2>1 DEF Managed!Track
  <2>3. QED BY <2>1, <2>2 DEF ManagedStep, Managed!Next
<1>6. QED BY <1>4, <1>5

\* An object goes only when no client of its own is tracked.
LEMMA ReleaseStep ==
    ASSUME IInv, NEW g \in Clients, ReleaseClient
    PROVE  ManagedStep(g)
<1>1. /\ me \in Clients /\ at = "unfinalize" /\ kc' = kc /\ mine \in Object
      /\ obj \in [Clients -> Object \cup {Absent}]
  BY DEF ReleaseClient, RemoveFinalizer, IInv, TypeOK, ObjectsOK, WorkerOK, keycloak
<1>2. CASE obj' = obj
  BY <1>1, <1>2, QuietStep
<1>3. CASE mine.finalizer /\ fresh /\ obj' = [obj EXCEPT ![me] = Absent]
  <2>1. obj[me] = mine /\ ~Live(mine.status.uuid, me) /\ LiveOf(g)' = LiveOf(g)
    BY <1>1, <1>3 DEF IInv, CopiesAgree, UnguardedIsUntracked, LiveOf, Exists
  <2>2. CASE g = me
    <3>1. Life(g) = "guarded" /\ Life(g)' = "absent" /\ Tracked(g)' = None
      BY <1>1, <1>3, <2>1, <2>2 DEF Life, Tracked
    <3>2. Tracked(g) \notin LiveOf(g)
      BY <1>1, <1>3, <2>1, <2>2 DEF Tracked, LiveOf, Live
    <3>3. Managed(g)!Release
      BY <2>1, <3>1, <3>2 DEF Managed!Release
    <3>4. QED BY <3>3 DEF ManagedStep, Managed!Next
  <2>3. CASE g # me
    <3>1. Life(g)' = Life(g) /\ Tracked(g)' = Tracked(g)
      BY <1>1, <1>3, <2>3 DEF Life, Tracked
    <3>2. QED BY <1>1, <3>1, LoseStep
  <2>4. QED BY <2>2, <2>3
<1>4. QED BY <1>2, <1>3 DEF ReleaseClient, RemoveFinalizer, cluster

\* A user declares a resource, edits it, and deletes it: at once, if it is bare.
LEMMA UserStep ==
    ASSUME IInv, NEW g \in Clients, NEW h \in Clients, User(h), UNCHANGED keycloak
    PROVE  ManagedStep(g)
<1>1. /\ kc' = kc /\ obj \in [Clients -> Object \cup {Absent}]
      /\ \E o : obj' = [obj EXCEPT ![h] = o]
  BY DEF User, Create, Edit, Delete, Touched, keycloak, IInv, TypeOK, ObjectsOK
<1>2. LiveOf(g)' = LiveOf(g)
  BY <1>1 DEF LiveOf, Exists
<1>3. CASE g # h
  <2>1. Life(g)' = Life(g) /\ Tracked(g)' = Tracked(g)
    BY <1>1, <1>3 DEF Life, Tracked
  <2>2. QED BY <1>1, <2>1, LoseStep
<1>4. ASSUME g = h, NEW s \in Specs[g], Create(g, NewObject(s)) PROVE ManagedStep(g)
  <2>1. obj' = [obj EXCEPT ![g] = NewObject(s)]
    BY <1>4 DEF Create, Touched
  <2>2. NewObject(s) \in Object /\ ~NewObject(s).finalizer /\ NewObject(s).status.uuid = None
    BY DEF NewObject, Object, Status, SpecSet, Maybe, Messages
  <2>3. /\ Life(g) = "absent" /\ Life(g)' = "bare" /\ Tracked(g) = None /\ Tracked(g)' = None
    BY <1>1, <1>4, <2>1, <2>2 DEF Create, Life, Tracked
  <2>4. Managed(g)!Declare
    BY <1>2, <2>3 DEF Managed!Declare
  <2>5. QED BY <2>4 DEF ManagedStep, Managed!Next
<1>5. ASSUME g = h, NEW s \in Specs[g], Edit(g, s) PROVE ManagedStep(g)
  <2>1. obj' = [obj EXCEPT ![g] = [obj[g] EXCEPT !.spec = s]]
    BY <1>5 DEF Edit, Touched
  <2> DEFINE o == [obj[g] EXCEPT !.spec = s]
  <2>2. /\ obj[g] # Absent /\ obj[g] \in Object /\ s \in SpecSet
    BY <1>1, <1>5 DEF Edit, SpecSet
  <2>3. o \in Object /\ o.finalizer = obj[g].finalizer /\ o.status = obj[g].status
    BY <2>2 DEF Object
  <2>4. obj'[g] = o /\ o # Absent
    BY <1>1, <2>1, <2>3
  <2>5. Life(g)' = Life(g) /\ Tracked(g)' = Tracked(g)
    BY <2>2, <2>3, <2>4 DEF Life, Tracked
  <2>6. QED BY <1>1, <2>5, LoseStep
<1>6. CASE g = h /\ Delete(h)
  <2>1. obj[g] # Absent /\ obj[g] \in Object
    BY <1>1, <1>6 DEF Delete
  <2>2. CASE obj[g].finalizer
    <3> DEFINE o == [obj[g] EXCEPT !.deleting = TRUE]
    <3>1. o \in Object /\ o.finalizer /\ o.status = obj[g].status
      BY <2>1, <2>2 DEF Object
    <3>2. obj'[g] = o /\ o # Absent
      BY <1>1, <1>6, <2>2, <3>1 DEF Delete, Touched
    <3>3. Life(g)' = Life(g) /\ Tracked(g)' = Tracked(g)
      BY <2>1, <2>2, <3>1, <3>2 DEF Life, Tracked
    <3>4. QED BY <1>1, <3>3, LoseStep
  <2>3. CASE ~obj[g].finalizer
    <3>1. /\ Life(g) = "bare" /\ Life(g)' = "absent" /\ Tracked(g)' = None
      BY <1>1, <1>6, <2>1, <2>3 DEF Delete, Touched, Life, Tracked
    <3>2. Tracked(g) \notin LiveOf(g)
      BY <2>1, <2>3 DEF IInv, UnguardedIsUntracked, Guarded, Tracked, LiveOf, Live
    <3>3. Managed(g)!Discard
      BY <1>2, <3>1, <3>2 DEF Managed!Discard
    <3>4. QED BY <3>3 DEF ManagedStep, Managed!Next
  <2>4. QED BY <2>2, <2>3
<1>7. QED BY <1>3, <1>4, <1>5, <1>6 DEF User

\* In Keycloak, others make no client for a resource but the one that looks for a new one.
LEMMA OtherStep ==
    ASSUME IInv, NEW g \in Clients, Others \/ (ConfigChanges /\ UNCHANGED beyond)
    PROVE  ManagedStep(g)
<1>1. obj' = obj
  BY DEF Others, ConfigChanges, RealmChanges, ConsoleDeletes, ConsoleCreates, ConsoleEdits,
     ConsoleRotates, SecretChanges, SyncSecret, cluster
<1>2. CASE \/ RealmChanges \/ (ConfigChanges /\ UNCHANGED beyond)
           \/ \E n \in SecretNames : SecretChanges(n) \/ SyncSecret(n)
  <2>1. kc' = kc \/ kc' = [i \in Ids |-> Absent]
    BY <1>2 DEF RealmChanges, SecretChanges, SyncSecret, beyond, keycloak
  <2>2. kc' = kc \/ NoneMade
    BY <2>1 DEF NoneMade
  <2>3. QED BY <1>1, <2>2, QuietStep
<1>3. ASSUME NEW i \in Ids, ConsoleDeletes(i) \/ ConsoleEdits(i) \/ ConsoleRotates(i)
      PROVE  ManagedStep(g)
  BY <1>1, <1>3, ConsoleFacts, QuietStep
<1>4. ASSUME NEW i \in Ids, ConsoleCreates(i) PROVE ManagedStep(g)
  <2>1. PICK s \in SpecSet, v \in Secrets : kc' = [kc EXCEPT ![i] = HandMade(s, v)]
    BY <1>4 DEF ConsoleCreates, SpecSet, HandMade
  <2>2. /\ HandMade(s, v) \in KcClients /\ i \notin spent
        /\ HandMade(s, v).cr = None \/ (HandMade(s, v).cr = me /\ at = "store")
    BY <1>4, HandMadeFacts DEF ConsoleCreates, Unused
  <2>3. CASE HandMade(s, v).cr # g
    <3>1. \A j \in Ids : kc'[j] # Absent /\ kc'[j].cr = g => kc[j] # Absent /\ kc[j].cr = g
      BY <2>1, <2>3, KeycloakFacts
    <3>2. QED BY <1>1, <3>1, LoseStep DEF Life, Tracked
  <2>4. CASE HandMade(s, v).cr = g
    <3>1. g = me /\ at # "idle" /\ mine.finalizer /\ ~mine.deleting
      BY <2>2, <2>4, NilAssumption DEF IInv, PathsAreApart
    <3>2. QED BY <1>1, <2>1, <2>2, <2>4, <3>1, ProvisionStep
  <2>5. QED BY <2>3, <2>4
<1>5. QED BY <1>2, <1>3, <1>4 DEF Others

\* Each Client resource lives as ManagedResource says, against stale reads, refused
\* writes, crashes, lost answers and the work of others in Keycloak
\* (client/controller.go:109-111, 232-243).
THEOREM ImplementsManagedResource == Spec => ManagedSpec
<1>1. Init => \A g \in Clients : Managed(g)!Init
  BY DEF Init, Empty, Managed!Init, Life, Tracked, LiveOf, Exists
<1>2. IInv /\ [Next]_vars =>
        [\A g \in Clients : Managed(g)!Next \/ UNCHANGED Managed(g)!vars]_vars
  <2> SUFFICES ASSUME IInv, Next, NEW g \in Clients PROVE ManagedStep(g)
    BY DEF ManagedStep
  <2>1. ASSUME NEW h \in Clients, Start(h) \/ User(h) \/ Sync(h), UNCHANGED beyond
        PROVE  ManagedStep(g)
    BY <2>1, QuietStep, UserStep DEF Start, Sync, cluster, beyond, keycloak
  <2>2. CASE (ToClient \/ StatusGone \/ StatusSkipped \/ StatusWritten \/ StatusConflict)
               /\ UNCHANGED beyond
    BY <2>2, WorkerStep, WriteStep, StatusStep DEF ToClient, beyond
  <2>3. CASE Work
    BY <2>2, <2>3, WorkerStep, CreateStep, WriteStep, ReleaseStep DEF Work
  <2>4. CASE Restart
    BY <2>4, WorkerStep
  <2>5. CASE Others \/ (ConfigChanges /\ UNCHANGED beyond)
    BY <2>5, OtherStep
  <2>6. QED BY <2>1, <2>3, <2>4, <2>5 DEF Next
<1>3. QED BY <1>1, <1>2, Invariance, PTL DEF Spec, ManagedSpec
=============================================================================
