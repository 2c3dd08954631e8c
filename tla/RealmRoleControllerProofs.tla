------------------------- MODULE RealmRoleControllerProofs ---------------------
(***************************************************************************)
(* Theorems about RealmRoleController for any roles, specs, UUIDs and      *)
(* bounds: IInv is inductive, each RealmRole resource lives as             *)
(* ManagedResource says, the worker works on no role but its own and       *)
(* deletes it only when it is condemned, and Ready means there is one.     *)
(***************************************************************************)
EXTENDS RealmRoleController, ReconcilerProofs, TLAPS

USE BoundsAssumption, NilAssumption, AbsentAssumption DEF Early, OutcomeOK

\* The outcomes of the code are outcomes.
LEMMA OutcomeType ==
    /\ \A r, q \in BOOLEAN, m \in Messages : Outcome(r, q, m) \in Outcomes
    /\ Pending \in Outcomes /\ NoClient \in Outcomes
BY DEF Outcome, Pending, NoClient, Outcomes, Messages

\* The places and the bounds a reconcile starts and ends with.
LEMMA IdleType == "idle" \in Labels /\ 0 \in 0..MaxRetries /\ 1 \in 0..MaxRetries /\ 0 \in 0..MaxEvents
BY DEF Labels

\* The first state satisfies the inductive invariant.
LEMMA InitIInv == Init => IInv
<1> SUFFICES ASSUME Init PROVE IInv
  OBVIOUS
<1> USE DEF Init, Empty
<1>1. TypeOK
  BY IdleType DEF TypeOK
<1>2. CopiesAgree(RealmRoles, Early) /\ GuardIsLasting(RealmRoles) /\ PathsAreApart
  BY DEF CopiesAgree, GuardIsLasting, PathsAreApart, Guarded
<1>3. DeletingIsGuarded(RealmRoles) /\ IdsAreSpent
  BY DEF DeletingIsGuarded, IdsAreSpent, Exists
<1>4. UnguardedIsUntracked
  BY DEF UnguardedIsUntracked
<1>5. NamesAreUnique /\ LookupFindsOwn /\ TracksNoOthers
  BY DEF NamesAreUnique, LookupFindsOwn, TracksNoOthers, Exists
<1>6. QED BY <1>1, <1>2, <1>3, <1>4, <1>5 DEF IInv

\* A copy whose status names another role is a copy still.
LEMMA StatusType ==
    ASSUME NEW o \in Object, NEW u \in Maybe(Ids)
    PROVE  [o EXCEPT !.status.uuid = u] \in Object
BY DEF Object, Status

\* Disturbances stay within their bound.
LEMMA EventsType ==
    ASSUME IInv, NEW kind, events' = events \/ Event(kind)
    PROVE  events' \in 0..MaxEvents
BY DEF IInv, TypeOK, Event

\* A reconcile that ends keeps the invariant, were roles deleted or not.
LEMMA DoneIInv ==
    ASSUME IInv, Done, UNCHANGED <<cluster, peers, kcRealm, spent>>, events' \in 0..MaxEvents,
           kc' \in [Ids -> KcRoles \cup {Absent}],
           \A i \in Ids : kc'[i] \in {kc[i], Absent}
    PROVE  IInv'
<1> USE DEF Done, cluster, peers, IInv
<1>1. TypeOK'
  BY IdleType DEF TypeOK
<1>2. CopiesAgree(RealmRoles, Early)' /\ GuardIsLasting(RealmRoles)' /\ PathsAreApart'
  BY DEF CopiesAgree, GuardIsLasting, PathsAreApart, Guarded
<1>3. DeletingIsGuarded(RealmRoles)' /\ IdsAreSpent'
  BY DEF DeletingIsGuarded, IdsAreSpent, Exists
<1>4. UnguardedIsUntracked'
  BY DEF UnguardedIsUntracked, Guarded, Live, Exists
<1>5. NamesAreUnique' /\ LookupFindsOwn' /\ TracksNoOthers'
  BY DEF NamesAreUnique, LookupFindsOwn, TracksNoOthers, NotAnothers, Exists
<1>6. QED BY <1>1, <1>2, <1>3, <1>4, <1>5

\* What the worker knows of names and makers is known still when roles are only lost, and
\* it tracks the same role or none.
LEMMA KeptFacts ==
    ASSUME IInv, at # "idle", at' # "store", me' = me,
           mine'.status.uuid \in {mine.status.uuid, None},
           \A i \in Ids : kc'[i] \in {kc[i], Absent}
    PROVE  NamesAreUnique' /\ LookupFindsOwn' /\ NotAnothers(mine.status.uuid, me)'
BY DEF IInv, NamesAreUnique, LookupFindsOwn, TracksNoOthers, NotAnothers, Exists

\* A worker that goes on and writes no object keeps the invariant, if the place it
\* comes to is one its copy may be in, and if what it makes in Keycloak, or begins to
\* track, is for a copy that is guarded.
LEMMA WorkIInv ==
    ASSUME IInv, at # "idle", at' \in Labels \ {"idle"},
           UNCHANGED <<cluster, peers, kcRealm, me, fresh>>,
           events' \in 0..MaxEvents, tries' \in 0..MaxRetries, OutcomeOK',
           mine' \in Object,
           mine' = [mine EXCEPT !.status = mine'.status],
           mine'.status.uuid \in spent' \cup {None},
           mine'.status.uuid = mine.status.uuid \/ (mine.finalizer /\ ~mine.deleting),
           kc' \in [Ids -> KcRoles \cup {Absent}],
           spent \subseteq spent', spent' \subseteq Ids,
           \A i \in Ids : kc'[i] # Absent => i \in spent' /\ kcRealm,
           \A i \in Ids : kc'[i] # Absent =>
               \/ kc[i] # Absent /\ kc'[i].cr = kc[i].cr
               \/ i \notin spent /\ kc'[i].cr = me /\ mine.finalizer /\ ~mine.deleting,
           PathsAreApart', CopiesAgree(RealmRoles, Early)',
           NamesAreUnique', LookupFindsOwn', NotAnothers(mine.status.uuid, me)',
           at' = "unfinalize" /\ fresh => ~Live(mine.status.uuid, me)'
    PROVE  IInv'
<1> USE DEF cluster, peers, IInv
<1>0. /\ me \in RealmRoles /\ mine \in Object /\ mine.status.uuid \in spent \cup {None}
      /\ mine'.deleting = mine.deleting /\ mine'.finalizer = mine.finalizer
  BY DEF TypeOK, IdsAreSpent, Object
<1>1. TypeOK'
  BY <1>0 DEF TypeOK
<1>2. GuardIsLasting(RealmRoles)'
  BY <1>0 DEF GuardIsLasting, Guarded
<1>3. DeletingIsGuarded(RealmRoles)' /\ IdsAreSpent'
  BY <1>0 DEF DeletingIsGuarded, IdsAreSpent, Exists
<1>4. ASSUME NEW i, NEW g \in RealmRoles, i \in spent \cup {None}, ~Live(i, g)
      PROVE  ~Live(i, g)'
  BY <1>4 DEF Live, Exists, TypeOK
<1>5. UnguardedIsUntracked'
  BY <1>0, <1>4 DEF UnguardedIsUntracked, Guarded, GuardIsLasting, IdsAreSpent
<1>6. TracksNoOthers'
  <2>1. ASSUME NEW i \in spent \cup {None}, NEW g \in RealmRoles, NotAnothers(i, g)
        PROVE  NotAnothers(i, g)'
    BY <2>1 DEF NotAnothers, Exists
  <2>2. \A g \in RealmRoles : obj[g] # Absent => NotAnothers(obj[g].status.uuid, g)'
    BY <2>1 DEF TracksNoOthers, IdsAreSpent
  <2>3. \A g \in RealmRoles : cache[g] # Absent => NotAnothers(cache[g].status.uuid, g)'
    BY <2>1 DEF TracksNoOthers, IdsAreSpent
  <2>4. QED BY <2>2, <2>3 DEF TracksNoOthers, NotAnothers, Exists
<1>7. QED BY <1>1, <1>2, <1>3, <1>5, <1>6
-----------------------------------------------------------------------------
(* The steps of the worker that write no object.                            *)

\* Going to write an outcome.
LEMMA ReportIInv ==
    ASSUME IInv, at # "idle", NEW o \in Outcomes, Report(o),
           UNCHANGED <<mine, cluster, keycloak, peers>>, events' \in 0..MaxEvents
    PROVE  IInv'
<1> USE DEF Report, cluster, keycloak, peers
<1>1. at' = "status" /\ at' \in Labels
  BY DEF Labels
<1>2. PathsAreApart' /\ CopiesAgree(RealmRoles, Early)'
  BY <1>1 DEF IInv, PathsAreApart, CopiesAgree
<1>3. /\ mine \in Object /\ mine = [mine EXCEPT !.status = mine.status]
      /\ mine.status.uuid \in spent \cup {None}
  BY DEF IInv, TypeOK, IdsAreSpent, Object
<1>4. \A i \in Ids : kc[i] # Absent => i \in spent /\ kcRealm
  BY DEF IInv, IdsAreSpent, Exists
<1>5. QED
  BY <1>1, <1>2, <1>3, <1>4, IdleType, KeptFacts, WorkIInv DEF IInv, TypeOK

\* Beginning a reconcile: the copy is the cache's.
LEMMA StartIInv ==
    ASSUME IInv, NEW g \in RealmRoles, Start(g), UNCHANGED beyond
    PROVE  IInv'
<1> USE DEF Start, cluster, beyond, keycloak, peers, IInv
<1>1. TypeOK'
  BY DEF TypeOK, Labels
<1>2. CopiesAgree(RealmRoles, Early)' /\ GuardIsLasting(RealmRoles)' /\ PathsAreApart'
  BY DEF TypeOK, CopiesAgree, GuardIsLasting, PathsAreApart, Guarded
<1>3. DeletingIsGuarded(RealmRoles)' /\ IdsAreSpent'
  BY DEF TypeOK, DeletingIsGuarded, IdsAreSpent, Exists
<1>4. UnguardedIsUntracked'
  BY DEF TypeOK, UnguardedIsUntracked, Guarded, Live, Exists
<1>5. NamesAreUnique' /\ LookupFindsOwn' /\ TracksNoOthers'
  BY DEF TypeOK, NamesAreUnique, LookupFindsOwn, TracksNoOthers, NotAnothers, Exists
<1>6. QED BY <1>1, <1>2, <1>3, <1>4, <1>5

\* Looking at the config and at the realm.
LEMMA PrepareIInv ==
    ASSUME IInv, ClientReady \/ ClientNotReady(Pending) \/ ClientFails(NoClient) \/ ValidateRealm,
           UNCHANGED <<keycloak, realm>>
    PROVE  IInv'
<1> USE DEF ClientReady, ClientNotReady, ClientFails, ValidateRealm
<1>1. /\ mine \in Object /\ mine = [mine EXCEPT !.status = mine.status]
      /\ mine.status.uuid \in spent \cup {None} /\ kc \in [Ids -> KcRoles \cup {Absent}]
      /\ at # "idle" /\ UNCHANGED <<cluster, keycloak, peers>>
  BY DEF IInv, TypeOK, IdsAreSpent, Object, peers
<1>. events' \in 0..MaxEvents
  BY EventsType
<1>2. \A i \in Ids : kc[i] # Absent => i \in spent /\ kcRealm
  BY DEF IInv, IdsAreSpent, Exists
<1>3. CASE Done
  BY <1>1, <1>3, DoneIInv DEF cluster, keycloak, peers
<1>4. ASSUME NEW o \in Outcomes, Report(o), UNCHANGED mine
      PROVE  IInv'
  BY <1>1, <1>4, ReportIInv
<1>5. CASE ClientReady \/ (ValidateRealm /\ Goto("owner"))
  <2> USE DEF Goto
  <2>1. at' \in Labels \ {"idle"} /\ at' \notin {"unfinalize", "status", "store"}
    BY <1>5 DEF Labels
  <2>2. UNCHANGED <<mine, me, fresh, outcome, tries>>
    BY <1>5
  <2>3. OutcomeOK'
    BY <2>1, <2>2 DEF IInv, TypeOK
  <2>4. PathsAreApart'
    BY <1>5, <2>2 DEF IInv, PathsAreApart
  <2>5. CopiesAgree(RealmRoles, Early)'
    BY <1>1, <1>5, <2>2 DEF IInv, CopiesAgree, cluster
  <2>6. QED
    BY <1>1, <1>2, <2>1, <2>2, <2>3, <2>4, <2>5, KeptFacts, WorkIInv DEF IInv, TypeOK, keycloak
<1>6. QED
  BY <1>3, <1>4, <1>5, OutcomeType DEF Messages

\* What holds of the copy between the finalizer and the status write.
LEMMA CopyFacts ==
    ASSUME IInv, at # "idle"
    PROVE  /\ me \in RealmRoles
           /\ mine \in Object
           /\ mine = [mine EXCEPT !.status = mine.status]
           /\ mine.status.uuid \in spent \cup {None}
           /\ mine.status.uuid \in Maybe(Ids)
           /\ kc \in [Ids -> KcRoles \cup {Absent}]
           /\ spent \subseteq Ids
           /\ \A i \in Ids : kc[i] # Absent => i \in spent /\ kcRealm
           /\ OutcomeOK /\ tries \in 0..MaxRetries
BY DEF IInv, TypeOK, IdsAreSpent, Object, Status, Exists

\* Between the owner reference and the status write, the worker goes from place to
\* place with a copy that is guarded, and only its status changes.
LEMMA CoreIInv ==
    ASSUME IInv,
           at \in {"owner", "fetch", "update", "create", "store"},
           at' \in {"fetch", "update", "create", "store", "status"},
           UNCHANGED <<cluster, peers, kcRealm, me, fresh>>,
           events' \in 0..MaxEvents, tries' \in 0..MaxRetries, OutcomeOK',
           mine' \in Object,
           mine' = [mine EXCEPT !.status = mine'.status],
           mine'.status.uuid \in spent' \cup {None},
           kc' \in [Ids -> KcRoles \cup {Absent}],
           spent \subseteq spent', spent' \subseteq Ids,
           \A i \in Ids : kc'[i] # Absent => i \in spent' /\ kcRealm,
           \A i \in Ids : kc'[i] # Absent =>
               \/ kc[i] # Absent /\ kc'[i].cr = kc[i].cr
               \/ i \notin spent /\ kc'[i].cr = me,
           NamesAreUnique', LookupFindsOwn', NotAnothers(mine.status.uuid, me)'
    PROVE  IInv'
<1>1. at # "idle" /\ mine.finalizer /\ ~mine.deleting
  BY DEF IInv, PathsAreApart
<1>2. /\ mine \in Object /\ me \in RealmRoles
      /\ mine'.deleting = mine.deleting /\ mine'.finalizer = mine.finalizer
      /\ mine'.spec = mine.spec
  BY <1>1, CopyFacts DEF Object
<1>3. at' \in Labels \ {"idle"} /\ at' # "unfinalize"
  BY DEF Labels
<1>4. PathsAreApart'
  BY <1>1, <1>2 DEF PathsAreApart
<1>5. CopiesAgree(RealmRoles, Early)'
  BY <1>2 DEF IInv, CopiesAgree, cluster
<1>6. QED BY <1>1, <1>2, <1>3, <1>4, <1>5, WorkIInv

\* Reading the role the status names.
LEMMA FetchIInv ==
    ASSUME IInv, FetchRealmRole \/ FetchFails
    PROVE  IInv'
<1> USE DEF FetchRealmRole, FetchFails
<1>1. at = "fetch" /\ at # "idle" /\ UNCHANGED <<cluster, keycloak, peers, me, fresh>>
  BY DEF Goto, Fail, Succeed, Report
<1>2. events' \in 0..MaxEvents
  BY EventsType
<1>3. /\ at' \in {"create", "update", "status"}
      /\ tries' \in 0..MaxRetries /\ OutcomeOK'
  BY <1>1, CopyFacts, OutcomeType, IdleType DEF Goto, Fail, Succeed, Report, Messages
<1>4. mine' = mine \/ ClearRealmRoleState
  OBVIOUS
<1>5. /\ mine' \in Object /\ mine' = [mine EXCEPT !.status = mine'.status]
      /\ mine'.status.uuid \in {mine.status.uuid, None}
  <2>1. mine \in Object /\ None \in Maybe(Ids)
    BY <1>1, CopyFacts DEF Maybe
  <2>2. CASE mine' = mine
    BY <2>1, <2>2 DEF Object
  <2>3. CASE ClearRealmRoleState
    <3>1. mine' \in Object
      BY <2>3 DEF ClearRealmRoleState, IInv, TypeOK, Object, Status, Maybe
    <3>2. QED BY <2>1, <2>3, <3>1 DEF ClearRealmRoleState, Object, Status
  <2>4. QED BY <1>4, <2>2, <2>3
<1>6. NamesAreUnique' /\ LookupFindsOwn' /\ NotAnothers(mine.status.uuid, me)'
  BY <1>1, <1>3, <1>5, KeptFacts DEF keycloak
<1>7. QED
  BY <1>1, <1>2, <1>3, <1>5, <1>6, CopyFacts, CoreIInv DEF keycloak

\* An update changes what one role says, never its maker, and gives it no name that is
\* taken.
LEMMA UpdateFacts ==
    ASSUME IInv, UpdateRealmRole
    PROVE  /\ kc' \in [Ids -> KcRoles \cup {Absent}]
           /\ \A i \in Ids : kc'[i] # Absent => kc[i] # Absent /\ kc'[i].cr = kc[i].cr
           /\ NamesAreUnique'
<1>1. at # "idle"
  BY DEF UpdateRealmRole
<1>2. CASE kc' = kc
  BY <1>1, <1>2, CopyFacts DEF IInv, NamesAreUnique, Exists
<1>3. CASE /\ Exists(mine.status.uuid) /\ kc' = Updated(mine.status.uuid)
           /\ Renamed(mine.status.uuid) => ~NameTaken(mine.spec.name)
  <2> DEFINE u == mine.status.uuid
             role == [kc[u] EXCEPT !.name = mine.spec.name, !.attrs = mine.spec.attrs,
                                   !.description = mine.spec.description]
  <2>1. u \in Ids /\ kc[u] \in KcRoles /\ kc[u] # Absent
    BY <1>1, <1>3, CopyFacts DEF Exists
  <2>2. mine.spec \in SpecSet
    BY <1>1, CopyFacts DEF Object
  <2>3. role \in KcRoles /\ role.cr = kc[u].cr /\ role.name = mine.spec.name
    BY <2>1, <2>2 DEF KcRoles, Maybe
  <2>4. kc' = [kc EXCEPT ![u] = role]
    BY <1>1, <1>3, <2>1, CopyFacts DEF Updated, KcRoles
  <2>5. \A i \in Ids \ {u} : Exists(i) => kc[i].name # role.name
    <3>1. CASE Renamed(u)
      BY <1>3, <2>3, <3>1 DEF NameTaken
    <3>2. CASE kc[u].name = mine.spec.name
      <4>1. \A i \in Ids : Exists(i) /\ kc[i].name = kc[u].name => i = u
        BY <1>3, <2>1 DEF IInv, NamesAreUnique
      <4>2. QED BY <2>3, <3>2, <4>1
    <3>3. QED BY <3>1, <3>2 DEF Renamed
  <2>6. NamesAreUnique'
    BY <1>1, <2>1, <2>4, <2>5, CopyFacts DEF IInv, NamesAreUnique, Exists
  <2>7. QED BY <1>1, <2>1, <2>3, <2>4, <2>6, CopyFacts
<1>4. QED BY <1>2, <1>3 DEF UpdateRealmRole

\* Updating the role.
LEMMA UpdateIInv ==
    ASSUME IInv, UpdateRealmRole
    PROVE  IInv'
<1>1. at = "update" /\ at # "idle" /\ UNCHANGED <<cluster, peers, kcRealm, spent, mine, me, fresh>>
  BY DEF UpdateRealmRole, Fail, Succeed, Report
<1>2. events' \in 0..MaxEvents
  BY EventsType DEF UpdateRealmRole
<1>3. at' = "status" /\ tries' \in 0..MaxRetries /\ OutcomeOK'
  BY OutcomeType, IdleType DEF UpdateRealmRole, Fail, Succeed, Report, Messages
<1>4. LookupFindsOwn' /\ NotAnothers(mine.status.uuid, me)'
  BY <1>1, <1>3, UpdateFacts DEF IInv, LookupFindsOwn, TracksNoOthers, NotAnothers, Exists
<1>5. QED
  BY <1>1, <1>2, <1>3, <1>4, UpdateFacts, CopyFacts, CoreIInv

\* Creating the role, with an id never used before.
LEMMA CreateIInv ==
    ASSUME IInv, NEW i \in Ids, CreateRealmRole(i)
    PROVE  IInv'
<1>1. at = "create" /\ at # "idle" /\ UNCHANGED <<cluster, peers, kcRealm, mine, me, fresh>>
  BY DEF CreateRealmRole, Fail, Goto, Report
<1>2. events' \in 0..MaxEvents
  BY EventsType DEF CreateRealmRole
<1>3. at' \in {"store", "status"} /\ tries' \in 0..MaxRetries /\ OutcomeOK'
  BY <1>1, CopyFacts, OutcomeType, IdleType DEF CreateRealmRole, Fail, Goto, Report, Messages
<1>4. NewRole \in KcRoles /\ NewRole.cr = me /\ NewRole.name = mine.spec.name
  BY <1>1, CopyFacts DEF NewRole, KcRoles, Object, Status, Maybe
<1>5. /\ kc' = [kc EXCEPT ![i] = NewRole] /\ spent' = spent \cup {i}
      /\ i \notin spent /\ kcRealm /\ ~NameTaken(mine.spec.name)
  BY DEF CreateRealmRole, Unused
<1>6. NamesAreUnique'
  BY <1>1, <1>4, <1>5, CopyFacts DEF IInv, NamesAreUnique, NameTaken, Exists
<1>7. LookupFindsOwn'
  BY <1>1, <1>4, <1>5, CopyFacts DEF LookupFindsOwn, NameTaken, NotAnothers, Exists
<1>8. NotAnothers(mine.status.uuid, me)'
  BY <1>1, <1>4, <1>5, CopyFacts DEF IInv, TracksNoOthers, NotAnothers, Exists
<1>9. QED
  BY <1>1, <1>2, <1>3, <1>4, <1>5, <1>6, <1>7, <1>8, CopyFacts, CoreIInv

\* Failing to create it, and looking it up by its name.
LEMMA StoreIInv ==
    ASSUME IInv, CreateFails \/ StoreRealmRoleUUID
    PROVE  IInv'
<1> USE DEF CreateFails, StoreRealmRoleUUID
<1>1. /\ at \in {"create", "store"} /\ at # "idle"
      /\ UNCHANGED <<cluster, keycloak, peers, me, fresh>>
  BY DEF Fail, Succeed, Report
<1>2. events' \in 0..MaxEvents
  BY EventsType
<1>3. at' = "status" /\ tries' \in 0..MaxRetries /\ OutcomeOK'
  BY <1>1, OutcomeType, IdleType DEF Fail, Succeed, Report, Messages
<1>4. /\ mine' \in Object /\ mine' = [mine EXCEPT !.status = mine'.status]
      /\ mine'.status.uuid \in spent \cup {None}
  <2>1. CASE mine' = mine
    BY <1>1, <2>1, CopyFacts DEF Object
  <2>2. ASSUME NEW i \in Ids, Exists(i), mine' = [mine EXCEPT !.status.uuid = i]
        PROVE  /\ mine' \in Object /\ mine' = [mine EXCEPT !.status = mine'.status]
               /\ mine'.status.uuid \in spent \cup {None}
    <3>1. mine' \in Object /\ i \in spent
      BY <1>1, <2>2, CopyFacts, StatusType DEF Maybe, Exists
    <3>2. QED BY <1>1, <2>2, <3>1, CopyFacts DEF Object, Status
  <2>3. QED BY <2>1, <2>2
<1>5. NamesAreUnique' /\ LookupFindsOwn'
  BY <1>1, <1>3 DEF IInv, NamesAreUnique, LookupFindsOwn, keycloak, Exists
<1>6. NotAnothers(mine.status.uuid, me)'
  <2>1. CASE mine' = mine
    BY <1>1, <2>1 DEF IInv, TracksNoOthers, NotAnothers, keycloak, Exists
  <2>2. ASSUME NEW i \in Ids, Exists(i), kc[i].name = mine.spec.name, at = "store",
               mine' = [mine EXCEPT !.status.uuid = i]
        PROVE  NotAnothers(mine.status.uuid, me)'
    <3>1. mine'.status.uuid = i
      BY <1>1, <2>2, CopyFacts DEF Object, Status
    <3>2. NotAnothers(i, me)
      BY <2>2 DEF IInv, LookupFindsOwn
    <3>3. QED BY <1>1, <3>1, <3>2 DEF NotAnothers, keycloak, Exists
  <2>3. QED BY <2>1, <2>2
<1>7. QED
  BY <1>1, <1>2, <1>3, <1>4, <1>5, <1>6, CopyFacts, CoreIInv DEF keycloak

\* The panic ends the reconcile.
LEMMA PanicIInv ==
    ASSUME IInv, StorePanics
    PROVE  IInv'
BY CopyFacts, DoneIInv DEF StorePanics, keycloak, IInv, TypeOK
-----------------------------------------------------------------------------
(* The steps of the worker that write objects.                              *)

\* The API server accepts the worker's copy, with the finalizer on it.
LEMMA WriteIInv ==
    ASSUME IInv, at \in {"finalizer", "owner"}, NEW o \in Object, Written(o),
           o.finalizer, ~o.deleting, o.status = mine.status,
           at' \in {"realm", "fetch"},
           UNCHANGED <<keycloak, peers, events, me, fresh, outcome, tries>>
    PROVE  IInv'
<1> USE DEF Written, keycloak, peers, IInv
<1>0. me \in RealmRoles /\ at # "idle" /\ at' \in Labels \ {"idle", "client", "delete", "unfinalize"}
  BY DEF TypeOK, Labels
<1>1. TypeOK'
  BY <1>0 DEF TypeOK
<1>2. CopiesAgree(RealmRoles, Early)'
  BY <1>0 DEF CopiesAgree, TypeOK
<1>3. GuardIsLasting(RealmRoles)' /\ PathsAreApart'
  BY <1>0 DEF GuardIsLasting, PathsAreApart, Guarded, TypeOK
<1>4. DeletingIsGuarded(RealmRoles)' /\ IdsAreSpent'
  BY <1>0 DEF DeletingIsGuarded, IdsAreSpent, Exists, TypeOK
<1>5. \A g \in RealmRoles : Guarded(g) => Guarded(g)'
  BY <1>0 DEF Guarded, TypeOK
<1>6. \A g \in RealmRoles : ~Guarded(g)' /\ obj'[g] # Absent => obj'[g] = obj[g]
  BY <1>0 DEF Guarded, TypeOK
<1>7. UnguardedIsUntracked'
  BY <1>0, <1>5, <1>6 DEF UnguardedIsUntracked, Live, Exists
<1>8. NamesAreUnique' /\ LookupFindsOwn' /\ TracksNoOthers'
  BY <1>0 DEF NamesAreUnique, LookupFindsOwn, TracksNoOthers, NotAnothers, Exists, TypeOK
<1>9. QED BY <1>1, <1>2, <1>3, <1>4, <1>7, <1>8

\* Adding the finalizer.
LEMMA EnsureFinalizerIInv ==
    ASSUME IInv, EnsureFinalizer("realm"), UNCHANGED <<keycloak, realm>>
    PROVE  IInv'
<1>1. /\ at = "finalizer" /\ at # "idle" /\ ~mine.deleting
      /\ UNCHANGED <<keycloak, peers, events>> /\ events \in 0..MaxEvents
  BY DEF EnsureFinalizer, IInv, PathsAreApart, TypeOK, peers
<1>2. CASE Done /\ UNCHANGED cluster
  BY <1>1, <1>2, DoneIInv, CopyFacts DEF keycloak
<1>3. CASE mine.finalizer /\ Goto("realm") /\ UNCHANGED <<mine, cluster>>
  <2>1. at' = "realm" /\ at' \in Labels \ {"idle"} /\ UNCHANGED <<me, fresh, outcome, tries>>
    BY <1>3 DEF Goto, Labels
  <2>2. PathsAreApart'
    BY <1>1, <1>3, <2>1 DEF PathsAreApart
  <2>3. CopiesAgree(RealmRoles, Early)'
    BY <1>1, <1>3, <2>1 DEF IInv, CopiesAgree, cluster
  <2>4. QED
    BY <1>1, <1>3, <2>1, <2>2, <2>3, CopyFacts, KeptFacts, WorkIInv DEF keycloak
<1>4. CASE Written([mine EXCEPT !.finalizer = TRUE]) /\ Goto("realm")
  <2> DEFINE o == [mine EXCEPT !.finalizer = TRUE]
  <2>1. o \in Object /\ o.finalizer /\ ~o.deleting /\ o.status = mine.status
    BY <1>1, CopyFacts DEF Object
  <2>2. QED
    BY <1>1, <1>4, <2>1, WriteIInv DEF Goto
<1>5. QED BY <1>2, <1>3, <1>4 DEF EnsureFinalizer

\* Adding the owner reference.
LEMMA OwnerIInv ==
    ASSUME IInv, SetOwnerReference
    PROVE  IInv'
<1>1. /\ at = "owner" /\ at # "idle" /\ ~mine.deleting /\ mine.finalizer
      /\ UNCHANGED <<keycloak, peers, events>> /\ events \in 0..MaxEvents
  BY DEF SetOwnerReference, IInv, PathsAreApart, TypeOK
<1>2. CASE Fail("owner") /\ UNCHANGED <<mine, cluster>>
  <2>1. Outcome(FALSE, TRUE, "owner") \in Outcomes
    BY OutcomeType DEF Messages
  <2>2. QED BY <1>1, <1>2, <2>1, ReportIInv DEF Fail
<1>3. CASE Goto("fetch") /\ UNCHANGED <<mine, cluster>>
  <2>1. at' = "fetch" /\ UNCHANGED <<me, fresh, outcome, tries>>
    BY <1>3 DEF Goto
  <2>2. QED
    BY <1>1, <1>3, <2>1, CopyFacts, KeptFacts, CoreIInv DEF keycloak
<1>4. CASE Written([mine EXCEPT !.owned = TRUE]) /\ Goto("fetch")
  <2> DEFINE o == [mine EXCEPT !.owned = TRUE]
  <2>1. o \in Object /\ o.finalizer /\ ~o.deleting /\ o.status = mine.status
    BY <1>1, CopyFacts DEF Object
  <2>2. QED
    BY <1>1, <1>4, <2>1, WriteIInv DEF Goto
<1>5. QED BY <1>2, <1>3, <1>4 DEF SetOwnerReference

\* The status applied to a copy changes nothing else, and names no id but one of the two.
LEMMA AppliedFacts ==
    ASSUME IInv, at = "status", NEW o \in Object
    PROVE  /\ StatusApplied(o) \in Object
           /\ StatusApplied(o).deleting = o.deleting
           /\ StatusApplied(o).finalizer = o.finalizer
           /\ StatusApplied(o).status.uuid =
                IF mine.status.uuid # None THEN mine.status.uuid ELSE o.status.uuid
BY CopyFacts DEF StatusApplied, Object, Status, Outcomes, Maybe

\* Writing the status, whatever copy it comes from, or giving up.
LEMMA StatusIInv ==
    ASSUME IInv,
           StatusSkipped \/ StatusWritten \/ StatusConflict \/ (StatusGone /\ UNCHANGED beyond)
    PROVE  IInv'
<1> USE DEF StatusAccepted, StatusRefused, StatusGone, beyond
<1>1. /\ at = "status" /\ at # "idle" /\ UNCHANGED <<keycloak, peers, events>>
      /\ events \in 0..MaxEvents
  BY DEF StatusSkipped, StatusWritten, StatusConflict, IInv, TypeOK, keycloak, peers
<1>2. CASE Done /\ UNCHANGED cluster
  BY <1>1, <1>2, CopyFacts, DoneIInv DEF keycloak
<1>3. CASE StatusConflict /\ ~Done
  <2>1. /\ UNCHANGED <<at, me, mine, fresh, outcome, cluster>> /\ tries' \in 0..MaxRetries
    BY <1>1, <1>3, CopyFacts DEF StatusConflict
  <2>2. PathsAreApart' /\ CopiesAgree(RealmRoles, Early)' /\ at' \in Labels \ {"idle"}
    BY <1>1, <2>1 DEF IInv, PathsAreApart, CopiesAgree, cluster, Labels
  <2>3. QED
    BY <1>1, <2>1, <2>2, CopyFacts, KeptFacts, WorkIInv DEF keycloak
<1>4. CASE StatusWritten
  <2> USE DEF Done, keycloak, peers
  <2> DEFINE o == StatusApplied(cache[me])
  <2>0. /\ me \in RealmRoles /\ obj[me] = cache[me] /\ obj[me] # Absent /\ obj[me] \in Object
        /\ o \in Object /\ o.deleting = obj[me].deleting /\ o.finalizer = obj[me].finalizer
        /\ o.status.uuid \in {mine.status.uuid, obj[me].status.uuid}
        /\ o.status.uuid = mine.status.uuid \/ mine.status.uuid = None
    BY <1>1, <1>4, AppliedFacts DEF StatusWritten, IInv, TypeOK, CopiesAgree
  <2>1. /\ obj' = [obj EXCEPT ![me] = o] /\ stale' = stale \cup {me} /\ cache' = cache /\ Done
    BY <1>4 DEF StatusWritten
  <2>2. TypeOK'
    BY <1>1, <2>0, <2>1, IdleType DEF IInv, TypeOK
  <2>3. CopiesAgree(RealmRoles, Early)' /\ PathsAreApart'
    BY <2>1 DEF IInv, TypeOK, CopiesAgree, PathsAreApart
  <2>4. \A g \in RealmRoles : Guarded(g)' = Guarded(g)
    BY <2>0, <2>1 DEF IInv, TypeOK, Guarded
  <2>5. GuardIsLasting(RealmRoles)' /\ DeletingIsGuarded(RealmRoles)'
    BY <2>0, <2>1, <2>4 DEF IInv, TypeOK, GuardIsLasting, DeletingIsGuarded
  <2>6. IdsAreSpent'
    BY <1>1, <2>0, <2>1 DEF IInv, TypeOK, IdsAreSpent, Exists
  <2>7. ~Guarded(me) => ~Live(o.status.uuid, me)
    BY <1>1, <2>0 DEF IInv, UnguardedIsUntracked, GuardIsLasting
  <2>8. UnguardedIsUntracked'
    BY <1>1, <2>0, <2>1, <2>4, <2>7 DEF IInv, TypeOK, UnguardedIsUntracked, Live, Exists
  <2>9. NotAnothers(o.status.uuid, me)
    BY <1>1, <2>0 DEF IInv, TracksNoOthers
  <2>10. NamesAreUnique' /\ LookupFindsOwn' /\ TracksNoOthers'
    BY <1>1, <2>0, <2>1, <2>9 DEF IInv, TypeOK, NamesAreUnique, LookupFindsOwn, TracksNoOthers,
       NotAnothers, Exists
  <2>11. QED BY <2>2, <2>3, <2>5, <2>6, <2>8, <2>10 DEF IInv
<1>5. QED BY <1>2, <1>3, <1>4 DEF StatusSkipped, StatusConflict

\* Deleting the role in Keycloak.
LEMMA DeleteIInv ==
    ASSUME IInv, DeleteRealmRole \/ DeleteFails
    PROVE  IInv'
<1>1. /\ at = "delete" /\ at # "idle" /\ mine.deleting
      /\ UNCHANGED <<cluster, kcRealm, spent, peers>>
  BY DEF DeleteRealmRole, DeleteFails, IInv, PathsAreApart, keycloak
<1>2. events' \in 0..MaxEvents
  BY EventsType DEF DeleteRealmRole, DeleteFails
<1>3. /\ kc' \in [Ids -> KcRoles \cup {Absent}]
      /\ \A i \in Ids : kc'[i] \in {kc[i], Absent}
  BY <1>1, CopyFacts DEF DeleteRealmRole, DeleteFails, Exists, keycloak
<1>4. CASE Done
  BY <1>1, <1>2, <1>3, <1>4, DoneIInv
<1>5. CASE DeleteRealmRole /\ Goto("unfinalize")
  <2>1. /\ at' = "unfinalize" /\ at' \in Labels \ {"idle"}
        /\ UNCHANGED <<mine, me, fresh, outcome, tries>>
    BY <1>5 DEF Goto, DeleteRealmRole, Done, Labels
  <2>2. PathsAreApart' /\ CopiesAgree(RealmRoles, Early)'
    BY <1>1, <2>1 DEF IInv, PathsAreApart, CopiesAgree, cluster
  <2>3. ~Exists(mine.status.uuid)'
    <3>1. CASE realm = "absent"
      BY <1>1, <1>3, <2>1, <3>1 DEF IInv, IdsAreSpent, Exists
    <3>2. CASE kc' = kc /\ (mine.status.uuid = None \/ ~Exists(mine.status.uuid))
      BY <2>1, <3>2 DEF Exists
    <3>3. CASE kc' = [kc EXCEPT ![mine.status.uuid] = Absent] /\ Exists(mine.status.uuid)
      BY <1>1, <2>1, <3>3, CopyFacts DEF Exists
    <3>4. QED BY <1>5, <3>1, <3>2, <3>3 DEF DeleteRealmRole
  <2>4. ~Live(mine.status.uuid, me)'
    BY <2>1, <2>3 DEF Live
  <2>5. \A i \in Ids : kc'[i] # Absent => kc[i] # Absent /\ kc'[i].cr = kc[i].cr
    BY <1>3
  <2>6. QED
    BY <1>1, <1>2, <1>3, <2>1, <2>2, <2>4, <2>5, CopyFacts, KeptFacts, WorkIInv
<1>6. QED BY <1>4, <1>5 DEF DeleteRealmRole, DeleteFails

\* Removing the finalizer, and with it the object.
LEMMA RemoveFinalizerIInv ==
    ASSUME IInv, RemoveFinalizer, UNCHANGED <<keycloak, realm>>
    PROVE  IInv'
<1>1. /\ at = "unfinalize" /\ at # "idle" /\ mine.deleting /\ Done
      /\ UNCHANGED <<keycloak, peers, events>> /\ events \in 0..MaxEvents
  BY DEF RemoveFinalizer, IInv, PathsAreApart, TypeOK, peers
<1>2. CASE UNCHANGED cluster
  BY <1>1, <1>2, CopyFacts, DoneIInv DEF keycloak
<1>3. CASE /\ fresh /\ obj' = [obj EXCEPT ![me] = Absent]
           /\ stale' = stale \cup {me} /\ cache' = cache
  <2> USE DEF Done, keycloak, peers
  <2>1. /\ me \in RealmRoles /\ obj[me] = mine /\ cache[me] = mine /\ mine.deleting
        /\ ~Live(mine.status.uuid, me)
    BY <1>1, <1>3 DEF IInv, TypeOK, CopiesAgree, UnguardedIsUntracked
  <2>2. TypeOK'
    BY <1>1, <1>3, <2>1, IdleType DEF IInv, TypeOK
  <2>3. CopiesAgree(RealmRoles, Early)' /\ PathsAreApart'
    BY <1>1, <1>3 DEF IInv, TypeOK, CopiesAgree, PathsAreApart
  <2>4. GuardIsLasting(RealmRoles)' /\ DeletingIsGuarded(RealmRoles)'
    BY <1>1, <1>3, <2>1 DEF IInv, TypeOK, Guarded, GuardIsLasting, DeletingIsGuarded
  <2>5. IdsAreSpent'
    BY <1>1, <1>3, <2>1 DEF IInv, TypeOK, IdsAreSpent, Exists
  <2>6. UnguardedIsUntracked'
    BY <1>1, <1>3, <2>1 DEF IInv, TypeOK, UnguardedIsUntracked, Guarded, Live, Exists
  <2>7. NamesAreUnique' /\ LookupFindsOwn' /\ TracksNoOthers'
    BY <1>1, <1>3, <2>1 DEF IInv, TypeOK, NamesAreUnique, LookupFindsOwn, TracksNoOthers,
       NotAnothers, Exists
  <2>8. QED BY <2>2, <2>3, <2>4, <2>5, <2>6, <2>7 DEF IInv
<1>4. QED BY <1>2, <1>3 DEF RemoveFinalizer
-----------------------------------------------------------------------------
(* The steps of everyone else.                                              *)

\* A write by another client of the API server that adds and removes no finalizer.
LEMMA TouchedIInv ==
    ASSUME IInv, NEW g \in RealmRoles, NEW o \in Object \cup {Absent}, Touched(g, o),
           UNCHANGED <<keycloak, realm>>, events' \in 0..MaxEvents,
           Guarded(g) <=> o # Absent /\ o.finalizer,
           o # Absent => /\ o.deleting => o.finalizer
                         /\ o.status.uuid \in spent \cup {None}
                         /\ ~o.finalizer => ~Live(o.status.uuid, g)
                         /\ NotAnothers(o.status.uuid, g)
    PROVE  IInv'
<1> USE DEF Touched, keycloak
<1>1. TypeOK'
  BY DEF IInv, TypeOK
<1>2. CopiesAgree(RealmRoles, Early)' /\ PathsAreApart'
  BY DEF IInv, TypeOK, CopiesAgree, PathsAreApart
<1>3. \A h \in RealmRoles : Guarded(h)' = Guarded(h)
  BY DEF IInv, TypeOK, Guarded
<1>4. GuardIsLasting(RealmRoles)' /\ DeletingIsGuarded(RealmRoles)'
  BY <1>3 DEF IInv, TypeOK, GuardIsLasting, DeletingIsGuarded
<1>5. IdsAreSpent'
  BY DEF IInv, TypeOK, IdsAreSpent, Exists
<1>6. UnguardedIsUntracked'
  BY <1>3 DEF IInv, TypeOK, UnguardedIsUntracked, Live, Exists
<1>7. NamesAreUnique' /\ LookupFindsOwn' /\ TracksNoOthers'
  BY DEF IInv, TypeOK, NamesAreUnique, LookupFindsOwn, TracksNoOthers, NotAnothers, Exists
<1>8. QED BY <1>1, <1>2, <1>4, <1>5, <1>6, <1>7 DEF IInv

\* The user.
LEMMA UserIInv ==
    ASSUME IInv, NEW g \in RealmRoles, User(g), UNCHANGED <<keycloak, realm>>
    PROVE  IInv'
<1>1. events' \in 0..MaxEvents
  BY EventsType DEF User, Create, Edit, Delete
<1>2. ASSUME NEW s \in Specs[g], Create(g, NewObject(s)) PROVE IInv'
  <2>1. Touched(g, NewObject(s)) /\ obj[g] = Absent
    BY <1>2 DEF Create
  <2>2. NewObject(s) \in Object
    BY DEF NewObject, Object, Status, SpecSet, Maybe, Messages
  <2>3. QED
    BY <1>1, <2>1, <2>2, TouchedIInv DEF NewObject, Guarded, Live, NotAnothers, Exists
<1>3. ASSUME NEW s \in Specs[g], Edit(g, s) PROVE IInv'
  <2>1. Touched(g, [obj[g] EXCEPT !.spec = s])
    BY <1>3 DEF Edit
  <2>2. obj[g] # Absent /\ obj[g] \in Object /\ s \in SpecSet
    BY <1>3 DEF Edit, IInv, TypeOK, SpecSet
  <2> DEFINE o == [obj[g] EXCEPT !.spec = s]
  <2>3. /\ o \in Object /\ o.deleting = obj[g].deleting /\ o.finalizer = obj[g].finalizer
        /\ o.status = obj[g].status
    BY <2>2 DEF Object
  <2>4. QED
    BY <1>1, <2>1, <2>2, <2>3, TouchedIInv DEF IInv, DeletingIsGuarded, IdsAreSpent,
       UnguardedIsUntracked, TracksNoOthers, Guarded
<1>4. CASE Delete(g)
  <2>1. obj[g] # Absent /\ obj[g] \in Object
    BY <1>4 DEF Delete, IInv, TypeOK
  <2>2. CASE obj[g].finalizer
    <3> DEFINE o == [obj[g] EXCEPT !.deleting = TRUE]
    <3>1. /\ o \in Object /\ o.finalizer /\ o.status = obj[g].status
      BY <2>1, <2>2 DEF Object
    <3>2. QED
      BY <1>1, <1>4, <2>1, <2>2, <3>1, TouchedIInv DEF Delete, IInv, IdsAreSpent,
         TracksNoOthers, Guarded
  <2>3. CASE ~obj[g].finalizer
    BY <1>1, <1>4, <2>1, <2>3, TouchedIInv DEF Delete, Guarded
  <2>4. QED BY <2>2, <2>3
<1>5. QED BY <1>2, <1>3, <1>4 DEF User

\* The informer.
LEMMA SyncIInv ==
    ASSUME IInv, NEW g \in RealmRoles, Sync(g), UNCHANGED <<keycloak, realm>>
    PROVE  IInv'
<1> USE DEF Sync, keycloak, worker
<1>1. TypeOK'
  BY DEF IInv, TypeOK
<1>2. CopiesAgree(RealmRoles, Early)' /\ PathsAreApart'
  BY DEF IInv, TypeOK, CopiesAgree, PathsAreApart
<1>3. GuardIsLasting(RealmRoles)' /\ DeletingIsGuarded(RealmRoles)'
  BY DEF IInv, TypeOK, Guarded, GuardIsLasting, DeletingIsGuarded
<1>4. IdsAreSpent'
  BY DEF IInv, TypeOK, IdsAreSpent, Exists
<1>5. UnguardedIsUntracked'
  BY DEF IInv, TypeOK, UnguardedIsUntracked, DeletingIsGuarded, Guarded, Live, Exists
<1>6. NamesAreUnique' /\ LookupFindsOwn' /\ TracksNoOthers'
  BY DEF IInv, TypeOK, NamesAreUnique, LookupFindsOwn, TracksNoOthers, NotAnothers, Exists
<1>7. QED BY <1>1, <1>2, <1>3, <1>4, <1>5, <1>6 DEF IInv

\* What goes on in Keycloak and with the config and the realm leaves the objects and
\* their copies alone, and makes no role for a resource but the one at work.
LEMMA ElsewhereIInv ==
    ASSUME IInv, UNCHANGED <<cluster, worker>>, events' \in 0..MaxEvents,
           config' \in {"ready", "notReady", "absent"},
           realm' \in {"ready", "notReady", "absent"}, kcRealm' \in BOOLEAN,
           kc' \in [Ids -> KcRoles \cup {Absent}],
           spent \subseteq spent', spent' \subseteq Ids,
           \A i \in Ids : kc'[i] # Absent => /\ i \in spent' /\ kcRealm'
                                             /\ \/ kc[i] # Absent /\ kc'[i].cr = kc[i].cr
                                                \/ i \notin spent /\ kc'[i].cr = None
                                                \/ i \notin spent /\ at = "store" /\ kc'[i].cr = me,
           NamesAreUnique', LookupFindsOwn',
           realm' = "absent" => ~kcRealm'
    PROVE  IInv'
<1> USE DEF cluster, worker
<1>1. TypeOK'
  BY DEF IInv, TypeOK
<1>2. CopiesAgree(RealmRoles, Early)' /\ PathsAreApart'
  BY DEF IInv, CopiesAgree, PathsAreApart
<1>3. GuardIsLasting(RealmRoles)' /\ DeletingIsGuarded(RealmRoles)'
  BY DEF IInv, Guarded, GuardIsLasting, DeletingIsGuarded
<1>4. IdsAreSpent'
  BY DEF IInv, IdsAreSpent, Exists
<1>5. ASSUME NEW i \in spent \cup {None}, NEW g \in RealmRoles
      PROVE  (~Live(i, g) => ~Live(i, g)') /\ (NotAnothers(i, g) => NotAnothers(i, g)')
  BY DEF Live, NotAnothers, Exists
<1>6. UnguardedIsUntracked'
  BY <1>5 DEF IInv, TypeOK, UnguardedIsUntracked, IdsAreSpent, Guarded
<1>7. TracksNoOthers'
  BY <1>5 DEF IInv, TypeOK, TracksNoOthers, IdsAreSpent
<1>8. QED BY <1>1, <1>2, <1>3, <1>4, <1>6, <1>7 DEF IInv

\* What Keycloak holds: every role has an id given out, in a realm that is there.
LEMMA KeycloakFacts ==
    ASSUME IInv
    PROVE  /\ kc \in [Ids -> KcRoles \cup {Absent}]
           /\ spent \subseteq Ids /\ kcRealm \in BOOLEAN
           /\ config \in {"ready", "notReady", "absent"}
           /\ realm \in {"ready", "notReady", "absent"}
           /\ realm = "absent" => ~kcRealm
           /\ \A i \in Ids : kc[i] # Absent => i \in spent /\ kcRealm
BY DEF IInv, TypeOK, IdsAreSpent, Exists

\* Roles that are lost leave the others their names and their makers.
LEMMA LostFacts ==
    ASSUME IInv, UNCHANGED worker, \A i \in Ids : kc'[i] \in {kc[i], Absent}
    PROVE  NamesAreUnique' /\ LookupFindsOwn'
BY DEF IInv, NamesAreUnique, LookupFindsOwn, NotAnothers, worker, Exists

\* The config and the realm.
LEMMA PeersIInv ==
    ASSUME IInv, RealmChanges \/ (ConfigChanges /\ UNCHANGED <<keycloak, realm>>)
    PROVE  IInv'
<1>1. events' \in 0..MaxEvents
  BY EventsType DEF ConfigChanges, RealmChanges
<1>2. CASE ConfigChanges /\ UNCHANGED <<keycloak, realm>>
  BY <1>1, <1>2, KeycloakFacts, LostFacts, ElsewhereIInv DEF ConfigChanges, keycloak, cluster
<1>3. CASE RealmChanges
  <2>1. UNCHANGED <<config, cluster, worker>>
    BY <1>3 DEF RealmChanges
  <2>2. CASE UNCHANGED <<kc, spent>> /\ (kcRealm' = kcRealm \/ kcRealm' = TRUE)
    <3>1. realm' \in {"ready", "notReady", "absent"} /\ (realm' = "absent" => ~kcRealm')
      BY <1>3, KeycloakFacts DEF RealmChanges, keycloak
    <3>2. \A i \in Ids : kc'[i] # Absent => i \in spent' /\ kcRealm'
      BY <2>2, KeycloakFacts
    <3>3. QED
      BY <1>1, <2>1, <2>2, <3>1, <3>2, KeycloakFacts, LostFacts, ElsewhereIInv
  <2>3. CASE kc' = [i \in Ids |-> Absent] /\ kcRealm' = FALSE /\ UNCHANGED <<realm, spent>>
    BY <1>1, <2>1, <2>3, KeycloakFacts, LostFacts, ElsewhereIInv
  <2>4. QED BY <1>3, <2>2, <2>3 DEF RealmChanges, keycloak
<1>4. QED BY <1>2, <1>3

\* What an administrator makes.
HandMade(s) == [name |-> s.name, attrs |-> s.attrs, description |-> s.description,
                cr |-> MadeFor(s.name)]

\* The administrator.
LEMMA ConsoleIInv ==
    ASSUME IInv, NEW i \in Ids, ConsoleDeletes(i) \/ ConsoleCreates(i) \/ ConsoleEdits(i)
    PROVE  IInv'
<1>1. events' \in 0..MaxEvents
  BY EventsType DEF ConsoleDeletes, ConsoleCreates, ConsoleEdits
<1>2. UNCHANGED <<cluster, worker, kcRealm, peers>>
  BY DEF ConsoleDeletes, ConsoleCreates, ConsoleEdits
<1>3. CASE ConsoleDeletes(i)
  BY <1>1, <1>2, <1>3, KeycloakFacts, LostFacts, ElsewhereIInv DEF ConsoleDeletes, peers
<1>4. CASE ConsoleCreates(i)
  <2>1. PICK s \in SpecSet : /\ ~NameTaken(s.name)
                            /\ kc' = [kc EXCEPT ![i] = HandMade(s)]
    BY <1>4 DEF ConsoleCreates, SpecSet, HandMade
  <2>2. /\ HandMade(s) \in KcRoles /\ HandMade(s).name = s.name
        /\ \/ HandMade(s).cr = None /\ (at = "store" => s.name # mine.spec.name)
           \/ HandMade(s).cr = me /\ at = "store"
    BY DEF HandMade, MadeFor, KcRoles, SpecSet, Maybe, IInv, TypeOK
  <2>3. kcRealm /\ spent' = spent \cup {i} /\ i \notin spent
    BY <1>4 DEF ConsoleCreates, Unused
  <2>4. NamesAreUnique'
    BY <2>1, <2>2, KeycloakFacts DEF IInv, NamesAreUnique, NameTaken, Exists
  <2>5. LookupFindsOwn'
    BY <1>2, <2>1, <2>2, KeycloakFacts DEF IInv, LookupFindsOwn, NotAnothers, Exists, worker
  <2>6. QED
    BY <1>1, <1>2, <2>1, <2>2, <2>3, <2>4, <2>5, KeycloakFacts, ElsewhereIInv DEF peers
<1>5. CASE ConsoleEdits(i)
  <2>1. PICK s \in SpecSet :
          kc' = [kc EXCEPT ![i].attrs = s.attrs, ![i].description = s.description]
    BY <1>5 DEF ConsoleEdits, SpecSet
  <2>2. kc[i] \in KcRoles /\ kc[i] # Absent /\ spent' = spent
    BY <1>5, KeycloakFacts DEF ConsoleEdits, Exists
  <2> DEFINE role == [kc[i] EXCEPT !.attrs = s.attrs, !.description = s.description]
  <2>3. role \in KcRoles /\ role.cr = kc[i].cr /\ role.name = kc[i].name
    BY <2>2 DEF KcRoles, SpecSet, Maybe
  <2>4. kc' = [kc EXCEPT ![i] = role]
    BY <2>1, <2>2, KeycloakFacts DEF KcRoles
  <2>5. NamesAreUnique' /\ LookupFindsOwn'
    BY <1>2, <2>2, <2>3, <2>4, KeycloakFacts DEF IInv, NamesAreUnique, LookupFindsOwn,
       NotAnothers, Exists, worker
  <2>6. QED
    BY <1>1, <1>2, <2>2, <2>3, <2>4, <2>5, KeycloakFacts, ElsewhereIInv DEF peers
<1>6. QED BY <1>3, <1>4, <1>5

\* Every step preserves the inductive invariant.
LEMMA NextIInv == IInv /\ [Next]_vars => IInv'
<1> SUFFICES ASSUME IInv, [Next]_vars PROVE IInv'
  OBVIOUS
<1>1. ASSUME NEW g \in RealmRoles, Start(g) \/ User(g) \/ Sync(g), UNCHANGED beyond PROVE IInv'
  BY <1>1, StartIInv, UserIInv, SyncIInv DEF beyond
<1>2. CASE (ToRealmRole \/ StatusGone \/ RemoveFinalizer) /\ UNCHANGED beyond
  BY <1>2, PrepareIInv, EnsureFinalizerIInv, StatusIInv, RemoveFinalizerIInv DEF ToRealmRole, beyond
<1>3. CASE ValidateRealm
  BY <1>3, PrepareIInv DEF ValidateRealm, peers
<1>4. ASSUME Work PROVE IInv'
  BY <1>2, <1>3, <1>4, OwnerIInv, FetchIInv, UpdateIInv, CreateIInv, StoreIInv,
     PanicIInv, StatusIInv, DeleteIInv DEF Work
<1>5. CASE Others \/ (ConfigChanges /\ UNCHANGED beyond)
  BY <1>5, PeersIInv, ConsoleIInv DEF Others, beyond
<1>6. CASE Crash /\ UNCHANGED beyond
  <2>1. events' \in 0..MaxEvents
    BY <1>6, EventsType DEF Crash
  <2>2. QED BY <1>6, <2>1, KeycloakFacts, DoneIInv DEF Crash, beyond, keycloak, peers
<1>7. CASE UNCHANGED vars
  BY <1>7 DEF vars, cluster, keycloak, peers, worker, IInv, TypeOK, CopiesAgree,
     GuardIsLasting, PathsAreApart, DeletingIsGuarded, IdsAreSpent, UnguardedIsUntracked,
     NamesAreUnique, LookupFindsOwn, TracksNoOthers, NotAnothers, Guarded, Live, Exists
<1>8. QED
  BY <1>1, <1>4, <1>5, <1>6, <1>7 DEF Next

\* The inductive invariant always holds.
THEOREM Invariance == Spec => []IInv
BY InitIInv, NextIInv, PTL DEF Spec

\* Every variable of the controller has its type.
THEOREM TypeCorrect == Spec => []TypeOK
<1>1. IInv => TypeOK
  BY DEF IInv
<1>2. QED BY <1>1, Invariance, PTL

\* Whatever its copy says and whoever else has a role of that name, before or after a
\* renaming, the worker changes and deletes no role but the one made for its resource
\* (realmrole_controller.go:340, 374, 576).
THEOREM TouchesOnlyItsOwn == Spec => MindsItsOwn
<1>1. IInv /\ [Next]_vars
        => [kc' # kc /\ worker' # worker
              => \A i \in Ids : kc'[i] # kc[i] => NotAnothers(i, me)]_vars
  <2> SUFFICES ASSUME IInv, Next, kc' # kc, worker' # worker, NEW i \in Ids, kc'[i] # kc[i]
               PROVE  NotAnothers(i, me)
    OBVIOUS
  <2>1. kc \in [Ids -> KcRoles \cup {Absent}]
    BY KeycloakFacts
  <2>2. CASE UpdateRealmRole
    BY <2>1, <2>2 DEF UpdateRealmRole, Updated, Exists, IInv, TracksNoOthers
  <2>3. CASE DeleteRealmRole
    BY <2>1, <2>3 DEF DeleteRealmRole, Exists, IInv, TracksNoOthers
  <2>4. ASSUME NEW j \in Ids, CreateRealmRole(j) PROVE NotAnothers(i, me)
    BY <2>1, <2>4, KeycloakFacts DEF CreateRealmRole, Unused, NotAnothers, Exists
  <2>5. CASE Work /\ kc' # kc
    BY <2>2, <2>3, <2>4, <2>5 DEF Work, ValidateRealm, SetOwnerReference, FetchRealmRole,
       FetchFails, CreateFails, StoreRealmRoleUUID, StorePanics, StatusSkipped, StatusWritten,
       StatusConflict, DeleteFails, keycloak, beyond
  <2>6. ~Others
    BY DEF Others, RealmChanges, ConsoleDeletes, ConsoleCreates, ConsoleEdits
  <2>7. QED BY <2>5, <2>6 DEF Next, beyond, keycloak
<1>2. QED BY <1>1, Invariance, PTL DEF Spec, MindsItsOwn
-----------------------------------------------------------------------------
(* What the worker deletes.                                                 *)

\* The lemmas of ReconcilerProofs apply.
LEMMA IsSound == IInv => Sound(RealmRoles, Early)
BY DEF IInv, TypeOK, Sound

\* A step of the worker keeps the deletions it knows of.
LEMMA WorkDeletion ==
    ASSUME IInv, DeletionIsLasting(RealmRoles), Work
    PROVE  DeletionIsLasting(RealmRoles)'
<1> DEFINE R == RealmRoles
<1> USE IsSound
<1>1. at # "idle" /\ mine \in Object /\ me \in RealmRoles
  <2>1. at # "idle"
    BY DEF Work, ToRealmRole, ClientReady, ClientNotReady, ClientFails, EnsureFinalizer,
       StatusGone, RemoveFinalizer, ValidateRealm, SetOwnerReference, FetchRealmRole, FetchFails,
       UpdateRealmRole, CreateRealmRole, CreateFails, StoreRealmRoleUUID, StorePanics,
       StatusSkipped, StatusWritten, StatusAccepted, StatusConflict, StatusRefused,
       DeleteRealmRole, DeleteFails
  <2>2. QED BY <2>1, CopyFacts
<1>2. CASE Done /\ UNCHANGED cluster
  BY <1>2, DeletionAfterEnd DEF cluster
<1>3. CASE /\ UNCHANGED <<cluster, me, fresh>> /\ mine'.deleting = mine.deleting
           /\ at' = "finalizer" => at = "client" /\ mine' = mine
  BY <1>1, <1>3, DeletionAfterWork DEF cluster
<1>4. CASE \/ EnsureFinalizer("realm") \/ SetOwnerReference
  <2>1. /\ ~mine.deleting /\ at \in Early
        /\ [mine EXCEPT !.finalizer = TRUE].deleting = mine.deleting
        /\ [mine EXCEPT !.owned = TRUE].deleting = mine.deleting
        /\ at = "finalizer" \/ Guarded(me)
    BY <1>1, <1>4 DEF EnsureFinalizer, SetOwnerReference, Object, IInv, PathsAreApart,
       GuardIsLasting
  <2>2. ASSUME NEW o, Written(o), ~o.deleting, at' \in {"realm", "fetch"}, me' = me
        PROVE  DeletionIsLasting(RealmRoles)'
    BY <1>1, <2>1, <2>2, DeletionAfterWrite
  <2>3. QED
    BY <1>1, <1>2, <1>3, <1>4, <2>1, <2>2
    DEF EnsureFinalizer, SetOwnerReference, Goto, Fail, Report
<1>5. CASE StatusWritten
  <2>1. at = "status" /\ cache[me] \in Object
    BY <1>1, <1>5 DEF StatusWritten, StatusAccepted, IInv, TypeOK
  <2>2. QED BY <1>5, <2>1, AppliedFacts, DeletionAfterStatus DEF StatusWritten
<1>6. CASE RemoveFinalizer
  BY <1>6, DeletionAfterRelease
<1>7. CASE \/ ClientReady \/ ClientNotReady(Pending) \/ ClientFails(NoClient) \/ ValidateRealm
           \/ FetchRealmRole \/ FetchFails \/ UpdateRealmRole
           \/ \E i \in Ids : CreateRealmRole(i)
  <2>1. ClearRealmRoleState => mine'.deleting = mine.deleting
    BY <1>1 DEF ClearRealmRoleState, Object
  <2>2. QED
    BY <1>1, <1>2, <1>3, <1>7, <2>1
    DEF ClientReady, ClientNotReady, ClientFails, ValidateRealm, FetchRealmRole, FetchFails,
        UpdateRealmRole, CreateRealmRole, Goto, Fail, Succeed, Report
<1>8. CASE \/ CreateFails \/ StoreRealmRoleUUID \/ StorePanics \/ StatusGone \/ StatusSkipped
           \/ StatusConflict \/ DeleteRealmRole \/ DeleteFails
  <2>1. \A i : mine' = [mine EXCEPT !.status.uuid = i] => mine'.deleting = mine.deleting
    BY <1>1 DEF Object
  <2>2. QED
    BY <1>1, <1>2, <1>3, <1>8, <2>1
    DEF CreateFails, StoreRealmRoleUUID, StorePanics, StatusGone, StatusSkipped, StatusConflict,
        StatusRefused, DeleteRealmRole, DeleteFails, Goto, Fail, Succeed, Report
<1>9. QED BY <1>4, <1>5, <1>6, <1>7, <1>8 DEF Work, ToRealmRole

\* So does every other step.
LEMMA NextDeletion ==
    ASSUME IInv, DeletionIsLasting(RealmRoles), [Next]_vars
    PROVE  DeletionIsLasting(RealmRoles)'
<1> USE IsSound
<1>1. ASSUME NEW g \in RealmRoles, Start(g) \/ User(g) \/ Sync(g)
      PROVE  DeletionIsLasting(RealmRoles)'
  <2>1. ASSUME NEW s \in Specs[g], Create(g, NewObject(s)) PROVE DeletionIsLasting(RealmRoles)'
    BY <2>1, DeletionAfterTouch DEF Create, NewObject
  <2>2. ASSUME NEW s \in Specs[g], Edit(g, s) PROVE DeletionIsLasting(RealmRoles)'
    <3> DEFINE o == [obj[g] EXCEPT !.spec = s]
    <3>1. Touched(g, o) /\ obj[g] # Absent /\ obj[g] \in Object
      BY <2>2 DEF Edit, IInv, TypeOK
    <3>2. o.finalizer = obj[g].finalizer /\ o.deleting = obj[g].deleting
      BY <3>1 DEF Object
    <3>3. QED BY <3>1, <3>2, DeletionAfterTouch DEF Guarded
  <2>3. CASE Delete(g)
    <3> DEFINE o == IF obj[g].finalizer THEN [obj[g] EXCEPT !.deleting = TRUE] ELSE Absent
    <3>1. Touched(g, o) /\ obj[g] # Absent /\ obj[g] \in Object
      BY <2>3 DEF Delete, IInv, TypeOK
    <3>2. o # Absent => o.deleting /\ Guarded(g)
      BY <3>1 DEF Object, Guarded
    <3>3. QED BY <3>1, <3>2, DeletionAfterTouch
  <2>4. QED BY <1>1, <2>1, <2>2, <2>3, DeletionAfterStart, DeletionAfterSync DEF User
<1>2. CASE ConfigChanges \/ Crash \/ Others \/ UNCHANGED vars
  BY <1>2, DeletionAfterEnd
  DEF ConfigChanges, Crash, Others, RealmChanges, ConsoleDeletes, ConsoleCreates, ConsoleEdits,
      vars, cluster
<1>3. QED BY <1>1, <1>2, WorkDeletion DEF Next

\* A role the worker takes away is that of a resource marked for deletion.
LEMMA DeleteFacts ==
    ASSUME IInv, DeletionIsLasting(RealmRoles), DeleteRealmRole, NEW i \in Ids,
           kc[i] # Absent, kc'[i] = Absent
    PROVE  i = mine.status.uuid /\ kc[i].cr = me /\ Guarded(me) /\ obj[me].deleting
<1>1. at # "idle" /\ mine.deleting /\ me \in RealmRoles
  BY CopyFacts DEF DeleteRealmRole, IInv, PathsAreApart
<1>2. i = mine.status.uuid /\ Exists(i)
  BY KeycloakFacts DEF DeleteRealmRole, Exists
<1>3. kc[i].cr = me
  BY <1>1, <1>2 DEF IInv, TracksNoOthers, NotAnothers
<1>4. Guarded(me)
  BY <1>1, <1>2, <1>3 DEF IInv, UnguardedIsUntracked, Live
<1>5. QED BY <1>1, <1>2, <1>3, <1>4 DEF DeletionIsLasting

\* The other steps of the worker take no role away.
LEMMA NothingElseDeletes ==
    ASSUME IInv, Next, worker' # worker, ~DeleteRealmRole, NEW i \in Ids, kc[i] # Absent
    PROVE  kc'[i] # Absent
<1>1. CASE UpdateRealmRole
  <2>1. CASE kc' = kc
    BY <2>1
  <2>2. CASE Exists(mine.status.uuid) /\ kc' = Updated(mine.status.uuid)
    <3> DEFINE u == mine.status.uuid
               role == [kc[u] EXCEPT !.name = mine.spec.name, !.attrs = mine.spec.attrs,
                                     !.description = mine.spec.description]
    <3>1. at # "idle" /\ u \in Ids /\ kc[u] \in KcRoles
      BY <1>1, <2>2, KeycloakFacts DEF UpdateRealmRole, Exists
    <3>2. role \in KcRoles
      BY <3>1, CopyFacts DEF KcRoles, Maybe, Object
    <3>3. kc' = [kc EXCEPT ![u] = role]
      BY <2>2, <3>1, KeycloakFacts DEF Updated, KcRoles
    <3>4. QED BY <3>1, <3>2, <3>3, KeycloakFacts
  <2>3. QED BY <1>1, <2>1, <2>2 DEF UpdateRealmRole
<1>2. ASSUME NEW j \in Ids, CreateRealmRole(j) PROVE kc'[i] # Absent
  BY <1>2, KeycloakFacts DEF CreateRealmRole, Unused
<1>3. CASE kc' = kc
  BY <1>3
<1>4. ~Others
  BY DEF Others, RealmChanges, ConsoleDeletes, ConsoleCreates, ConsoleEdits
<1>5. CASE Work
  BY <1>1, <1>2, <1>3, <1>5 DEF Work, ValidateRealm, SetOwnerReference, FetchRealmRole,
     FetchFails, CreateFails, StoreRealmRoleUUID, StorePanics, StatusSkipped, StatusWritten,
     StatusConflict, DeleteFails, keycloak, beyond
<1>6. QED BY <1>3, <1>4, <1>5 DEF Next, beyond, keycloak

\* A role is taken away only for the deletion of the very resource it was made for, however
\* old the copy that says so: a cache that lags never condemns the role of a resource created
\* again under the same name (realmrole_controller.go:542-580).
THEOREM DeletesTheCondemned == Spec => DeletesOnlyCondemned
<1>1. Init => DeletionIsLasting(RealmRoles)
  BY DEF Init, Empty, DeletionIsLasting
<1>2. IInv /\ DeletionIsLasting(RealmRoles) /\ [Next]_vars => DeletionIsLasting(RealmRoles)'
  BY NextDeletion
<1>3. IInv /\ DeletionIsLasting(RealmRoles) /\ [Next]_vars
        => [\A i \in Ids : worker' # worker /\ kc[i] # Absent /\ kc'[i] = Absent =>
              \E g \in RealmRoles : kc[i].cr = g /\ Guarded(g) /\ obj[g].deleting]_vars
  <2> SUFFICES ASSUME IInv, DeletionIsLasting(RealmRoles), Next, NEW i \in Ids,
                      worker' # worker, kc[i] # Absent, kc'[i] = Absent
               PROVE  \E g \in RealmRoles : kc[i].cr = g /\ Guarded(g) /\ obj[g].deleting
    OBVIOUS
  <2>1. DeleteRealmRole
    BY NothingElseDeletes
  <2>2. me \in RealmRoles
    BY <2>1, CopyFacts DEF DeleteRealmRole
  <2>3. QED BY <2>1, <2>2, DeleteFacts
<1>4. QED BY <1>1, <1>2, <1>3, Invariance, PTL DEF Spec, DeletesOnlyCondemned
-----------------------------------------------------------------------------
(* What Ready means, when nobody but the operator takes roles away.         *)

\* A failure, and what is reported before the role is reached, is not Ready.
LEMMA NotReady ==
    /\ ~Pending.ready /\ ~NoClient.ready
    /\ \A m \in Messages : Fail(m) => at' = "status" /\ ~outcome'.ready
    /\ \A q \in BOOLEAN, m \in Messages : ~Outcome(FALSE, q, m).ready
BY DEF Pending, NoClient, Outcome, Fail, Report

\* The first state satisfies it.
LEMMA InitReady == Init => ReadyIsBacked
BY DEF Init, Empty, ReadyIsBacked, ReadyRoleExists

\* A step that writes no object, loses no role, and decides on Ready only for a copy with the
\* finalizer whose role exists.
LEMMA QuietReady ==
    ASSUME ReadyIsBacked, UNCHANGED obj, \A i \in Ids : kc[i] # Absent => kc'[i] # Absent,
           at' = "status" /\ outcome'.ready =>
               mine'.finalizer /\ ~mine'.deleting /\ Exists(mine.status.uuid)'
    PROVE  ReadyIsBacked'
BY DEF ReadyIsBacked, ReadyRoleExists, Exists

\* A write of an object that is Ready only as it was before.
LEMMA WrittenReady ==
    ASSUME ReadyIsBacked, NEW g \in RealmRoles, NEW o, obj' = [obj EXCEPT ![g] = o],
           kc' = kc, at' # "status" \/ UNCHANGED <<at, mine, outcome>>,
           obj = [h \in RealmRoles |-> obj[h]],
           o # Absent /\ o.status.ready =>
               /\ o.finalizer /\ obj[g] # Absent /\ obj[g].status = o.status
               /\ ~o.deleting => ~obj[g].deleting
    PROVE  ReadyIsBacked'
<1>1. obj'[g] = o /\ \A h \in RealmRoles : h # g => obj'[h] = obj[h]
  OBVIOUS
<1>2. ASSUME NEW h \in RealmRoles, obj'[h] # Absent, obj'[h].status.ready
      PROVE  /\ obj'[h].finalizer
             /\ ~obj'[h].deleting => Exists(obj'[h].status.uuid)
  <2>1. CASE h = g
    BY <1>1, <1>2, <2>1 DEF ReadyIsBacked, ReadyRoleExists
  <2>2. CASE h # g
    BY <1>1, <1>2, <2>2 DEF ReadyIsBacked, ReadyRoleExists
  <2>3. QED BY <2>1, <2>2
<1>3. QED BY <1>2 DEF ReadyIsBacked, ReadyRoleExists, Exists

\* The worker's steps that write no object.
LEMMA WorkReady ==
    ASSUME IInv, ReadyIsBacked, DeletionIsLasting(RealmRoles),
           \/ ClientReady \/ ClientNotReady(Pending) \/ ClientFails(NoClient) \/ StatusGone
           \/ ValidateRealm \/ FetchRealmRole \/ FetchFails \/ CreateFails \/ StoreRealmRoleUUID
           \/ StorePanics \/ StatusSkipped \/ StatusConflict \/ DeleteFails,
           UNCHANGED <<obj, kc>>
    PROVE  ReadyIsBacked'
<1>1. at # "idle" /\ mine \in Object
  BY CopyFacts DEF ClientReady, ClientNotReady, ClientFails, StatusGone, ValidateRealm,
     FetchRealmRole, FetchFails, CreateFails, StoreRealmRoleUUID, StorePanics, StatusSkipped,
     StatusConflict, StatusRefused, DeleteFails
<1>2. CASE at' # "status"
  BY <1>2, QuietReady
<1>3. CASE FetchRealmRole /\ ~Differs(kc[mine.status.uuid]) /\ Exists(mine.status.uuid)
           /\ UNCHANGED mine
  BY <1>3, QuietReady DEF IInv, PathsAreApart, FetchRealmRole, Exists
<1>4. ASSUME NEW i \in Ids, Exists(i), mine' = [mine EXCEPT !.status.uuid = i], at = "store"
      PROVE  ReadyIsBacked'
  <2>1. /\ mine'.status.uuid = i /\ mine'.finalizer = mine.finalizer
        /\ mine'.deleting = mine.deleting
    BY <1>1, <1>4 DEF Object, Status
  <2>2. mine.finalizer /\ ~mine.deleting
    BY <1>4 DEF IInv, PathsAreApart
  <2>3. QED BY <1>4, <2>1, <2>2, QuietReady DEF Exists
<1>5. CASE at' = "status" /\ UNCHANGED <<at, mine, outcome>>
  BY <1>5, QuietReady DEF ReadyIsBacked, Exists
<1>6. CASE ~outcome'.ready
  BY <1>6, QuietReady
<1>7. QED
  BY <1>2, <1>3, <1>4, <1>5, <1>6, NotReady
  DEF ClientReady, ClientNotReady, ClientFails, StatusGone, ValidateRealm, FetchRealmRole,
      FetchFails, CreateFails, StoreRealmRoleUUID, StorePanics, StatusSkipped, StatusConflict,
      StatusRefused, DeleteFails, Goto, Done, Report, Messages

\* Its steps that work on the role.
LEMMA RoleReady ==
    ASSUME IInv, ReadyIsBacked, DeletionIsLasting(RealmRoles),
           UpdateRealmRole \/ DeleteRealmRole \/ \E i \in Ids : CreateRealmRole(i)
    PROVE  ReadyIsBacked'
<1>1. at # "idle" /\ obj' = obj
  BY DEF UpdateRealmRole, DeleteRealmRole, CreateRealmRole, cluster
<1>2. CASE UpdateRealmRole
  <2>1. \A i \in Ids : kc[i] # Absent => kc'[i] # Absent
    <3>1. CASE kc' = kc
      BY <3>1
    <3>2. CASE Exists(mine.status.uuid) /\ kc' = Updated(mine.status.uuid)
      <4> DEFINE u == mine.status.uuid
                 role == [kc[u] EXCEPT !.name = mine.spec.name, !.attrs = mine.spec.attrs,
                                       !.description = mine.spec.description]
      <4>1. u \in Ids /\ kc[u] \in KcRoles
        BY <3>2, KeycloakFacts DEF Exists
      <4>2. role \in KcRoles
        BY <1>1, <4>1, CopyFacts DEF KcRoles, Maybe, Object
      <4>3. kc' = [kc EXCEPT ![u] = role]
        BY <3>2, <4>1, KeycloakFacts DEF Updated, KcRoles
      <4>4. QED BY <4>1, <4>2, <4>3, KeycloakFacts
    <3>3. QED BY <1>2, <3>1, <3>2 DEF UpdateRealmRole
  <2>2. mine.finalizer /\ ~mine.deleting /\ mine' = mine
    BY <1>2 DEF UpdateRealmRole, IInv, PathsAreApart
  <2>3. outcome'.ready => Exists(mine.status.uuid)
    BY <1>2, NotReady DEF UpdateRealmRole, Messages
  <2>4. QED BY <1>1, <2>1, <2>2, <2>3, QuietReady DEF Exists
<1>3. ASSUME NEW i \in Ids, CreateRealmRole(i) PROVE ReadyIsBacked'
  <2>1. NewRole \in KcRoles
    BY <1>1, CopyFacts DEF NewRole, KcRoles, Object, Status, Maybe
  <2>2. \A j \in Ids : kc[j] # Absent => kc'[j] # Absent
    BY <1>3, <2>1, KeycloakFacts DEF CreateRealmRole
  <2>3. at' # "status" \/ ~outcome'.ready
    BY <1>3, NotReady DEF CreateRealmRole, Goto, Messages
  <2>4. QED BY <1>1, <2>2, <2>3, QuietReady
<1>4. CASE DeleteRealmRole
  <2>1. at' # "status" /\ me \in RealmRoles
    BY <1>4, CopyFacts DEF DeleteRealmRole, Goto, Done
  <2>2. CASE kc' = kc
    BY <1>1, <2>1, <2>2, QuietReady
  <2>3. CASE Exists(mine.status.uuid) /\ kc' = [kc EXCEPT ![mine.status.uuid] = Absent]
    <3> DEFINE u == mine.status.uuid
    <3>1. u \in Ids /\ kc[u] # Absent /\ kc'[u] = Absent
          /\ \A i \in Ids : i # u => kc'[i] = kc[i]
      BY <2>3, KeycloakFacts DEF Exists
    <3>2. kc[u].cr = me /\ obj[me].deleting
      BY <1>4, <3>1, DeleteFacts
    <3>3. ASSUME NEW g \in RealmRoles, obj[g] # Absent, ~obj[g].deleting, obj[g].status.ready
          PROVE  Exists(obj[g].status.uuid)'
      <4>1. Exists(obj[g].status.uuid)
        BY <3>3 DEF ReadyIsBacked, ReadyRoleExists
      <4>2. obj[g].status.uuid # u
        BY <3>1, <3>2, <3>3, <4>1 DEF IInv, TracksNoOthers, NotAnothers
      <4>3. QED BY <1>1, <3>1, <4>1, <4>2 DEF Exists
    <3>4. QED BY <1>1, <2>1, <3>3 DEF ReadyIsBacked, ReadyRoleExists, Exists
  <2>4. QED BY <1>4, <2>2, <2>3 DEF DeleteRealmRole
<1>5. QED BY <1>2, <1>3, <1>4

\* The worker's steps that write objects.
LEMMA WriteReady ==
    ASSUME IInv, ReadyIsBacked,
           \/ (EnsureFinalizer("realm") \/ RemoveFinalizer) /\ UNCHANGED beyond
           \/ SetOwnerReference \/ StatusWritten
    PROVE  ReadyIsBacked'
<1>1. /\ at # "idle" /\ me \in RealmRoles /\ mine \in Object /\ kc' = kc
      /\ obj \in [RealmRoles -> Object \cup {Absent}]
  BY CopyFacts DEF EnsureFinalizer, RemoveFinalizer, SetOwnerReference, StatusWritten,
     StatusAccepted, beyond, keycloak, IInv, TypeOK
<1>2. CASE obj' = obj /\ (at' # "status" \/ ~outcome'.ready)
  BY <1>1, <1>2, QuietReady
<1>3. CASE EnsureFinalizer("realm") /\ Written([mine EXCEPT !.finalizer = TRUE])
  <2> DEFINE o == [mine EXCEPT !.finalizer = TRUE]
  <2>1. /\ o.finalizer /\ o.status = mine.status /\ o.deleting = mine.deleting /\ mine # Absent
        /\ obj[me] = mine /\ obj' = [obj EXCEPT ![me] = o] /\ at' # "status"
    BY <1>1, <1>3 DEF EnsureFinalizer, Written, Goto, Done, Object, IInv, CopiesAgree
  <2> HIDE DEF o
  <2>2. QED BY <1>1, <2>1, WrittenReady
<1>4. CASE SetOwnerReference /\ Written([mine EXCEPT !.owned = TRUE])
  <2> DEFINE o == [mine EXCEPT !.owned = TRUE]
  <2>1. /\ o.finalizer = mine.finalizer /\ o.status = mine.status /\ o.deleting = mine.deleting
        /\ mine # Absent /\ mine.finalizer
        /\ obj[me] = mine /\ obj' = [obj EXCEPT ![me] = o]
    BY <1>1, <1>4 DEF SetOwnerReference, Written, Object, IInv, CopiesAgree, PathsAreApart
  <2>2. at' # "status"
    BY <1>4 DEF SetOwnerReference, Written, Goto, Fail, Report
  <2> HIDE DEF o
  <2>3. QED BY <1>1, <2>1, <2>2, WrittenReady
<1>5. CASE RemoveFinalizer /\ obj' = [obj EXCEPT ![me] = Absent]
  <2>1. at' = "idle"
    BY <1>5 DEF RemoveFinalizer, Done
  <2>2. QED BY <1>1, <1>5, <2>1, WrittenReady
<1>6. CASE StatusWritten
  <2> DEFINE o == StatusApplied(cache[me])
  <2>1. /\ at = "status" /\ at' = "idle" /\ obj' = [obj EXCEPT ![me] = o]
        /\ cache[me] = obj[me] /\ obj[me] # Absent /\ obj[me] \in Object
    BY <1>1, <1>6 DEF StatusWritten, StatusAccepted, Done, IInv, CopiesAgree
  <2>2. /\ o \in Object /\ o.finalizer = obj[me].finalizer
        /\ o.status.ready = outcome.ready
        /\ o.status.uuid =
             IF mine.status.uuid # None THEN mine.status.uuid ELSE obj[me].status.uuid
    BY <2>1, AppliedFacts, CopyFacts DEF StatusApplied, Object
  <2>3. outcome.ready => /\ obj[me].finalizer
                         /\ Exists(mine.status.uuid) /\ mine.status.uuid # None
    BY <1>1, <2>1 DEF IInv, GuardIsLasting, Guarded, ReadyIsBacked, Exists
  <2> HIDE DEF o
  <2>4. obj'[me] = o /\ \A h \in RealmRoles : h # me => obj'[h] = obj[h]
    BY <1>1, <2>1
  <2>5. ASSUME NEW h \in RealmRoles, obj'[h] # Absent, obj'[h].status.ready
        PROVE  obj'[h].finalizer /\ (~obj'[h].deleting => Exists(obj'[h].status.uuid))
    <3>1. CASE h = me
      BY <2>2, <2>3, <2>4, <2>5, <3>1
    <3>2. CASE h # me
      BY <2>4, <2>5, <3>2 DEF ReadyIsBacked, ReadyRoleExists
    <3>3. QED BY <3>1, <3>2
  <2>6. QED BY <1>1, <2>1, <2>5 DEF ReadyIsBacked, ReadyRoleExists, Exists
<1>7. QED
  BY <1>2, <1>3, <1>4, <1>5, <1>6, NotReady
  DEF EnsureFinalizer, RemoveFinalizer, SetOwnerReference, Goto, Done, Messages, cluster

\* The user and the informer.
LEMMA UserReady ==
    ASSUME IInv, ReadyIsBacked, NEW g \in RealmRoles, Start(g) \/ User(g) \/ Sync(g),
           UNCHANGED beyond
    PROVE  ReadyIsBacked'
<1>1. kc' = kc /\ obj \in [RealmRoles -> Object \cup {Absent}]
  BY DEF beyond, keycloak, IInv, TypeOK
<1>2. CASE Start(g)
  BY <1>1, <1>2, QuietReady DEF Start, cluster
<1>3. CASE Sync(g)
  BY <1>1, <1>3, QuietReady DEF Sync, worker, ReadyIsBacked, Exists
<1>4. ASSUME NEW o, Touched(g, o),
             o # Absent /\ o.status.ready =>
                 /\ o.finalizer /\ obj[g] # Absent /\ obj[g].status = o.status
                 /\ ~o.deleting => ~obj[g].deleting
      PROVE  ReadyIsBacked'
  <2>1. obj' = [obj EXCEPT ![g] = o] /\ UNCHANGED <<at, mine, outcome>>
    BY <1>4 DEF Touched
  <2>2. QED BY <1>1, <1>4, <2>1, WrittenReady
<1>5. ASSUME NEW s \in Specs[g], Create(g, NewObject(s)) PROVE ReadyIsBacked'
  BY <1>4, <1>5 DEF Create, NewObject
<1>6. ASSUME NEW s \in Specs[g], Edit(g, s) PROVE ReadyIsBacked'
  <2> DEFINE o == [obj[g] EXCEPT !.spec = s]
  <2>1. Touched(g, o) /\ obj[g] # Absent /\ obj[g] \in Object
    BY <1>1, <1>6 DEF Edit
  <2>2. /\ o.finalizer = obj[g].finalizer /\ o.status = obj[g].status
        /\ o.deleting = obj[g].deleting
    BY <2>1 DEF Object
  <2> HIDE DEF o
  <2>3. QED BY <1>4, <2>1, <2>2 DEF ReadyIsBacked
<1>7. CASE Delete(g)
  <2> DEFINE o == IF obj[g].finalizer THEN [obj[g] EXCEPT !.deleting = TRUE] ELSE Absent
  <2>1. Touched(g, o) /\ obj[g] # Absent /\ obj[g] \in Object
    BY <1>1, <1>7 DEF Delete
  <2>2. o # Absent => o.finalizer /\ o.status = obj[g].status /\ o.deleting
    BY <2>1 DEF Object
  <2> HIDE DEF o
  <2>3. QED BY <1>4, <2>1, <2>2
<1>8. QED BY <1>2, <1>3, <1>5, <1>6, <1>7 DEF User

\* Everyone else, as long as nobody takes roles away.
LEMMA OthersReady ==
    ASSUME "handDelete" \notin Disturbances, "realmDeleted" \notin Disturbances,
           IInv, ReadyIsBacked,
           \/ Others
           \/ (ConfigChanges \/ Crash) /\ UNCHANGED beyond
           \/ UNCHANGED vars
    PROVE  ReadyIsBacked'
<1>1. obj' = obj
  BY DEF Others, RealmChanges, ConsoleDeletes, ConsoleCreates, ConsoleEdits, ConfigChanges,
     Crash, vars, cluster
<1>2. UNCHANGED worker \/ at' = "idle"
  BY DEF Others, RealmChanges, ConsoleDeletes, ConsoleCreates, ConsoleEdits, ConfigChanges,
     Crash, Done, vars
<1>3. ASSUME NEW j \in Ids, kc[j] # Absent PROVE kc'[j] # Absent
  <2>1. CASE kc' = kc
    BY <1>3, <2>1
  <2>2. ASSUME NEW i \in Ids, ConsoleCreates(i) PROVE kc'[j] # Absent
    <3>1. j # i
      BY <1>3, <2>2, KeycloakFacts DEF ConsoleCreates, Unused
    <3>2. QED BY <1>3, <2>2, <3>1, KeycloakFacts DEF ConsoleCreates
  <2>3. ASSUME NEW i \in Ids, ConsoleEdits(i) PROVE kc'[j] # Absent
    <3>1. PICK s \in SpecSet : kc' = [kc EXCEPT ![i].attrs = s.attrs, ![i].description = s.description]
      BY <2>3 DEF ConsoleEdits, SpecSet
    <3> DEFINE role == [kc[i] EXCEPT !.attrs = s.attrs, !.description = s.description]
    <3>2. kc[i] \in KcRoles
      BY <2>3, KeycloakFacts DEF ConsoleEdits, Exists
    <3>3. kc' = [kc EXCEPT ![i] = role]
      BY <3>1, <3>2, KeycloakFacts DEF KcRoles
    <3>4. role \in KcRoles
      BY <3>2 DEF KcRoles, SpecSet, Maybe
    <3>5. QED BY <1>3, <3>3, <3>4, KeycloakFacts
  <2>4. QED
    BY <2>1, <2>2, <2>3 DEF Others, RealmChanges, ConsoleDeletes, ConfigChanges, Crash, Event,
       beyond, vars, keycloak
<1>4. QED BY <1>1, <1>2, <1>3, QuietReady DEF ReadyIsBacked, worker, Exists

\* A step keeps it so.
LEMMA NextReady ==
    ASSUME "handDelete" \notin Disturbances, "realmDeleted" \notin Disturbances,
           IInv, DeletionIsLasting(RealmRoles), ReadyIsBacked, [Next]_vars
    PROVE  ReadyIsBacked'
<1>1. CASE Work
  <2>1. CASE ToRealmRole /\ ~EnsureFinalizer("realm") /\ UNCHANGED beyond
    BY <2>1, WorkReady DEF ToRealmRole, ClientReady, ClientNotReady, ClientFails, cluster, beyond,
       keycloak
  <2>2. CASE StatusGone /\ UNCHANGED beyond
    BY <2>2, WorkReady DEF StatusGone, cluster, beyond, keycloak
  <2>3. CASE \/ ValidateRealm \/ FetchRealmRole \/ FetchFails \/ CreateFails \/ StoreRealmRoleUUID
             \/ StorePanics \/ StatusSkipped \/ StatusConflict \/ DeleteFails
    BY <2>3, WorkReady DEF ValidateRealm, FetchRealmRole, FetchFails, CreateFails,
       StoreRealmRoleUUID, StorePanics, StatusSkipped, StatusConflict, StatusRefused, DeleteFails,
       cluster, beyond, keycloak
  <2>4. QED BY <1>1, <2>1, <2>2, <2>3, RoleReady, WriteReady DEF Work, ToRealmRole
<1>2. QED BY <1>1, UserReady, OthersReady DEF Next

\* While nobody but the operator takes roles away, a resource that is Ready and not being
\* deleted names a role that exists, however old the copies and how many the conflicts,
\* faults, lost answers and crashes before (realmrole_controller.go:496-540).
THEOREM ReadyIsTrue ==
    ASSUME "handDelete" \notin Disturbances, "realmDeleted" \notin Disturbances
    PROVE  Spec => []ReadyRoleExists
<1>1. Init => DeletionIsLasting(RealmRoles)
  BY DEF Init, Empty, DeletionIsLasting
<1>2. IInv /\ DeletionIsLasting(RealmRoles) /\ [Next]_vars => DeletionIsLasting(RealmRoles)'
  BY NextDeletion
<1>3. IInv /\ DeletionIsLasting(RealmRoles) /\ ReadyIsBacked /\ [Next]_vars => ReadyIsBacked'
  BY NextReady
<1>4. ReadyIsBacked => ReadyRoleExists
  BY DEF ReadyIsBacked
<1>5. QED BY InitReady, <1>1, <1>2, <1>3, <1>4, Invariance, PTL DEF Spec
-----------------------------------------------------------------------------
(* Each RealmRole resource implements ManagedResource.                      *)

\* What becomes of g in a step.
ManagedStep(g) == Managed(g)!Next \/ UNCHANGED Managed(g)!vars

\* A step that leaves the object's life and its id alone, and makes no role for it,
\* loses roles or does nothing.
LEMMA LoseStep ==
    ASSUME NEW g \in RealmRoles, Life(g)' = Life(g), Tracked(g)' = Tracked(g),
           \A i \in Ids : kc'[i] # Absent /\ kc'[i].cr = g => kc[i] # Absent /\ kc[i].cr = g
    PROVE  ManagedStep(g)
<1> DEFINE S == {i \in Ids : /\ kc[i] # Absent /\ kc[i].cr = g
                             /\ ~(kc'[i] # Absent /\ kc'[i].cr = g)}
<1>1. LiveOf(g)' = LiveOf(g) \ S
  BY DEF LiveOf, Exists
<1>2. Managed(g)!Lose(S)
  BY <1>1 DEF Managed!Lose
<1>3. QED BY <1>2 DEF ManagedStep, Managed!Next

\* The same, when no object is written.
LEMMA QuietStep ==
    ASSUME IInv, NEW g \in RealmRoles, obj' = obj,
           \/ kc' = kc
           \/ \A i \in Ids : kc'[i] # Absent => kc[i] # Absent /\ kc'[i].cr = kc[i].cr
    PROVE  ManagedStep(g)
BY LoseStep DEF Life, Tracked

\* No step of the worker but four writes an object or makes a role.
LEMMA WorkerStep ==
    ASSUME IInv, NEW g \in RealmRoles,
           \/ (ClientReady \/ ClientNotReady(Pending) \/ ClientFails(NoClient)) /\ UNCHANGED beyond
           \/ (StatusGone \/ Crash) /\ UNCHANGED beyond
           \/ ValidateRealm \/ FetchRealmRole \/ FetchFails
           \/ UpdateRealmRole \/ CreateFails \/ StoreRealmRoleUUID \/ StorePanics
           \/ StatusSkipped \/ StatusConflict \/ DeleteRealmRole \/ DeleteFails
    PROVE  ManagedStep(g)
<1>1. obj' = obj
  BY DEF ClientReady, ClientNotReady, ClientFails, ValidateRealm, FetchRealmRole, FetchFails,
     UpdateRealmRole, CreateFails, StoreRealmRoleUUID, StorePanics,
     StatusSkipped, StatusConflict, StatusRefused, StatusGone, DeleteRealmRole, DeleteFails, Crash,
     cluster
<1>2. CASE UpdateRealmRole
  BY <1>1, <1>2, UpdateFacts, QuietStep
<1>3. CASE DeleteRealmRole
  <2>1. \A i \in Ids : kc'[i] \in {kc[i], Absent}
    BY <1>3, KeycloakFacts DEF DeleteRealmRole, Exists
  <2>2. QED BY <1>1, <2>1, QuietStep
<1>4. CASE ~UpdateRealmRole /\ ~DeleteRealmRole
  <2>1. kc' = kc
    BY <1>4 DEF ClientReady, ClientNotReady, ClientFails, ValidateRealm, FetchRealmRole,
       FetchFails, CreateFails, StoreRealmRoleUUID, StorePanics,
       StatusSkipped, StatusConflict, StatusGone, DeleteFails, Crash, keycloak, beyond
  <2>2. QED BY <1>1, <2>1, QuietStep
<1>5. QED BY <1>2, <1>3, <1>4

\* A new role for the resource at work, while its copy shows the finalizer.
LEMMA ProvisionStep ==
    ASSUME IInv, NEW g \in RealmRoles, g = me, NEW i \in Ids, i \notin spent, obj' = obj,
           at # "idle", mine.finalizer, ~mine.deleting,
           NEW role \in KcRoles, role.cr = g, kc' = [kc EXCEPT ![i] = role]
    PROVE  ManagedStep(g)
<1>1. Guarded(g)
  BY DEF IInv, GuardIsLasting
<1>2. Life(g) = "guarded" /\ Life(g)' = Life(g) /\ Tracked(g)' = Tracked(g)
  BY <1>1 DEF Life, Tracked, Guarded
<1>3. i \notin LiveOf(g)
  BY KeycloakFacts DEF LiveOf, Exists
<1>4. LiveOf(g)' = LiveOf(g) \cup {i}
  BY KeycloakFacts DEF LiveOf, Exists
<1>5. Managed(g)!Provision(i)
  BY <1>2, <1>3, <1>4 DEF Managed!Provision
<1>6. QED BY <1>5 DEF ManagedStep, Managed!Next

\* A role is made only for a resource that has the finalizer.
LEMMA CreateStep ==
    ASSUME IInv, NEW g \in RealmRoles, NEW i \in Ids, CreateRealmRole(i)
    PROVE  ManagedStep(g)
<1>1. /\ obj' = obj /\ kc' = [kc EXCEPT ![i] = NewRole] /\ i \notin spent
      /\ mine.finalizer /\ ~mine.deleting /\ at # "idle"
  BY DEF CreateRealmRole, Unused, cluster, IInv, PathsAreApart
<1>2. NewRole \in KcRoles /\ NewRole.cr = me
  BY <1>1, CopyFacts DEF NewRole, KcRoles, Object, Status, Maybe
<1>3. CASE g # me
  <2>1. \A j \in Ids : kc'[j] # Absent /\ kc'[j].cr = g => kc[j] # Absent /\ kc[j].cr = g
    BY <1>1, <1>2, <1>3, KeycloakFacts
  <2>2. QED BY <1>1, <2>1, LoseStep DEF Life, Tracked
<1>4. CASE g = me
  BY <1>1, <1>2, <1>4, ProvisionStep
<1>5. QED BY <1>3, <1>4

\* The finalizer is added to a bare object; no other write of the copy is seen.
LEMMA WriteStep ==
    ASSUME IInv, NEW g \in RealmRoles,
           (EnsureFinalizer("realm") /\ UNCHANGED keycloak) \/ SetOwnerReference
    PROVE  ManagedStep(g)
<1>1. at # "idle" /\ kc' = kc /\ me \in RealmRoles /\ mine \in Object
      /\ obj \in [RealmRoles -> Object \cup {Absent}]
  BY CopyFacts DEF EnsureFinalizer, SetOwnerReference, keycloak, IInv, TypeOK
<1>2. LiveOf(g)' = LiveOf(g)
  BY <1>1 DEF LiveOf, Exists
<1>3. CASE obj' = obj
  BY <1>1, <1>3, QuietStep
<1>4. CASE SetOwnerReference /\ Written([mine EXCEPT !.owned = TRUE])
  <2>1. fresh /\ obj[me] = mine /\ obj' = [obj EXCEPT ![me] = [mine EXCEPT !.owned = TRUE]]
    BY <1>4 DEF SetOwnerReference, Written, IInv, CopiesAgree
  <2>2. [mine EXCEPT !.owned = TRUE] # Absent
        /\ [mine EXCEPT !.owned = TRUE].finalizer = mine.finalizer
        /\ [mine EXCEPT !.owned = TRUE].status = mine.status
    BY <1>1 DEF Object
  <2>3. Life(g)' = Life(g) /\ Tracked(g)' = Tracked(g)
    BY <1>1, <2>1, <2>2 DEF Life, Tracked
  <2>4. QED BY <1>1, <2>3, LoseStep
<1>5. CASE EnsureFinalizer("realm") /\ ~mine.finalizer /\ Written([mine EXCEPT !.finalizer = TRUE])
  <2>1. fresh /\ obj[me] = mine /\ obj' = [obj EXCEPT ![me] = [mine EXCEPT !.finalizer = TRUE]]
    BY <1>5 DEF EnsureFinalizer, Written, IInv, CopiesAgree
  <2>2. [mine EXCEPT !.finalizer = TRUE] # Absent /\ mine # Absent
        /\ [mine EXCEPT !.finalizer = TRUE].finalizer
        /\ [mine EXCEPT !.finalizer = TRUE].status = mine.status
    BY <1>1 DEF Object
  <2>3. CASE g = me
    <3>1. Life(g) = "bare" /\ Life(g)' = "guarded" /\ Tracked(g)' = Tracked(g)
      BY <1>1, <1>5, <2>1, <2>2, <2>3 DEF Life, Tracked
    <3>2. Managed(g)!Guard
      BY <1>2, <3>1 DEF Managed!Guard
    <3>3. QED BY <3>2 DEF ManagedStep, Managed!Next
  <2>4. CASE g # me
    <3>1. Life(g)' = Life(g) /\ Tracked(g)' = Tracked(g)
      BY <1>1, <2>1, <2>4 DEF Life, Tracked
    <3>2. QED BY <1>1, <3>1, LoseStep
  <2>5. QED BY <2>3, <2>4
<1>6. QED
  BY <1>3, <1>4, <1>5 DEF EnsureFinalizer, SetOwnerReference, cluster

\* A status write has the resource track the UUID written.
LEMMA StatusStep ==
    ASSUME IInv, NEW g \in RealmRoles, StatusWritten
    PROVE  ManagedStep(g)
<1> DEFINE o == StatusApplied(cache[me])
<1>1. /\ me \in RealmRoles /\ at = "status" /\ kc' = kc /\ obj' = [obj EXCEPT ![me] = o]
      /\ obj \in [RealmRoles -> Object \cup {Absent}]
      /\ obj[me] = cache[me] /\ obj[me] # Absent /\ obj[me] \in Object
  BY DEF StatusWritten, StatusAccepted, beyond, IInv, TypeOK, CopiesAgree, keycloak
<1>2. /\ o \in Object /\ o # Absent /\ o.finalizer = obj[me].finalizer
      /\ o.status.uuid \in Ids \/ o.status.uuid = obj[me].status.uuid
  BY <1>1, AppliedFacts, CopyFacts DEF Maybe
<1>3. Life(g)' = Life(g) /\ LiveOf(g)' = LiveOf(g)
  BY <1>1, <1>2 DEF Life, LiveOf, Exists
<1>4. CASE Tracked(g)' = Tracked(g)
  BY <1>1, <1>3, <1>4, LoseStep
<1>5. CASE Tracked(g)' # Tracked(g)
  <2>1. g = me /\ Tracked(g)' = o.status.uuid /\ o.status.uuid \in Ids /\ Life(g) # "absent"
    BY <1>1, <1>2, <1>5 DEF Tracked, Life
  <2>2. Managed(g)!Track(o.status.uuid)
    BY <1>3, <2>1 DEF Managed!Track
  <2>3. QED BY <2>1, <2>2 DEF ManagedStep, Managed!Next
<1>6. QED BY <1>4, <1>5

\* An object goes only when no role of its own is tracked.
LEMMA ReleaseStep ==
    ASSUME IInv, NEW g \in RealmRoles, RemoveFinalizer, UNCHANGED keycloak
    PROVE  ManagedStep(g)
<1>1. /\ me \in RealmRoles /\ at = "unfinalize" /\ kc' = kc /\ mine \in Object
      /\ obj \in [RealmRoles -> Object \cup {Absent}]
  BY DEF RemoveFinalizer, IInv, TypeOK, keycloak
<1>2. CASE obj' = obj
  BY <1>1, <1>2, QuietStep
<1>3. CASE mine.finalizer /\ fresh /\ obj' = [obj EXCEPT ![me] = Absent]
  <2>1. obj[me] = mine /\ ~Live(mine.status.uuid, me) /\ LiveOf(g)' = LiveOf(g)
    BY <1>1, <1>3 DEF IInv, CopiesAgree, UnguardedIsUntracked, LiveOf, Exists
  <2>2. CASE g = me
    <3>1. Life(g) = "guarded" /\ Life(g)' = "absent" /\ Tracked(g)' = None
      BY <1>1, <1>3, <2>1, <2>2 DEF Life, Tracked
    <3>2. Tracked(g) \notin LiveOf(g)
      BY <1>1, <1>3, <2>1, <2>2 DEF Tracked, LiveOf, Live
    <3>3. Managed(g)!Release
      BY <2>1, <3>1, <3>2 DEF Managed!Release
    <3>4. QED BY <3>3 DEF ManagedStep, Managed!Next
  <2>3. CASE g # me
    <3>1. Life(g)' = Life(g) /\ Tracked(g)' = Tracked(g)
      BY <1>1, <1>3, <2>3 DEF Life, Tracked
    <3>2. QED BY <1>1, <3>1, LoseStep
  <2>4. QED BY <2>2, <2>3
<1>4. QED BY <1>2, <1>3 DEF RemoveFinalizer, cluster

\* A user declares a resource, edits it, and deletes it: at once, if it is bare.
LEMMA UserStep ==
    ASSUME IInv, NEW g \in RealmRoles, NEW h \in RealmRoles, User(h), UNCHANGED keycloak
    PROVE  ManagedStep(g)
<1>1. /\ kc' = kc /\ obj \in [RealmRoles -> Object \cup {Absent}]
      /\ \E o : obj' = [obj EXCEPT ![h] = o]
  BY DEF User, Create, Edit, Delete, Touched, keycloak, IInv, TypeOK
<1>2. LiveOf(g)' = LiveOf(g)
  BY <1>1 DEF LiveOf, Exists
<1>3. CASE g # h
  <2>1. Life(g)' = Life(g) /\ Tracked(g)' = Tracked(g)
    BY <1>1, <1>3 DEF Life, Tracked
  <2>2. QED BY <1>1, <2>1, LoseStep
<1>4. ASSUME g = h, NEW s \in Specs[g], Create(g, NewObject(s)) PROVE ManagedStep(g)
  <2>1. obj' = [obj EXCEPT ![g] = NewObject(s)]
    BY <1>4 DEF Create, Touched
  <2>2. NewObject(s) \in Object /\ ~NewObject(s).finalizer /\ NewObject(s).status.uuid = None
    BY DEF NewObject, Object, Status, SpecSet, Maybe, Messages
  <2>3. /\ Life(g) = "absent" /\ Life(g)' = "bare" /\ Tracked(g) = None /\ Tracked(g)' = None
    BY <1>1, <1>4, <2>1, <2>2 DEF Create, Life, Tracked
  <2>4. Managed(g)!Declare
    BY <1>2, <2>3 DEF Managed!Declare
  <2>5. QED BY <2>4 DEF ManagedStep, Managed!Next
<1>5. ASSUME g = h, NEW s \in Specs[g], Edit(g, s) PROVE ManagedStep(g)
  <2>1. obj' = [obj EXCEPT ![g] = [obj[g] EXCEPT !.spec = s]]
    BY <1>5 DEF Edit, Touched
  <2> DEFINE o == [obj[g] EXCEPT !.spec = s]
  <2>2. /\ obj[g] # Absent /\ obj[g] \in Object /\ s \in SpecSet
    BY <1>1, <1>5 DEF Edit, SpecSet
  <2>3. o \in Object /\ o.finalizer = obj[g].finalizer /\ o.status = obj[g].status
    BY <2>2 DEF Object
  <2>4. obj'[g] = o /\ o # Absent
    BY <1>1, <2>1, <2>3
  <2>5. Life(g)' = Life(g) /\ Tracked(g)' = Tracked(g)
    BY <2>2, <2>3, <2>4 DEF Life, Tracked
  <2>6. QED BY <1>1, <2>5, LoseStep
<1>6. CASE g = h /\ Delete(h)
  <2>1. obj[g] # Absent /\ obj[g] \in Object
    BY <1>1, <1>6 DEF Delete
  <2>2. CASE obj[g].finalizer
    <3> DEFINE o == [obj[g] EXCEPT !.deleting = TRUE]
    <3>1. o \in Object /\ o.finalizer /\ o.status = obj[g].status
      BY <2>1, <2>2 DEF Object
    <3>2. obj'[g] = o /\ o # Absent
      BY <1>1, <1>6, <2>2, <3>1 DEF Delete, Touched
    <3>3. Life(g)' = Life(g) /\ Tracked(g)' = Tracked(g)
      BY <2>1, <2>2, <3>1, <3>2 DEF Life, Tracked
    <3>4. QED BY <1>1, <3>3, LoseStep
  <2>3. CASE ~obj[g].finalizer
    <3>1. /\ Life(g) = "bare" /\ Life(g)' = "absent" /\ Tracked(g)' = None
      BY <1>1, <1>6, <2>1, <2>3 DEF Delete, Touched, Life, Tracked
    <3>2. Tracked(g) \notin LiveOf(g)
      BY <2>1, <2>3 DEF IInv, UnguardedIsUntracked, Guarded, Tracked, LiveOf, Live
    <3>3. Managed(g)!Discard
      BY <1>2, <3>1, <3>2 DEF Managed!Discard
    <3>4. QED BY <3>3 DEF ManagedStep, Managed!Next
  <2>4. QED BY <2>2, <2>3
<1>7. QED BY <1>3, <1>4, <1>5, <1>6 DEF User

\* In Keycloak, others make no role for a resource but the one that looks for a new role.
LEMMA OtherStep ==
    ASSUME IInv, NEW g \in RealmRoles,
           \/ RealmChanges \/ (ConfigChanges /\ UNCHANGED beyond)
           \/ \E i \in Ids : ConsoleDeletes(i) \/ ConsoleCreates(i) \/ ConsoleEdits(i)
    PROVE  ManagedStep(g)
<1>1. obj' = obj
  BY DEF ConfigChanges, RealmChanges, ConsoleDeletes, ConsoleCreates, ConsoleEdits, cluster
<1>2. CASE RealmChanges \/ (ConfigChanges /\ UNCHANGED beyond)
  <2>1. kc' = kc \/ kc' = [i \in Ids |-> Absent]
    BY <1>2 DEF RealmChanges, beyond, keycloak
  <2>2. QED BY <1>1, <2>1, QuietStep
<1>3. ASSUME NEW i \in Ids, ConsoleDeletes(i) PROVE ManagedStep(g)
  <2>1. \A j \in Ids : kc'[j] \in {kc[j], Absent}
    BY <1>3, KeycloakFacts DEF ConsoleDeletes
  <2>2. QED BY <1>1, <2>1, QuietStep
<1>4. ASSUME NEW i \in Ids, ConsoleCreates(i) PROVE ManagedStep(g)
  <2>1. PICK s \in SpecSet : kc' = [kc EXCEPT ![i] = HandMade(s)]
    BY <1>4 DEF ConsoleCreates, SpecSet, HandMade
  <2>2. /\ HandMade(s) \in KcRoles /\ i \notin spent
        /\ HandMade(s).cr = None \/ (HandMade(s).cr = me /\ at = "store")
    BY <1>4 DEF ConsoleCreates, Unused, HandMade, MadeFor, KcRoles, SpecSet, Maybe, IInv, TypeOK
  <2>3. CASE HandMade(s).cr # g
    <3>1. \A j \in Ids : kc'[j] # Absent /\ kc'[j].cr = g => kc[j] # Absent /\ kc[j].cr = g
      BY <2>1, <2>3, KeycloakFacts
    <3>2. QED BY <1>1, <3>1, LoseStep DEF Life, Tracked
  <2>4. CASE HandMade(s).cr = g
    <3>1. g = me /\ at # "idle" /\ mine.finalizer /\ ~mine.deleting
      BY <2>2, <2>4 DEF IInv, PathsAreApart
    <3>2. QED BY <1>1, <2>1, <2>2, <2>4, <3>1, ProvisionStep
  <2>5. QED BY <2>3, <2>4
<1>5. ASSUME NEW i \in Ids, ConsoleEdits(i) PROVE ManagedStep(g)
  <2>1. PICK s \in SpecSet :
          kc' = [kc EXCEPT ![i].attrs = s.attrs, ![i].description = s.description]
    BY <1>5 DEF ConsoleEdits, SpecSet
  <2>2. kc[i] \in KcRoles /\ kc[i] # Absent
    BY <1>5, KeycloakFacts DEF ConsoleEdits, Exists
  <2> DEFINE role == [kc[i] EXCEPT !.attrs = s.attrs, !.description = s.description]
  <2>3. role.cr = kc[i].cr /\ kc' = [kc EXCEPT ![i] = role]
    BY <2>1, <2>2, KeycloakFacts DEF KcRoles
  <2>4. \A j \in Ids : kc'[j] # Absent => kc[j] # Absent /\ kc'[j].cr = kc[j].cr
    BY <2>2, <2>3, KeycloakFacts
  <2>5. QED BY <1>1, <2>4, QuietStep
<1>6. QED BY <1>2, <1>3, <1>4, <1>5

\* Each RealmRole resource lives as ManagedResource says, against stale reads, refused
\* writes, crashes, lost answers and the work of others in Keycloak
\* (realmrole_controller.go:104-110, 542-564).
THEOREM ImplementsManagedResource == Spec => ManagedSpec
<1>1. Init => \A g \in RealmRoles : Managed(g)!Init
  BY DEF Init, Empty, Managed!Init, Life, Tracked, LiveOf, Exists
<1>2. IInv /\ [Next]_vars =>
        [\A g \in RealmRoles : Managed(g)!Next \/ UNCHANGED Managed(g)!vars]_vars
  <2> SUFFICES ASSUME IInv, Next, NEW g \in RealmRoles PROVE ManagedStep(g)
    BY DEF ManagedStep
  <2>1. ASSUME NEW h \in RealmRoles, Start(h) \/ User(h) \/ Sync(h), UNCHANGED beyond
        PROVE  ManagedStep(g)
    BY <2>1, QuietStep, UserStep DEF Start, Sync, cluster, beyond, keycloak
  <2>2. CASE (ToRealmRole \/ StatusGone \/ RemoveFinalizer) /\ UNCHANGED beyond
    BY <2>2, WorkerStep, WriteStep, ReleaseStep DEF ToRealmRole, beyond
  <2>3. CASE Work
    BY <2>2, <2>3, WorkerStep, CreateStep, WriteStep, StatusStep DEF Work
  <2>4. CASE (ConfigChanges \/ Crash) /\ UNCHANGED beyond
    BY <2>4, WorkerStep, OtherStep
  <2>5. CASE Others
    BY <2>5, OtherStep DEF Others
  <2>6. QED BY <2>1, <2>3, <2>4, <2>5 DEF Next
<1>3. QED BY <1>1, <1>2, Invariance, PTL DEF Spec, ManagedSpec
=============================================================================
