------------------------- MODULE GroupControllerProofs -------------------------
(***************************************************************************)
(* Theorems about GroupController for any groups, specs, UUIDs and bounds: *)
(* IInv is inductive, each Group resource lives as ManagedResource says,   *)
(* and, with names of their own, the worker deletes only the groups of the *)
(* resource whose deletion it works on, and a top-level group that is      *)
(* Ready is there.                                                         *)
(***************************************************************************)
EXTENDS GroupController, ReconcilerProofs, TLAPS

USE BoundsAssumption, NilAssumption, AbsentAssumption DEF Early, OutcomeOK

\* The outcomes of the code are outcomes.
LEMMA OutcomeType ==
    /\ \A r, q \in BOOLEAN, m \in Messages : Outcome(r, q, m) \in Outcomes
    /\ Pending \in Outcomes /\ NoClient \in Outcomes
BY DEF Outcome, Pending, NoClient, Outcomes, Messages

\* The places and the bounds a reconcile starts and ends with.
LEMMA IdleType == "idle" \in Labels /\ 0 \in 0..MaxRetries /\ 1 \in 0..MaxRetries /\ 0 \in 0..MaxEvents
BY DEF Labels

\* The first state satisfies the inductive invariant.
LEMMA InitIInv == Init => IInv
<1> SUFFICES ASSUME Init PROVE IInv
  OBVIOUS
<1> USE DEF Init, Empty
<1>1. TypeOK
  BY IdleType DEF TypeOK
<1>2. CopiesAgree(Groups, Early) /\ GuardIsLasting(Groups) /\ PathsAreApart
  BY DEF CopiesAgree, GuardIsLasting, PathsAreApart, Guarded
<1>3. DeletingIsGuarded(Groups) /\ IdsAreSpent
  BY DEF DeletingIsGuarded, IdsAreSpent, Exists
<1>4. UnguardedIsUntracked
  BY DEF UnguardedIsUntracked
<1>5. QED BY <1>1, <1>2, <1>3, <1>4 DEF IInv

\* A copy whose status names another group, or another parent, is a copy still.
LEMMA StatusType ==
    ASSUME NEW o \in Object, NEW u \in Maybe(Ids)
    PROVE  /\ [o EXCEPT !.status.parent = u] \in Object
           /\ [o EXCEPT !.status.uuid = u] \in Object
           /\ [o EXCEPT !.status.uuid = u, !.status.parent = u] \in Object
BY DEF Object, Status

\* Disturbances stay within their bound.
LEMMA EventsType ==
    ASSUME IInv, NEW kind, events' = events \/ Event(kind)
    PROVE  events' \in 0..MaxEvents
BY DEF IInv, TypeOK, Event

\* A reconcile that ends keeps the invariant, were groups deleted or not.
LEMMA DoneIInv ==
    ASSUME IInv, Done, UNCHANGED <<cluster, peers, kcRealm, spent>>, events' \in 0..MaxEvents,
           kc' \in [Ids -> KcGroups \cup {Absent}],
           \A i \in Ids : kc'[i] \in {kc[i], Absent}
    PROVE  IInv'
<1> USE DEF Done, cluster, peers, IInv
<1>1. TypeOK'
  BY IdleType DEF TypeOK
<1>2. CopiesAgree(Groups, Early)' /\ GuardIsLasting(Groups)' /\ PathsAreApart'
  BY DEF CopiesAgree, GuardIsLasting, PathsAreApart, Guarded
<1>3. DeletingIsGuarded(Groups)' /\ IdsAreSpent'
  BY DEF DeletingIsGuarded, IdsAreSpent, Exists
<1>4. UnguardedIsUntracked'
  BY DEF UnguardedIsUntracked, Guarded, Live, Exists
<1>5. QED BY <1>1, <1>2, <1>3, <1>4

\* A worker that goes on and writes no object keeps the invariant, if the place it
\* comes to is one its copy may be in, and if what it makes in Keycloak, or begins to
\* track, is for a copy that is guarded.
LEMMA WorkIInv ==
    ASSUME IInv, at # "idle", at' \in Labels \ {"idle"},
           UNCHANGED <<cluster, peers, kcRealm, me, fresh>>,
           events' \in 0..MaxEvents, tries' \in 0..MaxRetries, OutcomeOK',
           mine' \in Object,
           mine' = [mine EXCEPT !.status = mine'.status],
           mine'.status.uuid \in spent' \cup {None},
           mine'.status.uuid = mine.status.uuid \/ (mine.finalizer /\ ~mine.deleting),
           kc' \in [Ids -> KcGroups \cup {Absent}],
           spent \subseteq spent', spent' \subseteq Ids,
           \A i \in Ids : kc'[i] # Absent => i \in spent' /\ kcRealm,
           \A i \in Ids : kc'[i] # Absent =>
               \/ kc[i] # Absent /\ kc'[i].cr = kc[i].cr
               \/ i \notin spent /\ kc'[i].cr = me /\ mine.finalizer /\ ~mine.deleting,
           PathsAreApart', CopiesAgree(Groups, Early)',
           at' = "unfinalize" /\ fresh => ~Live(mine.status.uuid, me)'
    PROVE  IInv'
<1> USE DEF cluster, peers, IInv
<1>0. /\ me \in Groups /\ mine \in Object /\ mine.status.uuid \in spent \cup {None}
      /\ mine'.deleting = mine.deleting /\ mine'.finalizer = mine.finalizer
  BY DEF TypeOK, IdsAreSpent, Object
<1>1. TypeOK'
  BY <1>0 DEF TypeOK
<1>2. GuardIsLasting(Groups)'
  BY <1>0 DEF GuardIsLasting, Guarded
<1>3. DeletingIsGuarded(Groups)' /\ IdsAreSpent'
  BY <1>0 DEF DeletingIsGuarded, IdsAreSpent, Exists
<1>4. ASSUME NEW i, NEW g \in Groups, i \in spent \cup {None}, ~Live(i, g)
      PROVE  ~Live(i, g)'
  BY <1>4 DEF Live, Exists, TypeOK
<1>5. UnguardedIsUntracked'
  BY <1>0, <1>4 DEF UnguardedIsUntracked, Guarded, GuardIsLasting, IdsAreSpent
<1>6. QED BY <1>1, <1>2, <1>3, <1>5
-----------------------------------------------------------------------------
(* The steps of the worker that write no object.                            *)

\* Going to write an outcome.
LEMMA ReportIInv ==
    ASSUME IInv, at # "idle", NEW o \in Outcomes, Report(o),
           UNCHANGED <<mine, cluster, keycloak, peers>>, events' \in 0..MaxEvents
    PROVE  IInv'
<1> USE DEF Report, cluster, keycloak, peers
<1>1. at' = "status" /\ at' \in Labels
  BY DEF Labels
<1>2. PathsAreApart' /\ CopiesAgree(Groups, Early)'
  BY <1>1 DEF IInv, PathsAreApart, CopiesAgree
<1>3. /\ mine \in Object /\ mine = [mine EXCEPT !.status = mine.status]
      /\ mine.status.uuid \in spent \cup {None}
  BY DEF IInv, TypeOK, IdsAreSpent, Object
<1>4. \A i \in Ids : kc[i] # Absent => i \in spent /\ kcRealm
  BY DEF IInv, IdsAreSpent, Exists
<1>5. QED
  BY <1>1, <1>2, <1>3, <1>4, IdleType, WorkIInv DEF IInv, TypeOK

\* Beginning a reconcile: the copy is the cache's.
LEMMA StartIInv ==
    ASSUME IInv, NEW g \in Groups, Start(g), UNCHANGED beyond
    PROVE  IInv'
<1> USE DEF Start, cluster, beyond, keycloak, peers, IInv
<1>1. TypeOK'
  BY DEF TypeOK, Labels
<1>2. CopiesAgree(Groups, Early)' /\ GuardIsLasting(Groups)' /\ PathsAreApart'
  BY DEF TypeOK, CopiesAgree, GuardIsLasting, PathsAreApart, Guarded
<1>3. DeletingIsGuarded(Groups)' /\ IdsAreSpent'
  BY DEF TypeOK, DeletingIsGuarded, IdsAreSpent, Exists
<1>4. UnguardedIsUntracked'
  BY DEF TypeOK, UnguardedIsUntracked, Guarded, Live, Exists
<1>5. QED BY <1>1, <1>2, <1>3, <1>4

\* Looking at the config and at the realm.
LEMMA PrepareIInv ==
    ASSUME IInv, ClientReady \/ ClientNotReady(Pending) \/ ClientFails(NoClient) \/ ValidateRealm,
           UNCHANGED <<keycloak, realm>>
    PROVE  IInv'
<1> USE DEF ClientReady, ClientNotReady, ClientFails, ValidateRealm
<1>1. /\ mine \in Object /\ mine = [mine EXCEPT !.status = mine.status]
      /\ mine.status.uuid \in spent \cup {None} /\ kc \in [Ids -> KcGroups \cup {Absent}]
      /\ at # "idle" /\ UNCHANGED <<cluster, keycloak, peers>>
  BY DEF IInv, TypeOK, IdsAreSpent, Object, peers
<1>. events' \in 0..MaxEvents
  BY EventsType
<1>2. \A i \in Ids : kc[i] # Absent => i \in spent /\ kcRealm
  BY DEF IInv, IdsAreSpent, Exists
<1>3. CASE Done
  BY <1>1, <1>3, DoneIInv DEF cluster, keycloak, peers
<1>4. ASSUME NEW o \in Outcomes, Report(o), UNCHANGED mine
      PROVE  IInv'
  BY <1>1, <1>4, ReportIInv
<1>5. CASE ClientReady \/ (ValidateRealm /\ Goto("owner"))
  <2> USE DEF Goto
  <2>1. at' \in Labels \ {"idle"} /\ at' \notin {"unfinalize", "status"}
    BY <1>5 DEF Labels
  <2>2. UNCHANGED <<mine, me, fresh, outcome, tries>>
    BY <1>5
  <2>3. OutcomeOK'
    BY <2>1, <2>2 DEF IInv, TypeOK
  <2>4. PathsAreApart'
    BY <1>5, <2>2 DEF IInv, PathsAreApart
  <2>5. CopiesAgree(Groups, Early)'
    BY <1>1, <1>5, <2>2 DEF IInv, CopiesAgree, cluster
  <2>6. QED
    BY <1>1, <1>2, <2>1, <2>2, <2>3, <2>4, <2>5, WorkIInv DEF IInv, TypeOK, keycloak
<1>6. QED
  BY <1>3, <1>4, <1>5, OutcomeType DEF Messages

\* What holds of the copy between the finalizer and the status write.
LEMMA CopyFacts ==
    ASSUME IInv, at # "idle"
    PROVE  /\ me \in Groups
           /\ mine \in Object
           /\ mine = [mine EXCEPT !.status = mine.status]
           /\ mine.status.uuid \in spent \cup {None}
           /\ mine.status.uuid \in Maybe(Ids)
           /\ mine.status.parent \in Maybe(Ids)
           /\ kc \in [Ids -> KcGroups \cup {Absent}]
           /\ spent \subseteq Ids
           /\ \A i \in Ids : kc[i] # Absent => i \in spent /\ kcRealm
           /\ OutcomeOK /\ tries \in 0..MaxRetries
BY DEF IInv, TypeOK, IdsAreSpent, Object, Status, Exists

\* Between the owner reference and the status write, the worker goes from place to
\* place with a copy that is guarded, and only its status changes.
LEMMA CoreIInv ==
    ASSUME IInv,
           at \in {"owner", "parent", "resolve", "fetch", "update", "create", "store"},
           at' \in {"parent", "resolve", "fetch", "update", "create", "store", "status"},
           UNCHANGED <<cluster, peers, kcRealm, me, fresh>>,
           events' \in 0..MaxEvents, tries' \in 0..MaxRetries, OutcomeOK',
           mine' \in Object,
           mine' = [mine EXCEPT !.status = mine'.status],
           mine'.status.uuid \in spent' \cup {None},
           kc' \in [Ids -> KcGroups \cup {Absent}],
           spent \subseteq spent', spent' \subseteq Ids,
           \A i \in Ids : kc'[i] # Absent => i \in spent' /\ kcRealm,
           \A i \in Ids : kc'[i] # Absent =>
               \/ kc[i] # Absent /\ kc'[i].cr = kc[i].cr
               \/ i \notin spent /\ kc'[i].cr = me
    PROVE  IInv'
<1>1. at # "idle" /\ mine.finalizer /\ ~mine.deleting
  BY DEF IInv, PathsAreApart
<1>2. /\ mine \in Object /\ me \in Groups
      /\ mine'.deleting = mine.deleting /\ mine'.finalizer = mine.finalizer
      /\ mine'.spec = mine.spec
  BY <1>1, CopyFacts DEF Object
<1>3. at' \in Labels \ {"idle"} /\ at' # "unfinalize"
  BY DEF Labels
<1>4. PathsAreApart'
  BY <1>1, <1>2 DEF PathsAreApart
<1>5. CopiesAgree(Groups, Early)'
  BY <1>2 DEF IInv, CopiesAgree, cluster
<1>6. QED BY <1>1, <1>2, <1>3, <1>4, <1>5, WorkIInv

\* Resolving the parent.
LEMMA ParentIInv ==
    ASSUME IInv, KeepParent \/ ResolveParent \/ ResolveFails
    PROVE  IInv'
<1>1. at \in {"parent", "resolve"} /\ at # "idle" /\ UNCHANGED <<cluster, keycloak, peers, me, fresh>>
  BY DEF KeepParent, ResolveParent, ResolveFails, Goto, Fail, Report
<1>2. events' \in 0..MaxEvents
  BY EventsType DEF KeepParent, ResolveParent, ResolveFails
<1>3. /\ at' \in {"fetch", "resolve", "status"}
      /\ tries' \in 0..MaxRetries /\ OutcomeOK'
  BY <1>1, CopyFacts, OutcomeType, IdleType DEF KeepParent, ResolveParent, ResolveFails,
     Goto, Fail, Report, Messages
<1>4. \E u \in Maybe(Ids) : mine' \in {mine, [mine EXCEPT !.status.parent = u]}
  <2>1. CASE KeepParent
    BY <2>1 DEF KeepParent, WithParent, Maybe
  <2>2. CASE ResolveParent /\ UNCHANGED mine
    BY <2>2 DEF Maybe
  <2>3. CASE \E u \in Ids : WithParent(u)
    BY <2>3 DEF WithParent, Maybe
  <2>4. CASE ResolveFails
    BY <2>4 DEF ResolveFails, Maybe
  <2>5. QED BY <2>1, <2>2, <2>3, <2>4 DEF ResolveParent, Exists
<1>5. mine' \in Object /\ mine' = [mine EXCEPT !.status = mine'.status]
      /\ mine'.status.uuid = mine.status.uuid
  <2>1. PICK u \in Maybe(Ids) : mine' \in {mine, [mine EXCEPT !.status.parent = u]}
    BY <1>4
  <2>2. mine \in Object
    BY <1>1, CopyFacts
  <2>3. CASE mine' = mine
    BY <2>2, <2>3 DEF Object
  <2>4. CASE mine' = [mine EXCEPT !.status.parent = u]
    <3>1. mine' \in Object
      BY <2>2, <2>4, StatusType
    <3>2. QED BY <2>2, <2>4, <3>1 DEF Object, Status
  <2>5. QED BY <2>1, <2>3, <2>4
<1>6. QED
  BY <1>1, <1>2, <1>3, <1>5, CopyFacts, CoreIInv DEF keycloak

\* Reading the group the status names.
LEMMA FetchIInv ==
    ASSUME IInv, FetchGroup \/ FetchFails
    PROVE  IInv'
<1> USE DEF FetchGroup, FetchFails
<1>1. at = "fetch" /\ at # "idle" /\ UNCHANGED <<cluster, keycloak, peers, me, fresh>>
  BY DEF Goto, Fail, Succeed, Report
<1>2. events' \in 0..MaxEvents
  BY EventsType
<1>3. /\ at' \in {"create", "update", "status"}
      /\ tries' \in 0..MaxRetries /\ OutcomeOK'
  BY <1>1, CopyFacts, OutcomeType, IdleType DEF Goto, Fail, Succeed, Report, Messages
<1>4. mine' = mine \/ ClearGroupState
  OBVIOUS
<1>5. /\ mine' \in Object /\ mine' = [mine EXCEPT !.status = mine'.status]
      /\ mine'.status.uuid \in {mine.status.uuid, None}
  <2>1. mine \in Object /\ None \in Maybe(Ids)
    BY <1>1, CopyFacts DEF Maybe
  <2>2. CASE mine' = mine
    BY <2>1, <2>2 DEF Object
  <2>3. CASE ClearGroupState
    <3>1. mine' \in Object
      BY <2>3 DEF ClearGroupState, IInv, TypeOK, Object, Status, Maybe
    <3>2. QED BY <2>1, <2>3, <3>1 DEF ClearGroupState, Object, Status
  <2>4. QED BY <1>4, <2>2, <2>3
<1>6. QED
  BY <1>1, <1>2, <1>3, <1>5, CopyFacts, CoreIInv DEF keycloak

\* An update changes the name and the attributes of one group, never its maker.
LEMMA UpdateFacts ==
    ASSUME IInv, UpdateGroup
    PROVE  /\ kc' \in [Ids -> KcGroups \cup {Absent}]
           /\ \A i \in Ids : kc'[i] # Absent => kc[i] # Absent /\ kc'[i].cr = kc[i].cr
<1>1. at # "idle"
  BY DEF UpdateGroup
<1>2. CASE kc' = kc
  BY <1>1, <1>2, CopyFacts
<1>3. CASE Exists(mine.status.uuid) /\ kc' = Updated(mine.status.uuid)
  <2> DEFINE u == mine.status.uuid
             group == [kc[u] EXCEPT !.name = mine.spec.name, !.attrs = mine.spec.attrs]
  <2>1. u \in Ids /\ kc[u] \in KcGroups /\ kc[u] # Absent
    BY <1>1, <1>3, CopyFacts DEF Exists
  <2>2. mine.spec \in SpecSet
    BY <1>1, CopyFacts DEF Object
  <2>3. group \in KcGroups /\ group.cr = kc[u].cr
    BY <2>1, <2>2 DEF KcGroups
  <2>4. kc' = [kc EXCEPT ![u] = group]
    BY <1>1, <1>3, <2>1, CopyFacts DEF Updated, KcGroups
  <2>5. QED BY <1>1, <2>1, <2>3, <2>4, CopyFacts
<1>4. QED BY <1>2, <1>3 DEF UpdateGroup

\* Updating the group.
LEMMA UpdateIInv ==
    ASSUME IInv, UpdateGroup
    PROVE  IInv'
<1>1. at = "update" /\ at # "idle" /\ UNCHANGED <<cluster, peers, kcRealm, spent, mine, me, fresh>>
  BY DEF UpdateGroup, Fail, Succeed, Report
<1>2. events' \in 0..MaxEvents
  BY EventsType DEF UpdateGroup
<1>3. at' = "status" /\ tries' \in 0..MaxRetries /\ OutcomeOK'
  BY OutcomeType, IdleType DEF UpdateGroup, Fail, Succeed, Report, Messages
<1>4. QED
  BY <1>1, <1>2, <1>3, UpdateFacts, CopyFacts, CoreIInv

\* Creating the group, with an id never used before.
LEMMA CreateIInv ==
    ASSUME IInv, NEW i \in Ids, CreateGroup(i)
    PROVE  IInv'
<1>1. at = "create" /\ at # "idle" /\ UNCHANGED <<cluster, peers, kcRealm, mine, me, fresh>>
  BY DEF CreateGroup, Unused, Fail, Goto, Report
<1>2. events' \in 0..MaxEvents
  BY EventsType DEF CreateGroup, Unused
<1>3. at' \in {"store", "status"} /\ tries' \in 0..MaxRetries /\ OutcomeOK'
  BY <1>1, CopyFacts, OutcomeType, IdleType DEF CreateGroup, Unused, Fail, Goto, Report, Messages
<1>4. NewGroup \in KcGroups /\ NewGroup.cr = me
  BY <1>1, CopyFacts DEF NewGroup, KcGroups, Object, Status, Maybe
<1>5. /\ kc' = [kc EXCEPT ![i] = NewGroup] /\ spent' = spent \cup {i}
      /\ i \notin spent /\ kcRealm
  BY DEF CreateGroup, Unused
<1>6. QED
  BY <1>1, <1>2, <1>3, <1>4, <1>5, CopyFacts, CoreIInv

\* Failing to create it, and looking it up by its name.
LEMMA StoreIInv ==
    ASSUME IInv, CreateFails \/ StoreGroupUUID
    PROVE  IInv'
<1> USE DEF CreateFails, StoreGroupUUID
<1>1. /\ at \in {"create", "store"} /\ at # "idle"
      /\ UNCHANGED <<cluster, keycloak, peers, me, fresh>>
  BY DEF Fail, Succeed, Report
<1>2. events' \in 0..MaxEvents
  BY EventsType
<1>3. at' = "status" /\ tries' \in 0..MaxRetries /\ OutcomeOK'
  BY <1>1, OutcomeType, IdleType DEF Fail, Succeed, Report, Messages
<1>4. /\ mine' \in Object /\ mine' = [mine EXCEPT !.status = mine'.status]
      /\ mine'.status.uuid \in spent \cup {None}
  <2>1. CASE mine' = mine
    BY <1>1, <2>1, CopyFacts DEF Object
  <2>2. ASSUME NEW i \in Ids, Exists(i), mine' = [mine EXCEPT !.status.uuid = i]
        PROVE  /\ mine' \in Object /\ mine' = [mine EXCEPT !.status = mine'.status]
               /\ mine'.status.uuid \in spent \cup {None}
    <3>1. mine' \in Object /\ i \in spent
      BY <1>1, <2>2, CopyFacts, StatusType DEF Maybe, Exists
    <3>2. QED BY <1>1, <2>2, <3>1, CopyFacts DEF Object, Status
  <2>3. QED BY <2>1, <2>2
<1>5. QED
  BY <1>1, <1>2, <1>3, <1>4, CopyFacts, CoreIInv DEF keycloak
-----------------------------------------------------------------------------
(* The steps of the worker that write objects.                              *)

\* The API server accepts the worker's copy, with the finalizer on it.
LEMMA WriteIInv ==
    ASSUME IInv, at \in {"finalizer", "owner"}, NEW o \in Object, Written(o),
           o.finalizer, ~o.deleting, o.status = mine.status,
           at' \in {"realm", "parent"},
           UNCHANGED <<keycloak, peers, events, me, fresh, outcome, tries>>
    PROVE  IInv'
<1> USE DEF Written, keycloak, peers, IInv
<1>0. me \in Groups /\ at # "idle" /\ at' \in Labels \ {"idle", "client", "delete", "unfinalize"}
  BY DEF TypeOK, Labels
<1>1. TypeOK'
  BY <1>0 DEF TypeOK
<1>2. CopiesAgree(Groups, Early)'
  BY <1>0 DEF CopiesAgree, TypeOK
<1>3. GuardIsLasting(Groups)' /\ PathsAreApart'
  BY <1>0 DEF GuardIsLasting, PathsAreApart, Guarded, TypeOK
<1>4. DeletingIsGuarded(Groups)' /\ IdsAreSpent'
  BY <1>0 DEF DeletingIsGuarded, IdsAreSpent, Exists, TypeOK
<1>5. \A g \in Groups : Guarded(g) => Guarded(g)'
  BY <1>0 DEF Guarded, TypeOK
<1>6. \A g \in Groups : ~Guarded(g)' /\ obj'[g] # Absent => obj'[g] = obj[g]
  BY <1>0 DEF Guarded, TypeOK
<1>7. UnguardedIsUntracked'
  BY <1>0, <1>5, <1>6 DEF UnguardedIsUntracked, Live, Exists
<1>8. QED BY <1>1, <1>2, <1>3, <1>4, <1>7

\* Adding the finalizer.
LEMMA EnsureFinalizerIInv ==
    ASSUME IInv, EnsureFinalizer("realm"), UNCHANGED <<keycloak, realm>>
    PROVE  IInv'
<1>1. /\ at = "finalizer" /\ at # "idle" /\ ~mine.deleting
      /\ UNCHANGED <<keycloak, peers, events>> /\ events \in 0..MaxEvents
  BY DEF EnsureFinalizer, IInv, PathsAreApart, TypeOK, peers
<1>2. CASE Done /\ UNCHANGED cluster
  BY <1>1, <1>2, DoneIInv, CopyFacts DEF keycloak
<1>3. CASE mine.finalizer /\ Goto("realm") /\ UNCHANGED <<mine, cluster>>
  <2>1. at' = "realm" /\ at' \in Labels \ {"idle"} /\ UNCHANGED <<me, fresh, outcome, tries>>
    BY <1>3 DEF Goto, Labels
  <2>2. PathsAreApart'
    BY <1>1, <1>3, <2>1 DEF PathsAreApart
  <2>3. CopiesAgree(Groups, Early)'
    BY <1>1, <1>3, <2>1 DEF IInv, CopiesAgree, cluster
  <2>4. QED
    BY <1>1, <1>3, <2>1, <2>2, <2>3, CopyFacts, WorkIInv DEF keycloak
<1>4. CASE Written([mine EXCEPT !.finalizer = TRUE]) /\ Goto("realm")
  <2> DEFINE o == [mine EXCEPT !.finalizer = TRUE]
  <2>1. o \in Object /\ o.finalizer /\ ~o.deleting /\ o.status = mine.status
    BY <1>1, CopyFacts DEF Object
  <2>2. QED
    BY <1>1, <1>4, <2>1, WriteIInv DEF Goto
<1>5. QED BY <1>2, <1>3, <1>4 DEF EnsureFinalizer

\* Adding the owner reference.
LEMMA OwnerIInv ==
    ASSUME IInv, SetOwnerReference
    PROVE  IInv'
<1>1. /\ at = "owner" /\ at # "idle" /\ ~mine.deleting /\ mine.finalizer
      /\ UNCHANGED <<keycloak, peers, events>> /\ events \in 0..MaxEvents
  BY DEF SetOwnerReference, IInv, PathsAreApart, TypeOK
<1>2. CASE Fail("owner") /\ UNCHANGED <<mine, cluster>>
  <2>1. Outcome(FALSE, TRUE, "owner") \in Outcomes
    BY OutcomeType DEF Messages
  <2>2. QED BY <1>1, <1>2, <2>1, ReportIInv DEF Fail
<1>3. CASE Goto("parent") /\ UNCHANGED <<mine, cluster>>
  <2>1. at' = "parent" /\ UNCHANGED <<me, fresh, outcome, tries>>
    BY <1>3 DEF Goto
  <2>2. QED
    BY <1>1, <1>3, <2>1, CopyFacts, CoreIInv DEF keycloak
<1>4. CASE Written([mine EXCEPT !.owned = TRUE]) /\ Goto("parent")
  <2> DEFINE o == [mine EXCEPT !.owned = TRUE]
  <2>1. o \in Object /\ o.finalizer /\ ~o.deleting /\ o.status = mine.status
    BY <1>1, CopyFacts DEF Object
  <2>2. QED
    BY <1>1, <1>4, <2>1, WriteIInv DEF Goto
<1>5. QED BY <1>2, <1>3, <1>4 DEF SetOwnerReference

\* The status applied to a copy changes nothing else, and names no id but one of the two.
LEMMA AppliedFacts ==
    ASSUME IInv, at = "status", NEW o \in Object
    PROVE  /\ StatusApplied(o) \in Object
           /\ StatusApplied(o).deleting = o.deleting
           /\ StatusApplied(o).finalizer = o.finalizer
           /\ StatusApplied(o).spec = o.spec
           /\ StatusApplied(o).status.uuid =
                IF mine.status.uuid # None THEN mine.status.uuid ELSE o.status.uuid
BY CopyFacts DEF StatusApplied, Keep, Object, Status, Outcomes, Maybe

\* Writing the status, whatever copy it comes from, or giving up.
LEMMA StatusIInv ==
    ASSUME IInv,
           StatusSkipped \/ StatusWritten \/ StatusConflict \/ (StatusGone /\ UNCHANGED beyond)
    PROVE  IInv'
<1> USE DEF StatusAccepted, StatusRefused, StatusGone, beyond
<1>1. /\ at = "status" /\ at # "idle" /\ UNCHANGED <<keycloak, peers, events>>
      /\ events \in 0..MaxEvents
  BY DEF StatusSkipped, StatusWritten, StatusConflict, IInv, TypeOK, keycloak, peers
<1>2. CASE Done /\ UNCHANGED cluster
  BY <1>1, <1>2, CopyFacts, DoneIInv DEF keycloak
<1>3. CASE StatusConflict /\ ~Done
  <2>1. /\ UNCHANGED <<at, me, mine, fresh, outcome, cluster>> /\ tries' \in 0..MaxRetries
    BY <1>1, <1>3, CopyFacts DEF StatusConflict
  <2>2. PathsAreApart' /\ CopiesAgree(Groups, Early)' /\ at' \in Labels \ {"idle"}
    BY <1>1, <2>1 DEF IInv, PathsAreApart, CopiesAgree, cluster, Labels
  <2>3. QED
    BY <1>1, <2>1, <2>2, CopyFacts, WorkIInv DEF keycloak
<1>4. CASE StatusWritten
  <2> USE DEF Done, keycloak, peers
  <2> DEFINE o == StatusApplied(cache[me])
  <2>0. /\ me \in Groups /\ obj[me] = cache[me] /\ obj[me] # Absent /\ obj[me] \in Object
        /\ o \in Object /\ o.deleting = obj[me].deleting /\ o.finalizer = obj[me].finalizer
        /\ o.status.uuid \in {mine.status.uuid, obj[me].status.uuid}
        /\ o.status.uuid = mine.status.uuid \/ mine.status.uuid = None
    BY <1>1, <1>4, AppliedFacts DEF StatusWritten, IInv, TypeOK, CopiesAgree
  <2>1. /\ obj' = [obj EXCEPT ![me] = o] /\ stale' = stale \cup {me} /\ cache' = cache /\ Done
    BY <1>4 DEF StatusWritten
  <2>2. TypeOK'
    BY <1>1, <2>0, <2>1, IdleType DEF IInv, TypeOK
  <2>3. CopiesAgree(Groups, Early)' /\ PathsAreApart'
    BY <2>1 DEF IInv, TypeOK, CopiesAgree, PathsAreApart
  <2>4. \A g \in Groups : Guarded(g)' = Guarded(g)
    BY <2>0, <2>1 DEF IInv, TypeOK, Guarded
  <2>5. GuardIsLasting(Groups)' /\ DeletingIsGuarded(Groups)'
    BY <2>0, <2>1, <2>4 DEF IInv, TypeOK, GuardIsLasting, DeletingIsGuarded
  <2>6. IdsAreSpent'
    BY <1>1, <2>0, <2>1 DEF IInv, TypeOK, IdsAreSpent, Exists
  <2>7. ~Guarded(me) => ~Live(o.status.uuid, me)
    BY <1>1, <2>0 DEF IInv, UnguardedIsUntracked, GuardIsLasting
  <2>8. UnguardedIsUntracked'
    BY <1>1, <2>0, <2>1, <2>4, <2>7 DEF IInv, TypeOK, UnguardedIsUntracked, Live, Exists
  <2>9. QED BY <2>2, <2>3, <2>5, <2>6, <2>8 DEF IInv
<1>5. QED BY <1>2, <1>3, <1>4 DEF StatusSkipped, StatusConflict

\* A deletion in Keycloak takes the group named, and makes none.
LEMMA WithoutFacts ==
    ASSUME kc \in [Ids -> KcGroups \cup {Absent}], NEW u \in Ids
    PROVE  /\ Without(u) \in [Ids -> KcGroups \cup {Absent}]
           /\ \A i \in Ids : Without(u)[i] \in {kc[i], Absent}
           /\ Without(u)[u] = Absent
<1>1. u \in Subtree(u)
  BY DEF Subtree
<1>2. QED BY <1>1 DEF Without

\* Deleting the group in Keycloak.
LEMMA DeleteIInv ==
    ASSUME IInv, DeleteGroup \/ DeleteFails
    PROVE  IInv'
<1>1. /\ at = "delete" /\ at # "idle" /\ mine.deleting
      /\ UNCHANGED <<cluster, kcRealm, spent, peers>>
  BY DEF DeleteGroup, DeleteFails, IInv, PathsAreApart, keycloak
<1>2. events' \in 0..MaxEvents
  BY EventsType DEF DeleteGroup, DeleteFails
<1>3. /\ kc' \in [Ids -> KcGroups \cup {Absent}]
      /\ \A i \in Ids : kc'[i] \in {kc[i], Absent}
  BY <1>1, CopyFacts, WithoutFacts DEF DeleteGroup, DeleteFails, Exists, keycloak
<1>4. CASE Done
  BY <1>1, <1>2, <1>3, <1>4, DoneIInv
<1>5. CASE DeleteGroup /\ Goto("unfinalize")
  <2>1. /\ at' = "unfinalize" /\ at' \in Labels \ {"idle"}
        /\ UNCHANGED <<mine, me, fresh, outcome, tries>>
    BY <1>5 DEF Goto, DeleteGroup, Done, Labels
  <2>2. PathsAreApart' /\ CopiesAgree(Groups, Early)'
    BY <1>1, <2>1 DEF IInv, PathsAreApart, CopiesAgree, cluster
  <2>3. ~Exists(mine.status.uuid)'
    <3>1. CASE realm = "absent"
      BY <1>1, <1>3, <2>1, <3>1 DEF IInv, IdsAreSpent, Exists
    <3>2. CASE kc' = kc /\ (mine.status.uuid = None \/ ~Exists(mine.status.uuid))
      BY <2>1, <3>2 DEF Exists
    <3>3. CASE kc' = Without(mine.status.uuid) /\ Exists(mine.status.uuid)
      BY <1>1, <2>1, <3>3, CopyFacts, WithoutFacts DEF Exists
    <3>4. QED BY <1>5, <3>1, <3>2, <3>3 DEF DeleteGroup
  <2>4. ~Live(mine.status.uuid, me)'
    BY <2>1, <2>3 DEF Live
  <2>5. \A i \in Ids : kc'[i] # Absent => kc[i] # Absent /\ kc'[i].cr = kc[i].cr
    BY <1>3
  <2>6. QED
    BY <1>1, <1>2, <1>3, <2>1, <2>2, <2>4, <2>5, CopyFacts, WorkIInv
<1>6. QED BY <1>4, <1>5 DEF DeleteGroup, DeleteFails

\* Removing the finalizer, and with it the object.
LEMMA RemoveFinalizerIInv ==
    ASSUME IInv, RemoveFinalizer, UNCHANGED <<keycloak, realm>>
    PROVE  IInv'
<1>1. /\ at = "unfinalize" /\ at # "idle" /\ mine.deleting /\ Done
      /\ UNCHANGED <<keycloak, peers, events>> /\ events \in 0..MaxEvents
  BY DEF RemoveFinalizer, IInv, PathsAreApart, TypeOK, peers
<1>2. CASE UNCHANGED cluster
  BY <1>1, <1>2, CopyFacts, DoneIInv DEF keycloak
<1>3. CASE /\ fresh /\ obj' = [obj EXCEPT ![me] = Absent]
           /\ stale' = stale \cup {me} /\ cache' = cache
  <2> USE DEF Done, keycloak, peers
  <2>1. /\ me \in Groups /\ obj[me] = mine /\ cache[me] = mine /\ mine.deleting
        /\ ~Live(mine.status.uuid, me)
    BY <1>1, <1>3 DEF IInv, TypeOK, CopiesAgree, UnguardedIsUntracked
  <2>2. TypeOK'
    BY <1>1, <1>3, <2>1, IdleType DEF IInv, TypeOK
  <2>3. CopiesAgree(Groups, Early)' /\ PathsAreApart'
    BY <1>1, <1>3 DEF IInv, TypeOK, CopiesAgree, PathsAreApart
  <2>4. GuardIsLasting(Groups)' /\ DeletingIsGuarded(Groups)'
    BY <1>1, <1>3, <2>1 DEF IInv, TypeOK, Guarded, GuardIsLasting, DeletingIsGuarded
  <2>5. IdsAreSpent'
    BY <1>1, <1>3, <2>1 DEF IInv, TypeOK, IdsAreSpent, Exists
  <2>6. UnguardedIsUntracked'
    BY <1>1, <1>3, <2>1 DEF IInv, TypeOK, UnguardedIsUntracked, Guarded, Live, Exists
  <2>7. QED BY <2>2, <2>3, <2>4, <2>5, <2>6 DEF IInv
<1>4. QED BY <1>2, <1>3 DEF RemoveFinalizer
-----------------------------------------------------------------------------
(* The steps of everyone else.                                              *)

\* A write by another client of the API server that adds and removes no finalizer.
LEMMA TouchedIInv ==
    ASSUME IInv, NEW g \in Groups, NEW o \in Object \cup {Absent}, Touched(g, o),
           UNCHANGED <<keycloak, realm>>, events' \in 0..MaxEvents,
           Guarded(g) <=> o # Absent /\ o.finalizer,
           o # Absent => /\ o.deleting => o.finalizer
                         /\ o.status.uuid \in spent \cup {None}
                         /\ ~o.finalizer => ~Live(o.status.uuid, g)
    PROVE  IInv'
<1> USE DEF Touched, keycloak
<1>1. TypeOK'
  BY DEF IInv, TypeOK
<1>2. CopiesAgree(Groups, Early)' /\ PathsAreApart'
  BY DEF IInv, TypeOK, CopiesAgree, PathsAreApart
<1>3. \A h \in Groups : Guarded(h)' = Guarded(h)
  BY DEF IInv, TypeOK, Guarded
<1>4. GuardIsLasting(Groups)' /\ DeletingIsGuarded(Groups)'
  BY <1>3 DEF IInv, TypeOK, GuardIsLasting, DeletingIsGuarded
<1>5. IdsAreSpent'
  BY DEF IInv, TypeOK, IdsAreSpent, Exists
<1>6. UnguardedIsUntracked'
  BY <1>3 DEF IInv, TypeOK, UnguardedIsUntracked, Live, Exists
<1>7. QED BY <1>1, <1>2, <1>4, <1>5, <1>6 DEF IInv

\* The user.
LEMMA UserIInv ==
    ASSUME IInv, NEW g \in Groups, User(g), UNCHANGED <<keycloak, realm>>
    PROVE  IInv'
<1>1. events' \in 0..MaxEvents
  BY EventsType DEF User, Create, Edit, Delete
<1>2. ASSUME NEW s \in Specs[g], Create(g, NewObject(s)) PROVE IInv'
  <2>1. Touched(g, NewObject(s)) /\ obj[g] = Absent
    BY <1>2 DEF Create
  <2>2. NewObject(s) \in Object
    BY DEF NewObject, Object, Status, SpecSet, Maybe, Messages
  <2>3. QED
    BY <1>1, <2>1, <2>2, TouchedIInv DEF NewObject, Guarded, Live, Exists
<1>3. ASSUME NEW s \in Specs[g], Edit(g, s) PROVE IInv'
  <2>1. Touched(g, [obj[g] EXCEPT !.spec = s])
    BY <1>3 DEF Edit
  <2>2. obj[g] # Absent /\ obj[g] \in Object /\ s \in SpecSet
    BY <1>3 DEF Edit, IInv, TypeOK, SpecSet
  <2> DEFINE o == [obj[g] EXCEPT !.spec = s]
  <2>3. /\ o \in Object /\ o.deleting = obj[g].deleting /\ o.finalizer = obj[g].finalizer
        /\ o.status = obj[g].status
    BY <2>2 DEF Object
  <2>4. QED
    BY <1>1, <2>1, <2>2, <2>3, TouchedIInv DEF IInv, DeletingIsGuarded, IdsAreSpent,
       UnguardedIsUntracked, Guarded
<1>4. CASE Delete(g)
  <2>1. obj[g] # Absent /\ obj[g] \in Object
    BY <1>4 DEF Delete, IInv, TypeOK
  <2>2. CASE obj[g].finalizer
    <3> DEFINE o == [obj[g] EXCEPT !.deleting = TRUE]
    <3>1. /\ o \in Object /\ o.finalizer /\ o.status = obj[g].status
      BY <2>1, <2>2 DEF Object
    <3>2. QED
      BY <1>1, <1>4, <2>1, <2>2, <3>1, TouchedIInv DEF Delete, IInv, IdsAreSpent, Guarded
  <2>3. CASE ~obj[g].finalizer
    BY <1>1, <1>4, <2>1, <2>3, TouchedIInv DEF Delete, Guarded
  <2>4. QED BY <2>2, <2>3
<1>5. QED BY <1>2, <1>3, <1>4 DEF User

\* The informer.
LEMMA SyncIInv ==
    ASSUME IInv, NEW g \in Groups, Sync(g), UNCHANGED <<keycloak, realm>>
    PROVE  IInv'
<1> USE DEF Sync, keycloak, worker
<1>1. TypeOK'
  BY DEF IInv, TypeOK
<1>2. CopiesAgree(Groups, Early)' /\ PathsAreApart'
  BY DEF IInv, TypeOK, CopiesAgree, PathsAreApart
<1>3. GuardIsLasting(Groups)' /\ DeletingIsGuarded(Groups)'
  BY DEF IInv, TypeOK, Guarded, GuardIsLasting, DeletingIsGuarded
<1>4. IdsAreSpent'
  BY DEF IInv, TypeOK, IdsAreSpent, Exists
<1>5. UnguardedIsUntracked'
  BY DEF IInv, TypeOK, UnguardedIsUntracked, DeletingIsGuarded, Guarded, Live, Exists
<1>6. QED BY <1>1, <1>2, <1>3, <1>4, <1>5 DEF IInv

\* What goes on in Keycloak and with the config and the realm leaves the objects and
\* their copies alone, and makes no group for a resource.
LEMMA ElsewhereIInv ==
    ASSUME IInv, UNCHANGED <<cluster, worker>>, events' \in 0..MaxEvents,
           config' \in {"ready", "notReady", "absent"},
           realm' \in {"ready", "notReady", "absent"}, kcRealm' \in BOOLEAN,
           kc' \in [Ids -> KcGroups \cup {Absent}],
           spent \subseteq spent', spent' \subseteq Ids,
           \A i \in Ids : kc'[i] # Absent => /\ i \in spent' /\ kcRealm'
                                             /\ \/ kc[i] # Absent /\ kc'[i].cr = kc[i].cr
                                                \/ kc'[i].cr = None,
           realm' = "absent" => ~kcRealm'
    PROVE  IInv'
<1> USE DEF cluster, worker
<1>1. TypeOK'
  BY DEF IInv, TypeOK
<1>2. CopiesAgree(Groups, Early)' /\ PathsAreApart'
  BY DEF IInv, CopiesAgree, PathsAreApart
<1>3. GuardIsLasting(Groups)' /\ DeletingIsGuarded(Groups)'
  BY DEF IInv, Guarded, GuardIsLasting, DeletingIsGuarded
<1>4. IdsAreSpent'
  BY DEF IInv, IdsAreSpent, Exists
<1>5. ASSUME NEW i, NEW g \in Groups, ~Live(i, g) PROVE ~Live(i, g)'
  BY <1>5 DEF Live, Exists
<1>6. UnguardedIsUntracked'
  BY <1>5 DEF IInv, TypeOK, UnguardedIsUntracked, Guarded
<1>7. QED BY <1>1, <1>2, <1>3, <1>4, <1>6 DEF IInv

\* What Keycloak holds: every group has an id given out, in a realm that is there.
LEMMA KeycloakFacts ==
    ASSUME IInv
    PROVE  /\ kc \in [Ids -> KcGroups \cup {Absent}]
           /\ spent \subseteq Ids /\ kcRealm \in BOOLEAN
           /\ config \in {"ready", "notReady", "absent"}
           /\ realm \in {"ready", "notReady", "absent"}
           /\ realm = "absent" => ~kcRealm
           /\ \A i \in Ids : kc[i] # Absent => i \in spent /\ kcRealm
BY DEF IInv, TypeOK, IdsAreSpent, Exists

\* The config and the realm.
LEMMA PeersIInv ==
    ASSUME IInv, RealmChanges \/ (ConfigChanges /\ UNCHANGED <<keycloak, realm>>)
    PROVE  IInv'
<1>1. events' \in 0..MaxEvents
  BY EventsType DEF ConfigChanges, RealmChanges
<1>2. CASE ConfigChanges /\ UNCHANGED <<keycloak, realm>>
  BY <1>1, <1>2, KeycloakFacts, ElsewhereIInv DEF ConfigChanges, keycloak, cluster
<1>3. CASE RealmChanges
  <2>1. UNCHANGED <<config, cluster, worker>>
    BY <1>3 DEF RealmChanges
  <2>2. CASE UNCHANGED <<kc, spent>> /\ (kcRealm' = kcRealm \/ kcRealm' = TRUE)
    <3>1. realm' \in {"ready", "notReady", "absent"} /\ (realm' = "absent" => ~kcRealm')
      BY <1>3, KeycloakFacts DEF RealmChanges, keycloak
    <3>2. \A i \in Ids : kc'[i] # Absent => i \in spent' /\ kcRealm'
      BY <2>2, KeycloakFacts
    <3>3. QED
      BY <1>1, <2>1, <2>2, <3>1, <3>2, KeycloakFacts, ElsewhereIInv
  <2>3. CASE kc' = [i \in Ids |-> Absent] /\ kcRealm' = FALSE /\ UNCHANGED <<realm, spent>>
    BY <1>1, <2>1, <2>3, KeycloakFacts, ElsewhereIInv
  <2>4. QED BY <1>3, <2>2, <2>3 DEF RealmChanges, keycloak
<1>4. QED BY <1>2, <1>3

\* The administrator.
LEMMA ConsoleIInv ==
    ASSUME IInv, NEW i \in Ids, ConsoleDeletes(i) \/ ConsoleCreates(i) \/ ConsoleEdits(i)
    PROVE  IInv'
<1>1. events' \in 0..MaxEvents
  BY EventsType DEF ConsoleDeletes, ConsoleCreates, ConsoleEdits
<1>2. UNCHANGED <<cluster, worker, kcRealm, peers>>
  BY DEF ConsoleDeletes, ConsoleCreates, ConsoleEdits
<1>3. CASE ConsoleDeletes(i)
  BY <1>1, <1>2, <1>3, KeycloakFacts, WithoutFacts, ElsewhereIInv DEF ConsoleDeletes, peers
<1>4. CASE ConsoleCreates(i)
  <2>1. PICK s \in SpecSet, p \in Ids \cup {None} :
          kc' = [kc EXCEPT ![i] = [name |-> s.name, parent |-> p, attrs |-> s.attrs, cr |-> None]]
    BY <1>4 DEF ConsoleCreates, Unused, SpecSet
  <2> DEFINE group == [name |-> s.name, parent |-> p, attrs |-> s.attrs, cr |-> None]
  <2>2. group \in KcGroups /\ group.cr = None
    BY DEF KcGroups, SpecSet, Maybe
  <2>3. kcRealm /\ spent' = spent \cup {i}
    BY <1>4 DEF ConsoleCreates, Unused
  <2>4. QED
    BY <1>1, <1>2, <2>1, <2>2, <2>3, KeycloakFacts, ElsewhereIInv DEF peers
<1>5. CASE ConsoleEdits(i)
  <2>1. PICK s \in SpecSet : kc' = [kc EXCEPT ![i].attrs = s.attrs]
    BY <1>5 DEF ConsoleEdits, SpecSet
  <2>2. kc[i] \in KcGroups /\ kc[i] # Absent /\ spent' = spent
    BY <1>5, KeycloakFacts DEF ConsoleEdits, Exists
  <2> DEFINE group == [kc[i] EXCEPT !.attrs = s.attrs]
  <2>3. group \in KcGroups /\ group.cr = kc[i].cr
    BY <2>2 DEF KcGroups, SpecSet
  <2>4. kc' = [kc EXCEPT ![i] = group]
    BY <2>1
  <2>5. QED
    BY <1>1, <1>2, <2>2, <2>3, <2>4, KeycloakFacts, ElsewhereIInv DEF peers
<1>6. QED BY <1>3, <1>4, <1>5

\* Every step preserves the inductive invariant.
LEMMA NextIInv == IInv /\ [Next]_vars => IInv'
<1> SUFFICES ASSUME IInv, [Next]_vars PROVE IInv'
  OBVIOUS
<1>1. ASSUME NEW g \in Groups, Start(g) \/ User(g) \/ Sync(g), UNCHANGED beyond PROVE IInv'
  BY <1>1, StartIInv, UserIInv, SyncIInv DEF beyond
<1>2. CASE (ToGroup \/ StatusGone \/ RemoveFinalizer) /\ UNCHANGED beyond
  BY <1>2, PrepareIInv, EnsureFinalizerIInv, StatusIInv, RemoveFinalizerIInv DEF ToGroup, beyond
<1>3. CASE ValidateRealm
  BY <1>3, PrepareIInv DEF ValidateRealm, peers
<1>4. ASSUME Work PROVE IInv'
  BY <1>2, <1>3, <1>4, OwnerIInv, ParentIInv, FetchIInv, UpdateIInv, CreateIInv, StoreIInv,
     StatusIInv, DeleteIInv DEF Work
<1>5. CASE Others \/ (ConfigChanges /\ UNCHANGED beyond)
  BY <1>5, PeersIInv, ConsoleIInv DEF Others, beyond
<1>6. CASE Crash /\ UNCHANGED beyond
  <2>1. events' \in 0..MaxEvents
    BY <1>6, EventsType DEF Crash
  <2>2. QED BY <1>6, <2>1, KeycloakFacts, DoneIInv DEF Crash, beyond, keycloak, peers
<1>7. CASE UNCHANGED vars
  BY <1>7 DEF vars, cluster, keycloak, peers, worker, IInv, TypeOK, CopiesAgree,
     GuardIsLasting, PathsAreApart, DeletingIsGuarded, IdsAreSpent, UnguardedIsUntracked,
     Guarded, Live, Exists
<1>8. QED
  BY <1>1, <1>4, <1>5, <1>6, <1>7 DEF Next

\* The inductive invariant always holds.
THEOREM Invariance == Spec => []IInv
BY InitIInv, NextIInv, PTL DEF Spec

\* Every variable of the controller has its type.
THEOREM TypeCorrect == Spec => []TypeOK
<1>1. IInv => TypeOK
  BY DEF IInv
<1>2. QED BY <1>1, Invariance, PTL
-----------------------------------------------------------------------------
(* Each Group resource implements ManagedResource.                          *)

\* What becomes of g in a step.
ManagedStep(g) == Managed(g)!Next \/ UNCHANGED Managed(g)!vars

\* A step that leaves the object's life and its id alone, and makes no group for it,
\* loses groups or does nothing.
LEMMA LoseStep ==
    ASSUME NEW g \in Groups, Life(g)' = Life(g), Tracked(g)' = Tracked(g),
           \A i \in Ids : kc'[i] # Absent /\ kc'[i].cr = g => kc[i] # Absent /\ kc[i].cr = g
    PROVE  ManagedStep(g)
<1> DEFINE S == {i \in Ids : /\ kc[i] # Absent /\ kc[i].cr = g
                             /\ ~(kc'[i] # Absent /\ kc'[i].cr = g)}
<1>1. LiveOf(g)' = LiveOf(g) \ S
  BY DEF LiveOf, Exists
<1>2. Managed(g)!Lose(S)
  BY <1>1 DEF Managed!Lose
<1>3. QED BY <1>2 DEF ManagedStep, Managed!Next

\* The same, when no object is written.
LEMMA QuietStep ==
    ASSUME IInv, NEW g \in Groups, obj' = obj,
           \/ kc' = kc
           \/ \A i \in Ids : kc'[i] # Absent => kc[i] # Absent /\ kc'[i].cr = kc[i].cr
    PROVE  ManagedStep(g)
BY LoseStep DEF Life, Tracked

\* No step of the worker but four writes an object or makes a group.
LEMMA WorkerStep ==
    ASSUME IInv, NEW g \in Groups,
           \/ (ClientReady \/ ClientNotReady(Pending) \/ ClientFails(NoClient)) /\ UNCHANGED beyond
           \/ (StatusGone \/ Crash) /\ UNCHANGED beyond
           \/ ValidateRealm \/ KeepParent \/ ResolveParent \/ ResolveFails \/ FetchGroup \/ FetchFails
           \/ UpdateGroup \/ CreateFails \/ StoreGroupUUID
           \/ StatusSkipped \/ StatusConflict \/ DeleteGroup \/ DeleteFails
    PROVE  ManagedStep(g)
<1>1. obj' = obj
  BY DEF ClientReady, ClientNotReady, ClientFails, ValidateRealm, KeepParent, ResolveParent,
     ResolveFails, FetchGroup, FetchFails, UpdateGroup, CreateFails, StoreGroupUUID,
     StatusSkipped, StatusConflict, StatusRefused, StatusGone, DeleteGroup, DeleteFails, Crash,
     cluster
<1>2. CASE UpdateGroup
  BY <1>1, <1>2, UpdateFacts, QuietStep
<1>3. CASE DeleteGroup
  <2>1. \A i \in Ids : kc'[i] \in {kc[i], Absent}
    BY <1>3, KeycloakFacts, WithoutFacts DEF DeleteGroup, Exists
  <2>2. QED BY <1>1, <2>1, QuietStep
<1>4. CASE ~UpdateGroup /\ ~DeleteGroup
  <2>1. kc' = kc
    BY <1>4 DEF ClientReady, ClientNotReady, ClientFails, ValidateRealm, KeepParent, ResolveParent,
       ResolveFails, FetchGroup, FetchFails, CreateFails, StoreGroupUUID,
       StatusSkipped, StatusConflict, StatusGone, DeleteFails, Crash, keycloak, beyond
  <2>2. QED BY <1>1, <2>1, QuietStep
<1>5. QED BY <1>2, <1>3, <1>4

\* A group is made only for a resource that has the finalizer.
LEMMA CreateStep ==
    ASSUME IInv, NEW g \in Groups, NEW i \in Ids, CreateGroup(i)
    PROVE  ManagedStep(g)
<1>1. /\ obj' = obj /\ kc' = [kc EXCEPT ![i] = NewGroup] /\ i \notin spent
      /\ mine.finalizer /\ ~mine.deleting /\ at # "idle"
  BY DEF CreateGroup, Unused, cluster, IInv, PathsAreApart
<1>2. NewGroup \in KcGroups /\ NewGroup.cr = me
  BY <1>1, CopyFacts DEF NewGroup, KcGroups, Object, Status, Maybe
<1>3. CASE g # me
  <2>1. \A j \in Ids : kc'[j] # Absent /\ kc'[j].cr = g => kc[j] # Absent /\ kc[j].cr = g
    BY <1>1, <1>2, <1>3, KeycloakFacts
  <2>2. QED BY <1>1, <2>1, LoseStep DEF Life, Tracked
<1>4. CASE g = me
  <2>1. Guarded(g)
    BY <1>1, <1>4 DEF IInv, GuardIsLasting
  <2>2. Life(g) = "guarded" /\ Life(g)' = Life(g) /\ Tracked(g)' = Tracked(g)
    BY <1>1, <2>1 DEF Life, Tracked, Guarded
  <2>3. i \notin LiveOf(g)
    BY <1>1, KeycloakFacts DEF LiveOf, Exists
  <2>4. LiveOf(g)' = LiveOf(g) \cup {i}
    BY <1>1, <1>2, <1>4, KeycloakFacts DEF LiveOf, Exists
  <2>5. Managed(g)!Provision(i)
    BY <2>2, <2>3, <2>4 DEF Managed!Provision
  <2>6. QED BY <2>5 DEF ManagedStep, Managed!Next
<1>5. QED BY <1>3, <1>4

\* The finalizer is added to a bare object; no other write of the copy is seen.
LEMMA WriteStep ==
    ASSUME IInv, NEW g \in Groups,
           (EnsureFinalizer("realm") /\ UNCHANGED keycloak) \/ SetOwnerReference
    PROVE  ManagedStep(g)
<1>1. at # "idle" /\ kc' = kc /\ me \in Groups /\ mine \in Object
      /\ obj \in [Groups -> Object \cup {Absent}]
  BY CopyFacts DEF EnsureFinalizer, SetOwnerReference, keycloak, IInv, TypeOK
<1>2. LiveOf(g)' = LiveOf(g)
  BY <1>1 DEF LiveOf, Exists
<1>3. CASE obj' = obj
  BY <1>1, <1>3, QuietStep
<1>4. CASE SetOwnerReference /\ Written([mine EXCEPT !.owned = TRUE])
  <2>1. fresh /\ obj[me] = mine /\ obj' = [obj EXCEPT ![me] = [mine EXCEPT !.owned = TRUE]]
    BY <1>4 DEF SetOwnerReference, Written, IInv, CopiesAgree
  <2>2. [mine EXCEPT !.owned = TRUE] # Absent
        /\ [mine EXCEPT !.owned = TRUE].finalizer = mine.finalizer
        /\ [mine EXCEPT !.owned = TRUE].status = mine.status
    BY <1>1 DEF Object
  <2>3. Life(g)' = Life(g) /\ Tracked(g)' = Tracked(g)
    BY <1>1, <2>1, <2>2 DEF Life, Tracked
  <2>4. QED BY <1>1, <2>3, LoseStep
<1>5. CASE EnsureFinalizer("realm") /\ ~mine.finalizer /\ Written([mine EXCEPT !.finalizer = TRUE])
  <2>1. fresh /\ obj[me] = mine /\ obj' = [obj EXCEPT ![me] = [mine EXCEPT !.finalizer = TRUE]]
    BY <1>5 DEF EnsureFinalizer, Written, IInv, CopiesAgree
  <2>2. [mine EXCEPT !.finalizer = TRUE] # Absent /\ mine # Absent
        /\ [mine EXCEPT !.finalizer = TRUE].finalizer
        /\ [mine EXCEPT !.finalizer = TRUE].status = mine.status
    BY <1>1 DEF Object
  <2>3. CASE g = me
    <3>1. Life(g) = "bare" /\ Life(g)' = "guarded" /\ Tracked(g)' = Tracked(g)
      BY <1>1, <1>5, <2>1, <2>2, <2>3 DEF Life, Tracked
    <3>2. Managed(g)!Guard
      BY <1>2, <3>1 DEF Managed!Guard
    <3>3. QED BY <3>2 DEF ManagedStep, Managed!Next
  <2>4. CASE g # me
    <3>1. Life(g)' = Life(g) /\ Tracked(g)' = Tracked(g)
      BY <1>1, <2>1, <2>4 DEF Life, Tracked
    <3>2. QED BY <1>1, <3>1, LoseStep
  <2>5. QED BY <2>3, <2>4
<1>6. QED
  BY <1>3, <1>4, <1>5 DEF EnsureFinalizer, SetOwnerReference, cluster

\* A status write has the resource track the UUID written.
LEMMA StatusStep ==
    ASSUME IInv, NEW g \in Groups, StatusWritten
    PROVE  ManagedStep(g)
<1> DEFINE o == StatusApplied(cache[me])
<1>1. /\ me \in Groups /\ at = "status" /\ kc' = kc /\ obj' = [obj EXCEPT ![me] = o]
      /\ obj \in [Groups -> Object \cup {Absent}]
      /\ obj[me] = cache[me] /\ obj[me] # Absent /\ obj[me] \in Object
  BY DEF StatusWritten, StatusAccepted, beyond, IInv, TypeOK, CopiesAgree, keycloak
<1>2. /\ o \in Object /\ o # Absent /\ o.finalizer = obj[me].finalizer
      /\ o.status.uuid \in Ids \/ o.status.uuid = obj[me].status.uuid
  BY <1>1, AppliedFacts, CopyFacts DEF Maybe
<1>3. Life(g)' = Life(g) /\ LiveOf(g)' = LiveOf(g)
  BY <1>1, <1>2 DEF Life, LiveOf, Exists
<1>4. CASE Tracked(g)' = Tracked(g)
  BY <1>1, <1>3, <1>4, LoseStep
<1>5. CASE Tracked(g)' # Tracked(g)
  <2>1. g = me /\ Tracked(g)' = o.status.uuid /\ o.status.uuid \in Ids /\ Life(g) # "absent"
    BY <1>1, <1>2, <1>5 DEF Tracked, Life
  <2>2. Managed(g)!Track(o.status.uuid)
    BY <1>3, <2>1 DEF Managed!Track
  <2>3. QED BY <2>1, <2>2 DEF ManagedStep, Managed!Next
<1>6. QED BY <1>4, <1>5

\* An object goes only when no group of its own is tracked.
LEMMA ReleaseStep ==
    ASSUME IInv, NEW g \in Groups, RemoveFinalizer, UNCHANGED keycloak
    PROVE  ManagedStep(g)
<1>1. /\ me \in Groups /\ at = "unfinalize" /\ kc' = kc /\ mine \in Object
      /\ obj \in [Groups -> Object \cup {Absent}]
  BY DEF RemoveFinalizer, IInv, TypeOK, keycloak
<1>2. CASE obj' = obj
  BY <1>1, <1>2, QuietStep
<1>3. CASE mine.finalizer /\ fresh /\ obj' = [obj EXCEPT ![me] = Absent]
  <2>1. obj[me] = mine /\ ~Live(mine.status.uuid, me) /\ LiveOf(g)' = LiveOf(g)
    BY <1>1, <1>3 DEF IInv, CopiesAgree, UnguardedIsUntracked, LiveOf, Exists
  <2>2. CASE g = me
    <3>1. Life(g) = "guarded" /\ Life(g)' = "absent" /\ Tracked(g)' = None
      BY <1>1, <1>3, <2>1, <2>2 DEF Life, Tracked
    <3>2. Tracked(g) \notin LiveOf(g)
      BY <1>1, <1>3, <2>1, <2>2 DEF Tracked, LiveOf, Live
    <3>3. Managed(g)!Release
      BY <2>1, <3>1, <3>2 DEF Managed!Release
    <3>4. QED BY <3>3 DEF ManagedStep, Managed!Next
  <2>3. CASE g # me
    <3>1. Life(g)' = Life(g) /\ Tracked(g)' = Tracked(g)
      BY <1>1, <1>3, <2>3 DEF Life, Tracked
    <3>2. QED BY <1>1, <3>1, LoseStep
  <2>4. QED BY <2>2, <2>3
<1>4. QED BY <1>2, <1>3 DEF RemoveFinalizer, cluster

\* A user declares a resource, edits it, and deletes it: at once, if it is bare.
LEMMA UserStep ==
    ASSUME IInv, NEW g \in Groups, NEW h \in Groups, User(h), UNCHANGED keycloak
    PROVE  ManagedStep(g)
<1>1. /\ kc' = kc /\ obj \in [Groups -> Object \cup {Absent}]
      /\ \E o : obj' = [obj EXCEPT ![h] = o]
  BY DEF User, Create, Edit, Delete, Touched, keycloak, IInv, TypeOK
<1>2. LiveOf(g)' = LiveOf(g)
  BY <1>1 DEF LiveOf, Exists
<1>3. CASE g # h
  <2>1. Life(g)' = Life(g) /\ Tracked(g)' = Tracked(g)
    BY <1>1, <1>3 DEF Life, Tracked
  <2>2. QED BY <1>1, <2>1, LoseStep
<1>4. ASSUME g = h, NEW s \in Specs[g], Create(g, NewObject(s)) PROVE ManagedStep(g)
  <2>1. obj' = [obj EXCEPT ![g] = NewObject(s)]
    BY <1>4 DEF Create, Touched
  <2>2. NewObject(s) \in Object /\ ~NewObject(s).finalizer /\ NewObject(s).status.uuid = None
    BY DEF NewObject, Object, Status, SpecSet, Maybe, Messages
  <2>3. /\ Life(g) = "absent" /\ Life(g)' = "bare" /\ Tracked(g) = None /\ Tracked(g)' = None
    BY <1>1, <1>4, <2>1, <2>2 DEF Create, Life, Tracked
  <2>4. Managed(g)!Declare
    BY <1>2, <2>3 DEF Managed!Declare
  <2>5. QED BY <2>4 DEF ManagedStep, Managed!Next
<1>5. ASSUME g = h, NEW s \in Specs[g], Edit(g, s) PROVE ManagedStep(g)
  <2>1. obj' = [obj EXCEPT ![g] = [obj[g] EXCEPT !.spec = s]]
    BY <1>5 DEF Edit, Touched
  <2> DEFINE o == [obj[g] EXCEPT !.spec = s]
  <2>2. /\ obj[g] # Absent /\ obj[g] \in Object /\ s \in SpecSet
    BY <1>1, <1>5 DEF Edit, SpecSet
  <2>3. o \in Object /\ o.finalizer = obj[g].finalizer /\ o.status = obj[g].status
    BY <2>2 DEF Object
  <2>4. obj'[g] = o /\ o # Absent
    BY <1>1, <2>1, <2>3
  <2>5. Life(g)' = Life(g) /\ Tracked(g)' = Tracked(g)
    BY <2>2, <2>3, <2>4 DEF Life, Tracked
  <2>6. QED BY <1>1, <2>5, LoseStep
<1>6. CASE g = h /\ Delete(h)
  <2>1. obj[g] # Absent /\ obj[g] \in Object
    BY <1>1, <1>6 DEF Delete
  <2>2. CASE obj[g].finalizer
    <3> DEFINE o == [obj[g] EXCEPT !.deleting = TRUE]
    <3>1. o \in Object /\ o.finalizer /\ o.status = obj[g].status
      BY <2>1, <2>2 DEF Object
    <3>2. obj'[g] = o /\ o # Absent
      BY <1>1, <1>6, <2>2, <3>1 DEF Delete, Touched
    <3>3. Life(g)' = Life(g) /\ Tracked(g)' = Tracked(g)
      BY <2>1, <2>2, <3>1, <3>2 DEF Life, Tracked
    <3>4. QED BY <1>1, <3>3, LoseStep
  <2>3. CASE ~obj[g].finalizer
    <3>1. /\ Life(g) = "bare" /\ Life(g)' = "absent" /\ Tracked(g)' = None
      BY <1>1, <1>6, <2>1, <2>3 DEF Delete, Touched, Life, Tracked
    <3>2. Tracked(g) \notin LiveOf(g)
      BY <2>1, <2>3 DEF IInv, UnguardedIsUntracked, Guarded, Tracked, LiveOf, Live
    <3>3. Managed(g)!Discard
      BY <1>2, <3>1, <3>2 DEF Managed!Discard
    <3>4. QED BY <3>3 DEF ManagedStep, Managed!Next
  <2>4. QED BY <2>2, <2>3
<1>7. QED BY <1>3, <1>4, <1>5, <1>6 DEF User

\* In Keycloak, others make no group for a resource.
LEMMA OtherStep ==
    ASSUME IInv, NEW g \in Groups,
           \/ RealmChanges \/ (ConfigChanges /\ UNCHANGED beyond)
           \/ \E i \in Ids : ConsoleDeletes(i) \/ ConsoleCreates(i) \/ ConsoleEdits(i)
    PROVE  ManagedStep(g)
<1>1. obj' = obj
  BY DEF ConfigChanges, RealmChanges, ConsoleDeletes, ConsoleCreates, ConsoleEdits, cluster
<1>2. CASE RealmChanges \/ (ConfigChanges /\ UNCHANGED beyond)
  <2>1. kc' = kc \/ kc' = [i \in Ids |-> Absent]
    BY <1>2 DEF RealmChanges, beyond, keycloak
  <2>2. QED BY <1>1, <2>1, QuietStep
<1>3. ASSUME NEW i \in Ids, ConsoleDeletes(i) PROVE ManagedStep(g)
  <2>1. \A j \in Ids : kc'[j] \in {kc[j], Absent}
    BY <1>3, KeycloakFacts, WithoutFacts DEF ConsoleDeletes
  <2>2. QED BY <1>1, <2>1, QuietStep
<1>4. ASSUME NEW i \in Ids, ConsoleCreates(i) PROVE ManagedStep(g)
  <2>1. PICK s \in SpecSet, p \in Ids \cup {None} :
          kc' = [kc EXCEPT ![i] = [name |-> s.name, parent |-> p, attrs |-> s.attrs, cr |-> None]]
    BY <1>4 DEF ConsoleCreates, Unused, SpecSet
  <2>2. \A j \in Ids : kc'[j] # Absent /\ kc'[j].cr = g => kc[j] # Absent /\ kc[j].cr = g
    BY <2>1, KeycloakFacts
  <2>3. QED BY <1>1, <2>2, LoseStep DEF Life, Tracked
<1>5. ASSUME NEW i \in Ids, ConsoleEdits(i) PROVE ManagedStep(g)
  <2>1. PICK s \in SpecSet : kc' = [kc EXCEPT ![i].attrs = s.attrs]
    BY <1>5 DEF ConsoleEdits, SpecSet
  <2>2. kc[i] \in KcGroups /\ kc[i] # Absent
    BY <1>5, KeycloakFacts DEF ConsoleEdits, Exists
  <2> DEFINE group == [kc[i] EXCEPT !.attrs = s.attrs]
  <2>3. group.cr = kc[i].cr /\ kc' = [kc EXCEPT ![i] = group]
    BY <2>1, <2>2 DEF KcGroups
  <2>4. \A j \in Ids : kc'[j] # Absent => kc[j] # Absent /\ kc'[j].cr = kc[j].cr
    BY <2>2, <2>3, KeycloakFacts
  <2>5. QED BY <1>1, <2>4, QuietStep
<1>6. QED BY <1>2, <1>3, <1>4, <1>5

\* Each Group resource lives as ManagedResource says, against stale reads, refused
\* writes, crashes, lost answers and the work of others in Keycloak
\* (group_controller.go:108-114, 630-652).
THEOREM ImplementsManagedResource == Spec => ManagedSpec
<1>1. Init => \A g \in Groups : Managed(g)!Init
  BY DEF Init, Empty, Managed!Init, Life, Tracked, LiveOf, Exists
<1>2. IInv /\ [Next]_vars =>
        [\A g \in Groups : Managed(g)!Next \/ UNCHANGED Managed(g)!vars]_vars
  <2> SUFFICES ASSUME IInv, Next, NEW g \in Groups PROVE ManagedStep(g)
    BY DEF ManagedStep
  <2>1. ASSUME NEW h \in Groups, Start(h) \/ User(h) \/ Sync(h), UNCHANGED beyond
        PROVE  ManagedStep(g)
    BY <2>1, QuietStep, UserStep DEF Start, Sync, cluster, beyond, keycloak
  <2>2. CASE (ToGroup \/ StatusGone \/ RemoveFinalizer) /\ UNCHANGED beyond
    BY <2>2, WorkerStep, WriteStep, ReleaseStep DEF ToGroup, beyond
  <2>3. CASE Work
    BY <2>2, <2>3, WorkerStep, CreateStep, WriteStep, StatusStep DEF Work
  <2>4. CASE (ConfigChanges \/ Crash) /\ UNCHANGED beyond
    BY <2>4, WorkerStep, OtherStep
  <2>5. CASE Others
    BY <2>5, OtherStep DEF Others
  <2>6. QED BY <2>1, <2>3, <2>4, <2>5 DEF Next
<1>3. QED BY <1>1, <1>2, Invariance, PTL DEF Spec, ManagedSpec
-----------------------------------------------------------------------------
(* What the worker deletes.                                                 *)

\* The lemmas of ReconcilerProofs apply.
LEMMA IsSound == IInv => Sound(Groups, Early)
BY DEF IInv, TypeOK, Sound

\* A step of the worker keeps the deletions it knows of.
LEMMA WorkDeletion ==
    ASSUME IInv, DeletionIsLasting(Groups), Work
    PROVE  DeletionIsLasting(Groups)'
<1> USE IsSound
<1>1. at # "idle" /\ mine \in Object /\ me \in Groups
  <2>1. at # "idle"
    BY DEF Work, ToGroup, ClientReady, ClientNotReady, ClientFails, EnsureFinalizer,
       StatusGone, RemoveFinalizer, ValidateRealm, SetOwnerReference, KeepParent, ResolveParent,
       ResolveFails, FetchGroup, FetchFails, UpdateGroup, CreateGroup, CreateFails, StoreGroupUUID,
       StatusSkipped, StatusWritten, StatusAccepted, StatusConflict, StatusRefused,
       DeleteGroup, DeleteFails
  <2>2. QED BY <2>1, CopyFacts
<1>2. CASE Done /\ UNCHANGED cluster
  BY <1>2, DeletionAfterEnd DEF cluster
<1>3. CASE /\ UNCHANGED <<cluster, me, fresh>> /\ mine'.deleting = mine.deleting
           /\ at' = "finalizer" => at = "client" /\ mine' = mine
  BY <1>1, <1>3, DeletionAfterWork DEF cluster
<1>4. CASE \/ EnsureFinalizer("realm") \/ SetOwnerReference
  <2>1. /\ ~mine.deleting /\ at \in Early
        /\ [mine EXCEPT !.finalizer = TRUE].deleting = mine.deleting
        /\ [mine EXCEPT !.owned = TRUE].deleting = mine.deleting
        /\ at = "finalizer" \/ Guarded(me)
    BY <1>1, <1>4 DEF EnsureFinalizer, SetOwnerReference, Object, IInv, PathsAreApart,
       GuardIsLasting
  <2>2. ASSUME NEW o, Written(o), ~o.deleting, at' \in {"realm", "parent"}, me' = me
        PROVE  DeletionIsLasting(Groups)'
    BY <1>1, <2>1, <2>2, DeletionAfterWrite
  <2>3. QED
    BY <1>1, <1>2, <1>3, <1>4, <2>1, <2>2
    DEF EnsureFinalizer, SetOwnerReference, Goto, Fail, Report
<1>5. CASE StatusWritten
  <2>1. at = "status" /\ cache[me] \in Object
    BY <1>1, <1>5 DEF StatusWritten, StatusAccepted, IInv, TypeOK
  <2>2. QED BY <1>5, <2>1, AppliedFacts, DeletionAfterStatus DEF StatusWritten
<1>6. CASE RemoveFinalizer
  BY <1>6, DeletionAfterRelease
<1>7. CASE \/ ClientReady \/ ClientNotReady(Pending) \/ ClientFails(NoClient) \/ ValidateRealm
           \/ FetchGroup \/ FetchFails \/ UpdateGroup
           \/ \E i \in Ids : CreateGroup(i)
  <2>1. ClearGroupState => mine'.deleting = mine.deleting
    BY <1>1 DEF ClearGroupState, Object
  <2>2. QED
    BY <1>1, <1>2, <1>3, <1>7, <2>1
    DEF ClientReady, ClientNotReady, ClientFails, ValidateRealm, FetchGroup, FetchFails,
        UpdateGroup, CreateGroup, Goto, Fail, Succeed, Report
<1>8. CASE KeepParent \/ ResolveParent \/ ResolveFails
  <2>1. \A u : WithParent(u) => mine'.deleting = mine.deleting
    BY <1>1 DEF WithParent, Object
  <2>2. QED
    BY <1>1, <1>3, <1>8, <2>1 DEF KeepParent, ResolveParent, ResolveFails, Goto, Fail, Report
<1>9. CASE \/ CreateFails \/ StoreGroupUUID \/ StatusGone \/ StatusSkipped
           \/ StatusConflict \/ DeleteGroup \/ DeleteFails
  <2>1. \A i : mine' = [mine EXCEPT !.status.uuid = i] => mine'.deleting = mine.deleting
    BY <1>1 DEF Object
  <2>2. QED
    BY <1>1, <1>2, <1>3, <1>9, <2>1
    DEF CreateFails, StoreGroupUUID, StatusGone, StatusSkipped, StatusConflict,
        StatusRefused, DeleteGroup, DeleteFails, Goto, Fail, Succeed, Report
<1>10. QED BY <1>4, <1>5, <1>6, <1>7, <1>8, <1>9 DEF Work, ToGroup

\* So does every other step.
LEMMA NextDeletion ==
    ASSUME IInv, DeletionIsLasting(Groups), [Next]_vars
    PROVE  DeletionIsLasting(Groups)'
<1> USE IsSound
<1>1. ASSUME NEW g \in Groups, Start(g) \/ User(g) \/ Sync(g)
      PROVE  DeletionIsLasting(Groups)'
  <2>1. ASSUME NEW s \in Specs[g], Create(g, NewObject(s)) PROVE DeletionIsLasting(Groups)'
    BY <2>1, DeletionAfterTouch DEF Create, NewObject
  <2>2. ASSUME NEW s \in Specs[g], Edit(g, s) PROVE DeletionIsLasting(Groups)'
    <3> DEFINE o == [obj[g] EXCEPT !.spec = s]
    <3>1. Touched(g, o) /\ obj[g] # Absent /\ obj[g] \in Object
      BY <2>2 DEF Edit, IInv, TypeOK
    <3>2. o.finalizer = obj[g].finalizer /\ o.deleting = obj[g].deleting
      BY <3>1 DEF Object
    <3>3. QED BY <3>1, <3>2, DeletionAfterTouch DEF Guarded
  <2>3. CASE Delete(g)
    <3> DEFINE o == IF obj[g].finalizer THEN [obj[g] EXCEPT !.deleting = TRUE] ELSE Absent
    <3>1. Touched(g, o) /\ obj[g] # Absent /\ obj[g] \in Object
      BY <2>3 DEF Delete, IInv, TypeOK
    <3>2. o # Absent => o.deleting /\ Guarded(g)
      BY <3>1 DEF Object, Guarded
    <3>3. QED BY <3>1, <3>2, DeletionAfterTouch
  <2>4. QED BY <1>1, <2>1, <2>2, <2>3, DeletionAfterStart, DeletionAfterSync DEF User
<1>2. CASE ConfigChanges \/ Crash \/ Others \/ UNCHANGED vars
  BY <1>2, DeletionAfterEnd
  DEF ConfigChanges, Crash, Others, RealmChanges, ConsoleDeletes, ConsoleCreates, ConsoleEdits,
      vars, cluster
<1>3. QED BY <1>1, <1>2, WorkDeletion DEF Next

\* Whose groups are there, and named how, when nothing but losses and other attributes
\* come to them.
SameGroups == \A i \in Ids : kc'[i] # Absent =>
                  /\ kc[i] # Absent
                  /\ kc'[i].cr = kc[i].cr
                  /\ kc'[i].name = kc[i].name

\* A reconcile ends, or only Keycloak moves.
LEMMA OwnAfterEnd ==
    ASSUME IInv, NamesAreOwn, TracksNoOthers, UNCHANGED <<obj, cache>>, SameGroups,
           Done \/ UNCHANGED worker
    PROVE  NamesAreOwn' /\ TracksNoOthers'
<1>1. at' # "idle" => at # "idle" /\ UNCHANGED <<me, mine>>
  BY DEF Done, worker
<1>2. NamesAreOwn'
  BY <1>1 DEF NamesAreOwn, SameGroups, Exists
<1>3. TracksNoOthers'
  BY <1>1 DEF TracksNoOthers, NotAnothers, SameGroups, Exists
<1>4. QED BY <1>2, <1>3

\* The worker goes on: what it makes or renames is the resource's, under its name.
LEMMA OwnAfterWork ==
    ASSUME IInv, NamesAreOwn, TracksNoOthers, at # "idle", UNCHANGED <<obj, cache, me>>,
           mine'.spec = mine.spec, NotAnothers(mine.status.uuid, me)',
           \A i \in Ids : kc'[i] # Absent =>
               \/ kc[i] # Absent /\ kc'[i].cr = kc[i].cr /\ kc'[i].name = kc[i].name
               \/ /\ kc'[i].cr = me /\ kc'[i].name = mine.spec.name
                  /\ i \notin spent \/ (kc[i] # Absent /\ kc[i].cr = me)
    PROVE  NamesAreOwn' /\ TracksNoOthers'
<1>1. me \in Groups /\ mine.spec \in Specs[me]
  BY CopyFacts DEF NamesAreOwn
<1>2. NamesAreOwn'
  BY <1>1 DEF NamesAreOwn, Exists
<1>3. ASSUME NEW g \in Groups, NEW i \in spent \cup {None}, NotAnothers(i, g)
      PROVE  NotAnothers(i, g)'
  BY <1>3 DEF NotAnothers, Exists
<1>4. ASSUME NEW g \in Groups, obj[g] # Absent PROVE NotAnothers(obj[g].status.uuid, g)'
  <2>1. PICK i : i = obj[g].status.uuid
    OBVIOUS
  <2>2. i \in spent \cup {None} /\ NotAnothers(i, g)
    BY <1>4, <2>1 DEF TracksNoOthers, IInv, IdsAreSpent
  <2>3. NotAnothers(i, g)' /\ i = obj'[g].status.uuid
    BY <1>3, <2>1, <2>2
  <2>4. QED BY <2>3 DEF NotAnothers, Exists
<1>5. ASSUME NEW g \in Groups, cache[g] # Absent PROVE NotAnothers(cache[g].status.uuid, g)'
  <2>1. PICK i : i = cache[g].status.uuid
    OBVIOUS
  <2>2. i \in spent \cup {None} /\ NotAnothers(i, g)
    BY <1>5, <2>1 DEF TracksNoOthers, IInv, IdsAreSpent
  <2>3. NotAnothers(i, g)' /\ i = cache'[g].status.uuid
    BY <1>3, <2>1, <2>2
  <2>4. QED BY <2>3 DEF NotAnothers, Exists
<1>6. at' # "idle" => NotAnothers(mine.status.uuid, me)'
  BY DEF NotAnothers, Exists
<1>7. TracksNoOthers'
  <2>1. \A g \in Groups : obj'[g] # Absent => NotAnothers(obj[g].status.uuid, g)'
    BY <1>4 DEF NotAnothers, Exists
  <2>2. \A g \in Groups : cache'[g] # Absent => NotAnothers(cache[g].status.uuid, g)'
    BY <1>5 DEF NotAnothers, Exists
  <2>3. QED BY <1>6, <2>1, <2>2 DEF TracksNoOthers, NotAnothers, Exists
<1>8. QED BY <1>2, <1>7

\* An object is written, with a spec of its resource and the id of no other's group.
LEMMA OwnAfterWrite ==
    ASSUME IInv, NamesAreOwn, TracksNoOthers, UNCHANGED <<cache, kc>>, NEW g \in Groups, NEW o,
           obj' = [obj EXCEPT ![g] = o],
           o # Absent => o.spec \in Specs[g] /\ NotAnothers(o.status.uuid, g),
           \/ Done
           \/ UNCHANGED <<at, me, mine>>
           \/ at # "idle" /\ me = g /\ me' = me /\ mine' = o /\ o # Absent
    PROVE  NamesAreOwn' /\ TracksNoOthers'
<1>1. /\ obj'[g] = o /\ \A h \in Groups : h # g => obj'[h] = obj[h]
  BY DEF IInv, TypeOK
<1>2. \A i, h : NotAnothers(i, h)' <=> NotAnothers(i, h)
  BY DEF NotAnothers, Exists
<1>3. NamesAreOwn'
  BY <1>1 DEF NamesAreOwn, Exists, Done
<1>4. TracksNoOthers'
  BY <1>1 DEF TracksNoOthers, NotAnothers, Exists, Done
<1>5. QED BY <1>3, <1>4

\* The steps of the worker that write no object.
LEMMA QuietOwn ==
    ASSUME NoNamesakes, IInv, NamesAreOwn, TracksNoOthers,
           \/ ClientReady \/ ClientNotReady(Pending) \/ ClientFails(NoClient)
           \/ ValidateRealm \/ KeepParent \/ ResolveParent \/ ResolveFails
           \/ FetchGroup \/ FetchFails \/ CreateFails \/ StoreGroupUUID,
           UNCHANGED kc
    PROVE  NamesAreOwn' /\ TracksNoOthers'
<1>1. /\ at # "idle" /\ UNCHANGED cluster
      /\ Done \/ me' = me
  BY DEF ClientReady, ClientNotReady, ClientFails, ValidateRealm, KeepParent, ResolveParent,
     ResolveFails, FetchGroup, FetchFails, CreateFails, StoreGroupUUID, Goto, Fail, Succeed, Report
<1>2. mine \in Object /\ me \in Groups
  BY <1>1, CopyFacts
<1>3. CASE Done
  BY <1>1, <1>3, OwnAfterEnd DEF SameGroups, cluster
<1>4. ASSUME me' = me, mine'.spec = mine.spec, NotAnothers(mine'.status.uuid, me)
      PROVE  NamesAreOwn' /\ TracksNoOthers'
  <2>1. NotAnothers(mine.status.uuid, me)'
    BY <1>4 DEF NotAnothers, Exists
  <2>2. QED BY <1>1, <1>4, <2>1, OwnAfterWork DEF cluster
<1>5. CASE me' = me /\ mine' = mine
  BY <1>1, <1>4, <1>5 DEF TracksNoOthers
<1>6. CASE me' = me /\ \E u : WithParent(u)
  <2>1. mine'.spec = mine.spec /\ mine'.status.uuid = mine.status.uuid
    BY <1>2, <1>6 DEF WithParent, Object, Status
  <2>2. QED BY <1>1, <1>4, <1>6, <2>1 DEF TracksNoOthers
<1>7. CASE me' = me /\ ClearGroupState
  <2>1. mine'.spec = mine.spec /\ mine'.status.uuid = None
    BY <1>2, <1>7 DEF ClearGroupState, Object, Status
  <2>2. QED BY <1>4, <1>7, <2>1 DEF NotAnothers, Exists
<1>8. ASSUME me' = me, NEW i \in Ids, Exists(i), kc[i].name = mine.spec.name,
             mine' = [mine EXCEPT !.status.uuid = i]
      PROVE  NamesAreOwn' /\ TracksNoOthers'
  <2>1. mine'.spec = mine.spec /\ mine'.status.uuid = i
    BY <1>2, <1>8 DEF Object, Status
  <2>2. mine.spec \in Specs[me] /\ kc[i].cr \in Groups
    BY <1>1, <1>8 DEF NamesAreOwn
  <2>3. PICK s \in Specs[kc[i].cr] : s.name = mine.spec.name
    BY <1>8 DEF NamesAreOwn
  <2>4. kc[i].cr = me
    BY <1>2, <2>2, <2>3 DEF NoNamesakes
  <2>5. QED BY <1>4, <1>8, <2>1, <2>4 DEF NotAnothers
<1>9. QED
  BY <1>3, <1>5, <1>6, <1>7, <1>8
  DEF ClientReady, ClientNotReady, ClientFails, ValidateRealm, KeepParent, ResolveParent,
      ResolveFails, FetchGroup, FetchFails, CreateFails, StoreGroupUUID, Goto, Fail, Succeed, Report

\* The steps of the worker that make, change or delete a group.
LEMMA KeycloakOwn ==
    ASSUME IInv, NamesAreOwn, TracksNoOthers,
           UpdateGroup \/ (\E i \in Ids : CreateGroup(i)) \/ DeleteGroup \/ DeleteFails
    PROVE  NamesAreOwn' /\ TracksNoOthers'
<1>1. /\ at # "idle" /\ UNCHANGED cluster
      /\ Done \/ UNCHANGED <<me, mine>>
  BY DEF UpdateGroup, CreateGroup, DeleteGroup, DeleteFails, Goto, Fail, Succeed, Report
<1>2. /\ mine \in Object /\ me \in Groups /\ mine.spec \in SpecSet
      /\ kc \in [Ids -> KcGroups \cup {Absent}]
  BY <1>1, CopyFacts DEF Object
<1>3. CASE SameGroups /\ Done
  BY <1>1, <1>3, OwnAfterEnd DEF cluster
<1>4. ASSUME UNCHANGED <<me, mine>>,
             \A i \in Ids : kc'[i] # Absent =>
               \/ kc[i] # Absent /\ kc'[i].cr = kc[i].cr /\ kc'[i].name = kc[i].name
               \/ /\ kc'[i].cr = me /\ kc'[i].name = mine.spec.name
                  /\ i \notin spent \/ (kc[i] # Absent /\ kc[i].cr = me)
      PROVE  NamesAreOwn' /\ TracksNoOthers'
  <2>1. mine.status.uuid \in spent \cup {None} /\ NotAnothers(mine.status.uuid, me)
    BY <1>1 DEF TracksNoOthers, IInv, IdsAreSpent
  <2>2. NotAnothers(mine.status.uuid, me)'
    BY <1>4, <2>1 DEF NotAnothers, Exists
  <2>3. QED BY <1>1, <1>4, <2>2, OwnAfterWork DEF cluster
<1>5. CASE DeleteGroup \/ DeleteFails
  <2>1. \A i \in Ids : kc'[i] \in {kc[i], Absent}
    BY <1>2, <1>5, WithoutFacts DEF DeleteGroup, DeleteFails, Exists, keycloak
  <2>2. QED BY <1>1, <1>3, <1>4, <2>1 DEF SameGroups
<1>6. ASSUME NEW i \in Ids, CreateGroup(i) PROVE NamesAreOwn' /\ TracksNoOthers'
  <2>1. /\ UNCHANGED <<me, mine>> /\ kc' = [kc EXCEPT ![i] = NewGroup] /\ i \notin spent
    BY <1>6 DEF CreateGroup, Unused, Goto, Fail, Report
  <2>2. NewGroup.cr = me /\ NewGroup.name = mine.spec.name
    BY DEF NewGroup
  <2>3. QED BY <1>2, <1>4, <2>1, <2>2
<1>7. CASE UpdateGroup
  <2>1. UNCHANGED <<me, mine>>
    BY <1>7 DEF UpdateGroup, Fail, Succeed, Report
  <2>2. CASE kc' = kc
    BY <1>4, <2>1, <2>2
  <2>3. CASE Exists(mine.status.uuid) /\ kc' = Updated(mine.status.uuid)
    <3> DEFINE u == mine.status.uuid
               group == [kc[u] EXCEPT !.name = mine.spec.name, !.attrs = mine.spec.attrs]
    <3>1. u \in Ids /\ kc[u] \in KcGroups /\ kc[u] # Absent /\ kc[u].cr = me
      BY <1>1, <1>2, <2>3 DEF Exists, TracksNoOthers, NotAnothers
    <3>2. group.cr = me /\ group.name = mine.spec.name
      BY <3>1 DEF KcGroups
    <3>3. kc' = [kc EXCEPT ![u] = group]
      BY <1>2, <2>3, <3>1 DEF Updated, KcGroups
    <3>4. QED BY <1>2, <1>4, <2>1, <3>1, <3>2, <3>3
  <2>4. QED BY <1>7, <2>2, <2>3 DEF UpdateGroup
<1>8. QED BY <1>5, <1>6, <1>7

\* The steps of the worker that write its copy, or the cache's with another status.
LEMMA WriteOwn ==
    ASSUME IInv, NamesAreOwn, TracksNoOthers,
           \/ EnsureFinalizer("realm") \/ SetOwnerReference \/ RemoveFinalizer
           \/ StatusGone \/ StatusSkipped \/ StatusWritten \/ StatusConflict,
           UNCHANGED kc
    PROVE  NamesAreOwn' /\ TracksNoOthers'
<1>1. at # "idle" /\ SameGroups
  BY DEF EnsureFinalizer, SetOwnerReference, RemoveFinalizer, StatusGone, StatusSkipped,
     StatusWritten, StatusAccepted, StatusConflict, StatusRefused, SameGroups
<1>2. mine \in Object /\ me \in Groups /\ obj \in [Groups -> Object \cup {Absent}]
  BY <1>1, CopyFacts DEF IInv, TypeOK
<1>3. CASE UNCHANGED cluster /\ (Done \/ UNCHANGED <<me, mine>>)
  <2>1. UNCHANGED <<me, mine>> => NotAnothers(mine.status.uuid, me)'
    BY <1>1 DEF TracksNoOthers, NotAnothers, Exists
  <2>2. QED
    BY <1>1, <1>3, <2>1, OwnAfterEnd, OwnAfterWork DEF cluster, SameGroups
<1>4. ASSUME NEW o \in Object, Written(o), o.spec = mine.spec, o.status = mine.status, me' = me
      PROVE  NamesAreOwn' /\ TracksNoOthers'
  <2>1. o.spec \in Specs[me] /\ NotAnothers(o.status.uuid, me)
    BY <1>1, <1>4 DEF NamesAreOwn, TracksNoOthers
  <2>2. QED BY <1>1, <1>2, <1>4, <2>1, OwnAfterWrite DEF Written
<1>5. CASE EnsureFinalizer("realm") \/ SetOwnerReference
  <2> DEFINE p == [mine EXCEPT !.finalizer = TRUE]
             q == [mine EXCEPT !.owned = TRUE]
  <2>1. /\ p \in Object /\ p.spec = mine.spec /\ p.status = mine.status
        /\ q \in Object /\ q.spec = mine.spec /\ q.status = mine.status
    BY <1>2 DEF Object
  <2>2. CASE UNCHANGED cluster /\ (Done \/ UNCHANGED <<me, mine>>)
    BY <1>3, <2>2
  <2>3. CASE me' = me /\ (Written(p) \/ Written(q))
    BY <1>4, <2>1, <2>3
  <2>4. QED BY <1>5, <2>2, <2>3 DEF EnsureFinalizer, SetOwnerReference, Goto, Fail, Report
<1>6. CASE RemoveFinalizer
  <2>1. CASE obj' = [obj EXCEPT ![me] = Absent] /\ cache' = cache /\ Done
    BY <1>2, <2>1, OwnAfterWrite
  <2>2. QED BY <1>3, <1>6, <2>1 DEF RemoveFinalizer
<1>7. CASE StatusWritten
  <2> DEFINE o == StatusApplied(cache[me])
  <2>1. /\ obj' = [obj EXCEPT ![me] = o] /\ cache' = cache /\ Done /\ at = "status"
        /\ cache[me] \in Object /\ cache[me] # Absent
    BY <1>2, <1>7 DEF StatusWritten, StatusAccepted, IInv, TypeOK
  <2>2. o.spec = cache[me].spec /\ o.status.uuid \in {mine.status.uuid, cache[me].status.uuid}
    BY <2>1, AppliedFacts
  <2>3. o.spec \in Specs[me]
    BY <1>2, <2>1, <2>2 DEF NamesAreOwn
  <2>4. NotAnothers(o.status.uuid, me)
    BY <1>1, <1>2, <2>1, <2>2 DEF TracksNoOthers
  <2>5. QED BY <1>2, <2>1, <2>3, <2>4, OwnAfterWrite
<1>8. CASE StatusGone \/ StatusSkipped \/ StatusConflict
  BY <1>3, <1>8 DEF StatusGone, StatusSkipped, StatusConflict, StatusRefused
<1>9. QED BY <1>5, <1>6, <1>7, <1>8

\* The user gives a resource a spec of its own; the informer and a new reconcile copy.
LEMMA ObjectOwn ==
    ASSUME IInv, NamesAreOwn, TracksNoOthers, NEW g \in Groups,
           Start(g) \/ User(g) \/ Sync(g), UNCHANGED kc
    PROVE  NamesAreOwn' /\ TracksNoOthers'
<1>0. \A i, h : NotAnothers(i, h)' <=> NotAnothers(i, h)
  BY DEF NotAnothers, Exists
<1>1. CASE Start(g)
  BY <1>1 DEF Start, cluster, NamesAreOwn, TracksNoOthers, NotAnothers, Exists
<1>2. CASE Sync(g)
  <2>1. /\ UNCHANGED <<obj, at, me, mine>> /\ cache' = [cache EXCEPT ![g] = obj[g]]
    BY <1>2 DEF Sync, worker
  <2>2. cache'[g] = obj[g] /\ \A h \in Groups : h # g => cache'[h] = cache[h]
    BY <2>1 DEF IInv, TypeOK
  <2>3. NamesAreOwn'
    BY <2>1, <2>2 DEF NamesAreOwn, Exists
  <2>4. TracksNoOthers'
    BY <2>1, <2>2 DEF TracksNoOthers, NotAnothers, Exists
  <2>5. QED BY <2>3, <2>4
<1>3. ASSUME NEW o, Touched(g, o), o # Absent => o.spec \in Specs[g] /\ NotAnothers(o.status.uuid, g)
      PROVE  NamesAreOwn' /\ TracksNoOthers'
  BY <1>3, OwnAfterWrite DEF Touched
<1>4. ASSUME NEW s \in Specs[g], Create(g, NewObject(s)) PROVE NamesAreOwn' /\ TracksNoOthers'
  <2>1. NewObject(s).spec = s /\ NotAnothers(NewObject(s).status.uuid, g)
    BY DEF NewObject, NotAnothers, Exists
  <2>2. QED BY <1>3, <1>4, <2>1 DEF Create
<1>5. ASSUME NEW s \in Specs[g], Edit(g, s) PROVE NamesAreOwn' /\ TracksNoOthers'
  <2> DEFINE o == [obj[g] EXCEPT !.spec = s]
  <2>1. Touched(g, o) /\ obj[g] \in Object /\ obj[g] # Absent
    BY <1>5 DEF Edit, IInv, TypeOK
  <2>2. o.spec = s /\ o.status = obj[g].status
    BY <2>1 DEF Object
  <2>3. QED BY <1>3, <2>1, <2>2 DEF TracksNoOthers
<1>6. CASE Delete(g)
  <2> DEFINE o == IF obj[g].finalizer THEN [obj[g] EXCEPT !.deleting = TRUE] ELSE Absent
  <2>1. Touched(g, o) /\ obj[g] \in Object /\ obj[g] # Absent
    BY <1>6 DEF Delete, IInv, TypeOK
  <2>2. o # Absent => o.spec = obj[g].spec /\ o.status = obj[g].status
    BY <2>1 DEF Object
  <2>3. QED BY <1>3, <2>1, <2>2 DEF TracksNoOthers, NamesAreOwn
<1>7. QED BY <1>1, <1>2, <1>4, <1>5, <1>6 DEF User

\* Where nobody makes groups by hand, what others do in Keycloak is to lose groups and to
\* change their attributes.
LEMMA OtherOwn ==
    ASSUME "handMade" \notin Disturbances, IInv, NamesAreOwn, TracksNoOthers, Others
    PROVE  NamesAreOwn' /\ TracksNoOthers'
<1>1. UNCHANGED <<obj, cache, worker>>
  BY DEF Others, RealmChanges, ConsoleDeletes, ConsoleCreates, ConsoleEdits, cluster
<1>2. CASE RealmChanges
  <2>1. kc' = kc \/ kc' = [i \in Ids |-> Absent]
    BY <1>2 DEF RealmChanges, keycloak
  <2>2. SameGroups
    BY <2>1 DEF SameGroups
  <2>3. QED BY <1>1, <2>2, OwnAfterEnd
<1>3. ASSUME NEW i \in Ids, ConsoleDeletes(i) PROVE SameGroups
  <2>1. \A j \in Ids : kc'[j] \in {kc[j], Absent}
    BY <1>3, KeycloakFacts, WithoutFacts DEF ConsoleDeletes
  <2>2. QED BY <2>1 DEF SameGroups
<1>4. ASSUME NEW i \in Ids, ConsoleEdits(i) PROVE SameGroups
  <2>1. PICK s \in SpecSet : kc' = [kc EXCEPT ![i].attrs = s.attrs]
    BY <1>4 DEF ConsoleEdits, SpecSet
  <2> DEFINE group == [kc[i] EXCEPT !.attrs = s.attrs]
  <2>2. kc[i] \in KcGroups /\ kc[i] # Absent
    BY <1>4, KeycloakFacts DEF ConsoleEdits, Exists
  <2>3. group.cr = kc[i].cr /\ group.name = kc[i].name /\ kc' = [kc EXCEPT ![i] = group]
    BY <2>1, <2>2 DEF KcGroups
  <2>4. QED BY <2>2, <2>3, KeycloakFacts DEF SameGroups
<1>5. \A i \in Ids : ~ConsoleCreates(i)
  BY DEF ConsoleCreates, Event
<1>6. QED BY <1>1, <1>2, <1>3, <1>4, <1>5, OwnAfterEnd DEF Others

\* Every step keeps names and groups apart.
LEMMA NextOwn ==
    ASSUME NoNamesakes, "handMade" \notin Disturbances,
           IInv, NamesAreOwn, TracksNoOthers, [Next]_vars
    PROVE  NamesAreOwn' /\ TracksNoOthers'
<1>1. ASSUME NEW g \in Groups, Start(g) \/ User(g) \/ Sync(g), UNCHANGED beyond
      PROVE  NamesAreOwn' /\ TracksNoOthers'
  BY <1>1, ObjectOwn DEF beyond, keycloak
<1>2. CASE (ToGroup \/ StatusGone \/ RemoveFinalizer) /\ UNCHANGED beyond
  BY <1>2, QuietOwn, WriteOwn DEF ToGroup, beyond, keycloak
<1>3. CASE \/ ValidateRealm \/ KeepParent \/ ResolveParent \/ ResolveFails
           \/ FetchGroup \/ FetchFails \/ CreateFails \/ StoreGroupUUID
  <2>1. UNCHANGED kc
    BY <1>3 DEF ValidateRealm, KeepParent, ResolveParent, ResolveFails, FetchGroup, FetchFails,
       CreateFails, StoreGroupUUID, keycloak
  <2>2. QED BY <1>3, <2>1, QuietOwn
<1>4. CASE SetOwnerReference \/ StatusSkipped \/ StatusWritten \/ StatusConflict
  <2>1. UNCHANGED kc
    BY <1>4 DEF SetOwnerReference, StatusSkipped, StatusWritten, StatusConflict, keycloak, beyond
  <2>2. QED BY <1>4, <2>1, WriteOwn
<1>5. CASE Work
  BY <1>2, <1>3, <1>4, <1>5, KeycloakOwn DEF Work
<1>6. CASE ((ConfigChanges \/ Crash) /\ UNCHANGED beyond) \/ UNCHANGED vars
  BY <1>6, OwnAfterEnd DEF ConfigChanges, Crash, beyond, keycloak, vars, cluster, SameGroups
<1>7. QED BY <1>1, <1>5, <1>6, OtherOwn DEF Next

\* No other step of the worker takes a group away.
LEMMA NothingElseDeletes ==
    ASSUME IInv, Next, worker' # worker, ~DeleteGroup, NEW i \in Ids, kc[i] # Absent
    PROVE  kc'[i] # Absent
<1>1. CASE UpdateGroup
  <2>1. CASE kc' = kc
    BY <2>1
  <2>2. CASE Exists(mine.status.uuid) /\ kc' = Updated(mine.status.uuid)
    <3> DEFINE u == mine.status.uuid
               group == [kc[u] EXCEPT !.name = mine.spec.name, !.attrs = mine.spec.attrs]
    <3>1. at # "idle" /\ u \in Ids /\ kc[u] \in KcGroups
      BY <1>1, <2>2, KeycloakFacts DEF UpdateGroup, Exists
    <3>2. group \in KcGroups
      BY <3>1, CopyFacts DEF KcGroups, Object
    <3>3. kc' = [kc EXCEPT ![u] = group]
      BY <2>2, <3>1, KeycloakFacts DEF Updated, KcGroups
    <3>4. QED BY <3>1, <3>2, <3>3, KeycloakFacts
  <2>3. QED BY <1>1, <2>1, <2>2 DEF UpdateGroup
<1>2. ASSUME NEW j \in Ids, CreateGroup(j) PROVE kc'[i] # Absent
  BY <1>2, KeycloakFacts DEF CreateGroup, Unused
<1>3. CASE kc' = kc
  BY <1>3
<1>4. ~Others
  BY DEF Others, RealmChanges, ConsoleDeletes, ConsoleCreates, ConsoleEdits
<1>5. CASE Work
  BY <1>1, <1>2, <1>3, <1>5 DEF Work, ValidateRealm, SetOwnerReference, KeepParent, ResolveParent,
     ResolveFails, FetchGroup, FetchFails, CreateFails, StoreGroupUUID, StatusSkipped,
     StatusWritten, StatusConflict, DeleteFails, keycloak, beyond
<1>6. QED BY <1>3, <1>4, <1>5 DEF Next, beyond, keycloak

\* What a deletion takes away is the group of the resource marked for deletion, and the
\* groups below it.
LEMMA DeleteFacts ==
    ASSUME IInv, TracksNoOthers, DeletionIsLasting(Groups), DeleteGroup, NEW i \in Ids,
           kc[i] # Absent, kc'[i] = Absent
    PROVE  /\ \E j \in Ids : i \in Subtree(j) /\ Exists(j) /\ kc[j].cr = me
           /\ Guarded(me) /\ obj[me].deleting
<1> DEFINE u == mine.status.uuid
<1>1. at # "idle" /\ mine.deleting /\ me \in Groups
  BY CopyFacts DEF DeleteGroup, IInv, PathsAreApart
<1>2. Exists(u) /\ kc' = Without(u)
  BY DEF DeleteGroup
<1>3. u \in Ids /\ i \in Subtree(u)
  BY <1>2 DEF Without, Exists
<1>4. kc[u].cr = me
  BY <1>1, <1>2 DEF TracksNoOthers, NotAnothers
<1>5. Guarded(me)
  BY <1>1, <1>2, <1>4 DEF IInv, UnguardedIsUntracked, Live
<1>6. obj[me].deleting
  BY <1>1, <1>5 DEF DeletionIsLasting
<1>7. QED BY <1>2, <1>3, <1>4, <1>5, <1>6

\* As long as no two resources ask for one name and nobody makes groups by hand, a group is
\* taken away only for the deletion of the very resource it, or a group above it, was made
\* for, however old the copy that says so (group_controller.go:523, 630-690).
THEOREM DeletesTheCondemned ==
    ASSUME NoNamesakes, "handMade" \notin Disturbances
    PROVE  Spec => DeletesOnlyCondemned
<1> DEFINE J == IInv /\ DeletionIsLasting(Groups) /\ NamesAreOwn /\ TracksNoOthers
<1>1. Init => DeletionIsLasting(Groups) /\ NamesAreOwn /\ TracksNoOthers
  BY DEF Init, Empty, DeletionIsLasting, NamesAreOwn, TracksNoOthers, Exists
<1>2. Init => J
  BY <1>1, InitIInv
<1>3. J /\ [Next]_vars => J'
  <2> SUFFICES ASSUME J, [Next]_vars PROVE J'
    OBVIOUS
  <2>1. IInv'
    BY NextIInv
  <2>2. DeletionIsLasting(Groups)'
    BY NextDeletion
  <2>3. NamesAreOwn' /\ TracksNoOthers'
    BY NextOwn
  <2>4. QED BY <2>1, <2>2, <2>3
<1>4. J /\ [Next]_vars
        => [\A i \in Ids : worker' # worker /\ kc[i] # Absent /\ kc'[i] = Absent =>
              /\ \E j \in Ids : i \in Subtree(j) /\ Exists(j) /\ kc[j].cr = me
              /\ Guarded(me) /\ obj[me].deleting]_vars
  <2> SUFFICES ASSUME J, Next, NEW i \in Ids,
                      worker' # worker, kc[i] # Absent, kc'[i] = Absent
               PROVE  /\ \E j \in Ids : i \in Subtree(j) /\ Exists(j) /\ kc[j].cr = me
                      /\ Guarded(me) /\ obj[me].deleting
    OBVIOUS
  <2>1. DeleteGroup
    BY NothingElseDeletes
  <2>2. QED BY <2>1, DeleteFacts
<1>5. QED BY <1>2, <1>3, <1>4, PTL DEF Spec, DeletesOnlyCondemned
-----------------------------------------------------------------------------
(* Groups that are never put below another one.                             *)

\* The first state, a top-level spec, and the one subtree a top-level group is in.
LEMMA TopFacts ==
    /\ Init => TopLevelIsOnTop
    /\ TopLevel \subseteq Groups
    /\ NamesAreOwn /\ at # "idle" /\ me \in TopLevel => mine.spec.parent = None
BY DEF Init, Empty, TopLevelIsOnTop, TopLevel, NamesAreOwn, Exists

LEMMA RootIsInNoOther ==
    ASSUME NEW i \in Ids, NEW j \in Ids, Exists(i), kc[i].parent = None, i \in Subtree(j)
    PROVE  i = j
<1> SUFFICES ASSUME i # j PROVE FALSE
  OBVIOUS
<1> DEFINE S == Ids \ {i}
<1>1. S \in SUBSET Ids /\ j \in S /\ i \notin S /\ None \notin S
  OBVIOUS
<1>2. \A k \in Ids : Exists(k) /\ kc[k].parent \in S => k \in S
  BY <1>1
<1> HIDE DEF S
<1>3. QED BY <1>1, <1>2 DEF Subtree

\* Whose groups are there, and below which, when nothing comes to them.
SameRoots == \A i \in Ids : kc'[i] # Absent =>
                 kc[i] # Absent /\ kc'[i].cr = kc[i].cr /\ kc'[i].parent = kc[i].parent

\* A reconcile ends, or only Keycloak moves.
LEMMA TopAfterEnd ==
    ASSUME TopLevelIsOnTop, UNCHANGED <<obj, cache>>, SameRoots, Done \/ UNCHANGED worker
    PROVE  TopLevelIsOnTop'
BY DEF TopLevelIsOnTop, SameRoots, Done, worker, Exists

\* The worker goes on: what it makes is below the parent its copy has.
LEMMA TopAfterWork ==
    ASSUME TopLevelIsOnTop, at # "idle", UNCHANGED <<obj, cache, me>>,
           me \in TopLevel => mine'.status.parent = None /\ at' # "resolve",
           \A i \in Ids : kc'[i] # Absent =>
               \/ kc[i] # Absent /\ kc'[i].cr = kc[i].cr /\ kc'[i].parent = kc[i].parent
               \/ kc'[i].cr = me /\ kc'[i].parent = mine.status.parent
    PROVE  TopLevelIsOnTop'
BY DEF TopLevelIsOnTop, Exists

\* An object is written, its parent as unresolved as it was.
LEMMA TopAfterWrite ==
    ASSUME IInv, TopLevelIsOnTop, UNCHANGED <<cache, kc>>, NEW g \in Groups, NEW o,
           obj' = [obj EXCEPT ![g] = o],
           o # Absent /\ g \in TopLevel => o.status.parent = None,
           \/ Done
           \/ UNCHANGED <<at, me, mine>>
           \/ at # "idle" /\ me = g /\ me' = me /\ mine' = o /\ o # Absent /\ at' # "resolve"
    PROVE  TopLevelIsOnTop'
<1>1. obj'[g] = o /\ \A h \in Groups : h # g => obj'[h] = obj[h]
  BY DEF IInv, TypeOK
<1>2. \A h \in TopLevel : obj'[h] # Absent => obj'[h].status.parent = None
  BY <1>1, TopFacts DEF TopLevelIsOnTop
<1>3. QED BY <1>2 DEF TopLevelIsOnTop, Exists, Done

\* The steps of the worker that write no object.
LEMMA QuietTop ==
    ASSUME IInv, NamesAreOwn, TopLevelIsOnTop,
           \/ ClientReady \/ ClientNotReady(Pending) \/ ClientFails(NoClient)
           \/ ValidateRealm \/ KeepParent \/ ResolveParent \/ ResolveFails
           \/ FetchGroup \/ FetchFails \/ CreateFails \/ StoreGroupUUID,
           UNCHANGED kc
    PROVE  TopLevelIsOnTop'
<1>1. at # "idle" /\ UNCHANGED cluster /\ (Done \/ me' = me) /\ SameRoots
  BY DEF ClientReady, ClientNotReady, ClientFails, ValidateRealm, KeepParent, ResolveParent,
     ResolveFails, FetchGroup, FetchFails, CreateFails, StoreGroupUUID, Goto, Fail, Succeed, Report,
     SameRoots
<1>2. mine \in Object /\ me \in Groups
  BY <1>1, CopyFacts
<1>3. CASE Done
  BY <1>1, <1>3, TopAfterEnd DEF cluster
<1>4. ASSUME me' = me, me \in TopLevel => mine'.status.parent = None /\ at' # "resolve"
      PROVE  TopLevelIsOnTop'
  BY <1>1, <1>4, TopAfterWork DEF cluster, SameRoots
<1>5. CASE me' = me /\ mine' = mine /\ (me \in TopLevel => at' # "resolve")
  BY <1>1, <1>4, <1>5 DEF TopLevelIsOnTop
<1>6. CASE KeepParent
  <2>1. WithParent(None) => mine'.status.parent = None
    BY <1>2 DEF WithParent, Object, Status
  <2>2. me' = me /\ (at' = "resolve" => mine.spec.parent # None)
    BY <1>6 DEF KeepParent, Goto
  <2>3. mine' = mine \/ WithParent(None)
    BY <1>6 DEF KeepParent
  <2>4. QED BY <1>1, <1>4, <2>1, <2>2, <2>3, TopFacts DEF TopLevelIsOnTop
<1>7. CASE ResolveParent \/ ResolveFails
  <2>1. at = "resolve" /\ me' = me
    BY <1>7 DEF ResolveParent, ResolveFails, Fail, Report, Goto
  <2>2. QED BY <1>1, <1>4, <2>1 DEF TopLevelIsOnTop
<1>8. CASE me' = me /\ ClearGroupState /\ at' # "resolve"
  <2>1. mine'.status.parent = None
    BY <1>2, <1>8 DEF ClearGroupState, Object, Status
  <2>2. QED BY <1>4, <1>8, <2>1
<1>9. ASSUME me' = me, NEW i, mine' = [mine EXCEPT !.status.uuid = i], at' # "resolve"
      PROVE  TopLevelIsOnTop'
  <2>1. mine'.status.parent = mine.status.parent
    BY <1>2, <1>9 DEF Object, Status
  <2>2. QED BY <1>1, <1>4, <1>9, <2>1 DEF TopLevelIsOnTop
<1>10. CASE StoreGroupUUID
  BY <1>5, <1>9, <1>10 DEF StoreGroupUUID, Fail, Succeed, Report
<1>11. CASE FetchGroup
  BY <1>5, <1>8, <1>11 DEF FetchGroup, Goto, Succeed, Report
<1>12. CASE \/ ClientReady \/ ClientNotReady(Pending) \/ ClientFails(NoClient)
            \/ ValidateRealm \/ FetchFails \/ CreateFails
  BY <1>3, <1>5, <1>12
  DEF ClientReady, ClientNotReady, ClientFails, ValidateRealm, FetchFails, CreateFails, Goto,
      Fail, Report
<1>13. QED BY <1>6, <1>7, <1>10, <1>11, <1>12

\* The steps of the worker that make, change or delete a group.
LEMMA KeycloakTop ==
    ASSUME IInv, TopLevelIsOnTop,
           UpdateGroup \/ (\E i \in Ids : CreateGroup(i)) \/ DeleteGroup \/ DeleteFails
    PROVE  TopLevelIsOnTop'
<1>1. /\ at # "idle" /\ UNCHANGED cluster /\ at' # "resolve"
      /\ Done \/ UNCHANGED <<me, mine>>
  BY DEF UpdateGroup, CreateGroup, DeleteGroup, DeleteFails, Goto, Fail, Succeed, Report, Done
<1>2. mine \in Object /\ kc \in [Ids -> KcGroups \cup {Absent}]
  BY <1>1, CopyFacts
<1>3. CASE SameRoots /\ Done
  BY <1>1, <1>3, TopAfterEnd DEF cluster
<1>4. ASSUME UNCHANGED <<me, mine>>,
             \A i \in Ids : kc'[i] # Absent =>
               \/ kc[i] # Absent /\ kc'[i].cr = kc[i].cr /\ kc'[i].parent = kc[i].parent
               \/ kc'[i].cr = me /\ kc'[i].parent = mine.status.parent
      PROVE  TopLevelIsOnTop'
  <2>1. me \in TopLevel => mine'.status.parent = None
    BY <1>1, <1>4 DEF TopLevelIsOnTop
  <2>2. QED BY <1>1, <1>4, <2>1, TopAfterWork DEF cluster
<1>5. CASE DeleteGroup \/ DeleteFails
  <2>1. \A i \in Ids : kc'[i] \in {kc[i], Absent}
    BY <1>2, <1>5, WithoutFacts DEF DeleteGroup, DeleteFails, Exists, keycloak
  <2>2. QED BY <1>1, <1>3, <1>4, <2>1 DEF SameRoots
<1>6. ASSUME NEW i \in Ids, CreateGroup(i) PROVE TopLevelIsOnTop'
  <2>1. UNCHANGED <<me, mine>> /\ kc' = [kc EXCEPT ![i] = NewGroup]
    BY <1>6 DEF CreateGroup, Goto, Fail, Report
  <2>2. NewGroup.cr = me /\ NewGroup.parent = mine.status.parent
    BY DEF NewGroup
  <2>3. QED BY <1>2, <1>4, <2>1, <2>2
<1>7. CASE UpdateGroup
  <2>1. UNCHANGED <<me, mine>>
    BY <1>7 DEF UpdateGroup, Fail, Succeed, Report
  <2>2. CASE kc' = kc
    BY <1>4, <2>1, <2>2
  <2>3. CASE Exists(mine.status.uuid) /\ kc' = Updated(mine.status.uuid)
    <3> DEFINE u == mine.status.uuid
               group == [kc[u] EXCEPT !.name = mine.spec.name, !.attrs = mine.spec.attrs]
    <3>1. u \in Ids /\ kc[u] \in KcGroups /\ kc[u] # Absent
      BY <1>2, <2>3 DEF Exists
    <3>2. group.cr = kc[u].cr /\ group.parent = kc[u].parent
      BY <3>1 DEF KcGroups
    <3>3. kc' = [kc EXCEPT ![u] = group]
      BY <1>2, <2>3, <3>1 DEF Updated, KcGroups
    <3>4. QED BY <1>2, <1>4, <2>1, <3>1, <3>2, <3>3
  <2>4. QED BY <1>7, <2>2, <2>3 DEF UpdateGroup
<1>8. QED BY <1>5, <1>6, <1>7

\* The steps of the worker that write its copy, or the cache's with another status.
LEMMA WriteTop ==
    ASSUME IInv, TopLevelIsOnTop,
           \/ EnsureFinalizer("realm") \/ SetOwnerReference \/ RemoveFinalizer
           \/ StatusGone \/ StatusSkipped \/ StatusWritten \/ StatusConflict,
           UNCHANGED kc
    PROVE  TopLevelIsOnTop'
<1>1. at # "idle" /\ SameRoots /\ at' # "resolve"
  BY DEF EnsureFinalizer, SetOwnerReference, RemoveFinalizer, StatusGone, StatusSkipped,
     StatusWritten, StatusAccepted, StatusConflict, StatusRefused, SameRoots, Goto, Done, Fail,
     Report
<1>2. mine \in Object /\ me \in Groups /\ obj \in [Groups -> Object \cup {Absent}]
  BY <1>1, CopyFacts DEF IInv, TypeOK
<1>3. CASE UNCHANGED cluster /\ (Done \/ UNCHANGED <<me, mine>>)
  BY <1>1, <1>3, TopAfterEnd, TopAfterWork DEF cluster, SameRoots, TopLevelIsOnTop
<1>4. ASSUME NEW o \in Object, Written(o), o.status = mine.status, me' = me
      PROVE  TopLevelIsOnTop'
  <2>1. me \in TopLevel => o.status.parent = None
    BY <1>1, <1>4 DEF TopLevelIsOnTop
  <2>2. QED BY <1>1, <1>2, <1>4, <2>1, TopAfterWrite DEF Written
<1>5. CASE EnsureFinalizer("realm") \/ SetOwnerReference
  <2> DEFINE p == [mine EXCEPT !.finalizer = TRUE]
             q == [mine EXCEPT !.owned = TRUE]
  <2>1. p \in Object /\ p.status = mine.status /\ q \in Object /\ q.status = mine.status
    BY <1>2 DEF Object
  <2>2. CASE UNCHANGED cluster /\ (Done \/ UNCHANGED <<me, mine>>)
    BY <1>3, <2>2
  <2>3. CASE me' = me /\ (Written(p) \/ Written(q))
    BY <1>4, <2>1, <2>3
  <2>4. QED BY <1>5, <2>2, <2>3 DEF EnsureFinalizer, SetOwnerReference, Goto, Fail, Report
<1>6. CASE RemoveFinalizer
  <2>1. CASE obj' = [obj EXCEPT ![me] = Absent] /\ cache' = cache /\ Done
    BY <1>2, <2>1, TopAfterWrite
  <2>2. QED BY <1>3, <1>6, <2>1 DEF RemoveFinalizer
<1>7. CASE StatusWritten
  <2> DEFINE o == StatusApplied(cache[me])
  <2>1. /\ obj' = [obj EXCEPT ![me] = o] /\ cache' = cache /\ Done /\ at = "status"
        /\ cache[me] \in Object /\ cache[me] # Absent
    BY <1>2, <1>7 DEF StatusWritten, StatusAccepted, IInv, TypeOK
  <2>2. o.status.parent \in {mine.status.parent, cache[me].status.parent}
    BY <2>1 DEF StatusApplied, Object, Status, Keep
  <2>3. me \in TopLevel => o.status.parent = None
    BY <1>1, <2>1, <2>2 DEF TopLevelIsOnTop
  <2>4. QED BY <1>2, <2>1, <2>3, TopAfterWrite
<1>8. CASE StatusGone \/ StatusSkipped \/ StatusConflict
  BY <1>3, <1>8 DEF StatusGone, StatusSkipped, StatusConflict, StatusRefused
<1>9. QED BY <1>5, <1>6, <1>7, <1>8

\* The user and the informer.
LEMMA ObjectTop ==
    ASSUME IInv, TopLevelIsOnTop, NEW g \in Groups, Start(g) \/ User(g) \/ Sync(g), UNCHANGED kc
    PROVE  TopLevelIsOnTop'
<1>1. CASE Start(g)
  BY <1>1 DEF Start, cluster, TopLevelIsOnTop, Exists
<1>2. CASE Sync(g)
  <2>1. UNCHANGED <<obj, at, me, mine>> /\ cache' = [cache EXCEPT ![g] = obj[g]]
    BY <1>2 DEF Sync, worker
  <2>2. cache'[g] = obj[g] /\ \A h \in Groups : h # g => cache'[h] = cache[h]
    BY <2>1 DEF IInv, TypeOK
  <2>3. \A h \in TopLevel : cache'[h] # Absent => cache'[h].status.parent = None
    BY <2>2, TopFacts DEF TopLevelIsOnTop
  <2>4. QED BY <2>1, <2>3 DEF TopLevelIsOnTop, Exists
<1>3. ASSUME NEW o, Touched(g, o), o # Absent /\ g \in TopLevel => o.status.parent = None
      PROVE  TopLevelIsOnTop'
  BY <1>3, TopAfterWrite DEF Touched
<1>4. ASSUME NEW s \in Specs[g], Create(g, NewObject(s)) PROVE TopLevelIsOnTop'
  BY <1>3, <1>4 DEF Create, NewObject
<1>5. ASSUME NEW s \in Specs[g], Edit(g, s) PROVE TopLevelIsOnTop'
  <2> DEFINE o == [obj[g] EXCEPT !.spec = s]
  <2>1. Touched(g, o) /\ obj[g] \in Object /\ obj[g] # Absent
    BY <1>5 DEF Edit, IInv, TypeOK
  <2>2. o.status = obj[g].status
    BY <2>1 DEF Object
  <2>3. QED BY <1>3, <2>1, <2>2 DEF TopLevelIsOnTop
<1>6. CASE Delete(g)
  <2> DEFINE o == IF obj[g].finalizer THEN [obj[g] EXCEPT !.deleting = TRUE] ELSE Absent
  <2>1. Touched(g, o) /\ obj[g] \in Object /\ obj[g] # Absent
    BY <1>6 DEF Delete, IInv, TypeOK
  <2>2. o # Absent => o.status = obj[g].status
    BY <2>1 DEF Object
  <2>3. QED BY <1>3, <2>1, <2>2 DEF TopLevelIsOnTop
<1>7. QED BY <1>1, <1>2, <1>4, <1>5, <1>6 DEF User

\* Others in Keycloak, where nobody makes groups by hand.
LEMMA OtherTop ==
    ASSUME "handMade" \notin Disturbances, IInv, TopLevelIsOnTop, Others
    PROVE  TopLevelIsOnTop'
<1>1. UNCHANGED <<obj, cache, worker>>
  BY DEF Others, RealmChanges, ConsoleDeletes, ConsoleCreates, ConsoleEdits, cluster
<1>2. CASE RealmChanges
  <2>1. kc' = kc \/ kc' = [i \in Ids |-> Absent]
    BY <1>2 DEF RealmChanges, keycloak
  <2>2. SameRoots
    BY <2>1 DEF SameRoots
  <2>3. QED BY <1>1, <2>2, TopAfterEnd
<1>3. ASSUME NEW i \in Ids, ConsoleDeletes(i) PROVE SameRoots
  <2>1. \A j \in Ids : kc'[j] \in {kc[j], Absent}
    BY <1>3, KeycloakFacts, WithoutFacts DEF ConsoleDeletes
  <2>2. QED BY <2>1 DEF SameRoots
<1>4. ASSUME NEW i \in Ids, ConsoleEdits(i) PROVE SameRoots
  <2>1. PICK s \in SpecSet : kc' = [kc EXCEPT ![i].attrs = s.attrs]
    BY <1>4 DEF ConsoleEdits, SpecSet
  <2> DEFINE group == [kc[i] EXCEPT !.attrs = s.attrs]
  <2>2. kc[i] \in KcGroups /\ kc[i] # Absent
    BY <1>4, KeycloakFacts DEF ConsoleEdits, Exists
  <2>3. group.cr = kc[i].cr /\ group.parent = kc[i].parent /\ kc' = [kc EXCEPT ![i] = group]
    BY <2>1, <2>2 DEF KcGroups
  <2>4. QED BY <2>2, <2>3, KeycloakFacts DEF SameRoots
<1>5. \A i \in Ids : ~ConsoleCreates(i)
  BY DEF ConsoleCreates, Event
<1>6. QED BY <1>1, <1>2, <1>3, <1>4, <1>5, TopAfterEnd DEF Others

\* Every step keeps the top level on top.
LEMMA NextTop ==
    ASSUME "handMade" \notin Disturbances, IInv, NamesAreOwn, TopLevelIsOnTop, [Next]_vars
    PROVE  TopLevelIsOnTop'
<1>1. ASSUME NEW g \in Groups, Start(g) \/ User(g) \/ Sync(g), UNCHANGED beyond
      PROVE  TopLevelIsOnTop'
  BY <1>1, ObjectTop DEF beyond, keycloak
<1>2. CASE (ToGroup \/ StatusGone \/ RemoveFinalizer) /\ UNCHANGED beyond
  BY <1>2, QuietTop, WriteTop DEF ToGroup, beyond, keycloak
<1>3. CASE \/ ValidateRealm \/ KeepParent \/ ResolveParent \/ ResolveFails
           \/ FetchGroup \/ FetchFails \/ CreateFails \/ StoreGroupUUID
  <2>1. UNCHANGED kc
    BY <1>3 DEF ValidateRealm, KeepParent, ResolveParent, ResolveFails, FetchGroup, FetchFails,
       CreateFails, StoreGroupUUID, keycloak
  <2>2. QED BY <1>3, <2>1, QuietTop
<1>4. CASE SetOwnerReference \/ StatusSkipped \/ StatusWritten \/ StatusConflict
  <2>1. UNCHANGED kc
    BY <1>4 DEF SetOwnerReference, StatusSkipped, StatusWritten, StatusConflict, keycloak, beyond
  <2>2. QED BY <1>4, <2>1, WriteTop
<1>5. CASE Work
  BY <1>2, <1>3, <1>4, <1>5, KeycloakTop DEF Work
<1>6. CASE ((ConfigChanges \/ Crash) /\ UNCHANGED beyond) \/ UNCHANGED vars
  BY <1>6, TopAfterEnd DEF ConfigChanges, Crash, beyond, keycloak, vars, cluster, SameRoots
<1>7. QED BY <1>1, <1>5, <1>6, OtherTop DEF Next
-----------------------------------------------------------------------------
(* What Ready means, when nobody but the operator makes groups or takes     *)
(* them away.                                                               *)

\* A failure, and what is reported before the group is reached, is not Ready.
LEMMA NotReady ==
    /\ ~Pending.ready /\ ~NoClient.ready
    /\ \A m \in Messages : Fail(m) => at' = "status" /\ ~outcome'.ready
    /\ \A q \in BOOLEAN, m \in Messages : ~Outcome(FALSE, q, m).ready
BY DEF Pending, NoClient, Outcome, Fail, Report

\* The first state satisfies it.
LEMMA InitReady == Init => ReadyIsBacked
BY DEF Init, Empty, ReadyIsBacked, ReadyTopGroupExists, TopLevel

\* A step that writes no object, loses no group, and decides on Ready only for a copy with the
\* finalizer whose group exists.
LEMMA QuietReady ==
    ASSUME ReadyIsBacked, UNCHANGED obj, \A i \in Ids : kc[i] # Absent => kc'[i] # Absent,
           at' = "status" /\ outcome'.ready =>
               mine'.finalizer /\ ~mine'.deleting /\ Exists(mine.status.uuid)'
    PROVE  ReadyIsBacked'
BY DEF ReadyIsBacked, ReadyTopGroupExists, Exists

\* A write of an object that is Ready only as it was before.
LEMMA WrittenReady ==
    ASSUME ReadyIsBacked, NEW g \in Groups, NEW o, obj' = [obj EXCEPT ![g] = o],
           kc' = kc, at' # "status" \/ UNCHANGED <<at, me, mine, outcome>>,
           obj = [h \in Groups |-> obj[h]],
           o # Absent /\ o.status.ready =>
               /\ obj[g] # Absent /\ obj[g].status = o.status
               /\ obj[g].finalizer => o.finalizer
               /\ ~o.deleting => ~obj[g].deleting
    PROVE  ReadyIsBacked'
<1>1. obj'[g] = o /\ \A h \in Groups : h # g => obj'[h] = obj[h]
  OBVIOUS
<1>2. ASSUME NEW h \in TopLevel, obj'[h] # Absent, obj'[h].status.ready
      PROVE  /\ obj'[h].finalizer
             /\ ~obj'[h].deleting => Exists(obj'[h].status.uuid)
  <2>1. CASE h = g
    BY <1>1, <1>2, <2>1 DEF ReadyIsBacked, ReadyTopGroupExists
  <2>2. CASE h # g
    BY <1>1, <1>2, <2>2, TopFacts DEF ReadyIsBacked, ReadyTopGroupExists
  <2>3. QED BY <2>1, <2>2
<1>3. QED BY <1>2 DEF ReadyIsBacked, ReadyTopGroupExists, Exists

\* The worker's steps that write no object and leave Keycloak alone.
LEMMA WorkReady ==
    ASSUME IInv, ReadyIsBacked,
           \/ ClientReady \/ ClientNotReady(Pending) \/ ClientFails(NoClient) \/ StatusGone
           \/ ValidateRealm \/ KeepParent \/ ResolveParent \/ ResolveFails
           \/ FetchGroup \/ FetchFails \/ CreateFails \/ StoreGroupUUID
           \/ StatusSkipped \/ StatusConflict \/ DeleteFails,
           UNCHANGED <<obj, kc>>
    PROVE  ReadyIsBacked'
<1>1. at # "idle" /\ mine \in Object
  BY CopyFacts DEF ClientReady, ClientNotReady, ClientFails, StatusGone, ValidateRealm,
     KeepParent, ResolveParent, ResolveFails, FetchGroup, FetchFails, CreateFails, StoreGroupUUID,
     StatusSkipped, StatusConflict, StatusRefused, DeleteFails
<1>2. CASE at' # "status"
  BY <1>2, QuietReady
<1>3. CASE ~outcome'.ready
  BY <1>3, QuietReady
<1>4. CASE UNCHANGED <<at, me, mine, outcome>>
  BY <1>4 DEF ReadyIsBacked, ReadyTopGroupExists, Exists
<1>5. ASSUME NEW i \in Ids, Exists(i), mine' = [mine EXCEPT !.status.uuid = i], at = "store"
      PROVE  ReadyIsBacked'
  <2>1. /\ mine'.status.uuid = i /\ mine'.finalizer = mine.finalizer
        /\ mine'.deleting = mine.deleting
    BY <1>1, <1>5 DEF Object, Status
  <2>2. mine.finalizer /\ ~mine.deleting
    BY <1>5 DEF IInv, PathsAreApart
  <2>3. QED BY <1>5, <2>1, <2>2, QuietReady DEF Exists
<1>6. CASE FetchGroup
  <2>1. CASE Exists(mine.status.uuid) /\ UNCHANGED mine
    BY <1>6, <2>1, QuietReady DEF FetchGroup, IInv, PathsAreApart, Exists
  <2>2. CASE at' = "create"
    BY <1>2, <2>2
  <2>3. QED BY <1>6, <2>1, <2>2 DEF FetchGroup, Goto
<1>7. CASE StoreGroupUUID
  BY <1>3, <1>5, <1>7, NotReady DEF StoreGroupUUID, Messages
<1>8. CASE \/ ClientReady \/ ClientNotReady(Pending) \/ ClientFails(NoClient) \/ StatusGone
           \/ ValidateRealm \/ DeleteFails
  BY <1>2, <1>3, <1>8, NotReady
  DEF ClientReady, ClientNotReady, ClientFails, StatusGone, ValidateRealm, DeleteFails, Goto, Done,
      Report, Messages
<1>9. CASE KeepParent \/ ResolveParent \/ ResolveFails \/ FetchFails \/ CreateFails
  BY <1>2, <1>3, <1>9, NotReady
  DEF KeepParent, ResolveParent, ResolveFails, FetchFails, CreateFails, Goto, Messages
<1>10. CASE StatusSkipped \/ StatusConflict
  BY <1>2, <1>4, <1>10 DEF StatusSkipped, StatusConflict, StatusRefused, Done
<1>11. QED BY <1>6, <1>7, <1>8, <1>9, <1>10

\* Its steps that work on the group.
LEMMA GroupReady ==
    ASSUME IInv, ReadyIsBacked, TracksNoOthers, TopLevelIsOnTop, DeletionIsLasting(Groups),
           UpdateGroup \/ DeleteGroup \/ \E i \in Ids : CreateGroup(i)
    PROVE  ReadyIsBacked'
<1>1. at # "idle" /\ obj' = obj
  BY DEF UpdateGroup, DeleteGroup, CreateGroup, cluster
<1>2. CASE UpdateGroup
  <2>1. worker' # worker
    BY <1>2 DEF UpdateGroup, Fail, Succeed, Report, worker
  <2>2. \A i \in Ids : kc[i] # Absent => kc'[i] # Absent
    BY <1>2, <2>1, NothingElseDeletes DEF Next, Work, UpdateGroup, DeleteGroup
  <2>3. mine.finalizer /\ ~mine.deleting /\ mine' = mine
    BY <1>2 DEF UpdateGroup, IInv, PathsAreApart
  <2>4. outcome'.ready => Exists(mine.status.uuid)
    BY <1>2, NotReady DEF UpdateGroup, Messages
  <2>5. QED BY <1>1, <2>2, <2>3, <2>4, QuietReady DEF Exists
<1>3. ASSUME NEW i \in Ids, CreateGroup(i) PROVE ReadyIsBacked'
  <2>1. worker' # worker
    BY <1>3 DEF CreateGroup, Goto, Fail, Report, worker
  <2>2. \A j \in Ids : kc[j] # Absent => kc'[j] # Absent
    BY <1>3, <2>1, NothingElseDeletes DEF Next, Work, CreateGroup, DeleteGroup
  <2>3. at' # "status" \/ ~outcome'.ready
    BY <1>3, NotReady DEF CreateGroup, Goto, Messages
  <2>4. QED BY <1>1, <2>2, <2>3, QuietReady
<1>4. CASE DeleteGroup
  <2>1. at' # "status"
    BY <1>4 DEF DeleteGroup, Goto, Done
  <2>2. ASSUME NEW g \in TopLevel, obj[g] # Absent, ~obj[g].deleting, obj[g].status.ready
        PROVE  Exists(obj[g].status.uuid)'
    <3>1. PICK i : i = obj[g].status.uuid
      OBVIOUS
    <3>2. i \in Ids /\ Exists(i) /\ kc[i].cr = g /\ kc[i].parent = None
      BY <2>2, <3>1, TopFacts
      DEF ReadyIsBacked, ReadyTopGroupExists, Exists, TracksNoOthers, NotAnothers, TopLevelIsOnTop
    <3>3. ASSUME kc'[i] = Absent PROVE FALSE
      <4>1. PICK j \in Ids : i \in Subtree(j) /\ Exists(j) /\ kc[j].cr = me
        BY <1>4, <3>2, <3>3, DeleteFacts DEF Exists
      <4>2. g = me
        BY <3>2, <4>1, RootIsInNoOther
      <4>3. QED BY <1>4, <2>2, <3>2, <3>3, <4>2, DeleteFacts DEF Exists
    <3>4. QED BY <1>1, <3>1, <3>2, <3>3 DEF Exists
  <2>3. QED BY <1>1, <2>1, <2>2 DEF ReadyIsBacked, ReadyTopGroupExists, Exists
<1>5. QED BY <1>2, <1>3, <1>4

\* The worker's steps that write objects.
LEMMA WriteReady ==
    ASSUME IInv, ReadyIsBacked, UNCHANGED kc,
           EnsureFinalizer("realm") \/ RemoveFinalizer \/ SetOwnerReference \/ StatusWritten
    PROVE  ReadyIsBacked'
<1>1. /\ at # "idle" /\ me \in Groups /\ mine \in Object
      /\ obj \in [Groups -> Object \cup {Absent}]
  BY CopyFacts DEF EnsureFinalizer, RemoveFinalizer, SetOwnerReference, StatusWritten,
     StatusAccepted, IInv, TypeOK
<1>2. CASE obj' = obj /\ (at' # "status" \/ ~outcome'.ready)
  BY <1>2, QuietReady
<1>3. CASE EnsureFinalizer("realm") /\ Written([mine EXCEPT !.finalizer = TRUE])
  <2> DEFINE o == [mine EXCEPT !.finalizer = TRUE]
  <2>1. /\ o.finalizer /\ o.status = mine.status /\ o.deleting = mine.deleting /\ mine # Absent
        /\ obj[me] = mine /\ obj' = [obj EXCEPT ![me] = o] /\ at' # "status"
    BY <1>1, <1>3 DEF EnsureFinalizer, Written, Goto, Done, Object, IInv, CopiesAgree
  <2> HIDE DEF o
  <2>2. QED BY <1>1, <2>1, WrittenReady
<1>4. CASE SetOwnerReference /\ Written([mine EXCEPT !.owned = TRUE])
  <2> DEFINE o == [mine EXCEPT !.owned = TRUE]
  <2>1. /\ o.finalizer = mine.finalizer /\ o.status = mine.status /\ o.deleting = mine.deleting
        /\ mine # Absent
        /\ obj[me] = mine /\ obj' = [obj EXCEPT ![me] = o]
    BY <1>1, <1>4 DEF SetOwnerReference, Written, Object, IInv, CopiesAgree
  <2>2. at' # "status"
    BY <1>4 DEF SetOwnerReference, Written, Goto, Fail, Report
  <2> HIDE DEF o
  <2>3. QED BY <1>1, <2>1, <2>2, WrittenReady
<1>5. CASE RemoveFinalizer /\ obj' = [obj EXCEPT ![me] = Absent]
  <2>1. at' = "idle"
    BY <1>5 DEF RemoveFinalizer, Done
  <2>2. QED BY <1>1, <1>5, <2>1, WrittenReady
<1>6. CASE StatusWritten
  <2> DEFINE o == StatusApplied(cache[me])
  <2>1. /\ at = "status" /\ at' = "idle" /\ obj' = [obj EXCEPT ![me] = o]
        /\ cache[me] = obj[me] /\ obj[me] # Absent /\ obj[me] \in Object
    BY <1>1, <1>6 DEF StatusWritten, StatusAccepted, Done, IInv, CopiesAgree
  <2>2. /\ o.finalizer = obj[me].finalizer
        /\ o.status.ready = outcome.ready
        /\ o.status.uuid =
             IF mine.status.uuid # None THEN mine.status.uuid ELSE obj[me].status.uuid
    BY <2>1 DEF StatusApplied, Object, Status, Keep
  <2>3. outcome.ready /\ me \in TopLevel =>
            obj[me].finalizer /\ Exists(mine.status.uuid) /\ mine.status.uuid # None
    BY <1>1, <2>1 DEF IInv, GuardIsLasting, Guarded, ReadyIsBacked, Exists
  <2> HIDE DEF o
  <2>4. obj'[me] = o /\ \A h \in Groups : h # me => obj'[h] = obj[h]
    BY <1>1, <2>1
  <2>5. ASSUME NEW h \in TopLevel, obj'[h] # Absent, obj'[h].status.ready
        PROVE  obj'[h].finalizer /\ (~obj'[h].deleting => Exists(obj'[h].status.uuid))
    <3>1. CASE h = me
      BY <2>2, <2>3, <2>4, <2>5, <3>1
    <3>2. CASE h # me
      BY <2>4, <2>5, <3>2, TopFacts DEF ReadyIsBacked, ReadyTopGroupExists
    <3>3. QED BY <3>1, <3>2
  <2>6. QED BY <2>1, <2>5 DEF ReadyIsBacked, ReadyTopGroupExists, Exists
<1>7. QED
  BY <1>2, <1>3, <1>4, <1>5, <1>6, NotReady
  DEF EnsureFinalizer, RemoveFinalizer, SetOwnerReference, Goto, Done, Messages, cluster

\* The user and the informer.
LEMMA UserReady ==
    ASSUME IInv, ReadyIsBacked, NEW g \in Groups, Start(g) \/ User(g) \/ Sync(g), UNCHANGED kc
    PROVE  ReadyIsBacked'
<1>1. obj \in [Groups -> Object \cup {Absent}]
  BY DEF IInv, TypeOK
<1>2. CASE Start(g)
  BY <1>2, QuietReady DEF Start, cluster
<1>3. CASE Sync(g)
  BY <1>3 DEF Sync, worker, ReadyIsBacked, ReadyTopGroupExists, Exists
<1>4. ASSUME NEW o, Touched(g, o),
             o # Absent /\ o.status.ready =>
                 /\ obj[g] # Absent /\ obj[g].status = o.status
                 /\ obj[g].finalizer => o.finalizer
                 /\ ~o.deleting => ~obj[g].deleting
      PROVE  ReadyIsBacked'
  <2>1. obj' = [obj EXCEPT ![g] = o] /\ UNCHANGED <<at, me, mine, outcome>>
    BY <1>4 DEF Touched
  <2>2. QED BY <1>1, <1>4, <2>1, WrittenReady
<1>5. ASSUME NEW s \in Specs[g], Create(g, NewObject(s)) PROVE ReadyIsBacked'
  BY <1>4, <1>5 DEF Create, NewObject
<1>6. ASSUME NEW s \in Specs[g], Edit(g, s) PROVE ReadyIsBacked'
  <2> DEFINE o == [obj[g] EXCEPT !.spec = s]
  <2>1. Touched(g, o) /\ obj[g] # Absent /\ obj[g] \in Object
    BY <1>1, <1>6 DEF Edit
  <2>2. /\ o.finalizer = obj[g].finalizer /\ o.status = obj[g].status
        /\ o.deleting = obj[g].deleting
    BY <2>1 DEF Object
  <2> HIDE DEF o
  <2>3. QED BY <1>4, <2>1, <2>2
<1>7. CASE Delete(g)
  <2> DEFINE o == IF obj[g].finalizer THEN [obj[g] EXCEPT !.deleting = TRUE] ELSE Absent
  <2>1. Touched(g, o) /\ obj[g] # Absent /\ obj[g] \in Object
    BY <1>1, <1>7 DEF Delete
  <2>2. o # Absent => o.finalizer /\ o.status = obj[g].status /\ o.deleting
    BY <2>1 DEF Object
  <2> HIDE DEF o
  <2>3. QED BY <1>4, <2>1, <2>2
<1>8. QED BY <1>2, <1>3, <1>5, <1>6, <1>7 DEF User

\* Everyone else, as long as nobody takes groups away.
LEMMA OthersReady ==
    ASSUME "handDelete" \notin Disturbances, "realmDeleted" \notin Disturbances,
           IInv, ReadyIsBacked,
           \/ Others
           \/ (ConfigChanges \/ Crash) /\ UNCHANGED beyond
           \/ UNCHANGED vars
    PROVE  ReadyIsBacked'
<1>1. obj' = obj
  BY DEF Others, RealmChanges, ConsoleDeletes, ConsoleCreates, ConsoleEdits, ConfigChanges,
     Crash, vars, cluster
<1>2. UNCHANGED worker \/ at' = "idle"
  BY DEF Others, RealmChanges, ConsoleDeletes, ConsoleCreates, ConsoleEdits, ConfigChanges,
     Crash, Done, vars
<1>3. ASSUME NEW j \in Ids, kc[j] # Absent PROVE kc'[j] # Absent
  <2>1. CASE kc' = kc
    BY <1>3, <2>1
  <2>2. ASSUME NEW i \in Ids, ConsoleCreates(i) PROVE kc'[j] # Absent
    BY <1>3, <2>2, KeycloakFacts DEF ConsoleCreates, Unused
  <2>3. ASSUME NEW i \in Ids, ConsoleEdits(i) PROVE kc'[j] # Absent
    <3>1. PICK s \in SpecSet : kc' = [kc EXCEPT ![i].attrs = s.attrs]
      BY <2>3 DEF ConsoleEdits, SpecSet
    <3> DEFINE group == [kc[i] EXCEPT !.attrs = s.attrs]
    <3>2. kc[i] \in KcGroups
      BY <2>3, KeycloakFacts DEF ConsoleEdits, Exists
    <3>3. group \in KcGroups /\ kc' = [kc EXCEPT ![i] = group]
      BY <3>1, <3>2 DEF KcGroups
    <3>4. QED BY <1>3, <3>3, KeycloakFacts
  <2>4. QED
    BY <2>1, <2>2, <2>3 DEF Others, RealmChanges, ConsoleDeletes, ConfigChanges, Crash, Event,
       beyond, vars, keycloak
<1>4. QED BY <1>1, <1>2, <1>3, QuietReady DEF ReadyIsBacked, ReadyTopGroupExists, worker, Exists

\* A step keeps it so.
LEMMA NextReady ==
    ASSUME "handDelete" \notin Disturbances, "realmDeleted" \notin Disturbances,
           IInv, TracksNoOthers, TopLevelIsOnTop, DeletionIsLasting(Groups), ReadyIsBacked,
           [Next]_vars
    PROVE  ReadyIsBacked'
<1>1. CASE (ToGroup \/ StatusGone \/ RemoveFinalizer) /\ UNCHANGED beyond
  <2>1. UNCHANGED kc
    BY <1>1 DEF beyond, keycloak
  <2>2. CASE ClientReady \/ ClientNotReady(Pending) \/ ClientFails(NoClient) \/ StatusGone
    <3>1. UNCHANGED obj
      BY <2>2 DEF ClientReady, ClientNotReady, ClientFails, StatusGone, cluster
    <3>2. QED BY <2>1, <2>2, <3>1, WorkReady
  <2>3. QED BY <1>1, <2>1, <2>2, WriteReady DEF ToGroup
<1>2. CASE \/ ValidateRealm \/ KeepParent \/ ResolveParent \/ ResolveFails
           \/ FetchGroup \/ FetchFails \/ CreateFails \/ StoreGroupUUID
           \/ StatusSkipped \/ StatusConflict \/ DeleteFails
  <2>1. UNCHANGED <<obj, kc>>
    BY <1>2 DEF ValidateRealm, KeepParent, ResolveParent, ResolveFails, FetchGroup, FetchFails,
       CreateFails, StoreGroupUUID, StatusSkipped, StatusConflict, StatusRefused, DeleteFails,
       cluster, keycloak, beyond
  <2>2. QED BY <1>2, <2>1, WorkReady
<1>3. CASE SetOwnerReference \/ StatusWritten
  <2>1. UNCHANGED kc
    BY <1>3 DEF SetOwnerReference, StatusWritten, keycloak, beyond
  <2>2. QED BY <1>3, <2>1, WriteReady
<1>4. CASE Work
  BY <1>1, <1>2, <1>3, <1>4, GroupReady DEF Work
<1>5. ASSUME NEW g \in Groups, Start(g) \/ User(g) \/ Sync(g), UNCHANGED beyond
      PROVE  ReadyIsBacked'
  BY <1>5, UserReady DEF beyond, keycloak
<1>6. QED BY <1>4, <1>5, OthersReady DEF Next

\* As long as no two resources ask for one name and nobody but the operator makes groups or
\* takes them away, a top-level resource that is Ready and not being deleted names a group
\* that exists, however old the copies and whatever is deleted around it
\* (group_controller.go:520-530, 630-690).
THEOREM ReadyIsTrue ==
    ASSUME NoNamesakes, "handMade" \notin Disturbances, "handDelete" \notin Disturbances,
           "realmDeleted" \notin Disturbances
    PROVE  Spec => []ReadyTopGroupExists
<1> DEFINE J == /\ IInv /\ DeletionIsLasting(Groups) /\ NamesAreOwn /\ TracksNoOthers
                /\ TopLevelIsOnTop /\ ReadyIsBacked
<1>1. Init => J
  BY InitIInv, InitReady, TopFacts
  DEF Init, Empty, DeletionIsLasting, NamesAreOwn, TracksNoOthers, Exists
<1>2. J /\ [Next]_vars => J'
  BY NextIInv, NextDeletion, NextOwn, NextTop, NextReady
<1>3. J => ReadyTopGroupExists
  BY DEF ReadyIsBacked
<1>4. QED BY <1>1, <1>2, <1>3, PTL DEF Spec
=============================================================================
