-------------------------- MODULE RealmControllerProofs ------------------------
(***************************************************************************)
(* Theorems about RealmController for any resources, names, settings and   *)
(* bounds.  That IInv is inductive, and that each resource lives as        *)
(* ManagedResource says, holds even when two resources mean one realm;     *)
(* what the worker deletes, and what Ready says, need each resource to     *)
(* have a name of its own.                                                 *)
(***************************************************************************)
EXTENDS RealmController, TLAPS

USE BoundsAssumption, NamesAssumption, NoneAssumption, AbsentAssumption

\* The places and the bounds a reconcile starts and ends with.
LEMMA IdleType == "idle" \in Labels /\ 0 \in 0..MaxRetries /\ 1 \in 0..MaxRetries /\ 0 \in 0..MaxEvents
BY DEF Labels

\* The first state satisfies the inductive invariant.
LEMMA InitIInv == Init => IInv
<1> SUFFICES ASSUME Init PROVE IInv
  OBVIOUS
<1> USE DEF Init, Empty
<1>1. TypeOK
  BY IdleType DEF TypeOK
<1>2. CopiesAgree(Realms, {"finalizer"}) /\ GuardIsLasting(Realms) /\ PathsAreApart
  BY DEF CopiesAgree, GuardIsLasting, PathsAreApart, Guarded
<1>3. DeletingIsGuarded(Realms) /\ NoRealmLeftBehind /\ DeletionIsLasting(Realms)
  BY DEF DeletingIsGuarded, NoRealmLeftBehind, DeletionIsLasting
<1>4. QED BY <1>1, <1>2, <1>3 DEF IInv

\* Disturbances stay within their bound.
LEMMA EventsType ==
    ASSUME IInv, NEW kind, events' = events \/ Event(kind)
    PROVE  events' \in 0..MaxEvents
BY DEF IInv, TypeOK, Event

\* A reconcile that ends keeps the invariant, were realms deleted or not.
LEMMA DoneIInv ==
    ASSUME IInv, Done, UNCHANGED <<cluster, config>>, events' \in 0..MaxEvents,
           kc' \in [Names -> KcRealms \cup {Absent}],
           \A n \in Names : kc'[n] \in {kc[n], Absent}
    PROVE  IInv'
<1> USE DEF Done, cluster, IInv
<1>1. TypeOK'
  BY IdleType DEF TypeOK
<1>2. CopiesAgree(Realms, {"finalizer"})' /\ GuardIsLasting(Realms)' /\ PathsAreApart'
  BY DEF CopiesAgree, GuardIsLasting, PathsAreApart, Guarded
<1>3. DeletingIsGuarded(Realms)' /\ NoRealmLeftBehind' /\ DeletionIsLasting(Realms)'
  BY DEF DeletingIsGuarded, NoRealmLeftBehind, DeletionIsLasting, Guarded
<1>4. QED BY <1>1, <1>2, <1>3

\* A worker that goes on and writes no object keeps the invariant, if the place it comes
\* to is one its copy may be in, and if a realm it makes is for a copy that is guarded.
LEMMA WorkIInv ==
    ASSUME IInv, at # "idle", at' \in Labels \ {"idle"},
           UNCHANGED <<cluster, config, me, mine, fresh>>,
           events' \in 0..MaxEvents, tries' \in 0..MaxRetries, outcome' \in {TRUE, FALSE, None},
           at' = "status" => outcome' \in BOOLEAN,
           kc' \in [Names -> KcRealms \cup {Absent}],
           \A n \in Names : kc'[n] # Absent /\ kc'[n].cr # None =>
               \/ kc[n] # Absent /\ kc'[n].cr = kc[n].cr
               \/ n = Name /\ kc'[n].cr = me /\ mine.finalizer /\ ~mine.deleting,
           PathsAreApart', CopiesAgree(Realms, {"finalizer"})',
           at' = "finalizer" => at = "client"
    PROVE  IInv'
<1> USE DEF cluster, IInv
<1>1. TypeOK'
  BY DEF TypeOK
<1>2. GuardIsLasting(Realms)' /\ DeletingIsGuarded(Realms)'
  BY DEF GuardIsLasting, DeletingIsGuarded, Guarded
<1>3. NoRealmLeftBehind'
  BY DEF NoRealmLeftBehind, GuardIsLasting, Guarded, Name
<1>4. DeletionIsLasting(Realms)'
  BY DEF DeletionIsLasting, CopiesAgree, Guarded
<1>5. QED BY <1>1, <1>2, <1>3, <1>4

\* What the worker may rely on.
LEMMA CopyFacts ==
    ASSUME IInv, at # "idle"
    PROVE  /\ me \in Realms /\ mine \in Object /\ Name \in Names
           /\ kc \in [Names -> KcRealms \cup {Absent}]
           /\ events \in 0..MaxEvents /\ tries \in 0..MaxRetries
           /\ outcome \in {TRUE, FALSE, None} /\ (at = "status" => outcome \in BOOLEAN)
BY DEF IInv, TypeOK, Name
-----------------------------------------------------------------------------
(* The worker.                                                              *)

\* Going to write an outcome.
LEMMA ReportIInv ==
    ASSUME IInv, at # "idle", NEW o \in BOOLEAN, Report(o),
           UNCHANGED <<mine, cluster, config>>, events' \in 0..MaxEvents,
           kc' \in [Names -> KcRealms \cup {Absent}],
           \A n \in Names : kc'[n] # Absent /\ kc'[n].cr # None =>
               \/ kc[n] # Absent /\ kc'[n].cr = kc[n].cr
               \/ n = Name /\ kc'[n].cr = me /\ mine.finalizer /\ ~mine.deleting
    PROVE  IInv'
<1>1. /\ at' = "status" /\ at' \in Labels \ {"idle"} /\ UNCHANGED <<me, fresh>>
      /\ tries' \in 0..MaxRetries /\ outcome' \in BOOLEAN
  BY IdleType DEF Report, Labels
<1>2. PathsAreApart' /\ CopiesAgree(Realms, {"finalizer"})'
  BY <1>1 DEF IInv, PathsAreApart, CopiesAgree, cluster
<1>3. QED BY <1>1, <1>2, WorkIInv

\* Beginning a reconcile: the copy is the cache's.
LEMMA StartIInv ==
    ASSUME IInv, NEW r \in Realms, Start(r), UNCHANGED kc
    PROVE  IInv'
<1> USE DEF Start, cluster, IInv
<1>1. TypeOK'
  BY DEF TypeOK, Labels
<1>2. CopiesAgree(Realms, {"finalizer"})' /\ GuardIsLasting(Realms)' /\ PathsAreApart'
  BY DEF TypeOK, CopiesAgree, GuardIsLasting, PathsAreApart, Guarded
<1>3. DeletingIsGuarded(Realms)' /\ NoRealmLeftBehind' /\ DeletionIsLasting(Realms)'
  BY DEF TypeOK, DeletingIsGuarded, NoRealmLeftBehind, DeletionIsLasting, Guarded
<1>4. QED BY <1>1, <1>2, <1>3

\* Looking at the config.
LEMMA ConfigIInv ==
    ASSUME IInv, ClientReady \/ ClientNotReady(FALSE) \/ ClientFails(FALSE), UNCHANGED kc
    PROVE  IInv'
<1> USE DEF ClientReady, ClientNotReady, ClientFails
<1>1. at = "client" /\ at # "idle" /\ UNCHANGED <<cluster, config>> /\ events' \in 0..MaxEvents
  BY EventsType
<1>2. CASE Done
  BY <1>1, <1>2, CopyFacts, DoneIInv
<1>3. CASE Report(FALSE) /\ UNCHANGED mine
  BY <1>1, <1>3, CopyFacts, ReportIInv
<1>4. CASE ClientReady
  <2>1. /\ at' \in {"delete", "finalizer"} /\ at' \in Labels \ {"idle"}
        /\ UNCHANGED <<mine, me, fresh, outcome, tries>>
    BY <1>4 DEF Goto, Labels
  <2>2. PathsAreApart'
    BY <1>4, <2>1 DEF Goto, PathsAreApart
  <2>3. CopiesAgree(Realms, {"finalizer"})'
    BY <1>1, <2>1 DEF IInv, CopiesAgree, cluster
  <2>4. QED
    BY <1>1, <2>1, <2>2, <2>3, CopyFacts, WorkIInv
<1>5. QED BY <1>2, <1>3, <1>4

\* The finalizer.
LEMMA EnsureFinalizerIInv ==
    ASSUME IInv, EnsureFinalizer("get"), UNCHANGED kc
    PROVE  IInv'
<1>1. at = "finalizer" /\ at # "idle" /\ ~mine.deleting /\ UNCHANGED <<config, events>>
  BY DEF EnsureFinalizer, IInv, PathsAreApart
<1>2. CASE Done /\ UNCHANGED cluster
  BY <1>1, <1>2, CopyFacts, DoneIInv
<1>3. CASE mine.finalizer /\ Goto("get") /\ UNCHANGED <<mine, cluster>>
  <2>1. at' = "get" /\ at' \in Labels \ {"idle"} /\ UNCHANGED <<me, fresh, outcome, tries>>
    BY <1>3 DEF Goto, Labels
  <2>2. PathsAreApart' /\ CopiesAgree(Realms, {"finalizer"})'
    BY <1>1, <1>3, <2>1 DEF IInv, PathsAreApart, CopiesAgree, cluster
  <2>3. QED BY <1>1, <1>3, <2>1, <2>2, CopyFacts, WorkIInv
<1>4. CASE Written([mine EXCEPT !.finalizer = TRUE]) /\ Goto("get")
  <2> DEFINE o == [mine EXCEPT !.finalizer = TRUE]
  <2> USE DEF Written, Goto
  <2>1. o \in Object /\ o.finalizer /\ ~o.deleting /\ o # Absent /\ me \in Realms
    BY <1>1, CopyFacts DEF Object
  <2>2. /\ fresh /\ obj[me] = mine /\ cache[me] = mine
        /\ obj' = [obj EXCEPT ![me] = o] /\ mine' = o /\ cache' = cache
        /\ me' = me
    BY <1>1, <1>4 DEF IInv, CopiesAgree, DeletionIsLasting
  <2> HIDE DEF o
  <2>3. TypeOK'
    BY <1>1, <1>4, <2>1, <2>2, IdleType DEF IInv, TypeOK, Labels
  <2>4. CopiesAgree(Realms, {"finalizer"})' /\ PathsAreApart'
    BY <1>1, <1>4, <2>1, <2>2 DEF IInv, TypeOK, CopiesAgree, PathsAreApart
  <2>5. /\ \A r \in Realms : r = me \/ Guarded(r) => Guarded(r)'
        /\ \A r \in Realms : r # me => obj'[r] = obj[r] /\ (Guarded(r)' <=> Guarded(r))
    <3>1. obj \in [Realms -> Object \cup {Absent}]
      BY DEF IInv, TypeOK
    <3>2. obj'[me] = o /\ \A r \in Realms : r # me => obj'[r] = obj[r]
      BY <2>1, <2>2, <3>1
    <3>3. \A r \in Realms : r = me => Guarded(r)'
      BY <2>1, <3>2 DEF Guarded
    <3>4. \A r \in Realms : r # me => (Guarded(r)' <=> Guarded(r))
      BY <3>2 DEF Guarded
    <3>5. QED BY <3>2, <3>3, <3>4
  <2>6. GuardIsLasting(Realms)' /\ DeletingIsGuarded(Realms)'
    BY <1>1, <1>4, <2>1, <2>2, <2>5 DEF IInv, TypeOK, GuardIsLasting, DeletingIsGuarded
  <2>7. NoRealmLeftBehind'
    BY <1>1, <2>1, <2>5 DEF IInv, TypeOK, NoRealmLeftBehind, KcRealms
  <2>8. DeletionIsLasting(Realms)'
    BY <1>1, <1>4, <2>1, <2>2, <2>5 DEF IInv, TypeOK, DeletionIsLasting
  <2>9. QED BY <2>3, <2>4, <2>6, <2>7, <2>8 DEF IInv
<1>5. QED BY <1>2, <1>3, <1>4 DEF EnsureFinalizer

\* Between the finalizer and the status, the worker works on the realm of its name.
LEMMA RealmIInv ==
    ASSUME IInv, GetRealm \/ RealmFails \/ CreateRealm \/ CreateConflict \/ UpdateRealm
    PROVE  IInv'
<1> USE DEF GetRealm, RealmFails, CreateRealm, CreateConflict, UpdateRealm
<1>1. /\ at \in {"get", "create", "update"} /\ at # "idle" /\ UNCHANGED <<cluster, config>>
      /\ mine.finalizer /\ ~mine.deleting
  BY DEF IInv, PathsAreApart
<1>2. events' \in 0..MaxEvents
  BY EventsType
<1>3. CASE CreateConflict
  BY <1>1, <1>2, <1>3, CopyFacts, DoneIInv
<1>4. ASSUME NEW l \in {"create", "update"}, Goto(l), UNCHANGED <<mine, kc>> PROVE IInv'
  <2>1. at' = l /\ at' \in Labels \ {"idle"} /\ UNCHANGED <<me, fresh, outcome, tries>>
    BY <1>4 DEF Goto, Labels
  <2>2. PathsAreApart' /\ CopiesAgree(Realms, {"finalizer"})'
    BY <1>1, <1>4, <2>1 DEF IInv, PathsAreApart, CopiesAgree, cluster
  <2>3. QED BY <1>1, <1>2, <1>4, <2>1, <2>2, CopyFacts, WorkIInv
<1>5. ASSUME NEW o \in BOOLEAN, Report(o), UNCHANGED mine,
             \/ kc' = kc
             \/ There /\ kc' = [kc EXCEPT ![Name].settings = mine.spec]
             \/ kc' = [kc EXCEPT ![Name] = [settings |-> mine.spec, cr |-> me]]
      PROVE  IInv'
  <2>1. mine.spec \in Settings
    BY <1>1, CopyFacts DEF Object
  <2>2. kc' \in [Names -> KcRealms \cup {Absent}]
    BY <1>1, <1>5, <2>1, CopyFacts DEF KcRealms, There
  <2>3. \A n \in Names : kc'[n] # Absent /\ kc'[n].cr # None =>
               \/ kc[n] # Absent /\ kc'[n].cr = kc[n].cr
               \/ n = Name /\ kc'[n].cr = me
    BY <1>1, <1>5, CopyFacts DEF KcRealms, There
  <2>4. QED BY <1>1, <1>2, <1>5, <2>2, <2>3, CopyFacts, ReportIInv
<1>6. QED BY <1>3, <1>4, <1>5

\* A status is written on the current object.
LEMMA StatusIInv ==
    ASSUME IInv, StatusGone \/ StatusRefused \/ StatusWritten, UNCHANGED kc
    PROVE  IInv'
<1>1. at = "status" /\ at # "idle" /\ UNCHANGED <<config, events>>
  BY DEF StatusGone, StatusRefused, StatusWritten, StatusAccepted
<1>2. CASE Done /\ UNCHANGED cluster
  BY <1>1, <1>2, CopyFacts, DoneIInv
<1>3. CASE /\ tries < MaxRetries /\ tries' = tries + 1
           /\ UNCHANGED <<cluster, at, me, mine, fresh, outcome>>
  <2>1. tries' \in 0..MaxRetries /\ at' \in Labels \ {"idle"}
    BY <1>1, <1>3, CopyFacts DEF Labels
  <2>2. PathsAreApart' /\ CopiesAgree(Realms, {"finalizer"})'
    BY <1>1, <1>3 DEF IInv, PathsAreApart, CopiesAgree, cluster
  <2>3. QED BY <1>1, <1>3, <2>1, <2>2, CopyFacts, WorkIInv
<1>4. CASE StatusWritten
  <2> DEFINE o == [cache[me] EXCEPT !.ready = outcome]
  <2>1. /\ me \in Realms /\ Done /\ cache' = cache /\ stale' = stale \cup {me}
        /\ obj' = [obj EXCEPT ![me] = o]
        /\ obj[me] = cache[me] /\ obj[me] # Absent /\ obj[me] \in Object
    BY <1>1, <1>4 DEF StatusWritten, StatusAccepted, IInv, TypeOK, CopiesAgree
  <2>2. outcome \in BOOLEAN
    BY <1>1, <1>4 DEF IInv, TypeOK
  <2>3. /\ o \in Object /\ o # Absent /\ o.finalizer = obj[me].finalizer
        /\ o.deleting = obj[me].deleting
    BY <2>1, <2>2 DEF Object
  <2> HIDE DEF o
  <2>4. TypeOK'
    BY <1>1, <2>1, <2>3, IdleType DEF IInv, TypeOK, Done
  <2>5. CopiesAgree(Realms, {"finalizer"})' /\ PathsAreApart'
    BY <2>1 DEF IInv, TypeOK, CopiesAgree, PathsAreApart, Done
  <2>6. \A r \in Realms : /\ Guarded(r)' = Guarded(r)
                          /\ obj'[r] # Absent => /\ obj[r] # Absent
                                                 /\ obj'[r].deleting = obj[r].deleting
                                                 /\ obj'[r].finalizer = obj[r].finalizer
    BY <2>1, <2>3 DEF IInv, TypeOK, Guarded
  <2>7. GuardIsLasting(Realms)' /\ DeletingIsGuarded(Realms)'
    BY <2>1, <2>6 DEF IInv, GuardIsLasting, DeletingIsGuarded, Done
  <2>8. NoRealmLeftBehind' /\ DeletionIsLasting(Realms)'
    BY <2>1, <2>6 DEF IInv, TypeOK, NoRealmLeftBehind, KcRealms, DeletionIsLasting, Done, Guarded
  <2>9. QED BY <2>4, <2>5, <2>7, <2>8 DEF IInv
<1>5. QED BY <1>2, <1>3, <1>4 DEF StatusGone, StatusRefused

\* Deleting the realm.
LEMMA DeleteIInv ==
    ASSUME IInv, DeleteRealm \/ DeleteFails
    PROVE  IInv'
<1> USE DEF DeleteRealm, DeleteFails
<1>1. /\ at = "delete" /\ at # "idle" /\ mine.deleting /\ UNCHANGED <<cluster, config>>
  BY DEF IInv, PathsAreApart
<1>2. events' \in 0..MaxEvents
  BY EventsType
<1>3. /\ kc' \in [Names -> KcRealms \cup {Absent}]
      /\ \A n \in Names : kc'[n] \in {kc[n], Absent}
  BY <1>1, CopyFacts
<1>4. CASE Done
  BY <1>1, <1>2, <1>3, <1>4, DoneIInv
<1>5. CASE DeleteRealm /\ Goto("unfinalize")
  <2>1. /\ at' = "unfinalize" /\ at' \in Labels \ {"idle"} /\ kc'[Name] = Absent
        /\ UNCHANGED <<mine, me, fresh, outcome, tries>>
    BY <1>1, <1>5, CopyFacts DEF Goto, Done, Labels
  <2>2. PathsAreApart' /\ CopiesAgree(Realms, {"finalizer"})'
    BY <1>1, <2>1 DEF IInv, PathsAreApart, CopiesAgree, cluster, Name
  <2>3. QED BY <1>1, <1>2, <1>3, <2>1, <2>2, CopyFacts, WorkIInv
<1>6. QED BY <1>4, <1>5

\* Removing the finalizer, and with it the object: its realm is gone.
LEMMA RemoveFinalizerIInv ==
    ASSUME IInv, RemoveFinalizer, UNCHANGED kc
    PROVE  IInv'
<1> USE DEF RemoveFinalizer
<1>1. at = "unfinalize" /\ at # "idle" /\ mine.deleting /\ Done /\ UNCHANGED <<config, events>>
  BY DEF IInv, PathsAreApart
<1>2. CASE UNCHANGED cluster
  BY <1>1, <1>2, CopyFacts, DoneIInv
<1>3. CASE /\ fresh /\ obj' = [obj EXCEPT ![me] = Absent]
           /\ stale' = stale \cup {me} /\ cache' = cache
  <2> USE DEF Done
  <2>1. /\ me \in Realms /\ obj[me] = mine /\ cache[me] = mine /\ mine.deleting
        /\ kc[Name] = Absent \/ kc[Name].cr # me
    BY <1>1, <1>3 DEF IInv, TypeOK, CopiesAgree, PathsAreApart
  <2>2. TypeOK'
    BY <1>1, <1>3, <2>1, IdleType DEF IInv, TypeOK
  <2>3. CopiesAgree(Realms, {"finalizer"})' /\ PathsAreApart'
    BY <1>1, <1>3 DEF IInv, TypeOK, CopiesAgree, PathsAreApart
  <2>4. GuardIsLasting(Realms)' /\ DeletingIsGuarded(Realms)'
    BY <1>1, <1>3, <2>1 DEF IInv, TypeOK, Guarded, GuardIsLasting, DeletingIsGuarded
  <2>5. NoRealmLeftBehind'
    BY <1>1, <1>3, <2>1 DEF IInv, TypeOK, NoRealmLeftBehind, KcRealms, Guarded, Name
  <2>6. DeletionIsLasting(Realms)'
    BY <1>1, <1>3, <2>1 DEF IInv, TypeOK, DeletionIsLasting, Guarded
  <2>7. QED BY <2>2, <2>3, <2>4, <2>5, <2>6 DEF IInv
<1>4. QED BY <1>2, <1>3
-----------------------------------------------------------------------------
(* Everyone else.                                                           *)

\* A write by another client of the API server that adds and removes no finalizer, and
\* takes no mark of deletion back.
LEMMA TouchedIInv ==
    ASSUME IInv, NEW r \in Realms, NEW o \in Object \cup {Absent}, Touched(r, o),
           UNCHANGED kc, events' \in 0..MaxEvents,
           Guarded(r) <=> o # Absent /\ o.finalizer,
           o # Absent /\ o.deleting => o.finalizer,
           Guarded(r) /\ obj[r].deleting => o.deleting
    PROVE  IInv'
<1> USE DEF Touched
<1>1. TypeOK'
  BY DEF IInv, TypeOK
<1>2. CopiesAgree(Realms, {"finalizer"})' /\ PathsAreApart'
  BY DEF IInv, TypeOK, CopiesAgree, PathsAreApart, Name
<1>3. \A q \in Realms : Guarded(q)' = Guarded(q)
  BY DEF IInv, TypeOK, Guarded
<1>4. GuardIsLasting(Realms)' /\ DeletingIsGuarded(Realms)'
  BY <1>3 DEF IInv, TypeOK, GuardIsLasting, DeletingIsGuarded
<1>5. NoRealmLeftBehind'
  BY <1>3 DEF IInv, TypeOK, NoRealmLeftBehind, KcRealms
<1>6. DeletionIsLasting(Realms)'
  BY <1>3 DEF IInv, TypeOK, DeletionIsLasting
<1>7. QED BY <1>1, <1>2, <1>4, <1>5, <1>6 DEF IInv

\* The user.
LEMMA UserIInv ==
    ASSUME IInv, NEW r \in Realms, User(r), UNCHANGED kc
    PROVE  IInv'
<1>1. events' \in 0..MaxEvents
  BY EventsType DEF User, Create, Edit, Delete
<1>2. ASSUME NEW s \in Settings, Create(r, NewObject(s)) PROVE IInv'
  <2>1. Touched(r, NewObject(s)) /\ obj[r] = Absent
    BY <1>2 DEF Create
  <2>2. NewObject(s) \in Object /\ ~NewObject(s).finalizer /\ ~NewObject(s).deleting
    BY DEF NewObject, Object
  <2>3. QED BY <1>1, <1>2, <2>1, <2>2, TouchedIInv DEF Guarded
<1>3. ASSUME NEW s \in Settings, Edit(r, s) PROVE IInv'
  <2> DEFINE o == [obj[r] EXCEPT !.spec = s]
  <2>1. Touched(r, o) /\ obj[r] # Absent /\ obj[r] \in Object
    BY <1>3 DEF Edit, IInv, TypeOK
  <2>2. o \in Object /\ o.deleting = obj[r].deleting /\ o.finalizer = obj[r].finalizer
    BY <1>3, <2>1 DEF Object
  <2>3. QED
    BY <1>1, <1>3, <2>1, <2>2, TouchedIInv DEF IInv, DeletingIsGuarded, Guarded
<1>4. CASE Delete(r)
  <2>1. obj[r] # Absent /\ obj[r] \in Object
    BY <1>4 DEF Delete, IInv, TypeOK
  <2>2. CASE obj[r].finalizer
    <3> DEFINE o == [obj[r] EXCEPT !.deleting = TRUE]
    <3>1. o \in Object /\ o.finalizer /\ o.deleting
      BY <2>1, <2>2 DEF Object
    <3>2. QED BY <1>1, <1>4, <2>1, <2>2, <3>1, TouchedIInv DEF Delete, Guarded
  <2>3. CASE ~obj[r].finalizer
    BY <1>1, <1>4, <2>1, <2>3, TouchedIInv DEF Delete, Guarded
  <2>4. QED BY <2>2, <2>3
<1>5. QED BY <1>2, <1>3, <1>4 DEF User

\* The informer.
LEMMA SyncIInv ==
    ASSUME IInv, NEW r \in Realms, Sync(r), UNCHANGED kc
    PROVE  IInv'
<1> USE DEF Sync, worker
<1>1. TypeOK'
  BY DEF IInv, TypeOK
<1>2. CopiesAgree(Realms, {"finalizer"})' /\ PathsAreApart'
  BY DEF IInv, TypeOK, CopiesAgree, PathsAreApart, Name
<1>3. GuardIsLasting(Realms)' /\ DeletingIsGuarded(Realms)'
  BY DEF IInv, TypeOK, Guarded, GuardIsLasting, DeletingIsGuarded
<1>4. NoRealmLeftBehind' /\ DeletionIsLasting(Realms)'
  BY DEF IInv, TypeOK, NoRealmLeftBehind, DeletionIsLasting, CopiesAgree, Guarded
<1>5. QED BY <1>1, <1>2, <1>3, <1>4 DEF IInv

\* The config and the Keycloak console: the realms that stay keep their makers.
LEMMA ElsewhereIInv ==
    ASSUME IInv, UNCHANGED <<cluster, worker>>, events' \in 0..MaxEvents,
           config' \in {"ready", "notReady", "absent"},
           kc' \in [Names -> KcRealms \cup {Absent}],
           \A n \in Names : kc'[n] # Absent /\ kc'[n].cr # None =>
               kc[n] # Absent /\ kc'[n].cr = kc[n].cr
    PROVE  IInv'
<1> USE DEF cluster, worker
<1>1. TypeOK'
  BY DEF IInv, TypeOK
<1>2. CopiesAgree(Realms, {"finalizer"})' /\ GuardIsLasting(Realms)'
  BY DEF IInv, CopiesAgree, GuardIsLasting, Guarded
<1>3. PathsAreApart'
  <2>1. at = "unfinalize" => Name \in Names /\ me # None /\ me \in Realms
    BY DEF IInv, TypeOK, Name
  <2>2. QED BY <2>1 DEF IInv, PathsAreApart, Name
<1>4. DeletingIsGuarded(Realms)' /\ NoRealmLeftBehind' /\ DeletionIsLasting(Realms)'
  BY DEF IInv, DeletingIsGuarded, NoRealmLeftBehind, DeletionIsLasting, Guarded
<1>5. QED BY <1>1, <1>2, <1>3, <1>4 DEF IInv

\* The administrator.
LEMMA ConsoleIInv ==
    ASSUME IInv, NEW n \in Names, Console(n)
    PROVE  IInv'
<1>1. /\ events' \in 0..MaxEvents /\ UNCHANGED <<cluster, config, worker>>
      /\ kc \in [Names -> KcRealms \cup {Absent}] /\ config \in {"ready", "notReady", "absent"}
  BY EventsType DEF Console, IInv, TypeOK
<1>2. /\ kc' \in [Names -> KcRealms \cup {Absent}]
      /\ \A m \in Names : kc'[m] # Absent /\ kc'[m].cr # None =>
             kc[m] # Absent /\ kc'[m].cr = kc[m].cr
  <2>1. CASE kc' = [kc EXCEPT ![n] = Absent]
    BY <1>1, <2>1
  <2>2. ASSUME NEW s \in Settings, kc' = [kc EXCEPT ![n] = [settings |-> s, cr |-> None]]
        PROVE  /\ kc' \in [Names -> KcRealms \cup {Absent}]
               /\ \A m \in Names : kc'[m] # Absent /\ kc'[m].cr # None =>
                      kc[m] # Absent /\ kc'[m].cr = kc[m].cr
    BY <1>1, <2>2 DEF KcRealms
  <2>3. ASSUME NEW s \in Settings, kc[n] # Absent, kc' = [kc EXCEPT ![n].settings = s]
        PROVE  /\ kc' \in [Names -> KcRealms \cup {Absent}]
               /\ \A m \in Names : kc'[m] # Absent /\ kc'[m].cr # None =>
                      kc[m] # Absent /\ kc'[m].cr = kc[m].cr
    BY <1>1, <2>3 DEF KcRealms
  <2>4. QED BY <2>1, <2>2, <2>3 DEF Console
<1>3. QED BY <1>1, <1>2, ElsewhereIInv

\* Every step preserves the inductive invariant.
LEMMA NextIInv == IInv /\ [Next]_vars => IInv'
<1> SUFFICES ASSUME IInv, [Next]_vars PROVE IInv'
  OBVIOUS
<1>1. ASSUME NEW r \in Realms, Start(r) \/ User(r) \/ Sync(r), UNCHANGED kc PROVE IInv'
  BY <1>1, StartIInv, UserIInv, SyncIInv
<1>2. CASE Work
  BY <1>2, ConfigIInv, EnsureFinalizerIInv, RealmIInv, StatusIInv, DeleteIInv,
     RemoveFinalizerIInv DEF Work, ToRealm, FromRealm
<1>3. CASE ConfigChanges /\ UNCHANGED kc
  <2>1. /\ events' \in 0..MaxEvents /\ UNCHANGED <<cluster, worker>>
        /\ config' \in {"ready", "notReady", "absent"} /\ kc \in [Names -> KcRealms \cup {Absent}]
    BY <1>3, EventsType DEF ConfigChanges, IInv, TypeOK
  <2>2. QED BY <1>3, <2>1, ElsewhereIInv
<1>4. CASE Crash /\ UNCHANGED kc
  <2>1. events' \in 0..MaxEvents /\ kc \in [Names -> KcRealms \cup {Absent}]
    BY <1>4, EventsType DEF Crash, IInv, TypeOK
  <2>2. QED BY <1>4, <2>1, DoneIInv DEF Crash
<1>5. CASE UNCHANGED vars
  BY <1>5 DEF vars, cluster, worker, IInv, TypeOK, CopiesAgree, GuardIsLasting, PathsAreApart,
     DeletingIsGuarded, NoRealmLeftBehind, DeletionIsLasting, Guarded, Name
<1>6. QED
  BY <1>1, <1>2, <1>3, <1>4, <1>5, ConsoleIInv DEF Next

\* The inductive invariant always holds, whatever the names: no Keycloak realm the
\* operator made outlives the resource it was made for.
THEOREM Invariance == Spec => []IInv
BY InitIInv, NextIInv, PTL DEF Spec

\* Every variable of the controller has its type.
THEOREM TypeCorrect == Spec => []TypeOK
<1>1. IInv => TypeOK
  BY DEF IInv
<1>2. QED BY <1>1, Invariance, PTL
-----------------------------------------------------------------------------
(* Each Realm resource implements ManagedResource, namesakes or not.        *)

\* What becomes of r in a step.
ManagedStep(r) == Managed(r)!Next \/ UNCHANGED Managed(r)!vars

\* What is in Keycloak, and among the objects.
LEMMA StoreFacts ==
    ASSUME IInv
    PROVE  /\ kc \in [Names -> KcRealms \cup {Absent}]
           /\ obj \in [Realms -> Object \cup {Absent}]
           /\ \A n \in Names : kc[n] # Absent => kc[n] \in KcRealms
BY DEF IInv, TypeOK

\* A step that leaves the object's life alone and makes no realm for it loses realms or
\* does nothing.
LEMMA LoseStep ==
    ASSUME NEW r \in Realms, Life(r)' = Life(r), Tracked(r)' = Tracked(r),
           \A n \in Names : kc'[n] # Absent /\ kc'[n].cr = r => kc[n] # Absent /\ kc[n].cr = r
    PROVE  ManagedStep(r)
<1> DEFINE S == {n \in Names : /\ kc[n] # Absent /\ kc[n].cr = r
                               /\ ~(kc'[n] # Absent /\ kc'[n].cr = r)}
<1>1. LiveOf(r)' = LiveOf(r) \ S
  BY DEF LiveOf
<1>2. Managed(r)!Lose(S)
  BY <1>1 DEF Managed!Lose
<1>3. QED BY <1>2 DEF ManagedStep, Managed!Next

\* The same, when no object is written.
LEMMA QuietStep ==
    ASSUME NEW r \in Realms, obj' = obj,
           \/ kc' = kc
           \/ \A n \in Names : kc'[n] # Absent => kc[n] # Absent /\ kc'[n].cr = kc[n].cr
    PROVE  ManagedStep(r)
BY LoseStep DEF Life, Tracked

\* A realm is made only for a resource that has the finalizer.
LEMMA CreateStep ==
    ASSUME IInv, NEW r \in Realms, CreateRealm
    PROVE  ManagedStep(r)
<1> DEFINE made == [settings |-> mine.spec, cr |-> me]
<1>1. /\ obj' = obj /\ ~There /\ kc' = [kc EXCEPT ![Name] = made]
      /\ Guarded(me) /\ me \in Realms /\ Name \in Names /\ mine \in Object
  BY CopyFacts DEF CreateRealm, cluster, IInv, PathsAreApart, GuardIsLasting
<1>2. made \in KcRealms /\ made.cr = me
  BY <1>1 DEF KcRealms, Object
<1> HIDE DEF made
<1>3. kc'[Name] = made /\ made # Absent /\ \A n \in Names : n # Name => kc'[n] = kc[n]
  BY <1>1, <1>2, StoreFacts
<1>4. CASE r # me
  <2>1. \A n \in Names : kc'[n] # Absent /\ kc'[n].cr = r => kc[n] # Absent /\ kc[n].cr = r
    BY <1>2, <1>3, <1>4
  <2>2. QED BY <1>1, <2>1, LoseStep DEF Life, Tracked
<1>5. CASE r = me
  <2>1. Life(r) = "guarded" /\ Life(r)' = Life(r) /\ Tracked(r)' = Tracked(r)
    BY <1>1, <1>5 DEF Life, Tracked, Guarded
  <2>2. Name \notin LiveOf(r)
    BY <1>1 DEF LiveOf, There
  <2>3. LiveOf(r)' = LiveOf(r) \cup {Name}
    BY <1>1, <1>2, <1>3, <1>5 DEF LiveOf, There
  <2>4. Managed(r)!Provision(Name)
    BY <2>1, <2>2, <2>3 DEF Managed!Provision
  <2>5. QED BY <1>1, <2>4 DEF ManagedStep, Managed!Next
<1>6. QED BY <1>4, <1>5

\* The other work on the realm takes it away, changes its settings, or leaves it.
LEMMA RealmStep ==
    ASSUME IInv, NEW r \in Realms,
           \/ GetRealm \/ RealmFails \/ CreateConflict \/ UpdateRealm \/ DeleteRealm \/ DeleteFails
    PROVE  ManagedStep(r)
<1>1. obj' = obj
  BY DEF GetRealm, RealmFails, CreateConflict, UpdateRealm, DeleteRealm, DeleteFails, cluster
<1>2. CASE kc' = kc
  BY <1>1, <1>2, QuietStep
<1>3. CASE kc' = [kc EXCEPT ![Name] = Absent]
  <2>1. \A n \in Names : kc'[n] # Absent => kc'[n] = kc[n]
    BY <1>3, StoreFacts
  <2>2. QED BY <1>1, <2>1, QuietStep
<1>4. CASE There /\ kc' = [kc EXCEPT ![Name].settings = mine.spec] /\ at # "idle"
  <2> DEFINE changed == [kc[Name] EXCEPT !.settings = mine.spec]
  <2>1. changed.cr = kc[Name].cr /\ kc' = [kc EXCEPT ![Name] = changed] /\ Name \in Names
    BY <1>4, StoreFacts, CopyFacts DEF There, KcRealms
  <2>2. \A n \in Names : kc'[n] # Absent => kc[n] # Absent /\ kc'[n].cr = kc[n].cr
    BY <1>4, <2>1, StoreFacts DEF There
  <2>3. QED BY <1>1, <2>2, QuietStep
<1>5. QED
  BY <1>2, <1>3, <1>4
  DEF GetRealm, RealmFails, CreateConflict, UpdateRealm, DeleteRealm, DeleteFails

\* The finalizer is added to a bare object; a status write leaves its life alone.
LEMMA WriteStep ==
    ASSUME IInv, NEW r \in Realms, EnsureFinalizer("get") \/ StatusWritten, UNCHANGED kc
    PROVE  ManagedStep(r)
<1>1. at # "idle" /\ me \in Realms /\ mine \in Object /\ obj \in [Realms -> Object \cup {Absent}]
  BY CopyFacts, StoreFacts DEF EnsureFinalizer, StatusWritten, StatusAccepted
<1>2. LiveOf(r)' = LiveOf(r)
  BY DEF LiveOf
<1>3. CASE obj' = obj
  BY <1>3, QuietStep
<1>4. CASE StatusWritten
  <2> DEFINE o == [cache[me] EXCEPT !.ready = outcome]
  <2>1. /\ obj' = [obj EXCEPT ![me] = o] /\ cache[me] = obj[me] /\ obj[me] # Absent
        /\ obj[me] \in Object /\ outcome \in BOOLEAN
    BY <1>1, <1>4, CopyFacts DEF StatusWritten, StatusAccepted, IInv, CopiesAgree
  <2>2. o \in Object /\ o.finalizer = obj[me].finalizer
    BY <2>1 DEF Object
  <2> HIDE DEF o
  <2>3. obj'[me] = o /\ o # Absent /\ \A q \in Realms : q # me => obj'[q] = obj[q]
    BY <1>1, <2>1, <2>2
  <2>4. Life(r)' = Life(r) /\ Tracked(r)' = Tracked(r)
    BY <2>1, <2>2, <2>3 DEF Life, Tracked
  <2>5. QED BY <2>4, LoseStep
<1>5. CASE EnsureFinalizer("get") /\ ~mine.finalizer /\ Written([mine EXCEPT !.finalizer = TRUE])
  <2> DEFINE o == [mine EXCEPT !.finalizer = TRUE]
  <2>1. /\ obj[me] = mine /\ mine # Absent /\ obj' = [obj EXCEPT ![me] = o]
        /\ o \in Object /\ o.finalizer
    BY <1>1, <1>5 DEF EnsureFinalizer, Written, IInv, CopiesAgree, Object
  <2> HIDE DEF o
  <2>2. obj'[me] = o /\ o # Absent /\ \A q \in Realms : q # me => obj'[q] = obj[q]
    BY <1>1, <2>1
  <2>3. CASE r = me
    <3>1. Life(r) = "bare" /\ Life(r)' = "guarded" /\ Tracked(r)' = Tracked(r)
      BY <1>5, <2>1, <2>2, <2>3 DEF Life, Tracked
    <3>2. Managed(r)!Guard
      BY <1>2, <3>1 DEF Managed!Guard
    <3>3. QED BY <3>2 DEF ManagedStep, Managed!Next
  <2>4. CASE r # me
    <3>1. Life(r)' = Life(r) /\ Tracked(r)' = Tracked(r)
      BY <2>2, <2>4 DEF Life, Tracked
    <3>2. QED BY <3>1, LoseStep
  <2>5. QED BY <2>3, <2>4
<1>6. QED
  BY <1>3, <1>4, <1>5 DEF EnsureFinalizer, cluster

\* An object goes only when the realm of its name is not the one made for it.
LEMMA ReleaseStep ==
    ASSUME IInv, NEW r \in Realms, RemoveFinalizer, UNCHANGED kc
    PROVE  ManagedStep(r)
<1>1. /\ me \in Realms /\ at = "unfinalize" /\ obj \in [Realms -> Object \cup {Absent}]
      /\ LiveOf(r)' = LiveOf(r)
  BY CopyFacts, StoreFacts DEF RemoveFinalizer, LiveOf
<1>2. CASE obj' = obj
  BY <1>2, QuietStep
<1>3. CASE mine.finalizer /\ fresh /\ obj' = [obj EXCEPT ![me] = Absent]
  <2>1. /\ obj[me] = mine /\ obj[me] # Absent
        /\ kc[Name] = Absent \/ kc[Name].cr # me
    BY <1>1, <1>3 DEF IInv, CopiesAgree, PathsAreApart
  <2>2. CASE r = me
    <3>1. /\ Life(r) = "guarded" /\ Life(r)' = "absent" /\ Tracked(r)' = None
          /\ Tracked(r) \notin LiveOf(r)
      BY <1>1, <1>3, <2>1, <2>2 DEF Life, Tracked, LiveOf, Name
    <3>2. Managed(r)!Release
      BY <1>1, <3>1 DEF Managed!Release
    <3>3. QED BY <3>2 DEF ManagedStep, Managed!Next
  <2>3. CASE r # me
    <3>1. Life(r)' = Life(r) /\ Tracked(r)' = Tracked(r)
      BY <1>1, <1>3, <2>3 DEF Life, Tracked
    <3>2. QED BY <3>1, LoseStep
  <2>4. QED BY <2>2, <2>3
<1>4. QED BY <1>2, <1>3 DEF RemoveFinalizer, cluster

\* A user declares a resource, edits it, and deletes it: at once, if it is bare.
LEMMA UserStep ==
    ASSUME IInv, NEW r \in Realms, NEW q \in Realms, User(q), UNCHANGED kc
    PROVE  ManagedStep(r)
<1>1. /\ obj \in [Realms -> Object \cup {Absent}] /\ LiveOf(r)' = LiveOf(r)
      /\ \E o : obj' = [obj EXCEPT ![q] = o]
  BY StoreFacts DEF User, Create, Edit, Delete, Touched, LiveOf
<1>2. CASE r # q
  <2>1. Life(r)' = Life(r) /\ Tracked(r)' = Tracked(r)
    BY <1>1, <1>2 DEF Life, Tracked
  <2>2. QED BY <2>1, LoseStep
<1>3. ASSUME r = q, NEW s \in Settings, Create(r, NewObject(s)) PROVE ManagedStep(r)
  <2>1. obj' = [obj EXCEPT ![r] = NewObject(s)] /\ obj[r] = Absent
    BY <1>3 DEF Create, Touched
  <2>2. NewObject(s) \in Object /\ ~NewObject(s).finalizer
    BY DEF NewObject, Object
  <2>3. /\ Life(r) = "absent" /\ Life(r)' = "bare"
        /\ Tracked(r)' \in Names \cup {None}
    BY <1>1, <2>1, <2>2 DEF Life, Tracked
  <2>4. Managed(r)!Declare
    BY <1>1, <2>3 DEF Managed!Declare
  <2>5. QED BY <2>4 DEF ManagedStep, Managed!Next
<1>4. ASSUME r = q, NEW s \in Settings, Edit(r, s) PROVE ManagedStep(r)
  <2> DEFINE o == [obj[r] EXCEPT !.spec = s]
  <2>1. obj' = [obj EXCEPT ![r] = o] /\ obj[r] # Absent /\ obj[r] \in Object
    BY <1>1, <1>4 DEF Edit, Touched
  <2>2. o \in Object /\ o.finalizer = obj[r].finalizer
    BY <2>1 DEF Object
  <2>3. obj'[r] = o /\ o # Absent
    BY <1>1, <2>1, <2>2
  <2>4. Life(r)' = Life(r) /\ Tracked(r)' = Tracked(r)
    BY <2>1, <2>2, <2>3 DEF Life, Tracked
  <2>5. QED BY <2>4, LoseStep
<1>5. CASE r = q /\ Delete(q)
  <2>1. obj[r] # Absent /\ obj[r] \in Object
    BY <1>1, <1>5 DEF Delete
  <2>2. CASE obj[r].finalizer
    <3> DEFINE o == [obj[r] EXCEPT !.deleting = TRUE]
    <3>1. o \in Object /\ o.finalizer
      BY <2>1, <2>2 DEF Object
    <3>2. obj'[r] = o /\ o # Absent
      BY <1>1, <1>5, <2>2, <3>1 DEF Delete, Touched
    <3>3. Life(r)' = Life(r) /\ Tracked(r)' = Tracked(r)
      BY <2>1, <2>2, <3>1, <3>2 DEF Life, Tracked
    <3>4. QED BY <3>3, LoseStep
  <2>3. CASE ~obj[r].finalizer
    <3>1. /\ Life(r) = "bare" /\ Life(r)' = "absent" /\ Tracked(r)' = None
      BY <1>1, <1>5, <2>1, <2>3 DEF Delete, Touched, Life, Tracked
    <3>2. Tracked(r) \notin LiveOf(r)
      BY <2>1, <2>3 DEF IInv, NoRealmLeftBehind, Guarded, Tracked, LiveOf
    <3>3. Managed(r)!Discard
      BY <1>1, <3>1, <3>2 DEF Managed!Discard
    <3>4. QED BY <3>3 DEF ManagedStep, Managed!Next
  <2>4. QED BY <2>2, <2>3
<1>6. QED BY <1>2, <1>3, <1>4, <1>5 DEF User

\* An administrator makes no realm for a resource.
LEMMA ConsoleStep ==
    ASSUME IInv, NEW r \in Realms, NEW n \in Names, Console(n)
    PROVE  ManagedStep(r)
<1>1. obj' = obj
  BY DEF Console, cluster
<1> DEFINE NoneMade ==
      \A m \in Names : kc'[m] # Absent /\ kc'[m].cr = r => kc[m] # Absent /\ kc[m].cr = r
<1>2. NoneMade
  <2>1. CASE kc' = [kc EXCEPT ![n] = Absent]
    BY <2>1, StoreFacts
  <2>2. ASSUME NEW s \in Settings, kc' = [kc EXCEPT ![n] = [settings |-> s, cr |-> None]]
        PROVE  NoneMade
    BY <2>2, StoreFacts
  <2>3. ASSUME NEW s \in Settings, kc[n] # Absent, kc' = [kc EXCEPT ![n].settings = s]
        PROVE  NoneMade
    <3>1. [kc[n] EXCEPT !.settings = s].cr = kc[n].cr
      BY <2>3, StoreFacts DEF KcRealms
    <3>2. QED BY <2>3, <3>1, StoreFacts
  <2>4. QED BY <2>1, <2>2, <2>3 DEF Console
<1>3. QED BY <1>1, <1>2, LoseStep DEF Life, Tracked

\* Each Realm resource lives as ManagedResource says, against stale reads, refused writes,
\* crashes, lost answers, namesakes and the work of others in Keycloak
\* (realm_controller.go:83-89, 262-283).
THEOREM ImplementsManagedResource == Spec => ManagedSpec
<1>1. Init => \A r \in Realms : Managed(r)!Init
  BY DEF Init, Empty, Managed!Init, Life, Tracked, LiveOf
<1>2. IInv /\ [Next]_vars => [\A r \in Realms : Managed(r)!Next \/ UNCHANGED Managed(r)!vars]_vars
  <2> SUFFICES ASSUME IInv, Next, NEW r \in Realms PROVE ManagedStep(r)
    BY DEF ManagedStep
  <2>1. ASSUME NEW q \in Realms, Start(q) \/ User(q) \/ Sync(q), UNCHANGED kc
        PROVE  ManagedStep(r)
    BY <2>1, QuietStep, UserStep DEF Start, Sync, cluster
  <2>2. CASE (ToRealm \/ FromRealm \/ StatusWritten) /\ UNCHANGED kc
    <3>1. CASE obj' = obj
      BY <2>2, <3>1, QuietStep
    <3>2. QED
      BY <2>2, <3>1, WriteStep, ReleaseStep
      DEF ToRealm, FromRealm, ClientReady, ClientNotReady, ClientFails, StatusGone, StatusRefused,
          cluster
  <2>3. CASE Work
    BY <2>2, <2>3, CreateStep, RealmStep DEF Work
  <2>4. CASE (ConfigChanges \/ Crash) /\ UNCHANGED kc
    BY <2>4, QuietStep DEF ConfigChanges, Crash, cluster
  <2>5. ASSUME NEW n \in Names, Console(n) PROVE ManagedStep(r)
    BY <2>5, ConsoleStep
  <2>6. QED BY <2>1, <2>3, <2>4, <2>5 DEF Next
<1>3. QED BY <1>1, <1>2, Invariance, PTL DEF Spec, ManagedSpec
-----------------------------------------------------------------------------
(* When every resource has a name of its own.                               *)

NoNamesakes == \A q, r \in Realms : NameOf[q] = NameOf[r] => q = r

\* What the worker writes in Keycloak is a realm of its name.
LEMMA WriteFacts ==
    ASSUME IInv, GetRealm \/ CreateRealm \/ UpdateRealm
    PROVE  kc' = kc \/ \E s \in KcRealms : kc' = [kc EXCEPT ![Name] = s]
<1>1. at # "idle"
  BY DEF GetRealm, CreateRealm, UpdateRealm
<1>2. /\ me \in Realms /\ mine.spec \in Settings /\ Name \in Names
      /\ kc \in [Names -> KcRealms \cup {Absent}]
  BY <1>1, CopyFacts DEF Object
<1>3. CASE There /\ kc' = [kc EXCEPT ![Name].settings = mine.spec]
  <2>1. /\ [kc[Name] EXCEPT !.settings = mine.spec] \in KcRealms
        /\ kc' = [kc EXCEPT ![Name] = [kc[Name] EXCEPT !.settings = mine.spec]]
    BY <1>2, <1>3 DEF There, KcRealms
  <2>2. QED BY <2>1
<1>4. CASE kc' = [kc EXCEPT ![Name] = [settings |-> mine.spec, cr |-> me]]
  <2>1. [settings |-> mine.spec, cr |-> me] \in KcRealms
    BY <1>2 DEF KcRealms
  <2>2. QED BY <1>4, <2>1
<1>5. QED BY <1>3, <1>4 DEF GetRealm, CreateRealm, UpdateRealm

\* With names of their own, a resource's realm is deleted only by a worker that has that
\* resource, marked for deletion at this very moment, in hand
\* (realm_controller.go:83-89, 262-283).
THEOREM DeletesTheCondemned ==
    ASSUME NoNamesakes
    PROVE  Spec => DeletesOnlyCondemned
<1>1. IInv /\ [Next]_vars
        => [\A n \in Names : at' # at /\ kc[n] # Absent /\ kc'[n] = Absent /\ kc[n].cr # None =>
                Guarded(kc[n].cr) /\ obj[kc[n].cr].deleting]_vars
  <2> SUFFICES ASSUME IInv, Next, NEW n \in Names,
                      at' # at, kc[n] # Absent, kc'[n] = Absent, kc[n].cr # None
               PROVE  Guarded(kc[n].cr) /\ obj[kc[n].cr].deleting
    OBVIOUS
  <2>1. /\ kc \in [Names -> KcRealms \cup {Absent}] /\ kc[n].cr \in Realms
        /\ NameOf[kc[n].cr] = n /\ Guarded(kc[n].cr)
    BY DEF IInv, TypeOK, NoRealmLeftBehind, KcRealms
  <2>2. CASE DeleteRealm
    <3>1. at # "idle" /\ mine.deleting /\ kc' = [kc EXCEPT ![Name] = Absent]
      BY <2>2 DEF DeleteRealm, IInv, PathsAreApart
    <3>2. n = Name /\ me \in Realms
      BY <2>1, <3>1, CopyFacts
    <3>3. kc[n].cr = me
      BY <2>1, <3>2 DEF NoNamesakes, Name
    <3>4. QED BY <2>1, <3>1, <3>3 DEF IInv, DeletionIsLasting
  <2>3. CASE CreateRealm \/ UpdateRealm
    <3>1. kc'[n] # Absent
      BY <2>1, <2>3, WriteFacts
    <3>2. QED BY <3>1
  <2>4. CASE Work /\ ~DeleteRealm /\ ~CreateRealm /\ ~UpdateRealm
    BY <2>4 DEF Work, GetRealm, RealmFails, CreateConflict, DeleteFails
  <2>5. ASSUME NEW m \in Names, Console(m) PROVE FALSE
    BY <2>5 DEF Console, worker
  <2>6. QED BY <2>2, <2>3, <2>4, <2>5 DEF Next
<1>2. QED BY <1>1, Invariance, PTL DEF Spec, DeletesOnlyCondemned

\* Why Ready can be believed, one step at a time.
LEMMA InitReady == Init => ReadyIsBacked
BY DEF Init, Empty, ReadyIsBacked, ReadyRealmExists

\* A step keeps it so.
LEMMA NextReady ==
    ASSUME NoNamesakes, "handDelete" \notin Disturbances,
           IInv, ReadyIsBacked, [Next]_vars
    PROVE  ReadyIsBacked'
<1>1. /\ obj \in [Realms -> Object \cup {Absent}] /\ kc \in [Names -> KcRealms \cup {Absent}]
      /\ at # "idle" => me \in Realms /\ mine \in Object /\ Name \in Names
  BY CopyFacts DEF IInv, TypeOK
<1>2. ASSUME UNCHANGED obj, \A n \in Names : kc[n] # Absent => kc'[n] # Absent,
             at' = "status" /\ outcome' = TRUE =>
                 /\ mine'.finalizer /\ ~mine'.deleting
                 /\ me' \in Realms /\ kc'[NameOf[me']] # Absent
      PROVE  ReadyIsBacked'
  BY <1>2 DEF ReadyIsBacked, ReadyRealmExists, There, Name
<1>3. ASSUME NEW r \in Realms, NEW o \in Object \cup {Absent}, obj' = [obj EXCEPT ![r] = o],
             UNCHANGED <<kc, me, mine, outcome>>, at' \in {at, "get"},
             o # Absent /\ o.ready => /\ o.finalizer /\ obj[r] # Absent /\ obj[r].ready
                                      /\ ~o.deleting => ~obj[r].deleting
      PROVE  ReadyIsBacked'
  BY <1>1, <1>3 DEF ReadyIsBacked, ReadyRealmExists, There, Name
<1>4. ASSUME NEW r \in Realms, Start(r) \/ User(r) \/ Sync(r), UNCHANGED kc PROVE ReadyIsBacked'
  <2>1. CASE Start(r) \/ Sync(r)
    BY <1>4, <2>1 DEF ReadyIsBacked, ReadyRealmExists, Start, Sync, cluster, worker, There, Name
  <2>2. ASSUME NEW s \in Settings, Create(r, NewObject(s)) PROVE ReadyIsBacked'
    <3>1. NewObject(s) \in Object /\ ~NewObject(s).ready
      BY DEF NewObject, Object
    <3>2. QED BY <1>3, <1>4, <2>2, <3>1 DEF Create, Touched
  <2>3. ASSUME NEW s \in Settings, Edit(r, s) PROVE ReadyIsBacked'
    <3> DEFINE o == [obj[r] EXCEPT !.spec = s]
    <3>1. obj[r] # Absent /\ obj[r] \in Object
      BY <1>1, <2>3 DEF Edit
    <3>2. /\ o \in Object /\ o.ready = obj[r].ready /\ o.finalizer = obj[r].finalizer
          /\ o.deleting = obj[r].deleting
          /\ obj[r].ready => obj[r].finalizer
      BY <3>1 DEF Object, ReadyIsBacked
    <3> HIDE DEF o
    <3>3. obj' = [obj EXCEPT ![r] = o] /\ UNCHANGED <<at, me, mine, outcome>>
      BY <2>3 DEF Edit, Touched, o
    <3>4. QED BY <1>3, <1>4, <3>1, <3>2, <3>3
  <2>4. CASE Delete(r)
    <3> DEFINE o == IF obj[r].finalizer THEN [obj[r] EXCEPT !.deleting = TRUE] ELSE Absent
    <3>1. obj[r] # Absent /\ obj[r] \in Object
      BY <1>1, <2>4 DEF Delete
    <3>2. /\ o \in Object \cup {Absent}
          /\ o # Absent => o.deleting /\ o.ready = obj[r].ready /\ o.finalizer
      BY <3>1 DEF Object
    <3> HIDE DEF o
    <3>3. obj' = [obj EXCEPT ![r] = o] /\ UNCHANGED <<at, me, mine, outcome>>
      BY <2>4 DEF Delete, Touched, o
    <3>4. QED BY <1>3, <1>4, <3>1, <3>2, <3>3
  <2>5. QED BY <1>4, <2>1, <2>2, <2>3, <2>4 DEF User
<1>5. CASE \/ (ClientReady \/ ClientNotReady(FALSE) \/ ClientFails(FALSE)) /\ UNCHANGED kc
           \/ (StatusGone \/ Crash \/ ConfigChanges) /\ UNCHANGED kc
           \/ RealmFails \/ CreateConflict \/ DeleteFails
  BY <1>1, <1>2, <1>5 DEF ReadyIsBacked, ClientReady, ClientNotReady, ClientFails, StatusGone,
     Crash, ConfigChanges, RealmFails, CreateConflict, DeleteFails, Done, Goto, Report, cluster,
     worker, There, Name
<1>6. CASE StatusRefused /\ UNCHANGED kc
  BY <1>1, <1>2, <1>6 DEF ReadyIsBacked, StatusRefused, Done, cluster, There, Name
<1>7. CASE GetRealm \/ CreateRealm \/ UpdateRealm
  <2>1. at # "idle" /\ mine.finalizer /\ ~mine.deleting /\ me \in Realms /\ Name \in Names
    BY <1>1, <1>7 DEF IInv, PathsAreApart, GetRealm, CreateRealm, UpdateRealm
  <2>2. kc' = kc \/ \E s \in KcRealms : kc' = [kc EXCEPT ![Name] = s]
    BY <1>7, WriteFacts
  <2>3. \A n \in Names : kc[n] # Absent => kc'[n] # Absent
    BY <1>1, <2>1, <2>2
  <2>4. UNCHANGED <<obj, me, mine>>
    BY <1>7 DEF GetRealm, CreateRealm, UpdateRealm, Report, Goto, cluster
  <2>5. at' = "status" /\ outcome' = TRUE => kc'[Name] # Absent
    <3>1. CASE CreateRealm
      <4>1. kc' = [kc EXCEPT ![Name] = [settings |-> mine.spec, cr |-> me]]
        BY <3>1 DEF CreateRealm
      <4>2. [settings |-> mine.spec, cr |-> me] \in KcRealms
        BY <1>1, <2>1 DEF KcRealms, Object
      <4>3. QED BY <1>1, <2>1, <4>1, <4>2
    <3>2. CASE GetRealm \/ UpdateRealm
      <4>1. There \/ ~(at' = "status" /\ outcome' = TRUE)
        BY <3>2 DEF GetRealm, UpdateRealm, Report, Goto
      <4>2. QED BY <2>1, <2>3, <4>1 DEF There
    <3>3. QED BY <1>7, <3>1, <3>2
  <2>6. QED BY <1>2, <2>1, <2>3, <2>4, <2>5 DEF Name
<1>8. CASE DeleteRealm
  <2>1. /\ at = "delete" /\ kc' = [kc EXCEPT ![Name] = Absent] /\ UNCHANGED obj /\ at' # "status"
    BY <1>8 DEF DeleteRealm, Goto, Done, cluster
  <2>2. mine.deleting /\ me \in Realms /\ Name \in Names
    BY <1>1, <2>1 DEF IInv, PathsAreApart
  <2>3. obj[me] # Absent /\ obj[me].ready => obj[me].deleting
    BY <2>1, <2>2 DEF IInv, DeletionIsLasting, Guarded, ReadyIsBacked
  <2>4. \A r \in Realms : r # me => NameOf[r] # Name
    BY <2>2 DEF NoNamesakes, Name
  <2>5. QED BY <1>1, <2>1, <2>2, <2>3, <2>4 DEF ReadyIsBacked, ReadyRealmExists
<1>9. CASE EnsureFinalizer("get") /\ UNCHANGED kc
  <2>1. CASE UNCHANGED obj
    BY <1>2, <1>9, <2>1 DEF EnsureFinalizer, Goto, Done
  <2>2. CASE Written([mine EXCEPT !.finalizer = TRUE]) /\ Goto("get") /\ ~mine.finalizer
    <3> DEFINE o == [mine EXCEPT !.finalizer = TRUE]
    <3>1. /\ me \in Realms /\ o \in Object /\ o.ready = mine.ready /\ o.finalizer
          /\ o.deleting = mine.deleting /\ obj[me] = mine /\ obj' = [obj EXCEPT ![me] = o]
          /\ mine # Absent
      BY <1>1, <1>9, <2>2 DEF EnsureFinalizer, Written, Object, IInv, CopiesAgree
    <3>2. ~mine.ready
      BY <1>1, <2>2, <3>1 DEF ReadyIsBacked
    <3> HIDE DEF o
    <3>3. obj'[me] = o /\ (\A r \in Realms : r # me => obj'[r] = obj[r]) /\ at' = "get"
      BY <1>1, <2>2, <3>1 DEF Goto
    <3>4. QED BY <1>9, <3>1, <3>2, <3>3 DEF ReadyIsBacked, ReadyRealmExists
  <2>3. QED BY <1>9, <2>1, <2>2 DEF EnsureFinalizer, cluster
<1>10. CASE StatusWritten /\ UNCHANGED kc
  <2> DEFINE o == [cache[me] EXCEPT !.ready = outcome]
  <2>1. /\ at = "status" /\ me \in Realms /\ obj' = [obj EXCEPT ![me] = o] /\ at' = "idle"
        /\ cache[me] = obj[me] /\ obj[me] # Absent /\ obj[me] \in Object /\ outcome \in BOOLEAN
    BY <1>1, <1>10 DEF StatusWritten, StatusAccepted, Done, IInv, TypeOK, CopiesAgree
  <2>2. o \in Object /\ o.ready = outcome /\ o.finalizer = obj[me].finalizer
    BY <2>1 DEF Object
  <2>3. outcome = TRUE => Guarded(me) /\ There
    BY <2>1 DEF IInv, GuardIsLasting, ReadyIsBacked
  <2> HIDE DEF o
  <2>4. obj'[me] = o /\ \A r \in Realms : r # me => obj'[r] = obj[r]
    BY <1>1, <2>1
  <2>5. QED
    BY <1>10, <2>1, <2>2, <2>3, <2>4 DEF ReadyIsBacked, ReadyRealmExists, Guarded, There, Name
<1>11. CASE RemoveFinalizer /\ UNCHANGED kc
  BY <1>1, <1>11 DEF ReadyIsBacked, ReadyRealmExists, RemoveFinalizer, Done, cluster
<1>12. ASSUME NEW n \in Names, Console(n) PROVE ReadyIsBacked'
  <2>1. \A m \in Names : kc[m] # Absent => kc'[m] # Absent
    BY <1>1, <1>12 DEF Console, Event, KcRealms
  <2>2. QED
    BY <1>1, <1>12, <2>1 DEF ReadyIsBacked, ReadyRealmExists, Console, cluster, worker, There, Name
<1>13. CASE UNCHANGED vars
  BY <1>13 DEF ReadyIsBacked, ReadyRealmExists, vars, cluster, worker, There, Name
<1>14. QED
  BY <1>4, <1>5, <1>6, <1>7, <1>8, <1>9, <1>10, <1>11, <1>12, <1>13
  DEF Next, Work, ToRealm, FromRealm

\* While nobody deletes realms in the console and each resource has a name of its own, one
\* that is Ready and not being deleted has its realm in Keycloak, whatever stale copies,
\* refused writes, lost answers and crashes there were (realm_controller.go:205-249).
THEOREM ReadyIsTrue ==
    ASSUME NoNamesakes, "handDelete" \notin Disturbances
    PROVE  Spec => []ReadyRealmExists
<1>1. IInv /\ ReadyIsBacked /\ [Next]_vars => ReadyIsBacked'
  BY NextReady
<1>2. ReadyIsBacked => ReadyRealmExists
  BY DEF ReadyIsBacked
<1>3. QED BY InitReady, <1>1, <1>2, Invariance, PTL DEF Spec
=============================================================================
