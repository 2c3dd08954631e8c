-------------------------- MODULE InstanceConfigProofs --------------------------
(***************************************************************************)
(* Theorems about InstanceConfig for any dependents, settings and bound on *)
(* the disturbances.  That clients follow the config, and that Ready was   *)
(* earned, needs that no config is deleted and made again.                 *)
(***************************************************************************)
EXTENDS InstanceConfig, TLAPS

USE BoundAssumption, KindsAssumption, NilAssumption

\* What holds of a config that is made again, too.
Base == TypeOK /\ CopiesAgree

\* A disturbance stays within the bound.
LEMMA EventType ==
    ASSUME TypeOK, NEW kind, Event(kind)
    PROVE  /\ events \in Nat /\ events < MaxEvents
           /\ events' \in 0..MaxEvents /\ events' = events + 1 /\ 1 <= events' + 1
           /\ events' >= events /\ events + 1 \in Generations
BY DEF TypeOK, Event, Generations

\* And so does a step without one.
LEMMA NoEventType ==
    ASSUME TypeOK, events' = events
    PROVE  events' \in 0..MaxEvents /\ events' >= events /\ 1 <= events' + 1
BY DEF TypeOK

\* The client that is held for a config, or made from it, is of its generation.
LEMMA ClientType ==
    ASSUME TypeOK, NEW c \in ConfigObjects
    PROVE  Client(c) \in Clients /\ Client(c).generation = c.generation
BY DEF TypeOK, Client, Held, Clients, ConfigObjects

\* A call of the manager leaves a client of the generation asked for, or none.
LEMMA CallType ==
    ASSUME TypeOK, NEW c \in ConfigObjects, Obtains(c) \/ ObtainsNone(c)
    PROVE  slot' \in Clients \cup {NoClient} /\ events' \in 0..MaxEvents /\ events' >= events
<1>1. Client(c) \in Clients
  BY ClientType
<1>2. CASE Obtains(c)
  BY <1>1, <1>2 DEF Obtains, TypeOK
<1>3. CASE ObtainsNone(c)
  BY <1>3, EventType DEF ObtainsNone, TypeOK
<1>4. QED BY <1>2, <1>3

\* What a new generation is.
LEMMA NextGeneration ==
    ASSUME Base, obj # Absent, events < MaxEvents
    PROVE  /\ obj \in ConfigObjects
           /\ obj.generation + 1 \in Generations
           /\ obj.generation + 1 <= events + 2
           /\ obj.generation \in Nat
BY DEF Base, TypeOK, CopiesAgree, ConfigObjects, Generations

\* The bound on the generation of an object that no one writes.
LEMMA CountStays ==
    ASSUME Base, obj' = obj, events' \in 0..MaxEvents, events' >= events
    PROVE  obj' # Absent => obj'.generation <= events' + 1
BY DEF Base, TypeOK, CopiesAgree, ConfigObjects, Generations

\* The first state satisfies the base.
LEMMA InitBase == Init => Base
<1> SUFFICES ASSUME Init PROVE Base
  OBVIOUS
<1>1. 1 \in Generations /\ 0 \in 0..MaxEvents
  BY DEF Generations
<1>2. CASE obj # Absent
  <2>1. PICK s \in Settings, ready \in BOOLEAN : obj = Config(1, s, ready)
    BY <1>2 DEF Init
  <2>2. Config(1, s, ready) \in ConfigObjects
    BY <1>1 DEF Config, ConfigObjects
  <2>3. Config(1, s, ready).generation = 1
    BY DEF Config
  <2>4. obj \in ConfigObjects /\ obj.generation <= 0 + 1
    BY <2>1, <2>2, <2>3
  <2>5. TypeOK
    BY <1>1, <2>4 DEF Init, TypeOK
  <2>6. CopiesAgree
    BY <2>4 DEF Init, CopiesAgree
  <2>7. QED BY <2>5, <2>6 DEF Base
<1>3. CASE obj = Absent
  BY <1>1, <1>3 DEF Init, Base, TypeOK, CopiesAgree
<1>4. QED BY <1>2, <1>3

\* A step of the config's worker keeps the base.
LEMMA WorkerBase ==
    ASSUME Base, Begin \/ Work
    PROVE  Base'
<1> USE DEF Base, cluster, keycloak, dependents
<1>1. CASE Begin
  BY <1>1 DEF Begin, TypeOK, CopiesAgree
<1>2. CASE Forget
  BY <1>2 DEF Forget, Done, TypeOK, CopiesAgree
<1>3. CASE Probe
  <2>1. events' \in 0..MaxEvents /\ events' >= events
    BY <1>3, EventType, NoEventType DEF Probe
  <2>2. TypeOK'
    BY <1>3, <2>1 DEF Probe, Report, Goto, TypeOK
  <2>3. CopiesAgree'
    BY <1>3, <2>1, CountStays DEF Probe, Report, Goto, CopiesAgree
  <2>4. QED BY <2>2, <2>3
<1>4. CASE Login
  <2>1. mine \in ConfigObjects
    BY <1>4 DEF Login, TypeOK
  <2>2. Client(mine) \in Clients
    BY <2>1, ClientType
  <2>3. slot' \in Clients \cup {NoClient} /\ events' \in 0..MaxEvents /\ events' >= events
    BY <1>4, <2>1, CallType DEF Login
  <2>4. TypeOK'
    BY <1>4, <2>1, <2>2, <2>3 DEF Login, Report, Goto, TypeOK
  <2>5. CopiesAgree'
    BY <1>4, <2>3, CountStays DEF Login, Report, Goto, CopiesAgree
  <2>6. QED BY <2>4, <2>5
<1>5. CASE Test
  <2>1. events' \in 0..MaxEvents /\ events' >= events
    BY <1>5, EventType, NoEventType DEF Test
  <2>2. TypeOK'
    BY <1>5, <2>1 DEF Test, Report, Goto, TypeOK
  <2>3. CopiesAgree'
    BY <1>5, <2>1, CountStays DEF Test, Report, Goto, CopiesAgree
  <2>4. QED BY <2>2, <2>3
<1>6. CASE Write
  <2>1. CASE fresh
    <3>1. obj \in ConfigObjects /\ verdict \in BOOLEAN
      BY <1>6, <2>1 DEF Write, TypeOK, CopiesAgree
    <3>2. /\ [obj EXCEPT !.ready = verdict] \in ConfigObjects
          /\ [obj EXCEPT !.ready = verdict].generation = obj.generation
      BY <3>1 DEF ConfigObjects
    <3>3. QED BY <1>6, <2>1, <3>1, <3>2 DEF Write, Done, TypeOK, CopiesAgree
  <2>2. CASE ~fresh
    BY <1>6, <2>2 DEF Write, Done, TypeOK, CopiesAgree
  <2>3. QED BY <2>1, <2>2
<1>7. QED BY <1>1, <1>2, <1>3, <1>4, <1>5, <1>6 DEF Work

\* A step of a dependent keeps the base.
LEMMA DependentBase ==
    ASSUME Base, NEW d \in Dependents, Read(d) \/ GetClient(d) \/ FinishReconcile(d)
    PROVE  Base'
<1> USE DEF Base, cluster, keycloak, worker
<1>1. CASE Read(d)
  BY <1>1 DEF Read, TypeOK, CopiesAgree
<1>2. CASE GetClient(d)
  <2>1. seen[d] \in ConfigObjects
    BY <1>2 DEF GetClient, TypeOK
  <2>2. Client(seen[d]) \in Clients
    BY <2>1, ClientType
  <2>3. slot' \in Clients \cup {NoClient} /\ events' \in 0..MaxEvents /\ events' >= events
    BY <1>2, <2>1, CallType DEF GetClient
  <2>4. /\ seen' \in [Dependents -> ConfigObjects \cup {Absent}]
        /\ using' \in [Dependents -> Clients \cup {NoClient}]
    BY <1>2, <2>2 DEF GetClient, Finish, TypeOK
  <2>5. TypeOK'
    BY <1>2, <2>3, <2>4 DEF GetClient, TypeOK
  <2>6. CopiesAgree'
    BY <1>2, <2>3, CountStays DEF GetClient, CopiesAgree
  <2>7. QED BY <2>5, <2>6
<1>3. CASE FinishReconcile(d)
  BY <1>3 DEF FinishReconcile, Finish, TypeOK, CopiesAgree
<1>4. QED BY <1>1, <1>2, <1>3

\* A write of someone else keeps the base if it is typed and its generation counted.
LEMMA TouchedBase ==
    ASSUME Base, NEW o \in ConfigObjects \cup {Absent}, Touched(o),
           events' \in 0..MaxEvents, o # Absent => o.generation <= events' + 1
    PROVE  Base'
BY DEF Base, Touched, keycloak, dependents, TypeOK, CopiesAgree

\* What the users and the garbage collector may make of the config.
LEMMA UserTouches ==
    ASSUME Base, UserEdits \/ UserDeletes \/ Released \/ UserCreates
    PROVE  \E o \in ConfigObjects \cup {Absent} :
              /\ Touched(o)
              /\ events' \in 0..MaxEvents
              /\ o # Absent => o.generation <= events' + 1
<1> USE DEF Base
<1>1. CASE UserEdits
  <2>1. PICK s \in Settings : Touched([obj EXCEPT !.settings = s, !.generation = @ + 1])
    BY <1>1 DEF UserEdits
  <2>2. /\ events' \in 0..MaxEvents /\ events' = events + 1 /\ events \in Nat
        /\ events < MaxEvents /\ obj # Absent
    BY <1>1, EventType DEF UserEdits
  <2> DEFINE o == [obj EXCEPT !.settings = s, !.generation = @ + 1]
  <2>3. o \in ConfigObjects /\ o.generation = obj.generation + 1
    BY <2>2, NextGeneration DEF ConfigObjects
  <2>4. o.generation <= events' + 1
    BY <2>2, <2>3, NextGeneration
  <2>5. QED BY <2>1, <2>2, <2>3, <2>4
<1>2. CASE UserDeletes
  <2>1. /\ events' \in 0..MaxEvents /\ events' = events + 1 /\ events \in Nat
        /\ events < MaxEvents /\ obj # Absent
    BY <1>2, EventType DEF UserDeletes
  <2> DEFINE o == [obj EXCEPT !.deleting = TRUE, !.generation = @ + 1]
  <2>2. o \in ConfigObjects /\ o.generation = obj.generation + 1
    BY <2>1, NextGeneration DEF ConfigObjects
  <2>3. o.generation <= events' + 1
    BY <2>1, <2>2, NextGeneration
  <2>4. Touched(Absent) \/ Touched(o)
    BY <1>2 DEF UserDeletes
  <2>5. QED BY <2>1, <2>2, <2>3, <2>4
<1>3. CASE Released
  BY <1>3 DEF Released, TypeOK
<1>4. CASE UserCreates
  <2>1. PICK s \in Settings : Touched(Config(1, s, FALSE))
    BY <1>4 DEF UserCreates
  <2>2. Config(1, s, FALSE) \in ConfigObjects /\ Config(1, s, FALSE).generation = 1
    BY DEF Config, ConfigObjects, Generations
  <2>3. events' \in 0..MaxEvents /\ 1 <= events' + 1
    BY <1>4, EventType, NoEventType DEF UserCreates
  <2>4. QED BY <2>1, <2>2, <2>3
<1>5. QED BY <1>1, <1>2, <1>3, <1>4

\* Every step keeps the base.
LEMMA NextBase == Base /\ [Next]_vars => Base'
<1> SUFFICES ASSUME Base, [Next]_vars PROVE Base'
  OBVIOUS
<1>1. CASE UserEdits \/ UserDeletes \/ Released \/ UserCreates
  BY <1>1, UserTouches, TouchedBase
<1>2. CASE Sync
  BY <1>2 DEF Sync, Base, TypeOK, CopiesAgree, keycloak, worker, dependents
<1>3. CASE KeycloakChanges
  <2>1. events' \in 0..MaxEvents /\ events' >= events
    BY <1>3, EventType, NoEventType DEF KeycloakChanges, Base
  <2>2. TypeOK'
    BY <1>3, <2>1 DEF KeycloakChanges, Base, TypeOK, cluster, worker, dependents
  <2>3. CopiesAgree'
    BY <1>3, <2>1, CountStays DEF KeycloakChanges, Base, CopiesAgree, cluster, worker
  <2>4. QED BY <2>2, <2>3 DEF Base
<1>4. CASE Restart
  <2>1. events' \in 0..MaxEvents /\ events' >= events
    BY <1>4, EventType DEF Restart, Base
  <2>2. TypeOK'
    BY <1>4, <2>1 DEF Restart, Done, Base, TypeOK, cluster, keycloak
  <2>3. CopiesAgree'
    BY <1>4, <2>1, CountStays DEF Restart, Done, Base, CopiesAgree, cluster
  <2>4. QED BY <2>2, <2>3 DEF Base
<1>5. CASE UNCHANGED vars
  BY <1>5 DEF vars, cluster, keycloak, worker, dependents, Base, TypeOK, CopiesAgree
<1>6. QED BY <1>1, <1>2, <1>3, <1>4, <1>5, WorkerBase, DependentBase DEF Next

\* Type correctness, for configs that are made again as well.
THEOREM TypeCorrect == Spec => []TypeOK
<1>1. Init => Base
  BY InitBase
<1>2. Base /\ [Next]_vars => Base'
  BY NextBase
<1>3. Base => TypeOK
  BY DEF Base
<1>4. QED BY <1>1, <1>2, <1>3, PTL DEF Spec
-----------------------------------------------------------------------------
(* When no config is deleted and made again.                                *)

NeverRecreated == "recreate" \notin Disturbances

\* Nothing is known that was not known before.
NothingNew == \A g \in Generations : \A s \in Settings : Known(g, s)' => Known(g, s)

\* The generations of copies and clients stay with their settings if nothing new is known
\* and the object is of the old generation, or is gone after a disturbance.
LEMMA StillTells ==
    ASSUME IInv, NothingNew, events' >= events, events' \in 0..MaxEvents,
           obj' # Absent => obj # Absent /\ obj'.generation = obj.generation,
           obj' = Absent => obj = Absent \/ events' > 0
    PROVE  GenerationTellsSettings'
<1>1. events \in Nat /\ events' \in Nat
  BY DEF IInv, TypeOK
<1>2. SUFFICES ASSUME NEW g \in Generations, NEW s \in Settings, Known(g, s)'
               PROVE  /\ \A t \in Settings : Known(g, t)' => s = t
                      /\ obj' # Absent => g <= obj'.generation
                      /\ obj' = Absent => events' > 0
  BY DEF GenerationTellsSettings
<1>3. Known(g, s) /\ \A t \in Settings : Known(g, t)' => Known(g, t)
  BY <1>2 DEF NothingNew
<1>4. /\ \A t \in Settings : Known(g, t) => s = t
      /\ obj # Absent => g <= obj.generation
      /\ obj = Absent => events > 0
  BY <1>3 DEF IInv, GenerationTellsSettings
<1>5. obj' = Absent => events' > 0
  BY <1>1, <1>4
<1>6. QED BY <1>3, <1>4, <1>5

\* So they do if what is new is an object of a newer generation than any before.
LEMMA TellsTheNewest ==
    ASSUME IInv, obj' # Absent, obj' \in ConfigObjects,
           obj # Absent => obj'.generation = obj.generation + 1,
           obj = Absent => events = 0,
           \A g \in Generations : \A s \in Settings :
               Known(g, s)' => Known(g, s) \/ (g = obj'.generation /\ s = obj'.settings)
    PROVE  GenerationTellsSettings'
<1>1. SUFFICES ASSUME NEW g \in Generations, NEW s \in Settings, Known(g, s)'
               PROVE  /\ \A t \in Settings : Known(g, t)' => s = t
                      /\ g <= obj'.generation
  BY DEF GenerationTellsSettings
<1>2. g \in Nat /\ obj'.generation \in Nat
  BY DEF ConfigObjects, Generations
<1>3. ASSUME NEW h \in Generations, NEW t \in Settings, Known(h, t)
      PROVE  /\ \A u \in Settings : Known(h, u) => t = u
             /\ h < obj'.generation
  <2>1. /\ \A u \in Settings : Known(h, u) => t = u
        /\ obj # Absent => h <= obj.generation
        /\ obj = Absent => events > 0
    BY <1>3 DEF IInv, GenerationTellsSettings
  <2>2. obj # Absent /\ h \in Nat /\ obj.generation \in Nat
    BY <2>1 DEF IInv, TypeOK, ConfigObjects, Generations
  <2>3. QED BY <2>1, <2>2
<1>4. CASE Known(g, s)
  <2>1. g < obj'.generation
    BY <1>3, <1>4
  <2>2. \A t \in Settings : Known(g, t)' => Known(g, t)
    BY <1>2, <2>1
  <2>3. QED BY <1>2, <1>3, <1>4, <2>1, <2>2
<1>5. CASE g = obj'.generation /\ s = obj'.settings
  <2>1. \A t \in Settings : ~Known(g, t)
    BY <1>2, <1>3, <1>5
  <2>2. QED BY <1>2, <1>5, <2>1
<1>6. QED BY <1>1, <1>4, <1>5

\* The first state satisfies the inductive invariant.
LEMMA InitIInv == Init => IInv
<1> SUFFICES ASSUME Init PROVE IInv
  OBVIOUS
<1>1. TypeOK /\ CopiesAgree
  BY InitBase DEF Base
<1>2. ClientsAreAskedFor
  BY DEF Init, ClientsAreAskedFor
<1>3. obj # Absent => ~obj.deleting
  BY DEF Init, Config
<1>4. \A g \in Generations : \A s \in Settings :
        Known(g, s) => obj # Absent /\ g = obj.generation /\ s = obj.settings
  BY DEF Init, Known
<1>5. GenerationTellsSettings
  BY <1>4 DEF GenerationTellsSettings, Generations
<1>6. QED BY <1>1, <1>2, <1>3, <1>5 DEF IInv, DeletionIsCounted

\* A client got for a copy is one that was held, or says no more than the copy.
LEMMA ClientKnown ==
    ASSUME NEW c, Obtains(c) \/ ObtainsNone(c)
    PROVE  slot' # NoClient => /\ slot' = Client(c)
                               /\ \/ slot # NoClient /\ Client(c) = slot
                                  \/ /\ Client(c).generation = c.generation
                                     /\ Client(c).settings = c.settings
BY DEF Obtains, ObtainsNone, Client, Held

\* The config's worker makes nothing new.
LEMMA WorkerNothingNew ==
    ASSUME IInv, Begin \/ Work
    PROVE  NothingNew
<1> SUFFICES ASSUME NEW g \in Generations, NEW s \in Settings, Known(g, s)'
             PROVE  Known(g, s)
  BY DEF NothingNew
<1> USE DEF Known, cluster, keycloak, dependents
<1>1. CASE Begin
  BY <1>1 DEF Begin
<1>2. CASE Forget
  BY <1>2 DEF Forget, Done
<1>3. CASE Probe
  BY <1>3 DEF Probe, Report, Goto
<1>4. CASE Login
  <2>1. mine # Absent /\ UNCHANGED <<obj, cache, mine, seen, using>>
    BY <1>4 DEF Login, Report, Goto, IInv, TypeOK
  <2>2. session' = session \/ session' = slot'
    BY <1>4 DEF Login, Report, Obtains
  <2>3. QED BY <1>4, <2>1, <2>2, ClientKnown DEF Login
<1>5. CASE Test
  BY <1>5 DEF Test, Report, Goto
<1>6. CASE Write
  <2>1. CASE fresh
    <3>1. obj \in ConfigObjects
      BY <1>6, <2>1 DEF Write, IInv, TypeOK, CopiesAgree
    <3>2. /\ [obj EXCEPT !.ready = verdict].generation = obj.generation
          /\ [obj EXCEPT !.ready = verdict].settings = obj.settings
          /\ obj # Absent
      BY <3>1 DEF ConfigObjects
    <3>3. QED BY <1>6, <2>1, <3>2 DEF Write, Done
  <2>2. CASE ~fresh
    BY <1>6, <2>2 DEF Write, Done
  <2>3. QED BY <2>1, <2>2
<1>7. QED BY <1>1, <1>2, <1>3, <1>4, <1>5, <1>6 DEF Work

\* Nor do the dependents.
LEMMA DependentNothingNew ==
    ASSUME IInv, NEW d \in Dependents, Read(d) \/ GetClient(d) \/ FinishReconcile(d)
    PROVE  NothingNew
<1> SUFFICES ASSUME NEW g \in Generations, NEW s \in Settings, Known(g, s)'
             PROVE  Known(g, s)
  BY DEF NothingNew
<1>0. /\ seen \in [Dependents -> ConfigObjects \cup {Absent}]
      /\ using \in [Dependents -> Clients \cup {NoClient}]
  BY DEF IInv, TypeOK
<1> USE DEF Known, cluster, keycloak, worker
<1>1. CASE Read(d)
  BY <1>0, <1>1 DEF Read
<1>2. CASE GetClient(d)
  <2>1. seen[d] # Absent /\ UNCHANGED <<obj, cache, mine, session>>
    BY <1>2 DEF GetClient
  <2>2. \A e \in Dependents : /\ seen'[e] = seen[e] \/ seen'[e] = Absent
                              /\ using'[e] \in {using[e], NoClient, slot'}
    BY <1>0, <1>2 DEF GetClient, Finish, Obtains
  <2>3. QED BY <1>2, <2>1, <2>2, ClientKnown DEF GetClient
<1>3. CASE FinishReconcile(d)
  BY <1>0, <1>3 DEF FinishReconcile, Finish
<1>4. QED BY <1>1, <1>2, <1>3

\* The client got for a copy is one to be used for it.
LEMMA WorkerAsks ==
    ASSUME IInv, Begin \/ Work
    PROVE  ClientsAreAskedFor' /\ DeletionIsCounted'
<1> USE DEF IInv, ClientsAreAskedFor, DeletionIsCounted, cluster, keycloak, dependents
<1>1. events' \in Nat /\ events \in Nat /\ events' >= events
  <2>1. events' = events \/ \E kind : Event(kind)
    BY DEF Begin, Work, Forget, Probe, Login, Test, Write, Obtains, ObtainsNone
  <2>2. QED BY <2>1, EventType, NoEventType DEF TypeOK
<1>2. CASE Begin
  BY <1>2 DEF Begin, TypeOK
<1>3. CASE Forget
  BY <1>3 DEF Forget, Done
<1>4. CASE Probe
  <2>1. UNCHANGED <<obj, seen, using>> /\ (at' = "login" \/ (at' = "write" /\ verdict' = FALSE))
    BY <1>4 DEF Probe, Report, Goto
  <2>2. QED BY <1>1, <2>1
<1>5. CASE Login
  <2>1. mine \in ConfigObjects /\ UNCHANGED <<obj, seen, using, mine>>
    BY <1>5 DEF Login, TypeOK, Report, Goto
  <2>2. Client(mine) # NoClient /\ Client(mine).generation = mine.generation
    BY <2>1, ClientType
  <2>3. \/ at' = "test" /\ session' = Client(mine)
        \/ at' = "write" /\ verdict' = FALSE
    BY <1>5 DEF Login, Report, Goto
  <2>4. QED BY <1>1, <2>1, <2>2, <2>3
<1>6. CASE Test
  <2>1. at = "test" /\ at' = "write" /\ UNCHANGED <<obj, seen, using, mine, session>>
    BY <1>6 DEF Test, Report, Goto
  <2>2. QED BY <1>1, <2>1
<1>7. CASE Write
  <2>1. at' = "idle" /\ UNCHANGED <<seen, using, events>>
    BY <1>7 DEF Write, Done
  <2>2. obj' # Absent /\ obj'.deleting => obj # Absent /\ obj.deleting
    <3>1. CASE fresh
      <4>1. obj \in ConfigObjects
        BY <1>7, <3>1 DEF Write, TypeOK, CopiesAgree
      <4>2. [obj EXCEPT !.ready = verdict].deleting = obj.deleting /\ obj # Absent
        BY <4>1 DEF ConfigObjects
      <4>3. QED BY <1>7, <3>1, <4>2 DEF Write
    <3>2. QED BY <1>7, <3>1 DEF Write
  <2>3. QED BY <2>1, <2>2
<1>8. QED BY <1>2, <1>3, <1>4, <1>5, <1>6, <1>7 DEF Work

LEMMA DependentAsks ==
    ASSUME IInv, NEW d \in Dependents, Read(d) \/ GetClient(d) \/ FinishReconcile(d)
    PROVE  ClientsAreAskedFor' /\ DeletionIsCounted'
<1> USE DEF IInv, ClientsAreAskedFor, DeletionIsCounted, cluster, keycloak, worker
<1>0. /\ seen \in [Dependents -> ConfigObjects \cup {Absent}]
      /\ using \in [Dependents -> Clients \cup {NoClient}]
  BY DEF TypeOK
<1>1. events' \in Nat /\ events \in Nat /\ events' >= events
  <2>1. events' = events \/ \E kind : Event(kind)
    BY DEF Read, GetClient, FinishReconcile, Obtains, ObtainsNone
  <2>2. QED BY <2>1, EventType, NoEventType DEF TypeOK
<1>2. CASE Read(d)
  <2>1. using[d] = NoClient
    BY <1>2 DEF Read
  <2>2. QED BY <1>0, <1>2, <2>1 DEF Read
<1>3. CASE GetClient(d)
  <2>1. UNCHANGED <<obj, at, verdict, session, mine>> /\ seen[d] # Absent
    BY <1>3 DEF GetClient
  <2>2. Client(seen[d]).generation = seen[d].generation
    BY <1>0, <2>1, ClientType
  <2>3. \A e \in Dependents : using'[e] # NoClient =>
            /\ seen'[e] = seen[e]
            /\ using'[e] = using[e] \/ (e = d /\ using'[e] = Client(seen[d]))
    BY <1>0, <1>3 DEF GetClient, Finish
  <2>4. QED BY <1>1, <2>1, <2>2, <2>3
<1>4. CASE FinishReconcile(d)
  BY <1>0, <1>4 DEF FinishReconcile, Finish
<1>5. QED BY <1>2, <1>3, <1>4

\* What is new after a write of someone else is in what was written.
LEMMA TouchedNew ==
    ASSUME IInv, NEW o \in ConfigObjects \cup {Absent}, Touched(o)
    PROVE  /\ ClientsAreAskedFor'
           /\ \A g \in Generations : \A s \in Settings :
                Known(g, s)' => \/ Known(g, s)
                                \/ o # Absent /\ g = o.generation /\ s = o.settings
BY DEF IInv, Touched, keycloak, dependents, ClientsAreAskedFor, Known

\* What users make of the config keeps the invariant.
LEMMA UserIInv ==
    ASSUME NeverRecreated, IInv, UserEdits \/ UserDeletes \/ Released \/ UserCreates
    PROVE  IInv'
<1>0. Base /\ Base'
  BY UserTouches, TouchedBase DEF Base, IInv
<1>1. CASE UserEdits
  <2>1. PICK s \in Settings : Touched([obj EXCEPT !.settings = s, !.generation = @ + 1])
    BY <1>1 DEF UserEdits
  <2>2. obj # Absent /\ events \in Nat /\ events < MaxEvents /\ events' = events + 1
    BY <1>0, <1>1, EventType DEF UserEdits, Base
  <2> DEFINE o == [obj EXCEPT !.settings = s, !.generation = @ + 1]
  <2>3. /\ o \in ConfigObjects /\ o.generation = obj.generation + 1 /\ o.deleting = obj.deleting
        /\ o # Absent
    BY <1>0, <2>2, NextGeneration DEF ConfigObjects
  <2>4. obj' = o
    BY <2>1 DEF Touched
  <2> HIDE DEF o
  <2>5. Touched(o)
    BY <2>1 DEF o
  <2>6. ClientsAreAskedFor' /\ GenerationTellsSettings'
    BY <2>2, <2>3, <2>4, <2>5, TouchedNew, TellsTheNewest
  <2>7. DeletionIsCounted'
    BY <2>2 DEF DeletionIsCounted
  <2>8. QED BY <1>0, <2>6, <2>7 DEF IInv, Base
<1>2. CASE UserDeletes
  <2>1. obj # Absent /\ events \in Nat /\ events < MaxEvents /\ events' = events + 1
    BY <1>0, <1>2, EventType DEF UserDeletes, Base
  <2>2. DeletionIsCounted'
    BY <2>1 DEF DeletionIsCounted
  <2>3. CASE Touched(Absent)
    <3>1. obj' = Absent
      BY <2>3 DEF Touched
    <3>2. ClientsAreAskedFor' /\ NothingNew
      BY <2>3, TouchedNew DEF NothingNew
    <3>3. GenerationTellsSettings'
      BY <1>0, <2>1, <3>1, <3>2, StillTells DEF Base, TypeOK
    <3>4. QED BY <1>0, <2>2, <3>2, <3>3 DEF IInv, Base
  <2> DEFINE o == [obj EXCEPT !.deleting = TRUE, !.generation = @ + 1]
  <2>4. CASE Touched(o)
    <3>1. /\ o \in ConfigObjects /\ o.generation = obj.generation + 1 /\ o.settings = obj.settings
          /\ o # Absent
      BY <1>0, <2>1, NextGeneration DEF ConfigObjects
    <3>2. obj' = o
      BY <2>4 DEF Touched
    <3> HIDE DEF o
    <3>3. ClientsAreAskedFor' /\ GenerationTellsSettings'
      BY <2>1, <2>4, <3>1, <3>2, TouchedNew, TellsTheNewest
    <3>4. QED BY <1>0, <2>2, <3>3 DEF IInv, Base
  <2>5. QED BY <1>2, <2>3, <2>4 DEF UserDeletes
<1>3. CASE Released
  <2>1. Touched(Absent) /\ events' = events /\ obj' = Absent /\ events > 0
    BY <1>3 DEF Released, Touched, IInv, DeletionIsCounted
  <2>2. ClientsAreAskedFor' /\ NothingNew
    BY <2>1, TouchedNew DEF NothingNew
  <2>3. GenerationTellsSettings'
    BY <1>0, <2>1, <2>2, StillTells, NoEventType DEF Base
  <2>4. DeletionIsCounted'
    BY <2>1 DEF DeletionIsCounted
  <2>5. QED BY <1>0, <2>2, <2>3, <2>4 DEF IInv, Base
<1>4. CASE UserCreates
  <2>1. events = 0 /\ events' = events /\ obj = Absent
    BY <1>4 DEF UserCreates, Event, NeverRecreated
  <2>2. PICK s \in Settings : Touched(Config(1, s, FALSE))
    BY <1>4 DEF UserCreates
  <2> DEFINE o == Config(1, s, FALSE)
  <2>3. o \in ConfigObjects /\ o.generation = 1 /\ ~o.deleting /\ o # Absent
    <3>1. o \in ConfigObjects
      BY DEF Config, ConfigObjects, Generations
    <3>2. o.generation = 1 /\ ~o.deleting
      BY DEF Config
    <3>3. QED BY <3>1, <3>2
  <2>4. obj' = o /\ Touched(o)
    BY <2>2 DEF Touched
  <2> HIDE DEF o
  <2>5. ClientsAreAskedFor' /\ GenerationTellsSettings'
    BY <2>1, <2>3, <2>4, TouchedNew, TellsTheNewest
  <2>6. DeletionIsCounted'
    BY <2>3, <2>4 DEF DeletionIsCounted
  <2>7. QED BY <1>0, <2>5, <2>6 DEF IInv, Base
<1>5. QED BY <1>1, <1>2, <1>3, <1>4

\* Every step keeps the inductive invariant.
LEMMA NextIInv ==
    ASSUME NeverRecreated
    PROVE  IInv /\ [Next]_vars => IInv'
<1> SUFFICES ASSUME IInv, [Next]_vars PROVE IInv'
  OBVIOUS
<1>0. Base /\ Base'
  BY NextBase DEF Base, IInv
<1>1. ASSUME NothingNew, obj' = obj, ClientsAreAskedFor', events' >= events
      PROVE  IInv'
  <2>1. events \in Nat /\ events' \in 0..MaxEvents /\ events' \in Nat
    BY <1>0 DEF Base, TypeOK
  <2>2. GenerationTellsSettings'
    BY <1>1, <2>1, StillTells
  <2>3. DeletionIsCounted'
    BY <1>1, <2>1 DEF IInv, DeletionIsCounted
  <2>4. QED BY <1>0, <1>1, <2>2, <2>3 DEF IInv, Base
<1>2. CASE Begin \/ Work \/ \E d \in Dependents : Read(d) \/ GetClient(d) \/ FinishReconcile(d)
  <2>1. NothingNew /\ ClientsAreAskedFor' /\ DeletionIsCounted'
    BY <1>2, WorkerNothingNew, DependentNothingNew, WorkerAsks, DependentAsks
  <2>2. events' \in 0..MaxEvents /\ events' >= events
    <3>1. events' = events \/ \E kind : Event(kind)
      BY <1>2 DEF Begin, Work, Forget, Probe, Login, Test, Write, Read, GetClient,
                  FinishReconcile, Obtains, ObtainsNone
    <3>2. QED BY <1>0, <3>1, EventType, NoEventType DEF Base
  <2>3. \/ obj' = obj
        \/ /\ obj # Absent /\ obj \in ConfigObjects /\ verdict \in BOOLEAN
           /\ obj' = [obj EXCEPT !.ready = verdict]
    BY <1>0, <1>2 DEF Begin, Work, Forget, Probe, Login, Test, Write, Read, GetClient,
                      FinishReconcile, cluster, Base, TypeOK, CopiesAgree
  <2>4. /\ obj' # Absent => obj # Absent /\ obj'.generation = obj.generation
        /\ obj' = Absent => obj = Absent
    <3>1. CASE obj' = obj
      BY <3>1
    <3>2. CASE obj' # obj
      <4>1. obj' \in ConfigObjects /\ obj'.generation = obj.generation /\ obj # Absent
        BY <2>3, <3>2 DEF ConfigObjects
      <4>2. QED BY <4>1
    <3>3. QED BY <3>1, <3>2
  <2>5. GenerationTellsSettings'
    BY <2>1, <2>2, <2>4, StillTells
  <2>6. QED BY <1>0, <2>1, <2>5 DEF IInv, Base
<1>3. CASE UserEdits \/ UserDeletes \/ Released \/ UserCreates
  BY <1>3, UserIInv
<1>4. CASE Sync
  <2>1. NothingNew /\ obj' = obj /\ ClientsAreAskedFor' /\ events' = events
    BY <1>4 DEF Sync, NothingNew, Known, keycloak, worker, dependents, IInv, ClientsAreAskedFor
  <2>2. QED BY <1>0, <1>1, <2>1, NoEventType DEF Base
<1>5. CASE KeycloakChanges
  <2>1. NothingNew /\ obj' = obj /\ ClientsAreAskedFor'
    BY <1>5 DEF KeycloakChanges, NothingNew, Known, cluster, worker, dependents, IInv, ClientsAreAskedFor
  <2>2. events' >= events
    BY <1>0, <1>5, EventType, NoEventType DEF KeycloakChanges, Base
  <2>3. QED BY <1>1, <2>1, <2>2
<1>6. CASE Restart
  <2>1. NothingNew /\ obj' = obj /\ ClientsAreAskedFor'
    BY <1>6 DEF Restart, Done, NothingNew, Known, cluster, IInv, ClientsAreAskedFor
  <2>2. events' >= events
    BY <1>0, <1>6, EventType DEF Restart, Base
  <2>3. QED BY <1>1, <2>1, <2>2
<1>7. CASE UNCHANGED vars
  <2>1. NothingNew /\ obj' = obj /\ ClientsAreAskedFor' /\ events' = events
    BY <1>7 DEF vars, cluster, worker, dependents, NothingNew, Known, IInv, ClientsAreAskedFor
  <2>2. QED BY <1>0, <1>1, <2>1, NoEventType DEF Base
<1>8. QED BY <1>2, <1>3, <1>4, <1>5, <1>6, <1>7 DEF Next

\* The inductive invariant.
THEOREM Invariance ==
    ASSUME NeverRecreated
    PROVE  Spec => []IInv
BY InitIInv, NextIInv, PTL DEF Spec

\* Two objects of one generation, in whatever hands, have the same settings.
LEMMA SameSettings ==
    ASSUME IInv, NEW g \in Generations, NEW s \in Settings, NEW t \in Settings,
           Known(g, s), Known(g, t)
    PROVE  s = t
BY DEF IInv, GenerationTellsSettings

\* The config's worker and every dependent work with clients of the settings they have
\* read, though the key of a client tells its generation only (clientmanager.go:36), as
\* long as no config is deleted and made again.
THEOREM ClientsFollow ==
    ASSUME NeverRecreated
    PROVE  Spec => []ClientsFollowTheConfig
<1>1. IInv => ClientsFollowTheConfig
  <2> SUFFICES ASSUME IInv PROVE ClientsFollowTheConfig
    OBVIOUS
  <2>1. ASSUME at = "test" PROVE session.settings = mine.settings
    <3>1. /\ session \in Clients /\ mine \in ConfigObjects
          /\ session.generation = mine.generation
          /\ session # NoClient /\ mine # Absent
      BY <2>1 DEF IInv, TypeOK, ClientsAreAskedFor
    <3>2. /\ mine.generation \in Generations
          /\ session.settings \in Settings /\ mine.settings \in Settings
      BY <3>1 DEF Clients, ConfigObjects
    <3>3. Known(mine.generation, session.settings) /\ Known(mine.generation, mine.settings)
      BY <3>1 DEF Known
    <3>4. QED BY <3>2, <3>3, SameSettings
  <2>2. ASSUME NEW d \in Dependents, using[d] # NoClient
        PROVE  using[d].settings = seen[d].settings
    <3>1. /\ using[d] \in Clients /\ seen[d] \in ConfigObjects
          /\ using[d].generation = seen[d].generation
          /\ seen[d] # Absent
      BY <2>2 DEF IInv, TypeOK, ClientsAreAskedFor
    <3>2. /\ seen[d].generation \in Generations
          /\ using[d].settings \in Settings /\ seen[d].settings \in Settings
      BY <3>1 DEF Clients, ConfigObjects
    <3>3. Known(seen[d].generation, using[d].settings) /\ Known(seen[d].generation, seen[d].settings)
      BY <2>2, <3>1 DEF Known
    <3>4. QED BY <3>2, <3>3, SameSettings
  <2>3. QED BY <2>1, <2>2 DEF ClientsFollowTheConfig
<1>2. QED BY <1>1, Invariance, PTL

\* Ready is written only into settings that were tested
\* (keycloakinstanceconfig_controller.go:96-106, 224-235).
THEOREM ReadyIsEarned ==
    ASSUME NeverRecreated
    PROVE  Spec => ReadyWasEarned
<1>1. IInv /\ [Next]_vars
        => [at = "write" /\ at' = "idle" /\ obj' # obj /\ obj' # Absent /\ obj'.ready =>
               session.settings = obj.settings]_vars
  <2> SUFFICES ASSUME IInv, Next, at = "write", at' = "idle", obj' # obj, obj' # Absent, obj'.ready
               PROVE  session.settings = obj.settings
    OBVIOUS
  <2>1. Write
    BY DEF Next, Begin, Work, Forget, Probe, Login, Test, Read, GetClient, FinishReconcile,
           UserEdits, UserDeletes, Released, UserCreates, Touched, Sync, KeycloakChanges, Restart,
           cluster, worker
  <2>2. fresh /\ obj' = [obj EXCEPT !.ready = verdict]
    BY <2>1 DEF Write, cluster
  <2>3. mine = obj /\ obj \in ConfigObjects /\ obj # Absent
    BY <2>2 DEF IInv, TypeOK, CopiesAgree
  <2>4. verdict
    BY <2>2, <2>3 DEF ConfigObjects
  <2>5. session \in Clients /\ session # NoClient /\ session.generation = obj.generation
    BY <2>3, <2>4 DEF IInv, TypeOK, ClientsAreAskedFor
  <2>6. /\ obj.generation \in Generations
        /\ session.settings \in Settings /\ obj.settings \in Settings
    BY <2>3, <2>5 DEF Clients, ConfigObjects
  <2>7. Known(obj.generation, session.settings) /\ Known(obj.generation, obj.settings)
    BY <2>3, <2>5 DEF Known
  <2>8. QED BY <2>6, <2>7, SameSettings
<1>2. QED BY <1>1, Invariance, PTL DEF Spec, ReadyWasEarned
=============================================================================
