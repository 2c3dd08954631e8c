----------------------------- MODULE InstanceConfig -----------------------------
(***************************************************************************)
(* internal/controller/keycloakinstanceconfig_controller.go together with  *)
(* the two things it lives among: the shared ClientManager, taken as the   *)
(* one slot per config that ClientRegistry promises, and the reconcilers   *)
(* of the other kinds, which read the config's Ready condition and ask the *)
(* manager for a client (getKeycloakClient in each of them).               *)
(*                                                                         *)
(* One KeycloakInstanceConfig is modelled.  Its settings stand for all of  *)
(* its spec but the URL, which is never changed here: a version is then a  *)
(* generation.  The probe of the URL is abstracted to whether Keycloak is  *)
(* up, and the requests of a session to whether its settings are accepted  *)
(* (a rotation takes effect when the tokens of older logins have expired). *)
(***************************************************************************)
EXTENDS Naturals

CONSTANTS
    Dependents,   \* the workers of the other reconcilers
    Settings,     \* what a config may say; one of them Keycloak accepts at a time
    MaxEvents,    \* bound on edits, deletions, rotations, outages, faults and crashes
    Disturbances, \* the kinds of event this instance admits
    NoClient, Absent

Kinds == {"edit", "delete", "recreate", "rotate", "outage", "fault", "crash"}

ASSUME BoundAssumption == MaxEvents \in Nat
ASSUME KindsAssumption == Disturbances \subseteq Kinds

VARIABLES
    obj,       \* the API server's KeycloakInstanceConfig
    cache,     \* the informer cache
    stale,     \* whether the cached copy is older than the object
    slot,      \* the ClientManager's client for the config
    up,        \* whether Keycloak answers
    accepted,  \* the settings it accepts
    at,        \* where the config's worker is
    mine,      \* its in-memory copy: config
    fresh,     \* whether that copy's resource version is the object's
    session,   \* the client it tests
    verdict,   \* the Ready condition to be written
    seen,      \* the copy of the config each dependent has read
    using,     \* the client each dependent works with
    events     \* disturbances so far

cluster    == <<obj, cache, stale>>
keycloak   == <<up, accepted>>
worker     == <<at, mine, fresh, session, verdict>>
dependents == <<seen, using>>
vars       == <<cluster, slot, keycloak, worker, dependents, events>>

Config(generation, settings, ready) ==
    [generation |-> generation, settings |-> settings, ready |-> ready,
     deleting |-> FALSE]

\* The operator starts before the config is made, or beside one an earlier run may
\* have left Ready.
Init == /\ \/ obj = Absent
           \/ \E s \in Settings, ready \in BOOLEAN : obj = Config(1, s, ready)
        /\ cache = obj
        /\ stale = FALSE
        /\ slot = NoClient
        /\ up \in BOOLEAN
        /\ accepted \in Settings
        /\ at = "idle" /\ mine = Absent /\ fresh = FALSE /\ session = NoClient /\ verdict = FALSE
        /\ seen = [d \in Dependents |-> Absent]
        /\ using = [d \in Dependents |-> NoClient]
        /\ events = 0

Event(kind) == kind \in Disturbances /\ events < MaxEvents /\ events' = events + 1

Accepts(s) == up /\ accepted = s
-----------------------------------------------------------------------------
(* The ClientManager.                                                       *)

\* A mutant: one client per config, whatever the generation.
HeldByName(c) == slot # NoClient

\* The key is the generation: the slot serves a config of the same one.
Held(c) == slot # NoClient /\ slot.generation = c.generation

\* GetOrCreateClient: the client held, or that of a login; a login that fails leaves none.
Client(c) == IF Held(c) THEN slot ELSE [generation |-> c.generation, settings |-> c.settings]

Obtains(c) == /\ Held(c) \/ Accepts(c.settings)
              /\ slot' = Client(c)
              /\ UNCHANGED events

ObtainsNone(c) == /\ ~Held(c)
                  /\ slot' = NoClient
                  /\ \/ ~Accepts(c.settings) /\ UNCHANGED events
                     \/ Accepts(c.settings) /\ Event("fault")
-----------------------------------------------------------------------------
(* The config's worker.                                                     *)

Done == /\ at' = "idle" /\ mine' = Absent /\ fresh' = FALSE
        /\ session' = NoClient /\ verdict' = FALSE

Goto(label) == at' = label /\ UNCHANGED <<mine, fresh>>

\* The beginning of updateStatus.
Report(ready) == Goto("write") /\ verdict' = ready /\ session' = session

\* Reconcile begins with a read of the cache, which may find nothing.
Begin == /\ at = "idle"
         /\ mine' = cache /\ fresh' = ~stale
         /\ at' = IF cache = Absent \/ (cache # Absent /\ cache.deleting) THEN "forget" ELSE "probe"
         /\ UNCHANGED <<cluster, slot, keycloak, session, verdict, dependents, events>>

\* RemoveClient.  A config that was not found is passed as an empty object, whose
\* namespace and name no client has.
Forget == /\ at = "forget"
          /\ slot' = IF mine = Absent THEN slot ELSE NoClient
          /\ Done
          /\ UNCHANGED <<cluster, keycloak, dependents, events>>

\* A mutant: a config that is Ready is not probed again.
ProbeUnready == /\ at = "probe"
                /\ \/ mine.ready /\ Done /\ UNCHANGED events
                   \/ ~mine.ready /\ up /\ Goto("login") /\ UNCHANGED <<session, verdict, events>>
                   \/ ~mine.ready /\ ~up /\ Report(FALSE) /\ UNCHANGED events
                /\ UNCHANGED <<cluster, slot, keycloak, dependents>>

\* checkURLReachability
Probe == /\ at = "probe"
         /\ \/ up /\ Goto("login") /\ UNCHANGED <<session, verdict, events>>
            \/ ~up /\ Report(FALSE) /\ UNCHANGED events
            \/ up /\ Event("fault") /\ Report(FALSE)
         /\ UNCHANGED <<cluster, slot, keycloak, dependents>>

\* A mutant: the error of the login is not looked at.
LoginUnchecked == /\ at = "login"
                  /\ \/ ObtainsNone(mine) /\ session' = NoClient
                     \/ Obtains(mine) /\ session' = Client(mine)
                  /\ Goto("test")
                  /\ UNCHANGED <<verdict, cluster, keycloak, dependents>>

Login == /\ at = "login"
         /\ \/ ObtainsNone(mine) /\ Report(FALSE)
            \/ /\ Obtains(mine)
               /\ session' = Client(mine)
               /\ Goto("test") /\ UNCHANGED verdict
         /\ UNCHANGED <<cluster, keycloak, dependents>>

\* testConnectionWithClient
Test == /\ at = "test"
        /\ \/ Accepts(session.settings) /\ Report(TRUE) /\ UNCHANGED events
           \/ ~Accepts(session.settings) /\ Report(FALSE) /\ UNCHANGED events
           \/ Accepts(session.settings) /\ Event("fault") /\ Report(FALSE)
        /\ UNCHANGED <<cluster, slot, keycloak, dependents>>

\* A mutant: the status is written over a newer object.
WriteBlind == /\ at = "write"
              /\ obj' = IF obj = Absent THEN Absent ELSE [obj EXCEPT !.ready = verdict]
              /\ stale' = TRUE
              /\ Done
              /\ UNCHANGED <<cache, slot, keycloak, dependents, events>>

\* A mutant: a conflict is retried with the same copy.
WriteAgain == /\ at = "write"
              /\ fresh
              /\ obj' = [obj EXCEPT !.ready = verdict]
              /\ stale' = TRUE
              /\ Done
              /\ UNCHANGED <<cache, slot, keycloak, dependents, events>>

\* One attempt at the status, with the copy read at the beginning.
Write == /\ at = "write"
         /\ \/ /\ fresh
               /\ obj' = [obj EXCEPT !.ready = verdict]
               /\ stale' = TRUE
               /\ UNCHANGED cache
            \/ ~fresh /\ UNCHANGED cluster
         /\ Done
         /\ UNCHANGED <<slot, keycloak, dependents, events>>
-----------------------------------------------------------------------------
(* A dependent's getKeycloakClient: the config must be Ready in the cache.  *)

Read(d) == /\ seen[d] = Absent
           /\ cache # Absent /\ cache.ready
           /\ seen' = [seen EXCEPT ![d] = cache]
           /\ UNCHANGED <<cluster, slot, keycloak, worker, using, events>>

Finish(d) == /\ seen' = [seen EXCEPT ![d] = Absent]
             /\ using' = [using EXCEPT ![d] = NoClient]

GetClient(d) ==
    /\ seen[d] # Absent /\ using[d] = NoClient
    /\ \/ ObtainsNone(seen[d]) /\ Finish(d)
       \/ /\ Obtains(seen[d])
          /\ using' = [using EXCEPT ![d] = Client(seen[d])]
          /\ UNCHANGED seen
    /\ UNCHANGED <<cluster, keycloak, worker>>

FinishReconcile(d) == /\ using[d] # NoClient
                      /\ Finish(d)
                      /\ UNCHANGED <<cluster, slot, keycloak, worker, events>>
-----------------------------------------------------------------------------
(* Everyone else.                                                           *)

\* Another client of the API server writes the config.
Touched(o) == /\ obj' = o
              /\ stale' = TRUE
              /\ fresh' = FALSE
              /\ UNCHANGED <<cache, slot, keycloak, at, mine, session, verdict, dependents>>

UserEdits == /\ obj # Absent
             /\ Event("edit")
             /\ \E s \in Settings \ {obj.settings} :
                  Touched([obj EXCEPT !.settings = s, !.generation = @ + 1])

\* A deletion waits for whoever else has put a finalizer on the config: the operator
\* puts none.  Marking it is a new generation.
UserDeletes == /\ obj # Absent /\ ~obj.deleting
               /\ Event("delete")
               /\ \/ Touched(Absent)
                  \/ Touched([obj EXCEPT !.deleting = TRUE, !.generation = @ + 1])

Released == /\ obj # Absent /\ obj.deleting
            /\ Touched(Absent)
            /\ UNCHANGED events

\* The first object is made before anything else happens; a later one begins at
\* generation 1 again.
UserCreates == /\ obj = Absent
               /\ IF events = 0 THEN UNCHANGED events ELSE Event("recreate")
               /\ \E s \in Settings : Touched(Config(1, s, FALSE))

\* The informer catches up.
Sync == /\ stale
        /\ cache' = obj
        /\ stale' = FALSE
        /\ UNCHANGED <<obj, slot, keycloak, worker, dependents, events>>

\* Keycloak goes down and comes back, and its credentials are changed.
KeycloakChanges == /\ \/ up /\ Event("outage") /\ up' = FALSE /\ UNCHANGED accepted
                      \/ ~up /\ up' = TRUE /\ UNCHANGED <<accepted, events>>
                      \/ Event("rotate") /\ accepted' \in Settings \ {accepted} /\ UNCHANGED up
                   /\ UNCHANGED <<cluster, slot, worker, dependents>>

\* The operator restarts.
Restart == /\ Event("crash")
           /\ slot' = NoClient
           /\ Done
           /\ seen' = [d \in Dependents |-> Absent]
           /\ using' = [d \in Dependents |-> NoClient]
           /\ UNCHANGED <<cluster, keycloak>>
-----------------------------------------------------------------------------
Work == Forget \/ Probe \/ Login \/ Test \/ Write

Next == \/ Begin \/ Work
        \/ \E d \in Dependents : Read(d) \/ GetClient(d) \/ FinishReconcile(d)
        \/ UserEdits \/ UserDeletes \/ Released \/ UserCreates
        \/ Sync \/ KeycloakChanges \/ Restart

Spec == Init /\ [][Next]_vars

(***************************************************************************)
(* Every reconcile is requeued, after 30 seconds or 5 minutes, or retried  *)
(* with backoff after an error; the worker goes on with what it has begun; *)
(* the informer catches up.  Nothing is assumed of the users, of Keycloak  *)
(* or of the other reconcilers.                                            *)
(***************************************************************************)
FairSpec == Spec /\ WF_vars(Begin) /\ WF_vars(Work) /\ WF_vars(Sync)
-----------------------------------------------------------------------------
Generations == 1..(MaxEvents + 1)
ConfigObjects == [generation : Generations, settings : Settings, ready : BOOLEAN,
                  deleting : BOOLEAN]
Clients == [generation : Generations, settings : Settings]

ASSUME NilAssumption == Absent \notin ConfigObjects /\ NoClient \notin Clients

\* The type of every variable; a session is tested only if there is one.
TypeOK == /\ obj \in ConfigObjects \cup {Absent}
          /\ cache \in ConfigObjects \cup {Absent}
          /\ stale \in BOOLEAN
          /\ slot \in Clients \cup {NoClient}
          /\ up \in BOOLEAN /\ accepted \in Settings
          /\ at \in {"idle", "forget", "probe", "login", "test", "write"}
          /\ mine \in ConfigObjects \cup {Absent}
          /\ fresh \in BOOLEAN /\ verdict \in BOOLEAN
          /\ session \in Clients \cup {NoClient}
          /\ at \in {"probe", "login", "test", "write"} => mine # Absent
          /\ at = "test" => session # NoClient
          /\ seen \in [Dependents -> ConfigObjects \cup {Absent}]
          /\ using \in [Dependents -> Clients \cup {NoClient}]
          /\ events \in 0..MaxEvents

\* Whoever works with a client, the config's own worker or another reconciler, works
\* with one logged in with the settings of the config it has read, whichever worker
\* made the client and however old the copies of the others were.  It holds as long
\* as no config is deleted and made again (clientmanager.go:29-30).
ClientsFollowTheConfig ==
    /\ at = "test" => session.settings = mine.settings
    /\ \A d \in Dependents : using[d] # NoClient => using[d].settings = seen[d].settings

\* Ready is written into a config only after a session with the settings the object
\* has at that moment was tested: an edit made during the test is not certified by it.
ReadyWasEarned ==
    [][at = "write" /\ at' = "idle" /\ obj' # obj /\ obj' # Absent /\ obj'.ready =>
          session.settings = obj.settings]_vars

(***************************************************************************)
(* The parts of an inductive invariant, the last three as long as no       *)
(* config is deleted and made again.                                       *)
(***************************************************************************)
\* A copy that no write has overtaken is the object; each write is a new generation.
CopiesAgree == /\ ~stale => cache = obj
               /\ fresh => mine = obj
               /\ obj # Absent => obj.generation <= events + 1

\* Somewhere there is a copy, or a client made from one, of generation g and settings s.
Known(g, s) ==
    LET Has(c, nil) == c # nil /\ c.generation = g /\ c.settings = s
    IN  \/ Has(obj, Absent) \/ Has(cache, Absent) \/ Has(mine, Absent)
        \/ Has(slot, NoClient) \/ Has(session, NoClient)
        \/ \E d \in Dependents : Has(seen[d], Absent) \/ Has(using[d], NoClient)

\* The generation, all that the key of a client says, stands for the settings: no copy
\* is newer than the object, and before the first object there is none.
GenerationTellsSettings ==
    \A g \in Generations : \A s \in Settings : Known(g, s) =>
        /\ \A t \in Settings : Known(g, t) => s = t
        /\ obj # Absent => g <= obj.generation
        /\ obj = Absent => events > 0

\* A deletion, marked or done, is a disturbance, and so is not undone.
DeletionIsCounted == obj # Absent /\ obj.deleting => events > 0

\* Whoever uses a client got it for the copy it has in hand.
ClientsAreAskedFor ==
    /\ at = "test" \/ (at = "write" /\ verdict)
          => session # NoClient /\ session.generation = mine.generation
    /\ \A d \in Dependents :
         using[d] # NoClient => seen[d] # Absent /\ using[d].generation = seen[d].generation

IInv == /\ TypeOK
        /\ CopiesAgree
        /\ GenerationTellsSettings
        /\ DeletionIsCounted
        /\ ClientsAreAskedFor

Works == obj # Absent /\ ~obj.deleting /\ Accepts(obj.settings)

\* A config that works comes to be Ready, however many edits and outages came before.
BecomesReady == Works ~> ~Works \/ obj.ready

\* A config that does not work stops being Ready.
NoticesFailure ==
    obj # Absent /\ ~obj.deleting /\ ~Accepts(obj.settings)
        ~> obj = Absent \/ obj.deleting \/ Accepts(obj.settings) \/ ~obj.ready
=============================================================================
