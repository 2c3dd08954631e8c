---------------------------- MODULE ClientManager ----------------------------
(***************************************************************************)
(* internal/keycloak/clientmanager.go: the map of logged-in Keycloak       *)
(* clients that every reconciler shares, under one sync.RWMutex.           *)
(*                                                                         *)
(* A caller is a reconcile worker; a config object is the value of a       *)
(* KeycloakInstanceConfig it read: its name (namespace included), its      *)
(* version (Spec.Url and Generation, what the key is made of) and its      *)
(* settings (credentials and the rest of the spec, what the login uses).   *)
(***************************************************************************)
CONSTANTS
    Callers,    \* the reconcile workers
    Configs,    \* namespaced names of KeycloakInstanceConfigs
    Versions,   \* <Url, Generation> pairs
    Objects,    \* config objects a caller may hold: records name, version, settings
    Extends,    \* <<c, d>>: the name of d is the name of c, a dash, and more
    NoClient,   \* nil
    NoOne       \* no holder

ASSUME ObjectsAssumption ==
    \A o \in Objects : /\ o.name \in Configs
                       /\ o.version \in Versions
ASSUME ExtendsAssumption == Extends \subseteq Configs \X Configs
ASSUME NilAssumption == NoClient \notin Objects /\ NoOne \notin Callers

VARIABLES
    clients,    \* cm.clients: a client is named by the object it was built from
    writer,     \* the holder of the write lock
    readers,    \* the holders of the read lock
    pc,         \* where each caller is
    op,         \* the method each caller is in, or was in last
    arg,        \* its argument
    got         \* the client it returned

lock == <<writer, readers>>
vars == <<clients, writer, readers, pc, op, arg, got>>

Keys == Configs \X Versions

\* A mutant: a key without URL and generation.
KeyOfName(o) == <<o.name, CHOOSE v \in Versions : TRUE>>

\* getClientKey: the settings of the object are not part of it.
Key(o) == <<o.name, o.version>>

\* A mutant: a prefix that stops at the namespace.
HasNamespacePrefix(k, o) == TRUE

\* strings.HasPrefix(existingKey, getClientPrefix(config))
HasPrefix(k, o) == k[1] = o.name \/ <<o.name, k[1]>> \in Extends

Empty == [k \in Keys |-> NoClient]

Init == /\ clients = Empty
        /\ writer = NoOne
        /\ readers = {}
        /\ pc = [p \in Callers |-> "idle"]
        /\ op = [p \in Callers |-> "none"]
        /\ arg = [p \in Callers |-> NoClient]
        /\ got = [p \in Callers |-> NoClient]
-----------------------------------------------------------------------------
Goto(p, label) == pc' = [pc EXCEPT ![p] = label]

Return(p, client) == /\ Goto(p, "idle")
                     /\ got' = [got EXCEPT ![p] = client]
                     /\ UNCHANGED <<op, arg>>

\* Entering GetOrCreateClient or RemoveClient.
Call(p, method, o, label) ==
    /\ pc[p] = "idle"
    /\ Goto(p, label)
    /\ op' = [op EXCEPT ![p] = method]
    /\ arg' = [arg EXCEPT ![p] = o]
    /\ got' = [got EXCEPT ![p] = NoClient]
    /\ UNCHANGED <<clients, lock>>

CallGet(p, o) == Call(p, "get", o, "rlock")
\* A mutant: the caller passes on what it has not found.
CallRemoveOfNil(p, o) == Call(p, "remove", NoClient, "lock")

CallRemove(p, o) == Call(p, "remove", o, "lock")

RLock(p) == /\ pc[p] = "rlock"
            /\ writer = NoOne
            /\ readers' = readers \cup {p}
            /\ Goto(p, "read")
            /\ UNCHANGED <<clients, writer, op, arg, got>>

\* The fast path: look the key up and release the read lock.
Read(p) == /\ pc[p] = "read"
           /\ readers' = readers \ {p}
           /\ LET client == clients[Key(arg[p])] IN
                \/ client # NoClient /\ Return(p, client)
                \/ client = NoClient /\ Goto(p, "lock") /\ UNCHANGED <<op, arg, got>>
           /\ UNCHANGED <<clients, writer>>

\* mutex.Lock: one writer at a time, which new readers wait for from now on ...
Lock(p) == /\ pc[p] = "lock"
           /\ writer = NoOne
           /\ writer' = p
           /\ Goto(p, "drain")
           /\ UNCHANGED <<clients, readers, op, arg, got>>

\* A mutant: the readers inside are not waited for.
DrainNobody(p) == /\ pc[p] = "drain"
                  /\ Goto(p, IF op[p] = "get" THEN "check" ELSE "remove")
                  /\ UNCHANGED <<clients, lock, op, arg, got>>

\* ... and which waits for the readers inside.
Drain(p) == /\ pc[p] = "drain"
            /\ readers = {}
            /\ Goto(p, IF op[p] = "get" THEN "check" ELSE "remove")
            /\ UNCHANGED <<clients, lock, op, arg, got>>

\* The second look, under the write lock, finds a client another caller made.
CheckHit(p) == /\ pc[p] = "check"
               /\ clients[Key(arg[p])] # NoClient
               /\ writer' = NoOne
               /\ Return(p, clients[Key(arg[p])])
               /\ UNCHANGED <<clients, readers>>

\* A mutant: old clients are left.
EvictedNone(o) == clients

\* The eviction loop, before the login is tried.
Evicted(o) == [k \in Keys |-> IF HasPrefix(k, o) /\ k # Key(o) THEN NoClient ELSE clients[k]]

\* A mutant: no second look under the write lock.
EvictUnchecked(p) == /\ pc[p] = "check"
                     /\ clients' = Evicted(arg[p])
                     /\ Goto(p, "login")
                     /\ UNCHANGED <<lock, op, arg, got>>

Evict(p) == /\ pc[p] = "check"
            /\ clients[Key(arg[p])] = NoClient
            /\ clients' = Evicted(arg[p])
            /\ Goto(p, "login")
            /\ UNCHANGED <<lock, op, arg, got>>

\* createKeycloakClient: a network login, made while the write lock is held.
LoginSucceeds(p) == /\ pc[p] = "login"
                    /\ clients' = [clients EXCEPT ![Key(arg[p])] = arg[p]]
                    /\ writer' = NoOne
                    /\ Return(p, arg[p])
                    /\ UNCHANGED readers

\* A mutant: the error path keeps the lock.
LoginFailsLocked(p) == /\ pc[p] = "login"
                       /\ Return(p, NoClient)
                       /\ UNCHANGED <<clients, lock>>

LoginFails(p) == /\ pc[p] = "login"
                 /\ writer' = NoOne
                 /\ Return(p, NoClient)
                 /\ UNCHANGED <<clients, readers>>

\* A mutant: only the client of the current generation goes.
RemovedCurrent(o) == [clients EXCEPT ![Key(o)] = NoClient]

\* RemoveClient: every client of the config goes, whatever its URL and generation.
Removed(o) == [k \in Keys |-> IF HasPrefix(k, o) THEN NoClient ELSE clients[k]]

Remove(p) == /\ pc[p] = "remove"
             /\ clients' = Removed(arg[p])
             /\ writer' = NoOne
             /\ Return(p, NoClient)
             /\ UNCHANGED readers

\* The operator's process is restarted (a crash, or a lost leader lease).
Restart == /\ clients' = Empty
           /\ writer' = NoOne
           /\ readers' = {}
           /\ pc' = [p \in Callers |-> "idle"]
           /\ op' = [p \in Callers |-> "none"]
           /\ arg' = [p \in Callers |-> NoClient]
           /\ got' = [p \in Callers |-> NoClient]

Enter(p) == RLock(p) \/ Lock(p)
Work(p) == Read(p) \/ Drain(p) \/ CheckHit(p) \/ Evict(p) \/ Remove(p)
LoginEnds(p) == LoginSucceeds(p) \/ LoginFails(p)

Step(p) == Enter(p) \/ Work(p) \/ LoginEnds(p)

Next == \/ \E p \in Callers : \/ \E o \in Objects : CallGet(p, o) \/ CallRemove(p, o)
                              \/ Step(p)
        \/ Restart

Spec == Init /\ [][Next]_vars

(***************************************************************************)
(* A goroutine that can move does; sync.RWMutex starves neither readers    *)
(* nor writers, hence strong fairness on getting in; a login ends, with    *)
(* or without a session.  The last is an assumption on Keycloak and on     *)
(* Spec.Timeout: its default 0 is no deadline at all.                      *)
(***************************************************************************)
Fairness == \A p \in Callers : SF_vars(Enter(p)) /\ WF_vars(Work(p) \/ LoginEnds(p))

FairSpec == Spec /\ Fairness
-----------------------------------------------------------------------------
Labels == {"idle", "rlock", "read", "lock", "drain", "check", "login", "remove"}

\* The type of every variable.
TypeOK == /\ clients \in [Keys -> Objects \cup {NoClient}]
          /\ writer \in Callers \cup {NoOne}
          /\ readers \subseteq Callers
          /\ pc \in [Callers -> Labels]
          /\ op \in [Callers -> {"none", "get", "remove"}]
          /\ arg \in [Callers -> Objects \cup {NoClient}]
          /\ got \in [Callers -> Objects \cup {NoClient}]
          /\ \A p \in Callers : pc[p] # "idle" => arg[p] \in Objects

\* Who may be where is what the lock says: the critical sections of the write
\* lock hold one caller, and none while anyone reads the map.
LockDiscipline ==
    /\ \A p \in Callers : pc[p] \in {"drain", "check", "login", "remove"} <=> writer = p
    /\ \A p \in Callers : pc[p] = "read" <=> p \in readers
    /\ writer # NoOne /\ pc[writer] # "drain" => readers = {}

\* Nothing in the lock's way: the writer that is in waits only for readers to leave.
CanMove(p) == \/ pc[p] \in {"read", "check", "login", "remove"}
              \/ pc[p] \in {"rlock", "lock"} /\ writer = NoOne
              \/ pc[p] = "drain" /\ readers = {}

\* The lock is never left behind: as long as a call is under way some call can go on,
\* whoever holds the lock, whichever error path was taken (clientmanager.go:61-111) and
\* however readers and writers queue.
SomeoneCanMove == (\E p \in Callers : pc[p] # "idle") => \E p \in Callers : CanMove(p)

\* The eviction loop works whatever the interleaving of callers that hold
\* different generations of one config: the map never keeps two clients of it.
AtMostOneClientPerConfig ==
    \A k, l \in Keys : k[1] = l[1] /\ clients[k] # NoClient /\ clients[l] # NoClient => k = l

\* A client is filed under the key of the object it was built from, so its URL
\* and generation are those the key says.
ClientsUnderTheirKey == \A k \in Keys : clients[k] # NoClient => Key(clients[k]) = k

\* While a caller logs in, its config has no client at all: the eviction has left
\* none, and nobody else can add one before the login is stored.
LoginStartsClean ==
    \A p \in Callers : pc[p] = "login" =>
        \A v \in Versions : clients[<<arg[p].name, v>>] = NoClient

\* The double check works: no caller logs in for a key that has a client, so
\* callers racing for the same config share one session.
NoDuplicateLogin ==
    \A p \in Callers : pc[p] = "login" => clients[Key(arg[p])] = NoClient

\* A client handed out was built for the version of the config that was asked
\* for, whoever built it and whatever was evicted meanwhile.
AnswersTheVersionAsked ==
    \A p \in Callers : got[p] # NoClient => Key(got[p]) = Key(arg[p])

\* A client handed out was built from the settings of the object passed in.
\* It holds when a key is never reused for other settings.
AnswersTheSettingsAsked ==
    \A p \in Callers : got[p] # NoClient => got[p] = arg[p]

\* getClientPrefix "identifies all clients for a specific config": a client is
\* dropped only by a caller working for the config it belongs to (or a restart).
EvictionIsLocal ==
    [][\A k \in Keys : clients[k] # NoClient /\ clients'[k] = NoClient =>
           Restart \/ arg[writer].name = k[1]]_vars

\* Every call returns, whatever the others do: no caller waits for the lock for ever.
CallsReturn == \A p \in Callers : pc[p] # "idle" ~> pc[p] = "idle"

\* The single-client-per-config registry this implements, when no name extends another.
slot == [c \in Configs |->
           IF \E v \in Versions : clients[<<c, v>>] # NoClient
             THEN clients[<<c, CHOOSE v \in Versions : clients[<<c, v>>] # NoClient>>]
             ELSE NoClient]
waiting == {p \in Callers : pc[p] # "idle"}

Registry == INSTANCE ClientRegistry WITH ask <- arg
RegistrySpec == Registry!Spec
=============================================================================
