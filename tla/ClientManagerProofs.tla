-------------------------- MODULE ClientManagerProofs --------------------------
(***************************************************************************)
(* Theorems about ClientManager for any callers, configs, versions and     *)
(* objects.  IInv is the inductive invariant; the refinement of the        *)
(* registry needs that no config name extends another.                     *)
(***************************************************************************)
EXTENDS ClientManager, TLAPS

USE ObjectsAssumption, ExtendsAssumption, NilAssumption

IInv == /\ TypeOK
        /\ LockDiscipline
        /\ ClientsUnderTheirKey
        /\ AtMostOneClientPerConfig
        /\ LoginStartsClean
        /\ AnswersTheVersionAsked

\* The key of an object is a key of the map.
LEMMA KeyType == \A o \in Objects : Key(o) \in Keys /\ Key(o)[1] = o.name
BY DEF Key, Keys

\* The pairs of the map's domain.
LEMMA KeyPair == \A k \in Keys : k[1] \in Configs /\ k[2] \in Versions /\ k = <<k[1], k[2]>>
BY DEF Keys

\* The first state satisfies the inductive invariant.
LEMMA InitIInv == Init => IInv
BY DEF Init, IInv, TypeOK, LockDiscipline, ClientsUnderTheirKey, AtMostOneClientPerConfig,
       LoginStartsClean, AnswersTheVersionAsked, Empty, Labels

\* Calling the manager changes only the caller's own registers.
LEMMA CallIInv ==
    ASSUME IInv, NEW p \in Callers, NEW o \in Objects, CallGet(p, o) \/ CallRemove(p, o)
    PROVE  IInv'
<1> USE DEF CallGet, CallRemove, Call, Goto, lock
<1>1. TypeOK'
  BY DEF IInv, TypeOK, Labels
<1>2. LockDiscipline'
  BY DEF IInv, TypeOK, LockDiscipline
<1>3. ClientsUnderTheirKey' /\ AtMostOneClientPerConfig'
  BY DEF IInv, ClientsUnderTheirKey, AtMostOneClientPerConfig
<1>4. LoginStartsClean'
  BY DEF IInv, TypeOK, LoginStartsClean
<1>5. AnswersTheVersionAsked'
  BY DEF IInv, TypeOK, AnswersTheVersionAsked
<1>6. QED BY <1>1, <1>2, <1>3, <1>4, <1>5 DEF IInv

\* A step that leaves the map alone and takes or releases a lock.
LEMMA ReadIInv ==
    ASSUME IInv, NEW p \in Callers,
           Enter(p) \/ Read(p) \/ Drain(p) \/ CheckHit(p) \/ LoginFails(p)
    PROVE  IInv'
<1> USE DEF Enter, RLock, Read, Lock, Drain, CheckHit, LoginFails, Return, Goto, lock
<1>0. pc[p] # "idle" /\ arg[p] \in Objects /\ Key(arg[p]) \in Keys
  BY KeyType DEF IInv, TypeOK
<1>1. TypeOK'
  BY <1>0 DEF IInv, TypeOK, Labels
<1>2. LockDiscipline'
  BY DEF IInv, TypeOK, LockDiscipline
<1>3. ClientsUnderTheirKey' /\ AtMostOneClientPerConfig'
  BY DEF IInv, ClientsUnderTheirKey, AtMostOneClientPerConfig
<1>4. LoginStartsClean'
  BY DEF IInv, TypeOK, LoginStartsClean
<1>5. AnswersTheVersionAsked'
  BY <1>0 DEF IInv, TypeOK, AnswersTheVersionAsked, ClientsUnderTheirKey
<1>6. QED BY <1>1, <1>2, <1>3, <1>4, <1>5 DEF IInv

\* A step that deletes from the map.
LEMMA DropIInv ==
    ASSUME IInv, NEW p \in Callers, Evict(p) \/ Remove(p)
    PROVE  IInv'
<1>0. pc[p] # "idle" /\ arg[p] \in Objects /\ Key(arg[p]) \in Keys /\ writer = p
  BY KeyType DEF IInv, TypeOK, LockDiscipline, Evict, Remove
<1>1. \A k \in Keys : clients'[k] \in {clients[k], NoClient}
  BY DEF Evict, Remove, Evicted, Removed
<1>2. clients' \in [Keys -> Objects \cup {NoClient}]
  BY <1>0 DEF Evict, Remove, Evicted, Removed, IInv, TypeOK
<1>3. TypeOK'
  BY <1>0, <1>2 DEF IInv, TypeOK, Labels, Evict, Remove, Return, Goto, lock
<1>4. LockDiscipline'
  BY <1>0 DEF IInv, TypeOK, LockDiscipline, Evict, Remove, Return, Goto, lock
<1>5. ClientsUnderTheirKey'
  BY <1>1 DEF IInv, ClientsUnderTheirKey
<1>6. AtMostOneClientPerConfig'
  BY <1>1 DEF IInv, AtMostOneClientPerConfig
<1>7. LoginStartsClean'
  <2> SUFFICES ASSUME NEW q \in Callers, pc'[q] = "login", NEW v \in Versions
               PROVE  clients'[<<arg'[q].name, v>>] = NoClient
    BY DEF LoginStartsClean
  <2>1. q = p
    BY <1>0 DEF IInv, TypeOK, LockDiscipline, Evict, Remove, Return, Goto
  <2>2. Evict(p) /\ arg' = arg
    BY <2>1 DEF IInv, TypeOK, Evict, Remove, Return, Goto
  <2>3. <<arg[p].name, v>> \in Keys
    BY <1>0 DEF Keys
  <2>4. QED BY <1>0, <2>1, <2>2, <2>3 DEF Evict, Evicted, HasPrefix, Key
<1>8. AnswersTheVersionAsked'
  BY <1>0 DEF IInv, TypeOK, AnswersTheVersionAsked, Evict, Remove, Return, Goto
<1>9. QED BY <1>3, <1>4, <1>5, <1>6, <1>7, <1>8 DEF IInv

\* A successful login adds the one client its config has.
LEMMA LoginIInv ==
    ASSUME IInv, NEW p \in Callers, LoginSucceeds(p)
    PROVE  IInv'
<1> USE DEF LoginSucceeds, Return, Goto
<1>0. pc[p] = "login" /\ arg[p] \in Objects /\ Key(arg[p]) \in Keys /\ writer = p
  BY KeyType DEF IInv, TypeOK, LockDiscipline
<1>1. /\ clients' = [clients EXCEPT ![Key(arg[p])] = arg[p]]
      /\ arg' = arg
      /\ clients \in [Keys -> Objects \cup {NoClient}]
  BY DEF IInv, TypeOK
<1>2. TypeOK'
  BY <1>0, <1>1 DEF IInv, TypeOK, Labels
<1>3. LockDiscipline'
  BY <1>0 DEF IInv, TypeOK, LockDiscipline
<1>4. ClientsUnderTheirKey'
  BY <1>0, <1>1 DEF IInv, ClientsUnderTheirKey, Key
<1>5. AtMostOneClientPerConfig'
  <2>1. \A k \in Keys : k[1] = arg[p].name => clients[k] = NoClient
    BY <1>0, KeyPair DEF IInv, LoginStartsClean
  <2>2. \A k \in Keys : k[1] = arg[p].name /\ clients'[k] # NoClient => k = Key(arg[p])
    BY <1>0, <1>1, <2>1
  <2>3. \A k \in Keys : k[1] # arg[p].name => clients'[k] = clients[k]
    BY <1>0, <1>1, KeyType
  <2>4. QED BY <2>2, <2>3 DEF IInv, AtMostOneClientPerConfig
<1>6. LoginStartsClean'
  BY <1>0 DEF IInv, TypeOK, LoginStartsClean, LockDiscipline
<1>7. AnswersTheVersionAsked'
  BY <1>0 DEF IInv, TypeOK, AnswersTheVersionAsked
<1>8. QED BY <1>2, <1>3, <1>4, <1>5, <1>6, <1>7 DEF IInv

\* Every step preserves the inductive invariant.
LEMMA NextIInv == IInv /\ [Next]_vars => IInv'
<1> SUFFICES ASSUME IInv, [Next]_vars PROVE IInv'
  OBVIOUS
<1>1. CASE Restart
  <2>1. Init' BY <1>1 DEF Restart, Init
  <2>2. QED
    BY <2>1 DEF Init, IInv, TypeOK, LockDiscipline, ClientsUnderTheirKey,
       AtMostOneClientPerConfig, LoginStartsClean, AnswersTheVersionAsked, Empty, Labels
<1>2. ASSUME NEW p \in Callers, NEW o \in Objects, CallGet(p, o) \/ CallRemove(p, o)
      PROVE  IInv'
  BY <1>2, CallIInv
<1>3. ASSUME NEW p \in Callers, Step(p) PROVE IInv'
  BY <1>3, ReadIInv, DropIInv, LoginIInv DEF Step, Work, LoginEnds
<1>4. CASE UNCHANGED vars
  BY <1>4 DEF vars, lock, IInv, TypeOK, LockDiscipline, ClientsUnderTheirKey,
     AtMostOneClientPerConfig, LoginStartsClean, AnswersTheVersionAsked
<1>5. QED BY <1>1, <1>2, <1>3, <1>4 DEF Next

\* The inductive invariant holds in every reachable state.
THEOREM Invariance == Spec => []IInv
BY InitIInv, NextIInv, PTL DEF Spec

\* Every variable keeps its type, for any number of callers and configs.
THEOREM TypeCorrect == Spec => []TypeOK
BY Invariance, PTL DEF IInv

\* The write lock's critical sections exclude one another and the readers.
THEOREM LocksExclude == Spec => []LockDiscipline
BY Invariance, PTL DEF IInv

\* As long as a call is under way some call can go on.
THEOREM NeverStuck == Spec => []SomeoneCanMove
<1>1. IInv => SomeoneCanMove
  <2> SUFFICES ASSUME IInv, NEW p \in Callers, pc[p] # "idle"
               PROVE  \E q \in Callers : CanMove(q)
    BY DEF SomeoneCanMove
  <2>1. CASE writer = NoOne
    <3>1. pc[p] \in {"rlock", "read", "lock"}
      BY <2>1 DEF IInv, TypeOK, Labels, LockDiscipline
    <3>2. QED BY <2>1, <3>1 DEF CanMove
  <2>2. CASE writer # NoOne
    <3>1. writer \in Callers /\ pc[writer] \in {"drain", "check", "login", "remove"}
      BY <2>2 DEF IInv, TypeOK, LockDiscipline
    <3>2. CASE readers = {}
      BY <3>1, <3>2 DEF CanMove
    <3>3. CASE readers # {}
      <4>1. PICK q \in readers : TRUE
        BY <3>3
      <4>2. q \in Callers /\ pc[q] = "read"
        BY <4>1 DEF IInv, TypeOK, LockDiscipline
      <4>3. QED BY <4>2 DEF CanMove
    <3>4. QED BY <3>2, <3>3
  <2>3. QED BY <2>1, <2>2
<1>2. QED BY <1>1, Invariance, PTL

\* The map never holds two clients of one config (clientmanager.go:77-88).
THEOREM OneClientPerConfig == Spec => []AtMostOneClientPerConfig
BY Invariance, PTL DEF IInv

\* No caller logs in for a key that has a client (clientmanager.go:72-75).
THEOREM SharedLogin == Spec => []NoDuplicateLogin
<1>1. IInv => NoDuplicateLogin
  BY DEF IInv, TypeOK, LoginStartsClean, NoDuplicateLogin, Key
<1>2. QED BY <1>1, Invariance, PTL

\* A returned client was built for the version asked for.
THEOREM RightVersion == Spec => []AnswersTheVersionAsked
BY Invariance, PTL DEF IInv

\* A key stands for the settings: no two objects of one URL and generation differ.
KeysTell == \A o, q \in Objects : Key(o) = Key(q) => o = q

\* A returned client was built from the settings of the object passed in, whichever caller
\* built it (clientmanager.go:61-66, 72-75), if no key is reused for other settings.
THEOREM RightSettings ==
    ASSUME KeysTell
    PROVE  Spec => []AnswersTheSettingsAsked
<1> DEFINE WasAsked == \A p \in Callers : got[p] # NoClient => arg[p] \in Objects
<1>1. Init => WasAsked
  BY DEF Init
<1>2. IInv /\ WasAsked /\ [Next]_vars => WasAsked'
  <2> SUFFICES ASSUME IInv, WasAsked, [Next]_vars PROVE WasAsked'
    OBVIOUS
  <2>0. /\ arg \in [Callers -> Objects \cup {NoClient}] /\ got \in [Callers -> Objects \cup {NoClient}]
        /\ \A p \in Callers : pc[p] # "idle" => arg[p] \in Objects
    BY DEF IInv, TypeOK
  <2>1. ASSUME NEW p \in Callers, NEW o \in Objects, CallGet(p, o) \/ CallRemove(p, o)
        PROVE  WasAsked'
    BY <2>0, <2>1 DEF CallGet, CallRemove, Call
  <2>2. ASSUME NEW p \in Callers, NEW client, pc[p] # "idle", Return(p, client)
        PROVE  WasAsked'
    BY <2>0, <2>2 DEF Return
  <2>3. CASE UNCHANGED <<arg, got>>
    BY <2>3
  <2>4. CASE Restart
    BY <2>4 DEF Restart
  <2>5. ASSUME NEW p \in Callers, Step(p) PROVE WasAsked'
    BY <2>2, <2>3, <2>5 DEF Step, Enter, Work, LoginEnds, RLock, Lock, Read, Drain, CheckHit, Evict,
                            Remove, LoginSucceeds, LoginFails
  <2>6. QED BY <2>1, <2>3, <2>4, <2>5 DEF Next, vars
<1>3. IInv /\ WasAsked => AnswersTheSettingsAsked
  <2> SUFFICES ASSUME IInv, WasAsked, NEW p \in Callers, got[p] # NoClient PROVE got[p] = arg[p]
    BY DEF AnswersTheSettingsAsked
  <2>1. got[p] \in Objects /\ arg[p] \in Objects
    BY DEF IInv, TypeOK
  <2>2. Key(got[p]) = Key(arg[p])
    BY DEF IInv, AnswersTheVersionAsked
  <2>3. QED BY <2>1, <2>2 DEF KeysTell
<1>4. Spec => []WasAsked
  BY <1>1, <1>2, Invariance, PTL DEF Spec
<1>5. QED BY <1>3, <1>4, Invariance, PTL
-----------------------------------------------------------------------------
\* A login step evicts nothing of another config when no name extends another,
\* nor does a removal (clientmanager.go:39-42).
THEOREM LocalEviction ==
    ASSUME Extends = {}
    PROVE  Spec => EvictionIsLocal
<1> DEFINE Local == \A k \in Keys : clients[k] # NoClient /\ clients'[k] = NoClient =>
                        Restart \/ arg[writer].name = k[1]
<1>1. ASSUME IInv, Next PROVE Local
  <2>1. CASE Restart
    BY <2>1
  <2>2. ASSUME NEW p \in Callers, Evict(p) \/ Remove(p) PROVE Local
    <3>1. writer = p
      BY <1>1, <2>2 DEF IInv, LockDiscipline, Evict, Remove
    <3>2. QED BY <3>1, <2>2 DEF Evict, Remove, Evicted, Removed, HasPrefix
  <2>3. ASSUME NEW p \in Callers, LoginSucceeds(p) PROVE Local
    <3>1. arg[p] \in Objects /\ Key(arg[p]) \in Keys
      BY <1>1, <2>3, KeyType DEF IInv, TypeOK, LoginSucceeds
    <3>2. QED BY <1>1, <2>3, <3>1 DEF LoginSucceeds, IInv, TypeOK
  <2>4. CASE clients' = clients
    BY <2>4
  <2>5. QED
    BY <1>1, <2>1, <2>2, <2>3, <2>4
    DEF Next, Step, Enter, Work, LoginEnds, CallGet, CallRemove, Call, RLock, Read, Lock, Drain,
        CheckHit, LoginFails
<1>2. IInv /\ [Next]_vars => [Local]_vars
  BY <1>1
<1>3. QED BY <1>2, Invariance, PTL DEF Spec, EvictionIsLocal
-----------------------------------------------------------------------------
\* The slot of a config with a client is that client.
LEMMA SlotFull ==
    ASSUME AtMostOneClientPerConfig, NEW k \in Keys, clients[k] # NoClient
    PROVE  slot[k[1]] = clients[k]
<1>1. k[1] \in Configs /\ k[2] \in Versions /\ k = <<k[1], k[2]>>
  BY KeyPair
<1> DEFINE w == CHOOSE v \in Versions : clients[<<k[1], v>>] # NoClient
<1>2. w \in Versions /\ clients[<<k[1], w>>] # NoClient
  BY <1>1
<1>3. <<k[1], w>> \in Keys
  BY <1>1, <1>2 DEF Keys
<1>4. <<k[1], w>> = k
  BY <1>2, <1>3 DEF AtMostOneClientPerConfig
<1>5. QED BY <1>1, <1>4 DEF slot

\* The same of the next state.
LEMMA SlotFilled ==
    ASSUME AtMostOneClientPerConfig', NEW k \in Keys, clients'[k] # NoClient
    PROVE  slot'[k[1]] = clients'[k]
<1>1. k[1] \in Configs /\ k[2] \in Versions /\ k = <<k[1], k[2]>>
  BY KeyPair
<1> DEFINE w == CHOOSE v \in Versions : clients'[<<k[1], v>>] # NoClient
<1>2. w \in Versions /\ clients'[<<k[1], w>>] # NoClient
  BY <1>1
<1>3. <<k[1], w>> \in Keys
  BY <1>1, <1>2 DEF Keys
<1>4. <<k[1], w>> = k
  BY <1>2, <1>3 DEF AtMostOneClientPerConfig
<1>5. QED BY <1>1, <1>4 DEF slot

\* The slot of a config without a client is empty.
LEMMA SlotEmpty ==
    ASSUME NEW c \in Configs, \A v \in Versions : clients[<<c, v>>] = NoClient
    PROVE  slot[c] = NoClient
BY DEF slot

\* A slot depends on the clients of its own config only.
LEMMA SlotSame ==
    ASSUME NEW c \in Configs, \A v \in Versions : clients'[<<c, v>>] = clients[<<c, v>>]
    PROVE  slot'[c] = slot[c]
<1>1. (\E v \in Versions : clients'[<<c, v>>] # NoClient)
        <=> (\E v \in Versions : clients[<<c, v>>] # NoClient)
  OBVIOUS
<1>2. (CHOOSE v \in Versions : clients'[<<c, v>>] # NoClient)
        = (CHOOSE v \in Versions : clients[<<c, v>>] # NoClient)
  OBVIOUS
<1>3. (CHOOSE v \in Versions : clients[<<c, v>>] # NoClient) \in Versions
        \/ ~\E v \in Versions : clients[<<c, v>>] # NoClient
  OBVIOUS
<1>4. QED BY <1>1, <1>2, <1>3 DEF slot

\* Dropping every client of one config empties its slot and no other.
LEMMA SlotDropped ==
    ASSUME NEW c \in Configs,
           \A v \in Versions : clients'[<<c, v>>] = NoClient,
           \A k \in Keys : k[1] # c => clients'[k] = clients[k]
    PROVE  slot' = [slot EXCEPT ![c] = NoClient]
<1>1. slot'[c] = NoClient
  BY DEF slot
<1>2. ASSUME NEW d \in Configs, d # c PROVE slot'[d] = slot[d]
  <2>1. \A v \in Versions : clients'[<<d, v>>] = clients[<<d, v>>]
    BY <1>2 DEF Keys
  <2>2. QED BY <2>1, SlotSame
<1>3. slot = [d \in Configs |-> slot[d]] /\ slot' = [d \in Configs |-> slot'[d]]
  BY DEF slot
<1>4. QED BY <1>1, <1>2, <1>3

\* A step that leaves the map alone leaves the slots alone.
LEMMA SlotUnchanged == clients' = clients => slot' = slot
BY DEF slot

\* The caller inside a call is waiting, and a step that ends no call keeps who waits.
LEMMA Waiting ==
    ASSUME TypeOK, NEW p \in Callers
    PROVE  /\ pc[p] # "idle" => p \in waiting
           /\ pc' = [pc EXCEPT ![p] = "idle"] => waiting' = waiting \ {p}
           /\ \A label : pc' = [pc EXCEPT ![p] = label] /\ label # "idle"
                  => waiting' = waiting \cup {p}
BY DEF waiting, TypeOK

\* GetOrCreateClient and RemoveClient behave as the atomic, one-client-per-config
\* registry, whatever the interleaving: each step is one of its steps, or none.
THEOREM ImplementsRegistry ==
    ASSUME Extends = {}
    PROVE  Spec => RegistrySpec
<1>1. Init => Registry!Init
  BY DEF Init, Registry!Init, slot, waiting, Empty, Keys
<1>2. ASSUME IInv, IInv', Next PROVE [Registry!Next]_(Registry!vars)
  <2> USE DEF Return, Goto, lock
  <2>1. CASE Restart
    <3>1. slot' = [c \in Configs |-> NoClient] /\ waiting' = {}
      BY <2>1 DEF Restart, slot, waiting, Empty, Keys
    <3>2. QED BY <2>1, <3>1 DEF Restart, Registry!Next, Registry!Restart
  <2>2. ASSUME NEW p \in Callers, NEW o \in Objects, CallGet(p, o) \/ CallRemove(p, o)
        PROVE  Registry!Next
    <3>1. Registry!Ask(p, o)
      BY <1>2, <2>2, SlotUnchanged, Waiting
      DEF CallGet, CallRemove, Call, Registry!Ask, IInv, waiting
    <3>2. QED BY <3>1 DEF Registry!Next
  <2>3. ASSUME NEW p \in Callers, Step(p) PROVE [Registry!Next]_(Registry!vars)
    <3>0. /\ TypeOK /\ p \in waiting /\ arg[p] \in Objects /\ arg[p] # NoClient
          /\ arg[p].name \in Configs /\ arg[p].version \in Versions
          /\ Key(arg[p]) \in Keys /\ Key(arg[p])[1] = arg[p].name
      BY <1>2, <2>3, Waiting, KeyType
      DEF IInv, TypeOK, Step, Enter, Work, LoginEnds, RLock, Read, Lock, Drain, CheckHit, Evict,
          LoginSucceeds, LoginFails, Remove
    <3>1. ASSUME clients[Key(arg[p])] # NoClient, pc' = [pc EXCEPT ![p] = "idle"],
                 got' = [got EXCEPT ![p] = clients[Key(arg[p])]], arg' = arg, clients' = clients
          PROVE  Registry!Answer(p)
      <4>1. slot[arg[p].name] = clients[Key(arg[p])]
        BY <1>2, <3>0, <3>1, SlotFull DEF IInv
      <4>2. clients[Key(arg[p])].version = arg[p].version
        BY <1>2, <3>0, <3>1 DEF IInv, ClientsUnderTheirKey, Key
      <4>3. QED BY <3>0, <3>1, <4>1, <4>2, Waiting, SlotUnchanged
            DEF Registry!Answer, Registry!Return
    <3>2. CASE Enter(p) \/ Drain(p)
      <4>1. waiting' = waiting
        BY <3>0, <3>2 DEF waiting, TypeOK, Enter, RLock, Lock, Drain
      <4>2. QED BY <3>2, <4>1, SlotUnchanged DEF Enter, RLock, Lock, Drain, Registry!vars
    <3>3. CASE Read(p)
      <4>1. CASE clients[Key(arg[p])] # NoClient
        BY <3>1, <3>3, <4>1 DEF Read, Registry!Next
      <4>2. CASE clients[Key(arg[p])] = NoClient
        <5>1. waiting' = waiting
          <6>1. pc' = [pc EXCEPT ![p] = "lock"]
            BY <3>3, <4>2 DEF Read
          <6>2. QED BY <3>0, <6>1 DEF waiting, TypeOK
        <5>2. QED BY <3>3, <4>2, <5>1, SlotUnchanged DEF Read, Registry!vars
      <4>3. QED BY <4>1, <4>2
    <3>4. CASE CheckHit(p)
      BY <3>1, <3>4 DEF CheckHit, Registry!Next
    <3>5. CASE Evict(p)
      <4>1. /\ \A v \in Versions : clients'[<<arg[p].name, v>>] = NoClient
            /\ \A k \in Keys : k[1] # arg[p].name => clients'[k] = clients[k]
        BY <3>0, <3>5 DEF Evict, Evicted, HasPrefix, Key, Keys
      <4>2. slot' = [slot EXCEPT ![arg[p].name] = NoClient]
        BY <3>0, <4>1, SlotDropped
      <4>3. waiting' = waiting
        <5>1. pc' = [pc EXCEPT ![p] = "login"]
          BY <3>5 DEF Evict
        <5>2. QED BY <3>0, <5>1 DEF waiting, TypeOK
      <4>4. CASE slot[arg[p].name] = NoClient
        <5>1. slot' = slot
          BY <3>0, <4>2, <4>4 DEF slot
        <5>2. QED BY <3>5, <4>3, <5>1 DEF Evict, Registry!vars
      <4>5. CASE slot[arg[p].name] # NoClient
        <5>1. PICK v \in Versions : clients[<<arg[p].name, v>>] # NoClient
          BY <3>0, <4>5, SlotEmpty
        <5>2. <<arg[p].name, v>> \in Keys
          BY <3>0 DEF Keys
        <5>3. slot[arg[p].name] = clients[<<arg[p].name, v>>]
          BY <1>2, <5>1, <5>2, SlotFull DEF IInv
        <5>4. slot[arg[p].name].version = v /\ v # arg[p].version
          BY <1>2, <3>5, <5>1, <5>2, <5>3 DEF IInv, ClientsUnderTheirKey, Key, Evict
        <5>5. QED BY <3>0, <3>5, <4>2, <4>3, <4>5, <5>4
              DEF Evict, Registry!Supersede, Registry!Next
      <4>6. QED BY <4>4, <4>5
    <3>6. CASE LoginSucceeds(p)
      <4>1. slot[arg[p].name] = NoClient
        BY <1>2, <3>0, <3>6, SlotEmpty DEF IInv, LoginStartsClean, LoginSucceeds
      <4>2. clients'[Key(arg[p])] = arg[p]
        BY <3>0, <3>6 DEF LoginSucceeds, TypeOK
      <4>3. slot'[arg[p].name] = arg[p]
        BY <1>2, <3>0, <4>2, SlotFilled DEF IInv
      <4>4. ASSUME NEW d \in Configs, d # arg[p].name PROVE slot'[d] = slot[d]
        <5>1. \A v \in Versions : clients'[<<d, v>>] = clients[<<d, v>>]
          BY <3>0, <3>6, <4>4 DEF LoginSucceeds, TypeOK, Key, Keys
        <5>2. QED BY <5>1, SlotSame
      <4>5. slot' = [slot EXCEPT ![arg[p].name] = arg[p]]
        <5>1. slot = [d \in Configs |-> slot[d]] /\ slot' = [d \in Configs |-> slot'[d]]
          BY DEF slot
        <5>2. QED BY <4>3, <4>4, <5>1
      <4>6. QED BY <3>0, <3>6, <4>1, <4>5, Waiting
            DEF LoginSucceeds, Registry!Connect, Registry!Return, Registry!Next
    <3>7. CASE LoginFails(p)
      <4>1. slot[arg[p].name] = NoClient
        BY <1>2, <3>0, <3>7, SlotEmpty DEF IInv, LoginStartsClean, LoginFails
      <4>2. slot' = [slot EXCEPT ![arg[p].name] = NoClient]
        <5>1. slot' = slot
          BY <3>7, SlotUnchanged DEF LoginFails
        <5>2. QED BY <4>1, <5>1 DEF slot
      <4>3. QED BY <3>0, <3>7, <4>2, Waiting
            DEF LoginFails, Registry!Nothing, Registry!Return, Registry!Next
    <3>8. CASE Remove(p)
      <4>1. /\ \A v \in Versions : clients'[<<arg[p].name, v>>] = NoClient
            /\ \A k \in Keys : k[1] # arg[p].name => clients'[k] = clients[k]
        BY <3>0, <3>8 DEF Remove, Removed, HasPrefix, Keys
      <4>2. slot' = [slot EXCEPT ![arg[p].name] = NoClient]
        BY <3>0, <4>1, SlotDropped
      <4>3. QED BY <3>0, <3>8, <4>2, Waiting
            DEF Remove, Registry!Nothing, Registry!Return, Registry!Next
    <3>9. QED BY <2>3, <3>2, <3>3, <3>4, <3>5, <3>6, <3>7, <3>8 DEF Step, Work, LoginEnds
  <2>4. QED BY <1>2, <2>1, <2>2, <2>3 DEF Next
<1>3. UNCHANGED vars => UNCHANGED Registry!vars
  BY DEF vars, lock, Registry!vars, slot, waiting
<1>4. IInv /\ IInv' /\ [Next]_vars => [Registry!Next]_(Registry!vars)
  BY <1>2, <1>3
<1>5. QED BY <1>1, <1>4, Invariance, PTL DEF Spec, RegistrySpec, Registry!Spec
=============================================================================
