---------------------------- MODULE ClientRegistry ----------------------------
(***************************************************************************)
(* What the shared ClientManager promises the five reconcilers: one slot   *)
(* per KeycloakInstanceConfig, holding at most one live Keycloak session,  *)
(* and calls that look as if each took effect in a single instant.  No     *)
(* lock and no key string appears here; ClientManager.tla implements it.   *)
(***************************************************************************)
CONSTANTS Callers, Configs, Objects, NoClient

VARIABLES slot,      \* the session each config has, named by the object it was built from
          waiting,   \* the callers inside GetOrCreateClient or RemoveClient
          ask,       \* the config object each caller passed last
          got        \* the session each caller was given last

vars == <<slot, waiting, ask, got>>

Init == /\ slot = [c \in Configs |-> NoClient]
        /\ waiting = {}
        /\ ask = [p \in Callers |-> NoClient]
        /\ got = [p \in Callers |-> NoClient]

\* A reconciler calls the manager with the config object it has read.
Ask(p, o) == /\ p \notin waiting
             /\ waiting' = waiting \cup {p}
             /\ ask' = [ask EXCEPT ![p] = o]
             /\ got' = [got EXCEPT ![p] = NoClient]
             /\ UNCHANGED slot

Return(p, client) == /\ p \in waiting
                     /\ waiting' = waiting \ {p}
                     /\ got' = [got EXCEPT ![p] = client]
                     /\ UNCHANGED ask

\* The slot holds a session for the very version asked for.
Answer(p) == /\ ask[p] # NoClient
             /\ LET client == slot[ask[p].name] IN
                  /\ client # NoClient
                  /\ client.version = ask[p].version
                  /\ Return(p, client)
             /\ UNCHANGED slot

\* The slot is empty: the caller logs in, fills it and is given its own session.
Connect(p) == /\ ask[p] # NoClient
              /\ slot[ask[p].name] = NoClient
              /\ Return(p, ask[p])
              /\ slot' = [slot EXCEPT ![ask[p].name] = ask[p]]

\* A failed login or a removal ends the call with no session, the slot being empty.
Nothing(p) == /\ ask[p] # NoClient
              /\ Return(p, NoClient)
              /\ slot' = [slot EXCEPT ![ask[p].name] = NoClient]

\* A session of another version of the config is given up by a caller that wants a new one.
Supersede(p) == /\ p \in waiting
                /\ ask[p] # NoClient
                /\ slot[ask[p].name] # NoClient
                /\ slot[ask[p].name].version # ask[p].version
                /\ slot' = [slot EXCEPT ![ask[p].name] = NoClient]
                /\ UNCHANGED <<waiting, ask, got>>

\* The manager process ends, and with it every session and every call.
Restart == /\ slot' = [c \in Configs |-> NoClient]
           /\ waiting' = {}
           /\ ask' = [p \in Callers |-> NoClient]
           /\ got' = [p \in Callers |-> NoClient]

Next == \/ \E p \in Callers : \/ \E o \in Objects : Ask(p, o)
                              \/ Answer(p)
                              \/ Connect(p)
                              \/ Nothing(p)
                              \/ Supersede(p)
        \/ Restart

Spec == Init /\ [][Next]_vars
=============================================================================
