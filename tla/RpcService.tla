----------------------------- MODULE RpcService -----------------------------
(***************************************************************************)
(* What the RPC layer promises its clients: a request is either refused,   *)
(* and the player does not notice, or carried out at one instant between   *)
(* the moment the client sends it and the moment the client has its reply, *)
(* exactly once, and the reply says what happened at that instant.  A call *)
(* the API throws an exception at is lost, without effect on the player:   *)
(* no API call catches all exceptions, and no stub catches any.            *)
(***************************************************************************)
EXTENDS RpcApi

VARIABLES player,    \* the state of foobar2000
          request,   \* the request each client waits for, or None
          outcome,   \* what became of it so far, or None
          got        \* the last reply of each client, or None

serviceVars == <<player, request, outcome, got>>

Init == /\ player = FirstPlayer
        /\ request = [c \in Clients |-> None]
        /\ outcome = [c \in Clients |-> None]
        /\ got = [c \in Clients |-> None]

Invoke(c, r) == /\ request[c] = None
                /\ request' = [request EXCEPT ![c] = r]
                /\ UNCHANGED <<player, outcome, got>>

Pending(c) == request[c] # None /\ outcome[c] = None

Refuse(c) == /\ Pending(c)
             /\ ~Accepted(request[c])
             /\ outcome' = [outcome EXCEPT ![c] = Failed]
             /\ UNCHANGED <<player, request, got>>

Performable(c) == Pending(c) /\ Accepted(request[c])
Throwing(c) == Throws(request[c][1], request[c][2], player)

Perform(c) == /\ Performable(c) /\ ~Throwing(c)
              /\ outcome' = [outcome EXCEPT ![c] = Outcome(request[c], player)]
              /\ player' = Effect(request[c][1], request[c][2], player)
              /\ UNCHANGED <<request, got>>

Lose(c) == /\ Performable(c) /\ Throwing(c)
           /\ outcome' = [outcome EXCEPT ![c] = Lost]
           /\ UNCHANGED <<player, request, got>>

Return(c) == /\ request[c] # None
             /\ outcome[c] \notin {None, Lost}
             /\ got' = [got EXCEPT ![c] = outcome[c]]
             /\ request' = [request EXCEPT ![c] = None]
             /\ outcome' = [outcome EXCEPT ![c] = None]
             /\ UNCHANGED player

Next == \E c \in Clients : \/ \E r \in Requests : Invoke(c, r)
                           \/ Refuse(c) \/ Perform(c) \/ Lose(c) \/ Return(c)

Spec == Init /\ [][Next]_serviceVars
=============================================================================
