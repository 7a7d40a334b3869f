------------------------------- MODULE RpcApi -------------------------------
(***************************************************************************)
(* Requests and replies of the RPC layer, and the API of foobar2000 it     *)
(* exports, which is a parameter: the methods of the registry in           *)
(* rpcapi/dispatch.h, the kind of stub that scripts/generate_rpc_header.py *)
(* wrote for each, and what foobar2000 does when one is called.            *)
(***************************************************************************)
CONSTANTS Clients,          \* each has its connection and its worker
          Methods,          \* names a client may send
          Registered,       \* those in the registry
          Template,         \* the kind of stub of each registered method
          Params,           \* parameters of the type a method expects
          BadParam,         \* a parameter of another type
          Players,          \* states of foobar2000
          FirstPlayer,      \* the state it starts in
          Values,           \* what API functions answer
          None,             \* no request, no reply
          Lost,             \* what becomes of a call that never returns
          Effect(_, _, _),  \* the state a method with its parameter leads to
          Answer(_, _, _),  \* the answer it gives
          Throws(_, _, _)   \* whether the API function throws instead of both

\* An API function gets the Event of the stub, an ApiParam and the Event, an
\* ApiResult, or an ApiParam and an ApiResult.
Templates == {"event", "param", "result", "param and result"}

TakesParam(m) == Template[m] \in {"param", "param and result"}
HasResult(m)  == Template[m] \in {"result", "param and result"}

Requests == Methods \X (Params \cup {BadParam})

\* The two-element tuples that are packed as replies
Succeeded(v) == <<0, v>>
Failed == <<1, "error">>
Replies == {Succeeded(v) : v \in Values} \cup {Failed}

\* Otherwise an RPCException is thrown: registry.find does not find the
\* method, or the stub cannot unpack the parameter.
Accepted(r) == /\ r[1] \in Registered
               /\ TakesParam(r[1]) => r[2] # BadParam

ASSUME ApiAssumption ==
  /\ Registered \subseteq Methods
  /\ Template \in [Registered -> Templates]
  /\ FirstPlayer \in Players
  /\ TRUE \in Values
  /\ None \notin Requests \cup Replies
  /\ Lost \notin Replies \cup {None}
  /\ \A r \in Requests, s \in Players :
       Accepted(r) => /\ Effect(r[1], r[2], s) \in Players
                      /\ Answer(r[1], r[2], s) \in Values

\* What the stub replies when the player is in state s at the call
Outcome(r, s) ==
  Succeeded(IF HasResult(r[1]) THEN Answer(r[1], r[2], s) ELSE TRUE)
=============================================================================
