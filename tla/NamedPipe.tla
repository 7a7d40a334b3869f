------------------------------ MODULE NamedPipe ------------------------------
(***************************************************************************)
(* The Windows named pipe \\.\pipe\foobar2000 as the wrappers of           *)
(* foo_rpc/_winapi.cpp use it: the instances CreateNamedPipe makes, the    *)
(* state the kernel keeps for each, and what each system call does to it.  *)
(* None of this is code of the repository.                                 *)
(***************************************************************************)
EXTENDS Naturals, Sequences

CONSTANTS MaxInstances,  \* bound: CreateNamedPipe fails once there are so many
          MaxRequests,   \* bound: requests sent over one instance
          Kinds          \* what clients ask for: "call" names a registered
                         \* method, "reject" does not

ASSUME PipeAssumption == /\ MaxInstances \in Nat \ {0}
                         /\ MaxRequests \in Nat
                         /\ Kinds \subseteq {"call", "reject"}

Instances == 1..MaxInstances

\* NULL or INVALID_HANDLE_VALUE: the handle of no instance
NoHandle == 0

VARIABLES stage,     \* the state of each instance
          requests,  \* the messages the client wrote to it so far
          nread,     \* how many of them the server has read
          replies    \* how many messages the server wrote to it

pipeVars == <<stage, requests, nread, replies>>
traffic  == <<requests, nread, replies>>

Stages == {"none",          \* not created yet
           "listening",     \* a client can open it
           "connected",
           "closing",       \* the client has closed its end
           "disconnected",  \* DisconnectNamedPipe was called on it
           "closed"}        \* the server's handle was closed

PipeTypeOK ==
  /\ stage \in [Instances -> Stages]
  /\ requests \in [Instances -> Seq(Kinds)]
  /\ nread \in [Instances -> Nat]
  /\ replies \in [Instances -> Nat]

PipeInit == /\ stage = [h \in Instances |-> IF h = 1 THEN "listening" ELSE "none"]
            /\ requests = [h \in Instances |-> <<>>]
            /\ nread = [h \in Instances |-> 0]
            /\ replies = [h \in Instances |-> 0]

Fresh == {h \in Instances : stage[h] = "none"}
Listening == {h \in Instances : stage[h] = "listening"}

\* An instance can be opened from the moment it is created.
CreateNamedPipe(h) == /\ h \in Fresh
                      /\ \A k \in Fresh : h <= k
                      /\ stage' = [stage EXCEPT ![h] = "listening"]

\* CreateFile on the address opens one of the instances nobody has opened.
CreateFile(h) == /\ h \in Listening
                 /\ stage' = [stage EXCEPT ![h] = "connected"]

\* CloseHandle of the client's end: what it wrote can still be read.
CloseClientEnd(h) ==
  stage' = [stage EXCEPT ![h] = IF @ = "connected" THEN "closing" ELSE @]

\* ConnectNamedPipe makes a disconnected instance available again; what its
\* last client wrote to it was discarded with the connection.
ConnectNamedPipe(h) ==
  /\ stage' = [stage EXCEPT ![h] = IF @ = "disconnected" THEN "listening" ELSE @]
  /\ requests' = [requests EXCEPT ![h] = IF stage[h] = "disconnected" THEN <<>> ELSE @]

\* Both ends lose the connection; calls that wait on the instance return.
DisconnectNamedPipe(h) ==
  stage' = [k \in Instances |->
              IF k = h /\ stage[k] # "closed" THEN "disconnected" ELSE stage[k]]

\* CloseHandle of the server's end; a ReadFile that waits on it returns.
CloseServerEnd(h) == stage' = [stage EXCEPT ![h] = "closed"]

\* ReadFile has a message to return, or an error.
HasMessage(h) == /\ stage[h] \in {"connected", "closing"}
                 /\ nread[h] < Len(requests[h])
IsBroken(h) == \/ stage[h] \in {"disconnected", "closed"}
               \/ stage[h] = "closing" /\ ~HasMessage(h)
=============================================================================
