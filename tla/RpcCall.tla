------------------------------ MODULE RpcCall ------------------------------
(***************************************************************************)
(* One RPC from the client and back: the dispatcher of rpcapi/dispatch.h,  *)
(* the stubs of rpcapi/rpc, the ApiParam, ApiResult and Event of           *)
(* percolate.h and event.h that a stub keeps on the stack of its worker,   *)
(* and the API function that foobar2000's main thread runs for it with     *)
(* references to them.  Connections stay open and nobody quits here.       *)
(***************************************************************************)
EXTENDS RpcApi, Naturals, Sequences

CONSTANT Unset  \* the content of an ApiResult before setResult

VARIABLES
  player,    \* the state of foobar2000
  request,   \* the request each client waits for, or None
  outcome,   \* history: what became of it so far, or None
  got,       \* the last reply of each client, or None
  inbox,     \* the request in the pipe, or None
  outbox,    \* the reply in the pipe, or None
  worker,    \* where each worker is
  received,  \* the request the worker deals with, or None
  object,    \* ApiResult::resultObject of the stub
  event,     \* the event of that ApiResult, or the Event of the stub, is set
  response,  \* the payload the worker is about to send, or None
  queue,     \* the workers whose lambda the main thread has not begun
  main,      \* where the main thread is in a lambda
  serving,   \* the worker whose lambda it runs, or None
  value      \* what the API function will pass to setResult

clientVars == <<request, got>>
pipeVars   == <<inbox, outbox>>
stubVars   == <<object, event>>
workerVars == <<worker, received, response>>
mainVars   == <<main, serving, value>>
vars == <<player, outcome, clientVars, pipeVars, stubVars, workerVars, queue,
          mainVars>>

NoneYet == [c \in Clients |-> None]

Init == /\ player = FirstPlayer
        /\ request = NoneYet /\ outcome = NoneYet /\ got = NoneYet
        /\ inbox = NoneYet /\ outbox = NoneYet
        /\ worker = [c \in Clients |-> "recv"]
        /\ received = NoneYet /\ response = NoneYet
        /\ object = [c \in Clients |-> Unset]
        /\ event = [c \in Clients |-> FALSE]
        /\ queue = <<>>
        /\ main = "idle" /\ serving = None /\ value = Unset

-----------------------------------------------------------------------------
\* The clients: one request at a time, and its reply

Send(c, r) == /\ request[c] = None
              /\ request' = [request EXCEPT ![c] = r]
              /\ inbox' = [inbox EXCEPT ![c] = r]
              /\ UNCHANGED <<player, outcome, got, outbox, stubVars, workerVars,
                             queue, mainVars>>

Receive(c) == /\ outbox[c] # None
              /\ got' = [got EXCEPT ![c] = outbox[c]]
              /\ outbox' = [outbox EXCEPT ![c] = None]
              /\ request' = [request EXCEPT ![c] = None]
              /\ outcome' = [outcome EXCEPT ![c] = None]
              /\ UNCHANGED <<player, inbox, stubVars, workerVars, queue, mainVars>>

-----------------------------------------------------------------------------
\* The workers

WorkerGoto(c, label) == worker' = [worker EXCEPT ![c] = label]

\* connection.recv()
Recv(c) == /\ worker[c] = "recv"
           /\ inbox[c] # None
           /\ received' = [received EXCEPT ![c] = inbox[c]]
           /\ inbox' = [inbox EXCEPT ![c] = None]
           /\ WorkerGoto(c, "dispatch")
           /\ UNCHANGED <<player, outcome, clientVars, outbox, stubVars, response,
                          queue, mainVars>>

\* RPCException, from registry.find or from unpacking the parameter, becomes
\* the reply.
Fail(c) == /\ worker[c] = "dispatch"
           /\ ~Accepted(received[c])
           /\ outcome' = [outcome EXCEPT ![c] = Failed]
           /\ response' = [response EXCEPT ![c] = Failed]
           /\ WorkerGoto(c, "send")
           /\ UNCHANGED <<player, clientVars, pipeVars, stubVars, received, queue,
                          mainVars>>

\* Mutant: all calls of a worker use one Event, which is not reset.
PostStaleEvent(c) ==
  /\ worker[c] = "dispatch"
  /\ Accepted(received[c])
  /\ object' = [object EXCEPT ![c] = Unset]
  /\ queue' = Append(queue, c)
  /\ WorkerGoto(c, "await")
  /\ UNCHANGED <<player, outcome, clientVars, pipeVars, event, received, response,
                 mainVars>>

\* The stub has its ApiParam, creates a new ApiResult or Event, and hands its
\* lambda to the main thread.
Post(c) == /\ worker[c] = "dispatch"
           /\ Accepted(received[c])
           /\ object' = [object EXCEPT ![c] = Unset]
           /\ event' = [event EXCEPT ![c] = FALSE]
           /\ queue' = Append(queue, c)
           /\ WorkerGoto(c, "await")
           /\ UNCHANGED <<player, outcome, clientVars, pipeVars, received, response,
                          mainVars>>

\* Mutant: the stub goes on without waiting.
PackAtOnce(c) ==
  /\ worker[c] = "await"
  /\ response' = [response EXCEPT ![c] =
                    Succeeded(IF HasResult(received[c][1]) THEN object[c] ELSE TRUE)]
  /\ WorkerGoto(c, "send")
  /\ UNCHANGED <<player, outcome, clientVars, pipeVars, stubVars, received, queue,
                 mainVars>>

\* event.wait() or result.wait(), and packing the result object, or true
Pack(c) ==
  /\ worker[c] = "await"
  /\ event[c]
  /\ response' = [response EXCEPT ![c] =
                    Succeeded(IF HasResult(received[c][1]) THEN object[c] ELSE TRUE)]
  /\ WorkerGoto(c, "send")
  /\ UNCHANGED <<player, outcome, clientVars, pipeVars, stubVars, received, queue,
                 mainVars>>

\* connection.send, and the next turn of the loop
Reply(c) == /\ worker[c] = "send"
            /\ outbox' = [outbox EXCEPT ![c] = response[c]]
            /\ received' = [received EXCEPT ![c] = None]
            /\ response' = [response EXCEPT ![c] = None]
            /\ WorkerGoto(c, "recv")
            /\ UNCHANGED <<player, outcome, clientVars, inbox, stubVars, queue, mainVars>>

Worker(c) == Recv(c) \/ Fail(c) \/ Post(c) \/ Pack(c) \/ Reply(c)

-----------------------------------------------------------------------------
\* The main thread runs one lambda after the other, in the order they came.
\* What an API function does to foobar2000 is one step: only the main thread
\* touches foobar2000's state.

\* Mutant: setResult sets the event before it stores the object.
BeginSignalFirst ==
  LET c == Head(queue) IN
  /\ main = "idle"
  /\ queue # <<>>
  /\ queue' = Tail(queue)
  /\ serving' = c
  /\ value' = Answer(received[c][1], received[c][2], player)
  /\ player' = Effect(received[c][1], received[c][2], player)
  /\ outcome' = [outcome EXCEPT ![c] = Outcome(received[c], player)]
  /\ event' = [event EXCEPT ![c] = TRUE]
  /\ main' = IF HasResult(received[c][1]) THEN "store" ELSE "signal"
  /\ UNCHANGED <<clientVars, pipeVars, object, workerVars>>

Throwing(c) == Throws(received[c][1], received[c][2], player)

\* The lambda is begun: the API function does its work.
Begin ==
  LET c == Head(queue) IN
  /\ main = "idle"
  /\ queue # <<>>
  /\ ~Throwing(c)
  /\ queue' = Tail(queue)
  /\ serving' = c
  /\ value' = Answer(received[c][1], received[c][2], player)
  /\ player' = Effect(received[c][1], received[c][2], player)
  /\ outcome' = [outcome EXCEPT ![c] = Outcome(received[c], player)]
  /\ main' = IF HasResult(received[c][1]) THEN "store" ELSE "signal"
  /\ UNCHANGED <<clientVars, pipeVars, stubVars, workerVars>>

\* Mutant: the exception is swallowed, and the event set without a result.
ThrowAndSet ==
  LET c == Head(queue) IN
  /\ main = "idle"
  /\ queue # <<>>
  /\ Throwing(c)
  /\ queue' = Tail(queue)
  /\ event' = [event EXCEPT ![c] = TRUE]
  /\ UNCHANGED <<player, outcome, clientVars, pipeVars, object, workerVars,
                 mainVars>>

\* The API function throws an exception it does not catch: the lambda ends
\* before it can set its event.  The message loop goes on to the next lambda.
Throw ==
  LET c == Head(queue) IN
  /\ main = "idle"
  /\ queue # <<>>
  /\ Throwing(c)
  /\ queue' = Tail(queue)
  /\ outcome' = [outcome EXCEPT ![c] = Lost]
  /\ UNCHANGED <<player, clientVars, pipeVars, stubVars, workerVars, mainVars>>

\* setResult: this->resultObject = value
StoreResult == /\ main = "store"
               /\ object' = [object EXCEPT ![serving] = value]
               /\ main' = "signal"
               /\ UNCHANGED <<player, outcome, clientVars, pipeVars, event, workerVars,
                              queue, serving, value>>

\* Mutant: the lambda ends without setting the event.
SignalNobody == /\ main = "signal"
                /\ main' = "idle" /\ serving' = None /\ value' = Unset
                /\ UNCHANGED <<player, outcome, clientVars, pipeVars, stubVars,
                               workerVars, queue>>

\* event.set(), the last access of the lambda to the stub's objects
SetEvent == /\ main = "signal"
            /\ event' = [event EXCEPT ![serving] = TRUE]
            /\ main' = "idle" /\ serving' = None /\ value' = Unset
            /\ UNCHANGED <<player, outcome, clientVars, pipeVars, object, workerVars,
                           queue>>

Main == Begin \/ Throw \/ StoreResult \/ SetEvent

-----------------------------------------------------------------------------
Next == \/ \E c \in Clients : \/ \E r \in Requests : Send(c, r)
                              \/ Receive(c) \/ Worker(c)
        \/ Main

\* Worker threads and the message loop of the main thread go on while they
\* can.  A client may never send anything, and never read its reply.
Fairness == /\ \A c \in Clients : WF_vars(Worker(c))
            /\ WF_vars(Main)

Spec == Init /\ [][Next]_vars /\ Fairness

-----------------------------------------------------------------------------
Bodies == Values \cup {Unset}

TypeOK ==
  /\ player \in Players
  /\ request \in [Clients -> Requests \cup {None}]
  /\ outcome \in [Clients -> Replies \cup {None, Lost}]
  /\ got \in [Clients -> Replies \cup {None}]
  /\ inbox \in [Clients -> Requests \cup {None}]
  /\ outbox \in [Clients -> Replies \cup {None}]
  /\ worker \in [Clients -> {"recv", "dispatch", "await", "send"}]
  /\ received \in [Clients -> Requests \cup {None}]
  /\ object \in [Clients -> Bodies]
  /\ event \in [Clients -> BOOLEAN]
  /\ response \in [Clients -> Replies \cup {None}]
  /\ queue \in Seq(Clients)
  /\ main \in {"idle", "store", "signal"}
  /\ serving \in Clients \cup {None}
  /\ value \in Bodies

Queued(c) == \E n \in 1..Len(queue) : queue[n] = c

\* The lambda holds references to the stub's ApiParam, ApiResult and Event on
\* the stack of the worker.  Until the main thread has made its last access,
\* the worker is blocked in wait, and it has only this one lambda.
LambdaAlive ==
  /\ \A c \in Clients : Queued(c) \/ (main # "idle" /\ serving = c) =>
       worker[c] = "await" /\ ~event[c] /\ received[c] # None
  /\ \A m, n \in 1..Len(queue) : queue[m] = queue[n] => m = n
  /\ main # "idle" => ~Queued(serving)

\* A request is in one place: in the pipe, with the worker, or answered.
RequestInv ==
  \A c \in Clients :
    /\ worker[c] = "recv" =>
         /\ received[c] = None /\ response[c] = None
         /\ request[c] = None <=> inbox[c] = None /\ outbox[c] = None
         /\ inbox[c] # None => inbox[c] = request[c] /\ outbox[c] = None
         /\ outcome[c] = outbox[c]
    /\ worker[c] # "recv" =>
         /\ inbox[c] = None /\ outbox[c] = None
         /\ request[c] # None /\ received[c] = request[c]
    /\ worker[c] = "dispatch" => outcome[c] = None
    /\ worker[c] = "send" => outcome[c] # None /\ response[c] = outcome[c]

\* While the worker waits, its lambda is queued, being run, has set the event
\* or has thrown; when it is set, the objects of the stub hold the outcome.
AwaitInv ==
  \A c \in Clients : worker[c] = "await" =>
    /\ Accepted(received[c])
    /\ Queued(c) => outcome[c] = None
    /\ ~Queued(c) => \/ event[c]
                     \/ main # "idle" /\ serving = c
                     \/ outcome[c] = Lost
    /\ event[c] =>
         /\ outcome[c] \in Replies
         /\ outcome[c] = Succeeded(IF HasResult(received[c][1]) THEN object[c] ELSE TRUE)

\* The lambda that runs will leave the outcome in the objects of its stub.
MainInv ==
  main # "idle" =>
    /\ serving \in Clients
    /\ main = "store" => HasResult(received[serving][1])
    /\ main = "signal" /\ HasResult(received[serving][1]) => object[serving] = value
    /\ outcome[serving] \in Replies
    /\ outcome[serving] =
         Succeeded(IF HasResult(received[serving][1]) THEN value ELSE TRUE)

\* The inductive invariant of a call: its request, its lambda and its
\* objects are where the positions of client, worker and main thread say.
RpcInv == TypeOK /\ RequestInv /\ LambdaAlive /\ AwaitInv /\ MainInv

\* The reply of every request, and the state of foobar2000, are those of a
\* service that carries out each request at one instant: stubs, events and
\* the main thread's queue neither lose nor repeat nor mix up calls.
Service == INSTANCE RpcService
RpcIsAtomic == Service!Spec

\* Every request is answered, refused or not, unless the API throws at it: an
\* exception in the call of one client costs no other client its answer.
CallReturns ==
  \A c \in Clients : request[c] # None ~> outbox[c] # None \/ outcome[c] = Lost
=============================================================================
