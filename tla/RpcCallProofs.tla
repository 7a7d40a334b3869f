---------------------------- MODULE RpcCallProofs ----------------------------
(***************************************************************************)
(* For every API, every registry and any number of clients: the stubs'     *)
(* objects are alive as long as the main thread may touch them, and the    *)
(* RPC layer implements the atomic service of RpcService.                  *)
(***************************************************************************)
EXTENDS RpcCall, TLAPS

\* Membership and absence of duplicates, for any sequence
InSeq(q, x) == \E n \in 1..Len(q) : q[n] = x
Distinct(q) == \A m, n \in 1..Len(q) : q[m] = q[n] => m = n

\* Taking the front of a queue without duplicates removes the front and
\* nothing else.
LEMMA FrontRemoved ==
  ASSUME NEW S, NEW q \in Seq(S), q # <<>>, Distinct(q)
  PROVE  /\ Head(q) \in S
         /\ Tail(q) \in Seq(S)
         /\ Distinct(Tail(q))
         /\ InSeq(q, Head(q))
         /\ \A x : InSeq(Tail(q), x) <=> InSeq(q, x) /\ x # Head(q)
<1>1. /\ Len(q) \in Nat \ {0}
      /\ Len(Tail(q)) = Len(q) - 1
      /\ \A n \in 1..Len(Tail(q)) : Tail(q)[n] = q[n + 1]
      /\ Head(q) = q[1]
      /\ Head(q) \in S
      /\ Tail(q) \in Seq(S)
  OBVIOUS
<1>2. Distinct(Tail(q))
  BY <1>1 DEF Distinct
<1>3. InSeq(q, Head(q))
  BY <1>1 DEF InSeq
<1>4. ASSUME NEW x, InSeq(Tail(q), x) PROVE InSeq(q, x) /\ x # Head(q)
  BY <1>1, <1>4 DEF InSeq, Distinct
<1>5. ASSUME NEW x, InSeq(q, x), x # Head(q) PROVE InSeq(Tail(q), x)
  <2>1. PICK n \in 1..Len(q) : q[n] = x
    BY <1>5 DEF InSeq
  <2>2. n - 1 \in 1..Len(Tail(q)) /\ Tail(q)[n - 1] = x
    BY <1>1, <1>5, <2>1
  <2> QED
    BY <2>2 DEF InSeq
<1> QED
  BY <1>1, <1>2, <1>3, <1>4, <1>5

\* Appending what is not in it keeps a queue without duplicates.
LEMMA BackAdded ==
  ASSUME NEW S, NEW q \in Seq(S), NEW v \in S, Distinct(q), ~InSeq(q, v)
  PROVE  /\ Append(q, v) \in Seq(S)
         /\ Distinct(Append(q, v))
         /\ \A x : InSeq(Append(q, v), x) <=> InSeq(q, x) \/ x = v
<1>1. /\ Append(q, v) \in Seq(S)
      /\ Len(q) \in Nat
      /\ Len(Append(q, v)) = Len(q) + 1
      /\ \A n \in 1..Len(q) : Append(q, v)[n] = q[n]
      /\ Append(q, v)[Len(q) + 1] = v
  OBVIOUS
<1>2. Distinct(Append(q, v))
  BY <1>1 DEF Distinct, InSeq
<1>3. ASSUME NEW x, InSeq(q, x) PROVE InSeq(Append(q, v), x)
  BY <1>1, <1>3 DEF InSeq
<1>4. InSeq(Append(q, v), v)
  BY <1>1 DEF InSeq
<1>5. ASSUME NEW x, InSeq(Append(q, v), x), x # v PROVE InSeq(q, x)
  BY <1>1, <1>5 DEF InSeq
<1> QED
  BY <1>1, <1>2, <1>3, <1>4, <1>5

-----------------------------------------------------------------------------
\* The invariant

LEMMA InitRpcInv == Init => RpcInv
<1> SUFFICES ASSUME Init PROVE RpcInv
  OBVIOUS
<1>1. TypeOK
  BY ApiAssumption DEF Init, TypeOK, NoneYet, Bodies
<1>2. \A c \in Clients : ~Queued(c)
  <2>1. Len(queue) = 0
    BY DEF Init
  <2> QED
    BY <2>1 DEF Queued
<1>3. RequestInv
  BY DEF Init, NoneYet, RequestInv
<1>4. LambdaAlive
  BY <1>2 DEF Init, LambdaAlive
<1>5. AwaitInv /\ MainInv
  BY DEF Init, AwaitInv, MainInv
<1> QED
  BY <1>1, <1>3, <1>4, <1>5 DEF RpcInv

\* What is queued depends on the queue alone.
LEMMA QueuedFrame == UNCHANGED queue => \A c : Queued(c)' <=> Queued(c)
  BY DEF Queued

LEMMA SendInv ==
  ASSUME RpcInv, NEW c \in Clients, NEW r \in Requests, Send(c, r)
  PROVE  RpcInv'
<1> USE DEF RpcInv, clientVars, pipeVars, stubVars, workerVars, mainVars
<1>q. \A d : Queued(d)' <=> Queued(d)
  BY QueuedFrame DEF Send
<1>1. TypeOK'
  BY DEF Send, TypeOK
<1>2. RequestInv'
  BY DEF Send, TypeOK, RequestInv
<1>3. LambdaAlive'
  BY <1>q DEF Send, LambdaAlive
<1>4. AwaitInv'
  BY <1>q DEF Send, AwaitInv
<1>5. MainInv'
  BY DEF Send, MainInv
<1> QED
  BY <1>1, <1>2, <1>3, <1>4, <1>5

LEMMA ReceiveInv ==
  ASSUME RpcInv, NEW c \in Clients, Receive(c)
  PROVE  RpcInv'
<1> USE DEF RpcInv, clientVars, pipeVars, stubVars, workerVars, mainVars
<1>q. \A d : Queued(d)' <=> Queued(d)
  BY QueuedFrame DEF Receive
<1>1. TypeOK'
  BY DEF Receive, TypeOK
<1>2. RequestInv'
  BY DEF Receive, TypeOK, RequestInv
<1>3. LambdaAlive'
  BY <1>q DEF Receive, LambdaAlive
<1>4. AwaitInv'
  <2>1. worker[c] = "recv" /\ UNCHANGED <<worker, received, object, event, main, serving>>
    BY DEF Receive, TypeOK, RequestInv
  <2>2. \A d \in Clients : d # c => outcome'[d] = outcome[d]
    BY DEF Receive, TypeOK
  <2> QED
    BY <1>q, <2>1, <2>2 DEF AwaitInv
<1>5. MainInv'
  BY DEF Receive, TypeOK, RequestInv, LambdaAlive, MainInv
<1> QED
  BY <1>1, <1>2, <1>3, <1>4, <1>5

LEMMA RecvInv ==
  ASSUME RpcInv, NEW c \in Clients, Recv(c)
  PROVE  RpcInv'
<1> USE DEF RpcInv, clientVars, pipeVars, stubVars, workerVars, mainVars
<1>q. \A d : Queued(d)' <=> Queued(d)
  BY QueuedFrame DEF Recv
<1>1. TypeOK'
  BY DEF Recv, WorkerGoto, TypeOK
<1>2. RequestInv'
  BY DEF Recv, WorkerGoto, TypeOK, RequestInv
<1>3. LambdaAlive'
  BY <1>q DEF Recv, WorkerGoto, LambdaAlive
<1>4. AwaitInv'
  BY <1>q DEF Recv, WorkerGoto, TypeOK, AwaitInv
<1>5. MainInv'
  BY DEF Recv, TypeOK, LambdaAlive, MainInv
<1> QED
  BY <1>1, <1>2, <1>3, <1>4, <1>5

LEMMA FailInv ==
  ASSUME RpcInv, NEW c \in Clients, Fail(c)
  PROVE  RpcInv'
<1> USE DEF RpcInv, clientVars, pipeVars, stubVars, workerVars, mainVars
<1>q. \A d : Queued(d)' <=> Queued(d)
  BY QueuedFrame DEF Fail
<1>1. TypeOK'
  BY DEF Fail, WorkerGoto, TypeOK, Replies
<1>2. RequestInv'
  BY ApiAssumption DEF Fail, WorkerGoto, Replies, TypeOK, RequestInv
<1>3. LambdaAlive'
  BY <1>q DEF Fail, WorkerGoto, LambdaAlive
<1>4. AwaitInv'
  BY <1>q DEF Fail, WorkerGoto, TypeOK, AwaitInv, MainInv
<1>5. MainInv'
  BY DEF Fail, TypeOK, LambdaAlive, MainInv
<1> QED
  BY <1>1, <1>2, <1>3, <1>4, <1>5

LEMMA PackInv ==
  ASSUME RpcInv, NEW c \in Clients, Pack(c)
  PROVE  RpcInv'
<1> USE DEF RpcInv, clientVars, pipeVars, stubVars, workerVars, mainVars
<1>q. \A d : Queued(d)' <=> Queued(d)
  BY QueuedFrame DEF Pack
<1>r. /\ response' = [response EXCEPT ![c] = outcome[c]]
      /\ outcome[c] \in Replies
      /\ outcome[c] # None
  BY ApiAssumption DEF Pack, AwaitInv
<1>f. /\ worker' = [worker EXCEPT ![c] = "send"] /\ worker[c] = "await"
      /\ UNCHANGED <<request, outcome, inbox, outbox, received>>
  BY DEF Pack, WorkerGoto
<1>1. TypeOK'
  BY <1>r DEF Pack, WorkerGoto, TypeOK
<1>2. RequestInv'
  BY <1>r, <1>f DEF TypeOK, RequestInv
<1>3. LambdaAlive'
  BY <1>q DEF Pack, WorkerGoto, LambdaAlive
<1>4. AwaitInv'
  BY <1>q DEF Pack, WorkerGoto, TypeOK, AwaitInv
<1>5. MainInv'
  BY DEF Pack, MainInv
<1> QED
  BY <1>1, <1>2, <1>3, <1>4, <1>5

LEMMA ReplyInv ==
  ASSUME RpcInv, NEW c \in Clients, Reply(c)
  PROVE  RpcInv'
<1> USE DEF RpcInv, clientVars, pipeVars, stubVars, workerVars, mainVars
<1>q. \A d : Queued(d)' <=> Queued(d)
  BY QueuedFrame DEF Reply
<1>1. TypeOK'
  BY DEF Reply, WorkerGoto, TypeOK
<1>2. RequestInv'
  BY DEF Reply, WorkerGoto, TypeOK, RequestInv
<1>3. LambdaAlive'
  BY <1>q DEF Reply, WorkerGoto, LambdaAlive
<1>4. AwaitInv'
  BY <1>q DEF Reply, WorkerGoto, TypeOK, AwaitInv, MainInv
<1>5. MainInv'
  BY DEF Reply, TypeOK, LambdaAlive, MainInv
<1> QED
  BY <1>1, <1>2, <1>3, <1>4, <1>5

LEMMA StoreResultInv ==
  ASSUME RpcInv, StoreResult
  PROVE  RpcInv'
<1> USE DEF RpcInv, clientVars, pipeVars, stubVars, workerVars, mainVars
<1>q. \A d : Queued(d)' <=> Queued(d)
  BY QueuedFrame DEF StoreResult
<1>1. TypeOK'
  BY DEF StoreResult, TypeOK
<1>2. RequestInv'
  BY DEF StoreResult, RequestInv
<1>3. LambdaAlive'
  BY <1>q DEF StoreResult, LambdaAlive
<1>4. AwaitInv'
  <2>1. serving \in Clients /\ ~event[serving] /\ ~Queued(serving)
    BY DEF StoreResult, LambdaAlive, MainInv
  <2>2. /\ UNCHANGED <<worker, received, event, outcome, serving>>
        /\ main # "idle" /\ main' # "idle"
        /\ \A d \in Clients : d # serving => object'[d] = object[d]
    BY DEF StoreResult, TypeOK
  <2> QED
    BY <1>q, <2>1, <2>2 DEF AwaitInv
<1>5. MainInv'
  BY DEF StoreResult, TypeOK, MainInv
<1> QED
  BY <1>1, <1>2, <1>3, <1>4, <1>5

LEMMA SetEventInv ==
  ASSUME RpcInv, SetEvent
  PROVE  RpcInv'
<1> USE DEF RpcInv, clientVars, pipeVars, stubVars, workerVars, mainVars
<1>q. \A d : Queued(d)' <=> Queued(d)
  BY QueuedFrame DEF SetEvent
<1>1. TypeOK'
  BY DEF SetEvent, TypeOK, Bodies
<1>2. RequestInv'
  BY DEF SetEvent, RequestInv
<1>3. LambdaAlive'
  BY <1>q DEF SetEvent, LambdaAlive
<1>4. AwaitInv'
  <2>1. serving \in Clients /\ event' = [event EXCEPT ![serving] = TRUE]
    BY DEF SetEvent, MainInv
  <2>2. ASSUME worker[serving] = "await"
        PROVE  outcome[serving] \in Replies /\ outcome[serving] =
          Succeeded(IF HasResult(received[serving][1]) THEN object[serving] ELSE TRUE)
    BY DEF SetEvent, MainInv
  <2> QED
    BY <1>q, <2>2 DEF SetEvent, TypeOK, AwaitInv
<1>5. MainInv'
  BY DEF SetEvent, MainInv
<1> QED
  BY <1>1, <1>2, <1>3, <1>4, <1>5

LEMMA PostInv ==
  ASSUME RpcInv, NEW c \in Clients, Post(c)
  PROVE  RpcInv'
<1> USE DEF RpcInv, clientVars, pipeVars, stubVars, workerVars, mainVars
<1>1. /\ queue \in Seq(Clients)
      /\ queue' = Append(queue, c)
      /\ Distinct(queue)
      /\ ~InSeq(queue, c)
  BY DEF Post, TypeOK, LambdaAlive, Queued, InSeq, Distinct
<1>2. /\ queue' \in Seq(Clients)
      /\ Distinct(queue')
      /\ \A d : InSeq(queue', d) <=> InSeq(queue, d) \/ d = c
  BY <1>1, BackAdded
<1>q. \A d : Queued(d)' <=> Queued(d) \/ d = c
  BY <1>2 DEF Queued, InSeq
<1>s. main # "idle" => serving # c
  BY DEF Post, LambdaAlive
<1>3. TypeOK'
  BY <1>2 DEF Post, WorkerGoto, TypeOK, Bodies
<1>4. RequestInv'
  BY DEF Post, WorkerGoto, TypeOK, RequestInv
<1>5. LambdaAlive'
  <2>1. \A d \in Clients : Queued(d)' \/ (main' # "idle" /\ serving' = d) =>
          worker'[d] = "await" /\ ~event'[d] /\ received'[d] # None
    BY <1>q, ApiAssumption DEF Post, WorkerGoto, TypeOK, RequestInv, LambdaAlive
  <2>2. \A m, n \in 1..Len(queue') : queue'[m] = queue'[n] => m = n
    BY <1>2 DEF Distinct
  <2>3. main' # "idle" => ~Queued(serving)'
    BY <1>q, <1>s DEF Post, LambdaAlive
  <2> QED
    BY <2>1, <2>2, <2>3 DEF LambdaAlive
<1>6. AwaitInv'
  BY <1>q DEF Post, WorkerGoto, TypeOK, RequestInv, AwaitInv
<1>7. MainInv'
  BY <1>s DEF Post, WorkerGoto, TypeOK, MainInv
<1> QED
  BY <1>3, <1>4, <1>5, <1>6, <1>7

LEMMA BeginInv ==
  ASSUME RpcInv, Begin
  PROVE  RpcInv'
<1> USE DEF RpcInv, clientVars, pipeVars, stubVars, workerVars, mainVars
<1> DEFINE c == Head(queue)
<1>1. queue \in Seq(Clients) /\ queue # <<>> /\ Distinct(queue)
  BY DEF Begin, TypeOK, LambdaAlive, Distinct
<1>2. /\ c \in Clients
      /\ Tail(queue) \in Seq(Clients)
      /\ Distinct(Tail(queue))
      /\ InSeq(queue, c)
      /\ \A d : InSeq(Tail(queue), d) <=> InSeq(queue, d) /\ d # c
  BY <1>1, FrontRemoved
<1>b. /\ main = "idle" /\ queue' = Tail(queue) /\ serving' = c
      /\ value' = Answer(received[c][1], received[c][2], player)
      /\ player' = Effect(received[c][1], received[c][2], player)
      /\ outcome' = [outcome EXCEPT ![c] = Outcome(received[c], player)]
      /\ main' = IF HasResult(received[c][1]) THEN "store" ELSE "signal"
      /\ UNCHANGED <<request, got, inbox, outbox, object, event, worker, received,
                     response>>
  BY DEF Begin
<1>q. /\ Queued(c)
      /\ \A d : Queued(d)' <=> Queued(d) /\ d # c
  BY <1>2, <1>b DEF Queued, InSeq
<1> HIDE DEF c
<1>3. /\ worker[c] = "await" /\ ~event[c]
      /\ received[c] \in Requests /\ Accepted(received[c])
      /\ received[c] = request[c] /\ outcome[c] = None
  <2>1. worker[c] = "await" /\ ~event[c] /\ received[c] # None
    BY <1>2, <1>q DEF LambdaAlive
  <2>2. Accepted(received[c]) /\ outcome[c] = None
    BY <1>2, <1>q, <2>1 DEF AwaitInv
  <2>3. received[c] = request[c]
    BY <1>2, <2>1 DEF RequestInv
  <2> QED
    BY <1>2, <2>1, <2>2, <2>3 DEF TypeOK
<1>4. player' \in Players /\ value' \in Values
  BY <1>3, <1>b, ApiAssumption DEF TypeOK
<1>5. /\ Outcome(received[c], player) =
           Succeeded(IF HasResult(received[c][1]) THEN value' ELSE TRUE)
      /\ Outcome(received[c], player) \in Replies
  BY <1>4, <1>b, ApiAssumption DEF Outcome, Replies
<1>6. TypeOK'
  BY <1>2, <1>4, <1>5, <1>b DEF TypeOK, Bodies
<1>7. RequestInv'
  BY <1>2, <1>3, <1>b DEF TypeOK, RequestInv
<1>8. LambdaAlive'
  <2>1. \A d \in Clients : Queued(d)' \/ (main' # "idle" /\ serving' = d) =>
          worker'[d] = "await" /\ ~event'[d] /\ received'[d] # None
    BY <1>q, <1>b, <1>3 DEF LambdaAlive, RequestInv
  <2>2. \A m, n \in 1..Len(queue') : queue'[m] = queue'[n] => m = n
    BY <1>2, <1>b DEF Distinct
  <2>3. main' # "idle" => ~Queued(serving)'
    BY <1>q, <1>b
  <2> QED
    BY <2>1, <2>2, <2>3 DEF LambdaAlive
<1>9. AwaitInv'
  BY <1>2, <1>3, <1>b, <1>q DEF TypeOK, AwaitInv
<1>10. MainInv'
  BY <1>2, <1>5, <1>b, ApiAssumption DEF TypeOK, MainInv
<1> QED
  BY <1>6, <1>7, <1>8, <1>9, <1>10

LEMMA ThrowInv ==
  ASSUME RpcInv, Throw
  PROVE  RpcInv'
<1> USE DEF RpcInv, clientVars, pipeVars, stubVars, workerVars, mainVars
<1> DEFINE c == Head(queue)
<1>1. queue \in Seq(Clients) /\ queue # <<>> /\ Distinct(queue)
  BY DEF Throw, TypeOK, LambdaAlive, Distinct
<1>2. /\ c \in Clients
      /\ Tail(queue) \in Seq(Clients)
      /\ Distinct(Tail(queue))
      /\ InSeq(queue, c)
      /\ \A d : InSeq(Tail(queue), d) <=> InSeq(queue, d) /\ d # c
  BY <1>1, FrontRemoved
<1>b. /\ main = "idle" /\ queue' = Tail(queue)
      /\ outcome' = [outcome EXCEPT ![c] = Lost]
      /\ UNCHANGED <<player, request, got, inbox, outbox, object, event, worker,
                     received, response, main, serving, value>>
  BY DEF Throw
<1>q. /\ Queued(c)
      /\ \A d : Queued(d)' <=> Queued(d) /\ d # c
  BY <1>2, <1>b DEF Queued, InSeq
<1> HIDE DEF c
<1>3. worker[c] = "await" /\ ~event[c]
  BY <1>2, <1>q DEF LambdaAlive
<1>4. TypeOK'
  BY <1>2, <1>b DEF TypeOK
<1>5. RequestInv'
  BY <1>2, <1>3, <1>b DEF TypeOK, RequestInv
<1>6. LambdaAlive'
  <2>1. \A m, n \in 1..Len(queue') : queue'[m] = queue'[n] => m = n
    BY <1>2, <1>b DEF Distinct
  <2> QED
    BY <1>b, <1>q, <2>1 DEF LambdaAlive
<1>7. AwaitInv'
  BY <1>2, <1>3, <1>b, <1>q DEF TypeOK, AwaitInv
<1>8. MainInv'
  BY <1>b DEF MainInv
<1> QED
  BY <1>4, <1>5, <1>6, <1>7, <1>8

LEMMA StutterInv ==
  ASSUME RpcInv, UNCHANGED vars
  PROVE  RpcInv'
<1> USE DEF vars, clientVars, pipeVars, stubVars, workerVars, mainVars, RpcInv
<1>q. \A d : Queued(d)' <=> Queued(d)
  BY QueuedFrame
<1>1. TypeOK' /\ RequestInv'
  BY DEF TypeOK, RequestInv
<1>2. LambdaAlive'
  BY <1>q DEF LambdaAlive
<1>3. AwaitInv' /\ MainInv'
  BY <1>q DEF AwaitInv, MainInv
<1> QED
  BY <1>1, <1>2, <1>3

LEMMA NextRpcInv == RpcInv /\ [Next]_vars => RpcInv'
<1> SUFFICES ASSUME RpcInv, [Next]_vars PROVE RpcInv'
  OBVIOUS
<1>1. ASSUME NEW c \in Clients, NEW r \in Requests, Send(c, r) PROVE RpcInv'
  BY <1>1, SendInv
<1>2. ASSUME NEW c \in Clients, Receive(c) PROVE RpcInv'
  BY <1>2, ReceiveInv
<1>3. ASSUME NEW c \in Clients, Worker(c) PROVE RpcInv'
  BY <1>3, RecvInv, FailInv, PostInv, PackInv, ReplyInv DEF Worker
<1>4. ASSUME Main PROVE RpcInv'
  BY <1>4, BeginInv, ThrowInv, StoreResultInv, SetEventInv DEF Main
<1>5. ASSUME UNCHANGED vars PROVE RpcInv'
  BY <1>5, StutterInv
<1> QED
  BY <1>1, <1>2, <1>3, <1>4, <1>5 DEF Next

\* Whatever the API does and however many clients call it at once: a request
\* is in one place at a time, what a worker finds in its stub's objects after
\* wait is the outcome of its own call, and the main thread never touches the
\* objects of a stub that has returned (rpcapi/rpc, percolate.h).
THEOREM CallsAreSafe == Spec => []RpcInv
<1> QED
  BY InitRpcInv, NextRpcInv, PTL DEF Spec

\* The part of it about the references to the stack of the worker
THEOREM LambdasAreAlive == Spec => []LambdaAlive
<1>1. RpcInv => LambdaAlive
  BY DEF RpcInv
<1> QED
  BY <1>1, CallsAreSafe, PTL

-----------------------------------------------------------------------------
\* The refinement

LEMMA InitRefines == Init => Service!Init
  BY DEF Init, NoneYet, Service!Init

LEMMA NextRefines ==
  RpcInv /\ [Next]_vars => [Service!Next]_(Service!serviceVars)
<1> SUFFICES ASSUME RpcInv, [Next]_vars
             PROVE  [Service!Next]_(Service!serviceVars)
  OBVIOUS
<1> USE DEF Service!serviceVars, vars, clientVars, pipeVars, stubVars, workerVars,
            mainVars
<1>1. ASSUME NEW c \in Clients, NEW r \in Requests, Send(c, r)
      PROVE  Service!Next
  <2>1. Service!Invoke(c, r)
    BY <1>1 DEF Send, Service!Invoke
  <2> QED
    BY <2>1 DEF Service!Next, Requests, Service!Requests
<1>2. ASSUME NEW c \in Clients, Receive(c)
      PROVE  Service!Next
  <2>1. outcome[c] = outbox[c] /\ request[c] # None /\ outcome[c] \notin {None, Lost}
    BY <1>2, ApiAssumption DEF Receive, RpcInv, RequestInv, TypeOK
  <2>2. Service!Return(c)
    BY <1>2, <2>1 DEF Receive, Service!Return
  <2> QED
    BY <2>2 DEF Service!Next
<1>3. ASSUME NEW c \in Clients, Fail(c)
      PROVE  Service!Next
  <2>1. request[c] # None /\ outcome[c] = None /\ received[c] = request[c]
    BY <1>3 DEF Fail, RpcInv, RequestInv
  <2>2. Service!Refuse(c)
    BY <1>3, <2>1 DEF Fail, Service!Refuse, Service!Pending, Accepted,
       Service!Accepted, TakesParam, Service!TakesParam, Failed, Service!Failed
  <2> QED
    BY <2>2 DEF Service!Next
<1>4. ASSUME Begin
      PROVE  Service!Next
  <2> DEFINE c == Head(queue)
  <2>1. c \in Clients /\ Queued(c)
    <3>1. queue \in Seq(Clients) /\ queue # <<>>
      BY <1>4 DEF Begin, RpcInv, TypeOK
    <3>2. c \in Clients /\ InSeq(queue, c)
      BY <1>4, <3>1, FrontRemoved DEF RpcInv, LambdaAlive, Distinct
    <3> QED
      BY <3>2 DEF Queued, InSeq
  <2>2. /\ request[c] # None /\ outcome[c] = None
        /\ received[c] = request[c] /\ Accepted(request[c])
    BY <2>1 DEF RpcInv, LambdaAlive, RequestInv, AwaitInv
  <2>3. Service!Perform(c)
    BY <1>4, <2>2 DEF Begin, Throwing, Service!Throwing, Service!Perform,
       Service!Performable, Service!Pending, Accepted,
       Service!Accepted, TakesParam, Service!TakesParam, HasResult, Service!HasResult,
       Outcome, Service!Outcome, Succeeded, Service!Succeeded
  <2> QED
    BY <2>1, <2>3 DEF Service!Next
<1>t. ASSUME Throw
      PROVE  Service!Next
  <2> DEFINE c == Head(queue)
  <2>1. c \in Clients /\ Queued(c)
    <3>1. queue \in Seq(Clients) /\ queue # <<>>
      BY <1>t DEF Throw, RpcInv, TypeOK
    <3>2. c \in Clients /\ InSeq(queue, c)
      BY <1>t, <3>1, FrontRemoved DEF RpcInv, LambdaAlive, Distinct
    <3> QED
      BY <3>2 DEF Queued, InSeq
  <2>2. /\ request[c] # None /\ outcome[c] = None
        /\ received[c] = request[c] /\ Accepted(request[c])
    BY <2>1 DEF RpcInv, LambdaAlive, RequestInv, AwaitInv
  <2>3. Service!Lose(c)
    BY <1>t, <2>2 DEF Throw, Throwing, Service!Throwing, Service!Lose,
       Service!Performable, Service!Pending, Accepted, Service!Accepted,
       TakesParam, Service!TakesParam
  <2> QED
    BY <2>1, <2>3 DEF Service!Next
<1>5. ASSUME NEW c \in Clients, Recv(c) \/ Post(c) \/ Pack(c) \/ Reply(c)
      PROVE  UNCHANGED Service!serviceVars
  BY <1>5 DEF Recv, Post, Pack, Reply
<1>6. ASSUME StoreResult \/ SetEvent
      PROVE  UNCHANGED Service!serviceVars
  BY <1>6 DEF StoreResult, SetEvent
<1>7. ASSUME UNCHANGED vars
      PROVE  UNCHANGED Service!serviceVars
  BY <1>7
<1> QED
  BY <1>1, <1>2, <1>3, <1>4, <1>t, <1>5, <1>6, <1>7 DEF Next, Worker, Main

\* Every request is carried out exactly once, at one instant between its
\* sending and its reply, or refused without effect, and its reply is what
\* that call answered: the dispatcher, the stubs and the main thread's queue
\* implement the atomic service.
THEOREM CallsAreAtomic == Spec => RpcIsAtomic
<1> QED
  BY InitRefines, NextRefines, CallsAreSafe, PTL DEF Spec, RpcIsAtomic, Service!Spec
=============================================================================
