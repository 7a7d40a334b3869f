---------------------------- MODULE ServerProofs ----------------------------
(***************************************************************************)
(* For every number of clients, pipe instances and requests: the invariant *)
(* of the component, and from it that no two workers share a pipe, that no *)
(* lambda outlives its caller, that on_quit goes through vectors that do   *)
(* not change any more and leaves no thread behind, and that each pipe     *)
(* instance is a channel.                                                  *)
(***************************************************************************)
EXTENDS Server, TLAPS

LEMMA FirstIsInstance == 1 \in Instances
BY PipeAssumption DEF Instances

LEMMA Handles ==
  /\ NoHandle \notin Instances
  /\ NoHandle \in Handle
  /\ Instances \subseteq Handle
  /\ \A h \in Handle : h # NoHandle => h \in Instances
BY PipeAssumption DEF NoHandle, Instances, Handle

LEMMA HeadTail ==
  ASSUME NEW S, NEW s \in Seq(S), s # <<>>
  PROVE  Head(s) \in S /\ Tail(s) \in Seq(S)
OBVIOUS

LEMMA AppendIsSeq ==
  ASSUME NEW S, NEW s \in Seq(S), NEW e \in S
  PROVE  Append(s, e) \in Seq(S)
OBVIOUS

\* Where the elements of a sequence are after a push and after a pop
LEMMA AppendElements ==
  ASSUME NEW S, NEW s \in Seq(S), NEW e \in S
  PROVE  /\ Len(Append(s, e)) = Len(s) + 1 /\ Len(s) \in Nat
         /\ \A n \in 1..Len(s) : Append(s, e)[n] = s[n]
         /\ Append(s, e)[Len(s) + 1] = e
OBVIOUS

LEMMA TailElements ==
  ASSUME NEW S, NEW s \in Seq(S), s # <<>>
  PROVE  /\ Len(Tail(s)) = Len(s) - 1 /\ Len(s) \in Nat \ {0}
         /\ \A n \in 1..Len(s) - 1 : Tail(s)[n] = s[n + 1]
         /\ Head(s) = s[1]
OBVIOUS

-----------------------------------------------------------------------------
\* Types.  Each step types what the action changes; the rest stays.

LEMMA InitTypeOK == Init => TypeOK
<1> SUFFICES ASSUME Init PROVE TypeOK
  OBVIOUS
<1>1. PipeTypeOK
  BY DEF Init, PipeInit, PipeTypeOK, Stages
<1>2. handles \in Seq(Handle)
  BY FirstIsInstance, Handles DEF Init
<1>3. /\ at \in [Clients -> Handle]
      /\ worker \in [Instances -> WorkerPcs]
  BY Handles DEF Init, WorkerPcs
<1>4. /\ listener \in ListenerPcs
      /\ collector \in CollectorPcs
      /\ main \in BeforeJoin
  BY DEF Init, ListenerPcs, CollectorPcs, BeforeJoin
<1>5. /\ tracked \in Seq(Instances) /\ callbacks \in Seq(Instances)
      /\ connections \in Seq(Handle)
      /\ index \in Nat \ {0}
  BY DEF Init
<1> QED
  BY <1>1, <1>2, <1>3, <1>4, <1>5, Handles DEF Init, TypeOK

LEMMA ClientTypeOK ==
  ASSUME TypeOK, NEW c \in Clients, Client(c)
  PROVE  TypeOK'
<1> USE Handles DEF TypeOK, PipeTypeOK, Stages, traffic, listenerVars,
                    workerVars, collectorVars, mainVars
<1>1. CASE Open(c)
  BY <1>1 DEF Open, CreateFile, Listening
<1>2. CASE HangUp(c)
  BY <1>2 DEF HangUp, CloseClientEnd
<1>3. ASSUME NEW kind \in Kinds, Request(c, kind) PROVE TypeOK'
  <2>1. at[c] \in Instances
    BY <1>3 DEF Request
  <2>2. requests' \in [Instances -> Seq(Kinds)]
    BY <1>3, <2>1 DEF Request
  <2> QED
    BY <1>3, <2>2 DEF Request
<1> QED
  BY <1>1, <1>2, <1>3 DEF Client

LEMMA ListenerTypeOK == TypeOK /\ AcceptInv /\ Listener => TypeOK'
<1> SUFFICES ASSUME TypeOK, AcceptInv, Listener PROVE TypeOK'
  OBVIOUS
<1>1. listener' \in ListenerPcs
  BY DEF TypeOK, Listener, ListenCheck, AcceptCreate, AcceptFront, AcceptPop,
         AcceptConnect, AcceptReturn, Spawn, ListenerGoto, ListenerPcs
<1>2. /\ at \in [Clients -> Handle]
      /\ handles \in Seq(Handle) /\ accepting \in Handle
      /\ tracked \in Seq(Instances)
      /\ stage \in [Instances -> Stages]
      /\ requests \in [Instances -> Seq(Kinds)]
      /\ worker \in [Instances -> WorkerPcs]
  BY DEF TypeOK, PipeTypeOK
<1> USE DEF pipeVars, traffic, workerVars, collectorVars, mainVars
<1>3. CASE ListenCheck
  BY <1>1, <1>3 DEF ListenCheck, TypeOK, PipeTypeOK
<1>4. CASE AcceptCreate
  <2>1. stage' \in [Instances -> Stages]
    BY <1>2, <1>4 DEF AcceptCreate, CreateNamedPipe, Stages
  <2>2. handles' \in Seq(Handle)
    <3>1. \E h \in Handle : handles' = Append(handles, h)
      BY <1>4, Handles DEF AcceptCreate
    <3> QED
      BY <1>2, <3>1, AppendIsSeq
  <2> QED
    BY <1>1, <1>4, <2>1, <2>2 DEF AcceptCreate, TypeOK, PipeTypeOK
<1>5. CASE AcceptFront
  <2>1. accepting' \in Handle /\ undefined' \in BOOLEAN
    BY <1>2, <1>5, HeadTail DEF AcceptFront, TypeOK
  <2> QED
    BY <1>1, <1>5, <2>1 DEF AcceptFront, TypeOK, PipeTypeOK
<1>6. CASE AcceptPop
  <2>1. handles' \in Seq(Handle)
    BY <1>2, <1>6, HeadTail DEF AcceptPop
  <2> QED
    BY <1>1, <1>6, <2>1 DEF AcceptPop, TypeOK, PipeTypeOK
<1>7. CASE AcceptConnect
  <2>1. stage' \in [Instances -> Stages]
    BY <1>2, <1>7 DEF AcceptConnect, ConnectNamedPipe, Stages
  <2>2. requests' \in [Instances -> Seq(Kinds)]
    <3>1. \/ UNCHANGED requests
          \/ \E q \in {<<>>, requests[accepting]} :
               accepting # NoHandle /\ requests' = [requests EXCEPT ![accepting] = q]
      BY <1>7 DEF AcceptConnect, ConnectNamedPipe
    <3>2. <<>> \in Seq(Kinds)
      OBVIOUS
    <3>3. accepting # NoHandle => requests[accepting] \in Seq(Kinds)
      BY <1>2, Handles
    <3> QED
      BY <1>2, <3>1, <3>2, <3>3
  <2>3. at' \in [Clients -> Handle]
    <3>1. \/ UNCHANGED at
          \/ at' = [c \in Clients |->
                      IF at[c] = accepting /\ stage[accepting] = "disconnected"
                      THEN NoHandle ELSE at[c]]
      BY <1>7 DEF AcceptConnect
    <3> QED
      BY <1>2, <3>1, Handles
  <2>4. accepting' \in Handle
    BY <1>2, <1>7, Handles DEF AcceptConnect
  <2> QED
    BY <1>1, <1>7, <2>1, <2>2, <2>3, <2>4 DEF AcceptConnect, TypeOK, PipeTypeOK
<1>8. CASE AcceptReturn
  BY <1>1, <1>8 DEF AcceptReturn, TypeOK, PipeTypeOK
<1>9. CASE Spawn
  <2>1. accepting \in Instances
    BY <1>2, <1>9, Handles DEF Spawn, AcceptInv
  <2>2. tracked' \in Seq(Instances) /\ accepting' \in Handle
    BY <1>2, <1>9, <2>1, AppendIsSeq, Handles DEF Spawn
  <2>3. worker' \in [Instances -> WorkerPcs]
    BY <1>2, <1>9 DEF Spawn, WorkerPcs
  <2> QED
    BY <1>1, <1>9, <2>2, <2>3 DEF Spawn, TypeOK, PipeTypeOK
<1> QED
  BY <1>3, <1>4, <1>5, <1>6, <1>7, <1>8, <1>9 DEF Listener

LEMMA WorkerTypeOK ==
  ASSUME TypeOK, NEW h \in Instances, Worker(h)
  PROVE  TypeOK'
<1>1. worker' \in [Instances -> WorkerPcs]
  <2>1. \E pc \in WorkerPcs : worker' = [worker EXCEPT ![h] = pc]
    BY DEF Worker, WorkerCheck, Recv, Dispatch, Await, Reply, WorkerCloseCheck,
           WorkerCloseSet, WorkerCloseHandle, WorkerGoto, WorkerPcs
  <2> QED
    BY <2>1 DEF TypeOK
<1>2. /\ stage \in [Instances -> Stages]
      /\ nread \in [Instances -> Nat]
      /\ replies \in [Instances -> Nat]
  BY DEF TypeOK, PipeTypeOK
<1> USE DEF pipeVars, traffic, listenerVars, collectorVars, mainVars
<1>3. CASE WorkerCheck(h) \/ Await(h) \/ WorkerCloseCheck(h)
  BY <1>1, <1>3 DEF WorkerCheck, Await, WorkerCloseCheck, TypeOK, PipeTypeOK
<1>4. CASE Recv(h)
  <2>1. nread' \in [Instances -> Nat]
    <3>1. nread' \in {nread, [nread EXCEPT ![h] = @ + 1]}
      BY <1>4 DEF Recv
    <3> QED
      BY <1>2, <3>1
  <2> QED
    BY <1>1, <1>4, <2>1 DEF Recv, TypeOK, PipeTypeOK
<1>5. CASE Dispatch(h)
  <2>1. callbacks' \in {callbacks, Append(callbacks, h)}
    BY <1>5 DEF Dispatch
  <2>2. callbacks \in Seq(Instances)
    BY DEF TypeOK
  <2>3. callbacks' \in Seq(Instances)
    BY <2>1, <2>2, AppendIsSeq
  <2>4. ready' \subseteq Instances
    BY <1>5 DEF Dispatch, TypeOK
  <2> QED
    BY <1>1, <1>5, <2>3, <2>4 DEF Dispatch, TypeOK, PipeTypeOK
<1>6. CASE Reply(h)
  <2>1. replies' \in [Instances -> Nat]
    BY <1>2, <1>6 DEF Reply
  <2> QED
    BY <1>1, <1>6, <2>1 DEF Reply, TypeOK, PipeTypeOK
<1>7. CASE WorkerCloseSet(h)
  BY <1>1, <1>7 DEF WorkerCloseSet, CloseSet, TypeOK, PipeTypeOK
<1>8. CASE WorkerCloseHandle(h)
  <2>1. stage' \in [Instances -> Stages]
    BY <1>2, <1>8 DEF WorkerCloseHandle, CloseServerEnd, Stages
  <2> QED
    BY <1>1, <1>8, <2>1 DEF WorkerCloseHandle, TypeOK, PipeTypeOK
<1> QED
  BY <1>3, <1>4, <1>5, <1>6, <1>7, <1>8 DEF Worker

LEMMA CollectorTypeOK == TypeOK /\ JoinInv /\ Collector => TypeOK'
<1> SUFFICES ASSUME TypeOK, JoinInv, Collector PROVE TypeOK'
  OBVIOUS
<1>1. collector' \in CollectorPcs
  BY DEF Collector, CollectorCheck, CollectorPop, CollectorCloseCheck,
         CollectorCloseSet, CollectorCloseHandle, CollectorGoto, CollectorPcs
<1>2. /\ connections \in Seq(Handle) /\ collecting \in Handle
      /\ stage \in [Instances -> Stages]
  BY DEF TypeOK, PipeTypeOK
<1> USE DEF pipeVars, traffic, listenerVars, workerVars, mainVars
<1>3. CASE CollectorCheck \/ CollectorCloseCheck
  BY <1>1, <1>3 DEF CollectorCheck, CollectorCloseCheck, TypeOK, PipeTypeOK
<1>4. CASE CollectorPop
  <2>1. connections' \in Seq(Handle) /\ collecting' \in Handle
    BY <1>2, <1>4, HeadTail DEF CollectorPop
  <2> QED
    BY <1>1, <1>4, <2>1 DEF CollectorPop, TypeOK, PipeTypeOK
<1>5. CASE CollectorCloseSet
  <2>1. collecting \in Instances
    BY <1>2, <1>5, Handles DEF CollectorCloseSet, JoinInv
  <2> QED
    BY <1>1, <1>5, <2>1 DEF CollectorCloseSet, CloseSet, TypeOK, PipeTypeOK
<1>6. CASE CollectorCloseHandle
  <2>1. stage' \in [Instances -> Stages]
    BY <1>2, <1>6 DEF CollectorCloseHandle, CloseServerEnd, Stages
  <2> QED
    BY <1>1, <1>6, <2>1 DEF CollectorCloseHandle, TypeOK, PipeTypeOK
<1> QED
  BY <1>3, <1>4, <1>5, <1>6 DEF Collector

LEMMA MainTypeOK ==
  TypeOK /\ (RunCallback \/ BeginQuit \/ Quit) => TypeOK'
<1> SUFFICES ASSUME TypeOK, RunCallback \/ BeginQuit \/ Quit PROVE TypeOK'
  OBVIOUS
<1>1. main' \in BeforeJoin \cup AfterJoin
  BY DEF TypeOK, RunCallback, BeginQuit, Quit, QuitSize, QuitFront, QuitPop,
         QuitStopListener, QuitOpen, QuitShut, QuitJoinListener, QuitPush,
         QuitStopCollector, QuitJoinCollector, QuitStopWorker, QuitJoinWorker,
         MainGoto, BeforeJoin, AfterJoin, mainVars
<1>2. /\ callbacks \in Seq(Instances) /\ handles \in Seq(Handle)
      /\ connections \in Seq(Handle) /\ tracked \in Seq(Instances)
      /\ mainHandle \in Handle /\ index \in Nat \ {0}
      /\ stage \in [Instances -> Stages]
  BY DEF TypeOK, PipeTypeOK
<1>3. index <= Len(tracked) => tracked[index] \in Instances
  BY <1>2
<1> USE DEF pipeVars, traffic, listenerVars, workerVars, collectorVars, mainVars
<1>4. CASE RunCallback
  <2>1. callbacks' \in Seq(Instances) /\ ready' \subseteq Instances
    BY <1>2, <1>4, HeadTail DEF RunCallback, TypeOK
  <2> QED
    BY <1>1, <1>4, <2>1 DEF RunCallback, TypeOK, PipeTypeOK
<1>5. CASE BeginQuit \/ QuitSize \/ QuitJoinListener \/ QuitJoinCollector
  BY <1>1, <1>5 DEF BeginQuit, QuitSize, QuitJoinListener, QuitJoinCollector,
                    TypeOK, PipeTypeOK
<1>6. CASE QuitFront
  <2>1. mainHandle' \in Handle /\ undefined' \in BOOLEAN
    BY <1>2, <1>6, HeadTail DEF QuitFront, TypeOK
  <2> QED
    BY <1>1, <1>6, <2>1 DEF QuitFront, TypeOK, PipeTypeOK
<1>7. CASE QuitPop
  <2>1. handles' \in Seq(Handle)
    BY <1>2, <1>7, HeadTail DEF QuitPop
  <2>2. stage' \in [Instances -> Stages]
    BY <1>2, <1>7 DEF QuitPop, DisconnectNamedPipe, Stages
  <2>3. mainHandle' \in Handle /\ undefined' \in BOOLEAN
    BY <1>2, <1>7, Handles DEF QuitPop, TypeOK
  <2> QED
    BY <1>1, <1>7, <2>1, <2>2, <2>3 DEF QuitPop, TypeOK, PipeTypeOK
<1>8. CASE QuitStopListener \/ QuitStopCollector
  BY <1>1, <1>8 DEF QuitStopListener, QuitStopCollector, TypeOK, PipeTypeOK
<1>9. CASE QuitOpen
  <2>1. stage' \in [Instances -> Stages]
    BY <1>2, <1>9 DEF QuitOpen, CreateFile, Stages
  <2>2. mainHandle' \in Handle
    BY <1>2, <1>9, Handles DEF QuitOpen
  <2> QED
    BY <1>1, <1>9, <2>1, <2>2 DEF QuitOpen, TypeOK, PipeTypeOK
<1>10. CASE QuitShut
  <2>1. stage' \in [Instances -> Stages]
    BY <1>2, <1>10 DEF QuitShut, CloseClientEnd, Stages
  <2> QED
    BY <1>1, <1>10, <2>1, Handles DEF QuitShut, TypeOK, PipeTypeOK
<1>11. CASE QuitPush
  <2>1. index' \in Nat \ {0}
    BY <1>2, <1>11 DEF QuitPush
  <2>2. \E h \in Handle : connections' = Append(connections, h)
    BY <1>3, <1>11, Handles DEF QuitPush
  <2>3. connections' \in Seq(Handle)
    BY <1>2, <2>2, AppendIsSeq
  <2> QED
    BY <1>1, <1>11, <2>1, <2>3 DEF QuitPush, TypeOK, PipeTypeOK
<1>12. CASE QuitStopWorker
  <2>1. stopWorker' \subseteq Instances
    BY <1>3, <1>12 DEF QuitStopWorker, TypeOK
  <2> QED
    BY <1>1, <1>12, <2>1 DEF QuitStopWorker, TypeOK, PipeTypeOK
<1>13. CASE QuitJoinWorker
  <2>1. index' \in Nat \ {0}
    BY <1>2, <1>13 DEF QuitJoinWorker
  <2> QED
    BY <1>1, <1>13, <2>1 DEF QuitJoinWorker, TypeOK, PipeTypeOK
<1> QED
  BY <1>4, <1>5, <1>6, <1>7, <1>8, <1>9, <1>10, <1>11, <1>12, <1>13 DEF Quit

LEMMA NextTypeOK ==
  TypeOK /\ AcceptInv /\ JoinInv /\ [Next]_vars => TypeOK'
<1>1. TypeOK /\ UNCHANGED vars => TypeOK'
  BY DEF vars, pipeVars, listenerVars, workerVars, collectorVars, mainVars,
         TypeOK, PipeTypeOK
<1> QED
  BY <1>1, ClientTypeOK, ListenerTypeOK, WorkerTypeOK, CollectorTypeOK, MainTypeOK
  DEF Next

-----------------------------------------------------------------------------
\* What a step may do to one instance

\* A thread that has not been started does nothing, one that has been started
\* is never as if it had not been, and one that has ended stays so.  Only
\* Spawn starts one.
LEMMA WorkerSteps ==
  ASSUME TypeOK, Next, NEW h \in Instances
  PROVE  \/ worker'[h] = worker[h]
         \/ Spawn /\ h = accepting /\ worker'[h] = "check"
         \/ worker[h] \notin {"none", "exited"} /\ worker'[h] # "none"
<1>1. worker \in [Instances -> WorkerPcs]
  BY DEF TypeOK
<1>2. ASSUME NEW c \in Clients, Client(c) PROVE UNCHANGED worker
  BY <1>2 DEF Client, Open, HangUp, Request, workerVars
<1>3. CASE Listener
  BY <1>1, <1>3 DEF Listener, ListenCheck, AcceptCreate, AcceptFront, AcceptPop,
                    AcceptConnect, AcceptReturn, Spawn, workerVars
<1>4. ASSUME NEW k \in Instances, Worker(k)
      PROVE  \E pc \in WorkerPcs \ {"none"} :
               /\ worker[k] \notin {"none", "exited"}
               /\ worker' = [worker EXCEPT ![k] = pc]
  BY <1>4 DEF Worker, WorkerCheck, Recv, Dispatch, Await, Reply, WorkerCloseCheck,
              WorkerCloseSet, WorkerCloseHandle, WorkerGoto, WorkerPcs
<1>5. CASE Collector
  BY <1>5 DEF Collector, CollectorCheck, CollectorPop, CollectorCloseCheck,
              CollectorCloseSet, CollectorCloseHandle, workerVars
<1>6. CASE RunCallback \/ BeginQuit \/ Quit
  BY <1>6 DEF RunCallback, BeginQuit, Quit, QuitSize, QuitFront, QuitPop,
              QuitStopListener, QuitOpen, QuitShut, QuitJoinListener, QuitPush,
              QuitStopCollector, QuitJoinCollector, QuitStopWorker,
              QuitJoinWorker, workerVars
<1> QED
  BY <1>1, <1>2, <1>3, <1>4, <1>5, <1>6 DEF Next

\* The life of an instance: made once, opened by one client, and made
\* available to another one only by accept, while it has no worker.
LEMMA StageSteps ==
  ASSUME TypeOK, Next, NEW h \in Instances
  PROVE  \/ stage'[h] = stage[h]
         \/ AcceptCreate /\ stage[h] = "none" /\ stage'[h] = "listening"
         \/ stage[h] = "listening" /\ stage'[h] = "connected"
         \/ stage[h] = "connected" /\ stage'[h] = "closing"
         \/ /\ AcceptConnect /\ h = accepting
            /\ stage[h] = "disconnected" /\ stage'[h] = "listening"
         \/ stage'[h] \in {"disconnected", "closed"}
<1>1. stage \in [Instances -> Stages]
  BY DEF TypeOK, PipeTypeOK
<1>2. ASSUME NEW c \in Clients, Open(c) \/ HangUp(c)
      PROVE  \/ stage'[h] = stage[h]
             \/ stage[h] = "listening" /\ stage'[h] = "connected"
             \/ stage[h] = "connected" /\ stage'[h] = "closing"
  BY <1>1, <1>2 DEF Open, HangUp, CreateFile, CloseClientEnd, Listening
<1>3. ASSUME NEW c \in Clients, NEW kind \in Kinds, Request(c, kind)
      PROVE  UNCHANGED stage
  BY <1>3 DEF Request
<1>4. CASE AcceptCreate
  BY <1>1, <1>4 DEF AcceptCreate, CreateNamedPipe, Fresh
<1>5. CASE AcceptConnect
  BY <1>1, <1>5 DEF AcceptConnect, ConnectNamedPipe
<1>6. CASE ListenCheck \/ AcceptFront \/ AcceptPop \/ AcceptReturn \/ Spawn
  BY <1>6 DEF ListenCheck, AcceptFront, AcceptPop, AcceptReturn, Spawn, pipeVars
<1>7. ASSUME NEW k \in Instances, Worker(k)
      PROVE  stage'[h] = stage[h] \/ stage'[h] = "closed"
  BY <1>1, <1>7 DEF Worker, WorkerCheck, Recv, Dispatch, Await, Reply,
                    WorkerCloseCheck, WorkerCloseSet, WorkerCloseHandle,
                    CloseServerEnd, pipeVars
<1>8. CASE Collector
  BY <1>1, <1>8 DEF Collector, CollectorCheck, CollectorPop, CollectorCloseCheck,
                    CollectorCloseSet, CollectorCloseHandle, CloseServerEnd, pipeVars
<1>9. CASE QuitPop \/ QuitOpen \/ QuitShut
  BY <1>1, <1>9 DEF QuitPop, QuitOpen, QuitShut, DisconnectNamedPipe, CreateFile,
                    CloseClientEnd, Listening
<1>10. CASE \/ RunCallback \/ BeginQuit \/ QuitSize \/ QuitFront
            \/ QuitStopListener \/ QuitJoinListener \/ QuitPush
            \/ QuitStopCollector \/ QuitJoinCollector \/ QuitStopWorker
            \/ QuitJoinWorker
  BY <1>10 DEF RunCallback, BeginQuit, QuitSize, QuitFront, QuitStopListener,
               QuitJoinListener, QuitPush, QuitStopCollector, QuitJoinCollector,
               QuitStopWorker, QuitJoinWorker, pipeVars
<1> QED
  BY <1>2, <1>3, <1>4, <1>5, <1>6, <1>7, <1>8, <1>9, <1>10
  DEF Next, Client, Listener, Quit

\* Only the listener's own steps and the pop of listener.close() touch what
\* accept works with.
LEMMA AcceptSteps ==
  ASSUME Next
  PROVE  \/ Listener \/ QuitPop
         \/ UNCHANGED <<handles, listener, accepting, tracked>>
<1>1. ASSUME NEW c \in Clients, Client(c)
      PROVE  UNCHANGED <<handles, listener, accepting, tracked>>
  BY <1>1 DEF Client, Open, HangUp, Request, listenerVars
<1>2. ASSUME NEW k \in Instances, Worker(k)
      PROVE  UNCHANGED <<handles, listener, accepting, tracked>>
  BY <1>2 DEF Worker, WorkerCheck, Recv, Dispatch, Await, Reply, WorkerCloseCheck,
              WorkerCloseSet, WorkerCloseHandle, listenerVars
<1>3. CASE Collector
  BY <1>3 DEF Collector, CollectorCheck, CollectorPop, CollectorCloseCheck,
              CollectorCloseSet, CollectorCloseHandle, listenerVars
<1>4. CASE RunCallback \/ BeginQuit \/ Quit
  BY <1>4 DEF RunCallback, BeginQuit, Quit, QuitSize, QuitFront, QuitStopListener,
              QuitOpen, QuitShut, QuitJoinListener, QuitPush, QuitStopCollector,
              QuitJoinCollector, QuitStopWorker, QuitJoinWorker, listenerVars
<1> QED
  BY <1>1, <1>2, <1>3, <1>4 DEF Next

-----------------------------------------------------------------------------
\* The deque accept and listener.close() share

LEMMA InitAcceptInv == Init => AcceptInv
BY FirstIsInstance, Handles DEF Init, PipeInit, AcceptInv, InHandles

\* What is true of an instance that is not touched stays true: an instance
\* that has been created stays created, and has no worker as long as accept
\* has not handed it over.
LEMMA Untouched ==
  ASSUME TypeOK, Next, ~Spawn,
         NEW h \in Instances, stage[h] # "none", worker[h] = "none"
  PROVE  stage'[h] # "none" /\ worker'[h] = "none"
BY StageSteps, WorkerSteps DEF TypeOK, PipeTypeOK

\* A pop from the front keeps the deque in order, and what was at the front
\* is gone.
LEMMA PopFront ==
  ASSUME TypeOK, AcceptInv, Next, ~Spawn, handles # <<>>, handles' = Tail(handles)
  PROVE  /\ \A m, n \in 1..Len(handles') :
              handles'[m] = handles'[n] /\ handles'[m] # NoHandle => m = n
         /\ \A n \in 1..Len(handles') :
              handles'[n] # NoHandle =>
                stage'[handles'[n]] # "none" /\ worker'[handles'[n]] = "none"
         /\ \A h \in Instances : InHandles(h)' => InHandles(h) /\ h # Head(handles)
<1>1. /\ Len(handles') = Len(handles) - 1 /\ Len(handles) \in Nat \ {0}
      /\ \A n \in 1..Len(handles') : handles'[n] = handles[n + 1]
      /\ Head(handles) = handles[1]
  BY TailElements DEF TypeOK
<1>2. \A n \in 1..Len(handles) : handles[n] # NoHandle => handles[n] \in Instances
  BY Handles DEF TypeOK
<1>3. /\ \A m, n \in 1..Len(handles) :
           handles[m] = handles[n] /\ handles[m] # NoHandle => m = n
      /\ \A n \in 1..Len(handles) :
           handles[n] # NoHandle =>
             stage[handles[n]] # "none" /\ worker[handles[n]] = "none"
  BY DEF AcceptInv
<1>4. \A n \in 1..Len(handles') : n + 1 \in 1..Len(handles) /\ n + 1 # 1
  BY <1>1
<1>5. \A m, n \in 1..Len(handles') :
        handles'[m] = handles'[n] /\ handles'[m] # NoHandle => m = n
  BY <1>1, <1>3, <1>4
<1>6. ASSUME NEW n \in 1..Len(handles'), handles'[n] # NoHandle
      PROVE  stage'[handles'[n]] # "none" /\ worker'[handles'[n]] = "none"
  BY <1>1, <1>2, <1>3, <1>4, <1>6, Untouched
<1>7. ASSUME NEW h \in Instances, InHandles(h)'
      PROVE  InHandles(h) /\ h # Head(handles)
  <2>1. PICK n \in 1..Len(handles') : handles'[n] = h
    BY <1>7 DEF InHandles
  <2>2. n + 1 \in 1..Len(handles) /\ handles[n + 1] = h /\ n + 1 # 1
    BY <1>1, <1>4, <2>1
  <2>3. 1 \in 1..Len(handles)
    BY <1>1
  <2> QED
    BY <1>1, <1>3, <2>2, <2>3, Handles DEF InHandles
<1> QED
  BY <1>5, <1>6, <1>7

LEMMA ListenerAcceptInv ==
  ASSUME TypeOK, AcceptInv, TrackedInv, Next, Listener
  PROVE  AcceptInv'
<1>1. handles \in Seq(Handle) /\ accepting \in Handle
  BY DEF TypeOK
<1>2. \A n \in 1..Len(handles) : handles[n] # NoHandle => handles[n] \in Instances
  BY <1>1, Handles
<1>3. CASE ListenCheck
  BY <1>3 DEF ListenCheck, ListenerGoto, AcceptInv, InHandles, pipeVars, workerVars
<1>4. CASE AcceptCreate
  <2>1. PICK e \in Handle :
          /\ handles' = Append(handles, e)
          /\ e # NoHandle => stage[e] = "none" /\ stage'[e] # "none"
    BY <1>4, Handles DEF AcceptCreate, CreateNamedPipe, Fresh, TypeOK, PipeTypeOK
  <2>2. /\ Len(handles') = Len(handles) + 1 /\ Len(handles) \in Nat
        /\ \A n \in 1..Len(handles) : handles'[n] = handles[n]
        /\ handles'[Len(handles) + 1] = e
    BY <1>1, <2>1, AppendElements
  <2>3. /\ listener' = "front" /\ accepting = NoHandle /\ accepting' = NoHandle
        /\ UNCHANGED worker /\ ~Spawn
    BY <1>4 DEF AcceptCreate, AcceptInv, ListenerGoto, workerVars, Spawn
  <2>4. e # NoHandle => e \in Instances /\ worker[e] = "none"
    BY <2>1, Handles DEF TrackedInv
  <2>5. \A n \in 1..Len(handles) : handles[n] # NoHandle => handles[n] # e
    BY <2>1 DEF AcceptInv
  <2>6. \A m, n \in 1..Len(handles') :
          handles'[m] = handles'[n] /\ handles'[m] # NoHandle => m = n
    <3>1. \A n \in 1..Len(handles') : n \in 1..Len(handles) \/ n = Len(handles) + 1
      BY <2>2
    <3> QED
      BY <2>2, <2>5, <3>1 DEF AcceptInv
  <2>7. ASSUME NEW n \in 1..Len(handles'), handles'[n] # NoHandle
        PROVE  stage'[handles'[n]] # "none" /\ worker'[handles'[n]] = "none"
    <3>1. n \in 1..Len(handles) \/ n = Len(handles) + 1
      BY <2>2
    <3>2. CASE n = Len(handles) + 1
      BY <2>1, <2>2, <2>3, <2>4, <2>7, <3>2
    <3>3. CASE n \in 1..Len(handles)
      BY <1>2, <2>2, <2>3, <2>7, <3>3, Untouched DEF AcceptInv
    <3> QED
      BY <3>1, <3>2, <3>3
  <2> QED
    BY <2>3, <2>6, <2>7 DEF AcceptInv
<1>5. CASE AcceptFront
  <2>1. CASE handles = <<>>
    BY <1>5, <2>1 DEF AcceptFront, AcceptInv, InHandles, pipeVars, workerVars
  <2>2. CASE handles # <<>>
    <3>1. /\ accepting' = Head(handles) /\ listener' = "pop"
          /\ UNCHANGED <<handles, stage, worker>>
      BY <1>5, <2>2 DEF AcceptFront, ListenerGoto, pipeVars, workerVars
    <3>2. 1 \in 1..Len(handles) /\ Head(handles) = handles[1]
      BY <1>1, <2>2, TailElements
    <3> QED
      BY <3>1, <3>2 DEF AcceptInv
  <2> QED
    BY <2>1, <2>2
<1>6. CASE AcceptPop
  <2>1. CASE handles = <<>>
    BY <1>6, <2>1 DEF AcceptPop, AcceptInv, InHandles, pipeVars, workerVars
  <2>2. CASE handles # <<>>
    <3>1. /\ handles' = Tail(handles) /\ listener = "pop" /\ listener' = "connect"
          /\ UNCHANGED <<accepting, stage, worker>> /\ ~Spawn
      BY <1>6, <2>2 DEF AcceptPop, ListenerGoto, pipeVars, workerVars, Spawn
    <3>2. accepting # NoHandle => ~InHandles(accepting)'
      BY <1>1, <2>2, <3>1, PopFront, Handles DEF AcceptInv
    <3> QED
      BY <2>2, <3>1, <3>2, PopFront DEF AcceptInv
  <2> QED
    BY <2>1, <2>2
<1>7. CASE AcceptConnect
  <2>1. /\ UNCHANGED <<handles, worker>> /\ ~Spawn
        /\ \/ listener' = "wait" /\ UNCHANGED accepting /\ accepting # NoHandle
           \/ listener' = "exited" /\ accepting' = NoHandle
        /\ listener = "connect"
    BY <1>7 DEF AcceptConnect, ListenerGoto, workerVars, Spawn
  <2>2. \A h \in Instances : stage[h] # "none" /\ worker[h] = "none" => stage'[h] # "none"
    BY <2>1, Untouched
  <2> QED
    BY <1>1, <1>2, <2>1, <2>2, Handles DEF AcceptInv, InHandles
<1>8. CASE AcceptReturn
  BY <1>8 DEF AcceptReturn, ListenerGoto, AcceptInv, InHandles, pipeVars, workerVars
<1>9. CASE Spawn
  <2>1. /\ listener' = "check" /\ accepting' = NoHandle
        /\ UNCHANGED <<handles, stage>>
        /\ worker' = [worker EXCEPT ![accepting] = "check"]
    BY <1>9 DEF Spawn, ListenerGoto, pipeVars
  <2>2. \A n \in 1..Len(handles) : handles[n] # NoHandle => handles[n] # accepting
    BY <1>9 DEF Spawn, AcceptInv, InHandles
  <2>3. \A n \in 1..Len(handles) :
          handles[n] # NoHandle => worker'[handles[n]] = worker[handles[n]]
    BY <1>2, <2>1, <2>2 DEF TypeOK
  <2> QED
    BY <2>1, <2>3 DEF AcceptInv
<1> QED
  BY <1>3, <1>4, <1>5, <1>6, <1>7, <1>8, <1>9 DEF Listener

LEMMA NextAcceptInv ==
  ASSUME TypeOK, AcceptInv, TrackedInv, Next
  PROVE  AcceptInv'
<1>1. handles \in Seq(Handle) /\ accepting \in Handle
  BY DEF TypeOK
<1>2. CASE QuitPop /\ handles # <<>>
  <2>1. /\ handles' = Tail(handles) /\ UNCHANGED <<listener, accepting>> /\ ~Spawn
    BY <1>2 DEF QuitPop, listenerVars, Spawn
  <2>2. /\ accepting # NoHandle =>
             /\ stage'[accepting] # "none" /\ worker'[accepting] = "none"
             /\ InHandles(accepting)' =>
                  InHandles(accepting) /\ accepting # Head(handles)
    BY <1>1, <1>2, <2>1, PopFront, Untouched, Handles DEF AcceptInv
  <2> QED
    BY <1>2, <2>1, <2>2, PopFront DEF AcceptInv
<1>3. CASE /\ UNCHANGED <<handles, listener, accepting>> /\ ~Spawn
  <2>1. \A h \in Instances : stage[h] # "none" /\ worker[h] = "none" =>
                               stage'[h] # "none" /\ worker'[h] = "none"
    BY <1>3, Untouched
  <2>2. \A n \in 1..Len(handles) : handles[n] # NoHandle => handles[n] \in Instances
    BY <1>1, Handles
  <2>3. accepting # NoHandle => accepting \in Instances
    BY <1>1, Handles
  <2> QED
    BY <1>3, <2>1, <2>2, <2>3 DEF AcceptInv, InHandles
<1>4. QuitPop /\ handles = <<>> => UNCHANGED <<handles, listener, accepting>>
  BY DEF QuitPop, listenerVars
<1> QED
  BY <1>2, <1>3, <1>4, ListenerAcceptInv, AcceptSteps DEF Listener

-----------------------------------------------------------------------------
\* Workers and the vectors that track them

LEMMA InitTrackedInv == Init => TrackedInv /\ OneWorkerPerPipe
BY DEF Init, TrackedInv, OneWorkerPerPipe, InTracked

LEMMA TrackedSteps ==
  ASSUME Next
  PROVE  Spawn \/ UNCHANGED tracked
BY AcceptSteps DEF Listener, ListenCheck, AcceptCreate, AcceptFront, AcceptPop,
                   AcceptConnect, AcceptReturn, QuitPop, listenerVars

\* An instance that has a worker, or is about to get one, was opened by a
\* client, and no other client can open it.
LEMMA OpenedStaysOpened ==
  ASSUME TypeOK, AcceptInv, TrackedInv, Next
  PROVE  /\ \A h \in Instances :
              worker'[h] # "none" => stage'[h] \notin {"none", "listening"}
         /\ listener' = "spawn" => stage'[accepting'] \notin {"none", "listening"}
<1>1. ASSUME NEW h \in Instances, worker'[h] # "none"
      PROVE  stage'[h] \notin {"none", "listening"}
  <2>1. stage[h] \notin {"none", "listening"}
    BY <1>1, WorkerSteps DEF TrackedInv, Spawn
  <2>2. ~(AcceptConnect /\ h = accepting)
    BY <1>1, Handles DEF AcceptConnect, AcceptInv, workerVars
  <2> QED
    BY <2>1, <2>2, StageSteps
<1>2. ASSUME listener' = "spawn"
      PROVE  stage'[accepting'] \notin {"none", "listening"}
  <2>1. \/ listener = "spawn" /\ UNCHANGED accepting /\ ~Listener
        \/ AcceptReturn
    BY <1>2, AcceptSteps DEF Listener, ListenCheck, AcceptCreate, AcceptFront,
       AcceptPop, AcceptConnect, Spawn, QuitPop, ListenerGoto, listenerVars
  <2>2. CASE listener = "spawn" /\ UNCHANGED accepting /\ ~Listener
    <3>1. accepting \in Instances /\ stage[accepting] \notin {"none", "listening"}
      BY <2>2, Handles DEF AcceptInv, TrackedInv, TypeOK
    <3> QED
      BY <2>2, <3>1, StageSteps DEF Listener
  <2>3. CASE AcceptReturn
    BY <2>3 DEF AcceptReturn, AcceptInv, pipeVars
  <2> QED
    BY <2>1, <2>2, <2>3
<1> QED
  BY <1>1, <1>2

LEMMA NextTrackedInv ==
  ASSUME TypeOK, AcceptInv, TrackedInv, OneWorkerPerPipe, Next
  PROVE  TrackedInv' /\ OneWorkerPerPipe'
<1>1. CASE Spawn
  <2>1. accepting \in Instances /\ worker[accepting] = "none"
    BY <1>1, Handles DEF Spawn, AcceptInv, TypeOK
  <2>2. tracked \in Seq(Instances)
    BY DEF TypeOK
  <2>3. tracked' = Append(tracked, accepting)
    BY <1>1 DEF Spawn
  <2>4. /\ Len(tracked') = Len(tracked) + 1 /\ Len(tracked) \in Nat
        /\ \A n \in 1..Len(tracked) : tracked'[n] = tracked[n]
        /\ tracked'[Len(tracked) + 1] = accepting
    BY <2>1, <2>2, <2>3, AppendElements
  <2>5. \A n \in 1..Len(tracked') : n \in 1..Len(tracked) \/ n = Len(tracked) + 1
    BY <2>4
  <2>6. ~InTracked(accepting)
    BY <2>1 DEF TrackedInv
  <2>7. \A h \in Instances : InTracked(h)' <=> InTracked(h) \/ h = accepting
    BY <2>4, <2>5 DEF InTracked
  <2>8. \A h \in Instances :
          worker'[h] = IF h = accepting THEN "check" ELSE worker[h]
    BY <1>1 DEF Spawn, TypeOK
  <2>9. \A h \in Instances : worker'[h] # "none" <=> InTracked(h)'
    BY <2>7, <2>8 DEF TrackedInv
  <2>10. OneWorkerPerPipe'
    BY <2>4, <2>5, <2>6 DEF OneWorkerPerPipe, InTracked
  <2> QED
    BY <2>9, <2>10, OpenedStaysOpened DEF TrackedInv
<1>2. CASE UNCHANGED tracked /\ ~Spawn
  <2>1. \A h \in Instances : worker'[h] # "none" <=> worker[h] # "none"
    BY <1>2, WorkerSteps
  <2>2. \A h \in Instances : worker'[h] # "none" <=> InTracked(h)'
    BY <1>2, <2>1 DEF TrackedInv, InTracked
  <2>3. OneWorkerPerPipe'
    BY <1>2 DEF OneWorkerPerPipe
  <2> QED
    BY <2>2, <2>3, OpenedStaysOpened DEF TrackedInv
<1> QED
  BY <1>1, <1>2, TrackedSteps

-----------------------------------------------------------------------------
\* The lambdas in the hands of the main thread

LEMMA InitCallbackAlive == Init => CallbackAlive
BY DEF Init, CallbackAlive

\* The queue of lambdas changes when a worker adds its own and when the first
\* is run; a worker leaves its wait only when its event is set.
LEMMA CallbackSteps ==
  ASSUME TypeOK, AcceptInv, Next
  PROVE  \/ \E h \in Instances :
              /\ worker[h] = "dispatch" /\ worker' = [worker EXCEPT ![h] = "await"]
              /\ callbacks' = Append(callbacks, h) /\ ready' = ready \ {h}
         \/ RunCallback
         \/ /\ UNCHANGED <<callbacks, ready>>
            /\ \A h \in Instances :
                 worker[h] = "await" /\ h \notin ready => worker'[h] = "await"
<1> DEFINE Same == /\ UNCHANGED <<callbacks, ready>>
                   /\ \A h \in Instances :
                        worker[h] = "await" /\ h \notin ready => worker'[h] = "await"
<1>1. ASSUME NEW c \in Clients, Client(c) PROVE Same
  BY <1>1 DEF Client, Open, HangUp, Request, workerVars
<1>2. CASE Listener
  <2>1. CASE Spawn
    <3>1. worker[accepting] # "await"
      BY <2>1 DEF Spawn, AcceptInv
    <3> QED
      BY <2>1, <3>1 DEF Spawn, TypeOK
  <2> QED
    BY <1>2, <2>1 DEF Listener, ListenCheck, AcceptCreate, AcceptFront, AcceptPop,
                      AcceptConnect, AcceptReturn, workerVars
<1>3. ASSUME NEW k \in Instances, Worker(k)
      PROVE  \/ /\ worker[k] = "dispatch" /\ worker' = [worker EXCEPT ![k] = "await"]
                /\ callbacks' = Append(callbacks, k) /\ ready' = ready \ {k}
             \/ Same
  <2>1. CASE Dispatch(k)
    BY <2>1 DEF Dispatch, WorkerGoto, TypeOK
  <2>2. CASE Await(k)
    BY <2>2 DEF Await, WorkerGoto, TypeOK
  <2>3. CASE \/ WorkerCheck(k) \/ Recv(k) \/ Reply(k) \/ WorkerCloseCheck(k)
             \/ WorkerCloseSet(k) \/ WorkerCloseHandle(k)
    <3>1. /\ UNCHANGED <<callbacks, ready>> /\ worker[k] # "await"
          /\ \E pc \in WorkerPcs : worker' = [worker EXCEPT ![k] = pc]
      BY <2>3 DEF WorkerCheck, Recv, Reply, WorkerCloseCheck, WorkerCloseSet,
                  WorkerCloseHandle, WorkerGoto, WorkerPcs
    <3> QED
      BY <3>1 DEF TypeOK
  <2> QED
    BY <1>3, <2>1, <2>2, <2>3 DEF Worker
<1>4. CASE Collector
  BY <1>4 DEF Collector, CollectorCheck, CollectorPop, CollectorCloseCheck,
              CollectorCloseSet, CollectorCloseHandle, workerVars
<1>5. CASE BeginQuit \/ Quit
  BY <1>5 DEF BeginQuit, Quit, QuitSize, QuitFront, QuitPop, QuitStopListener,
              QuitOpen, QuitShut, QuitJoinListener, QuitPush, QuitStopCollector,
              QuitJoinCollector, QuitStopWorker, QuitJoinWorker, workerVars
<1> QED
  BY <1>1, <1>2, <1>3, <1>4, <1>5 DEF Next

\* A worker queues its lambda when it is in none of the queue's places, and
\* then waits; the lambda that is run leaves the queue with the set of the event.
LEMMA NextCallbackAlive ==
  ASSUME TypeOK, AcceptInv, CallbackAlive, Next
  PROVE  CallbackAlive'
<1>1. callbacks \in Seq(Instances)
  BY DEF TypeOK
<1>2. \A n \in 1..Len(callbacks) : callbacks[n] \in Instances
  BY <1>1
<1>3. ASSUME NEW h \in Instances, worker[h] = "dispatch",
             worker' = [worker EXCEPT ![h] = "await"],
             callbacks' = Append(callbacks, h), ready' = ready \ {h}
      PROVE  CallbackAlive'
  <2>1. /\ Len(callbacks') = Len(callbacks) + 1 /\ Len(callbacks) \in Nat
        /\ \A n \in 1..Len(callbacks) : callbacks'[n] = callbacks[n]
        /\ callbacks'[Len(callbacks) + 1] = h
    BY <1>1, <1>3, AppendElements
  <2>2. \A n \in 1..Len(callbacks') :
          n \in 1..Len(callbacks) \/ n = Len(callbacks) + 1
    BY <2>1
  <2>3. \A n \in 1..Len(callbacks) : callbacks[n] # h
    BY <1>3 DEF CallbackAlive
  <2>4. \A k \in Instances : worker'[k] = IF k = h THEN "await" ELSE worker[k]
    BY <1>3 DEF TypeOK
  <2>5. ASSUME NEW n \in 1..Len(callbacks')
        PROVE  worker'[callbacks'[n]] = "await" /\ callbacks'[n] \notin ready'
    BY <1>2, <1>3, <2>1, <2>2, <2>4 DEF CallbackAlive
  <2>6. \A m, n \in 1..Len(callbacks') : callbacks'[m] = callbacks'[n] => m = n
    BY <2>1, <2>2, <2>3 DEF CallbackAlive
  <2> QED
    BY <2>5, <2>6 DEF CallbackAlive
<1>4. CASE RunCallback
  <2>1. /\ callbacks # <<>> /\ callbacks' = Tail(callbacks)
        /\ ready' = ready \cup {Head(callbacks)} /\ UNCHANGED worker
    BY <1>4 DEF RunCallback
  <2>2. /\ Len(callbacks') = Len(callbacks) - 1 /\ Len(callbacks) \in Nat \ {0}
        /\ \A n \in 1..Len(callbacks') : callbacks'[n] = callbacks[n + 1]
        /\ Head(callbacks) = callbacks[1]
    BY <1>1, <2>1, TailElements
  <2>3. \A n \in 1..Len(callbacks') :
          n + 1 \in 1..Len(callbacks) /\ n + 1 # 1 /\ 1 \in 1..Len(callbacks)
    BY <2>2
  <2>4. ASSUME NEW n \in 1..Len(callbacks')
        PROVE  worker'[callbacks'[n]] = "await" /\ callbacks'[n] \notin ready'
    BY <2>1, <2>2, <2>3 DEF CallbackAlive
  <2>5. \A m, n \in 1..Len(callbacks') : callbacks'[m] = callbacks'[n] => m = n
    BY <2>2, <2>3 DEF CallbackAlive
  <2> QED
    BY <2>4, <2>5 DEF CallbackAlive
<1>5. CASE /\ UNCHANGED <<callbacks, ready>>
           /\ \A h \in Instances :
                worker[h] = "await" /\ h \notin ready => worker'[h] = "await"
  BY <1>2, <1>5 DEF CallbackAlive
<1> QED
  BY <1>3, <1>4, <1>5, CallbackSteps

-----------------------------------------------------------------------------
\* What on_quit waits for

LEMMA InitJoinInv == Init => JoinInv
BY DEF Init, JoinInv, AfterJoin

LEMMA MainSteps ==
  ASSUME Next
  PROVE  BeginQuit \/ Quit \/ UNCHANGED mainVars
<1>1. ASSUME NEW c \in Clients, Client(c) PROVE UNCHANGED mainVars
  BY <1>1 DEF Client, Open, HangUp, Request
<1>2. CASE Listener
  BY <1>2 DEF Listener, ListenCheck, AcceptCreate, AcceptFront, AcceptPop,
              AcceptConnect, AcceptReturn, Spawn
<1>3. ASSUME NEW k \in Instances, Worker(k) PROVE UNCHANGED mainVars
  BY <1>3 DEF Worker, WorkerCheck, Recv, Dispatch, Await, Reply, WorkerCloseCheck,
              WorkerCloseSet, WorkerCloseHandle
<1>4. CASE Collector \/ RunCallback
  BY <1>4 DEF Collector, CollectorCheck, CollectorPop, CollectorCloseCheck,
              CollectorCloseSet, CollectorCloseHandle, RunCallback
<1> QED
  BY <1>1, <1>2, <1>3, <1>4 DEF Next

LEMMA CollectorSteps ==
  ASSUME Next
  PROVE  Collector \/ UNCHANGED <<collector, collecting>>
<1>1. ASSUME NEW c \in Clients, Client(c) PROVE UNCHANGED collectorVars
  BY <1>1 DEF Client, Open, HangUp, Request
<1>2. CASE Listener
  BY <1>2 DEF Listener, ListenCheck, AcceptCreate, AcceptFront, AcceptPop,
              AcceptConnect, AcceptReturn, Spawn, collectorVars
<1>3. ASSUME NEW k \in Instances, Worker(k) PROVE UNCHANGED collectorVars
  BY <1>3 DEF Worker, WorkerCheck, Recv, Dispatch, Await, Reply, WorkerCloseCheck,
              WorkerCloseSet, WorkerCloseHandle
<1>4. CASE RunCallback \/ BeginQuit \/ Quit
  BY <1>4 DEF RunCallback, BeginQuit, Quit, QuitSize, QuitFront, QuitPop,
              QuitStopListener, QuitOpen, QuitShut, QuitJoinListener, QuitPush,
              QuitStopCollector, QuitJoinCollector, QuitStopWorker,
              QuitJoinWorker, collectorVars
<1> QED
  BY <1>1, <1>2, <1>3, <1>4 DEF Next, collectorVars

\* What has ended stays so.
LEMMA EndedStaysEnded ==
  ASSUME TypeOK, AcceptInv, Next
  PROVE  /\ listener = "exited" => listener' = "exited" /\ UNCHANGED tracked
         /\ collector = "exited" => collector' = "exited"
         /\ \A h \in Instances : worker[h] = "exited" => worker'[h] = "exited"
<1>1. listener = "exited" => ~Listener
  BY DEF Listener, ListenCheck, AcceptCreate, AcceptFront, AcceptPop,
         AcceptConnect, AcceptReturn, Spawn
<1>2. listener = "exited" => listener' = "exited" /\ UNCHANGED tracked
  BY <1>1, AcceptSteps DEF QuitPop, listenerVars
<1>3. collector = "exited" => ~Collector
  BY DEF Collector, CollectorCheck, CollectorPop, CollectorCloseCheck,
         CollectorCloseSet, CollectorCloseHandle
<1>4. \A h \in Instances : worker[h] = "exited" => worker'[h] = "exited"
  BY WorkerSteps DEF Spawn, AcceptInv
<1> QED
  BY <1>2, <1>3, <1>4, CollectorSteps

LEMMA NextJoinInv ==
  ASSUME TypeOK, AcceptInv, JoinInv, Next
  PROVE  JoinInv'
<1>1. collector' \in {"close", "closeSet", "closeHandle"} => collecting' # NoHandle
  BY CollectorSteps DEF Collector, CollectorCheck, CollectorPop,
     CollectorCloseCheck, CollectorCloseSet, CollectorCloseHandle, CollectorGoto,
     JoinInv
<1>2. main' \in AfterJoin => listener' = "exited"
  <2>1. main' \in AfterJoin => main \in AfterJoin \/ listener = "exited"
    BY MainSteps DEF BeginQuit, Quit, QuitSize, QuitFront, QuitPop,
       QuitStopListener, QuitOpen, QuitShut, QuitJoinListener, QuitPush,
       QuitStopCollector, QuitJoinCollector, QuitStopWorker, QuitJoinWorker,
       MainGoto, mainVars, AfterJoin
  <2> QED
    BY <2>1, EndedStaysEnded DEF JoinInv
<1>3. main' \in {"stopCollector", "joinCollector"} => index' = 1
  BY MainSteps DEF BeginQuit, Quit, QuitSize, QuitFront, QuitPop,
     QuitStopListener, QuitOpen, QuitShut, QuitJoinListener, QuitPush,
     QuitStopCollector, QuitJoinCollector, QuitStopWorker, QuitJoinWorker,
     MainGoto, mainVars, JoinInv
<1>4. main' = "joinWorker" => index' <= Len(tracked')
  <2>1. main' = "joinWorker" =>
          \/ main = "joinWorker" /\ UNCHANGED index
          \/ QuitStopWorker
    BY MainSteps DEF BeginQuit, Quit, QuitSize, QuitFront, QuitPop,
       QuitStopListener, QuitOpen, QuitShut, QuitJoinListener, QuitPush,
       QuitStopCollector, QuitJoinCollector, QuitJoinWorker, MainGoto, mainVars
  <2> QED
    BY <2>1, EndedStaysEnded DEF JoinInv, QuitStopWorker, MainGoto, AfterJoin
<1>5. main' = "done" => index' > Len(tracked')
  <2>1. main' = "done" =>
          \/ main = "done" /\ UNCHANGED index
          \/ QuitStopWorker
    BY MainSteps DEF BeginQuit, Quit, QuitSize, QuitFront, QuitPop,
       QuitStopListener, QuitOpen, QuitShut, QuitJoinListener, QuitPush,
       QuitStopCollector, QuitJoinCollector, QuitJoinWorker, MainGoto, mainVars
  <2> QED
    BY <2>1, EndedStaysEnded DEF JoinInv, QuitStopWorker, MainGoto, AfterJoin
<1>6. ASSUME main' \in {"stopWorker", "joinWorker", "done"}
      PROVE  /\ collector' = "exited"
             /\ \A n \in 1..Len(tracked') :
                  n < index' => worker'[tracked'[n]] = "exited"
  <2>1. \/ /\ main \in {"stopWorker", "joinWorker", "done"}
           /\ UNCHANGED index
        \/ QuitJoinWorker
        \/ QuitJoinCollector
    BY <1>6, MainSteps DEF BeginQuit, Quit, QuitSize, QuitFront, QuitPop,
       QuitStopListener, QuitOpen, QuitShut, QuitJoinListener, QuitPush,
       QuitStopCollector, QuitStopWorker, MainGoto, mainVars
  <2>2. main \in AfterJoin /\ UNCHANGED tracked
    BY <2>1, EndedStaysEnded DEF JoinInv, AfterJoin, QuitJoinWorker, QuitJoinCollector
  <2>3. /\ index \in Nat
        /\ \A n \in 1..Len(tracked) : tracked[n] \in Instances
    BY DEF TypeOK
  <2>4. CASE /\ main \in {"stopWorker", "joinWorker", "done"}
             /\ UNCHANGED index
    BY <2>2, <2>3, <2>4, EndedStaysEnded DEF JoinInv
  <2>5. CASE QuitJoinWorker
    <3>1. /\ main = "joinWorker" /\ index' = index + 1
          /\ worker[tracked[index]] = "exited"
      BY <2>5 DEF QuitJoinWorker
    <3>2. \A n \in 1..Len(tracked) : n < index + 1 => n < index \/ n = index
      BY <2>3
    <3> QED
      BY <2>2, <2>3, <3>1, <3>2, EndedStaysEnded DEF JoinInv
  <2>6. CASE QuitJoinCollector
    <3>1. index' = 1 /\ collector = "exited"
      BY <2>6 DEF QuitJoinCollector, JoinInv
    <3> QED
      BY <3>1, EndedStaysEnded
  <2> QED
    BY <2>1, <2>4, <2>5, <2>6
<1> QED
  BY <1>1, <1>2, <1>3, <1>4, <1>5, <1>6 DEF JoinInv

-----------------------------------------------------------------------------
\* What accept finds in the deque

LEMMA InitDequeInv == Init => DequeInv
BY DEF Init, DequeInv

LEMMA ListenerDequeInv ==
  ASSUME TypeOK, DequeInv, JoinInv, Next, Listener
  PROVE  DequeInv'
<1>1. /\ handles \in Seq(Handle) /\ Len(handles) \in Nat
      /\ handles # <<>> <=> Len(handles) # 0
      /\ ~undefined /\ main \in BeforeJoin \cup AfterJoin
  BY DEF TypeOK, Next
<1>2. main' = main
  BY DEF Listener, ListenCheck, AcceptCreate, AcceptFront, AcceptPop,
         AcceptConnect, AcceptReturn, Spawn, mainVars
<1>3. listener # "exited"
  BY DEF Listener, ListenCheck, AcceptCreate, AcceptFront, AcceptPop,
         AcceptConnect, AcceptReturn, Spawn
<1>4. main \in BeforeJoin
  BY <1>1, <1>3 DEF JoinInv
<1>5. main = "running" =>
        Len(handles) = IF listener \in {"front", "pop"} THEN 2 ELSE 1
  BY DEF DequeInv
<1>6. CASE AcceptCreate
  <2>1. PICK e \in Handle : handles' = Append(handles, e)
    BY <1>6, Handles DEF AcceptCreate
  <2>2. Len(handles') = Len(handles) + 1
    BY <1>1, <2>1, AppendElements
  <2>3. listener = "create" /\ listener' = "front" /\ ~undefined'
    BY <1>1, <1>6 DEF AcceptCreate, ListenerGoto
  <2>4. main = "running" => Len(handles') = 2
    BY <1>1, <1>5, <2>2, <2>3
  <2> QED
    BY <1>2, <2>3, <2>4 DEF DequeInv
<1>7. CASE AcceptFront
  <2>1. listener = "front" /\ UNCHANGED handles
    BY <1>7 DEF AcceptFront
  <2>2. listener' \in {"front", "pop"}
    BY <1>7 DEF AcceptFront, ListenerGoto
  <2>3. undefined' => handles = <<>>
    BY <1>1, <1>7 DEF AcceptFront
  <2> QED
    BY <1>1, <1>2, <1>4, <1>5, <2>1, <2>2, <2>3 DEF DequeInv
<1>8. CASE AcceptPop
  <2>1. CASE handles = <<>>
    BY <1>1, <1>2, <1>4, <1>5, <1>8, <2>1 DEF AcceptPop, DequeInv
  <2>2. CASE handles # <<>>
    <3>1. /\ handles' = Tail(handles) /\ listener = "pop" /\ listener' = "connect"
          /\ undefined' = undefined
      BY <1>8, <2>2 DEF AcceptPop, ListenerGoto
    <3>2. Len(handles') = Len(handles) - 1
      BY <1>1, <2>2, <3>1, TailElements
    <3> QED
      BY <1>1, <1>2, <1>5, <3>1, <3>2 DEF DequeInv
  <2> QED
    BY <2>1, <2>2
<1>9. CASE ListenCheck \/ AcceptConnect \/ AcceptReturn \/ Spawn
  <2>1. UNCHANGED <<handles, undefined>>
    BY <1>9 DEF ListenCheck, AcceptConnect, AcceptReturn, Spawn
  <2>2. listener \notin {"front", "pop"} /\ listener' \notin {"front", "pop"}
    BY <1>9 DEF ListenCheck, AcceptConnect, AcceptReturn, Spawn, ListenerGoto
  <2> QED
    BY <1>1, <1>2, <1>5, <2>1, <2>2 DEF DequeInv
<1> QED
  BY <1>6, <1>7, <1>8, <1>9 DEF Listener

\* Nobody else takes from the deque before on_quit has begun.
LEMMA NextDequeInv ==
  ASSUME TypeOK, DequeInv, JoinInv, Next
  PROVE  DequeInv'
<1>1. ~undefined
  BY DEF Next
<1>2. CASE Listener
  BY <1>2, ListenerDequeInv
<1>3. CASE ~Listener /\ ~QuitPop
  <2>1. UNCHANGED <<handles, listener>>
    BY <1>3, AcceptSteps
  <2>2. main' = "running" => main = "running"
    BY MainSteps DEF BeginQuit, Quit, QuitSize, QuitFront, QuitPop,
       QuitStopListener, QuitOpen, QuitShut, QuitJoinListener, QuitPush,
       QuitStopCollector, QuitJoinCollector, QuitStopWorker, QuitJoinWorker,
       MainGoto, mainVars
  <2>3. undefined' => QuitFront
    <3>1. ASSUME NEW c \in Clients, Client(c) PROVE UNCHANGED undefined
      BY <3>1 DEF Client, Open, HangUp, Request
    <3>2. ASSUME NEW k \in Instances, Worker(k) PROVE UNCHANGED undefined
      BY <3>2 DEF Worker, WorkerCheck, Recv, Dispatch, Await, Reply, WorkerCloseCheck,
                  WorkerCloseSet, WorkerCloseHandle
    <3>3. Collector => UNCHANGED undefined
      BY DEF Collector, CollectorCheck, CollectorPop, CollectorCloseCheck,
             CollectorCloseSet, CollectorCloseHandle
    <3>4. RunCallback \/ BeginQuit \/ (Quit /\ ~QuitFront) => UNCHANGED undefined
      BY <1>3 DEF RunCallback, BeginQuit, Quit, QuitSize, QuitPop,
         QuitStopListener, QuitOpen, QuitShut, QuitJoinListener, QuitPush,
         QuitStopCollector, QuitJoinCollector, QuitStopWorker, QuitJoinWorker
    <3> QED
      BY <1>1, <1>3, <3>1, <3>2, <3>3, <3>4 DEF Next
  <2>4. QuitFront => main' \in BeforeJoin \ {"running"}
    BY DEF QuitFront, MainGoto, BeforeJoin
  <2> QED
    BY <2>1, <2>2, <2>3, <2>4 DEF DequeInv
<1>4. CASE QuitPop
  <2>1. main' \in BeforeJoin \ {"running"}
    BY <1>4 DEF QuitPop, MainGoto, BeforeJoin
  <2> QED
    BY <2>1 DEF DequeInv
<1> QED
  BY <1>2, <1>3, <1>4

-----------------------------------------------------------------------------
\* What goes over one instance

LEMMA InitTrafficInv == Init => TrafficInv
BY DEF Init, PipeInit, TrafficInv

NoTraffic(h) == /\ requests'[h] = requests[h]
                /\ nread'[h] = nread[h]
                /\ replies'[h] = replies[h]

\* The steps of a worker that neither read nor write a message
WorkerMoves(h) ==
  \/ worker'[h] = worker[h]
  \/ worker[h] = "none" /\ worker'[h] = "check"
  \/ worker[h] = "check" /\ worker'[h] = "recv"
  \/ worker[h] \in {"dispatch", "await"} /\ worker'[h] \in {"await", "reply"}
  \/ /\ worker[h] = "reply" /\ worker'[h] = "check"
     /\ stage[h] # "connected" /\ stage'[h] = stage[h]
  \/ worker[h] # "none" /\ worker'[h] \in {"close", "closeSet", "closeHandle", "exited"}

\* The client sends, the worker reads or writes a message, accept makes the
\* instance available again, or no message moves.
LEMMA TrafficSteps ==
  ASSUME TypeOK, AcceptInv, Next, NEW h \in Instances
  PROVE  \/ NoTraffic(h) /\ WorkerMoves(h)
         \/ /\ stage[h] = "connected" /\ stage'[h] = stage[h]
            /\ worker'[h] = worker[h]
            /\ \E kind \in Kinds : requests'[h] = Append(requests[h], kind)
            /\ nread'[h] = nread[h] /\ replies'[h] = replies[h]
         \/ /\ nread[h] < Len(requests[h]) /\ stage'[h] = stage[h]
            /\ worker[h] = "recv" /\ worker'[h] = "dispatch"
            /\ nread'[h] = nread[h] + 1
            /\ requests'[h] = requests[h] /\ replies'[h] = replies[h]
         \/ /\ stage[h] = "connected" /\ stage'[h] = stage[h]
            /\ worker[h] = "reply" /\ worker'[h] = "check"
            /\ replies'[h] = replies[h] + 1
            /\ requests'[h] = requests[h] /\ nread'[h] = nread[h]
         \/ /\ AcceptConnect /\ h = accepting /\ stage[h] = "disconnected"
            /\ worker[h] = "none" /\ worker'[h] = "none"
            /\ requests'[h] = <<>> /\ nread'[h] = nread[h] /\ replies'[h] = replies[h]
<1>1. /\ worker \in [Instances -> WorkerPcs] /\ stage \in [Instances -> Stages]
      /\ requests \in [Instances -> Seq(Kinds)]
      /\ nread \in [Instances -> Nat] /\ replies \in [Instances -> Nat]
  BY DEF TypeOK, PipeTypeOK
<1>2. ASSUME NEW c \in Clients, Open(c) \/ HangUp(c)
      PROVE  NoTraffic(h) /\ WorkerMoves(h)
  BY <1>2 DEF Open, HangUp, NoTraffic, WorkerMoves, traffic, workerVars
<1>3. ASSUME NEW c \in Clients, NEW kind \in Kinds, Request(c, kind)
      PROVE  \/ NoTraffic(h) /\ WorkerMoves(h)
             \/ /\ stage[h] = "connected" /\ stage'[h] = stage[h]
                /\ worker'[h] = worker[h]
                /\ requests'[h] = Append(requests[h], kind)
                /\ nread'[h] = nread[h] /\ replies'[h] = replies[h]
  BY <1>1, <1>3 DEF Request, NoTraffic, WorkerMoves, workerVars
<1>4. CASE AcceptConnect
  <2>1. CASE h = accepting /\ stage[h] = "disconnected"
    <3>1. worker[h] = "none" /\ UNCHANGED <<worker, nread, replies>>
      BY <1>4, <2>1, Handles DEF AcceptConnect, AcceptInv, workerVars
    <3>2. ConnectNamedPipe(h)
      BY <1>4, <2>1, Handles DEF AcceptConnect
    <3>3. requests'[h] = <<>>
      BY <1>1, <2>1, <3>2 DEF ConnectNamedPipe
    <3> QED
      BY <1>4, <2>1, <3>1, <3>3
  <2>2. CASE ~(h = accepting /\ stage[h] = "disconnected")
    <3>1. UNCHANGED <<worker, nread, replies>>
      BY <1>4 DEF AcceptConnect, workerVars
    <3>2. requests'[h] = requests[h]
      BY <1>1, <1>4, <2>2 DEF AcceptConnect, ConnectNamedPipe
    <3> QED
      BY <3>1, <3>2 DEF NoTraffic, WorkerMoves
  <2> QED
    BY <2>1, <2>2
<1>5. CASE Spawn
  <2>1. worker[accepting] = "none"
    BY <1>5 DEF Spawn, AcceptInv
  <2> QED
    BY <1>1, <1>5, <2>1 DEF Spawn, NoTraffic, WorkerMoves, pipeVars
<1>6. CASE ListenCheck \/ AcceptCreate \/ AcceptFront \/ AcceptPop \/ AcceptReturn
  BY <1>6 DEF ListenCheck, AcceptCreate, AcceptFront, AcceptPop, AcceptReturn,
              NoTraffic, WorkerMoves, traffic, pipeVars, workerVars
<1>7. ASSUME NEW k \in Instances, Recv(k)
      PROVE  \/ NoTraffic(h) /\ WorkerMoves(h)
             \/ /\ nread[h] < Len(requests[h]) /\ stage'[h] = stage[h]
                /\ worker[h] = "recv" /\ worker'[h] = "dispatch"
                /\ nread'[h] = nread[h] + 1
                /\ requests'[h] = requests[h] /\ replies'[h] = replies[h]
  BY <1>1, <1>7 DEF Recv, WorkerGoto, HasMessage, NoTraffic, WorkerMoves
<1>8. ASSUME NEW k \in Instances, Reply(k)
      PROVE  \/ NoTraffic(h) /\ WorkerMoves(h)
             \/ /\ stage[h] = "connected" /\ stage'[h] = stage[h]
                /\ worker[h] = "reply" /\ worker'[h] = "check"
                /\ replies'[h] = replies[h] + 1
                /\ requests'[h] = requests[h] /\ nread'[h] = nread[h]
  BY <1>1, <1>8 DEF Reply, WorkerGoto, NoTraffic, WorkerMoves
<1>9. ASSUME NEW k \in Instances,
             \/ WorkerCheck(k) \/ Dispatch(k) \/ Await(k) \/ WorkerCloseCheck(k)
             \/ WorkerCloseSet(k) \/ WorkerCloseHandle(k)
      PROVE  NoTraffic(h) /\ WorkerMoves(h)
  BY <1>1, <1>9 DEF WorkerCheck, Dispatch, Await, WorkerCloseCheck, WorkerCloseSet,
     WorkerCloseHandle, WorkerGoto, NoTraffic, WorkerMoves, traffic, pipeVars
<1>10. CASE Collector
  BY <1>10 DEF Collector, CollectorCheck, CollectorPop, CollectorCloseCheck,
     CollectorCloseSet, CollectorCloseHandle, NoTraffic, WorkerMoves, traffic,
     pipeVars, workerVars
<1>11. CASE RunCallback \/ BeginQuit \/ Quit
  BY <1>11 DEF RunCallback, BeginQuit, Quit, QuitSize, QuitFront, QuitPop,
     QuitStopListener, QuitOpen, QuitShut, QuitJoinListener, QuitPush,
     QuitStopCollector, QuitJoinCollector, QuitStopWorker, QuitJoinWorker,
     NoTraffic, WorkerMoves, traffic, pipeVars, workerVars
<1> QED
  BY <1>2, <1>3, <1>4, <1>5, <1>6, <1>7, <1>8, <1>9, <1>10, <1>11
  DEF Next, Client, Listener, Worker

LEMMA NextTrafficInv ==
  ASSUME TypeOK, AcceptInv, TrackedInv, TrafficInv, Next
  PROVE  TrafficInv'
<1> SUFFICES ASSUME NEW h \in Instances
             PROVE  /\ replies'[h] <= nread'[h] /\ nread'[h] <= Len(requests'[h])
                    /\ worker'[h] = "none" => nread'[h] = 0
                    /\ worker'[h] \in {"dispatch", "await", "reply"} =>
                         replies'[h] < nread'[h]
                    /\ stage'[h] = "connected" =>
                         /\ worker'[h] \in {"check", "recv"} => nread'[h] = replies'[h]
                         /\ worker'[h] \in {"dispatch", "await", "reply"} =>
                              nread'[h] = replies'[h] + 1
  BY DEF TrafficInv
<1>1. /\ nread[h] \in Nat /\ replies[h] \in Nat
      /\ requests[h] \in Seq(Kinds) /\ Len(requests[h]) \in Nat
  BY DEF TypeOK, PipeTypeOK
<1>2. /\ replies[h] <= nread[h] /\ nread[h] <= Len(requests[h])
      /\ worker[h] = "none" => nread[h] = 0
      /\ worker[h] \in {"dispatch", "await", "reply"} => replies[h] < nread[h]
      /\ stage[h] = "connected" =>
           /\ worker[h] \in {"check", "recv"} => nread[h] = replies[h]
           /\ worker[h] \in {"dispatch", "await", "reply"} =>
                nread[h] = replies[h] + 1
  BY DEF TrafficInv
<1>3. stage'[h] = "connected" =>
        stage[h] = "connected" \/ worker[h] = "none"
  BY StageSteps DEF TrackedInv
<1>4. CASE NoTraffic(h) /\ WorkerMoves(h)
  BY <1>1, <1>2, <1>3, <1>4 DEF NoTraffic, WorkerMoves
<1>5. CASE /\ \E kind \in Kinds : requests'[h] = Append(requests[h], kind)
           /\ worker'[h] = worker[h] /\ stage'[h] = stage[h]
           /\ nread'[h] = nread[h] /\ replies'[h] = replies[h]
  <2>1. Len(requests'[h]) = Len(requests[h]) + 1
    BY <1>1, <1>5, AppendElements
  <2> QED
    BY <1>1, <1>2, <1>5, <2>1
<1>6. CASE /\ nread[h] < Len(requests[h]) /\ stage'[h] = stage[h]
           /\ worker[h] = "recv" /\ worker'[h] = "dispatch"
           /\ nread'[h] = nread[h] + 1
           /\ requests'[h] = requests[h] /\ replies'[h] = replies[h]
  BY <1>1, <1>2, <1>6
<1>7. CASE /\ stage[h] = "connected" /\ stage'[h] = stage[h]
           /\ worker[h] = "reply" /\ worker'[h] = "check"
           /\ replies'[h] = replies[h] + 1
           /\ requests'[h] = requests[h] /\ nread'[h] = nread[h]
  BY <1>1, <1>2, <1>7
<1>8. CASE /\ worker[h] = "none" /\ worker'[h] = "none"
           /\ requests'[h] = <<>> /\ nread'[h] = nread[h] /\ replies'[h] = replies[h]
  BY <1>1, <1>2, <1>8
<1> QED
  BY <1>4, <1>5, <1>6, <1>7, <1>8, TrafficSteps

-----------------------------------------------------------------------------
LEMMA InitServerInv == Init => ServerInv
BY InitTypeOK, InitAcceptInv, InitDequeInv, InitTrackedInv, InitTrafficInv,
   InitCallbackAlive, InitJoinInv
DEF ServerInv

LEMMA NextServerInv == ServerInv /\ [Next]_vars => ServerInv'
<1>1. ServerInv /\ Next => ServerInv'
  BY NextTypeOK, NextAcceptInv, NextDequeInv, NextTrackedInv, NextTrafficInv,
     NextCallbackAlive, NextJoinInv
  DEF ServerInv
<1>2. ServerInv /\ UNCHANGED vars => ServerInv'
  BY DEF ServerInv, vars, pipeVars, listenerVars, workerVars, collectorVars,
     mainVars, TypeOK, PipeTypeOK, AcceptInv, InHandles, DequeInv, TrackedInv,
     InTracked, TrafficInv, CallbackAlive, OneWorkerPerPipe, JoinInv
<1> QED
  BY <1>1, <1>2

\* The invariant of the component: the types, what the deque of
\* PipeListener, the tracked vectors, the queue of lambdas and the joins of
\* on_quit have in common at every moment.
THEOREM ServerIsSafe == Spec => []ServerInv
<1> QED
  BY InitServerInv, NextServerInv, PTL DEF Spec

\* While a lambda is in the main thread's hands, the worker whose stack it
\* refers to waits for it.
THEOREM LambdasAreAlive == Spec => []CallbackAlive
<1>1. ServerInv => CallbackAlive
  BY DEF ServerInv
<1> QED
  BY <1>1, ServerIsSafe, PTL

\* accept never meets an empty deque as long as nobody quits: whatever fails,
\* it takes one handle out for each it puts in.
THEOREM DequeIsNotEmpty == Spec => []DequeInv
<1>1. ServerInv => DequeInv
  BY DEF ServerInv
<1> QED
  BY <1>1, ServerIsSafe, PTL

\* accept and listener.close() take instances from the same deque, and still
\* no instance is given to two workers.
THEOREM PipesAreNotShared == Spec => []OneWorkerPerPipe
<1>1. ServerInv => OneWorkerPerPipe
  BY DEF ServerInv
<1> QED
  BY <1>1, ServerIsSafe, PTL

\* on_quit returns only when every thread of the component has ended: it has
\* joined the worker of each tracked element, and there is no other worker.
LEMMA InvSafeStop == ServerInv => SafeStop
<1> SUFFICES ASSUME ServerInv, main = "done" PROVE /\ listener = "exited"
                             /\ collector = "exited"
                             /\ \A h \in Instances : worker[h] \in {"none", "exited"}
  BY DEF SafeStop
<1>1. /\ listener = "exited" /\ collector = "exited" /\ index > Len(tracked)
      /\ \A n \in 1..Len(tracked) : n < index => worker[tracked[n]] = "exited"
  BY DEF ServerInv, JoinInv, AfterJoin
<1>2. \A n \in 1..Len(tracked) : n < index
  BY <1>1 DEF ServerInv, TypeOK
<1>3. \A h \in Instances : worker[h] # "none" => worker[h] = "exited"
  BY <1>1, <1>2 DEF ServerInv, TrackedInv, InTracked
<1> QED
  BY <1>1, <1>3

THEOREM StopIsSafe == Spec => []SafeStop
BY InvSafeStop, ServerIsSafe, PTL

\* Once on_quit has joined the listener, the vectors it goes through without
\* a lock do not grow any more.
THEOREM TrackedIsFrozen == Spec => TrackedFrozen
<1>1. ServerInv /\ [Next]_vars => [(main \in AfterJoin) => (tracked' = tracked)]_vars
  <2> SUFFICES ASSUME ServerInv, Next, main \in AfterJoin PROVE tracked' = tracked
    OBVIOUS
  <2> QED
    BY EndedStaysEnded DEF ServerInv, JoinInv
<1> QED
  BY <1>1, ServerIsSafe, PTL DEF Spec, TrackedFrozen
=============================================================================
