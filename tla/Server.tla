------------------------------- MODULE Server -------------------------------
(***************************************************************************)
(* The component of foo_rpc/foo_rpc.cpp with its PipeConnection and        *)
(* PipeListener of foo_rpc/pipe.h: the listener thread that accepts        *)
(* clients, one worker thread for each accepted pipe instance, the         *)
(* collector thread that closes connections, and foobar2000's main thread, *)
(* which runs the API calls of the workers and, once, on_quit.             *)
(*                                                                         *)
(* A worker is named by its pipe instance.  A step is what a thread does   *)
(* up to the next point where another thread can see or disturb it.  The   *)
(* connections queue is the atomic queue SafeQueue implements.             *)
(***************************************************************************)
EXTENDS NamedPipe, FiniteSets

CONSTANT Clients  \* processes that open the pipe, one connection each

VARIABLES
  at,             \* the instance each client opened, or NoHandle
  handles,        \* PipeListener::handles
  listener,       \* where the listener thread is
  accepting,      \* accept(): handle, while it is in scope
  tracked,        \* trackedConnections; underlying_threads has the same order
  worker,         \* where the worker of each instance is
  stopWorker,     \* the instances whose worker's event is set
  callbacks,      \* workers whose lambda fb2k::inMainThread still has to run
  ready,          \* workers whose Event or ApiResult is set
  closing,        \* instances whose closingEvent is set
  connections,    \* connectionsQueue; NoHandle stands for _dummyConnection
  collector,      \* where the collector thread is
  collecting,     \* close_tracked_connections(): conn
  main,           \* where foobar2000's main thread is
  mainHandle,     \* listener.close(): handle, then clientHandle, in their scopes
  index,          \* the element the loops of on_quit have come to
  stopListener,   \* stopNamedPipeThreadEvent
  stopCollector,  \* stopCollectorEvent
  undefined       \* front() or pop_front() was called on an empty deque

listenerVars  == <<listener, accepting, tracked>>
workerVars    == <<worker, stopWorker, callbacks, ready>>
collectorVars == <<connections, collector, collecting>>
mainVars      == <<main, mainHandle, index, stopListener, stopCollector>>
vars == <<pipeVars, at, handles, listenerVars, workerVars, closing,
          collectorVars, mainVars, undefined>>

\* The state after the constructors and on_init: PipeListener has created
\* the first instance, the listener and the collector thread have started.
Init == /\ PipeInit
        /\ at = [c \in Clients |-> NoHandle]
        /\ handles = <<1>>
        /\ listener = "check" /\ accepting = NoHandle /\ tracked = <<>>
        /\ worker = [h \in Instances |-> "none"]
        /\ stopWorker = {} /\ callbacks = <<>> /\ ready = {}
        /\ closing = {}
        /\ connections = <<>> /\ collector = "check" /\ collecting = NoHandle
        /\ main = "running" /\ mainHandle = NoHandle /\ index = 1
        /\ stopListener = FALSE /\ stopCollector = FALSE
        /\ undefined = FALSE

-----------------------------------------------------------------------------
\* The clients

Open(c) == /\ at[c] = NoHandle
           /\ \E h \in Instances : /\ CreateFile(h)
                                   /\ at' = [at EXCEPT ![c] = h]
           /\ UNCHANGED <<traffic, handles, listenerVars, workerVars, closing,
                          collectorVars, mainVars, undefined>>

Request(c, kind) ==
  /\ at[c] # NoHandle
  /\ stage[at[c]] = "connected"
  /\ Len(requests[at[c]]) < MaxRequests
  /\ requests' = [requests EXCEPT ![at[c]] = Append(@, kind)]
  /\ UNCHANGED <<stage, nread, replies, at, handles, listenerVars,
                 workerVars, closing, collectorVars, mainVars, undefined>>

HangUp(c) == /\ at[c] # NoHandle
             /\ stage[at[c]] = "connected"
             /\ CloseClientEnd(at[c])
             /\ UNCHANGED <<traffic, at, handles, listenerVars, workerVars,
                            closing, collectorVars, mainVars, undefined>>

-----------------------------------------------------------------------------
\* listen_commands: while (!stop) { accept; start a worker; track it }

ListenerGoto(label) == listener' = label

ListenCheck == /\ listener = "check"
               /\ ListenerGoto(IF stopListener THEN "exited" ELSE "create")
               /\ UNCHANGED <<pipeVars, at, handles, accepting, tracked,
                              workerVars, closing, collectorVars, mainVars,
                              undefined>>

\* Mutant: a failure is noticed, and nothing joins the deque, but accept goes on.
AcceptCreateSkipping ==
  /\ listener = "create"
  /\ \/ \E h \in Instances : /\ CreateNamedPipe(h)
                             /\ handles' = Append(handles, h)
     \/ Fresh = {} /\ UNCHANGED <<handles, stage>>
  /\ ListenerGoto("front")
  /\ UNCHANGED <<traffic, at, accepting, tracked, workerVars, closing,
                 collectorVars, mainVars, undefined>>

\* create_named_pipe(false).  A failure goes unnoticed, because create_pipe
\* compares the address of the handle: the invalid handle joins the others.
AcceptCreate ==
  /\ listener = "create"
  /\ \/ \E h \in Instances : /\ CreateNamedPipe(h)
                             /\ handles' = Append(handles, h)
     \/ /\ Fresh = {}
        /\ handles' = Append(handles, NoHandle)
        /\ UNCHANGED stage
  /\ ListenerGoto("front")
  /\ UNCHANGED <<traffic, at, accepting, tracked, workerVars, closing,
                 collectorVars, mainVars, undefined>>

\* handle = handles.front()
AcceptFront ==
  /\ listener = "front"
  /\ \/ /\ handles # <<>>
        /\ accepting' = Head(handles)
        /\ ListenerGoto("pop")
        /\ UNCHANGED undefined
     \/ /\ handles = <<>>
        /\ undefined' = TRUE
        /\ UNCHANGED <<listener, accepting>>
  /\ UNCHANGED <<pipeVars, at, handles, tracked, workerVars, closing,
                 collectorVars, mainVars>>

\* Mutant: the instance stays among those still to be accepted.
AcceptWithoutPop ==
  /\ listener = "pop"
  /\ ListenerGoto("connect")
  /\ UNCHANGED <<pipeVars, at, accepting, handles, tracked, workerVars,
                 closing, collectorVars, mainVars, undefined>>

\* handles.pop_front()
AcceptPop ==
  /\ listener = "pop"
  /\ \/ /\ handles # <<>>
        /\ handles' = Tail(handles)
        /\ ListenerGoto("connect")
        /\ UNCHANGED undefined
     \/ /\ handles = <<>>
        /\ undefined' = TRUE
        /\ UNCHANGED <<listener, handles>>
  /\ UNCHANGED <<pipeVars, at, accepting, tracked, workerVars, closing,
                 collectorVars, mainVars>>

\* connect_pipe(handle): ERROR_IO_PENDING or ERROR_PIPE_CONNECTED, and accept
\* waits; otherwise PipeException, which ends listen_commands.  The client of
\* an instance listener.close() has disconnected is without a pipe from then on.
AcceptConnect ==
  /\ listener = "connect"
  /\ \/ /\ accepting # NoHandle
        /\ stage[accepting] # "closing"
        /\ ConnectNamedPipe(accepting)
        /\ at' = [c \in Clients |->
                   IF at[c] = accepting /\ stage[accepting] = "disconnected"
                   THEN NoHandle ELSE at[c]]
        /\ ListenerGoto("wait")
        /\ UNCHANGED accepting
     \/ /\ accepting \in {NoHandle} \cup {h \in Instances : stage[h] = "closing"}
        /\ ListenerGoto("exited")
        /\ accepting' = NoHandle
        /\ UNCHANGED <<stage, requests, at>>
  /\ UNCHANGED <<nread, replies, handles, tracked, workerVars, closing,
                 collectorVars, mainVars, undefined>>

\* wait_overlapped_event and get_overlapped_result, which reports success
\* whatever became of the instance, because the OVERLAPPED it looks at is a
\* copy of the one the kernel completed.
AcceptReturn == /\ listener = "wait"
                /\ stage[accepting] # "listening"
                /\ ListenerGoto("spawn")
                /\ UNCHANGED <<pipeVars, at, handles, accepting, tracked,
                               workerVars, closing, collectorVars, mainVars,
                               undefined>>

\* Both push_backs of listen_commands, and the start of the worker
Spawn == /\ listener = "spawn"
         /\ tracked' = Append(tracked, accepting)
         /\ worker' = [worker EXCEPT ![accepting] = "check"]
         /\ accepting' = NoHandle
         /\ ListenerGoto("check")
         /\ UNCHANGED <<pipeVars, at, handles, stopWorker, callbacks,
                        ready, closing, collectorVars, mainVars, undefined>>

Listener == \/ ListenCheck \/ AcceptCreate \/ AcceptFront \/ AcceptPop
            \/ AcceptConnect \/ AcceptReturn \/ Spawn

-----------------------------------------------------------------------------
\* process_incoming_connection: while (!event) { recv; dispatch; send }

WorkerGoto(h, label) == worker' = [worker EXCEPT ![h] = label]

WorkerCheck(h) ==
  /\ worker[h] = "check"
  /\ WorkerGoto(h, IF h \in stopWorker THEN "exited" ELSE "recv")
  /\ UNCHANGED <<pipeVars, at, handles, listenerVars, stopWorker,
                 callbacks, ready, closing, collectorVars, mainVars, undefined>>

\* Mutant: the worker tries again after a failure.
RecvRetry(h) ==
  /\ worker[h] = "recv"
  /\ \/ /\ HasMessage(h)
        /\ nread' = [nread EXCEPT ![h] = @ + 1]
        /\ WorkerGoto(h, "dispatch")
     \/ /\ IsBroken(h)
        /\ WorkerGoto(h, "check")
        /\ UNCHANGED nread
  /\ UNCHANGED <<stage, requests, replies, at, handles, listenerVars,
                 stopWorker, callbacks, ready, closing, collectorVars, mainVars,
                 undefined>>

\* recv returns a request, or fails, and then the worker closes and ends
Recv(h) ==
  /\ worker[h] = "recv"
  /\ \/ /\ HasMessage(h)
        /\ nread' = [nread EXCEPT ![h] = @ + 1]
        /\ WorkerGoto(h, "dispatch")
     \/ /\ IsBroken(h)
        /\ WorkerGoto(h, "close")
        /\ UNCHANGED nread
  /\ UNCHANGED <<stage, requests, replies, at, handles, listenerVars,
                 stopWorker, callbacks, ready, closing, collectorVars, mainVars,
                 undefined>>

\* Mutant: the exception of an unknown method is caught and not answered.
DispatchSilently(h) ==
  /\ worker[h] = "dispatch"
  /\ \/ /\ requests[h][nread[h]] = "call"
        /\ callbacks' = Append(callbacks, h)
        /\ ready' = ready \ {h}
        /\ WorkerGoto(h, "await")
     \/ /\ requests[h][nread[h]] = "reject"
        /\ WorkerGoto(h, "check")
        /\ UNCHANGED <<callbacks, ready>>
  /\ UNCHANGED <<pipeVars, at, handles, listenerVars, stopWorker,
                 closing, collectorVars, mainVars, undefined>>

\* dispatcher.dispatch: an unknown method throws RPCException, which becomes
\* the reply; a known one creates its Event or ApiResult and gives its lambda
\* to fb2k::inMainThread.
Dispatch(h) ==
  /\ worker[h] = "dispatch"
  /\ \/ /\ requests[h][nread[h]] = "call"
        /\ callbacks' = Append(callbacks, h)
        /\ ready' = ready \ {h}
        /\ WorkerGoto(h, "await")
     \/ /\ requests[h][nread[h]] = "reject"
        /\ WorkerGoto(h, "reply")
        /\ UNCHANGED <<callbacks, ready>>
  /\ UNCHANGED <<pipeVars, at, handles, listenerVars, stopWorker,
                 closing, collectorVars, mainVars, undefined>>

\* Mutant: the wait has a timeout, and the worker goes on when it is over.
AwaitWithTimeout(h) ==
  /\ worker[h] = "await"
  /\ WorkerGoto(h, "reply")
  /\ UNCHANGED <<pipeVars, at, handles, listenerVars, stopWorker,
                 callbacks, ready, closing, collectorVars, mainVars, undefined>>

\* event.wait() or result.wait()
Await(h) ==
  /\ worker[h] = "await"
  /\ h \in ready
  /\ WorkerGoto(h, "reply")
  /\ UNCHANGED <<pipeVars, at, handles, listenerVars, stopWorker,
                 callbacks, ready, closing, collectorVars, mainVars, undefined>>

\* connection.send: its failure, when the client is gone, is ignored.
Reply(h) ==
  /\ worker[h] = "reply"
  /\ replies' = [replies EXCEPT ![h] = IF stage[h] = "connected" THEN @ + 1 ELSE @]
  /\ WorkerGoto(h, "check")
  /\ UNCHANGED <<stage, requests, nread, at, handles, listenerVars,
                 stopWorker, callbacks, ready, closing, collectorVars, mainVars,
                 undefined>>

\* PipeConnection::close(): two threads may be inside at once, each between
\* the test of closingEvent, its set and the CloseHandle.
CloseSet(h) == closing' = closing \cup {h}

WorkerCloseCheck(h) ==
  /\ worker[h] = "close"
  /\ WorkerGoto(h, IF h \in closing THEN "exited" ELSE "closeSet")
  /\ UNCHANGED <<pipeVars, at, handles, listenerVars, stopWorker,
                 callbacks, ready, closing, collectorVars, mainVars, undefined>>

WorkerCloseSet(h) ==
  /\ worker[h] = "closeSet"
  /\ CloseSet(h)
  /\ WorkerGoto(h, "closeHandle")
  /\ UNCHANGED <<pipeVars, at, handles, listenerVars, stopWorker,
                 callbacks, ready, collectorVars, mainVars, undefined>>

WorkerCloseHandle(h) ==
  /\ worker[h] = "closeHandle"
  /\ CloseServerEnd(h)
  /\ WorkerGoto(h, "exited")
  /\ UNCHANGED <<traffic, at, handles, listenerVars, stopWorker,
                 callbacks, ready, closing, collectorVars, mainVars, undefined>>

Worker(h) == \/ WorkerCheck(h) \/ Recv(h) \/ Dispatch(h) \/ Await(h) \/ Reply(h)
             \/ WorkerCloseCheck(h) \/ WorkerCloseSet(h) \/ WorkerCloseHandle(h)

-----------------------------------------------------------------------------
\* close_tracked_connections: while (!stop) { pop; dummy ends it; close }

CollectorGoto(label) == collector' = label

CollectorCheck ==
  /\ collector = "check"
  /\ CollectorGoto(IF stopCollector THEN "exited" ELSE "pop")
  /\ UNCHANGED <<pipeVars, at, handles, listenerVars, workerVars,
                 closing, connections, collecting, mainVars, undefined>>

CollectorPop ==
  /\ collector = "pop"
  /\ connections # <<>>
  /\ collecting' = Head(connections)
  /\ connections' = Tail(connections)
  /\ CollectorGoto(IF collecting' = NoHandle THEN "exited" ELSE "close")
  /\ UNCHANGED <<pipeVars, at, handles, listenerVars, workerVars,
                 closing, mainVars, undefined>>

CollectorCloseCheck ==
  /\ collector = "close"
  /\ CollectorGoto(IF collecting \in closing THEN "check" ELSE "closeSet")
  /\ UNCHANGED <<pipeVars, at, handles, listenerVars, workerVars,
                 closing, connections, collecting, mainVars, undefined>>

CollectorCloseSet ==
  /\ collector = "closeSet"
  /\ CloseSet(collecting)
  /\ CollectorGoto("closeHandle")
  /\ UNCHANGED <<pipeVars, at, handles, listenerVars, workerVars,
                 connections, collecting, mainVars, undefined>>

CollectorCloseHandle ==
  /\ collector = "closeHandle"
  /\ CloseServerEnd(collecting)
  /\ CollectorGoto("check")
  /\ UNCHANGED <<traffic, at, handles, listenerVars, workerVars,
                 closing, connections, collecting, mainVars, undefined>>

Collector == \/ CollectorCheck \/ CollectorPop \/ CollectorCloseCheck
             \/ CollectorCloseSet \/ CollectorCloseHandle

-----------------------------------------------------------------------------
\* foobar2000's main thread: its message loop runs the lambdas of the
\* workers, one after the other, until it calls on_quit, which never returns
\* to the message loop.

MainGoto(label) == main' = label

\* Mutant: the API call forgets to set the event of its caller.
RunCallbackNoSet ==
  /\ main = "running"
  /\ callbacks # <<>>
  /\ callbacks' = Tail(callbacks)
  /\ UNCHANGED <<pipeVars, at, handles, listenerVars, worker, stopWorker,
                 ready, closing, collectorVars, mainVars, undefined>>

\* The API call of the first lambda, and the set of its event
RunCallback ==
  /\ main = "running"
  /\ callbacks # <<>>
  /\ ready' = ready \cup {Head(callbacks)}
  /\ callbacks' = Tail(callbacks)
  /\ UNCHANGED <<pipeVars, at, handles, listenerVars, worker, stopWorker,
                 closing, collectorVars, mainVars, undefined>>

BeginQuit == /\ main = "running"
             /\ MainGoto("size")
             /\ UNCHANGED <<pipeVars, at, handles, listenerVars, workerVars,
                            closing, collectorVars, mainHandle, index,
                            stopListener, stopCollector, undefined>>

\* listener.close(): while (handles.size() > 0)
QuitSize == /\ main = "size"
            /\ MainGoto(IF handles = <<>> THEN "stop" ELSE "front")
            /\ UNCHANGED <<pipeVars, at, handles, listenerVars, workerVars,
                           closing, collectorVars, mainHandle, index,
                           stopListener, stopCollector, undefined>>

\* handle = handles.front()
QuitFront ==
  /\ main = "front"
  /\ \/ /\ handles # <<>>
        /\ mainHandle' = Head(handles)
        /\ MainGoto("pop")
        /\ UNCHANGED undefined
     \/ /\ handles = <<>>
        /\ undefined' = TRUE
        /\ UNCHANGED <<main, mainHandle>>
  /\ UNCHANGED <<pipeVars, at, handles, listenerVars, workerVars, closing,
                 collectorVars, index, stopListener, stopCollector>>

\* handles.pop_front(); DisconnectNamedPipe(handle)
QuitPop ==
  /\ main = "pop"
  /\ \/ /\ handles # <<>>
        /\ handles' = Tail(handles)
        /\ DisconnectNamedPipe(mainHandle)
        /\ mainHandle' = NoHandle
        /\ MainGoto("size")
        /\ UNCHANGED undefined
     \/ /\ handles = <<>>
        /\ undefined' = TRUE
        /\ UNCHANGED <<main, mainHandle, handles, stage>>
  /\ UNCHANGED <<traffic, at, listenerVars, workerVars, closing,
                 collectorVars, index, stopListener, stopCollector>>

\* Mutant: the event of the listener is not set.
QuitNoStopListener ==
  /\ main = "stop"
  /\ MainGoto("open")
  /\ UNCHANGED <<pipeVars, at, handles, listenerVars, workerVars, closing,
                 collectorVars, mainHandle, index, stopListener, stopCollector,
                 undefined>>

\* stopNamedPipeThreadEvent.set()
QuitStopListener ==
  /\ main = "stop"
  /\ stopListener' = TRUE
  /\ MainGoto("open")
  /\ UNCHANGED <<pipeVars, at, handles, listenerVars, workerVars, closing,
                 collectorVars, mainHandle, index, stopCollector, undefined>>

\* connect_client_to_pipe: when every instance is taken it waits for one
\* with WaitNamedPipe, but does not try CreateFile again, and returns nothing.
QuitOpen ==
  /\ main = "open"
  /\ \/ \E h \in Instances : /\ CreateFile(h)
                             /\ mainHandle' = h
                             /\ MainGoto("shut")
     \/ /\ Listening = {}
        /\ MainGoto("joinListener")
        /\ UNCHANGED <<stage, mainHandle>>
  /\ UNCHANGED <<traffic, at, handles, listenerVars, workerVars, closing,
                 collectorVars, index, stopListener, stopCollector, undefined>>

\* CloseHandle(*clientHandle)
QuitShut ==
  /\ main = "shut"
  /\ CloseClientEnd(mainHandle)
  /\ mainHandle' = NoHandle
  /\ MainGoto("joinListener")
  /\ UNCHANGED <<traffic, at, handles, listenerVars, workerVars, closing,
                 collectorVars, index, stopListener, stopCollector, undefined>>

\* Mutant: the vectors are gone through while the listener still runs.
QuitWithoutJoin ==
  /\ main = "joinListener"
  /\ MainGoto("push")
  /\ UNCHANGED <<pipeVars, at, handles, listenerVars, workerVars, closing,
                 collectorVars, mainHandle, index, stopListener, stopCollector,
                 undefined>>

\* namedPipeThread.join()
QuitJoinListener ==
  /\ main = "joinListener"
  /\ listener = "exited"
  /\ MainGoto("push")
  /\ UNCHANGED <<pipeVars, at, handles, listenerVars, workerVars, closing,
                 collectorVars, mainHandle, index, stopListener, stopCollector,
                 undefined>>

\* Mutant: the dummy connection is forgotten.
QuitPushNoDummy ==
  /\ main = "push"
  /\ \/ /\ index <= Len(tracked)
        /\ connections' = Append(connections, tracked[index])
        /\ index' = index + 1
        /\ UNCHANGED main
     \/ /\ index > Len(tracked)
        /\ index' = 1
        /\ MainGoto("stopCollector")
        /\ UNCHANGED connections
  /\ UNCHANGED <<pipeVars, at, handles, listenerVars, workerVars, closing,
                 collector, collecting, mainHandle, stopListener, stopCollector,
                 undefined>>

\* connectionsQueue.push of the tracked connections, then of the dummy
QuitPush ==
  /\ main = "push"
  /\ \/ /\ index <= Len(tracked)
        /\ connections' = Append(connections, tracked[index])
        /\ index' = index + 1
        /\ UNCHANGED main
     \/ /\ index > Len(tracked)
        /\ connections' = Append(connections, NoHandle)
        /\ index' = 1
        /\ MainGoto("stopCollector")
  /\ UNCHANGED <<pipeVars, at, handles, listenerVars, workerVars, closing,
                 collector, collecting, mainHandle, stopListener, stopCollector,
                 undefined>>

\* stopCollectorEvent.set()
QuitStopCollector ==
  /\ main = "stopCollector"
  /\ stopCollector' = TRUE
  /\ MainGoto("joinCollector")
  /\ UNCHANGED <<pipeVars, at, handles, listenerVars, workerVars, closing,
                 collectorVars, mainHandle, index, stopListener, undefined>>

\* Mutant: the collector is not waited for.
QuitDetachCollector ==
  /\ main = "joinCollector"
  /\ MainGoto("stopWorker")
  /\ UNCHANGED <<pipeVars, at, handles, listenerVars, workerVars, closing,
                 collectorVars, mainHandle, index, stopListener, stopCollector,
                 undefined>>

\* collectorThread.join()
QuitJoinCollector ==
  /\ main = "joinCollector"
  /\ collector = "exited"
  /\ MainGoto("stopWorker")
  /\ UNCHANGED <<pipeVars, at, handles, listenerVars, workerVars, closing,
                 collectorVars, mainHandle, index, stopListener, stopCollector,
                 undefined>>

\* for (auto &thread : underlying_threads): set its event, and when there is
\* none left on_quit returns
QuitStopWorker ==
  /\ main = "stopWorker"
  /\ \/ /\ index <= Len(tracked)
        /\ stopWorker' = stopWorker \cup {tracked[index]}
        /\ MainGoto("joinWorker")
     \/ /\ index > Len(tracked)
        /\ MainGoto("done")
        /\ UNCHANGED stopWorker
  /\ UNCHANGED <<pipeVars, at, handles, listenerVars, worker, callbacks,
                 ready, closing, collectorVars, mainHandle, index, stopListener,
                 stopCollector, undefined>>

\* Mutant: the workers are told to stop and not waited for.
QuitDetachWorker ==
  /\ main = "joinWorker"
  /\ index' = index + 1
  /\ MainGoto("stopWorker")
  /\ UNCHANGED <<pipeVars, at, handles, listenerVars, workerVars, closing,
                 collectorVars, mainHandle, stopListener, stopCollector, undefined>>

\* std::get<0>(thread).join()
QuitJoinWorker ==
  /\ main = "joinWorker"
  /\ worker[tracked[index]] = "exited"
  /\ index' = index + 1
  /\ MainGoto("stopWorker")
  /\ UNCHANGED <<pipeVars, at, handles, listenerVars, workerVars, closing,
                 collectorVars, mainHandle, stopListener, stopCollector, undefined>>

Quit == \/ QuitSize \/ QuitFront \/ QuitPop \/ QuitStopListener
        \/ QuitOpen \/ QuitShut \/ QuitJoinListener \/ QuitPush
        \/ QuitStopCollector \/ QuitJoinCollector \/ QuitStopWorker \/ QuitJoinWorker

-----------------------------------------------------------------------------
Client(c) == Open(c) \/ HangUp(c) \/ \E kind \in Kinds : Request(c, kind)

\* Nothing is known of the program once it has left the defined part of C++.
Next == /\ ~undefined
        /\ \/ \E c \in Clients : Client(c)
           \/ Listener
           \/ \E h \in Instances : Worker(h)
           \/ Collector
           \/ RunCallback \/ BeginQuit \/ Quit

\* Each thread of the program goes on while it can; the message loop runs
\* the lambdas it is given.  Clients and the user who quits may do nothing.
Fairness == /\ WF_vars(~undefined /\ Listener)
            /\ \A h \in Instances : WF_vars(~undefined /\ Worker(h))
            /\ WF_vars(~undefined /\ Collector)
            /\ WF_vars(~undefined /\ (RunCallback \/ Quit))

Spec == Init /\ [][Next]_vars /\ Fairness

-----------------------------------------------------------------------------
ListenerPcs == {"check", "create", "front", "pop", "connect", "wait", "spawn",
                "exited"}
WorkerPcs == {"none", "check", "recv", "dispatch", "await", "reply", "close",
              "closeSet", "closeHandle", "exited"}
CollectorPcs == {"check", "pop", "close", "closeSet", "closeHandle", "exited"}

\* on_quit up to the join of the listener thread, and after it
BeforeJoin == {"running", "size", "front", "pop", "stop", "open", "shut",
               "joinListener"}
AfterJoin == {"push", "stopCollector", "joinCollector", "stopWorker",
              "joinWorker", "done"}

Handle == Instances \cup {NoHandle}

TypeOK ==
  /\ PipeTypeOK
  /\ at \in [Clients -> Handle]
  /\ handles \in Seq(Handle)
  /\ listener \in ListenerPcs /\ accepting \in Handle /\ tracked \in Seq(Instances)
  /\ worker \in [Instances -> WorkerPcs]
  /\ stopWorker \subseteq Instances /\ ready \subseteq Instances
  /\ callbacks \in Seq(Instances)
  /\ closing \subseteq Instances
  /\ connections \in Seq(Handle)
  /\ collector \in CollectorPcs /\ collecting \in Handle
  /\ main \in BeforeJoin \cup AfterJoin /\ mainHandle \in Handle /\ index \in Nat \ {0}
  /\ stopListener \in BOOLEAN /\ stopCollector \in BOOLEAN /\ undefined \in BOOLEAN

InHandles(h) == \E n \in 1..Len(handles) : handles[n] = h
InTracked(h) == \E n \in 1..Len(tracked) : tracked[n] = h

\* The instance in accept's hands has no worker yet, and the deque does not
\* hold it any more once accept has removed an element: the listener and
\* listener.close() both remove from the front, so an instance accept has
\* seen there can only be the front or be gone.
AcceptInv ==
  /\ \A m, n \in 1..Len(handles) :
       handles[m] = handles[n] /\ handles[m] # NoHandle => m = n
  /\ \A n \in 1..Len(handles) :
       handles[n] # NoHandle =>
         stage[handles[n]] # "none" /\ worker[handles[n]] = "none"
  /\ accepting # NoHandle =>
       stage[accepting] # "none" /\ worker[accepting] = "none"
  /\ listener \in {"check", "create", "front", "exited"} => accepting = NoHandle
  /\ listener = "pop" /\ accepting # NoHandle /\ InHandles(accepting) =>
       accepting = Head(handles)
  /\ listener \in {"connect", "wait", "spawn"} /\ accepting # NoHandle =>
       ~InHandles(accepting)
  /\ listener \in {"wait", "spawn"} => accepting # NoHandle

\* Until somebody quits, the deque holds one handle for the next accept, and
\* a second one while accept is between its push_back and its pop_front: each
\* accept puts one in before it takes one out, also when no instance could be
\* created.  So front() and pop_front() meet an empty deque only when on_quit
\* takes handles from it as well, and never after the listener was joined.
DequeInv ==
  /\ main = "running" =>
       Len(handles) = IF listener \in {"front", "pop"} THEN 2 ELSE 1
  /\ undefined => main \in BeforeJoin \ {"running"}

\* An instance has a worker exactly when it is tracked, and no client can
\* open it any more.
TrackedInv ==
  /\ \A h \in Instances : worker[h] # "none" <=> InTracked(h)
  /\ \A h \in Instances : worker[h] # "none" => stage[h] \notin {"none", "listening"}
  /\ listener = "spawn" => stage[accepting] \notin {"none", "listening"}

\* A worker that reads the next request of a client that is still there has
\* answered all it took; one that deals with a request owes that one reply.
\* Nothing was taken from an instance that has no worker.
TrafficInv ==
  \A h \in Instances :
    /\ replies[h] <= nread[h] /\ nread[h] <= Len(requests[h])
    /\ worker[h] = "none" => nread[h] = 0
    /\ worker[h] \in {"dispatch", "await", "reply"} => replies[h] < nread[h]
    /\ stage[h] = "connected" =>
         /\ worker[h] \in {"check", "recv"} => nread[h] = replies[h]
         /\ worker[h] \in {"dispatch", "await", "reply"} => nread[h] = replies[h] + 1

\* What on_quit has already waited for has ended.  Its loop over the workers
\* begins with the first of them.
JoinInv ==
  /\ main \in AfterJoin => listener = "exited"
  /\ main \in {"stopCollector", "joinCollector"} => index = 1
  /\ main \in {"stopWorker", "joinWorker", "done"} =>
       /\ collector = "exited"
       /\ \A n \in 1..Len(tracked) : n < index => worker[tracked[n]] = "exited"
  /\ main = "joinWorker" => index <= Len(tracked)
  /\ main = "done" => index > Len(tracked)
  /\ collector \in {"close", "closeSet", "closeHandle"} => collecting # NoHandle

\* The lambda given to the main thread holds references to the stack of its
\* worker: as long as it is queued, its worker is blocked in wait, its event
\* is not set, and it is queued only once.
CallbackAlive ==
  /\ \A n \in 1..Len(callbacks) : /\ worker[callbacks[n]] = "await"
                                  /\ callbacks[n] \notin ready
  /\ \A m, n \in 1..Len(callbacks) : callbacks[m] = callbacks[n] => m = n

\* accept never returns a pipe instance twice, even while listener.close()
\* takes instances from the same deque: two workers never share a pipe.
OneWorkerPerPipe ==
  \A m, n \in 1..Len(tracked) : tracked[m] = tracked[n] => m = n

\* The inductive invariant of the component
ServerInv == /\ TypeOK
             /\ AcceptInv
             /\ DequeInv
             /\ TrackedInv
             /\ TrafficInv
             /\ CallbackAlive
             /\ OneWorkerPerPipe
             /\ JoinInv

\* When on_quit returns, no thread of the component runs, whatever the
\* clients, the listener and the collector did meanwhile: all of them would
\* use members of an object that is about to be destroyed.
SafeStop == main = "done" => /\ listener = "exited"
                             /\ collector = "exited"
                             /\ \A h \in Instances : worker[h] \in {"none", "exited"}

\* The workers and connections on_quit goes through do not change once it
\* has begun: both vectors are shared with the listener without a lock.
TrackedFrozen == [][(main \in AfterJoin) => (tracked' = tracked)]_vars

\* Each instance is a channel; a reply is named by its request.
ReplyTo(kind) == kind
Link(h) == CASE stage[h] \in {"none", "listening"} -> "new"
             [] stage[h] = "connected" -> "open"
             [] OTHER -> "cut"

Connection(h) == INSTANCE Channel WITH
  Requests <- Kinds, Reply <- ReplyTo,
  sent <- requests[h], taken <- nread[h],
  answers <- SubSeq(requests[h], 1, replies[h]), link <- Link(h)

\* Listener, worker, collector and on_quit together keep the promise of every
\* connection: one reply for each request, before the next request is read,
\* and a client never gets an instance from which a worker has read for another.
ConnectionsAreChannels ==
  /\ \A h \in Instances : Connection(h)!Init
  /\ [][\A h \in Instances :
          [Connection(h)!Next]_<<requests[h], nread[h], replies[h], Link(h)>>]_vars

-----------------------------------------------------------------------------
\* A request on a connection that has its worker is answered, unless the
\* client or the program leaves.
ServedAnswered ==
  \A h \in Instances : \A n \in 1..MaxRequests :
    worker[h] # "none" /\ Len(requests[h]) >= n
      ~> replies[h] >= n \/ stage[h] # "connected" \/ main # "running"

\* When a client leaves, also in the middle of a call, its worker comes to an
\* end and gives the instance back: clients that come and go do not use up
\* threads and pipes.  A quit may stop the worker before that.
LeaversReleased ==
  \A h \in Instances :
    worker[h] # "none" /\ stage[h] = "closing"
      ~> worker[h] = "exited" /\ (stage[h] = "closed" \/ main # "running")
=============================================================================
