------------------------------- MODULE Handles -------------------------------
(***************************************************************************)
(* The numbers the component has for kernel objects.  CloseHandle makes a  *)
(* number free and a later CreateEvent or CreateNamedPipe may return it    *)
(* again, while copies of the PipeConnection of foo_rpc/pipe.h still hold  *)
(* it: the worker's, the one in trackedConnections and the collector's.    *)
(*                                                                         *)
(* Pipe instances are named in the order of their creation, in which they  *)
(* are also accepted, and a worker by its instance.  What clients do is a  *)
(* choice of outcomes of reads.  An event that is lost as soon as it is    *)
(* made, as by a copy of an Event or a PipeConnection, is left out: a      *)
(* number it takes is one that no later object gets.                       *)
(***************************************************************************)
EXTENDS Naturals, Sequences

CONSTANTS MaxPipes,   \* bound: pipe instances that are created
          MaxNumbers  \* bound: numbers in use or free again

ASSUME HandlesAssumption == MaxPipes \in Nat \ {0} /\ MaxNumbers \in Nat \ {0}

Pipes == 1..MaxPipes
Collector == 0
Closers == Pipes \cup {Collector}  \* the threads that call close()
Null == 0                          \* no number

VARIABLES
  table,     \* what each number stands for
  created,   \* the last instance made by create_named_pipe
  accepted,  \* the last connection in trackedConnections
  pipe,      \* OverlappedObject::handle of each instance
  connect,   \* OVERLAPPED::hEvent of each connection, made by connect_pipe
  closing,   \* PipeConnection::closingEvent of each connection
  event,     \* the event the worker made last: of a read, a write or a call
  signalled, \* connections whose closingEvent is set
  listener,  \* where the listener thread is
  pc,        \* where the workers and the collector are
  collecting, \* close_tracked_connections(): conn
  main       \* where on_quit is

numbers == <<pipe, connect, closing, event>>
vars == <<table, created, accepted, numbers, signalled, listener, pc,
          collecting, main>>

Object(kind, c) == [kind |-> kind, of |-> c]
Free == Object("free", Null)
Denotes(n, kind, c) == n \in DOMAIN table /\ table[n] = Object(kind, c)

\* CreateEvent and CreateNamedPipe return any number that is free.
Available == {n \in 1..MaxNumbers :
                IF n \in DOMAIN table THEN table[n] = Free ELSE n = Len(table) + 1}
Allocate(n, kind, c) ==
  /\ n \in Available
  /\ table' = IF n \in DOMAIN table THEN [table EXCEPT ![n] = Object(kind, c)]
              ELSE Append(table, Object(kind, c))

\* CloseHandle closes whatever the number stands for.
CloseHandle(n) ==
  table' = IF n \in DOMAIN table THEN [table EXCEPT ![n] = Free] ELSE table

NoNumber == [c \in Pipes |-> Null]

\* The constructor of PipeListener has created the first instance.
Init == /\ table = <<Object("pipe", 1)>>
        /\ created = 1 /\ accepted = 0
        /\ pipe = [NoNumber EXCEPT ![1] = 1]
        /\ connect = NoNumber /\ closing = NoNumber /\ event = NoNumber
        /\ signalled = {}
        /\ listener = "create"
        /\ pc = [t \in Closers |-> IF t = Collector THEN "pop" ELSE "none"]
        /\ collecting = 0
        /\ main = "running"

Goto(t, label) == pc' = [pc EXCEPT ![t] = label]

-----------------------------------------------------------------------------
\* listen_commands, with accept

\* create_named_pipe(false), or the event that stops the thread is set
AcceptCreate ==
  /\ listener = "create"
  /\ \/ /\ created < MaxPipes
        /\ \E n \in Available : /\ Allocate(n, "pipe", created + 1)
                                /\ pipe' = [pipe EXCEPT ![created + 1] = n]
        /\ created' = created + 1
        /\ listener' = "connect"
     \/ /\ main # "running"
        /\ listener' = "exited"
        /\ UNCHANGED <<table, created, pipe>>
  /\ UNCHANGED <<accepted, connect, closing, event, signalled, pc, collecting,
                 main>>

\* new_overlapped and ConnectNamedPipe, which may fail
AcceptConnect ==
  /\ listener = "connect"
  /\ \E n \in Available :
       /\ Allocate(n, "connect", accepted + 1)
       /\ connect' = [connect EXCEPT ![accepted + 1] = n]
  /\ listener' \in {"wait", "exited"}
  /\ UNCHANGED <<created, accepted, pipe, closing, event, signalled, pc,
                 collecting, main>>

\* Mutant: the local OverlappedObject of accept closes its event at the end.
AcceptReturnOverlappedClosed ==
  /\ listener = "wait"
  /\ closing' = [closing EXCEPT ![accepted + 1] = Len(table) + 1]
  /\ table' = Append([table EXCEPT ![connect[accepted + 1]] = Free],
                     Object("closing", accepted + 1))
  /\ accepted' = accepted + 1
  /\ Goto(accepted + 1, "check")
  /\ listener' = "create"
  /\ UNCHANGED <<created, pipe, connect, event, signalled, collecting, main>>

\* accept returns a PipeConnection with an event of its own; its worker starts
AcceptReturn ==
  /\ listener = "wait"
  /\ \E n \in Available :
       /\ Allocate(n, "closing", accepted + 1)
       /\ closing' = [closing EXCEPT ![accepted + 1] = n]
  /\ accepted' = accepted + 1
  /\ Goto(accepted + 1, "check")
  /\ listener' = "create"
  /\ UNCHANGED <<created, pipe, connect, event, signalled, collecting, main>>

Listener == AcceptCreate \/ AcceptConnect \/ AcceptReturn

-----------------------------------------------------------------------------
\* process_incoming_connection

\* new_overlapped, or the Event of a stub
NewEvent(c, label) ==
  /\ \E n \in Available : /\ Allocate(n, "event", c)
                          /\ event' = [event EXCEPT ![c] = n]
  /\ Goto(c, label)
  /\ UNCHANGED <<created, accepted, pipe, connect, closing, signalled, listener,
                 collecting, main>>

Step(c, labels) ==
  /\ \E label \in labels : Goto(c, label)
  /\ UNCHANGED <<table, created, accepted, numbers, signalled, listener,
                 collecting, main>>

\* on_quit sets the event of one worker, joins it, and goes on to the next:
\* in "stopWorkers" the event of this one may be set, or not yet.
Check(c) ==
  /\ pc[c] = "check"
  /\ Step(c, {"recv"} \cup (IF main = "stopWorkers" THEN {"exited"} ELSE {}))

\* recv_bytes, then get_more_data when the message is longer
Recv(c) == \/ pc[c] = "recv" /\ NewEvent(c, "read")
           \/ pc[c] = "more" /\ NewEvent(c, "readMore")

IsPipe(n) == n \in DOMAIN table /\ table[n].kind = "pipe"

\* ReadFile reads from whatever pipe the number stands for, and fails on
\* anything else.
ReadFile(c) ==
  \/ /\ pc[c] = "read"
     /\ Step(c, {"close"} \cup
                (IF IsPipe(pipe[c]) THEN {"wait", "more", "dispatch"} ELSE {}))
  \/ /\ pc[c] = "readMore"
     /\ Step(c, {"close"} \cup (IF IsPipe(pipe[c]) THEN {"dispatch"} ELSE {}))

\* A read that pends.  When the number is closed meanwhile, the wait fails; when
\* it is an event of another worker by then, it returns as that one is set, and
\* GetOverlappedResult, whose wait is for the same number, reports success with
\* the read still pending.  Both look at the OVERLAPPED next, so that every
\* outcome of the read is possible in either case.
Wait(c) == pc[c] = "wait" /\ Step(c, {"more", "dispatch", "close"})

\* A stub and its Event, unless the method is unknown
Dispatch(c) == /\ pc[c] = "dispatch"
               /\ NewEvent(c, "await") \/ Step(c, {"send"})

\* event.wait() returns when the lambda has run, or fails.
Await(c) == /\ pc[c] = "await"
            /\ main = "running" \/ ~Denotes(event[c], "event", c)
            /\ Step(c, {"send"})

\* send_bytes: new_overlapped, then WriteFile, whose failure is ignored
Send(c) == \/ pc[c] = "send" /\ NewEvent(c, "write")
           \/ pc[c] = "write" /\ Step(c, {"check"})

\* Mutant: the worker closes, and goes on.
CloseAndGoOn(t) == IF t = Collector THEN "pop" ELSE "check"

\* Where a thread goes on after close(): the worker leaves its loop.
AfterClose(t) == IF t = Collector THEN "pop" ELSE "exited"

Worker(c) == \/ Check(c) \/ Recv(c) \/ ReadFile(c) \/ Wait(c)
             \/ Dispatch(c) \/ Await(c) \/ Send(c)

-----------------------------------------------------------------------------
\* PipeConnection::close(), by the worker of the connection or the collector

Conn(t) == IF t = Collector THEN collecting ELSE t

\* Mutant: close() does not ask whether the connection is closed already.
CloseUntested(t) == pc[t] = "close" /\ Step(t, {"set"})

\* if (is_closed()) return
CloseTest(t) ==
  /\ pc[t] = "close"
  /\ Step(t, IF Conn(t) \in signalled /\ Denotes(closing[Conn(t)], "closing", Conn(t))
             THEN {AfterClose(t)} ELSE {"set"})

\* closingEvent.set()
CloseSet(t) ==
  /\ pc[t] = "set"
  /\ signalled' = signalled \cup {Conn(t)}
  /\ Goto(t, "closePipe")
  /\ UNCHANGED <<table, created, accepted, numbers, listener, collecting, main>>

\* CloseHandle(overlapped.handle)
ClosePipe(t) ==
  /\ pc[t] = "closePipe"
  /\ CloseHandle(pipe[Conn(t)])
  /\ Goto(t, "closeEvent")
  /\ UNCHANGED <<created, accepted, numbers, signalled, listener, collecting, main>>

\* Mutant: the event of ConnectNamedPipe is forgotten.
CloseEventForgotten(t) == pc[t] = "closeEvent" /\ Step(t, {AfterClose(t)})

\* CloseHandle(overlapped.overlapped.hEvent)
CloseEvent(t) ==
  /\ pc[t] = "closeEvent"
  /\ CloseHandle(connect[Conn(t)])
  /\ Goto(t, AfterClose(t))
  /\ UNCHANGED <<created, accepted, numbers, signalled, listener, collecting, main>>

Close(t) == CloseTest(t) \/ CloseSet(t) \/ ClosePipe(t) \/ CloseEvent(t)

-----------------------------------------------------------------------------
\* close_tracked_connections: the next connection on_quit has pushed, or the
\* dummy, which has no numbers; and it may end at the sight of its event.
Pop == /\ pc[Collector] = "pop"
       /\ main = "pushed"
       /\ \/ /\ collecting < accepted
             /\ collecting' = collecting + 1
             /\ Goto(Collector, "close")
          \/ Goto(Collector, "exited") /\ UNCHANGED collecting
       /\ UNCHANGED <<table, created, accepted, numbers, signalled, listener, main>>

MainGoto(label) ==
  /\ main' = label
  /\ UNCHANGED <<table, created, accepted, numbers, signalled, listener, pc,
                 collecting>>

\* on_quit: what comes before the join of the listener, the pushes after it,
\* and the events of the workers once the collector has ended
Quit == main = "running" /\ MainGoto("joinListener")

\* Mutant: the connections are pushed while the listener still runs.
PushWithoutJoin == main = "joinListener" /\ MainGoto("pushed")

Push == main = "joinListener" /\ listener = "exited" /\ MainGoto("pushed")
StopWorkers == /\ main = "pushed"
               /\ pc[Collector] = "exited"
               /\ MainGoto("stopWorkers")

Next == \/ Listener
        \/ \E c \in Pipes : Worker(c)
        \/ \E t \in Closers : Close(t)
        \/ Pop
        \/ Quit \/ Push \/ StopWorkers

Spec == Init /\ [][Next]_vars

-----------------------------------------------------------------------------
Labels == {"none", "check", "recv", "read", "wait", "more", "readMore",
           "dispatch", "await", "send", "write", "close", "set", "closePipe",
           "closeEvent", "pop", "exited"}

Kinds == {"pipe", "connect", "closing", "event"}
Objects == [kind : Kinds, of : Pipes] \cup {Free}

TypeOK ==
  /\ table \in Seq(Objects)
  /\ created \in Pipes /\ accepted \in 0..created
  /\ pipe \in [Pipes -> 0..Len(table)] /\ connect \in [Pipes -> 0..Len(table)]
  /\ closing \in [Pipes -> 0..Len(table)] /\ event \in [Pipes -> 0..Len(table)]
  /\ signalled \subseteq Pipes
  /\ listener \in {"create", "connect", "wait", "exited"}
  /\ pc \in [Closers -> Labels]
  /\ collecting \in 0..accepted
  /\ main \in {"running", "joinListener", "pushed", "stopWorkers"}

\* The listener is ahead of its connections by the instances it has created
\* and not given away yet; on_quit joins it before the collector gets one.
ListenerInv ==
  /\ created > accepted
  /\ listener = "create" => created = accepted + 1
  /\ listener \in {"connect", "wait"} => created = accepted + 2
  /\ main \in {"pushed", "stopWorkers"} => listener = "exited"
  /\ \A c \in Pipes : pc[c] = "none" <=> c > accepted
  /\ signalled \subseteq 1..accepted
  /\ pc[Collector] \in {"pop", "close", "set", "closePipe", "closeEvent", "exited"}
  /\ pc[Collector] \notin {"pop", "exited"} => main = "pushed" /\ collecting > 0

\* Nothing in the table is named twice, and an event of closingEvent, which no
\* code closes, is where its connection says: although numbers are closed
\* twice, is_closed() never looks at another object.
TableInv ==
  /\ \A c \in 1..accepted : Denotes(closing[c], "closing", c)
  /\ \A m, n \in DOMAIN table :
       table[m] = table[n] /\ table[m].kind \in {"pipe", "connect", "closing"} => m = n
  /\ \A c \in Pipes : accepted < c /\ c <= created => Denotes(pipe[c], "pipe", c)
  /\ listener = "wait" => Denotes(connect[accepted + 1], "connect", accepted + 1)
  /\ \A n \in DOMAIN table :
       /\ table[n].kind = "pipe" => table[n].of <= created
       /\ table[n].kind = "closing" => table[n].of <= accepted
       /\ table[n].kind = "connect" =>
            \/ table[n].of <= accepted
            \/ table[n].of = accepted + 1 /\ listener \in {"wait", "exited"}

\* Closing number n as that of the object does not close another one, except
\* an event of a worker once on_quit has given the collector its connections.
Harmless(n, kind, c) ==
  \/ Denotes(n, kind, c)
  \/ /\ main \in {"pushed", "stopWorkers"}
     /\ n \in DOMAIN table /\ table[n].kind \in {"free", "event"}

BeingClosed(c) == \/ pc[c] \in {"closePipe", "closeEvent"}
                  \/ collecting = c /\ pc[Collector] \in {"closePipe", "closeEvent"}

\* As long as a thread may still close a number, it is harmless; a connection
\* whose closingEvent is set is being closed, or its numbers are given back.
CloseInv ==
  /\ \A c \in 1..accepted :
       /\ pc[c] \notin {"closeEvent", "exited"} => Harmless(pipe[c], "pipe", c)
       /\ pc[c] # "exited" => Harmless(connect[c], "connect", c)
       /\ pc[c] = "exited" /\ main # "stopWorkers" => c \in signalled
       /\ c \in signalled => \/ BeingClosed(c)
                             \/ /\ ~Denotes(pipe[c], "pipe", c)
                                /\ ~Denotes(connect[c], "connect", c)
  /\ pc[Collector] \in {"set", "closePipe"} =>
       Harmless(pipe[collecting], "pipe", collecting)
  /\ pc[Collector] \in {"set", "closePipe", "closeEvent"} =>
       Harmless(connect[collecting], "connect", collecting)
  /\ \A t \in Closers :
       /\ pc[t] \in {"closePipe", "closeEvent"} => Conn(t) \in signalled
       /\ pc[t] = "closeEvent" => ~Denotes(pipe[Conn(t)], "pipe", Conn(t))

\* Only close() of a connection closes its pipe and its event: no thread
\* closes them with a number it kept of an earlier connection, not even when
\* worker and collector both get past the test of closingEvent.
OpenUntilClosed ==
  \A c \in 1..accepted :
    c \notin signalled => /\ Denotes(pipe[c], "pipe", c)
                          /\ Denotes(connect[c], "connect", c)

\* A worker never reads a request from, nor writes a reply to, the pipe of
\* another client, also when its number was closed behind its back.
NoCrossTalk ==
  \A c \in Pipes : \A d \in Pipes \ {c} :
    pc[c] \in {"read", "readMore", "write"} => ~Denotes(pipe[c], "pipe", d)

\* Until on_quit gives the collector connections to close, a worker that waits
\* for a read or a call waits for its own event.
OwnEvent ==
  main \in {"running", "joinListener"} =>
    \A c \in Pipes : pc[c] \in {"read", "wait", "await", "write"} =>
                       Denotes(event[c], "event", c)

\* The inductive invariant of the numbers
HandlesInv == /\ TypeOK
              /\ ListenerInv
              /\ TableInv
              /\ CloseInv
              /\ OpenUntilClosed
              /\ OwnEvent

\* A connection that was closed gives its numbers back: clients that come and
\* go do not use up pipes, nor events of ConnectNamedPipe.
GivenBack ==
  \A c \in 1..accepted :
    pc[c] = "exited" /\ main # "stopWorkers" =>
      \/ ~Denotes(pipe[c], "pipe", c) /\ ~Denotes(connect[c], "connect", c)
      \/ collecting = c /\ pc[Collector] \in {"closePipe", "closeEvent"}
=============================================================================
