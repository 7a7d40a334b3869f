---------------------------- MODULE HandlesProofs ----------------------------
(***************************************************************************)
(* For every number of connections and of kernel objects: although numbers *)
(* are closed twice and used again, no thread closes, reads or waits for   *)
(* the object of another connection.                                       *)
(***************************************************************************)
EXTENDS Handles, TLAPS

LEMMA ObjectFacts ==
  /\ \A kind, c : Object(kind, c).kind = kind /\ Object(kind, c).of = c
  /\ Free \in Objects /\ Free.kind = "free"
  /\ \A kind \in Kinds, c \in Pipes : Object(kind, c) \in Objects
  /\ \A o \in Objects : o # Free => /\ o.kind \in Kinds /\ o.of \in Pipes
                                    /\ o = Object(o.kind, o.of)
  /\ "free" \notin Kinds
BY DEF Object, Free, Objects, Kinds

LEMMA ExceptIsSeq ==
  ASSUME NEW S, NEW s \in Seq(S), NEW e \in S, NEW n \in DOMAIN s
  PROVE  LET t == [s EXCEPT ![n] = e]
         IN  /\ t \in Seq(S) /\ Len(t) = Len(s) /\ Len(s) \in Nat
             /\ DOMAIN t = DOMAIN s /\ DOMAIN s = 1..Len(s)
             /\ t[n] = e /\ \A m \in DOMAIN s : m # n => t[m] = s[m]
OBVIOUS

\* What is in the table after a number was handed out, and after one was closed
LEMMA AllocateSteps ==
  ASSUME TypeOK, NEW n, NEW kind \in Kinds, NEW c \in Pipes, Allocate(n, kind, c)
  PROVE  /\ table' \in Seq(Objects)
         /\ Len(table) <= Len(table') /\ Len(table) \in Nat /\ Len(table') \in Nat
         /\ n \in 1..Len(table')
         /\ n \in DOMAIN table' /\ table'[n] = Object(kind, c)
         /\ n \in DOMAIN table => table[n] = Free
         /\ \A m \in DOMAIN table : m \in DOMAIN table'
         /\ \A m \in DOMAIN table' :
              m # n => m \in DOMAIN table /\ table'[m] = table[m]
<1>1. table \in Seq(Objects) /\ Object(kind, c) \in Objects
  BY ObjectFacts DEF TypeOK
<1>2. CASE n \in DOMAIN table
  <2>1. table' = [table EXCEPT ![n] = Object(kind, c)] /\ table[n] = Free
    BY <1>1, <1>2 DEF Allocate, Available
  <2>2. /\ table' \in Seq(Objects) /\ Len(table') = Len(table) /\ Len(table) \in Nat
        /\ DOMAIN table' = DOMAIN table /\ DOMAIN table = 1..Len(table)
        /\ table'[n] = Object(kind, c)
        /\ \A m \in DOMAIN table : m # n => table'[m] = table[m]
    BY <1>1, <1>2, <2>1, ExceptIsSeq
  <2> QED
    BY <1>2, <2>1, <2>2
<1>3. CASE n \notin DOMAIN table
  <2>1. n \in Available /\ table' = Append(table, Object(kind, c))
    BY <1>3 DEF Allocate
  <2>2. n = Len(table) + 1
    BY <1>3, <2>1 DEF Available
  <2> QED
    BY <1>1, <1>3, <2>1, <2>2
<1> QED
  BY <1>2, <1>3

LEMMA CloseHandleSteps ==
  ASSUME TypeOK, NEW n, CloseHandle(n)
  PROVE  /\ table' \in Seq(Objects)
         /\ Len(table') = Len(table) /\ Len(table) \in Nat
         /\ n \in DOMAIN table => table'[n] = Free
         /\ DOMAIN table' = DOMAIN table
         /\ \A m \in DOMAIN table : m # n => table'[m] = table[m]
<1>1. table \in Seq(Objects) /\ Free \in Objects
  BY ObjectFacts DEF TypeOK
<1>2. CASE n \in DOMAIN table
  BY <1>1, <1>2 DEF CloseHandle
<1>3. CASE n \notin DOMAIN table
  BY <1>1, <1>3 DEF CloseHandle
<1> QED
  BY <1>2, <1>3

\* Denotes after a step
DenotesThen(n, kind, c) == n \in DOMAIN table' /\ table'[n] = Object(kind, c)

LEMMA AllocateDenotes ==
  ASSUME TypeOK, NEW n, NEW kind \in Kinds, NEW c \in Pipes, Allocate(n, kind, c)
  PROVE  \A m : \A k \in Kinds : \A d :
           /\ DenotesThen(m, k, d) <=> IF m = n THEN k = kind /\ d = c
                                                ELSE Denotes(m, k, d)
           /\ Denotes(m, k, d) => m # n
<1>1. \A k \in Kinds : \A d : Object(k, d) # Free
  BY DEF Object, Free, Kinds
<1>2. \A k1, d1, k2, d2 : Object(k1, d1) = Object(k2, d2) => k1 = k2 /\ d1 = d2
  BY ObjectFacts
<1>3. /\ n \in DOMAIN table' /\ table'[n] = Object(kind, c)
      /\ n \in DOMAIN table => table[n] = Free
      /\ \A m \in DOMAIN table : m \in DOMAIN table'
      /\ \A m \in DOMAIN table' :
           m # n => m \in DOMAIN table /\ table'[m] = table[m]
  BY AllocateSteps
<1> SUFFICES ASSUME NEW m, NEW k \in Kinds, NEW d
             PROVE  /\ DenotesThen(m, k, d) <=> IF m = n THEN k = kind /\ d = c
                                                        ELSE Denotes(m, k, d)
                    /\ Denotes(m, k, d) => m # n
  OBVIOUS
<1>4. Denotes(m, k, d) => m # n
  BY <1>1, <1>3 DEF Denotes
<1>5. CASE m = n
  BY <1>2, <1>3, <1>4, <1>5 DEF DenotesThen
<1>6. CASE m # n
  BY <1>3, <1>6 DEF DenotesThen, Denotes
<1> QED
  BY <1>4, <1>5, <1>6

\* A number that stands for something goes on doing so.
LEMMA AllocateKeeps ==
  ASSUME TypeOK, NEW n, NEW kind \in Kinds, NEW c \in Pipes, Allocate(n, kind, c)
  PROVE  /\ \A m : \A k \in Kinds : \A d : Denotes(m, k, d) => DenotesThen(m, k, d)
         /\ DenotesThen(n, kind, c)
BY AllocateDenotes

LEMMA CloseHandleDenotes ==
  ASSUME TypeOK, NEW n, CloseHandle(n)
  PROVE  \A m : \A k \in Kinds : \A d :
           DenotesThen(m, k, d) <=> Denotes(m, k, d) /\ m # n
<1>1. \A k \in Kinds : \A d : Object(k, d) # Free
  BY DEF Object, Free, Kinds
<1> SUFFICES ASSUME NEW m, NEW k \in Kinds, NEW d
             PROVE  DenotesThen(m, k, d) <=> Denotes(m, k, d) /\ m # n
  OBVIOUS
<1>2. DOMAIN table' = DOMAIN table
  BY CloseHandleSteps
<1>3. CASE m = n
  BY <1>1, <1>2, <1>3, CloseHandleSteps DEF DenotesThen, Denotes
<1>4. CASE m # n
  BY <1>2, <1>4, CloseHandleSteps DEF DenotesThen, Denotes
<1> QED
  BY <1>3, <1>4

LEMMA Threads ==
  /\ Pipes \subseteq Nat \ {0} /\ Collector \notin Pipes
  /\ Pipes \subseteq Closers /\ Collector \in Closers
  /\ \A t \in Closers : t # Collector => t \in Pipes
BY HandlesAssumption DEF Pipes, Collector, Closers

-----------------------------------------------------------------------------
\* The steps of a worker up to its close(): it may make one event, and goes on
Working == {"check", "recv", "read", "wait", "more", "readMore", "dispatch",
            "await", "send", "write"}

LEMMA WorkerSteps ==
  ASSUME NEW c \in Pipes, Worker(c)
  PROVE  /\ UNCHANGED <<created, accepted, pipe, connect, closing, signalled,
                        listener, collecting, main>>
         /\ pc[c] \in Working
         /\ \E label \in Working \cup {"close", "exited"} :
              /\ pc' = [pc EXCEPT ![c] = label]
              /\ label = "exited" => main = "stopWorkers"
              /\ \/ \E n : Allocate(n, "event", c) /\ event' = [event EXCEPT ![c] = n]
                 \/ /\ UNCHANGED <<table, event>>
                    /\ label \in {"read", "wait", "await", "write"} => pc[c] = "read"
<1> USE DEF Working, Step, NewEvent, Goto, numbers
<1>1. CASE Check(c)
  BY <1>1 DEF Check
<1>2. CASE Recv(c)
  BY <1>2 DEF Recv
<1>3. CASE ReadFile(c)
  BY <1>3 DEF ReadFile
<1>4. CASE Wait(c)
  BY <1>4 DEF Wait
<1>5. CASE Dispatch(c)
  BY <1>5 DEF Dispatch
<1>6. CASE Await(c)
  BY <1>6 DEF Await
<1>7. CASE Send(c)
  BY <1>7 DEF Send
<1> QED
  BY <1>1, <1>2, <1>3, <1>4, <1>5, <1>6, <1>7 DEF Worker

-----------------------------------------------------------------------------
\* Types

LEMMA InitTypeOK == Init => TypeOK
<1> SUFFICES ASSUME Init PROVE TypeOK
  OBVIOUS
<1>1. 1 \in Pipes /\ Object("pipe", 1) \in Objects
  BY HandlesAssumption DEF Pipes, Object, Objects, Kinds
<1>2. table \in Seq(Objects) /\ Len(table) = 1
  BY <1>1 DEF Init
<1>3. NoNumber \in [Pipes -> 0..1]
  BY DEF NoNumber, Null
<1>4. /\ pipe \in [Pipes -> 0..1] /\ connect \in [Pipes -> 0..1]
      /\ closing \in [Pipes -> 0..1] /\ event \in [Pipes -> 0..1]
  BY <1>1, <1>3 DEF Init
<1>5. pc \in [Closers -> Labels]
  BY DEF Init, Labels
<1> QED
  BY <1>1, <1>2, <1>4, <1>5 DEF Init, TypeOK

\* Numbers stay in range, because the table never gets shorter.
LEMMA NumbersStay ==
  ASSUME NEW f \in [Pipes -> 0..Len(table)],
         Len(table) \in Nat, Len(table') \in Nat, Len(table) <= Len(table')
  PROVE  /\ f \in [Pipes -> 0..Len(table')]
         /\ \A n \in 1..Len(table'), c \in Pipes :
              [f EXCEPT ![c] = n] \in [Pipes -> 0..Len(table')]
<1>1. 0..Len(table) \subseteq 0..Len(table')
  OBVIOUS
<1>2. f \in [Pipes -> 0..Len(table')]
  BY <1>1
<1>3. 1..Len(table') \subseteq 0..Len(table')
  OBVIOUS
<1> QED
  BY <1>2, <1>3

LEMMA AllocateTypeOK ==
  ASSUME TypeOK, NEW n, NEW kind \in Kinds, NEW c \in Pipes, Allocate(n, kind, c)
  PROVE  /\ table' \in Seq(Objects)
         /\ \A f \in {pipe, connect, closing, event} :
              /\ f \in [Pipes -> 0..Len(table')]
              /\ [f EXCEPT ![c] = n] \in [Pipes -> 0..Len(table')]
<1>1. /\ table' \in Seq(Objects)
      /\ Len(table) \in Nat /\ Len(table') \in Nat /\ Len(table) <= Len(table')
      /\ n \in 1..Len(table')
  BY AllocateSteps
<1>2. ASSUME NEW f \in {pipe, connect, closing, event}
      PROVE  /\ f \in [Pipes -> 0..Len(table')]
             /\ [f EXCEPT ![c] = n] \in [Pipes -> 0..Len(table')]
  <2>1. f \in [Pipes -> 0..Len(table)]
    BY <1>2 DEF TypeOK
  <2> QED
    BY <1>1, <2>1, NumbersStay
<1> QED
  BY <1>1, <1>2

LEMMA Closing ==
  ASSUME TypeOK, ListenerInv, NEW t \in Closers,
         pc[t] \in {"close", "set", "closePipe", "closeEvent"}
  PROVE  Conn(t) \in Pipes /\ Conn(t) \in 1..accepted
<1>1. CASE t = Collector
  <2>1. collecting > 0 /\ collecting \in 0..accepted /\ accepted \in 0..created
    BY <1>1 DEF TypeOK, ListenerInv
  <2>2. created \in 1..MaxPipes /\ MaxPipes \in Nat
    BY HandlesAssumption DEF TypeOK, Pipes
  <2> QED
    BY <1>1, <2>1, <2>2 DEF Conn, Pipes
<1>2. CASE t # Collector
  <2>1. t \in Pipes /\ pc[t] # "none"
    BY <1>2, Threads
  <2> QED
    BY <1>2, <2>1, Threads DEF TypeOK, ListenerInv, Conn, Pipes
<1> QED
  BY <1>1, <1>2

LEMMA NextTypeOK ==
  ASSUME TypeOK, ListenerInv, Next
  PROVE  TypeOK'
<1>1. /\ created \in Nat /\ accepted \in Nat /\ MaxPipes \in Nat
      /\ pc \in [Closers -> Labels]
  BY HandlesAssumption DEF TypeOK, Pipes
<1>2. CASE AcceptCreate
  <2>1. ASSUME NEW n, Allocate(n, "pipe", created + 1), created < MaxPipes,
               pipe' = [pipe EXCEPT ![created + 1] = n], created' = created + 1
        PROVE  TypeOK'
    <3>1. created + 1 \in Pipes
      BY <1>1, <2>1 DEF Pipes
    <3>2. /\ table' \in Seq(Objects) /\ pipe' \in [Pipes -> 0..Len(table')]
          /\ connect \in [Pipes -> 0..Len(table')]
          /\ closing \in [Pipes -> 0..Len(table')]
          /\ event \in [Pipes -> 0..Len(table')]
      BY <2>1, <3>1, AllocateTypeOK DEF Kinds
    <3>3. accepted \in 0..created'
      BY <1>1, <2>1 DEF TypeOK
    <3> QED
      BY <1>2, <2>1, <3>1, <3>2, <3>3 DEF AcceptCreate, TypeOK
  <2>2. CASE UNCHANGED <<table, created, pipe>> /\ listener' = "exited"
    BY <1>2, <2>2 DEF AcceptCreate, TypeOK
  <2> QED
    BY <1>2, <2>1, <2>2 DEF AcceptCreate
<1>3. CASE AcceptConnect
  <2>1. accepted + 1 \in Pipes
    BY <1>1, <1>3 DEF AcceptConnect, ListenerInv, TypeOK, Pipes
  <2>2. PICK n : /\ Allocate(n, "connect", accepted + 1)
                 /\ connect' = [connect EXCEPT ![accepted + 1] = n]
    BY <1>3 DEF AcceptConnect
  <2>3. /\ table' \in Seq(Objects) /\ connect' \in [Pipes -> 0..Len(table')]
        /\ pipe \in [Pipes -> 0..Len(table')]
        /\ closing \in [Pipes -> 0..Len(table')]
        /\ event \in [Pipes -> 0..Len(table')]
    BY <2>1, <2>2, AllocateTypeOK DEF Kinds
  <2> QED
    BY <1>3, <2>3 DEF AcceptConnect, TypeOK
<1>4. CASE AcceptReturn
  <2>1. accepted + 1 \in Pipes /\ accepted + 1 \in 0..created
    BY <1>1, <1>4 DEF AcceptReturn, ListenerInv, TypeOK, Pipes
  <2>2. PICK n : /\ Allocate(n, "closing", accepted + 1)
                 /\ closing' = [closing EXCEPT ![accepted + 1] = n]
    BY <1>4 DEF AcceptReturn
  <2>3. /\ table' \in Seq(Objects) /\ closing' \in [Pipes -> 0..Len(table')]
        /\ pipe \in [Pipes -> 0..Len(table')]
        /\ connect \in [Pipes -> 0..Len(table')]
        /\ event \in [Pipes -> 0..Len(table')]
    BY <2>1, <2>2, AllocateTypeOK DEF Kinds
  <2>4. pc' \in [Closers -> Labels]
    BY <1>1, <1>4 DEF AcceptReturn, Goto, Labels
  <2>5. collecting \in 0..accepted + 1
    BY <1>1 DEF TypeOK
  <2> QED
    BY <1>4, <2>1, <2>3, <2>4, <2>5 DEF AcceptReturn, TypeOK
<1>5. ASSUME NEW c \in Pipes, Worker(c) PROVE TypeOK'
  <2>1. PICK label \in Working \cup {"close", "exited"} :
          /\ pc' = [pc EXCEPT ![c] = label]
          /\ \/ \E n : Allocate(n, "event", c) /\ event' = [event EXCEPT ![c] = n]
             \/ UNCHANGED <<table, event>>
    BY <1>5, WorkerSteps
  <2>2. pc' \in [Closers -> Labels]
    BY <1>1, <2>1 DEF Working, Labels
  <2>3. /\ table' \in Seq(Objects) /\ event' \in [Pipes -> 0..Len(table')]
        /\ pipe \in [Pipes -> 0..Len(table')]
        /\ connect \in [Pipes -> 0..Len(table')]
        /\ closing \in [Pipes -> 0..Len(table')]
    <3>1. CASE \E n : Allocate(n, "event", c) /\ event' = [event EXCEPT ![c] = n]
      BY <3>1, AllocateTypeOK DEF Kinds
    <3>2. CASE UNCHANGED <<table, event>>
      BY <3>2 DEF TypeOK
    <3> QED
      BY <2>1, <3>1, <3>2
  <2> QED
    BY <1>5, <2>2, <2>3, WorkerSteps DEF TypeOK
<1>6. ASSUME NEW t \in Closers, Close(t) PROVE TypeOK'
  <2>1. pc' \in [Closers -> Labels]
    BY <1>1, <1>6 DEF Close, CloseTest, CloseSet, ClosePipe, CloseEvent, Step,
                      Goto, AfterClose, Labels
  <2>2. CASE CloseTest(t)
    BY <2>1, <2>2 DEF CloseTest, Step, numbers, TypeOK
  <2>3. CASE CloseSet(t)
    <3>1. Conn(t) \in Pipes
      BY <2>3, Closing DEF CloseSet
    <3> QED
      BY <2>1, <2>3, <3>1 DEF CloseSet, numbers, TypeOK
  <2>4. CASE ClosePipe(t) \/ CloseEvent(t)
    <3>1. \E n : CloseHandle(n)
      BY <2>4 DEF ClosePipe, CloseEvent
    <3>2. table' \in Seq(Objects) /\ Len(table') = Len(table)
      BY <3>1, CloseHandleSteps
    <3> QED
      BY <2>1, <2>4, <3>2 DEF ClosePipe, CloseEvent, numbers, TypeOK
  <2> QED
    BY <1>6, <2>2, <2>3, <2>4 DEF Close
<1>7. CASE Pop
  <2>1. pc' \in [Closers -> Labels]
    BY <1>1, <1>7 DEF Pop, Goto, Labels
  <2>2. collecting' \in 0..accepted
    BY <1>1, <1>7 DEF Pop, TypeOK
  <2> QED
    BY <1>7, <2>1, <2>2 DEF Pop, numbers, TypeOK
<1>8. CASE Quit \/ Push \/ StopWorkers
  BY <1>8 DEF Quit, Push, StopWorkers, MainGoto, numbers, TypeOK
<1> QED
  BY <1>2, <1>3, <1>4, <1>5, <1>6, <1>7, <1>8 DEF Next, Listener

-----------------------------------------------------------------------------
\* Which connections there are

LEMMA InitListenerInv == Init => ListenerInv
BY Threads DEF Init, ListenerInv, Closers

\* What the steps of one worker or closer do to the program counters
LEMMA ThreadSteps ==
  ASSUME TypeOK, ListenerInv, NEW t \in Closers, Close(t) \/ (t \in Pipes /\ Worker(t))
  PROVE  /\ UNCHANGED <<created, accepted, pipe, connect, closing, listener,
                        collecting, main>>
         /\ pc[t] \notin {"none", "pop", "exited"}
         /\ pc'[t] \in Labels \ {"none"}
         /\ t = Collector => pc'[t] \in {"pop", "set", "closePipe", "closeEvent"}
         /\ \A u \in Closers : u # t => pc'[u] = pc[u]
<1>1. pc \in [Closers -> Labels]
  BY DEF TypeOK
<1>2. CASE t \in Pipes /\ Worker(t)
  BY <1>1, <1>2, WorkerSteps, Threads DEF Working, Labels
<1>3. CASE Close(t)
  <2>1. /\ UNCHANGED <<created, accepted, pipe, connect, closing, listener,
                       collecting, main>>
        /\ \E label \in {"pop", "exited", "set", "closePipe", "closeEvent"} :
             /\ pc' = [pc EXCEPT ![t] = label]
             /\ label = "exited" => t # Collector
        /\ pc[t] \in {"close", "set", "closePipe", "closeEvent"}
    BY <1>3 DEF Close, CloseTest, CloseSet, ClosePipe, CloseEvent, Step, Goto,
                AfterClose, numbers
  <2> QED
    BY <1>1, <2>1 DEF Labels
<1> QED
  BY <1>2, <1>3

LEMMA NextListenerInv ==
  ASSUME TypeOK, ListenerInv, Next
  PROVE  ListenerInv'
<1>1. /\ created \in Nat /\ accepted \in Nat /\ pc \in [Closers -> Labels]
      /\ collecting \in Nat
  BY HandlesAssumption DEF TypeOK, Pipes
<1>2. CASE AcceptCreate
  BY <1>1, <1>2 DEF AcceptCreate, ListenerInv
<1>3. CASE AcceptConnect
  BY <1>1, <1>3 DEF AcceptConnect, ListenerInv
<1>4. CASE AcceptReturn
  <2>1. /\ accepted' = accepted + 1 /\ created' = created /\ created = accepted + 2
        /\ listener' = "create" /\ UNCHANGED <<signalled, main, collecting>>
        /\ main \notin {"pushed", "stopWorkers"}
    BY <1>4 DEF AcceptReturn, ListenerInv
  <2>2. accepted + 1 \in Pipes
    BY <1>1, <2>1, HandlesAssumption DEF TypeOK, Pipes
  <2>3. \A u \in Closers : pc'[u] = IF u = accepted + 1 THEN "check" ELSE pc[u]
    BY <1>1, <1>4 DEF AcceptReturn, Goto
  <2>4. \A c \in Pipes : pc'[c] = "none" <=> c > accepted'
    BY <1>1, <2>1, <2>3, Threads DEF ListenerInv
  <2>5. signalled \subseteq 1..accepted'
    BY <1>1, <2>1 DEF ListenerInv
  <2>6. pc'[Collector] = pc[Collector]
    BY <2>2, <2>3, Threads
  <2> QED
    BY <1>1, <2>1, <2>4, <2>5, <2>6 DEF ListenerInv
<1>5. ASSUME NEW t \in Closers, Close(t) \/ (t \in Pipes /\ Worker(t))
      PROVE  ListenerInv'
  <2>1. \A c \in Pipes : pc'[c] = "none" <=> pc[c] = "none"
    BY <1>5, ThreadSteps, Threads
  <2>2. signalled' \subseteq 1..accepted
    <3>1. CASE CloseSet(t)
      BY <3>1, Closing DEF CloseSet, ListenerInv
    <3>2. CASE ~CloseSet(t)
      BY <1>5, <3>2, WorkerSteps DEF Close, CloseTest, ClosePipe, CloseEvent, Step,
                                     ListenerInv
    <3> QED
      BY <3>1, <3>2
  <2>3. pc'[Collector] \in {"pop", "close", "set", "closePipe", "closeEvent", "exited"}
    BY <1>5, ThreadSteps, Threads DEF ListenerInv
  <2>4. pc'[Collector] \notin {"pop", "exited"} => main = "pushed" /\ collecting > 0
    BY <1>5, ThreadSteps, Threads DEF ListenerInv
  <2> QED
    BY <1>5, <2>1, <2>2, <2>3, <2>4, ThreadSteps DEF ListenerInv
<1>6. CASE Pop
  <2>1. \A c \in Pipes : pc'[c] = pc[c]
    BY <1>1, <1>6, Threads DEF Pop, Goto
  <2>2. pc'[Collector] \in {"close", "exited"}
    BY <1>1, <1>6, Threads DEF Pop, Goto
  <2>3. pc'[Collector] = "close" => main = "pushed" /\ collecting' > 0
    BY <1>1, <1>6, Threads DEF Pop, Goto
  <2> QED
    BY <1>6, <2>1, <2>2, <2>3 DEF Pop, ListenerInv
<1>7. CASE Quit \/ Push \/ StopWorkers
  BY <1>7 DEF Quit, Push, StopWorkers, MainGoto, ListenerInv
<1> QED
  BY <1>2, <1>3, <1>4, <1>5, <1>6, <1>7, Threads DEF Next, Listener

-----------------------------------------------------------------------------
\* What is in the table

LEMMA InitTableInv == Init => TableInv
<1> SUFFICES ASSUME Init PROVE TableInv
  OBVIOUS
<1>1. /\ DOMAIN table = {1} /\ table[1] = Object("pipe", 1)
      /\ created = 1 /\ accepted = 0 /\ listener = "create"
  BY DEF Init
<1>2. pipe[1] = 1
  BY HandlesAssumption DEF Init, NoNumber, Pipes
<1> QED
  BY <1>1, <1>2, ObjectFacts, Threads DEF TableInv, Denotes, Pipes

Named == {"pipe", "connect", "closing"}

\* A number that is handed out for a new object names nothing twice.
LEMMA AllocateUnique ==
  ASSUME TypeOK, TableInv, NEW n, NEW kind \in Kinds, NEW c \in Pipes,
         Allocate(n, kind, c), kind \in Named => \A m : ~Denotes(m, kind, c)
  PROVE  \A k, m \in DOMAIN table' :
           table'[k] = table'[m] /\ table'[k].kind \in Named => k = m
<1>1. /\ n \in DOMAIN table' /\ table'[n] = Object(kind, c)
      /\ \A m \in DOMAIN table' : m # n => m \in DOMAIN table /\ table'[m] = table[m]
  BY AllocateSteps
<1>2. \A m \in DOMAIN table' : m # n /\ kind \in Named => table'[m] # Object(kind, c)
  BY <1>1 DEF Denotes
<1> SUFFICES ASSUME NEW k \in DOMAIN table', NEW m \in DOMAIN table',
                    table'[k] = table'[m], table'[k].kind \in Named
             PROVE  k = m
  OBVIOUS
<1>3. CASE k = n \/ m = n
  <2>1. table'[k] = Object(kind, c) /\ kind \in Named
    BY <1>1, <1>3, ObjectFacts
  <2> QED
    BY <1>2, <1>3, <2>1
<1>4. CASE k # n /\ m # n
  BY <1>1, <1>4 DEF TableInv, Named
<1> QED
  BY <1>3, <1>4

LEMMA AllocateBounds ==
  ASSUME TypeOK, NEW n, NEW kind \in Kinds, NEW c \in Pipes, Allocate(n, kind, c)
  PROVE  \A m \in DOMAIN table' :
           \/ m = n /\ table'[m].kind = kind /\ table'[m].of = c
           \/ m \in DOMAIN table /\ table'[m] = table[m]
<1>1. /\ table'[n] = Object(kind, c)
      /\ \A m \in DOMAIN table' : m # n => m \in DOMAIN table /\ table'[m] = table[m]
  BY AllocateSteps
<1>2. table'[n].kind = kind /\ table'[n].of = c
  BY <1>1, ObjectFacts
<1> QED
  BY <1>1, <1>2

\* The number a closer is about to close does not stand for anything that is
\* not its connection's own, except for an event of a worker during the quit.
LEMMA ClosedNumber ==
  ASSUME TypeOK, ListenerInv, CloseInv, NEW t \in Closers
  PROVE  /\ pc[t] = "closePipe" => Harmless(pipe[Conn(t)], "pipe", Conn(t))
         /\ pc[t] = "closeEvent" => Harmless(connect[Conn(t)], "connect", Conn(t))
<1>1. CASE t = Collector
  BY <1>1 DEF CloseInv, Conn
<1>2. CASE t # Collector
  <2>1. pc[t] \in {"closePipe", "closeEvent"} => t \in 1..accepted /\ Conn(t) = t
    BY <1>2, Closing DEF Conn
  <2> QED
    BY <2>1 DEF CloseInv
<1> QED
  BY <1>1, <1>2

LEMMA HarmlessClose ==
  ASSUME TypeOK, NEW n, NEW kind \in {"pipe", "connect"}, NEW d,
         Harmless(n, kind, d), CloseHandle(n)
  PROVE  /\ \A m : \A k \in Kinds : \A c :
              /\ DenotesThen(m, k, c) => Denotes(m, k, c)
              /\ /\ Denotes(m, k, c) /\ (k # kind \/ c # d)
                 /\ k = "event" => main \notin {"pushed", "stopWorkers"}
                 => DenotesThen(m, k, c)
         /\ ~DenotesThen(n, kind, d)
<1>1. \A m : \A k \in Kinds : \A c : DenotesThen(m, k, c) <=> Denotes(m, k, c) /\ m # n
  BY CloseHandleDenotes
<1>2. ASSUME NEW k \in Kinds, NEW c, Denotes(n, k, c), k # kind \/ c # d,
             k = "event" => main \notin {"pushed", "stopWorkers"}
      PROVE  FALSE
  <2>1. table[n] = Object(k, c) /\ table[n].kind = k /\ table[n].of = c
    BY <1>2, ObjectFacts DEF Denotes
  <2>2. Denotes(n, kind, d) => table[n].kind = kind /\ table[n].of = d
    BY ObjectFacts DEF Denotes
  <2> QED
    BY <1>2, <2>1, <2>2 DEF Harmless, Kinds
<1>3. kind \in Kinds
  BY DEF Kinds
<1>4. ASSUME NEW m, NEW k \in Kinds, NEW c
      PROVE  /\ DenotesThen(m, k, c) => Denotes(m, k, c)
             /\ /\ Denotes(m, k, c) /\ (k # kind \/ c # d)
                /\ k = "event" => main \notin {"pushed", "stopWorkers"}
                => DenotesThen(m, k, c)
  <2>1. DenotesThen(m, k, c) <=> Denotes(m, k, c) /\ m # n
    BY <1>1
  <2>2. CASE m = n
    BY <1>2, <2>1, <2>2
  <2>3. CASE m # n
    BY <2>1, <2>3
  <2> QED
    BY <2>2, <2>3
<1>5. ~DenotesThen(n, kind, d)
  BY <1>1, <1>3
<1> QED
  BY <1>4, <1>5

LEMMA NextTableInv ==
  ASSUME TypeOK, ListenerInv, TableInv, CloseInv, Next
  PROVE  TableInv'
<1>1. created \in Nat /\ accepted \in Nat /\ created > accepted
  BY HandlesAssumption DEF TypeOK, Pipes, ListenerInv
<1>2. CASE AcceptCreate
  <2>1. ASSUME NEW n, Allocate(n, "pipe", created + 1), created < MaxPipes,
               pipe' = [pipe EXCEPT ![created + 1] = n], created' = created + 1,
               listener' = "connect"
        PROVE  TableInv'
    <3>1. created + 1 \in Pipes
      BY <1>1, <2>1, HandlesAssumption DEF Pipes
    <3>2. \A m : ~Denotes(m, "pipe", created + 1)
      BY <1>1, ObjectFacts DEF TableInv, Denotes
    <3>3. UNCHANGED <<accepted, closing>>
      BY <1>2 DEF AcceptCreate
    <3>4. \A c \in 1..accepted : DenotesThen(closing[c], "closing", c)
      BY <2>1, <3>1, AllocateKeeps DEF TableInv, Kinds
    <3>5. ASSUME NEW c \in Pipes, accepted < c, c <= created'
          PROVE  DenotesThen(pipe'[c], "pipe", c)
      <4>1. CASE c = created + 1
        BY <2>1, <3>1, <4>1, AllocateKeeps DEF Kinds, TypeOK
      <4>2. CASE c # created + 1
        <5>1. Denotes(pipe[c], "pipe", c) /\ pipe'[c] = pipe[c]
          BY <1>1, <2>1, <3>5, <4>2, Threads DEF TableInv, TypeOK
        <5> QED
          BY <2>1, <3>1, <5>1, AllocateKeeps DEF Kinds
      <4> QED
        BY <4>1, <4>2
    <3>6. \A m \in DOMAIN table' :
            /\ table'[m].kind = "pipe" => table'[m].of <= created'
            /\ table'[m].kind = "closing" => table'[m].of <= accepted
            /\ table'[m].kind = "connect" => table'[m].of <= accepted
      <4>1. listener = "create"
        BY <1>2 DEF AcceptCreate
      <4>2. ASSUME NEW m \in DOMAIN table, table[m].kind = "pipe"
            PROVE  table[m].of <= created + 1
        <5>1. table[m] \in Objects /\ table[m] # Free
          BY <4>2, ObjectFacts DEF TypeOK, Kinds
        <5>2. table[m].of \in Nat /\ table[m].of <= created
          BY <4>2, <5>1, ObjectFacts, Threads DEF TableInv
        <5> QED
          BY <1>1, <5>2
      <4>3. "pipe" \in Kinds
        BY DEF Kinds
      <4> QED
        BY <1>1, <2>1, <3>1, <4>1, <4>2, <4>3, AllocateBounds DEF TableInv
    <3>7. \A k, m \in DOMAIN table' :
            table'[k] = table'[m] /\ table'[k].kind \in Named => k = m
      BY <2>1, <3>1, <3>2, AllocateUnique DEF Kinds
    <3> QED
      BY <2>1, <3>3, <3>4, <3>5, <3>6, <3>7 DEF TableInv, Named, DenotesThen, Denotes
  <2>2. CASE UNCHANGED <<table, created, pipe>> /\ listener' = "exited"
    BY <1>2, <2>2 DEF AcceptCreate, TableInv, Denotes
  <2> QED
    BY <1>2, <2>1, <2>2 DEF AcceptCreate
<1>3. CASE AcceptConnect
  <2>1. accepted + 1 \in Pipes
    BY <1>1, HandlesAssumption DEF TypeOK, Pipes
  <2>2. PICK n : /\ Allocate(n, "connect", accepted + 1)
                 /\ connect' = [connect EXCEPT ![accepted + 1] = n]
    BY <1>3 DEF AcceptConnect
  <2>3. /\ UNCHANGED <<accepted, closing, created, pipe>>
        /\ listener = "connect" /\ listener' \in {"wait", "exited"}
    BY <1>3 DEF AcceptConnect
  <2>4. \A m : ~Denotes(m, "connect", accepted + 1)
    BY <1>1, <2>3, ObjectFacts DEF TableInv, Denotes
  <2>5. /\ \A c \in 1..accepted : DenotesThen(closing[c], "closing", c)
        /\ \A c \in Pipes :
             accepted < c /\ c <= created => DenotesThen(pipe[c], "pipe", c)
        /\ DenotesThen(connect'[accepted + 1], "connect", accepted + 1)
    BY <2>1, <2>2, AllocateKeeps DEF TableInv, Kinds, TypeOK
  <2>6. \A m \in DOMAIN table' :
          /\ table'[m].kind = "pipe" => table'[m].of <= created
          /\ table'[m].kind = "closing" => table'[m].of <= accepted
          /\ table'[m].kind = "connect" =>
               table'[m].of <= accepted \/ table'[m].of = accepted + 1
    BY <2>1, <2>2, <2>3, AllocateBounds DEF TableInv, Kinds
  <2>7. \A k, m \in DOMAIN table' :
          table'[k] = table'[m] /\ table'[k].kind \in Named => k = m
    BY <2>1, <2>2, <2>4, AllocateUnique DEF Kinds
  <2> QED
    BY <2>3, <2>5, <2>6, <2>7 DEF TableInv, Named, DenotesThen, Denotes
<1>4. CASE AcceptReturn
  <2>1. accepted + 1 \in Pipes
    BY <1>1, HandlesAssumption DEF TypeOK, Pipes
  <2>2. PICK n : /\ Allocate(n, "closing", accepted + 1)
                 /\ closing' = [closing EXCEPT ![accepted + 1] = n]
    BY <1>4 DEF AcceptReturn
  <2>3. /\ accepted' = accepted + 1 /\ UNCHANGED <<created, pipe, connect>>
        /\ listener = "wait" /\ listener' = "create"
    BY <1>4 DEF AcceptReturn
  <2>4. \A m : ~Denotes(m, "closing", accepted + 1)
    BY <1>1, <2>3, ObjectFacts DEF TableInv, Denotes
  <2>5. ASSUME NEW c \in 1..accepted' PROVE DenotesThen(closing'[c], "closing", c)
    <3>1. CASE c = accepted + 1
      BY <2>1, <2>2, <3>1, AllocateKeeps DEF Kinds, TypeOK
    <3>2. CASE c # accepted + 1
      <4>1. c \in 1..accepted /\ closing'[c] = closing[c]
        BY <1>1, <2>1, <2>2, <2>3, <3>2 DEF TypeOK, Pipes
      <4> QED
        BY <2>1, <2>2, <4>1, AllocateKeeps DEF TableInv, Kinds
    <3> QED
      BY <3>1, <3>2
  <2>6. \A c \in Pipes :
          accepted' < c /\ c <= created => DenotesThen(pipe[c], "pipe", c)
    <3>1. \A c \in Pipes : accepted' < c => accepted < c
      BY <1>1, <2>3, Threads
    <3> QED
      BY <2>1, <2>2, <3>1, AllocateKeeps DEF TableInv, Kinds
  <2>7. \A m \in DOMAIN table' :
          /\ table'[m].kind = "pipe" => table'[m].of <= created
          /\ table'[m].kind = "closing" => table'[m].of <= accepted'
          /\ table'[m].kind = "connect" => table'[m].of <= accepted'
    <3>1. ASSUME NEW m \in DOMAIN table, table[m].kind \in {"closing", "connect"}
          PROVE  table[m].of <= accepted + 1
      <4>1. table[m] \in Objects /\ table[m] # Free
        BY <3>1, ObjectFacts DEF TypeOK, Kinds
      <4>2. table[m].of \in Nat
        BY <4>1, ObjectFacts, Threads
      <4>3. table[m].of <= accepted \/ table[m].of = accepted + 1
        BY <3>1 DEF TableInv
      <4> QED
        BY <1>1, <4>2, <4>3
    <3>2. \A m \in DOMAIN table : table[m].kind = "pipe" => table[m].of <= created
      BY DEF TableInv
    <3>3. \A m \in DOMAIN table' :
            \/ m = n /\ table'[m].kind = "closing" /\ table'[m].of = accepted + 1
            \/ m \in DOMAIN table /\ table'[m] = table[m]
      BY <2>1, <2>2, AllocateBounds DEF Kinds
    <3> QED
      BY <1>1, <2>3, <3>1, <3>2, <3>3
  <2>8. \A k, m \in DOMAIN table' :
          table'[k] = table'[m] /\ table'[k].kind \in Named => k = m
    BY <2>1, <2>2, <2>4, AllocateUnique DEF Kinds
  <2> QED
    BY <2>3, <2>5, <2>6, <2>7, <2>8 DEF TableInv, Named, DenotesThen, Denotes
<1>5. ASSUME NEW c \in Pipes, Worker(c) PROVE TableInv'
  <2>1. UNCHANGED <<created, accepted, pipe, connect, closing, listener>>
    BY <1>5, WorkerSteps
  <2>2. CASE UNCHANGED table
    BY <2>1, <2>2 DEF TableInv, Denotes
  <2>3. ASSUME NEW n, Allocate(n, "event", c) PROVE TableInv'
    <3>1. "event" \in Kinds /\ "event" \notin Named
      BY DEF Kinds, Named
    <3>2. /\ \A d \in 1..accepted : DenotesThen(closing[d], "closing", d)
          /\ \A d \in Pipes :
               accepted < d /\ d <= created => DenotesThen(pipe[d], "pipe", d)
          /\ listener = "wait" =>
               DenotesThen(connect[accepted + 1], "connect", accepted + 1)
      BY <2>3, <3>1, AllocateKeeps DEF TableInv, Kinds
    <3>3. \A m \in DOMAIN table' :
            table'[m].kind = "event" \/ (m \in DOMAIN table /\ table'[m] = table[m])
      BY <2>3, <3>1, AllocateBounds
    <3>4. \A k, m \in DOMAIN table' :
            table'[k] = table'[m] /\ table'[k].kind \in Named => k = m
      BY <2>3, <3>1, AllocateUnique
    <3> QED
      BY <2>1, <3>2, <3>3, <3>4 DEF TableInv, Named, DenotesThen, Denotes
  <2> QED
    BY <1>5, <2>2, <2>3, WorkerSteps
<1>6. ASSUME NEW t \in Closers, Close(t) PROVE TableInv'
  <2>1. UNCHANGED <<created, accepted, pipe, connect, closing, listener>>
    BY <1>6, ThreadSteps
  <2>2. CASE UNCHANGED table
    BY <2>1, <2>2 DEF TableInv, Denotes
  <2>3. ASSUME NEW n, NEW kind \in {"pipe", "connect"}, Harmless(n, kind, Conn(t)),
               Conn(t) \in 1..accepted, CloseHandle(n)
        PROVE  TableInv'
    <3>1. /\ \A d \in 1..accepted : DenotesThen(closing[d], "closing", d)
          /\ \A d \in Pipes :
               accepted < d /\ d <= created => DenotesThen(pipe[d], "pipe", d)
          /\ listener = "wait" =>
               DenotesThen(connect[accepted + 1], "connect", accepted + 1)
      <4>1. Conn(t) # accepted + 1 /\ \A d \in Pipes : accepted < d => d # Conn(t)
        BY <1>1, <2>3, Threads
      <4>2. \A m : \A k \in {"pipe", "connect", "closing"} : \A c :
              Denotes(m, k, c) /\ (k = "closing" \/ c # Conn(t))
              => DenotesThen(m, k, c)
        BY <2>3, HarmlessClose DEF Kinds
      <4> QED
        BY <4>1, <4>2 DEF TableInv
    <3>2. \A m \in DOMAIN table' :
            m \in DOMAIN table /\ (table'[m].kind = "free" \/ table'[m] = table[m])
      BY <2>3, CloseHandleSteps, ObjectFacts
    <3> QED
      BY <2>1, <3>1, <3>2 DEF TableInv, DenotesThen, Denotes
  <2> QED
    BY <1>6, <2>2, <2>3, Closing, ClosedNumber
    DEF Close, CloseTest, CloseSet, ClosePipe, CloseEvent, Step
<1>7. CASE Pop \/ Quit \/ Push \/ StopWorkers
  BY <1>7 DEF Pop, Quit, Push, StopWorkers, MainGoto, numbers, TableInv, Denotes
<1> QED
  BY <1>2, <1>3, <1>4, <1>5, <1>6, <1>7 DEF Next, Listener

-----------------------------------------------------------------------------
\* Who closes which number

HarmlessThen(n, kind, c) ==
  \/ DenotesThen(n, kind, c)
  \/ /\ main' \in {"pushed", "stopWorkers"}
     /\ n \in DOMAIN table' /\ table'[n].kind \in {"free", "event"}

\* CloseInv after a step, part by part
LEMMA CloseInvThen ==
  ASSUME \A c \in 1..accepted' :
           /\ pc'[c] \notin {"closeEvent", "exited"} => HarmlessThen(pipe'[c], "pipe", c)
           /\ pc'[c] # "exited" => HarmlessThen(connect'[c], "connect", c)
           /\ pc'[c] = "exited" /\ main' # "stopWorkers" => c \in signalled'
           /\ c \in signalled' => \/ BeingClosed(c)'
                                  \/ /\ ~DenotesThen(pipe'[c], "pipe", c)
                                     /\ ~DenotesThen(connect'[c], "connect", c),
         pc'[Collector] \in {"set", "closePipe"} =>
           HarmlessThen(pipe'[collecting'], "pipe", collecting'),
         pc'[Collector] \in {"set", "closePipe", "closeEvent"} =>
           HarmlessThen(connect'[collecting'], "connect", collecting'),
         \A t \in Closers :
           /\ pc'[t] \in {"closePipe", "closeEvent"} => Conn(t)' \in signalled'
           /\ pc'[t] = "closeEvent" => ~DenotesThen(pipe'[Conn(t)'], "pipe", Conn(t)')
  PROVE  CloseInv'
BY DEF CloseInv, HarmlessThen, Harmless, DenotesThen, Denotes

LEMMA InitCloseInv == Init => CloseInv /\ OpenUntilClosed /\ OwnEvent
<1> SUFFICES ASSUME Init PROVE CloseInv /\ OpenUntilClosed /\ OwnEvent
  OBVIOUS
<1>1. accepted = 0 /\ pc[Collector] = "pop"
  BY Threads DEF Init
<1>2. \A t \in Closers : pc[t] \in {"pop", "none"}
  BY DEF Init
<1>3. 1..accepted = {}
  BY <1>1
<1>4. CloseInv
  BY <1>1, <1>2, <1>3 DEF CloseInv
<1>5. OpenUntilClosed
  BY <1>3 DEF OpenUntilClosed
<1>6. OwnEvent
  BY <1>2, Threads DEF OwnEvent
<1> QED
  BY <1>4, <1>5, <1>6

\* A new object is not one of an accepted connection that a closer asks for.
LEMMA AllocateHarmless ==
  ASSUME TypeOK, NEW n, NEW kind \in Kinds, NEW c \in Pipes, Allocate(n, kind, c),
         kind = "event" \/ main \notin {"pushed", "stopWorkers"},
         kind \in {"event", "closing"} \/ c \notin 1..accepted, main' = main
  PROVE  \A m : \A k \in {"pipe", "connect"} : \A d \in 1..accepted :
           /\ DenotesThen(m, k, d) => Denotes(m, k, d)
           /\ Harmless(m, k, d) => HarmlessThen(m, k, d)
<1> SUFFICES ASSUME NEW m, NEW k \in {"pipe", "connect"}, NEW d \in 1..accepted
             PROVE  /\ DenotesThen(m, k, d) => Denotes(m, k, d)
                    /\ Harmless(m, k, d) => HarmlessThen(m, k, d)
  OBVIOUS
<1>1. k \in Kinds
  BY DEF Kinds
<1>2. /\ DenotesThen(m, k, d) <=> IF m = n THEN k = kind /\ d = c ELSE Denotes(m, k, d)
      /\ Denotes(m, k, d) => m # n
  BY <1>1, AllocateDenotes
<1>3. DenotesThen(m, k, d) <=> Denotes(m, k, d)
  BY <1>2
<1>4. ASSUME main \in {"pushed", "stopWorkers"},
             m \in DOMAIN table, table[m].kind \in {"free", "event"}
      PROVE  m \in DOMAIN table' /\ table'[m].kind \in {"free", "event"}
  <2>1. m \in DOMAIN table'
    BY <1>4, AllocateSteps
  <2> QED
    BY <1>4, <2>1, AllocateBounds
<1> QED
  BY <1>3, <1>4 DEF Harmless, HarmlessThen

\* A close does no harm to others; once on_quit has pushed, to nobody.
LEMMA CloseHarmless ==
  ASSUME TypeOK, NEW n, NEW kind \in {"pipe", "connect"}, NEW d,
         Harmless(n, kind, d), CloseHandle(n), main' = main
  PROVE  \A m : \A k \in {"pipe", "connect"} : \A e :
           /\ k # kind \/ e # d \/ main \in {"pushed", "stopWorkers"}
           /\ Harmless(m, k, e)
           => HarmlessThen(m, k, e)
<1> SUFFICES ASSUME NEW m, NEW k \in {"pipe", "connect"}, NEW e, Harmless(m, k, e),
                    k # kind \/ e # d \/ main \in {"pushed", "stopWorkers"}
             PROVE  HarmlessThen(m, k, e)
  OBVIOUS
<1>1. k \in Kinds /\ k # "event"
  BY DEF Kinds
<1>2. CASE main \in {"pushed", "stopWorkers"}
  <2>1. m \in DOMAIN table' /\ (m = n => table'[m] = Free)
        /\ (m # n => table'[m] = table[m])
    BY CloseHandleSteps DEF Harmless, Denotes
  <2>2. CASE m = n
    BY <1>2, <2>1, <2>2, ObjectFacts DEF HarmlessThen
  <2>3. CASE m # n
    BY <2>1, <2>3 DEF HarmlessThen, Harmless, DenotesThen, Denotes
  <2> QED
    BY <2>2, <2>3
<1>3. CASE main \notin {"pushed", "stopWorkers"}
  <2>1. Denotes(m, k, e) /\ (k # kind \/ e # d)
    BY <1>3 DEF Harmless
  <2> QED
    BY <1>1, <2>1, HarmlessClose DEF HarmlessThen
<1> QED
  BY <1>2, <1>3

\* The steps that only prepare a close, or are those of other threads
LEMMA CloseInvKept ==
  ASSUME TypeOK, ListenerInv, CloseInv,
         UNCHANGED <<accepted, signalled, collecting>>,
         main = "stopWorkers" => main' = "stopWorkers",
         \A d \in 1..accepted : pipe'[d] = pipe[d] /\ connect'[d] = connect[d],
         \A m : \A k \in {"pipe", "connect"} : \A d \in 1..accepted :
           /\ DenotesThen(m, k, d) => Denotes(m, k, d)
           /\ Harmless(m, k, d) => HarmlessThen(m, k, d),
         \A t \in Closers :
           \/ pc'[t] = pc[t]
           \/ /\ t \in Pipes /\ pc[t] \in Working
              /\ \/ pc'[t] \in Working \cup {"close"}
                 \/ pc'[t] = "exited" /\ main' = "stopWorkers"
  PROVE  CloseInv'
<1>1. \A t \in Closers : /\ Conn(t)' = Conn(t)
                         /\ pc'[t] \in {"set", "closePipe", "closeEvent"} => pc'[t] = pc[t]
                         /\ pc[t] \in {"set", "closePipe", "closeEvent"} => pc'[t] = pc[t]
                         /\ pc[t] = "exited" => pc'[t] = "exited"
                         /\ pc'[t] = "exited" /\ main' # "stopWorkers" => pc[t] = "exited"
  BY DEF Conn, Working
<1>2. \A t \in Closers :
        pc[t] \in {"set", "closePipe", "closeEvent"} => Conn(t) \in 1..accepted
  BY Closing
<1>3. 1..accepted \subseteq Pipes /\ Pipes \subseteq Closers
  BY HandlesAssumption, Threads DEF TypeOK, Pipes
<1>4. \A c \in 1..accepted : BeingClosed(c) => BeingClosed(c)'
  BY <1>1, <1>3, Threads DEF BeingClosed
<1>5. ASSUME NEW c \in 1..accepted
      PROVE  /\ pc'[c] \notin {"closeEvent", "exited"} => HarmlessThen(pipe'[c], "pipe", c)
             /\ pc'[c] # "exited" => HarmlessThen(connect'[c], "connect", c)
             /\ pc'[c] = "exited" /\ main' # "stopWorkers" => c \in signalled'
             /\ c \in signalled' => \/ BeingClosed(c)'
                                    \/ /\ ~DenotesThen(pipe'[c], "pipe", c)
                                       /\ ~DenotesThen(connect'[c], "connect", c)
  BY <1>1, <1>3, <1>4, <1>5 DEF CloseInv
<1>6. /\ pc'[Collector] \in {"set", "closePipe"} =>
           HarmlessThen(pipe'[collecting'], "pipe", collecting')
      /\ pc'[Collector] \in {"set", "closePipe", "closeEvent"} =>
           HarmlessThen(connect'[collecting'], "connect", collecting')
  BY <1>1, <1>2, Threads DEF CloseInv, Conn
<1>7. ASSUME NEW t \in Closers
      PROVE  /\ pc'[t] \in {"closePipe", "closeEvent"} => Conn(t)' \in signalled'
             /\ pc'[t] = "closeEvent" => ~DenotesThen(pipe'[Conn(t)'], "pipe", Conn(t)')
  BY <1>1, <1>2, <1>7 DEF CloseInv
<1> QED
  BY <1>5, <1>6, <1>7, CloseInvThen

\* What the event of close() says, and who is past it
LEMMA CloseEventIsSet ==
  ASSUME TypeOK, ListenerInv, TableInv, NEW t \in Closers, CloseTest(t)
  PROVE  /\ Conn(t) \in signalled => pc' = [pc EXCEPT ![t] = AfterClose(t)]
         /\ Conn(t) \notin signalled => pc' = [pc EXCEPT ![t] = "set"]
<1>1. Conn(t) \in 1..accepted
  BY Closing DEF CloseTest
<1> QED
  BY <1>1 DEF CloseTest, Step, Goto, TableInv

LEMMA CloseTestCloseInv ==
  ASSUME TypeOK, ListenerInv, TableInv, CloseInv, OpenUntilClosed,
         NEW t \in Closers, CloseTest(t)
  PROVE  CloseInv'
<1>1. /\ UNCHANGED <<table, accepted, pipe, connect, signalled, collecting, main>>
      /\ pc[t] = "close" /\ Conn(t) \in 1..accepted /\ pc \in [Closers -> Labels]
  BY Closing DEF CloseTest, Step, numbers, TypeOK
<1>2. /\ \A u \in Closers : u # t => pc'[u] = pc[u]
      /\ Conn(t) \in signalled => pc'[t] = AfterClose(t)
      /\ Conn(t) \notin signalled => pc'[t] = "set"
  BY <1>1, CloseEventIsSet
<1>3. \A n, k, c : /\ DenotesThen(n, k, c) <=> Denotes(n, k, c)
                   /\ HarmlessThen(n, k, c) <=> Harmless(n, k, c)
  BY <1>1 DEF DenotesThen, Denotes, HarmlessThen, Harmless
<1>4. /\ \A u \in Closers : Conn(u)' = Conn(u)
      /\ 1..accepted \subseteq Pipes /\ Pipes \subseteq Closers
      /\ AfterClose(t) = IF t = Collector THEN "pop" ELSE "exited"
  BY <1>1, HandlesAssumption, Threads DEF TypeOK, Pipes, Conn, AfterClose
<1>5. \A c \in 1..accepted : BeingClosed(c) => BeingClosed(c)'
  BY <1>1, <1>2, <1>4, Threads DEF BeingClosed
<1>6. ASSUME NEW c \in 1..accepted
      PROVE  /\ pc'[c] \notin {"closeEvent", "exited"} => HarmlessThen(pipe'[c], "pipe", c)
             /\ pc'[c] # "exited" => HarmlessThen(connect'[c], "connect", c)
             /\ pc'[c] = "exited" /\ main' # "stopWorkers" => c \in signalled'
             /\ c \in signalled' => \/ BeingClosed(c)'
                                    \/ /\ ~DenotesThen(pipe'[c], "pipe", c)
                                       /\ ~DenotesThen(connect'[c], "connect", c)
  <2>1. /\ pc'[c] \notin {"closeEvent", "exited"} => pc[c] \notin {"closeEvent", "exited"}
        /\ pc'[c] # "exited" => pc[c] # "exited"
        /\ pc'[c] = "exited" /\ main' # "stopWorkers" => c \in signalled'
    <3>1. CASE c = t
      BY <1>1, <1>2, <1>4, <3>1, Threads DEF Conn
    <3>2. CASE c # t
      BY <1>1, <1>2, <1>4, <3>2 DEF CloseInv
    <3> QED
      BY <3>1, <3>2
  <2> QED
    BY <1>1, <1>3, <1>5, <2>1 DEF CloseInv
<1>7. /\ pc'[Collector] \in {"set", "closePipe"} =>
           HarmlessThen(pipe'[collecting'], "pipe", collecting')
      /\ pc'[Collector] \in {"set", "closePipe", "closeEvent"} =>
           HarmlessThen(connect'[collecting'], "connect", collecting')
  <2>1. CASE t = Collector
    <3>1. pc'[Collector] # "pop" => pc'[Collector] = "set" /\ collecting \notin signalled
      BY <1>2, <1>4, <2>1 DEF Conn
    <3>2. collecting \in 1..accepted
      BY <1>1, <2>1 DEF Conn
    <3>3. CASE pc'[Collector] = "pop"
      BY <3>3
    <3>4. CASE pc'[Collector] # "pop"
      BY <1>1, <1>3, <3>1, <3>2, <3>4 DEF OpenUntilClosed, Harmless
    <3> QED
      BY <3>3, <3>4
  <2>2. CASE t # Collector
    BY <1>1, <1>2, <1>3, <2>2, Threads DEF CloseInv
  <2> QED
    BY <2>1, <2>2
<1>8. ASSUME NEW u \in Closers
      PROVE  /\ pc'[u] \in {"closePipe", "closeEvent"} => Conn(u)' \in signalled'
             /\ pc'[u] = "closeEvent" => ~DenotesThen(pipe'[Conn(u)'], "pipe", Conn(u)')
  BY <1>1, <1>2, <1>3, <1>4, <1>8 DEF CloseInv
<1> QED
  BY <1>1, <1>6, <1>7, <1>8, CloseInvThen

LEMMA CloseSetCloseInv ==
  ASSUME TypeOK, ListenerInv, CloseInv, NEW t \in Closers, CloseSet(t)
  PROVE  CloseInv'
<1>1. /\ UNCHANGED <<table, accepted, pipe, connect, collecting, main>>
      /\ pc[t] = "set" /\ Conn(t) \in 1..accepted /\ pc \in [Closers -> Labels]
      /\ signalled' = signalled \cup {Conn(t)}
  BY Closing DEF CloseSet, numbers, TypeOK
<1>2. \A u \in Closers : pc'[u] = IF u = t THEN "closePipe" ELSE pc[u]
  BY <1>1 DEF CloseSet, Goto
<1>3. \A n, k, c : /\ DenotesThen(n, k, c) <=> Denotes(n, k, c)
                   /\ HarmlessThen(n, k, c) <=> Harmless(n, k, c)
  BY <1>1 DEF DenotesThen, Denotes, HarmlessThen, Harmless
<1>4. /\ \A u \in Closers : Conn(u)' = Conn(u)
      /\ 1..accepted \subseteq Pipes /\ Pipes \subseteq Closers
  BY <1>1, HandlesAssumption, Threads DEF TypeOK, Pipes, Conn
<1>5. \A c \in 1..accepted : BeingClosed(c) \/ c = Conn(t) => BeingClosed(c)'
  BY <1>1, <1>2, <1>4, Threads DEF BeingClosed, Conn
<1>6. ASSUME NEW c \in 1..accepted
      PROVE  /\ pc'[c] \notin {"closeEvent", "exited"} => HarmlessThen(pipe'[c], "pipe", c)
             /\ pc'[c] # "exited" => HarmlessThen(connect'[c], "connect", c)
             /\ pc'[c] = "exited" /\ main' # "stopWorkers" => c \in signalled'
             /\ c \in signalled' => \/ BeingClosed(c)'
                                    \/ /\ ~DenotesThen(pipe'[c], "pipe", c)
                                       /\ ~DenotesThen(connect'[c], "connect", c)
  BY <1>1, <1>2, <1>3, <1>4, <1>5, <1>6 DEF CloseInv
<1>7. /\ pc'[Collector] \in {"set", "closePipe"} =>
           HarmlessThen(pipe'[collecting'], "pipe", collecting')
      /\ pc'[Collector] \in {"set", "closePipe", "closeEvent"} =>
           HarmlessThen(connect'[collecting'], "connect", collecting')
  BY <1>1, <1>2, <1>3, Threads DEF CloseInv
<1>8. ASSUME NEW u \in Closers
      PROVE  /\ pc'[u] \in {"closePipe", "closeEvent"} => Conn(u)' \in signalled'
             /\ pc'[u] = "closeEvent" => ~DenotesThen(pipe'[Conn(u)'], "pipe", Conn(u)')
  BY <1>1, <1>2, <1>3, <1>4, <1>8 DEF CloseInv
<1> QED
  BY <1>1, <1>6, <1>7, <1>8, CloseInvThen

\* Before the push only a worker closes, and only its own.
LEMMA WhoCloses ==
  ASSUME TypeOK, ListenerInv, NEW t \in Closers,
         pc[t] \in {"close", "set", "closePipe", "closeEvent"}
  PROVE  \/ main \in {"pushed", "stopWorkers"}
         \/ t \in Pipes /\ Conn(t) = t /\ pc[Collector] \in {"pop", "exited"}
BY Threads DEF ListenerInv, Conn

LEMMA ClosePipeCloseInv ==
  ASSUME TypeOK, ListenerInv, CloseInv, NEW t \in Closers, ClosePipe(t)
  PROVE  CloseInv'
<1>1. /\ UNCHANGED <<accepted, pipe, connect, signalled, collecting, main>>
      /\ pc[t] = "closePipe" /\ Conn(t) \in 1..accepted /\ pc \in [Closers -> Labels]
      /\ CloseHandle(pipe[Conn(t)]) /\ Harmless(pipe[Conn(t)], "pipe", Conn(t))
  BY Closing, ClosedNumber DEF ClosePipe, numbers, TypeOK
<1>2. \A u \in Closers : pc'[u] = IF u = t THEN "closeEvent" ELSE pc[u]
  BY <1>1 DEF ClosePipe, Goto
<1>3. /\ \A m : \A k \in {"pipe", "connect"} : \A c : DenotesThen(m, k, c) => Denotes(m, k, c)
      /\ ~DenotesThen(pipe[Conn(t)], "pipe", Conn(t))
      /\ \A m : \A k \in {"pipe", "connect"} : \A e :
           /\ k # "pipe" \/ e # Conn(t) \/ main \in {"pushed", "stopWorkers"}
           /\ Harmless(m, k, e)
           => HarmlessThen(m, k, e)
  <2>1. "pipe" \in {"pipe", "connect"} /\ "pipe" \in Kinds /\ "connect" \in Kinds
    BY DEF Kinds
  <2>2. \A m : \A k \in Kinds : \A c : DenotesThen(m, k, c) => Denotes(m, k, c)
    BY <1>1, <2>1, HarmlessClose
  <2>3. ~DenotesThen(pipe[Conn(t)], "pipe", Conn(t))
    BY <1>1, <2>1, HarmlessClose
  <2>4. \A m : \A k \in {"pipe", "connect"} : \A e :
          /\ k # "pipe" \/ e # Conn(t) \/ main \in {"pushed", "stopWorkers"}
          /\ Harmless(m, k, e)
          => HarmlessThen(m, k, e)
    BY <1>1, <2>1, CloseHarmless
  <2> QED
    BY <2>1, <2>2, <2>3, <2>4
<1>4. /\ \A u \in Closers : Conn(u)' = Conn(u)
      /\ 1..accepted \subseteq Pipes /\ Pipes \subseteq Closers
  BY <1>1, HandlesAssumption, Threads DEF TypeOK, Pipes, Conn
<1>5. \A c \in 1..accepted : BeingClosed(c) => BeingClosed(c)'
  BY <1>1, <1>2, <1>4, Threads DEF BeingClosed
<1>6. \/ main \in {"pushed", "stopWorkers"}
      \/ t \in Pipes /\ Conn(t) = t /\ pc[Collector] \in {"pop", "exited"}
  BY <1>1, WhoCloses
<1>7. ASSUME NEW c \in 1..accepted
      PROVE  /\ pc'[c] \notin {"closeEvent", "exited"} => HarmlessThen(pipe'[c], "pipe", c)
             /\ pc'[c] # "exited" => HarmlessThen(connect'[c], "connect", c)
             /\ pc'[c] = "exited" /\ main' # "stopWorkers" => c \in signalled'
             /\ c \in signalled' => \/ BeingClosed(c)'
                                    \/ /\ ~DenotesThen(pipe'[c], "pipe", c)
                                       /\ ~DenotesThen(connect'[c], "connect", c)
  <2>1. pc'[c] \notin {"closeEvent", "exited"} => HarmlessThen(pipe'[c], "pipe", c)
    BY <1>1, <1>2, <1>3, <1>4, <1>6 DEF CloseInv
  <2>2. pc'[c] # "exited" => HarmlessThen(connect'[c], "connect", c)
    BY <1>1, <1>2, <1>3, <1>4 DEF CloseInv
  <2>3. pc'[c] = "exited" /\ main' # "stopWorkers" => c \in signalled'
    BY <1>1, <1>2, <1>4 DEF CloseInv
  <2>4. c \in signalled' => \/ BeingClosed(c)'
                            \/ /\ ~DenotesThen(pipe'[c], "pipe", c)
                               /\ ~DenotesThen(connect'[c], "connect", c)
    BY <1>1, <1>3, <1>5 DEF CloseInv
  <2> QED
    BY <2>1, <2>2, <2>3, <2>4
<1>8. /\ pc'[Collector] \in {"set", "closePipe"} =>
           HarmlessThen(pipe'[collecting'], "pipe", collecting')
      /\ pc'[Collector] \in {"set", "closePipe", "closeEvent"} =>
           HarmlessThen(connect'[collecting'], "connect", collecting')
  BY <1>1, <1>2, <1>3, <1>6, Threads DEF CloseInv
<1>9. ASSUME NEW u \in Closers
      PROVE  /\ pc'[u] \in {"closePipe", "closeEvent"} => Conn(u)' \in signalled'
             /\ pc'[u] = "closeEvent" => ~DenotesThen(pipe'[Conn(u)'], "pipe", Conn(u)')
  BY <1>1, <1>2, <1>3, <1>4, <1>9 DEF CloseInv
<1> QED
  BY <1>1, <1>7, <1>8, <1>9, CloseInvThen

LEMMA CloseEventCloseInv ==
  ASSUME TypeOK, ListenerInv, CloseInv, NEW t \in Closers, CloseEvent(t)
  PROVE  CloseInv'
<1>1. /\ UNCHANGED <<accepted, pipe, connect, signalled, collecting, main>>
      /\ pc[t] = "closeEvent" /\ Conn(t) \in 1..accepted /\ pc \in [Closers -> Labels]
      /\ CloseHandle(connect[Conn(t)]) /\ Harmless(connect[Conn(t)], "connect", Conn(t))
  BY Closing, ClosedNumber DEF CloseEvent, numbers, TypeOK
<1>2. \A u \in Closers : pc'[u] = IF u = t THEN AfterClose(t) ELSE pc[u]
  BY <1>1 DEF CloseEvent, Goto
<1>3. /\ \A m : \A k \in {"pipe", "connect"} : \A c : DenotesThen(m, k, c) => Denotes(m, k, c)
      /\ ~DenotesThen(connect[Conn(t)], "connect", Conn(t))
      /\ \A m : \A k \in {"pipe", "connect"} : \A e :
           /\ k # "connect" \/ e # Conn(t) \/ main \in {"pushed", "stopWorkers"}
           /\ Harmless(m, k, e)
           => HarmlessThen(m, k, e)
  BY <1>1, HarmlessClose, CloseHarmless, SMTT(20) DEF Kinds
<1>4. /\ \A u \in Closers : Conn(u)' = Conn(u)
      /\ 1..accepted \subseteq Pipes /\ Pipes \subseteq Closers
      /\ AfterClose(t) = IF t = Collector THEN "pop" ELSE "exited"
  BY <1>1, HandlesAssumption, Threads DEF TypeOK, Pipes, Conn, AfterClose
<1>5. /\ Conn(t) \in signalled
      /\ ~DenotesThen(pipe[Conn(t)], "pipe", Conn(t))
  BY <1>1, <1>3 DEF CloseInv
<1>6. \A c \in 1..accepted : BeingClosed(c) => BeingClosed(c)' \/ c = Conn(t)
  BY <1>1, <1>2, <1>4, Threads DEF BeingClosed, Conn
<1>7. \/ main \in {"pushed", "stopWorkers"}
      \/ t \in Pipes /\ Conn(t) = t /\ pc[Collector] \in {"pop", "exited"}
  BY <1>1, WhoCloses
<1>8. ASSUME NEW c \in 1..accepted
      PROVE  /\ pc'[c] \notin {"closeEvent", "exited"} => HarmlessThen(pipe'[c], "pipe", c)
             /\ pc'[c] # "exited" => HarmlessThen(connect'[c], "connect", c)
             /\ pc'[c] = "exited" /\ main' # "stopWorkers" => c \in signalled'
             /\ c \in signalled' => \/ BeingClosed(c)'
                                    \/ /\ ~DenotesThen(pipe'[c], "pipe", c)
                                       /\ ~DenotesThen(connect'[c], "connect", c)
  <2>1. pc'[c] \notin {"closeEvent", "exited"} => HarmlessThen(pipe'[c], "pipe", c)
    <3>1. pc'[c] \notin {"closeEvent", "exited"} => pc[c] \notin {"closeEvent", "exited"}
      BY <1>2, <1>4, Threads
    <3> QED
      BY <1>1, <1>3, <3>1 DEF CloseInv
  <2>2. pc'[c] # "exited" => HarmlessThen(connect'[c], "connect", c)
    <3>1. pc'[c] # "exited" =>
            /\ pc[c] # "exited"
            /\ c # Conn(t) \/ main \in {"pushed", "stopWorkers"}
      BY <1>2, <1>4, <1>7, Threads
    <3> QED
      BY <1>1, <1>3, <3>1 DEF CloseInv
  <2>3. pc'[c] = "exited" /\ main' # "stopWorkers" => c \in signalled'
    BY <1>1, <1>2, <1>4, <1>5, Threads DEF CloseInv, Conn
  <2>4. c \in signalled' => \/ BeingClosed(c)'
                            \/ /\ ~DenotesThen(pipe'[c], "pipe", c)
                               /\ ~DenotesThen(connect'[c], "connect", c)
    BY <1>1, <1>3, <1>5, <1>6 DEF CloseInv
  <2> QED
    BY <2>1, <2>2, <2>3, <2>4
<1>9. /\ pc'[Collector] \in {"set", "closePipe"} =>
           HarmlessThen(pipe'[collecting'], "pipe", collecting')
      /\ pc'[Collector] \in {"set", "closePipe", "closeEvent"} =>
           HarmlessThen(connect'[collecting'], "connect", collecting')
  BY <1>1, <1>2, <1>3, <1>4, <1>7, Threads DEF CloseInv
<1>10. ASSUME NEW u \in Closers
       PROVE  /\ pc'[u] \in {"closePipe", "closeEvent"} => Conn(u)' \in signalled'
              /\ pc'[u] = "closeEvent" => ~DenotesThen(pipe'[Conn(u)'], "pipe", Conn(u)')
  BY <1>1, <1>2, <1>3, <1>4, <1>10 DEF CloseInv
<1> QED
  BY <1>1, <1>8, <1>9, <1>10, CloseInvThen

LEMMA AcceptReturnCloseInv ==
  ASSUME TypeOK, ListenerInv, TableInv, CloseInv, AcceptReturn
  PROVE  CloseInv' /\ (OpenUntilClosed => OpenUntilClosed')
<1>1. /\ created \in Nat /\ accepted \in Nat /\ created > accepted
      /\ accepted + 1 \in Pipes /\ accepted + 1 <= created
      /\ 1..accepted \subseteq Pipes /\ Pipes \subseteq Closers
  BY HandlesAssumption, Threads DEF TypeOK, Pipes, ListenerInv
<1>2. /\ accepted' = accepted + 1 /\ listener = "wait"
      /\ UNCHANGED <<pipe, connect, signalled, collecting, main>>
      /\ signalled \subseteq 1..accepted
      /\ main \notin {"pushed", "stopWorkers"}
      /\ pc[Collector] \in {"pop", "exited"}
  BY DEF AcceptReturn, ListenerInv
<1>3. PICK n : Allocate(n, "closing", accepted + 1)
  BY DEF AcceptReturn
<1>4. \A u \in Closers : pc'[u] = IF u = accepted + 1 THEN "check" ELSE pc[u]
  BY DEF AcceptReturn, Goto, TypeOK
<1>5. \A m : \A k \in {"pipe", "connect"} : \A d :
        /\ DenotesThen(m, k, d) <=> Denotes(m, k, d)
        /\ HarmlessThen(m, k, d) <=> Denotes(m, k, d)
  <2>1. /\ "closing" \in Kinds /\ "closing" \notin {"pipe", "connect"}
        /\ \A k \in {"pipe", "connect"} : k \in Kinds
    BY DEF Kinds
  <2>2. \A m : \A k \in {"pipe", "connect"} : \A d :
          DenotesThen(m, k, d) <=> Denotes(m, k, d)
    BY <1>1, <1>3, <2>1, AllocateDenotes
  <2> QED
    BY <1>2, <2>2 DEF HarmlessThen
<1>6. /\ Denotes(pipe[accepted + 1], "pipe", accepted + 1)
      /\ Denotes(connect[accepted + 1], "connect", accepted + 1)
  BY <1>1, <1>2 DEF TableInv
<1>7. \A c \in 1..accepted' : c \in 1..accepted \/ c = accepted + 1
  BY <1>1, <1>2
<1>8. \A u \in Closers : u # accepted + 1 =>
        Conn(u)' = Conn(u) /\ pc'[u] = pc[u]
  BY <1>2, <1>4 DEF Conn
<1>9. \A c \in 1..accepted : c \in Pipes /\ c \in Closers /\ c # accepted + 1
  BY <1>1
<1>10. ASSUME NEW c \in 1..accepted'
       PROVE  /\ pc'[c] \notin {"closeEvent", "exited"} => HarmlessThen(pipe'[c], "pipe", c)
              /\ pc'[c] # "exited" => HarmlessThen(connect'[c], "connect", c)
              /\ pc'[c] = "exited" /\ main' # "stopWorkers" => c \in signalled'
              /\ c \in signalled' => \/ BeingClosed(c)'
                                     \/ /\ ~DenotesThen(pipe'[c], "pipe", c)
                                        /\ ~DenotesThen(connect'[c], "connect", c)
  <2>1. CASE c = accepted + 1
    BY <1>1, <1>2, <1>4, <1>5, <1>6, <1>9, <2>1
  <2>2. CASE c \in 1..accepted
    <3>1. BeingClosed(c) => BeingClosed(c)'
      BY <1>2, <1>8, <1>9, <2>2 DEF BeingClosed
    <3>2. \A m : \A k \in {"pipe", "connect"} :
            Harmless(m, k, c) => HarmlessThen(m, k, c)
      BY <1>2, <1>5 DEF Harmless
    <3> QED
      BY <1>2, <1>5, <1>8, <1>9, <2>2, <3>1, <3>2 DEF CloseInv
  <2> QED
    BY <1>7, <2>1, <2>2
<1>11. pc'[Collector] \in {"pop", "exited"}
  BY <1>1, <1>2, <1>8, Threads
<1>12. ASSUME NEW u \in Closers
       PROVE  /\ pc'[u] \in {"closePipe", "closeEvent"} => Conn(u)' \in signalled'
              /\ pc'[u] = "closeEvent" => ~DenotesThen(pipe'[Conn(u)'], "pipe", Conn(u)')
  <2>1. CASE u = accepted + 1
    BY <1>4, <2>1
  <2>2. CASE u # accepted + 1
    BY <1>2, <1>5, <1>8, <2>2 DEF CloseInv
  <2> QED
    BY <2>1, <2>2
<1>13. CloseInv'
  BY <1>10, <1>11, <1>12, CloseInvThen
<1>14. OpenUntilClosed =>
         \A c \in 1..accepted' : c \notin signalled' =>
           /\ DenotesThen(pipe'[c], "pipe", c)
           /\ DenotesThen(connect'[c], "connect", c)
  BY <1>2, <1>5, <1>6, <1>7 DEF OpenUntilClosed
<1> QED
  BY <1>13, <1>14 DEF OpenUntilClosed, DenotesThen, Denotes

LEMMA PopCloseInv ==
  ASSUME TypeOK, ListenerInv, CloseInv, Pop
  PROVE  CloseInv'
<1>1. /\ UNCHANGED <<table, accepted, pipe, connect, signalled, main>>
      /\ pc[Collector] = "pop"
      /\ 1..accepted \subseteq Pipes /\ Pipes \subseteq Closers
  BY HandlesAssumption, Threads DEF Pop, numbers, TypeOK, Pipes
<1>2. /\ \A u \in Pipes : pc'[u] = pc[u] /\ Conn(u)' = u /\ Conn(u) = u
      /\ pc'[Collector] \in {"close", "exited"}
  BY Threads DEF Pop, Goto, TypeOK, Conn
<1>3. \A n, k, c : /\ DenotesThen(n, k, c) <=> Denotes(n, k, c)
                   /\ HarmlessThen(n, k, c) <=> Harmless(n, k, c)
  BY <1>1 DEF DenotesThen, Denotes, HarmlessThen, Harmless
<1>4. \A c \in 1..accepted : BeingClosed(c) => BeingClosed(c)'
  BY <1>1, <1>2 DEF BeingClosed
<1>5. ASSUME NEW c \in 1..accepted
      PROVE  /\ pc'[c] \notin {"closeEvent", "exited"} => HarmlessThen(pipe'[c], "pipe", c)
             /\ pc'[c] # "exited" => HarmlessThen(connect'[c], "connect", c)
             /\ pc'[c] = "exited" /\ main' # "stopWorkers" => c \in signalled'
             /\ c \in signalled' => \/ BeingClosed(c)'
                                    \/ /\ ~DenotesThen(pipe'[c], "pipe", c)
                                       /\ ~DenotesThen(connect'[c], "connect", c)
  BY <1>1, <1>2, <1>3, <1>4, <1>5 DEF CloseInv
<1>6. ASSUME NEW u \in Closers
      PROVE  /\ pc'[u] \in {"closePipe", "closeEvent"} => Conn(u)' \in signalled'
             /\ pc'[u] = "closeEvent" => ~DenotesThen(pipe'[Conn(u)'], "pipe", Conn(u)')
  BY <1>1, <1>2, <1>3, <1>6, Threads DEF CloseInv
<1> QED
  BY <1>1, <1>2, <1>5, <1>6, CloseInvThen

LEMMA NextCloseInv ==
  ASSUME TypeOK, ListenerInv, TableInv, CloseInv, OpenUntilClosed, Next
  PROVE  CloseInv'
<1>1. /\ created \in Nat /\ accepted \in Nat /\ created > accepted /\ MaxPipes \in Nat
      /\ pc \in [Closers -> Labels]
  BY HandlesAssumption DEF TypeOK, Pipes, ListenerInv
<1>2. ASSUME UNCHANGED <<table, main>>
      PROVE  \A m : \A k \in {"pipe", "connect"} : \A d \in 1..accepted :
               /\ DenotesThen(m, k, d) => Denotes(m, k, d)
               /\ Harmless(m, k, d) => HarmlessThen(m, k, d)
  BY <1>2 DEF DenotesThen, Denotes, HarmlessThen, Harmless
<1>3. CASE AcceptCreate
  <2>1. UNCHANGED <<accepted, signalled, collecting, main, connect, pc>>
    BY <1>3 DEF AcceptCreate
  <2>2. ASSUME NEW n, Allocate(n, "pipe", created + 1), created < MaxPipes,
               pipe' = [pipe EXCEPT ![created + 1] = n]
        PROVE  CloseInv'
    <3>1. /\ created + 1 \in Pipes /\ created + 1 \notin 1..accepted /\ "pipe" \in Kinds
          /\ main \notin {"pushed", "stopWorkers"}
      BY <1>1, <1>3, <2>2 DEF Pipes, Kinds, AcceptCreate, ListenerInv
    <3>2. \A d \in 1..accepted : pipe'[d] = pipe[d] /\ connect'[d] = connect[d]
      BY <2>1, <2>2, <3>1
    <3>3. \A m : \A k \in {"pipe", "connect"} : \A d \in 1..accepted :
            /\ DenotesThen(m, k, d) => Denotes(m, k, d)
            /\ Harmless(m, k, d) => HarmlessThen(m, k, d)
      BY <2>1, <2>2, <3>1, AllocateHarmless
    <3> QED
      BY <2>1, <3>2, <3>3, CloseInvKept
  <2>3. CASE UNCHANGED <<table, pipe>>
    BY <1>2, <2>1, <2>3, CloseInvKept
  <2> QED
    BY <1>3, <2>2, <2>3 DEF AcceptCreate
<1>4. CASE AcceptConnect
  <2>1. UNCHANGED <<accepted, signalled, collecting, main, pipe, pc>>
    BY <1>4 DEF AcceptConnect
  <2>2. PICK n : /\ Allocate(n, "connect", accepted + 1)
                 /\ connect' = [connect EXCEPT ![accepted + 1] = n]
    BY <1>4 DEF AcceptConnect
  <2>3. /\ accepted + 1 \in Pipes /\ accepted + 1 \notin 1..accepted /\ "connect" \in Kinds
        /\ main \notin {"pushed", "stopWorkers"}
    BY <1>1, <1>4 DEF TypeOK, Pipes, Kinds, AcceptConnect, ListenerInv
  <2>4. \A d \in 1..accepted : pipe'[d] = pipe[d] /\ connect'[d] = connect[d]
    BY <2>1, <2>2, <2>3
  <2>5. \A m : \A k \in {"pipe", "connect"} : \A d \in 1..accepted :
          /\ DenotesThen(m, k, d) => Denotes(m, k, d)
          /\ Harmless(m, k, d) => HarmlessThen(m, k, d)
    BY <2>1, <2>2, <2>3, AllocateHarmless
  <2> QED
    BY <2>1, <2>4, <2>5, CloseInvKept
<1>5. ASSUME NEW c \in Pipes, Worker(c) PROVE CloseInv'
  <2>1. UNCHANGED <<accepted, signalled, collecting, main, pipe, connect>>
    BY <1>5, WorkerSteps
  <2>2. /\ pc[c] \in Working
        /\ pc'[c] \in Working \cup {"close"} \/ (pc'[c] = "exited" /\ main = "stopWorkers")
        /\ \A t \in Closers : t # c => pc'[t] = pc[t]
    BY <1>1, <1>5, WorkerSteps, Threads
  <2>3. \A m : \A k \in {"pipe", "connect"} : \A d \in 1..accepted :
          /\ DenotesThen(m, k, d) => Denotes(m, k, d)
          /\ Harmless(m, k, d) => HarmlessThen(m, k, d)
    <3>1. UNCHANGED table \/ \E n : Allocate(n, "event", c)
      BY <1>5, WorkerSteps
    <3>2. "event" \in Kinds
      BY DEF Kinds
    <3> QED
      BY <1>2, <2>1, <3>1, <3>2, AllocateHarmless
  <2> QED
    BY <1>5, <2>1, <2>2, <2>3, CloseInvKept
<1>6. CASE Quit \/ Push \/ StopWorkers
  <2>1. /\ UNCHANGED <<table, accepted, signalled, collecting, pipe, connect, pc>>
        /\ main # "stopWorkers" /\ (main = "pushed" => main' = "stopWorkers")
    BY <1>6 DEF Quit, Push, StopWorkers, MainGoto, numbers
  <2>2. \A m : \A k \in {"pipe", "connect"} : \A d \in 1..accepted :
          /\ DenotesThen(m, k, d) => Denotes(m, k, d)
          /\ Harmless(m, k, d) => HarmlessThen(m, k, d)
    BY <2>1 DEF DenotesThen, Denotes, HarmlessThen, Harmless
  <2> QED
    BY <2>1, <2>2, CloseInvKept
<1> QED
  BY <1>3, <1>4, <1>5, <1>6, AcceptReturnCloseInv, PopCloseInv, CloseTestCloseInv,
     CloseSetCloseInv, ClosePipeCloseInv, CloseEventCloseInv
  DEF Next, Listener, Close

LEMMA NextOpenUntilClosed ==
  ASSUME TypeOK, ListenerInv, TableInv, CloseInv, OpenUntilClosed, Next
  PROVE  OpenUntilClosed'
<1>1. /\ created \in Nat /\ accepted \in Nat /\ created > accepted /\ MaxPipes \in Nat
      /\ "pipe" \in Kinds /\ "connect" \in Kinds /\ "event" \in Kinds
  BY HandlesAssumption DEF TypeOK, Pipes, ListenerInv, Kinds
<1>2. ASSUME UNCHANGED accepted, signalled \subseteq signalled',
             \A c \in 1..accepted : c \notin signalled =>
               /\ pipe'[c] = pipe[c] /\ connect'[c] = connect[c]
               /\ Denotes(pipe[c], "pipe", c) => DenotesThen(pipe[c], "pipe", c)
               /\ Denotes(connect[c], "connect", c) => DenotesThen(connect[c], "connect", c)
      PROVE  OpenUntilClosed'
  <2>1. \A c \in 1..accepted' : c \notin signalled' =>
          DenotesThen(pipe'[c], "pipe", c) /\ DenotesThen(connect'[c], "connect", c)
    BY <1>2 DEF OpenUntilClosed
  <2> QED
    BY <2>1 DEF OpenUntilClosed, DenotesThen, Denotes
<1>3. ASSUME UNCHANGED <<table, accepted, pipe, connect>>, signalled \subseteq signalled'
      PROVE  OpenUntilClosed'
  BY <1>3 DEF OpenUntilClosed, Denotes
<1>4. CASE AcceptCreate
  <2>1. UNCHANGED <<accepted, signalled, connect>>
    BY <1>4 DEF AcceptCreate
  <2>2. ASSUME NEW n, Allocate(n, "pipe", created + 1), created < MaxPipes,
               pipe' = [pipe EXCEPT ![created + 1] = n]
        PROVE  OpenUntilClosed'
    <3>1. created + 1 \in Pipes /\ \A d \in 1..accepted : pipe'[d] = pipe[d]
      BY <1>1, <2>2 DEF Pipes
    <3>2. \A m : \A k \in Kinds : \A d : Denotes(m, k, d) => DenotesThen(m, k, d)
      BY <1>1, <2>2, <3>1, AllocateKeeps
    <3> QED
      BY <1>1, <1>2, <2>1, <3>1, <3>2
  <2>3. CASE UNCHANGED <<table, pipe>>
    BY <1>3, <2>1, <2>3
  <2> QED
    BY <1>4, <2>2, <2>3 DEF AcceptCreate
<1>5. CASE AcceptConnect
  <2>1. PICK n : /\ Allocate(n, "connect", accepted + 1)
                 /\ connect' = [connect EXCEPT ![accepted + 1] = n]
    BY <1>5 DEF AcceptConnect
  <2>2. /\ UNCHANGED <<accepted, signalled, pipe>>
        /\ accepted + 1 \in Pipes /\ \A d \in 1..accepted : connect'[d] = connect[d]
    BY <1>1, <1>5, <2>1 DEF AcceptConnect, TypeOK, Pipes
  <2>3. \A m : \A k \in Kinds : \A d : Denotes(m, k, d) => DenotesThen(m, k, d)
    BY <1>1, <2>1, <2>2, AllocateKeeps
  <2> QED
    BY <1>1, <1>2, <2>2, <2>3
<1>6. ASSUME NEW c \in Pipes, Worker(c) PROVE OpenUntilClosed'
  <2>1. /\ UNCHANGED <<accepted, signalled, pipe, connect>>
        /\ UNCHANGED table \/ \E n : Allocate(n, "event", c)
    BY <1>6, WorkerSteps
  <2>2. ASSUME NEW n, Allocate(n, "event", c) PROVE OpenUntilClosed'
    <3>1. \A m : \A k \in Kinds : \A d : Denotes(m, k, d) => DenotesThen(m, k, d)
      BY <1>1, <2>2, AllocateKeeps
    <3> QED
      BY <1>1, <1>2, <2>1, <3>1
  <2> QED
    BY <1>3, <2>1, <2>2
<1>7. ASSUME NEW t \in Closers, Close(t) PROVE OpenUntilClosed'
  <2>1. UNCHANGED <<accepted, pipe, connect>>
    BY <1>7, ThreadSteps
  <2>2. CASE CloseTest(t) \/ CloseSet(t)
    BY <1>3, <2>1, <2>2 DEF CloseTest, CloseSet, Step
  <2>3. ASSUME NEW n, NEW kind \in {"pipe", "connect"}, Harmless(n, kind, Conn(t)),
               CloseHandle(n), Conn(t) \in signalled, UNCHANGED signalled
        PROVE  OpenUntilClosed'
    <3>1. \A m : \A k \in {"pipe", "connect"} : \A d :
            Denotes(m, k, d) /\ d # Conn(t) => DenotesThen(m, k, d)
      BY <2>3, HarmlessClose DEF Kinds
    <3> QED
      BY <1>2, <2>1, <2>3, <3>1
  <2>4. CASE ClosePipe(t)
    <3>1. /\ Conn(t) \in signalled /\ UNCHANGED signalled
          /\ CloseHandle(pipe[Conn(t)]) /\ Harmless(pipe[Conn(t)], "pipe", Conn(t))
      BY <2>4, ClosedNumber DEF ClosePipe, CloseInv
    <3> QED
      BY <2>3, <3>1
  <2>5. CASE CloseEvent(t)
    <3>1. /\ Conn(t) \in signalled /\ UNCHANGED signalled
          /\ CloseHandle(connect[Conn(t)])
          /\ Harmless(connect[Conn(t)], "connect", Conn(t))
      BY <2>5, ClosedNumber DEF CloseEvent, CloseInv
    <3> QED
      BY <2>3, <3>1
  <2> QED
    BY <1>7, <2>2, <2>4, <2>5 DEF Close
<1>8. CASE Pop \/ Quit \/ Push \/ StopWorkers
  BY <1>3, <1>8 DEF Pop, Quit, Push, StopWorkers, MainGoto, numbers
<1> QED
  BY <1>4, <1>5, <1>6, <1>7, <1>8, AcceptReturnCloseInv DEF Next, Listener

-----------------------------------------------------------------------------
\* Events of workers

LEMMA NextOwnEvent ==
  ASSUME TypeOK, ListenerInv, CloseInv, OwnEvent, Next
  PROVE  OwnEvent'
<1> DEFINE Waits == {"read", "wait", "await", "write"}
           Undisturbed == {"running", "joinListener"}
<1>1. /\ created \in Nat /\ accepted \in Nat /\ created > accepted /\ MaxPipes \in Nat
      /\ "pipe" \in Kinds /\ "connect" \in Kinds /\ "event" \in Kinds /\ "closing" \in Kinds
      /\ pc \in [Closers -> Labels] /\ Pipes \subseteq Closers /\ event \in [Pipes -> 0..Len(table)]
  BY HandlesAssumption, Threads DEF TypeOK, Pipes, ListenerInv, Kinds
<1>2. ASSUME main' \in Undisturbed => main \in Undisturbed,
             main' \in Undisturbed => \A c \in Pipes : pc'[c] \in Waits =>
               \/ DenotesThen(event'[c], "event", c)
               \/ /\ pc[c] \in Waits /\ event'[c] = event[c]
                  /\ Denotes(event[c], "event", c) => DenotesThen(event[c], "event", c)
      PROVE  OwnEvent'
  <2>1. main' \in Undisturbed =>
          \A c \in Pipes : pc'[c] \in Waits => DenotesThen(event'[c], "event", c)
    BY <1>2 DEF OwnEvent
  <2> QED
    BY <2>1 DEF OwnEvent, DenotesThen, Denotes
<1>3. ASSUME UNCHANGED <<table, event>>, main' \in Undisturbed => main \in Undisturbed,
             \A c \in Pipes : pc'[c] \in Waits => pc[c] \in Waits
      PROVE  OwnEvent'
  BY <1>3 DEF OwnEvent, Denotes
<1>4. ASSUME NEW n, NEW kind \in Kinds, NEW d \in Pipes, Allocate(n, kind, d),
             UNCHANGED <<event, main>>, \A c \in Pipes : pc'[c] \in Waits => pc[c] \in Waits
      PROVE  OwnEvent'
  <2>1. \A m : \A k \in Kinds : \A c : Denotes(m, k, c) => DenotesThen(m, k, c)
    BY <1>4, AllocateKeeps
  <2> QED
    BY <1>1, <1>2, <1>4, <2>1
<1>5. CASE Listener
  <2>1. UNCHANGED <<event, main>> /\ \A c \in Pipes : pc'[c] \in Waits => pc[c] \in Waits
    BY <1>1, <1>5 DEF Listener, AcceptCreate, AcceptConnect, AcceptReturn, Goto
  <2>2. \/ UNCHANGED table
        \/ \E n : created < MaxPipes /\ Allocate(n, "pipe", created + 1)
        \/ \E n : Allocate(n, "connect", accepted + 1)
        \/ \E n : Allocate(n, "closing", accepted + 1)
    BY <1>5 DEF Listener, AcceptCreate, AcceptConnect, AcceptReturn
  <2>3. /\ created < MaxPipes => created + 1 \in Pipes
        /\ accepted + 1 \in Pipes
    BY <1>1 DEF Pipes, TypeOK
  <2> QED
    BY <1>1, <1>3, <1>4, <2>1, <2>2, <2>3
<1>6. ASSUME NEW c \in Pipes, Worker(c) PROVE OwnEvent'
  <2>1. UNCHANGED main /\ \A d \in Pipes : d # c => pc'[d] = pc[d]
    BY <1>1, <1>6, WorkerSteps
  <2>2. CASE UNCHANGED <<table, event>> /\ (pc'[c] \in Waits => pc[c] = "read")
    BY <1>3, <2>1, <2>2
  <2>3. ASSUME NEW n, Allocate(n, "event", c), event' = [event EXCEPT ![c] = n]
        PROVE  OwnEvent'
    <3>1. /\ \A m : \A k \in Kinds : \A d : Denotes(m, k, d) => DenotesThen(m, k, d)
          /\ DenotesThen(n, "event", c)
      BY <1>1, <2>3, AllocateKeeps
    <3>2. event'[c] = n /\ \A d \in Pipes : d # c => event'[d] = event[d]
      BY <1>1, <2>3
    <3> QED
      BY <1>1, <1>2, <2>1, <3>1, <3>2
  <2> QED
    BY <1>1, <1>6, <2>2, <2>3, WorkerSteps
<1>7. ASSUME NEW t \in Closers, Close(t) PROVE OwnEvent'
  <2>1. UNCHANGED <<main, event>> /\ \A c \in Pipes : pc'[c] \in Waits => pc[c] \in Waits
    BY <1>1, <1>7 DEF Close, CloseTest, CloseSet, ClosePipe, CloseEvent, Step, Goto,
                      AfterClose, numbers
  <2>2. CASE CloseTest(t) \/ CloseSet(t)
    BY <1>3, <2>1, <2>2 DEF CloseTest, CloseSet, Step
  <2>3. ASSUME NEW n, NEW kind \in {"pipe", "connect"}, Harmless(n, kind, Conn(t)),
               CloseHandle(n)
        PROVE  OwnEvent'
    <3>1. main \in Undisturbed =>
            \A m : \A c : Denotes(m, "event", c) => DenotesThen(m, "event", c)
      BY <1>1, <2>3, HarmlessClose
    <3> QED
      BY <1>2, <2>1, <3>1
  <2>4. CASE ClosePipe(t)
    BY <2>3, <2>4, ClosedNumber DEF ClosePipe
  <2>5. CASE CloseEvent(t)
    BY <2>3, <2>5, ClosedNumber DEF CloseEvent
  <2> QED
    BY <1>7, <2>2, <2>4, <2>5 DEF Close
<1>8. CASE Pop \/ Quit \/ Push \/ StopWorkers
  <2>1. /\ UNCHANGED <<table, event>>
        /\ main' \in Undisturbed => main \in Undisturbed
        /\ \A c \in Pipes : pc'[c] = pc[c]
    BY <1>1, <1>8, Threads DEF Pop, Goto, Quit, Push, StopWorkers, MainGoto, numbers
  <2> QED
    BY <1>3, <2>1
<1> QED
  BY <1>5, <1>6, <1>7, <1>8 DEF Next

-----------------------------------------------------------------------------
\* What holds of every behaviour

\* The inductive invariant holds in every state: which connections there are,
\* what is where in the table of numbers, and what threads will close.
THEOREM HandlesAreTracked == Spec => []HandlesInv
<1>1. Init => HandlesInv
  BY InitTypeOK, InitListenerInv, InitTableInv, InitCloseInv DEF HandlesInv
<1>2. HandlesInv /\ [Next]_vars => HandlesInv'
  <2> SUFFICES ASSUME HandlesInv, [Next]_vars PROVE HandlesInv'
    OBVIOUS
  <2>1. CASE Next
    BY <2>1, NextTypeOK, NextListenerInv, NextTableInv, NextCloseInv,
       NextOpenUntilClosed, NextOwnEvent DEF HandlesInv
  <2>2. CASE UNCHANGED vars
    <3> USE <2>2 DEF vars, numbers, HandlesInv
    <3>1. TypeOK'
      BY DEF TypeOK
    <3>2. ListenerInv'
      BY DEF ListenerInv
    <3>3. TableInv'
      BY DEF TableInv, Denotes
    <3>4. CloseInv'
      BY DEF CloseInv, Harmless, Denotes, BeingClosed, Conn
    <3>5. OpenUntilClosed' /\ OwnEvent'
      BY DEF OpenUntilClosed, OwnEvent, Denotes
    <3> QED
      BY <3>1, <3>2, <3>3, <3>4, <3>5
  <2> QED
    BY <2>1, <2>2
<1> QED
  BY <1>1, <1>2, PTL DEF Spec

\* A connection whose closingEvent is not set still has its pipe and the event
\* of its ConnectNamedPipe: PipeConnection::close() of a copy, or one that is
\* late, does not close the numbers of another connection.
THEOREM OnlyCloseCloses == Spec => []OpenUntilClosed
<1>1. HandlesInv => OpenUntilClosed
  BY DEF HandlesInv
<1> QED
  BY <1>1, HandlesAreTracked, PTL

\* A worker waits for its own event: the numbers that Event and new_overlapped
\* get are not closed by another worker's close().
THEOREM WaitsAreOwn == Spec => []OwnEvent
<1>1. HandlesInv => OwnEvent
  BY DEF HandlesInv
<1> QED
  BY <1>1, HandlesAreTracked, PTL

\* The worker of process_incoming_connection never has its ReadFile or
\* WriteFile served by the pipe of another client.
THEOREM NoWorkerCrossesTalk == Spec => []NoCrossTalk
<1>1. HandlesInv => NoCrossTalk
  <2> SUFFICES ASSUME HandlesInv, NEW c \in Pipes, NEW d \in Pipes \ {c},
                      pc[c] \in {"read", "readMore", "write"}, Denotes(pipe[c], "pipe", d)
               PROVE  FALSE
    BY DEF NoCrossTalk
  <2>1. c \in 1..accepted
    BY Threads DEF HandlesInv, ListenerInv, TypeOK, Pipes
  <2>2. Harmless(pipe[c], "pipe", c)
    BY <2>1 DEF HandlesInv, CloseInv
  <2>3. table[pipe[c]].kind = "pipe" /\ table[pipe[c]].of = d
    BY ObjectFacts DEF Denotes
  <2>4. Denotes(pipe[c], "pipe", c)
    BY <2>2, <2>3 DEF Harmless
  <2>5. table[pipe[c]].of = c
    BY <2>4, ObjectFacts DEF Denotes
  <2> QED
    BY <2>3, <2>5
<1> QED
  BY <1>1, HandlesAreTracked, PTL

\* A worker that left its loop because its client is gone has given both
\* numbers back, unless the collector is about to.
THEOREM NumbersAreGivenBack == Spec => []GivenBack
<1>1. HandlesInv => GivenBack
  <2> SUFFICES ASSUME HandlesInv, NEW c \in 1..accepted,
                      pc[c] = "exited", main # "stopWorkers"
               PROVE  \/ ~Denotes(pipe[c], "pipe", c) /\ ~Denotes(connect[c], "connect", c)
                      \/ collecting = c /\ pc[Collector] \in {"closePipe", "closeEvent"}
    BY DEF GivenBack
  <2> QED
    BY DEF HandlesInv, CloseInv, BeingClosed
<1> QED
  BY <1>1, HandlesAreTracked, PTL
=============================================================================
