----------------------------- MODULE ServerQuit -----------------------------
(***************************************************************************)
(* The stop of the component (on_quit in foo_rpc/foo_rpc.cpp) under        *)
(* different assumptions about its clients, and what the comment in        *)
(* on_quit and the documentation promise of it.                            *)
(***************************************************************************)
EXTENDS Server

\* Once foobar2000 quits, clients do not stay for ever.
ClientsLeave ==
  \A c \in Clients : WF_vars(~undefined /\ main # "running" /\ HangUp(c))

PatientSpec == Spec /\ ClientsLeave

\* Nobody quits.
UpSpec == Init /\ [][Next /\ UNCHANGED main]_vars /\ Fairness

\* The listener waits for a client, and no call is under way.
Quiet == /\ listener = "wait" /\ stage[accepting] = "listening"
         /\ callbacks = <<>>
         /\ \A h \in Instances : /\ worker[h] \notin {"dispatch", "await", "reply"}
                                 /\ nread[h] = Len(requests[h])

\* foobar2000 quits at a quiet moment, and from then on nobody opens the
\* pipe or sends a request.
QuietStep == \/ main = "running" /\ (main' = "running" \/ Quiet)
             \/ main # "running" /\ UNCHANGED <<at, requests>>

QuietSpec == /\ Init /\ [][Next /\ QuietStep]_vars
             /\ Fairness /\ ClientsLeave

\* At a quiet moment the order of on_quit is right: the final connection
\* wakes accept, the threads end one after the other and on_quit returns.
QuitCompletes == main # "running" ~> main = "done"

\* The collector thread ends once on_quit has told it to: it sees the event,
\* or it finds the dummy connection in the queue.
CollectorEnds == stopCollector ~> collector = "exited"

-----------------------------------------------------------------------------
\* What the comments of on_quit and the documentation say, and the code
\* does not do

\* "Notify the collector thread to close after finishing processing the
\* non-closed connections": when it ends, every connection is closed.
CollectorDrains ==
  collector = "exited" => \A n \in 1..Len(tracked) : tracked[n] \in closing

\* "Connect ... as a final client, in order to force the accept() method to
\* return": after that the listener thread ends.
FinalClientWakesAccept ==
  main = "joinListener" ~> listener = "exited" \/ undefined

\* "Wait for the spawned threads to be stopped": once on_quit waits for the
\* workers, and their clients leave, it returns.
WorkersStop == main = "stopWorker" ~> main = "done"

Unanswered(c) == /\ at[c] # NoHandle
                 /\ stage[at[c]] = "connected"
                 /\ Len(requests[at[c]]) > replies[at[c]]

\* "Each API call returns a two-element tuple": as long as nobody quits, a
\* request on an open connection is answered.
CallAnswered == \A c \in Clients : Unanswered(c) ~> ~Unanswered(c)
=============================================================================
