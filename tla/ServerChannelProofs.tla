------------------------- MODULE ServerChannelProofs -------------------------
(***************************************************************************)
(* For every number of clients, pipe instances and requests: each pipe     *)
(* instance of the server, with the threads that serve it, implements      *)
(* Channel.  Step by step, with the answers of a connection read as the    *)
(* prefix of its requests that is answered:                                *)
(*   a client, or on_quit as the final one, opens the instance     Open    *)
(*   a client writes a request                                     Send    *)
(*   recv returns one                                              Take    *)
(*   send writes the reply while the client is there               Answer  *)
(*   either end is closed, or listener.close() disconnects it      Cut     *)
(*   accept makes it available again                               Renew   *)
(***************************************************************************)
EXTENDS ServerProofs

\* The answered prefix of the requests
LEMMA PrefixLength ==
  ASSUME NEW S, NEW s \in Seq(S), NEW r \in 0..Len(s)
  PROVE  SubSeq(s, 1, r) \in Seq(S) /\ Len(SubSeq(s, 1, r)) = r
OBVIOUS

LEMMA PrefixIsSeq ==
  ASSUME NEW S, NEW s \in Seq(S)
  PROVE  SubSeq(s, 1, Len(s)) = s
OBVIOUS

LEMMA PrefixOfAppend ==
  ASSUME NEW S, NEW s \in Seq(S), NEW e \in S, NEW r \in 0..Len(s)
  PROVE  SubSeq(Append(s, e), 1, r) = SubSeq(s, 1, r)
OBVIOUS

LEMMA PrefixGrows ==
  ASSUME NEW S, NEW s \in Seq(S), NEW r \in 0..Len(s), r < Len(s)
  PROVE  SubSeq(s, 1, r + 1) = Append(SubSeq(s, 1, r), s[r + 1])
OBVIOUS

LEMMA LinkOf ==
  ASSUME NEW h \in Instances
  PROVE  /\ stage[h] \in {"none", "listening"} => Link(h) = "new"
         /\ stage[h] = "connected" => Link(h) = "open"
         /\ stage[h] \in {"closing", "disconnected", "closed"} => Link(h) = "cut"
         /\ stage'[h] \in {"none", "listening"} => Link(h)' = "new"
         /\ stage'[h] = "connected" => Link(h)' = "open"
         /\ stage'[h] \in {"closing", "disconnected", "closed"} => Link(h)' = "cut"
BY DEF Link

-----------------------------------------------------------------------------
Answers(h) == SubSeq(requests[h], 1, replies[h])

\* Accept gives an instance to another client only when nothing was read
\* from it, and what its last client wrote is gone.
LEMMA StepIsRenew ==
  ASSUME ServerInv, AcceptConnect, NEW h \in Instances, h = accepting,
         stage[h] = "disconnected"
  PROVE  Connection(h)!Renew
<1>1. /\ worker[h] = "none" /\ UNCHANGED <<nread, replies>>
      /\ ConnectNamedPipe(h)
  BY Handles DEF AcceptConnect, ServerInv, AcceptInv
<1>2. stage'[h] = "listening" /\ requests'[h] = <<>>
  BY <1>1 DEF ConnectNamedPipe, ServerInv, TypeOK, PipeTypeOK
<1>3. nread[h] = 0 /\ replies[h] = 0
  BY <1>1 DEF ServerInv, TrafficInv, TypeOK, PipeTypeOK
<1>4. Answers(h) = <<>> /\ Answers(h)' = <<>>
  <2>1. requests[h] \in Seq(Kinds)
    BY DEF ServerInv, TypeOK, PipeTypeOK
  <2>2. SubSeq(requests[h], 1, 0) = <<>> /\ SubSeq(<<>>, 1, 0) = <<>>
    BY <2>1
  <2> QED
    BY <1>1, <1>2, <1>3, <2>2 DEF Answers
<1>5. Link(h) = "cut" /\ Link(h)' = "new"
  BY <1>2, LinkOf
<1> QED
  BY <1>1, <1>2, <1>3, <1>4, <1>5 DEF Connection!Renew, Answers

\* No message moves: the connection is opened or cut, or nothing is seen.
LEMMA QuietStepOfLink ==
  ASSUME ServerInv, Next, NEW h \in Instances, NoTraffic(h),
         ~(AcceptConnect /\ h = accepting /\ stage[h] = "disconnected")
  PROVE  \/ Connection(h)!Open
         \/ Connection(h)!Cut
         \/ UNCHANGED <<requests[h], nread[h], replies[h], Link(h)>>
<1>1. /\ requests[h] \in Seq(Kinds) /\ replies[h] \in 0..Len(requests[h])
      /\ stage[h] \in Stages
  BY DEF ServerInv, TypeOK, PipeTypeOK, TrafficInv
<1>2. /\ UNCHANGED <<requests[h], nread[h], replies[h]>>
      /\ Answers(h)' = Answers(h)
  BY DEF NoTraffic, Answers
<1>3. Answers(h) \in Seq(Kinds) /\ Len(Answers(h)) \in Nat
  BY <1>1, PrefixLength DEF Answers
<1>4. Answers(h) = SubSeq(Answers(h), 1, Len(Answers(h)))
  BY <1>3, PrefixIsSeq
<1>5. CASE Link(h)' = Link(h)
  BY <1>2, <1>5
<1>6. CASE Link(h) = "new" /\ Link(h)' = "open"
  BY <1>2, <1>6 DEF Connection!Open, Answers
<1>7. CASE Link(h)' = "cut"
  BY <1>2, <1>3, <1>4, <1>7 DEF Connection!Cut, Answers
<1> QED
  BY <1>1, <1>5, <1>6, <1>7, StageSteps, LinkOf DEF ServerInv, Stages

LEMMA StepIsSend ==
  ASSUME ServerInv, NEW h \in Instances, NEW kind \in Kinds,
         stage[h] = "connected", stage'[h] = stage[h],
         requests'[h] = Append(requests[h], kind),
         nread'[h] = nread[h], replies'[h] = replies[h]
  PROVE  Connection(h)!Send(kind)
<1>1. requests[h] \in Seq(Kinds) /\ replies[h] \in 0..Len(requests[h])
  BY DEF ServerInv, TypeOK, PipeTypeOK, TrafficInv
<1>2. Answers(h)' = Answers(h)
  BY <1>1, PrefixOfAppend DEF Answers
<1>3. Link(h) = "open" /\ Link(h)' = "open"
  BY LinkOf
<1> QED
  BY <1>2, <1>3 DEF Connection!Send, Answers

LEMMA StepIsTake ==
  ASSUME ServerInv, NEW h \in Instances, nread[h] < Len(requests[h]),
         stage'[h] = stage[h], worker[h] = "recv", nread'[h] = nread[h] + 1,
         requests'[h] = requests[h], replies'[h] = replies[h]
  PROVE  Connection(h)!Take
<1>1. /\ requests[h] \in Seq(Kinds) /\ replies[h] \in 0..Len(requests[h])
      /\ stage[h] \in Stages
  BY DEF ServerInv, TypeOK, PipeTypeOK, TrafficInv
<1>2. Len(Answers(h)) = replies[h] /\ Answers(h)' = Answers(h)
  BY <1>1, PrefixLength DEF Answers
<1>3. Link(h) = "open" => replies[h] = nread[h]
  BY <1>1, LinkOf DEF ServerInv, TrafficInv, Stages
<1>4. Link(h)' = Link(h)
  BY <1>1, LinkOf DEF Stages
<1> QED
  BY <1>2, <1>3, <1>4 DEF Connection!Take, Answers

LEMMA StepIsAnswer ==
  ASSUME ServerInv, NEW h \in Instances, stage[h] = "connected",
         stage'[h] = stage[h], worker[h] = "reply", replies'[h] = replies[h] + 1,
         requests'[h] = requests[h], nread'[h] = nread[h]
  PROVE  Connection(h)!Answer
<1>1. /\ requests[h] \in Seq(Kinds) /\ replies[h] \in 0..Len(requests[h])
      /\ replies[h] < nread[h] /\ replies[h] < Len(requests[h])
  BY DEF ServerInv, TypeOK, PipeTypeOK, TrafficInv
<1>2. /\ Len(Answers(h)) = replies[h]
      /\ Answers(h)' = Append(Answers(h), requests[h][replies[h] + 1])
  BY <1>1, PrefixLength, PrefixGrows DEF Answers
<1>3. Link(h) = "open" /\ Link(h)' = "open"
  BY LinkOf
<1> QED
  BY <1>1, <1>2, <1>3 DEF Connection!Answer, Answers, ReplyTo

LEMMA StepIsChannelStep ==
  ASSUME ServerInv, [Next]_vars, NEW h \in Instances
  PROVE  [Connection(h)!Next]_<<requests[h], nread[h], replies[h], Link(h)>>
<1>1. CASE UNCHANGED vars
  BY <1>1 DEF vars, pipeVars, Link
<1>2. CASE Next
  <2>1. CASE AcceptConnect /\ h = accepting /\ stage[h] = "disconnected"
    BY <2>1, StepIsRenew DEF Connection!Next
  <2>2. CASE ~(AcceptConnect /\ h = accepting /\ stage[h] = "disconnected")
    <3>1. CASE NoTraffic(h)
      BY <1>2, <2>2, <3>1, QuietStepOfLink DEF Connection!Next
    <3>2. CASE /\ stage[h] = "connected" /\ stage'[h] = stage[h]
               /\ \E kind \in Kinds : requests'[h] = Append(requests[h], kind)
               /\ nread'[h] = nread[h] /\ replies'[h] = replies[h]
      BY <3>2, StepIsSend DEF Connection!Next
    <3>3. CASE /\ nread[h] < Len(requests[h]) /\ stage'[h] = stage[h]
               /\ worker[h] = "recv" /\ nread'[h] = nread[h] + 1
               /\ requests'[h] = requests[h] /\ replies'[h] = replies[h]
      BY <3>3, StepIsTake DEF Connection!Next
    <3>4. CASE /\ stage[h] = "connected" /\ stage'[h] = stage[h]
               /\ worker[h] = "reply" /\ replies'[h] = replies[h] + 1
               /\ requests'[h] = requests[h] /\ nread'[h] = nread[h]
      BY <3>4, StepIsAnswer DEF Connection!Next
    <3> QED
      BY <1>2, <2>2, <3>1, <3>2, <3>3, <3>4, TrafficSteps DEF ServerInv
  <2> QED
    BY <2>1, <2>2
<1> QED
  BY <1>1, <1>2

\* Each connection keeps the promise of Channel: requests are taken in the
\* order they were sent, each has its reply before the next is taken as long
\* as both ends stay, and no client gets an instance another was served on.
THEOREM ConnectionsImplementChannels == Spec => ConnectionsAreChannels
<1>1. Init => \A h \in Instances : Connection(h)!Init
  <2> SUFFICES ASSUME Init, NEW h \in Instances PROVE Connection(h)!Init
    OBVIOUS
  <2>1. requests[h] = <<>> /\ nread[h] = 0 /\ replies[h] = 0
    BY DEF Init, PipeInit
  <2>2. Link(h) \in {"new", "open"}
    BY LinkOf DEF Init, PipeInit
  <2> QED
    BY <2>1, <2>2 DEF Connection!Init
<1>2. ServerInv /\ [Next]_vars =>
        \A h \in Instances :
          [Connection(h)!Next]_<<requests[h], nread[h], replies[h], Link(h)>>
  BY StepIsChannelStep
<1>3. ServerInv /\ [Next]_vars =>
        [\A h \in Instances :
           [Connection(h)!Next]_<<requests[h], nread[h], replies[h], Link(h)>>]_vars
  BY <1>2
<1> QED
  BY <1>1, <1>3, ServerIsSafe, PTL DEF Spec, ConnectionsAreChannels
=============================================================================
