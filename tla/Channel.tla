------------------------------- MODULE Channel -------------------------------
(***************************************************************************)
(* What a connection of the server (foo_rpc/foo_rpc.cpp with pipe.h)       *)
(* promises its client: as long as both ends stay, requests are taken one  *)
(* by one in the order they were sent, and the next is not taken before    *)
(* the last one has its reply.  Once the connection is cut, replies may be *)
(* lost, from the last one on, and requests may be taken without a reply.  *)
(***************************************************************************)
EXTENDS Naturals, Sequences

CONSTANTS Requests,
          Reply(_)   \* the reply a request must get

VARIABLES sent,     \* the requests, in the order the client sent them
          taken,    \* how many of them the server has taken
          answers,  \* the replies it has written
          link      \* "new" before there is a client, "open", or "cut"

channelVars == <<sent, taken, answers, link>>

Init == /\ sent = <<>> /\ taken = 0 /\ answers = <<>>
        /\ link \in {"new", "open"}

Open == /\ link = "new"
        /\ link' = "open"
        /\ UNCHANGED <<sent, taken, answers>>

Send(r) == /\ link # "new"
           /\ sent' = Append(sent, r)
           /\ UNCHANGED <<taken, answers, link>>

Take == /\ taken < Len(sent)
        /\ link = "open" => Len(answers) = taken
        /\ taken' = taken + 1
        /\ UNCHANGED <<sent, answers, link>>

Answer == /\ link = "open"
          /\ Len(answers) < taken
          /\ answers' = Append(answers, Reply(sent[Len(answers) + 1]))
          /\ UNCHANGED <<sent, taken, link>>

\* One end goes, or replies that were under way are lost after that.
Cut == /\ link' = "cut"
       /\ \E n \in 0..Len(answers) : answers' = SubSeq(answers, 1, n)
       /\ UNCHANGED <<sent, taken>>

\* The pipe waits for another client, before anything was taken from it.
Renew == /\ link = "cut"
         /\ taken = 0 /\ answers = <<>>
         /\ link' = "new"
         /\ sent' = <<>>
         /\ UNCHANGED <<taken, answers>>

Next == \/ Open \/ Take \/ Answer \/ Cut \/ Renew
        \/ \E r \in Requests : Send(r)

Spec == Init /\ [][Next]_channelVars
=============================================================================
