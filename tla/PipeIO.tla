------------------------------- MODULE PipeIO -------------------------------
(***************************************************************************)
(* The reads and writes inside one connection: PipeConnection::recv and    *)
(* send of pipe.h, over recv_bytes, get_more_data and send_bytes of        *)
(* _winapi.cpp.  The pipe keeps messages apart; recv takes the first       *)
(* INITIAL_READ_SIZE bytes of one, and the rest with a second read.  Reads *)
(* and writes are overlapped: they may pend, and the kernel uses buffer    *)
(* and OVERLAPPED of the caller until they complete.  Server takes recv    *)
(* and send for single steps; this module is what justifies it.            *)
(***************************************************************************)
EXTENDS Integers, SequencesExt

CONSTANTS Messages,         \* requests, as sequences of bytes
          Zero,             \* the byte an unused place of the buffer holds
          InitialReadSize,  \* bytes recv asks for at first
          InQuota,          \* bytes the pipe buffers on their way to the worker
          OutQuota,         \* and to the client
          Response,         \* the payload that answers each request
          Refusal,          \* the payload that answers what is no request
          MaxRequests,      \* bound: requests of the client
          MaxAhead          \* requests it sends before it reads a reply

Bytes == 0..255

\* msgpack objects are self-delimiting: none is the beginning of another.
ASSUME MessagesAssumption ==
  /\ Messages \subseteq Seq(Bytes) /\ <<>> \notin Messages
  /\ \A m, n \in Messages : IsPrefix(m, n) => m = n
  /\ InitialReadSize \in Nat \ {0}
  /\ InQuota \in Nat /\ OutQuota \in Nat
  /\ Zero \in Bytes /\ Refusal \in Seq(Bytes)
  /\ DOMAIN Response = Messages /\ \A m \in Messages : Response[m] \in Seq(Bytes)

VARIABLES
  sent,        \* history: the requests the client wrote
  got,         \* history: the replies it read
  clientOpen,  \* its end of the pipe
  sending,     \* its write waits
  inbound,     \* messages to the worker, the first perhaps read in part
  outbound,    \* messages to the client
  worker,      \* where the worker is
  collected,   \* the collector has closed the handle
  read,        \* state of the overlapped read of recv_bytes
  buffer,      \* buffer of recv
  left,        \* nleft of get_more_data
  handed,      \* history: the buffers that were handed to the dispatcher
  response,    \* the payload to send
  write,       \* state of the overlapped write of send_bytes
  written      \* what WriteFile stored there

clientVars == <<sent, got, clientOpen, sending>>
readVars   == <<read, buffer, left>>
writeVars  == <<response, write, written>>
vars == <<clientVars, inbound, outbound, worker, collected, readVars, handed,
          writeVars>>

Init == /\ sent = <<>> /\ got = <<>> /\ clientOpen = TRUE /\ sending = FALSE
        /\ inbound = <<>> /\ outbound = <<>>
        /\ worker = "read" /\ collected = FALSE
        /\ read = "none" /\ buffer = <<>> /\ left = 0
        /\ handed = <<>>
        /\ response = <<>> /\ write = "none" /\ written = 0

Least(m, n) == IF m <= n THEN m ELSE n
Zeros(n) == [k \in 1..n |-> Zero]

-----------------------------------------------------------------------------
\* The pipe, in message mode.  A read takes bytes of the first message only
\* and says whether some are left.

Chunk(n) == SubSeq(Head(inbound), 1, Least(n, Len(Head(inbound))))

Status(n) == IF Len(Head(inbound)) <= n THEN "success" ELSE "more"

Rest(n) == IF Len(Head(inbound)) <= n
           THEN Tail(inbound)
           ELSE [inbound EXCEPT ![1] = SubSeq(@, n + 1, Len(@))]

HandleOpen == ~collected /\ worker # "closed"

\* Nothing to read, and nobody to write it
Broken == inbound = <<>> /\ ~clientOpen

Size(messages) == FoldLeft(LAMBDA n, m : n + Len(m), 0, messages)

\* More is on its way than the pipe can buffer: the last write waits.
InboundFull  == inbound # <<>> /\ Size(inbound) > InQuota
OutboundFull == outbound # <<>> /\ Size(outbound) > OutQuota

-----------------------------------------------------------------------------
\* recv: the first read

Padded(chunk) == chunk \o Zeros(InitialReadSize - Len(chunk))

AfterRead(status) == IF status = "more" THEN "peek" ELSE "dispatch"

\* A message is there: ReadFile completes at once.
ReadNow == /\ worker = "read" /\ HandleOpen
           /\ inbound # <<>>
           /\ buffer' = Padded(Chunk(InitialReadSize))
           /\ inbound' = Rest(InitialReadSize)
           /\ read' = Status(InitialReadSize)
           /\ worker' = AfterRead(read')
           /\ UNCHANGED <<clientVars, outbound, collected, left, handed, writeVars>>

ReadPends == /\ worker = "read" /\ HandleOpen
             /\ inbound = <<>> /\ clientOpen
             /\ buffer' = Zeros(InitialReadSize)
             /\ read' = "pending"
             /\ worker' = "awaitRead"
             /\ UNCHANGED <<clientVars, inbound, outbound, collected, left, handed,
                            writeVars>>

\* recv fails, and the worker closes the connection.
ReadFails == /\ worker = "read"
             /\ ~HandleOpen \/ Broken
             /\ worker' = "closed"
             /\ UNCHANGED <<clientVars, inbound, outbound, collected, readVars, handed,
                            writeVars>>

\* The kernel completes the read that pends: with a message, or because an
\* end of the pipe is gone.
KernelRead == /\ read = "pending" /\ HandleOpen
              /\ inbound # <<>>
              /\ buffer' = Padded(Chunk(InitialReadSize))
              /\ inbound' = Rest(InitialReadSize)
              /\ read' = Status(InitialReadSize)
              /\ UNCHANGED <<clientVars, outbound, worker, collected, left, handed,
                             writeVars>>

KernelReadFails == /\ read = "pending"
                   /\ ~HandleOpen \/ Broken
                   /\ read' = "failed"
                   /\ UNCHANGED <<clientVars, inbound, outbound, worker, collected,
                                  buffer, left, handed, writeVars>>

\* Mutant: recv goes by the error of ReadFile, ERROR_IO_PENDING, and not by
\* that of the overlapped result.
WakeReadIgnoringMore ==
  /\ worker = "awaitRead"
  /\ read # "pending"
  /\ worker' = IF read = "failed" THEN "closed" ELSE "dispatch"
  /\ UNCHANGED <<clientVars, inbound, outbound, collected, readVars, handed, writeVars>>

\* Mutant: ReadFile has stored 0 in nread, which is taken for the end of the
\* connection.
WakeReadEmpty ==
  /\ worker = "awaitRead"
  /\ read # "pending"
  /\ worker' = "closed"
  /\ UNCHANGED <<clientVars, inbound, outbound, collected, readVars, handed, writeVars>>

\* wait_overlapped_event returns, and get_overlapped_result says how it went.
WakeRead ==
  /\ worker = "awaitRead"
  /\ read # "pending"
  /\ worker' = IF read = "failed" THEN "closed" ELSE AfterRead(read)
  /\ UNCHANGED <<clientVars, inbound, outbound, collected, readVars, handed, writeVars>>

-----------------------------------------------------------------------------
\* recv: get_more_data.  The collector may close the handle before either call,
\* and a client that leaves may take back the message it is writing.

Peek == /\ worker = "peek"
        /\ IF HandleOpen /\ ~Broken
           THEN left' = Len(Head(inbound)) /\ worker' = "readMore"
           ELSE left' = left /\ worker' = "closed"
        /\ UNCHANGED <<clientVars, inbound, outbound, collected, read, buffer, handed,
                       writeVars>>

ReadMore == /\ worker = "readMore"
            /\ IF HandleOpen /\ ~Broken
               THEN /\ buffer' = buffer \o Chunk(left)
                    /\ inbound' = Rest(left)
                    /\ worker' = "dispatch"
               ELSE /\ worker' = "closed"
                    /\ UNCHANGED <<buffer, inbound>>
            /\ UNCHANGED <<clientVars, outbound, collected, read, left, handed, writeVars>>

-----------------------------------------------------------------------------
\* The dispatcher unpacks the request at the start of the buffer.

Payload(bytes) == IF \E m \in Messages : IsPrefix(m, bytes)
                  THEN Response[CHOOSE m \in Messages : IsPrefix(m, bytes)]
                  ELSE Refusal

Dispatch == /\ worker = "dispatch"
            /\ handed' = Append(handed, buffer)
            /\ response' = Payload(buffer)
            /\ worker' = "write"
            /\ UNCHANGED <<clientVars, inbound, outbound, collected, readVars, write,
                           written>>

-----------------------------------------------------------------------------
\* send: process_incoming_connection does not look at its result.

WriteNow == /\ worker = "write" /\ HandleOpen /\ clientOpen
            /\ Size(outbound) + Len(response) <= OutQuota
            /\ outbound' = Append(outbound, response)
            /\ written' = Len(response)
            /\ write' = "success"
            /\ worker' = "read"
            /\ UNCHANGED <<clientVars, inbound, collected, readVars, handed, response>>

\* Mutant: send_bytes does not wait for a write that pends.
WriteOnly == /\ worker = "write" /\ HandleOpen /\ clientOpen
             /\ Size(outbound) + Len(response) > OutQuota
             /\ outbound' = Append(outbound, response)
             /\ written' = 0
             /\ write' = "pending"
             /\ worker' = "read"
             /\ UNCHANGED <<clientVars, inbound, collected, readVars, handed, response>>

\* More than the pipe can buffer: the write pends, and WriteFile has stored 0
\* in written.  The string it writes from is a parameter of write_to_pipe and
\* gone when that returns; the model has the kernel copy it before.
WritePends == /\ worker = "write" /\ HandleOpen /\ clientOpen
              /\ Size(outbound) + Len(response) > OutQuota
              /\ outbound' = Append(outbound, response)
              /\ written' = 0
              /\ write' = "pending"
              /\ worker' = "awaitWrite"
              /\ UNCHANGED <<clientVars, inbound, collected, readVars, handed, response>>

WriteFails == /\ worker = "write"
              /\ ~HandleOpen \/ ~clientOpen
              /\ write' = "failed"
              /\ worker' = "read"
              /\ UNCHANGED <<clientVars, inbound, outbound, collected, readVars, handed,
                             response, written>>

KernelWrite == /\ write = "pending" /\ HandleOpen /\ clientOpen
               /\ ~OutboundFull
               /\ write' = "success"
               /\ UNCHANGED <<clientVars, inbound, outbound, worker, collected, readVars,
                              handed, response, written>>

\* What the client has not read of it may or may not stay in the pipe.
KernelWriteFails ==
  /\ write = "pending"
  /\ ~HandleOpen \/ ~clientOpen
  /\ write' = "failed"
  /\ \/ UNCHANGED outbound
     \/ outbound # <<>> /\ outbound' = Front(outbound)
  /\ UNCHANGED <<clientVars, inbound, worker, collected, readVars, handed, response,
                 written>>

\* Mutant: written # len is taken for a short write, and send starts again.
WakeWriteRetry == /\ worker = "awaitWrite"
                  /\ write # "pending"
                  /\ worker' = IF write = "success" THEN "write" ELSE "read"
                  /\ UNCHANGED <<clientVars, inbound, outbound, collected, readVars,
                                 handed, writeVars>>

WakeWrite == /\ worker = "awaitWrite"
             /\ write # "pending"
             /\ worker' = "read"
             /\ UNCHANGED <<clientVars, inbound, outbound, collected, readVars, handed,
                            writeVars>>

-----------------------------------------------------------------------------
\* The client and the collector

\* A write that the pipe cannot buffer waits, and the client with it.
ClientSend(m) == /\ clientOpen /\ ~sending
                 /\ Len(sent) < MaxRequests /\ Len(sent) - Len(got) < MaxAhead
                 /\ sent' = Append(sent, m)
                 /\ inbound' = Append(inbound, m)
                 /\ sending' = InboundFull'
                 /\ UNCHANGED <<got, clientOpen, outbound, worker, collected, readVars,
                                handed, writeVars>>

\* The write of the client returns: the pipe has its message, or the worker's
\* end is gone.
KernelTakes == /\ sending
               /\ ~InboundFull \/ ~HandleOpen
               /\ sending' = FALSE
               /\ UNCHANGED <<sent, got, clientOpen, inbound, outbound, worker, collected,
                              readVars, handed, writeVars>>

ClientReceive == /\ clientOpen /\ ~sending
                 /\ outbound # <<>>
                 /\ got' = Append(got, Head(outbound))
                 /\ outbound' = Tail(outbound)
                 /\ UNCHANGED <<sent, clientOpen, sending, inbound, worker, collected,
                                readVars, handed, writeVars>>

\* Replies it has not read are gone.  Its requests can still be read, but what
\* is left of one it was writing may go with it.
ClientClose == /\ clientOpen
               /\ clientOpen' = FALSE /\ sending' = FALSE
               /\ outbound' = <<>>
               /\ \/ UNCHANGED inbound
                  \/ sending /\ InboundFull /\ inbound' = Front(inbound)
               /\ UNCHANGED <<sent, got, worker, collected, readVars, handed, writeVars>>

CollectorClose == /\ ~collected /\ worker # "closed"
                  /\ collected' = TRUE
                  /\ UNCHANGED <<clientVars, inbound, outbound, worker, readVars, handed,
                                 writeVars>>

-----------------------------------------------------------------------------
Worker == \/ ReadNow \/ ReadPends \/ ReadFails \/ WakeRead
          \/ Peek \/ ReadMore \/ Dispatch
          \/ WriteNow \/ WritePends \/ WriteFails \/ WakeWrite

Kernel == \/ KernelRead \/ KernelReadFails \/ KernelWrite \/ KernelWriteFails
          \/ KernelTakes

Next == \/ Worker \/ Kernel
        \/ \E m \in Messages : ClientSend(m)
        \/ ClientReceive \/ ClientClose \/ CollectorClose

\* The worker thread and the kernel go on, and a client that stays, and is not
\* held up in a write, reads its replies.
Spec == /\ Init /\ [][Next]_vars
        /\ WF_vars(Worker) /\ WF_vars(Kernel) /\ WF_vars(ClientReceive)

-----------------------------------------------------------------------------
Payloads == {Response[m] : m \in Messages} \cup {Refusal}

TypeOK ==
  /\ sent \in Seq(Messages)
  /\ got \in Seq(Payloads)
  /\ outbound \in Seq(Payloads)
  /\ inbound \in Seq(Seq(Bytes) \ {<<>>})
  /\ buffer \in Seq(Bytes) /\ handed \in Seq(Seq(Bytes))
  /\ clientOpen \in BOOLEAN /\ collected \in BOOLEAN /\ sending \in BOOLEAN
  /\ worker \in {"read", "awaitRead", "peek", "readMore", "dispatch", "write",
                 "awaitWrite", "closed"}
  /\ read \in {"none", "pending", "success", "more", "failed"}
  /\ write \in {"none", "pending", "success", "failed"}
  /\ response \in Payloads \cup {<<>>}
  /\ left \in Nat /\ written \in Nat

\* The kernel writes to the buffer of recv and to the OVERLAPPED of recv_bytes
\* or send_bytes only while the worker is in that function: they are on its
\* stack.
BufferAlive == /\ read = "pending" => worker = "awaitRead"
               /\ write = "pending" => worker = "awaitWrite"

\* get_more_data asks for what is left of this message and finds it, unless
\* the client took it back and left: the assertion nleft > 0 holds, and its
\* read cannot pend.
MoreIsThere ==
  /\ worker \in {"peek", "readMore"} => read = "more" /\ (inbound # <<>> \/ Broken)
  /\ worker = "readMore" => left > 0 /\ (Broken \/ left = Len(Head(inbound)))

\* The bytes of a request, and zeros after them
Frames(m, bytes) == /\ IsPrefix(m, bytes)
                    /\ \A k \in Len(m) + 1..Len(bytes) : bytes[k] = Zero

\* Whole requests reach the dispatcher, one by one and in the order the
\* client wrote them, however they were read: each buffer has the bytes of its
\* request, and zeros after them.
Framed ==
  /\ Len(handed) <= Len(sent)
  /\ \A n \in 1..Len(handed) : Frames(sent[n], handed[n])

\* A message was read that is not yet handed over, whole or in part.
ReadWhole == worker = "dispatch" \/ (worker = "awaitRead" /\ read = "success")
ReadPart == worker \in {"peek", "readMore"} \/ (worker = "awaitRead" /\ read = "more")

Removed == Len(handed) + IF ReadWhole THEN 1 ELSE 0

\* Where the bytes of the requests are: in the buffers that were handed over,
\* in the buffer of recv and in the pipe.
StreamInv ==
  worker # "closed" =>
    /\ worker = "awaitRead" => read # "none"
    /\ Removed + Len(inbound) <= Len(sent)
    /\ clientOpen => Removed + Len(inbound) = Len(sent) /\ (ReadPart => inbound # <<>>)
    /\ \A k \in 1..Len(inbound) : k > 1 \/ ~ReadPart => inbound[k] = sent[Removed + k]
    /\ ReadWhole => Frames(sent[Removed], buffer)
    /\ ReadPart /\ inbound # <<>> => sent[Removed + 1] = buffer \o Head(inbound)

\* As long as the connection stays, each request that was handed over has its
\* reply, except the last one until it is written.
AnswerInv ==
  /\ worker = "write" => Len(handed) > 0 /\ response = Response[sent[Len(handed)]]
  /\ clientOpen /\ HandleOpen =>
       Len(handed) = Len(got) + Len(outbound) + IF worker = "write" THEN 1 ELSE 0

\* The inductive invariant of the connection
PipeInv == TypeOK /\ BufferAlive /\ MoreIsThere /\ Framed /\ StreamInv /\ AnswerInv

\* Together recv, dispatcher and send make a channel of the connection: one
\* reply for each request, its own, before the next request reaches the
\* dispatcher, also when reads and writes pend and the client is slow to read.
\* What the client has read and what waits in the pipe are the replies.
ResponseTo(m) == Response[m]
Answers == got \o outbound
Link == IF clientOpen /\ HandleOpen THEN "open" ELSE "cut"

Connection == INSTANCE Channel WITH
  Requests <- Messages, Reply <- ResponseTo,
  taken <- Len(handed), answers <- Answers, link <- Link

AnswersInOrder == Connection!Spec

\* Both ends wait in a write, and neither reads: the client for the worker to
\* read its request, the worker for the client to read a reply.
Jammed == /\ clientOpen /\ HandleOpen
          /\ sending /\ InboundFull
          /\ write = "pending" /\ OutboundFull

\* A request that was written is answered, unless client or collector close
\* the connection, or both ends are held up in their writes.
Exchange == \A n \in 1..MaxRequests :
              Len(sent) >= n ~> Len(got) >= n \/ ~clientOpen \/ collected \/ Jammed

\* It takes a client that writes a request before it has read the reply to the
\* last one: one that waits for each reply never meets the worker in a write,
\* however large requests and replies are.
InTurnNeverJams == Jammed => Len(sent) >= Len(got) + 2
=============================================================================
