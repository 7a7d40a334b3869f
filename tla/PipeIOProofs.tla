---------------------------- MODULE PipeIOProofs ----------------------------
(***************************************************************************)
(* For every set of requests of which none begins another, every size of   *)
(* the first read and every quota of the pipe: recv hands over whole       *)
(* requests, and the connection implements Channel.                        *)
(***************************************************************************)
EXTENDS PipeIO, SequenceTheorems, TLAPS

\* Sequences

LEMMA PrefixPoints ==
  ASSUME NEW S, NEW s \in Seq(S), NEW t \in Seq(S)
  PROVE  IsPrefix(s, t) <=> /\ Len(s) <= Len(t)
                            /\ \A k \in 1..Len(s) : s[k] = t[k]
<1>1. Len(s) \in Nat /\ Len(t) \in Nat
  OBVIOUS
<1>2. SubSeq(s, 1, Len(s)) = [k \in 1..Len(s) |-> s[k]]
  OBVIOUS
<1>3. SubSeq(t, 1, Len(s)) = [k \in 1..Len(s) |-> t[k]]
  BY <1>1
<1> QED
  BY <1>2, <1>3 DEF IsPrefix

\* A read of n bytes or more takes a message whole.
LEMMA WholeRead ==
  ASSUME NEW S, NEW m \in Seq(S), NEW n \in Nat, Len(m) <= n
  PROVE  SubSeq(m, 1, Least(n, Len(m))) = m
<1>1. Len(m) \in Nat /\ Least(n, Len(m)) = Len(m)
  BY DEF Least
<1>2. SubSeq(m, 1, Len(m)) = m
  OBVIOUS
<1> QED
  BY <1>1, <1>2

\* A shorter one leaves the rest.
LEMMA PartRead ==
  ASSUME NEW S, NEW m \in Seq(S), NEW n \in Nat \ {0}, n < Len(m)
  PROVE  LET chunk == SubSeq(m, 1, Least(n, Len(m)))
             rest  == SubSeq(m, n + 1, Len(m))
         IN  /\ chunk \in Seq(S) /\ Len(chunk) = n
             /\ rest \in Seq(S) /\ rest # <<>>
             /\ chunk \o rest = m
<1>1. Len(m) \in Nat /\ Least(n, Len(m)) = n
  BY DEF Least
<1>2. /\ SubSeq(m, 1, n) \in Seq(S) /\ Len(SubSeq(m, 1, n)) = n
      /\ SubSeq(m, n + 1, Len(m)) \in Seq(S)
      /\ Len(SubSeq(m, n + 1, Len(m))) = Len(m) - n
  BY <1>1
<1>3. SubSeq(m, 1, n) \o SubSeq(m, n + 1, Len(m)) = m
  <2>1. /\ 1 \in 1..Len(m) + 1 /\ n \in 0..Len(m) /\ Len(m) \in n..Len(m)
        /\ 1 - 1 = 0
    BY <1>1
  <2>2. SubSeq(m, 1, n) \o SubSeq(m, n + 1, Len(m)) = SubSeq(m, 1, Len(m))
    BY <2>1, ConcatAdjacentSubSeq
  <2> QED
    BY <2>2, SubSeqFull
<1>4. SubSeq(m, n + 1, Len(m)) # <<>>
  <2>1. Len(SubSeq(m, n + 1, Len(m))) # 0
    BY <1>1, <1>2
  <2> QED
    BY <2>1, EmptySeq
<1> QED
  BY <1>1, <1>2, <1>3, <1>4

LEMMA FramesItself ==
  ASSUME NEW m \in Seq(Bytes)
  PROVE  Frames(m, m)
<1>1. IsPrefix(m, m)
  BY PrefixPoints
<1>2. Len(m) \in Nat
  OBVIOUS
<1> QED
  BY <1>1, <1>2 DEF Frames

LEMMA PaddedFrames ==
  ASSUME NEW m \in Seq(Bytes), Len(m) <= InitialReadSize
  PROVE  Padded(m) \in Seq(Bytes) /\ Frames(m, Padded(m))
<1>1. Len(m) \in Nat /\ InitialReadSize \in Nat /\ Zero \in Bytes
  BY MessagesAssumption
<1> DEFINE n == InitialReadSize - Len(m)
<1>2. /\ Zeros(n) \in Seq(Bytes) /\ Len(Zeros(n)) = n
      /\ \A k \in 1..n : Zeros(n)[k] = Zero
  BY <1>1 DEF Zeros
<1>3. /\ Padded(m) = m \o Zeros(n) /\ n \in Nat
  BY <1>1 DEF Padded
<1> HIDE DEF n
<1>4. /\ m \o Zeros(n) \in Seq(Bytes)
      /\ Len(m \o Zeros(n)) = Len(m) + n
      /\ \A k \in 1..Len(m) + n :
           (m \o Zeros(n))[k] = IF k <= Len(m) THEN m[k] ELSE Zeros(n)[k - Len(m)]
  <2>1. Zeros(n) \in Seq(Bytes) /\ Len(Zeros(n)) = n
    BY <1>2
  <2> QED
    BY <2>1, ConcatProperties
<1>5. /\ Padded(m) \in Seq(Bytes)
      /\ Len(Padded(m)) = Len(m) + n
      /\ \A k \in 1..Len(m) : Padded(m)[k] = m[k]
      /\ \A k \in Len(m) + 1..Len(m) + n : Padded(m)[k] = Zero
  BY <1>1, <1>2, <1>3, <1>4
<1>6. IsPrefix(m, Padded(m))
  <2>1. Len(m) <= Len(Padded(m))
    BY <1>1, <1>3, <1>5
  <2>2. m \in Seq(Bytes) /\ Padded(m) \in Seq(Bytes)
    BY <1>5
  <2>3. IsPrefix(m, Padded(m)) <=>
          Len(m) <= Len(Padded(m)) /\ \A k \in 1..Len(m) : m[k] = Padded(m)[k]
    BY <2>2, PrefixPoints
  <2> QED
    BY <1>5, <2>1, <2>3
<1> QED
  BY <1>5, <1>6 DEF Frames

LEMMA PaddedLonger ==
  ASSUME NEW chunk \in Seq(Bytes), Len(chunk) = InitialReadSize
  PROVE  Padded(chunk) = chunk
<1>1. InitialReadSize - Len(chunk) = 0
  BY MessagesAssumption
<1>2. Zeros(0) = <<>>
  BY DEF Zeros
<1> QED
  BY <1>1, <1>2 DEF Padded

\* No request begins another, so the buffer tells which one it has.
LEMMA PayloadOf ==
  ASSUME NEW m \in Messages, NEW bytes \in Seq(Bytes), Frames(m, bytes)
  PROVE  Payload(bytes) = Response[m]
<1>1. IsPrefix(m, bytes) /\ m \in Seq(Bytes)
  BY MessagesAssumption DEF Frames
<1>2. ASSUME NEW n \in Messages, IsPrefix(n, bytes)
      PROVE  n = m
  <2>1. n \in Seq(Bytes) /\ Len(n) \in Nat /\ Len(m) \in Nat
    BY <1>1, MessagesAssumption
  <2>2. /\ \A k \in 1..Len(m) : m[k] = bytes[k]
        /\ \A k \in 1..Len(n) : n[k] = bytes[k]
    BY <1>1, <1>2, <2>1, PrefixPoints
  <2>3. CASE Len(m) <= Len(n)
    <3>1. IsPrefix(m, n)
      BY <1>1, <2>1, <2>2, <2>3, PrefixPoints
    <3> QED
      BY <3>1, MessagesAssumption
  <2>4. CASE Len(n) <= Len(m)
    <3>1. IsPrefix(n, m)
      BY <1>1, <2>1, <2>2, <2>4, PrefixPoints
    <3> QED
      BY <3>1, MessagesAssumption
  <2> QED
    BY <2>1, <2>3, <2>4
<1>3. (CHOOSE n \in Messages : IsPrefix(n, bytes)) = m
  BY <1>1, <1>2
<1> QED
  BY <1>1, <1>3 DEF Payload

-----------------------------------------------------------------------------
\* What the reads take from the pipe

Nonempty == Seq(Bytes) \ {<<>>}

LEMMA FirstRead ==
  ASSUME inbound \in Seq(Nonempty), inbound # <<>>,
         buffer' = Padded(Chunk(InitialReadSize)),
         inbound' = Rest(InitialReadSize), read' = Status(InitialReadSize)
  PROVE  /\ buffer' \in Seq(Bytes) /\ inbound' \in Seq(Nonempty)
         /\ read' \in {"success", "more"}
         /\ read' = "success" =>
              /\ Len(inbound) = 1 + Len(inbound')
              /\ \A k \in 1..Len(inbound') : inbound'[k] = inbound[1 + k]
              /\ Frames(inbound[1], buffer')
         /\ read' = "more" =>
              /\ Len(inbound) = Len(inbound') /\ inbound' # <<>>
              /\ \A k \in 1..Len(inbound') : k > 1 => inbound'[k] = inbound[k]
              /\ inbound[1] = buffer' \o Head(inbound')
<1> DEFINE m == Head(inbound)
<1>1. /\ m \in Seq(Bytes) /\ m = inbound[1] /\ Len(m) \in Nat
      /\ Len(inbound) \in Nat \ {0}
      /\ InitialReadSize \in Nat \ {0}
  BY MessagesAssumption DEF Nonempty
<1>2. CASE Len(m) <= InitialReadSize
  <2>1. read' = "success" /\ inbound' = Tail(inbound)
    BY <1>2 DEF Status, Rest
  <2>2. /\ inbound' \in Seq(Nonempty) /\ Len(inbound') = Len(inbound) - 1
        /\ \A k \in 1..Len(inbound') : inbound'[k] = inbound[k + 1]
    BY <2>1, HeadTailProperties
  <2>3. Chunk(InitialReadSize) = m
    BY <1>1, <1>2, WholeRead DEF Chunk
  <2>4. buffer' \in Seq(Bytes) /\ Frames(m, buffer')
    BY <1>1, <1>2, <2>3, PaddedFrames
  <2>5. Len(inbound) = 1 + Len(inbound') /\ \A k \in 1..Len(inbound') : 1 + k = k + 1
    BY <1>1, <2>2
  <2> QED
    BY <1>1, <2>1, <2>2, <2>4, <2>5
<1>3. CASE ~(Len(m) <= InitialReadSize)
  <2> DEFINE chunk == SubSeq(m, 1, Least(InitialReadSize, Len(m)))
             rest  == SubSeq(m, InitialReadSize + 1, Len(m))
  <2>1. read' = "more" /\ inbound' = [inbound EXCEPT ![1] = SubSeq(@, InitialReadSize + 1, Len(@))]
    BY <1>3 DEF Status, Rest
  <2>2. inbound' = [inbound EXCEPT ![1] = rest]
    BY <1>1, <2>1
  <2>3. InitialReadSize < Len(m)
    BY <1>1, <1>3
  <2>4. /\ chunk \in Seq(Bytes) /\ Len(chunk) = InitialReadSize
        /\ rest \in Seq(Bytes) /\ rest # <<>> /\ chunk \o rest = m
    BY <1>1, <2>3, PartRead
  <2>5. buffer' = chunk
    <3>1. Chunk(InitialReadSize) = chunk
      BY DEF Chunk
    <3> QED
      BY <2>4, <3>1, PaddedLonger
  <2> HIDE DEF m, chunk, rest
  <2>6. rest \in Nonempty /\ 1 \in 1..Len(inbound)
    BY <1>1, <2>4 DEF Nonempty
  <2>7. /\ inbound' \in Seq(Nonempty) /\ Len(inbound') = Len(inbound)
        /\ \A k \in 1..Len(inbound) : inbound'[k] = IF k = 1 THEN rest ELSE inbound[k]
    BY <2>2, <2>6, ExceptSeq
  <2>8. inbound' # <<>> /\ Head(inbound') = rest
    BY <1>1, <2>6, <2>7
  <2>9. \A k \in 2..Len(inbound) : inbound'[k] = inbound[k]
    BY <2>7
  <2> QED
    BY <1>1, <2>1, <2>4, <2>5, <2>7, <2>8, <2>9, SMTT(20)
<1> QED
  BY <1>2, <1>3

\* get_more_data knows how much is left, and takes it.
LEMMA SecondRead ==
  ASSUME inbound \in Seq(Nonempty), inbound # <<>>, left = Len(Head(inbound))
  PROVE  /\ Chunk(left) = Head(inbound) /\ Head(inbound) \in Seq(Bytes)
         /\ Rest(left) \in Seq(Nonempty)
         /\ Len(inbound) = 1 + Len(Rest(left))
         /\ \A k \in 1..Len(Rest(left)) : Rest(left)[k] = inbound[1 + k]
<1>1. Head(inbound) \in Seq(Bytes) /\ left \in Nat /\ Len(inbound) \in Nat \ {0}
  BY DEF Nonempty
<1>2. Rest(left) = Tail(inbound)
  BY <1>1 DEF Rest
<1>3. /\ Tail(inbound) \in Seq(Nonempty) /\ Len(Tail(inbound)) = Len(inbound) - 1
      /\ \A k \in 1..Len(Tail(inbound)) : Tail(inbound)[k] = inbound[k + 1]
  BY HeadTailProperties
<1>4. Chunk(left) = Head(inbound)
  BY <1>1, WholeRead DEF Chunk
<1>5. Len(inbound) = 1 + Len(Tail(inbound)) /\ \A k \in 1..Len(Tail(inbound)) : 1 + k = k + 1
  BY <1>1, <1>3
<1> QED
  BY <1>1, <1>2, <1>3, <1>4, <1>5

-----------------------------------------------------------------------------
\* Types

LEMMA PayloadIsOne == \A bytes : Payload(bytes) \in Payloads
BY DEF Payload, Payloads

LEMMA PayloadsAreBytes == Payloads \subseteq Seq(Bytes)
BY MessagesAssumption DEF Payloads

LEMMA FrontOf ==
  ASSUME NEW S, NEW s \in Seq(S), s # <<>>
  PROVE  /\ Front(s) \in Seq(S)
         /\ Len(s) \in Nat \ {0} /\ Len(Front(s)) = Len(s) - 1
         /\ \A k \in 1..Len(s) - 1 : Front(s)[k] = s[k]
<1>1. Front(s) = SubSeq(s, 1, Len(s) - 1)
  BY DEF Front
<1>2. /\ Len(s) \in Nat \ {0}
      /\ \A k \in 1..Len(s) - 1 : s[k] \in S
  OBVIOUS
<1> DEFINE n == Len(s) - 1
<1>3. n \in Int /\ 1 \in Int /\ n >= 0
  BY <1>2
<1> HIDE DEF n
<1>4. /\ SubSeq(s, 1, n) \in Seq(S)
      /\ Len(SubSeq(s, 1, n)) = IF 1 <= n THEN n - 1 + 1 ELSE 0
      /\ \A k \in 1..n - 1 + 1 : SubSeq(s, 1, n)[k] = s[1 + k - 1]
  <2>1. \A k \in 1..n : s[k] \in S
    BY <1>2 DEF n
  <2> QED
    BY <1>3, <2>1, SubSeqProperties
<1>5. Len(SubSeq(s, 1, n)) = n
  BY <1>3, <1>4
<1>6. \A k \in 1..n : SubSeq(s, 1, n)[k] = s[k]
  BY <1>3, <1>4
<1> QED
  BY <1>1, <1>2, <1>4, <1>5, <1>6 DEF n

LEMMA FrontIsHead ==
  ASSUME NEW S, NEW s \in Seq(S), s # <<>>, Front(s) # <<>>
  PROVE  Head(Front(s)) = Head(s)
<1>1. /\ Front(s) \in Seq(S) /\ Len(s) \in Nat \ {0} /\ Len(Front(s)) = Len(s) - 1
      /\ \A k \in 1..Len(s) - 1 : Front(s)[k] = s[k]
  BY FrontOf
<1>2. Len(Front(s)) \in Nat \ {0}
  BY <1>1
<1>3. 1 \in 1..Len(s) - 1
  BY <1>1, <1>2
<1>4. Head(Front(s)) = Front(s)[1] /\ Head(s) = s[1]
  OBVIOUS
<1> QED
  BY <1>1, <1>3, <1>4

LEMMA ResponseIsPayload ==
  ASSUME TypeOK, Framed, AnswerInv, worker = "write"
  PROVE  response \in Payloads
<1>1. Len(handed) \in 1..Len(sent) /\ sent \in Seq(Messages)
  BY DEF TypeOK, Framed, AnswerInv
<1>2. sent[Len(handed)] \in Messages
  BY <1>1, ElementOfSeq
<1> QED
  BY <1>2 DEF AnswerInv, Payloads

LEMMA InitTypeOK == Init => TypeOK
<1> SUFFICES ASSUME Init PROVE TypeOK
  OBVIOUS
<1>1. \A S : <<>> \in Seq(S)
  OBVIOUS
<1> QED
  BY <1>1 DEF Init, TypeOK

LEMMA NextTypeOK ==
  ASSUME TypeOK, MoreIsThere, Framed, AnswerInv, Next
  PROVE  TypeOK'
<1> USE DEF clientVars, readVars, writeVars
<1>1. inbound \in Seq(Nonempty)
  BY DEF TypeOK, Nonempty
<1>2. CASE ReadNow \/ KernelRead
  <2>1. /\ buffer' \in Seq(Bytes) /\ inbound' \in Seq(Nonempty)
        /\ read' \in {"success", "more"}
    BY <1>1, <1>2, FirstRead DEF ReadNow, KernelRead
  <2>2. worker' \in {worker, "peek", "dispatch"}
    BY <1>2 DEF ReadNow, KernelRead, AfterRead
  <2> QED
    BY <1>2, <2>1, <2>2 DEF ReadNow, KernelRead, TypeOK, Nonempty
<1>3. CASE ReadPends
  <2>1. Zeros(InitialReadSize) \in Seq(Bytes)
    BY MessagesAssumption DEF Zeros
  <2> QED
    BY <1>3, <2>1 DEF ReadPends, TypeOK
<1>4. CASE ReadFails \/ KernelReadFails \/ WakeRead
  BY <1>4 DEF ReadFails, KernelReadFails, WakeRead, AfterRead, TypeOK
<1>5. CASE Peek
  <2>1. ~Broken => Len(Head(inbound)) \in Nat
    BY <1>1, <1>5 DEF Peek, MoreIsThere, Nonempty
  <2> QED
    BY <1>5, <2>1 DEF Peek, TypeOK
<1>6. CASE ReadMore
  <2>1. ~Broken => Chunk(left) \in Seq(Bytes) /\ Rest(left) \in Seq(Nonempty)
    BY <1>1, <1>6, SecondRead DEF ReadMore, MoreIsThere
  <2>2. ~Broken => buffer \o Chunk(left) \in Seq(Bytes)
    BY <2>1, ConcatProperties DEF TypeOK
  <2> QED
    BY <1>6, <2>1, <2>2 DEF ReadMore, TypeOK, Nonempty
<1>7. CASE Dispatch
  <2>1. Append(handed, buffer) \in Seq(Seq(Bytes))
    BY AppendProperties DEF TypeOK
  <2> QED
    BY <1>7, <2>1, PayloadIsOne DEF Dispatch, TypeOK
<1>8. CASE WriteNow \/ WritePends
  <2>1. response \in Seq(Bytes)
    BY PayloadsAreBytes, EmptySeq DEF TypeOK
  <2>2. Len(response) \in Nat
    <3>1. response \in Seq(Bytes) => Len(response) \in Nat
      BY LenProperties
    <3> QED
      BY <2>1, <3>1
  <2>3. response \in Payloads
    BY <1>8, ResponseIsPayload DEF WriteNow, WritePends
  <2>4. Append(outbound, response) \in Seq(Payloads)
    BY <2>3, AppendProperties DEF TypeOK
  <2>5. /\ outbound' \in Seq(Payloads) /\ written' \in Nat
        /\ write' \in {"success", "pending"} /\ worker' \in {"read", "awaitWrite"}
        /\ UNCHANGED <<clientVars, inbound, collected, read, buffer, left, handed,
                       response>>
    BY <1>8, <2>2, <2>4 DEF WriteNow, WritePends
  <2> QED
    BY <2>5 DEF TypeOK
<1>9. CASE WriteFails \/ WakeWrite \/ KernelWrite \/ KernelTakes
  BY <1>9 DEF WriteFails, WakeWrite, KernelWrite, KernelTakes, TypeOK
<1>10. CASE KernelWriteFails
  <2>1. outbound # <<>> => Front(outbound) \in Seq(Payloads)
    BY FrontOf DEF TypeOK
  <2> QED
    BY <1>10, <2>1 DEF KernelWriteFails, TypeOK
<1>11. ASSUME NEW m \in Messages, ClientSend(m) PROVE TypeOK'
  <2>1. m \in Nonempty
    BY MessagesAssumption DEF Nonempty
  <2>2. Append(inbound, m) \in Seq(Nonempty) /\ Append(sent, m) \in Seq(Messages)
    BY <1>1, <2>1, AppendProperties DEF TypeOK
  <2>3. sending' \in BOOLEAN
    BY <1>11 DEF ClientSend, InboundFull
  <2> QED
    BY <1>11, <2>2, <2>3 DEF ClientSend, TypeOK, Nonempty
<1>12. CASE ClientReceive
  <2>1. /\ Head(outbound) \in Payloads /\ Tail(outbound) \in Seq(Payloads)
        /\ got \in Seq(Payloads)
    BY <1>12, HeadTailProperties DEF ClientReceive, TypeOK
  <2>2. Append(got, Head(outbound)) \in Seq(Payloads)
    BY <2>1, AppendProperties
  <2> QED
    BY <1>12, <2>1, <2>2 DEF ClientReceive, TypeOK
<1>13. CASE ClientClose
  <2>1. <<>> \in Seq(Payloads)
    BY EmptySeq
  <2>2. inbound' \in Seq(Nonempty)
    BY <1>1, <1>13, FrontOf DEF ClientClose, InboundFull
  <2> QED
    BY <1>13, <2>1, <2>2 DEF ClientClose, TypeOK, Nonempty
<1>14. CASE CollectorClose
  BY <1>14 DEF CollectorClose, TypeOK
<1> QED
  BY <1>2, <1>3, <1>4, <1>5, <1>6, <1>7, <1>8, <1>9, <1>10, <1>11, <1>12, <1>13,
     <1>14
  DEF Next, Worker, Kernel

-----------------------------------------------------------------------------
\* Where the worker is, and what is there for it

LEMMA NextBufferAlive ==
  ASSUME BufferAlive, Next
  PROVE  BufferAlive'
<1> USE DEF clientVars, readVars, writeVars, BufferAlive
<1>1. CASE ReadNow \/ ReadPends \/ ReadFails \/ WakeRead
  BY <1>1 DEF ReadNow, ReadPends, ReadFails, WakeRead, Status
<1>2. CASE Peek \/ ReadMore \/ Dispatch
  BY <1>2 DEF Peek, ReadMore, Dispatch
<1>3. CASE WriteNow \/ WritePends \/ WriteFails \/ WakeWrite
  BY <1>3 DEF WriteNow, WritePends, WriteFails, WakeWrite
<1>4. CASE Kernel
  BY <1>4 DEF Kernel, KernelRead, KernelReadFails, KernelWrite, KernelWriteFails,
              KernelTakes, Status
<1>5. ASSUME NEW m \in Messages, ClientSend(m) PROVE BufferAlive'
  BY <1>5 DEF ClientSend
<1>6. CASE ClientReceive \/ ClientClose \/ CollectorClose
  BY <1>6 DEF ClientReceive, ClientClose, CollectorClose
<1> QED
  BY <1>1, <1>2, <1>3, <1>4, <1>5, <1>6 DEF Next, Worker

LEMMA NextMoreIsThere ==
  ASSUME TypeOK, BufferAlive, MoreIsThere, StreamInv, Next
  PROVE  MoreIsThere'
<1> USE DEF clientVars, readVars, writeVars
<1>1. inbound \in Seq(Nonempty)
  BY DEF TypeOK, Nonempty
<1>2. CASE ReadNow
  <2>1. /\ worker' = AfterRead(read')
        /\ read' \in {"success", "more"}
        /\ read' = "more" => inbound' # <<>>
    BY <1>1, <1>2, FirstRead DEF ReadNow
  <2> QED
    BY <2>1 DEF MoreIsThere, AfterRead
<1>3. CASE KernelRead
  BY <1>3 DEF KernelRead, BufferAlive, MoreIsThere
<1>4. CASE ReadPends \/ ReadFails \/ KernelReadFails
  BY <1>4 DEF ReadPends, ReadFails, KernelReadFails, BufferAlive, MoreIsThere
<1>5. CASE WakeRead
  <2>1. read = "more" => inbound # <<>> \/ Broken
    BY <1>5 DEF WakeRead, StreamInv, ReadPart, Broken, TypeOK
  <2> QED
    BY <1>5, <2>1 DEF WakeRead, AfterRead, MoreIsThere, Broken
<1>6. CASE Peek
  <2>1. read = "more" /\ (inbound # <<>> \/ Broken)
    BY <1>6 DEF Peek, MoreIsThere
  <2>2. inbound # <<>> => Len(Head(inbound)) \in Nat \ {0}
    BY <1>1 DEF Nonempty
  <2> QED
    BY <1>6, <2>1, <2>2 DEF Peek, MoreIsThere, Broken
<1>7. CASE ReadMore \/ Dispatch
  BY <1>7 DEF ReadMore, Dispatch, MoreIsThere
<1>8. CASE WriteNow \/ WritePends \/ WriteFails \/ WakeWrite
  BY <1>8 DEF WriteNow, WritePends, WriteFails, WakeWrite, MoreIsThere
<1>9. CASE KernelWrite \/ KernelWriteFails \/ KernelTakes
  BY <1>9 DEF KernelWrite, KernelWriteFails, KernelTakes, MoreIsThere, Broken
<1>10. ASSUME NEW m \in Messages, ClientSend(m) PROVE MoreIsThere'
  <2>1. m \in Nonempty
    BY MessagesAssumption DEF Nonempty
  <2>2. inbound # <<>> => inbound' # <<>> /\ Head(inbound') = Head(inbound)
    BY <1>1, <1>10, <2>1, AppendProperties, HeadTailAppend DEF ClientSend
  <2> QED
    BY <1>10, <2>2 DEF ClientSend, MoreIsThere, Broken
<1>11. CASE ClientClose
  <2>1. inbound # <<>> /\ inbound' # <<>> => Head(inbound') = Head(inbound)
    BY <1>1, <1>11, FrontIsHead DEF ClientClose
  <2> QED
    BY <1>11, <2>1 DEF ClientClose, MoreIsThere, Broken
<1>12. CASE ClientReceive \/ CollectorClose
  BY <1>12 DEF ClientReceive, CollectorClose, MoreIsThere, Broken
<1> QED
  BY <1>2, <1>3, <1>4, <1>5, <1>6, <1>7, <1>8, <1>9, <1>10, <1>11, <1>12
  DEF Next, Worker, Kernel

-----------------------------------------------------------------------------
\* Where the bytes of the requests are

\* No message moves.
LEMMA StreamKept ==
  ASSUME StreamInv, UNCHANGED <<inbound, sent, handed>>, clientOpen' => clientOpen,
         worker' # "closed" =>
           /\ worker # "closed"
           /\ worker' = "awaitRead" => read' # "none"
           /\ ReadWhole' <=> ReadWhole
           /\ ReadPart' <=> ReadPart
           /\ buffer' = buffer \/ (~ReadWhole /\ ~ReadPart)
  PROVE  StreamInv'
<1> SUFFICES ASSUME worker' # "closed"
             PROVE  /\ worker' = "awaitRead" => read' # "none"
                    /\ Removed' + Len(inbound') <= Len(sent')
                    /\ clientOpen' => /\ Removed' + Len(inbound') = Len(sent')
                                      /\ ReadPart' => inbound' # <<>>
                    /\ \A k \in 1..Len(inbound') :
                         k > 1 \/ ~ReadPart' => inbound'[k] = sent'[Removed' + k]
                    /\ ReadWhole' => Frames(sent'[Removed'], buffer')
                    /\ ReadPart' /\ inbound' # <<>> =>
                         sent'[Removed' + 1] = buffer' \o Head(inbound')
  BY DEF StreamInv, Frames
<1>1. Removed' = Removed
  BY DEF Removed
<1> QED
  BY <1>1 DEF StreamInv

\* The client leaves, and may take back the message it is writing.
LEMMA StreamClose ==
  ASSUME TypeOK, StreamInv, ClientClose
  PROVE  StreamInv'
<1> USE DEF readVars, writeVars, clientVars
<1>1. CASE worker = "closed"
  BY <1>1 DEF ClientClose, StreamInv
<1>2. CASE worker # "closed" /\ UNCHANGED inbound
  <2>1. UNCHANGED <<inbound, sent, handed, buffer, read, worker>> /\ ~clientOpen'
    BY <1>2 DEF ClientClose
  <2>2. worker' = "awaitRead" => read' # "none"
    BY <1>2, <2>1 DEF StreamInv
  <2> QED
    BY <1>2, <2>1, <2>2, StreamKept DEF ReadWhole, ReadPart
<1>3. CASE worker # "closed" /\ ~UNCHANGED inbound
  <2>1. /\ UNCHANGED <<sent, handed, buffer, read, worker>> /\ ~clientOpen'
        /\ inbound # <<>> /\ inbound' = Front(inbound) /\ inbound \in Seq(Nonempty)
        /\ Len(handed) \in Nat /\ sent \in Seq(Messages)
    BY <1>3 DEF ClientClose, InboundFull, TypeOK, Nonempty
  <2>2. /\ inbound' \in Seq(Nonempty) /\ Len(inbound) \in Nat \ {0}
        /\ Len(inbound') = Len(inbound) - 1
        /\ \A k \in 1..Len(inbound) - 1 : inbound'[k] = inbound[k]
    BY <2>1, FrontOf
  <2>3. /\ ReadWhole' <=> ReadWhole
        /\ ReadPart' <=> ReadPart
        /\ Removed' = Removed /\ Removed \in Nat /\ Len(sent) \in Nat
    BY <2>1 DEF ReadWhole, ReadPart, Removed
  <2>4. Removed' + Len(inbound') <= Len(sent')
    <3>1. Removed + Len(inbound) <= Len(sent)
      BY <1>3 DEF StreamInv
    <3> QED
      BY <2>1, <2>2, <2>3, <3>1
  <2>5. \A k \in 1..Len(inbound') : k \in 1..Len(inbound) - 1 /\ k \in 1..Len(inbound)
    BY <2>2
  <2>6. inbound' # <<>> => Head(inbound') = Head(inbound)
    BY <2>1, FrontIsHead
  <2> QED
    BY <1>3, <2>1, <2>2, <2>3, <2>4, <2>5, <2>6 DEF StreamInv, Frames
<1> QED
  BY <1>1, <1>2, <1>3

\* The first read has taken a message, or the beginning of one.
LEMMA StreamRead ==
  ASSUME TypeOK, BufferAlive, StreamInv, ReadNow \/ KernelRead
  PROVE  StreamInv'
<1> USE DEF clientVars, readVars, writeVars
<1>1. /\ inbound \in Seq(Nonempty) /\ sent \in Seq(Messages) /\ Len(handed) \in Nat
  BY DEF TypeOK, Nonempty
<1>2. /\ worker # "closed" /\ ~ReadWhole /\ ~ReadPart
      /\ inbound # <<>> /\ UNCHANGED <<sent, handed, clientOpen>>
      /\ worker' = "awaitRead" \/ worker' = AfterRead(read')
      /\ buffer' = Padded(Chunk(InitialReadSize))
      /\ inbound' = Rest(InitialReadSize) /\ read' = Status(InitialReadSize)
  BY DEF ReadNow, KernelRead, BufferAlive, ReadWhole, ReadPart
<1>3. /\ read' \in {"success", "more"} /\ inbound' \in Seq(Nonempty)
      /\ read' = "success" =>
              /\ Len(inbound) = 1 + Len(inbound')
              /\ \A k \in 1..Len(inbound') : inbound'[k] = inbound[1 + k]
              /\ Frames(inbound[1], buffer')
      /\ read' = "more" =>
              /\ Len(inbound) = Len(inbound') /\ inbound' # <<>>
              /\ \A k \in 1..Len(inbound') : k > 1 => inbound'[k] = inbound[k]
              /\ inbound[1] = buffer' \o Head(inbound')
  BY <1>1, <1>2, FirstRead
<1>4. /\ ReadWhole' <=> read' = "success"
      /\ ReadPart' <=> read' = "more"
  BY <1>2, <1>3 DEF ReadWhole, ReadPart, AfterRead
<1>5. /\ Removed = Len(handed) /\ Removed' = Len(handed) + IF read' = "success" THEN 1 ELSE 0
      /\ Len(handed) + Len(inbound) <= Len(sent)
      /\ clientOpen => Len(handed) + Len(inbound) = Len(sent)
      /\ \A k \in 1..Len(inbound) : inbound[k] = sent[Len(handed) + k]
      /\ Len(inbound) \in Nat \ {0} /\ Len(inbound') \in Nat /\ Len(sent) \in Nat
  BY <1>1, <1>2, <1>3, <1>4 DEF Removed, StreamInv
<1>6. CASE read' = "success"
  <2>1. /\ Removed' + Len(inbound') <= Len(sent)
        /\ clientOpen => Removed' + Len(inbound') = Len(sent)
    BY <1>1, <1>3, <1>5, <1>6
  <2>2. \A k \in 1..Len(inbound') : inbound'[k] = sent[Removed' + k]
    <3>1. ASSUME NEW k \in 1..Len(inbound') PROVE inbound'[k] = sent[Removed' + k]
      <4>1. 1 + k \in 1..Len(inbound) /\ Len(handed) + (1 + k) = Removed' + k
        <5>1. /\ Len(inbound) = 1 + Len(inbound') /\ Removed' = Len(handed) + 1
              /\ Len(handed) \in Nat /\ Len(inbound') \in Nat
          BY <1>1, <1>3, <1>5, <1>6
        <5> QED
          BY <5>1
      <4>2. inbound'[k] = inbound[1 + k]
        BY <1>3, <1>6
      <4> QED
        BY <1>5, <4>1, <4>2
    <3> QED
      BY <3>1
  <2>3. Frames(sent[Removed'], buffer')
    BY <1>3, <1>5, <1>6
  <2> QED
    BY <1>2, <1>4, <1>6, <2>1, <2>2, <2>3 DEF StreamInv, Frames
<1>7. CASE read' = "more"
  <2>1. Removed' = Len(handed)
    BY <1>1, <1>5, <1>7
  <2>2. /\ Removed' + Len(inbound') <= Len(sent)
        /\ clientOpen => Removed' + Len(inbound') = Len(sent)
    BY <1>3, <1>5, <1>7, <2>1
  <2>3. \A k \in 1..Len(inbound') : k > 1 => inbound'[k] = sent[Removed' + k]
    BY <1>3, <1>5, <1>7, <2>1
  <2>4. sent[Removed' + 1] = buffer' \o Head(inbound')
    BY <1>3, <1>5, <1>7, <2>1
  <2> QED
    BY <1>2, <1>3, <1>4, <1>7, <2>2, <2>3, <2>4 DEF StreamInv
<1> QED
  BY <1>3, <1>6, <1>7

\* The second read completes the message.
LEMMA StreamReadMore ==
  ASSUME TypeOK, MoreIsThere, StreamInv, ReadMore
  PROVE  StreamInv'
<1> USE DEF readVars, writeVars, clientVars
<1>1. CASE worker' = "closed"
  BY <1>1 DEF StreamInv
<1>2. CASE worker' # "closed"
  <2>1. /\ worker = "readMore" /\ worker' = "dispatch"
        /\ UNCHANGED <<sent, handed, clientOpen>> /\ ~Broken
        /\ buffer' = buffer \o Chunk(left) /\ inbound' = Rest(left)
    BY <1>2 DEF ReadMore
  <2>2. /\ inbound \in Seq(Nonempty) /\ sent \in Seq(Messages) /\ Len(handed) \in Nat
        /\ inbound # <<>> /\ left = Len(Head(inbound))
    BY <2>1 DEF TypeOK, Nonempty, MoreIsThere
  <2>3. /\ Chunk(left) = Head(inbound) /\ inbound' \in Seq(Nonempty)
        /\ Len(inbound) = 1 + Len(inbound')
        /\ \A k \in 1..Len(inbound') : inbound'[k] = inbound[1 + k]
    BY <2>1, <2>2, SecondRead
  <2>4. /\ ReadPart /\ ~ReadWhole /\ ReadWhole' /\ ~ReadPart'
        /\ Removed = Len(handed) /\ Removed' = Len(handed) + 1
    BY <2>1 DEF ReadPart, ReadWhole, Removed
  <2>5. /\ Len(handed) + Len(inbound) <= Len(sent)
        /\ clientOpen => Len(handed) + Len(inbound) = Len(sent)
        /\ \A k \in 1..Len(inbound) : k > 1 => inbound[k] = sent[Len(handed) + k]
        /\ sent[Len(handed) + 1] = buffer'
    BY <2>1, <2>2, <2>3, <2>4 DEF StreamInv
  <2>6. /\ Len(inbound') \in Nat /\ Len(inbound) \in Nat
        /\ Removed' + Len(inbound') <= Len(sent)
        /\ clientOpen => Removed' + Len(inbound') = Len(sent)
    BY <2>2, <2>3, <2>4, <2>5
  <2>7. ASSUME NEW k \in 1..Len(inbound') PROVE inbound'[k] = sent[Removed' + k]
    <3>1. 1 + k \in 1..Len(inbound) /\ 1 + k > 1 /\ Len(handed) + (1 + k) = Removed' + k
      BY <2>2, <2>3, <2>4, <2>6
    <3>2. inbound'[k] = inbound[1 + k]
      BY <2>3
    <3> QED
      BY <2>5, <3>1, <3>2
  <2>8. Frames(buffer', buffer')
    <3>1. buffer \o Chunk(left) \in Seq(Bytes)
      BY <2>2, SecondRead, ConcatProperties DEF TypeOK
    <3> QED
      BY <2>1, <3>1, FramesItself
  <2> QED
    BY <2>1, <2>4, <2>5, <2>6, <2>7, <2>8 DEF StreamInv, Frames
<1> QED
  BY <1>1, <1>2

\* The message is handed over.
LEMMA StreamDispatch ==
  ASSUME TypeOK, StreamInv, Framed, Dispatch
  PROVE  StreamInv' /\ Framed'
<1> USE DEF readVars, writeVars, clientVars
<1>1. /\ worker = "dispatch" /\ worker' = "write"
      /\ UNCHANGED <<sent, inbound, buffer, clientOpen>>
      /\ handed' = Append(handed, buffer)
  BY DEF Dispatch
<1>2. /\ handed \in Seq(Seq(Bytes)) /\ buffer \in Seq(Bytes) /\ inbound \in Seq(Nonempty)
  BY DEF TypeOK, Nonempty
<1>3. /\ Len(handed') = Len(handed) + 1 /\ Len(handed) \in Nat /\ Len(inbound) \in Nat
      /\ \A n \in 1..Len(handed) : handed'[n] = handed[n]
      /\ handed'[Len(handed) + 1] = buffer
  BY <1>1, <1>2, AppendProperties
<1>4. ReadWhole /\ ~ReadPart /\ ~ReadWhole' /\ ~ReadPart'
  BY <1>1 DEF ReadWhole, ReadPart
<1>5. Removed = Len(handed) + 1 /\ Removed' = Len(handed) + 1
  BY <1>3, <1>4 DEF Removed
<1>6. /\ Removed + Len(inbound) <= Len(sent) /\ Frames(sent[Removed], buffer)
      /\ clientOpen => Removed + Len(inbound) = Len(sent)
      /\ \A k \in 1..Len(inbound) : inbound[k] = sent[Removed + k]
  BY <1>1, <1>4 DEF StreamInv
<1>7. StreamInv'
  BY <1>1, <1>4, <1>5, <1>6 DEF StreamInv
<1>8. Len(handed') <= Len(sent')
  <2>1. Len(sent) \in Nat
    BY DEF TypeOK
  <2> QED
    BY <1>1, <1>3, <1>5, <1>6, <2>1
<1>9. ASSUME NEW n \in 1..Len(handed') PROVE Frames(sent'[n], handed'[n])
  <2>1. CASE n = Len(handed) + 1
    BY <1>1, <1>3, <1>5, <1>6, <2>1
  <2>2. CASE n # Len(handed) + 1
    <3>1. n \in 1..Len(handed)
      BY <1>3, <2>2
    <3> QED
      BY <1>1, <1>3, <3>1 DEF Framed
  <2> QED
    BY <2>1, <2>2
<1> QED
  BY <1>7, <1>8, <1>9 DEF Framed, Frames

LEMMA StreamSend ==
  ASSUME TypeOK, StreamInv, Framed, NEW m \in Messages, ClientSend(m)
  PROVE  StreamInv' /\ Framed'
<1> USE DEF readVars, writeVars, clientVars
<1>1. /\ UNCHANGED <<worker, read, buffer, handed, clientOpen>> /\ clientOpen
      /\ sent' = Append(sent, m) /\ inbound' = Append(inbound, m)
  BY DEF ClientSend
<1>2. /\ inbound \in Seq(Nonempty) /\ m \in Nonempty /\ sent \in Seq(Messages)
      /\ Len(handed) \in Nat
  BY MessagesAssumption DEF TypeOK, Nonempty
<1>3. /\ Len(sent') = Len(sent) + 1 /\ Len(inbound') = Len(inbound) + 1
      /\ Len(sent) \in Nat /\ Len(inbound) \in Nat
      /\ \A k \in 1..Len(sent) : sent'[k] = sent[k]
      /\ \A k \in 1..Len(inbound) : inbound'[k] = inbound[k]
      /\ sent'[Len(sent) + 1] = m /\ inbound'[Len(inbound) + 1] = m
  BY <1>1, <1>2, AppendProperties
<1> DEFINE sentLen == Len(sent)
           inLen   == Len(inbound)
<1>8. /\ Len(sent') = sentLen + 1 /\ Len(inbound') = inLen + 1
      /\ sentLen \in Nat /\ inLen \in Nat
  BY <1>3
<1>4. /\ ReadWhole' <=> ReadWhole
      /\ ReadPart' <=> ReadPart
      /\ Removed' = Removed /\ Removed \in Nat
      /\ Removed = Len(handed) + IF ReadWhole THEN 1 ELSE 0
  BY <1>1, <1>2 DEF ReadWhole, ReadPart, Removed
<1>5. ASSUME worker # "closed" PROVE StreamInv'
  <2>1. /\ Len(sent) = Removed + Len(inbound)
        /\ \A k \in 1..Len(inbound) : k > 1 \/ ~ReadPart => inbound[k] = sent[Removed + k]
        /\ ReadWhole => Frames(sent[Removed], buffer)
        /\ ReadPart => inbound # <<>> /\ sent[Removed + 1] = buffer \o Head(inbound)
        /\ worker = "awaitRead" => read # "none"
    BY <1>1, <1>5 DEF StreamInv
  <2>6. sentLen = Removed + inLen /\ Removed \in Nat
    BY <1>4, <2>1
  <2> HIDE DEF sentLen, inLen
  <2>2. Len(sent') = Removed + Len(inbound')
    BY <1>8, <2>6
  <2>3. ASSUME NEW k \in 1..Len(inbound'), k > 1 \/ ~ReadPart
        PROVE  inbound'[k] = sent'[Removed + k]
    <3>1. CASE k = Len(inbound) + 1
      <4>1. Removed + k = sentLen + 1
        BY <1>8, <2>6, <3>1 DEF inLen
      <4> QED
        BY <1>3, <3>1, <4>1 DEF sentLen
    <3>2. CASE k # Len(inbound) + 1
      <4>2. k \in 1..inLen + 1 /\ k # inLen + 1
        BY <1>8, <3>2 DEF inLen
      <4>3. k \in 1..inLen /\ Removed + k \in 1..sentLen
        BY <1>8, <2>6, <4>2
      <4>1. k \in 1..Len(inbound) /\ Removed + k \in 1..Len(sent)
        BY <4>3 DEF inLen, sentLen
      <4> QED
        BY <1>3, <2>1, <2>3, <4>1
    <3> QED
      BY <3>1, <3>2
  <2>4. ReadWhole => Frames(sent'[Removed], buffer)
    <3>1. ReadWhole => Removed \in 1..Len(sent)
      <4>1. ReadWhole => Removed \in 1..sentLen
        BY <1>2, <1>4, <1>8, <2>6
      <4> QED
        BY <4>1 DEF sentLen
    <3> QED
      BY <1>3, <2>1, <3>1
  <2>5. ReadPart => inbound' # <<>> /\ sent'[Removed + 1] = buffer \o Head(inbound')
    <3> SUFFICES ASSUME ReadPart
                 PROVE  inbound' # <<>> /\ sent'[Removed + 1] = buffer \o Head(inbound')
      OBVIOUS
    <3>1. inbound # <<>> /\ inbound' # <<>>
      BY <1>1, <1>2, <2>1, AppendProperties
    <3>2. inLen \in Nat \ {0}
      BY <1>2, <3>1 DEF inLen
    <3>3. Removed + 1 \in 1..Len(sent)
      <4>1. Removed + 1 \in 1..sentLen
        BY <1>8, <2>6, <3>2
      <4> QED
        BY <4>1 DEF sentLen
    <3>4. Head(inbound') = Head(inbound)
      BY <1>1, <1>2, <3>1, HeadTailAppend
    <3> QED
      BY <1>3, <2>1, <3>1, <3>3, <3>4
  <2>7. Removed + Len(inbound') <= Len(sent')
    <3>1. Removed + (inLen + 1) <= sentLen + 1
      BY <1>8, <2>6
    <3> QED
      BY <1>8, <3>1
  <2>8. /\ Removed' + Len(inbound') <= Len(sent')
        /\ clientOpen' => Removed' + Len(inbound') = Len(sent')
    BY <1>4, <2>2, <2>7
  <2>9. ReadPart' => inbound' # <<>> /\ sent'[Removed' + 1] = buffer' \o Head(inbound')
    BY <1>1, <1>4, <2>5
  <2>10. /\ \A k \in 1..Len(inbound') : k > 1 \/ ~ReadPart' => inbound'[k] = sent'[Removed' + k]
         /\ ReadWhole' => Frames(sent'[Removed'], buffer')
    BY <1>1, <1>4, <2>3, <2>4
  <2>11. worker' = "awaitRead" => read' # "none"
    BY <1>1, <2>1
  <2> QED
    BY <2>8, <2>9, <2>10, <2>11 DEF StreamInv
<1>6. ASSUME worker = "closed" PROVE StreamInv'
  BY <1>1, <1>6 DEF StreamInv
<1>7. Framed'
  <2>1. Len(handed) <= sentLen
    BY DEF Framed
  <2> HIDE DEF sentLen
  <2>2. Len(handed') <= Len(sent')
    BY <1>1, <1>2, <1>8, <2>1
  <2>3. \A n \in 1..Len(handed) : n \in 1..sentLen
    BY <1>2, <1>8, <2>1
  <2>4. \A n \in 1..Len(handed) : sent'[n] = sent[n]
    BY <1>3, <2>3 DEF sentLen
  <2> QED
    BY <1>1, <2>2, <2>4 DEF Framed, Frames
<1> QED
  BY <1>5, <1>6, <1>7

LEMMA NextStreamInv ==
  ASSUME TypeOK, BufferAlive, MoreIsThere, StreamInv, Framed, Next
  PROVE  StreamInv' /\ Framed'
<1> USE DEF readVars, writeVars, clientVars
<1>1. ASSUME UNCHANGED <<sent, handed>> PROVE Framed'
  BY <1>1 DEF Framed, Frames
<1>2. CASE ReadNow \/ KernelRead
  BY <1>1, <1>2, StreamRead DEF ReadNow, KernelRead
<1>3. CASE ReadMore
  BY <1>1, <1>3, StreamReadMore DEF ReadMore
<1>4. CASE ReadPends \/ ReadFails \/ WakeRead \/ KernelReadFails
  <2>1. /\ UNCHANGED <<inbound, sent, handed, clientOpen>>
        /\ worker' # "closed" =>
             /\ worker # "closed"
             /\ worker' = "awaitRead" => read' # "none"
             /\ ReadWhole' <=> ReadWhole
             /\ ReadPart' <=> ReadPart
             /\ buffer' = buffer \/ (~ReadWhole /\ ~ReadPart)
    BY <1>4 DEF ReadPends, ReadFails, WakeRead, KernelReadFails, AfterRead, ReadWhole,
                ReadPart, BufferAlive, StreamInv, TypeOK
  <2> QED
    BY <1>1, <2>1, StreamKept
<1>5. CASE Peek
  <2>1. /\ UNCHANGED <<inbound, sent, handed, buffer, read, clientOpen>>
        /\ worker = "peek" /\ worker' \in {"readMore", "closed"}
    BY <1>5 DEF Peek
  <2> QED
    BY <1>1, <2>1, StreamKept DEF ReadWhole, ReadPart
<1>6. CASE WriteNow \/ WritePends \/ WriteFails \/ WakeWrite
  <2>1. /\ UNCHANGED <<inbound, sent, handed, buffer, read, clientOpen>>
        /\ worker \in {"write", "awaitWrite"} /\ worker' \in {"read", "awaitWrite"}
    BY <1>6 DEF WriteNow, WritePends, WriteFails, WakeWrite
  <2> QED
    BY <1>1, <2>1, StreamKept DEF ReadWhole, ReadPart
<1>7. CASE \/ KernelWrite \/ KernelWriteFails \/ KernelTakes
           \/ ClientReceive \/ CollectorClose
  <2>1. UNCHANGED <<inbound, sent, handed, buffer, read, worker, clientOpen>>
    BY <1>7 DEF KernelWrite, KernelWriteFails, KernelTakes, ClientReceive,
                CollectorClose
  <2>2. worker' = "awaitRead" /\ worker # "closed" => read' # "none"
    BY <2>1 DEF StreamInv
  <2> QED
    BY <1>1, <2>1, <2>2, StreamKept DEF ReadWhole, ReadPart
<1>8. CASE ClientClose
  BY <1>1, <1>8, StreamClose DEF ClientClose
<1> QED
  BY <1>2, <1>3, <1>4, <1>5, <1>6, <1>7, <1>8, StreamDispatch, StreamSend
  DEF Next, Worker, Kernel

-----------------------------------------------------------------------------
\* Which requests have their reply

LEMMA NextAnswerInv ==
  ASSUME TypeOK, Framed, StreamInv, AnswerInv, Next
  PROVE  AnswerInv'
<1> USE DEF readVars, writeVars, clientVars
<1>1. /\ handed \in Seq(Seq(Bytes)) /\ buffer \in Seq(Bytes) /\ sent \in Seq(Messages)
      /\ got \in Seq(Payloads) /\ outbound \in Seq(Payloads)
      /\ Len(handed) \in Nat /\ Len(got) \in Nat /\ Len(outbound) \in Nat
      /\ Len(sent) \in Nat /\ Len(handed) <= Len(sent)
  BY DEF TypeOK, Framed
<1>2. ASSUME UNCHANGED <<sent, handed>>, Len(got') + Len(outbound') = Len(got) + Len(outbound),
             worker' = "write" => worker = "write" /\ response' = response,
             clientOpen' /\ HandleOpen' =>
               clientOpen /\ HandleOpen /\ (worker' = "write" <=> worker = "write")
      PROVE  AnswerInv'
  BY <1>1, <1>2 DEF AnswerInv
<1>3. CASE ReadNow \/ ReadPends \/ ReadFails \/ WakeRead
  <2>1. /\ UNCHANGED <<sent, handed, got, outbound, clientOpen, collected>>
        /\ worker \in {"read", "awaitRead"}
        /\ worker' \in {"awaitRead", "peek", "dispatch", "closed"}
    BY <1>3 DEF ReadNow, ReadPends, ReadFails, WakeRead, AfterRead
  <2> QED
    BY <1>2, <2>1 DEF HandleOpen
<1>4. CASE Peek \/ ReadMore
  <2>1. /\ UNCHANGED <<sent, handed, got, outbound, clientOpen, collected>>
        /\ worker \in {"peek", "readMore"}
        /\ worker' \in {"readMore", "dispatch", "closed"}
    BY <1>4 DEF Peek, ReadMore
  <2> QED
    BY <1>2, <2>1 DEF HandleOpen
<1>5. CASE Dispatch
  <2>1. /\ UNCHANGED <<sent, got, outbound, clientOpen, collected>>
        /\ worker = "dispatch" /\ worker' = "write"
        /\ handed' = Append(handed, buffer) /\ response' = Payload(buffer)
    BY <1>5 DEF Dispatch
  <2>2. ReadWhole /\ Removed = Len(handed) + 1
    BY <2>1 DEF ReadWhole, Removed
  <2>3. Frames(sent[Len(handed) + 1], buffer) /\ Len(handed) + 1 \in 1..Len(sent)
    <3>1. Len(inbound) \in Nat
      BY DEF TypeOK
    <3> QED
      BY <1>1, <2>1, <2>2, <3>1 DEF StreamInv
  <2>4. response' = Response[sent[Len(handed) + 1]]
    <3>1. sent[Len(handed) + 1] \in Messages
      BY <1>1, <2>3, ElementOfSeq
    <3> QED
      BY <1>1, <2>1, <2>3, <3>1, PayloadOf
  <2>5. Len(handed') = Len(handed) + 1
    BY <1>1, <2>1, AppendProperties
  <2>6. clientOpen /\ HandleOpen => Len(handed) = Len(got) + Len(outbound)
    BY <1>1, <2>1 DEF AnswerInv
  <2>7. clientOpen' /\ HandleOpen' => Len(handed') = Len(got') + Len(outbound') + 1
    <3>1. clientOpen' /\ HandleOpen' => clientOpen /\ HandleOpen
      BY <2>1 DEF HandleOpen
    <3> QED
      BY <1>1, <2>1, <2>5, <2>6, <3>1
  <2>8. Len(handed') > 0 /\ response' = Response[sent'[Len(handed')]]
    BY <1>1, <2>1, <2>4, <2>5
  <2> QED
    BY <2>1, <2>7, <2>8 DEF AnswerInv
<1>6. CASE WriteNow \/ WritePends
  <2>1. /\ UNCHANGED <<sent, handed, got, clientOpen, collected>>
        /\ worker = "write" /\ worker' \in {"read", "awaitWrite"}
        /\ outbound' = Append(outbound, response) /\ clientOpen /\ HandleOpen
    BY <1>6 DEF WriteNow, WritePends
  <2>2. Len(outbound') = Len(outbound) + 1
    BY <1>1, <2>1, ResponseIsPayload, AppendProperties
  <2>3. Len(handed) = Len(got) + Len(outbound) + 1
    BY <2>1 DEF AnswerInv
  <2>4. Len(handed') = Len(got') + Len(outbound')
    BY <1>1, <2>1, <2>2, <2>3
  <2>5. worker' # "write" /\ Len(handed') + 0 = Len(handed')
    BY <1>1, <2>1
  <2> QED
    BY <1>1, <2>1, <2>4, <2>5 DEF AnswerInv
<1>7. CASE WriteFails \/ WakeWrite
  <2>1. /\ UNCHANGED <<sent, handed, got, outbound, clientOpen, collected>>
        /\ worker' = "read"
        /\ worker = "awaitWrite" \/ ~clientOpen \/ ~HandleOpen
        /\ worker # "closed"
    BY <1>7 DEF WriteFails, WakeWrite
  <2> QED
    BY <1>2, <2>1 DEF HandleOpen
<1>8. CASE \/ KernelRead \/ KernelReadFails \/ KernelWrite \/ KernelTakes
  <2>1. UNCHANGED <<sent, handed, got, outbound, clientOpen, collected, worker, response>>
    BY <1>8 DEF KernelRead, KernelReadFails, KernelWrite, KernelTakes
  <2> QED
    BY <1>2, <2>1 DEF HandleOpen
<1>9. CASE KernelWriteFails \/ ClientClose \/ CollectorClose
  <2>1. /\ UNCHANGED <<sent, handed, worker, response>>
        /\ ~(clientOpen' /\ HandleOpen')
    BY <1>9 DEF KernelWriteFails, ClientClose, CollectorClose, HandleOpen
  <2> QED
    BY <2>1 DEF AnswerInv
<1>10. ASSUME NEW m \in Messages, ClientSend(m) PROVE AnswerInv'
  <2>1. /\ UNCHANGED <<handed, got, outbound, clientOpen, collected, worker, response>>
        /\ sent' = Append(sent, m)
    BY <1>10 DEF ClientSend
  <2>2. Len(handed) > 0 => sent'[Len(handed)] = sent[Len(handed)]
    BY <1>1, <2>1, AppendProperties
  <2> QED
    BY <2>1, <2>2 DEF AnswerInv, HandleOpen
<1>11. CASE ClientReceive
  <2>1. /\ UNCHANGED <<sent, handed, clientOpen, collected, worker, response>>
        /\ outbound # <<>>
        /\ got' = Append(got, Head(outbound)) /\ outbound' = Tail(outbound)
    BY <1>11 DEF ClientReceive
  <2>2. /\ Head(outbound) \in Payloads /\ Len(outbound') = Len(outbound) - 1
    BY <1>1, <2>1, HeadTailProperties
  <2>3. Len(got') = Len(got) + 1
    BY <1>1, <2>1, <2>2, AppendProperties
  <2>4. Len(got') + Len(outbound') = Len(got) + Len(outbound)
    BY <1>1, <2>2, <2>3
  <2> QED
    BY <1>2, <2>1, <2>4 DEF HandleOpen
<1> QED
  BY <1>3, <1>4, <1>5, <1>6, <1>7, <1>8, <1>9, <1>10, <1>11 DEF Next, Worker, Kernel

-----------------------------------------------------------------------------
\* What holds of every behaviour

LEMMA InitPipeInv == Init => PipeInv
<1> SUFFICES ASSUME Init PROVE PipeInv
  OBVIOUS
<1>1. Len(<<>>) = 0
  BY EmptySeq
<1> QED
  BY <1>1, InitTypeOK DEF Init, PipeInv, BufferAlive, MoreIsThere, Framed, StreamInv,
     AnswerInv, ReadWhole, ReadPart, Removed, HandleOpen

\* The inductive invariant holds in every state: the kernel writes only to
\* what is alive, and the bytes of each request are where they should be.
THEOREM ReadsAreSafe == Spec => []PipeInv
<1>1. PipeInv /\ [Next]_vars => PipeInv'
  <2> SUFFICES ASSUME PipeInv, [Next]_vars PROVE PipeInv'
    OBVIOUS
  <2>1. CASE Next
    BY <2>1, NextTypeOK, NextBufferAlive, NextMoreIsThere, NextStreamInv, NextAnswerInv
    DEF PipeInv
  <2>2. CASE UNCHANGED vars
    <3> USE <2>2 DEF vars, clientVars, readVars, writeVars, PipeInv
    <3>1. TypeOK' /\ BufferAlive' /\ MoreIsThere'
      BY DEF TypeOK, BufferAlive, MoreIsThere, Broken
    <3>2. Framed' /\ AnswerInv'
      BY DEF Framed, Frames, AnswerInv, HandleOpen
    <3>3. StreamInv'
      BY StreamKept DEF ReadWhole, ReadPart, StreamInv
    <3> QED
      BY <3>1, <3>2, <3>3
  <2> QED
    BY <2>1, <2>2
<1> QED
  BY <1>1, InitPipeInv, PTL DEF Spec

\* recv hands over whole requests, in the order the client wrote them: the
\* buffer of recv, padded with zeros, begins with the request.
THEOREM RequestsAreFramed == Spec => []Framed
<1>1. PipeInv => Framed
  BY DEF PipeInv
<1> QED
  BY <1>1, ReadsAreSafe, PTL

\* Two writes that wait for each other take two requests without a reply: the
\* one whose reply is in the pipe, and the one that is not read yet.
THEOREM ATurnNeverJams == Spec => []InTurnNeverJams
<1>1. PipeInv => InTurnNeverJams
  <2> SUFFICES ASSUME PipeInv, Jammed PROVE Len(sent) >= Len(got) + 2
    BY DEF InTurnNeverJams
  <2>1. /\ sending /\ inbound # <<>> /\ outbound # <<>> /\ write = "pending"
        /\ worker = "awaitWrite"
    BY DEF Jammed, InboundFull, OutboundFull, PipeInv, BufferAlive
  <2>2. /\ inbound \in Seq(Nonempty) /\ outbound \in Seq(Payloads)
        /\ Len(sent) \in Nat /\ Len(got) \in Nat /\ Len(handed) \in Nat
    BY DEF PipeInv, TypeOK, Nonempty
  <2>3. Len(inbound) \in Nat \ {0} /\ Len(outbound) \in Nat \ {0}
    BY <2>1, <2>2
  <2>4. Len(handed) + Len(inbound) <= Len(sent)
    BY <2>1, <2>2 DEF PipeInv, StreamInv, Removed, ReadWhole
  <2>5. Len(handed) = Len(got) + Len(outbound)
    <3>1. clientOpen /\ HandleOpen
      BY DEF Jammed
    <3> QED
      BY <2>1, <2>2, <2>3, <3>1 DEF PipeInv, AnswerInv
  <2> QED
    BY <2>2, <2>3, <2>4, <2>5
<1> QED
  BY <1>1, ReadsAreSafe, PTL

-----------------------------------------------------------------------------
\* Step by step, what a client sees of the connection:
\*   it writes a request                                          Send
\*   the dispatcher gets the buffer of recv                       Take
\*   WriteFile puts the reply into the pipe                       Answer
\*   either end is closed, or a reply is lost after that          Cut
\* and it sees nothing of the reads, of what pends, nor of what it reads itself.

LEMMA AnswersOf ==
  ASSUME TypeOK
  PROVE  /\ Answers \in Seq(Payloads) /\ Len(Answers) = Len(got) + Len(outbound)
         /\ Len(got) \in Nat /\ Len(outbound) \in Nat
         /\ \A k \in 1..Len(got) : Answers[k] = got[k]
         /\ \A k \in Len(got) + 1..Len(got) + Len(outbound) :
              Answers[k] = outbound[k - Len(got)]
<1>1. got \in Seq(Payloads) /\ outbound \in Seq(Payloads)
  BY DEF TypeOK
<1>2. Len(got) \in Nat /\ Len(outbound) \in Nat
  BY <1>1
<1>3. /\ got \o outbound \in Seq(Payloads)
      /\ Len(got \o outbound) = Len(got) + Len(outbound)
      /\ \A k \in 1..Len(got) + Len(outbound) : (got \o outbound)[k] =
                     IF k <= Len(got) THEN got[k] ELSE outbound[k - Len(got)]
  BY <1>1, ConcatProperties
<1> QED
  BY <1>2, <1>3 DEF Answers

LEMMA CutKeeps ==
  ASSUME TypeOK, Link' = "cut", UNCHANGED <<sent, handed, Answers>>
  PROVE  Connection!Cut
<1>1. Answers \in Seq(Payloads) /\ Len(Answers) \in 0..Len(Answers)
  BY AnswersOf
<1>2. SubSeq(Answers, 1, Len(Answers)) = Answers
  BY <1>1, SubSeqFull
<1> QED
  BY <1>1, <1>2 DEF Connection!Cut

\* What is left of the answers when some of those in the pipe are lost
LEMMA CutLoses ==
  ASSUME TypeOK, Link' = "cut", UNCHANGED <<sent, handed, got>>,
         NEW n \in 0..Len(outbound), outbound' = SubSeq(outbound, 1, n)
  PROVE  Connection!Cut
<1>1. /\ got \in Seq(Payloads) /\ outbound \in Seq(Payloads)
      /\ Len(got) \in Nat /\ Len(outbound) \in Nat /\ n \in Nat /\ n <= Len(outbound)
  BY DEF TypeOK
<1> DEFINE m == Len(got) + n
<1>2. m \in 0..Len(Answers) /\ m \in Nat
  BY <1>1, AnswersOf
<1>3. /\ outbound' \in Seq(Payloads) /\ Len(outbound') = n
      /\ \A k \in 1..n : outbound'[k] = outbound[k]
  BY <1>1
<1>4. /\ got \o outbound' \in Seq(Payloads) /\ Len(got \o outbound') = m
      /\ \A k \in 1..Len(got) + Len(outbound') : (got \o outbound')[k] =
           IF k <= Len(got) THEN got[k] ELSE outbound'[k - Len(got)]
  BY <1>1, <1>3, ConcatProperties
<1>5. /\ SubSeq(Answers, 1, m) \in Seq(Payloads) /\ Len(SubSeq(Answers, 1, m)) = m
      /\ \A k \in 1..m : SubSeq(Answers, 1, m)[k] = Answers[k]
  <2>1. Answers \in Seq(Payloads)
    BY AnswersOf
  <2> HIDE DEF m
  <2> QED
    BY <1>2, <2>1
<1>6. ASSUME NEW k \in 1..m PROVE (got \o outbound')[k] = SubSeq(Answers, 1, m)[k]
  <2>1. CASE k <= Len(got)
    <3>1. k \in 1..Len(got) /\ k \in 1..Len(got) + Len(outbound')
      BY <1>1, <1>3, <2>1
    <3> QED
      BY <1>4, <1>5, <2>1, <3>1, AnswersOf
  <2>2. CASE ~(k <= Len(got))
    <3>1. /\ k \in Len(got) + 1..Len(got) + Len(outbound) /\ k - Len(got) \in 1..n
          /\ k \in 1..Len(got) + Len(outbound')
      BY <1>1, <1>3, <2>2
    <3> QED
      BY <1>3, <1>4, <1>5, <2>2, <3>1, AnswersOf
  <2> QED
    BY <2>1, <2>2
<1> HIDE DEF m
<1>7. got \o outbound' = SubSeq(Answers, 1, m)
  BY <1>4, <1>5, <1>6, SeqEqual
<1>8. Answers' = SubSeq(Answers, 1, m)
  BY <1>7 DEF Answers
<1> QED
  BY <1>2, <1>8 DEF Connection!Cut

LEMMA StepIsTake ==
  ASSUME PipeInv, Dispatch
  PROVE  Connection!Take
<1>1. /\ UNCHANGED <<sent, got, outbound, clientOpen, collected>>
      /\ worker = "dispatch" /\ worker' = "write" /\ handed' = Append(handed, buffer)
  BY DEF Dispatch, clientVars
<1>2. TypeOK /\ Len(handed) \in Nat /\ Len(inbound) \in Nat /\ Len(sent) \in Nat
  BY DEF PipeInv, TypeOK
<1>3. Len(handed') = Len(handed) + 1
  BY <1>1, AppendProperties DEF PipeInv, TypeOK
<1>4. Len(handed) < Len(sent)
  <2>1. Removed = Len(handed) + 1 /\ Removed + Len(inbound) <= Len(sent)
    BY <1>1 DEF Removed, ReadWhole, PipeInv, StreamInv
  <2> QED
    BY <1>2, <2>1
<1>5. Link' = Link /\ Answers' = Answers
  BY <1>1 DEF Link, HandleOpen, Answers
<1>6. Link = "open" => Len(Answers) = Len(handed)
  <2>1. Link = "open" => Len(handed) = Len(got) + Len(outbound) + 0
    BY <1>1 DEF Link, PipeInv, AnswerInv
  <2> QED
    BY <1>2, <2>1, AnswersOf
<1> QED
  BY <1>1, <1>3, <1>4, <1>5, <1>6 DEF Connection!Take

LEMMA StepIsAnswer ==
  ASSUME PipeInv, WriteNow \/ WritePends
  PROVE  Connection!Answer
<1>1. /\ UNCHANGED <<sent, handed, got, clientOpen, collected>>
      /\ worker = "write" /\ worker' \in {"read", "awaitWrite"} /\ clientOpen /\ HandleOpen
      /\ outbound' = Append(outbound, response)
  BY DEF WriteNow, WritePends, clientVars
<1>2. TypeOK /\ response \in Payloads
  BY <1>1, ResponseIsPayload DEF PipeInv
<1>3. /\ Len(handed) = Len(Answers) + 1
      /\ response = Response[sent[Len(handed)]]
  BY <1>1, <1>2, AnswersOf DEF PipeInv, AnswerInv
<1>4. Link = "open" /\ Link' = "open"
  BY <1>1 DEF Link, HandleOpen
<1>5. Answers' = Append(Answers, response)
  <2>1. got \in Seq(Payloads) /\ outbound \in Seq(Payloads)
    BY <1>2 DEF TypeOK
  <2>2. /\ Append(outbound, response) = outbound \o <<response>>
        /\ Append(got \o outbound, response) = (got \o outbound) \o <<response>>
    BY <1>2, <2>1, ConcatProperties, AppendIsConcat
  <2>3. <<response>> \in Seq(Payloads)
    BY <1>2
  <2>4. got \o (outbound \o <<response>>) = (got \o outbound) \o <<response>>
    BY <2>1, <2>3, ConcatAssociative
  <2> QED
    BY <1>1, <2>2, <2>4 DEF Answers
<1>6. Len(Answers) < Len(handed) /\ Len(handed) \in Nat /\ Len(Answers) \in Nat
  BY <1>2, <1>3, AnswersOf
<1> QED
  BY <1>1, <1>3, <1>4, <1>5, <1>6 DEF Connection!Answer, ResponseTo

\* Reading a reply moves it from the pipe to the client.
LEMMA ReceiveShowsNothing ==
  ASSUME TypeOK, ClientReceive
  PROVE  UNCHANGED <<sent, handed, Answers, Link>>
<1>1. /\ UNCHANGED <<sent, handed, clientOpen, collected, worker>>
      /\ outbound # <<>>
      /\ got' = Append(got, Head(outbound)) /\ outbound' = Tail(outbound)
  BY DEF ClientReceive
<1>2. /\ got \in Seq(Payloads) /\ outbound \in Seq(Payloads)
      /\ Head(outbound) \in Payloads /\ Tail(outbound) \in Seq(Payloads)
  BY <1>1, HeadTailProperties DEF TypeOK
<1>3. Append(got, Head(outbound)) = got \o <<Head(outbound)>>
  BY <1>2, AppendIsConcat
<1>4. outbound = <<Head(outbound)>> \o Tail(outbound)
  <2>1. <<Head(outbound)>> \in Seq(Payloads) /\ Len(<<Head(outbound)>>) = 1
        /\ <<Head(outbound)>>[1] = outbound[1]
    BY <1>1, <1>2
  <2>2. /\ <<Head(outbound)>> \o Tail(outbound) \in Seq(Payloads)
        /\ Len(<<Head(outbound)>> \o Tail(outbound)) = 1 + Len(Tail(outbound))
        /\ \A k \in 1..1 + Len(Tail(outbound)) : (<<Head(outbound)>> \o Tail(outbound))[k] =
             IF k <= 1 THEN <<Head(outbound)>>[k] ELSE Tail(outbound)[k - 1]
    BY <1>2, <2>1, ConcatProperties
  <2>3. /\ Len(outbound) \in Nat \ {0} /\ Len(Tail(outbound)) = Len(outbound) - 1
        /\ \A k \in 1..Len(Tail(outbound)) : Tail(outbound)[k] = outbound[k + 1]
    BY <1>1, <1>2, HeadTailProperties
  <2>4. ASSUME NEW k \in 1..Len(outbound)
        PROVE  outbound[k] = (<<Head(outbound)>> \o Tail(outbound))[k]
    <3>1. k \in 1..1 + Len(Tail(outbound))
      BY <2>3
    <3>2. CASE k = 1
      BY <2>1, <2>2, <3>1, <3>2
    <3>3. CASE k # 1
      <4>1. ~(k <= 1) /\ k - 1 \in 1..Len(Tail(outbound)) /\ (k - 1) + 1 = k
        BY <2>3, <3>3
      <4> QED
        BY <2>2, <2>3, <3>1, <4>1
    <3> QED
      BY <3>2, <3>3
  <2>5. Len(outbound) = Len(<<Head(outbound)>> \o Tail(outbound))
    BY <2>2, <2>3
  <2> QED
    BY <1>2, <2>2, <2>4, <2>5, SeqEqual
<1>5. got \o outbound = (got \o <<Head(outbound)>>) \o Tail(outbound)
  <2>1. <<Head(outbound)>> \in Seq(Payloads)
    BY <1>2
  <2>2. (got \o <<Head(outbound)>>) \o Tail(outbound)
          = got \o (<<Head(outbound)>> \o Tail(outbound))
    BY <1>2, <2>1, ConcatAssociative
  <2> QED
    BY <1>4, <2>2
<1> QED
  BY <1>1, <1>3, <1>5 DEF Answers, Link, HandleOpen

LEMMA StepIsChannelStep ==
  ASSUME PipeInv, [Next]_vars
  PROVE  [Connection!Next]_<<sent, Len(handed), Answers, Link>>
<1> USE DEF clientVars, readVars, writeVars
<1>1. TypeOK /\ Link \in {"open", "cut"} /\ Link' \in {"open", "cut"}
  BY DEF PipeInv, Link
<1>2. ASSUME UNCHANGED <<sent, handed, got, outbound>>,
             UNCHANGED <<clientOpen, collected, worker>> \/ Link' = "cut"
      PROVE  Connection!Cut \/ UNCHANGED <<sent, Len(handed), Answers, Link>>
  <2>1. Answers' = Answers
    BY <1>2 DEF Answers
  <2>2. CASE Link' = "cut"
    BY <1>1, <1>2, <2>1, <2>2, CutKeeps
  <2>3. CASE UNCHANGED <<clientOpen, collected, worker>>
    BY <1>2, <2>1, <2>3 DEF Link, HandleOpen
  <2> QED
    BY <1>2, <2>2, <2>3
<1>3. ASSUME UNCHANGED <<sent, handed, got, outbound, clientOpen, collected>>,
             worker # "closed"
      PROVE  Connection!Cut \/ UNCHANGED <<sent, Len(handed), Answers, Link>>
  <2>1. CASE worker' = "closed"
    <3>1. Link' = "cut"
      BY <2>1 DEF Link, HandleOpen
    <3> QED
      BY <1>2, <1>3, <3>1
  <2>2. CASE worker' # "closed"
    <3>1. Link' = Link /\ Answers' = Answers
      BY <1>3, <2>2 DEF Link, HandleOpen, Answers
    <3> QED
      BY <1>3, <3>1
  <2> QED
    BY <2>1, <2>2
<1>4. CASE UNCHANGED vars
  BY <1>4 DEF vars, Answers, Link, HandleOpen
<1>5. CASE \/ ReadNow \/ ReadPends \/ ReadFails \/ WakeRead \/ Peek \/ ReadMore
           \/ WriteFails \/ WakeWrite
  <2>1. UNCHANGED <<sent, handed, got, outbound, clientOpen, collected>> /\ worker # "closed"
    BY <1>5 DEF ReadNow, ReadPends, ReadFails, WakeRead, Peek, ReadMore, WriteFails,
                WakeWrite
  <2> QED
    BY <1>3, <2>1 DEF Connection!Next
<1>6. CASE KernelRead \/ KernelReadFails \/ KernelWrite \/ KernelTakes
  <2>1. UNCHANGED <<sent, handed, got, outbound, clientOpen, collected, worker>>
    BY <1>6 DEF KernelRead, KernelReadFails, KernelWrite, KernelTakes
  <2> QED
    BY <1>2, <2>1 DEF Connection!Next
<1>7. CASE CollectorClose
  <2>1. UNCHANGED <<sent, handed, got, outbound>> /\ Link' = "cut"
    BY <1>7 DEF CollectorClose, Link, HandleOpen
  <2> QED
    BY <1>2, <2>1 DEF Connection!Next
<1>8. CASE KernelWriteFails
  <2>1. UNCHANGED <<sent, handed, got>> /\ Link' = "cut"
    BY <1>8 DEF KernelWriteFails, Link, HandleOpen
  <2>2. CASE UNCHANGED outbound
    BY <1>2, <2>1, <2>2 DEF Connection!Next
  <2>3. CASE outbound # <<>> /\ outbound' = Front(outbound)
    <3>1. outbound \in Seq(Payloads)
      BY <1>1 DEF TypeOK
    <3>2. Len(outbound) - 1 \in 0..Len(outbound)
      BY <2>3, <3>1
    <3>3. outbound' = SubSeq(outbound, 1, Len(outbound) - 1)
      BY <2>3 DEF Front
    <3> QED
      BY <1>1, <2>1, <3>2, <3>3, CutLoses DEF Connection!Next
  <2> QED
    BY <1>8, <2>2, <2>3 DEF KernelWriteFails
<1>9. CASE ClientClose
  <2>1. /\ UNCHANGED <<sent, handed, got>> /\ Link' = "cut" /\ outbound' = <<>>
    BY <1>9 DEF ClientClose, Link
  <2>2. 0 \in 0..Len(outbound) /\ SubSeq(outbound, 1, 0) = <<>>
    BY <1>1, SubSeqEmpty DEF TypeOK
  <2> QED
    BY <1>1, <2>1, <2>2, CutLoses DEF Connection!Next
<1>10. ASSUME NEW m \in Messages, ClientSend(m) PROVE Connection!Send(m)
  BY <1>1, <1>10 DEF ClientSend, Connection!Send, Answers, Link, HandleOpen
<1>11. CASE ClientReceive
  BY <1>1, <1>11, ReceiveShowsNothing
<1> QED
  BY <1>4, <1>5, <1>6, <1>7, <1>8, <1>9, <1>10, <1>11, StepIsTake, StepIsAnswer
  DEF Next, Worker, Kernel, Connection!Next

\* A connection keeps the promise of Channel: each request that recv returns
\* is answered with its own reply before the next one is handed over, however
\* reads and writes are split and wherever they pend.
THEOREM ConnectionImplementsChannel == Spec => AnswersInOrder
<1>1. Init => Connection!Init
  <2> SUFFICES ASSUME Init PROVE Connection!Init
    OBVIOUS
  <2>1. sent = <<>> /\ Len(handed) = 0 /\ Answers = <<>>
    BY EmptySeq, ConcatEmptySeq DEF Init, Answers
  <2>2. Link \in {"new", "open"}
    BY DEF Init, Link, HandleOpen
  <2> QED
    BY <2>1, <2>2 DEF Connection!Init
<1>2. PipeInv /\ [Next]_vars => [Connection!Next]_(Connection!channelVars)
  BY StepIsChannelStep DEF Connection!channelVars
<1> QED
  BY <1>1, <1>2, ReadsAreSafe, PTL DEF Spec, AnswersInOrder, Connection!Spec
=============================================================================
