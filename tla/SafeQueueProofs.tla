--------------------------- MODULE SafeQueueProofs ---------------------------
(***************************************************************************)
(* For every number of threads, every set of items and every bound: mutual *)
(* exclusion and the content of safequeue.h, and from them that its push   *)
(* and pop implement the atomic queue of FifoQueue; and no wakeup is lost. *)
(***************************************************************************)
EXTENDS SafeQueue, FiniteSetTheorems, TLAPS

\* Moving the front of one sequence to the back of the other keeps their
\* concatenation: this is what pop does to popped and queue.
LEMMA MoveHead ==
  ASSUME NEW S, NEW s \in Seq(S), NEW t \in Seq(S), t # <<>>
  PROVE  s \o t = Append(s, Head(t)) \o Tail(t)
OBVIOUS

\* The front of the queue is the item after those already popped.
LEMMA FrontIsNext ==
  ASSUME NEW S, NEW s \in Seq(S), NEW t \in Seq(S), t # <<>>
  PROVE  /\ Len(s) < Len(s \o t)
         /\ Head(t) = (s \o t)[Len(s) + 1]
OBVIOUS
-----------------------------------------------------------------------------
LEMMA InitQueueInv == Init => QueueInv
<1> SUFFICES ASSUME Init PROVE QueueInv
  OBVIOUS
<1> USE DEF Init
<1>1. TypeOK
  BY DEF TypeOK, Threads
<1>2. MutexInv
  BY QueueAssumption DEF MutexInv
<1>3. ContentInv
  BY DEF ContentInv
<1> QED
  BY <1>1, <1>2, <1>3 DEF QueueInv

\* Each step that takes or gives back the mutex moves exactly one thread in
\* or out of its critical section; only PushItem and PopTake, which run
\* inside, touch the queue, and they record what they moved.
LEMMA NextQueueInv == QueueInv /\ [Next]_vars => QueueInv'
<1> SUFFICES ASSUME QueueInv, [Next]_vars PROVE QueueInv'
  OBVIOUS
<1> USE QueueAssumption DEF QueueInv, Threads
<1>1. ASSUME NEW p \in Producers, PushLock(p) PROVE QueueInv'
  BY <1>1 DEF PushLock, Goto, TypeOK, MutexInv, ContentInv
<1>2. ASSUME NEW p \in Producers, NEW v \in Items, PushItem(p, v)
      PROVE  QueueInv'
  <2>1. TypeOK' /\ MutexInv'
    BY <1>2 DEF PushItem, Goto, TypeOK, MutexInv
  <2>2. Append(popped \o queue, v) = popped \o Append(queue, v)
    <3>1. popped \in Seq(Items) /\ queue \in Seq(Items)
      BY DEF TypeOK
    <3> QED
      BY <3>1
  <2>3. ContentInv'
    BY <1>2, <2>2 DEF PushItem, ContentInv
  <2> QED
    BY <2>1, <2>3
<1>3. ASSUME NEW p \in Producers, PushUnlock(p) PROVE QueueInv'
  BY <1>3 DEF PushUnlock, Goto, TypeOK, MutexInv, ContentInv
<1>4. ASSUME NEW p \in Producers, PushNotify(p) PROVE QueueInv'
  <2>1. CASE \E c \in Waiters :
               pc' = [pc EXCEPT ![p] = "idle", ![c] = "waking"]
    BY <1>4, <2>1 DEF PushNotify, Waiters, TypeOK, MutexInv, ContentInv
  <2>2. CASE Waiters = {} /\ Goto(p, "idle")
    BY <1>4, <2>2 DEF PushNotify, Goto, TypeOK, MutexInv, ContentInv
  <2> QED
    BY <1>4, <2>1, <2>2 DEF PushNotify
<1>5. ASSUME NEW c \in Consumers, PopLock(c) PROVE QueueInv'
  BY <1>5 DEF PopLock, Goto, TypeOK, MutexInv, ContentInv
<1>6. ASSUME NEW c \in Consumers, PopWait(c) PROVE QueueInv'
  BY <1>6 DEF PopWait, Goto, TypeOK, MutexInv, ContentInv
<1>7. ASSUME NEW c \in Consumers, PopSpuriousWakeup(c) PROVE QueueInv'
  BY <1>7 DEF PopSpuriousWakeup, Goto, TypeOK, MutexInv, ContentInv
<1>8. ASSUME NEW c \in Consumers, PopRelock(c) PROVE QueueInv'
  BY <1>8 DEF PopRelock, Goto, TypeOK, MutexInv, ContentInv
<1>9. ASSUME NEW c \in Consumers, PopTake(c) PROVE QueueInv'
  <2>1. TypeOK' /\ MutexInv'
    BY <1>9 DEF PopTake, Goto, TypeOK, MutexInv
  <2>2. popped \o queue = Append(popped, Head(queue)) \o Tail(queue)
    BY <1>9, MoveHead DEF PopTake, TypeOK
  <2>3. ContentInv'
    BY <1>9, <2>2 DEF PopTake, ContentInv
  <2> QED
    BY <2>1, <2>3
<1>10. CASE UNCHANGED vars
  BY <1>10 DEF vars, TypeOK, MutexInv, ContentInv
<1> QED
  BY <1>1, <1>2, <1>3, <1>4, <1>5, <1>6, <1>7, <1>8, <1>9, <1>10
  DEF Next, PushStep, PopStep

\* Mutual exclusion and content: at every moment at most one thread is
\* between lock and unlock in push or pop, and what was pushed is what was
\* popped followed by what is queued.
THEOREM QueueIsSafe == Spec => []QueueInv
<1>1. Init => QueueInv
  BY InitQueueInv
<1>2. QueueInv /\ [Next]_vars => QueueInv'
  BY NextQueueInv
<1> QED
  BY <1>1, <1>2, PTL DEF Spec

-----------------------------------------------------------------------------
\* Only two steps of the queue are visible in the atomic one: PushItem is
\* its Push, PopTake its Pop.
LEMMA StepIsFifoStep == QueueInv /\ [Next]_vars => [Fifo!Next]_Fifo!fifoVars
<1> SUFFICES ASSUME QueueInv, [Next]_vars PROVE [Fifo!Next]_Fifo!fifoVars
  OBVIOUS
<1>1. ASSUME NEW p \in Producers, NEW v \in Items, PushItem(p, v)
      PROVE  Fifo!Next
  BY <1>1 DEF PushItem, Fifo!Next, Fifo!Push
<1>2. ASSUME NEW c \in Consumers, PopTake(c) PROVE Fifo!Next
  <2>1. /\ Len(popped) < Len(pushed)
        /\ Head(queue) = pushed[Len(popped) + 1]
    BY <1>2, FrontIsNext DEF PopTake, QueueInv, TypeOK, ContentInv
  <2> QED
    BY <1>2, <2>1 DEF PopTake, Fifo!Next, Fifo!Pop
<1>3. ASSUME NEW p \in Producers,
             PushLock(p) \/ PushUnlock(p) \/ PushNotify(p)
      PROVE  UNCHANGED Fifo!fifoVars
  BY <1>3 DEF PushLock, PushUnlock, PushNotify, Fifo!fifoVars
<1>4. ASSUME NEW c \in Consumers,
             PopLock(c) \/ PopWait(c) \/ PopRelock(c) \/ PopSpuriousWakeup(c)
      PROVE  UNCHANGED Fifo!fifoVars
  BY <1>4 DEF PopLock, PopWait, PopRelock, PopSpuriousWakeup, Fifo!fifoVars
<1>5. CASE UNCHANGED vars
  BY <1>5 DEF vars, Fifo!fifoVars
<1> QED
  BY <1>1, <1>2, <1>3, <1>4, <1>5 DEF Next, PushStep, PopStep

\* The mutex and the condition variable of safequeue.h implement the atomic
\* queue: items come out in the order of the pushes, each exactly once.
THEOREM QueueIsFifo == Spec => FifoOrder
<1>1. Init => Fifo!Init
  BY DEF Init, Fifo!Init
<1>2. QueueInv /\ [Next]_vars => [Fifo!Next]_Fifo!fifoVars
  BY StepIsFifoStep
<1> QED
  BY <1>1, <1>2, QueueIsSafe, PTL DEF Spec, FifoOrder, Fifo!Spec

-----------------------------------------------------------------------------
\* What the steps do to the two counts of NoLostWakeup: a thread that enters
\* a finite set adds one, a thread that leaves it takes one away.
LEMMA CountIn ==
  ASSUME NEW S, IsFiniteSet(S), NEW x, x \notin S
  PROVE  Cardinality(S \cup {x}) = Cardinality(S) + 1
BY FS_AddElement

LEMMA CountOut ==
  ASSUME NEW S, IsFiniteSet(S), NEW x \in S
  PROVE  Cardinality(S \ {x}) = Cardinality(S) - 1
BY FS_RemoveElement

LEMMA CountsAreNumbers ==
  /\ IsFiniteSet(Awake) /\ Cardinality(Awake) \in Nat
  /\ IsFiniteSet(Notifiers) /\ Cardinality(Notifiers) \in Nat
  /\ IsFiniteSet(Awake') /\ Cardinality(Awake') \in Nat
  /\ IsFiniteSet(Notifiers') /\ Cardinality(Notifiers') \in Nat
<1>1. /\ Awake \subseteq Consumers /\ Awake' \subseteq Consumers
      /\ Notifiers \subseteq Producers /\ Notifiers' \subseteq Producers
  BY DEF Awake, Notifiers
<1>2. /\ IsFiniteSet(Awake) /\ IsFiniteSet(Awake')
      /\ IsFiniteSet(Notifiers) /\ IsFiniteSet(Notifiers')
  BY <1>1, QueueAssumption, FS_Subset
<1> QED
  BY <1>2, FS_CardinalityType

\* Every step that adds an item adds a push that has yet to notify, every
\* step that ends a notification wakes a pop or finds none asleep, and a pop
\* that stops looking has taken an item or seen that there is none.
LEMMA NextNoLostWakeup ==
  QueueInv /\ NoLostWakeup /\ [Next]_vars => NoLostWakeup'
<1> SUFFICES ASSUME QueueInv, NoLostWakeup, [Next]_vars, Waiters' # {}
             PROVE  Len(queue)' <= Cardinality(Awake)' + Cardinality(Notifiers)'
  BY DEF NoLostWakeup
<1> DEFINE items == Len(queue)
           awake == Cardinality(Awake)
           told == Cardinality(Notifiers)
<1> USE QueueAssumption
<1>t. /\ queue \in Seq(Items)
      /\ pc \in [Threads -> {"idle", "pushing", "pushed", "notifying",
                             "locked", "waiting", "waking"}]
  BY DEF QueueInv, TypeOK
<1>n. items \in Nat /\ awake \in Nat /\ told \in Nat /\ awake' \in Nat /\ told' \in Nat
  BY <1>t, CountsAreNumbers
<1>o. Waiters # {} => items <= awake + told
  BY DEF NoLostWakeup
<1>f. /\ IsFiniteSet(Awake) /\ IsFiniteSet(Notifiers)
      /\ IsFiniteSet(Awake') /\ IsFiniteSet(Notifiers')
  BY CountsAreNumbers
<1>1. ASSUME NEW p \in Producers, PushLock(p) PROVE items' <= awake' + told'
  <2>1. Waiters' = Waiters /\ Awake' = Awake /\ Notifiers' = Notifiers /\ queue' = queue
    BY <1>1, <1>t DEF PushLock, Goto, Waiters, Awake, Notifiers, Threads
  <2> QED
    BY <2>1, <1>o
<1>2. ASSUME NEW p \in Producers, NEW v \in Items, PushItem(p, v)
      PROVE  items' <= awake' + told'
  <2>1. /\ Waiters' = Waiters /\ Awake' = Awake
        /\ Notifiers' = Notifiers \cup {p} /\ p \notin Notifiers
    BY <1>2, <1>t DEF PushItem, Goto, Waiters, Awake, Notifiers, Threads
  <2>2. items' = items + 1
    BY <1>2, <1>t DEF PushItem
  <2>3. told' = told + 1
    BY <2>1, <1>f, CountIn
  <2>4. awake' = awake
    BY <2>1
  <2>5. items <= awake + told
    BY <2>1, <1>o
  <2> HIDE DEF items, awake, told
  <2> QED
    BY <2>2, <2>3, <2>4, <2>5, <1>n
<1>3. ASSUME NEW p \in Producers, PushUnlock(p) PROVE items' <= awake' + told'
  <2>1. Waiters' = Waiters /\ Awake' = Awake /\ Notifiers' = Notifiers /\ queue' = queue
    BY <1>3, <1>t DEF PushUnlock, Goto, Waiters, Awake, Notifiers, Threads
  <2> QED
    BY <2>1, <1>o
<1>4. ASSUME NEW p \in Producers, PushNotify(p) PROVE items' <= awake' + told'
  <2>1. PICK c \in Waiters : pc' = [pc EXCEPT ![p] = "idle", ![c] = "waking"]
    <3>1. ASSUME Waiters = {}, Goto(p, "idle") PROVE FALSE
      BY <3>1, <1>t DEF Waiters, Goto, Threads
    <3> QED
      BY <1>4, <3>1 DEF PushNotify
  <2>2. /\ Awake' = Awake \cup {c} /\ c \notin Awake
        /\ Notifiers' = Notifiers \ {p} /\ p \in Notifiers
        /\ queue' = queue
    BY <1>4, <2>1, <1>t DEF PushNotify, Waiters, Awake, Notifiers, Threads
  <2>3. awake' = awake + 1
    BY <2>2, <1>f, CountIn
  <2>4. told' = told - 1
    BY <2>2, <1>f, CountOut
  <2>5. items' = items
    BY <2>2
  <2>6. items <= awake + told
    BY <2>1, <1>o
  <2> HIDE DEF items, awake, told
  <2> QED
    BY <2>3, <2>4, <2>5, <2>6, <1>n
<1>5. ASSUME NEW c \in Consumers, PopLock(c) \/ PopSpuriousWakeup(c)
      PROVE  items' <= awake' + told'
  <2>1. /\ Waiters # {}
        /\ Awake' = Awake \cup {c} /\ c \notin Awake
        /\ Notifiers' = Notifiers /\ queue' = queue
    BY <1>5, <1>t DEF PopLock, PopSpuriousWakeup, Goto, Waiters, Awake, Notifiers, Threads
  <2>2. awake' = awake + 1
    BY <2>1, <1>f, CountIn
  <2>3. told' = told /\ items' = items
    BY <2>1
  <2>4. items <= awake + told
    BY <2>1, <1>o
  <2> HIDE DEF items, awake, told
  <2> QED
    BY <2>2, <2>3, <2>4, <1>n
<1>6. ASSUME NEW c \in Consumers, PopWait(c) PROVE items' <= awake' + told'
  <2>1. items' = 0
    BY <1>6 DEF PopWait
  <2>2. ASSUME NEW i \in Nat, NEW j \in Nat PROVE 0 <= i + j
    OBVIOUS
  <2> HIDE DEF items, awake, told
  <2> QED
    BY <2>1, <2>2, <1>n
<1>7. ASSUME NEW c \in Consumers, PopRelock(c) PROVE items' <= awake' + told'
  <2>1. Waiters' = Waiters /\ Awake' = Awake /\ Notifiers' = Notifiers /\ queue' = queue
    BY <1>7, <1>t DEF PopRelock, Goto, Waiters, Awake, Notifiers, Threads
  <2> QED
    BY <2>1, <1>o
<1>8. ASSUME NEW c \in Consumers, PopTake(c) PROVE items' <= awake' + told'
  <2>1. /\ Waiters' = Waiters
        /\ Awake' = Awake \ {c} /\ c \in Awake
        /\ Notifiers' = Notifiers
    BY <1>8, <1>t DEF PopTake, Goto, Waiters, Awake, Notifiers, Threads
  <2>2. items' = items - 1
    BY <1>8, <1>t DEF PopTake
  <2>3. awake' = awake - 1
    BY <2>1, <1>f, CountOut
  <2>4. told' = told
    BY <2>1
  <2>5. items <= awake + told
    BY <2>1, <1>o
  <2> HIDE DEF items, awake, told
  <2> QED
    BY <2>2, <2>3, <2>4, <2>5, <1>n
<1>9. CASE UNCHANGED vars
  BY <1>9, <1>o DEF vars, Waiters, Awake, Notifiers
<1> QED
  BY <1>1, <1>2, <1>3, <1>4, <1>5, <1>6, <1>7, <1>8, <1>9
  DEF Next, PushStep, PopStep

\* No lost wakeup, for any number of threads: although push notifies after
\* it has given the mutex back, while a pop sleeps every queued item has a
\* pop that is awake to take it or a push that has yet to notify.
THEOREM NoWakeupIsLost == Spec => []NoLostWakeup
<1>1. Init => NoLostWakeup
  BY DEF Init, NoLostWakeup, Waiters, Threads
<1>2. QueueInv /\ NoLostWakeup /\ [Next]_vars => NoLostWakeup'
  BY NextNoLostWakeup
<1> QED
  BY <1>1, <1>2, QueueIsSafe, PTL DEF Spec
=============================================================================
