------------------------------ MODULE SafeQueue ------------------------------
(***************************************************************************)
(* thread_util::Queue<T> of foo_rpc/safequeue.h: a std::queue guarded by   *)
(* one mutex, with a condition variable on which pop sleeps while the      *)
(* queue is empty.  A step is what a thread does between two points where  *)
(* another thread can run: taking the mutex, the accesses made under it,   *)
(* giving it back, and the notification sent after it was given back.      *)
(***************************************************************************)
EXTENDS Naturals, Sequences, FiniteSets

CONSTANTS Producers,  \* threads that call push
          Consumers,  \* threads that call pop
          Items,      \* values of T
          NoThread,   \* "the mutex is free"
          MaxPush     \* bound: total number of calls of push

Threads == Producers \cup Consumers

ASSUME QueueAssumption ==
  /\ IsFiniteSet(Producers) /\ IsFiniteSet(Consumers)
  /\ Producers \cap Consumers = {}
  /\ NoThread \notin Threads
  /\ MaxPush \in Nat

VARIABLES queue,   \* queue_
          owner,   \* the thread that holds mutex_, or NoThread
          pc,      \* where each thread is
          pushed,  \* history: items pushed, in the order of the pushes
          popped   \* history: items returned by pop, in the order of the pops

vars == <<queue, owner, pc, pushed, popped>>

Waiters == {c \in Consumers : pc[c] = "waiting"}  \* asleep in cond_.wait

Init == /\ queue = <<>>
        /\ owner = NoThread
        /\ pc = [t \in Threads |-> "idle"]
        /\ pushed = <<>>
        /\ popped = <<>>

Goto(t, label) == pc' = [pc EXCEPT ![t] = label]

-----------------------------------------------------------------------------
\* push

\* unique_lock mlock(mutex_)
PushLock(p) == /\ pc[p] = "idle"
               /\ owner = NoThread
               /\ Len(pushed) < MaxPush
               /\ owner' = p
               /\ Goto(p, "pushing")
               /\ UNCHANGED <<queue, pushed, popped>>

\* queue_.push(item)
PushItem(p, v) == /\ pc[p] = "pushing"
                  /\ queue' = Append(queue, v)
                  /\ pushed' = Append(pushed, v)
                  /\ Goto(p, "pushed")
                  /\ UNCHANGED <<owner, popped>>

\* mlock.unlock()
PushUnlock(p) == /\ pc[p] = "pushed"
                 /\ owner' = NoThread
                 /\ Goto(p, "notifying")
                 /\ UNCHANGED <<queue, pushed, popped>>

\* Mutant: nobody is told that there is an item.
NotifyNobody(p) == /\ pc[p] = "notifying"
                   /\ Goto(p, "idle")
                   /\ UNCHANGED <<queue, owner, pushed, popped>>

\* cond_.notify_one(): one sleeping pop, if there is one, is woken
PushNotify(p) ==
  /\ pc[p] = "notifying"
  /\ \/ \E c \in Waiters :
          pc' = [pc EXCEPT ![p] = "idle", ![c] = "waking"]
     \/ Waiters = {} /\ Goto(p, "idle")
  /\ UNCHANGED <<queue, owner, pushed, popped>>

-----------------------------------------------------------------------------
\* pop (both overloads)

\* Mutant: pop looks at the queue without the mutex.
PopWithoutLock(c) == /\ pc[c] = "idle"
                     /\ owner' = c
                     /\ Goto(c, "locked")
                     /\ UNCHANGED <<queue, pushed, popped>>

\* unique_lock mlock(mutex_)
PopLock(c) == /\ pc[c] = "idle"
              /\ owner = NoThread
              /\ owner' = c
              /\ Goto(c, "locked")
              /\ UNCHANGED <<queue, pushed, popped>>

\* while (queue_.empty()) cond_.wait(mlock): sleeping and giving the mutex
\* back is one step
PopWait(c) == /\ pc[c] = "locked"
              /\ queue = <<>>
              /\ owner' = NoThread
              /\ Goto(c, "waiting")
              /\ UNCHANGED <<queue, pushed, popped>>

\* A condition variable may wake a thread that nobody notified.
PopSpuriousWakeup(c) == /\ pc[c] = "waiting"
                        /\ Goto(c, "waking")
                        /\ UNCHANGED <<queue, owner, pushed, popped>>

\* A woken wait takes the mutex again before it returns to the while.
PopRelock(c) == /\ pc[c] = "waking"
                /\ owner = NoThread
                /\ owner' = c
                /\ Goto(c, "locked")
                /\ UNCHANGED <<queue, pushed, popped>>

\* Mutant: the newest item is taken instead of the oldest.
PopTakeBack(c) == /\ pc[c] = "locked"
                  /\ queue # <<>>
                  /\ popped' = Append(popped, queue[Len(queue)])
                  /\ queue' = SubSeq(queue, 1, Len(queue) - 1)
                  /\ owner' = NoThread
                  /\ Goto(c, "idle")
                  /\ UNCHANGED pushed

\* val = queue_.front(); queue_.pop(); return, which gives the mutex back
PopTake(c) == /\ pc[c] = "locked"
              /\ queue # <<>>
              /\ popped' = Append(popped, Head(queue))
              /\ queue' = Tail(queue)
              /\ owner' = NoThread
              /\ Goto(c, "idle")
              /\ UNCHANGED pushed

-----------------------------------------------------------------------------
PushStep(p) == PushLock(p) \/ PushUnlock(p) \/ PushNotify(p)
               \/ \E v \in Items : PushItem(p, v)

PopStep(c) == PopLock(c) \/ PopWait(c) \/ PopRelock(c) \/ PopTake(c)

Next == \/ \E p \in Producers : PushStep(p)
        \/ \E c \in Consumers : PopStep(c) \/ PopSpuriousWakeup(c)

\* A thread the scheduler can run is run: a push that was begun is finished
\* and a pop goes on.  Nothing obliges a producer to call push, and nothing
\* is assumed of the order in which threads get the mutex.
Fairness ==
  /\ \A p \in Producers : WF_vars(PushUnlock(p) \/ PushNotify(p)
                                  \/ \E v \in Items : PushItem(p, v))
  /\ \A c \in Consumers : WF_vars(PopStep(c))

Spec == Init /\ [][Next]_vars /\ Fairness

-----------------------------------------------------------------------------
TypeOK ==
  /\ queue \in Seq(Items)
  /\ owner \in Threads \cup {NoThread}
  /\ pc \in [Threads -> {"idle", "pushing", "pushed", "notifying",
                         "locked", "waiting", "waking"}]
  /\ pushed \in Seq(Items)
  /\ popped \in Seq(Items)

\* Only the thread that owns the mutex is inside a critical section.
MutexInv == \A t \in Threads :
              pc[t] \in {"pushing", "pushed", "locked"} <=> owner = t

\* Nothing is lost or duplicated: what was pushed is what was popped
\* followed by what is still queued.
ContentInv == pushed = popped \o queue

\* The queue's content and its mutex, together an inductive invariant of
\* safequeue.h: two threads are never both between lock and unlock, and the
\* items pushed are those popped followed by those still queued.
QueueInv == TypeOK /\ MutexInv /\ ContentInv

\* Pops that will look at the queue, and pushes that have yet to notify.
Awake == {c \in Consumers : pc[c] \in {"waking", "locked"}}
Notifiers == {p \in Producers : pc[p] \in {"pushed", "notifying"}}

\* No lost wakeup: push notifies after it has given the mutex back, so a pop
\* may start to sleep, wake by itself or steal the item in between; still,
\* while some pop sleeps, every queued item has a pop that is awake to take
\* it or a push that has yet to notify.
NoLostWakeup == Waiters # {} =>
                  Len(queue) <= Cardinality(Awake) + Cardinality(Notifiers)

\* Every step of push and pop is a step, or no step, of the atomic queue.
Fifo == INSTANCE FifoQueue
FifoOrder == Fifo!Spec

\* Every pushed item is handed out, whatever the interleaving of
\* notifications, spurious wakeups and stolen items.
Delivered == \A n \in 1..MaxPush : Len(pushed) >= n ~> Len(popped) >= n
=============================================================================
