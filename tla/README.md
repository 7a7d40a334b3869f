# foo_rpc in TLA+

foo_rpc is a component of the audio player foobar2000.  It opens the Windows
named pipe `\\.\pipe\foobar2000`, and a client that writes a msgpack tuple of a
method name and its packed parameters to it gets back a tuple of a status and a
result.  This directory holds models of the component, the TLC runs that check
them and the proofs TLAPS checks.  Paths are relative to the repository
(`src/` in `PROJECT.json`); line numbers are those of the modelled commit.

## The system

| component | state | operations | used by |
|---|---|---|---|
| connections queue, `foo_rpc/safequeue.h` | `queue_`, `mutex_`, `cond_` | `push`, `pop` (two overloads), `size` | `on_quit` pushes, the collector thread pops |
| named pipe, `foo_rpc/_winapi.cpp` | instances, kept by the kernel | `create_pipe`, `connect_pipe`, `wait_overlapped_event`, `get_overlapped_result`, `recv_bytes`, `get_more_data`, `send_bytes`, `connect_client_to_pipe` | `pipe.h`, `on_quit` |
| listener and connections, `foo_rpc/pipe.h` | `handles` (a deque); for a connection its handle and `closingEvent` | `accept`, `PipeListener::close`; `recv`, `send`, `PipeConnection::close` | listener thread, workers, collector, `on_quit` |
| life cycle, `foo_rpc/foo_rpc.cpp` | `underlying_threads`, `trackedConnections`, `connectionsQueue`, two events, two threads | `on_init`, `listen_commands`, `process_incoming_connection`, `close_tracked_connections`, `on_quit` | foobar2000 calls `on_init` and `on_quit` |
| remote procedure call, `rpcapi/dispatch.h`, `rpcapi/rpc/*.h`, `percolate.h`, `event.h` | the registry; in each call an `ApiParam` and an `ApiResult` or an `Event` on the worker's stack | `dispatch`, 111 stubs of four kinds, `setResult`, `set`, `wait` | workers; the main thread through `fb2k::inMainThread` |
| serialization, `rpcapi/serialization/*.h`, `rpctype.h` | none | `unpack`, `packed` | dispatcher, stubs |
| API, `api/playback_control.h`, `coreversion.h`, `playlist.h`, `playlist_loader.h` | foobar2000's | one function for each method | lambdas of the stubs, on the main thread |
| stub generator, `scripts/generate_rpc_header.py` | none | writes `rpcapi/rpc/*.h` and the registry | the developers |
| values, `result.h`, `local_exceptions.h`, `logging.h` | none | | everywhere |

The threads: the *main thread* of foobar2000 runs `on_init`, then its message
loop, which runs the lambdas the stubs post, and finally `on_quit`.  The
*listener thread* accepts one client after the other and starts a *worker*
thread for each.  A worker reads a request, dispatches it to a stub, which
posts a lambda and blocks until the lambda has set its event, and writes the
reply.  The *collector thread* closes the connections `on_quit` pushes into the
queue.  `handles`, the two vectors, the queue and the events are shared; only
the queue has a lock.

What is hard here: `on_quit` runs at any moment against listener, collector and
workers; stub and lambda share the worker's stack; accept and
`listener.close()` take handles from one deque; a client may come and go at any
moment; and much of the order in which `on_quit` stops the threads is load
bearing, as its comment says.

What makes each part correct:

* queue: mutual exclusion, first in first out, nothing lost, no lost wakeup;
* listener and connections: an instance is accepted once, and after that it
  belongs to one worker;
* life cycle: the vectors are not changed while `on_quit` iterates over them;
  when `on_quit` returns no thread runs; `on_quit` returns;
* remote procedure call: each request is carried out once, or refused, and its
  own client gets its own answer; the lambda's references stay valid; an API
  function that throws costs no other client its answer;
* handles: numbers of closed objects that are given out again never lead a
  thread to the pipe of another client;
* playlist API: a call concerns the playlist it means at the instant it runs,
  answers speak of what is there, failures change nothing.

## The modules

| module | models | kind |
|---|---|---|
| `FifoQueue` | what the queue promises | abstract specification |
| `Channel` | what a connection promises its client | abstract specification |
| `SafeQueue` | `safequeue.h` at the grain of mutex and condition variable | implements `FifoQueue` |
| `SafeQueueProofs` | its invariant, lost wakeups and the refinement | proofs |
| `NamedPipe` | pipe instances in the kernel (external) | operators for `Server` |
| `Server` | `foo_rpc.cpp` with `pipe.h` and the wrappers of `_winapi.cpp` | each connection implements `Channel` |
| `ServerProofs` | the invariant of the component, and the safe stop | proofs |
| `ServerChannelProofs` | that every instance implements `Channel` | proofs |
| `ServerQuit` | the same under assumptions about its clients; what comments and documentation say | temporal properties |
| `RpcApi` | requests, replies, registry, kinds of stub; the API is a parameter | operators |
| `RpcService` | what the RPC layer promises its clients | abstract specification |
| `RpcCall` | dispatcher, stubs, `ApiResult`, `Event`, main thread's queue | implements `RpcService` |
| `RpcCallProofs` | its invariant and the refinement | proofs |
| `PipeIO` | `recv` and `send` over the overlapped reads and writes of `_winapi.cpp` | implements `Channel` |
| `PipeIOProofs` | its invariant, framing and the refinement | proofs |
| `Handles` | the numbers of pipes and events, their copies, and `CloseHandle` | state machine |
| `HandlesProofs` | its invariant, and that no thread meets another connection's objects | proofs |
| `Playlists` | `api/playlist.h`, `load_playlist`, with several clients | state machine |
| `PlaylistsProofs` | its action properties | proofs |
| `MCSafeQueue`, `MCServer`, `MCRpcCall`, `MCPipeIO`, `MCHandles`, `MCPlaylists` | instances for TLC | |

Comments that begin with "Mutant:" mark operators no specification uses: each
is an action with a plausible bug, and replacing the action by it must make TLC
refute the property `PROJECT.json` names with it.

### SafeQueue

`pc[t]` is where thread `t` is in `push` or `pop`, `owner` who has `mutex_`.
`push` locks, appends, unlocks and only then notifies (lines 44-47), so these
are four actions.  `pop` locks, then sleeps while the queue is empty;
`cond_.wait` gives the mutex back and sleeps in one step, and may return
without notification (`PopSpuriousWakeup`).  The two overloads of `pop` differ
in how they return the item.  `size` reads the queue without the lock and is
called nowhere; it is left out.  `Server` uses the queue as the atomic one
`FifoQueue` specifies, with the notification folded into the push.

### Server and ServerQuit

A worker, its connection and its pipe instance have one name, the number of the
instance, because an instance serves one client in its life; `OneWorkerPerPipe`
is what justifies that naming.

* `at[c]` is the instance a client opened.  A client opens the pipe once; a
  client that comes again is another element of `Clients`.
* The actions of the listener follow `accept` line by line, because
  `listener.close()` runs on the main thread meanwhile: `AcceptCreate`,
  `AcceptFront`, `AcceptPop`, `AcceptConnect`, `AcceptReturn`.  `front` and
  `pop_front` of a deque are atomic in the model.  An empty deque there is
  undefined behaviour: `undefined` becomes true and nothing happens any more.
  It is reached: `listener.close()` may empty the deque between the `push_back`
  of `accept` and its `front()`.  `DequeInv` says that this is the only way: as
  long as nobody quits, the deque holds one handle between two accepts and two
  when `accept` takes one, and after the join of the listener nobody uses it.
  The deque's own data race (two threads inside it at once) is not modelled
  beyond that.
* `AcceptCreate`: `create_pipe` compares the address of the handle with
  `INVALID_HANDLE_VALUE` (line 44), so a failure is not noticed and the invalid
  handle (`NoHandle`) joins the deque.  It fails here when all `MaxInstances`
  exist.  `AcceptConnect` fails with that handle when it comes up, and the
  listener ends.  Were the failure noticed, as the code means to, and nothing
  put into the deque, this `accept` would take the last handle and the next one
  find the deque empty.
* `AcceptReturn`: `connect_pipe` returns a copy of the `OVERLAPPED` the kernel
  completes, and the copy reports success whatever became of the instance.
  So `accept` returns, even for an instance that was disconnected.
* `AcceptConnect` fails for an instance whose client has already closed its
  end (`ERROR_NO_DATA`): `PipeException`, and `listen_commands` returns.
* `PipeConnection::close` is three steps, test, set and `CloseHandle`, for the
  worker and for the collector.  Its branch for a pending operation cannot run,
  since `accept` leaves `pending` 0.
* The dummy connection has a NULL handle; it is `NoHandle` in the queue.
  Closing it changes nothing that is modelled.
* API functions return here; a call that throws (see `RpcCall`) would block its
  worker, and with it the join of `on_quit`, just as in `workers_stop`.
* `QuitOpen`: when `CreateFile` finds no free instance, `WaitNamedPipe` waits at
  most 200 ms, after which `connect_client_to_pipe` returns nothing in either
  case, for `CreateFile` is not tried again.  The wait is not a step of its own.
* A request is its kind: `"call"` names a registered method, `"reject"` does
  not, or has the wrong parameter.  What the call does is in `RpcCall`; here the
  lambda only sets the event of its worker.
* `on_quit` runs on the main thread, so no lambda runs after `BeginQuit`.

`ServerQuit` adds assumptions: `ClientsLeave` (once the program quits, clients hang
up sometime),
`UpSpec` (nobody quits) and `QuietSpec` (the quit begins while the listener
waits on a free instance and no call is under way, and nobody connects or
sends after that).

`ConnectionsAreChannels` says that each instance implements `Channel`.  The
instance *h* is *new* until a client opens it, *open* while both ends are, and
*cut* afterwards; what its client sent is `requests[h]`, and the worker has
taken `nread[h]` of them and answered `replies[h]`.  An instance that
`listener.close()` disconnected while `accept` held it may be connected again
(`Renew` in `Channel`); the property says that nothing was taken from it before,
so that the next client does not meet a request of the last.

### Channel

As long as both ends stay, requests are taken one by one in the order they were
sent, and the next is not taken before the last has its reply.  Once the
connection is cut, replies under way may be lost and requests taken without a
reply, which is what a worker does that finds its client gone.  `Server` and
`PipeIO` implement it at two grains: in `Server` a message is its kind and threads
come and go, in `PipeIO` it is bytes and only one connection is there.

### Handles

The other modules give an instance one name for its life.  The code has numbers,
and copies of them: the connection on the worker's stack, the one in
`trackedConnections`, the one in the queue.  After `CloseHandle` the kernel may
give the number to the next `CreateEvent` or `CreateNamedPipe`.  `table` is the
handle table of the process; `Allocate` takes any free number, and
`CloseHandle(n)` frees whatever *n* stands for.  Every kernel object the
component keeps is there: pipes, the event of `ConnectNamedPipe`, the
`closingEvent` of a connection, and the event of each read, write and call.

* Instances are accepted in the order they were created, so instance, connection
  and worker have one name, as in `Server`; clients are a choice of outcomes of
  reads.  `on_quit` is the three stages the others can tell apart.
* `close()` is four steps: test, set, and one `CloseHandle` each for the pipe and
  the event.  Worker and collector may both pass the test: then numbers are
  closed twice, and the second time one may stand for an event on which
  another worker waits.  Its wait fails (`Wait`, `Await`), which the assertions of
  `_winapi.cpp` 213 and 246 would notice in a debug build.
* What saves the open connections is the order of `on_quit`: when the collector
  closes, no connection is made any more.  `OpenUntilClosed`, `NoCrossTalk` and
  `OwnEvent` say what follows from it, and `GivenBack` that a client that leaves
  before gives its numbers back.
* `Check`: once the quit stops the workers, the event of a worker is set or not
  yet, since `on_quit` sets one event and joins one thread at a time; a worker
  may leave or go back to `recv`.
* `Wait`: when the number of a worker's event was closed and stands for another
  worker's event by then, the wait succeeds although the read still pends.  What
  `GetOverlappedResult` finds is open then, so each outcome of a read is possible.
* Left out: events that are leaked when they are made, as by the default member
  initialiser of a `PipeConnection` that is copied; a number they take is never
  given out again.  The dummy connection has static storage and so NULL handles;
  closing them closes nothing.

### RpcApi, RpcService and RpcCall

`RpcApi` has the registry and the API as constants: `Template[m]` is the kind of
stub of method `m`, `Effect(m, p, s)` the state of foobar2000 after the call of
`m` with parameter `p` in state `s`, `Answer(m, p, s)` what the API function
answers, and `Throws(m, p, s)` whether it throws an exception instead.  A request
is refused when its method is not registered or, if the stub unpacks a parameter, when it has another type.  A parameter nobody unpacks is
not looked at (`docs/intro.rst` line 36).

`RpcCall` follows one request from `Send` over `Recv`, `Post` (the stub creates
its objects and posts its lambda), `Begin` (the main thread runs the API
function), `StoreResult` and `SetEvent` (the two statements of `setResult`, or
only `event.set()`), `Pack` (`wait` returns) and `Reply` to `Receive`.  `outcome`
is a history variable: the reply fixed at `Fail` or `Begin`.  The stubs of
`playlist.h` and `playlist_loader.h` come from the same four templates and need
no actions of their own.

`Throw`: `save_playlist` catches `exception_io_not_found` only
(`api/playlist_loader.h` 79), and no stub catches anything.  An exception leaves
the lambda before it sets the event; the worker, and its client, wait for ever,
and `outcome` is `Lost`.  What foobar2000 does with an exception of a lambda is
outside the repository; the model takes the case that its message loop goes on,
which is the one where others could suffer.  Connections stay open here; their end is in `Server`.

Bytes that are no msgpack at all are not enumerated: `unpack` catches only
`type_error`, so they end the process.

### PipeIO

One connection, its worker, the kernel, the client and the collector.  A message
is a sequence of bytes, since where `recv` cuts it is the question here.  A
read that finds a message completes at once (`ReadNow`); otherwise it pends
(`ReadPends`), the kernel completes it (`KernelRead`), and the worker takes what
`get_overlapped_result` says (`WakeRead`).  A message longer than
`INITIAL_READ_SIZE` leaves `ERROR_MORE_DATA`, and `get_more_data` peeks and reads
the rest (`Peek`, `ReadMore`); either call finds the handle closed if the
collector was faster.  A reply for which the pipe has no room pends
(`WritePends`), and so does a request (`sending`): the instance is created with
buffers of 16 KiB in each direction (`create_pipe`, line 34), `InQuota` and
`OutQuota` here.  A client that waits in its write does nothing else but leave,
and when it leaves, what the worker has not read of that request may be lost
(`ClientClose`); `get_more_data` then finds the pipe broken.  When client and worker are both
held up in their writes neither goes on (`Jammed`), until one end is closed; nothing in the code
prevents that.  `Exchange` says that nothing else holds up a reply, and
`InTurnNeverJams` that it takes a client that writes a request before it has
read the last reply.  `recv` keeps the zeros of its buffer after a short message;
`unpack` finds the request at the start of the buffer, because a msgpack object
is never the beginning of another (`MessagesAssumption`).  The number `recv`
returns with the buffer is used nowhere and left out.  `KernelWrite` and `KernelTakes`
complete a write once what the other end has not read fits into the pipe.  The worker's test
of its stop event is in `Server`.

Two facts are outside the repository.  `write_to_pipe` has the payload by value,
so the string `WriteFile` was given is gone while the write pends; the model has
the kernel copy it.  And `WriteFile` leaves 0 in `written` when it pends, so the
`assert(written == len)` of `send_bytes` (line 224) fails in a debug build.

### Playlists

A call is fixed when its client sends it (`Invoke`) and carried out in one step
later; `CallsAreAtomic` is why one step is enough.  In between the other clients
may change the playlists.  `at` is the playlist parameter of `playlist_X`, or
`ActivePlaylist` in `activeplaylist_X`, which is resolved in the step
(`Resolve`).  `result` is what the lambda passed to `setResult`.  A vector of
indices becomes a bit table: in `playlist_remove_items` one that grows, in
`playlist_get_items` one of fixed size (`BitTable`).  The filter and the focus item
are choices of foobar2000; `playlist_get_name` ignores whether there was a name.

A name comes with a length, which the code hands on beside the characters
(lines 65-69, 281-284 and 594-598).  `Given` is what `playlist_manager` makes of
the two: as many characters as the length says, and no more than there are
before the string ends.  `docs/api.rst` 218-220 warns of lengths that do not fit the name.

`playlist_manager` is foobar2000's: it counts playlists from 0, puts a playlist whose index is too
large at the end, makes a playlist active if the index is that of one or
`pfc_infinite` (`Activated`; `set_active_playlist` in the component tests nothing), and answers
`pfc_infinite` or false when it does not do what it is asked.  `bit_array_bittable` is of foobar2000's SDK; setting a bit outside
of it has no effect that lasts.  Bounds on playlists and items are refusals of
`playlist_manager`.  Playlists are not locked.  `reorder` and `playlist_reorder_items` hand any
vector of numbers on (lines 94-107 and 124-137); what `playlist_manager` does with one that is no
permutation is not known, and clients are assumed to send permutations.  These
operators of `playlist_manager` are assumptions of the model, and no property is
only about them: each compares what the component handed on or answered with
what the client had asked for.

## The runs

| run | question | bounds |
|---|---|---|
| `safe_queue` | does the queue lose, repeat, reorder, or sleep too long? | 2 producers, 2 consumers, 2 items, 3 pushes |
| `server_safety` | is every quit safe, at any moment, each connection a channel, and the deque never empty before the quit? | 2 clients, 3 instances, 1 request each |
| `server_quit` | does a quit at a quiet moment end, and is each request before it answered, once and in order, and is a worker released when its client leaves? | 1 client, 4 instances, 2 requests, both kinds |
| `handles` | what can happen with numbers that are given out again? | 4 pipes, 9 numbers |
| `rpc_call` | does the RPC layer implement the atomic service? | 2 clients, 5 methods and an unknown name, right and wrong parameters |
| `pipe_io` | do requests reach the dispatcher whole, is the connection a channel, and when are both ends held up? | 4 requests of 1 to 4 bytes, first read 2, buffers 3 and 2, 3 ahead |
| `playlists` | do calls mean what they say while others change the playlists? | 2 clients, 2 playlists of 2 items, 2 names, lengths 1, 2 and unlimited, 2 tracks |
| `asked_items` | does `playlist_get_items` return what was asked for? | the same; **violated** |
| `collector_drains` | does the collector close all it was given? | 1 client, 3 instances; **violated** |
| `final_client` | does the final client wake `accept`? | 1 client, 4 instances; **violated** |
| `workers_stop` | do the workers stop? | 1 client, 4 instances, 1 request; **violated** |
| `call_answered` | is a request answered while the listener should run? | 2 clients, 5 instances, 1 request; **violated** |

`MaxInstances`, `MaxRequests` and `MaxPush` bound what would grow without limit.
They are enough: a race of the queue needs two sleepers and a thief, which two
consumers and three pushes give.  Three instances are one for each of two
clients and the spare one that `accept` creates; all of the server's safety
properties are about two threads and one instance, or two entries of one list.
At `MaxInstances` the kernel refuses further instances, which the code does not
notice, so that path is checked too; `server_quit` and the liveness questions
have one instance more than clients and final client need, so that no answer
depends on it.  Two requests over one connection are what it takes to confuse
replies.  In `pipe_io` requests are shorter than the first read, as long, and one
and two bytes longer; one reply fits into the pipe, one fills it, one is longer;
a client three requests ahead makes replies queue behind one that pends.  The
buffer to the worker, 3, is shorter than the longest request, so that a client
waits in a write with one request or with several.  Two
playlists and indices that go one past the end are what it takes to miss a
playlist or an item; of the two names one is the beginning of the other, and lengths cut
the longer one to the shorter, just leave it, or say more than there is.  In `handles`, three connections can be accepted while the
fourth instance waits; nine numbers are few enough that they come back while
copies of them live: the number of a closed pipe goes to a later pipe, which is
accepted, and the number of a connection closed twice to an event a worker waits
for.  Clients in `server_safety` and `playlists` are symmetric.
The state space of `rpc_call` is finite without a bound.

Deadlock is checked in `safe_queue`, `playlists` and `asked_items`.  A connection of
`pipe_io` ends when its worker has closed it.  In `rpc_call` both clients may have
lost their calls.  `handles` ends when its bounds are used up or its
threads have ended.  The server really stops: after `on_quit`, in the situations of
the violated properties, and in undefined behaviour.  The configurations of all
these say `CHECK_DEADLOCK FALSE`.

### What the runs found

* `collector_drains`: `close_tracked_connections` tests its event before every
  `pop`; `on_quit` sets it right after the pushes.  The collector can leave
  with connections in the queue.  The comment (`foo_rpc.cpp` 159-160) says it
  closes after it has processed them.
* `final_client`: `listener.close()` disconnects what is in the deque, but
  `accept` creates another instance and may hold one already; the final client
  may get the instance the listener does not wait on.  `on_quit` then waits for
  ever in `namedPipeThread.join()`.  The comment (138-139) says that connecting
  forces `accept` to return.
* `workers_stop`: a worker in `event.wait()` needs the main thread's message
  loop, and the main thread joins that worker.  The comment (136-143) lists this
  join among the steps of "a safe stop".
* `call_answered`: a client that opens the pipe and closes it before
  `ConnectNamedPipe` ends the listener thread.  Whoever opened the spare
  instance waits for ever, though "each API call returns a two-element tuple"
  (`docs/intro.rst` 39).
* `asked_items`: the bit table of `playlist_get_items` has `masks.size()` bits
  (`api/playlist.h` 715), so an index that is not below the number of indices is
  lost: asked for items 0, 1 and 4, the call returns items 0 and 1.
  `docs/api.rst` 523 promises the items specified by `masks`.  The test that asks
  for these three (`tests/test_api.py` 410) compares with `zip`, which stops at
  the shorter list.

### Fairness

Every thread the operating system can run, runs: weak fairness for each thread
(listener, each worker, collector, each push or pop that has begun) and for the
main thread, which runs its message loop and, once called, `on_quit`.  No strong
fairness is used.  Clients are not obliged to send, to read or to leave, and the
user is not obliged to quit, except where `ServerQuit` says so: a quit can only
end if workers blocked in `recv` see their client leave, because of
`collector_drains`.  In `pipe_io` the worker and the kernel go on, and a client
reads a reply that is there, unless it leaves or waits in a write.

## The proofs

Every safety property the passing runs check, and each of the four refinements,
is also proved, for any number of threads, clients, instances, requests, items
and methods.  What is assumed of the constants are the named assumptions of the modules,
which TLC evaluates on every run.  Three of them are more than types and bounds:

* `ApiAssumption`: the API answers values and leads to states there are.
* `MessagesAssumption`: no request is the beginning of another one.  msgpack
  objects say how long they are.  It is used in one place: the buffer of a request
  with zeros behind it determines the request, and so the reply (`AnswerInv`).
* `CallsAssumption`: calls have parameters of the types of the C++ functions; what
  `unpack` refuses never gets to the API.  It adds that an order is a
  permutation, which the tests rely on and the code does not check, and that the
  files for one new playlist fit in one.  All theorems about `Playlists` rest on it.

### Queue

* `QueueIsSafe`: `Spec => []QueueInv`.  `QueueInv` is inductive: exclusion is a
  statement about `owner` and `pc`, and the content is `pushed = popped \o queue`.
* `QueueIsFifo`: `Spec => FifoOrder`.  `PushItem` is `Push`, `PopTake` is `Pop`, and
  the content part of the invariant shows that the head of the queue is the next
  item to hand out; all other steps stutter.
* `NoWakeupIsLost`: `Spec => []NoLostWakeup`, for finite sets of threads.
  `NoLostWakeup` is inductive beside `QueueInv` and counts: a step takes an item out
  only together with one awake pop, a push that gives the mutex back is a
  notifier until a sleeper is awake in its place or nobody sleeps, and a
  pop can go to sleep only when the queue is empty.

### Server

* `ServerIsSafe`: `Spec => []ServerInv`.  Its parts, beside the types:
  `AcceptInv` says that an instance `accept` has read from the front of the deque
  is still the front or already gone, which is why `pop_front` and
  `listener.close()` cannot both give it away; `TrackedInv` that instances with a
  worker are the tracked ones and no longer open to clients; `TrafficInv` how many replies a
  worker owes at each place, and that nothing was read before there was a worker;
  `DequeInv` how many handles the deque has for `accept`; `CallbackAlive` that queued lambdas and blocked workers match; `JoinInv` what each
  join of `on_quit` has achieved, with the loop index that says which workers.
* `LambdasAreAlive`, `DequeIsNotEmpty`, `PipesAreNotShared`, `StopIsSafe`,
  `TrackedIsFrozen` follow from it.
  `TrackedIsFrozen` is about steps: only `Spawn` changes `tracked`, and `JoinInv`
  has the listener gone by then.
* `ConnectionsImplementChannels`: `Spec => ConnectionsAreChannels`.  For each
  instance: `CreateFile` of a client or of `on_quit` is `Open`, a request is `Send`,
  `Recv` is `Take`, a reply while the client is there is `Answer`, the end of
  either side is `Cut`, `ConnectNamedPipe` on a disconnected instance is `Renew`; other
  steps stutter.  `TrafficInv` is what `Answer` and `Renew` need.

### Handles

* `HandlesAreTracked`: `Spec => []HandlesInv`.  `OpenUntilClosed` alone is not
  inductive: after a double close the number may stand for anything.
  `ListenerInv` orders the listener before the collector; `TableInv` says that the
  table names no pipe twice and that `closingEvent` numbers stay valid, since no
  code closes them; `CloseInv` says of every number a thread may still close that
  this is `Harmless`: it is the object meant, or the quit has joined
  the listener, after which free numbers go to events only.
* `OnlyCloseCloses`, `WaitsAreOwn`, `NoWorkerCrossesTalk`, `NumbersAreGivenBack`
  follow from it.

### Reads and writes

* `ReadsAreSafe`: `Spec => []PipeInv`.  `StreamInv` accounts for the bytes: what was
  handed over, what is in the buffer of `recv` (whole, or the first part of a message) and
  what is in the pipe are what the client wrote, in order.
  `MoreIsThere` keeps the two calls of `get_more_data` on one message, and
  `BufferAlive` the kernel away from stack frames that are gone.  `AnswerInv` counts
  replies read, replies in the pipe and the one being written.
* `RequestsAreFramed`: the part that every buffer handed over is its request and zeros.
* `ATurnNeverJams`: `Spec => []InTurnNeverJams`.  When the worker's write pends, a
  reply is in the pipe, and the requests handed over are as many as the replies read or
  in the pipe (`AnswerInv`); a client that waits in its own write has at least one more
  request there (`StreamInv`).
* `ConnectionImplementsChannel`: `Spec => AnswersInOrder`.  `ClientSend` is `Send`, the
  `Dispatch` of a request is `Take`, the step that gives the reply to the
  kernel is `Answer`, and the first end to close is `Cut`.

### Remote procedure call

* `CallsAreSafe`: `Spec => []RpcInv`.  The invariant has four parts beside the types.
  `RequestInv` places a request in the pipe, with its worker, or answered.
  `LambdaAlive` keeps the queue of lambdas free of duplicates and every worker
  with a lambda blocked: without it `SetEvent` could wake the wrong call.
  `AwaitInv` says what a blocked worker will find in its objects, and `MainInv`
  what the running lambda has yet to put there; the two hand the outcome from
  `Begin` over to `Pack`.
* `LambdasAreAlive`: the part of it about dangling references.
* `CallsAreAtomic`: `Spec => RpcIsAtomic`.  The linearization point of a call is
  `Begin`, that of a refusal is `Fail`, and a call is lost at `Throw`; `Send` and
  `Receive` are `Invoke` and `Return`.  `RpcInv` gives that the reply read from the
  pipe is the outcome.

### Playlists

* Types come first (`PlaylistsStayWellFormed`, a lemma): the active index denotes a
  playlist or none.  That is what `playlist_manager` is assumed to keep, and says
  nothing about the component.
* `OthersAreKept`, `AnswersHoldTracks`, `RemovalsAreExact`, `IndicesDenoteNames` and
  `FailuresLeaveNothing` are about steps: which action answers a call of a method
  (`AnsweringAction`), and then what that action does.
* `Marked`, the entries a bit table marks, takes the *n*-th smallest marked place
  for its *n*-th entry (`Nth`).  That this counts a finite set of numbers in ascending
  order (`NthProperties`) is proved from cardinalities alone: the number of elements below each
  is an injection into an interval of the same size.

### What stays with TLC

Everything temporal that needs fairness: `Delivered`, `CallReturns`,
`ServedAnswered`, `LeaversReleased`, `Exchange`, `QuitCompletes`, `CollectorEnds`.
TLAPS reasons neither about `ENABLED` nor about fairness.  The violated properties
are settled by their counterexamples.

## Not modelled

* Of the playlist API: undo, playback order, playback queue, the playing playlist,
  `playlist_activate_*`, sorting, title formatting, visibility and highlighting.
  Each hands its parameters to one method of `playlist_manager` and its answer to
  `setResult`; what could go wrong is inside foobar2000.  The same holds for most
  of the playback API, of which `rpc_call` has one method for each kind of stub.
* Bytes that are no msgpack at all: `unpack` catches only `type_error`, so they end
  the process, as does any exception of `listen_commands` other than
  `PipeException`.  After that there is nothing to state.
* Failures of `CreateEvent` and `SetNamedPipeHandleState`, and leaks of events: no
  behaviour of the code depends on them.
* msgpack bytes, the names of types in error messages (`rpctype.h`), formatting,
  logging, the parsing of headers by the generator.

## Plan

1. Done: queue, server with its quit, RPC layer with exceptions, reads and writes
   of a connection, the channel both implement, handle numbers, playlists.
2. Done: proofs of the safety properties and refinements of all of them.
3. Left: joining the two grains, that is, a proof that a worker of `Server` whose
   `recv` and `send` are those of `PipeIO` still implements `Channel`; and that
   `RpcService` with the effects of `Playlists` as its API is `Playlists`, which is
   argued in words above.
