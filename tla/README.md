# Verification of tcpip_example

The repository is a set of C programs that echo data over TCP and UDP: one
client logic (plain, in a loop, or run by a pool of threads) and one server
logic run under nine event mechanisms (accept, select, poll, WSAPoll, epoll,
kqueue, /dev/poll, WSAEventSelect, and a blocking UDP loop).  This directory
holds TLA+ models of its parts, TLC configurations that check them on small
instances, and theorems about them that TLAPS checks.

## 1. Inventory

| Part | State | Operations | Hard behaviour | Correct when |
|---|---|---|---|---|
| thread pool, `thread_pool_c.c` | deque of tasks, `pool_signaled`, `stop`, `active_thrd_count`, handles, `ctrl_lock`, `pool_lock` | startup, addtask, waitalltask, waitallthrd, cleanup; `thread_instance` in each worker | threads, one condition variable shared by workers and waitalltask, stop racing with tasks, failing creation | each accepted task runs once, the waits return when and only when they should, nobody sleeps for ever |
| locks and condition variable, same file | owner, sleepers; before Vista a semaphore and `wait_num` | lock, unlock, wait, signal, broadcast | spurious wakeups; permits taken by another waiter | no wakeup is lost |
| `deque.c` | `buf`, `headidx`, `tailidx`, `nnode`, `nsize` | push and pop at both ends, shrink, init, delete | wrap-around, growth and shrinking of a wrapped buffer, failing malloc | it is a sequence |
| `cmap.c` | buckets, chains, `nnodes` | set, get, remove, delete, next, copy, from_pairs, equal | relinking all nodes on resize, failing realloc, calls that stop half-way | it is a partial function |
| `io_context.c` | a cmap from descriptor to context | alloc, get, free | descriptors reused by the kernel, stale entries | a connection finds its own context |
| `io_server.c` | per connection: buffer, `recvbytes`, `sendbytes`, `recvdone`, `sendagain` | `reflect_server_callback` on readiness | partial reads and writes, EWOULDBLOCK, half-close, edge triggers | the bytes come back, in order, all of them |
| `io_client.c`, `client_loop.c`, `client_thread.c` | bytes sent and received | `reflect_client_callback` | blocking receive against a full pipe | ends with "recv ok", the same data |
| event loops `io_*.c` | the set of descriptors and what each waits for | one turn of the loop | stale events, reused descriptors, full tables | every connection is served and no other is touched |
| UDP `server_udp_block.c`, `client_udp.c` | the round and one buffer of each program, the address of the last sender | recvfrom, sendto, close | datagrams lost, duplicated and reordered; nothing in them is compared, no wait has a timeout | an answer goes to its sender; a client is out of step, or waits for ever, only after a fault |
| `io_common.c`, `*_socket_init`, `main` of the servers | none the rest reads | start-up | partial failure | - |

### How the parts interact

- A **client program** (`client_loop`, `client_thread`) calls
  `reflect_client_callback`, once per connection; `client_thread` does so from
  the workers of the **thread pool**, which keeps its tasks in a **deque**.
- A **server program** makes a listener and hands it to one **loop** together
  with `reflect_server_callback`.  The loop asks the kernel what is ready,
  accepts, makes a **context** for the descriptor (`io_context.c`, over
  **cmap**), calls the callback with the context, and reads the callback's
  verdict out of the error number of its last system call and out of
  `sendagain`: `EWOULDBLOCK` keeps the connection, anything else ends it.
- Client and server share nothing but the two directions of a TCP connection.
  A server has one thread; the pool is the only part with several.

### What is hard here

- Two kinds of sleeper, workers and `waitalltask`, on one condition variable
  that `addtask` signals once; a flag that the first worker to find the queue empty
  takes down for all; a stop that has to drain the queue; a startup that fails half-way.
- Partial reads and writes in every split, against full pipes on both sides; the
  end of the data arriving before the data are echoed; readiness that is reported
  by level, by edge, once per filter, or only after it was enabled again.
- Descriptors that the kernel gives out again within a round of events; rounds
  that end early; tables that are full; waits that fail and leave old results.
- Rings that wrap while they grow or shrink, chains relinked by a resize, both
  with an allocator that may refuse.

## 2. Modules

| Module | What it is | Code |
|---|---|---|
| `TaskPool` | abstract: tasks accepted, started in order, finished once; closing drains | the promise of `thread_pool_c.h` |
| `ThreadPool` | the pool with its locks, flags, condition variable and every call | `thread_pool_c.c`, calls of `client_thread.c` |
| `AbstractDeque`, `Deque` | a sequence; the ring buffer | `deque.h`, `deque.c` |
| `AbstractMap`, `HashMap` | a partial function with an iteration; the chained table | `cmap.h`, `cmap.c` |
| `EchoService` | abstract: what is sent comes back | - |
| `Reflect` | one connection: both callbacks, the pipes, what each loop is told and does | `io_server.c`, `io_client.c`, the body of all loops |
| `EventLoop` | one server with all its clients: listener, tables, contexts, descriptors, events of a round | `io_poll.c`, `io_WSAPoll.c`, `io_select.c`, `io_epoll.c`, `io_kqueue.c`, `io_devpoll.c`, `io_WSAEventSelect.c`, `io_context.c` |
| `Udp` | both UDP programs and a network that loses, reorders and duplicates | `server_udp_block.c`, `client_udp.c` |
| `MC...` | instances for TLC | - |
| `...Proofs` | theorems and their proofs | - |

Each concrete module implements its abstract one through `INSTANCE ... WITH`:
`ThreadPool` gives `Pool == INSTANCE TaskPool`, `Deque` an instance of
`AbstractDeque`, `HashMap` of `AbstractMap` and `Reflect` of `EchoService`.
`Reflect` and `EventLoop` divide the server: `Reflect` has every system call of
one connection and shows that each connection makes progress; `EventLoop`
reduces a connection to "ready a few times, ended the last time" and has what
only shows with several.  Names are those of the source.  A definition whose name
ends in `_Bug` is a plausible slip in the definition after it; no specification
uses it, and PROJECT.json names the property that notices it.

### Steps and their grain

- **ThreadPool.**  Acquiring a lock is a step; what the holder does up to the
  release, or to the next wait, is one step, because nobody can see the middle.
  `pc` is the place in the code (the header of the module lists it).  The
  condition variable is either a native one, whose wakeups may be spurious, or the
  one built on a semaphore (`LegacyCV`).  A task is the number of its
  acceptance.  A handle that was never written is a nondeterministic choice: it is
  0 and skipped, or joining it is undefined and nothing follows (`"crashed"`).
- **Deque, HashMap.**  A call is a step: nothing in the repository calls them
  from two threads without a lock.  Allocations may fail in every call; a call
  that sets several keys stops at the first that fails.  A second map, which
  `map_copy` and `map_equal` only read, is an input: any table over `OtherKeys`, in
  any number of buckets and any order of its nodes.
- **Reflect.**  One system call with the code up to the next is a step, and the
  `shutdown` after a `send` is a step of its own; the client's `fcntl`, which only makes its own socket
  blocking or not, is part of the step before it, and a client that ends there is one
  that is killed (`Kill`).  Every
  transfer moves any number of bytes that fits.  Byte `i` of the data is the
  number `i`, so that a lost, repeated or misplaced byte shows.  The kernel side
  (`Signal`, `Latched`, `Reports`, `Freed`) is external and modelled from what the
  loops rely on: levels, edges since the last report, one event per filter, and
  the enabling rules of WSAEventSelect.  A call is interrupted only where it
  blocks; an interrupted `send` on a non-blocking socket, which POSIX systems
  do not produce, is left out.  At any step the client may be killed, the
  connection reset or a call of the server fail; `faulted` remembers it, so that
  properties can say what holds without a fault.  When a loop cannot take a new
  connection it closes it (`Refuse`); only `devpoll_loop`, whose write to /dev/poll
  fails, leaves it open and unwatched (`RegisterFails`), and the properties that
  promise an end name that case.
- **EventLoop.**  One turn of the inner loop, for one event, is a step; clients
  act between any two of them.  The kernel's lowest free descriptor, its
  readiness and the cleared listener of kqueue are external.  WSAEventSelect is
  told the lowest signaled event only, may find input and the end of input in it,
  and then calls the callback until the connection ends; `free_event` shifts the
  array, and what it reads behind a full array is a nondeterministic choice.
- **Udp.**  One system call with the code up to the next is a step.  A datagram is
  its client, its round and the number of its copy.

## 3. Runs

| Run | Instance | Shows |
|---|---|---|
| `pool_safety` | 2 threads, 2 controllers, all calls, 3 tasks, failing pushes, 1 spurious wakeup | types, the active count, each task once, no lost wakeup, some thread can go on while a call is in progress, sound waits, join drains, implements `TaskPool`, no deadlock |
| `pool_live` | 3 threads, 1 controller, 2 tasks, 1 spurious wakeup, fairness | every call returns; implements `TaskPool` with its progress |
| `pool_legacy` | 3 threads, semaphore condition variable, calls of `client_thread`, failing thread creation | no lost wakeup, some thread can go on, every call returns |
| `startup_partial` | failing thread creation | **violation**, finding 1 |
| `deque` | buffers of 2, 4, 8 slots, 2 values | implements a sequence |
| `map` | 3 keys, up to 4 buckets, keys that collide always or in one bucket only, second maps and pairs over 2 keys | nodes in their list; implements a partial function; copies and pairs merge; `map_equal` compares functions |
| `map_realloc_loss` | 3 keys, realloc may fail | **violation**, finding 2 |
| `reflect` | 10 bytes, server buffer and pipes of 3, seven loops, 1 EINTR; kills, resets and failing calls at any step | order; closed only after the echo; no missed event; client and server never wait for each other and the connection is let go, but for the one that `devpoll_loop` could not register; implements `EchoService` with progress |
| `loop_safety` | 4 clients, 3 descriptors, 2 slots, six loops, failing calls, 1 failing wait | own contexts, nobody forgotten, an event finds its context, a round that comes to its end has served all |
| `loop_live` | 3 clients, ready twice each, one of them falling silent; five loops with a listener reported by level, nothing fails but one wait | every connection is watched, by /dev/poll too; every other client is served to its end or turned away |
| `select_overflow` | FD_SETSIZE 5 and descriptors 4, 5 | **violation**, finding 3 |
| `udp` | 2 clients, 2 rounds, 1 duplicate, losses and failing calls | own answers; in step, and waiting only with reason; ends unless a datagram was lost |

**Why these bounds.**  Two workers and two controllers give every pair of
threads that can meet on a lock; a third worker makes the choice of whom a signal
wakes matter; three tasks are one more than the workers.  Spurious wakeups only
add wakeups, so one at any place shows what they can disturb.  In `Reflect` the
data are longer than buffer and pipes can hold together, so that all of them may
be full at once, and the buffer is refilled more than twice; a buffer as long as
the pipe makes full and empty coincide.  In `Deque` a wrapped buffer grows twice
and a shrink halves twice; in `HashMap` two keys collide always and a third only in
the table of one bucket, copies grow and shrink tables over and under the number
of their nodes, and the pairs repeat a key.  In `loop_safety` there are more clients than descriptors and
more descriptors than slots, so that tables fill, accept fails and descriptors
come back with another client.  Bounds are constants named in the modules
(`MaxTasks`, `MaxSpurious`, `MaxIntr`, `MaxSize`, `MaxBuckets`, `OtherKeys`, `MaxPairs`, `Turns`,
`Rounds`, `MaxDups`); guards cap what they count.  In `udp` a second round is what
a late or doubled answer of the first can disturb, and one duplicate is enough to
put a client out of step.

**Symmetry.**  `loop_safety` permutes the clients and `map` the values, which their
modules treat alike; both check invariants and properties of steps only, for
which this is sound.

**Deadlock** is checked except where the system may stop: `reflect` (the
connection ends), `loop_*`, `select_overflow` and `udp` (the server waits when no
client is left), `pool_legacy` and the violation runs (a joined garbage handle ends the
model).  After `threadpool_cleanup` the pool has ended, and `Exited` says so.

**Fairness.**  `ThreadPool`: each worker and each controller inside a call takes
a step if it can go on taking one (the operating system schedules threads), and
the function of a task returns; nothing obliges the program to call.  Acquiring a
lock gets weak fairness only: a lock that is passed by for ever would not be
forced.  `Reflect`: client and server run; which of several enabled
system-call results occurs is never forced.  `EventLoop`: the server runs, and
each connection gets its next input or room, which is what the liveness of
`Reflect` says of it, unless its client is among those that may fall silent
(`Silent`); when WSAEventSelect calls the callback again and again after the end
of input, a client that has ended its data is assumed to read its answer.  No
client is forced to connect.  `Udp`: both programs run and a datagram that is not
lost arrives; no call is forced to fail and no datagram to be lost or doubled.

## 4. Theorems

All proofs hold for every value of the constants under the named assumption of
the module (`ThreadPoolAssumption` and so on), which TLC evaluates on each run.

- **ThreadPoolProofs.**  `TypeCorrect`, `CountExact`, `WaitAllTaskSafe`.  The
  inductive invariant `Inv` says who owns each lock by the place where threads
  stand (`PoolLockInv`, `CtrlLockInv`), that the handles agree with the life of
  the threads, that a stopped pool has no threads unless someone is joining
  them, and that `active_thrd_count` is the number of workers between the two
  updates.  Without the lock part the count is not inductive: two workers could
  update it at once.  `TypeOK` needs the count too: it must not fall below zero.
- `WakeupsKept`: no wakeup is lost with a native condition variable, nor with the
  semaphore one in a program that does not call `waitalltask`, as
  `client_thread` does not.  `NoLostWakeup` is not inductive; `WakeInv` adds that
  the flag is up while a task waits (so a worker that tests the flag does not
  sleep), that a worker leaves only a drained queue, and that a sleeping
  `waitalltask` has either a task to be taken or a worker that will still test
  the count.  With the semaphore a wakeup is a permit that somebody else may take:
  `SeenInv` keeps the part that does not depend on who wakes, and `LegacyInv` says that
  only workers sleep, each with its place in `wait_num`.  The assumption is exact:
  with `waitalltask` TLC shows the wakeup lost (section 5).
- `NeverStuck`, under the same assumption: while a call is in progress some thread
  can go on.  The owner of a lock never sleeps with it unless it waits to join
  (`CtrlLockInv`), a thread that joins waits only for workers that are awake
  (`JoinAwake`), and a sleeping `waitalltask` has a worker to wake it.
- **TaskPoolProofs.**  `RunsOnce`, `StopDrains`, `Implements`.  `PlaceInv` gives every
  accepted task its one place: the queue holds the last accepted tasks in order,
  each task before them is in the hands of one worker or done once.  `EndInv` says
  what a cleanup leaves, and `DrainInv` that a worker leaves only a drained queue,
  so that joined threads mean finished tasks.  The last two assume that threads can be
  created (`"create"` not in `MayFail`): finding 1 shows why.
- **DequeProofs.**  `TypeCorrect` and `Implements`: the ring buffer implements the
  sequence, growing, shrinking, wrapping and failing allocations included.  One
  lemma per operation says that the result is valid and what its contents are.
- **ReflectProofs.**  `TypeCorrect`; `InOrder`: the bytes on the way (in the pipe back,
  unsent in the buffer, in the pipe to the server) continue each other, which
  `InFlight` states and which carries the order through every split and fault;
  `NeverCutShort`: without faults the server neither resets nor lets go before
  all is on its way back, from `Course`, which ties `recvdone`, the ends of the
  pipes and the server's place together; `Echoes`: the pair implements
  `EchoService` but for liveness.
- **ReflectWakeProofs.**  `NeverAsleep`: in the loop the server waits only for what
  it cannot do yet, and it is told when it can.  `WaitInv` says why it waits,
  `AskInv` what each loop asks the kernel for at each place, and `EdgeInv` that a
  loop that is told of changes only has either been told or has a change to come.
  `NeverBothWait`: client and server never wait for each other, whatever fails, except
  over a connection that `devpoll_loop` could not register (io_devpoll.c:62-65).  The
  client waits only in its recv.  `HandInv`: when nothing is on its way in either
  direction and its data have not ended, the server is about to send.  `EndInv`:
  the server has let go of the connection only after its end of the data, and the
  client has not got all yet.  So a waiting client leaves input that the server
  waits for or has been told of (`WaitInv`, `AskInv`), or output that has room.
- **EventLoopProofs.**  `TypeCorrect`, `ContextsOwned`, `NoneForgotten`: with the
  kernel's choice of descriptors, any reuse, any failing call and any of six
  loops, a connection has exactly one descriptor and the context made for it; the
  kernel is asked about it, with /dev/poll only if none of the writes to it fails; and
  in poll and select exactly one entry up to `maxi` has it.  The three are inductive together: a free slot
  or descriptor is free of the other tables only because of the other two.
  Taking an entry out of the array of events is the step with most to show
  (`TakenOut`).  `EventsFindContext`: the callback is never called for a descriptor
  without a context, also with the events of a wait that failed.  `RoundsWhole`: a
  round of poll or select that comes to its end has served all it was told of; rounds
  whose accept fails, or that turn a client away, stop before their scan and serve
  nobody, and the theorem leaves them out.  `RoundInv` says that `ready_num` is never less than the
  number of events before the scan, from `AllWatched` (no two entries are the
  same, so a scan stops no more often than events were reported) and from the
  count the wait returned.
- **HashMapProofs.**  `NodesPlaced`, `EqualCompares`, `CopyMerges`, `TableImplements`.  A place
  is a bucket and an index of its list; what a call does is said of places, never
  of whole lists.  `Ranks` orders the places of a finite set, so that the list a
  resize builds has every node once (`ListedFacts`, `ResizeFacts`), and `HeldFacts`
  says that a key is found where it has its place and nowhere else.  With one
  lemma per operation, `Good` (nodes in their lists, a key in one place, `nnodes`
  the number of keys) is inductive while nothing is broken (`intact`).
  `TableImplements` adds where an iteration stands: it goes on only through calls
  that leave the keys where they are (`SamePlaces`; a resize to the size the
  table has is one, `ResizeSame`), and the next node is the first one behind it.
  It assumes that realloc fails only in a table of one node or none: finding 2
  shows why.  A sequence of `map_set_` calls is a recursive function, and what
  it leads to is proved by taking the least number of calls that goes wrong.
- `TypeCorrect` of `HashMap` needs no assumption about failures: the number of buckets is
  zero or a power of two (`Sized`) also in a table whose lists a refused resize
  broke.  A power of two is a number without an odd divisor but one, which doubling
  keeps (`Doubled`), so no induction over the exponent is needed.
- `RefusalCost` says what finding 2 costs, for every table and whatever realloc refuses:
  after the failed resize a bucket leads to its old first node and behind it to nodes of
  other buckets only (`RelinkedLists`), so that the keys that came first in their lists
  are found, with their values, and no other key is.
- **UdpProofs.**  `TypeCorrect`; `AnswersOwn`: what is on its way to a client is the
  client's own (`Paired`); `RoundsMatch`: without duplicates and failed receives a
  client and its datagrams are in the same round (`Lockstep`); `WaitJustified`: a
  waiting client has something on its way unless it lost something.

**Only model-checked.**  Everything that needs fairness (`CallsReturn`,
`ImplementsTaskPoolFairly`, `ImplementsEcho`, `ServerReleases`,
`ClientsServed`, `Finishes`), which TLAPS does not reach.  Every invariant and every
action property of a passing run is a theorem.

## 5. Findings

1. `startup_partial`: when a thread cannot be created, `threadpool_startup` leaves
   its loop (thread_pool_c.c:413) and still returns 1; the clean-up after it is
   never reached, and `threadpool_waitallthrd` joins handles nobody wrote.
2. `map_realloc_loss`: `map_resize` relinks all nodes before it asks for memory
   (cmap.c:89); a refused `map_set` loses older entries.
   `RefusalCost` proves which: all that were not first in their lists.
3. `select_overflow`: `select_loop` bounds the index in its table and not the
   descriptor (io_select.c:59), and puts a descriptor of FD_SETSIZE or more into
   the set.

Behaviour TLC shows on changed instances, against which no line of the repository
speaks (see the notes under `hazards`): a connection that `devpoll_loop` cannot
register stays open, and its client waits for ever; with the semaphore condition variable
and `waitalltask` a wakeup can be lost (and, as `WakeupsKept` proves, only with both); poll and select without a free
descriptor serve nobody; kqueue's listener, cleared when reported, can leave a
second client waiting for a third.

## 6. Not modelled

Creating and connecting sockets, parsing of arguments, error text, `set_rlimit`:
straight sequences before anything else runs.  The timed wait of the pool,
which no caller uses, and tasks that call the pool themselves, which none does (a
task that calls `addtask` while another thread waits with `ctrl_lock` held would
block for ever; see the hazards).  `accept_loop` is modelled for one connection;
that it leaves every descriptor open is listed as a hazard, and no run counts
them.  A map that cannot allocate the context of a connection: `EventLoop`'s
registry is a function and does not fail.

## 7. Plan

Done, in this order: `TaskPool`/`ThreadPool` and proofs (the only concurrent
part), `Deque` and proofs, `EchoService`/`Reflect` and proofs, `HashMap` with two
maps and proofs, `EventLoop` with six loops and proofs, `Udp` and proofs, the refinement of
the pool, the wakeups of `Reflect`, the rounds of `EventLoop`, freedom from deadlock
of the pool and of a connection, and the cost of finding 2.

Left, in this order:

1. `ThreadPool`: a task that calls `addtask` while another thread waits with
   `ctrl_lock` held; every proof about the pool has new cases with it.
2. `EventLoop`: `accept_loop` with the descriptors it keeps, and contexts that cannot
   be allocated.
3. Proofs: that a round of `EventLoop` gives an event only to the connection it was
   reported for, as a property of steps; that `Udp` is stuck only where `Owed` says so.
