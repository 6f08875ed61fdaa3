# ShflLock in TLA+

A TLA+ development kept beside the `shfllock` repository: models of the
ShflLock algorithms, of the other locks of the library and of the library
around them, the TLC runs that check them on small instances, and TLAPS proofs
for instances of any size.  Paths below are relative to `src/`.

## 1. The system

### Inventory

| Part | State it keeps | Operations | What is hard, and what makes it correct |
| --- | --- | --- | --- |
| **AQS**, non-blocking ShflLock (`ulocks/src/aqs.c`) | lock word: `locked`, `no_stealing`; queue `tail`; per waiter a node `next`, `lstatus`, `sleader`, `wcount`, `nid`, `last_visited` | `lock` (fast path, queue, shuffling, hand-over), `trylock`, `unlock`, `shuffle_waiters` | A waiter reorders the linked list without a lock while others enqueue and leave: mutual exclusion against stealers, no waiter lost, one shuffler at a time, no access to a node whose owner has left, progress |
| **AQS-WO-NODE** (`aqswonode.c`) | the same, the node on the stack | the same | a stale pointer is a pointer into a dead stack frame |
| **AQM**, blocking ShflLock (`aqm.c`), **AQM-WO-NODE** (`aqmwonode.c`) | as AQS, with `pstate`, the futex word, and four values of `lstatus` | as AQS, plus parking, unparking by the shuffler, waking by the predecessor | lost wake-ups between the store that announces sleeping and the system call; wakers that touch a node after its owner left |
| **Condition variables** (`COND_VAR` code, the same in every lock file) | a real `pthread_mutex_t` inside the optimised lock | `lock`, `trylock`, `unlock`, `cond_wait`, `cond_timedwait`, `cond_signal`, `cond_broadcast` | two locks released in two steps, yet `cond_wait` must be atomic; woken threads take the inner lock without the outer one |
| **Waiting policies** (`waiting_policy.h`) | one word per waiter | spin, spin then park, park; wake | the store and the futex call of a waker are two steps |
| **Queue locks**: MCS, MCS-EPFL, MCS-TP, CLH, CLH-EPFL, CNA, Malthusian | queue tail, nodes, secondary or passive lists | lock, trylock, unlock | enqueue against dequeue; nodes that change hands; passing over waiters that timed out; moving waiters between lists |
| **Ticket locks**: Ticket, Ticket-EPFL, Partitioned, array lock | counters, grant arrays | lock, trylock, unlock | wrap-around, slot reuse, trylock on two counters |
| **Two-level locks**: C-BO-MCS, C-PTL-TKT, C-TKT-TKT, HTLOCK, HMCS, HYSHMCS | a global lock, local locks, a batch count | lock, trylock, unlock | passing the global lock along with the local one, bounded batches, a trylock that gets one of the two |
| **Reader-writer locks**: TTAS-RW, HMCS-RW, the kernel's `rw_semaphore` | reader counts, writer flag or queue | read and write lock, trylock, unlock, downgrade | readers that announce themselves against writers that look for readers |
| **Simple locks**: spinlock, TTAS (both with EPFL versions), backoff, MUTEXEE | one word | lock, trylock, unlock | MUTEXEE's futex hand-over |
| **Interposition** (`interpose.c`) | hash table from addresses to locks, thread identifiers | the pthread entry points, lazy creation of a lock | two threads creating the lock of one mutex; destroy and reuse; which calls are intercepted at all |
| **Kernel ShflLocks** (`klocks/shfllocks.patch`) | qspinlock word and per-CPU nodes; rwsem count, writer byte and a blocking shuffled mutex | `queued_spin_lock_slowpath`, `down_read` ... `downgrade_write` | as AQS and AQM; and the reader-writer race |
| Pthread pass-through, empty, concurrency | none of their own | forwarding, counting | not algorithms |

The application calls the interposition library, which finds or creates the
optimised lock of a mutex and calls the algorithm that was compiled in; with
`COND_VAR` the algorithm's wrapper takes a real pthread mutex as well.  Threads
meet in shared memory only: the lock word, the queue's tail and the nodes.

### The ShflLock algorithm

A thread takes the lock by changing one word from 0 to 1 (fast path).  If that
fails it appends its node to the queue.  The front of the queue, *the very next
waiter*, competes for the word with newly arriving threads (stealing); the
others wait to become the front.  One waiter, the *shuffle leader*, walks the
list from its own node on and moves the waiters of its own NUMA socket up
behind it, then appoints the next leader.  Three fields keep the leaders apart:
`sleader` says who is appointed, `wcount` tells the very next waiter whether
somebody has batched it already, `last_visited` (AQS only) says how far the
last leader got.

## 2. The modules

| Module | Models |
| --- | --- |
| `Aqs` | `aqs.c` and `aqswonode.c`, one memory access per action |
| `Aqm` | `aqm.c` and `aqmwonode.c`, likewise, with the futex |
| `NodeList` | operators that read the list off the `next` fields, shared by the two |
| `ShflQueue` | what both promise: an owner and a queue that may be regrouped by socket |
| `CondVar` | the condition-variable wrapper over a lock that excludes |
| `Monitor` | what the wrapper promises: a mutex and an atomic wait |
| `LockApi` | what the other locks share: memory, program counters, and the condition-variable code |
| `LockMapping` | which program points of those locks count as having the lock, and so the mapping to `CondVar` |
| `Waiting` | `waiting_policy.h` |
| `Mcs`, `Clh`, `TicketLocks`, `ArrayLock`, `Partitioned`, `TasLocks`, `Malthusian`, `Cna`, `McsTp`, `Mutexee` | the locks with one level; `Mcs`, `Clh`, `TicketLocks` and `TasLocks` hold the EPFL versions too |
| `FlatLocks` | those ten over one memory: which algorithm the library was built with is chosen at the start (`algo`) |
| `Cohort` (C-BO-MCS, C-TKT-TKT, C-PTL-TKT), `HtLock`, `Hmcs`, `HysHmcs` | the locks with two levels |
| `NumaLocks` | those four, as `FlatLocks` |
| `TtasRw`, `HmcsRw` (over `Hmcs`), `Rwsem` | the reader-writer locks |
| `RwLock` | what they promise |
| `RwLocks` | those three, as `FlatLocks` |
| `Interpose` | `interpose.c` over locks with one owner, or with readers |
| `MC*` | instances for TLC |
| `AqsProof`, `AqmProof`, `CondVarProof`, `InterposeProof` | theorems about the module each is named after; at the end of `AqsProof` those about `ShflQueue` |
| `LockApiProof` | lemmas: what one step of a thread over `LockApi` means for `CondVar`, and the two levels of queues of `Hmcs` |
| `FlatLocksProof` | the locks of `FlatLocks`, one invariant each, and the theorems about all of them |
| `NumaLocksProof` | the locks of `NumaLocks`, likewise |
| `RwLocksProof` | the reader-writer locks implement `RwLock` |

**Aqs.**  A node belongs to a thread, so nodes are named by threads.  The
variables are the fields of `aqs_mutex_t` and `aqs_node_t`, the program counter
`pc`, the local `prev` of `__aqs_mutex_lock` (`pred`) and the locals of
`shuffle_waiters` (`sh`).  Each action stands for the code between two accesses
to memory that somebody else may be writing; `map` in `PROJECT.json` names the
lines.  Not interleaved: writes to a node nobody can see yet (`SlowPath`), the
entry of `shuffle_waiters` (`StartShuffle`: `wcount`, `sleader` and
`last_visited` of the leader itself, which no other leader writes while
`SingleShuffler` holds, except for the late store of `last_visited` that
`SetLastVisited` makes a step of its own), and a mark of `wcount` together with
the read before it.  `keep_lock_local()`, a pseudo-random draw, is a free
choice.  In `Aqs` a failing `cmpxchg` of `locked` leaves everything as it was and is
not a step.  A node that has left the queue is reset at once: its contents are
dead, which is what `NodesAlive` justifies.  The compile-time variants
`USE_COUNTER`, `BLOCKING_FAIRNESS`, `VRUNTIME_FAIRNESS` and
`WAITER_CORRECTNESS`, all off, are left out, and so is `destroy`, which only
frees the lock.

**Aqm.**  As `Aqs`; `Spin` ends after any number of rounds in place of
`SPINNING_THRESHOLD`; `Park`, `Sleep`, `FutexWait`, `Awake` and `SetPstate`,
`FutexWake` are `park_waiter` and the two waiting-policy functions, with the
futex as the kernel defines it (compare and sleep in one step, `EAGAIN`,
`EINTR`).  `enable_stealing` sets `no_stealing` and `disable_stealing` clears
it, the other way round than their names say; the model does what the code does.
`aqm_mutex_trylock` is `FastPath`: it compares the whole lock word, whose other
bytes nobody writes, so it fails on a free lock whose `no_stealing` is set.

**ShflQueue.**  `owner`, `queue`, and the socket of each waiter.  `Regroup`
moves a waiter forward over waiters of other sockets, never to the front.  In
`Aqs` and `Aqm` the queue is the list as seen once the stores in progress are
made (`PendingStores`: a link after a swap of the tail, the last two of the
three stores that move a node); the front waiter leaves it with its successful
`cmpxchg`.

**CondVar** takes the optimised lock as `opt`, held by one thread at a time and
given to no one in particular, and the real pthread primitives as external.
In `Monitor` a thread owns the mutex from the moment it has both locks until it
releases the real one.  The wrapper releases the real mutex first in `unlock`;
the pseudo-code of `ulocks/README.md` shows the other order.

**LockApi and the algorithms over it.**  `lk` is the lock's struct, `nd` the
nodes or contexts, `loc` the locals of calls in progress.  An algorithm takes a
thread from `"lock"` to `"posix"` and from `"unlock"` to `After(t)`; taking the
real mutex, the busy waiting of `trylock`, and `cond_timedwait` are `LockApi`'s.
`AbsPc`, the holder and `inWait` give the mapping under which each algorithm
must implement `CondVar` (`ImplementsCondVar`): a thread holds the optimised
lock from the step at which its `__mutex_lock` cannot fail any more to the store
in `__mutex_unlock` that lets somebody else in.  By `CondVarProof`, `CondVar`
implements `Monitor`, so the condition variables are right over every one of
them.

As in `Aqs`, a step is one access to contended memory; a failing read of a spin
loop is no step.  Random draws (`keep_lock_local`, Malthusian's promotion),
how long a thread spins or backs off, and MCS-TP's clock (whether patience has
ended and whether a published time is fresh) are free choices.

- *Waiting*: the waker's store and its futex call are separate steps, so the
  call may reach a node that is already used again.
- *Clh*: a thread's node, left in the queue, becomes its successor's.  CLH and
  HTLOCK have no trylock (`assert(0)`), and no call of it is made.
- *TicketLocks*, *Cohort*: counters wrap around at `TicketMod` in place of
  2^32; the compare-and-swap of `trylock` covers both counters.
- *Partitioned*, C-PTL-TKT: the tickets are signed, negative from `SignBit` on;
  nobody calls after `TicketCap` (see "Other disagreements").
- *ArrayLock*: only the first flag is written at creation.  The others are as
  allocated: zero, or with `Recycled` anything.
- *McsTp*: a waiter gives up at most `Patience` times per call, so that "a
  waiter is served" can be asked.  The instance `mcstp_short` has a limit of one
  scanned node in place of `MAX_THREADS_MCS_TP`, which brings the treadmill case
  within reach of three threads.
- *Cohort*, *HtLock*, *Hmcs*, *HysHmcs*: a thread reads its NUMA node at each
  call; `Migrants` may find themselves elsewhere than before.
- *HmcsRw*: readers count themselves per node and look again for a writer;
  writers queue through `Hmcs` and then scan the nodes.
- *Rwsem*: `wait_lock`, a blocking ShflLock, is taken for what `Aqm` shows it to
  be, a lock with one owner.

Two variables are history: `order` in `FlatLocks`, the threads in the order in
which they queued or drew tickets, and `batch` in `NumaLocks`, the acquisitions
since the global lock last changed hands.

**Interpose.**  The hash table CLHT is external: an atomic map whose put fails
if the key is there.  `build` says whether the library was built with a
reader-writer lock.  A lock must not be in use when it is initialised or
destroyed; this is a guard of `Call`, as POSIX demands of programs.

All models assume sequentially consistent memory.  The code runs on x86, uses
locked instructions for every contended read-modify-write, and reads and writes
the other shared fields as volatile; store buffering between plain stores of
one thread and its later reads is not modelled.

## 3. What TLC checks

| Run | Instance | Shows |
| --- | --- | --- |
| `aqs_safety` | 4 threads, 3 of one socket, all may trylock | `MutualExclusion`; `QueueIntact`: from the one very next waiter the list runs through every queued thread to the tail; `SingleShuffler`; `NodesAlive`: a leader's pointers, `last_visited` among them, are to nodes queued at or behind it; `FastPathRestored`: once the queue is empty and `enable_stealing` done, the fast path is open; `Refinement` of `ShflQueue`; `SameSocketFifo` |
| `aqs_live` | 3 threads, any socket at each call | `Progress`: waiting is followed by holding; `ShuffleTerminates` |
| `aqs_starvation` | 2 threads | *violated*: `HeadNotStarved` |
| `aqm_safety` | 4 threads, 2 per socket | the invariants of AQS, `NoLostWakeup`, and `Refinement` |
| `aqm_live` | 3 threads, any socket at each call | `Progress`, through sleep and wake-up |
| `condvar` | 4 threads | `LocksNested`, `MonitorImplemented`, `LockReturns` |
| `locks_flat` | 3 threads, 21 builds | `ImplementsCondVar`; `FreeWhenUnused`: once nobody uses the lock, nothing is queued, passive or counted; `FifoOrder` and `LockReturns` for the queue and ticket locks: in the order of arrival, and everyone; `WaitersServed` for all |
| `mcstp_treadmill` | 3 threads, `mcstp_short` | *violated*: `OvertakenRestarts` |
| `locks_numa` | 3 threads, 2 nodes, 6 builds | `ImplementsCondVar`; `WaitersServed`; `BatchBound`: at most the configured number of local passes |
| `rwlocks` | 3 threads, 2 nodes, 4 locks | `ImplementsRwLock`; `RwFreeWhenUnused`; `RwWaitersServed` |
| `interpose` | 2 threads at a time, 3 ever, a mutex and a rwlock | `LockExclusion`, also for threads that use a lock for the first time together; `ImplStable`: what a call has found stays where it is and allocated; `ContextsDistinct`: threads never share a context |
| `interpose_trylock` | the same | *violated*: `RwExclusion` |

**Bounds.**  Threads call the locks for ever; no run is bounded in time except
where tickets end.  The smallest queue in which a ShflLock leader moves a node
is leader, foreign waiter, local waiter, and a tail (which is never moved): four
threads.  With three of one socket (`Aqs`) a batch has a member that is
neither its leader nor its end; with two on each (`Aqm`) leaders of both sockets
move nodes.  For the other locks three threads give a holder, its
successor, and one that arrives meanwhile, and every step of every algorithm is
taken; one of them also waits on the condition variable (`CondThreads`) and
those in `Migrants` change nodes.  `TicketMod` = 4 is the least that tells
three threads' tickets apart and wraps around; `Slots` = 3, a slot per thread;
`SignBit` = 8 with `TicketCap` = 7 is every ticket before the sign bit, and 5 in
`locks_numa` lets every grant of a top lock be used more than once; `BATCH_COUNT` = 1, `RELEASE_THRESHOLD` = 2, `NB_TICKETS_LOCAL` = 2
allow a pass and end a batch among three threads; `MAX_RW` = 3, no more readers
than threads; `Impls`, two for the locks and one for each thread that is about
to create one; `MAX_THREADS` = 3, one thread may end and another start.
Symmetry is used in the safety runs of `Aqs` and `Aqm` only, among threads of
the same socket.  In the runs of the other locks deadlock is not checked: the
threads may all wait for a signal, or tickets or thread identifiers be used up
(the process exits).  That calls return is what the liveness properties say.

**Fairness.**  `WF` of the steps of each thread inside `lock`, inside
`shuffle_waiters`, and of `unlock`: a thread that is running keeps being
scheduled and critical sections end.  Threads need not call anything, need not
be woken from a futex or from the real wait, and signals need not arrive.
`CondVar` assumes that calls are carried on, but not that critical sections
end.

### Findings

*Stealing is not always switched off* (`aqs_starvation`).
The comment in `__aqs_mutex_lock` says that stealing is
switched off *to ensure starvation freedom*.  `enable_stealing`, by the owner
that empties the queue, is a separate step after its `cmpxchg` of the tail; the
next thread to enqueue may call `disable_stealing` in between and have its bit
cleared.  Stealing is then open while that thread is the very next waiter, and
`aqs_starvation` shows a fair behaviour in which a thief takes the lock
repeatedly and the waiter never does.  Nothing in `lock` closes the fast path
again until the queue has drained.

*MCS-TP forgets the last node it passes over* (`mcstp_treadmill`).  The comment
at the head of `mcstp.c` says that an overtaken waiter will notice and start
again.  It notices by its status `FAILED`.  An unlock that scans more than
`MAX_THREADS_MCS_TP` nodes stops marking them, and in the end marks those from
`last` up to, but not including, `curr`: the owner of `curr` takes back a place
that is in no queue.

*Trylocks of reader-writer locks bypass the library* (`interpose_trylock`).
The builds without a reader-writer lock define `pthread_rwlock_rdtrylock` and
`pthread_rwlock_wrtrylock`, names nobody calls; `interpose.map` exports the
right ones.  `tryrdlock` and `trywrlock` of a program go to the real lock, which
no other function of the library locks.

### Other disagreements, outside the bounds of the runs

- The array lock relies on zeroed memory: with `Recycled = TRUE`, a new lock in
  the memory of a destroyed one, `ImplementsCondVar` is violated.
- The partitioned lock computes its next ticket in a signed `int`; past 2^31 the
  index into the grants is negative.  With `SignBit = 4` and a `TicketCap` above 7
  `LockReturns` is violated.
- HTLOCK's local tickets can be drawn twice.  The thread that draws local ticket -1
  waits for `grant == NB_TICKETS_LOCAL` (`htlockepfl.c:144`) before it makes the tickets
  new.  That is the state after a cohort has finished, but also the state until
  the first owner of the next one has unlocked.  If all local tickets are drawn before
  that and one thread more arrives, it makes the tickets new while they are waited
  for, the next threads draw them again, and two of them get the lock.  It takes more
  than `NB_TICKETS_LOCAL + 1` threads on a node, in the code 129.  `locks_numa` has two
  local tickets and three threads, as many as are safe (and `NumaLocksProof` proves
  that they are); with `NB_TICKETS_LOCAL = 1` both `BatchBound` and
  `ImplementsCondVar` are violated.
- `lock_data` of TTAS-RW is 8 bits wide: its test for too many readers is never
  true, and the 256th reader carries into the writer's byte.  `MAX_RW` excludes
  it.
- `hmcs.h` describes `RELEASE_THRESHOLD`; `hmcs.c` has replaced it by a random
  choice, so `BatchBound` does not speak of HMCS.
- `enable_stealing` and `disable_stealing` of `aqm.c` do the opposite of their
  names; consistently so, and `Progress` holds.

## 4. What is proved

| Theorem | Statement |
| --- | --- |
| `AqsProof!TypeCorrect`, `MutexCorrect` | `Spec => []TypeOK`, `Spec => []MutualExclusion` |
| `AqsProof!QueueInvariant` | `Spec => [](TypeOK /\ QueueInv)`: the queued threads form a queue `q` with `QInv(q)` |
| `AqsProof!QueueIntactCorrect`, `SingleShufflerCorrect`, `NodesAliveCorrect`, `FastPathRestoredCorrect` | `Spec => []P` for each of these invariants of `Aqs` |
| `AqsProof!RefinementCorrect` | `Spec => Refinement`: `Aqs` implements `ShflQueue` |
| `AqsProof!SameSocketFifoCorrect` | `Spec => SameSocketFifo`: the socket order, for the lock itself |
| `AqsProof!SocketFifoCorrect` | `Abs!Spec => Abs!SocketFifo`: in the abstract queue waiters of a socket are never reordered |
| `AqsProof!FrontKeptCorrect` | `Abs!Spec => Abs!FrontKept`: there the front waiter leaves only with the lock |
| `AqmProof!AqmTypeCorrect`, `AqmMutexCorrect` | `Spec => []TypeOK`, `Spec => []MutualExclusion` for the blocking lock |
| `AqmProof!QueueInvariant` | `Spec => [](TypeOK /\ MutualExclusion /\ QueueInv /\ WakeInv)` |
| `AqmProof!AqmQueueIntactCorrect`, `AqmSingleShufflerCorrect`, `AqmNodesAliveCorrect`, `AqmNoLostWakeupCorrect` | `Spec => []P` for each of these invariants of `Aqm` |
| `AqmProof!AqmRefinementCorrect` | `Spec => Refinement`: `Aqm` implements `ShflQueue` |
| `CondVarProof!LocksNestedCorrect` | `Spec => []LocksNested` |
| `CondVarProof!MonitorCorrect` | `Spec => MonitorImplemented` |
| `InterposeProof!InterposeLockExclusion`, `InterposeImplStable`, `InterposeContextsDistinct` | `Spec => []P` for these three of `Interpose` |
| `RwLocksProof!RwLocksCorrect` | `FairSpec => ImplementsRwLock`: TTAS-RW, RWSEM and HMCS-RW, the last as a rwlock and as a mutex, implement `RwLock` |
| `RwLocksProof!RwFreeCorrect` | `FairSpec => []RwFreeWhenUnused` |
| `FlatLocksProof!FlatLocksCorrect` | `FairSpec /\ Covered => ImplementsCondVar`: every lock of `FlatLocks` but CNA and MCS-TP implements the lock under the condition variables |
| `FlatLocksProof!FlatLocksFifo` | `FairSpec /\ Covered => FifoOrder` |
| `FlatLocksProof!FlatLocksFree` | `FairSpec /\ Covered => []FreeWhenUnused` |
| `NumaLocksProof!NumaLocksCorrect` | `FairSpec /\ Covered => ImplementsCondVar`: HMCS and HTLOCK implement the lock under the condition variables |
| `NumaLocksProof!NumaLocksBatch` | `FairSpec /\ Covered => []BatchBound` |

All for any number of threads, sockets and locks.  The assumptions are those the
modules name: `NULL` is no thread; `Homes` and `TryThreads` are over the threads
and sockets; in `Interpose` also that there are more `Impls` than the table and the
calls in progress can hold, which is memory not running out, and, so that these can
be counted, that the threads and the locks are finitely many.  In `RwLocks` the
threads and the NUMA nodes are finitely many, since readers are counted, and no
thread is a node; and there are no more readers than `MAX_RW`, the limit of the
reader count in the lock word.  In `NumaLocks` the threads are finitely many, the
nodes are numbered from 0, and there are more tickets than threads.

*Types and exclusion* (`AqsProof`, `AqmProof`).  `TypeOK` is not inductive: `shuffle_waiters` follows local
pointers, and `[next EXCEPT ![p] = ...]` has the right type only where `p` is
not `NULL`.  `TypeInv` adds `FrameOK`, which says at which step which of `prev`,
`last`, `curr`, `nxt`, `leader` is set.  Mutual exclusion is inductive together
with the type invariant: a holder can only enter where `locked` is 0
(`HolderEnters`), and no other step changes the set of holders or the word
(`HoldersKept`).

*The queue of Aqs* (`AqsProof`).  The heart of the development.  `QInv(q)` says of a sequence `q`
of threads that it is the waiting queue, whatever stores are under way:

- `QueueOf`, `Fresh`, `HeadAt`, `LinkAt`: `q` lists the queued threads, each once,
  up to `tail`; the one very next waiter is its front; neighbours are linked,
  except in front of a thread that has swapped the tail and not yet stored its
  link, and where a waiter is being moved.
- `TokenAt`, `LedAt`, `Started`: one thread at most shuffles or is appointed to
  (`Token`), and everybody ahead of it has been batched (`wcount` 1).  This is why
  a new very next waiter, which starts by itself if nobody has batched it, cannot
  meet an appointed leader behind it.  That the right to shuffle moves
  backwards only is not visible in one state, but for the marks it leaves (`Led`).
- `MarkAt`: a position stored in `last_visited` is queued at or behind its thread,
  and while that thread can still start there, nobody in between is of its
  socket.  Without the second half a resumed scan could pass over one of them
  and `SameSocketFifo` would fail; the code stores no socket with the
  position, so it is the order of the stores of two leaders that carries it.
- `FrameAt`, `LoopAt`, `MoveAt`, `AppointAt`: where on `q` the locals of
  `shuffle_waiters` point, at each of its program points; in a move `q` has the
  waiter at its new place from the first of the three stores on.

A step gives a new `q`: the thread appended (`SwapTail`), the front removed
(`Notify`, `CasTail`), a waiter moved forward (`Unlink`), or the same one.  Lemmas
on what a removal, an append and a move keep of each conjunct (`Shift`, `MovedTo`)
carry the threads that do not take the step; the rest is one lemma for each
action.

*The properties of Aqs* (`AqsProof`).  They are stated with `QueueOrder`, the list read
off the `next` fields.  A list that a successor function strings together is
determined by its front and its length (`SameStart`, by the least position at
which two would differ), so `QueueOrder` is the `q` of the invariant (`OrderIs`),
and the four invariants follow.  For the refinement, the waiting queue is `q`, or
its tail once the front thread holds the lock (`WaitIs`), and each step is a
`Steal`, `Note`, `Enqueue`, `Regroup`, `Grant`, `Forget`, `Release` or a stutter.
`Regroup` needs that nobody moved over is of the mover's socket, which is what
`Clean` says in `LoopAt`.  `SameSocketFifo` follows with the theorem about `ShflQueue`.

*The queue of Aqm* (`AqmProof`).  `QInv(q)` is that of `AqsProof` without `LedAt` and `MarkAt`:
the blocking lock stores no position for the next leader, and a leader always
starts at its own node.  `TokenAt` alone now says that everybody ahead of the
token has been batched.  What is new is `WakeInv`, about three fields
that are written in different orders by sleepers and wakers:

- `ParkAt`: a node's status is `PARKED` only while its thread is about to sleep or
  asleep, and then its futex word is 0; a thread that goes on has it at 1.
- `AnswerAt`: a sleeper whose status is no longer `PARKED` has, while its word is 0,
  a thread that will store it, and, asleep with the word 1, a thread that will
  make the system call.  `NoLostWakeup` is its consequence.
- `WakerAt`: the thread that a waker is about to wake is queued and not `PARKED`, and
  nobody else is about to wake it.  Hence the shuffler that unparks a waiter and the
  predecessor that hands over to it cannot both store, and the store does not
  reach a node whose owner has left.

The two halves need each other: that the front thread, about to leave, is
nobody's wakee (`NotWoken`) follows from its place on the queue and
from mutual exclusion.  `NodesAlive` takes its first half from `FrameAt`
and its second from `WakerAt`.  In the refinement parking and waking stutter,
and so does the failing `cmpxchg` of `Acquire`.

*The abstract queue* (end of `AqsProof`).  `AbsQueueInv`: the queue is a sequence of distinct threads.
`MoveForward` is described by the index each element comes from (`Source`), an
injection that reverses the order of a pair only when the moved element is one
of them, and then the other is of another socket.

*CondVarProof.*  The invariant is `TypeOK`, `LocksNested`, and `WaitersKnown`,
which ties `inWait` to the program counters.  Every step of the wrapper is
matched with a step of `Monitor` or a stutter, one case per action; that nobody
owns the abstract mutex while the real one is free (`OwnerByPc`) carries it.

*InterposeProof.*  `LockExclusion` is far from inductive.  `IInv` adds: what a call
knows at each program point (`CallInv`); that initialising and destroying is
done alone (`AloneInv`); that the table is injective into the allocated locks and that
a lock somebody is about to put into it is nobody else's (`TableInv`), so that the
loser of the race to create frees its own; that every allocated lock is in the table
or in such a call (`AllocInv`), which is what leaves one free to create; and that who
has a mutex owns the one the table leads to (`HeldInv`).

*LockApiProof, FlatLocksProof.*  A step of a thread is `Wrapped`, one of the
condition-variable code, or `Allowed`: it moves the thread between the program
points that `LockMapping` calls waiting, holding and released, and into
the ones that hold only if nobody else is there.  A step of either kind is a
step of `CondVar` or a stutter, whatever the algorithm (`AllowedStep`,
`WrappedStep`).  What is left is one invariant per algorithm that makes two
holders impossible and every step `Allowed`:
test-and-set and MUTEXEE, the word is set exactly while somebody holds; tickets,
the threads between taking a ticket and unlock are a sequence whose `i`-th thread
has ticket `grant + i - 1`, modulo the width of the counter; array, the same
and one flag set, the front's; partitioned, as tickets, with each of
the two grants that of the last ticket of its slot served, or older; CLH, each
waiter's predecessor node is that of the thread before it, and exactly one node is
free to be taken next; MCS, a chain in which only the last link of
a newcomer may be missing; Malthusian, that chain and a second one of culled
threads, disjoint from it, of which only the owner touches the ends.
`FifoOrder` adds to each that `order`, which records arrivals and loses its front
at a grant, agrees with that sequence; `FreeWhenUnused` follows because
the sequence is empty when nobody is in a call.

`Covered` names what the theorems about `FlatLocks` leave out, so that they do
not say less than they seem to.  It excludes CNA and MCS-TP, whose
queues are reordered or left by threads that time out: no inductive invariant has
been found for them yet, and TLC checks them.  It excludes
recycled memory for the EPFL array lock and `TicketCap >= SignBit` for
the partitioned lock: with those the code goes wrong, as section 3 says under "Other
disagreements".

*RwLocksProof* (and the end of `LockApiProof`).  `HInv(Q, g)`: `Q[n]` lists the threads queued on node
`n`, `g` the nodes queued for the global lock, each once and linked up to the
tail except in front of one that has yet to store its link; everybody but the
front of a queue waits, and the front of `g` is the one node whose global status
is `UNLOCKED`.  A thread that has the local lock alone is on its way up (`Up`) or
has been passed the global lock with it (`Counts`: a status of at least 1), and
at most one owns both (`OneOwner`).  HMCS-RW adds that `active_readers[n]` is
the number of the counted readers that started on `n`; that `lock_status` says
`READ_STATE` exactly to readers, so that unlock takes the right branch; and
`Scanning`: a writer that has both locks and scans the nodes leaves no reader
behind, because a reader that counts itself later looks at the global tail again
and finds it taken.  For TTAS-RW the word is the number of readers or the mask of
the only writer, and what a failed compare-and-swap has read bounds it; for RWSEM
the owner count is that of the readers, the write mark belongs to one thread, and
the mark changes under `wait_lock` only.  Every step keeps the invariant and is
`Allowed`, a move of one thread's place in `RwLock` that finds the lock free, or
free of writers; `AllowedStep` turns that into a step of `RwLock` or a stutter.

*NumaLocksProof.*  `TicketAt` says of a ticket lock whose counters wrap around that the
waiting threads have the tickets from `grant` on, each its own, up to `request`;
there are more tickets than threads, so equal tickets are one thread.  For
HTLOCK it describes the global lock, whose owner is a thread or has been passed on to
one (`HtTransit`).  The local tickets (`HtLocal`) count down: a node has at most one
thread that leads a cohort (`HtLead`), between drawing ticket -1 and the handing
over of the global lock; the others (`HtFollows`) wait for the tickets between
`request` and `grant`, each its own.  A new leader finds nobody waiting for one of the old
tickets: with at most `NB_TICKETS_LOCAL + 1` threads, not all of them can be
drawn before the first owner of the cohort has unlocked.  `HtKnows` ties `batch` to
`NB_TICKETS_LOCAL - grant` for the thread that has the lock.  For HMCS the two levels of
queues are those of `HmcsRw` (`HInv`, above) without readers.

`Covered` here names HMCS, and HTLOCK with no more threads than it has local tickets
and one, because with more of them the code goes wrong (section 3, "Other disagreements").

The inductive invariants of `Aqs`, `Aqm` and `Interpose` were checked by TLC on the
instances of `aqs_safety`, `aqm_safety` and `interpose` before they were proved.

Only model-checked: the liveness properties (fairness and ENABLED are beyond the
prover); and what `Covered` leaves out of the theorems about `FlatLocks` and
`NumaLocks`: CNA, MCS-TP, the three cohort locks and HYSHMCS.
The proof about `CondVar` carries over to the locks of `FlatLocks` by
`FlatLocksCorrect` and `NumaLocksCorrect`, and to the rest by `ImplementsCondVar` on the
instances of the runs.

## 5. Not modelled, and what is left

Not modelled, and why: the pthread pass-through, empty and concurrency
libraries have no algorithm; symbol loading in `interpose.c` is I/O, and its
initialisation is run by the constructor before there are threads; functions
that only forward (`cond_init`, signal, broadcast) or assert (timed locks);
`ACCOUNTING` and `cs_log`, which are output; the atomic spinning policy, which
is not built; what MUTEXEE learns from its statistics, which only decides how
long it spins; CLHT, a submodule that is not part of the repository; recursive
read locks.  The kernel's qspinlock and the slow path of its blocking mutex are
`Aqs` and `Aqm` with per-CPU nodes and the scheduler of a kernel tree that is
not part of the repository.  Memory weaker than sequential consistency is out of
reach of these models.

Left, in this order: proofs of `ImplementsCondVar` for the cohort locks and HYSHMCS; for CNA and MCS-TP; the
kernel's qspinlock with its pending bit.
