# CPP-WTFSC in TLA+

`src/` is a collection of small, independent C++ programs: concurrent queues,
a thread pool, lock-free structures, a memory pool, disk-backed storage, rate
limiters, caches and sparse matrices. This directory models the ones that
keep state worth reasoning about, checks them with TLC on small instances, and
proves the central results with TLAPS for every value of the constants.

All paths below are relative to `src/src/`, where the programs live.

## The system: inventory

There is no program that links these parts together. The interactions are
those inside a part (threads sharing a structure, a vector above a buffer pool
above a disk manager) and one composition, the parallel sparse
matrix-vector product, which runs on a copy of the thread pool.

| Part | State | Operations | What is hard | What makes it correct |
|---|---|---|---|---|
| `thread-safe/queue.cpp` `ConcurrentQueue` | linked list with a dummy node, two mutexes, a condition variable | `push`, `try_pop`, `wait_and_pop` | two ends under two locks; notification without the waiters' mutex | the list is never torn, nodes have one owner, no node is accessed from both ends at once; linearizable FIFO; calls return |
| `thread-safe/queue.cpp` `Queue`, `DummyQueue` | singly linked list, `tail_` a raw pointer | `push`, `try_pop`, `empty` | `Queue` keeps `tail_` after the last pop | never follows a freed node |
| `thread-pool/thread_pool.h` (copied in `parallel-sparse-matrix/`) | task queue, `stop`, mutex, condition variable, workers, futures | constructor, `enqueue`, worker loop, destructor | lost wakeups, shutdown with tasks queued and running, tasks that enqueue | accepted tasks run once, in order, all before the destructor returns; no sleeper beside work |
| `latch-free/spsc-17.cpp`, `spsc-20.cpp` | slots, atomic `head`, `tail` | `emplace`, `pop` | memory order, stale loads, wrap-around | no data race on a slot, object lifetimes, FIFO |
| `latch-free/queue.cpp` `LockFreeQueue` | list with atomic `head_`, `tail_` | `push`, `pop` | several producers share `tail_` without a CAS | nothing is lost (holds for one producer and one consumer only) |
| `latch-free/stack.cpp` `LockFreeStack` | list with atomic `head_` | `push`, `pop` | CAS retry, reclamation, initial value of `head_` | LIFO, each element once |
| `thread-safe/stack.cpp` `ConcurrentStack` | `std::stack` and a mutex | `push`, `pop`, `empty`, copy | check-then-act by callers, locking a source while copying | linearizable; `pop` throws instead of underflowing |
| `thread-safe/list.cpp` `ConcurrentList` | list with a mutex per node | `push_front`, `for_each`, `find_first_if`, `remove_if` | hand-over-hand locking while nodes are freed | no use of a freed node, no deadlock, no overtaking |
| `thread-safe/map.cpp`, `hashmap/concurrent_map.cpp` | buckets with a shared mutex each | `get`, `set`, `erase` | readers and writers | per-key linearizable |
| `memory_pool/MemoryPool.h` | chain of blocks, each with an offset and two counters | `allocatesize`, `deallocate`, moves | units freed in any order; blocks freed too early or never | no unit handed out twice; freed blocks are empty |
| `memory_pool/Vector.h` | buffer, size, capacity | `push_back`, moves, constructors | growth from capacity 0 | writes stay inside the buffer |
| `disk/vector/` | frames, page table, file; a stream and its error state | `put`, `get` | eviction, dirty pages, reads past the end | reads see the last write; what is evicted or closed is in the file |
| `disk/bustub/` | blocks in memory or in a file | `WriteBlock`, `ReadBlock` | the table's latch is held until the block's is taken | linearizable: no torn block, no half made one; calls return |
| `disk/leveldb/env_posix` `PosixWritableFile` | buffer, position, file descriptor | `Append`, `Flush`, `Sync`, `Close` | short and interrupted writes, errors in the middle | the file holds a prefix of what was appended |
| `rate-limiter/` | tokens or water, time of last update | `get_tokens`, `consume`, `get_token` | clock going backwards, time credited twice | grants bounded by capacity plus rate times time |
| `demo/lfu.cpp` `LFUCache` | frequency lists, two maps | `get`, `put`, `erase` | keeping three structures consistent | evicts the least frequently used, oldest first |
| `matrix/sparse_matrix.cpp`, `parallel-sparse-matrix/sparse_matrix.h` | compressed rows | `get`, `set`, `multiply`, `add`, copy | index arithmetic, empty rows, copying an empty matrix | behaves as the dense matrix |
| `epoll/`, `liburing/`, `shm/` | kernel objects | event loop, asynchronous writes, shared memory | the kernel's protocol | input is echoed, an expiration announced once; a power failure costs the newest blocks only |

Not modelled: `thread-safe/stack.cpp`, whose every operation is one critical
section around `std::stack`, so that any property of a model would hold by its
shape; and, because there is no state to follow, `type-traits/` (computed by
the compiler), `demo/construct.cpp`, `demo/persion.cpp`, `demo/test.cpp`
(copies and prints), `matrix/matrix.cpp`, `shm/` (two programs started by
hand), the timings of `memory_pool/Bench.cpp`, scripts and build files.

What the models leave out on purpose, because no program of the repository does
it:

- `ThreadPool(0)`, whose tasks nobody runs, and a task that waits for a task it
  enqueued; a function passed to `ConcurrentList` that calls the list; a
  `ConcurrentMap` without buckets, which divides by zero.
- `Vector(0)`, whose capacity `expand` doubles to 0, and `push_back` of one of a
  full vector's own elements; moving a `MemoryPool`
  (its move assignment ends without a return value); moving a queue.
- `Vector`s of types whose assignment looks at the object assigned to. The
  constructor from an `initializer_list` assigns its elements to memory that holds
  no objects yet (`memory_pool/Vector.h:64`). For the `Vector<int>` of the tests,
  which `PoolVector` is about, that is the same as constructing them, and the
  model takes it for this; for a type like `std::string` it is undefined behaviour.
- A push on a `Queue` that has been emptied, which writes to freed memory (run
  `queue_comment` shows the state it starts from).
- Using a key after `LFUCache::erase`. `LFUCache` also uses an iterator into
  `freq_table` after an insertion that may rehash it, which the standard forbids
  and common implementations tolerate.
- Copying or assigning a sparse matrix that has never stored an element.
  Comparing an emptied with a never filled one says that they differ
  (`matrix/sparse_matrix.cpp:299`), and comparing two with different numbers of
  columns may say that they are equal; `EqualMeansSame` excludes both.
- Files of 2 GiB and more under `DiskManager` (the offset is an `int`), I/O
  errors of its stream, `ShutDown`, negative block numbers, several threads on
  one `BufferPool`, which has no lock; `DiskManagerMemory`, which nothing uses.
- A clock set forward under the rate limiters (nothing in the code could tell it
  from time that has passed), and several threads on one bucket.
- Short writes to standard output in the event loop, and errors of
  `epoll_wait`, which are retried; setting up a ring, and short writes to a
  file in `liburing/`.

## Plan

Each step is a component module, its properties and runs, then its proofs.
Modules that are to be proved about use no recursive operators.

1. Built: the concurrent structures (`ConcurrentQueue`, `ThreadPool`,
   `SpscRing`, `LockFreeQueue`, `LockFreeStack`, `ConcurrentList`), with the
   abstract specifications `LinQueue`, `TaskPool`, `LinStack`; the buffered
   file (`PosixWritableFile`); the sequential structures `MemoryPool` with
   `PoolVector`, and `LFUCache` with `LFUPolicy`.
2. Built: `SparseMatrix` against `DenseMatrix`, and `ParallelProduct`, the rows
   of a product as tasks of `TaskPool` (composition).
3. Built: storage. `BufferPool` and `DiskVector` against the array of values a
   vector promises; `SequentialQueue` (`Queue`, `DummyQueue`) against its comments.
4. Built: `LinMap`, implemented by `ConcurrentMap` and by `BlockMemory`.
5. Built: `RateLimiter`, `EventLoop`, `UringWrite`, with time and kernel as
   external parts.
6. Built: proofs for the components of steps 1 and 3 to 5: the invariants of the
   runs and the refinements of `LinQueue`, `LinStack`, `LinMap`, `TaskPool` and
   `LFUPolicy`.
7. Built: proofs for step 2, about `SparseMatrix` and `ParallelProduct`, with the
   sums of their loops as recursive functions (`Sums`).
8. Left: liveness, which stays with TLC. A proof that `ThreadPool` can be put in
   place of `TaskPool` under `ParallelProduct` itself, rather than from two
   theorems that share `TaskPool`.

## The modules

Every concurrent module has one action per stretch of code between two points
where another thread can observe or disturb it: taking a mutex, a write to
memory another thread can reach, an atomic operation, a notification, blocking.
A `lock_guard`'s release is part of the last action of its scope. Mutants
(definitions whose comment says *Mutant of*) are wrong variants of an
action; the properties are checked to reject them and no specification uses
them.

An MC module composes several components for one run: a variable (`program`, or
`user`) chosen in the initial state says which of them works, and the others keep
their initial values, so that its state space is the sum of theirs and every
component is explored as if alone. A fairness condition of a component becomes one
of its steps under that choice, and is satisfied trivially where another
component was chosen. The assumptions each component makes on its constants are
restated as named assumptions of the MC module, so that TLC evaluates them for
the instance and the proofs may cite them.

| Module | Components |
|---|---|
| `MCThreadSafe` | `ConcurrentList`, `ConcurrentMap` |
| `MCLatchFree` | `SpscRing`, `LockFreeQueue`, `LockFreeStack` |
| `MCFiles` | `PosixWritableFile`, `BlockMemory`, `UringWrite`, `EventLoop` |
| `MCContainers` | `MemoryPool` and `PoolVector`, `LFUCache`, `SequentialQueue`, `BufferPool`, `DiskVector`, `RateLimiter` |

### LinQueue and LinStack: what a queue and a stack promise

A call is invoked, takes effect once at one moment, and returns. `Capacity`
bounds the queue (0: unbounded); with `Precise` a call is refused only if the
queue is full (empty) at that moment. Three very different queues refine
`LinQueue`.

### ConcurrentQueue, ConcurrentQueueTest

`thread-safe/queue.cpp:103-184`. `head`, `tail`, `next`, `data` are the
pointers and fields, `headMutex` and `tailMutex` the owners of the mutexes,
`node` the `unique_ptr` local to a call, `pc` where it is. `chain` is a history
variable: the nodes from `head_` to `tail_`, in the order they were linked. Nodes are
a finite set of addresses reused after being freed, so address reuse
is explored.

- `ListIntact`, `SingleOwner`, `NoNodeRace`: the structure survives every
  interleaving.
- `ImplementsLinQueue`: a push takes effect when `tail_` moves, a pop when
  `head_` moves, an unsuccessful `try_pop` when it has compared the two.
- `ConcurrentQueueTest` is the test of `main` (lines 213-239): each thread
  makes a fixed number of calls and `main` joins them. `OnlyWaitersWait`:
  whatever happens, every call other than `wait_and_pop` returns. With
  `wait_and_pop`, as the test is written, calls need not return: `push`
  notifies without holding `head_mutex_`, so a waiter that has found the queue
  empty and not blocked yet misses the notification. This is the finding of
  run `queue_wait_test`.

### TaskPool, ThreadPool, MCThreadPool

`thread-pool/thread_pool.h`. `tasks`, `stop`, `mutex` are the members; `ready`
is the set of tasks whose future is ready; `running` the local `task` of each
worker. The owner enqueues, gets results and destroys the pool in any
order; tasks may enqueue further tasks, also after `stop`, when `enqueue`
throws into the task and `packaged_task` keeps the exception. Spurious wakeups
are bounded by `MaxSpurious`.

- `WorkConserving`: while a worker sleeps there are at least as many wakeups
  on their way as tasks in the queue.
- `NoSleeperAfterStop`: nobody sleeps once the destructor joins.
- `ImplementsTaskPool`: once each, first come first served, drained at the end.
- `AcceptedFinish`, `DestructorReturns`: liveness, under weak fairness of
  every thread's steps. A runnable thread is eventually scheduled; the owner
  is not obliged to make any call, and a contended mutex is not starved
  because tasks and spurious wakeups, hence contention, are finite.

The model assumes at least one worker: `ThreadPool(0)` accepts tasks that
nobody will run.

### SpscRing

`latch-free/spsc-17.cpp:12-54`, `latch-free/spsc-20.cpp:10-56`: the same
`emplace` and `pop`; the map cites the producer in one file and the consumer
in the other. Indices are modulo `Cap` as in the code. An acquire load may be
stale: `headLag` and `tailLag` say by how many stores the
last load was behind, which keeps the model finite and is exact because
the reading thread never goes back. `headNews` and `tailNews` count the stores the
thread has not synchronized with: reading a value with acquire order
synchronizes with its store. The run has stale loads (`Stale = TRUE`), of which
up-to-date loads are a special case.

- `NoDataRace`: a slot is accessed only after synchronizing with the other
  side's last access to it.
- `ObjectLifetimes`: exactly the slots between `head` and `tail` hold objects.
- `ImplementsLinQueue`: FIFO; a refusal may be due to a stale load.

### LockFreeQueue, LockFreeQueueTest

`latch-free/queue.cpp`. `push` shares `tail_` without a CAS, so the queue
works for one producer and one consumer, which `LockFreeQueue` models:
`NoBadAccess` (no freed or null node is followed, and no node is accessed from
both ends at once; `QueueNoBadAccess` in the run) and `ImplementsLinQueue` hold. `LockFreeQueueTest` is the program of
`main`; its consumers count on every `pop` to find an element, which
`EveryPopFinds` states and run `lock_free_queue_test` refutes.

### LinStack, LockFreeStack

`latch-free/stack.cpp`. The model starts from `head` null
(`InitialHead = {Null}`): a default-constructed `std::atomic` holds a
null pointer since C++20; before, it is uninitialized, and the module takes the
possible initial values as a constant. `latch-free/CMakeLists.txt` asks for
C++17, where a pop from a fresh stack may follow a wild pointer; the program's
`main` pops only what it has pushed.

- `ListIntact` (`StackListIntact` in the run): no pointer that is null or wild is
  followed, the nodes from `head` are those pushed and not popped. Popped nodes are never
  freed (the code's comment says so), so no address comes back.
- `ImplementsLinStack`: the successful CAS is the moment a call takes effect.
- `LockFree`: whatever the schedule, some call completes; a single thread may
  retry for ever.

### ConcurrentList

`thread-safe/list.cpp`. A walk (`for_each`, `find_first_if`, `remove_if`)
holds the lock of one node while it takes that of the next; letting go of the
former is part of the step that takes the latter (`LockNext`), since whoever it
lets in can only come behind the walk. Functions passed to the list do not
call it.

- `NoUseAfterFree`: a node is freed when nobody else stands on it or waits for
  it, and no walk touches it afterwards.
- `WalkComplete`: a walk meets no node twice, and those that are in the list
  from its start in the order of the list; when it reaches the end it has missed
  none of them, and for `remove_if` none that matches is left. `seen` is the
  sequence of the nodes a walk has met.
- `CallsReturn`: weak fairness of each thread; locks are taken in list order.

`MCThreadSafe` gives each thread a bounded number of calls on a list of two.

### LinMap, ConcurrentMap

`LinMap` is the promise of a table: a get, set or erase takes effect at one moment
between its call and its return. `thread-safe/map.cpp` and
`hashmap/concurrent_map.cpp` are the same class; the map cites both.
`find_if` and what is done with its answer are two steps, so that a lock held
too briefly or shared too widely would show. `it` is the iterator, as a position.

- `ImplementsLinMap`: a call takes effect when it acts on the iterator. The
  mapping reads the value of a key off the first pair that has it, so a key with
  two entries or a lost one makes a later answer wrong.

### BlockMemory

`disk/bustub/disk_manager_memory.cpp`, `DiskManagerUnlimitedMemory`. A block is
copied in two halves, so that a mixture of two writes is a state. A write takes
effect when its block's lock is taken, so `Contents` gives a block being written
the value its writer is about to complete; blocks are identified by numbers, since
growing the table moves shared pointers only.

- `ImplementsLinMap`: no torn block, no lost one, and nobody reads the zeros of a
  block whose first write is under way. The last depends on the order of lines
  30 and 31: with the table released first (mutant `LockPageLate`) a reader can
  lock the new block before its writer.
- `CallsReturn`: a call waits for a block while it holds the table, which every
  other call needs; the holder of a block needs nothing more, so some call always
  returns. Weak fairness of each thread. That every single call returns is not
  claimed: mutexes need not be fair.

### PosixWritableFile

`disk/leveldb/env_posix.cpp`. One action per system call. Bytes are numbered
in the order in which they are appended, so that lost, repeated and reordered
bytes differ. `write` may write less than asked, be interrupted, or fail;
errors and interruptions are bounded. A crash takes what has not been synced.

- `InOrder`: the file is a prefix of what was appended as long as no call has
  failed; after a failure bytes may be missing, never out of order.
- `NothingLost`: without failures every byte appended is in the file or the
  buffer.
- `SyncedSurvives`: what a successful `Sync` covered survives a crash.
- `CallsReturn` (part of `AllCallsReturn`): a call ends however its writes are cut, given weak
  fairness of its next system call and finitely many interruptions.

### UringWrite

`liburing/uring-io.cpp`, `liburing/sync-io.cpp`: `bench_write`. The kernel executes
the requests it was given in any order, writes back whenever it likes, and a call
or request may fail. Completions are counted, as in the code, which looks neither
at their results nor at the request they answer.

- `OnlyNewestAtRisk`: a power failure at any moment costs at most the block being
  written and, with io_uring, the one before it, because the fsync of a block may
  come before its write but not before the write of the block before; and what
  the kernel failed to write, which only the other program notices.

### EventLoop

`epoll/epoll.cpp`. `evs` holds the handlers still to be called, in any order the
kernel reports them. The timer's expirations not announced yet are counted in
`due`, and it waits for the loop (`MaxDue`).

- `InputEchoed`: every piece of input is written in the end, although the timer,
  which is never reset, is ready in every round. Weak fairness of the loop.
- `AnnouncedOnce` is refuted by run `timer_reset`: the read of line 29 asks for one
  byte, which a timerfd refuses.

### MemoryPool, PoolVector

`memory_pool/MemoryPool.h`, `memory_pool/Vector.h`. The pool runs in one
thread, so its operations are functions from one state of the pool to the
next; a user composes them. `pool` holds the two members and the block
headers, `live` the units in use. `PoolVector` is a vector over its own pool;
`object` says which element lives at which address.

- `UnitsApart`: no word is handed out twice, or while its block is freed, in
  whatever order units come and go.
- `ChainIntact`: the doubly linked list of blocks is whole (`Chain` is the least
  set of blocks that holds the first one and is closed under `next`), and every block in
  it but the first holds a unit in use. The exception is real: a block that
  becomes empty while it is the only one stays.
- `VectorHolds`: growing keeps every element, in the buffer, and no other.

### LFUPolicy, LFUCache

`demo/lfu.cpp`. An iterator is modelled by what it identifies. `LFUPolicy` keeps for
each key the number of uses, and the pairs of keys of which the first has not been used
since the second was (`older`); the code keeps no time of use.
`ImplementsLFUPolicy` shows that the places of the nodes encode them.
`TablesAgree` is the invariant by which no iterator dangles. `erase` leaves
the key in `key_table`: the policy loses a place, and the caller
modelled does not use an erased key, which would follow a dangling iterator.

### SequentialQueue

`thread-safe/queue.cpp:9-101`: `Queue` and `DummyQueue`; `class` says which.
`content` is the history of what is in the queue.

- `QueueHolds`: what comes out is what went in, and the chain of `next` pointers
  owns exactly the nodes that are allocated and ends at `tail_`: there is a
  sequence of the allocated nodes, each once, that follows `next`.
- `EmptyMeansNull` is the comment of line 11 and is refuted by run
  `queue_comment`: popping the last element of a `Queue` leaves `tail_` pointing to
  the freed node. The program of `QueueHolds` therefore does not push on a
  `Queue` it has emptied (the guard on `tail` in `PushQueue`).

### BufferPool, DiskVector

`disk/vector/`, and the copy of `DiskManager` in `disk/bustub/`. A page is a few
elements, a file a sequence of elements; the file may have a content when the pool
is created. `expected` is the history of what was put.

- `ReadsSeeWrites`: as long as the pages in use fit into the frames, a
  `DiskBufferVector` is an array that begins as its file.
- `EvictedPagesFlushed` is the comment `// flush` of `buffer_pool.h:56` and is
  refuted by run `buffer_pool_flush`: `is_dirty_` is never set, so nothing that is
  put is ever written to the file. Beyond the number of frames the pool also
  answers from the wrong page, because the evicted page keeps its entry in
  `page_table_` (line 59); the code makes no statement about this case.
- `VectorPersists`: the file of a `DiskVector` holds the last value put at every
  position, over any number of reopenings, and `get` answers it. `put` is two
  steps, what it writes into the stream (`Put`) and the flush (`Flush`), and the
  process may be killed before, between and after them (`Killed`). That is the end
  of a process and not a power failure: what has been flushed is in the file.
  A `get` behind the end leaves the stream failed: later puts are dropped and
  later gets answer an uninitialised variable until the vector is opened again.
  The promise (`kept`, `count`) does not look at the stream: it is given up by the
  program's reading an element that is not there (`missed`), and the property says
  that nothing put before that is lost, and that no `get` answers an old value for
  a put that was dropped.

`DiskVectorsHold` in the run is the conjunction of the two invariants.

### RateLimiter

`rate-limiter/`: the two `TokenBucket`s and `LeakyBucket`. Time and tokens are
integers, and only the time since `last_time_` is kept, so time has no end. The
clock may be set back (`MaxBack`). `excess` is the largest amount by which what was
granted in any period up to now exceeds the rate: it grows with every grant,
shrinks as time passes and never falls below 0.

- `GrantsBounded`: one capacity, and two for the `TokenBucket` of
  `token_bucket.hpp`, which does not move `last_time_` while the bucket is full and
  is credited for that time once more after a burst. Two is reached.

### DenseMatrix, SparseMatrix, ParallelProduct

`matrix/sparse_matrix.cpp`, `parallel-sparse-matrix/`. The two versions of the
class differ in whether rows, columns and positions are counted from 1 or from
0: `base`, chosen in the initial state and carried by every object, stands for
that, so that every offset of the code is in the model. Elements are the residues
of a small number, so that sums and products cancel and become zeros that must
not be stored. `Total` (module `Sums`) is the sum a loop accumulates, `Filled` the
double loop that sets the elements of a result one after the other.
`DenseMatrix` is the promise: an array for every variable of the program. The
refinement mapping is `array`, which gives every name what `get` answers for each
element (`Content`).
`ParallelProduct` adds the test program: it fills a matrix, enqueues
one task for each row, waits for the futures and destroys the pool, then the
matrix. The futures are read inside `assert`, so a program built with `NDEBUG`
goes straight from the last `enqueue` to the destructors (`"unread"`). The pool is
`TaskPool`, which the run `pool` and a proof show `ThreadPool` to implement.

- `ImplementsDense`: `get` finds, after any sequence of operations, what an
  array would hold. Sums and products are computed there element by element,
  here by repeated `get` and `set`.
- `EqualMeansSame`: what is stored is canonical, so comparing the stored
  vectors compares the matrices.
- `ProductsRight`: products with any vector, computed in one go or by the tasks
  in any order; a result is used only after `get` has waited for it, and no task
  is left when the matrix is destroyed. That nobody changes the matrix while
  tasks read it is the text of the program, not something that was checked.

## The runs

| Run | Module and configuration | Shows |
|---|---|---|
| `queue` | `ConcurrentQueueTest`, `ConcurrentQueue.cfg` | Two producers, a try_pop thread and a wait_and_pop thread, each pop called twice, over four reusable node addresses: the list stays intact, its ends are never accessed at once, it is a linearizable FIFO queue, and only wait_and_pop can fail to return. |
| `queue_wait_test` (violation) | `ConcurrentQueueTest`, `ConcurrentQueueTest.cfg` | main()'s test can hang in join: push notifies without head_mutex_, so a wakeup falls between a waiter's predicate and its blocking and is lost. |
| `pool` | `MCThreadPool`, `ThreadPool.cfg` | Three workers and four tasks, two enqueued by other tasks, with the destructor at any moment: no wakeup is lost, no deadlock, the pool implements TaskPool, every accepted task finishes although the pool may never be destroyed, and the destructor returns. |
| `latch_free` | `MCLatchFree`, `LatchFree.cfg` | The three structures without locks: a ring of four slots whose loads are as stale as acquire allows, the list queue between one producer and one consumer, the stack between three threads. Each is linearizable, orders the accesses of its threads, and follows no dangling pointer though addresses are reused; the stack's calls keep returning. |
| `lock_free_queue_test` (violation) | `LockFreeQueueTest`, `LockFreeQueueTest.cfg` | main's concurrent producers overwrite each other's tail: after all pushes have returned a pop still finds the queue empty. |
| `thread_safe` | `MCThreadSafe`, `ThreadSafe.cfg` | Three threads, each with one call of its choice on a list of two: no thread touches a freed node, a walk meets no node twice, those linked throughout in the order of the list, and at its end has missed none of them, and hand-over-hand locking cannot deadlock. Two threads on a map whose two keys share a bucket: every get, set and erase takes effect at once. |
| `files` | `MCFiles`, `Files.cfg` | PosixWritableFile with a buffer of two bytes and seven bytes appended in any portions: without an error nothing is lost, with errors nothing is repeated or reordered, what Sync confirmed survives a crash. The benchmarks of liburing: whatever order the kernel chooses, a power failure costs only the newest blocks. The event loop echoes all that is typed beside a timer that is always ready. Two threads on two blocks of the disk manager in memory: no block is read torn. |
| `containers` | `MCContainers`, `Containers.cfg` | The components of one thread, each under a program that calls it in any order. Memory pool and vector: no word has two owners, the chain of blocks stays whole and gives empty blocks back, the vector keeps its elements. LFU cache: its lists and tables agree and the right key is evicted. Queue and DummyQueue: first in, first out, no node leaks. Vectors on disk: what was put is there, also after reopening the file and after the process was killed within a later put. Rate limiters: no more is granted than rate and bursts allow. |
| `queue_comment` (violation) | `SequentialQueue`, `SequentialQueue.cfg` | A Queue whose last element was popped is empty and still has a tail_, contrary to its comment. |
| `buffer_pool_flush` (violation) | `BufferPool`, `BufferPool.cfg` | put never sets is_dirty_, so what it has written is dropped when its page leaves the pool. |
| `product` | `ParallelProduct`, `ParallelProduct.cfg` | Two matrices of up to 2 x 2 residues, declared, set, erased, copied, added, subtracted and multiplied in any order, are arrays; equality is that of the arrays; products with every vector, sequential and by tasks of the pool, are right, and no task is left when the matrix is destroyed, even if no future was waited for. |
| `timer_reset` (violation) | `EventLoop`, `EventLoop.cfg` | The read that should reset the timer is refused: one expiration is announced again and again. |

Bounds. Every run explores its whole state space.

- `queue`: two producers, a polling and a waiting consumer meet at an empty
  list, at one element and at several; producers make one call each and
  consumers two. Four addresses suffice for the dummy, a linked element, a
  node being pushed and one being freed, so that addresses are reused.
- `pool`: three workers are one more than needed to have one running, one
  sleeping and one in between; four tasks let nested tasks reach depth three;
  one spurious wakeup.
- `latch_free`. Ring: four slots let indices wrap around while up to three elements
  are in the ring and lags of up to three build up. Queue: one producer and one
  consumer over four nodes, for as many calls as they like. Stack: three threads
  and two pushes in all (a node is never freed): an exchange can be overtaken by two
  others, of either kind, and fail spuriously once.
- `thread_safe`. List: three threads, one call each, on a list of two with room for
  a third node: one walk in front of, one behind and one beside a removal. Map: two
  threads with any number of calls, two keys in one bucket, so that
  positions move when the other key is erased; buckets do not share anything.
- `files`. File: a buffer of two and seven bytes appended give empty, full and
  overfull buffers and direct writes; two interruptions and two failures can
  hit one call or two. Memory: two threads with any number of calls on blocks 0 and
  1, made in either order, so that the table grows over a gap. Rings: four
  blocks, one failure. Event loop: two pieces of input and a buffer for one.
- `containers`. Pool: blocks of ten words, four of them, hold up to three small
  units or one large one; the middle one of three blocks can be freed. The
  vector grows through capacities 1, 2, 4, 8, inside a block and into blocks of its
  own. LFU: four keys compete for up to three places; three uses make lists that
  are created, emptied and skipped. Queues: four nodes. Vectors on disk: three
  pages of two elements in two frames over files of up to three elements; four
  positions. Limiters: a capacity of three and a rate of one; a bucket is used at
  least every four units of time, one more than it takes to fill it; the clock is
  set back by two in all.
- `product`: shapes from 1 x 1 to 2 x 2 have empty and full rows, rows before
  and behind the one that changes, and products whose factors differ in shape;
  three residues tell sums from differences; four stored elements
  (`MaxStored`) fill one matrix or are divided between two; two workers finish
  two rows in either order.
- The runs that expect a violation take the smallest instance that has it.

Symmetry is used over the addresses of blocks in `containers`, none of whose
properties distinguishes them and which has no liveness property, and nowhere else.

Type invariants (`TypeOK` of `ConcurrentQueue`, `ThreadPool`, `SpscRing` and
`MemoryPool`) are not checked by the runs: they are proved for every instance, and
the runs are spent on what is not obvious.

## What is proved

The proofs hold for every value of the constants that satisfies the named
assumptions of the module and of the MC module it is about. A component proved
inside an MC module is proved under `MCSpec`: the steps of the other components
leave its variables alone, which each proof module states once (`StackSteps`,
`TableSteps`, ...).

The invariants named below are what the properties need to become inductive. A
refinement is proved from such an invariant: initial states map to initial
states, and each action to a step of the abstract specification or to none.

- `ConcurrentQueueProofs` (`QueueAssumption`): `ListIntact`, `SingleOwner`,
  `NoNodeRace`, `ImplementsLinQueue`. The invariant adds who holds which mutex
  (`MutexOwners`) and what a push has written so far (`PushProgress`). The
  central step is that a pop which has seen `head # tail` may go on after
  `tail_mutex_` is released, because pushes only move `tail_` to nodes that
  are not in the list. The refinement needs in addition that only a `try_pop`
  is ever refused (`Roles`).
- `ThreadPoolProofs` (`PoolAssumption`): `NoSleeperAfterStop`, `WorkConserving`,
  `ImplementsTaskPool`. A task is in exactly one place (`OnePlace`), `Places` says
  where each thread can be, `StopState` what `stop` tells about workers about to
  block or gone. `WorkConserving` is inductive beside it: the wakeups on their way
  are the threads about to notify and the workers about to look (`Slack`), and
  each step changes the two sets by at most one. That a worker taking a task
  leaves the number of running tasks within the number of workers is a counting
  argument over the other workers (`RoomToRun`).
- `SpscRingProofs` (`RingAssumption`): `NoDataRace`, `ObjectLifetimes`,
  `ImplementsLinQueue`, for every capacity and staleness. What a thread believes
  of the other side is behind by at most the room (`ProducerView`) or the
  elements (`ConsumerView`) there really are, and the modular indices are
  then unambiguous (`FullTest`, `EmptyTest`).
- `LatchFreeProofs` (`QueueConstants`, `StackConstants`): `QueueNoBadAccess` and
  `QueueImplementsLinQueue` for `LockFreeQueue`, `StackListIntact` and
  `ImplementsLinStack` for `LockFreeStack`. For the queue: the producer
  alone fills the dummy at `tail_` (`ProducerHolds`), and the consumer takes out
  `head_` only when it is not the dummy, after which no chain and no pointer of the
  producer leads to it (`ConsumerHolds`). For the stack: a node in hand for a push is in
  nobody else's hands and not in the list, and as nodes are not freed, a `head`
  that is still what a pop loaded has still the `next` it read.
- `ThreadSafeProofs` (`ListAssumption`, `TableConstants`): `NoUseAfterFree` and
  `WalkComplete` for `ConcurrentList`, `ImplementsLinMap` for `ConcurrentMap`. The
  list is a set of linked nodes with one predecessor each and some numbering that
  grows along `next` (`Numbering`; a push in front takes a smaller
  number); what a thread has locked or taken out is known to it alone
  (`Own`), and a walk's unseen nodes are all ahead of it (`AheadOf`, `SeenOf`) and
  the linked nodes it has met are not (`BehindOf`). Of two linked nodes the one with
  the higher number is further on in the list, as the property says it
  (`HigherIsBehind`): otherwise there would be a first node at which following
  `next` fails.
  For the table: an iterator stays valid while its thread holds the bucket, and a
  bucket has at most one pair for a key.
- `FilesProofs` (`FileAssumption`, `MemoryConstants`, `UringConstants`): `InOrder`,
  `NothingLost`, `SyncedSurvives` for `PosixWritableFile`, `ImplementsLinMap` for
  `BlockMemory`, `OnlyNewestAtRisk` for `UringWrite`. For the file: file, buffer
  and what the call in progress still has to write, put together, are the bytes
  appended in ascending order (`FileInv`). For the blocks: what each reader and
  writer has copied of its block (`Reads`, `Writes`), and that a block without
  data has a writer that has locked it before anybody else can. For the ring of
  requests: none is left over from one block to the next, and an fsync that
  has been executed has dealt with every block but the newest (`UringHolds`).
- `ContainersProofs`, about `MemoryPool` (`PoolAssumption`): `UnitsApart`,
  `ChainIntact`, for every size of block, header and request. Every link of the chain is undone by one in
  the other direction (`LinksOK`, so that taking a block out leaves the rest
  linked), and in every block `numberOfAllocated - numberOfDeleted` is the number
  of units in use (`Accounts`). Neighbours that point to each other would
  not exclude a ring of blocks nobody can reach; `ChainIntact` therefore also says
  that every set which has the first block and is closed under `next` has all blocks
  (`Reached`). There is a lemma for each operation about any pool and any units,
  which the proof about the vector cites.
- `ContainersProofs`, about the others (`PoolAssumption`, `PoolVectorAssumption` and the
  assumptions of `MCContainers`): `VectorHolds`, `QueueHolds`, `DiskVectorsHold`, `GrantsBounded`,
  `TablesAgree`, `ImplementsLFUPolicy`.
  Vector: its unit is the pool's only one and the words that hold an object are
  those of its elements (`BufferHolds`). Queues: the allocated nodes are some
  sequence of distinct nodes, each linked to the next (`QueueInv`). Buffer pool:
  pages in use have one frame each and frames are never dirty (`BufferInv`); that a
  free frame is left while the pages fit is a pigeonhole argument (`FreeFrame`).
  Limiters: as long as `excess` is not 0, it is within the bound together with what
  may still be granted, the tokens left and those earned since `last_time_`; for
  the full `TokenBucket` without the tokens left, which is why its bound is twice
  the capacity (`LimiterInv`).
  LFU cache: the ascending lists show a function from frequencies to nodes (`Shows`);
  every key's only node is filed under the number of its uses, with its value, and
  behind every node of a key used later (`Filed`). Using a key is then taking its
  node out of one value of the function and putting it in front of the next, and
  the back of the first list is a key that nothing used less often and, among
  those used as often, nothing before (`LastIsVictim`).

- `MatrixProofs` (`SparseAssumption`, `NullAssumption`, `ProductAssumption`):
  `EqualMeansSame`, `ImplementsDense`, `ProductsRight`, for every number of matrices,
  set of sizes, modulus, number of workers and bound on what is stored. The
  invariant is about the objects (`Crs`): the bounds of the rows ascend and end
  with what is stored, the columns of a row ascend, and no zero is stored.
  - One `set` keeps it and changes one element and no other (`StoredIs`), in each of
    its four cases: insert, remove, replace, leave. The case the code decides by is
    the last column its loop has seen, which in an empty row is no column of the
    matrix.
  - The loop that fills a result has, after k elements, the first k right and the
    rest zero (`StepIs`, `FilledIs`): so add, subtract and multiply are those of
    the arrays (`ImplementsDense`).
  - A matrix has one representation (`EqualMeansSame`): column by column, the
    places where a search of the same row stops agree in both objects, and so do
    the stored elements, row by row.
  - The sum over the stored elements of a row is the sum over all columns: up to
    every column the partial sums agree, as what is not stored adds 0
    (`SumsAgree`).
  - For the tasks (`ProductInv`, `QueueInv`): the queue has each pending task once,
    every finished task has returned the row of the matrix and the vector as they
    still are, and the rows that have been waited for are finished.

The type invariants of `ConcurrentQueue`, `ThreadPool`, `SpscRing` and `MemoryPool`
are theorems of their own; the others are conjuncts of the invariants above. The
minimum a definition chooses with `CHOOSE` exists by well-foundedness of the
natural numbers (library theorem `WFMin`), not by induction over the set. Where a
loop is followed step by step (`MatrixProofs`), the steps for which the claim
holds are a set of numbers that has 0 and with each number the next, and a least
number outside it would contradict that (`Induction`, from `WFMin` again): the
library's own induction theorems take an operator as a parameter, which the provers
cannot instantiate.

Only model-checked:

- Liveness (`CallsReturn`, `OnlyWaitersWait`, `AcceptedFinish`, `DestructorReturns`,
  `LockFree`, `AllCallsReturn`, `InputEchoed`): the prover has no support for fairness
  and `ENABLED`.
