# Verification of Parallel_system

TLA+ models, TLC configurations and TLAPS proofs for the programs of the
Parallel_system repository: a collection of parallel programs (MPI, sockets,
OpenMP, CUDA, Hadoop, Spark, checkpointing) in six directories `hw1` ... `hw6`.
They do not call each other, so there is no single system to compose. What they
have in common is a parallel program and a sequential one that should compute
the same, or a protocol between processes or threads that should keep them in
step. The models follow that: an abstract module says what the program promises,
and the detailed module, translated from the source, is shown to implement it.

Contents: [inventory](#inventory), [plan](#plan),
[the socket MPI library](#the-socket-mpi-library-hw2),
[the parallel derivative](#the-parallel-derivative-hw1),
[the lake](#the-lake-hw3), [the checkpointed lake](#the-checkpointed-lake-hw5),
[TF-ICF](#tf-icf-hw4-hw5-hw6), [the persistent heap](#the-persistent-heap-hw5),
[its containers](#the-containers-of-the-heap-hw5), [its interface](#the-interface-of-the-heap-hw5),
[runs](#runs), [proofs](#proofs), [disagreements found](#disagreements-found),
[what is not modelled](#what-is-not-modelled).

## Inventory

### my_mpi: MPI over TCP sockets (`hw2/q1_submit/my_mpi.c`, `my_mpi.h`)

- *State.* Per process the unprotected globals `barrier`, `rcv_flag`, `rcv_ptr`,
  `rcv_cnt`, `buff_glob_0[]`, `rank_glob`; one listening socket per server thread.
  Rank 0 has one server thread per other rank (port 30014+p) besides the one on
  port 30014 that every rank has.
- *Operations.* `MPI_Init`, `MPI_Barrier`, `MPI_Send`, `MPI_Recv`,
  `MPI_Sendrecv`, `MPI_Finalize`; `client()` (connect up to three times, write,
  close), `server_1()` (accept, spin, test, read, copy).
- *Interactions.* One message per TCP connection. The main thread and the server
  threads of a process talk through the globals. Ranks reach the barrier through
  rank 0.
- *Hard.* Threads share variables without a lock; a `sleep(1)` is all that keeps
  a data message from reaching a rank that still waits in a barrier;
  connections are refused while the peer starts; short messages; a source and
  a tag that are not looked at.
- *Correct when.* A barrier is a synchronisation point and returns; every data
  message reaches the receive it is meant for; no thread or rank is stuck.

### my_rtt: round-trip benchmark (`hw2/q1_submit/my_rtt.c`) and its launcher (`simple_my_prun.sh`)

- *State.* The buffer and the loop over sizes and repetitions.
- *Operations.* `MPI_Init`, `MPI_Sendrecv` with the partner for each size,
  `MPI_Finalize`. The launcher starts a process per node over ssh.
- *Hard.* Both partners of a pair must not send first when a message is larger
  than the socket buffers; ranks start at different times; the number of ranks
  must be even.
- *Correct when.* Every exchange delivers the partner's message and every
  process ends.

### Parallel derivative (`hw1/p2_mpi.c`, sequential `hw1/q2/serial.c`)

- *State.* Per rank the block of `xc`, `yc`, `dyc` with two ghost cells; at the
  root the full arrays and the requests of the gather.
- *Operations.* Distribution of the grid; exchange of edges, blocking or not;
  gather by `MPI_Gatherv`, by blocking sends and receives, or by non-blocking
  ones with a loop of `MPI_Test`; the file.
- *Interactions.* MPI messages with explicit source, destination and tag.
- *Hard.* Order of ghost-cell writes, posted receives and use; deadlock of the
  edge exchange; the same tag for edges and blocks; buffers freed while a send
  is pending; termination of the test loop; blocks of one point.
- *Correct when.* The root writes the file of the sequential program, once, and
  every rank returns.
- Variants: `p2_mpi_ash.c` (older copy), `p2_check.c`, `p2_func.c`.

### TF-ICF over MPI (`hw6/p1/TFICF/TFICF.c`, sequential `TFICF_serial.c`)

- *State.* Per rank the arrays `TFICF`, `unique_words` and `strings`, each of 32 entries
  (`MAX_WORDS_IN_CORPUS`).
- *Operations.* Rank 0 broadcasts the number of documents; worker *r* reads
  documents *r*, *r*+P-1, ...; it sends its counts and then its words with tag
  *r*; rank 0 merges the unique words and broadcasts them; workers compute and
  send strings, which rank 0 sorts and writes.
- *Hard.* Messages of one tag told apart by their order; merge of duplicates;
  arrays that are written without a look at their length; a worker that cannot open
  its file exits and leaves the others waiting.
- *Correct when.* The output is the sequential program's.

### TF-ICF on Hadoop (`hw4/p1/TFICF/TFICF.java`) and Spark (`hw5/p1/TFICF/TFICF.java`)

- *State.* Hadoop: the output directories of three jobs. Spark: three RDDs.
- *Operations.* Hadoop: map, combine, reduce, three times; the next job reads
  what the last one wrote. Spark: `mapToPair`, `reduceByKey`, `union`.
- *Hard.* A combiner may be applied any number of times; a job that fails is not
  noticed; `reduceByKey` takes values in any order.
- *Correct when.* Every (word, document) pair appears once, with the right four
  numbers.

### Checkpointed lake (`hw5/p3/lake-perm.c`, `perm-je-0.9.7/src/perma.c`)

- *State.* A persistent heap mapped from a file, the `PERM` globals, a backup file.
- *Operations.* `mopen`, `bopen`, `backup`, `restore`, `mflush`, `mclose`; the
  program's time step with a backup after each, and the restart path.
- *Hard.* A crash at any point: during `backup`, which overwrites the only backup in
  place; inside `mopen` or `malloc`, which leaves a file that looks good and is not;
  restart before the first backup is complete; pointers kept in local variables over
  `restore`.
- *Correct when.* A restarted run continues from a state the uninterrupted run
  went through.

### Persistent heap: chunks (`chunk_swap.c`, `chunk.c`, `base.c`, `huge.c`, `extent.c`)

- *State.* `swap_end`, the trees of free extents, the list of nodes and the
  chunk they are cut from, the tree of huge allocations; `swap_mtx`, `base_mtx`,
  `huge_mtx`.
- *Operations.* allocation (recycle, extend), deallocation (record, join,
  shrink), nodes, `huge_malloc`, `huge_palloc`, `huge_dalloc`, prefork/postfork.
- *Hard.* `swap_mtx` is dropped in the middle of a deallocation to get a node;
  the allocator of nodes takes chunks from the allocator that needs nodes.
- *Correct when.* Every chunk and node has one owner; free extents are joined;
  calloc's memory is zero.

### Persistent heap: arenas (`arena.c`)

- *State.* Per chunk a map with a size and four flags for each page; the trees of
  clean and dirty runs, the spare chunk, the list of chunks with dirty pages and
  four counters; per bin the current run, the tree of runs that are not full, and
  each run's bitmap.
- *Operations.* Runs: alloc, split, dalloc, trim head and tail, shrink and grow.
  Purge. Bins: malloc, the slow path, dalloc.
- *Hard.* `arena->lock` is released to get a chunk and to purge, `bin->lock` to
  get or to free a run; the counters decide when to purge.
- *Correct when.* Runs cover the chunks without overlap and have one owner;
  counters agree with the map; a run with free regions can be found.

### Persistent heap: threads and start (`jemalloc.c`, `perma.c`, `ctl.c`)

- *State.* `malloc_initialized`, the arenas and their thread counts, each
  thread's arena, `perm_mtx`; the file and what the last process left in it.
- *Operations.* `malloc_init_hard`, `choose_arena_hard`, `thread.arena`, thread
  exit, `mopen` (also through `PERM_FNAME`), `backup`, `restore`.
- *Hard.* Two threads initialise; the heap is opened before the first malloc, after it,
  or while another thread is at it; mutexes and counts are in the file and outlive their
  threads.
- *Correct when.* Counts are the threads that have the arena; memory is in the
  heap; every call returns.

### Persistent heap: containers (`rb.h`, `bitmap.c`, `rtree.c`, `ckh.c`)

- *State.* A red-black tree's nodes with colour and two children; the levels of a
  bitmap; the tree of chunk addresses; the two-choice hash table and its size.
- *Operations.* Insert, remove, searches, iteration; `bitmap_sfu`, `unset`;
  `rtree_set`, `get`; `ckh_insert`, `remove`, with growing and shrinking.
- *Hard.* Removal in a left-leaning tree has many cases that depend on colours
  three levels away; a level of the bitmap tells whether the one below is full;
  a displaced key may push others round in a cycle; memory may be short when the
  table must grow.
- *Correct when.* A container holds what its callers put in and took out, and a
  search finds what the definition of the search says.

### Persistent heap: interface and sizes (`jemalloc.c`, `arena.c`, `huge.c`, `jemalloc_internal.h`)

- *State.* The classes of sizes for the options in force, the table from a size
  to its bin, the layout of the bins' runs; a block's size and alignment.
- *Operations.* `malloc`, `calloc`, `posix_memalign`, `memalign`, `valloc`,
  `realloc`, `free`, `malloc_usable_size`, `allocm`, `rallocm`, `sallocm`,
  `dallocm`, `nallocm`.
- *Hard.* Sizes at the limits of classes; sums and products that wrap; a block
  resized in place, by what follows it, or moved; options that do not fit
  together.
- *Correct when.* A block is as large and as aligned as was asked for, keeps the
  bytes a resize must keep, and a failure leaves the old block.

### Lake with OpenMP and OpenACC (`hw3/lake.c`, `lake_opti.c`)

- *State.* Three arrays `un`, `uc`, `uo` that are rotated; time. *Operations.*
  `init_pebbles`, `evolve9pt`, the rotation in `run_sim`. *Hard.* Threads write
  rows of `un` while reading `uc` and `uo`; the rotation leaves the oldest values
  in `un`. *Correct when* every step equals the sequential step.

### MPI send profiler (`hw3/q1/pmpi.c`)

- *State.* `count[]` per destination. *Operations.* `MPI_Init`, `MPI_Send`,
  `MPI_Isend` and `MPI_Finalize` wrappers; the rows are gathered at the root.
  *Correct when* the matrix counts every message sent through the two calls.

### CUDA programs (`hw2/q2/p2.cu`, `hw2/q3v1/q3v0/lake.cu`, `lakegpu.cu`)

- `p2.cu` integrates: each thread computes a value, then adds its left
  neighbour's. *Hard.* The first thread of a block reads a value that another
  block writes, and `__syncthreads` orders one block only.

### Lake with Horovod (`hw6/p2/lake-horo.py`, `lake.py`)

- Two processes exchange three boundary rows with `hvd.broadcast` each step;
  the order of the grouped assignments is TensorFlow's.

### Not the repository's own logic

Older copies of the above (`hw2/q1`), course exercises (`hw1/prac_code`), the
reports of `hw4/p2`, set-up scripts, data and plots, the parts of the vendored
allocator that this configuration does not compile, and the empty submodules
`dmtcp` and `Kripke`.

`PROJECT.json` lists the components with their files and the hazards, each at
its line with the properties that cover it.

## Plan

| order | module | what it adds |
|---|---|---|
| 1 | `BarrierSync`, `MyMpi`, `MyRtt` | library and benchmark; barrier refinement |
| 2 | `MyRttInv`, `MyRttBarrier` | inductive invariant of the barrier and its proof |
| 3 | `SerialDeriv`, `MpiPt2pt`, `Deriv` | derivative against the sequential program |
| 4 | `DerivProofs` | distribution of the grid; the derivative program for every size |
| 5 | `SerialLake`, `LakeSim` | three builds of the lake against the sequential one |
| 6 | `LakeSimProofs` | the refinement, and freedom from races, for every grid |
| 7 | `PermHeap`, `LakePerm`, `RestartableRun` | crashes and restarts of the checkpointed lake |
| 8 | `TficfTables`, `Tficf`, `TficfJobs`, `TficfRdds`, `TficfPrograms` | TF-ICF over MPI, on Hadoop and on Spark |
| 9 | `PermChunks` | chunks, nodes and huge allocations, with their locks |
| 10 | `ArenaRuns`, `Arena` | runs, purging and bins |
| 11 | `PermThreads` | initialisation, arenas of threads, reopening the heap |
| 12 | `RbTree`, `BitmapTree`, `Containers` | the allocator's containers against sets and functions |
| 13 | `SizeClasses`, `Requests` | size classes and the calls for one block |
| 14 | `MyRttTimely` | what the sleeps of the benchmark are for, for every number of ranks |
| 15 | `PermThreadsProofs` | counts and memory of threads over crashes, for every number of threads |
| 16 | `LakePermProofs` | the restarted lake, for every number of steps, crashes and blocks |
| 17 | `TficfProofs` | messages, tables and file of TF-ICF over MPI, for every number of ranks and documents |
| 18 | `PermChunksProofs` | one owner for each chunk, joined extents, no node lost, for every number of threads and chunks |

`LakePrograms` puts the two lakes into one specification, `TficfPrograms` the three
TF-ICF programs, and `HeapParts` three parts of the allocator (`Arena`, `Containers`,
`Requests`): a behaviour is one of one of them. All modules are written and checked.
What the plan has left is proof: that `RunsApart` and `Counted` of `Arena` hold for
every size of a chunk.

## The socket MPI library (hw2)

`MyRtt` EXTENDS `MyMpi`: the benchmark supplies the calls the main threads make,
the library everything else. `BarrierSync` is the abstract specification of
`MPI_Barrier`.

| model | code |
|---|---|
| `main[r]` | where the main thread of rank r is; `"app"` is the benchmark's code |
| `barrier`, `rcv_flag`, `rcv_cnt`, `glob` | the globals of the process (`glob` is `buff_glob_0`) |
| `buf[r]` | what the last `memcpy` to `*rcv_ptr` left: sender, number, bytes |
| `srv[l]`, `conn[l]` | the server thread of listener l and its connections, the accepted one first |
| `i`, `ctr`, `out` | the loop variable of rank 0 in `MPI_Barrier`; attempts and message of `client()` |
| `entered`, `left`, `calls`, `lost` | ghost counters: barriers, calls, messages read by the wrong branch |
| `expired`, `clock` | which `sleep(1)` calls are over; seconds while ranks start |

A step is what a thread does between two points at which another thread or
rank can see or change what it uses. The program is built without optimisation,
so a spin loop reads its variable again on every turn and becomes a guard; the
read that ends the spin (line 237) and the one that chooses the branch (line
238) are two steps, `SpinEnd` and `Test`. The loop that resets `buff_glob_0` is
one step: each entry is written by one other thread, and one that writes between
two resets of the loop is seen as writing before or after it. A message is its
sender, its kind, its number, the int the barrier looks at, and its length. A
connection is refused unless the server thread has bound its port. A process
that ends takes its listeners along.

**Time.** The code relies on sleeps. With `Timely = FALSE` a sleep may end at
any moment: every interleaving is possible. With `Timely = TRUE` a sleep of a
second outlasts every burst of steps of the other threads: a second passes
(`Tick`) only when every thread sleeps, spins or waits. Properties that need the
sleeps are checked with `TRUE`; with `FALSE` they do not hold
([disagreements](#disagreements-found)). Barrier safety is checked, and proved,
with sleeps of any length.

**Fairness.** The operating system runs every thread and every rank is started:
weak fairness of `Launch`, of the main thread's steps, of the benchmark's steps
and of every server thread, and of `Tick`. A spinning thread takes no step, so
no fairness beyond the scheduler's is assumed. `Termination` is checked under it;
that the barriers return follows, since a rank finishes after two of them.

**Deadlock** is not checked, because the program ends, and because a rank that
gives up leaves the others waiting; `Termination` says more where it applies.

Preconditions: two ranks at least (one divides by zero at `my_rtt.c:39`) and an
even number for the exchange: with three, ranks 1 and 2 both pair with rank 0.

## The parallel derivative (hw1)

`Deriv` EXTENDS `MpiPt2pt` (the MPI library, external), and instantiates
`SerialDeriv`.

The program of a rank has no branch that depends on data: which MPI calls it
makes, in which order, follows from its rank and the command line. `Program(a,
r)` is that sequence, built from one operator per section of `main`; `pc[r]`
counts the calls made, and there is an action per kind of call. So
every section appears with its conditions and in its order, and interleavings
come from ranks advancing and the library delivering independently. Collective
calls are messages to the root: `MPI_Gatherv` and `MPI_Reduce` return at a rank
when its part has been taken over, at the root when all parts are there.

A value is the set of grid points it is computed from: `{p}` for `fn(x_p)`,
`{p-1, p+1}` for the finite difference, the empty set for a cell that was never
computed. This is finer than the numbers: two programs with the same sets print
the same numbers. A block whose rank has one point has no `dx` (`DxKnown`):
`xc[2]` is read before it is set.

| model | code |
|---|---|
| `arg` | `p2p_typ`, `gat_typ`, and the library's eager limit |
| `yc[r]`, `dyc[r]` | the arrays of the block, ghost cells 0 and `counts(r) + 1` |
| `full` | `fxc`, `fyc`, `fdyc` at the root |
| `i`, `null`, `count_flag` | the `MPI_Test` loop |
| `freed`, `file` | ranks past their `free` calls; tables written |
| `sends`, `recvs` | messages and posted receives the library holds |

`MpiPt2pt` models what the program may rely on: messages of a pair with the same
tag match in order, a message of at most `eager` values is copied when it is
sent, and a longer one is read from the sender's buffer when the transfer
happens; after a `free` that read may see anything. Every limit is at least 1:
the blocking exchange, in which all ranks send first, is correct only with a
library that copies a message of one value, and every MPI library in use does.

**Fairness.** The root runs, whose test loop may spin (`WF(Step(Root))`); of the
other ranks and the library, which delivers while a message has a matching
receive, some one that can go on does. That is less than a fair turn for each:
only the root has a loop.

**Late blocks.** Nothing waits for the sends of `xc` and `dyc` in the non-blocking
manual gather, and `free` follows. A block longer than the eager limit may then be
read when it is gone (`Late`). The run has such blocks: what they spoil is the
root's cells of these blocks (`LateCells`), which the abstract specification leaves
open, and nothing else.

Precondition, which the run satisfies: two points for each rank (with one, `dx`
is not known and the derivative of the block is wrong; with none the program
reads past its arrays).

## The lake (hw3)

`LakeSim` has the cells, the boundary and the stencil, and instantiates `SerialLake`,
one whole time step after another. A run of `LakeSim` is one of three builds: serial,
OpenMP, OpenACC.

| model | code |
|---|---|
| `mem`, `un`, `uc`, `uo` | what `run_sim` allocates, and where the three levels start in it |
| `loop`, `done` | the loop or statement `main` is at; its iterations that are finished |
| `Ready`, `Workers` | which iterations may run now: rows are handed out, `nthreads` or `Gangs` at a time, a row goes from left to right |
| `EndOmp` | the rotation of the three pointers |
| `"shift"` loop | the copy of two levels in the OpenACC build |
| `files` | `lake_i.dat` and `lake_f.dat` |

A step computes one cell, so rows of one loop interleave cell by cell. The
arithmetic is a parameter (`Scheme`, `f`): a cell is the scheme's value of its
thirteen neighbours, its old value and the source, whatever the scheme is. The
levels are offsets into one memory because `lake_opti.c` cuts them out of a
single block, at offsets that overlap (`Optimised`).

**Fairness.** `main` runs, and a loop goes on while it has iterations left:
weak fairness of `Main` and of *some* cell being computed. No worker is promised
its share.

## The checkpointed lake (hw5)

`LakePerm` (the program) EXTENDS `PermHeap` (`perma.c`); `RestartableRun` is the
abstract specification.

| model | code |
|---|---|
| `heap` | the mapped memory: PERM variables as saved, blocks malloc has in use, contents |
| `mapFile` | the file of the heap: not there, without a key, good, or `"torn"` |
| `bakFile`, `next` | the backup, piece by piece, and the piece `backup` or `restore` is at |
| `glob`, `u_cpu` | the PERM variables of the process; the local pointer |
| `crashes` | bounds the crashes of one computation |
| `whole`, `lost` | ghosts: the backup holds one heap; a restart had none to use |

`backup` writes and `restore` reads one piece at a step, so a crash can fall between any
two. A crash is the death of the process at any step; the mapping is shared, so the file
then holds what memory held. Inside `mopen("w+")`, `malloc` or `free`, those that stdio
makes included (`CallsMalloc`), it may leave the file `"torn"`: `mopen("r+")` accepts it
by its key, but malloc's own state in it is half made or locked, and every restart dies
or waits in it (`MopenTorn`). `Restart` starts the program with `-r`.

`RestartableRun` is what the code can promise: a run is lost, and may then print
anything, only when it fails while no backup is whole: in the first time step, during a
backup, or while the files are removed at the end. `README.PERM:26-29` promises more,
that memory persists after a checkpoint. That promise is `CheckpointPersists`, and
`lake_backup` shows it broken: `backup` writes over the checkpoint that was good.

The loss of power is not modelled. What the kernel has written of a shared mapping is
then any mixture of old and new pages, and the program calls malloc on that heap
(`lake-perm.c:73-77`) before it restores the backup: what it does is undefined.

**Fairness.** The program runs and the user restarts it: `WF(Run \/ Restart)`.
Crashes come or not, at most `MaxCrashes`. A program whose heap is torn is not required
to end.

## TF-ICF (hw4, hw5, hw6)

`TficfPrograms` runs one of three programs on a corpus: `Tficf` (MPI, EXTENDS
`MpiPt2pt`), `TficfJobs` (Hadoop) and `TficfRdds` (Spark). `TficfTables` has the
definition TF-ICF is computed from, a set of records (word, document, count,
size, number of documents, documents with the word), and the tables the MPI
program builds. The number is a function of the record; strings such as
`word@document` are the record's fields.

- *MPI.* `pc`, `tables`, `strings` per rank; the root's `idx`, `words_r`,
  `output`. Messages carry what the worker's buffers hold when they are copied.
  A worker that cannot open its document exits, and nobody else can finish:
  `ProgramsEnd` says the ranks end or one of them has exited; whether the root then
  waits for ever in `MPI_Recv` is up to `mpirun`, and no property is about it.
  The arrays have `MaxWords` entries. The program writes past them without looking, into
  other variables of `main`; the model ends there (`Overrun`). A corpus whose pairs of a
  document and a word are no more than that (`CorpusFits`) is one for which the
  sequential program's arrays suffice: for these `SameAsSerial` claims the file, and
  `ArraysHold` that the parallel program's suffice as well, the merged tables and the
  lines of all ranks included. The limit's name promises it for as many *words*:
  `WordsSuffice`, which does not hold ([disagreements](#disagreements-found)).
- *Hadoop.* A word has no `@` in it, at which the jobs split their keys. `pairs` is the
  bag between map and reduce. `Combine` may be taken any
  number of times, `Fail` ends a job without output; `run()` goes on.
- *Spark.* `ReduceByKey` takes any two pairs of one key.

**Fairness.** Each MPI rank runs; the frameworks run their jobs (`OnHadoop`,
`OnSpark`). A job that fails is never required.

## The persistent heap (hw5)

Three modules for three levels of one allocator, each with threads that call it.
They are not composed: `PermChunks` gives `Arena` its chunks and would multiply
its states; `Arena` takes them from a set (`pool`) and keeps, in `nonzero`, what a
chunk that was used before holds. In all three `calls[t]` is the stack of what
thread t has yet to do, an entry for each call or for each part of a call between
two operations on a lock, so the length of a critical section is the code's.

- `PermChunks`: `free` is the pair of extent trees, which are always changed
  together; `owner` the three mutexes; `base_nodes`, `base_left` and
  `base_chunks` the allocator of nodes; `dirty` the chunks that may not be zero.
  `chunk_dealloc_swap` drops `swap_mtx` to get a node (`Dealloc`,
  `DeallocWithNode`), and getting it may itself extend or recycle chunks.
- `ArenaRuns`: the page map and every operation on it under `arena->lock`, as
  operators on a record `arena`. `Arena`: the calls, `lock`, the bin, the objects
  the program has. `bin->lock` is not held across other calls, so a section under
  it is one step. A purge releases the lock between claiming pages and
  returning them (`Purge`). The counters are `size_t`s of `SizeT` values: when pages that
  another thread has claimed are in use again, `ndirty - npurgatory` wraps, and the loop
  goes on with the wrapped number (`PurgeAll`).
- `PermThreads`: `malloc_initializer` and the spin of the other threads; mutexes
  and counters of `arenas["heap"]` survive `Crash`, because they are in the
  file, and so does a bin held by a thread that is gone (`Gone`). `nthreads` has
  `CountWidth` bits and wraps. Threads start at any time, before and during `mopen` too.
  `mopen` refuses a program that has initialised malloc (`TooLate`, `perma.c:249`), but
  not one in which a thread is between its two holds of `init_lock`: then it succeeds and
  both change `plib` and the arenas without a common lock. The model has that step, sets
  `raced`, and ends the process there, since what follows is undefined; the next process
  makes its file anew. `HeapOnly` says malloc's memory is in the open heap: it fails in
  that case, and `Persistent` says in that case only. After `restore` the
  counts are those of the backup, whichever threads live (`perma.c:678-681`), so `Counted`
  leaves these runs out.

**Fairness.** `PermThreads` assumes each thread runs (`WF(Step(t))`); the calls
of the program, crashes and exits are not required. `Served` leaves out a thread whose
own arena's bin was left or saved locked (`StaleLock`) and a process in which `mopen`
raced. The other two have safety properties only.

## The containers of the heap (hw5)

Four data structures, each a group of operators on a record; the tree and the bitmap have
modules of their own. A behaviour of
`Containers` is of one of them: `rep` is its representation, `members` a ghost set
of what its callers have put in and not taken out, and an action is a call of the
allocator that changes it. `Kept` says the representation is what the code relies on (a
red-black tree is a 2-3 tree in order; the lowest level of the bitmap is the free regions;
the radix tree gives every address of a chunk that chunk; the table counts its keys) and
holds exactly `members`. The table is the exception: an insert that finds no memory has put
its key in and left another outside, though its caller (`prof.c:466-472`) takes the key it
gave for not inserted. `members` is what the caller believes, `refused` the keys of such
calls, and `Kept` says that no more keys are missing than were refused, and none if none
was. That the caller's belief is right, which it asserts (`prof.c:506-508`), is
`RemoveFinds`, which does not hold. `SearchesRight` compares every search with its
definition on the set.

- `RbTree`: the macros of `rb.h` for one instance of the tree. Insertion goes
  down and repairs on the way up along the recorded path; removal has all of the
  cases of `rb_remove`, by colour and by the place of the node.
- `BitmapTree`: a group is a set of free bits; `bitmap_sfu` takes the lowest.
- The radix tree: `rtree_set` makes the levels it needs and may lack memory.
- The cuckoo table: a key goes into a free cell of either bucket, or displaces one
  chosen at random and follows it until it comes back to its first bucket; then
  the table grows. Hash functions are constants.

These modules have recursive operators and no theorems.

## The interface of the heap (hw5)

`SizeClasses` computes what `arena_boot` and `bin_info_run_size_calc` compute, from
the build's numbers, for each value of the options. `Requests` has one block and
an action for each call; the ways through the allocator that a size leads to are
operators, and an outcome is the block (its size, the bytes that are really
its own, the alignment that is certain) or none. A `size_t` has 24 bits: four
chunks are all of memory, so the sums and products of the code wrap at sizes that
can be enumerated. What is free behind a run is a choice among the sizes the
code tells apart. `Granted` is the contract of each call. Products and sums
of every kind that the calls allow are in the run, those that wrap included. `Granted`
leaves out two kinds of calls, which break it: a `calloc` whose product is a multiple of
the word (`Vanished`; the run `calloc` shows `CallocRoom` violated), and an `rallocm` whose
sum of size and extra, which fits a `size_t` as the code asserts, wraps when it is rounded
up to pages or aligned (`Overrun`; `RallocmRoom` does not hold). `ClassesFit` says that
`small_size2bin` finds the smallest class that holds the size, that classes
increase, and that a run's regions and header fit in its pages.

## Runs

| run | instance | expects | shows |
|---|---|---|---|
| `rtt4` | 4 ranks, sizes 4 and 16, start up to 3 s apart, timely, fair | pass | two pairs: no message lost, right messages, no arrival wiped, no server thread stuck, all end |
| `untimed3` | 3 ranks, sleeps of any length | pass | barrier safe, inductive invariant (the types are part of it), refinement of `BarrierSync`, although data may be lost |
| `deriv3` | 3 ranks, 7 points, all combinations, long and short blocks, fair | pass | refinement of `SerialDeriv` but for the late blocks, nothing else freed too soon, no message or receive left, all ranks return |
| `lake` | `lake.c`: 6 x 6 cells, 2 time steps, three builds, two rows at a time; `lake-perm.c`: 3 time steps, up to 3 crashes at any step, room for 16 blocks; fair | pass | refinement of `SerialLake` and of `RestartableRun`, no race, reads inside the grid, arrays in four blocks, both end unless the heap is torn |
| `tficf` | 4 ranks, arrays of 5 entries; up to 4 documents: empty, repeated word, missing, other spelling, more entries than the arrays have; three programs, fair | pass | all three give the defined table, if the corpus fits; then no array is overrun; sizes are received before tables; they end |
| `chunk` | 2 threads, 5 chunks, sizes 1 and 2, alignment 2, 4 calls, 3 nodes in a chunk | pass | chunks and nodes have one owner, extents are joined |
| `threads` | 2 threads, 2 arenas, counters of 3 bits, 1 restart, fair | pass | thread counts, persistent memory, every call returns |
| `heap` | one part at a time: an arena (2 threads, 2 chunks of 4 pages, 2 regions in a small run, 64 values of a `size_t`, six programs of 4 to 8 calls); containers (11 keys, 7 bits in groups of 2, 3-bit chunk numbers in two levels, 5 keys that collide, up to 8 buckets); interface (sizes at the limits of classes, 24-bit `size_t`, three values of the options) | pass | runs, counters, joining and bins; containers hold what was put in, searches are right; blocks as large and aligned as asked for, but for two kinds of calls; classes, table and runs fit |
| `arena_zero` | 2 chunks of 3 pages, 5 calls with purge and alignment | violation | calloc hands out a page that is not zero |
| `chunk_zero` | as `chunk`, with the file said to be zero | violation | calloc hands out a chunk that is not zero |
| `calloc` | the interface of `heap` | violation | calloc of a product that is a multiple of the word gives too small a block |
| `lake_backup` | the smallest lakes, 1 crash | violation | a checkpointed run is lost when the process dies in the next backup |

**Why the bounds are enough.** *rtt4* is the smallest instance with two pairs, in
which a rank of one pair can be ahead of the other pair; three seconds is the
largest skew the three attempts bridge, and it is rank 0 that is late: that another rank
is late is not in the run; sizes 4 and 16 lie on both sides of the
barrier message (8 bytes) and of the socket buffer (8), so a message can be too
short for the barrier branch, and a writer can be made to wait. What holds for other
numbers and sizes is in `MyRttTimely`.
*untimed3* has a rank that sends and receives in the same barrier as one that
only waits, and rank 0 with two arrivals to order. Two barriers occur in every
run, so a message of the first can meet the second. *deriv3* is the smallest with
a rank that has two neighbours, with a remainder (blocks of 3, 2 and 2 points)
and with six requests in the test loop; its limits 1 and 3 make blocks read in
place or copied. What holds for every number of ranks is in the proofs.

*lake*: 6 x 6 is the smallest grid with cells two away from every boundary and with
neighbours inside; two steps are the fewest in which a rotated level is read again; the
numbers are integers modulo 1009 with weights that tell every neighbour apart in kind.
In `lake-perm.c`, with three crashes a restarted run is restarted before and after its
first own backup, and after a death in its restart; 16 blocks are four for each process,
so malloc never runs out. *tficf*: three workers and up to four documents, so a worker
has none, one or two; two tables share a word or not; the limit of one entry has tables
copied or read in place; five entries are full with some corpora, too few at a worker
for one and at the root alone for others. *chunk*: five chunks are one for the heap's
own state, one for nodes and three for two objects with an alignment gap; three nodes in
a chunk make a second chunk of nodes necessary. *threads*: either thread may be the
first to initialise, the other starts before, during or after that; one restart is
enough to reopen the heap and to go back; counters of 3 bits wrap if one is decremented
once too often. *heap*, arena: four pages leave a run of two with a free page on either
side; the two chunks make one the spare while the other is in use; a multiplier of 5
makes one dirty page enough to purge. Each program has the calls for one group of
operations, at the length that reaches all its branches: eight calls are needed for a
purge to find fewer dirty pages than are claimed, and 64 values of a `size_t` are far
more than there are pages. Containers: eleven keys make a tree of four levels, in which
a removal meets every case; seven bits in groups of two have three levels, the last with
a group that is not full; three keys share a bucket in every table of up to four
buckets, so the table must grow twice. Interface: the sizes are the last of each kind of
class and the first of the next, 0, and those whose rounding wraps; the extra bytes make
sums that wrap a page, a chunk or the word; the factors have a product that wraps to 0,
one that wraps and is refused, one of 0, and two that fit.

Every action of every module is taken in a passing run. Deadlock is not checked
by TLC in any run, since every program ends; where waiting for ever is the
hazard, a liveness property says so.

## Proofs

All checked by TLAPS, for every value of the constants.

| module | theorem | states |
|---|---|---|
| `MyRttBarrier` | `TypeCorrect`, `ThreadsInv` | types; program counters, barrier counts and outgoing messages agree |
| `MyRttBarrier` | `BarrierInductive` | `IndInv` is an invariant of `Spec` |
| `MyRttBarrier` | `BarrierIsSafe` | no rank leaves its k-th barrier before all have entered theirs |
| `MyRttBarrier` | `BarrierRefines` | library and benchmark implement `BarrierSync` |
| `MyRttTimely` | `TimelyInductive` | the phases of the benchmark are an invariant when sleeps are long enough |
| `MyRttTimely` | `NoArrivalIsEarly` | no arrival at the second barrier is wiped by the first one's reset |
| `MyRttTimely` | `NoMessageIsLost`, `MessagesAreRight` | no data message is read as a barrier message; each receive returns the partner's message of that number |
| `MyRttTimely` | `NoServerIsStuck` | no server thread waits for a connection that closed without a message |
| `LakePermProofs` | `PermInductive` | what heap, backup and PERM variables hold at every point of `lake-perm.c` and after every crash |
| `LakePermProofs`, `LakeSimProofs` | `ArraysApart` | the arrays of `lake-perm.c` are apart and allocated while it computes |
| `LakePermProofs`, `LakeSimProofs` | `RestartedRunIsSame` | `lake-perm.c` on the persistent heap implements `RestartableRun` |
| `PermChunksProofs` | `ChunksInductive` | the calls of each thread, and the division of the chunks among all owners |
| `PermChunksProofs` | `FreeExtentsJoined` | no two free extents touch; none is left at the end of the memory in use while there is always a node |
| `PermChunksProofs` | `EveryChunkKept` | every chunk in use has one owner, whatever the threads do |
| `PermChunksProofs` | `NodesConserved` | every node made is on the list, in a tree or in a thread's hand |
| `PermThreadsProofs` | `ThreadsInv` | the inductive invariant of initialisation, arenas and restarts, while `mopen` has not raced |
| `PermThreadsProofs` | `ThreadsCounted` | an arena's count is the number of threads that have it, until a restore or a race |
| `PermThreadsProofs` | `ThreadsPersistent` | all arenas are in the heap's file once it is open, unless a thread was initialising malloc just then |
| `DerivProofs` | `BlocksFollow`, `PointsOwned` | the blocks cover the grid without gap or overlap; each point has one owner |
| `DerivProofs` | `BlocksBalanced`, `BlocksHaveDx` | sizes differ by one at most, displacements fit; two points for each rank suffice for `dx` |
| `DerivProofs` | `Invariance`, `TypeCorrect` | calls, queues and the `MPI_Test` loop agree; types |
| `DerivProofs` | `Settled` | no message and no receive is left when all ranks are done |
| `DerivProofs` | `SendsBeforeFree` | all that may be freed before the library has read it are late blocks |
| `DerivProofs` | `SerialImplemented` | the parallel program implements `SerialDeriv`, with the cells of late blocks open |
| `LakeSimProofs` | `SimTypes` | types of the lake simulation |
| `LakeSimProofs` | `LakeImplements` | every build implements `SerialLake` |
| `LakeSimProofs` | `LoopsRaceFree` | no conflict between iterations that may run together |
| `LakeSimProofs` | `StencilStays` | the stencil never reads outside the grid |
| `TficfProofs` | `MessagesAgree` | the invariant of the messages between workers and root |
| `TficfProofs` | `SizesFirst` | the root takes each message for what it is, and with the size it was told |
| `TficfProofs` | `CompleteOutput` | every document is dealt to a worker; no output unless all were found |
| `TficfProofs` | `DataAgrees` | what the tables, their merge and the lines count, at every point |
| `TficfProofs` | `SameFile` | for a corpus that fits the arrays, the file is the sequential program's, and the defined one |
| `TficfProofs` | `ArraysSuffice` | for such a corpus no rank writes past the end of an array |
| `TficfProofs` | `TypeCorrect` | types of the MPI program |
| `TficfProofs` | `MpiProgram` | the three TF-ICF programs together imply the specification these are about |

**Assumptions**: at least two ranks, positive sizes (`NumProcAssumption`,
`SizesAssumption`), positive `NGRID` and `numproc`; for `SerialImplemented` also two
points for each rank, which `dx` needs; for the lake a grid of at least 5 x 5 cells with
its pebbles inside, positive numbers of threads and gangs, and, for the first three
theorems, `~Optimised`; for the heap's threads a finite number of them below the range
of `nthreads` (`ThreadsAssumption`), as the 32 bits of the code have it; for the
restarted lake `HeapFits`: room in the heap for four blocks of each process (what a
killed process had allocated is not given back, and no result of `malloc` is looked at),
and PERM variables that are zero when a process starts. What `evolve` computes, the
number of time steps and the number of crashes are arbitrary. For TF-ICF there are at
least two ranks, and the entries of the input directory are numbered from 1 and those
that are there are sequences of words (`TficfAssumption`); the arrays have any number of
entries. For the chunks, sizes and numbers are positive, alignments above one chunk, and
the threads finitely many, none of them the `NoThread` that a free mutex is owned by
(`ChunksAssumption`); requests and prezeroed or not are arbitrary. The theorems on the
barrier assume nothing about time, about the number of ranks being even, about fairness,
or about the lake's scheme. Those of `MyRttTimely` assume `Timely` and that a barrier
message of 8 bytes fits the socket buffers; the last three of its table rows also an
even number of ranks (`Even`), since with an odd one two ranks send to the same partner
and messages are read out of turn.

**Argument for the barrier.** `BarrierSafe` alone is not inductive: a rank
leaves because it found 0 in `glob[r][0]`, and that says something only if every
message that can put a 0 there is an acknowledgement of the current barrier. So
`IndInv` counts, for each rank, the last episode whose arrival was sent
(`ArrivalSent`), gathered (`Gathering`), acknowledged (`AckSent`) and seen
(`Seen`), and says that what is in a connection lies between two of them and is
in order (`Arrivals`, `Acks`); `Recorded` ties rank 0's loop to the arrivals.
One message could break it: a data message of rank 0 also starts with a 0 and may
be read as an acknowledgement when sleeps are short. Only rank `Half` gets data
from rank 0, and `HalfData` counts that each of its receives has used up
one, so none is left when it is in its second barrier; a message misread in the
first is counted too (`Taken`). `Control` and `Outgoing`
(proved first) tie the main thread's place to its counters and
the message it sends. The preservation proof splits on the part of the state a
step changes, by lemmas on what a step can change, rather than action by
action: a connection gets a message (`Connect`), loses its head, or is closed.

**Argument for the messages.** `TimelyInv` is `IndInv` with three parts. `Timing`
says only sleeping threads have slept. `Ports` says a rank's port is bound before
the first sleep of its barrier ends, because a second passes only when no thread
has anything to do. `Phases` says all ranks are together in one of six phases:
`Forming` (the first barrier up to its last arrival), `Closing` (acknowledgements,
up to the sleep at the end), `Exchanging`, `Second`, `Closing` again, `Leaving`. A
phase fixes what can be on its way: in the barrier, for each rank, an arrival or
an acknowledgement is unsent, in its connection or recorded, one of the three
(`ArrivalState`, `AckState`); in the exchanges the data messages rank r's partner
has sent (`Sent`) and r's server thread has copied (`Got`) differ by what is in
r's connection, one at most (`DataState`). That difference, and the order of
calls in the two halves, also shows that partners never both wait. The phases
change together because a sleeping rank wakes only on `Tick`, and `Tick` needs
every other thread to wait: in `Closing` nobody waits but for the last rank. TLC
checked the phases before they were proved. The proof has a lemma for each
phase and action; most steps are of one rank, and two frame lemmas say that the
others' part of a phase does not depend on it (`Elsewhere`, `ExchangeLocal`).

**Argument for the threads of the heap.** The counts are not inductive: they need that
the arena a thread is about to leave or join exists, that only the initialiser is
between the two halves of `malloc_init_hard`, and that nobody initialises malloc while
`mopen` opens the heap. The code does not see to the last (`perma.c:249`); `raced`
records when it fails, and the invariant `AllInv` is `Inv` for a process in which it has
not, with the types and what is in the files for every process, from which the next one
begins. `MopenRaces` is the step on which `Inv` is given up: there is no other. `Inv`
says which call may follow which in `calls[t]` (`Scripted`: every pair of neighbours is
in `Pairs`), what holds where a thread is (`Serves`), how far malloc and `mopen` are
(`Starting`, `Opening`), that a heap in the file or in the backup has an arena
(`Files`), and that threads' arenas are made (`Assigned`). Because the threads are fewer
than `CountRange`, a count that equals a cardinality cannot wrap (`HoldersBound`).
`Crash` keeps what is in the file, so the first thread of the next run resets the counts
(`Counts` is about runs in which no backup was restored).

**Argument for the chunks.** That each chunk has one owner is not inductive: what a
thread will do with an extent is in `calls[t]`, and a wrong call there would free or
insert what it does not own. `Inv` therefore also says which call may follow which
(`Script`: a `recycle` is followed by the `extend` for the same size, that by the
caller who gets the result, and after a call that closes a request nothing takes
chunks any more) and that the extents one thread holds, named in its calls or
returned to one of them, do not overlap (`Several`). Ownership is then one
statement: the pieces of all owners and threads divide the chunks below `swap_end`
(`Divided`). A step replaces pieces, and the proof has one lemma for each way:
split one (a recycled or trimmed extent), move one (insert, free), add one at the
end (`extend`), drop the last one (`swap_end` moves back), and merge neighbours.
`PiecesChange` computes which pieces a step replaces from what it does to the trees
and to the thread's hand; `ColdHand` and `WarmHand` what a push or pop of calls does
to the hand. For the join, `Joined` before the step gives that each side has at
most one touching extent, so the union touches none (`NeighboursJoined`,
`NoneTouch`). There is one lemma for each action. Of the mutexes the proof uses
only that a section under `swap_mtx` is one step: between two sections an extent in
a thread's hands is in no tree, so the others cannot reach it.

**Argument for the nodes.** `chunk_dealloc_swap` unlocks `swap_mtx` to get a node,
locks it again, joins what was freed with its neighbours as they are by then, and gives
the node back if it was not needed. `NodesKept` counts what is in a thread's hands from
its calls, so it is inductive only together with the order of the calls (`Ordered`): a
call that asks for a node has none after it that asks for another, each `dealloc2`
belongs to one question, and the unlocking of all mutexes after a copy of the heap
comes last. And `base_left` may be set to a whole chunk of nodes only where it was 0:
who waits for such a chunk, or copies the heap, holds `base_mtx`, so nobody else has
made nodes since (`BaseHeld`). `NodesInv` is `Inv` with these. The sum over the threads
is a fold; `TotalIs` finds the function on sets of threads that it is the value of, and
`SumMoved` shows that a step of one thread changes that thread's term only. Each action
then has a `Ledger`: how many extents, allocations and nodes it adds or takes.
`Profile` counts the calls that give a node, ask for one, or have one, `Swap` says
which calls a step puts in the place of which, and `LeaveKept` is the ledger of a
section of `swap_mtx`, which gives back all nodes its trees do not need.

**Argument for the restarted lake.** That a restarted run is the same needs to know what
is in which block, for every state of the heap that a crash may leave. The invariant
rests on one fact: the first process finds an empty heap, so its mallocs take blocks 1,
2 and 3 for the arrays and 4 for the scratch array, and `restore` brings back variables
that point to these three, with `used` saying so (`Begun`, `Backed`). A later process's
mallocs run before `restore`, on whatever the crash left; its scratch array must not be
one of the three, which follows because it is the fourth lowest free block
(`LowestFacts`, by the cardinality of the free blocks below it). `FirstRun` and
`Resumed` say where a process without and with `-r` can be, `Open` that both files are
open while it computes, `Copied` how far `backup` and `restore` are: the pieces before
`next` are those of the heap, as nothing writes to the heap in between. `Room` bounds
the blocks in use by those of the processes so far, so malloc never runs out. Nothing
but types is said of a lost run. The refinement then has a lemma for each action:
`evolve` is the abstract step, the copies and `tpdt` are none because the mapping
already reads the new levels from where they are, the last piece written is the abstract
save, the first one and the removal of the file discard it, and a crash is the abstract
failure. A torn heap needs no more: a process that opens one stops before it computes,
and what the invariant says of the backup does not depend on the heap. `LakeSimProofs`
takes the two results over to `LakePrograms`, whose run checks them: its steps are those
of `LakePerm`, or leave the variables of `LakePerm` alone.

**Argument for the messages of TF-ICF.** All four messages of a worker have its rank
as tag, so only their order tells them apart. `Posted` counts by the worker's
place how many it has sent, `Taken` by the root's place and loop variable how many
were received; `QueueInv` says that the difference is what is on the way, two at
most, each with the name that its number gives it. That the size agrees with the
table needs that a buffer does not change while its message is on the way: a
message longer than the eager limit is read only when it is received. A worker
replaces its table when it has the merged one (`GetUnique`), and by then
the root has received both first messages, because it broadcasts only after that
(`LinesInv`, and `bcasts` in `RootInv`). `ReadInv` says which documents a worker has
found: those with its remainder modulo `numproc - 1` before `i[r]`; every document
has the remainder of one worker (`SomeTurn`), and no other of the same remainder
lies between two that are read one after the other (`FarApart`).

**Argument for the file of TF-ICF.** The tables are folds over words. With
`Induction`, a fold is a sequence of tables, each one word after the one before
(`WordByWord`), and `ReadDocumentKeeps` says what that keeps: one entry for each word
and document found so far, with its number of occurrences, and one entry of
`unique_words` for each word, with the number of documents it is in. For the latter
the documents must come in ascending order, since the program compares with the last
document only (`currDoc`). `SerialDefinition` is that for the sequential program:
its file is the defined one. In the parallel program `Gathered` says the root's
`unique_words` has the entries of each worker it has received from, each word of a
worker once, those of worker 1 first; merging (`MergeAll`) adds numbers of documents
that are in different shares, so each is counted once, and that every document is in
a share gives the counts of the whole corpus. A worker's lines are its entries with
these counts (`PopulateLines`); they name their document, so the lines of two workers
differ, and the root has each line of the definition once (`FileOfLines`). The
invariant `DataInv` holds beside `Inv`: which buffer a message is from, and that the
buffer has not changed since, is what `Inv` knows.

**Argument for the arrays of TF-ICF.** Each table has no more entries than the corpus has
pairs of a word and a document: entries of `TFICF` are of different pairs
(`EntriesSuffice`), entries of `unique_words` of different words, each in some document
(`UniqueSuffices`), and the lines of all workers of different pairs again, because a
document has one worker (`LinesFit`). Counting needs finite sets (`PairsFinite`) and an
injection from the entries (`PairsSuffice`). `SpaceInv` says which
arrays are in use: no lines before the merged table is there, which has no word twice. With
`Inv` and `DataInv` it bounds every table of a corpus that fits (`RootFits`, `WorkerFits`).

**Argument for the partition.** Division gives `NGRID = share * numproc + extra`; the
two branches of `start` are linear in `share * r`; neighbours meet by cases on
`r < extra`, the owner of a point is found by dividing its offset by `share + 1` or
`share`.

**Argument for the derivative.** A program is a sequence made from the rank and the
command line, with loops over the other ranks. `Order` gives every call a number,
and `ProgramLists` shows that a program lists exactly the calls of
`ProgramCalls`, in the order of their numbers; so "rank r has made the call c"
(`Did`) is all that has to be said of `pc`. `Control` says for every pair of ranks
that what is in the two queues is in the order of the calls, with the tags of the
calls, that a message whose receive is gone is gone too, and that a wait is over only
when its message was read or has arrived. A transfer takes the first message with a
tag and the first receive with it. That they belong together (`Matching`) is the
heart of the proof, because tags are used twice: 123 for an edge and for a block of
xc, and 5678 for the derivative of each rank and, as 17 * 334, for the values of
rank 334. `SameTag` shows that two messages of one rank with one tag are sent and
received in the same order. `Polling` says that a request is null only when its block
has arrived, and that the loop ends when all requests are. With `Inv` proved, `Values`
says what each cell holds once the call that computes it was made or the message for
it has arrived, and `file` follows: at the call of `print_function_data` every block
was waited for (`PrintRight`). A value that is read when it is received must
still be in its buffer; `FreedCopied` gives that for every block that is not late.

**Argument for the lake.** The inductive invariant is `SimInv`. `Shape` types the
arrays. `Layout` says that `un`, `uc`, `uo` are the three blocks of the memory in
some order: without it the rotation could make two levels one, and a write to
`un` could change a cell another iteration still reads. `Made` says that what a
loop has done so far equals the sequential step on those cells: in the OpenMP loop
the finished cells of `un` hold `Evolve` of the levels before the loop, in the
"shift" loop `uc` has the cells of `un` that were copied so far.
`Printed` ties the output to the loop. The abstract step is taken at the end of a
loop (`EndOmp`, `EndAcc`); every other step changes cells the refinement mapping
does not look at.

**Only model-checked**: liveness (`Termination`, `ProgramsEnd`, `Served`), which is
out of the prover's reach, as is `ENABLED`; the containers, the size classes and
the requests, which are recursive definitions; the Hadoop and Spark programs
(`HadoopTable`, `SparkTable`); and the properties of `Arena`. The library's induction
theorems cannot be used here, but `Induction` of `DerivProofs`, `TficfProofs` and
`PermChunksProofs` replaces them where needed: a set of naturals with 0 and all
successors has all naturals, by the pigeonhole theorem for finite sets.

## Disagreements found

These have a run, which TLC must find violated:

- `arena_zero`. `arena_run_split` drops the flag for pages that are not zero from
  the first and the last page of a large run (`arena.c:416`). When part of the
  run is given back (an aligned allocation, a shrinking `realloc`) the pages keep
  the flag as it is now, and a later `calloc` does not clear them. Purged pages
  of a mapped file keep their contents, so they are not zero.
- `chunk_zero`. `mopen` says its file is zero (`perma.c:326`). When the last chunk
  in use is freed, `swap_end` moves back (`chunk_swap.c:216`) and the contents
  stay; the next extension claims zero memory (lines 89-90) and `calloc` returns
  what the previous owner wrote.
- `calloc`. A product that wraps to 0 is taken for a request of nothing before the
  test for overflow is reached (`jemalloc.c:1211-1218`), and a block of the smallest class
  is returned; `doc/jemalloc.xml.in:170-171` promises number objects of size bytes.
- `lake_backup`. A crash inside `backup` leaves a torn backup (`perma.c:503`), and the run
  is lost although an earlier backup was good; `README.PERM:26-29` promises that memory
  persists between invocations after a checkpoint.

The others were met while modelling, and TLC shows them when the constants or the
properties are changed as said, or when the property named is checked in the run of its
module:

- `base_alloc` calls `chunk_alloc` with `base_mtx` held (`base.c:25`, 43); when a
  free extent of exactly that size exists, `chunk_recycle_swap` gives its node
  back (`chunk_swap.c:43`) and locks `base_mtx` again. `NoDeadlock` of
  `PermChunks` fails with `NodesPerChunk = 2`. The prefork handler also takes
  `base_mtx` before `swap_mtx` (`jemalloc.c:1876` on: "in a safe order"), the
  opposite of that path. It needs a second thread to have been started: until
  then the mutexes do nothing.
- Nothing but the sleeps orders main and server threads in `my_mpi.c`; the README
  of `hw2/q1_submit` speaks of mutexes, and there are none. `NothingLost` fails
  with `Timely = FALSE`.
- `my_mpi.c:303` copies `rcv_cnt/sizeof(int)` of the `rcv_cnt` bytes.
- `my_mpi.c:126`: three attempts to connect, not continuous polling; ranks
  started 4 s apart do not meet (`MaxSkew = 4`).
- `p2_mpi.c:277` frees buffers that `MPI_Isend` may still read; hidden by the
  eager limit of the library for small grids. `FreedUnsent` says which sends these
  are (`Late`), and `ImplementsSerial` that they spoil no other cell; with `Late`
  left out both fail in *deriv3*.
- `p2_mpi.c:108`: a rank with one point does not know `dx`.
- `lake_opti.c:204`: the three levels overlap, and a row of `un` overwrites what
  is still read. `NoRace` and `SameLake` fail with `Optimised = TRUE`.
- A crash in `mopen("w+")`, `malloc` or `free` leaves a file that `mopen("r+")` accepts by
  its key (`perma.c:305-319`), on which malloc cannot work: every restart dies or waits in
  it. `ProgramsEnd` fails without its exception for a torn heap.
- A process that dies inside malloc leaves a bin's mutex locked in the file; the
  next process waits for it (`StaleLock`). `restore` with other threads alive
  gives them arenas as of the backup.
- `mopen` refuses a program that has called malloc by a test of `malloc_initialized`
  (`perma.c:249`), which is set at the end of the initialisation: a thread that is in the
  middle of it has its arena in memory that is not persistent (`HeapOnly`, run `threads`).
- `ckh_insert` that lacks memory has put its key into the table and leaves another outside
  (`ckh.c:158-188`, 471). The profiler takes its own for not inserted
  (`prof.c:466-472`) and asserts later that the other is there (`prof.c:506-508`):
  `RemoveFinds`, run `heap`.
- A sum of `size` and `extra` that fits a `size_t` wraps to 0 when it is rounded up to
  pages (`arena.c:2078`): `rallocm` that may not move the run shrinks it to nothing and
  reports success. `huge_palloc` adds the alignment in the same way (`huge.c:86-91`);
  `doc/jemalloc.xml.in:358-369` promises at least size bytes (`RallocmRoom`, run `heap`).
- `MAX_WORDS_IN_CORPUS` is the number of entries of arrays that have one for each pair of a
  word and a document (`TFICF.c:44`, 159, 314): a corpus with fewer words overruns them
  (`WordsSuffice`, run `tficf`).
- `choose_arena_hard` has a branch for an arena that is not there with a test
  (`jemalloc.c:199-203`) that is never true.
- `memalign` and `valloc` return an uninitialised pointer when the call inside fails.
- Spark: a document without words has the empty word, once, and size 1.
- Hadoop: the comment at line 331 and the code at line 373 have different
  formulas; results of the first two jobs are not looked at (lines 106, 134).

## What is not modelled

In the modelled parts: partial reads of a message (the pointer arithmetic of lines 212
and 252), the listen backlog, descriptors that are never closed, failures of `socket`,
`bind` and `gethostbyname`, the parsing of `nodefile.txt` and the timing arithmetic in
hw2; floating-point arithmetic, `NGRID = 1` (a division of zero by zero, in the
sequential program too) and the branch for invalid arguments in hw1; the text of the
lines TF-ICF prints, the lengths of its words, and what it does once an array is
overrun; the loss of power and failing system calls of `perma.c`; several bins in one
arena and the prng of the allocator; `ckh_delete`, the locks of `rtree.c`, and
iterations a callback stops.

Whole components, each with its reason in `PROJECT.json`. Most of the
repository's source is jemalloc 2.1, vendored with the persistent heap, and most
of that is never compiled in the repository's configuration
(`include/jemalloc/jemalloc_defs.h`): thread caches (`tcache`), profiling
(`prof`), statistics, the dss, the Mac zone. Its containers are modelled in modules
of their own and are sets in the models of chunks and arenas; option parsing and
the name tables of `ctl.c` only pass values on. The hw3 send profiler, the example of the
library, the CUDA kernels (empty, or one kernel whose blocks run in an order of
the hardware), and the Horovod lake (an order decided by TensorFlow) are not
modelled; nor are copies, exercises and data.
