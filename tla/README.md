# Verification of the Cheetah runtime and the programs beside it

The repository holds the three projects of a course on multicore computing:

| directory | what it is |
|---|---|
| `cheetah-amandahua-fatik-proj3-master/` | Cheetah, a work-stealing runtime for Cilk (C), hand-compiled test programs, benchmarks |
| `psort-fatik-amandahua-proj1-master/` | a parallel merge sort, once with pthreads and once with Cilk |
| `final-project-amandahua-fatik-final-master/` | the NAS multigrid benchmark MG in four versions: sequential, OpenMP, FastFlow, Cilk |

The runtime carries nearly all of the logic that is hard to get right: lock-free and locked
protocols between workers, a tree of closures that several workers rewrite, stacks that change
hands. It is modelled first and most closely. This file says what the parts are, what is
modelled and how, what the runs of TLC show, what TLAPS proves, and what is left.

`RT/` below stands for `src/cheetah-amandahua-fatik-proj3-master/runtime/`.

## 1. Inventory

### 1.1 The runtime

**The shadow stack and the THE protocol** (`RT/cilk2c.c`, `RT/scheduler.c` 494-547, `RT/membar.h`).
*State*: per worker three pointers into an array of frames, `head` (H), `tail` (T), `exc` (E).
*Operations*: the owner pushes at T when it spawns (`__cilkrts_detach`), pops at T when a spawned
function returns (`__cilkrts_leave_frame`), without a lock; a thief that holds the lock of the
owner's deque raises E, looks at T and takes from H (`do_dekker_on`, `increment_head`). When the
owner finds T below E it enters `Cilk_exception_handler`, which looks again under the lock.
*Hard*: two sides race on the last entry with plain loads and stores, on processors with
store buffers; the code depends on exactly two fences. *Correct if* each pushed continuation is
resumed once, by the owner or by one thief.

**Ready deques** (`RT/readydeque.[ch]`, `RT/closure.[ch]`). *State*: per worker a doubly linked
list of closures and a lock. *Operations*: extract and peek at either end, add at the bottom.
*Correct if* a closure is in at most one deque, and locks are taken deque first, closure second.

**The closure tree** (`RT/closure.[ch]`, `RT/scheduler.c`). *State*: a closure (full frame) has a
status, a join counter, call parent / callee, spawn parent / siblings, a fiber, the fiber its first
child left for it, the stack pointer its frame was called with, and a lock. *Operations*: steal
(`Closure_steal`, `promote_child`, `finish_promote`), sync (`Cilk_sync`), return of a spawned child
(`Closure_return`), return of a called child (`Cilk_set_return`), suspension and resumption.
*Hard*: a child returns, a sibling is stolen, and the parent syncs, in any order; the last one to
arrive resumes the parent (a provably good steal). *Correct if* the program behaves as its
fork-join semantics says: no sync passes early, none waits forever, no frame runs twice.

**The scheduler loop** (`RT/scheduler.c` 778-988). *State*: `fiber_to_free`, `provably_good_steal`,
the worker's `current_stack_frame`, `g->done`. *Operations*: run a closure, return one, extract
one from the own deque, steal from a random victim, leave when `done`. *Correct if* a worker never
frees the stack it or anybody else runs on, and all workers leave.

**Fibers and fiber pools** (`RT/fiber.c`, `RT/fiber-pool.c`). *State*: a pool of free stacks per worker,
private to it, and a global one behind a lock. *Operations*: take and give one; when a private pool
is empty (full), move half of its capacity from (to) the global pool and the rest from (to) the
operating system; destroy. *Hard*: fibers are given back by another worker than took them; a
batch straddles two pools and the system. *Correct if* a fiber is in one place, no buffer overflows,
nothing is leaked when the runtime goes down.

**Internal malloc** (`RT/internal-malloc.c`). *State*: per worker and globally, a free list and a
countdown for each of seven block sizes; a chunk being cut up, and the list of chunks. *Operations*:
malloc, free, batches between the two levels, under one global lock. *Hard*: the batch operations
hold the (non-recursive) lock while they call the very functions that take it. *Correct if* no block
is handed out twice, the lock is never taken twice by one worker, the counters agree with the lists,
and destruction frees exactly the chunks obtained.

**Life cycle** (`RT/init.c`, `RT/invoke-main.c`). *State*: `g->start`, `g->done`, the threads, what is
allocated. *Operations*: build the global state, the workers, the deques; start threads that spin
until the root closure is there; join; tear down. *Correct if* no worker reads what is not there yet, and
nothing is used after it is freed.

**Command line** (`RT/cmdline.c`). *State*: the option record. *Operations*: one pass over `argv`
that strips the runtime's options. *Correct if* the options in the help text work.

**Locks, statistics, debugging** (`RT/mutex.c`, `RT/sched_stats.c`, `RT/debug.c`): a spin lock from
pthreads; statistics and assertions, both compiled out (`CILK_DEBUG` and `CILK_STATS` are 0 in
`RT/rts-config.h`). The assertions are what the authors claim of the code; many of the properties
here come from them.

*How they interact.* Compiled code calls `cilk2c.c`; that works on the worker's shadow stack and, when a
frame was stolen, calls the scheduler; the scheduler works on deques and closures under their locks, takes
and gives fibers, and allocates closures with the internal malloc, from which fibers' descriptors come too.
Control goes back and forth by `setjmp` / `longjmp` between a worker's own stack and fibers.

### 1.2 The programs

**Hand-compiled tests and benchmarks** (`cheetah-.../handcomp_test`, `cheetah-.../bench`): fib, matrix
multiplication, n-queens, cilksort (each also translated by hand, with a helper function for every spawn), heat, LU,
Strassen's multiplication, sparse Cholesky, FFT. *State*: arrays and matrices, a grid, a tree of quadrants, temporaries on the
heap, boards on the stack. *Operations*: recursive functions that spawn calls on parts of that state and sync. *Hard*: what
runs in parallel is kept apart by index arithmetic (halves, quarters, a binary search, stripes that read their neighbours'
rows), by a sync between two groups of spawns, or by memory each call allocates. *Correct if* no two strands race, none
leaves its arrays or uses what has been freed, and the result is right in every order.

**psort** (`psort-.../pthread_sort.c`, `cilk_sort.c`, `main.c`): a driver that runs two merge sorts, whose recursion and whose
merge are parallel down to a cutoff. *Correct if* the parallel tasks write disjoint ranges of the target
and the result is the sorted input, with any thread creation failing.

**MG** (`final-project-.../NPB-*/MG/mg.cpp`, `common/c_randdp.cpp`): a V-cycle of stencil kernels on a hierarchy of periodic
grids, a port of the NAS code; the course's own work is to put `cilk_for` (or OpenMP, FastFlow) on the outer loops, with
temporaries and partial norms per worker. *State*: the grids u, r of each level, v, the shared norm, per-worker arrays.
*Operations*: psinv, resid, rprj3, interp, comm3, zero3, norm2u3, zran3. *Hard*: which planes the turns of a loop share; ghosts
that must be right when the next kernel reads them; partial norms. *Correct if* the turns of each parallel loop touch
disjoint data and every version computes what the serial one does.

## 2. The modules and the code

| module | models | state it keeps | composed with |
|---|---|---|---|
| `WorkDeque` | what the shadow stack promises: push, pop, steal of the oldest, each in one step | a sequence of continuations | abstract of `THEProtocol` |
| `THEProtocol` | `cilk2c.c` detach/leave, `do_dekker_on`, `increment_head`, the exception handler, one victim against any number of thieves | H, T, E, the stack in memory, the victim's store buffer, program counters, the deque's lock | implements `WorkDeque`; proofs in `THEProtocol_proof` |
| `CilkProgram` | the shape of a compiled Cilk program: a finite tree of frames that spawn, call, sync | constants only | used by the next two |
| `ForkJoin` | what a program may expect of a scheduler | the next instruction of each frame | abstract of `Scheduler` |
| `Scheduler` | `scheduler.c`, `closure.c`, `readydeque.c`, and the slow paths of `cilk2c.c` | closures, deques, their locks, frames, fibers, each worker's place | implements `ForkJoin`; uses the shadow stack as `WorkDeque` has it and fibers as `Allocator` has them; proofs in `Scheduler_proof` (closures, the frames' invariant), `SchedulerProgram_proof` (frames) and `SchedulerFibers_proof` (fibers, and the workers of frames) |
| `MCScheduler` | two programs to run on it | - | extends `Scheduler` |
| `Allocator` | what a pool promises: take an item nobody has, give one back | who holds each item | abstract of `FiberPool` |
| `FiberPool` | `fiber-pool.c`, the mapping and unmapping of `fiber.c` | the private pools, the global one and its lock | implements `Allocator`; proofs in `FiberPool_proof` (first how many fibers move, then which) |
| `MCFiberPool` | two sizes of pools side by side | which of the two | extends and instantiates `FiberPool` |
| `InternalMalloc` | `internal-malloc.c` | free lists and their counts, the chunk being cut, the list of chunks, the lock | proofs in `InternalMalloc_proof` |
| `MCInternalMalloc` | one size of block | - | extends `InternalMalloc` |
| `StackFacts` | nothing: lemmas on sequences used as stacks (push, pop, cut, what is on one) | - | extended by the proof modules of the scheduler, the pools and malloc |
| `CommandLine` | `parse_command_line` | `argv` as it is rewritten, the indices, the options | - |
| `MCCommandLine` | the words command lines are made of | - | extends `CommandLine` |
| `SortTasks` | what the two parallel sorts share: memory, the split of a merge, the sequential merge | the input, the output with its temporaries, the calls in progress | extended by the next two |
| `CilkSort` | `cilk_sort.c` | as above | - |
| `PthreadSort` | `pthread_sort.c` | as above, with the level and the thread of each call | - |
| `PSort` | `main.c` of psort: which sorts, how often, on which input | the sorts to come, whether one is in progress | composes `PthreadSort` (extends) and `CilkSort` (instance) |
| `MGKernels` | the grids of MG, the body of each loop, the random numbers | constants and operators | extended by the next five |
| `MGSerial`, `MGCilk`, `MGOpenMP`, `MGFastFlow` | the four versions of `mg.cpp`, each as its sequence of loops, with who may run the turns of each | - | instances in `MCMultigrid` |
| `LoopTeam` | a team of workers on a sequence of loops | the loop, its turns to come, the turn, temporaries and partial norms of each worker, the data, the serial program's data | extends `MGKernels`; proofs in `LoopTeam_proof` |
| `MCMultigrid` | one timed iteration of the four versions | - | extends `LoopTeam` |
| `Strands` | what fork-join programs consist of: calls, strands, spawns, syncs, memory | - | extended by the next ten |
| `SpawnSync` | a runtime for them: any order that spawn and sync allow | memory, the calls in progress | given a program by `MCBenchmarks` |
| `Fibonacci`, `NQueens`, `MatMul`, `QuadSort` | fib, nqueens, mm_dac, cilksort, of `bench/` and of `handcomp_test/` | - | instances in `MCBenchmarks` |
| `Heat`, `LU`, `Strassen`, `Cholesky`, `FFT` | heat, lu, strassen, cholesky, fft, of `bench/` | - | instances in `MCBenchmarks` |
| `MCBenchmarks` | eighteen small instances of the nine programs | - | extends `SpawnSync` |

A paragraph headed *Slips* in a module holds variants of its operators with a mistake in them
(a fence left out, a counter not kept). No specification uses them: each is put in the place of the
operator it is named after to see that the property that is meant to notice does.

### How state and steps correspond

**THEProtocol.** `head`, `tail` and `exc` are indices into the shadow stack in place of the code's
pointers. One action is one access to shared memory. The processor is x86 (the code's fences are written for
it): the victim's stores go through a FIFO buffer (`buffer`, emptied by `Drain`), and its own loads see them
(`ltail`). `Cilk_membar_StoreStore` is nothing but program order; the locked instruction in
`__cilkrts_leave_frame` waits until the buffer is empty (`LeaveFence`), as does taking a lock. `stack`,
`popped` and `stolen` are history: which continuation belongs to which detached frame, and who resumed
it. A thief's steps are those of one `Closure_steal` on this victim: `TryLock`, `RaiseExc`, `Dekker`,
`RetractExc` or `ReadFrame` and `BumpHead`, `UnlockVictim`. A continuation is resumed by the victim when its test of E
passes (or the handler says so) and by a thief when H moves.

**Scheduler.** A closure is a record with the fields of `struct Closure`; pointers to closures are indices,
never reused, so that a dangling pointer would be noticed. A frame's record holds its flags, `worker`, the
fiber its stack pointer is in (`sp`) and the one it was called on (`home`). `ltq[w]` is the part of the shadow stack
between H and T. A step runs from one lock operation to the next; `pc` names the place in the code.
`setjmp` and `longjmp` become the change of `on[w]` (which fiber the worker is on) and of `pc`. The module's
operators carry the names of the functions (`Closure_steal`, `finish_promote`,
`setup_closures_in_stacklet`, `Closure_return`, ...) and `PROJECT.json` gives the lines. Which pooled fiber a thief gets is
immaterial to everything stated, so `NewFiber` chooses one; which one the pools give, and that it is free, is `FiberPool`'s subject.
`CilkProgram!StackletAssumption` says that following callers ends, in a spawn helper or the root: true of any finite run of a program, and
what makes the recursive function `Stacklet` usable in a proof.

**FiberPool.** A pool is a sequence used as a stack, `fibers[0 .. size-1]` of the code. The lock of the global
pool is held over two steps, between which others work on their private pools: one decides how many fibers of a batch to move
(`StartRefill`, `StartDrain`), the other moves them and unlocks (`Refill`, `Drain`). The rest of the batch is mapped or unmapped after
that, a fiber at a step (`MapFiber`, `UnmapFiber`; `moving` goes on as the `i` of the code's loops), and the operation that needed the
batch is completed last (`FinishAllocate`, `FinishDeallocate`). So another worker may put fibers into the global pool while one maps some, or take
some while one unmaps: both happen in the run, and the code does not prevent them. `users` says how many times a fiber is
handed out: a fiber handed out twice would be seen. `since` and `left` are history. The system has a fiber for whoever asks or the program
ends (`CanSupply`; `SupplyAssumption` is that it could fill half of every worker's pool).

**InternalMalloc.** Memory is counted in units. A step moves one block, because the batch functions call
`cilk_internal_malloc` and `cilk_internal_free` once per block, each with its own test for an empty or full
list. `wasted` and `freed` are history. A free list has its head last. `Supply` is how many chunks the system has to give;
`EachUnitOnce` speaks of the units of the chunks obtained so far.

**CommandLine.** A step is one turn of the loop. A word is a model value but for what tells options apart
and for what `atoi` makes of it.

**SortTasks, CilkSort, PthreadSort.** A task is a call in progress, named by its place in the tree of calls. All
temporaries of one depth lie side by side in `mem[d]`. A spawned call may run before, after or between the steps of its
parent up to the sync; a thread up to the join. `free(temp)` makes the cells `UNINIT` again, so that a use after it
would show in the result. A race is two calls about to touch the same cell, one of them writing it (`NoRace`). In
PthreadSort a call that fails to create a thread does the work itself (the code's fallback). In PthreadSort the sequential
sort is one step, as it runs in one thread on cells that are its own.

**PSort.** `main` picks the sorts; `Begin` is the call of one, `CilkStep` and `PthreadStep` are the steps of the two modules,
`Finish` is the check, the freeing and the next `fill_array`. An input is any order of `N` different keys: only the order of keys is
ever looked at.

**MG.** A loop over planes is a record: kernel, level, grids, bounds, and who may run its turns (`share`): any worker
(`cilk_for`, FastFlow's dynamic `parallel_for`), the owner of a static chunk (`omp for`), each worker its own (per thread code of a
parallel region, critical or not), some one thread (`single`), or the main program. Turns take two steps, as in the code: sums of
neighbours go into the temporaries of the worker (`Begin`), and from there into the grid (`Finish`); the next loop begins when
all turns are over. A grid keeps its planes and rows; of a row the inner cells are one number and the two ghosts another, because no
loop is parallel along a row and the third axis is treated like the second within a row. Numbers are integers modulo a prime and
the coefficients of a stencil different small numbers, so that a stale, missing or doubled neighbour changes the result; the order
in which floating-point sums are rounded is abstracted away. `randlc` is computed from halves, as in the code, with halves of
`HALF` bits in place of 23; of a row of random numbers the first is kept.

**SpawnSync and the programs.** The body of a function is a sequence of items: strands (serial code that reads, writes,
allocates and frees cells), spawns and syncs. It may depend on memory, as the code's `if`s do. What is spawned and what
follows may run in any order up to the sync, which is what `ForkJoin` promises and `Scheduler` implements. In a program that is compiled by hand
each spawned call goes through a helper (`Compiled`), a call more, as in the source. Cells are named by array and index, so that an index
outside of its array is a cell that does not exist; a cell of a frame does not exist after its call has returned. Numbers are
integers modulo the prime 577, in which quotients, square roots and roots of 1 exist: results are compared exactly. The
straight-line transforms of `fft.c` (lengths 2 to 32, machine-generated) are modelled by the transform they compute.

## 3. The runs

Every run explores all reachable states of its instance. Unless said otherwise deadlock is checked, and
the specification has a step for the state in which everything has rightly ended.

| run | instance | states | what it shows |
|---|---|---|---|
| `the_protocol` | 2 thieves, depth 4, 4 spawns | 49,113 | the protocol resumes every continuation exactly once, keeps its pointers right, the exception handler decides correctly, it implements `WorkDeque`, and the lock is always given back |
| `sched_nested` | 3 workers, program of 8 frames with calls below spawns | 189,630 | closures, frames, fibers and callers stay consistent; the program runs as `ForkJoin` says; no deadlock |
| `sched_wide` | 3 workers, program of 7 frames, three spawns and two syncs in one frame | 142,397 | join counters and sibling lists agree with who has returned; every fiber has one owner; under fairness all workers leave their loop |
| `fiber_pools` | 2 workers; pools of 4 and a global pool of 1, and pools of 2 with more in use; deinitialisation | 238,608 | one place per fiber; capacities; batches half a pool apart; the pools implement `Allocator`; a worker maps (unmaps) fibers only if it left the global pool empty (full) when it unlocked it; nothing is leaked at the end |
| `malloc` | 2 workers, blocks of 2 units, chunks of 3 | 41,317 | every unit of memory is in one place; counts agree with lists; no worker takes the lock twice |
| `malloc_destroy` | as above, 1 worker | violation | finding 1 |
| `malloc_exhausted` | as above, one chunk in the system | violation | finding 2 |
| `cmdline` | every command line of up to 4 of 14 words | 120,268 | the program gets exactly its own words |
| `psort` | 5 keys in every order, cutoff 2, up to 3 threads asked for, creation may fail, either sort or both | 160,304 | every result is sorted, in spite of finding 3; `cilk_sort` is race-free; never more than four threads; the program ends |
| `pthread_race` | 4 keys, 2 threads | violation | finding 3 |
| `multigrid` | 4 versions, 4 levels (4, 2, 1 and 1 cells per side), 2 workers, memory that held junk | 145,138 | no race in grids, temporaries or norms; ghosts are right wherever they are read; every version ends with the serial result; the charges are at the extremes of the random numbers |
| `bench` | 18 instances of the 9 programs | 22,104 | no race, no access outside of what exists, the right result, in every order of strands |

### Why the bounds are enough

* *the_protocol*: a victim and two thieves is the smallest instance with a thief that fails to get the lock;
  four spawns fill the stack, and allow pops and steals at both ends of it and the last entry being contended twice. What
  grows beyond that is covered by the proofs.
* *sched_nested, sched_wide*: with three workers a frame can be stolen from a thief, while its child
  returns on a third. The nested program has each kind of closure (stolen root, spawned,
  called inside a stolen stacklet) and a second sync after a provably good steal; the wide one has a frame
  that is stolen three times and whose children return in all orders. The two programs are kept apart because
  their product is beyond TLC, and because each property needs only one of the shapes.
  `CilkProgram!ProgramAssumption` says what any program must look like; TLC evaluates it for both.
* *fiber_pools*: capacities are the smallest with a half that differs from one (4), and with
  a global pool both smaller (1) and not smaller (2) than a batch. `MaxInUse` bounds the fibers in the hands
  of the scheduler; `Fiber` is large enough that the system never runs out.
* *malloc*: chunks of three units with blocks of two waste a unit each time, and `MEM_LIST_SIZE = 2`
  makes the list of chunks grow. Block sizes do not interact except through the chunk being cut.
* *cmdline*: the longest interesting pattern is an option, its argument, a second option, and its argument.
* *psort*: with a cutoff of two, five keys give merges that swap their parts, an empty right part,
  a split of a split, and merges below the cutoff.
* *multigrid*: the turns of one loop are independent of the sizes of the others; a plane has neighbours and both ghosts at a size of 4, and
  the two coarsest levels have one cell per side, for which `interp` has loops of its own. Two workers are enough for
  a race between two turns. Each pair of loops that follow each other in a longer run follows in this one.
* *bench*: each instance is the smallest with the case it is there for: two levels of recursion below the first spawn, sizes that
  do not divide evenly (29 and 14 elements to sort, 5 rows in stripes of 2, lengths 6, 9 and 12 to transform), leaf blocks
  of one cell and of more, fill-in in the Cholesky factor, both directions of the time step. A race of any two strands shows in an
  instance in which those two strands exist.

### Fairness

Fairness is assumed in three runs. `the_protocol`: weak fairness of the victim, of each thief and of the store buffer:
processors keep executing and stores reach memory eventually. Nothing is assumed of the spin lock
itself; `LockReleased` needs none. `sched_wide`: strong fairness of a worker's step that takes a lock, weak fairness of its
other steps. The runtime's locks are spin locks held for a few instructions, so a worker that tries again and
again finds it free and gets it. (Without the strong form a worker could lose each race for a lock to a thief
that finds nothing; the code relies on chance there.) Nothing is assumed of thieves: nobody has to steal. `psort`: weak fairness of the program as a whole: some call that
can take a step does, which is what any runtime and any operating system provide. Pools and allocator have no liveness property: every step of theirs ends in a bounded number of steps
once the lock is free.

## 4. What is proved

TLAPS checks every step of seven proof modules and of `StackFacts`, on which they draw. Each follows the same line: the
properties are not inductive, an invariant made of named parts is, a lemma per action shows that it is kept, and the theorems follow.
No proof takes anything for granted beyond the assumptions of the modules on their constants, which TLC evaluates in every run.

**`THEProtocol_proof`**: for any set of thieves, any depth and any number of spawns (assumptions:
the victim is not a thief, `NOBODY` is neither, the depth is positive).

* `TypeCorrectness`, `EachContinuationResumedOnce`, `NoContinuationLost`, `ExceptionPointerRestored`,
  `PromoteAssertions`, `StolenFrameIsVisible`, `HandlerVerdictCorrect`.
* `ProtocolImplementsDeque`: the protocol implements `WorkDeque`, the deque whose ends are taken from in one step each. This is what
  entitles `Scheduler` to treat a pop and a steal as single steps.

That a thief and the victim never claim the same continuation follows
from what the victim's buffer can hold and from E being ahead of H exactly while a thief is between raising it and moving
H. The invariant `IInv` is a conjunction of named parts, each about one mechanism:
`LockInv` (who is in the critical section), `ClosureInv` (the closure's status follows the victim),
`StackInv` (T against the depth of the C stack), `PointerInv` (H and E), `BufferInv` (the newest tail is last in the buffer, none
exceeds the stack), `VisibleInv` (an entry is in memory, or in the buffer ahead of the tail that covers it), `OrderInv`
(tails in the buffer grow, but for the one that the victim waits for; none passes under a steal), `HistoryInv`
(what is below H was stolen, what is above is unclaimed). For the refinement the deque is read off the model as the continuations of
detached frames that nobody claimed; `HistoryInv` makes these a stretch of the stack, so that a claim takes an end of it
and every other step leaves it alone.

**`Scheduler_proof`**: for any number of workers and any program that `CilkProgram` allows.

* `ClosureInOnePlace`: (`OnePlace`) two workers never run the same frame, and a suspended closure is in nobody's reach.
* `CallersAlwaysWait`: (`CallersWait`) a closure waits for a called child exactly while one is alive, so that
  a provably good steal cannot resume it under its callee's feet.

`OnePlace` alone says nothing of what a thief finds when it comes back from the lock. The invariant gives each worker at most one closure, its `Hand`
(`HandInv`, with `PlaceInv` saying where it is at each place of the scheduler's loop), and says that no two hands are equal and none is suspended
(`OneHand`). Who suspends or resumes a closure relies on its callers: `CallInv` links callers and callees one to one, `ParentInv` keeps
spawn parents and call parents apart. The hard step is `FinishPromote`: between `Promote` and the end of `finish_promote` the call
chain exists only as `has_cilk_callee`, and the closures of the stolen frame's callers are made and linked without the victim's lock. That
there is at least one frame to link, and that only entered frames are linked, is `FrameInv` (which frames can have closures or be on a shadow
stack, and that all of them are marked as stolen but those still being linked) with `EnteredInv` (a frame is entered after its callers).

**`SchedulerProgram_proof`**, with the second half of `Scheduler_proof` (one proof, cut in two for its length): for any number of workers and any program,
given besides that the marker `SYNC` of a program text is not `NULL`.

* `SchedulerImplementsForkJoin`: (`ImplementsForkJoin`) the program runs as `ForkJoin` says, whoever steals what. A sync is passed, fast or slow, only when
  every spawned child has returned; a caller goes on only after its callee; each instruction is executed once and in order.
* `ShadowStackKept`: (`ShadowStackMatches`) what a worker pops is what the frames below it pushed and nobody stole.
* `ChildrenAlwaysCounted`: (`ChildrenCounted`) the join counter of a closure is the number of its spawned children that have not returned, and its list of children
  holds exactly these, in the order in which they were stolen from.

The step mapping itself is short: the abstract state is `fr[f].at`, and only an instruction changes it. What is hard is that the frame which executes one was
entitled to. Frames are at many places: current on a worker, below on its shadow stack, in a suspended closure, in a closure somebody has in hand. `FInv`, on top of `IInv`, says:

* `TipInv`: every frame that goes on when something above it returns, or when its closure is resumed, is *active* (does not wait for a call), and no
  two workers, nor a worker and a suspended closure, have the same one;
* `ChainInv`, `CoverInv`: each frame of a worker spawned the stacklet of the next, and only the stacklet of the oldest may have closures, the first of which the worker has in hand; a
  thief relies on this when it takes the oldest frame and gives closures to its callers;
* `SpawnLink`, `CallLink`, `OneClosure`: the tree of closures follows the tree of frames;
* `CountInv`, `KidsInv`, `UnsyncedInv`: the join counter is the number of living spawned children, and a frame that has some is marked unsynced (or is just being
  stolen), so that the fast path of a sync is not taken;
* `SpawnInv`, `StatusInv`, `StageInv`, `AtInv`: where a spawned frame is that has not returned, what a closure's status says of its frame, and how far frames are.

The hardest action is again the second half of a steal: the thief's frame leaves the bottom of the victim's chain (`TakenTips`, `TakenLinks`), its stacklet gets
closures (`FinishedLinks`), and the rest of the chain must still be the victim's.

The list of children rests on `SibInv`, which is kept on top of `FInv`: the right-most child is the greatest of the living children of a closure (closures are numbered as they are made),
and the siblings of a child are its neighbours among them. Two actions change a list. A steal adds the youngest (`AddYoungest`); a child that returns, at any place of the list, leaves it (`DropChild`
and its neighbours are linked), when its worker holds its own lock and its parent's, and none of its siblings'. Any other action that suspends, resumes or ends a closure is shown to leave the children of all closures the same (`QuietKids`).

The last part of the module is `PosInv`: a frame marked unsynced, or about to be stolen from, has passed a spawn and no sync after it. A frame at its end has therefore synced
and has no children, which both invariants below need.

**`SchedulerFibers_proof`**: for the same constants. `Fiber` is every fiber the pool has made so far.

* `FiberHasOneOwner`: (`OneFiberOwner`) every fiber has exactly one owner: the pool, a worker that will free it in the runtime, or a closure, which runs on it or keeps
  it for the sync of its frame. None is lost, shared, or freed twice.
* `FrameOnItsFiber`: (`OnItsFiber`) a worker is in user code on the fiber of its closure, and a frame that has passed its sync is on the fiber it was called
  on, which is what `longjmp_to_user_code` asserts.

A stolen frame goes on on the thief's fiber and must come back to its own, its *home*, at its sync. On that one its oldest child is meanwhile running. A child
that returns leaves its fiber to the parent (`fiber_child`) if it is the leftmost and none was left before; the fibers of all others are freed. Children return in any
order, a frame may be stolen from many times between two syncs, and the child on the home fiber may have been stolen from in its turn. `FiberInv`, kept on top of `FInv` and `SibInv`, says:

* `PosInv` (above), so that a frame at its end is at home;
* `FiberPart`: for each closure, that it has a fiber unless it waits at a sync; that one whose frame goes on away from home (`Strays`: unsynced, or just being
  stolen) remembers where (`orig_rsp`), and that its home is either its `fiber_child` already, or what its leftmost living child will leave (`Ends`: that child is on it,
  or has it for its own home); that any other closure is on its home; and that a caller waits on the home of its callee;
* `WorkerFibers`: a worker is on the fiber of the closure in its hand, and the frames of a stacklet under it that have no closures were called on that fiber (`HomesIn`), which
  is what the closures need that `finish_promote` makes for them (`Climbs`, `ClimbsHome`);
* `OwnInv`, the property itself for each owner, from which the cardinality in `OneFiberOwner` follows.

A child that returns keeps its fiber for the parent exactly if no older one is alive or has been before it; that this is then the parent's home, and that no other
child has it, is `FiberPart` with the order of the list of children from `SibInv`. The other hard action is promotion: the new child takes the victim's fiber over and the parent gets a
fresh one, while callers of the stolen frame have no closures yet.

* `FramesReturnAsAsserted`: (`ReturnClaims`) what the code asserts, in builds where `CILK_ASSERT` means nothing, of frames that change workers: user code runs with `sf->worker` set
  to its own worker; a full frame that returns finds its caller suspended, waiting for it, at the frame the worker is about to go on with, and owned by nobody; a spawn helper comes to its handler
  without children; a spawned closure that returns is counted by its parent, which has not returned, and does not hold the fiber that the parent keeps for its sync.

`sf->worker` is written by whoever resumes a frame and taken away by thieves, part of them late: a thief that has promoted a frame without a closure goes on under other locks to take the callers
of that frame from the victim's worker (`finish_promote`), while the victim's other frames run. `ClaimInv`, kept on top of `FiberInv`, says:

* `WorkerOf`: from the youngest frame of a stacklet down to the first with a closure, the frames a worker is at have that worker (`OwnIn`), and so has the frame of the closure in its hand; a worker
  that is returning was spawned by the frame it will go on with;
* `NullInv`: the frame of a closure that waits for a callee has no worker, except while the thief that has made it wait is between the two halves of its steal (`Pending`).

That the exception is over when the callee returns is `CallInv`: a closure that waits has one living callee, the thief has it in hand, and nobody else can return it. That a closure whose frame has
ended has no children (`EndedAlone`) is `PosInv` and `KidsInv`.

**`FiberPool_proof`**: for any number of workers, any capacity whose half is positive, any capacity of the
global pool.

* `PoolsWithinCapacity`: no array ever has to grow. That of the global pool may
  only be reallocated under its lock while nobody else looks at it, and the code has no provision for it.
* `BatchesHalfAPoolApart`: (checked by `fiber_pools` as `HalfAPoolApart`) after a batch a worker does at least half a pool of operations, less one, before its next.

The invariant adds to the capacity that a worker that is about to move fibers holds the lock and has decided on a number that is
still right (`MovesInv`), that a batch starts with an empty or a full pool, which then grows or shrinks by what was moved (`EdgeInv`), that
a worker with fibers to map or unmap left none, or no room, in the global pool (`LeftInv`), and how far the size of a pool
can drift from half in a number of operations (`DriftInv`). The proof needs nothing of *which* fibers move; lemmas
`CutStack` and `PopPush` say how many do, `Supplied` that one from the system is nobody's.

Its second part goes on with *which* fibers move, for the same constants and any set of fibers that can fill half of every
worker's pool (`SupplyAssumption`; the program ends before it starts otherwise).

* `FiberInOnePlace`: (`OnePlace` of `FiberPool`) a mapped fiber is in one position of one pool or handed out, once; an unmapped one is nowhere.
* `PoolsAreAnAllocator`: the pools of all workers with their batches and the global pool implement `Allocator`.
* `SystemUsedLast`: (`SystemLastResort`) a worker maps a fiber only if it left the global pool empty when it unlocked it, and unmaps one, before the end, only if it left it full. When it does so the global pool may have changed again; a stronger claim would be false of the code.
* `EveryFiberUnmapped`: (`NothingLeaked`) nothing is mapped at the end.

`OnceEach` (no stack holds a fiber twice), `OwnersInv` (what the workers, the global pool and the scheduler have is disjoint, and together it is what is
mapped), `HandsInv` (a fiber is handed out once, a worker has one beside its pool only while it makes room), `EndInv` (how far
deinitialisation has come). A batch cuts a stack in two and turns one part over (`CutRange`).

**`InternalMalloc_proof`**: for any number of workers, any buckets, capacities and block sizes up to a chunk, and any supply of chunks.

* `CountsKept`: (`CountsAgree`) `count_until_free` agrees with its list, although four functions write the two.
* `NeverReentered`: (`NoReentry`) a worker inside a batch finds what it needs in its own lists and so never asks for the lock it holds.
* `UnitsNeverShared`: (`EachUnitOnce`) every unit of memory the system gave is in exactly one block, list, rest or wasted end, and every chunk is recorded for release.

`BatchInv` ties the length of a list to how much of a batch is done. For the units, `UnitsInv` says of each unit of memory, of chunks obtained or not, how many
claims there are to it; a lemma for each place a block can be in says which claims appear and disappear when it moves (`ListPops`, `ListPushes`, ...),
and what is cut off the current chunk was claimed by its rest alone. `RecordInv` is about the list of chunks and its growth.

**`LoopTeam_proof`**: for any size of grid, any number of workers, any programs whose loops are independent. That is the
part of `ProgramAssumption` that says what the four versions have in common (`Independent`: a kernel that reads next to a cell writes another
grid than the one it reads there, and what adds to a norm is in a critical section, in a serial part, or a single turn); TLC evaluates it on the four.

* `TurnsDoNotRace`: (`NoRace` of run `multigrid`) no two workers are ever in turns of which one writes what the other reads or
  writes.

Lemma `TurnsApart` is about data: two turns of one loop touch different planes (`axis3`: rows) of what they
write; for `interp`, which adds to planes 2i and 2i+1, it is arithmetic (`TargetsDiffer`). The invariant is about
the team: nobody has a turn that is still to come or that another has (`TurnInv`), and in a critical section or a
serial part at most one worker has any (`AloneInv`).

Out of the prover's reach, and left to TLC: liveness under fairness (`LockReleased`, `Termination`, `Terminates`),
`ENABLED`, what a recursive function computes for every argument (`BinarySearch`, the sequential merge), since the
induction theorems of the library cannot be instantiated. RECURSIVE operators are found only in `QuadSort` and `Strassen`, which hold no theorem; elsewhere, where
the code recurses, the models have recursive functions or tasks. Model-checked only, so far: of `Scheduler`,
that no frame on a shadow stack or in a closure loses its fiber to another (`StacksKept`, whose argument goes along chains of called and
spawned closures of any length), and what the workers hold at the end (`NothingLeftBehind`); everything about `CommandLine`, the sorts and the benchmarks; what MG computes.

## 5. Findings

1. `global_im_pool_destroy` (`RT/internal-malloc.c:310`) hands every element of `mem_list` to `munmap`, up to the
   capacity of the array and not up to the last chunk; the elements above were never written. Run `malloc_destroy`.
2. `malloc_from_system` (`RT/internal-malloc.c:204`) checks the result of `mmap` against `NULL`, which is not
   what `mmap` returns on failure; the check always passes. Run `malloc_exhausted`. (The trace ends with a block cut off that address; the
   program would fault as soon as it writes there, the link of the free list being the first such write.)
3. `p_pthr_merge` (`psort-.../pthread_sort.c:253`) passes the sizes of the whole input to the thread that was to
   merge a part: the thread merges everything, and its parent writes the same cells at the same time. The result is
   right, since both write the same values. Run `pthread_race`; compare `cilk_sort.c:63`; `ResultSorted` of run `psort`.

Seen while modelling, but not runs of their own: 

* the help of the runtime lists `--fiber-pool` and `--v`, the table has
  other strings for those options, and `--`, which the help lists, is rejected (`RT/cmdline.c:17-30`);
* `--stacksize` is stored and never used: `cilk_fiber_allocate` maps stacks of the default size (`RT/fiber.c:172`);
* `pthread_sort` rounds the number of threads it is asked for up to a power of two (`pthread_sort.c:214`), while the usage of
  `main.c:143` promises that number;
* `__cilkrts_leave_frame` (`RT/cilk2c.c:116`) adds `~CILK_FRAME_DETACHED`, that is -5, to the flags of the frame it
  leaves; clearing the flag takes -4. Nobody reads the flags afterwards;
* the depth of the shadow stack is checked by an assertion only (`RT/cilk2c.c:55`), which is compiled out;
* the comment on `promote_child` (`RT/scheduler.c:517`) believes that a ready deque then holds more than one closure; it never does (`OnePlace`);
* in MG, `rnmu` is never initialised and never reset between norms (`NPB-SER/MG/mg.cpp:872`, `:902`), so the maximum printed is of all norms so far, or of junk;
* `setup` of MG (`NPB-SER/MG/mg.cpp:393`) uses the sizes of the y and z axes the other way round, which matters for a grid that is not cubic;
* the Cilk and FastFlow versions allocate the partial norms at each norm and free none of them; with `FF_NUM_THREADS=0` the latter divides by zero;
* `cilkmerge` copies one element less than there is when the first part is empty (`bench/cilksort.c:341`); with `MERGESIZE` of 2 or more that branch is
  not reached with a second part. The comment on `binsplit` (`:291`) says "greatest element <= val", the code finds the greatest one below it;
* `bench/cholesky.c:959` factors a variable that was never set when `TIMING_COUNT` is 0; the factors of all rounds but the last are leaked;
* `bench/mm_dac.c:153` reports "passed" after it has reported a failure;
* `fft_twiddle_32` and `fft_unshuffle_32` are never called: `factor` never answers 32.

## 6. What is not modelled

* **Life cycle**: `Scheduler` begins when `g->start` has been seen and ends with the workers' loops; construction, threads,
  affinity, and freeing are left out, except for the fibers' part of it (`FiberPool`).
* **Locks, statistics, assertions**: locks are single steps; the rest is compiled out.
* **MG**: floating-point values and the verification against stored norms (with an absolute epsilon of 1e-8); `mg.input`; grids that are not cubic; what is printed.
* **Benchmarks**: options, timing, printing, the file input of `cholesky`, the check by a random vector of `strassen`; floating-point rounding.
* **Third-party NAS files**: timers, printing, the generator of parameters. Of `c_randdp.cpp`, everything but the first number of a row.
* In `THEProtocol`, loads are not reordered with other loads (x86 does not), and the thief's stores reach memory at
  once: it makes them between locked instructions. Weaker processors are out of scope, as in the code.
* In `Scheduler`, memory is sequentially consistent; what the store buffer can do to the shadow stack is `THEProtocol`'s subject,
  and everything else is written under locks that flush the buffer, or is the worker's own.
* In `InternalMalloc`, requests above the largest bucket (the system's `malloc`), and with one of exactly 2048 bytes, which is taken
  from the system and given back to a bucket: no caller makes one.

## 7. Plan

Modelled and checked, in this order: the THE protocol, the scheduler, fiber pools, internal malloc, command line, the two
sorts, their driver, MG, the benchmarks. Proved: the THE protocol with its refinement, where closures are and who waits for whom in the
scheduler, that it implements the fork-join semantics and gives every frame its fiber back, fiber pools with their refinement, internal malloc, that MG does not race. To come:

1. **Proofs about the scheduler**, on top of `FInv`, `SibInv`, `FiberInv` and `ClaimInv`: `NothingLeftBehind`, then `StacksKept`.
2. **Proofs about the sorts**: that the split of a merge gives disjoint parts (`SortTasks`), and the number of threads (`ThreadsBounded`), for every size.
3. **Life cycle**: module `Lifecycle`, start, done, join, tear-down; composes with `FiberPool!Destroy`.
4. **THE protocol, continued**: a resumed spawn helper that leaves with an empty stack, which `Scheduler!EnterHandler` covers abstractly.
