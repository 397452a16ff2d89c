# A verification development for the CSC369 systems projects

The repository holds independent C programs: two user-level thread libraries, a
virtual memory simulator, a FUSE file system, and some tools. This directory
models them in TLA+, model-checks the models with TLC and proves theorems about
them with TLAPS. Modules are faithful to the code, defects included: six runs show
places where the code does what its own comments rule out. The end of section 7 lists
what else was seen and no run shows, and a hazard of `PROJECT.json` without properties
says why none covers it.

Notation: `thread.c:110` is a line of `src/Preemptive Threads/thread.c`.
`PROJECT.json` lists the runs, the mutants, the findings, the hazards, the
theorems and, in `map`, the source lines every definition stands for.

## 1. The system

### Preemptive threads (modelled)

| Part | State | Operations |
|---|---|---|
| `thread.c`, threads | `thread_list` (tid to structure), `tid_used`, `current`, per thread `state`, `killed`, `resumed`, `w_exit`, `wait_queue`, saved context, stack; `stack_to_free` | `thread_create`, `thread_yield`, `thread_exit`, `thread_kill`, `thread_wait`; internally `thread_switch`, `thread_sleep`, `thread_wakeup`, `thread_destroy`, `thread_end` |
| `thread.c`, locks and cvs | `holder` of each lock, `owner` of each wait queue, number of cvs of a lock | `lock_create/destroy/acquire/release`, `cv_create/destroy/wait/signal/broadcast` |
| `fcfs.c`, `rand.c`, `schedule.c` | the ready queue: a circular array, or an unordered array | `enqueue`, `dequeue`, `remove` behind `scheduler` |
| `queue.c` | doubly linked wait queues threaded through the thread structures, `in_or_not` | `queue_create/destroy/push/pop/remove/top/count` |
| `interrupt.c` | the blocked timer signal | `interrupt_set`, `interrupt_handler` (calls `thread_yield`) |

Interaction. Every library call blocks the timer signal, changes shared
structures, and may leave through `thread_switch`, which saves the caller with
`getcontext` and continues another thread with `setcontext`; the caller's frame
is resumed in the middle of its call when somebody switches back. So the code is
sequential between switches, and everything that was read before `thread_sleep`
may be stale after it.

What is hard: resumption with stale state (`thread_wait`, `lock_acquire`,
`cv_wait`); a kill of a thread in any state, which takes effect only in
`thread_switch`, nested inside whatever call that thread was in; a stack that
cannot be freed by the thread that runs on it; refusing exactly the sleeps that
would deadlock; the thread structure shared by three containers.

What makes it correct: a thread is in exactly the queue its state names; ready
threads run; a join returns, with the exit code; tids and structures are not
reused under a joiner; stacks are neither leaked nor used after they are freed;
no cycle of waiting threads is ever closed, and none is imagined; a free lock is
handed to those who wait for it.

### Cooperative threads (modelled)

The earlier library: no signal, no locks, `thread_wait` yields in a loop until
its target has exited and then destroys it, `thread_kill` only sets a flag, which
`thread_switch` tests once. What is hard: a killed thread that had been switched
out exits with its `resumed` flag set, so one `thread_switch` returns into the
dead frame of another; `thread_wait` holds a pointer to its target across yields.
Correct when: no thread is lost on the way, a killed one runs only its exit, and
the structure a waiter points to is there.

### Virtual memory simulator (modelled)

| Part | State | Operations |
|---|---|---|
| `pagetable.c` | page tables; entries that are resident, swapped or absent, and may share a frame (copy on write) or a swap slot | `handle_tlb_fault`, `page_walk`, `handle_frame_evict`, `duplicate_pagetable`, `free_pagetable` |
| `coremap.c`, `ptrarray.c` | the frames, each with the array of the entries that refer to it and the task that allocated it; `mem_usage`, `last_alloc` | `allocate_frame`, `frame_link_pte`, `frame_unlink_pte`, `init_frame` |
| `s2q.c`, `clock.c`, `rand.c`, `rr.c` | the lists or hand of each replacement algorithm | `init`, `ref` (never called), `evict`, `cleanup` |
| `swap.c`, `tlb.c` | swap slots with a bitmap; the TLB, replaced at random | `swap_pageout`, `swap_pagein`, `swap_free`; `tlbp`, `tlbwi`, `tlbwr`, `tlb_translate` |
| `multiprocessing.c`, `sim.c` | the tasks of a trace | start, end, fork, load, store |

The program is sequential; what is hard is that one page is described in four
places (TLB, page table entry, frame, swap slot), that handling one fault may
evict other pages in its middle, and that fork makes frames and slots shared.
Correct when: a translation the TLB gives is the one of the page table; the
lists of the core map and the page tables agree; a page's content is the one
last written; a frame is evicted only when none is free.

### ExFS (modelled)

| Part | State | Operations |
|---|---|---|
| `exfs.c` | inodes with extents or inline data, the root directory as blocks of entries, checksums, times | lookup, `create`, `unlink`, `utimens`, `truncate`, `read`, `write`, `readdir`, `getattr`, `statfs` |
| `bitmap.c`, `mkfs.c` | inode and block bitmaps, superblock counters | allocate, free, format |

The mount is single threaded (`options.c:79`); the image is a shared mapping of a
file. What is hard: a call works on four structures in turn (bitmap, counter,
inode, directory) and may fail between any two; an inline file keeps its bytes in
the space of its extents, so converting it overwrites what a rollback needs; a
file grows over several free runs and may run out of blocks, or of extents, in
the middle. Correct when: a block or inode is marked used exactly if something
refers to it, even after a call that failed half way; counters agree with the
bitmaps; the bytes of a file survive growth, conversion and truncation; a call
that fails changes nothing and fails only for want of space.

### Trace generator (modelled)

| Part | State | Operations |
|---|---|---|
| `simplify_trace.c` | one activation per process: flags, address space, buffered lines, file; a queue of children per process | read a reference, recognise a marker of `marker.h`, recurse into the child's log at a fork, flush the buffer |
| `schedule.py` | the files being combined, the turn and its length | begin, fork, end a process, copy a line |

What is hard: the log of a child is read in the middle of its parent's, with a
copy of the address space, while lines whose values are not yet chosen are in
the parent's buffer; the order of the flush, the fork line and the copy decides
whether parent and child agree. Correct when: every load in the trace has a value
a private memory copied by forks would give, in whatever order the processes are
scheduled, and the buffer keeps the order of last uses.

### The rest

The queue exercise is the first version of `queue.c`. The FUSE passthrough
forwards each call to one system call; the trace parser and `convert.c` process
text; `examine_ucontext.c` prints a structure; `khash.h` is vendored; the
programs beside the trace generator are what it traces. They keep no state over
which an invariant could be stated, and are not modelled.

## 2. Plan

Order, most important first; a module marked * exists.

1. *`Threads`, `Sync`*: thread life cycle, then locks and cvs on top of it.
2. *`AbstractQueues`, `ThreadQueues`*: what the containers promise, and the
   arrays and lists that keep the promise, so that `Threads` may use sequences.
3. *`QueueLemmas`, `Threads_proofs`*: the inductive invariant of `Threads`.
4. *`AddressSpaces`, `VirtualMemory`*: page tables, frames, swap slots and TLB of a
   few tasks; abstract specification: a memory per task (what was last written
   is what is read). Left: properties that hold, and runs for the defects that
   show, when a fork meets evictions (the hazards at `pagetable.c:171`, `392`,
   `464`, `473`).
5. *`Files`, `Extents`, `ExFS`*: block allocation, conversion and rollback within a
   call, then the calls; abstract specification: a map from names to contents.
6. *`TraceMemory`, `Simplify`, `Traces`*: the reduction of the logs, then the
   scheduler on its result; abstract specification: a memory per task.
7. *`CoopThreads`, `CoopThreads_proofs`*: the cooperative library on the variables
   and actions of `Threads`, and the invariant of both libraries.
8. *`Sync_proofs`*: the invariant of `Threads` under the lock and cv calls, and what
   the calls promise; *`VirtualMemory_proofs`*: types for every trace, the
   agreement of the tables and the refinement for traces without forks;
   *`ThreadQueues_proofs`*: array, lists and the refinement.
9. *`ExFS_proofs`*: what the loops of `Extents` do with the blocks and bytes of one
   file; with that, the types, the accounting of the blocks, the checksums, what a
   failing call leaves, the directory, and the refinement of `Files`.
10. *`Traces_proofs`*: the types, the order of last uses, and the refinement of
   `TraceMemory`.

## 3. The modules

### Threads

One variable per field of the code (an abstract set where the field is a flag):
`state[t] = "FREE"` is `thread_list[t] == NULL`; `ready` is the content of the
scheduler, `waiters[q]` that of each `fifo_queue_t` (a join queue per thread, one
per lock and per cv); `owner` the `owner` field of a lock's queue.

The grain of the actions is the one of the code. There is one processor; the
variable `cpu` says what it executes next, and a call that changes thread in its
middle is several actions:

- `cpu = "user"`: the program runs; every library call is enabled, and so is
  `YieldAny`, which is both `thread_yield(THREAD_ANY)` and the timer signal;
- `"dispatch"`: `thread_switch` has made another thread current but still runs
  on the old stack; it tests `killed` there (`KilledExit`) and otherwise calls
  `setcontext` (`Dispatch`);
- `"kernel"`: a thread resumes in the middle of the call `cont[current]`
  (`WaitResumed`, and in `Sync` `AcquireResumed`, `CvSleep`);
- `"exit"`: `thread_exit` has woken its joiners (`BeginExit`) and now ends the
  process (`ProcessEnd`), switches (`ExitSwitch`), or, when the `resumed` flag
  is still set from an earlier switch, comes back (`ExitSwitchReturns`);
- `"again"`: `thread_switch` after that return, before its second exit;
- `"halted"`: the process has ended.

In every state but `"user"` the actions enabled belong to one call, so nothing
interleaves while the signal is blocked. Calls that return an error code and
change nothing are stuttering and have no action. `exit_code`, the start
function and its argument are data no decision reads.

The walk of `thread_sleep` from holder to holder is `WalkMeetsCurrent`, stated
without recursion: every set of threads that contains the first holder and
is closed under "is blocked by" contains the caller.

### Sync

Extends `Threads` with `holder`, the existing `locks` and `cvs`, and one action per
call. `LockOf` is the lock given to `cv_create`. `lock_acquire` is the loop of the
code: `Take`, or `SleepFor` and again from the top when resumed. Both errors of
`thread_sleep` (a deadlock, nobody else to run) are `GiveUp`.

Assumed of the program, as guards: it releases, and waits on a cv of, only locks
it holds (the library asserts this); it exits only without locks (`MayExit`); it
kills no thread that holds, or was last to hold, a lock (`MayBeKilled`); it
destroys no lock or cv while another thread is inside a call on it
(`NobodyInside`). The library checks none of the last three; a program that
breaks one leaves dangling pointers or a lock nobody can release, which is
listed as a hazard.

### AbstractQueues, ThreadQueues

`AbstractQueues` is the promise: under fcfs the ready queue is a sequence, under
rand a set, wait queues are sequences. `ThreadQueues` is the code of `fcfs.c` (a
circular array with `start` and `end`, which may rest one past the last slot;
`fcfs_remove` shifts modulo the capacity), `rand.c` (the last element fills the
hole) and `queue.c` (head, tail, next, prev, size). `Chain(first, link)` is what is
met by following `link`, at every length, so that `Nth(q, n)` is defined whatever the links
are. `Abstract == INSTANCE AbstractQueues WITH ...` is the refinement mapping and
`ImplementsQueues` the property. The guard "a thread enters a queue only when it is in none" is what
`QueueDiscipline` of `Threads` establishes for its callers.

### AddressSpaces, VirtualMemory

`AddressSpaces` is the promise: every task has a memory of its own, zero at first,
copied by a fork, in which a read finds what was last written; a page may be
forgotten only once `swap_pageout` has reported a full swap space. In
`VirtualMemory` a page table entry is a record with the fields of
`struct pt_entry_s`; `refs[f]` is the array `frame->refs`, as entries named by
task and page; `tlb` is the set of the valid TLB entries. The bytes of a page
are one value.

A line of the trace that starts a task is one action. One that ends or forks a task
walks its page table: `FreeTask` and `Fork` begin the loop over `LastPage`, and `FreePage`
and `DupPage` are its turns, with the bookkeeping of one page each. The child
exists after the last turn of `DupPage`; the parent of a fork and a task that ends make no
access in between. A load or
store goes through the steps of its handlers, and `cpu` says which is next:
`tlb_resolve_addr` (`LoadHit`, `StoreHit`, `Fault`), `page_walk` with
`find_frame_number` (`WalkResident`, `WalkAbsent`, `Fill`), `allocate_frame`
(`AllocFree`, `AllocEvict`, `AllocFails`, `EvictDone`), one `EvictRef` per turn
of the loop of `handle_frame_evict`, with the array shifted under it as
`ptrarray_remove` does, the copy on write (`CowFault`, `Copy`), and the TLB entry
(`Insert`). The split is not concurrency: it lets `allocate_frame` be entered
from both of its callers, with the state each holds across the call. `cpu` also names the
ways the simulator stops: a failing assertion of `tlb_translate` or of
`allocate_frame`, or the use of an entry that was freed. `mem_usage` is unsigned;
its values after a wrap are all above `memsize` and stand as -1. `Victim` is what the four
algorithms choose as the simulator uses them: `ref_func` is set in `sim.c:231`
and called nowhere, so no reference bit is ever set and the lists of `s2q.c`
stay empty. Tasks are numbered in the order they start, as `schedule.py` writes
traces, and no number is used twice.

`Content` and the instance `AS` are the refinement mapping: a resident page is
its frame, a swapped one its slot, any other zero. `ImplementsMemory` is the
property. An eviction that saves a page and the fault that brings it back are
stutters; the write of `StoreHit` is `Write`, the eviction without a slot `Forget`.

### CoopThreads

Extends `Threads` with `library`, the one of the two the program is linked with, and
`waits[t]`, the target of the `thread_wait` thread `t` is inside. The two versions
of `thread.c` share structures, queues and most functions, so `CoopNext` is built
of the actions of `Threads` under the guard `Calling` (no other call is made from
inside `thread_wait`), and says where the libraries differ: `WaitTurn` is one turn
of the loop of `thread_wait`, a yield to the target or its destruction; `CoopKill`
finds no sleeper to wake; and where the preemptive `thread_switch` would test the
killed flag again (`ExitSwitchReturns`), `SwitchReturnsTwice` is the whole round
trip of the cooperative one: the nested call returns at once into the one that
found the thread killed, which goes on with `setcontext` of the context just
saved, comes back into the nested call, now with its flag cleared, and continues
the thread that was dequeued. The frame it comes back to is dead but not yet
overwritten: between the return and `setcontext` that call only stores to fields of
the thread structures. There is no `YieldAny` by a signal.

Assumed of the program: no two threads wait for the same one (`MayWaitFor`).
`ut369.h:240-241` allows it, and the second waiter would read and destroy a freed
structure.

### Files, Extents, ExFS

`Files` is the promise: a map from names to bytes, in which a call that succeeds does
what it was asked and one that fails does nothing, and fails for want of space or size, as
the comments of `exfs.c` say, or because the name is missing or taken. `utimens` with
`UTIME_OMIT` (`Omit`) succeeds without looking the name up, on an absent one too.
`Extents` is what one call does with the blocks of one inode: its
operators take and return a record of the bitmap, the free counter, the bytes of
the data region and the inode, and stand for one C function each
(`EnsureBlocksForSize`, `AppendExtentRange`, `FreeLastBlock`,
`ConvertInlineToExtents`, `ShrinkToSize`, `InodeChecksum`). An error is left in
`rc` and skips what follows, as the early returns do; the undo code of each
caller is an operator of its own (`RolledBack`, `Restored`, `Undone`), since a
missing undo is what could be wrong. `store` is the bytes of an inline inode and the
sequence of extents of any other, as the C union is. Loops are recursive
functions bounded by the number of blocks; `rc = "LOOP"` is a loop that never
ends (a turn that allocates nothing), `"ASSERT"` the assertion of `bitmap_free`.

`ExFS` has one action per FUSE call that changes the image, atomic because the
mount is single threaded, and operators for those that read. What a call takes and gives
back when it fails is spelled out: `Released` is the `bitmap_free` of the block in
`dir_grow_block` and of the inode in `exfs_create`. `Init` is what
`mkfs.c` leaves of an image full of ones. The entries of the directory are
`dir`, a sequence as its blocks are read; `mtime` distinguishes the present, the
past and a given time. Bytes are bits: XOR, copying and zeroing need no more.
`F == INSTANCE Files` maps the contents a reader would see, block by block (`FilesSeen`).
`ImplementsFiles` is its specification with one exception said aloud: a call that
never returns (finding 6) is no step of `Files`, and changes nothing readers see.

### TraceMemory, Simplify, Traces

`TraceMemory` is the promise to the simulator. In `Simplify` the state is the stack of
activations of the recursive `simplify_trace`, each a record with its local
variables, and one action is one line of the log it reads: `ReadReference`,
`ReadMarker` (the stores of `marker.h`, in the orders a traced process can make
them: `MarkerStores`), `ReadIsParent`, at which the parent's buffer is flushed
and the child's activation is pushed, `EndOfLog`. `Recorded` names where in the
program a reference reaches the file; it is used for the history variable `recency`
only. `Traces` adds `combine` and the random scheduler of `schedule.py` (a turn
has one line more than the quantum, as its counter is reset before it is
compared). `memory` is a history variable: what the trace so far says of each task, by vpid + 1
as the tasks have no bound. The F lines of a file name a pid, those of the trace the vpid the scheduler
gave to it. `M == INSTANCE TraceMemory` counts the tasks by `pid` and takes those out of
`processes` for ended.

## 4. The runs

| Run | Instance | Distinct states | Shows |
|---|---|---|---|
| `threads_kill` | `CoopThreads`, either library, 3 threads, rand, kills, failing malloc | 41,396 | what survives kills: `TypeOK`, `QueueDiscipline`, `KilledNeverRuns`, `JoinersWoken`, `JoinerFindsZombie`, `ExitCodeKept`; in the cooperative library `KillsLoseNobody` |
| `sync` | `Sync`, 3 threads, 2 locks, 1 cv, fcfs, no kills | 183,748 | the rest: nothing ready is lost, stacks, deadlock avoidance sound (`NoWaitCycle`) and precise (`OnlyRealDeadlocks`), `LockHandedOn`, `HolderIsActive`, `WokenInOrder`; liveness `ReadyRuns`, `JoinReturns` |
| `thread_queues` | 4 threads, 2 lists, capacity 4, both schedulers | 63,901 | the containers implement the sequences, `queue_push` never asserts, lists are linked both ways |
| `vm` | 2 tasks with 2 and 1 pages, values 0 and 1, TLB of 2; rr and rand with 2 frames and 2 slots, s2q with 2 frames and 4 slots, and with forks clock with 5 frames | 4,594,710 | the four descriptions of a page agree (`TlbAgrees`, `RefsAgree`, `SlotsOwned`), `WritersAlone`, `NoDoubleFault`, and the memories of the tasks are those of `AddressSpaces` |
| `exfs` | images of 10 blocks with 3 inodes and of 7 with 2; blocks of 3 bytes, 2 inline, 2 extents; 2 names | 34,650 | no block or inode is lost, shared or freed twice (`SpaceAccounted`, `DirectoryMatchesInodes`), `ChecksumCurrent`, `FailedCallChangesNothing`, `FailsOnlyForSpace`, `MtimeFollowsChange`, and files behave as `Files` |
| `traces` | 3 sets of programs with up to 3 processes and 2 forks, 3 references, 2 values, a buffer of 3 | about 2,240,000 | the trace is one of private memories (`ImplementsMemory`), `LastUsesKept` |
| `kill_ends_early` | 3 threads, kills | violated | `EndsWhenNobodyCanRun` (finding 1) |
| `wait_keeps_tid` | 3 threads, no kills | violated | `WaitedIsReleased` (finding 2) |
| `kill_loses_wakeup` | 3 threads, 1 lock, kills | violated | `LockHandedOn` (finding 3) |
| `vm_stale_tlb` | 2 tasks, forks, clock, 2 frames | violated | `EvictedUnmapped` (finding 4) |
| `vm_victim_unused` | 2 tasks, no forks, rr, 2 frames | violated | `VictimHoldsPage` (finding 5) |
| `truncate_hangs` | the images of `exfs` | violated | `CallsReturn` (finding 6) |

Why these bounds. Three threads are the least with a thread that exits or
is killed, one that waits for it, and a third that interferes between the
wake-up and the run of the second; cycles of three waiting threads, through
joins and both locks, occur, and the highest unused tid is reused. Two
locks give lock-order deadlocks; the cv's lock and the other one differ in what
`owner` means. The queues need the array to be full, to wrap and to lose an
element on either side of the wrap: capacity 4 with 4 threads does all three,
and every number of threads up to the capacity occurs on the way. Properties
that need no kill are checked in `sync` without kills because finding 1
breaks them; those that hold with kills are checked with kills, under rand,
whose interleavings include those of fcfs.

The memory run has three pages that are used and two frames, so an eviction is
always near; two slots for three pages fill the swap space (`Forget`), four do
not. Two TLB entries for three pages make an entry leave by replacement as well as by
eviction. With forks there are five frames, enough for every page of both tasks
and one more, so nothing is evicted: where a shared frame is evicted the
simulator does lose pages (finding 4, and the hazards of section 2, item 4), so the passing
run says nothing of forks with few frames. The value 0 is stored as well as 1: a
store that lands in a shared frame must differ from what was there.

The cooperative library is checked under the bounds of the preemptive one: a
killed thread that was switched out, one that is dequeued in its place, and a third
that waits are the three threads. Locks play no part there.

ExFS needs blocks to be scarce and scattered. With 10 blocks 6 are data, one of
them the directory's, for two files and a directory that may grow: two
extents of a file are used up before the blocks are, files fragment each other,
and every failure (no inode, no block, no extent, file too big) occurs in the
middle of a call, as does the rollback of a conversion. Sizes go from empty over
inline (2 bytes), the first block and several blocks to one that cannot fit;
writes start inside, at the end of, and beyond the file. 48 and 51 bytes are 16 and 17
blocks, `Width` and more: the 32-bit count wraps, as it does at 2^44 bytes, to 0 or to a
small number of blocks; the daemon then loops (`truncate_hangs`) or refuses the
size when blocks or extents are used up. The
directory has room for one file in its first block and must grow for the second;
the 7-block image has an inode for one file only. There is no image
with so many files that the directory runs out of extents: that `dir_grow_block` then gives its
block back is proved (`RootGivesUp`), while the inode a failing `create` gives back is what the
second mutant of `FailedCallChangesNothing` keeps. The view of `MCExFS` leaves out `call` and `mtime`, which no action
reads, and the bytes of free blocks, which every allocation overwrites
(`AppendExtentRange` zeroes them, `DirGrowBlock` too); the properties that speak
of `call` and `mtime` speak of a step's new values. File names are symmetric.

The traces have a process that forks twice, a child that forks, and two programs: the
three shapes a marker file takes with two forks. Three references at two
offsets of one page, as loads or stores, plus the marker stores fill a buffer of
three and flush it before, at and after a fork; an offset beyond the page size
shows the reduction modulo it. A quantum of 1 interleaves files line by line and by
two. Byte values are symmetric: they are copied and compared, never computed with.

Each property of a passing run has a mutant or two: a plausible change of one
definition (a dropped test, a swapped order, a flag not looked at) under which
TLC finds that property violated. The mutated operators stand before the
definition they replace, marked "Mutant".

Deadlock is checked in all passing runs: a state in which the processor has
nothing to do, other than `halted` (and, in the memory run, the end of the trace
and the named ways to stop), would be reported.

Fairness. `WF` on `WaitResumed`, `Switching` and `LockResumed`: the processor goes
on executing the library. `SF` on `YieldAny`: the timer is periodic, a signal
that arrives while blocked stays pending and is delivered when the library
returns to the program, so a thread that passes through `"user"` again and again
is preempted. Weak fairness would not do, since calls disable `YieldAny` while
they execute. No fairness is put on what a program does: it need not exit,
release or signal. Under rand a ready thread may never be chosen, so `ReadyRuns` is
checked under fcfs.

## 5. Findings

1. `thread.c:110`. `resumed` means "this `getcontext` returned for the second
   time". A killed thread that had been switched out still has it set when
   `thread_switch` makes it exit, so the `thread_switch` inside that `thread_exit`
   returns at once: the thread just dequeued is lost, READY in no queue, and the
   outer call exits a second time. With an empty queue the process ends though a
   thread is READY (`ut369.h:89-91` promises it runs).
2. `thread.c:498`. A thread that was slept for is never freed, its tid never
   reusable (`ut369.h:180-182`).
3. `thread.c:351`. Killing the thread a lock was handed to loses the wake-up:
   the lock is free and its other waiters sleep (`ut369.h:231-232`).
4. `coremap.c:132`. The eviction of a frame drops the TLB entry of the task that
   allocated it and of no other; a task that shares it since a fork goes on
   through its own entry to what is by then another page (`pagetable.c:138`).
5. `coremap.c:110`. A victim is asked for while a frame is free, because the scan
   leaves out `last_alloc` and because `mem_usage` goes down on every eviction and
   wraps; when the victim is that free frame the assertion behind `coremap.c:127`
    fails.
6. `exfs.c:1108`. The number of blocks a file needs more is cut to 32 bits. When it is a
   multiple of 2^32, as for an empty file truncated to 2^44 bytes, each turn of the loop takes a
   run of length 0 and the loop never ends, where `exfs.c:903-910` promises an errno.

## 6. What is proved

`QueueLemmas` has the facts about sequences of threads (append, remove the first
occurrence, concatenate; injectivity, membership, length) that the rest
cites. `Threads_proofs` proves, for every number of threads, every set of locks and cvs
and both schedulers, from `ConstantsAssumption` alone (there is a thread, the
switches are Booleans, the policy is one of the two):

| Theorem | Property | Needs |
|---|---|---|
| `TypeCorrect` | `TypeOK`, with no queue over capacity | |
| `QueuesConsistent` | `QueueDiscipline` | |
| `OneRunningThread` | `OnlyCurrentRuns` | |
| `KilledThreadsExit` | `KilledNeverRuns` | |
| `JoinersAreWoken` | `JoinersWoken` | |
| `JoinersFindExitCode` | `JoinerFindsZombie` | |
| `NoCircularWait` | `NoWaitCycle` | |
| `ExitCodes` | `ExitCodeKept` | |
| `NothingLost` | `NothingReadyIsLost` | no kills |
| `EndIsTheEnd` | `EndsWhenNobodyCanRun` | no kills |
| `StacksAlive` | `StackInUse` | no kills |
| `StacksOwned` | `NoStackLeak` | no kills |

`CoopThreads_proofs` proves, of `LibrarySpec` and again for every number of threads:

| Theorem | Property |
|---|---|
| `CooperativeKills` | `KillsLoseNobody` |
| `BothLibraries` | `QueueDiscipline`, `KilledNeverRuns` |
| `TargetsLive` | the target of a cooperative `thread_wait` is not freed |

Argument. `IInv` is the conjunction of the types, `NoRepeats` and
`QueueDiscipline` (queues and states agree), `CurrentOK` (who is RUNNING at each
value of `cpu`), `TidsMarked` (a structure's tid is marked used: why a zombie is not given
away), `Joining` (a thread asleep in a join queue is inside `thread_wait` for that
thread, which is alive; a woken one finds a zombie) and `NoWaitCycle`. None of
the listed properties is inductive alone: that joiners are woken needs that a
sleeping joiner is in the queue `thread_exit` empties, that capacity suffices
needs that a thread is in a queue once. One lemma per action shows the step,
`NextIInv` puts them together and `Invariance` is `Spec => []IInv`. That
`thread_sleep` closes no cycle (`SleepNoCycle`): suppose a set S of threads that
wait for each other after the sleep. Without the caller, S was there before. With
the caller, the guard gives a closed set C that has the first holder and not the
caller; C and S have the holder in common, and their intersection is a set of
threads that waited for each other before the sleep, which the invariant excludes.
`NoKillInv` and `StackInv` strengthen the invariant
for the theorems that assume no kills; that assumption is needed, as
finding 1 shows.

`LibraryInv` is `IInv` and, in the cooperative library, `CoopInv`: nobody sleeps, what is
READY is queued, and waiters have live targets, each its own. The steps the
libraries share are cited from `Threads_proofs`; `IInv` has to be shown again for
`SwitchReturnsTwice` alone. That `CoopInv` includes `NothingReadyIsLost` although
kills happen is the point: the round trip continues the thread it
dequeued, where the preemptive version loses it. That targets stay live needs
that a waiter's target is nobody else's (`MayWaitFor`) and that only the waiter
destroys it.

`Sync_proofs` proves of `SyncSpec`, for every number of threads, locks and cvs:

| Theorem | Property | Needs |
|---|---|---|
| `SyncInvariant` | the inductive invariant `SyncInv` | |
| `SyncTypesOK` | `SyncTypeOK` | |
| `SyncNoCircularWait` | `NoWaitCycle` | |
| `HoldersAreActive` | `HolderIsActive` | |
| `DeadlocksAreReal` | `OnlyRealDeadlocks` | |
| `WakeOrder` | `WokenInOrder` | |
| `SyncNothingLost` | `NothingReadyIsLost` | no kills |
| `SyncStacksAlive` | `StackInUse` | no kills |
| `SyncStacksOwned` | `NoStackLeak` | no kills |
| `LocksHandedOn` | `LockHandedOn` | no kills |

`SyncInv` is `IInv`, now kept by the lock and cv calls too, and four parts of its own:
`Holding` (the holder of a lock owns its queue, is alive and is inside no call that
waits for the lock), `InCalls` (a thread sleeps in the queue of the call it is
in, on a lock or cv that exists), `Releasing` (between the two halves of `cv_wait` the
lock is free and, if somebody waits for it, somebody is ready) and `StaleOwner`
(as long as threads wait for a free lock, the owner `cv_wait` left in its queue is still
in that `cv_wait`). None of them holds alone: that a holder does not sleep on its own lock
needs `InCalls`, and that `thread_sleep` refuses only real deadlocks needs
`StaleOwner`. `HandedOn` adds, without kills, that a free lock with waiters has a thread on
its way (`OnItsWay`): woken inside `lock_acquire`, or about to look at the lock again. For
`DeadlocksAreReal` no induction along the walk is needed: the witness is the set of
the threads from which the walk cannot but reach the caller.

`ThreadQueues_proofs` proves, for every number of threads and lists, every capacity
that holds the threads, and both schedulers, from `QueueAssumption` alone:

| Theorem | Property |
|---|---|
| `QueueInvariant` | the inductive invariant |
| `QueueTypes` | `TypeOK` |
| `PushIsSafe` | `PushNeverAsserts` |
| `LinksAgree` | `ListsWellLinked` |
| `CallsAreAsPromised` | each call does what the call of that name in `AbstractQueues` does |
| `QueuesAreSequences` | `ImplementsQueues` |

`QueueInv` is the types, `ArrayOK` (the `count` entries from `end` on are threads, each
once, and `start`, wrapped, is the slot after them), `ListsOK` (`WellLinked`, and no thread is on two
lists or twice on one) and `FlagsOK` (under rand.c, which writes no flag, the
threads in the array have theirs down: otherwise a dequeued thread
could fail the assertion). The proof has two layers: what a call does to the
places (`MovedUp`, `Replaced`, `Unlinked`, `Linked`: entry n is now entry n or n + 1), from
modular arithmetic for the array (`Slots`, `NextSlot`, `Steps`) and from `ChainIs`
for the lists (a sequence that follows the new links is the new chain), and then
that such a move is `Append`, `RemoveFirst` or `Tail`. `CallsAreAsPromised` says more than the
refinement, whose next-state relation does not record which call was made.

`VirtualMemory_proofs` proves, for every number of tasks, pages, frames, slots and TLB
entries, every replacement algorithm and every trace:

| Theorem | Property | Needs |
|---|---|---|
| `SimulatorInvariant` | the inductive invariant `BaseInv` | |
| `SimulatorTypes` | `TypeOK` | |
| `FaultsAreHandledOnce` | `NoDoubleFault` | |
| `ForklessInvariant` | the inductive invariant `ForklessInv` | no forks |
| `TlbTellsTheTruth` | `TlbAgrees` | no forks |
| `CoremapAgrees` | `RefsAgree` | no forks |
| `FramesAreNotShared` | `WritersAlone` | no forks |
| `SlotsHaveOneOwner` | `SlotsOwned` | no forks |
| `SimulatorIsMemory` | `ImplementsMemory` | no forks |

`BaseInv` is the types and what each value of `cpu` says of the access being served; it is
what makes one miss and one write fault enough. `ForklessInv` adds, of a trace
without forks: `OwnPages` (the frame of a resident page lists that page and nothing
else), `Frames` (a frame that lists a page is that page's, or is about to be), `Stage` (what
each handler may rely on between its steps), `TlbInv` (the TLB entry of a living task is that of a
resident page, and dirty only if the page is), `Saved` (a clean resident page is in its slot as it
is) and `SlotsOwned`. The agreements are not inductive one by one: that an eviction finds the entry
of its victim needs `Frames`, that no other task has a TLB entry for it needs
`OwnPages`, and that a page that need not be written back is read back as it was needs
`Saved` with `SlotsOwned`. The refinement maps `CreateTask` to
`Create`, `FreeTask` to `Exit` (the turns of `FreePage` follow unseen), `LoadHit` to `Read`, `StoreHit` to `Write`, an
`EvictRef` that finds the swap full to `Forget`, and everything else to a stutter.
The assumption is needed: finding 4 is a trace with a fork that breaks the agreement.

`ExFS_proofs` proves, for every image `mkfs` accepts, every size of a block, an inode and
a directory block, every set of names, and every size, offset and content a caller passes:

| Theorem | Property |
|---|---|
| `DirectoryInvariant` | the inductive invariant `DirInv` |
| `DirectoryKept` | `DirectoryMatchesInodes` |
| `MtimeKept` | `MtimeFollowsChange` |
| `ImageInvariant` | the inductive invariant `ImageInv` |
| `TypesKept` | `TypeOK` |
| `SpaceKept` | `SpaceAccounted` |
| `ChecksumKept` | `ChecksumCurrent` |
| `FailuresChangeNothing` | `FailedCallChangesNothing` |
| `SpaceNeeded` | `FailsOnlyForSpace` |
| `FilesImplemented` | `ImplementsFiles`: ExFS refines `Files`, but for calls that never return |

`DirInv` is `DirectoryMatchesInodes` and `Shape` (the domains of the tables, and the root's
`i_size`). That `truncate` and `write` keep it needs that the inode they replace is not the
root's (`FilesAreNotRoot`: otherwise
the size of the directory would change), which follows from the uniqueness of names and
inodes together. `unlink` needs that no second name has the inode it frees, `create` that the
inode it takes is nobody's and that a directory with no free entry gets a block of them
(`EntriesToChoose`). That a time is that of the file the caller named needs that `path_lookup`
finds the same inode after the call (`SameDirectory`, `CreateStep`).

`ImageInv` adds the types and, while the daemon serves, `SpaceInv` (the bitmap is the
metadata and the blocks of the inodes, no block is in two places, each inode has the blocks
of its size, the counters agree) and `SumsInv` (the checksum of a file is that of the bytes its
blocks hold). A call that never returns leaves a file with more blocks than its size needs,
so a looping daemon is exempt from the second half; nobody can call it any more. Neither half
is inductive without the other: that zeroing or copying the bytes of one file leaves the
checksums of the others needs that no block is shared, and that a block taken from the
bitmap is nobody's needs the accounting.

Most of the work is about the operators of `Extents`, and one file whose other blocks are a set `others`.
`Sound` says of a state in the middle of a call that the bitmap is `others` and the blocks of
the file, that the file has no block twice and that counters agree; `Flat` says it of an
inline file. Loops are recursive functions, so the induction is one up to a bound
(`BoundedInduction`): `GrownTo` is what holds after i turns of the loop of
`ensure_blocks_for_size` (the file so far is a prefix, in use and unchanged, and each turn that
succeeds takes a block at least, which is why the loop ends unless 2^32 blocks are
wanted: `GrownEnds`, `FewBlocks`), `FreeSome` the same for `free_last_block`. That a rollback
restores the inode exactly, extents included, is `GivenBack`: `Extends` compares extents,
not only blocks, since growing may lengthen the last extent or append one, and taking
blocks away has to undo just that. `Ensured`, `Converted` and `UndoneRestores` give each C
function's promise, `Changed` that of a whole `truncate` or `write`: the file
with its size, its blocks and its checksum, or what was there, or a call that never returns and
wants 2^32 blocks. `ENOSPC` is exact because a turn finds no run only when the counter
is 0 (`NoneFree`) and because blocks given plus blocks free is constant.

The refinement is about bytes. `Reads(fs, q)` is byte q of the file in a state within a
call, and the operators of `Extents` are described by what they do to it: growing and
converting keep it (`ExtendedReads`, `ConvertedReads`), zeroing and putting write it in one
range; no block is in a file twice, so that what is put at one place is not read at another
(`WritesReads`). `TruncateRewrites` and `WriteRewrites` say it of the
calls: `Rewritten`, the buffer over the old bytes and zeros past them, or the old bytes when
the call fails or loops. A read of a page finds those bytes (`ByteRead`), and other files keep
theirs since their blocks are in `others` and their names lead to other inodes
(`OtherNames`, `SeenKept`). With `Seen(n)` for what readers see of a name, each call has a lemma
(`CreateSeen`, `UnlinkSeen`, `UtimensSeen`, `TruncateSeen`, `WriteSeen`) that `FilesStep` turns into a step of
`Files`. A `create` that fails gives back the inode and block it took (`CreateGivesUp`, `RootGivesUp`), which
leaves the sets as they were only because the bitmap hands out free bits. A
looping daemon leaves the file it worked on as readers saw it, the exception of `ImplementsFiles`; it
happens only when 2^32 blocks are missing (`SpaceNeeded`).

Assumed of the constants (`ExtentsAssumption`, `ExFSAssumption`): sizes are positive, inline data
fits in a block, a block holds two directory entries at least, names are none of `.`, `..` and
the empty one, `Absent` is no sequence of bytes, writes carry a byte at least, and the width at
which a block count wraps, 2^32 in the code, is more than 1.

`Traces_proofs` proves, for every set of programs, page size, buffer, quantum and log:

| Theorem | Property |
|---|---|
| `Invariant` | the inductive invariant `Inv` |
| `TypesKept` | `TypeOK` |
| `OrderOfLastUse` | `LastUsesKept` |
| `MemoryImplemented` | `ImplementsMemory`: the trace implements `TraceMemory` |

`Inv` joins types (`SimplifyTypes`, `SchedulerTypes`: `found` and `ignore` are what the place in
`marker.h` says, `Stage`), `Births` and `OrderKept`. `Births` says that each process begins
once: the queues of children are disjoint, without repetition and without programs; a child
still in a queue, or a program not reached yet, has no activation and an empty file (`Fresh`); and a
process inside a `fork369` has a child left, so the pop of `ReadIsParent` finds one. Only this
keeps the end of one log from replacing the file of another process.
`OrderKept` is `LastUsesKept` for every process that is not being simplified, not only
once all are. A line that renews a timestamp moves one entry of the buffer to its end, and what was
written before stays: `UsedLater` is that rearrangement, `UsedAgain` that it takes a history in
order of last uses to the history with the new use at its end (`UsesOfBuffered`); a flush
moves the boundary between file and buffer and no use (`UsesOfFlush`).

For the refinement `MemoryInv` adds `Remembered`: there is a `past`, a memory for each process at
each line of its file, such that (`Told`) each reference follows from the memory before it, a
load finding its value or nothing known there; at an F line the child's past begins with the
parent's memory and the child waits in no queue; the address space of an activation is
its past at the end of its file; programs begin with nothing known; and each task
of the trace has of its memory what its past says at the line it has got to (`Placed`). The past is
not a variable: what a flush writes extends it (`Explained`, `Grown`, `PastGrown`), a fork sets the
child's, which no line of any file has referred to yet (`ChildLeaves`, `ToldKept`). The
mutant of `ImplementsMemory` breaks just this: with its address space copied before the flush, the
child does not begin where the F line says. The scheduler then only reads:
whatever the order of the turns, `CopyLine` is an `Access` since the line follows the memory
(`LineRead`), `ForkProcess` a `Fork` since the child's file begins with that of its parent.

Assumed (`SimplifyAssumption`, `RunsAssumption`, `TracesAssumption`): sizes are positive,
types of references are I, L, S or M; and the marker files name each process once, as a
program or as the child of one fork. Logs and reference files are named by pid, so a pid that came
twice would have overwritten its own log.

What the proofs changed in the model: `SlotFor`, `Content`, `PrevWithout` were `CASE`
expressions whose arms overlap, where TLC takes the first and the logic any, and are now
`IF`; `Nth` applied a function outside of its domain when a list was empty; the
loops of `FreeTask` and `Fork` became turns, as those of the eviction were; `DirectoryMatchesInodes`
says that names and inodes are one for one instead of counting them; `BitmapFreeAll` folded
`bitmap_free` over a sequence and is now what the fold computes; `WithoutLastBlock` is an
operator of its own; `SpaceAccounted` says that each file has just the blocks for its size
and that `bitmap_free` never asserts, both of which the proof needed and the old form left out;
`CallRecord` names the codes a call may return (`Results`) instead of any string, so that
the refinement also says that neither `EIO` nor `LOOP` is a result of a call that returns; `ChildrenOf` walks the forks with a recursive
function, where it filtered them, and `Used` takes out the first occurrence; `memory` of `TraceMemory` and
`Traces` is a sequence, so that neither bounds the tasks; `LastUsesKept` compares histories by their
last uses instead of sorting them (the old form, `ByLastUse`, filtered a sequence by its own
indices, about which no prover knows anything); and `RunsAssumption` is said aloud.

With TLC only: liveness, which is out of the provers' reach here; the
properties that findings refute; and of the simulator the agreements and the
refinement with forks, where no invariant of that form holds. Every other invariant and action
property of a passing run, and every refinement, is proved.

## 7. What is abstracted or left out

- Printing, spinning, timing and the logging of `interrupt.c`; only that the signal
  is blocked inside the library matters, and it fixes the grain of the actions.
- `ut369_exit` and what an exiting process does with other threads' memory beyond
  `thread_end`.
- malloc failures other than that of a stack: the calls return an error before they
  change anything (`thread.c:259`, `598`), except `cv_create`, which does not look.
- A program that breaks the assumptions listed under Sync.
- The four levels of the page table, statistics, `malloc369.c`, the parser of
  traces, and traces that end or use a task that does not exist.
- The fill of a memory frame byte by byte: a page is one value, and an access to
  it reads or replaces that value.
- Page replacement with references: `ref_func` is never called, so the reference
  bits and the 2Q lists never hold anything.
- A crash of the ExFS daemon. The image is a mapping the kernel writes back page by page,
  in any order; there is no journal and no check at mount, so nothing about it could hold.
- FUSE itself, `map.c`, `options.c`; the errors of the clock; nested
  directories, which ExFS does not have.
- `RoundRobinScheduler` of `schedule.py`, which `main` never constructs, and log or marker
  files that are missing or do not parse.
- The queue exercise, the passthrough, the `ucontext` probe, `khash.h`, the traced
  programs, and the scheduler and queue files of the cooperative library, which
  differ from those of `ThreadQueues` in a flag nobody reads there.
- What section 2 plans without a *, and what its item 4 leaves.

Seen in the code and not the subject of a run:

- Between `lock_release` and the run of the waiter it woke, another thread may take the
  lock (`thread.c:629`); the waiter then goes to the end of the queue, where
  `ut369.h:209` claims "First-Come, First-Served (FCFS) fairness".
- `simplify_trace.c` parses the markers `fork369_end` and `end` and never tests them: what
  a process does after its first `fork369` is dropped, and one that never forks
  is recorded past its end, where `marker.h:25-28` asks for the accesses between the
  start and end markers. The model does the same (`Recorded`).
- The first load of a byte gets a random value, while the memory of the simulator
  that replays the trace begins with zeros; after a fork, parent and child may give
  a byte neither has touched different values. `TraceMemory` therefore lets a byte be
  `Unknown`.
- `mkfs.c:163-190` writes the bitmaps before it checks that there is a data region, and
  its result is not initialised on some paths (`260`, `287-291`): a refused format
  has already changed the image. The model begins with a format that succeeded.
- In both thread libraries, when thread 0 is killed its exit may free the stack
  in use; hence `StackInUse` is stated without kills.
