# A TLA+ model of MourOS

MourOS is a small preemptive kernel for single-core Cortex-M processors: a
priority scheduler, resources, mailboxes, character buffers and a pool
allocator, with Rust bindings and the system calls that newlib needs. This
directory holds TLA+ modules translated from its source, the TLC configurations
that check them on small instances, and TLAPS proofs for all values of the
constants.

    tlc -config MCKernel.cfg MCKernel          # every other cfg likewise
    tlapm KernelProofs.tla                     # also KernelListsProofs, TaskLists, PoolProofs,
                                               # MailboxProofs, CharBufferProofs, WaitUsProofs,
                                               # NewlibProofs

`PROJECT.json` lists the runs, the source lines behind each definition, the
hazards, the findings and the theorems.

## The system

| Component | State | Operations | Correct when |
|---|---|---|---|
| Scheduler (`src/src/scheduler.c`) | run queue per level, `highest_prio_level`, `sleepqueue_head`, `current_task`, `os_tick_count` | `pend_sv_handler`, `sys_tick_handler`, insertions into the queues, `sched_start_tasks` | no task is lost or on two lists; the most urgent RUNNABLE task is found; sleepers wake on time; equals take turns |
| Tasks (`tasks.c`) | `task_t` (state, priority, links), list of all tasks | `os_task_init/add/yield/suspend_self/unsuspend/sleep`, the end of a task function, `os_task_wait_us`, `os_get_tick_count` | a task runs, sleeps and stays suspended as its caller asked; a wait is long enough; a count is whole |
| Resources (`sync.c`) | `first_waiting`, `acquired_by` | `os_resource_acquire`, `os_resource_release` | no lost wake-up; waiters served, and the race for a released resource decided, by priority |
| Mailbox (`mailbox.c`) | ring of message slots, `read_pos`, `write_pos`, `data_added` | write, read, `_multiple`, `_atomic` | a FIFO between a producer and a consumer without a lock |
| Character buffer (`char_buffer.c`) | a mailbox of one-byte messages | 6 writing and 4 reading functions | each character once, in order; blocking calls move everything |
| Pool allocator (`pool_alloc.c`) | `first_block`, links inside the free blocks | take, give | a block has one holder; NULL only when none is free |
| Rust channels (`mailbox.rs`) | a mailbox | `send`, `recv`, `try_*` | as the C functions |
| Rust pool (`pool_alloc.rs`), locks (`tasks.rs`) | `first_block`, the saved mask | `take`, `give`, `CriticalSection`, `CriticalLock` | as the C pool; a section ends where its scope does |
| Newlib calls (`syscalls.c`) | `reent` of each task, `_impure_ptr`, `heap_end` | 19 calls that fail or return a constant, `_sbrk_r` | each task sees its own error; memory is handed out once |
| Context switch (`stack_m0.h`, `stack_m4f.h`) | registers, `stack` and `exc_ret` of each task | push, pop | a task resumes where it was, with its FPU |
| Diagnostics | generated code, off by default | | |

How they interact. Tasks call the kernel; a call that blocks or wakes a more
urgent task sets PendSV, which is taken when interrupts are unmasked again.
SysTick interrupts tasks and preempts the current one. Resources use the run
queues of the scheduler and the `next_task` pointer of the tasks, which all
lists share. Mailboxes and pools are shared memory between tasks and interrupt
handlers; they call the application back (`data_added`) and never the kernel.
Character buffers and Rust channels call mailboxes. The two handlers exchange the
registers and let `_impure_ptr` point to the `reent` of the next task, through
which the library functions of a task find their own state.

What is hard here. Everything is a matter of interleavings: a tick between two
stores of a kernel function, a handler that requeues a task that has just
blocked, a woken task that finds its resource taken again, one pointer field
that serves three kinds of lists, a hint that must never be too high, byte loops
that are preempted in the middle, a free list that lives in memory its users
overwrite, frames of two sizes on the stacks of tasks that do or do not use the
FPU, a global pointer that has to follow the current task. Nothing is persisted and there is no network: there are no crashes or
lost messages to model. `PROJECT.json` lists the hazards line by line.

## The modules

| Module | Models | Uses |
|---|---|---|
| `Kernel` | scheduler, tasks and resources, task lists as sequences | |
| `KernelLists` | the same with the pointers of the code | implements `Kernel` |
| `Chains` | what a pointer to the first node of a list means | |
| `TaskLists` | lemmas about lists and chains | `Chains` |
| `KernelProofs` | theorems about `Kernel` | `TaskLists` |
| `KernelListsProofs` | theorems about `KernelLists` | `TaskLists`, `KernelProofs` |
| `Fifo` | abstract: a bounded queue | |
| `Mailbox` | `mailbox.c`, byte by byte | implements `Fifo` |
| `MailboxProofs` | theorems about `Mailbox` | |
| `CharBuffer` | `char_buffer.c`, the channels of `mailbox.rs` | the operations of `Fifo` |
| `CharBufferProofs` | theorems about `CharBuffer` | |
| `Pool` | abstract: a stack of free blocks | |
| `PoolAlloc` | `pool_alloc.c`, `pool_alloc.rs`, the locks of `tasks.rs` | implements `Pool` |
| `PoolProofs` | theorems about `PoolAlloc` | |
| `WaitUs` | `os_task_wait_us`, `os_get_tick_count`, the SysTick timer and the tick counter | |
| `WaitUsProofs` | theorems about `WaitUs` | |
| `VirtualCpu` | abstract: a processor for each task | |
| `Context` | the context switch, `stack_m0.h`, `stack_m4f.h` | implements `VirtualCpu` |
| `Newlib` | `syscalls.c`, `reent` and `_impure_ptr` | extends `Context` |
| `NewlibProofs` | theorems about `Context` and `Newlib` | |
| `MC*` | instances for TLC | |

### Kernel

State. `state`, `priority`, `acquired_by`, `current_task`, `highest_prio_level`
are the fields and variables of the code. `runq`, `sleepqueue` and `waiting` are
the lists as sequences. `pc` says where a task is in `os_task_suspend_self`,
`wanted` which `os_resource_acquire` it is in. `sleep_left` is `wakeup_time -
os_tick_count`: the code only ever compares the two, so the difference is all
that matters and the state space stays finite. `pendsv` is the pending bit, and
`handler` tells whether `sys_tick_handler` is running.

Steps. A section between `CM_ATOMIC_*` is one action. `os_task_suspend_self`
masks nothing, so its two stores are two actions. `sys_tick_handler` is three:
its beginning, one iteration of `wakeup_tasks`, and the rest; `pend_sv_handler`
is one. Both have the lowest priority and cannot preempt each other; when both
are pending, PendSV goes first because its exception number is lower. That is
why SysTick needs `~pendsv`. A task that has called `os_task_yield` executes no
further kernel call before PendSV: the exception is taken within a few
instructions.

An interrupt handler of the application may call `os_task_unsuspend` between any
two steps of the tasks (`IsrUnsuspend`), also when a PendSV already waits behind
it, and for any suspended task, the one that has just suspended itself and is
still current included. Two things are left out, and are among the hazards:
handlers of a higher priority that interrupt `pend_sv_handler` or
`sys_tick_handler` in the middle, which mask nothing, and an unsuspension between
the two stores of `os_task_suspend_self`. The other calls take `current_task` for
their caller and make no sense in an interrupt handler.

Excluded because the code forbids it or means nothing by it: adding a returned
task again without `os_task_init`; initialising a task that is in use; calls of
the idle task.

`os_init` and the first `os_task_init` of each task make up `Init`. Tasks can be
added before `os_tasks_start`, by other tasks, and again after they have
returned and been re-initialised, perhaps with another priority.

### KernelLists

`next_task`, `task_prio_groups[i].first/last`, `sleepqueue_head`,
`first_waiting`, and the doubly linked list of all tasks. It keeps what is easy
to get wrong: `take_highest_prio_task` leaves `next_task` of the task it takes
alone, and `sched_add_to_runqueue_head` does so for a lone task. `Chain` (a
`Walk` of `Chains`) follows the pointers; with chains for `runq`, `sleepqueue`
and `waiting`, `ImplementsKernel` says that every behaviour is one of `Kernel`.
This is proved, so what is proved of the sequences holds of the linked lists.
Operations that touch no list are taken from `Kernel`.

### Mailbox, Fifo and CharBuffer

Each access to `read_pos`, `write_pos` and a byte of the buffer is a step.
Positions are counted in messages, since they are always multiples of
`msg_size`. The `uint8_t` counter of the byte loops is kept, modulo 256. The
order of the stores is that of the code: a store through `uint8_t *` may alias
the fields of the mailbox, so a compiler does not move it across the store to
the position. A call in an `_atomic` function masks the interrupts: nobody else
runs until it returns. `notified` says that `data_added` has been called since a
consumer found the mailbox empty.

Any number of producers and consumers may call. Each call is of an atomic
function or not; two calls of one side overlap only if both are atomic
(`MayCall`), which is how `mailbox.h` says when the atomic functions are needed.

`Fifo` is the promise. A message enters when `write_pos` is stored and leaves
when `read_pos` is. `CharBuffer` uses `Put` and `Get` of `Fifo` for
`os_mailbox_write` and `os_mailbox_read` of one character, and adds the loops of
`char_buffer.c`, in which the other side runs between any two characters. Which
side does is a matter of `outranks`: tasks of one priority take turns, whereas a
side that outranks the other does not let it run before its own call has
returned, and no call yields. `try_send` and `try_recv` of the Rust channels are
`write_ch` and `read_ch`. `send` and `recv` loop while the C function succeeds,
where their names ask for a loop while it fails; they are modelled as they are.

### PoolAlloc and Pool

Take and give are each two steps (read or write of the link, store of
`first_block`) under a mask, so that the mask is something the model can lack.
Holders overwrite the first word of their blocks with anything, valid pointers
included. `impl` says which of the two allocators it is: the Rust `give` stores
`first_block` before the link, so that `first_block` is ahead of the list in
between (`Top`), and is called through a `CriticalLock`. The mask is nested:
`Mask` remembers what it found and `Unmask` restores it, and `section` is a
critical section of the user around several calls. `Pool` is a stack of free
blocks with one holder per block.

### WaitUs

`now` counts the timer; its value and the wrap that makes the tick pending
follow from it. Each access of `os_task_wait_us` to the timer or to
`os_tick_count` is a step, and time may pass and ticks may come between any two
of them, except that nothing is taken while interrupts are masked. Outside that
block the loop loads the two halves of the 64-bit counter one after the other.
`os_tick_count` is not volatile, so a compiler may make one load of the two that an
iteration has, as GCC 12 does at `-Og`; `Loop` allows both. Without that option it
might also load the count once for all, because an iteration that sees too few
ticks calls no function: GCC 12 at `-O3` turns the loop into an empty one. But
`CMakeLists.txt:79` adds `-Og` behind the options of the build type, in Debug and
in Release, and at `-Og` every iteration loads the count again. The mutant
`LoadedOnceBug` shows what depends on that option.
`raced` records what came in between, for `ShortOnlyIfRaced`.

`os_get_tick_count` loads the same two halves under a mask.

The model assumes that nobody masks interrupts for a whole tick (`Time`), and
that an exception that is not masked is taken before the task's next
instruction (`Runs`).

### Context, VirtualCpu and Newlib

`Context` has the registers of the processor, `CONTROL.FPCA`, the stack pointer,
and for each task its stack, `stack` and `exc_ret`. Registers that move together
are one value: the frame of the exception entry, `r4-r7`, `r8-r11`, and the two
halves of the FPU. `Switch` is a handler as far as registers go: it pushes what
`SCHED_PUSH_STACK` of the core pushes, stores `stack` and `exc_ret`, and pops
according to the `exc_ret` of the next task, which is any that can run; which one
it is, `Kernel` says. A frame has three or five values, from switch to switch, and
the entry reserves the room for the FPU. `TaskInit` makes up the first frame,
`StartTasks` takes the first task out of it without a handler. Tasks may use or
not use the FPU, push and pop on their stacks, return, and be initialised again.

`VirtualCpu` gives each task registers and a stack of its own. The mapping finds
them in the processor for the current task, and below its stack pointer for every
other: `ImplementsVirtualCpu` says that no switch changes either.

`Newlib` adds the struct `_reent` of each task, `_impure_ptr`, and the system
calls. A library function reads `_impure_ptr` (`Enter`) and passes it on to the
call, which stores the error; a switch may come in between and after. `via` and
`told` remember what the call stored and where, for `ErrnoLostOnlyAtStart`.
`_sbrk_r` is two steps under a mask, its test and its move. `program` says what
the tasks of a behaviour do: compute, call files, or grow the heap.

### Definitions ending in Bug

A mistake the next definition could contain: a missing test, a wrong comparison,
a forgotten store. Each property is tested by substituting one of them for the
real definition: TLC then finds the property violated.

## The runs

| Configuration | Instance | Shows |
|---|---|---|
| `MCKernel.cfg` | 3 tasks and idle, 3 levels, 1 resource, sleeps of 0 or 1 tick; one task outranks the others, one may change its level, one shares the idle task's | all properties of `Kernel`, and the inductive invariant `IInv` (162,222 states) |
| `MCKernelSuspend.cfg` | no resource | violation: `SuspendedUntilUnsuspended` |
| `MCKernelLists.cfg` | 3 tasks and idle, 2 levels, 1 resource, sleeps of 0 to 2 ticks | the links implement `Kernel`, `LastIsLast`, `AllTasksLinked` (423,116 states) |
| `MCMailbox.cfg` | 3 slots of 2 bytes, 2 kinds of messages, calls of up to 3, 2 producers, 2 consumers | FIFO, disjoint slots, notification, honest refusals (1,335,907 states) |
| `MCMailboxLarge.cfg` | messages of 300 bytes | violation: `CallsReturn` |
| `MCPoolAlloc.cfg` | 3 blocks, 2 users, either allocator | free list, exclusive takes, critical sections, `Pool` (595,520 states) |
| `MCWaitUs.cfg` | ticks of 5 counts and 2 microseconds, waits of 0 to 5 | `ShortOnlyIfRaced`, `WaitsEnd`, `TickCountWhole` (405,811 states) |
| `MCWaitUsShort.cfg` | ticks of 4 counts, so that nothing is rounded | violation: `WaitsLongEnough` |
| `MCCharBuffer.cfg` | room for 1 character, calls of up to 2, every function but `write_str_blocking`, `send` and `recv`; either side or none outranks the other | each character once; blocking calls move everything; who returns, and when (49,324 states) |
| `MCCharBufferStr.cfg` | `write_str_blocking` alone | violation: `PutsAPrefix` |
| `MCNewlib.cfg` | a task and the idle task that compute, on both cores, with a stack of 1 value; or 2 tasks that call files, or a heap of 3 bytes | `ImplementsVirtualCpu`, `ErrnoLostOnlyAtStart`, `SbrkExclusive` (562,610 states) |

Bounds, and why they suffice. Three application tasks are needed to have one
owner of a resource and two waiters of different or equal priority, one runner
and a queue of two, or a list with a middle; every insertion point (empty list,
in front, between, at the end) occurs. Three levels give an empty level between
two occupied ones, over which the hint has to climb. Sleeps of 0 and 1
tick in `MCKernel` give an earlier and an equal wake-up time, also relative to a
sleeper that has already waited; 0 to 2 in `MCKernelLists` give an insertion in
the middle. With one resource no task holds one and waits for another; the proofs
cover any number of resources, levels, tasks and ticks. Three slots and calls of up to three messages (`Batch`) make the ring wrap in the
middle of a call, fill up before its end, and drain; two bytes make a message that can be half
written. Three blocks give a free list with a middle, and two users everything
that preemption of one call by another can do, since a third would have to come
before or after the second. `MaxLen` exceeds the capacity of the character
buffer, so that blocking calls must retry. Of the tasks that compute two suffice,
one of which is initialised again: a switch concerns two tasks, and a frame of
either size is left behind by either and found again. A heap of 3 bytes and
increments of -1 to 2 let two tasks interleave a growth, a refusal and a return. Waits of 0 to 5 microseconds are those
of less than a tick, a tick, and up to two and a half, with and without a carry
from the timer; the lower half of `os_tick_count` overflows every second tick
(`HalfWord`) instead of every 2^32; waits start at any count of the first ticks
(`MaxStart`), and `MaxTime` is later than any of them ends. A tick of 5 counts and 2 microseconds has no
whole number of counts per microsecond, so the rounding of `systicks_per_us` is there; without it
`WaitsLongEnough` fails only for the race that its finding describes. `NumMsgs = 1` and `NumBlocks = 0`
are not checked: the first makes a mailbox that is always full, the second is
excluded by the assumption on `NumBlocks`, because the code's loop would then
run through 2^32 - 1 blocks.

What the properties are about:

* `QueuesMatchStates`: every list holds exactly the tasks in its state, once.
  This is what `sys_tick_handler`, which requeues the current task unseen, puts
  at risk.
* `AlwaysATaskToRun`: the endless loop at the end of `take_highest_prio_task` is
  never reached.
* `NoLostWakeup`: a free resource with waiters has a woken task on its way to
  retry. The woken task may lose the race, but then somebody owns the resource
  and will wake the next.
* `OnlyAddDelaysPriority`: `HighestRuns` (nobody RUNNABLE is more urgent than
  the current task) is only ever broken by `os_task_add`, which does not yield.
* `SleepersWakeOnTime`, `HighestWaiterFirst`, `SuspendedStays`: what a single step
  may not do to a sleeper, a waiter and a suspended task.
* `OnlyUrgentBarge`: a woken waiter has only another try, and any task that runs
  before it may take the resource first. None of them is less urgent, not even while
  `os_task_add` leaves a more urgent task waiting.
* `OnlyWokenOvertake`, `WaitersKeepTheirTurn`: what the queues do with tasks that
  are equally urgent. In a run queue only a task that comes from the sleepqueue or a
  waiting list gets in front of others; in a waiting list nobody gets in front of an
  equal, and a woken task that finds the resource taken again has lost its place.
* `EqualsTakeTurns`, `TopWaiterServed`: a task that waits for the processor gets
  it once the more urgent ones no longer run, and the most urgent waiter gets the
  resource. A task may starve while a more urgent one keeps running: that is the
  meaning of its priority, and nothing is claimed for it.
* `SlotsApart`, `ImplementsFifo`: producer and consumer never touch the same
  slot at the same time, and messages arrive whole, once and in order.
* `NothingUnnoticed`: with all calls finished, messages the consumer has not
  seen have been announced by `data_added`.
* `NoFalseRefusal`: a write fails only when `num_msgs - 1` messages are stored, a
  read only when none is.
* `CallsReturn`: a call returns whatever the other side does. It does not with
  messages of 300 bytes.
* `ShortOnlyIfRaced`: a wait is too short by what `systicks_per_us` is rounded
  down for each microsecond after the whole ticks (`Rounded`), and by no more,
  unless a tick was pending when the timer was read, and then by that tick too, or
  the lower half of `os_tick_count` overflowed between the two loads of the loop.
* `WaitsEnd`: the loop ends, whether it loads `os_tick_count` once or twice in an
  iteration.
* `FreeListIntact`, `TakeIsExclusive`, `ImplementsPool`: see above.
* `SectionsHold`: a call inside a critical section does not end the section.
* `TickCountWhole`: the two halves that `os_get_tick_count` loads are of one count.
* `PutsAPrefix`, `BlockingMovesAll`: what the loops of `char_buffer.c` promise.
* `WritesReturn`, `ReadsReturn`: a call returns if the other side keeps calling,
  unless a blocking call of a side that outranks the other spins for ever
  (`Stuck`), which is what becomes of a task that waits for a less urgent one
  here. `send` and `recv` return when nobody is at the other side any more: they
  fill or empty the mailbox and give up.
* `ImplementsVirtualCpu`: nothing of a task is lost or seen by another in a
  switch, whatever its use of the FPU, its stack and its `task_t` were before.
* `ErrnoLostOnlyAtStart`: after a failed call a task finds its error in `errno`.
  The exception is the first task: `sched_start_tasks` leaves `_impure_ptr` at the
  `reent` of `main()`, so an error of that task before the first switch is stored
  there, and sought elsewhere after it.
* `SbrkExclusive`: no byte of the heap is handed out twice.

Fairness. Kernel: an exception that is pending stays pending until it is taken,
so SysTick is taken although PendSV keeps preceding it (strong fairness, since
`~pendsv` comes and goes); a handler runs to its end (weak). A task between the
two stores of `os_task_suspend_self`, or in the loop of `os_resource_acquire`,
continues if it is dispatched again and again (strong, as it is preempted in
between): the hardware executes the next instruction of whatever it dispatches.
Nothing obliges an application task to make any call. Mailbox: who is in a call
continues (strong, since atomic calls of the others come in between), which holds
when both sides get processor time, as tasks of one priority or a task and an
interrupt handler do. Character buffer: who is in a call and can move a character
or return, again and again, does so (strong: a spinning call finds room and loses
it, and is kept waiting by a side that outranks it).
`WaitUs`: time passes and a pending tick is taken (weak), and the waiting task
gets the processor again and again (strong).
No fairness is assumed for starting calls.

## What the code and its documentation disagree on

* `os_task_suspend_self` loses the suspension when a tick comes between its two
  stores (`tasks.c:285`): `sys_tick_handler` makes the task RUNNABLE again.
* `os_task_wait_us` can return too early (`tasks.c:330`): when the timer starts
  again after interrupts were masked and before it is read, the tick is not yet
  counted, and the computed time is one tick too early.
* The byte loops of `mailbox.c` count with a `uint8_t`: with more than 255 bytes
  per message they never end.
* `os_char_buffer_write_str_blocking` does not advance in its string.

Seen while reading and proving, with no run of their own: `systicks_per_us` is
rounded down (`tasks.c:260`), so that the part of a wait after its whole ticks is
too short where `us_per_tick` does not divide the period of the timer, for
instance because the clock is not a whole number of MHz, although `tasks.h:228` only allows a longer wait
(this came up in the proof, which needs the term `Rounded`); `recv` and `send` of the Rust channels invert the
test of their loops, which `WritesReturn` and `ReadsReturn` describe as it is (no
document says what they should do); sleepers are woken when `os_tick_count` reaches
`wakeup_time`, not when it exceeds it as `scheduler.h:60` says; `sync.h:40` says that a task may release a
resource of another, which the code prevents; `mailbox.h:87` promises a number
of bytes where the code returns a number of messages.

## The proofs

`KernelProofs` proves every safety property of `Kernel` but the one that the
code violates, for any finite or infinite set of tasks and resources, any number
of levels and any assignment of priorities, from `KernelAssumption` alone: NULL
is neither a task nor a resource, there is at least one level, and the idle task
has the last one.

`QueuesMatchStates` and the others are not inductive. `IInv` strengthens them:

* `RunQueues`, `SleepQueue`, `WaitingLists`: the lists match the states, and the
  last two are ordered by what they are sorted by; without the order the head of
  the sleepqueue says nothing about the rest.
* `HintSound`: no queue below `highest_prio_level` has a task, so the search from
  the hint on finds the most urgent one.
* `CurrentOwnsCPU`: what the state of the current task may be, given `pendsv` and
  `handler`; with an interrupt handler that may requeue it, a current task can be
  RUNNABLE while PendSV is pending. A current task that has blocked has PendSV pending, or is between
  the stores of `os_task_suspend_self`. This is what makes the unconditional
  requeue in `sys_tick_handler` harmless for every other call.
* `Programs`: where `pc` and `wanted` can be in each state; a task inside
  `os_resource_acquire` is in no other call, and `idle_task` is never blocked.
* `NoneOverdue`: outside the handler all sleepers have time left.
* `NoLostWakeup`.

For each action there is one lemma or step, and under it one step per conjunct
that the action can disturb. `TaskLists` has the facts about lists they share:
the range, injectivity and order of a list after an insertion or the removal of
its head. The proofs about turns (`TurnsAreKept`, `WaitersAreServedInTurn`) ask
more of an insertion: it puts nobody in front of another but the new task
(`AheadInserted`), and that one in front of those behind the place where it is
put; these are less urgent because the list is ordered. `RaceIsByPriority` and
`PriorityHolds` share a lemma about one task (`StaysUnpassed`): only `os_task_add` of
that very task leaves it waiting behind a less urgent one. A task inside
`os_resource_acquire` is never STOPPED, hence never added, and so is never passed:
that is the invariant `Retries`.

`PoolProofs` proves for any number of blocks and any set of users that the free
list holds exactly the free blocks (`FreeListIntact`) and that takes are
exclusive, with either allocator, and that critical sections hold
(`CriticalSectionsHold`). The invariant adds `Calls`: a user in a call has masked
the interrupts, what its first step read or wrote is still so, and it restores
the mask to what its own section needs. `Top` stands for the head of the list
while a Rust `give` is between its stores. That a list with
one block more is not longer than the pool is a counting argument (an injection
into a finite set). `ImplementsTheStack` is the refinement of `Pool`: a take
returns the head of the stack that the links make, a give pushes.

`KernelListsProofs` proves the refinement of `Kernel` by `KernelLists`, for any
finite set of tasks, any resources, levels and priorities, and the two other
properties of the run. The mapping reads the lists off the pointers with a
recursive function (`Walk`), and the argument has three parts:

* What a walk is. `TaskLists` proves by induction that the recursive function
  exists (`WalkExists`), and so that a walk from a pointer that leads along a
  list returns that list (`WalkIs`). `IsChain(first, next, null, s)` says that the
  pointers lead along `s`, with no recursion in it, and everything else is said
  with it.
* What the operations do to chains: an insertion at the head, at the tail or by
  key, and the removal of a head, change the chain as `Kernel` changes the
  sequence (`ChainInserted`, `ChainTail`), and leave alone every chain through
  whose tasks they store nothing (`ChainFrame`). The loop that looks for the
  place to insert at is a recursive function again; it stops because the list does.
* Which chains share the one `next_task`. That no task is on two of them is
  `IInv` of `Kernel`, so the invariant `LInv` is `IInv` for the lists that the
  pointers make, and `Linked`: each pointer leads along a list that ends, and the
  last pointer of a run queue is at its end. Neither half is inductive alone.

`PointersAreSafe` and `PointersKeepTheOrder` say of the pointers what
`KernelProofs` proves of the sequences. `AllTasksAreLinked` needs one conjunct
more, that the doubly linked list has exactly the tasks that are not STOPPED
and both ways lead along the same list; a task that returns is somewhere in it,
and `Unlinked` follows its two neighbours.

`WaitUsProofs` proves the safety properties of `WaitUs` for any period of the
timer, any length of a tick in microseconds, any wait and any width of the halves
of `os_tick_count`, if the timer wraps at twice the period or later (it has 24
bits, and the values 32). `WInv` says what the task knows: after the two reads that
the timer value is of some time in the call and the tick count of the tick of that
time, or one less if a tick was pending (`TimerRead`); in the loop that the two
together are a time no earlier than the start plus the wait (`UntilIsLate`); and
that a count which the loop has loaded is of a tick that has been, unless it was
torn (`TicksHaveBeen`). The step that puts an underflow right is where the two
cases of the arithmetic meet (`AdjustWInv`): either no unsigned number has wrapped, or
two have, and the carry makes up for them. `CountsAreEnough` is the rounding: what the
code counts is the wait but for `Rounded`.

`MailboxProofs` proves for any number of slots, bytes in a message, producers,
consumers and messages in a call, from `MailboxAssumption`, that the mailbox
implements `Fifo` (`ImplementsAQueue`), that the two sides stay apart, that
`data_added` is called and that no call gives up without reason. The invariant
`MInv`: `RingOK` has the types, `Alone` says that each side is in one call at
most and that an atomic call has masked the interrupts, `ProducerOK` and
`ConsumerOK` that a side which copies has room, or a message, and has copied the
bytes before `i`, and `Told` that the call of `data_added` is still to come if it
has not been. A producer that copies has room although the other side goes on,
because the other side only makes more. The commit of a write is then `Put`, that
of a read `Get`, and a byte is stored in none of the slots of the queue
(`Places`). For large messages, where a loop never ends, the theorems hold all
the same: nothing of such a call is seen.

`CharBufferProofs` proves the safety properties of `CharBuffer` for any capacity
and any length of the calls; `PutsAPrefix` under the assumption that nobody calls
`os_char_buffer_write_str_blocking`, which violates it.

`NewlibProofs` proves of the context switch that `Context` implements `VirtualCpu`, on
either core, for any number of tasks, any values in the registers and any depth
of the stacks (`GivesEachAProcessor`). The invariant `CInv` says where the frame
of a task that does not run is, that it has the size that its `exc_ret` says, and
what `os_task_init` has put in it before the first run; and that nothing but `r0`
ever points to a `task_t` by itself. The lemmas follow one frame: what is pushed
is found again (`PushedFrame`, `HoldsAll`) and what is popped is what was pushed
(`PoppedFrame`, `LoadsAll`), while what lies above the stack pointer stays. Each
step then is one of `VirtualCpu`, or none: a switch is the first step of a task
that has not run, and nothing to every other.

Its second part carries that over to tasks that call the library, and proves the
rest of the run's properties from `NewlibAssumption`. `HeapInv`: at most one task
is between the test and the move of `_sbrk_r`, and the end of the heap is then
still what it saw; this is what the mask is for. `ErrnoInv` keeps the error where
`via` says it was stored, and `GlobalInv` says that only one task ever uses the
struct `_reent` of `main()`: the first, until it is switched out, and for the call
it is in then.

Induction. The induction theorems of the library take an operator as a parameter,
which no installed prover instantiates. `TaskLists` states induction of a set
instead (`Induction`), from the fact that a set of natural numbers has a least
element; that is enough for the recursive functions of `Walk` and `InsertByKey`.

Only model-checked: liveness under fairness (`EqualsTakeTurns`, `TopWaiterServed`,
`WaitsEnd`, `WritesReturn`, `ReadsReturn`), which is out of reach of the
prover. Every other property of a passing run is a theorem; `PutsAPrefix` is one
under the assumption above.

## Not modelled

* Stacks byte by byte: the alignment of their tops, overflow, and the functions
  that report how much is used. With a base that is not aligned the 64 bytes that
  `os_task_init` asks for are too few (a hazard).
* Interrupt handlers that interrupt the two handlers of the kernel; see `Kernel`.
* `malloc` of newlib, whose lock the code does not provide, and the growth of the
  main stack after `_sbrk_r` has compared it with the heap.
* Misuse that nothing detects: blocks that are given twice, nested acquisition of
  a resource. Guards of critical sections that are dropped in another
  order than they were made in, and calls that block while interrupts are masked.
* The increment of `os_tick_count` past 2^64, and tick frequencies that do not
  divide 1 MHz, or the clock: `us_per_tick` and the period are rounded then.
* Diagnostics: generated code. `_exit`, which only loops. The Rust functions that
  only forward to C.

## Plan

Done, in this order: `Kernel`, `KernelProofs`, `KernelLists`, `Mailbox`,
`PoolAlloc`, `PoolProofs`, `CharBuffer`, `WaitUs`; then interrupt handlers in
`Kernel` and its proofs, the Rust channels in `CharBuffer`, the Rust pool and the
critical sections in `PoolAlloc` and its proofs, `os_get_tick_count` in `WaitUs`,
`Context`, `VirtualCpu` and `Newlib`, `NewlibProofs`, `MailboxProofs`,
`CharBufferProofs`; then the refinement in `PoolProofs`, `KernelListsProofs` and
`WaitUsProofs`. Left, all of it proof:

1. What is left of the safety half of `EqualsTakeTurns`. That a RUNNABLE task falls
   back in its run queue only when a woken one is put in front of it is proved
   (`TurnsAreKept`); that each dispatch of its level brings it one place forward
   is not.
2. That the loop of `wakeup_tasks` ends: the sleepqueue gets shorter with each
   iteration, and nothing is inserted while the handler runs.
