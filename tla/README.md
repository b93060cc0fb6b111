# A TLA+ development for the minimal Linux kernel

This directory specifies and verifies parts of the kernel in this repository: a
Linux 4.15/4.16 tree stripped to what an x86-64 uniprocessor with a serial line, a
virtual terminal, ramfs and devpts needs (`minimalconfig`: no SMP, PREEMPT_NONE,
TINY_RCU, TINY_SRCU, SLOB, HZ_PERIODIC, the xadd rwsem).

It is read next to the code.  Every definition that models code is mapped, in
`PROJECT.json`, to the lines it stands for.

## 1. The system and its parts

The kernel is a set of passive subsystems.  They run in the context of tasks (system
calls, kernel threads), of interrupts and of softirqs, and they meet in shared memory.
What orders them is the synchronisation core (semaphores, mutexes, rw-semaphores,
RCU, wait queues, completions), and what runs them is the execution core (scheduler,
softirqs, workqueues, kthreads, timers, interrupts).  Everything else (memory, files,
devices) is written against those two.  The inventory below therefore starts there.

| part | files | state | operations | what is hard |
|---|---|---|---|---|
| counting semaphore | kernel/locking/semaphore.c | count, wait_list, waiter.up | down*, down_trylock, up | a signal or timeout racing with the hand-over in `__up` |
| rw-semaphore | kernel/locking/rwsem*.c | count with bias, wait_list, waiter.task | down_read/write(_killable), trylocks, up, downgrade | one word holds active and waiting counts; lock-free fast paths against queued waiters; killed waiters |
| mutex, ww_mutex | kernel/locking/mutex.c | owner word with 3 flags, wait_list | lock*, trylock, unlock, ww variants | hand-off and pick-up against stealing; wound/wait order |
| per-CPU rw-semaphore | kernel/locking/percpu-rwsem.c | read counts, readers_block, rcu_sync | down_read, up_read, down_write, up_write | readers that take no lock against a writer that waits for them |
| rcu_sync | kernel/rcu/sync.c | gp_state, gp_count, cb_state | enter, exit, callback, dtor | exit and enter while a callback is pending |
| Tiny RCU | kernel/rcu/tiny.c | two callback lists with done/current tails | call_rcu, quiescent states, RCU_SOFTIRQ | callbacks added by interrupts while the lists are spliced |
| Tiny SRCU | kernel/rcu/srcutiny.c | index, two reader counts, callback list | read_lock/unlock, call_srcu, synchronize, grace-period work | late readers on the old index, requests that arrive while the work ends |
| wait queues, completions | kernel/sched/{wait,swait,completion}.c | entry lists, done counter | prepare/finish_wait, wake_up, complete, wait_for | lost wake-ups; exclusive waiters; complete_all |
| softirq, tasklets | kernel/softirq.c, kernel/smpboot.c | pending mask, tasklet lists and state bits, ksoftirqd | raise, __do_softirq, local_bh_disable/enable, tasklet_schedule/disable/kill | who takes care of what is raised while the loop or ksoftirqd runs or ends; disable counts |
| workqueue | kernel/workqueue.c | work data word, pools, pwqs, flush colours | queue, cancel, flush, worker loop, rescuer | PENDING ownership, flush colours, concurrency management |
| kthread, kthread_worker | kernel/kthread.c | flags SHOULD_STOP/PARK, completions | create, stop, park, worker queue/flush/cancel | stop racing with start; park racing with unpark |
| task_work, irq_work | kernel/task_work.c, kernel/irq_work.c | lock-free lists | add, cancel, run | lock-free push against exit; requeue while running |
| timer wheel | kernel/time/timer.c | wheel buckets, pending bitmap, clk, running timer | add, mod, reduce, del, tick, run | rounding of expiry, wrap-around; modification while the timer expires |
| hrtimers, timekeeping, clock events | kernel/time/*.c | clocksource, seqcount, ticks | update, read, settime | overflow of cycle deltas; readers against update |
| generic interrupts | kernel/irq/*.c | desc state bits, depth, action list, thread masks | request, free, enable, disable, flow handlers, threads | edge resend, oneshot threads, disable nesting |
| vector matrix | kernel/irq/matrix.c | allocation maps and counters | reserve, assign, alloc, free, online, offline | counters that must follow the maps |
| scheduler core and CFS | kernel/sched/{core,fair,idle,...}.c | run queue, task state, vruntime tree | schedule, try_to_wake_up, enqueue, tick | wake-up between setting the state and schedule |
| signals | kernel/signal.c | pending sets, group_stop, job control | send, dequeue, stop, continue, exit | group stop against kill |
| fork, exit, wait, pid | kernel/{fork,exit,pid}.c | task tree, exit_state, pid maps | copy_process, do_exit, release, wait4 | reparenting, reaping once |
| notifier chains | kernel/notifier.c | priority list | register, unregister, call | removal while being called |
| async calls | kernel/async.c | pending lists, cookies | schedule, synchronize | cookie order |
| printk | kernel/printk/*.c | record ring, console_sem, console_seq | vprintk_emit, console_unlock, syslog reads | records stored by callers whose trylock of the console failed |
| resources, cpu hotplug states, params, sysctl, reboot, power | kernel/*.c | trees, tables | insert, find, set | mostly sequential |
| page allocator | mm/page_alloc.c, mm/memblock.c, mm/nobootmem.c | free areas by order, zones, per-cpu lists | alloc, free, split, merge | buddies must tile memory |
| slab: SLOB, mempool, dmapool, percpu, vmalloc | mm/{slob,mempool,percpu,vmalloc}.c | free lists | alloc, free | pool at its limit, min_nr guarantee |
| page cache, reclaim, writeback, shmem, rmap, faults | mm/*.c | radix trees, LRU lists, page flags | fault, read, reclaim | reference counts against reclaim |
| dcache, inodes, super blocks, mounts, namei | fs/*.c | dentry tree, hash, refcounts | lookup, dput, iget, iput, umount | lockref and RCU walk |
| files, pipes, select, splice, exec | fs/{file,pipe,select,splice,exec}.c | fd table, pipe ring | open, dup, close, read, write | installed and reserved descriptors; reader and writer wakeups |
| ramfs, devpts, proc stubs | fs/ramfs, fs/devpts | inodes | mount, create | sequential |
| ldsem | drivers/tty/tty_ldsem.c | count with bias, two wait lists, wait_readers | down_read/write with timeout, trylocks, up | waiters that time out while locks are granted |
| tty core, line discipline, buffers | drivers/tty/*.c | flip buffers, read_buf indices, ldisc refs | receive, read, flush, hangup | hangup against I/O; lock-free flip buffers |
| serial 8250, virtual terminal, keyboard | drivers/tty/serial, drivers/tty/vt | circular buffer, registers, screen | tx, rx, write | interrupt against write |
| driver core, devres, platform, component | drivers/base/*.c | device lists, klists, devres groups | register, bind, unbind, deferred probe | deferred probing against bind |
| input, serio, rtc, char mem/random | drivers/{input,rtc,char} | handler lists, entropy pools | event, connect | asynchronous event queue |
| data structures | lib/*.c | idr, radix tree, rbtree, kfifo, klist, llist, lockref, refcount, percpu_ida, plist | insert, remove, iterate | boundary cases, lock-free pushes |
| x86 architecture | arch/x86 | page tables, descriptor tables, APIC | entry, traps, mm | hardware semantics, assembly |
| build, boot, security | init, scripts, security, usr | | | start-up order |

### How the parts interact

* Sleeping locks are built on the scheduler's `set_current_state()` / `schedule()` /
  `try_to_wake_up()` protocol, and must survive its spurious wake-ups and signals.
* A per-CPU rw-semaphore contains an rcu_sync, an rw-semaphore and an rcuwait; an
  rcu_sync waits for RCU grace periods, by `synchronize_*()` and by a callback.
* Tiny RCU is driven by `__schedule()`, by the tick and by `__do_softirq()`, and runs its
  callbacks in RCU_SOFTIRQ.  Tiny SRCU runs its callbacks in a work item.
* The tick advances jiffies and raises TIMER_SOFTIRQ; softirqs run when an interrupt or a
  bottom-half section ends, or in ksoftirqd; delayed works are queued by timers.
* Workers tell the pool when they sleep and wake up, from inside the scheduler.
* File systems freeze with three per-CPU rw-semaphores (`sb->s_writers`), consoles are
  guarded by a semaphore, and every subsystem uses mutexes and rw-semaphores.

### What each part must guarantee

| part | promise |
|---|---|
| semaphore | units are conserved; no sleeper beside a free unit; sleepers are served |
| rw-semaphore, per-CPU rw-semaphore, ldsem | readers or one writer (`RWLock`), downgrade lets no writer in; no lost wake-up |
| mutex, ww_mutex | one owner; a hand-off goes to the first waiter and is picked up; contexts never wait in a circle |
| RCU, SRCU | no callback before the older readers have left (`GracePeriod`); none lost; all invoked |
| rcu_sync | after enter no reader on the fast path; after the last exit it opens, not too early and not never |
| completion, wait queue | a wake-up is not spent on a waiter that gives up |
| workqueue | a queued work is executed once for each queueing, never twice at a time; flush and cancel return after the executions they promise to wait for; no worker idles beside work |
| softirq, tasklet | what is raised is run, and the task too; a tasklet is on one list, once, while it is scheduled |
| timer | never early; not late by more than the granularity of the level; `mod_timer()` is `del_timer()` and `add_timer()` |
| page allocator | free blocks tile the free memory and are merged as far as possible |
| freeze | at each level no writer is inside when it is closed; a failed freeze reopens all of them |

## 2. Conventions of the models

* **Atomicity.**  There is one CPU.  A section under `raw_spin_lock_irq()` or with
  interrupts off is one action.  Everywhere else an action ends at the next access to
  shared state, and other tasks, or interrupts, may take steps before the task goes on.
  `wait_lock` of a mutex is an ordinary spinlock, so it is a variable, and the atomic
  operations on the owner word interleave with a task inside it.  This is finer than the
  configured kernel (PREEMPT_NONE) allows, so what is shown covers preemption as well.
  Memory is sequentially consistent, as it is for the threads of one CPU.
* **Sleeping.**  `state` is `task_struct.state`, or `asleep` is the set of tasks that are
  not runnable.  Setting the state, testing the condition and `schedule()` are separate
  steps.  `Signal`, `Kill` and `TimerFires` act on sleepers at any time, and `StrayWakeup`
  wakes one for no reason: late wake-ups happen in the kernel.  No property against lost
  wake-ups relies on a stray one.
* **Data.**  A waiter is its task, a callback is a name, a signal is "none", "signal" or
  "fatal", a timeout is "forever", "left" or "expired".  Local variables that are dead are
  reset when the slow path is left; this merges states and changes no behaviour.
* **History variables** (`owned`, `extra`, `posted`, `old`, `stale`, `bug`) record what the
  properties speak of.  No guard of a modelled operation of the kernel depends on them;
  `owned`, `extra` and `posted` only express that callers release what they hold, that
  unmatched calls of `up()` are bounded (`MaxExtra`), and that nobody posts a callback that
  is still queued.
* **Operators whose names end in a description of a fault** (`UpCountAndWake`,
  `SyncedEarly`, ...) are wrong variants of the operator that follows them.  No
  specification uses them.  Each is the evidence that a property can fail: TLC finds the
  property violated when the variant takes the operator's place.

## 3. The modules

| module | models | remarks |
|---|---|---|
| `Semaphore` | kernel/locking/semaphore.c | `DownFast` is any caller that finds a unit, `DownBlock` the queueing, `Wait` one turn of the loop in `__down_common()` (`WaitSucceed`, `WaitFail`, `WaitAgain`), `Up` both branches of `up()` |
| `Rwsem` | kernel/locking/rwsem-xadd.c, rwsem.c, arch/x86/include/asm/rwsem.h | fast paths are one atomic instruction; the slow paths of readers and writers, `__rwsem_mark_wake()`, the wake queue, killing and downgrading |
| `RWLock` | abstract | readers or one writer |
| `Mutex` | kernel/locking/mutex.c, include/linux/ww_mutex.h | one action per atomic operation on the owner word; wound/wait contexts with stamps, back-off, hand-off and pick-up |
| `GracePeriod` | abstract | a callback runs after the readers older than it |
| `SrcuTiny` | kernel/rcu/srcutiny.c, include/linux/srcutiny.h | `srcu_drive_gp()` statement by statement, `call_srcu()` in two steps at any point of it |
| `RcuTiny` | kernel/rcu/tiny.c and its callers | the two lists with their tail pointers; task, softirq and hardirq levels on one CPU; idle, user and kernel mode |
| `RcuSync` | kernel/rcu/sync.c, include/linux/rcu_sync.h | enter, exit, the callback, destruction and reuse |
| `PercpuRwsem` | kernel/locking/percpu-rwsem.c, include/linux/percpu-rwsem.h, rcuwait | EXTENDS `RcuSync`: its writers are the updaters.  `rw_sem` is a reader/writer lock, which `Rwsem` is shown to implement, and the grace periods are those of `GracePeriod`, which `RcuTiny` is shown to implement |
| `Ldsem` | drivers/tty/tty_ldsem.c | the lists of readers and writers, grants in `__ldsem_wake_readers()`, timeouts of both |
| `WorkPool` | kernel/workqueue.c: `__queue_work()`, `try_to_grab_pending()`, `process_one_work()`, workers, manager, mayday and rescuer | one bound workqueue with its pool_workqueue and worker pool.  A work is its data word (PENDING, colour, linked, on a list) and what pool->lock protects changes in one step; the hooks of the scheduler are steps of their own |
| `Workqueue` | kernel/workqueue.c: the callers | EXTENDS `WorkPool`: queueing from tasks, interrupts and works, delayed works and their timer, `mod_delayed_work()`, `cancel_work()`, `cancel_work_sync()`, `flush_work()`, `flush_workqueue()` with colours, cascading and overflow, `drain_workqueue()` |
| `Softirq` | kernel/softirq.c, the loop in kernel/smpboot.c, include/linux/interrupt.h | the CPU runs a task or ksoftirqd, a softirq loop may be on top of it, and a hardirq with `irq_exit()` is one step on top of that.  Vectors HI, TIMER and TASKLET |
| `Timer` | kernel/time/timer.c, `tick_periodic()` | EXTENDS `Softirq`: its TIMER action is `run_timer_softirq()`.  The wheel is one record; jiffies has `BITS_PER_LONG` bits and wraps; `mod_timer()` is two steps, the look without the lock and the rest |
| `MC*` | | model values, symmetry sets, and the ways in which a workqueue, tasklets and timers are used (`Uses`), for TLC |
| `List` | include/linux/list.h | the operations on lists, as sequences of entries |
| `*Proofs` | | theorems, one module for each component that has them; what a proof needs of lists is at its head |

The composition is by promise: a component is checked to implement an abstract module,
and its user is modelled over that module.

    PercpuRwsem --uses--> RcuSync --uses--> GracePeriod <--implements-- RcuTiny, SrcuTiny
         |    \--uses--> RWLock  <--implements-- Rwsem, Ldsem
         \--implements--> RWLock

    Workqueue --extends--> WorkPool        Timer --extends--> Softirq

`RcuTiny` and `SrcuTiny` assume that RCU_SOFTIRQ is run and that a queued work runs.  The first
is what `SoftirqServed` and `SoftirqProgress` say of the other vectors; of the second,
`Accounting` and `NoStall` say that the work is on the list and that a worker is on its way.

## 4. The runs

| run | instance | states | checks |
|---|---|---|---|
| semaphore | 2 tasks, 1 unit, 1 unmatched `up()`, fair | 7 884 | `UnitsConserved`, `NoWaiterLeftBehind`, `QueueMatchesWaiters`, `WaitersServed` |
| rwsem | 3 tasks, bias 16, symmetric | 115 322 | `CountExact`, `NoLostWakeup`, `ImplementsRWLock` |
| mutex | 3 tasks, 2 locks, all with contexts or none, symmetric | 882 577 | `MutualExclusion`, `PickupWillHappen`, `NoLostWakeup`, `HandoffHonoured`, `WaitListOrdered`, `NoDeadlock`, `BacksOffForOlder` |
| srcu_tiny | 2 readers, 2 callbacks, fair | 13 220 | `NothingLost`, `ImplementsGracePeriod`, `CallbacksInvoked` |
| rcu_tiny | 2 sched and 1 bh callback, fair | 36 638 | `NothingLost`, `ImplementsSched`, `ImplementsBh`, `CallbacksInvoked` |
| percpu_rwsem | 1 reader, 2 writers, fair | 19 746 | `FastPathClosed`, `OpenAfterGracePeriod`, `NoBug`, `WriterIsWoken`, `ImplementsRWLock`, `WritersGetIn`, `FastPathReopens` |
| ldsem | 4 tasks, bias 16, write timeouts, symmetric | 189 009 | `CountExact`, `NoLostWakeup`, `ImplementsRWLock` |
| workqueue | 7 uses, up to 3 workers and a rescuer, 2 works, 3 callers, 3 colours, symmetric | 214 302 | `Accounting`, `NonReentrant`, `FlushWaits`, `CancelSync`, `NoWarning`, `NoStall` |
| timer | 3 tasklets; 1 or 2 timers, 3 levels of 2 buckets, 16 values of jiffies, fair | 147 903 | `SoftirqServed`, `TimersOnTime`, `SoftirqProgress` |

These pass, and deadlock is checked in all of them.  Three more show where the code and what it
says of itself disagree:

| run | violated | what happens |
|---|---|---|
| ldsem_timeout | `ActiveExact` | a reader that times out leaves `wait_readers` incremented; the next grant counts it, and the semaphore stays read-locked.  In this tree no caller passes a read timeout, so the run has a specification of its own and the path is latent |
| workqueue_cancel | `FlushedIsIdle` | `flush_work()` of a work that runs and is queued again waits behind the queued instance only; when that instance is cancelled the flush returns while the work still runs, which its comment rules out |
| timer_mod | `ModTimerArms` | a timer expires after `mod_timer()` has seen it pending and before it has the lock.  If the new expiry has the index that is left in the timer's flags (64 jiffies after the old expiry, on level 0), the timer is not enqueued and never fires, though `mod_timer()` returns 1.  With the timer already collected for expiry, it fires at once instead of at the new time |

*Why the bounds are enough.*  Three tasks on a lock are an owner, a waiter at the head of
the queue and one that queues, steals or leaves behind it: every branch of the wake-up and
hand-off code distinguishes at most these.  With two contexts a circle needs two locks; the
third context is there to be ordered between two others in the wait list.  The bias of the
rw-semaphore (2^32 in the code) only has to exceed the number of tasks.  Two callbacks are
the first and the last of a list, and the third of Tiny RCU is of the other flavour.  Two
writers make an exit meet an enter while the callback is pending.  The workqueue is bounded
by its uses: each combines two or three kinds of calls, since all of them at once are too many
for TLC; three colours are the smallest number for which a flusher overflows while another
colour is free (`NR_COLORS` is 15 in the code).  The wheel has two levels below the last one,
so that the rounding to a granule is on a level that is neither the first nor the last, jiffies
starts three ticks before it wraps as it starts five minutes before in the code, `MaxLag` lets
the wheel be two ticks behind, and `late` lets one tick pass in the middle of `mod_timer()`;
timers and tasklets are used apart.  The safety properties of all runs but `workqueue`,
and but `TimersOnTime` of `timer`, are also proved, for every size of the constants, so
those runs are small, and where they can be they serve the liveness properties as well.
Symmetry is used in runs without liveness properties only.

*Parts of the code that a property leaves out.*  `TimersOnTime` does not say when the timers
of the last level that `calc_wheel_index()` misplaces (`Obscene`) expire: the code compares the
absolute expiry with the capacity of the wheel, where the comment above ("Force expire obscene large timeouts to
expire at the capacity limit of the wheel") needs the time that is left.  On 64 bits jiffies
starts above that limit, so a timer more than about six days away (HZ=250) goes to one fixed
bucket, whatever its expiry.  Nor does it speak of timers that `mod_timer()` has missed in the
way `timer_mod` shows, until they are armed again.  `NoStall` speaks only of uses of the
workqueue without `cancel_work()`, `cancel_work_sync()` and `mod_delayed_work()`:
`try_to_grab_pending()` takes a work off its list, and what it moves from the delayed list to the
worklist on the way wakes no worker.

*Every action fires* in one of these runs.

### Fairness, and why the code justifies it

* Semaphore: a waiter that is runnable gets to run (`Wait`; the scheduler does not starve
  a task), and owners call `up()` in the end.  Callers on the fast path, timers and
  signals are not assumed to come.
* Tiny SRCU: the queued work runs (workqueue), critical sections end, and an interrupted
  `call_srcu()` goes on.
* Tiny RCU: at every level a moment without critical section comes again and again; the
  timer interrupt comes (HZ_PERIODIC) and ends; a raised softirq is run, by the interrupt's
  exit or by ksoftirqd; and the task level schedules, or is met by a tick that reports a
  quiescent state.  Strong fairness, since the levels preempt each other: a softirq
  that is interrupted is not enabled all the time.
* Softirqs and timers: the loop goes on when it can, the functions of timers return, the task
  that has begun something goes on between interrupts, the scheduler lets ksoftirqd run when it
  is runnable and the task is not in the middle of something, and lets the task run when ksoftirqd
  offers the CPU after each round (`cond_resched_rcu_qs()`), and the clock ticks.  Strong
  fairness, since interrupts and softirqs take the CPU again and again.  What the task and the
  functions do is not bounded otherwise: a tasklet may schedule itself for ever.
* Per-CPU rw-semaphore: tasks inside go on, the callback runs after its grace period,
  and `rw_sem` does not starve a task that could have it again and again (strong
  fairness).  The last is an assumption: the wake-up goes to the head of the queue, but a
  writer that is awake may take the semaphore first, and it is taken that this does not
  happen for ever.

Readers that call `percpu_down_read_trylock()` in a loop may raise the count at every check
of the writer.  Nothing in the code bounds that, so `WritersGetIn` promises the writers their
turn only if the readers stop trying in the end.

`SoftirqProgress` says of runs with a tick only that the wheel goes on: `__run_timers()` ends when
it has caught up with jiffies, and nothing bounds a function that is slower than a tick.  For the
workqueue no fairness is assumed: `NoStall` and the check for deadlock say that the pool never
stops beside work, not that a given work's turn comes.

## 5. The proofs

Theorems hold for every value of the constants that satisfies the named assumptions:
finitely many tasks, readers or updaters where a cardinality is counted, N a natural number,
and `None`, `NULL` or `Cb` different from the other names.  `SrcuTiny` assumes no more readers
than a `short` can count, since `srcu_lock_nesting` is one; `Rwsem` and `Ldsem` assume that the
bias exceeds the number of tasks (2^32 in the code), `RcuTiny` that no callback is used with
both flavours, and `Timer` that the tasklets of a use are tasklets.  TLC evaluates these
assumptions in the runs.

| module | theorem | statement |
|---|---|---|
| `SemaphoreProofs` | `TypeCorrect` | `Spec => []TypeOK` |
| | `NobodyLeftBehind`, `QueueCorrect` | `Spec => []NoWaiterLeftBehind`, `[]QueueMatchesWaiters` |
| | `UnitsConservedAlways` | `Spec => []UnitsConserved` |
| `RwsemProofs` | `CountIsExact`, `RwsemLosesNoWakeup` | `Spec => []CountExact`, `[]NoLostWakeup` |
| | `RwsemIsRWLock` | `Spec => ImplementsRWLock` |
| `MutexProofs` | `MutexExcludes`, `HandoffsAreHonoured` | `Spec => []MutualExclusion`, `HandoffHonoured` |
| | `WaitersAreOrdered` | `Spec => []WaitListOrdered` |
| | `MutexLosesNoWakeup`, `HandoffsArePickedUp` | `Spec => []NoLostWakeup`, `[]PickupWillHappen` |
| | `BacksOffOnlyForOlder`, `MutexesDoNotDeadlock` | `Spec => BacksOffForOlder`, `[]NoDeadlock` |
| `LdsemProofs` | `LdsemCountExact`, `LdsemLosesNoWakeup` | `Spec => []CountExact`, `[]NoLostWakeup` |
| | `LdsemIsRWLock` | `Spec => ImplementsRWLock` |
| `SrcuTinyProofs` | `TypeCorrect`, `GracePeriodHolds`, `NothingIsLost` | `Spec => []TypeOK`, `[]CallbacksAreSafe`, `[]NothingLost` |
| | `Refinement` | `Spec => ImplementsGracePeriod` |
| `RcuTinyProofs` | `RcuLosesNoCallback` | `Spec => []NothingLost` |
| | `RcuSchedIsGracePeriod`, `RcuBhIsGracePeriod` | `Spec => ImplementsSched`, `ImplementsBh` |
| `PercpuRwsemProofs` | `FastPathIsClosed`, `OpensAfterGracePeriod`, `NoBugTriggers` | `RssSpec => []FastPathClosed`, `[]OpenAfterGracePeriod`, `[]NoBug` |
| | `UsesRcuSync` | `Spec => RssSpec` |
| | `Refinement` | `Spec => ImplementsRWLock` |
| | `WritersCloseFastPath`, `NoWriterForgotten` | `Spec => []FastPathClosed`, `[]WriterIsWoken` |
| `TimerProofs` | `SoftirqsAreServed` | `Spec => []SoftirqServed` |

Each proof has an inductive invariant, shown of the initial states, kept by each action (one
lemma or step each), and implying the property.  The invariants, and why they are needed:

**Semaphore.**  `QueueInv` ties the list to the sleepers: a task is on the list exactly while
it waits without a grant, and nobody waits while the count is positive.  Neither half is
inductive alone, since `up()` looks only at the list.  With it every step keeps
`count + owned + grants` balanced: `__up()` grants to a waiter that has no grant, and a
waiter that gives up has none to lose.

**rw-semaphore.**  `IInv` says that the wait list has one entry for each reader and writer whose
place in the code says that it is queued (`ListOf`), and that the count is the number of tasks
that have or try to have it, plus the write bias of the writers, plus the waiting bias if the
list is not empty.  `SignTellsWriters` and `LowHalf` are the arithmetic: with fewer tasks than
the bias the sign of the count tells readers from writers and its low half is the number of
active tasks, so a fast path that succeeds excludes.  The wake-up in `__rwsem_mark_wake()` moves
a prefix of readers from the list to the count, which is the longest part.  On top of it `WInv`
says that a queue without a holder is attended to, that a writer tries for the lock only with
the count of a free one, and that a reader that was granted the lock is awake or will be.

**Mutex.**  `IInv` (`Exclusive`, `Counted`) makes exclusion inductive: who has the lock by its
call does not hold it already, an unlocking task that saw the HANDOFF flag still owns the lock,
and a lock that is handed over has an owner.  `QInv` ties lists and flags to the places of the
tasks (`Lined`, `Flagged`: WAITERS is set unless the only waiter is about to set it, inside
wait_lock) and has the order of the waiters with contexts.  `WInv` adds the two properties on
wake-ups, which need each other: a wake-up is owed to the first waiter, and a hand-over goes to
it.  For deadlock `DInv` says that every locked mutex has a task that owns it, was handed it or
hands it over (`Owned`), that tasks without context hold one lock at a time and locks carry the
context of their holder (`Contexts`), and that a context that sleeps while it holds locks is the
first context in its list and waits for a younger one (`Patient`).  So in a set of tasks that
wait for each other the youngest context would wait for a younger one.

**ldsem.**  `IInv`: each of the two lists holds the tasks whose place says so, `wait_readers` is
the length of the list of readers, the count is exact, readers and writers exclude each other, a
writer that goes to the slow path has seen another active task, and a list without a holder has
somebody awake who will look.  Write timeouts are part of it; the read timeouts that
`ldsem_timeout` shows to break the count are not, as in the code no caller passes one.

**Tiny SRCU.**  One flip of the index is enough because of `PhaseInv`: outside of the wait no
reader is on the index that new readers do not use; so at the flip all readers are on the
index that is waited for, and the readers older than a grabbed callback among them.
`CountInv` makes "the counter is zero" mean "no reader is on that index", and keeps
the counters in the range of a `short`.  `DistinctInv` says
that the two lists hold each posted callback once.

**Tiny RCU.**  The lists are chains of pointers with two tail pointers into them, so `Lists` says
that there are sequences which the pointers follow (`Chain`), of which donetail marks a prefix
whose callbacks wait for nobody, with curtail at the end; the softirq's local list is one as
well, and together they hold what was posted, each callback once.  Each handler is a lemma about
chains: adding at the tail, splitting off the done part, following a pointer.  `Contexts` says on
which level a critical section can be, and `Waiting` that a callback waits only for sections
that have not ended; that is why a quiescent state may move curtail to donetail.

**rcu_sync.**  `StateInv` ties `gp_state` to who is in `sync()` and `cb_state` to the queued
callback; `FastInv` says that the readers on the fast path are among those `sync()` waits
for; `StaleInv` says that the readers from before the last exit are among those the
callback waits for, unless it will be queued again (CB_REPLAY) or an updater is inside.

**Per-CPU rw-semaphore.**  `UsesRcuSync` shows that every step is one of `RcuSync` or leaves
its variables alone, so `RssInv` is available.  `ReadCountInv` counts the readers between
increment and decrement; `BlockInv` keeps `readers_block` set while a writer waits or
writes; `RwInv` relates `rw_sem` to the program counters.  A reader is then let in by the
fast path only with the writers out, by `readers_block` not set, or by `rw_sem`.  For
`WriterIsWoken`, `WakeInv` follows the rcuwait: a writer that found readers registers before
it looks again, and a reader that leaves lowers the count before it looks for the writer, so
when the count has become zero one of the two knows of the other.  It needs that no reader
leaves on the fast path then (`NoFastReader`), which is the guarantee of rcu_sync.

**Softirqs and tasklets.**  `IInv` has the three parts of `SoftirqServed`: somebody will look at
what is pending (`Awake`), the SCHED bits and the lists agree (`Placed`), and a list that is not
empty is due (`Raised`).  It needs `Bits`, that of the task and the tasklet function only the one
that has set a SCHED bit lists the tasklet or clears the bit, and `Loop`, that the local list of
`tasklet_action()` is empty outside of it.  Lists are moved as a whole and entries one by one;
`AddTail`, `TakeHead` and `TakeList` say that neither loses or doubles an entry.  The theorem is
about `Timer`, whose steps are those of `Softirq`, the ticks and the wheel.

### What is only model-checked

* Liveness (`WaitersServed`, `CallbacksInvoked`, `WritersGetIn`, `FastPathReopens`,
  `SoftirqProgress`): it rests on fairness and ENABLED, which the prover does not reach.
* `TimersOnTime`: its induction is arithmetic on symbolic powers of two (granules of levels,
  differences that wrap), and the provers have no theory of division by a variable.
* The six properties of `Workqueue`.  `Accounting`, `FlushWaits` and `NoStall` count over
  finite sets that several callers change at once, through folds about which the prover knows
  nothing; `CancelSync` and `NoWarning` need the life of every barrier and colour as an
  invariant.  Of these `NonReentrant` would be the first to follow.

## 6. What is not modelled, and what comes next

Of the parts that are modelled, these are left out:

* Workqueue: unbound workqueues and attributes, CPU hotplug, creation and destruction of pools
  and workqueues, freezing and changes of `max_active`.  With one CPU a bound workqueue has one
  pool_workqueue, and `try_to_grab_pending()` never has to retry (-EAGAIN).  While a workqueue is
  drained no delayed work is pending, as `drain_workqueue()` asks of its users.
* Softirqs: the vectors other than HI, TIMER and TASKLET, whose actions belong to other parts,
  `tasklet_hrtimer`, `tasklet_kill_immediate()` and parking of ksoftirqd (CPU hotplug), threaded
  interrupts (`force_irqthreads`).
* Timers: everything under NO_HZ (idle bases, forwarding, deferrable timers), migration of timers,
  `round_jiffies()`, `schedule_timeout()` and `msleep()`, and the debugging hooks.

The remaining parts of the inventory are listed in `PROJECT.json` with the reason.  Some are
out of reach (hardware, assembly, page tables, 64-bit time arithmetic); some are
sequential and served by tests; candidates for a next step are freezing a file system over
three `RWLock`s, completions with kthread park and stop, and the buddy allocator.

Proofs that could follow are those of the workqueue, beginning with `NonReentrant`.

### Further hazards

Besides the ones in `PROJECT.json`, these are the places where a later model should look.

| where | kind | what |
|---|---|---|
| kernel/sched/completion.c:90 | stale_state | A waiter whose timeout ends as complete() runs must take the unit it was given or leave it: done is tested again after the timeout. |
| kernel/sched/completion.c:37 | numeric_edge | done saturates at UINT_MAX, which complete_all() also uses as its mark: a waiter that decremented it would turn 'done for ever' into a count. |
| kernel/sched/wait.c:283 | protocol_sequence | A signal takes an exclusive waiter off the queue; a wake-up already spent on it would be lost for the other waiters if the entry stayed queued. |
| kernel/kthread.c:187 | interleaving | unpark and a new park between the thread's last test of SHOULD_PARK and its clearing of IS_PARKED: the second parker may wait for a completion, or return early, on a stale bit. |
| kernel/task_work.c:103 | interleaving | task_work_add() races with the exiting task's last task_work_run(): a work is either run or refused, never left on a list nobody will run. |
| kernel/irq_work.c:146 | atomicity | The handler's end clears BUSY only if nobody claimed the work again meanwhile. |
| kernel/irq/chip.c:728 | unreliable_delivery | An edge that arrives while the line is disabled is not repeated by the hardware: it must be remembered as pending and resent by enable_irq(). |
| kernel/irq/matrix.c:176 | partial_failure | irq_matrix_reserve_managed() allocates one bit on each CPU and undoes the earlier ones when a later CPU has none: counters and maps must agree again. |
| kernel/sched/fair.c:502 | numeric_edge | Virtual times wrap: entities are compared by the sign of a difference, an order only while they are less than 2^63 apart. |
| kernel/signal.c:2015 | interleaving | A group stop counts the threads still to stop; SIGCONT, SIGKILL and exiting threads change the set while it is counted down. |
| kernel/exit.c:1076 | interleaving | Two threads of the parent wait for the same zombie: only the one whose cmpxchg succeeds may reap it. |
| kernel/async.c:98 | ordering | async_synchronize_cookie() waits for the lowest cookie in progress, which is the head of the list only if entries are queued in cookie order. |
| kernel/printk/printk.c:2226 | interleaving | A record stored after the last flush and before up(console_sem), by a printk whose trylock failed, is printed only because console_unlock() looks again. |
| mm/page_alloc.c:801 | protocol_sequence | After any sequence of allocations and frees the free blocks must tile free memory, disjoint and maximally merged; page_is_buddy() reads the order of a page that may be on no list. |
| mm/mempool.c:284 | resource_bound | mempool_resize() drops its lock to allocate while elements are taken and returned: curr_nr must never pass min_nr, in either direction of the resize. |
| fs/dcache.c:580 | interleaving | A dentry killed while it is on a shrinker's private list must be freed by the shrinker and by nobody else. |
| kernel/softirq.c:577 | liveness | tasklet_kill() of a tasklet that is disabled waits for ever, and ksoftirqd spins meanwhile. |
| fs/super.c:1447 | interleaving | s_umount is dropped while the write level is closed; a second freeze or a thaw in that window is turned away by the frozen field alone. |
| fs/super.c:1463 | partial_failure | freeze_fs() fails after three levels are write-locked: all must be released in the reverse order and the waiters of a frozen super block woken. |
| fs/file.c:165 | stale_state | The table is copied while fd_install() runs without the lock: a store into the old table after the copy would lose the file; the grace period must cover it. |
| fs/pipe.c:335 | liveness | Readers and writers sleep on one queue; each must wake the other before it sleeps itself, or both wait. |
| fs/pipe.c:1104 | numeric_edge | Resizing moves a ring that may wrap: the split into head and tail at the boundary must keep the order of the buffers. |
| drivers/tty/tty_buffer.c:275 | atomicity | The receive interrupt switches buffers while flush_to_ldisc() drains the old one: next must be read before commit, or the last bytes are freed unread. |
| drivers/tty/n_tty.c:1690 | resource_bound | When read_buf is full and no newline is in it, the producer may overwrite the last character; otherwise it must stop and be restarted by the reader. |
| drivers/base/dd.c:358 | stale_state | A device defers while the one it needs is bound by another thread: if the trigger count were not compared with the one read before probing, it would wait for ever. |
