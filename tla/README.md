# TLA+ models of the dual-core µT-Kernel 3.0 for the RP2040

The repository is µT-Kernel 3.0 extended to run one kernel image on both
Cortex-M0+ cores of the RP2040 (`TK_SUPPORT_SMP`). The upstream kernel protects
everything by masking local interrupts; the port adds a recursive kernel lock, a
scheduler that places tasks on two processors, a dispatcher that runs on both of
them without taking the lock, inter-processor interrupts, and timer handlers that
are executed on the processor they are assigned to. These are the parts tests on
hardware reach least. The models cover them, the object calls that run under the
lock, and the code of the upstream kernel that still relies on masking alone.

## 1. Inventory

### Components, state, operations

| Component | Source | State | Operations |
|---|---|---|---|
| Kernel lock | `tkernel/smp_lock.c`, `armv6m/cpu_status.h`, `rp2040/smp_atomic.c` | lock word, depth and kept PRIMASK per core, one SIO spinlock | enter, leave, abandon, suspend, resume; `BEGIN/END_CRITICAL_SECTION`, `DISABLE/ENABLE_INTERRUPT` |
| Inter-processor interrupts | `rp2040/smp_rp2040.c` | mask of pending reasons per core, SIO FIFOs | send, take, the two FIFO handlers |
| Ready queue and placement | `tkernel/ready_queue.h`, `ready_queue_smp.c` | queue by priority, object-lock holder | insert, delete, rotate, choose, place, publish |
| Task management | `tkernel/task.c`, `task_manage.c` | control blocks, free list | create, delete, start, exit, terminate, change priority, rotate, release |
| Task synchronization and waiting | `tkernel/task_sync.c`, `wait.c`, `wait.h` | wait state, suspension and wakeup counts | suspend, resume, sleep, delay, wake up, cancel |
| Dispatcher, dispatch control | `armv6m/dispatch.S`, `cpu_cntl.c`, `tkernel/cpuctl.c` | `knl_ctxtsk[]`, `knl_schedtsk[]`, `knl_dispatch_disabled[]`, PendSV | dispatch, forced dispatch, `tk_dis_dsp`, `tk_ena_dsp` |
| SMP start-up | `smp_rp2040.c`, `sysinit.c`, `pico_rp2040/devinit.c` | ready flag, online mask | launch, announce, go online |
| Object locks | `tkernel/klock.c` | waiters of a lock, holder in the ready queue | lock, unlock, wait and unlock; every task call that meets a waiter |
| Timer and time events | `tkernel/timer.c`, `time_calls.c` | clock, timer queue, a handler queue per processor, cyclic and alarm objects | insert, delete, tick, hand over, drain; create, delete, start, stop |
| Waiting | `tkernel/wait.c`, `wait.h` | wait queues, wait information and result of each task | wait, release, time out, cancel, delete, change priority |
| Semaphore, event flag, mailbox, message buffer, memory pools | `tkernel/semaphore.c` … `mempool.c`, `memory.c` | object blocks, ring, heap, block list | create, delete, acquire, release, and the hooks for a waiter that leaves or changes its priority |
| Mutex | `tkernel/mutex.c` | holder, waiters, list of held mutexes, base and current priority | create, delete, lock, unlock, hooks, release by termination |
| Device management | `tkernel/device.c`, `deviceio.c` | descriptors, requests, abort counters and semaphores | register, open, close, read, write, wait, abort |
| Fast locks | `lib/libtk/fastmlock.c`, `fastlock.c` | word of lock bits, waiter count, event flag | lock, unlock |
| Drivers, console, network, start-up code | `device/`, `lib/` | requests, peripherals | I/O |

Paths are relative to `src/kernel/` and its `sysdepend/cpu/...`; `PROJECT.json`
lists every component with its files and what is left out of it.

### Interactions

* A **system call** masks interrupts and enters the kernel lock, changes control
  blocks and the ready queue, calls `knl_smp_reschedule_all()`, which chooses a
  task for every online processor and stores it in `knl_schedtsk[]`, requests a
  dispatch of the other processor if its slot changed, leaves the lock and looks
  whether its own processor has to dispatch.
* The **dispatcher** (PendSV) is interruptible up to the load of its slot and
  never holds the lock except to reclaim a deleted task. It clears `knl_ctxtsk[]`
  once the context is saved; that store hands the task over to the other
  processor.
* The **request** to the other core is a bit in a mask and a doorbell in a FIFO;
  its handler pends PendSV.
* **Timer events** come due in the tick of core 0, which moves each to the handler
  queue of its processor and asks that processor by an inter-processor interrupt.
  Bodies run with the lock suspended and resumed at its old depth.
* **Object calls** hold the lock throughout; those that serve several waiters publish
  each of them in turn, so that released tasks may execute before the call is over.
  Fixed-size pools hold an *object lock* instead, and the kernel lock only around
  what concerns waiting tasks.
* **Device management** uses the multi-lock (`LockDM`) around its tables and calls the
  driver without it; closing waits on a semaphore that the last task in the driver
  signals.

### What is hard

Concurrency without a lock (dispatcher against scheduler, `END_CRITICAL_SECTION`
against publication, `tk_del_tsk` against the release point), a core id read before
interrupts are masked, recursion that must survive abandonment and detachment, a
FIFO that may be full, tasks terminated while executing, while spinning for the lock
or while waiting in the middle of a queue somebody is serving, events that come due
while the handlers run, clocks that wrap around, driver calls during which tables
change. `PROJECT.json` lists these hazards at their lines, with the properties that
cover them or the reason why none does yet.

### What makes each component correct

* Kernel lock: one context inside; depth equals open sections; interrupts masked
  while held and restored afterwards; a dead task never enters; a release completes.
* Interrupts: no reason is lost; every request is acted on.
* Placement: the most urgent tasks that fit are chosen; nobody is placed twice.
* Tasks: the queue holds the READY tasks in order; wakeups and suspensions are
  neither lost nor doubled; storage is free only when unused.
* Dispatching: no reschedule is lost; a published task runs; a task is current on one
  processor only; a terminated task leaves.
* Waiting: queues hold the waiting tasks in order; a task returns with the result the
  kernel decided on; nobody waits for what is there, and nobody is overtaken.
* Objects: counts, messages, areas and blocks are neither lost nor given twice; a
  message buffer is a queue of whole messages.
* Mutexes: holders, waiters and lists agree; a priority is exactly what is due.
* Time: a handler's event is queued while it is started, comes due in time and never
  early, and its processor is asked to execute it.
* Object locks: a waiter is queued once, and the lock it waits for has an owner who
  can release it.
* Devices: a request is in the hands of one task; closing waits for the tasks in the
  driver; an open descriptor means an open driver.

## 2. Modules and their correspondence to the code

`KernelLock` — `smp_lock.c` access by access. A context (task or handler) has a
program counter `pc[x]`; `"self"` to `"alive"` are the lines of
`knl_kernel_lock_enter()`, `"give"` to `"freed"` the common tail of leave, abandon and
suspend, `"end"` the rest of `END_CRITICAL_SECTION`. The core id is latched
(`ReadSelf`) before interrupts are masked (`MaskInterrupts`), as in the code. `hw` is
the SIO spinlock, `frame` the `_primask_` of the open sections, `resume` the depth
kept by a detached callback. `Kill`, `Restart` and `Dispatch` are the surroundings: a
core changes contexts only while its interrupts are enabled.

`Ipi` — the transport. `pending` is `knl_ipi_pending[]`, `fifo` the number of
doorbells, `snd` where a `knl_ipi_send()` is (after the atomic bit set, after the
status read), `irq` where a handler is. Thread-level code and the handler of a core
can both be inside a send. `owed` is a history variable.

`ReadyQueue` — the queue operations and the matcher as pure operators:
`CoreMask` is `knl_task_core_mask()`, `Feasible`/`Candidate` the two scans with Hall's
condition, `AssignCores` the placement, `Guarded` the three guards. The queue array,
bitmap and top priority are one sequence.

`SmpSched` — tasks, calls, scheduling and both dispatchers, using `ReadyQueue`. A call
is several steps: its effect together with the selection, the publication (`Publish`),
`Leave`, `Check`; or `Abandon` for calls that do not return. The dispatcher's steps
are its accesses: `StartDispatch`, `Save`, `Release`, `Reclaim`, `Load`, `Store`.
`tk_del_tsk` has a step between its test and its store, and `tk_dis_dsp`, `tk_ena_dsp`
one between the address of their processor's slot (`slot`) and the store. The constant
`Programs` says which tasks a model has and which calls they and the handlers make.
`stale` is a history variable: some dispatcher has stored a task in `knl_ctxtsk[]`
whose slot had been replaced since it was loaded. So is `astray`: some task has written
the dispatch-disable slot of a processor it had left.

`WaitQueue` — what the object modules share: waiting (`knl_make_wait`), leaving by
service, timeout, release, termination or deletion, and a change of priority of a
waiter. A call that serves waiters is a step per waiter: `rest` holds those its loop
has still to look at. `told` is a history variable: what the kernel decided for a
task, to be compared with what the task reads (`wercd`, `out`) once it executes.
`Semaphore`, `EventFlag`, `Mailbox`, `MessageBuffer`, `VarPool` and `FixedPool` extend
it with one object each, one action per call, and the hooks of `wspec`.
`MessageBuffer` has the ring byte by byte (header units, bodies that wrap), and a
history variable `held`: the messages accepted and not yet taken out. `MessagesInRing`
says that the bytes from `head` on are those messages, whole and one behind the other,
and that the rest is counted as free;
`AreaQueue` is the allocator of `mempool.c` and `memory.c` as operators on a heap.
In `FixedPool` the object lock is held from step to step (`holder`), so that
timeouts and terminations come in between. `Objects` composes them, one object of
one kind at a time, and states what they have in common.

`MessageFifo` — the abstract specification of a message buffer: messages under way
and messages received. `Objects!Fifo` is the refinement mapping: the messages of
`held` in order, then those of the waiting senders; the output parameter of each
receiver, which holds the bytes the code copied out of the ring and not what `held`
says should be there.

`Mutex` — all of `mutex.c`, each call one step, since it is under the kernel lock. The
functions of the code that change priorities in chains work on a record (`Now`) of
the fields they read and write.

`TimeEvents` — the timer queue with words that wrap, the tick of core 0 event by event,
the handler queue and drain of each processor, and all calls on cyclic and alarm
handlers between any two steps, a handler's own body included. The history variable
`due` is the time that is really left, as an integer.

`ObjLock` — `klock.c` with the ready queue as `ready_queue.h` changes it for the holder of
an object lock, and every task call that meets a task in the queue of a lock. Like
`SmpSched`, it lets a task be suspended, terminated or given another priority while it
waits for the kernel lock: `Enter` masks the interrupts, and `knl_LockOBJ` is the critical
section that follows, which a suspended task executes too (`smp_lock.c:149-156` turns away
only a terminated one, which `tk_ter_tsk` takes outside). `struck` is a history variable:
the tasks suspended in between. A suspended task that finds the object lock taken is
removed from the ready queue a second time (`klock.c:43`). That writes through links that
may be out of date, so that what the queues are afterwards depends on what has become of
the neighbours; the model ends with that step (`twice`). A suspended task that has become
the owner executes nothing until it is resumed: those who lock objects may dispatch
(`CHECK_DISPATCH` in `mempfix.c`), so that `END_CRITICAL_SECTION` takes it off its
processor. An owner proper cannot be suspended while it waits for the kernel lock in
`knl_UnlockOBJ()`.

`FastMLock` — the multi-lock, each `INC`, `DEC`, `BTS` and `BR` as a read and a write with
the interrupts of one processor masked.

`DeviceIO` — descriptors and requests. What is done between `LockDM()` and `UnlockDM()` is
a step; calls of the driver begin in one step and return in another, at any time.
`AbortTest` is the look at `abort_cnt` after `UnlockDM()`.

`MCKernelLock`, `MCReadyQueue`, `MCSmpSched`, `MCObjects`, `MCDeviceIO` and
`MCFastMLock` give the constants values. `MCParts` joins six parts that do not
interact (`Tasks` declares the tasks and priorities they share) and checks each by
itself: the initial state says which of them is considered, the others do nothing.
`MCCores` does the same for `KernelLock` and `Ipi`; a part that is not considered has
no step enabled that its fairness would ask for.
`KernelLockProofs`, `IpiProofs`, `SmpSchedProofs`, `ObjLockProofs`, `ObjectsProofs`,
`PartsProofs` and `DeviceProofs` hold the theorems, `QueueFacts` lemmas they share.

Granularity. In `SmpSched` the lock is atomic and the inter-processor interrupt a flag,
because `KernelLock` and `Ipi` treat their protocols. A call finds out who its caller is,
and whether it may wait, in the step that enters the lock. A selection reads the slots of
both processors in one step; both slot stores of a publication are one step, since each
processor reads only its own slot. The objects, mutexes and time events take the kernel
lock as atomic in the same way and add what can happen while it is free. Calls refused
with an error, and calls that only look, are `NoEffect`. Statistics, messages and
reference data are left out. A definition named in a "Mutant" comment is a plausible
mistake in the definition that follows it; it is not part of any specification.

## 3. Runs

| Run | Bounds | Shows |
|---|---|---|
| `cores` | 2 cores, each part by itself. Lock: a migrating task, a pinned one that also uses `DISABLE_INTERRUPT`, a handler; nesting 2, of the handler 1. Interrupts: FIFO of one entry, 3 requests. Both fair | mutual exclusion, depth, mask held and restored, legal use, dead tasks stay out, a release completes; no reason is lost, all requests arrive (3·10⁵ states) |
| `klock_stale` | both tasks migrate and use `DISABLE_INTERRUPT` | **violates** mutual exclusion |
| `sched` | seven groups of calls: exit, and termination, with 3 tasks, both with 2; the exit of a suspended task; sleep, release and suspension of 2; self-deletion, wakeup and priority changes of 2; delays, handlers that release and rotate, dispatching disabled and enabled, also by a task that is migrated in the middle | ownership, free storage, published tasks, no lost reschedule, counters, queue, one publication, no early return from a wait (8.5·10⁵ states) |
| `sched_live` | 3 tasks; create, start, terminate, rotate; fair | published tasks run, terminated tasks leave |
| `sched_twocores` | sleep, wakeup, rotation | **violates** "never current on two cores" |
| `sched_reserved` | terminate and delete | **violates** "reserved until that safe point" |
| `sched_disdsp` | `tk_dis_dsp` | **violates** "accepts no one else" |
| `objects` | 3 tasks, 2 priorities, one object of each of six kinds | queues, results, nobody left, nobody overtaken, contents, refinement of `MessageFifo` (2·10⁵ states) |
| `parts` | see below | thirteen properties of six separate parts (4.7·10⁵ states) |
| `device_open` | 2 tasks, 2 descriptors | **violates** "open processing is completed" |
| `lock_suspended` | 3 tasks, 2 object locks, 2 priorities | **violates** "would strand the lock", which `tk_sus_tsk` is to prevent |
| `mlock` | 2 tasks, one on each core | **violates** "operated exclusively" |

Parts of `parts`:

| Part | Bounds | States |
|---|---|---|
| choice | every input of the matcher with 4 tasks (2 free, 1 pinned to each core), an object-lock holder, one or two cores online | 254 800 |
| mutex | 3 tasks, 2 mutexes, 3 priorities, all attributes but `TA_TPRI`, 2 ceilings | 80 744 |
| time | a cyclic and an alarm handler, clock of 8 values, tick of 2, events up to 4 overdue | 86 189 |
| lock | 3 tasks, 2 object locks, 2 priorities | 25 024 |
| mlock | 3 tasks on one core, one lock bit | 975 |
| device | 3 tasks, 2 descriptors, 2 requests, write-exclusive or shared opens | 20 930 |

Bounds. Two processors are the system's. Three tasks, one of them urgent and pinned,
give contention for one processor while the other has a choice; with two tasks (b
pinned, i free) contention on core 0 remains. Nesting 2 is the least with an inner and
an outer section (`HandlerNest` bounds the handler's separately); a FIFO of one entry is
full most of the time; two suspensions tell nesting from a flag. Three tasks on an
object are a caller, a waiter and one behind it or overtaking it; a ring of 8 bytes with
messages of 1 and 3 bytes wraps in the header and in the body, and a ring of size 0
passes messages directly; a pool of 8 units has room for three areas, which merge with
both neighbours. Two mutexes make a chain of inheritance. `Modulus` = 8 lets the clock
wrap many times; `Reltim` stays below half of it, as `CHECK_RELTIM` demands, and
`MaxLag` bounds how long interrupts may be late. Two requests and two descriptors let
the requests of one descriptor be aborted while the other is used.

Tasks of equal standing are interchangeable: `objects` and `parts` use symmetry over
them (no liveness property is checked there, and no definition names one of them). Of
the runs that expect no violation only `cores` is checked for deadlock: in the others
the system may stop, with all tasks asleep or ended and both processors idle, or after
the one step of an input of the matcher.

Restrictions that are assumptions about the program, each a constant:

* `InOrder` (`Mutex`): tasks lock mutexes in ascending order. Without it tasks may wait
  for one another in a circle. `tk_ter_tsk()` leaves `TS_WAIT` set in the terminated
  task, and a following change of priority that goes round the circle of `TA_INHERIT`
  mutexes puts the dormant task back into a wait queue (`HoldersConsistent` then fails).
* `Mixed` (`DeviceIO`): FALSE means that nobody calls `tk_wai_dev(dd, 0)` while another
  task is starting a request of the same descriptor. Otherwise the request is taken over
  while it is still in `execfn`; it is then unregistered twice, and closing the
  descriptor does not wait for the task in the driver (`ProcessedByOne` and
  `AbortIsSignalled` fail).
* `RawCallers` (`KernelLock`): the tasks that enter by `DISABLE_INTERRUPT`. `cores` lets
  only the pinned one do so.

Fairness. `KernelLock`: a processor executes the next instruction of the context it
runs. `Ipi`: the same, a critical section ends, and strong fairness for taking an
interrupt or PendSV, of the two together, since the NVIC takes a pending exception
whenever PRIMASK allows it however often the core masks again. `SmpSched`: the end of a call, the dispatcher and
core 1's start-up proceed, and an inter-processor interrupt is taken (strong fairness,
for the same reason). No task is assumed to call the kernel. `sched_live` has no
handlers: a handler that recurs endlessly keeps its processor from dispatching. The
other specifications state no fairness: what must eventually happen there is expressed
as an invariant of the states in which nothing is under way (`NobodyLeft`,
`RequestsServed`, `SleeperIsWoken`, `AbortIsSignalled`).

### Disagreements between code and comments

* **Stale core id** (`klock_stale`): `smp_lock.c:92` reads the core id before
  `disint()`. `BEGIN_CRITICAL_SECTION` masks first, so it is safe; `DISABLE_INTERRUPT`
  in a task that may migrate is not, and then the "already ours" test can succeed on a
  lock that belongs to another task.
* **One task on two cores** (`sched_twocores`): between `dispatch.S:158` and `:170` the
  task is in neither slot if the other core replaces `schedtsk`; it may be placed and
  installed there. `OwnedUnlessStale` and its proof show that this window is the only
  way.
* **Leaked control block** (`sched_reserved`): `tk_del_tsk` marks `stkfree` after the
  dispatcher has tested it.
* **Dispatch while disabled** (`sched_disdsp`): a reschedule request sent before
  `tk_dis_dsp()` is served after it, without a look at the disable state.
* **Open before the driver is** (`device_open`): `tk_opn_dev()` decides at
  `deviceio.c:251` whether the driver has to be called, and calls it after `UnlockDM()`; a
  second task completes its open meanwhile. The close at `:423` and `:440` is the same.
* **Suspended owner of an object lock** (`lock_suspended`): `tk_sus_tsk()` refuses a task
  whose `klocked` is set (`task_sync.c:49`). A task that has masked its interrupts in
  `knl_LockOBJ()` and waits for the kernel lock does not have it set yet, so it can be
  suspended from the other processor; when it gets the kernel lock it goes on
  (`smp_lock.c:149-156` looks for `TS_DORMANT` and `TS_NONEXIST` only). If the object lock
  is free, it takes it (`klock.c:40`) and is then dispatched away: the lock is stranded
  until somebody resumes it, which the comment at `task_sync.c:48` says is prevented. If
  the object lock is taken, the suspended task is deleted from the ready queue a second
  time, queued for the lock and handed it later (`klock.c:43-46`, `:83-91`). `LockHasOwner`
  and `QueuedOnce` say, and `LockOwned` and `EachQueuedOnce` prove, that there is no other
  way: an owner is READY unless it was suspended in that window, and the queues are right
  until the second removal.
* **Multi-lock on two cores** (`mlock`): `BTS` masks the interrupts of its own
  processor, so two processors can both find the bit clear. `LockDM()` and `LockREG()`
  depend on it. On one processor the lock excludes and wakes whoever waits
  (`MLockExcludes`, `SleeperIsWoken` in `parts`).

Met while modelling, and outside what a violation run states:

* `tk_dis_dsp()` and `tk_ena_dsp()` take the address of their processor's slot
  (`smp.h:83-86`) and write it with interrupts enabled (`cpuctl.c:33`, `:49`). A task
  that is migrated between the two writes the slot of the processor it has left:
  dispatching is disabled under another task, which then returns at once from a wait, or
  never gives way to a more urgent one, while the caller can itself be preempted.
  `SmpSched` has the two steps; `DispatchOwed` and `WaitingNeverRuns` except the
  histories with such a write (`astray`), and fail when they do not. The remark in
  `smp.h:24-26`, that common code using the short names "compiles unchanged", holds for
  code that cannot migrate. Ownership does not depend on it (`CurrentOnce`).
* `get_tcb_self()` and `CHECK_NONSELF` (`task.h:71`, `check.h:111`) read `knl_ctxtsk`
  through the same kind of accessor, before the lock is entered. A caller that is
  migrated in between takes the task now current on the other processor, or none, for
  itself: `tk_chg_pri(TSK_SELF, p)` then changes that task's priority. In `SmpSched` the
  target of `tk_chg_pri` is any task and the caller's own identity is exact.

* A `RELTIM` or `TMO` within `TIMER_PERIOD` of `0x7FFFFFFF` passes `CHECK_RELTIM`, and
  with `TIMER_PERIOD` added sorts before every other event (`timer.c:91-93`); `cycphs`
  is not checked at all (`time_calls.c:358-361`). `TimeEvents` takes values below that
  range.
* The next time of a stopped `TA_PHS` handler is taken for the future after 2³¹ ms
  (`MaxLag` bounds it).
* A tick that is due while a body runs for longer than `TIMER_PERIOD` is lost with its
  time.
* A handler's body may begin after `tk_del_cyc()` or `tk_stp_alm()` has returned to a
  caller on the other processor: the drain has already taken the event (`TimeEvents` has
  that step).
* The task that closes a descriptor waits with `tk_wai_sem()` and ignores its result;
  released by `tk_rel_wai()` it would go on while tasks are in the driver. This release
  is left out of `DeviceIO`.
* `tk_def_dev()` can unregister a device whose `closefn` has not returned (`DeviceIO`
  has that step).
* `Lock()` of `fastlock.c` ignores the result of `tk_wai_sem()` in the same way.

## 4. Proofs

Each theorem is about every value of the constants, under the assumptions named here
and those the modules state about their constants. A proof states its inductive
invariant, shows that each action keeps it, and derives the property of the run.

* `KernelLockProofs`: for any number of processors, tasks, handlers and nesting levels.
  `TypeCorrect` needs no assumption. The others assume `SafeEntry`: a task that enters by
  `DISABLE_INTERRUPT` has one processor in its affinity; `klock_stale` shows it is needed.
  Mutual exclusion is not inductive. The invariant `IInv` adds: the context in the
  acquired part of the protocol is the one the word names (`WordHeld`), the spinlock's
  holder is at a claimed control point, a latched core id is the one the context runs on
  (`Latching`), contexts beyond masking run on a masked processor (`Masking`), the depth
  equals the open sections (`Depth`), a context runs on one processor (`Placement`).
  `Exclusion`, `DepthCorrect`, `MaskCorrect` and `LegalUse` follow. `MaskReturned` adds
  what the saved masks of the open sections are (`Unmasking`): only the outermost one can
  be clear, and the kernel keeps it until that section ends, whoever was abandoned
  meanwhile. `DeadStopped` is an action property: no step takes a killed context in.
* `IpiProofs`: `TypeCorrect` and `Delivery` (no lost reason), for every FIFO depth.
* `QueueFacts` is about queues as sequences without repetitions: what `QueRemove()` and
  `QueInsert()` do to the members and to the order. Five of the modules rest on it. Its
  last section is about sequences in which elements may repeat, as messages do: an
  element added at a place, removed from one, or moved.
* `SmpSchedProofs`, for every set of tasks, affinities, priorities and calls. It begins
  with the operations of `ready_queue.h` and with what the matcher returns: a task is
  placed in its mask (`PlacedInMask`, `AssignInMask`), the guards only drop tasks
  (`GuardsOnlyDrop`), what is chosen comes from the queue, and a processor with
  dispatching disabled keeps its current task if that is ready (`KeepsDisabled`). Then
  there are three invariants, each relative to those before it.
  `Ownership` says that the slots hold tasks once (`OnePublication`), that a
  current task is published only to its own processor and current nowhere else unless a
  stale install has happened (`CurrentIsOwned`), that a selection computed and not
  yet published still respects both although the dispatchers go on
  (`SelectedOnce`, `SelectionRespectsOwners`), and that only the lock's holder has one
  (`PublisherLocks`). `PublishedOnce` and `CurrentOnce` follow.
  `StateInv` says that the ready queue holds the READY tasks in order at every moment,
  and what a processor publishes or has published is in the queue unless a call is
  between its selection and its publication; the kernel lock, through `Ownership`, keeps
  that window to one processor. `ReadyQueueHolds`, `PublishedTasksReady`,
  `WakeupsKept`, `SuspensionsCounted`, `FreeBlocksUnused` and the type invariant follow.
  A task that exits and deletes itself while a suspension request is outstanding leaves
  its count behind in a free block; `SuspensionCounted` speaks of blocks in use, and
  `sched` has such a task.
  `DispatchInv` follows a difference between `knl_ctxtsk[]` and `knl_schedtsk[]` through
  a call: either a dispatch is requested, or the end of the call will look
  (`DifferencePends`); with dispatching disabled a call publishes the current task again
  (`DisabledKeeps`); a waiting task is published nowhere after its own call
  (`PublishedAwake`). `DispatchesOwed` and `WaitersStop` follow, short of `stale` and
  `astray`, as in the run.
* `ObjLockProofs`: for every set of tasks and object locks. `LockOwned` says that a lock
  that is taken has exactly one owner, which waits for no lock, and which is READY unless
  it was suspended while it waited for the kernel lock, whatever is done to the waiters. It
  is not inductive, because `knl_UnlockOBJ()` makes the head of the queue the owner without
  looking at it. The invariant is in two parts. `Owner` says that owners are inside the
  lock they own; it holds to the end. What makes it so, that a task in the queue of a lock
  waits for that lock and for nothing else, is READY and not yet an owner (`Waiting`), and
  that it is there once, holds until a suspended task is removed a second time (`OInv`).
  `EachQueuedOnce`, for a finite set of tasks (it counts queues), adds what the ready queue
  holds (`Ready`): every READY task that is in no lock's queue, in order.
* `ObjectsProofs`: semaphores, event flags, mailboxes, message buffers and both pools, for
  every set of tasks, queue discipline, size and parameter. The named assumptions on the
  constants are what the code enforces: `tk_cre_sem` refuses a maximum of zero
  (`SemAssumption`) and `tk_snd_mbx` a message priority that is not positive
  (`MailAssumption`); `tk_snd_mbf` refuses a message without bytes and `tk_cre_mbf` rounds
  the ring to whole header units (`MbfAssumption`); `tk_cre_mpl` rounds the pool up and
  `tk_get_mpl` refuses an empty block (`MplAssumption`); `tk_cre_mpf` refuses a pool
  without blocks (`MpfAssumption`). The model value `None` is no task, queue, message or
  block.

  The first invariant, `IInv`, is about waiting. `WaitInv` relates queues, states and
  wait results of the tasks, with `told` for what the kernel decided; `Serving` says that
  the tasks a loop has still to look at are in the queue it serves, because between two
  turns nothing but the end of other calls happens; `Pooling` says when a fixed pool
  may be in the middle of an operation. One lemma per operation of `WaitQueue`, one per
  object. `ResultsDelivered` and `QueuesKept` follow.

  The second, `KInv`, is about what is inside. Neither `NobodyLeft` nor
  `ContentsAccounted` is inductive: nobody is left when the call is over only because,
  during the loop, whoever could be served is among the tasks it has still to look at,
  and after it the head of the queue cannot be served (for a `TA_CNT` semaphore and an
  event flag: nobody can); and what an object has to give is what its representation says
  only if that is well-formed. So there is one invariant for each kind, `SemInv` to
  `MpfInv`, of which one applies (`Inside`) while the other objects are as they were
  created (`Elsewhere`).
  For the variable-size pool it contains `Tiled`: the areas of the allocator lie in order
  from the first to the last byte, no two free ones are neighbours, the free queue holds
  the free ones by size, and the areas in use are those lent; `knl_get_blk` and
  `knl_rel_blk` keep it through splitting and merging with either neighbour. For the
  message buffer, `RingInv` gives each held message its place in the ring (`Laid`), and
  the lemmas before it say that storing at `tail` disturbs none of them, that a body and
  the padding behind it may wrap, and that what is copied out at `head` is the first
  message. For the fixed pool, a block is on the free list, never handed out, lent, or in
  the hands of a call in progress, and the count is that of the first two.
  `NobodyIsLeft`, `ContentsKept` and `ObjectsTyped` follow.

  `NobodyOvertakes` is an action property of every step of every call: a task that begins
  to wait gets its place behind those that are not less urgent, and, where the queue is
  served from its head, no task is served while one ahead of it goes on waiting.

  `MessagesInOrder` is the refinement: a message buffer implements `MessageFifo`. The
  channel and the receivers' parameters are changed in seven ways (`FifoGrows`,
  `FifoShrinks`, `FifoMoves`, `FifoDrops`, `FifoReceives`, `FifoPasses`, `FifoLooks`),
  each of which is a step of the abstract specification; every action of `Objects` is one
  of these or leaves both alone. A sender moved from its queue into the ring is a stutter:
  its message keeps its place among those under way. A change of priority takes a waiting
  sender's message out and puts it back elsewhere (`ReorderIsFifo`). It rests on `KInv`,
  because what a receiver is given are bytes.
* `PartsProofs`: the multi-lock excludes and wakes (`MLockExclusion`, `MLockWakes`) for
  any number of tasks and bits on one processor (`OneProcessor`; `mlock` shows that it is
  needed): one task at a time is between `DI` and `EI` (`Masking`), the count in the word
  is the number of tasks that announced themselves (`Counted`), and a bit somebody waits
  for is set or about to be (`Waking`). Time events: the queues hold each started event
  once (`EventsInv`), from which `HandlersServed` and, for finitely many handlers,
  `EventsLinked` follow. `ArrivalStarts` and `TickIsNotEarly` assume that an interval
  plus one period is at most half the range of the word (`ShortIntervals`; the remark
  on `CHECK_RELTIM` above is about what happens beyond). The invariant carries the time
  that is left to each event, which does not wrap: it stays below half the range, so the
  order of the words in the timer queue is the order of the times (`TimesInv`).
* `DeviceProofs`: any number of tasks, descriptors and requests, every set of open modes,
  under `~Mixed` and, since it counts tasks, a finite set of them. `DevInv` says whose a
  descriptor is while it is opened or closed (`Owned`), that `ReqCB.tskid` names the task
  that is in the driver with the request (`Taken`), that a queue holds the requests that
  name its descriptor (`Registered`), that who waits for any request is in the driver
  alone, for which `abort_cnt` is 1 whatever the length of the list (`Alone`), and that
  `abort_cnt` is the number of tasks in the driver, of which the last signals
  (`Counting`). `OneProcesses` and `ClosingIsSignalled` follow.

Only model-checked: the liveness properties (`ReleaseCompletes`, `RescheduleArrives`,
`TimeHandlerArrives`, `PublishedRuns`, `TerminatedLeaves`), since the prover has no rule
for fairness; `BestChoice`, which compares the matcher with all placements;
`HoldersConsistent` and `PriorityIsDue` of `Mutex`, whose chains of inheritance are
recursive operators.

## 5. Not modelled, and the plan

Not modelled:

* Drivers, USB console, network glue and the vendored stacks: I/O, or code from
  elsewhere. Other processors and boards: single-core targets of the upstream kernel. They
  are most of the lines of the repository.
* Rendezvous is compiled out (`USE_LEGACY_API` is 0, `config.h:76`). Reset, clocks and
  vector tables are straight-line register writes. Object names and the `tk_ref_*` calls
  keep no state.
* Within modelled parts: the bootrom handshake of core 1, the public spinlock API, manual
  placement (tests only), `tk_sus_dev` and device events, `tk_set_tim`, statistics.
* `fastlock.c`: one atomic counter and one semaphore, used by the driver interface only.

Plan, in this order:

1. Proofs: the optimality of the matcher; `HoldersConsistent` and `PriorityIsDue`, with
   the chains of `mutex.c` written as recursive functions over the lock order.
2. An abstract lock that `KernelLock` implements under `SafeEntry`, with `SmpSched`'s
   atomic lock as its instance.
3. The serial driver's transfer and abort paths (`device/ser`) as the driver that
   `DeviceIO` assumes; `tk_sus_dev`.
4. The launch handshake with the FIFO drain after core 1 is online; the accessors that
   identify the caller (`get_tcb_self`, `CHECK_NONSELF`) as two steps.
