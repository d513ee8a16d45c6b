# A TLA+ model of sylar's coroutine network framework

sylar (`src/sylar/sylar`) is a C++ server framework: fibers on ucontext, an N:M
scheduler that runs them on a pool of threads, an IOManager that adds epoll and
timers to the scheduler, and hooks that turn blocking socket calls and sleeps
into suspensions, with a configuration and a logging layer beside it. This
directory models these parts, checks them with TLC on small instances and proves
the safety properties, and that the scheduler implements its abstract
specification, with TLAPS for instances of any size.

## Inventory

| Component | State | Operations | Hard behaviour |
|---|---|---|---|
| `Fiber` | `m_state` (INIT, HOLD, EXEC, TERM, READY, EXCEPT), `m_cb`, context | `swapIn`, `swapOut`, `reset`, `YieldToReady`, `YieldToHold`, `MainFunc`, `call`/`back` | a fiber is woken before its context is saved |
| `Scheduler` | list `m_fibers`, `m_activeThreadCount`, `m_idleThreadCount`, `m_stopping`, `m_autoStop`, each thread's `ft` and `cb_fiber` | `schedule`, `start`, `stop`, `run`, `idle`, `stopping` | counters change outside the lock; `stop()` races with fibers that schedule more |
| `TimerManager`, `Timer` | `m_timers`, `m_tickled`, `m_previouseTime`; per timer `m_next`, `m_ms`, `m_recurring`, `m_cb` | `addTimer`, `cancel`, `refresh`, `reset`, `getNextTimer`, `listExpiredCb` | clock read before the lock, two locks in one operation, lost wake-ups, clock set back |
| `IOManager` | `m_fdContexts`, per descriptor `events` and the two `EventContext`s, `m_pendingEventCount`, epoll, the tickle pipe | `addEvent`, `delEvent`, `cancelEvent`, `cancelAll`, `contextResize`, `idle`, `tickle`, `stopping` | events dispatched from an old snapshot, edge-triggered epoll, the table's growth |
| hook | thread's hook flag, `timer_info::cancelled` | `do_io`, `connect_with_timeout`, `accept`, `sleep`, `usleep`, `nanosleep`, `socket`, `close`, `fcntl`, `ioctl`, `setsockopt` | timeout against event against close; a number that is given out again |
| `FdManager`, `FdCtx` | table of contexts, nonblock flags, timeouts | `get`, `del`, setters | created after the read lock is released |
| `mutex.h` | semaphore counts, `FiberSemaphore`'s waiters | `tryWait`, `wait`, `notify`, locks | waiter queued before it yields, permits handed over |
| `Thread` | pthread, `m_id`, semaphore | constructor, `run`, `join` | constructor waits for the thread's first steps under the scheduler's lock |
| `Config` | variables, listeners | `Lookup`, `setValue`, `fromString`, listeners | callbacks and write under different locks |
| `Log` | loggers: level, formatter, appenders; `LogDefine`s | `log`, `addAppender`, `setFormatter`, the listener of "logs", pattern parsing | loggers are reconfigured call by call while events are written |
| `Address`, `endian.h`, util | none shared | conversions | byte order |

How they interact. `run()` (a thread of the pool) swaps into fibers; a fiber gives
its `Fiber::ptr` to a waker (`FiberSemaphore`, an `EventContext`, a timer
callback) and yields, and the waker calls `schedule()` from any thread. An idle
thread runs `IOManager::idle()`: it asks for the next timer, sleeps in
`epoll_wait()`, lists expired timers, dispatches events, and gives the thread
back to `run()`. `tickle()` writes to a pipe that `epoll_wait()` watches. Hooked
calls set a timer, add an event and yield; whichever of the two comes first
schedules the fiber. `ConfigVar::setValue()` calls its listeners, of which one
reconfigures the loggers and one sets the timeout of `connect()`; every part
writes to loggers.

What makes each part correct is listed with its module below; every hazard, with
its line, is in `PROJECT.json`.

## Modules

* `Scheduler` - the scheduler with the life cycle of fibers. One action per
  atomic piece of `run()`, named for what it does: the critical section (`Take`,
  `GoIdle`, `Exit`), the dispatch (`SwapInFiber`, `DropEnded`, `ReuseCbFiber`,
  `NewCbFiber`), user code (`UserCalls`, `Arm`, `YieldToHold`, `YieldToReady`,
  `Return`, `Throw`), the context switch (`SwapOut`), and what follows it
  (`Decrement`, then `SettleReady`, `SettleEnded` or `SettleHold`). The state of
  a thread's `ft` and `cb_fiber` is kept, so that a fiber in a thread's hands is
  visible to the properties. `stop()` is split where another thread can act.
  A failed assertion sets `mpc = "aborted"` and ends the behaviour.
  *Contract assumed of user code*: a fiber has at most one outstanding resume
  path, it suspends with `YieldToHold` only when it has one and with
  `YieldToReady` only when it has none, and a callback on a pooled fiber does not
  return while it has one. Everything in the repository that suspends a fiber
  keeps it (semaphore, events, sleeps). One owner calls `start()` and `stop()`.
* `TaskPool` - what a user of the scheduler relies on: each task is submitted,
  run, may give way or wait, ends once, and when the pool is closed no task is
  running or could run. `Scheduler` implements it under the mapping that reads
  a callback's status off the list, the threads' hands and the fiber that
  carries it (`Pool`, `RefinesTaskPool`).
* `TimerManager` - timers, and the part of `IOManager::idle()` that sleeps and
  lists them. `clock` is `GetCurrentMS()` and may be set back; `real` is the
  time epoll measures. `listExpiredCb()` is two actions, one per lock
  (`listCheck`, `listExpiredCb`), `addTimer()` three: the constructor reads the
  clock, then the insertion under the lock, then `onTimerInsertedAtFront()`.
  `(int)next_timeout` is modelled with its wrap at `IntHalf`. The pipe is one bit,
  the edge that epoll still has to report. Timers due at the same millisecond
  are ordered by address, so being at the front is then a nondeterministic choice.
* `IOManager` - the event table. A call is two actions, one per lock: the context
  is found (and the table grown) under `m_mutex`, the work is done under the
  context's mutex. A descriptor's contexts are numbered by `gen`, so that one
  that fell out of the table is still there for those who hold it. The kernel's
  side is epoll with EPOLLET (`watch`, `level`, `edge`); `epoll_ctl()` fails as it
  does on closed, registered and unregistered descriptors. `close()` is
  `cancelAll()` and then `CloseFd`; the number can be given out again.
  *Contract assumed of clients*: one `addEvent()` at a time for one event of one
  connection, one `close()` of it.
* `Hook` - the hooked calls and `FdManager`. `call[f]` is a fiber's call with its
  place in the code: the look-up of the context (`Call`), the system call (`Try`,
  `TryConnect`), the timer (`Arm`), `addEvent`, the suspension, and what follows
  it (`Resumed`). All calls that go through `do_io` are one of `read`, `write` and
  `accept`. A system call that finds its descriptor blocking is a step that cannot be
  taken until it is nonblocking or has an answer. (A call that blocks is
  thus not told from one still to be made.) A timer is armed, then `listed` as a callback (`Fire`), then its
  callback notes the timeout (`RunCallback`), then it cancels the event
  (`cancelEvent`): other steps come between. When it runs out is left open. A
  callback finds the `timer_info` of its call only while that call has it (`Tinfo`):
  `accept()` goes on after `do_io()` has returned, and by then it is destroyed.
  `close()` is three actions, `cancelAll`, `del`, `CloseFd`; `FdManager::get()` with
  creation is two (`getFind`, `getCreate`), and so is setting a flag. Connections
  are numbered, so that a number that was given out again is told from the
  connection before it. The event table is the one `IOManager` models in detail,
  here with atomic operations; `connect()`'s timeout may be any, as the listener
  of "tcp.connect.timeout" sets it.
  *Contract assumed of users*: threads are hooked, one fiber at a time waits for
  one event of one connection, a connection is closed once and its flags are not
  set meanwhile, `FIONBIO` is given 1, descriptors are below 64.
* `Reactor` - an `IOManager` from constructor to destructor: the threads' start with
  its handshake (`Create`, `Boot`, `Construct`, under the lock of `start()`),
  `run()`, fibers that wait for events, timers or a `FiberSemaphore`, `idle()`, and
  `stop()`. `Scheduler`, `TimerManager` and `IOManager` appear as what the others
  see of them: a set of runnable fibers, a set of timers, a count. `stopping()` is
  three actions, one per read, and the dispatch of an event two, since
  `m_pendingEventCount` is changed after the fiber was scheduled. Without a
  caller thread (`use_caller` false).
* `Config` - one `ConfigVar`: `setValue()` as the test with the read lock taken, one
  action per listener, the release, and the write; `addListener`, `delListener`.
  `told` records what each listener knows.
  *Contract assumed of users*: a listener neither throws nor sets this variable,
  and `clearListener()` (which writes under a read lock) is not used.
* `Formatter` - `LogFormatter::init()` as an operator from a pattern, a sequence of
  characters, to its items and `m_error`; its loop is a function from the places of
  the pattern (`Loop`). The reference is the other way round: what a list of items
  looks like as a pattern (`Pattern`).
* `Logger` - extends `Config` for the variable "logs" and `Formatter`: a document
  becomes a set of `LogDefine`s (`Cast`). The first listener compares old and new
  value (`Changed`, `Gone`) and reconfigures the loggers call by call: `job` is its
  place, namely the defines left in its two loops, the define in its hands, the
  call that is next for it and how many of its appenders have been added
  (`SetLevel`, then `Reconfigure` for the rest). Meanwhile writers are between the
  level test of the macro, that of `log()` and the appenders. A logger's spinlock is
  visible only while its event is on the way to the root logger (`Locked`).
  *Contract assumed of users*: they change loggers that "logs" does not name and
  not the root logger, an appender belongs to one logger. `LogIniter`'s listener is
  not deleted.
* `MCScheduler`, `MCTimerManager`, `MCIOManager`, `MCHook`, `MCReactor`, `MCLogger` -
  model values, symmetry and documents for the runs.
* `SchedulerProofs`, `PoolProofs`, `TimerProofs`, `IOProofs`, `HookProofs`,
  `ReactorProofs`, `LoggerProofs`, `FormatterProofs` - the proofs.

Operators marked "Mutant" are not part of the specifications: each is the body
of one definition with a plausible mistake, and the property it is listed with in
`PROJECT.json` fails when it is put in place.

## Runs

| Run | Instance | Shows |
|---|---|---|
| `scheduler_affine` | caller + 1 thread, 2 callbacks, 2 fibers, affinity to the created thread, 3 suspensions | `TypeOK`, `AssertionsHold`, `OneOwner`, `OneResumePath`, `CountsExact`, `WorkHasServer`, `StopDrains` |
| `scheduler_pool` | 2 threads, 2 callbacks, 2 fibers, 2 suspensions, fairness | `RefinesTaskPool`, `StopReturns`, `EveryTaskRuns` |
| `scheduler_caller` | caller only, 3 callbacks, 3 fibers, 2 suspensions, fairness | `RefinesTaskPool` and `EveryTaskRuns` when `stop()` runs everything |
| `timer_clock` | 1 timer, 2 listing threads, periods 1 and 2, 1 set-back | `TypeOK`, `CallbackIffListed`, `SpentStaysSpent`, `NeverEarly` |
| `timer_front` | 2 timers, 1 thread, fairness | `NoOversleep`, `DueIsServed` |
| `io_events` | 1 descriptor the table has to grow for, 3 clients, 2 pollers, 1 close | `TypeOK`, `PendingExact`, `WaiterIffEvent`, `KernelWatches`, `ReadyIsReported` |
| `hook_io` | 2 fibers with 2 calls each, 2 descriptors (1 or both connected), 2 connections, every call but read (see below), fairness | `TypeOK`, `OneWake`, `TimeoutIsOwn`, `TimerInForce`, `CtxFresh`, `NoThreadBlocks`, `CloseWakes`, `ReadyCallReturns` |
| `reactor` | 2 threads, 2 fibers, 2 suspensions, 1 permit, fairness | `TypeOK`, `EarlyWaitsServed`, `PermitsKept`, `StopReturns` |
| `logging` | 2 setters, 3 changes, 4 documents, 2 listeners, 1 writer, 3 loggers; patterns of up to 5 characters, lists of up to 4 items | `TypeOK`, `ConfigApplied`, `ListenersTold`, `NoEventLost`, `FormatterExact` |
| `timer_empty` | 1 timer, 2 threads | violates `ListIsSafe` |
| `io_trigger` | 3 clients, 1 poller | violates `TriggerAssertion` |
| `reactor_stop` | 2 threads, 2 fibers, 2 suspensions | violates `WaitsServed` |

Why the bounds are enough for the questions asked. Two threads give every race
between a thread that lets go of a fiber and one that takes it; two fibers let one
wake the other while it switches out, and the pooled fiber be reused; three
suspensions let a fiber suspend, be resumed elsewhere and suspend again while the
other one does too. One timer and two listing threads give the races on one timer;
two timers are needed for one to overtake the other while a thread goes to sleep.
The periods lie on both sides of one tick and `Gap` (the hour of
`detectClockRollover`) is 1, so the clock is set back both by less and by more than
it. Three clients give two waiters (READ and WRITE) and one that cancels or closes.
Two fibers with two calls give a call that outlives its timer, a timer that
outlives its call, a close against a wait, and a number that is given out to a
second connection while the first one's waiter, timer or event batch is still
there. With both descriptors connected, `accept()` on one gives out the number of
the other, which was closed, while the call of the closed connection tries again.
`read` is left out of the run: `accept` waits for the same event, is retried by the
same code and also has an answer without a new number, so that it takes every step
`read` takes. Two threads and two fibers in `Reactor` let one thread decide to leave
while the other runs a fiber that is about to wait. Three changes let "logs" be
set, changed and emptied; the documents have a logger with two appenders, patterns
in error, an appender and a node that are refused and a name given twice. Six
characters stand for all that the parser tells apart: percent, the two braces,
a letter that names an item, one that does not, and no letter.
A clock of more than an hour since the epoch is assumed (`Start` is beyond
`Gap`), as the code's unsigned subtraction does. Bounds that only limit the run
are `MaxYield`, `MaxReal`, `MaxBack`, `MaxGen`, `MaxClose`, `MaxConn`, `MaxCalls`,
`MaxWaits`, `MaxPermits`, `MaxSets`, `MaxListeners`, `MaxPattern` and `MaxItems`.

Fairness. `Scheduler`: the owner calls `start()` and `stop()`, and every pool
thread that can take a step takes one, since the operating system schedules
threads; user code must come to an end or suspend (`UserStep`, what it may do and
need not, gets no fairness). `m_mutex` is held for one step at a time. A waiting
fiber need not be woken: `StopReturns` and `TaskPool` allow for that.
`TimerManager`: a call that has begun is finished and threads in `idle()` run;
nothing is assumed of the clock (it may stop) or of clients. A socket event is
never relied on for a wake-up. `Hook`: a fiber that can run is run, and threads in
`idle()` poll and dispatch each event that is reported; nothing is assumed of
the network, of timers or of new calls, so `ReadyCallReturns` is about a
descriptor that stays ready. `Reactor`: owner and threads go on, a fiber that does
nothing else ends, and a timer that stays set runs out (strong fairness of a poll
that finds it due); no event need arrive, and `StopReturns` allows for a fiber that
waits for one for ever. `IOManager`, `Config` and `Logger` are checked for safety
only. `hook_io` does not check for deadlock: when all calls are made, or wait for
the network, nothing happens, as in the program.

### What the violations show

* `timer_empty`: `listExpiredCb()` tests for an empty set under the read lock
  and dereferences `begin()` under the write lock. (In libstdc++ the header node
  of an empty set holds the node count, 0, where the element would be: the model
  takes this as the end of the process.)
* `io_trigger`: `idle()` triggers all events that were reported as soon as one of
  them is still wanted; one that was cancelled meanwhile fails an assertion.
* `reactor_stop`: `stopping()` reads timers, pending events and scheduler one after
  another, and a thread whose idle fiber has ended still takes entries from the
  list before it leaves. When `stop()` has been called, a fiber may run in between
  and begin to wait for an event or a timer after the last thread that polls has
  made up its mind: the threads leave and `stop()` returns while the fiber waits. A
  fiber that began to wait before `stop()` is safe (`EarlyWaitsServed`).

The other properties of `IOManager` are stated for executions up to such an
assertion (`Alive`), and `DueIsServed` for executions up to the crash.

### Behaviours of the code that the properties allow for

Found while modelling; the properties name them as exceptions or the contracts
exclude them.

* An entry for a named thread: `run()` decrements `m_activeThreadCount` before it
  puts a READY fiber back (scheduler.cpp:185-188). In that window `stopping()` is
  true and another thread may leave; an entry that the fiber then makes for that
  thread is never run. Entries for any thread are safe (`WorkHasServer`).
* An `addEvent()` behind `close()`'s `cancelAll()` leaves its event in the context:
  the fiber is woken by nobody (the exception in `CloseWakes`), and the next
  connection's `addEvent()` for that event fails its assertion (`failed`). It may
  come before `close_f()`, or after it on the number given out again: then the old
  connection's call waits for the new one's event.
* Two threads that find the table of contexts too small: the second to resize it,
  for a smaller descriptor, shrinks it again and drops contexts in use
  (iomanager.cpp:136-158). The next call for the larger descriptor makes a new
  context, and a call or a batch that still holds the old one then changes or
  deletes epoll's registration of the new one: a waiting client is no longer
  watched. `KernelWatches` and `ReadyIsReported` are therefore about descriptors
  that have kept their first context (`Kept`); `PendingExact` and `WaiterIffEvent`
  hold for all.
* A timer of `do_io` or `connect()` that runs out before `addEvent()`: its
  `cancelEvent()` finds nothing and the call waits without a timeout.
  `TimerInForce` holds up to the moment the timeout is noted.
* `ioctl(FIONBIO)` with 0 makes the descriptor block in the kernel, and a hooked
  call on it then blocks its thread; `fcntl(F_SETFL)` does not (`NoThreadBlocks`).
* A call that is overtaken by `close()` may block its thread. `do_io` tries again
  after the wake-up by `close()` (hook.cpp:153), or comes to its first system call
  only then; the number may have been given out again by an `accept()` or `socket()`
  of another fiber that is between the system call and `FdCtx::init()`
  (hook.cpp:295-297, fd_manager.cpp:54-57). Until `init()` has set O_NONBLOCK the
  call finds a blocking descriptor. `NoThreadBlocks` has this one exception
  (`Unfinished`), and the run reaches it; before the number is given out and after
  `init()` the call does not block.
* The callback of a timer whose call is over may still call `cancelEvent()`, which
  wakes the next call's wait for that event: that call tries again and waits
  again. What it must not do is report a timeout (`TimeoutIsOwn`).
* Two calls of `setValue()` that meet may leave the variable with one value and
  its listeners, the loggers among them, with the other; a listener that is added
  between a setter's two locks misses that change (`overlapped`, `late`).
  `ListenersTold` and `ConfigApplied` are about what is left: setters one after
  another, with listeners that come and go while one is under way.
* An event is dropped while the root logger's appenders are being replaced, or
  after "logs" has named the root logger and then no longer does.

What the properties do not reach:

* `EveryTaskRuns` is about bounded work (`MaxYield`): it shows that no task is lost,
  not that the scan of the list is fair to a task behind others that yield without
  end.
* `ReadyCallReturns` is about a table that reports an event as long as it is there
  (`Report`). That the edges of EPOLLET are enough for this is `ReadyIsReported`.
* `CallbackIffListed` says that a timer is in the set, not that it is at the place
  its `m_next` says: the tree of `m_timers` is modelled as the set it implements.

## Proofs

All proofs are for every value of the constants that satisfies the `ASSUME`s of
the modules: `ThreadAssumption` (finitely many created threads, at least one
thread in the pool, affinity only to threads of the pool), `ObjectAssumption`
and `HookAssumption` (null values are no objects), `ReactorAssumption` and
`TableAssumption` (finitely many threads and fibers, or clients and descriptors,
since counts are the sizes of sets of them), `TimerAssumption` (some thread polls,
`MAX_TIMEOUT` fits an int), `ConfigAssumption`, `LoggerAssumption` (users keep off the
root logger, "logs" starts empty, the default pattern is accepted),
`DocsAssumption` (documents are lists of nodes and name no logger of the users),
`FormatterAssumption` (percent and the braces are no letters, item names are made of
letters) and `BoundsAssumption`; and that numbers are natural numbers. Each module's
inductive invariant also holds in TLC on the run's instance. A theorem with a
further hypothesis names it below.

Every proof has the same form: one lemma per action that the action preserves
the invariant, a lemma that joins them over `Next`, and the theorem.

`SchedulerProofs`

* `SchedulerTypeCorrect`. `TypeInv` is `TypeOK` with the fact that a thread that has
  swapped into a fiber does have one (`HasFiber`).
* `SchedulerAssertions`, `SchedulerOneOwner`, from the invariant `IInv`.
  `OneOwner` is not inductive: a second thread gets hold of a fiber through the
  list or a waker, at a moment when the first may still be switching out. `FiberInv`
  therefore follows every reference to a fiber: the list holds a fiber at most once
  (`QueueInv`); a fiber has at most one resume path and it is allocated
  (`PathInv`); a fiber in EXEC is on a thread (`ExecInv`), so the scan's EXEC test
  excludes exactly those that are still in use; what the state may be at each
  point of `run()` (`InFiberInv`, `DispatchInv`); the pooled fiber is known to
  nobody while it is idle (`PooledInv`); two threads hold one fiber only when it is
  over and one is about to drop its entry (`PairInv`). The proof has one lemma per
  action; `FiberFocus` reduces steps that only change the running fiber to what
  they do to it.
* `SchedulerCounts`: the counters are the cardinalities of the sets of threads at
  the corresponding points (finite-set theorems, one element in or out per step).
* `SchedulerServer`, `SchedulerStopDrains`: `StopInv` says that threads leave only
  after `stop()` has begun and that `stop()` returns only after all have left.
  The thread that makes an entry is itself still in `run()`, and it leaves only
  after a scan that finds nothing for it.
* `SchedulerOneResumePath`: `IInv` has it that a suspended fiber has at most one
  way to run again; `HasPath` adds that it has one. `run()` makes a fiber HOLD, or
  puts it back, some steps after it has yielded, so that `HasPath` also has to
  count the thread the fiber is still on and the thread that has taken its entry.

`PoolProofs`

* `SchedulerRefines`: `Spec => RefinesTaskPool`, under the hypothesis `Affine = {}`
  (no entry names a thread). The abstract status of a callback is read off the
  list, the threads' hands and the fiber that carries it, so the invariant has to
  say that it is in one place only: `PlaceInv` (only a callback that was submitted
  is anywhere, and one a fiber carries is in no entry), `EntryInv` (no two entries
  or threads have the same callback), `BodyInv` (nor two fibers), `UnusedInv` (a
  fiber not in use carries none) and `StartInv` (a fiber that has not begun is in
  the list or taken, and no waker holds one that is READY). With them each action maps to
  one step of `TaskPool` or to a stutter. That the pool is closed only when
  nothing is runnable rests on `WorkHasServer`, and this is where the hypothesis
  is needed: an entry for a named thread may outlive its thread, see above.
  `TaskPool` states no fairness; the liveness of the pool is `StopReturns` and
  `EveryTaskRuns`.

`TimerProofs`

* `TimerTypeCorrect`, `TimerCallbacks`, `TimerSpent` from `IInv`:
  `CallbackIffListed` needs that only inserted timers are listed, that a timer
  between its construction and its insertion has its callback, that a spent timer
  has lost it for good, and (for the types) that `m_next - m_ms` is no negative
  number.
* `TimerNeverEarly` from `ClockInv`: while the clock is not set back it runs with
  real time, a thread that lists holds a time it has read, and a timer is due
  exactly `m_ms` after the moment from which it counts.
* `TimerNoOversleep` from `SleepInv`, under the hypothesis that every period is
  below `IntHalf` (2^31 ms). When all threads sleep and no wake-up is on its way,
  `m_tickled` is clear, so that the next timer at the front does wake somebody, and
  every timer is covered by some thread's timeout: one that is not inserted at the
  front by that of the timer before it. For a longer period `(int)next_timeout` is
  negative and `epoll_wait()` waits for ever.

`IOProofs`

* `IOTypeCorrect`, `IOPendingExact`, `IOWaiters`, `IOKernelWatches`,
  `IOReadyIsReported` from `IInv`. The count is the size of a set of waiting places
  that grows or shrinks by one place per step (finite-set theorems), and the
  subtraction in `triggerEvent()` needs that the place was there
  (`WaiterIffEvent`). `Tabled`, `CallsKnow` and `KernelKnows` say that every context
  in somebody's hands was made, and is the table's unless the descriptor's context
  was replaced; `OneCloser` that nobody else is in `close()` of a connection.
  `KernelWatches` speaks of waiting clients only and is not inductive: epoll's mask
  is the context's mask whether somebody waits or not (`MaskIsContext`), and who
  waits has a registration (`LiveIsWatched`). `ReadyIsReported` then follows the
  edge: `epoll_ctl()` raises it when the event is already there, a poller takes it
  into its batch, and the dispatch registers the rest again.
* `IOContextAssertion`: `addEvent()`'s assertion that the `EventContext` it fills is
  empty never fails. (The one before it, that the event is not set yet, and that
  of `triggerEvent()` can fail, see above.)

`HookProofs`

* `HookTypeCorrect`, `HookOneWake`, `HookTimeoutIsOwn`, `HookTimerInForce`,
  `HookCtxFresh`, `HookCloseWakes` from `IInv`. `WaitsMatch` and `SleepHeld` pair each
  suspended fiber with its event or its timer; `OneWake` counts the pairs.
  `CallsKnow` and `TimersKnown` say what a call and a timer that may belong to
  an earlier call know of each other, `Timed` which places in `do_io` and `connect()`
  have a timer. `CtxFresh` needs that only the maker of a context is between
  `socket()` or `accept()` and the table (`Makers`), that one fiber closes a
  connection (`Closers`) and that a closed number has no context left
  (`ClosedHasNone`); `CloseWakes` that a wait which is not late is one `cancelAll()`
  has still to find (`InTime`).
* `HookNoThreadBlocks`, under the hypothesis `Fionbio \subseteq {TRUE}` (`ioctl(FIONBIO)`
  is only given 1), for the first try, the retry and the calls passed on, on numbers
  given out again too. `FlagsKept` says that an open descriptor is nonblocking unless
  its maker is on the way to `FdCtx::init()`, and `Makers` who that is: a call of the
  present connection is not made before, so that only one of a closed connection
  is left, the exception in the property.

`ReactorProofs`

* `ReactorTypeCorrect`: among the types is that a thread's id is stored before
  `start()` reads it, from the handshake (`IdBeforePost`).
* `ReactorCounts`: `CountsExact`, that `m_activeThreadCount` and
  `m_pendingEventCount` are the numbers of threads and fibers they stand for, from
  `OneRunner`, `InPlace`, `Listed`, `Polled` (each fiber is in one place: runnable, on
  one thread, in the set of timers, in a poller's batch or waiting).
* `ReactorPermits`: the permits granted, kept and handed over add up, and no fiber
  waits while there is a permit.
* `ReactorEarlyWaits`: that some thread has not left is not inductive, since that
  thread may have decided to. `EarlyServer` asks for a thread that has still to
  read what the wait is counted in: the timers, or `m_pendingEventCount`, or one
  that has the timer's callback in its hands. Of threads which read one after
  the other, one reads it while the wait is there.

`LoggerProofs`

* `ConfigListenersTold` from `TellInv`: unless two setters met, one is under way
  (`OneSetter`), and whom it has told so far, and everybody who is not late behind
  its loop, knows its value (`Telling`).

* `LoggerTypeCorrect`, `LoggerConfigApplied` and `LoggerNoEventLost`, from `LogInv`:
  * `ConfigApplied` only speaks of moments when nothing is in progress. `ConfInv`
    says what holds in between: while a setter has told the first listener, each
    define of its new value is still to be taken, is in the listener's hands, or has
    its logger as it says (`Applying`); for the one in its hands, what the calls made
    so far have set (`Partly`). Two names are never mixed up because a value has one
    define per name, which is what `std::set` with `operator<` by name does
    (`CastKeepsFirst`), and a define the second loop dismisses shares its name with
    none of the new ones. `Working`: the listener works only inside the setter's
    call of it.
  * `LogType` has `TypeOK`'s formatters for the loggers and, besides, what `job` and the
    values may hold; `EventType` is its part about the writers.
  * `NoEventLost` has the hypothesis `RootGiven`: a document that names the root logger
    gives it at least one appender that is not refused. The run's documents satisfy
    it; without it the root logger has no appender for good, and events are lost by
    configuration. `RootInv`: the root logger is without appenders only while a
    listener is at work on it or after it was dismissed.
* `TakenInOrder`: the conversion takes exactly the usable appenders of a node, each
  once, in the order they are listed in.

`FormatterProofs`

* `FormatterKeeps` (`Kept` for every pattern over any set of characters) and
  `FormatterAccepts` (`Accepted` for every list of items), and from them
  `FormatterAlways`, that the run's `FormatterExact` holds for all its bounds.
  The library's induction takes an operator as a parameter; here it is about a
  set instead: the smallest natural number that is not in the set (`Smallest`,
  `Induction`). A recursive function is a CHOOSE, so that it solves its equation
  must be proved: `LoopIsLoop` and `PrefixesAre` build solutions for longer and
  longer ends of the pattern. Then `FormatterKeeps` goes backwards over the pattern
  (what is parsed from i on makes up the pattern from i on), and
  `FormatterAccepts` backwards over the list, with `ScanOfItem`: in the midst of a
  pattern, the scan ends where the next item begins.

Only model-checked, and why:

* `StopReturns`, `EveryTaskRuns`, `DueIsServed`, `ReadyCallReturns`: liveness under
  fairness, which the prover does not do.
* The three properties that are found violated; they are no theorems.

## Not modelled

* Stacks, ucontext and memory management beyond the assertions of `~Fiber()`;
  fibers used without a scheduler.
* The locks themselves: a critical section of one mutex is one action, except
  where a lock is held over steps of others (`start()`, `setValue()`'s read lock, a
  logger's spinlock).
* `IOManager` with a caller thread: `Scheduler` models `use_caller`, `Reactor` the
  events and timers.
* Signals: `epoll_wait()` is called again with its whole timeout after EINTR, and
  the hooked calls are repeated.
* The lengths of timeouts in `Hook`: the conversions of `sleep`, `usleep`,
  `nanosleep` and `setsockopt` to milliseconds change no control. A timeout of zero
  fires at once; the kernel would take it as none.
* Descriptors of 64 and more, for which `FdManager` has no place.
* `Config::Lookup()`'s map, `LoadFromYaml()`, the conversions of containers other
  than the set of `LogDefine`s, and conversions to strings: sequential code over
  yaml-cpp.
* What format items write, the log files (`FileLogAppender` reopens, and so
  empties, its file whenever the second changes), `toYamlString()`.
* `Address`, `endian.h` and the utilities: conversions without shared state, whose
  substance is in the system's libraries.
* `uint64_t` overflow of times: a millisecond clock does not reach it.
