------------------------------ MODULE Reactor ------------------------------
(***************************************************************************)
(* The life of an IOManager as a whole: its threads are started            *)
(* (thread.cpp, Scheduler::start), run fibers that wait for events, timers *)
(* and semaphores (mutex.cpp), and leave when stopping() says that nothing *)
(* is left (iomanager.cpp, Scheduler::stop).                               *)
(*                                                                         *)
(* Scheduler, TimerManager and IOManager model the parts; here each is     *)
(* what the others see of it: the list of fibers, the set of timers, the   *)
(* count of pending events.  stopping() reads them one after another.      *)
(* A thread in epoll_wait() returns after MAX_TIMEOUT at the latest.       *)
(***************************************************************************)
EXTENDS Naturals, Sequences, FiniteSets

CONSTANTS
    Threads,
    Tasks,        \* the fibers
    NoTask,
    InitPermits,  \* initial_concurrency of the FiberSemaphore
    MaxWaits,     \* bound: how often one task suspends
    MaxPermits    \* bound: m_concurrency

ASSUME ReactorAssumption ==
    /\ IsFiniteSet(Threads) /\ IsFiniteSet(Tasks) /\ NoTask \notin Tasks
    /\ InitPermits \in Nat /\ MaxWaits \in Nat /\ MaxPermits \in Nat

VARIABLES
    th,           \* each thread: its place and the task or batch in its hands
    opc,          \* the owner's place in the constructor and in stop()
    built,        \* the threads whose constructor has returned
    m_threadIds,  \* their ids, as the constructor's caller read them
    m_id,         \* Thread::m_id (0: not set yet)
    posted,       \* Thread::m_semaphore
    task,         \* each task: where it is and how often it suspended
    m_fibers, m_activeThreadCount, m_stopping,
    m_timers, m_pendingEventCount,
    m_concurrency, m_waiters, granted, notified    \* FiberSemaphore, and its history

ctorVars == <<built, m_threadIds, m_id, posted>>
workVars == <<task, m_fibers, m_activeThreadCount, m_timers, m_pendingEventCount>>
semVars == <<m_concurrency, m_waiters, granted, notified>>
ownVars == <<ctorVars, opc, m_stopping>>
vars == <<th, ownVars, workVars, semVars>>

NoThread == [at |-> "none", task |-> NoTask, cbs |-> {}, evs |-> {}, ended |-> FALSE]

Init ==
    /\ th = [t \in Threads |-> NoThread]
    /\ opc = "new" /\ built = {} /\ m_threadIds = {}
    /\ m_id = [t \in Threads |-> 0]
    /\ posted = [t \in Threads |-> 0]
    /\ task = [k \in Tasks |-> [at |-> "new", waits |-> 0, early |-> TRUE]]
    /\ m_fibers = {} /\ m_activeThreadCount = 0 /\ m_stopping = TRUE
    /\ m_timers = {} /\ m_pendingEventCount = 0
    /\ m_concurrency = InitPermits /\ m_waiters = <<>> /\ granted = 0 /\ notified = 0

\* start() holds m_mutex while it constructs the threads.
Locked == opc = "starting"

-----------------------------------------------------------------------------
(* IOManager::IOManager(): Scheduler::start() and Thread::Thread() *)

start ==
    /\ opc = "new"
    /\ opc' = "starting" /\ m_stopping' = FALSE
    /\ UNCHANGED <<th, ctorVars, workVars, semVars>>

\* pthread_create(), for one thread after the other.
Create(t) ==
    /\ opc = "starting" /\ th[t].at = "none"
    /\ \A u \in Threads : th[u].at # "none" => u \in built
    /\ th' = [th EXCEPT ![t].at = "boot"]
    /\ UNCHANGED <<ownVars, workVars, semVars>>

\* m_semaphore.wait() at the end of the constructor; start() then asks for the id.
Construct(t) ==
    /\ opc = "starting" /\ posted[t] = 1
    /\ posted' = [posted EXCEPT ![t] = 0]
    /\ built' = built \cup {t}
    /\ m_threadIds' = m_threadIds \cup {m_id[t]}
    /\ UNCHANGED <<th, workVars, opc, m_id, m_stopping, semVars>>

Started ==
    /\ opc = "starting" /\ built = Threads
    /\ opc' = "up"
    /\ UNCHANGED <<th, ctorVars, workVars, m_stopping, semVars>>

\* Mutant: the constructor is told first.
BootStepsSwapped(t) ==
    /\ IF th[t].at = "boot"
       THEN posted' = [posted EXCEPT ![t] = 1] /\ UNCHANGED m_id
       ELSE m_id' = [m_id EXCEPT ![t] = 1] /\ UNCHANGED posted

\* The new thread notes its id, then notifies its constructor.
BootSteps(t) ==
    /\ IF th[t].at = "boot"
       THEN m_id' = [m_id EXCEPT ![t] = 1] /\ UNCHANGED posted
       ELSE posted' = [posted EXCEPT ![t] = 1] /\ UNCHANGED m_id

Boot(t) ==
    /\ th[t].at \in {"boot", "notify"}
    /\ BootSteps(t)
    /\ th' = [th EXCEPT ![t].at = IF @ = "boot" THEN "notify" ELSE "scan"]
    /\ UNCHANGED <<workVars, opc, built, m_threadIds, m_stopping, semVars>>

-----------------------------------------------------------------------------
(* Scheduler::run() *)

Goto(t, at) == th' = [th EXCEPT ![t].at = at]

Take(t) ==
    /\ th[t].at = "scan" /\ ~ Locked
    /\ \E k \in m_fibers :
          /\ m_fibers' = m_fibers \ {k}
          /\ task' = [task EXCEPT ![k].at = "running"]
          /\ th' = [th EXCEPT ![t].at = "run", ![t].task = k]
    /\ m_activeThreadCount' = m_activeThreadCount + 1
    /\ UNCHANGED <<ownVars, m_timers, m_pendingEventCount, semVars>>

\* Nothing to take: into idle(), or out of run() when the idle fiber has ended.
NoWork(t) ==
    /\ th[t].at = "scan" /\ ~ Locked /\ m_fibers = {}
    /\ Goto(t, IF th[t].ended THEN "left" ELSE "timers")
    /\ UNCHANGED <<ownVars, workVars, semVars>>

\* The fiber has yielded or ended.
Settle(t) ==
    /\ th[t].at \in {"settle", "again"}
    /\ m_activeThreadCount' = m_activeThreadCount - 1
    /\ th' = IF th[t].at = "settle" THEN [th EXCEPT ![t].at = "scan", ![t].task = NoTask]
             ELSE [th EXCEPT ![t].at = "requeue"]
    /\ UNCHANGED <<ownVars, task, m_fibers, m_timers, m_pendingEventCount, semVars>>

\* schedule() of tasks that were suspended.
Scheduled(K) ==
    /\ m_fibers' = m_fibers \cup K
    /\ task' = [k \in Tasks |-> IF k \in K THEN [task[k] EXCEPT !.at = "queued"] ELSE task[k]]

Requeue(t) ==
    /\ th[t].at = "requeue" /\ ~ Locked
    /\ Scheduled({th[t].task})
    /\ th' = [th EXCEPT ![t].at = "scan", ![t].task = NoTask]
    /\ UNCHANGED <<ownVars, m_activeThreadCount, m_timers, m_pendingEventCount, semVars>>

-----------------------------------------------------------------------------
(* What a running fiber does *)

Submit(k) ==
    /\ task[k].at = "new" /\ ~ Locked
    /\ opc = "up" \/ \E t \in Threads : th[t].at = "run"
    /\ Scheduled({k})
    /\ UNCHANGED <<th, ownVars, m_activeThreadCount, m_timers, m_pendingEventCount, semVars>>

\* The fiber gives its thread back, waiting for what, or ended.
Suspend(t, what) ==
    /\ task[th[t].task].waits < MaxWaits
    /\ task' = [task EXCEPT ![th[t].task] =
          [at |-> what, waits |-> @.waits + 1, early |-> ~ m_stopping]]

Finish(t) ==
    /\ th[t].at = "run"
    /\ task' = [task EXCEPT ![th[t].task].at = "done"]
    /\ Goto(t, "settle")
    /\ UNCHANGED <<ownVars, m_fibers, m_activeThreadCount, m_timers, m_pendingEventCount, semVars>>

YieldToReady(t) ==
    /\ th[t].at = "run"
    /\ Suspend(t, "running")
    /\ Goto(t, "again")
    /\ UNCHANGED <<ownVars, m_fibers, m_activeThreadCount, m_timers, m_pendingEventCount, semVars>>

\* addEvent() and YieldToHold()
WaitEvent(t) ==
    /\ th[t].at = "run"
    /\ Suspend(t, "event")
    /\ m_pendingEventCount' = m_pendingEventCount + 1
    /\ Goto(t, "settle")
    /\ UNCHANGED <<ownVars, m_fibers, m_activeThreadCount, m_timers, semVars>>

\* addTimer() and YieldToHold()
Sleep(t) ==
    /\ th[t].at = "run"
    /\ Suspend(t, "timer")
    /\ m_timers' = m_timers \cup {th[t].task}
    /\ Goto(t, "settle")
    /\ UNCHANGED <<ownVars, m_fibers, m_activeThreadCount, m_pendingEventCount, semVars>>

\* FiberSemaphore: a permit at once ...
tryWait(t) ==
    /\ th[t].at = "run" /\ m_concurrency > 0
    /\ m_concurrency' = m_concurrency - 1 /\ granted' = granted + 1
    /\ UNCHANGED <<th, ownVars, workVars, m_waiters, notified>>

\* ... or in the queue, and YieldToHold().
wait(t) ==
    /\ th[t].at = "run" /\ m_concurrency = 0
    /\ Suspend(t, "sem")
    /\ m_waiters' = Append(m_waiters, th[t].task)
    /\ Goto(t, "settle")
    /\ UNCHANGED <<ownVars, m_fibers, m_activeThreadCount, m_timers, m_pendingEventCount, m_concurrency, granted, notified>>

\* Mutant: the permit that is handed over is counted as well.
HandOverCounted == m_concurrency' = m_concurrency + 1

\* A permit goes to the first waiter without being counted.
HandOver == UNCHANGED m_concurrency

notify(t) ==
    /\ th[t].at = "run"
    /\ notified < MaxPermits
    /\ notified' = notified + 1
    /\ IF m_waiters # <<>>
       THEN /\ HandOver
            /\ m_waiters' = Tail(m_waiters)
            /\ Scheduled({Head(m_waiters)})
            /\ granted' = granted + 1
       ELSE m_concurrency' = m_concurrency + 1 /\ UNCHANGED <<m_waiters, granted, task, m_fibers>>
    /\ UNCHANGED <<th, ownVars, m_activeThreadCount, m_timers, m_pendingEventCount>>

-----------------------------------------------------------------------------
(* IOManager::idle() *)

\* stopping(): getNextTimer(), m_pendingEventCount, Scheduler::stopping().
readTimers(t) ==
    /\ th[t].at = "timers"
    /\ Goto(t, IF m_timers = {} THEN "pending" ELSE "poll")
    /\ UNCHANGED <<ownVars, workVars, semVars>>

\* Mutant: events that are waited for are not looked at.
NoPendingAsked == TRUE

NoPending == m_pendingEventCount = 0

readPending(t) ==
    /\ th[t].at = "pending"
    /\ Goto(t, IF NoPending THEN "stopping" ELSE "poll")
    /\ UNCHANGED <<ownVars, workVars, semVars>>

SchedulerStopping == m_stopping /\ m_fibers = {} /\ m_activeThreadCount = 0

\* The idle fiber ends if the answer is yes.
readScheduler(t) ==
    /\ th[t].at = "stopping" /\ ~ Locked
    /\ th' = IF SchedulerStopping THEN [th EXCEPT ![t].at = "scan", ![t].ended = TRUE]
             ELSE [th EXCEPT ![t].at = "poll"]
    /\ UNCHANGED <<ownVars, workVars, semVars>>

\* epoll_wait() returns with some events, listExpiredCb() takes the timers that are due.
InHands(k) == \E t \in Threads : k \in th[t].evs
Poll(t, E, C) ==
    /\ th[t].at = "poll"
    /\ \A k \in E : task[k].at = "event" /\ ~ InHands(k)
    /\ C \subseteq m_timers
    /\ m_timers' = m_timers \ C
    /\ th' = [th EXCEPT ![t].at = "list", ![t].cbs = C, ![t].evs = E]
    /\ UNCHANGED <<ownVars, task, m_fibers, m_activeThreadCount, m_pendingEventCount, semVars>>

\* schedule(cbs); the sleeper's callback is its fiber.
Deliver(t) ==
    /\ th[t].at = "list" /\ ~ Locked
    /\ Scheduled(th[t].cbs)
    /\ th' = [th EXCEPT ![t].at = "events", ![t].cbs = {}]
    /\ UNCHANGED <<ownVars, m_activeThreadCount, m_timers, m_pendingEventCount, semVars>>

\* Mutant: the count stays.
CountNot == UNCHANGED m_pendingEventCount

Count == m_pendingEventCount' = m_pendingEventCount - 1

\* triggerEvent() for one event, then --m_pendingEventCount.
Trigger(t) ==
    /\ th[t].at = "events" /\ ~ Locked
    /\ \E k \in th[t].evs :
          /\ Scheduled({k})
          /\ th' = [th EXCEPT ![t].at = "count", ![t].evs = @ \ {k}]
    /\ UNCHANGED <<ownVars, m_activeThreadCount, m_timers, m_pendingEventCount, semVars>>

Uncount(t) ==
    /\ th[t].at = "count"
    /\ Count
    /\ Goto(t, "events")
    /\ UNCHANGED <<ownVars, task, m_fibers, m_activeThreadCount, m_timers, semVars>>

\* The idle fiber gives the thread back to run().
Idled(t) ==
    /\ th[t].at = "events" /\ th[t].evs = {}
    /\ Goto(t, "scan")
    /\ UNCHANGED <<ownVars, workVars, semVars>>

-----------------------------------------------------------------------------
(* IOManager::~IOManager(): Scheduler::stop() and Thread::join() *)

stop ==
    /\ opc = "up"
    /\ opc' = "joining" /\ m_stopping' = TRUE
    /\ UNCHANGED <<th, ctorVars, workVars, semVars>>

join ==
    /\ opc = "joining" /\ \A t \in Threads : th[t].at = "left"
    /\ opc' = "stopped"
    /\ UNCHANGED <<th, ctorVars, workVars, m_stopping, semVars>>

-----------------------------------------------------------------------------
\* Events arrive, and some timers are due before others.
PollSome(t) == \E E \in SUBSET Tasks, C \in SUBSET m_timers : Poll(t, E, C)

\* A timer that is set runs out.
Expire(t) == m_timers # {} /\ \E E \in SUBSET Tasks : Poll(t, E, m_timers)

OwnerStep == start \/ (\E t \in Threads : Create(t) \/ Construct(t)) \/ Started \/ stop \/ join

UserStep(t) == YieldToReady(t) \/ WaitEvent(t) \/ Sleep(t) \/ tryWait(t) \/ wait(t) \/ notify(t)

ThreadStep(t) ==
    \/ Boot(t) \/ Take(t) \/ NoWork(t) \/ Settle(t) \/ Requeue(t) \/ Finish(t)
    \/ readTimers(t) \/ readPending(t) \/ readScheduler(t)
    \/ PollSome(t)
    \/ Deliver(t) \/ Trigger(t) \/ Uncount(t) \/ Idled(t)

Over == opc = "stopped" /\ UNCHANGED vars

Next ==
    \/ OwnerStep
    \/ \E k \in Tasks : Submit(k)
    \/ \E t \in Threads : UserStep(t) \/ ThreadStep(t)
    \/ Over

Spec == Init /\ [][Next]_vars

\* The owner and every thread go on, a running fiber ends if it does nothing
\* else, and timers run out.  Nothing is assumed of events, and of what fibers do.
Fairness ==
    /\ WF_vars(OwnerStep)
    /\ \A t \in Threads : WF_vars(ThreadStep(t)) /\ SF_vars(Expire(t))

FairSpec == Spec /\ Fairness

-----------------------------------------------------------------------------
(* Properties *)

ThreadState ==
    [at: {"none", "boot", "notify", "scan", "run", "settle", "again", "requeue", "timers", "pending",
          "stopping", "poll", "list", "events", "count", "left"},
     task: Tasks \cup {NoTask}, cbs: SUBSET Tasks, evs: SUBSET Tasks, ended: BOOLEAN]
TaskState ==
    [at: {"new", "queued", "running", "event", "timer", "sem", "done"}, waits: 0..MaxWaits, early: BOOLEAN]

\* Type correctness of threads, tasks, counts and the semaphore.  In m_threadIds
\* there are ids only: a thread's constructor returns when it has noted its own.
TypeOK ==
    /\ th \in [Threads -> ThreadState] /\ task \in [Tasks -> TaskState]
    /\ opc \in {"new", "starting", "up", "joining", "stopped"}
    /\ built \subseteq Threads /\ m_threadIds \subseteq {1}
    /\ m_id \in [Threads -> {0, 1}] /\ posted \in [Threads -> {0, 1}]
    /\ m_fibers \subseteq Tasks /\ m_timers \subseteq Tasks
    /\ m_activeThreadCount \in 0..Cardinality(Threads)
    /\ m_pendingEventCount \in Nat
    /\ m_stopping \in BOOLEAN
    /\ m_concurrency \in 0..(InitPermits + MaxPermits)
    /\ m_waiters \in Seq(Tasks) /\ granted \in Nat /\ notified \in 0..MaxPermits

\* A thread that can still serve events and timers.
Server(t) == th[t].at # "left" /\ ~ th[t].ended

\* The tasks that wait for a timer or an event, or whose timer is just listed.
Outstanding == {k \in Tasks : task[k].at \in {"timer", "event"}}

\* A fiber that began to wait for a timer or an event before stop() was called
\* has a thread that will serve it, although threads leave on the strength of
\* three reads at three different times.
EarlyWaitsServed ==
    \A k \in Outstanding : task[k].early => \E t \in Threads : Server(t)

\* The same for every wait: as long as stopping() is told of a timer or an
\* event, some thread is left to serve it.
WaitsServed == Outstanding # {} => \E t \in Threads : Server(t)

\* Every permit is in the semaphore or was granted, once; nobody waits while
\* there is one.
PermitsKept ==
    /\ m_concurrency + granted = InitPermits + notified
    /\ m_waiters # <<>> => m_concurrency = 0

\* The constructor and the destructor return: no deadlock between start(),
\* which holds m_mutex, and the threads it waits for, and threads leave once no
\* fiber waits for an event.
StopReturns == <>(opc = "stopped") \/ <>[](\E k \in Tasks : task[k].at = "event")

=============================================================================
