--------------------------- MODULE ReactorProofs ---------------------------
(***************************************************************************)
(* Proofs about Reactor: the types (no id is read before it is noted), the *)
(* permits of the semaphore, and that a fiber that began to wait before    *)
(* stop() is never left without a thread to serve it, for any number of    *)
(* threads, fibers, permits and waits.                                     *)
(***************************************************************************)
EXTENDS Reactor, FiniteSetTheorems, SequenceTheorems, TLAPS

\* A thread posts its constructor's semaphore after it has noted its id.
IdBeforePost == \A t \in Threads : posted[t] = 1 \/ th[t].at = "notify" => m_id[t] = 1

\* A thread with a fiber in its hands is the only one, and the fiber runs.
Holding == {"run", "again", "requeue"}
OneRunner ==
    /\ \A t \in Threads : th[t].at \in Holding => th[t].task \in Tasks /\ task[th[t].task].at = "running"
    /\ \A t, u \in Threads :
          th[t].at \in Holding /\ th[u].at \in Holding /\ th[t].task = th[u].task => t = u

\* A task is in the container its state names, and in the hands of one thread.
InPlace ==
    /\ \A k \in m_fibers : task[k].at = "queued"
    /\ \A k \in m_timers : task[k].at = "timer"
    /\ \A i \in 1..Len(m_waiters) : task[m_waiters[i]].at = "sem"
    /\ \A i, j \in 1..Len(m_waiters) : m_waiters[i] = m_waiters[j] => i = j
Listed ==
    /\ \A t \in Threads : \A k \in th[t].cbs : th[t].at = "list" /\ task[k].at = "timer" /\ k \notin m_timers
    /\ \A t, u \in Threads : \A k \in th[t].cbs : k \in th[u].cbs => t = u
Polled ==
    /\ \A t \in Threads : \A k \in th[t].evs : th[t].at \in {"list", "events", "count"} /\ task[k].at = "event"
    /\ \A t, u \in Threads : \A k \in th[t].evs : k \in th[u].evs => t = u

\* The two counts that stopping() reads, as they really are.
Busy == {t \in Threads : th[t].at \in {"run", "settle", "again"}}
Waiting == {k \in Tasks : task[k].at = "event"}
Counting == {t \in Threads : th[t].at = "count"}
CountsExact ==
    /\ m_activeThreadCount = Cardinality(Busy)
    /\ m_pendingEventCount = Cardinality(Waiting) + Cardinality(Counting)

\* A thread's idle fiber ends after stop(), and an ended one is not run again.
EndsLast ==
    /\ \A t \in Threads : th[t].ended => m_stopping /\ opc # "new"
    /\ \A t \in Threads : th[t].at # "none" => opc # "new"
    /\ \A t \in Threads : th[t].at \in {"timers", "pending", "stopping", "poll", "list", "events", "count"}
                             => ~ th[t].ended

\* EarlyWaitsServed is not inductive: the server must be one that has not yet
\* read what it reads before it leaves, or read it while the wait was there.
WillServe(t, k) ==
    /\ Server(t)
    /\ \/ k \in m_timers /\ th[t].at \notin {"pending", "stopping"}
       \/ task[k].at = "event" /\ th[t].at # "stopping"
       \/ k \in th[t].cbs
EarlyServer == \A k \in Outstanding : task[k].early => \E t \in Threads : WillServe(t, k)

IInv == TypeOK /\ IdBeforePost /\ OneRunner /\ InPlace /\ Listed /\ Polled /\ CountsExact /\ EndsLast
        /\ PermitsKept /\ EarlyServer

USE DEF ctorVars, workVars, semVars, ownVars, vars, Goto

-----------------------------------------------------------------------------
\* The counts are sizes of finite sets.
LEMMA FiniteCounts ==
    ASSUME TypeOK
    PROVE  /\ IsFiniteSet(Busy) /\ IsFiniteSet(Waiting) /\ IsFiniteSet(Counting)
           /\ Cardinality(Busy) \in 0..Cardinality(Threads)
           /\ Cardinality(Waiting) \in Nat /\ Cardinality(Counting) \in Nat
  <1>1. Busy \subseteq Threads /\ Waiting \subseteq Tasks /\ Counting \subseteq Threads
    BY DEF Busy, Waiting, Counting
  <1>2. IsFiniteSet(Busy) /\ IsFiniteSet(Waiting) /\ IsFiniteSet(Counting)
    BY <1>1, ReactorAssumption, FS_Subset
  <1>3. Cardinality(Busy) <= Cardinality(Threads)
    BY <1>1, ReactorAssumption, FS_Subset
  <1> QED
    BY <1>2, <1>3, ReactorAssumption, FS_CardinalityType

\* One element more, or one less.
LEMMA OneMore ==
    ASSUME NEW S, IsFiniteSet(S), NEW x
    PROVE  /\ x \notin S => Cardinality(S \cup {x}) = Cardinality(S) + 1
           /\ x \in S => Cardinality(S \ {x}) = Cardinality(S) - 1
           /\ Cardinality(S) \in Nat
  BY FS_AddElement, FS_RemoveElement, FS_CardinalityType

\* The invariant holds before the first thread is created.
LEMMA ReactorInit == Init => IInv
  <1> SUFFICES ASSUME Init PROVE IInv
    OBVIOUS
  <1>1. TypeOK
    <2>1. Cardinality(Threads) \in Nat
      BY ReactorAssumption, FS_CardinalityType
    <2> QED
      BY <2>1, ReactorAssumption DEF Init, TypeOK, ThreadState, TaskState, NoThread
  <1>2. CountsExact
    <2>1. Busy = {} /\ Waiting = {} /\ Counting = {}
      BY DEF Init, Busy, Waiting, Counting, NoThread
    <2> QED
      BY <2>1, FS_EmptySet DEF Init, CountsExact
  <1>3. IdBeforePost /\ OneRunner /\ InPlace /\ Listed /\ Polled /\ EndsLast
    BY DEF Init, IdBeforePost, OneRunner, InPlace, Listed, Polled, EndsLast, NoThread, Holding
  <1>4. PermitsKept /\ EarlyServer
    BY ReactorAssumption DEF Init, PermitsKept, EarlyServer, Outstanding
  <1> QED
    BY <1>1, <1>2, <1>3, <1>4 DEF IInv

\* What a step that only moves a thread on does to the threads.
Places == {"none", "boot", "notify", "scan", "run", "settle", "again", "requeue", "timers", "pending",
           "stopping", "poll", "list", "events", "count", "left"}
Moves(t, a, e) ==
    /\ th' \in [Threads -> ThreadState]
    /\ \A u \in Threads : u # t => th'[u] = th[u]
    /\ th'[t].at = a /\ th'[t].ended = e
    /\ th'[t].task = th[t].task /\ th'[t].cbs = th[t].cbs /\ th'[t].evs = th[t].evs
LEMMA GotoMoves ==
    ASSUME TypeOK, NEW t \in Threads, NEW a \in Places, th' = [th EXCEPT ![t].at = a]
    PROVE  Moves(t, a, th[t].ended)
  <1>0. th[t] \in ThreadState
    BY DEF TypeOK
  <1>1. [th[t] EXCEPT !.at = a] \in ThreadState
    BY <1>0 DEF ThreadState, Places
  <1>2. th' = [th EXCEPT ![t] = [th[t] EXCEPT !.at = a]]
    BY DEF TypeOK
  <1> QED
    BY <1>0, <1>1, <1>2 DEF TypeOK, ThreadState, Moves

\* Steps that move a thread from one place of run() and idle() to another.
LEMMA MoveStep ==
    ASSUME IInv, NEW t \in Threads,
           NoWork(t) \/ readTimers(t) \/ readPending(t) \/ readScheduler(t) \/ Idled(t)
    PROVE  IInv'
  <1> USE DEF IInv
  <1>1. /\ UNCHANGED <<ownVars, workVars, semVars>>
        /\ th[t].at \in {"scan", "timers", "pending", "stopping", "events"}
        /\ th[t].evs = {} /\ th[t].cbs = {}
    BY DEF NoWork, readTimers, readPending, readScheduler, Idled, Listed, Polled
  <1>2. PICK a \in {"left", "timers", "pending", "stopping", "poll", "scan"}, e \in BOOLEAN :
           /\ Moves(t, a, e)
           /\ e # th[t].ended => e /\ m_stopping /\ th[t].at = "stopping" /\ a = "scan"
           /\ th[t].at = "scan" => a \in {"left", "timers"}
           /\ a = "left" => th[t].ended
           /\ a \in {"timers", "pending", "stopping", "poll"} => ~ th[t].ended
           /\ a = "pending" => m_timers = {}
           /\ a = "stopping" => m_pendingEventCount = 0 /\ th[t].at = "pending"
    <2>1. CASE NoWork(t)
      BY <2>1, GotoMoves DEF NoWork, Places, EndsLast, TypeOK, ThreadState
    <2>2. CASE readTimers(t)
      <3>1. th[t].at = "timers" /\ ~ th[t].ended /\ th[t].ended \in BOOLEAN
        BY <2>2 DEF readTimers, EndsLast, TypeOK, ThreadState
      <3>2. CASE m_timers = {}
        BY <2>2, <3>1, <3>2, GotoMoves DEF readTimers, Places
      <3>3. CASE m_timers # {}
        BY <2>2, <3>1, <3>3, GotoMoves DEF readTimers, Places
      <3> QED
        BY <3>2, <3>3
    <2>3. CASE readPending(t)
      <3>1. th[t].at = "pending" /\ ~ th[t].ended /\ th[t].ended \in BOOLEAN
        BY <2>3 DEF readPending, EndsLast, TypeOK, ThreadState
      <3>2. CASE NoPending
        BY <2>3, <3>1, <3>2, GotoMoves DEF readPending, NoPending, Places
      <3>3. CASE ~ NoPending
        BY <2>3, <3>1, <3>3, GotoMoves DEF readPending, Places
      <3> QED
        BY <3>2, <3>3
    <2>4. CASE readScheduler(t)
      <3>1. CASE SchedulerStopping
        <4>1. th' = [th EXCEPT ![t] = [th[t] EXCEPT !.at = "scan", !.ended = TRUE]]
          BY <2>4, <3>1 DEF readScheduler, TypeOK
        <4>2. Moves(t, "scan", TRUE)
          BY <4>1 DEF Moves, TypeOK, ThreadState
        <4> QED
          BY <2>4, <3>1, <4>2 DEF SchedulerStopping, readScheduler
      <3>2. CASE ~ SchedulerStopping
        BY <2>4, <3>2, GotoMoves DEF readScheduler, Places, EndsLast, TypeOK, ThreadState
      <3> QED
        BY <3>1, <3>2
    <2>5. CASE Idled(t)
      BY <2>5, GotoMoves DEF Idled, Places, EndsLast, TypeOK, ThreadState
    <2> QED
      BY <2>1, <2>2, <2>3, <2>4, <2>5
  <1>3. TypeOK'
    BY <1>1, <1>2 DEF TypeOK, Moves
  <1>4. CountsExact'
    <2>1. Busy' = Busy /\ Waiting' = Waiting /\ Counting' = Counting
      BY <1>1, <1>2 DEF Moves, Busy, Waiting, Counting
    <2> QED
      BY <1>1, <2>1 DEF CountsExact
  <1>5. IdBeforePost' /\ OneRunner' /\ InPlace' /\ PermitsKept'
    BY <1>1, <1>2 DEF Moves, IdBeforePost, OneRunner, Holding, InPlace, PermitsKept
  <1>6. Listed' /\ Polled'
    BY <1>1, <1>2 DEF Moves, Listed, Polled
  <1>7. EndsLast'
    BY <1>1, <1>2 DEF Moves, EndsLast
  <1>8. EarlyServer'
    <2> SUFFICES ASSUME NEW k \in Tasks, task[k].at \in {"timer", "event"}, task[k].early
                 PROVE  \E u \in Threads : WillServe(u, k)'
      BY <1>1 DEF EarlyServer, Outstanding
    <2>1. PICK u \in Threads : WillServe(u, k)
      BY DEF EarlyServer, Outstanding
    <2>2. task[k].at = "event" => m_pendingEventCount # 0
      <3> SUFFICES ASSUME task[k].at = "event" PROVE m_pendingEventCount # 0
        OBVIOUS
      <3>1. k \in Waiting
        BY DEF Waiting
      <3>2. Cardinality(Waiting) # 0
        BY <3>1, FiniteCounts, FS_EmptySet
      <3> QED
        BY <3>2, FiniteCounts DEF CountsExact
    <2>3. CASE u = t
      BY <1>1, <1>2, <2>1, <2>2, <2>3 DEF Moves, WillServe, Server, Listed
    <2>4. CASE u # t
      BY <1>1, <1>2, <2>1, <2>4 DEF Moves, WillServe, Server
    <2> QED
      BY <2>3, <2>4
  <1> QED
    BY <1>3, <1>4, <1>5, <1>6, <1>7, <1>8

\* Who will serve a wait still will if he stays, and does not go where he leaves from.
LEMMA ServersStay ==
    ASSUME EarlyServer,
           \A u \in Threads : /\ th'[u].ended = th[u].ended
                              /\ th'[u].at = th[u].at \/ th'[u].at \notin {"left", "pending", "stopping"},
           m_timers \subseteq m_timers',
           \A k \in Tasks : task'[k].at \in {"timer", "event"} /\ task'[k].early =>
              \/ \E u \in Threads : WillServe(u, k)'
              \/ /\ task[k].at = task'[k].at /\ task[k].early
                 /\ \A u \in Threads : k \in th[u].cbs => k \in th'[u].cbs
    PROVE  EarlyServer'
  <1> SUFFICES ASSUME NEW k \in Tasks, task'[k].at \in {"timer", "event"}, task'[k].early,
                      task[k].at = task'[k].at, task[k].early,
                      \A u \in Threads : k \in th[u].cbs => k \in th'[u].cbs
               PROVE  \E u \in Threads : WillServe(u, k)'
    BY DEF EarlyServer, Outstanding
  <1>1. PICK u \in Threads : WillServe(u, k)
    BY DEF EarlyServer, Outstanding
  <1>2. WillServe(u, k)'
    BY <1>1 DEF WillServe, Server
  <1> QED
    BY <1>2

\* The owner's steps.
LEMMA OwnerKeeps ==
    ASSUME IInv, start \/ Started \/ stop \/ join
    PROVE  IInv'
  <1> USE DEF IInv, start, Started, stop, join
  <1>1. UNCHANGED <<th, ctorVars, workVars, semVars>>
    OBVIOUS
  <1>2. TypeOK'
    BY <1>1 DEF TypeOK
  <1>3. CountsExact'
    BY <1>1 DEF CountsExact, Busy, Waiting, Counting
  <1>4. IdBeforePost' /\ OneRunner' /\ InPlace' /\ Listed' /\ Polled' /\ PermitsKept'
    BY <1>1 DEF IdBeforePost, OneRunner, InPlace, Listed, Polled, PermitsKept
  <1>5. EndsLast'
    BY <1>1 DEF EndsLast
  <1>6. EarlyServer'
    BY <1>1 DEF EarlyServer, Outstanding, WillServe, Server
  <1> QED
    BY <1>2, <1>3, <1>4, <1>5, <1>6

\* A thread is created, notes its id, and is waited for.
LEMMA BootStep ==
    ASSUME IInv, NEW t \in Threads, Create(t) \/ Construct(t) \/ Boot(t)
    PROVE  IInv'
  <1> USE DEF IInv
  <1>1. UNCHANGED <<workVars, semVars, opc, m_stopping>>
    BY DEF Create, Construct, Boot
  <1>2. /\ th' \in [Threads -> ThreadState]
        /\ \A u \in Threads : /\ u # t => th'[u] = th[u]
                              /\ th'[u].ended = th[u].ended /\ th'[u].task = th[u].task
                              /\ th'[u].cbs = th[u].cbs /\ th'[u].evs = th[u].evs
        /\ \/ UNCHANGED th
           \/ th[t].at \in {"none", "boot", "notify"} /\ th'[t].at \in {"boot", "notify", "scan"} /\ opc # "new"
        /\ th'[t].at = "notify" /\ th[t].at # "notify" => th[t].at = "boot"
    <2>1. CASE Create(t)
      BY <2>1, GotoMoves DEF Create, Moves, Places
    <2>2. CASE Construct(t)
      BY <2>2 DEF Construct, TypeOK
    <2>3. CASE Boot(t) /\ th[t].at = "boot"
      <3>1. th' = [th EXCEPT ![t].at = "notify"]
        BY <2>3 DEF Boot, TypeOK
      <3> QED
        BY <2>3, <3>1, GotoMoves DEF Moves, Places, EndsLast
    <2>4. CASE Boot(t) /\ th[t].at = "notify"
      <3>1. th' = [th EXCEPT ![t].at = "scan"]
        BY <2>4 DEF Boot, TypeOK
      <3> QED
        BY <2>4, <3>1, GotoMoves DEF Moves, Places, EndsLast
    <2> QED
      BY <2>1, <2>2, <2>3, <2>4 DEF Boot
  <1>3. /\ built' \subseteq Threads /\ m_threadIds' \subseteq {1}
        /\ m_id' \in [Threads -> {0, 1}] /\ posted' \in [Threads -> {0, 1}]
        /\ IdBeforePost'
    <2>1. CASE Create(t)
      BY <1>2, <2>1 DEF Create, TypeOK, IdBeforePost
    <2>2. CASE Construct(t)
      BY <2>2 DEF Construct, TypeOK, IdBeforePost
    <2>3. CASE Boot(t)
      BY <1>2, <2>3 DEF Boot, BootSteps, TypeOK, IdBeforePost
    <2> QED
      BY <2>1, <2>2, <2>3
  <1>4. TypeOK'
    BY <1>1, <1>2, <1>3 DEF TypeOK
  <1>5. CountsExact'
    <2>1. Busy' = Busy /\ Waiting' = Waiting /\ Counting' = Counting
      BY <1>1, <1>2 DEF Busy, Waiting, Counting
    <2> QED
      BY <1>1, <2>1 DEF CountsExact
  <1>6. OneRunner' /\ InPlace' /\ PermitsKept'
    BY <1>1, <1>2 DEF OneRunner, Holding, InPlace, PermitsKept
  <1>7. Listed' /\ Polled' /\ EndsLast'
    BY <1>1, <1>2 DEF Listed, Polled, EndsLast
  <1>8. EarlyServer'
    BY <1>1, <1>2, ServersStay
  <1> QED
    BY <1>3, <1>4, <1>5, <1>6, <1>7, <1>8

-----------------------------------------------------------------------------
\* What schedule() and a suspension do to the tasks.
LEMMA ScheduledTasks ==
    ASSUME TypeOK, NEW K \in SUBSET Tasks, Scheduled(K)
    PROVE  /\ task' \in [Tasks -> TaskState]
           /\ m_fibers' = m_fibers \cup K /\ m_fibers' \subseteq Tasks
           /\ \A k \in Tasks : k \notin K => task'[k] = task[k]
           /\ \A k \in K : task'[k].at = "queued"
  <1>1. \A k \in Tasks : task[k] \in TaskState
    BY DEF TypeOK
  <1>2. \A k \in Tasks : [task[k] EXCEPT !.at = "queued"] \in TaskState /\ [task[k] EXCEPT !.at = "queued"].at = "queued"
    BY <1>1 DEF TaskState
  <1> QED
    BY <1>1, <1>2 DEF TypeOK, Scheduled

LEMMA SuspendedTask ==
    ASSUME TypeOK, NEW t \in Threads, th[t].task \in Tasks,
           NEW what \in {"running", "event", "timer", "sem"}, Suspend(t, what)
    PROVE  /\ task' \in [Tasks -> TaskState]
           /\ \A k \in Tasks : k # th[t].task => task'[k] = task[k]
           /\ task'[th[t].task].at = what /\ task'[th[t].task].early = ~ m_stopping
  <1>1. task[th[t].task] \in TaskState /\ task[th[t].task].waits \in 0..MaxWaits
    BY DEF TypeOK, TaskState
  <1>2. task[th[t].task].waits + 1 \in 0..MaxWaits
    BY <1>1, ReactorAssumption DEF Suspend
  <1>3. [at |-> what, waits |-> task[th[t].task].waits + 1, early |-> ~ m_stopping] \in TaskState
    BY <1>2 DEF TaskState
  <1> QED
    BY <1>3 DEF Suspend, TypeOK

\* Batches are of tasks, and a thread has one only while it works on it.
LEMMA Hands ==
    ASSUME TypeOK, Listed, Polled
    PROVE  \A u \in Threads : /\ th[u].cbs \subseteq Tasks /\ th[u].evs \subseteq Tasks
                              /\ th[u].at # "list" => th[u].cbs = {}
                              /\ th[u].at \notin {"list", "events", "count"} => th[u].evs = {}
  BY DEF TypeOK, ThreadState, Listed, Polled

\* A thread takes a task.
LEMMA TakeStep ==
    ASSUME IInv, NEW t \in Threads, Take(t)
    PROVE  IInv'
  <1> USE DEF IInv
  <1>1. PICK k \in m_fibers :
           /\ th[t].at = "scan" /\ m_fibers' = m_fibers \ {k}
           /\ task' = [task EXCEPT ![k].at = "running"]
           /\ th' = [th EXCEPT ![t].at = "run", ![t].task = k]
           /\ m_activeThreadCount' = m_activeThreadCount + 1
           /\ UNCHANGED <<ownVars, m_timers, m_pendingEventCount, semVars>>
    BY DEF Take
  <1>2. k \in Tasks /\ task[k].at = "queued" /\ task[k] \in TaskState /\ th[t] \in ThreadState
    BY <1>1 DEF TypeOK, InPlace
  <1>3. /\ th' \in [Threads -> ThreadState]
        /\ \A u \in Threads : /\ u # t => th'[u] = th[u]
                              /\ th'[u].ended = th[u].ended /\ th'[u].cbs = th[u].cbs /\ th'[u].evs = th[u].evs
        /\ th'[t].at = "run" /\ th'[t].task = k
    <2>1. [th[t] EXCEPT !.at = "run", !.task = k] \in ThreadState
      BY <1>2 DEF ThreadState
    <2>2. th' = [th EXCEPT ![t] = [th[t] EXCEPT !.at = "run", !.task = k]]
      BY <1>1 DEF TypeOK
    <2> QED
      BY <1>2, <2>1, <2>2 DEF TypeOK, ThreadState
  <1>4. /\ task' \in [Tasks -> TaskState] /\ task'[k].at = "running"
        /\ \A x \in Tasks : x # k => task'[x] = task[x]
    <2>1. [task[k] EXCEPT !.at = "running"] \in TaskState
      BY <1>2 DEF TaskState
    <2>2. task' = [task EXCEPT ![k] = [task[k] EXCEPT !.at = "running"]]
      BY <1>1 DEF TypeOK
    <2> QED
      BY <1>2, <2>1, <2>2 DEF TypeOK, TaskState
  <1>5. CountsExact' /\ m_activeThreadCount' \in 0..Cardinality(Threads)
    <2>1. Busy' = Busy \cup {t} /\ t \notin Busy /\ Waiting' = Waiting /\ Counting' = Counting
      BY <1>1, <1>2, <1>3, <1>4 DEF Busy, Waiting, Counting
    <2>2. Busy' \subseteq Threads
      BY DEF Busy
    <2>3. Cardinality(Busy') <= Cardinality(Threads) /\ Cardinality(Busy') \in Nat
      BY <2>2, ReactorAssumption, FS_Subset, FS_CardinalityType
    <2>4. Cardinality(Threads) \in Nat
      BY ReactorAssumption, FS_CardinalityType
    <2> QED
      BY <1>1, <2>1, <2>3, <2>4, FiniteCounts, OneMore DEF CountsExact
  <1>6. TypeOK'
    BY <1>1, <1>3, <1>4, <1>5 DEF TypeOK
  <1>7. IdBeforePost' /\ PermitsKept'
    BY <1>1, <1>3 DEF IdBeforePost, PermitsKept
  <1>8. OneRunner'
    BY <1>1, <1>2, <1>3, <1>4 DEF OneRunner, Holding
  <1>9. InPlace'
    BY <1>1, <1>2, <1>4 DEF InPlace, TypeOK
  <1>10. Listed' /\ Polled'
    BY <1>1, <1>2, <1>3, <1>4, Hands DEF Listed, Polled
  <1>11. EndsLast'
    BY <1>1, <1>3 DEF EndsLast
  <1>12. EarlyServer'
    BY <1>1, <1>2, <1>3, <1>4, ServersStay
  <1> QED
    BY <1>5, <1>6, <1>7, <1>8, <1>9, <1>10, <1>11, <1>12

\* The fiber has yielded or ended; one that yielded is queued again.
LEMMA SettleStep ==
    ASSUME IInv, NEW t \in Threads, Settle(t) \/ Requeue(t)
    PROVE  IInv'
  <1> USE DEF IInv
  <1>1. /\ th[t].at \in {"settle", "again", "requeue"}
        /\ UNCHANGED <<ownVars, m_timers, m_pendingEventCount, semVars>>
        /\ th' = IF th[t].at = "again" THEN [th EXCEPT ![t].at = "requeue"]
                 ELSE [th EXCEPT ![t].at = "scan", ![t].task = NoTask]
    BY DEF Settle, Requeue
  <1>2. /\ th' \in [Threads -> ThreadState]
        /\ \A u \in Threads : /\ u # t => th'[u] = th[u]
                              /\ th'[u].ended = th[u].ended /\ th'[u].cbs = th[u].cbs /\ th'[u].evs = th[u].evs
        /\ \/ th[t].at \in {"settle", "requeue"} /\ th'[t].at = "scan"
           \/ th[t].at = "again" /\ th'[t].at = "requeue" /\ th'[t].task = th[t].task
    <2>1. CASE th[t].at = "again"
      BY <1>1, <2>1, GotoMoves DEF Moves, Places
    <2>2. CASE th[t].at # "again"
      <3>0. th[t] \in ThreadState
        BY DEF TypeOK
      <3>1. [th[t] EXCEPT !.at = "scan", !.task = NoTask] \in ThreadState
        BY <3>0 DEF ThreadState
      <3>2. th' = [th EXCEPT ![t] = [th[t] EXCEPT !.at = "scan", !.task = NoTask]]
        BY <1>1, <2>2 DEF TypeOK
      <3> QED
        BY <1>1, <2>2, <3>0, <3>1, <3>2 DEF TypeOK, ThreadState
    <2> QED
      BY <2>1, <2>2
  <1>3. /\ task' \in [Tasks -> TaskState] /\ m_fibers' \subseteq Tasks
        /\ \/ th[t].at # "requeue" /\ UNCHANGED <<task, m_fibers>>
           \/ /\ th[t].at = "requeue" /\ m_fibers' = m_fibers \cup {th[t].task}
              /\ th[t].task \in Tasks /\ task[th[t].task].at = "running" /\ task'[th[t].task].at = "queued"
              /\ \A k \in Tasks : k # th[t].task => task'[k] = task[k]
    <2>1. CASE Settle(t)
      BY <2>1 DEF Settle, TypeOK
    <2>2. CASE Requeue(t)
      <3>1. th[t].task \in Tasks /\ task[th[t].task].at = "running" /\ Scheduled({th[t].task}) /\ th[t].at = "requeue"
        BY <2>2 DEF Requeue, OneRunner, Holding
      <3> QED
        BY <3>1, ScheduledTasks
    <2> QED
      BY <2>1, <2>2
  <1>4. CountsExact' /\ m_activeThreadCount' \in 0..Cardinality(Threads)
    <2>1. Waiting' = Waiting /\ Counting' = Counting
      BY <1>1, <1>2, <1>3 DEF Waiting, Counting
    <2>2. CASE Settle(t)
      <3>1. Busy' = Busy \ {t} /\ t \in Busy /\ m_activeThreadCount' = m_activeThreadCount - 1
        BY <1>2, <2>2 DEF Busy, Settle
      <3>2. Cardinality(Threads) \in Nat /\ Cardinality(Busy \ {t}) \in Nat
        BY ReactorAssumption, FS_CardinalityType, FS_RemoveElement, FiniteCounts
      <3> QED
        BY <1>1, <2>1, <3>1, <3>2, FiniteCounts, OneMore DEF CountsExact
    <2>3. CASE Requeue(t)
      <3>1. Busy' = Busy /\ m_activeThreadCount' = m_activeThreadCount
        BY <1>2, <2>3 DEF Busy, Requeue
      <3> QED
        BY <1>1, <2>1, <3>1 DEF CountsExact, TypeOK
    <2> QED
      BY <2>2, <2>3
  <1>5. TypeOK'
    BY <1>1, <1>2, <1>3, <1>4 DEF TypeOK
  <1>6. IdBeforePost' /\ PermitsKept'
    BY <1>1, <1>2 DEF IdBeforePost, PermitsKept
  <1>7. OneRunner'
    BY <1>1, <1>2, <1>3 DEF OneRunner, Holding
  <1>8. InPlace'
    BY <1>1, <1>3 DEF InPlace, TypeOK
  <1>9. Listed' /\ Polled'
    BY <1>1, <1>2, <1>3, Hands DEF Listed, Polled
  <1>10. EndsLast'
    BY <1>1, <1>2 DEF EndsLast
  <1>11. EarlyServer'
    BY <1>1, <1>2, <1>3, ServersStay
  <1> QED
    BY <1>4, <1>5, <1>6, <1>7, <1>8, <1>9, <1>10, <1>11

\* A new task is scheduled.
LEMMA SubmitStep ==
    ASSUME IInv, NEW k \in Tasks, Submit(k)
    PROVE  IInv'
  <1> USE DEF IInv
  <1>1. /\ task[k].at = "new" /\ Scheduled({k})
        /\ UNCHANGED <<th, ownVars, m_activeThreadCount, m_timers, m_pendingEventCount, semVars>>
    BY DEF Submit
  <1>2. /\ task' \in [Tasks -> TaskState] /\ m_fibers' \subseteq Tasks /\ m_fibers' = m_fibers \cup {k}
        /\ task'[k].at = "queued" /\ \A x \in Tasks : x # k => task'[x] = task[x]
    BY <1>1, ScheduledTasks
  <1>3. CountsExact'
    <2>1. Busy' = Busy /\ Waiting' = Waiting /\ Counting' = Counting
      BY <1>1, <1>2 DEF Busy, Waiting, Counting
    <2> QED
      BY <1>1, <2>1 DEF CountsExact
  <1>4. TypeOK'
    BY <1>1, <1>2 DEF TypeOK
  <1>5. IdBeforePost' /\ PermitsKept' /\ EndsLast'
    BY <1>1 DEF IdBeforePost, PermitsKept, EndsLast
  <1>6. OneRunner' /\ InPlace'
    BY <1>1, <1>2 DEF OneRunner, Holding, InPlace, TypeOK
  <1>7. Listed' /\ Polled'
    BY <1>1, <1>2, Hands DEF Listed, Polled
  <1>8. EarlyServer'
    BY <1>1, <1>2, ServersStay
  <1> QED
    BY <1>3, <1>4, <1>5, <1>6, <1>7, <1>8

\* A permit is taken at once.
LEMMA TryWaitStep ==
    ASSUME IInv, NEW t \in Threads, tryWait(t)
    PROVE  IInv'
  <1> USE DEF IInv, tryWait
  <1>1. TypeOK' /\ PermitsKept'
    BY ReactorAssumption DEF TypeOK, PermitsKept
  <1>2. CountsExact'
    BY DEF CountsExact, Busy, Waiting, Counting
  <1>3. IdBeforePost' /\ OneRunner' /\ InPlace' /\ Listed' /\ Polled' /\ EndsLast'
    BY DEF IdBeforePost, OneRunner, InPlace, Listed, Polled, EndsLast
  <1>4. EarlyServer'
    BY DEF EarlyServer, Outstanding, WillServe, Server
  <1> QED
    BY <1>1, <1>2, <1>3, <1>4

\* A permit is handed to the first waiter, or counted.
LEMMA NotifyStep ==
    ASSUME IInv, NEW t \in Threads, notify(t)
    PROVE  IInv'
  <1> USE DEF IInv
  <1>1. UNCHANGED <<th, ownVars, m_activeThreadCount, m_timers, m_pendingEventCount>>
    BY DEF notify
  <1>2. CASE m_waiters = <<>>
    <2>1. TypeOK' /\ PermitsKept'
      BY <1>2, ReactorAssumption DEF notify, TypeOK, PermitsKept
    <2>2. CountsExact'
      BY <1>2 DEF notify, CountsExact, Busy, Waiting, Counting
    <2>3. IdBeforePost' /\ OneRunner' /\ InPlace' /\ Listed' /\ Polled' /\ EndsLast'
      BY <1>2 DEF notify, IdBeforePost, OneRunner, InPlace, Listed, Polled, EndsLast
    <2>4. EarlyServer'
      BY <1>2 DEF notify, EarlyServer, Outstanding, WillServe, Server
    <2> QED
      BY <2>1, <2>2, <2>3, <2>4
  <1>3. CASE m_waiters # <<>>
    <2> DEFINE k == Head(m_waiters)
    <2>1. /\ k \in Tasks /\ m_waiters' = Tail(m_waiters) /\ Tail(m_waiters) \in Seq(Tasks)
          /\ k = m_waiters[1] /\ Len(m_waiters) \in Nat /\ Len(m_waiters) > 0
          /\ Len(m_waiters') = Len(m_waiters) - 1
          /\ \A i \in 1..Len(m_waiters') : m_waiters'[i] = m_waiters[i + 1] /\ i + 1 \in 1..Len(m_waiters)
      <3>1. m_waiters \in Seq(Tasks) /\ m_waiters' = Tail(m_waiters)
        BY <1>3 DEF notify, TypeOK
      <3>2. k = m_waiters[1] /\ Len(m_waiters) \in Nat /\ Len(m_waiters) > 0
        BY <1>3, <3>1
      <3> QED
        BY <1>3, <3>1, <3>2, HeadTailProperties
    <2>2. task[k].at = "sem" /\ \A i \in 1..Len(m_waiters') : m_waiters'[i] # k /\ m_waiters'[i] \in Tasks
      <3>1. 1 \in 1..Len(m_waiters) /\ task[m_waiters[1]].at = "sem"
        BY <2>1 DEF InPlace
      <3>2. ASSUME NEW i \in 1..Len(m_waiters') PROVE m_waiters'[i] # k /\ m_waiters'[i] \in Tasks
        <4>1. i + 1 \in 1..Len(m_waiters) /\ i + 1 # 1 /\ m_waiters'[i] = m_waiters[i + 1]
          BY <2>1
        <4>2. m_waiters[i + 1] # m_waiters[1]
          BY <3>1, <4>1 DEF InPlace
        <4> QED
          BY <2>1, <4>1, <4>2 DEF TypeOK
      <3> QED
        BY <2>1, <3>1, <3>2
    <2>3. /\ Scheduled({k}) /\ notified' = notified + 1 /\ notified < MaxPermits /\ granted' = granted + 1
          /\ UNCHANGED m_concurrency
      BY <1>3 DEF notify, HandOver
    <2>4. /\ task' \in [Tasks -> TaskState] /\ m_fibers' \subseteq Tasks /\ m_fibers' = m_fibers \cup {k}
          /\ task'[k].at = "queued" /\ \A x \in Tasks : x # k => task'[x] = task[x]
      BY <2>1, <2>3, ScheduledTasks
    <2>5. PermitsKept'
      BY <1>3, <2>3, ReactorAssumption DEF PermitsKept, TypeOK
    <2>6. TypeOK'
      BY <1>1, <2>1, <2>3, <2>4, ReactorAssumption DEF TypeOK
    <2>7. CountsExact'
      <3>1. Busy' = Busy /\ Waiting' = Waiting /\ Counting' = Counting
        BY <1>1, <2>1, <2>2, <2>4 DEF Busy, Waiting, Counting
      <3> QED
        BY <1>1, <3>1 DEF CountsExact
    <2>8. IdBeforePost' /\ EndsLast'
      BY <1>1 DEF IdBeforePost, EndsLast
    <2>9. OneRunner'
      BY <1>1, <2>1, <2>2, <2>4 DEF OneRunner, Holding
    <2>10. InPlace'
      <3>1. \A x \in m_fibers' : task'[x].at = "queued"
        BY <2>1, <2>4 DEF InPlace, TypeOK
      <3>2. \A x \in m_timers' : task'[x].at = "timer"
        BY <1>1, <2>1, <2>2, <2>4 DEF InPlace, TypeOK
      <3>3. \A i \in 1..Len(m_waiters') : task'[m_waiters'[i]].at = "sem"
        BY <2>1, <2>2, <2>4 DEF InPlace
      <3>4. \A i, j \in 1..Len(m_waiters') : m_waiters'[i] = m_waiters'[j] => i = j
        BY <2>1 DEF InPlace
      <3> QED
        BY <3>1, <3>2, <3>3, <3>4 DEF InPlace
    <2>11. Listed' /\ Polled'
      BY <1>1, <2>1, <2>2, <2>4, Hands DEF Listed, Polled
    <2>12. EarlyServer'
      BY <1>1, <2>1, <2>2, <2>4, ServersStay
    <2> QED
      BY <2>5, <2>6, <2>7, <2>8, <2>9, <2>10, <2>11, <2>12
  <1> QED
    BY <1>2, <1>3

\* The running fiber ends, yields, or suspends itself.
LEMMA SuspendStep ==
    ASSUME IInv, NEW t \in Threads, Finish(t) \/ YieldToReady(t) \/ WaitEvent(t) \/ Sleep(t) \/ wait(t)
    PROVE  IInv'
  <1> USE DEF IInv
  <1> DEFINE k == th[t].task
  <1>1. /\ th[t].at = "run" /\ k \in Tasks /\ task[k].at = "running"
        /\ \A u \in Threads : th[u].at \in Holding /\ th[u].task = k => u = t
        /\ UNCHANGED <<ownVars, m_fibers, m_activeThreadCount, m_concurrency, granted, notified>>
    BY DEF Finish, YieldToReady, WaitEvent, Sleep, wait, OneRunner, Holding
  <1>2. PICK a \in {"settle", "again"} : /\ Moves(t, a, th[t].ended)
                                         /\ a = "again" <=> YieldToReady(t)
    BY GotoMoves DEF Finish, YieldToReady, WaitEvent, Sleep, wait, Places
  <1>3. PICK what \in {"done", "running", "event", "timer", "sem"} :
           /\ task' \in [Tasks -> TaskState]
           /\ \A x \in Tasks : x # k => task'[x] = task[x]
           /\ task'[k].at = what /\ (what # "done" => task'[k].early = ~ m_stopping)
           /\ what = "running" <=> a = "again"
           /\ m_timers' = IF what = "timer" THEN m_timers \cup {k} ELSE m_timers
           /\ m_waiters' = IF what = "sem" THEN Append(m_waiters, k) ELSE m_waiters
           /\ m_pendingEventCount' = IF what = "event" THEN m_pendingEventCount + 1 ELSE m_pendingEventCount
           /\ what = "sem" => m_concurrency = 0
    <2>1. CASE Finish(t)
      <3>1. task[k] \in TaskState
        BY <1>1 DEF TypeOK
      <3>2. [task[k] EXCEPT !.at = "done"] \in TaskState
        BY <3>1 DEF TaskState
      <3>3. task' = [task EXCEPT ![k] = [task[k] EXCEPT !.at = "done"]]
        BY <1>1, <2>1 DEF Finish, TypeOK
      <3>4. task' \in [Tasks -> TaskState] /\ task'[k].at = "done" /\ \A x \in Tasks : x # k => task'[x] = task[x]
        BY <1>1, <3>1, <3>2, <3>3 DEF TypeOK, TaskState
      <3>5. a # "again"
        BY <1>2, <2>1, GotoMoves DEF Moves, Finish, Places
      <3> QED
        BY <2>1, <3>4, <3>5 DEF Finish
    <2>2. CASE YieldToReady(t)
      BY <1>1, <1>2, <2>2, SuspendedTask DEF YieldToReady
    <2>3. CASE WaitEvent(t)
      <3>1. a # "again"
        BY <1>2, <2>3, GotoMoves DEF Moves, WaitEvent, Places
      <3> QED
        BY <1>1, <2>3, <3>1, SuspendedTask DEF WaitEvent
    <2>4. CASE Sleep(t)
      <3>1. a # "again"
        BY <1>2, <2>4, GotoMoves DEF Moves, Sleep, Places
      <3> QED
        BY <1>1, <2>4, <3>1, SuspendedTask DEF Sleep
    <2>5. CASE wait(t)
      <3>1. a # "again"
        BY <1>2, <2>5, GotoMoves DEF Moves, wait, Places
      <3> QED
        BY <1>1, <2>5, <3>1, SuspendedTask DEF wait
    <2> QED
      BY <2>1, <2>2, <2>3, <2>4, <2>5
  <1>4. CountsExact' /\ m_pendingEventCount' \in Nat
    <2>1. Busy' = Busy /\ Counting' = Counting
      BY <1>1, <1>2 DEF Moves, Busy, Counting
    <2>2. CASE what = "event"
      <3>1. Waiting' = Waiting \cup {k} /\ k \notin Waiting
        BY <1>1, <1>3, <2>2 DEF Waiting
      <3> QED
        BY <1>1, <1>3, <2>1, <2>2, <3>1, FiniteCounts, OneMore DEF CountsExact
    <2>3. CASE what # "event"
      <3>1. Waiting' = Waiting
        BY <1>1, <1>3, <2>3 DEF Waiting
      <3> QED
        BY <1>1, <1>3, <2>1, <2>3, <3>1 DEF CountsExact, TypeOK
    <2> QED
      BY <2>2, <2>3
  <1>5. m_waiters' \in Seq(Tasks) /\ m_timers' \subseteq Tasks
    BY <1>1, <1>3 DEF TypeOK
  <1>6. TypeOK'
    BY <1>1, <1>2, <1>3, <1>4, <1>5 DEF TypeOK, Moves
  <1>7. IdBeforePost' /\ PermitsKept' /\ EndsLast'
    BY <1>1, <1>2, <1>3 DEF Moves, IdBeforePost, PermitsKept, EndsLast
  <1>8. OneRunner'
    BY <1>1, <1>2, <1>3 DEF Moves, OneRunner, Holding
  <1>9. InPlace'
    <2>1. (\A x \in m_fibers' : task'[x].at = "queued") /\ (\A x \in m_timers' : task'[x].at = "timer")
      BY <1>1, <1>3 DEF InPlace, TypeOK
    <2>2. \A i \in 1..Len(m_waiters) : m_waiters[i] \in Tasks /\ m_waiters[i] # k
      BY <1>1 DEF InPlace, TypeOK
    <2>3. CASE what = "sem"
      <3>1. /\ Len(m_waiters') = Len(m_waiters) + 1 /\ m_waiters'[Len(m_waiters) + 1] = k
            /\ \A i \in 1..Len(m_waiters) : m_waiters'[i] = m_waiters[i]
            /\ Len(m_waiters) \in Nat
        BY <1>1, <1>3, <2>3 DEF TypeOK
      <3>2. \A i \in 1..Len(m_waiters') : i \in 1..Len(m_waiters) \/ i = Len(m_waiters) + 1
        BY <3>1
      <3>3. \A i \in 1..Len(m_waiters') : task'[m_waiters'[i]].at = "sem"
        BY <1>3, <2>2, <2>3, <3>1, <3>2 DEF InPlace
      <3>4. \A i, j \in 1..Len(m_waiters') : m_waiters'[i] = m_waiters'[j] => i = j
        BY <2>2, <3>1, <3>2 DEF InPlace
      <3> QED
        BY <2>1, <3>3, <3>4 DEF InPlace
    <2>4. CASE what # "sem"
      BY <1>3, <2>1, <2>2, <2>4 DEF InPlace
    <2> QED
      BY <2>3, <2>4
  <1>10. Listed' /\ Polled'
    BY <1>1, <1>2, <1>3, Hands DEF Moves, Listed, Polled
  <1>11. EarlyServer'
    <2>1. what \in {"timer", "event"} /\ ~ m_stopping => WillServe(t, k)'
      BY <1>1, <1>2, <1>3 DEF Moves, WillServe, Server, EndsLast
    <2> QED
      BY <1>1, <1>2, <1>3, <2>1, ServersStay DEF Moves
  <1> QED
    BY <1>4, <1>6, <1>7, <1>8, <1>9, <1>10, <1>11

\* epoll_wait() returns and the timers that are due are listed.
LEMMA PollStep ==
    ASSUME IInv, NEW t \in Threads, PollSome(t)
    PROVE  IInv'
  <1> USE DEF IInv
  <1>1. PICK E \in SUBSET Tasks, C \in SUBSET m_timers : Poll(t, E, C)
    BY DEF PollSome
  <1>2. /\ th[t].at = "poll" /\ ~ th[t].ended /\ C \subseteq Tasks
        /\ \A k \in E : task[k].at = "event" /\ \A u \in Threads : k \notin th[u].evs
        /\ m_timers' = m_timers \ C
        /\ UNCHANGED <<ownVars, task, m_fibers, m_activeThreadCount, m_pendingEventCount, semVars>>
    BY <1>1 DEF Poll, InHands, EndsLast, TypeOK
  <1>3. /\ th' \in [Threads -> ThreadState]
        /\ \A u \in Threads : /\ u # t => th'[u] = th[u]
                              /\ th'[u].ended = th[u].ended /\ th'[u].task = th[u].task
        /\ th'[t].at = "list" /\ th'[t].cbs = C /\ th'[t].evs = E
    <2>0. th[t] \in ThreadState
      BY DEF TypeOK
    <2>1. [th[t] EXCEPT !.at = "list", !.cbs = C, !.evs = E] \in ThreadState
      BY <1>2, <2>0 DEF ThreadState
    <2>2. th' = [th EXCEPT ![t] = [th[t] EXCEPT !.at = "list", !.cbs = C, !.evs = E]]
      BY <1>1 DEF Poll, TypeOK
    <2> QED
      BY <2>0, <2>1, <2>2 DEF TypeOK, ThreadState
  <1>4. CountsExact'
    <2>1. Busy' = Busy /\ Waiting' = Waiting /\ Counting' = Counting
      BY <1>2, <1>3 DEF Busy, Waiting, Counting
    <2> QED
      BY <1>2, <2>1 DEF CountsExact
  <1>5. TypeOK'
    BY <1>2, <1>3 DEF TypeOK
  <1>6. IdBeforePost' /\ PermitsKept' /\ EndsLast'
    BY <1>2, <1>3 DEF IdBeforePost, PermitsKept, EndsLast
  <1>7. OneRunner' /\ InPlace'
    BY <1>2, <1>3 DEF OneRunner, Holding, InPlace
  <1>8. Listed'
    BY <1>2, <1>3 DEF Listed, InPlace
  <1>9. Polled'
    BY <1>2, <1>3 DEF Polled
  <1>10. EarlyServer'
    <2> SUFFICES ASSUME NEW k \in Tasks, task[k].at \in {"timer", "event"}, task[k].early
                 PROVE  \E u \in Threads : WillServe(u, k)'
      BY <1>2 DEF EarlyServer, Outstanding
    <2>1. PICK u \in Threads : WillServe(u, k)
      BY DEF EarlyServer, Outstanding
    <2>2. CASE k \in C
      BY <1>2, <1>3, <2>2 DEF WillServe, Server
    <2>3. CASE k \notin C
      <3>1. th[t].cbs = {}
        BY <1>2, Hands
      <3>2. WillServe(u, k)'
        BY <1>2, <1>3, <2>1, <2>3, <3>1 DEF WillServe, Server
      <3> QED
        BY <3>2
    <2> QED
      BY <2>2, <2>3
  <1> QED
    BY <1>4, <1>5, <1>6, <1>7, <1>8, <1>9, <1>10

\* The fibers of the timers listed are scheduled.
LEMMA DeliverStep ==
    ASSUME IInv, NEW t \in Threads, Deliver(t)
    PROVE  IInv'
  <1> USE DEF IInv
  <1> DEFINE C == th[t].cbs
  <1>1. /\ th[t].at = "list" /\ Scheduled(C) /\ C \subseteq Tasks
        /\ \A k \in C : task[k].at = "timer" /\ k \notin m_timers /\ \A u \in Threads : u # t => k \notin th[u].cbs
        /\ UNCHANGED <<ownVars, m_activeThreadCount, m_timers, m_pendingEventCount, semVars>>
    BY Hands DEF Deliver, Listed
  <1>2. /\ th' \in [Threads -> ThreadState]
        /\ \A u \in Threads : /\ u # t => th'[u] = th[u]
                              /\ th'[u].ended = th[u].ended /\ th'[u].task = th[u].task /\ th'[u].evs = th[u].evs
        /\ th'[t].at = "events" /\ th'[t].cbs = {}
    <2>0. th[t] \in ThreadState
      BY DEF TypeOK
    <2>1. [th[t] EXCEPT !.at = "events", !.cbs = {}] \in ThreadState
      BY <2>0 DEF ThreadState
    <2>2. th' = [th EXCEPT ![t] = [th[t] EXCEPT !.at = "events", !.cbs = {}]]
      BY DEF Deliver, TypeOK
    <2> QED
      BY <2>0, <2>1, <2>2 DEF TypeOK, ThreadState
  <1>3. /\ task' \in [Tasks -> TaskState] /\ m_fibers' = m_fibers \cup C /\ m_fibers' \subseteq Tasks
        /\ \A k \in Tasks : k \notin C => task'[k] = task[k]
        /\ \A k \in C : task'[k].at = "queued"
    BY <1>1, ScheduledTasks
  <1>4. CountsExact'
    <2>1. Busy' = Busy /\ Waiting' = Waiting /\ Counting' = Counting
      BY <1>1, <1>2, <1>3 DEF Busy, Waiting, Counting
    <2> QED
      BY <1>1, <2>1 DEF CountsExact
  <1>5. TypeOK'
    BY <1>1, <1>2, <1>3 DEF TypeOK
  <1>6. IdBeforePost' /\ PermitsKept' /\ EndsLast'
    BY <1>1, <1>2 DEF IdBeforePost, PermitsKept, EndsLast
  <1>7. OneRunner'
    BY <1>1, <1>2, <1>3 DEF OneRunner, Holding
  <1>8. InPlace'
    <2>1. \A i \in 1..Len(m_waiters) : m_waiters[i] \in Tasks
      BY DEF TypeOK
    <2>2. m_fibers \subseteq Tasks /\ m_timers \subseteq Tasks
      BY DEF TypeOK
    <2> QED
      BY <1>1, <1>3, <2>1, <2>2 DEF InPlace
  <1>9. Listed' /\ Polled'
    BY <1>1, <1>2, <1>3, Hands DEF Listed, Polled
  <1>10. EarlyServer'
    BY <1>1, <1>2, <1>3, ServersStay
  <1> QED
    BY <1>4, <1>5, <1>6, <1>7, <1>8, <1>9, <1>10

\* The fiber of one event is scheduled.
LEMMA TriggerStep ==
    ASSUME IInv, NEW t \in Threads, Trigger(t)
    PROVE  IInv'
  <1> USE DEF IInv
  <1>1. PICK k \in th[t].evs :
           /\ th[t].at = "events" /\ Scheduled({k})
           /\ th' = [th EXCEPT ![t].at = "count", ![t].evs = @ \ {k}]
           /\ UNCHANGED <<ownVars, m_activeThreadCount, m_timers, m_pendingEventCount, semVars>>
    BY DEF Trigger
  <1>2. k \in Tasks /\ task[k].at = "event"
    BY Hands DEF Polled
  <1>3. /\ th' \in [Threads -> ThreadState]
        /\ \A u \in Threads : /\ u # t => th'[u] = th[u]
                              /\ th'[u].ended = th[u].ended /\ th'[u].task = th[u].task /\ th'[u].cbs = th[u].cbs
        /\ th'[t].at = "count" /\ th'[t].evs = th[t].evs \ {k}
    <2>0. th[t] \in ThreadState
      BY DEF TypeOK
    <2>1. [th[t] EXCEPT !.at = "count", !.evs = th[t].evs \ {k}] \in ThreadState
      BY <2>0 DEF ThreadState
    <2>2. th' = [th EXCEPT ![t] = [th[t] EXCEPT !.at = "count", !.evs = th[t].evs \ {k}]]
      BY <1>1 DEF TypeOK
    <2> QED
      BY <2>0, <2>1, <2>2 DEF TypeOK, ThreadState
  <1>4. /\ task' \in [Tasks -> TaskState] /\ m_fibers' \subseteq Tasks /\ m_fibers' = m_fibers \cup {k}
        /\ task'[k].at = "queued" /\ \A x \in Tasks : x # k => task'[x] = task[x]
    BY <1>1, <1>2, ScheduledTasks
  <1>5. CountsExact'
    <2>1. Busy' = Busy
      BY <1>1, <1>3 DEF Busy
    <2>2. Waiting' = Waiting \ {k} /\ k \in Waiting
      BY <1>2, <1>4 DEF Waiting
    <2>3. Counting' = Counting \cup {t} /\ t \notin Counting
      BY <1>1, <1>3 DEF Counting
    <2> QED
      BY <1>1, <2>1, <2>2, <2>3, FiniteCounts, OneMore DEF CountsExact
  <1>6. TypeOK'
    BY <1>1, <1>3, <1>4 DEF TypeOK
  <1>7. IdBeforePost' /\ PermitsKept' /\ EndsLast'
    BY <1>1, <1>3 DEF IdBeforePost, PermitsKept, EndsLast
  <1>8. OneRunner'
    BY <1>1, <1>2, <1>3, <1>4 DEF OneRunner, Holding
  <1>9. InPlace'
    <2>1. \A i \in 1..Len(m_waiters) : m_waiters[i] \in Tasks
      BY DEF TypeOK
    <2>2. m_fibers \subseteq Tasks /\ m_timers \subseteq Tasks
      BY DEF TypeOK
    <2> QED
      BY <1>1, <1>2, <1>4, <2>1, <2>2 DEF InPlace
  <1>10. Listed'
    BY <1>1, <1>2, <1>3, <1>4, Hands DEF Listed
  <1>11. Polled'
    BY <1>1, <1>2, <1>3, <1>4, Hands DEF Polled
  <1>12. EarlyServer'
    BY <1>1, <1>2, <1>3, <1>4, ServersStay
  <1> QED
    BY <1>5, <1>6, <1>7, <1>8, <1>9, <1>10, <1>11, <1>12

\* The event is counted off.
LEMMA UncountStep ==
    ASSUME IInv, NEW t \in Threads, Uncount(t)
    PROVE  IInv'
  <1> USE DEF IInv
  <1>1. /\ th[t].at = "count" /\ m_pendingEventCount' = m_pendingEventCount - 1
        /\ UNCHANGED <<ownVars, task, m_fibers, m_activeThreadCount, m_timers, semVars>>
    BY DEF Uncount, Count
  <1>2. Moves(t, "events", th[t].ended)
    BY GotoMoves DEF Uncount, Places
  <1>3. CountsExact' /\ m_pendingEventCount' \in Nat
    <2>1. Busy' = Busy /\ Waiting' = Waiting
      BY <1>1, <1>2 DEF Moves, Busy, Waiting
    <2>2. Counting' = Counting \ {t} /\ t \in Counting
      BY <1>1, <1>2 DEF Moves, Counting
    <2>3. Cardinality(Counting \ {t}) \in Nat
      BY FiniteCounts, FS_RemoveElement, FS_CardinalityType
    <2> QED
      BY <1>1, <2>1, <2>2, <2>3, FiniteCounts, OneMore DEF CountsExact
  <1>4. TypeOK'
    BY <1>1, <1>2, <1>3 DEF TypeOK, Moves
  <1>5. IdBeforePost' /\ PermitsKept' /\ EndsLast' /\ InPlace'
    BY <1>1, <1>2 DEF Moves, IdBeforePost, PermitsKept, EndsLast, InPlace
  <1>6. OneRunner'
    BY <1>1, <1>2 DEF Moves, OneRunner, Holding
  <1>7. Listed' /\ Polled'
    BY <1>1, <1>2, Hands DEF Moves, Listed, Polled
  <1>8. EarlyServer'
    BY <1>1, <1>2, ServersStay DEF Moves
  <1> QED
    BY <1>3, <1>4, <1>5, <1>6, <1>7, <1>8

-----------------------------------------------------------------------------
\* The invariant is inductive.
LEMMA ReactorStep ==
    ASSUME IInv, [Next]_vars
    PROVE  IInv'
  <1>1. CASE UNCHANGED vars
    BY <1>1 DEF IInv, TypeOK, IdBeforePost, OneRunner, InPlace, Listed, Polled, CountsExact, Busy, Waiting, Counting,
       EndsLast, PermitsKept, EarlyServer, Outstanding, WillServe, Server
  <1>2. CASE OwnerStep
    BY <1>2, OwnerKeeps, BootStep DEF OwnerStep
  <1>3. ASSUME NEW k \in Tasks, Submit(k) PROVE IInv'
    BY <1>3, SubmitStep
  <1>4. ASSUME NEW t \in Threads, UserStep(t) PROVE IInv'
    BY <1>4, SuspendStep, TryWaitStep, NotifyStep DEF UserStep
  <1>5. ASSUME NEW t \in Threads, ThreadStep(t) PROVE IInv'
    BY <1>5, BootStep, TakeStep, MoveStep, SettleStep, SuspendStep, PollStep, DeliverStep, TriggerStep, UncountStep
       DEF ThreadStep
  <1> QED
    BY <1>1, <1>2, <1>3, <1>4, <1>5 DEF Next, Over

\* The inductive invariant holds throughout.
LEMMA ReactorInv == Spec => []IInv
  BY ReactorInit, ReactorStep, PTL DEF Spec

\* Type correctness: what start() reads of a thread that it waited for is an id,
\* m_activeThreadCount counts no more threads than there are, and neither count
\* that stopping() reads falls below zero.
THEOREM ReactorTypeCorrect == Spec => []TypeOK
  BY ReactorInv, PTL DEF IInv

\* The two counts that stopping() reads are exact: m_activeThreadCount is the
\* number of threads with a fiber in their hands, m_pendingEventCount that of the
\* fibers waiting for an event and of the threads yet to count one off.
THEOREM ReactorCounts == Spec => []CountsExact
  BY ReactorInv, PTL DEF IInv

\* FiberSemaphore loses no permit and grants none twice, and no fiber waits for
\* one that is there, for any number of fibers, waits and notifications.
THEOREM ReactorPermits == Spec => []PermitsKept
  BY ReactorInv, PTL DEF IInv

\* A fiber that began to wait for a timer or an event before stop() has a thread
\* that has not left: however many threads ask stopping() at the same time, the
\* last of them does not leave on reads that are out of date.
THEOREM ReactorEarlyWaits == Spec => []EarlyWaitsServed
  <1>1. IInv => EarlyWaitsServed
    BY DEF IInv, EarlyServer, EarlyWaitsServed, WillServe
  <1> QED
    BY <1>1, ReactorInv, PTL

=============================================================================
