----------------------------- MODULE Scheduler -----------------------------
(***************************************************************************)
(* The N:M coroutine scheduler of sylar (scheduler.h, scheduler.cpp) with  *)
(* the coroutine life cycle of fiber.cpp it drives.                        *)
(*                                                                         *)
(* A pool of threads shares one list m_fibers of fibers and callbacks.     *)
(* Each thread runs run(): it takes the first entry it may execute under   *)
(* m_mutex, swaps into it, and decides what becomes of it when it swaps    *)
(* back.  The thread that owns the scheduler, Main, may be a member of the *)
(* pool (use_caller): it then runs run() inside stop().                    *)
(*                                                                         *)
(* User code is any sequence of calls a fiber may make: schedule a new     *)
(* callback or fiber, hand its own Fiber::ptr to a waker (Arm: what        *)
(* FiberSemaphore::wait, IOManager::addEvent and a timer callback do),     *)
(* have a waker schedule another fiber (Fire), yield, return or throw.     *)
(* Contract assumed of user code: a fiber has at most one outstanding      *)
(* resume path, it suspends with YieldToHold only when it has one and with *)
(* YieldToReady only when it has none, and a callback run on a thread's    *)
(* pooled cb_fiber does not return while it still has one.                 *)
(***************************************************************************)
EXTENDS Integers, Sequences, FiniteSets

CONSTANTS
    Workers,    \* the threads start() creates
    Main,       \* the thread that constructs, starts and stops the scheduler
    UseCaller,  \* the constructor's use_caller
    Cbs,        \* the callbacks (std::function bodies) that can be submitted
    Fibers,     \* the Fiber objects that can be allocated
    Affine,     \* the threads that schedule(fc, thread) may name
    AnyThread,  \* thread = -1
    NoFiber,    \* a null Fiber::ptr
    NoCb,       \* an empty std::function
    MaxYield    \* bound: how many times, in all, user code arms or yields READY

\* The threads that may execute run().
Threads == Workers \cup (IF UseCaller THEN {Main} ELSE {})

ASSUME ThreadAssumption ==
    /\ UseCaller \in BOOLEAN
    /\ Main \notin Workers
    /\ Threads # {}
    /\ IsFiniteSet(Workers)
    /\ Affine \subseteq Threads
    /\ AnyThread \notin Threads

ASSUME ObjectAssumption ==
    /\ NoFiber \notin Fibers
    /\ NoCb \notin Cbs
    /\ MaxYield \in Nat

VARIABLES
    m_fibers,             \* the list of FiberAndThread entries
    st,                   \* Fiber::m_state of every fiber ("NONE": not allocated)
    body,                 \* Fiber::m_cb
    armed,                \* the fibers whose Fiber::ptr a waker holds
    pc,                   \* where each thread is in run()
    ft,                   \* run()'s local FiberAndThread
    cb_fiber,             \* run()'s local pooled fiber
    idleTerm,             \* the thread's idle fiber has state TERM
    m_activeThreadCount,
    m_idleThreadCount,
    m_stopping,
    m_autoStop,
    mpc,                  \* where Main is: constructing, started, in stop()
    submitted,            \* the callbacks handed to the scheduler so far
    yields                \* arms and READY-yields so far, at most MaxYield

queueVars  == <<m_fibers, submitted>>
fiberVars  == <<st, body, armed>>
threadVars == <<pc, ft, cb_fiber, idleTerm>>
countVars  == <<m_activeThreadCount, m_idleThreadCount>>
flagVars   == <<m_stopping, m_autoStop, mpc>>
vars == <<queueVars, fiberVars, threadVars, countVars, flagVars, yields>>

State == {"NONE", "INIT", "HOLD", "EXEC", "TERM", "READY", "EXCEPT"}
Ended == {"TERM", "EXCEPT"}

\* The states Fiber::reset and ~Fiber accept.
Quiet == {"TERM", "EXCEPT", "INIT"}

FiberAndThread ==
    [fiber: Fibers \cup {NoFiber}, cb: Cbs \cup {NoCb}, thread: Threads \cup {AnyThread}]
FiberEntry(f, k) == [fiber |-> f, cb |-> NoCb, thread |-> k]
CbEntry(c, k)    == [fiber |-> NoFiber, cb |-> c, thread |-> k]

\* Mutant: the thread of an empty FiberAndThread is not set to -1.
NoEntryZero == [fiber |-> NoFiber, cb |-> NoCb, thread |-> 0]

NoEntry == [fiber |-> NoFiber, cb |-> NoCb, thread |-> AnyThread]

Targets == Affine \cup {AnyThread}

-----------------------------------------------------------------------------
(* Derived state *)

\* The fiber a thread has swapped into, or is about to swap back from: the
\* entry's fiber, or the pooled fiber when the entry was a callback.
Cur(t) == IF ft[t].fiber # NoFiber THEN ft[t].fiber ELSE cb_fiber[t]

\* run() has counted the entry it took into m_activeThreadCount.
Counted(t) == pc[t] \in {"dispatch", "user", "leaving", "dec"}

\* The entry run() holds is not disposed of yet.
Holding(t) == Counted(t) \/ pc[t] = "settle"

\* run() is past swapIn() and has not disposed of the fiber yet.
InFiber(t) == pc[t] \in {"user", "leaving", "dec", "settle"}

QueuedFibers == {m_fibers[i].fiber : i \in DOMAIN m_fibers}
Queued(f) == f \in QueuedFibers

\* Scheduler::stopping()
Stopping ==
    /\ m_autoStop /\ m_stopping
    /\ m_fibers = <<>> /\ m_activeThreadCount = 0

\* SYLAR_ASSERT calls assert(): the process dies.
Alive == mpc # "aborted"
Abort ==
    /\ mpc' = "aborted"
    /\ UNCHANGED <<queueVars, fiberVars, threadVars, countVars, m_stopping, m_autoStop, yields>>

-----------------------------------------------------------------------------
Init ==
    /\ m_fibers = <<>>
    /\ st = [f \in Fibers |-> "NONE"]
    /\ body = [f \in Fibers |-> NoCb]
    /\ armed = {}
    /\ pc = [t \in Threads |-> "out"]
    /\ ft = [t \in Threads |-> NoEntry]
    /\ cb_fiber = [t \in Threads |-> NoFiber]
    /\ idleTerm = [t \in Threads |-> FALSE]
    /\ m_activeThreadCount = 0
    /\ m_idleThreadCount = 0
    /\ m_stopping = TRUE
    /\ m_autoStop = FALSE
    /\ mpc = "init"
    /\ submitted = {}
    /\ yields = 0

(***************************************************************************)
(* schedule(): one push_back under m_mutex.                                *)
(***************************************************************************)
schedule(e) == m_fibers' = Append(m_fibers, e)

\* schedule(cb, thread)
SubmitCb(c, k) ==
    /\ c \notin submitted
    /\ submitted' = submitted \cup {c}
    /\ schedule(CbEntry(c, k))
    /\ UNCHANGED fiberVars

\* schedule(Fiber::ptr(new Fiber(cb)), thread)
SubmitFiber(c, f, k) ==
    /\ c \notin submitted
    /\ st[f] = "NONE"
    /\ submitted' = submitted \cup {c}
    /\ st' = [st EXCEPT ![f] = "INIT"]
    /\ body' = [body EXCEPT ![f] = c]
    /\ schedule(FiberEntry(f, k))
    /\ UNCHANGED armed

\* A waker gives up the Fiber::ptr it holds: scheduler->schedule(fiber, thread).
Fire(g, k) ==
    /\ g \in armed
    /\ armed' = armed \ {g}
    /\ schedule(FiberEntry(g, k))
    /\ UNCHANGED <<st, body, submitted>>

\* The calls any code that knows the scheduler can make.
Calls ==
    \E k \in Targets :
        \/ \E c \in Cbs : SubmitCb(c, k)
        \/ \E c \in Cbs, f \in Fibers : SubmitFiber(c, f, k)
        \/ \E g \in Fibers : Fire(g, k)

-----------------------------------------------------------------------------
(***************************************************************************)
(* The owner's thread                                                      *)
(***************************************************************************)
MainCalls ==
    /\ mpc \in {"init", "open"}
    /\ Calls
    /\ UNCHANGED <<threadVars, countVars, flagVars, yields>>

\* start() holds m_mutex while it creates the threads, so that none of them
\* gets past its first scan before start() is over.
start ==
    /\ mpc = "init"
    /\ m_stopping
    /\ m_stopping' = FALSE
    /\ pc' = [t \in Threads |-> IF t \in Workers THEN "scan" ELSE pc[t]]
    /\ mpc' = "open"
    /\ UNCHANGED <<queueVars, fiberVars, ft, cb_fiber, idleTerm, countVars, m_autoStop, yields>>

\* stop(), first part.  With no created threads the root fiber is still in
\* INIT, and stop() returns at once when there is nothing to do.
StopBegin ==
    /\ mpc = "open"
    /\ m_autoStop' = TRUE
    /\ mpc' = IF UseCaller /\ Workers = {} THEN "early" ELSE "setstop"
    /\ UNCHANGED <<queueVars, fiberVars, threadVars, countVars, m_stopping, yields>>

\* Mutant: stop() returns without asking stopping().
StopEarlyReturns ==
    /\ mpc = "early"
    /\ m_stopping' = TRUE
    /\ mpc' = "done"
    /\ UNCHANGED <<queueVars, fiberVars, threadVars, countVars, m_autoStop, yields>>

StopEarly ==
    /\ mpc = "early"
    /\ m_stopping' = TRUE
    /\ UNCHANGED <<queueVars, fiberVars, threadVars, countVars, m_autoStop, yields>>
    /\ mpc' = IF Stopping' THEN "done" ELSE "setstop"

StopFlag ==
    /\ mpc = "setstop"
    /\ m_stopping' = TRUE
    /\ mpc' = IF UseCaller THEN "rootcheck" ELSE "join"
    /\ UNCHANGED <<queueVars, fiberVars, threadVars, countVars, m_autoStop, yields>>

\* Mutant: the root fiber is not called.
StopRootSkips ==
    /\ mpc = "rootcheck"
    /\ mpc' = "join"
    /\ UNCHANGED <<queueVars, fiberVars, threadVars, countVars, m_stopping, m_autoStop, yields>>

\* if(!stopping()) m_rootFiber->call();
StopRoot ==
    /\ mpc = "rootcheck"
    /\ IF Stopping
       THEN mpc' = "join" /\ UNCHANGED pc
       ELSE mpc' = "root" /\ pc' = [pc EXCEPT ![Main] = "scan"]
    /\ UNCHANGED <<queueVars, fiberVars, ft, cb_fiber, idleTerm, countVars,
                   m_stopping, m_autoStop, yields>>

\* CallerMainFunc ends and back() returns into stop().
StopRootDone ==
    /\ mpc = "root"
    /\ pc[Main] = "exit"
    /\ mpc' = "join"
    /\ UNCHANGED <<queueVars, fiberVars, threadVars, countVars, m_stopping, m_autoStop, yields>>

\* Mutant: stop() does not wait for its threads.
StopJoinNoWait ==
    /\ mpc = "join"
    /\ mpc' = "done"
    /\ UNCHANGED <<queueVars, fiberVars, threadVars, countVars, m_stopping, m_autoStop, yields>>

StopJoin ==
    /\ mpc = "join"
    /\ \A w \in Workers : pc[w] = "exit"
    /\ mpc' = "done"
    /\ UNCHANGED <<queueVars, fiberVars, threadVars, countVars, m_stopping, m_autoStop, yields>>

-----------------------------------------------------------------------------
(***************************************************************************)
(* run(): one iteration of a pool thread                                   *)
(***************************************************************************)

\* Mutant: the scan also takes a fiber that is still in EXEC.
EligibleRunning(t, e) == e.thread \in {AnyThread, t}

\* The scan skips entries meant for another thread and fibers still in EXEC.
Eligible(t, e) ==
    /\ e.thread \in {AnyThread, t}
    /\ e.fiber # NoFiber => st[e.fiber] # "EXEC"

Candidates(t) == {i \in DOMAIN m_fibers : Eligible(t, m_fibers[i])}
IsFirst(i, S) == i \in S /\ \A j \in S : i <= j

Erase(s, i) == SubSeq(s, 1, i - 1) \o SubSeq(s, i + 1, Len(s))

\* The critical section of run() when it finds an entry.
Take(t) ==
    /\ pc[t] = "scan"
    /\ \E i \in DOMAIN m_fibers :
          /\ IsFirst(i, Candidates(t))
          /\ ft' = [ft EXCEPT ![t] = m_fibers[i]]
          /\ m_fibers' = Erase(m_fibers, i)
    /\ m_activeThreadCount' = m_activeThreadCount + 1
    /\ pc' = [pc EXCEPT ![t] = "dispatch"]
    /\ UNCHANGED <<fiberVars, cb_fiber, idleTerm, m_idleThreadCount, flagVars, submitted, yields>>

\* The critical section finds nothing, and the idle fiber is not over.
GoIdle(t) ==
    /\ pc[t] = "scan"
    /\ Candidates(t) = {}
    /\ ~ idleTerm[t]
    /\ m_idleThreadCount' = m_idleThreadCount + 1
    /\ pc' = [pc EXCEPT ![t] = "idle"]
    /\ UNCHANGED <<queueVars, fiberVars, ft, cb_fiber, idleTerm, m_activeThreadCount, flagVars, yields>>

\* Mutant: run() returns when the idle fiber has ended, without another scan.
ExitUnscanned(t) ==
    /\ pc[t] = "scan"
    /\ idleTerm[t]
    /\ pc' = [pc EXCEPT ![t] = "exit"]
    /\ cb_fiber' = [cb_fiber EXCEPT ![t] = NoFiber]
    /\ UNCHANGED <<queueVars, fiberVars, ft, idleTerm, countVars, flagVars, yields>>

\* The critical section finds nothing, and the idle fiber has ended: run()
\* returns, which destroys the pooled fiber.
Exit(t) ==
    /\ pc[t] = "scan"
    /\ Candidates(t) = {}
    /\ idleTerm[t]
    /\ IF cb_fiber[t] = NoFiber \/ st[cb_fiber[t]] \in Quiet
       THEN /\ pc' = [pc EXCEPT ![t] = "exit"]
            /\ cb_fiber' = [cb_fiber EXCEPT ![t] = NoFiber]
            /\ UNCHANGED <<queueVars, fiberVars, ft, idleTerm, countVars, flagVars, yields>>
       ELSE Abort

\* Scheduler::idle(): one turn of its loop, and the swap back to run().
Idle(t) ==
    /\ pc[t] = "idle"
    /\ idleTerm' = [idleTerm EXCEPT ![t] = Stopping]
    /\ m_idleThreadCount' = m_idleThreadCount - 1
    /\ pc' = [pc EXCEPT ![t] = "scan"]
    /\ UNCHANGED <<queueVars, fiberVars, ft, cb_fiber, m_activeThreadCount, flagVars, yields>>

\* ft.fiber->swapIn()
SwapInFiber(t) ==
    /\ pc[t] = "dispatch"
    /\ ft[t].fiber # NoFiber
    /\ st[ft[t].fiber] \notin Ended
    /\ IF st[ft[t].fiber] # "EXEC"
       THEN /\ st' = [st EXCEPT ![ft[t].fiber] = "EXEC"]
            /\ pc' = [pc EXCEPT ![t] = "user"]
            /\ UNCHANGED <<queueVars, body, armed, ft, cb_fiber, idleTerm, countVars, flagVars, yields>>
       ELSE Abort

\* Mutant: the dropped entry stays counted.
DropEndedUncounted(t) ==
    /\ pc[t] = "dispatch"
    /\ ft[t].fiber # NoFiber
    /\ st[ft[t].fiber] \in Ended
    /\ ft' = [ft EXCEPT ![t] = NoEntry]
    /\ pc' = [pc EXCEPT ![t] = "scan"]
    /\ UNCHANGED <<queueVars, fiberVars, cb_fiber, idleTerm, countVars, flagVars, yields>>

\* The entry's fiber ended before its turn came: nothing is left to run.
DropEnded(t) ==
    /\ pc[t] = "dispatch"
    /\ ft[t].fiber # NoFiber
    /\ st[ft[t].fiber] \in Ended
    /\ m_activeThreadCount' = m_activeThreadCount - 1
    /\ ft' = [ft EXCEPT ![t] = NoEntry]
    /\ pc' = [pc EXCEPT ![t] = "scan"]
    /\ UNCHANGED <<queueVars, fiberVars, cb_fiber, idleTerm, m_idleThreadCount, flagVars, yields>>

\* cb_fiber->reset(ft.cb); ft.reset(); cb_fiber->swapIn()
ReuseCbFiber(t) ==
    /\ pc[t] = "dispatch"
    /\ ft[t].fiber = NoFiber
    /\ cb_fiber[t] # NoFiber
    /\ IF st[cb_fiber[t]] \in Quiet
       THEN /\ st' = [st EXCEPT ![cb_fiber[t]] = "EXEC"]
            /\ body' = [body EXCEPT ![cb_fiber[t]] = ft[t].cb]
            /\ ft' = [ft EXCEPT ![t] = NoEntry]
            /\ pc' = [pc EXCEPT ![t] = "user"]
            /\ UNCHANGED <<queueVars, armed, cb_fiber, idleTerm, countVars, flagVars, yields>>
       ELSE Abort

\* cb_fiber.reset(new Fiber(ft.cb)); ft.reset(); cb_fiber->swapIn()
NewCbFiber(t, f) ==
    /\ pc[t] = "dispatch"
    /\ ft[t].fiber = NoFiber
    /\ cb_fiber[t] = NoFiber
    /\ st[f] = "NONE"
    /\ cb_fiber' = [cb_fiber EXCEPT ![t] = f]
    /\ st' = [st EXCEPT ![f] = "EXEC"]
    /\ body' = [body EXCEPT ![f] = ft[t].cb]
    /\ ft' = [ft EXCEPT ![t] = NoEntry]
    /\ pc' = [pc EXCEPT ![t] = "user"]
    /\ UNCHANGED <<queueVars, armed, idleTerm, countVars, flagVars, yields>>

-----------------------------------------------------------------------------
(***************************************************************************)
(* User code on a fiber                                                    *)
(***************************************************************************)
UserCalls(t) ==
    /\ pc[t] = "user"
    /\ Calls
    /\ UNCHANGED <<threadVars, countVars, flagVars, yields>>

\* The running fiber hands its Fiber::ptr to a waker.
Arm(t) ==
    /\ pc[t] = "user"
    /\ yields < MaxYield
    /\ Cur(t) \notin armed
    /\ ~ Queued(Cur(t))
    /\ armed' = armed \cup {Cur(t)}
    /\ yields' = yields + 1
    /\ UNCHANGED <<queueVars, st, body, threadVars, countVars, flagVars>>

\* Mutant: the fiber is HOLD before its context is saved.
YieldToHoldEarly(t) ==
    /\ pc[t] = "user"
    /\ Cur(t) \in armed \/ Queued(Cur(t))
    /\ st' = [st EXCEPT ![Cur(t)] = "HOLD"]
    /\ pc' = [pc EXCEPT ![t] = "leaving"]
    /\ UNCHANGED <<queueVars, body, armed, ft, cb_fiber, idleTerm, countVars, flagVars, yields>>

\* Fiber::YieldToHold(): the state stays EXEC until run() has the thread back.
YieldToHold(t) ==
    /\ pc[t] = "user"
    /\ Cur(t) \in armed \/ Queued(Cur(t))
    /\ pc' = [pc EXCEPT ![t] = "leaving"]
    /\ UNCHANGED <<queueVars, fiberVars, ft, cb_fiber, idleTerm, countVars, flagVars, yields>>

\* Fiber::YieldToReady(): the state is READY before the context is saved.
YieldToReady(t) ==
    /\ pc[t] = "user"
    /\ yields < MaxYield
    /\ Cur(t) \notin armed
    /\ ~ Queued(Cur(t))
    /\ st' = [st EXCEPT ![Cur(t)] = "READY"]
    /\ pc' = [pc EXCEPT ![t] = "leaving"]
    /\ yields' = yields + 1
    /\ UNCHANGED <<queueVars, body, armed, ft, cb_fiber, idleTerm, countVars, flagVars>>

\* Fiber::MainFunc(): the callback returns, or throws (m_cb is kept then).
MayEnd(t) ==
    \/ ft[t].fiber # NoFiber
    \/ Cur(t) \notin armed /\ ~ Queued(Cur(t))

Return(t) ==
    /\ pc[t] = "user"
    /\ MayEnd(t)
    /\ body' = [body EXCEPT ![Cur(t)] = NoCb]
    /\ st' = [st EXCEPT ![Cur(t)] = "TERM"]
    /\ pc' = [pc EXCEPT ![t] = "leaving"]
    /\ UNCHANGED <<queueVars, armed, ft, cb_fiber, idleTerm, countVars, flagVars, yields>>

Throw(t) ==
    /\ pc[t] = "user"
    /\ MayEnd(t)
    /\ st' = [st EXCEPT ![Cur(t)] = "EXCEPT"]
    /\ pc' = [pc EXCEPT ![t] = "leaving"]
    /\ UNCHANGED <<queueVars, body, armed, ft, cb_fiber, idleTerm, countVars, flagVars, yields>>

\* Fiber::swapOut(): the context is saved and run() continues.
SwapOut(t) ==
    /\ pc[t] = "leaving"
    /\ pc' = [pc EXCEPT ![t] = "dec"]
    /\ UNCHANGED <<queueVars, fiberVars, ft, cb_fiber, idleTerm, countVars, flagVars, yields>>

-----------------------------------------------------------------------------
(***************************************************************************)
(* run() again, after the swap back                                        *)
(***************************************************************************)

\* --m_activeThreadCount, outside m_mutex and before the fiber is dealt with.
Decrement(t) ==
    /\ pc[t] = "dec"
    /\ m_activeThreadCount' = m_activeThreadCount - 1
    /\ pc' = [pc EXCEPT ![t] = "settle"]
    /\ UNCHANGED <<queueVars, fiberVars, ft, cb_fiber, idleTerm, m_idleThreadCount, flagVars, yields>>

\* run() lets go of the fiber: ft.reset(), or cb_fiber.reset().
Release(t) ==
    /\ pc' = [pc EXCEPT ![t] = "scan"]
    /\ ft' = [ft EXCEPT ![t] = NoEntry]
    /\ cb_fiber' = IF ft[t].fiber = NoFiber THEN [cb_fiber EXCEPT ![t] = NoFiber] ELSE cb_fiber

\* Mutant: a READY fiber is treated like one that waits.
SettleReadyDrops(t) ==
    /\ pc[t] = "settle"
    /\ st[Cur(t)] = "READY"
    /\ Release(t)
    /\ UNCHANGED <<queueVars, fiberVars, idleTerm, countVars, flagVars, yields>>

\* The fiber yielded READY: schedule(fiber), for any thread.
SettleReady(t) ==
    /\ pc[t] = "settle"
    /\ st[Cur(t)] = "READY"
    /\ schedule(FiberEntry(Cur(t), AnyThread))
    /\ Release(t)
    /\ UNCHANGED <<submitted, fiberVars, idleTerm, countVars, flagVars, yields>>

\* The fiber is over; a pooled one is kept and reset with a null callback.
SettleEnded(t) ==
    /\ pc[t] = "settle"
    /\ st[Cur(t)] \in Ended
    /\ IF ft[t].fiber = NoFiber
       THEN /\ st' = [st EXCEPT ![Cur(t)] = "INIT"]
            /\ body' = [body EXCEPT ![Cur(t)] = NoCb]
       ELSE UNCHANGED <<st, body>>
    /\ ft' = [ft EXCEPT ![t] = NoEntry]
    /\ pc' = [pc EXCEPT ![t] = "scan"]
    /\ UNCHANGED <<queueVars, armed, cb_fiber, idleTerm, countVars, flagVars, yields>>

\* The fiber yielded to wait: only now does it become HOLD.  (Its own stack
\* holds a Fiber::ptr to it: nothing destroys it, even if no waker is left.)
SettleHold(t) ==
    /\ pc[t] = "settle"
    /\ st[Cur(t)] \notin Ended \cup {"READY"}
    /\ st' = [st EXCEPT ![Cur(t)] = "HOLD"]
    /\ Release(t)
    /\ UNCHANGED <<queueVars, body, armed, idleTerm, countVars, flagVars, yields>>

-----------------------------------------------------------------------------
\* What a pool thread does by itself; the processor runs every thread.
ThreadStep(t) ==
    \/ Take(t) \/ GoIdle(t) \/ Exit(t) \/ Idle(t)
    \/ SwapInFiber(t) \/ DropEnded(t) \/ ReuseCbFiber(t)
    \/ \E f \in Fibers : NewCbFiber(t, f)
    \/ YieldToHold(t) \/ Return(t) \/ Throw(t) \/ SwapOut(t)
    \/ Decrement(t) \/ SettleReady(t) \/ SettleEnded(t) \/ SettleHold(t)

\* What user code may do and need not.
UserStep(t) == UserCalls(t) \/ Arm(t) \/ YieldToReady(t)

StopStep == StopEarly \/ StopFlag \/ StopRoot \/ StopRootDone \/ StopJoin

\* The process is over, or stop() has returned: nothing more happens.
Over ==
    /\ mpc \in {"done", "aborted"}
    /\ UNCHANGED vars

Next ==
    \/ Alive /\ (MainCalls \/ start \/ StopBegin \/ StopStep)
    \/ Alive /\ \E t \in Threads : ThreadStep(t) \/ UserStep(t)
    \/ Over

Spec == Init /\ [][Next]_vars

\* Main calls start() and stop(); the operating system runs every thread that
\* can run, and every callback comes to an end or suspends.
Fairness ==
    /\ WF_vars(Alive /\ (start \/ StopBegin \/ StopStep))
    /\ \A t \in Threads : WF_vars(Alive /\ ThreadStep(t))

FairSpec == Spec /\ Fairness

-----------------------------------------------------------------------------
(***************************************************************************)
(* Properties                                                              *)
(***************************************************************************)

\* Type correctness of the scheduler's and the fibers' state.
TypeOK ==
    /\ m_fibers \in Seq(FiberAndThread)
    /\ st \in [Fibers -> State]
    /\ body \in [Fibers -> Cbs \cup {NoCb}]
    /\ armed \subseteq Fibers
    /\ pc \in [Threads -> {"out", "scan", "idle", "dispatch", "user", "leaving",
                           "dec", "settle", "exit"}]
    /\ ft \in [Threads -> FiberAndThread]
    /\ cb_fiber \in [Threads -> Fibers \cup {NoFiber}]
    /\ idleTerm \in [Threads -> BOOLEAN]
    /\ m_activeThreadCount \in Int
    /\ m_idleThreadCount \in Int
    /\ m_stopping \in BOOLEAN
    /\ m_autoStop \in BOOLEAN
    /\ mpc \in {"init", "open", "early", "setstop", "rootcheck", "root", "join",
                "done", "aborted"}
    /\ submitted \subseteq Cbs
    /\ yields \in 0..MaxYield

\* No SYLAR_ASSERT of swapIn(), reset() or ~Fiber() (of cb_fiber, when run()
\* returns) fails: a fiber that is woken while it is still switching out is never
\* resumed by a second thread.
AssertionsHold == mpc # "aborted"

\* A fiber's stack is never in the hands of two threads: what run() does with
\* ft.fiber or cb_fiber after the swap back concerns a fiber no one else runs.
OneOwner ==
    \A t, u \in Threads : InFiber(t) /\ InFiber(u) /\ Cur(t) = Cur(u) => t = u

\* A suspended fiber has exactly one way to run again: its waker, one queue
\* entry, or the thread that has just taken that entry.  None is lost between
\* the swap back and the HOLD or the schedule() in run(), and none is doubled.
Entries(f) == {i \in DOMAIN m_fibers : m_fibers[i].fiber = f}
Takers(f)  == {t \in Threads : pc[t] = "dispatch" /\ ft[t].fiber = f}
OneResumePath ==
    \A f \in Fibers :
        st[f] \in {"HOLD", "READY"} /\ ~ (\E t \in Threads : InFiber(t) /\ Cur(t) = f)
        => Cardinality(Entries(f)) + Cardinality(Takers(f)) + (IF f \in armed THEN 1 ELSE 0) = 1

\* m_activeThreadCount is what stopping() takes it for: the number of threads
\* that hold an entry, and m_idleThreadCount the number inside idle().
CountsExact ==
    /\ m_activeThreadCount = Cardinality({t \in Threads : Counted(t)})
    /\ m_idleThreadCount = Cardinality({t \in Threads : pc[t] = "idle"})

\* A thread that can still come to the list, now or when stop() calls run().
Serving(t) == pc[t] \notin {"out", "exit"}
RootToCome ==
    \/ mpc = "init"
    \/ UseCaller /\ mpc \in {"open", "early", "setstop", "rootcheck"}

\* stop() strands no work: although a thread may leave run() while a READY fiber
\* is between --m_activeThreadCount and schedule(), an entry any thread may run
\* always has a thread left to run it.
WorkHasServer ==
    (\E i \in DOMAIN m_fibers : m_fibers[i].thread = AnyThread)
        => RootToCome \/ \E t \in Threads : Serving(t)

\* When stop() has returned, every fiber has left its thread and the list holds
\* no entry any thread could have run.
StopDrains ==
    mpc = "done" =>
        /\ \A i \in DOMAIN m_fibers : m_fibers[i].thread # AnyThread
        /\ \A f \in Fibers : st[f] # "EXEC"

-----------------------------------------------------------------------------
(***************************************************************************)
(* The scheduler implements the task pool of module TaskPool.  The status  *)
(* of a callback is read off the list, the entries in the threads' hands   *)
(* and the state of the fiber that carries it.                             *)
(***************************************************************************)
AsCallback(c) ==
    \/ \E i \in DOMAIN m_fibers : m_fibers[i].cb = c
    \/ \E t \in Threads : ft[t].cb = c

FiberStatus(f) ==
    CASE st[f] = "EXEC" -> "running"
      [] st[f] = "HOLD" /\ f \in armed -> "waiting"
      [] st[f] \in Ended -> "ended"
      [] OTHER -> "pending"

Status(c) ==
    IF c \notin submitted THEN "new"
    ELSE IF AsCallback(c) THEN "pending"
    ELSE IF \E f \in Fibers : body[f] = c
         THEN FiberStatus(CHOOSE f \in Fibers : body[f] = c)
         ELSE "ended"

Pool == INSTANCE TaskPool WITH
            Tasks <- Cbs,
            status <- [c \in Cbs |-> Status(c)],
            closed <- (mpc = "done")

\* Every step of the threads, of stop() and of user code is a step of the task
\* pool: a callback runs once, resumes only when woken or READY, and stop()
\* returns only when every submitted callback has ended or awaits its waker.
RefinesTaskPool == Pool!Spec

\* stop() returns: every thread of the pool leaves run() in the end.
StopReturns == <>(mpc = "done")

\* A callback or fiber that is in the list is not left there for ever.
EveryTaskRuns == \A c \in Cbs : (Status(c) = "pending") ~> (Status(c) # "pending")

=============================================================================
