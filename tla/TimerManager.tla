---------------------------- MODULE TimerManager ----------------------------
(***************************************************************************)
(* The timers of sylar (timer.h, timer.cpp) and the threads that serve     *)
(* them: the part of IOManager::idle() that sleeps until the next timer,   *)
(* collects the expired ones and hands their callbacks to the scheduler.   *)
(*                                                                         *)
(* Timers are kept in wall-clock time, which may be set back; a sleep is   *)
(* measured in real time.  Every operation on m_timers is one critical     *)
(* section under m_mutex, except that listExpiredCb() reads the clock and  *)
(* looks at m_timers before it takes the write lock, addTimer() reads the  *)
(* clock before it locks, and the wake-up of a sleeper follows the unlock. *)
(***************************************************************************)
EXTENDS Integers, FiniteSets

CONSTANTS
    Timers,     \* the Timer objects that can be allocated
    Idlers,     \* the threads that run IOManager::idle()
    Periods,    \* the values of ms
    Gap,        \* the hour of detectClockRollover()
    MAX_TIMEOUT,
    IntHalf,    \* 2^31: (int) of a uint64_t wraps from here
    Start,      \* the wall clock at construction
    MaxReal,    \* bound: how long the clock runs
    MaxBack     \* bound: how often the wall clock is set back

ASSUME TimerAssumption ==
    /\ Periods \subseteq Nat
    /\ Gap \in Nat /\ MAX_TIMEOUT \in Nat /\ IntHalf \in Nat \ {0}
    /\ Start \in Nat /\ MaxReal \in Nat /\ MaxBack \in Nat
    /\ MAX_TIMEOUT < IntHalf /\ Idlers # {}

VARIABLES
    clock,            \* GetCurrentMS()
    real,             \* time that has really passed
    backs,            \* how often the clock was set back
    m_timers,         \* the set of Timer::ptr
    m_tickled,
    m_previouseTime,
    stage,            \* of a Timer: not allocated, constructed, inserted
    m_next, m_ms, m_recurring,
    m_cb,             \* the Timer's callback is set
    notifying,        \* inserted at the front, onTimerInsertedAtFront() to come
    pc,               \* where each thread is in idle()
    now,              \* [ms, real]: listExpiredCb()'s now_ms and when it was read
    deadline,         \* real time at which epoll_wait() times out
    cbs,              \* the timers whose callbacks listExpiredCb() returned
    took,             \* epoll_wait() returned the pipe's event
    edge,             \* the pipe's edge is pending in epoll
    armedAt,          \* history: real time from which a timer's m_ms counts
    spent             \* history: one-shot timers that fired, and cancelled ones

clockVars == <<clock, real, backs>>
timerVars == <<stage, m_next, m_ms, m_recurring, m_cb, armedAt, spent>>
loopVars  == <<pc, now, deadline, cbs, took>>
vars == <<clockVars, m_timers, m_tickled, m_previouseTime, timerVars, notifying, loopVars, edge>>

Never == MaxReal + 1
NoTime == [ms |-> 0, real |-> 0]

Init ==
    /\ clock = Start /\ real = 0 /\ backs = 0
    /\ m_timers = {} /\ m_tickled = FALSE /\ m_previouseTime = Start
    /\ stage = [t \in Timers |-> "none"]
    /\ m_next = [t \in Timers |-> 0]
    /\ m_ms = [t \in Timers |-> 0]
    /\ m_recurring = [t \in Timers |-> FALSE]
    /\ m_cb = [t \in Timers |-> FALSE]
    /\ notifying = {}
    /\ pc = [i \in Idlers |-> "busy"]
    /\ now = [i \in Idlers |-> NoTime]
    /\ deadline = [i \in Idlers |-> 0]
    /\ cbs = [i \in Idlers |-> {}]
    /\ took = [i \in Idlers |-> FALSE]
    /\ edge = FALSE
    /\ armedAt = [t \in Timers |-> 0]
    /\ spent = {}

-----------------------------------------------------------------------------
(* The clock *)

Tick ==
    /\ real < MaxReal
    /\ real' = real + 1
    /\ clock' = clock + 1
    /\ UNCHANGED <<backs, m_timers, m_tickled, m_previouseTime, timerVars, notifying, loopVars, edge>>

SetBack(d) ==
    /\ backs < MaxBack
    /\ clock >= d
    /\ clock' = clock - d
    /\ backs' = backs + 1
    /\ UNCHANGED <<real, m_timers, m_tickled, m_previouseTime, timerVars, notifying, loopVars, edge>>

-----------------------------------------------------------------------------
(* Clients: any thread, at any time *)

\* new Timer(ms, cb, recurring, this), before addTimer() takes the lock.
Construct(t, ms, recurring) ==
    /\ stage[t] = "none"
    /\ stage' = [stage EXCEPT ![t] = "made"]
    /\ m_ms' = [m_ms EXCEPT ![t] = ms]
    /\ m_next' = [m_next EXCEPT ![t] = clock + ms]
    /\ m_recurring' = [m_recurring EXCEPT ![t] = recurring]
    /\ m_cb' = [m_cb EXCEPT ![t] = TRUE]
    /\ armedAt' = [armedAt EXCEPT ![t] = real]
    /\ UNCHANGED <<clockVars, m_timers, m_tickled, m_previouseTime, spent, notifying, loopVars, edge>>

\* addTimer(val, lock): insert, and decide whether a sleeper must be woken.
\* Timers due at the same time are ordered by address, which is arbitrary.
Front(t, S, next) == \A u \in S \ {t} : next[t] <= next[u]

InsertAndTickle(t, next) ==
    /\ m_timers' = m_timers \cup {t}
    /\ \E front \in {Front(t, m_timers, next),
                     \A u \in m_timers \ {t} : next[t] < next[u]} :
          IF front /\ ~ m_tickled
          THEN m_tickled' = TRUE /\ notifying' = notifying \cup {t}
          ELSE UNCHANGED <<m_tickled, notifying>>

addTimer(t) ==
    /\ stage[t] = "made"
    /\ stage' = [stage EXCEPT ![t] = "placed"]
    /\ InsertAndTickle(t, m_next)
    /\ UNCHANGED <<clockVars, m_previouseTime, m_next, m_ms, m_recurring, m_cb, armedAt, spent,
                   loopVars, edge>>

\* IOManager::onTimerInsertedAtFront() and tickle(): nothing is written while
\* no thread is idle.
onTimerInsertedAtFront(t) ==
    /\ t \in notifying
    /\ notifying' = notifying \ {t}
    /\ edge' = (edge \/ \E i \in Idlers : pc[i] # "busy")
    /\ UNCHANGED <<clockVars, m_timers, m_tickled, m_previouseTime, timerVars, loopVars>>

\* The calls on a timer that has its callback; without it they return false.
\* find() must succeed in cancel(): erase(end()) is undefined.

\* Mutant: cancel() leaves the entry in m_timers.
cancelKeepsEntry(t) ==
    /\ stage[t] = "placed" /\ m_cb[t]
    /\ m_cb' = [m_cb EXCEPT ![t] = FALSE]
    /\ spent' = spent \cup {t}
    /\ UNCHANGED <<clockVars, m_timers, m_tickled, m_previouseTime, stage, m_next, m_ms, m_recurring,
                   armedAt, notifying, loopVars, edge>>

cancel(t) ==
    /\ stage[t] = "placed"
    /\ m_cb[t]
    /\ m_cb' = [m_cb EXCEPT ![t] = FALSE]
    /\ m_timers' = m_timers \ {t}
    /\ spent' = spent \cup {t}
    /\ UNCHANGED <<clockVars, m_tickled, m_previouseTime, stage, m_next, m_ms, m_recurring, armedAt,
                   notifying, loopVars, edge>>

refresh(t) ==
    /\ stage[t] = "placed"
    /\ m_cb[t] /\ t \in m_timers
    /\ m_next' = [m_next EXCEPT ![t] = clock + m_ms[t]]
    /\ armedAt' = [armedAt EXCEPT ![t] = real]
    /\ UNCHANGED <<clockVars, m_timers, m_tickled, m_previouseTime, stage, m_ms, m_recurring, m_cb,
                   spent, notifying, loopVars, edge>>

\* Mutant: the period is taken off the start.
ResetTimeMinus(t, ms, from_now) == (IF from_now THEN clock ELSE m_next[t] - m_ms[t]) - ms

ResetTime(t, ms, from_now) == (IF from_now THEN clock ELSE m_next[t] - m_ms[t]) + ms

reset(t, ms, from_now) ==
    /\ stage[t] = "placed"
    /\ ms # m_ms[t] \/ from_now
    /\ m_cb[t] /\ t \in m_timers
    /\ LET next == [m_next EXCEPT ![t] = ResetTime(t, ms, from_now)]
       IN  /\ m_next' = next
           /\ InsertAndTickle(t, next)
    /\ m_ms' = [m_ms EXCEPT ![t] = ms]
    /\ armedAt' = [armedAt EXCEPT ![t] = IF from_now THEN real ELSE @]
    /\ UNCHANGED <<clockVars, m_previouseTime, stage, m_recurring, m_cb, spent, loopVars, edge>>

-----------------------------------------------------------------------------
(* IOManager::idle() *)

\* run() has found nothing to do.
GoIdle(i) ==
    /\ pc[i] = "busy"
    /\ pc' = [pc EXCEPT ![i] = "next"]
    /\ UNCHANGED <<clockVars, m_timers, m_tickled, m_previouseTime, timerVars, notifying,
                   now, deadline, cbs, took, edge>>

\* (int)x of a uint64_t
ToInt(x) == LET r == x % (2 * IntHalf) IN IF r >= IntHalf THEN r - 2 * IntHalf ELSE r

\* The timeout given to epoll_wait(): a negative one waits for ever.
Timeout(x) == IF ToInt(x) > MAX_TIMEOUT THEN MAX_TIMEOUT ELSE ToInt(x)

\* Mutant: the difference is taken of a timer that is due already.
AheadUnchecked(t) == m_next[t] - clock

Ahead(t) == IF clock >= m_next[t] THEN 0 ELSE m_next[t] - clock

\* Mutant: m_tickled stays set.
UntickleNever == UNCHANGED m_tickled

Untickle == m_tickled' = FALSE

\* stopping(next_timeout) calls getNextTimer(), and epoll_wait() follows at
\* once: a thread that is held up between the two sleeps longer by as much.
getNextTimer(i) ==
    /\ pc[i] = "next"
    /\ Untickle
    /\ LET first == {t \in m_timers : \A u \in m_timers : m_next[t] <= m_next[u]}
           waits == IF m_timers = {} THEN {MAX_TIMEOUT} ELSE {Timeout(Ahead(t)) : t \in first}
       IN  \E w \in waits : deadline' = [deadline EXCEPT ![i] = IF w < 0 \/ real + w > MaxReal
                                                                THEN Never ELSE real + w]
    /\ pc' = [pc EXCEPT ![i] = "wait"]
    /\ UNCHANGED <<clockVars, m_timers, m_previouseTime, timerVars, notifying, now, cbs, took, edge>>

WakeUp(i, by_pipe) ==
    /\ pc[i] = "wait"
    /\ took' = [took EXCEPT ![i] = by_pipe]
    /\ deadline' = [deadline EXCEPT ![i] = 0]
    /\ pc' = [pc EXCEPT ![i] = "check"]
    /\ UNCHANGED <<clockVars, m_timers, m_tickled, m_previouseTime, timerVars, notifying, now, cbs>>

\* epoll_wait() returns: it has timed out, it reports the pipe, or a socket.
TimeoutWake(i) == real >= deadline[i] /\ WakeUp(i, FALSE) /\ UNCHANGED edge
PipeWake(i)    == edge /\ WakeUp(i, TRUE) /\ edge' = FALSE
SocketWake(i)  == WakeUp(i, FALSE) /\ UNCHANGED edge

\* listExpiredCb(), up to the end of its read lock.
listCheck(i) ==
    /\ pc[i] = "check"
    /\ now' = [now EXCEPT ![i] = [ms |-> clock, real |-> real]]
    /\ pc' = [pc EXCEPT ![i] = IF m_timers = {} THEN "deliver" ELSE "list"]
    /\ UNCHANGED <<clockVars, m_timers, m_tickled, m_previouseTime, timerVars, notifying,
                   deadline, cbs, took, edge>>

\* detectClockRollover(now_ms)
Rollover(i) == now[i].ms < m_previouseTime /\ now[i].ms < m_previouseTime - Gap

Expired(i) == IF Rollover(i) THEN m_timers ELSE {t \in m_timers : m_next[t] <= now[i].ms}

\* Mutant: a recurring timer counts from when it was due.
RearmedFromDue(i, t) == m_next[t] + m_ms[t]

Rearmed(i, t) == now[i].ms + m_ms[t]

\* Mutant: a timer that is over keeps its callback.
KeepCallback(E) == {}

\* The expired timers that lose their callback.
OneShot(E) == {t \in E : ~ m_recurring[t]}

\* listExpiredCb(), under the write lock.
listExpiredCb(i) ==
    /\ pc[i] = "list"
    /\ m_timers # {} \/ Rollover(i)
    /\ m_previouseTime' = now[i].ms
    /\ LET E == Expired(i)
           R == {t \in E : m_recurring[t]}
       IN  /\ m_timers' = (m_timers \ E) \cup R
           /\ cbs' = [cbs EXCEPT ![i] = E]
           /\ m_next' = [t \in Timers |-> IF t \in R THEN Rearmed(i, t) ELSE m_next[t]]
           /\ armedAt' = [t \in Timers |-> IF t \in R THEN now[i].real ELSE armedAt[t]]
           /\ m_cb' = [t \in Timers |-> IF t \in OneShot(E) THEN FALSE ELSE m_cb[t]]
           /\ spent' = spent \cup (E \ R)
    /\ pc' = [pc EXCEPT ![i] = "deliver"]
    /\ UNCHANGED <<clockVars, m_tickled, stage, m_ms, m_recurring, notifying, now, deadline, took, edge>>

\* *m_timers.begin() on an empty set reads a null Timer::ptr: the process dies.
listCrash(i) ==
    /\ pc[i] = "list"
    /\ m_timers = {} /\ ~ Rollover(i)
    /\ pc' = [pc EXCEPT ![i] = "crashed"]
    /\ UNCHANGED <<clockVars, m_timers, m_tickled, m_previouseTime, timerVars, notifying,
                   now, deadline, cbs, took, edge>>

\* schedule(cbs), the pipe is drained if it was reported, and the idle fiber
\* gives the thread back to run().
deliver(i) ==
    /\ pc[i] = "deliver"
    /\ cbs' = [cbs EXCEPT ![i] = {}]
    /\ edge' = (edge /\ ~ took[i])
    /\ took' = [took EXCEPT ![i] = FALSE]
    /\ now' = [now EXCEPT ![i] = NoTime]
    /\ pc' = [pc EXCEPT ![i] = "busy"]
    /\ UNCHANGED <<clockVars, m_timers, m_tickled, m_previouseTime, timerVars, notifying, deadline>>

-----------------------------------------------------------------------------
Crashed == \E i \in Idlers : pc[i] = "crashed"

Client(t) ==
    \/ \E ms \in Periods, r \in BOOLEAN : Construct(t, ms, r)
    \/ cancel(t) \/ refresh(t)
    \/ \E ms \in Periods, from_now \in BOOLEAN : reset(t, ms, from_now)

Idle(i) ==
    \/ GoIdle(i) \/ getNextTimer(i) \/ TimeoutWake(i) \/ PipeWake(i)
    \/ listCheck(i) \/ listExpiredCb(i) \/ listCrash(i) \/ deliver(i)

Over == Crashed /\ UNCHANGED vars

Next ==
    \/ ~ Crashed /\ (Tick \/ SetBack(1) \/ SetBack(Gap + 1))
    \/ ~ Crashed /\ \E t \in Timers : Client(t) \/ addTimer(t) \/ onTimerInsertedAtFront(t)
    \/ ~ Crashed /\ \E i \in Idlers : Idle(i) \/ SocketWake(i)
    \/ Over

Spec == Init /\ [][Next]_vars

\* A call that has begun is finished, and threads that can run do run.
Fairness ==
    /\ \A t \in Timers : WF_vars(~ Crashed /\ (addTimer(t) \/ onTimerInsertedAtFront(t)))
    /\ \A i \in Idlers : WF_vars(~ Crashed /\ Idle(i))

FairSpec == Spec /\ Fairness

-----------------------------------------------------------------------------
(* Properties *)

\* Type correctness of the timers and of the threads' state.
TypeOK ==
    /\ clock \in Nat /\ real \in 0..MaxReal /\ backs \in 0..MaxBack
    /\ m_timers \subseteq Timers /\ m_tickled \in BOOLEAN /\ m_previouseTime \in Nat
    /\ stage \in [Timers -> {"none", "made", "placed"}]
    /\ m_next \in [Timers -> Nat]
    /\ m_ms \in [Timers -> Nat]
    /\ m_recurring \in [Timers -> BOOLEAN]
    /\ m_cb \in [Timers -> BOOLEAN]
    /\ notifying \subseteq Timers
    /\ pc \in [Idlers -> {"busy", "next", "wait", "check", "list", "deliver", "crashed"}]
    /\ now \in [Idlers -> [ms: Nat, real: 0..MaxReal]]
    /\ deadline \in [Idlers -> 0..Never]
    /\ cbs \in [Idlers -> SUBSET Timers]
    /\ took \in [Idlers -> BOOLEAN]
    /\ edge \in BOOLEAN
    /\ armedAt \in [Timers -> 0..MaxReal]
    /\ spent \subseteq Timers

\* An inserted timer has its callback exactly while it is in m_timers: cancel()
\* erases what find() returns without looking, and listExpiredCb() copies the
\* callback of everything it takes out.
CallbackIffListed ==
    \A t \in Timers : stage[t] = "placed" => (m_cb[t] <=> t \in m_timers)

\* A timer that was cancelled, or that fired and does not recur, is never handed
\* out again, whichever threads list, cancel, refresh or reset it.
SpentStaysSpent ==
    [][\A i \in Idlers : (cbs'[i] \ cbs[i]) \cap spent = {}]_vars

\* As long as the clock is not set back, no callback is handed out before its
\* m_ms have really passed since the timer was set, refreshed, reset or listed,
\* however old the time is that listExpiredCb() read before it got the lock
\* (unless that is more than an hour, which it takes for a clock set back).
NeverEarly ==
    [][\A i \in Idlers : \A t \in cbs'[i] \ cbs[i] :
          backs > 0 \/ Rollover(i) \/ real - armedAt[t] >= m_ms[t]]_vars

\* When all threads sleep and no wake-up is on its way, one of them wakes up in
\* time for the first timer: neither m_tickled, nor the check for idle threads
\* in tickle(), nor a drained pipe loses the wake-up of a timer at the front.
\* (Once the clock was set back, refresh() may bring a timer forward without
\* waking anybody; the sleep is then bounded by MAX_TIMEOUT alone.)
NoOversleep ==
    /\ backs = 0
    /\ \A i \in Idlers : pc[i] = "wait"
    /\ ~ edge /\ notifying = {}
    => \A t \in m_timers : real + (m_next[t] - clock) < Never =>
          \E i \in Idlers :
              deadline[i] <= real + (IF m_next[t] > clock THEN m_next[t] - clock ELSE 0)

\* A timer that is due is listed, cancelled or set anew in the end.
Due(t) == t \in m_timers /\ m_next[t] <= clock
DueIsServed == \A t \in Timers : Due(t) ~> (~ Due(t) \/ Crashed)

\* listExpiredCb() lists what has expired and does not look into an empty set.
ListIsSafe == ~ Crashed

=============================================================================
