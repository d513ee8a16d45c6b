-------------------------------- MODULE Hook --------------------------------
(***************************************************************************)
(* The hooked system calls of sylar (hook.cpp) and the table of FdCtx they *)
(* consult (fd_manager.cpp).  A hooked call that the kernel cannot serve   *)
(* at once sets a timer, adds an event, suspends its fiber and tries again *)
(* when it is resumed.                                                     *)
(*                                                                         *)
(* The event table is an abstract one, of what IOManager models in detail: *)
(* adding, cancelling and dispatching an event are atomic.  A timer is     *)
(* armed, then listed as a callback, then run; when it is due is left open.*)
(*                                                                         *)
(* Contract assumed of users: threads are hooked, one fiber at a time      *)
(* waits for one event of one connection, a connection is closed once and  *)
(* its flags and timeouts are not set meanwhile,                           *)
(* FIONBIO is given the values in Fionbio, and descriptors are smaller     *)
(* than the 64 places of m_datas.                                          *)
(***************************************************************************)
EXTENDS Naturals, FiniteSets

CONSTANTS
    Fibers,
    Fds,
    InitFds,    \* the sets of descriptors that may be connected at the beginning
    Fionbio,    \* the arguments users give to ioctl(FIONBIO)
    NoFiber,
    NoCtx,      \* the null FdCtx::ptr
    UserOps,    \* bound: the calls that users make
    MaxConn,    \* bound: connections, which are numbered as they come
    MaxCalls    \* bound: calls of one fiber

Event == {"READ", "WRITE"}
Timeout == {"none", "some"}    \* -1, or a number of milliseconds

\* The calls that go through do_io(), and what the others wait for.
IoOps == {"read", "write", "accept"}
Ops == IoOps \cup {"connect", "sleep", "close", "socket", "setfl", "fionbio", "timeo"}
EventOf(op) == IF op \in {"write", "connect"} THEN "WRITE" ELSE "READ"

\* An FdCtx: the connection it was made for, the flags and SO_RCVTIMEO, SO_SNDTIMEO.
CtxState == [conn: 0..MaxConn, userNonblock: BOOLEAN, sysNonblock: BOOLEAN, timeout: [Event -> Timeout]]

ASSUME HookAssumption ==
    /\ UserOps \subseteq Ops
    /\ InitFds \subseteq SUBSET Fds /\ Fionbio \subseteq BOOLEAN
    /\ NoFiber \notin Fibers /\ NoCtx \notin CtxState
    /\ MaxConn \in Nat \ {0} /\ MaxCalls \in Nat

VARIABLES
    call,       \* each fiber's call: its place, arguments and tinfo
    timers,     \* timers and their callbacks, until they have run
    m_datas,    \* the FdManager's table
    waits,      \* FdContext::events: the fiber that waits for an event
    watched,    \* kernel: the events epoll was asked for
    batch,      \* events that epoll_wait() returned and idle() has still to dispatch
    open, conn, sock, ready, nonblock,    \* kernel: the descriptor's state
    failed      \* addEvent()'s assertion ended the process

fdVars == <<open, conn, sock, nonblock>>
tableVars == <<waits, watched, batch>>
vars == <<call, timers, m_datas, tableVars, ready, fdVars, failed>>

NoCall == [at |-> "idle", op |-> "none", fd |-> 0, ev |-> "READ", conn |-> 0, n |-> 0,
           to |-> "none", val |-> FALSE, cancelled |-> FALSE, late |-> FALSE]

\* Mutant: the timeouts are left as they come.
NewCtxRaw(c) == [conn |-> c, userNonblock |-> FALSE, sysNonblock |-> TRUE,
                 timeout |-> [ev \in Event |-> "anything"]]

\* FdCtx::FdCtx() with init(): fstat() says a socket, which is made nonblocking.
NewCtx(c) == [conn |-> c, userNonblock |-> FALSE, sysNonblock |-> TRUE,
              timeout |-> [ev \in Event |-> "none"]]

\* The descriptors in up are connected, and have the first number of a connection.
InitWith(up) ==
    /\ call = [f \in Fibers |-> NoCall]
    /\ timers = {}
    /\ m_datas = [fd \in Fds |-> IF fd \in up THEN NewCtx(1) ELSE NoCtx]
    /\ waits = [fd \in Fds |-> [ev \in Event |-> NoFiber]]
    /\ watched = [fd \in Fds |-> {}]
    /\ batch = [fd \in Fds |-> {}]
    /\ open = [fd \in Fds |-> fd \in up]
    /\ conn = [fd \in Fds |-> IF fd \in up THEN 1 ELSE 0]
    /\ sock = [fd \in Fds |-> IF fd \in up THEN "up" ELSE "new"]
    /\ ready = [fd \in Fds |-> {}]
    /\ nonblock = [fd \in Fds |-> fd \in up]
    /\ failed = FALSE

Init == \E up \in InitFds : InitWith(up)

-----------------------------------------------------------------------------
(* Calls *)

\* The calls that may wait, and the ones that have a number, a flag or a timeout to give.
Waiting == IoOps \cup {"connect"}
Setters == {"setfl", "fionbio", "timeo"}

\* accept() or socket() has the number from the kernel, and has not yet made it
\* nonblocking.
Unfinished(fd) == \E f \in Fibers : call[f].at \in {"find", "create"} /\ call[f].fd = fd

\* socket() or accept() has returned the number.
Known(fd) == open[fd] /\ ~ Unfinished(fd)

\* That one fiber waits for one event of a connection, that one closes it, and
\* that nobody sets its flags meanwhile, is the users' part.
Clash(op, ev, c) ==
    CASE op \in Setters -> c.op = "close"
      [] op = "close" -> c.op \in {"close", "setfl", "fionbio"}
      [] OTHER -> c.op \in Waiting /\ c.ev = ev

Allowed(op, fd, ev) ==
    /\ Known(fd)
    /\ op \in IoOps => sock[fd] = "up"
    /\ op = "connect" => sock[fd] = "new"
    /\ \A g \in Fibers : call[g].fd = fd /\ call[g].conn = conn[fd] => ~ Clash(op, ev, call[g])

\* FdManager::get(fd): where a call goes on with the context it finds.
get(op, ctx) ==
    CASE op = "close" -> IF ctx = NoCtx THEN "closefd" ELSE "cancelAll"
      [] op \in IoOps -> IF ctx = NoCtx \/ ctx.userNonblock THEN "direct" ELSE "try"
      [] op = "connect" -> IF ctx = NoCtx THEN "idle" ELSE IF ctx.userNonblock THEN "direct" ELSE "try"
      [] op \in {"setfl", "fionbio"} -> "flag"
      [] op = "timeo" -> "idle"

\* Mutant: F_SETFL passes the user's flag on to the kernel.
SysFlagUser(op, ctx, val) == val

\* What fcntl(F_SETFL) and ioctl(FIONBIO) make of the user's flag.
SysFlag(op, ctx, val) == IF op = "setfl" /\ ctx # NoCtx THEN ctx.sysNonblock ELSE val

\* A call for a connection begins with that look-up; fcntl(F_SETFL),
\* ioctl(FIONBIO) and setsockopt(SO_RCVTIMEO, SO_SNDTIMEO) change what they find.
Call(f, op, fd, ev, val, to) ==
    /\ call[f].at = "idle" /\ call[f].n < MaxCalls
    /\ Allowed(op, fd, ev)
    /\ LET ctx == m_datas[fd]
           at == get(op, ctx)
       IN  /\ call' = [call EXCEPT ![f] =
                IF at = "idle" THEN [NoCall EXCEPT !.n = call[f].n + 1]
                ELSE [NoCall EXCEPT !.at = at, !.op = op, !.fd = fd, !.ev = ev, !.val = SysFlag(op, ctx, val),
                                    !.to = IF at # "try" \/ op = "connect" THEN to ELSE ctx.timeout[ev],
                                    !.conn = conn[fd], !.n = call[f].n + 1]]
           /\ m_datas' =
                IF ctx = NoCtx \/ op \notin Setters THEN m_datas
                ELSE IF op = "timeo" THEN [m_datas EXCEPT ![fd].timeout[ev] = to]
                ELSE [m_datas EXCEPT ![fd].userNonblock = val]
    /\ UNCHANGED <<timers, tableVars, ready, fdVars, failed>>

\* sleep(), usleep() and nanosleep(); socket().
CallNew(f, op) ==
    /\ call[f].at = "idle" /\ call[f].n < MaxCalls
    /\ call' = [call EXCEPT ![f] = [NoCall EXCEPT !.at = IF op = "sleep" THEN "arm" ELSE "socket",
                                                  !.op = op, !.n = call[f].n + 1]]
    /\ UNCHANGED <<timers, m_datas, tableVars, ready, fdVars, failed>>

Goto(f, at) == call' = [call EXCEPT ![f].at = at]

Done(f) == call' = [call EXCEPT ![f] = [NoCall EXCEPT !.n = call[f].n]]

\* The kernel's flag is set some time after the context was found.
SetFlag(f) ==
    /\ call[f].at = "flag"
    /\ nonblock' = [nonblock EXCEPT ![call[f].fd] = IF open[call[f].fd] THEN call[f].val ELSE @]
    /\ Done(f)
    /\ UNCHANGED <<timers, m_datas, tableVars, ready, open, conn, sock, failed>>

-----------------------------------------------------------------------------
(* socket(), accept(): the new number gets its FdCtx *)

\* The kernel gives out a number.
GiveOut(f, fd, state) ==
    /\ ~ open[fd]
    /\ open' = [open EXCEPT ![fd] = TRUE]
    /\ \E c \in 1..MaxConn :
          /\ \A g \in Fds : conn[g] < c
          /\ \E g \in Fds : conn[g] = c - 1
          /\ conn' = [conn EXCEPT ![fd] = c]
    /\ sock' = [sock EXCEPT ![fd] = state]
    /\ nonblock' = [nonblock EXCEPT ![fd] = FALSE]
    /\ call' = [call EXCEPT ![f].at = "find", ![f].op = "socket", ![f].fd = fd, ![f].conn = conn'[fd]]

socket(f) ==
    /\ call[f].at = "socket"
    /\ \E fd \in Fds : GiveOut(f, fd, "new")
    /\ UNCHANGED <<timers, m_datas, tableVars, ready, failed>>

\* FdManager::get(fd, true), under the read lock and then under the write lock.
getFind(f) ==
    /\ call[f].at = "find"
    /\ IF m_datas[call[f].fd] # NoCtx THEN Done(f) ELSE Goto(f, "create")
    /\ UNCHANGED <<timers, m_datas, tableVars, ready, fdVars, failed>>

getCreate(f) ==
    /\ call[f].at = "create"
    /\ LET fd == call[f].fd
       IN  /\ m_datas' = [m_datas EXCEPT ![fd] = NewCtx(conn[fd])]
           /\ nonblock' = [nonblock EXCEPT ![fd] = TRUE]
    /\ Done(f)
    /\ UNCHANGED <<timers, tableVars, ready, open, conn, sock, failed>>

-----------------------------------------------------------------------------
(* do_io() and connect_with_timeout() *)

\* The kernel can answer f's call now: with data, room, a new connection or an error.
Answers(f) ==
    LET c == call[f] IN ~ open[c.fd] \/ sock[c.fd] = "new" \/ c.ev \in ready[c.fd]

\* It answers, and what is ready is taken; more may arrive.
Answered(f) ==
    LET c == call[f]
    IN  /\ Answers(f)
        /\ \/ /\ c.op = "accept" /\ open[c.fd] /\ sock[c.fd] # "new"
              /\ \E fd \in Fds : GiveOut(f, fd, "up")
           \/ Done(f) /\ UNCHANGED fdVars
        /\ ready' = [ready EXCEPT ![c.fd] = @ \ {c.ev}]

\* fun(fd, ...): the answer, EAGAIN, or a thread that blocks in the kernel.
Try(f) ==
    /\ call[f].at \in {"try", "direct"} /\ call[f].op \in IoOps
    /\ \/ Answered(f)
       \/ /\ ~ Answers(f) /\ nonblock[call[f].fd]
          /\ IF call[f].at = "try" THEN Goto(f, "arm") ELSE Done(f)
          /\ UNCHANGED <<ready, fdVars>>
    /\ UNCHANGED <<timers, m_datas, tableVars, failed>>

\* connect_f(): an answer at once, or EINPROGRESS.
TryConnect(f) ==
    /\ call[f].at \in {"try", "direct"} /\ call[f].op = "connect"
    /\ LET fd == call[f].fd
       IN  \/ /\ Done(f) /\ UNCHANGED <<sock, ready>>    \* refused, or another error
           \/ /\ open[fd] /\ sock[fd] = "new"
              /\ sock' = [sock EXCEPT ![fd] = "up"] /\ ready' = [ready EXCEPT ![fd] = {"WRITE"}]
              /\ Done(f)
           \/ /\ open[fd] /\ sock[fd] = "new" /\ nonblock[fd]
              /\ sock' = [sock EXCEPT ![fd] = "connecting"] /\ UNCHANGED ready
              /\ IF call[f].at = "try" THEN Goto(f, "arm") ELSE Done(f)
    /\ UNCHANGED <<timers, m_datas, tableVars, open, conn, nonblock, failed>>

Timer(f) == [f |-> f, n |-> call[f].n, op |-> call[f].op, fd |-> call[f].fd, ev |-> call[f].ev, stage |-> "armed"]
OwnTimers(f) == {t \in timers : t.f = f /\ t.n = call[f].n}

\* addConditionTimer() if there is a timeout; a sleep's timer always.
Armed(f) == IF call[f].to = "some" \/ call[f].op = "sleep" THEN {Timer(f)} ELSE {}

\* The timer; a fiber that sleeps suspends at once.
Arm(f) ==
    /\ call[f].at = "arm"
    /\ timers' = timers \cup Armed(f)
    /\ Goto(f, IF call[f].op = "sleep" THEN "held" ELSE "add")
    /\ UNCHANGED <<m_datas, tableVars, ready, fdVars, failed>>

\* timer->cancel(): a timer that is listed already has lost its callback to its lister.
Cancelled(f) == {t \in OwnTimers(f) : t.stage = "armed"}

EventsOf(fd) == {ev \in Event : waits[fd][ev] # NoFiber}

\* f's call is for the connection that its descriptor still is.
Own(f) == call[f].fd \in Fds /\ open[call[f].fd] /\ conn[call[f].fd] = call[f].conn

\* f's event comes too late for cancelAll(): close() is past it, or over and the
\* number was given out again.
Late(f) ==
    \/ ~ Own(f)
    \/ \E g \in Fibers : call[g].at \in {"del", "closefd"} /\ call[g].fd = call[f].fd

\* addEvent(), which fails where epoll_ctl() fails: do_io() then returns, and
\* connect() does with the socket's error.
addEvent(f) ==
    /\ call[f].at = "add"
    /\ LET c == call[f]
       IN  IF c.ev \in EventsOf(c.fd)
           THEN failed' = TRUE /\ UNCHANGED <<call, timers, waits, watched>>
           ELSE IF ~ open[c.fd] \/ (EventsOf(c.fd) = {}) # (watched[c.fd] = {})
           THEN /\ timers' = timers \ Cancelled(f)
                /\ Done(f)
                /\ UNCHANGED <<waits, watched, failed>>
           ELSE /\ waits' = [waits EXCEPT ![c.fd][c.ev] = f]
                /\ watched' = [watched EXCEPT ![c.fd] = @ \cup {c.ev}]
                /\ call' = [call EXCEPT ![f].at = "held", ![f].late = Late(f)]
                /\ UNCHANGED <<timers, failed>>
    /\ UNCHANGED <<m_datas, batch, ready, fdVars>>

\* Mutant: do_io() suspends again without a new event.
RetryHeld(f) == "held"

\* Mutant: do_io() adds the event again, but no timer.
RetryUntimed(f) == "add"

\* Where do_io() goes on when it was resumed before its time was over.
Retry(f) == "try"

\* The fiber runs again, behind YieldToHold().  A sleep is over, a call that
\* timed out too, and so is connect(), with what getsockopt(SO_ERROR) says.
Resumed(f) ==
    /\ call[f].at = "woken"
    /\ timers' = timers \ Cancelled(f)
    /\ IF call[f].op \in IoOps /\ ~ call[f].cancelled THEN Goto(f, Retry(f)) ELSE Done(f)
    /\ UNCHANGED <<m_datas, tableVars, ready, fdVars, failed>>

-----------------------------------------------------------------------------
(* Wake-ups *)

\* cancelEvent(), cancelAll() and idle()'s dispatch do nothing for events that
\* are not set, or that epoll does not know any more.
Set(fd, E) == IF watched[fd] = {} THEN {} ELSE {ev \in E : waits[fd][ev] # NoFiber}

\* The waiters of the events in E, which are scheduled.
Woken(fd, E) == [f \in Fibers |-> IF \E ev \in Set(fd, E) : waits[fd][ev] = f
                                  THEN [call[f] EXCEPT !.at = "woken"] ELSE call[f]]

\* Mutant: the waiter is scheduled and stays.
TakeOffNot(fd, E) == UNCHANGED <<waits, watched>>

\* The events are taken off.
TakeOff(fd, E) ==
    /\ waits' = [waits EXCEPT ![fd] = [ev \in Event |-> IF ev \in Set(fd, E) THEN NoFiber ELSE @[ev]]]
    /\ watched' = [watched EXCEPT ![fd] = @ \ Set(fd, E)]

\* listExpiredCb(): the timer's callback is on its way to run.
Fire(t) ==
    /\ t.stage = "armed"
    /\ timers' = (timers \ {t}) \cup {[t EXCEPT !.stage = "listed"]}
    /\ UNCHANGED <<call, m_datas, tableVars, ready, fdVars, failed>>

\* Where a fiber has no timer_info: outside its calls, and in accept() behind do_io().
Outside == {"idle", "find", "create"}

\* Mutant: the callback does not ask whether its call is still there.
TinfoAny(t) == call[t.f].at \notin Outside /\ ~ call[t.f].cancelled

\* winfo.lock() finds the call's timer_info, which is not cancelled.
Tinfo(t) == call[t.f].at \notin Outside /\ call[t.f].n = t.n /\ ~ call[t.f].cancelled

\* A sleep's callback schedules the fiber; the others note the timeout ...
RunCallback(t) ==
    /\ t.stage = "listed"
    /\ \/ /\ t.op = "sleep"
          /\ timers' = timers \ {t}
          /\ Goto(t.f, "woken")
       \/ /\ t.op # "sleep" /\ Tinfo(t)
          /\ timers' = (timers \ {t}) \cup {[t EXCEPT !.stage = "noted"]}
          /\ call' = [call EXCEPT ![t.f].cancelled = TRUE]
       \/ /\ t.op # "sleep" /\ ~ Tinfo(t)
          /\ timers' = timers \ {t}
          /\ UNCHANGED call
    /\ UNCHANGED <<m_datas, tableVars, ready, fdVars, failed>>

\* ... and cancel the event, whoever waits for it now.
cancelEvent(t) ==
    /\ t.stage = "noted"
    /\ timers' = timers \ {t}
    /\ call' = Woken(t.fd, {t.ev})
    /\ TakeOff(t.fd, {t.ev})
    /\ UNCHANGED <<m_datas, batch, ready, fdVars, failed>>

\* epoll_wait() returns an event, idle() dispatches it some time later.
Report(fd, ev) ==
    /\ ev \in watched[fd] \cap ready[fd] /\ ev \notin batch[fd]
    /\ batch' = [batch EXCEPT ![fd] = @ \cup {ev}]
    /\ UNCHANGED <<call, timers, m_datas, waits, watched, ready, fdVars, failed>>

Dispatch(fd, ev) ==
    /\ ev \in batch[fd]
    /\ batch' = [batch EXCEPT ![fd] = @ \ {ev}]
    /\ call' = Woken(fd, {ev})
    /\ TakeOff(fd, {ev})
    /\ UNCHANGED <<timers, m_datas, ready, fdVars, failed>>

-----------------------------------------------------------------------------
(* close() *)

\* Mutant: the context is deleted behind close_f().
AfterSwapped(at) == CASE at = "cancelAll" -> "closefd" [] at = "closefd" -> "del" [] at = "del" -> "idle"

\* Mutant: nobody is told.
CancelSetNone(fd) == {}

\* The order of close()'s steps.
After(at) == CASE at = "cancelAll" -> "del" [] at = "del" -> "closefd" [] at = "closefd" -> "idle"

CloseNext(f, calls) ==
    LET at == After(call[f].at)
    IN  call' = [calls EXCEPT ![f] = IF at = "idle" THEN [NoCall EXCEPT !.n = call[f].n] ELSE [@ EXCEPT !.at = at]]

\* Every event that is set.
CancelSet(fd) == Event

cancelAll(f) ==
    /\ call[f].at = "cancelAll"
    /\ LET fd == call[f].fd
       IN  CloseNext(f, Woken(fd, CancelSet(fd))) /\ TakeOff(fd, CancelSet(fd))
    /\ UNCHANGED <<timers, m_datas, batch, ready, fdVars, failed>>

\* FdManager::del()
del(f) ==
    /\ call[f].at = "del"
    /\ m_datas' = [m_datas EXCEPT ![call[f].fd] = NoCtx]
    /\ CloseNext(f, call)
    /\ UNCHANGED <<timers, tableVars, ready, fdVars, failed>>

\* close_f(): epoll forgets the descriptor, the FdContext does not.
CloseFd(f) ==
    /\ call[f].at = "closefd"
    /\ LET fd == call[f].fd
       IN  /\ open' = [open EXCEPT ![fd] = FALSE]
           /\ sock' = [sock EXCEPT ![fd] = "new"]
           /\ ready' = [ready EXCEPT ![fd] = {}]
           /\ watched' = [watched EXCEPT ![fd] = {}]
    /\ CloseNext(f, call)
    /\ UNCHANGED <<timers, m_datas, waits, batch, conn, nonblock, failed>>

-----------------------------------------------------------------------------
(* The network *)

\* Data or room, while a call asks for it: what comes before the call does
\* nothing that it would not do now.
Arrive(fd, ev) ==
    /\ open[fd] /\ sock[fd] = "up" /\ ev \notin ready[fd]
    /\ \E f \in Fibers : call[f].op \in Waiting /\ call[f].fd = fd /\ call[f].ev = ev
    /\ ready' = [ready EXCEPT ![fd] = @ \cup {ev}]
    /\ UNCHANGED <<call, timers, m_datas, tableVars, fdVars, failed>>

\* A connection is made or refused.
Connected(fd) ==
    /\ sock[fd] = "connecting"
    /\ \/ sock' = [sock EXCEPT ![fd] = "up"] /\ ready' = [ready EXCEPT ![fd] = {"WRITE"}]
       \/ sock' = [sock EXCEPT ![fd] = "failed"] /\ ready' = [ready EXCEPT ![fd] = Event]
    /\ UNCHANGED <<call, timers, m_datas, tableVars, open, conn, nonblock, failed>>

-----------------------------------------------------------------------------
Calls(f) ==
    \/ \E fd \in Fds :
          \/ \E op \in UserOps \cap (IoOps \cup {"close"}) : Call(f, op, fd, EventOf(op), FALSE, "none")
          \/ \E op \in UserOps \cap {"connect"}, to \in Timeout : Call(f, op, fd, "WRITE", FALSE, to)
          \/ \E op \in UserOps \cap {"timeo"}, ev \in Event, to \in Timeout : Call(f, op, fd, ev, FALSE, to)
          \/ \E op \in UserOps \cap {"setfl"}, val \in BOOLEAN : Call(f, op, fd, "READ", val, "none")
          \/ \E op \in UserOps \cap {"fionbio"}, val \in Fionbio : Call(f, op, fd, "READ", val, "none")
    \/ \E op \in UserOps \cap {"sleep", "socket"} : CallNew(f, op)

FiberStep(f) ==
    \/ SetFlag(f) \/ socket(f) \/ getFind(f) \/ getCreate(f)
    \/ Try(f) \/ TryConnect(f) \/ Arm(f) \/ addEvent(f) \/ Resumed(f)
    \/ cancelAll(f) \/ del(f) \/ CloseFd(f)

TimerStep(t) == Fire(t) \/ RunCallback(t) \/ cancelEvent(t)

IdleStep == \E fd \in Fds, ev \in Event : Report(fd, ev) \/ Dispatch(fd, ev)

Next ==
    \/ ~ failed /\ \E f \in Fibers : Calls(f) \/ FiberStep(f)
    \/ ~ failed /\ \E t \in timers : TimerStep(t)
    \/ ~ failed /\ IdleStep
    \/ ~ failed /\ \E fd \in Fds : Connected(fd) \/ \E ev \in Event : Arrive(fd, ev)

Spec == Init /\ [][Next]_vars

\* Fibers that can run are run, and threads in idle() poll and dispatch.
Fairness ==
    /\ \A f \in Fibers : WF_vars(~ failed /\ FiberStep(f))
    /\ \A fd \in Fds, ev \in Event : WF_vars(~ failed /\ (Report(fd, ev) \/ Dispatch(fd, ev)))

FairSpec == Spec /\ Fairness

-----------------------------------------------------------------------------
(* Properties *)

At == {"idle", "flag", "socket", "find", "create", "try", "direct", "arm", "add", "held",
       "woken", "cancelAll", "del", "closefd"}
CallState == [at: At, op: Ops \cup {"none"}, fd: Fds \cup {0}, ev: Event, conn: 0..MaxConn, n: 0..MaxCalls,
              to: Timeout, val: BOOLEAN, cancelled: BOOLEAN, late: BOOLEAN]
TimerState == [f: Fibers, n: 0..MaxCalls, op: Ops, fd: Fds \cup {0}, ev: Event,
               stage: {"armed", "listed", "noted"}]

\* Type correctness of calls, timers, contexts, the event table and the kernel's state.
TypeOK ==
    /\ call \in [Fibers -> CallState]
    /\ timers \subseteq TimerState
    /\ m_datas \in [Fds -> CtxState \cup {NoCtx}]
    /\ waits \in [Fds -> [Event -> Fibers \cup {NoFiber}]]
    /\ watched \in [Fds -> SUBSET Event] /\ batch \in [Fds -> SUBSET Event]
    /\ ready \in [Fds -> SUBSET Event]
    /\ open \in [Fds -> BOOLEAN] /\ nonblock \in [Fds -> BOOLEAN]
    /\ conn \in [Fds -> 0..MaxConn]
    /\ sock \in [Fds -> {"new", "connecting", "up", "failed"}]
    /\ failed \in BOOLEAN

\* A suspended fiber has exactly one who will schedule it, an event or a
\* sleep's timer, and a fiber that runs has none: what Scheduler asks of those
\* who suspend fibers, kept by do_io(), connect() and the sleeps through
\* retries, timeouts and close().
Wakers(f) ==
    {p \in Fds \X Event : waits[p[1]][p[2]] = f}
        \cup {t \in timers : t.f = f /\ t.op = "sleep"}
OneWake == \A f \in Fibers : Cardinality(Wakers(f)) = IF call[f].at = "held" THEN 1 ELSE 0

\* A call reports ETIMEDOUT only if it has a timeout: a timer that an earlier
\* call left behind never ends a later one.
TimeoutIsOwn == \A f \in Fibers : call[f].cancelled => call[f].to = "some"

\* A suspended call with a timeout has a timer that is still to run out, each
\* time it suspends, until its timeout was noted.
TimerInForce ==
    \A f \in Fibers : call[f].at = "held" /\ call[f].to = "some" /\ ~ call[f].cancelled =>
        \E t \in OwnTimers(f) : t.stage # "noted"

\* The FdManager's context of an open descriptor was made for this connection,
\* and it has one from the time its maker has it to the time it is closed.
CtxFresh ==
    \A fd \in Fds : open[fd] =>
        \/ m_datas[fd] # NoCtx /\ m_datas[fd].conn = conn[fd]
        \/ m_datas[fd] = NoCtx /\ \E f \in Fibers :
              call[f].fd = fd /\ call[f].conn = conn[fd] /\ call[f].at \in {"find", "create", "closefd"}

\* The first try of a hooked call, its retry and the call that do_io() passes on
\* find their descriptor nonblocking, whatever the user set with fcntl(), and also
\* when its number is another connection by then.  One case is left in which the
\* thread can block in the kernel: the call's connection was closed, and accept()
\* or socket() of another fiber, which has the number, is still on its way to
\* FdCtx::init().
NoThreadBlocks ==
    \A f \in Fibers : call[f].at \in {"try", "direct"} /\ open[call[f].fd] =>
        nonblock[call[f].fd] \/ (~ Own(f) /\ Unfinished(call[f].fd))

\* Nobody is left waiting for a connection that was closed, except one whose
\* addEvent() came behind close()'s cancelAll(), before or after close_f().
CloseWakes == \A f \in Fibers : call[f].at = "held" /\ call[f].op \in Waiting /\ ~ Own(f) => call[f].late

\* A call whose descriptor stays ready comes to an end.
Stuck(f) == call[f].op \in Waiting /\ Own(f) /\ sock[call[f].fd] # "new" /\ call[f].ev \in ready[call[f].fd]
ReadyCallReturns == \A f \in Fibers : []<>(failed \/ ~ Stuck(f))

=============================================================================
