----------------------------- MODULE IOManager -----------------------------
(***************************************************************************)
(* The event table of sylar's IOManager (iomanager.h, iomanager.cpp): who  *)
(* waits for which descriptor, what the kernel's epoll instance was told,  *)
(* and how the events that epoll_wait() returned reach the waiters.        *)
(*                                                                         *)
(* Clients are fibers and callbacks.  A call first finds the FdContext     *)
(* under the table's lock (growing the table if it must), then does its    *)
(* work under the context's own mutex; the table and the context may have  *)
(* changed in between.  Pollers are the threads in idle(): what epoll_wait *)
(* returned is dispatched one event after another, later.                  *)
(*                                                                         *)
(* Contract assumed of clients: one addEvent() at a time for one event of  *)
(* one connection (addEvent() asserts it), and one close() of it.          *)
(***************************************************************************)
EXTENDS Integers, FiniteSets

CONSTANTS
    Clients,    \* the fibers (or callbacks) that call and that wait
    Pollers,    \* the threads that run idle()
    Fds,        \* descriptors
    InitSize,   \* the size the constructor gives to m_fdContexts (32)
    NoClient,
    MaxGen,     \* bound: how many FdContexts are made for one descriptor
    MaxClose    \* bound: how often a descriptor is closed

ASSUME TableAssumption ==
    /\ Fds \subseteq Nat
    /\ InitSize \in Nat /\ InitSize >= 2
    /\ MaxGen \in Nat \ {0} /\ MaxClose \in Nat
    /\ NoClient \notin Clients
    /\ IsFiniteSet(Clients) /\ IsFiniteSet(Fds)

Event == {"READ", "WRITE"}
Ops   == {"add", "del", "cancel", "cancelAll", "close"}
Gens  == 1..MaxGen
NoFd  == -1

VARIABLES
    size,      \* m_fdContexts.size()
    gen,       \* the FdContexts made so far for each descriptor; the last is in the table
    events,    \* FdContext::events
    waiter,    \* the EventContexts: who is scheduled by triggerEvent()
    m_pendingEventCount,
    call,      \* each client's call: where it is and its arguments
    batch,     \* events of epoll_wait() that a poller has not dispatched yet
    watch,     \* kernel: the context registered with a descriptor (0: none) and its event mask
    level,     \* kernel: what the descriptor is ready for
    edge,      \* kernel: the descriptors on epoll's ready list
    open,      \* kernel: the descriptor is open
    conn,      \* how often the descriptor was closed
    failed     \* the SYLAR_ASSERT that ended the process, or "none"

kernelVars == <<watch, level, edge, open, conn>>
tableVars  == <<size, gen>>
ctxVars    == <<events, waiter, m_pendingEventCount>>
vars == <<tableVars, ctxVars, call, batch, kernelVars, failed>>

NoCall    == [at |-> "idle", op |-> "none", fd |-> NoFd, ev |-> "READ", k |-> 0, conn |-> 0]
Scheduled == [NoCall EXCEPT !.at = "scheduled"]
Unwatched == [k |-> 0, evs |-> {}]

Init ==
    /\ size = InitSize
    /\ gen = [fd \in Fds |-> IF fd < InitSize THEN 1 ELSE 0]
    /\ events = [fd \in Fds |-> [k \in Gens |-> {}]]
    /\ waiter = [fd \in Fds |-> [k \in Gens |-> [ev \in Event |-> NoClient]]]
    /\ m_pendingEventCount = 0
    /\ call = [c \in Clients |-> NoCall]
    /\ batch = [t \in Pollers |-> {}]
    /\ watch = [fd \in Fds |-> Unwatched]
    /\ level = [fd \in Fds |-> {}]
    /\ edge = {}
    /\ open = [fd \in Fds |-> TRUE]
    /\ conn = [fd \in Fds |-> 0]
    /\ failed = "none"

Abort(why) ==
    /\ failed' = why
    /\ UNCHANGED <<tableVars, ctxVars, call, batch, kernelVars>>

-----------------------------------------------------------------------------
(* The kernel's side: epoll with EPOLLET *)

\* What epoll reports of a descriptor: what it was asked for, and hang-ups.
Reported(fd, evs) == level[fd] \cap (evs \cup {"HUP"})

\* epoll_ctl(ADD), epoll_ctl(MOD) and epoll_ctl(DEL), the latter when nothing is left.
\* ADD and MOD look at the descriptor at once.
CtlFails(fd, adds) ==
    \/ ~ open[fd]
    \/ adds /\ watch[fd].k # 0
    \/ ~ adds /\ watch[fd].k = 0

epoll_ctl(fd, k, evs) ==
    /\ watch' = [watch EXCEPT ![fd] = IF evs = {} THEN Unwatched ELSE [k |-> k, evs |-> evs]]
    /\ edge' = IF evs = {} THEN edge \ {fd}
               ELSE IF Reported(fd, evs) # {} THEN edge \cup {fd} ELSE edge
    /\ UNCHANGED <<level, open, conn>>

\* Data, room, or a hang-up arrives; the clients consume it.
Arrive(fd, l) ==
    /\ open[fd]
    /\ level' = [level EXCEPT ![fd] = @ \cup {l}]
    /\ edge' = IF watch[fd].k # 0 /\ l \in watch[fd].evs \cup {"HUP"} THEN edge \cup {fd} ELSE edge
    /\ UNCHANGED <<tableVars, ctxVars, call, batch, watch, open, conn, failed>>

Drain(fd, l) ==
    /\ l \in level[fd]
    /\ level' = [level EXCEPT ![fd] = @ \ {l}]
    /\ UNCHANGED <<tableVars, ctxVars, call, batch, watch, edge, open, conn, failed>>

\* The number of a closed descriptor is given to a new connection.
Reopen(fd) ==
    /\ ~ open[fd]
    /\ open' = [open EXCEPT ![fd] = TRUE]
    /\ UNCHANGED <<tableVars, ctxVars, call, batch, watch, level, edge, conn, failed>>

-----------------------------------------------------------------------------
(* A call's first part: the context is found under m_mutex *)

\* The calls of an operation on the connection that fd is now.
Calling(op, fd) == {c \in Clients : call[c].op = op /\ call[c].fd = fd /\ call[c].conn = conn[fd]}

Call(c, op, fd, ev) ==
    /\ call[c] = NoCall
    /\ open[fd]
    /\ op \in {"cancelAll", "close"} => ev = "READ"    \* they have no event
    /\ op = "add" => \A d \in Calling("add", fd) : call[d].ev # ev
    /\ op = "close" => conn[fd] < MaxClose /\ Calling("close", fd) = {}
    /\ size > fd \/ op \in {"add", "close"}    \* the others return false
    /\ call' = [call EXCEPT ![c] =
          [at |-> IF size > fd THEN "lock"
                 ELSE IF op = "add" THEN "grow"
                 ELSE "closefd",    \* close(): its cancelAll() returned false
           op |-> op, fd |-> fd, ev |-> ev,
           k |-> IF size > fd THEN gen[fd] ELSE 0, conn |-> conn[fd]]]
    /\ UNCHANGED <<tableVars, ctxVars, batch, kernelVars, failed>>

\* contextResize(fd * 1.5), under the write lock: the vector is given that size,
\* whatever it was, and the places that are null get a new FdContext.
contextResize(n) ==
    /\ size' = n
    /\ gen' = [fd \in Fds |-> IF fd < n /\ fd >= size THEN gen[fd] + 1 ELSE gen[fd]]

Grow(c) ==
    /\ call[c].at = "grow"
    /\ \A fd \in Fds : gen[fd] < MaxGen \/ fd < size
    /\ contextResize((3 * call[c].fd) \div 2)
    /\ call' = [call EXCEPT ![c].at = "lock", ![c].k = gen'[call[c].fd]]
    /\ UNCHANGED <<ctxVars, batch, kernelVars, failed>>

-----------------------------------------------------------------------------
(* A call's second part, under the context's mutex *)

\* c's call is over, and what becomes of the clients in S.
Finished(c, S, what) ==
    call' = [d \in Clients |-> IF d = c THEN NoCall ELSE IF d \in S THEN what ELSE call[d]]

Return(c) ==
    /\ Finished(c, {}, NoCall)
    /\ UNCHANGED <<tableVars, ctxVars, batch, kernelVars, failed>>

WaitersOf(fd, k, E) == {waiter[fd][k][ev] : ev \in E}

Emptied(fd, k, E) == [waiter EXCEPT ![fd][k] = [ev \in Event |-> IF ev \in E THEN NoClient ELSE @[ev]]]

\* Mutant: the EventContext keeps its fiber.
SettleKeepsWaiter(fd, k, E) ==
    /\ events' = [events EXCEPT ![fd][k] = @ \ E]
    /\ waiter' = waiter
    /\ m_pendingEventCount' = m_pendingEventCount - Cardinality(E)

\* Mutant: the count goes down once, however many events there were.
SettleCountsOne(fd, k, E) ==
    /\ events' = [events EXCEPT ![fd][k] = @ \ E]
    /\ waiter' = Emptied(fd, k, E)
    /\ m_pendingEventCount' = m_pendingEventCount - 1

\* Mutant: the count goes down for both events, set or not.
SettleCountsBoth(fd, k, E) ==
    /\ events' = [events EXCEPT ![fd][k] = @ \ E]
    /\ waiter' = Emptied(fd, k, E)
    /\ m_pendingEventCount' = m_pendingEventCount - Cardinality(Event)

\* triggerEvent() for every event of E, or delEvent()'s resetContext(): the
\* EventContexts are empty afterwards (schedule() swaps the fiber or cb out).
Settle(fd, k, E) ==
    /\ events' = [events EXCEPT ![fd][k] = @ \ E]
    /\ waiter' = Emptied(fd, k, E)
    /\ m_pendingEventCount' = m_pendingEventCount - Cardinality(E)

\* Mutant: the events that are set already are left out.
AddMaskAlone(fd, k, ev) == {ev}

\* The mask addEvent() gives to epoll_ctl().
AddMask(fd, k, ev) == events[fd][k] \cup {ev}

addEvent(c) ==
    /\ call[c].at = "lock" /\ call[c].op = "add"
    /\ LET fd == call[c].fd
           k  == call[c].k
           ev == call[c].ev
       IN  IF ev \in events[fd][k] THEN Abort("add")
           ELSE IF CtlFails(fd, events[fd][k] = {}) THEN Return(c)
           ELSE IF waiter[fd][k][ev] # NoClient THEN Abort("context")
           ELSE /\ epoll_ctl(fd, k, AddMask(fd, k, ev))
                /\ m_pendingEventCount' = m_pendingEventCount + 1
                /\ events' = [events EXCEPT ![fd][k] = @ \cup {ev}]
                /\ waiter' = [waiter EXCEPT ![fd][k][ev] = c]
                /\ call' = [call EXCEPT ![c].at = "held"]
                /\ UNCHANGED <<tableVars, batch, failed>>

\* One event is taken off its context.
TakeOff(c, what) ==
    LET fd == call[c].fd
        k  == call[c].k
        ev == call[c].ev
    IN  IF ev \notin events[fd][k] \/ CtlFails(fd, FALSE) THEN Return(c)
        ELSE /\ epoll_ctl(fd, k, events[fd][k] \ {ev})
             /\ Settle(fd, k, {ev})
             /\ Finished(c, WaitersOf(fd, k, {ev}), what)
             /\ UNCHANGED <<tableVars, batch, failed>>

\* delEvent() forgets the waiter, cancelEvent() schedules it.
delEvent(c) ==
    /\ call[c].at = "lock" /\ call[c].op = "del"
    /\ TakeOff(c, NoCall)

cancelEvent(c) ==
    /\ call[c].at = "lock" /\ call[c].op = "cancel"
    /\ TakeOff(c, Scheduled)

\* cancelAll() schedules every waiter.  close() goes on to close the descriptor.
Onward(c, S) ==
    call' = [d \in Clients |->
                IF d = c THEN IF call[c].op = "close" THEN [call[c] EXCEPT !.at = "closefd"] ELSE NoCall
                ELSE IF d \in S THEN Scheduled ELSE call[d]]

cancelAll(c) ==
    /\ call[c].at = "lock" /\ call[c].op \in {"cancelAll", "close"}
    /\ LET fd == call[c].fd
           k  == call[c].k
       IN  IF events[fd][k] = {} \/ CtlFails(fd, FALSE)
           THEN /\ Onward(c, {})
                /\ UNCHANGED <<tableVars, ctxVars, batch, kernelVars, failed>>
           ELSE /\ epoll_ctl(fd, k, {})
                /\ Settle(fd, k, events[fd][k])
                /\ Onward(c, WaitersOf(fd, k, events[fd][k]))
                /\ UNCHANGED <<tableVars, batch, failed>>

\* A scheduled client runs again.
Resume(c) ==
    /\ call[c] = Scheduled
    /\ Return(c)

\* close_f(fd): epoll forgets the descriptor.
CloseFd(c) ==
    /\ call[c].at = "closefd"
    /\ Finished(c, {}, NoCall)
    /\ LET fd == call[c].fd
       IN  /\ open' = [open EXCEPT ![fd] = FALSE]
           /\ conn' = [conn EXCEPT ![fd] = @ + 1]
           /\ watch' = [watch EXCEPT ![fd] = Unwatched]
           /\ level' = [level EXCEPT ![fd] = {}]
           /\ edge' = edge \ {fd}
    /\ UNCHANGED <<tableVars, ctxVars, batch, failed>>

-----------------------------------------------------------------------------
(* idle() *)

\* epoll_wait() returns ready descriptors with what they are ready for now.
epoll_wait(t) ==
    /\ batch[t] = {}
    /\ \E S \in SUBSET edge :
          /\ S # {}
          /\ edge' = edge \ S
          /\ batch' = [batch EXCEPT ![t] =
                {e \in {[fd |-> fd, k |-> watch[fd].k, evs |-> Reported(fd, watch[fd].evs)] : fd \in S} :
                    e.evs # {}}]
    /\ UNCHANGED <<tableVars, ctxVars, call, watch, level, open, conn, failed>>

\* real_events: a hang-up stands for every event that is waited for.
RealEvents(e) ==
    (IF "HUP" \in e.evs THEN e.evs \cup events[e.fd][e.k] ELSE e.evs) \cap Event

\* Mutant: the descriptor is taken off epoll whatever is left.
LeftNone(e) == {}

LeftEvents(e) == events[e.fd][e.k] \ RealEvents(e)

\* One turn of idle()'s loop over the events, under the context's mutex.
Dispatch(t) ==
    \E e \in batch[t] :
        LET real == RealEvents(e)
        IN  IF real \cap events[e.fd][e.k] = {} \/ CtlFails(e.fd, FALSE)
            THEN /\ batch' = [batch EXCEPT ![t] = @ \ {e}]
                 /\ UNCHANGED <<tableVars, ctxVars, call, kernelVars, failed>>
            ELSE IF ~ (real \subseteq events[e.fd][e.k]) THEN Abort("trigger")
            ELSE /\ batch' = [batch EXCEPT ![t] = @ \ {e}]
                 /\ epoll_ctl(e.fd, e.k, LeftEvents(e))
                 /\ Settle(e.fd, e.k, real)
                 /\ call' = [c \in Clients |-> IF c \in WaitersOf(e.fd, e.k, real)
                                               THEN Scheduled ELSE call[c]]
                 /\ UNCHANGED <<tableVars, failed>>

-----------------------------------------------------------------------------
Alive == failed = "none"

Kernel(fd) ==
    \/ \E l \in Event \cup {"HUP"} : Arrive(fd, l)
    \/ \E l \in Event : Drain(fd, l)
    \/ Reopen(fd)

ClientStep(c) ==
    \/ Grow(c) \/ addEvent(c) \/ delEvent(c) \/ cancelEvent(c) \/ cancelAll(c) \/ CloseFd(c)
    \/ Resume(c)

PollerStep(t) == epoll_wait(t) \/ Dispatch(t)

Over == ~ Alive /\ UNCHANGED vars

Next ==
    \/ Alive /\ \E fd \in Fds : Kernel(fd)
    \/ Alive /\ \E c \in Clients, op \in Ops, fd \in Fds, ev \in Event : Call(c, op, fd, ev)
    \/ Alive /\ \E c \in Clients : ClientStep(c)
    \/ Alive /\ \E t \in Pollers : PollerStep(t)
    \/ Over

Spec == Init /\ [][Next]_vars

-----------------------------------------------------------------------------
(* Properties *)

CallRec ==
    [at: {"idle", "scheduled", "grow", "lock", "held", "closefd"}, op: Ops \cup {"none"},
     fd: Fds \cup {NoFd}, ev: Event, k: 0..MaxGen, conn: 0..MaxClose]

\* Type correctness of the table, the contexts, the calls and the kernel's state.
TypeOK ==
    /\ size \in Nat
    /\ gen \in [Fds -> 0..MaxGen]
    /\ events \in [Fds -> [Gens -> SUBSET Event]]
    /\ waiter \in [Fds -> [Gens -> [Event -> Clients \cup {NoClient}]]]
    /\ m_pendingEventCount \in Nat
    /\ call \in [Clients -> CallRec]
    /\ batch \in [Pollers -> SUBSET [fd: Fds, k: Gens, evs: SUBSET (Event \cup {"HUP"})]]
    /\ watch \in [Fds -> [k: 0..MaxGen, evs: SUBSET Event]]
    /\ level \in [Fds -> SUBSET (Event \cup {"HUP"})]
    /\ edge \subseteq Fds
    /\ open \in [Fds -> BOOLEAN]
    /\ conn \in [Fds -> 0..MaxClose]
    /\ failed \in {"none", "add", "context", "trigger"}

Places == Fds \X Gens \X Event
Waits  == {p \in Places : p[3] \in events[p[1]][p[2]]}

\* m_pendingEventCount, which decides whether idle() may end, counts the events
\* that are waited for, through every mixture of add, delete, cancel and dispatch.
PendingExact == m_pendingEventCount = Cardinality(Waits)

\* An event is set exactly while its EventContext names a client that waits for
\* it, and no client waits twice: none is scheduled twice, none is forgotten.
WaiterIffEvent ==
    /\ \A p \in Places :
          IF p \in Waits
          THEN LET c == waiter[p[1]][p[2]][p[3]]
               IN  /\ c # NoClient
                   /\ call[c].at = "held" /\ call[c].fd = p[1] /\ call[c].k = p[2] /\ call[c].ev = p[3]
          ELSE waiter[p[1]][p[2]][p[3]] = NoClient
    /\ \A c \in Clients : call[c].at = "held" =>
          waiter[call[c].fd][call[c].k][call[c].ev] = c

\* The client waits on a connection that is still there.
Live(c) == call[c].at = "held" /\ open[call[c].fd] /\ conn[call[c].fd] = call[c].conn

\* The descriptor still has its first FdContext.  addEvent() looks at the size
\* and resizes under two locks: contextResize() may shrink the table for a small
\* descriptor, and the next call for a larger one replaces its context.  Of what
\* epoll does then nothing is said: a call or an event that still has the old
\* context in its hands changes the registration of the new one.
Kept(fd) == gen[fd] = 1

\* Epoll watches every event a client waits for on an open connection, for the
\* context in which it waits, although the mask in the kernel and the context's
\* own are changed by different calls.
KernelWatches ==
    \A c \in Clients : Live(c) /\ Kept(call[c].fd) =>
        /\ watch[call[c].fd].k = call[c].k
        /\ watch[call[c].fd].evs = events[call[c].fd][call[c].k]

\* No edge is lost: when a client waits for what its connection is ready for,
\* epoll has it on the ready list or a poller has it in its batch.
IsReady(c) == {call[c].ev, "HUP"} \cap level[call[c].fd] # {}
ReadyIsReported ==
    \A c \in Clients : Live(c) /\ Kept(call[c].fd) /\ IsReady(c) =>
        \/ call[c].fd \in edge
        \/ \E t \in Pollers : \E e \in batch[t] :
              e.fd = call[c].fd /\ e.k = call[c].k /\ {call[c].ev, "HUP"} \cap e.evs # {}

\* triggerEvent() is called only for events that are set.
TriggerAssertion == failed # "trigger"

=============================================================================
