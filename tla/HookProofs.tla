----------------------------- MODULE HookProofs -----------------------------
(***************************************************************************)
(* Proofs about Hook: the types, that a suspended call has exactly one     *)
(* waker, that timeouts belong to their own calls and stay in force, and   *)
(* that contexts, flags and close() agree with the connection, for any     *)
(* number of fibers, descriptors, connections and calls.                   *)
(***************************************************************************)
EXTENDS Hook, FiniteSetTheorems, TLAPS

\* Which operation a place belongs to, what it knows of its descriptor, and
\* that only a call that has a timeout was cancelled.
Closing == {"cancelAll", "del", "closefd"}
Knows(r) ==
    /\ r.at = "idle" => r.op = "none" /\ ~ r.cancelled
    /\ r.at \in {"socket", "find", "create"} => r.op = "socket"
    /\ r.at \in {"try", "direct", "add"} => r.op \in Waiting
    /\ r.at \in {"arm", "held", "woken"} => r.op \in Waiting \cup {"sleep"}
    /\ r.at = "flag" => r.op \in {"setfl", "fionbio"}
    /\ r.at \in Closing <=> r.op = "close"
    /\ IF r.at \in {"idle", "socket"} \/ r.op = "sleep" THEN r.conn = 0 ELSE r.fd \in Fds /\ r.conn <= conn[r.fd]
    /\ r.cancelled => r.to = "some"
CallsKnow == \A f \in Fibers : Knows(call[f])

\* A timer t belongs to its fiber's call or to an earlier one; only its call's
\* timer_info tells them apart.  That of a sleep is there as long as the sleep.
OwnTimer(t) ==
    /\ t.n <= call[t.f].n
    /\ t.op \in Waiting => t.fd \in Fds
    /\ t.n = call[t.f].n /\ call[t.f].at \notin Outside =>
          /\ t.op = call[t.f].op
          /\ t.op # "sleep" => call[t.f].to = "some"
          /\ t.stage = "noted" => call[t.f].cancelled
    /\ t.op \in Waiting \cup {"sleep"}
    /\ t.op = "sleep" => call[t.f].at = "held" /\ call[t.f].op = "sleep" /\ t.n = call[t.f].n /\ t.stage # "noted"
TimersKnown == \A t \in timers : OwnTimer(t)

SleepTimers(f) == {t \in timers : t.f = f /\ t.op = "sleep"}
SleepHeld == \A f \in Fibers : call[f].at = "held" /\ call[f].op = "sleep" => \E t \in timers : SleepTimers(f) = {t}

\* OneWake, by the places where a fiber waits.
Waits(r, f) == r.at = "held" /\ r.op \in Waiting => waits[r.fd][r.ev] = f
Waited(fd, ev) ==
    waits[fd][ev] # NoFiber =>
        LET r == call[waits[fd][ev]]
        IN  r.at = "held" /\ r.op \in Waiting /\ r.fd = fd /\ r.ev = ev
WaitsMatch ==
    /\ \A f \in Fibers : Waits(call[f], f)
    /\ \A fd \in Fds, ev \in Event : Waited(fd, ev)

\* TimerInForce, from the time the timer is set.
Timed == \A f \in Fibers : call[f].at \in {"add", "held"} /\ call[f].to = "some" /\ ~ call[f].cancelled =>
            \E t \in OwnTimers(f) : t.stage # "noted"

\* Who makes a descriptor's context and who closes it are the only ones that do,
\* and they have its present connection.
Makers == \A f \in Fibers : call[f].at \in {"find", "create"} =>
    /\ open[call[f].fd] /\ call[f].conn = conn[call[f].fd] /\ m_datas[call[f].fd] = NoCtx
    /\ call[f].conn > 0
    /\ \A g \in Fibers \ {f} : call[g].fd = call[f].fd => call[g].conn < call[f].conn
Closers == \A f \in Fibers : call[f].op = "close" =>
    /\ open[call[f].fd] /\ call[f].conn = conn[call[f].fd]
    /\ call[f].at = "closefd" => m_datas[call[f].fd] = NoCtx
    /\ \A g \in Fibers \ {f} : call[g].op = "close" => call[g].fd # call[f].fd
ClosedHasNone == \A fd \in Fds : ~ open[fd] => m_datas[fd] = NoCtx

\* NoThreadBlocks, for users who do not clear FIONBIO: an open descriptor is
\* nonblocking as soon as its maker has made its context.
FlagsKept ==
    /\ \A fd \in Fds : m_datas[fd] # NoCtx => m_datas[fd].sysNonblock
    /\ Fionbio \subseteq {TRUE} =>
          /\ \A f \in Fibers : call[f].at = "flag" => call[f].val
          /\ \A fd \in Fds : open[fd] => nonblock[fd] \/ Unfinished(fd)

\* CloseWakes: a wait that is not late is one that cancelAll() is still to find.
InTime == \A f \in Fibers : call[f].at = "held" /\ call[f].op \in Waiting /\ ~ call[f].late =>
    /\ Own(f) /\ call[f].ev \in watched[call[f].fd]
    /\ \A g \in Fibers : call[g].at \in {"del", "closefd"} => call[g].fd # call[f].fd

IInv == TypeOK /\ CallsKnow /\ TimersKnown /\ SleepHeld /\ WaitsMatch /\ Timed /\ CtxFresh /\ Makers /\ Closers
        /\ ClosedHasNone /\ FlagsKept /\ InTime

USE DEF fdVars, tableVars, vars

-----------------------------------------------------------------------------
\* Types.

LEMMA ConnMax == MaxConn \in Nat /\ 0 \in 0..MaxConn /\ 1 \in 0..MaxConn
  BY HookAssumption

LEMMA NoCallType == ASSUME NEW n \in 0..MaxCalls PROVE [NoCall EXCEPT !.n = n] \in CallState
  BY ConnMax DEF NoCall, CallState, At, Event, Timeout

LEMMA NewCtxType == ASSUME NEW c \in 0..MaxConn PROVE NewCtx(c) \in CtxState /\ NewCtx(c) # NoCtx
  <1>1. [ev \in Event |-> "none"] \in [Event -> Timeout]
    BY DEF Timeout
  <1> DEFINE none == [ev \in Event |-> "none"]
  <1> HIDE DEF none
  <1>2. none \in [Event -> Timeout]
    BY <1>1 DEF none
  <1>3. [conn |-> c, userNonblock |-> FALSE, sysNonblock |-> TRUE, timeout |-> none] \in CtxState
    BY <1>2 DEF CtxState
  <1>4. NewCtx(c) = [conn |-> c, userNonblock |-> FALSE, sysNonblock |-> TRUE, timeout |-> none]
    BY DEF NewCtx, none
  <1> QED
    BY <1>3, <1>4, HookAssumption

\* What ends a call leaves of it, and what changes its place.
LEMMA DoneType ==
  ASSUME TypeOK, NEW f \in Fibers, Done(f)
  PROVE  /\ call' \in [Fibers -> CallState] /\ call'[f] = [NoCall EXCEPT !.n = call[f].n]
         /\ \A g \in Fibers \ {f} : call'[g] = call[g]
  <1>1. call[f].n \in 0..MaxCalls
    BY DEF TypeOK, CallState
  <1>2. [NoCall EXCEPT !.n = call[f].n] \in CallState
    BY <1>1, NoCallType
  <1> QED
    BY <1>2 DEF Done, TypeOK

LEMMA GotoType ==
  ASSUME TypeOK, NEW f \in Fibers, NEW at \in At, Goto(f, at)
  PROVE  /\ call' \in [Fibers -> CallState] /\ call'[f] = [call[f] EXCEPT !.at = at]
         /\ \A g \in Fibers \ {f} : call'[g] = call[g]
  <1>1. call[f] \in CallState
    BY DEF TypeOK
  <1>2. [call[f] EXCEPT !.at = at] \in CallState
    BY <1>1 DEF CallState
  <1> QED
    BY <1>2 DEF Goto, TypeOK

\* The waiters of events are resumed, and nobody else is.
LEMMA WokenType ==
  ASSUME TypeOK, NEW fd \in Fds, NEW E \in SUBSET Event, TakeOff(fd, E)
  PROVE  /\ Woken(fd, E) \in [Fibers -> CallState]
         /\ waits' \in [Fds -> [Event -> Fibers \cup {NoFiber}]] /\ watched' \in [Fds -> SUBSET Event]
         /\ \A d \in Fds \ {fd} : waits'[d] = waits[d] /\ watched'[d] = watched[d]
         /\ \A ev \in Event : waits'[fd][ev] = IF ev \in Set(fd, E) THEN NoFiber ELSE waits[fd][ev]
         /\ watched'[fd] = watched[fd] \ Set(fd, E)
  <1>1. ASSUME NEW g \in Fibers PROVE [call[g] EXCEPT !.at = "woken"] \in CallState /\ call[g] \in CallState
    <2>1. call[g] \in CallState
      BY DEF TypeOK
    <2> QED
      BY <2>1 DEF CallState, At
  <1>2. Woken(fd, E) \in [Fibers -> CallState]
    BY <1>1 DEF Woken
  <1>3. waits \in [Fds -> [Event -> Fibers \cup {NoFiber}]] /\ watched \in [Fds -> SUBSET Event]
    BY DEF TypeOK
  <1> DEFINE S == Set(fd, E)
             w == [ev \in Event |-> IF ev \in S THEN NoFiber ELSE waits[fd][ev]]
  <1>4. waits' = [waits EXCEPT ![fd] = w] /\ watched' = [watched EXCEPT ![fd] = @ \ S]
    BY <1>3 DEF TakeOff
  <1> HIDE DEF S
  <1>5. w \in [Event -> Fibers \cup {NoFiber}]
    BY <1>3
  <1>6. \A ev \in Event : w[ev] = IF ev \in S THEN NoFiber ELSE waits[fd][ev]
    OBVIOUS
  <1> HIDE DEF w
  <1> QED
    BY <1>2, <1>3, <1>4, <1>5, <1>6 DEF S

-----------------------------------------------------------------------------
\* What a step may make of a call r without disturbing the invariants: each
\* of them is then kept whatever the step is.

HeldRec(r) == r.at = "held" /\ r.op \in Waiting
Sleeping(r) == r.at = "held" /\ r.op = "sleep"
Making == {"find", "create"}

\* For the timers.
SameTimer(r, s) ==
    /\ r.n <= s.n
    /\ s.n = r.n /\ s.at \notin Outside => r.at \notin Outside /\ s.op = r.op /\ s.to = r.to /\ s.cancelled = r.cancelled
    /\ Sleeping(r) => Sleeping(s) /\ s.n = r.n
    /\ Sleeping(s) => Sleeping(r)
    /\ s.at \in {"add", "held"} => r.at \in {"add", "held"} /\ s.n = r.n

\* A timer that may go: nobody counts on it.
Spare(t) ==
    /\ t.op # "sleep"
    /\ \/ t.stage = "noted" \/ t.n # call[t.f].n
       \/ call'[t.f].at \notin {"add", "held"} \/ call'[t.f].cancelled

LEMMA TimersFrame ==
  ASSUME IInv, TypeOK', timers' \subseteq timers, \A g \in Fibers : SameTimer(call[g], call'[g]),
         \A t \in timers \ timers' : Spare(t)
  PROVE  TimersKnown' /\ SleepHeld' /\ Timed'
  <1>1. ASSUME NEW g \in Fibers PROVE call[g].n \in Nat /\ call'[g].n \in Nat /\ SameTimer(call[g], call'[g])
    BY <1>1 DEF IInv, TypeOK, CallState
  <1>2. TimersKnown'
    <2> SUFFICES ASSUME NEW t \in timers' PROVE OwnTimer(t)'
      BY DEF TimersKnown
    <2>1. t.f \in Fibers /\ t.n \in Nat /\ OwnTimer(t)
      BY DEF IInv, TypeOK, TimerState, TimersKnown
    <2> QED
      BY <2>1, <1>1 DEF OwnTimer, SameTimer, Sleeping
  <1>3. SleepHeld'
    <2> SUFFICES ASSUME NEW g \in Fibers, Sleeping(call'[g]) PROVE \E t \in timers' : SleepTimers(g)' = {t}
      BY DEF SleepHeld, Sleeping
    <2>1. PICK t \in timers : SleepTimers(g) = {t}
      BY <1>1 DEF SameTimer, Sleeping, IInv, SleepHeld
    <2>2. SleepTimers(g)' = SleepTimers(g)
      BY DEF SleepTimers, Spare
    <2> QED
      BY <2>1, <2>2 DEF SleepTimers
  <1>4. Timed'
    <2> SUFFICES ASSUME NEW g \in Fibers, call'[g].at \in {"add", "held"}, call'[g].to = "some", ~ call'[g].cancelled
                 PROVE  \E t \in OwnTimers(g)' : t.stage # "noted"
      BY DEF Timed
    <2>1. /\ call[g].at \in {"add", "held"} /\ call'[g].n = call[g].n
          /\ call[g].to = "some" /\ ~ call[g].cancelled
      BY <1>1 DEF SameTimer, Outside
    <2>2. PICK t \in OwnTimers(g) : t.stage # "noted"
      BY <2>1 DEF IInv, Timed
    <2>3. t \in timers'
      BY <2>2 DEF OwnTimers, Spare
    <2> QED
      BY <2>1, <2>2, <2>3 DEF OwnTimers
  <1> QED
    BY <1>2, <1>3, <1>4

\* For the event table.
SameWait(r, s) ==
    /\ HeldRec(r) <=> HeldRec(s)
    /\ HeldRec(r) => r.fd = s.fd /\ r.ev = s.ev /\ r.conn = s.conn /\ r.late = s.late
    /\ s.at \in {"del", "closefd"} => r.at \in {"del", "closefd"} /\ r.fd = s.fd

LEMMA MatchFrame ==
  ASSUME IInv, waits' = waits, \A g \in Fibers : SameWait(call[g], call'[g])
  PROVE  WaitsMatch'
  <1>1. ASSUME NEW g \in Fibers PROVE Waits(call[g], g)'
    BY <1>1 DEF SameWait, HeldRec, IInv, WaitsMatch, Waits
  <1>2. ASSUME NEW fd \in Fds, NEW ev \in Event PROVE Waited(fd, ev)'
    <2>1. waits[fd][ev] # NoFiber => waits[fd][ev] \in Fibers
      BY DEF IInv, TypeOK
    <2>2. Waited(fd, ev)
      BY DEF IInv, WaitsMatch
    <2> QED
      BY <2>1, <2>2 DEF SameWait, HeldRec, Waited
  <1> QED
    BY <1>1, <1>2 DEF WaitsMatch

LEMMA WaitsFrame ==
  ASSUME IInv, TypeOK', waits' = waits, watched' = watched, \A g \in Fibers : SameWait(call[g], call'[g]),
         \A fd \in Fds : open[fd] => open'[fd] /\ conn'[fd] = conn[fd]
  PROVE  WaitsMatch' /\ InTime'
  <1>1. WaitsMatch'
    BY MatchFrame
  <1>2. InTime'
    <2> SUFFICES ASSUME NEW g \in Fibers, HeldRec(call'[g]), ~ call'[g].late
                 PROVE  /\ Own(g)' /\ call'[g].ev \in watched'[call'[g].fd]
                        /\ \A h \in Fibers : call'[h].at \in {"del", "closefd"} => call'[h].fd # call'[g].fd
      BY DEF InTime, HeldRec
    <2>1. HeldRec(call[g]) /\ ~ call[g].late /\ call[g].fd = call'[g].fd /\ call[g].ev = call'[g].ev /\ call[g].conn = call'[g].conn
      BY DEF SameWait
    <2>2. /\ Own(g) /\ call[g].ev \in watched[call[g].fd]
          /\ \A h \in Fibers : call[h].at \in {"del", "closefd"} => call[h].fd # call[g].fd
      BY <2>1 DEF IInv, InTime, HeldRec
    <2>3. Own(g)'
      BY <2>1, <2>2 DEF Own
    <2> QED
      BY <2>1, <2>2, <2>3 DEF SameWait
  <1> QED
    BY <1>1, <1>2

\* For the contexts and the flags.
SameCtx(r, s) ==
    /\ s.at \in Making <=> r.at \in Making
    /\ s.op = "close" <=> r.op = "close"
    /\ s.at = "closefd" <=> r.at = "closefd"
    /\ s.at = "flag" => r.at = "flag" /\ s.val = r.val
    /\ s.at \in Making \/ s.op = "close" => s.fd = r.fd /\ s.conn = r.conn
    /\ (s.fd = r.fd /\ s.conn = r.conn) \/ s.conn = 0

LEMMA CtxFrame ==
  ASSUME IInv, TypeOK', \A g \in Fibers : SameCtx(call[g], call'[g]),
         m_datas' = m_datas, open' = open, conn' = conn, nonblock' = nonblock
  PROVE  CtxFresh' /\ Makers' /\ Closers' /\ ClosedHasNone' /\ FlagsKept'
  <1>1. CtxFresh'
    <2> SUFFICES ASSUME NEW fd \in Fds, open[fd], ~ (m_datas[fd] # NoCtx /\ m_datas[fd].conn = conn[fd])
                 PROVE  m_datas[fd] = NoCtx /\ \E f \in Fibers :
                          call'[f].fd = fd /\ call'[f].conn = conn[fd] /\ call'[f].at \in {"find", "create", "closefd"}
      BY DEF CtxFresh
    <2>1. PICK f \in Fibers : m_datas[fd] = NoCtx /\ call[f].fd = fd /\ call[f].conn = conn[fd] /\ call[f].at \in {"find", "create", "closefd"}
      BY DEF IInv, CtxFresh
    <2>2. call[f].at = "closefd" => call[f].op = "close"
      BY DEF IInv, CallsKnow, Knows, Closing
    <2> QED
      BY <2>1, <2>2 DEF SameCtx, Making
  <1>2. Makers'
    <2> SUFFICES ASSUME NEW f \in Fibers, call'[f].at \in Making
                 PROVE  /\ open[call'[f].fd] /\ call'[f].conn = conn[call'[f].fd] /\ m_datas[call'[f].fd] = NoCtx
                        /\ call'[f].conn > 0
                        /\ \A g \in Fibers \ {f} : call'[g].fd = call'[f].fd => call'[g].conn < call'[f].conn
      BY DEF Makers, Making
    <2>1. call[f].at \in Making /\ call'[f].fd = call[f].fd /\ call'[f].conn = call[f].conn
      BY DEF SameCtx
    <2>2. /\ open[call[f].fd] /\ call[f].conn = conn[call[f].fd] /\ m_datas[call[f].fd] = NoCtx /\ call[f].conn > 0
          /\ \A g \in Fibers \ {f} : call[g].fd = call[f].fd => call[g].conn < call[f].conn
      BY <2>1 DEF IInv, Makers, Making
    <2> QED
      BY <2>1, <2>2 DEF SameCtx
  <1>3. Closers'
    BY DEF SameCtx, IInv, Closers
  <1>4. ClosedHasNone'
    BY DEF IInv, ClosedHasNone
  <1>5. FlagsKept'
    <2>1. ASSUME NEW fd \in Fds, Unfinished(fd) PROVE Unfinished(fd)'
      BY <2>1 DEF Unfinished, SameCtx, Making
    <2>2. ASSUME NEW f \in Fibers, call'[f].at = "flag" PROVE call[f].at = "flag" /\ call'[f].val = call[f].val
      BY <2>2 DEF SameCtx
    <2>3. FlagsKept
      BY DEF IInv
    <2> QED
      BY <2>1, <2>2, <2>3 DEF FlagsKept
  <1> QED
    BY <1>1, <1>2, <1>3, <1>4, <1>5

\* For what calls know of their descriptors.
LEMMA KnowsFrame ==
  ASSUME IInv, TypeOK', NEW f \in Fibers, \A g \in Fibers \ {f} : call'[g] = call[g], Knows(call[f])',
         \A fd \in Fds : conn[fd] <= conn'[fd]
  PROVE  CallsKnow'
  <1> SUFFICES ASSUME NEW g \in Fibers, g # f PROVE Knows(call[g])'
    BY DEF CallsKnow
  <1>1. Knows(call[g])
    BY DEF IInv, CallsKnow
  <1>2. \A fd \in Fds : conn[fd] \in Nat /\ conn'[fd] \in Nat
    BY ConnMax DEF IInv, TypeOK
  <1>3. call[g].conn \in Nat
    BY ConnMax DEF IInv, TypeOK, CallState
  <1> QED
    BY <1>1, <1>2, <1>3 DEF Knows

-----------------------------------------------------------------------------
\* Steps that end a call, or change its place and nothing else.

LEMMA SameCalls ==
  ASSUME IInv, NEW g \in Fibers, call'[g] = call[g]
  PROVE  SameTimer(call[g], call'[g]) /\ SameWait(call[g], call'[g]) /\ SameCtx(call[g], call'[g])
  <1>1. call[g].n \in Nat
    BY DEF IInv, TypeOK, CallState
  <1> QED
    BY <1>1 DEF SameTimer, SameWait, SameCtx

\* A call that is not suspended and has no descriptor in its hands ends.
LEMMA EndFrame ==
  ASSUME IInv, NEW f \in Fibers, Done(f), call[f].at \notin {"held"} \cup Making \cup Closing
  PROVE  /\ call' \in [Fibers -> CallState] /\ Knows(call[f])'
         /\ \A g \in Fibers \ {f} : call'[g] = call[g]
         /\ call'[f].at = "idle"
         /\ \A g \in Fibers : SameTimer(call[g], call'[g]) /\ SameWait(call[g], call'[g])
         /\ call[f].at # "flag" => \A g \in Fibers : SameCtx(call[g], call'[g])
  <1>1. /\ call' \in [Fibers -> CallState] /\ call'[f] = [NoCall EXCEPT !.n = call[f].n]
        /\ \A g \in Fibers \ {f} : call'[g] = call[g]
    BY DoneType DEF IInv
  <1>2. /\ call'[f].at = "idle" /\ call'[f].op = "none" /\ call'[f].conn = 0 /\ ~ call'[f].cancelled
        /\ call'[f].n = call[f].n
    BY <1>1 DEF NoCall
  <1>3. Knows(call[f])'
    BY <1>2 DEF Knows, Closing
  <1>4. call[f].n \in Nat /\ call[f].op # "close"
    BY DEF IInv, TypeOK, CallState, CallsKnow, Knows
  <1>5. SameTimer(call[f], call'[f])
    BY <1>2, <1>4 DEF SameTimer, Sleeping, Outside
  <1>6. SameWait(call[f], call'[f])
    BY <1>2 DEF SameWait, HeldRec
  <1>7. SameCtx(call[f], call'[f])
    BY <1>2, <1>4 DEF SameCtx, Making, Closing
  <1> QED
    BY <1>1, <1>2, <1>3, <1>5, <1>6, <1>7, SameCalls

\* A call goes on, or its fiber is suspended without an event or resumed.
LEMMA MoveFrame ==
  ASSUME IInv, NEW f \in Fibers, NEW at \in {"try", "arm", "add", "held", "woken"}, Goto(f, at), conn' = conn,
         call[f].at \in {"try", "arm", "held", "woken"},
         call[f].op = "sleep" <=> at = "held" \/ call[f].at = "held",
         call[f].op = "sleep" => at \in {"held", "woken"}
  PROVE  /\ call' \in [Fibers -> CallState] /\ Knows(call[f])'
         /\ \A g \in Fibers \ {f} : call'[g] = call[g]
         /\ call'[f] = [call[f] EXCEPT !.at = at]
         /\ call'[f].at = at /\ call'[f].op = call[f].op /\ call'[f].n = call[f].n
         /\ call'[f].to = call[f].to /\ call'[f].cancelled = call[f].cancelled
         /\ \A g \in Fibers : SameWait(call[g], call'[g]) /\ SameCtx(call[g], call'[g])
         /\ call[f].op # "sleep" /\ at # "add" => \A g \in Fibers : SameTimer(call[g], call'[g])
  <1>1. /\ call' \in [Fibers -> CallState] /\ call'[f] = [call[f] EXCEPT !.at = at]
        /\ \A g \in Fibers \ {f} : call'[g] = call[g]
    <2>1. at \in At
      BY DEF At
    <2> QED
      BY <2>1, GotoType DEF IInv
  <1>2. call[f] \in CallState /\ Knows(call[f])
    BY DEF IInv, TypeOK, CallsKnow
  <1>3. /\ call'[f].at = at /\ call'[f].op = call[f].op /\ call'[f].fd = call[f].fd /\ call'[f].conn = call[f].conn
        /\ call'[f].n = call[f].n /\ call'[f].to = call[f].to /\ call'[f].cancelled = call[f].cancelled
        /\ call[f].n \in Nat
    BY <1>1, <1>2 DEF CallState
  <1>4. Knows(call[f])'
    BY <1>2, <1>3 DEF Knows, Closing
  <1>5. SameWait(call[f], call'[f])
    BY <1>3 DEF SameWait, HeldRec, Waiting, IoOps
  <1>6. SameCtx(call[f], call'[f])
    BY <1>3 DEF SameCtx, Making
  <1>7. call[f].op # "sleep" /\ at # "add" => SameTimer(call[f], call'[f])
    BY <1>3 DEF SameTimer, Sleeping, Outside
  <1> QED
    BY <1>1, <1>3, <1>4, <1>5, <1>6, <1>7, SameCalls

\* The invariant is kept where each call changes harmlessly and the rest does not change.
LEMMA CallFrame ==
  ASSUME IInv, TypeOK', CallsKnow', timers' \subseteq timers,
         \A t \in timers \ timers' : Spare(t),
         \A g \in Fibers : SameTimer(call[g], call'[g]) /\ SameWait(call[g], call'[g]) /\ SameCtx(call[g], call'[g]),
         waits' = waits, watched' = watched,
         m_datas' = m_datas, open' = open, conn' = conn, nonblock' = nonblock
  PROVE  IInv'
  <1>1. TimersKnown' /\ SleepHeld' /\ Timed'
    BY TimersFrame
  <1>2. WaitsMatch' /\ InTime'
    BY WaitsFrame
  <1>3. CtxFresh' /\ Makers' /\ Closers' /\ ClosedHasNone' /\ FlagsKept'
    BY CtxFrame
  <1> QED
    BY <1>1, <1>2, <1>3 DEF IInv

\* Steps of the kernel, of epoll_wait(), and those that change nothing.
LEMMA QuietStep ==
  ASSUME IInv, TypeOK', UNCHANGED <<call, timers, m_datas, waits, watched, open, conn, nonblock>>
  PROVE  IInv'
  <1>1. CallsKnow'
    <2>1. ASSUME NEW f \in Fibers PROVE Knows(call[f])'
      BY DEF IInv, CallsKnow, Knows
    <2> QED
      BY <2>1 DEF CallsKnow
  <1>2. \A g \in Fibers : SameTimer(call[g], call'[g]) /\ SameWait(call[g], call'[g]) /\ SameCtx(call[g], call'[g])
    BY SameCalls
  <1> QED
    BY <1>1, <1>2, CallFrame

LEMMA KernelStep ==
  ASSUME IInv, NEW fd \in Fds, Connected(fd) \/ \E ev \in Event : Arrive(fd, ev) \/ Report(fd, ev)
  PROVE  IInv'
  <1>1. TypeOK'
    <2>1. TypeOK
      BY DEF IInv
    <2>2. CASE Connected(fd)
      <3>1. /\ sock' \in [Fds -> {"new", "connecting", "up", "failed"}] /\ ready' \in [Fds -> SUBSET Event]
        <4>1. {"WRITE"} \in SUBSET Event /\ Event \in SUBSET Event
          BY DEF Event
        <4>2. CASE sock' = [sock EXCEPT ![fd] = "up"] /\ ready' = [ready EXCEPT ![fd] = {"WRITE"}]
          BY <2>1, <4>1, <4>2 DEF TypeOK
        <4>3. CASE sock' = [sock EXCEPT ![fd] = "failed"] /\ ready' = [ready EXCEPT ![fd] = Event]
          BY <2>1, <4>1, <4>3 DEF TypeOK
        <4> QED
          BY <2>2, <4>2, <4>3 DEF Connected
      <3>2. UNCHANGED <<call, timers, m_datas, waits, watched, batch, open, conn, nonblock, failed>>
        BY <2>2 DEF Connected
      <3> QED
        BY <2>1, <2>2, <3>1, <3>2 DEF TypeOK
    <2>3. ASSUME NEW ev \in Event, Arrive(fd, ev) PROVE TypeOK'
      BY <2>1, <2>3 DEF TypeOK, Arrive
    <2>4. ASSUME NEW ev \in Event, Report(fd, ev) PROVE TypeOK'
      BY <2>1, <2>4 DEF TypeOK, Report
    <2> QED
      BY <2>2, <2>3, <2>4
  <1> QED
    BY <1>1, QuietStep DEF Connected, Arrive, Report

-----------------------------------------------------------------------------
\* socket() and accept(), and the context of their number.

LEMMA GiveOutStep ==
  ASSUME IInv, NEW f \in Fibers, NEW fd \in Fds, NEW state \in {"new", "up"}, GiveOut(f, fd, state),
         call[f].at \in {"socket", "try", "direct"},
         UNCHANGED <<timers, m_datas, tableVars, failed>>, ready' \in [Fds -> SUBSET Event]
  PROVE  IInv'
  <1>1. TypeOK /\ call[f] \in CallState
    BY DEF IInv, TypeOK
  <1>2. PICK c \in 1..MaxConn : /\ \A g \in Fds : conn[g] < c
                                /\ conn' = [conn EXCEPT ![fd] = c]
    BY DEF GiveOut
  <1>3. /\ conn'[fd] = c /\ c \in Nat /\ c > 0 /\ c \in 0..MaxConn
        /\ \A d \in Fds \ {fd} : conn'[d] = conn[d]
        /\ \A d \in Fds : conn[d] \in Nat /\ conn'[d] \in Nat /\ conn[d] <= conn'[d]
        /\ conn' \in [Fds -> 0..MaxConn]
    BY <1>1, <1>2, ConnMax DEF TypeOK
  <1>4. /\ ~ open[fd] /\ open'[fd] /\ \A d \in Fds \ {fd} : open'[d] = open[d] /\ nonblock'[d] = nonblock[d]
        /\ open' \in [Fds -> BOOLEAN] /\ nonblock' \in [Fds -> BOOLEAN]
        /\ sock' \in [Fds -> {"new", "connecting", "up", "failed"}]
    BY <1>1 DEF TypeOK, GiveOut
  <1>5. /\ call' \in [Fibers -> CallState]
        /\ call'[f].at = "find" /\ call'[f].op = "socket" /\ call'[f].fd = fd /\ call'[f].conn = c
        /\ call'[f].n = call[f].n /\ call'[f].to = call[f].to /\ call'[f].cancelled = call[f].cancelled
        /\ \A g \in Fibers \ {f} : call'[g] = call[g]
    <2> DEFINE s == [call[f] EXCEPT !.at = "find", !.op = "socket", !.fd = fd, !.conn = c]
    <2>1. call' = [call EXCEPT ![f] = s]
      BY <1>1, <1>3 DEF GiveOut, TypeOK
    <2>2. s \in CallState
      BY <1>1, <1>3 DEF CallState, At, Ops
    <2>3. /\ s.at = "find" /\ s.op = "socket" /\ s.fd = fd /\ s.conn = c
          /\ s.n = call[f].n /\ s.to = call[f].to /\ s.cancelled = call[f].cancelled
      BY <1>1 DEF CallState
    <2> HIDE DEF s
    <2> QED
      BY <1>1, <2>1, <2>2, <2>3 DEF TypeOK
  <1>6. TypeOK'
    BY <1>1, <1>3, <1>4, <1>5 DEF TypeOK
  <1>7. CallsKnow'
    <2>1. Knows(call[f]) /\ call[f].n \in Nat
      BY <1>1 DEF IInv, CallsKnow, CallState
    <2>2. Knows(call[f])'
      BY <1>3, <1>5, <2>1 DEF Knows, Closing, Waiting, IoOps
    <2> QED
      BY <1>3, <1>5, <1>6, <2>2, KnowsFrame
  <1>8. \A g \in Fibers : SameTimer(call[g], call'[g]) /\ SameWait(call[g], call'[g])
    <2>1. call[f].n \in Nat
      BY <1>1 DEF CallState
    <2>2. SameTimer(call[f], call'[f])
      BY <1>5, <2>1 DEF SameTimer, Sleeping, Outside
    <2>3. SameWait(call[f], call'[f])
      BY <1>5 DEF SameWait, HeldRec
    <2> QED
      BY <1>5, <2>2, <2>3, SameCalls
  <1>9. TimersKnown' /\ SleepHeld' /\ Timed'
    BY <1>6, <1>8, TimersFrame
  <1>10. WaitsMatch' /\ InTime'
    BY <1>3, <1>4, <1>6, <1>8, WaitsFrame
  <1>11. m_datas[fd] = NoCtx
    BY <1>4 DEF IInv, ClosedHasNone
  <1>12. CtxFresh'
    <2>1. ASSUME NEW d \in Fds, d # fd, open[d], m_datas[d] = NoCtx,
                 NEW g \in Fibers, call[g].fd = d, call[g].conn = conn[d], call[g].at \in {"find", "create", "closefd"}
          PROVE  call'[g].fd = d /\ call'[g].conn = conn'[d] /\ call'[g].at \in {"find", "create", "closefd"}
      BY <2>1, <1>3, <1>5
    <2>2. ASSUME NEW d \in Fds, d # fd, open[d] PROVE
              \/ m_datas[d] # NoCtx /\ m_datas[d].conn = conn'[d]
              \/ m_datas[d] = NoCtx /\ \E g \in Fibers :
                    call'[g].fd = d /\ call'[g].conn = conn'[d] /\ call'[g].at \in {"find", "create", "closefd"}
      BY <2>1, <2>2, <1>3 DEF IInv, CtxFresh
    <2> QED
      BY <1>3, <1>4, <1>5, <1>11, <2>2 DEF CtxFresh
  <1>13. \A g \in Fibers : call[g].fd = fd => call[g].conn < c
    <2> SUFFICES ASSUME NEW g \in Fibers, call[g].fd = fd PROVE call[g].conn < c
      OBVIOUS
    <2>1. Knows(call[g]) /\ call[g].conn \in Nat
      BY ConnMax DEF IInv, CallsKnow, TypeOK, CallState
    <2> QED
      BY <2>1, <1>2, <1>3 DEF Knows
  <1>14. Makers'
    <2>1. ASSUME NEW h \in Fibers \ {f}, call[h].at \in {"find", "create"} PROVE call[h].fd # fd /\ call[h].fd \in Fds
      BY <2>1, <1>4 DEF IInv, Makers, CallsKnow, Knows
    <2>2. ASSUME NEW h \in Fibers \ {f}, call'[h].at \in {"find", "create"}
          PROVE  /\ open'[call'[h].fd] /\ call'[h].conn = conn'[call'[h].fd] /\ m_datas[call'[h].fd] = NoCtx
                 /\ call'[h].conn > 0
                 /\ \A g \in Fibers \ {h} : call'[g].fd = call'[h].fd => call'[g].conn < call'[h].conn
      BY <2>1, <2>2, <1>3, <1>4, <1>5 DEF IInv, Makers
    <2> QED
      BY <2>2, <1>3, <1>4, <1>5, <1>11, <1>13 DEF Makers
  <1>15. Closers'
    <2>1. ASSUME NEW h \in Fibers, call'[h].op = "close" PROVE h # f /\ call[h].fd # fd /\ call[h].fd \in Fds /\ call[h].op = "close"
      BY <2>1, <1>4, <1>5 DEF IInv, Closers, CallsKnow, Knows, Closing
    <2> QED
      BY <2>1, <1>3, <1>4, <1>5 DEF IInv, Closers
  <1>16. ClosedHasNone'
    BY <1>4 DEF IInv, ClosedHasNone
  <1>17. FlagsKept'
    <2>1. ASSUME NEW d \in Fds, Unfinished(d) PROVE Unfinished(d)'
      BY <2>1, <1>5 DEF Unfinished
    <2>2. Unfinished(fd)'
      BY <1>5 DEF Unfinished
    <2>3. FlagsKept
      BY DEF IInv
    <2> QED
      BY <2>1, <2>2, <2>3, <1>4, <1>5 DEF FlagsKept
  <1> QED
    BY <1>6, <1>7, <1>9, <1>10, <1>12, <1>14, <1>15, <1>16, <1>17 DEF IInv

LEMMA SocketStep ==
  ASSUME IInv, NEW f \in Fibers, socket(f)
  PROVE  IInv'
  <1>1. PICK fd \in Fds : GiveOut(f, fd, "new")
    BY DEF socket
  <1>2. ready' \in [Fds -> SUBSET Event]
    BY DEF socket, IInv, TypeOK
  <1> QED
    BY <1>1, <1>2, GiveOutStep DEF socket

\* The maker finds no context: nobody else makes one, and who closed the number has deleted the last.
LEMMA GetFindStep ==
  ASSUME IInv, NEW f \in Fibers, getFind(f)
  PROVE  IInv'
  <1>1. call[f].at = "find" /\ Goto(f, "create")
    BY DEF getFind, IInv, Makers
  <1>2. /\ call' \in [Fibers -> CallState] /\ call'[f] = [call[f] EXCEPT !.at = "create"]
        /\ \A g \in Fibers \ {f} : call'[g] = call[g]
    <2>1. "create" \in At
      BY DEF At
    <2> QED
      BY <2>1, <1>1, GotoType DEF IInv
  <1>3. /\ call[f] \in CallState /\ Knows(call[f])
        /\ UNCHANGED <<timers, m_datas, waits, watched, batch, ready, open, conn, sock, nonblock, failed>>
    BY DEF IInv, TypeOK, CallsKnow, getFind
  <1>4. /\ call'[f].at = "create" /\ call'[f].op = call[f].op /\ call'[f].fd = call[f].fd /\ call'[f].conn = call[f].conn
        /\ call'[f].n = call[f].n /\ call'[f].to = call[f].to /\ call'[f].cancelled = call[f].cancelled
        /\ call[f].n \in Nat
    BY <1>2, <1>3 DEF CallState
  <1>5. TypeOK'
    BY <1>2, <1>3 DEF IInv, TypeOK
  <1>6. CallsKnow'
    <2>1. Knows(call[f])'
      BY <1>1, <1>3, <1>4 DEF Knows, Closing
    <2>2. \A fd \in Fds : conn[fd] <= conn'[fd]
      BY <1>3, ConnMax DEF IInv, TypeOK
    <2> QED
      BY <1>2, <1>5, <2>1, <2>2, KnowsFrame
  <1>7. SameTimer(call[f], call'[f])
    BY <1>1, <1>4 DEF SameTimer, Sleeping, Outside
  <1>8. SameWait(call[f], call'[f]) /\ SameCtx(call[f], call'[f])
    BY <1>1, <1>4 DEF SameWait, SameCtx, HeldRec, Making
  <1>9. \A g \in Fibers : SameTimer(call[g], call'[g]) /\ SameWait(call[g], call'[g]) /\ SameCtx(call[g], call'[g])
    BY <1>2, <1>7, <1>8, SameCalls
  <1> QED
    BY <1>3, <1>5, <1>6, <1>9, CallFrame

\* The call ends, and what the frame lemmas ask of it holds.
LEMMA DoneStep ==
  ASSUME IInv, NEW f \in Fibers, Done(f), call[f].at \notin {"held", "flag"} \cup Making \cup Closing,
         UNCHANGED <<m_datas, waits, watched, batch, open, conn, nonblock, failed>>,
         timers' \subseteq timers, \A t \in timers \ timers' : t.f = f /\ t.stage = "armed",
         ready' \in [Fds -> SUBSET Event], sock' \in [Fds -> {"new", "connecting", "up", "failed"}]
  PROVE  IInv'
  <1>1. /\ call' \in [Fibers -> CallState] /\ Knows(call[f])'
        /\ \A g \in Fibers \ {f} : call'[g] = call[g]
        /\ call'[f].at = "idle"
        /\ \A g \in Fibers : SameTimer(call[g], call'[g]) /\ SameWait(call[g], call'[g])
        /\ \A g \in Fibers : SameCtx(call[g], call'[g])
    BY EndFrame
  <1>2. TypeOK'
    BY <1>1 DEF IInv, TypeOK
  <1>3. CallsKnow'
    <2>1. \A fd \in Fds : conn[fd] <= conn'[fd]
      BY ConnMax DEF IInv, TypeOK
    <2> QED
      BY <1>1, <1>2, <2>1, KnowsFrame
  <1>4. \A t \in timers \ timers' : Spare(t)
    BY <1>1 DEF IInv, TimersKnown, OwnTimer, Spare
  <1> QED
    BY <1>1, <1>2, <1>3, <1>4, CallFrame

\* The call goes on.
LEMMA GotoStep ==
  ASSUME IInv, NEW f \in Fibers, NEW at \in {"try", "arm"}, Goto(f, at), call[f].at \in {"try", "woken"},
         call[f].op # "sleep",
         UNCHANGED <<m_datas, waits, watched, batch, open, conn, nonblock, failed>>,
         timers' \subseteq timers, \A t \in timers \ timers' : t.f = f /\ t.stage = "armed",
         ready' \in [Fds -> SUBSET Event], sock' \in [Fds -> {"new", "connecting", "up", "failed"}]
  PROVE  IInv'
  <1>1. /\ call' \in [Fibers -> CallState] /\ Knows(call[f])'
        /\ \A g \in Fibers \ {f} : call'[g] = call[g]
        /\ call'[f].at = at
        /\ \A g \in Fibers : SameTimer(call[g], call'[g]) /\ SameWait(call[g], call'[g]) /\ SameCtx(call[g], call'[g])
    BY MoveFrame
  <1>2. TypeOK'
    BY <1>1 DEF IInv, TypeOK
  <1>3. CallsKnow'
    <2>1. \A fd \in Fds : conn[fd] <= conn'[fd]
      BY ConnMax DEF IInv, TypeOK
    <2> QED
      BY <1>1, <1>2, <2>1, KnowsFrame
  <1>4. \A t \in timers \ timers' : Spare(t)
    BY <1>1 DEF IInv, TimersKnown, OwnTimer, Spare
  <1> QED
    BY <1>1, <1>2, <1>3, <1>4, CallFrame

-----------------------------------------------------------------------------
\* do_io() and connect_with_timeout().

LEMMA TryStep ==
  ASSUME IInv, NEW f \in Fibers, Try(f)
  PROVE  IInv'
  <1>1. /\ call[f].at \in {"try", "direct"} /\ call[f].op \in IoOps
        /\ UNCHANGED <<timers, m_datas, waits, watched, batch, failed>>
    BY DEF Try
  <1>2. ready \in [Fds -> SUBSET Event] /\ sock \in [Fds -> {"new", "connecting", "up", "failed"}]
    BY DEF IInv, TypeOK
  <1>3. CASE Answered(f)
    <2>1. ready' \in [Fds -> SUBSET Event]
      BY <1>2, <1>3 DEF Answered
    <2>2. ASSUME NEW fd \in Fds, GiveOut(f, fd, "up") PROVE IInv'
      BY <1>1, <2>1, <2>2, GiveOutStep
    <2>3. ASSUME Done(f), UNCHANGED fdVars PROVE IInv'
      BY <1>1, <1>2, <2>1, <2>3, DoneStep DEF Making, Closing
    <2> QED
      BY <1>3, <2>2, <2>3 DEF Answered
  <1>4. CASE Goto(f, "arm") /\ call[f].at = "try" /\ UNCHANGED <<ready, fdVars>>
    BY <1>1, <1>2, <1>4, GotoStep DEF IoOps
  <1>5. CASE Done(f) /\ UNCHANGED <<ready, fdVars>>
    BY <1>1, <1>2, <1>5, DoneStep DEF Making, Closing
  <1> QED
    BY <1>3, <1>4, <1>5 DEF Try

LEMMA TryConnectStep ==
  ASSUME IInv, NEW f \in Fibers, TryConnect(f)
  PROVE  IInv'
  <1>1. /\ call[f].at \in {"try", "direct"} /\ call[f].op = "connect"
        /\ UNCHANGED <<timers, m_datas, waits, watched, batch, open, conn, nonblock, failed>>
    BY DEF TryConnect
  <1>2. ready' \in [Fds -> SUBSET Event] /\ sock' \in [Fds -> {"new", "connecting", "up", "failed"}]
    <2>1. ready \in [Fds -> SUBSET Event] /\ sock \in [Fds -> {"new", "connecting", "up", "failed"}]
      BY DEF IInv, TypeOK
    <2>2. {"WRITE"} \in SUBSET Event
      BY DEF Event
    <2> QED
      BY <2>1, <2>2 DEF TryConnect
  <1>3. CASE Done(f)
    BY <1>1, <1>2, <1>3, DoneStep DEF Making, Closing
  <1>4. CASE Goto(f, "arm") /\ call[f].at = "try"
    BY <1>1, <1>2, <1>4, GotoStep
  <1> QED
    BY <1>3, <1>4 DEF TryConnect

LEMMA ResumedStep ==
  ASSUME IInv, NEW f \in Fibers, Resumed(f)
  PROVE  IInv'
  <1>1. /\ call[f].at = "woken" /\ timers' = timers \ Cancelled(f)
        /\ UNCHANGED <<m_datas, waits, watched, batch, ready, open, conn, sock, nonblock, failed>>
    BY DEF Resumed
  <1>2. ready' \in [Fds -> SUBSET Event] /\ sock' \in [Fds -> {"new", "connecting", "up", "failed"}]
    BY <1>1 DEF IInv, TypeOK
  <1>3. timers' \subseteq timers /\ \A t \in timers \ timers' : t.f = f /\ t.stage = "armed"
    BY <1>1 DEF Cancelled, OwnTimers
  <1>4. CASE Goto(f, "try") /\ call[f].op \in IoOps
    BY <1>1, <1>2, <1>3, <1>4, GotoStep DEF IoOps
  <1>5. CASE Done(f)
    BY <1>1, <1>2, <1>3, <1>5, DoneStep DEF Making, Closing
  <1> QED
    BY <1>4, <1>5 DEF Resumed, Retry

\* The timer is there before the event is added, or the sleep begins.
LEMMA ArmStep ==
  ASSUME IInv, NEW f \in Fibers, Arm(f)
  PROVE  IInv'
  <1> DEFINE at == IF call[f].op = "sleep" THEN "held" ELSE "add"
             r == call[f]
             s == call'[f]
             tm == Timer(f)
  <1>1. /\ r.at = "arm" /\ Goto(f, at) /\ timers' = timers \cup Armed(f)
        /\ UNCHANGED <<m_datas, waits, watched, batch, ready, open, conn, sock, nonblock, failed>>
    BY DEF Arm
  <1>2. TypeOK /\ r \in CallState /\ Knows(r) /\ r.n \in Nat
    BY DEF IInv, TypeOK, CallState, CallsKnow
  <1>3. /\ call' \in [Fibers -> CallState] /\ Knows(call[f])'
        /\ \A g \in Fibers \ {f} : call'[g] = call[g]
        /\ s.at = at /\ s.op = r.op /\ s.n = r.n /\ s.to = r.to /\ s.cancelled = r.cancelled
        /\ \A g \in Fibers : SameWait(call[g], call'[g]) /\ SameCtx(call[g], call'[g])
    BY <1>1, MoveFrame
  <1>4. r.op \in Waiting \cup {"sleep"} /\ (r.op # "sleep" => r.fd \in Fds)
    BY <1>1, <1>2 DEF Knows
  <1>5. /\ tm \in TimerState /\ tm.f = f /\ tm.n = r.n /\ tm.op = r.op /\ tm.fd = r.fd /\ tm.stage = "armed"
    <2>1. tm = [f |-> f, n |-> r.n, op |-> r.op, fd |-> r.fd, ev |-> r.ev, stage |-> "armed"]
      BY DEF Timer
    <2>2. r.op \in Ops
      BY <1>4 DEF Waiting, Ops
    <2> HIDE DEF r, tm
    <2> QED
      BY <1>2, <2>1, <2>2 DEF TimerState, CallState
  <1> HIDE DEF tm
  <1>6. Armed(f) = IF r.to = "some" \/ r.op = "sleep" THEN {tm} ELSE {}
    BY DEF Armed, tm
  <1> HIDE DEF at, r, s
  <1>7. TypeOK'
    <2>1. timers' \subseteq TimerState
      BY <1>1, <1>2, <1>5, <1>6 DEF TypeOK
    <2> QED
      BY <1>1, <1>2, <1>3, <2>1 DEF TypeOK
  <1>8. CallsKnow'
    <2>1. \A fd \in Fds : conn[fd] <= conn'[fd]
      BY <1>1, <1>2, ConnMax DEF TypeOK
    <2> QED
      BY <1>3, <1>7, <2>1, KnowsFrame
  <1>9. WaitsMatch' /\ InTime'
    BY <1>1, <1>3, <1>7, WaitsFrame
  <1>10. CtxFresh' /\ Makers' /\ Closers' /\ ClosedHasNone' /\ FlagsKept'
    BY <1>1, <1>3, <1>7, CtxFrame
  <1>11. at = IF r.op = "sleep" THEN "held" ELSE "add"
    BY DEF at, r
  <1>12. r = call[f] /\ s = call'[f]
    BY DEF r, s
  <1>13. \A t \in timers : t.f \in Fibers /\ OwnTimer(t)
    BY DEF IInv, TypeOK, TimerState, TimersKnown
  <1>14. TimersKnown'
    <2>1. ASSUME NEW t \in timers PROVE OwnTimer(t)'
      <3>1. CASE t.f = f
        BY <1>1, <1>3, <1>11, <1>12, <1>13, <3>1 DEF OwnTimer, Outside
      <3>2. CASE t.f # f
        BY <1>3, <1>13, <3>2 DEF OwnTimer
      <3> QED
        BY <3>1, <3>2
    <2>2. ASSUME NEW t, t = tm, r.to = "some" \/ r.op = "sleep" PROVE OwnTimer(t)'
      BY <1>2, <1>3, <1>4, <1>5, <1>11, <1>12, <2>2 DEF OwnTimer, Waiting, IoOps
    <2>3. ASSUME NEW t \in timers' PROVE t \in timers \/ (t = tm /\ (r.to = "some" \/ r.op = "sleep"))
      BY <1>1, <1>6, <2>3
    <2> QED
      BY <2>1, <2>2, <2>3 DEF TimersKnown
  <1>15. SleepHeld'
    <2>1. ASSUME NEW g \in Fibers \ {f} PROVE SleepTimers(g)' = SleepTimers(g)
      BY <1>1, <1>5, <1>6 DEF SleepTimers
    <2>2. r.op = "sleep" => SleepTimers(f)' = {tm} /\ tm \in timers'
      <3>1. SleepTimers(f) = {}
        BY <1>1, <1>12, <1>13 DEF SleepTimers, OwnTimer
      <3> QED
        BY <1>1, <1>5, <1>6, <3>1 DEF SleepTimers
    <2>3. ASSUME NEW g \in Fibers \ {f}, call'[g].at = "held", call'[g].op = "sleep"
          PROVE  \E t \in timers' : SleepTimers(g)' = {t}
      BY <1>1, <1>3, <2>1, <2>3 DEF IInv, SleepHeld
    <2> QED
      BY <1>3, <1>12, <2>2, <2>3 DEF SleepHeld
  <1>16. Timed'
    <2>1. ASSUME NEW g \in Fibers \ {f}, call'[g].at \in {"add", "held"}, call'[g].to = "some", ~ call'[g].cancelled
          PROVE  \E t \in OwnTimers(g)' : t.stage # "noted"
      <3>1. PICK t \in OwnTimers(g) : t.stage # "noted"
        BY <1>3, <2>1 DEF IInv, Timed
      <3>2. t \in OwnTimers(g)'
        BY <1>1, <1>3, <3>1 DEF OwnTimers
      <3> QED
        BY <3>1, <3>2
    <2>2. s.to = "some" => tm \in OwnTimers(f)' /\ tm.stage # "noted"
      BY <1>1, <1>3, <1>5, <1>6, <1>12 DEF OwnTimers
    <2> QED
      BY <1>12, <2>1, <2>2 DEF Timed
  <1> QED
    BY <1>7, <1>8, <1>9, <1>10, <1>14, <1>15, <1>16 DEF IInv

-----------------------------------------------------------------------------
\* The beginning of calls, and the ones that set flags.

LEMMA CallNewStep ==
  ASSUME IInv, NEW f \in Fibers, NEW op \in {"sleep", "socket"}, CallNew(f, op)
  PROVE  IInv'
  <1> DEFINE at == IF op = "sleep" THEN "arm" ELSE "socket"
             s == [NoCall EXCEPT !.at = at, !.op = op, !.n = call[f].n + 1]
  <1>1. /\ call[f].at = "idle" /\ call[f].n < MaxCalls /\ call' = [call EXCEPT ![f] = s]
        /\ UNCHANGED <<timers, m_datas, waits, watched, batch, ready, open, conn, sock, nonblock, failed>>
    BY DEF CallNew
  <1>2. TypeOK /\ call[f].n \in Nat /\ Knows(call[f]) /\ call[f].n + 1 \in 0..MaxCalls
    BY <1>1, HookAssumption DEF IInv, TypeOK, CallState, CallsKnow
  <1>3. at \in {"arm", "socket"} /\ (op = "sleep" <=> at = "arm")
    OBVIOUS
  <1>4. /\ s.at = at /\ s.op = op /\ s.n = call[f].n + 1 /\ s.conn = 0 /\ s.to = "none" /\ ~ s.cancelled
    BY DEF NoCall
  <1>5. s \in CallState
    BY <1>2, ConnMax DEF NoCall, CallState, At, Event, Timeout, Ops
  <1> HIDE DEF at, s
  <1>6. call' \in [Fibers -> CallState] /\ call'[f] = s /\ \A g \in Fibers \ {f} : call'[g] = call[g]
    BY <1>1, <1>2, <1>5 DEF TypeOK
  <1>7. TypeOK'
    BY <1>1, <1>2, <1>6 DEF TypeOK
  <1>8. CallsKnow'
    <2>1. Knows(call[f])'
      BY <1>3, <1>4, <1>6 DEF Knows, Closing
    <2>2. \A fd \in Fds : conn[fd] <= conn'[fd]
      BY <1>1, <1>2, ConnMax DEF TypeOK
    <2> QED
      BY <1>6, <1>7, <2>1, <2>2, KnowsFrame
  <1>9. SameTimer(call[f], s)
    BY <1>1, <1>2, <1>3, <1>4 DEF SameTimer, Sleeping
  <1>10. SameWait(call[f], s)
    BY <1>1, <1>3, <1>4 DEF SameWait, HeldRec
  <1>11. SameCtx(call[f], s)
    BY <1>1, <1>2, <1>3, <1>4 DEF SameCtx, Making, Knows
  <1>12. \A g \in Fibers : SameTimer(call[g], call'[g]) /\ SameWait(call[g], call'[g]) /\ SameCtx(call[g], call'[g])
    BY <1>6, <1>9, <1>10, <1>11, SameCalls
  <1> QED
    BY <1>1, <1>7, <1>8, <1>12, CallFrame

\* A user who may call finds the connection's own context, unless it is closed meanwhile.
LEMMA KnownCtx ==
  ASSUME IInv, NEW op \in Setters \cup {"close"}, NEW fd \in Fds, NEW ev \in Event, Allowed(op, fd, ev)
  PROVE  m_datas[fd] # NoCtx /\ m_datas[fd].conn = conn[fd]
  <1>1. open[fd] /\ ~ Unfinished(fd)
    BY DEF Allowed, Known, Unfinished
  <1>2. ASSUME NEW f \in Fibers, call[f].fd = fd, call[f].conn = conn[fd] PROVE call[f].at # "closefd"
    <2>1. call[f].op # "close"
      BY <1>2 DEF Allowed, Clash, Setters
    <2> QED
      BY <2>1 DEF IInv, CallsKnow, Knows, Closing
  <1> QED
    BY <1>1, <1>2 DEF IInv, CtxFresh, Unfinished

LEMMA SetFlagStep ==
  ASSUME IInv, NEW f \in Fibers, SetFlag(f)
  PROVE  IInv'
  <1>1. /\ call[f].at = "flag" /\ Done(f)
        /\ nonblock' = [nonblock EXCEPT ![call[f].fd] = IF open[call[f].fd] THEN call[f].val ELSE @]
        /\ UNCHANGED <<timers, m_datas, waits, watched, batch, ready, open, conn, sock, failed>>
    BY DEF SetFlag
  <1>2. /\ call' \in [Fibers -> CallState] /\ Knows(call[f])'
        /\ \A g \in Fibers \ {f} : call'[g] = call[g]
        /\ call'[f].at = "idle"
        /\ \A g \in Fibers : SameTimer(call[g], call'[g]) /\ SameWait(call[g], call'[g])
    BY <1>1, EndFrame DEF Making, Closing
  <1>3. call'[f].op = "none" /\ call'[f].conn = 0
    <2>1. call'[f] = [NoCall EXCEPT !.n = call[f].n]
      BY <1>1, DoneType DEF IInv
    <2> QED
      BY <2>1 DEF NoCall
  <1>4. call[f] \in CallState /\ call[f].fd \in Fds /\ call[f].op # "close"
    BY <1>1 DEF IInv, TypeOK, CallsKnow, Knows, Closing
  <1>5. nonblock \in [Fds -> BOOLEAN] /\ nonblock' \in [Fds -> BOOLEAN]
    BY <1>1, <1>4 DEF IInv, TypeOK, CallState
  <1>6. TypeOK'
    BY <1>1, <1>2, <1>5 DEF IInv, TypeOK
  <1>7. CallsKnow'
    <2>1. \A fd \in Fds : conn[fd] <= conn'[fd]
      BY <1>1, ConnMax DEF IInv, TypeOK
    <2> QED
      BY <1>2, <1>6, <2>1, KnowsFrame
  <1>8. TimersKnown' /\ SleepHeld' /\ Timed'
    BY <1>1, <1>2, <1>6, TimersFrame
  <1>9. WaitsMatch' /\ InTime'
    BY <1>1, <1>2, <1>6, WaitsFrame
  <1>10. CtxFresh'
    <2>1. ASSUME NEW g \in Fibers, call[g].at \in {"find", "create", "closefd"} PROVE call'[g] = call[g]
      BY <2>1, <1>1, <1>2
    <2> QED
      BY <2>1, <1>1 DEF IInv, CtxFresh
  <1>11. Makers'
    BY <1>1, <1>2, <1>3 DEF IInv, Makers
  <1>12. Closers'
    BY <1>1, <1>2, <1>3, <1>4 DEF IInv, Closers
  <1>13. ClosedHasNone'
    BY <1>1 DEF IInv, ClosedHasNone
  <1>14. FlagsKept'
    <2>1. ASSUME NEW fd \in Fds, Unfinished(fd) PROVE Unfinished(fd)'
      BY <2>1, <1>1, <1>2 DEF Unfinished
    <2>2. FlagsKept
      BY DEF IInv
    <2>3. ASSUME NEW fd \in Fds, nonblock[fd], call[f].val PROVE nonblock'[fd]
      BY <2>3, <1>1, <1>4, <1>5
    <2>4. ASSUME NEW fd \in Fds, fd # call[f].fd PROVE nonblock'[fd] = nonblock[fd]
      BY <2>4, <1>1, <1>4, <1>5
    <2> QED
      BY <2>1, <2>2, <2>3, <2>4, <1>1, <1>2 DEF FlagsKept
  <1> QED
    BY <1>6, <1>7, <1>8, <1>9, <1>10, <1>11, <1>12, <1>13, <1>14 DEF IInv

\* FdCtx::init() makes the descriptor nonblocking as its context comes to be.
LEMMA GetCreateStep ==
  ASSUME IInv, NEW f \in Fibers, getCreate(f)
  PROVE  IInv'
  <1> DEFINE fd == call[f].fd
  <1>1. /\ call[f].at = "create" /\ Done(f)
        /\ m_datas' = [m_datas EXCEPT ![fd] = NewCtx(conn[fd])]
        /\ nonblock' = [nonblock EXCEPT ![fd] = TRUE]
        /\ UNCHANGED <<timers, waits, watched, batch, ready, open, conn, sock, failed>>
    BY DEF getCreate
  <1>2. /\ call' \in [Fibers -> CallState] /\ call'[f] = [NoCall EXCEPT !.n = call[f].n]
        /\ \A g \in Fibers \ {f} : call'[g] = call[g]
    BY <1>1, DoneType DEF IInv
  <1>3. /\ call'[f].at = "idle" /\ call'[f].op = "none" /\ call'[f].conn = 0 /\ ~ call'[f].cancelled
        /\ call'[f].n = call[f].n
    BY <1>2 DEF NoCall
  <1>4. /\ fd \in Fds /\ call[f].op # "close" /\ call[f].n \in Nat
        /\ open[fd] /\ call[f].conn = conn[fd] /\ \A g \in Fibers \ {f} : call[g].fd = fd => call[g].conn < conn[fd]
        /\ conn[fd] \in 0..MaxConn
    BY <1>1 DEF IInv, TypeOK, CallState, CallsKnow, Knows, Closing, Makers
  <1>5. NewCtx(conn[fd]) \in CtxState /\ NewCtx(conn[fd]) # NoCtx /\ NewCtx(conn[fd]).conn = conn[fd] /\ NewCtx(conn[fd]).sysNonblock
    BY <1>4, NewCtxType DEF NewCtx
  <1>6. /\ m_datas' \in [Fds -> CtxState \cup {NoCtx}] /\ nonblock' \in [Fds -> BOOLEAN]
        /\ m_datas'[fd] = NewCtx(conn[fd]) /\ nonblock'[fd]
        /\ \A d \in Fds \ {fd} : m_datas'[d] = m_datas[d] /\ nonblock'[d] = nonblock[d]
    BY <1>1, <1>4, <1>5 DEF IInv, TypeOK
  <1>7. TypeOK'
    BY <1>1, <1>2, <1>6 DEF IInv, TypeOK
  <1>8. CallsKnow'
    <2>1. Knows(call[f])'
      BY <1>3 DEF Knows, Closing
    <2>2. \A d \in Fds : conn[d] <= conn'[d]
      BY <1>1, ConnMax DEF IInv, TypeOK
    <2> QED
      BY <1>2, <1>7, <2>1, <2>2, KnowsFrame
  <1>9. \A g \in Fibers : SameTimer(call[g], call'[g]) /\ SameWait(call[g], call'[g])
    <2>1. SameTimer(call[f], call'[f])
      BY <1>1, <1>3, <1>4 DEF SameTimer, Sleeping, Outside
    <2>2. SameWait(call[f], call'[f])
      BY <1>1, <1>3 DEF SameWait, HeldRec
    <2> QED
      BY <1>2, <2>1, <2>2, SameCalls
  <1>10. TimersKnown' /\ SleepHeld' /\ Timed'
    BY <1>1, <1>7, <1>9, TimersFrame
  <1>11. WaitsMatch' /\ InTime'
    BY <1>1, <1>7, <1>9, WaitsFrame
  <1>12. fd = call[f].fd
    OBVIOUS
  <1> HIDE DEF fd
  <1>13. CtxFresh'
    <2>1. ASSUME NEW d \in Fds \ {fd}, NEW g \in Fibers, call[g].fd = d PROVE call'[g] = call[g]
      BY <2>1, <1>2, <1>12
    <2> QED
      BY <2>1, <1>1, <1>5, <1>6 DEF IInv, CtxFresh
  <1>14. ASSUME NEW g \in Fibers, call'[g].at \in {"find", "create"} PROVE g # f /\ call[g].fd # fd /\ call[g].fd \in Fds /\ call'[g] = call[g]
    <2>1. g # f /\ call'[g] = call[g]
      BY <1>2, <1>3, <1>14
    <2>2. call[g].fd \in Fds /\ call[g].conn = conn[call[g].fd] /\ call[g].conn \in Nat
      BY <1>14, <2>1, ConnMax DEF IInv, Makers, CallsKnow, Knows, TypeOK, CallState
    <2> QED
      BY <2>1, <2>2, <1>4
  <1>15. Makers'
    <2> SUFFICES ASSUME NEW h \in Fibers, call'[h].at \in {"find", "create"}
                 PROVE  /\ open'[call'[h].fd] /\ call'[h].conn = conn'[call'[h].fd] /\ m_datas'[call'[h].fd] = NoCtx
                        /\ call'[h].conn > 0
                        /\ \A g \in Fibers \ {h} : call'[g].fd = call'[h].fd => call'[g].conn < call'[h].conn
      BY DEF Makers
    <2>1. /\ open[call[h].fd] /\ call[h].conn = conn[call[h].fd] /\ m_datas[call[h].fd] = NoCtx /\ call[h].conn > 0
          /\ \A g \in Fibers \ {h} : call[g].fd = call[h].fd => call[g].conn < call[h].conn
      BY <1>14 DEF IInv, Makers
    <2> QED
      BY <1>1, <1>2, <1>3, <1>6, <1>14, <2>1
  <1>16. Closers'
    <2>1. ASSUME NEW g \in Fibers, call'[g].op = "close" PROVE g # f /\ call[g].fd # fd /\ call[g].fd \in Fds /\ call'[g] = call[g]
      <3>1. g # f /\ call'[g] = call[g]
        BY <1>2, <1>3, <2>1
      <3>2. call[g].fd \in Fds /\ call[g].conn = conn[call[g].fd] /\ call[g].conn \in Nat
        BY <2>1, <3>1, ConnMax DEF IInv, Closers, CallsKnow, Knows, Closing, TypeOK, CallState
      <3> QED
        BY <3>1, <3>2, <1>4
    <2> QED
      BY <2>1, <1>1, <1>6 DEF IInv, Closers
  <1>17. ClosedHasNone'
    BY <1>1, <1>4, <1>6 DEF IInv, ClosedHasNone
  <1>18. FlagsKept'
    <2>1. ASSUME NEW d \in Fds \ {fd}, Unfinished(d) PROVE Unfinished(d)'
      BY <2>1, <1>2, <1>12 DEF Unfinished
    <2>2. FlagsKept
      BY DEF IInv
    <2> QED
      BY <2>1, <2>2, <1>1, <1>2, <1>3, <1>5, <1>6 DEF FlagsKept
  <1> QED
    BY <1>7, <1>8, <1>10, <1>11, <1>13, <1>15, <1>16, <1>17, <1>18 DEF IInv

\* The context that a setter leaves is the one it found, but for the flag or the timeout.
LEMMA SetCtx ==
  ASSUME IInv, NEW fd \in Fds, NEW ev \in Event, NEW val \in BOOLEAN, NEW to \in Timeout,
         \/ m_datas' = m_datas
         \/ m_datas[fd] # NoCtx /\ m_datas' = [m_datas EXCEPT ![fd].timeout[ev] = to]
         \/ m_datas[fd] # NoCtx /\ m_datas' = [m_datas EXCEPT ![fd].userNonblock = val]
  PROVE  /\ m_datas' \in [Fds -> CtxState \cup {NoCtx}]
         /\ \A d \in Fds : /\ m_datas'[d] = NoCtx <=> m_datas[d] = NoCtx
                           /\ m_datas[d] # NoCtx =>
                                m_datas'[d].conn = m_datas[d].conn /\ m_datas'[d].sysNonblock = m_datas[d].sysNonblock
  <1>1. m_datas \in [Fds -> CtxState \cup {NoCtx}]
    BY DEF IInv, TypeOK
  <1>2. CASE m_datas' = m_datas
    BY <1>1, <1>2
  <1>3. ASSUME NEW c \in CtxState, m_datas[fd] # NoCtx, c.conn = m_datas[fd].conn, c.sysNonblock = m_datas[fd].sysNonblock,
               m_datas' = [m_datas EXCEPT ![fd] = c]
        PROVE  /\ m_datas' \in [Fds -> CtxState \cup {NoCtx}]
               /\ \A d \in Fds : /\ m_datas'[d] = NoCtx <=> m_datas[d] = NoCtx
                                 /\ m_datas[d] # NoCtx =>
                                      m_datas'[d].conn = m_datas[d].conn /\ m_datas'[d].sysNonblock = m_datas[d].sysNonblock
    BY <1>1, <1>3, HookAssumption
  <1>4. CASE m_datas[fd] # NoCtx /\ m_datas' = [m_datas EXCEPT ![fd].timeout[ev] = to]
    <2> DEFINE o == [m_datas[fd].timeout EXCEPT ![ev] = to]
               c == [m_datas[fd] EXCEPT !.timeout = o]
    <2>1. m_datas[fd] \in CtxState
      BY <1>1, <1>4
    <2>2. o \in [Event -> Timeout]
      BY <2>1 DEF CtxState
    <2>3. m_datas' = [m_datas EXCEPT ![fd] = c]
      BY <1>1, <1>4, <2>1 DEF CtxState
    <2> HIDE DEF o
    <2>4. c \in CtxState /\ c.conn = m_datas[fd].conn /\ c.sysNonblock = m_datas[fd].sysNonblock
      BY <2>1, <2>2 DEF CtxState
    <2> QED
      BY <1>3, <1>4, <2>3, <2>4
  <1>5. CASE m_datas[fd] # NoCtx /\ m_datas' = [m_datas EXCEPT ![fd].userNonblock = val]
    <2> DEFINE c == [m_datas[fd] EXCEPT !.userNonblock = val]
    <2>1. m_datas[fd] \in CtxState
      BY <1>1, <1>5
    <2>2. m_datas' = [m_datas EXCEPT ![fd] = c]
      BY <1>1, <1>5, <2>1
    <2>3. c \in CtxState /\ c.conn = m_datas[fd].conn /\ c.sysNonblock = m_datas[fd].sysNonblock
      BY <2>1 DEF CtxState
    <2> QED
      BY <1>3, <1>5, <2>2, <2>3
  <1> QED
    BY <1>2, <1>4, <1>5

LEMMA CallStep ==
  ASSUME IInv, NEW f \in Fibers, NEW op \in IoOps \cup {"close", "connect"} \cup Setters, NEW fd \in Fds, NEW ev \in Event,
         NEW val \in BOOLEAN, NEW to \in Timeout, op = "fionbio" => val \in Fionbio,
         Call(f, op, fd, ev, val, to)
  PROVE  IInv'
  <1> DEFINE ctx == m_datas[fd]
             at == get(op, ctx)
             n == call[f].n + 1
             v == SysFlag(op, ctx, val)
             o == IF at # "try" \/ op = "connect" THEN to ELSE ctx.timeout[ev]
             s == IF at = "idle" THEN [NoCall EXCEPT !.n = n]
                  ELSE [NoCall EXCEPT !.at = at, !.op = op, !.fd = fd, !.ev = ev, !.val = v, !.to = o,
                                      !.conn = conn[fd], !.n = n]
  <1>1. /\ call[f].at = "idle" /\ call[f].n < MaxCalls /\ Allowed(op, fd, ev)
        /\ call' = [call EXCEPT ![f] = s]
        /\ UNCHANGED <<timers, waits, watched, batch, ready, open, conn, sock, nonblock, failed>>
    BY DEF Call
  <1>2. TypeOK /\ call[f].n \in Nat /\ Knows(call[f]) /\ n \in 0..MaxCalls /\ conn[fd] \in 0..MaxConn /\ ctx \in CtxState \cup {NoCtx}
    BY <1>1, HookAssumption DEF IInv, TypeOK, CallState, CallsKnow
  <1>3. op \in Setters \cup {"close"} => ctx # NoCtx /\ ctx.conn = conn[fd]
    BY <1>1, KnownCtx
  <1>4. /\ at \in {"idle", "cancelAll", "direct", "try", "flag"}
        /\ at = "cancelAll" <=> op = "close"
        /\ at \in {"direct", "try"} => op \in Waiting
        /\ at = "flag" => op \in {"setfl", "fionbio"}
        /\ at = "try" => ctx # NoCtx
    BY <1>3 DEF get, Setters, IoOps, Waiting
  <1>5. v \in BOOLEAN
    BY <1>2 DEF SysFlag, CtxState
  <1>6. o \in Timeout
    BY <1>2, <1>4 DEF CtxState
  <1>7. at = "flag" /\ Fionbio \subseteq {TRUE} => v = TRUE
    <2>1. ctx # NoCtx => ctx.sysNonblock = TRUE
      BY <1>2 DEF IInv, FlagsKept, CtxState
    <2> QED
      BY <1>3, <1>4, <2>1 DEF SysFlag, Setters
  <1>8. /\ m_datas' \in [Fds -> CtxState \cup {NoCtx}]
        /\ \A d \in Fds : /\ m_datas'[d] = NoCtx <=> m_datas[d] = NoCtx
                          /\ m_datas[d] # NoCtx =>
                               m_datas'[d].conn = m_datas[d].conn /\ m_datas'[d].sysNonblock = m_datas[d].sysNonblock
    <2>1. \/ m_datas' = m_datas
          \/ m_datas[fd] # NoCtx /\ m_datas' = [m_datas EXCEPT ![fd].timeout[ev] = to]
          \/ m_datas[fd] # NoCtx /\ m_datas' = [m_datas EXCEPT ![fd].userNonblock = val]
      BY DEF Call
    <2> HIDE DEF ctx, at, n, v, o, s
    <2> QED
      BY <2>1, SetCtx
  <1> HIDE DEF at, v, o, n
  <1>9. /\ s.n = n /\ s.at = at /\ ~ s.cancelled
        /\ at = "idle" => s.op = "none" /\ s.conn = 0
        /\ at # "idle" => s.op = op /\ s.fd = fd /\ s.conn = conn[fd] /\ s.val = v
    BY DEF NoCall
  <1>10. s \in CallState
    <2>1. op \in Ops
      BY DEF Ops, Setters
    <2> QED
      BY <1>2, <1>4, <1>5, <1>6, <2>1, ConnMax DEF NoCall, CallState, At, Event, Timeout
  <1> HIDE DEF s
  <1>11. call' \in [Fibers -> CallState] /\ call'[f] = s /\ \A g \in Fibers \ {f} : call'[g] = call[g]
    BY <1>1, <1>2, <1>10 DEF TypeOK
  <1>12. TypeOK'
    BY <1>1, <1>2, <1>8, <1>11 DEF TypeOK
  <1>13. CallsKnow'
    <2>1. Knows(call[f])'
      BY <1>1, <1>2, <1>4, <1>9, <1>11, ConnMax DEF Knows, Closing, Waiting, IoOps
    <2>2. \A d \in Fds : conn[d] <= conn'[d]
      BY <1>1, <1>2, ConnMax DEF TypeOK
    <2> QED
      BY <1>11, <1>12, <2>1, <2>2, KnowsFrame
  <1>14. \A g \in Fibers : SameTimer(call[g], call'[g]) /\ SameWait(call[g], call'[g])
    <2>1. SameTimer(call[f], s)
      BY <1>1, <1>2, <1>4, <1>9 DEF SameTimer, Sleeping, n
    <2>2. SameWait(call[f], s)
      BY <1>1, <1>4, <1>9 DEF SameWait, HeldRec
    <2> QED
      BY <1>11, <2>1, <2>2, SameCalls
  <1>15. TimersKnown' /\ SleepHeld' /\ Timed'
    BY <1>1, <1>12, <1>14, TimersFrame
  <1>16. WaitsMatch' /\ InTime'
    BY <1>1, <1>12, <1>14, WaitsFrame
  <1>17. CtxFresh'
    <2>1. ASSUME NEW g \in Fibers, call[g].at \in {"find", "create", "closefd"} PROVE call'[g] = call[g]
      BY <1>1, <1>11, <2>1
    <2> QED
      BY <1>1, <1>8, <2>1 DEF IInv, CtxFresh
  <1>18. open[fd] /\ ~ Unfinished(fd)
    BY <1>1 DEF Allowed, Known, Unfinished
  <1>19. Makers'
    <2> SUFFICES ASSUME NEW h \in Fibers, call'[h].at \in {"find", "create"}
                 PROVE  /\ open'[call'[h].fd] /\ call'[h].conn = conn'[call'[h].fd] /\ m_datas'[call'[h].fd] = NoCtx
                        /\ call'[h].conn > 0
                        /\ \A g \in Fibers \ {h} : call'[g].fd = call'[h].fd => call'[g].conn < call'[h].conn
      BY DEF Makers
    <2>1. h # f /\ call'[h] = call[h]
      BY <1>4, <1>9, <1>11
    <2>2. /\ open[call[h].fd] /\ call[h].conn = conn[call[h].fd] /\ m_datas[call[h].fd] = NoCtx /\ call[h].conn > 0
          /\ \A g \in Fibers \ {h} : call[g].fd = call[h].fd => call[g].conn < call[h].conn
      BY <2>1 DEF IInv, Makers
    <2>3. call[h].fd \in Fds /\ call[h].fd # fd
      BY <1>18, <2>1 DEF IInv, CallsKnow, Knows, Unfinished
    <2>4. s.fd = call[h].fd => s.conn < call[h].conn
      BY <1>9, <2>2, <2>3
    <2> QED
      BY <1>1, <1>8, <1>11, <2>1, <2>2, <2>3, <2>4
  <1>20. Closers'
    <2>1. ASSUME op = "close", NEW g \in Fibers, call[g].op = "close" PROVE call[g].fd # fd
      BY <1>1, <2>1 DEF Allowed, Clash, Setters, IInv, Closers
    <2>2. ASSUME NEW g \in Fibers, call[g].op = "close" PROVE call[g].fd \in Fds
      BY <2>2 DEF IInv, CallsKnow, Knows, Closing
    <2>3. s.op = "close" => op = "close" /\ s.at = "cancelAll" /\ s.fd = fd /\ s.conn = conn[fd]
      BY <1>4, <1>9
    <2> QED
      BY <1>1, <1>8, <1>11, <1>18, <2>1, <2>2, <2>3 DEF IInv, Closers
  <1>21. ClosedHasNone'
    BY <1>1, <1>8 DEF IInv, ClosedHasNone
  <1>22. FlagsKept'
    <2>1. ASSUME NEW d \in Fds, Unfinished(d) PROVE Unfinished(d)'
      BY <2>1, <1>1, <1>11 DEF Unfinished
    <2>2. FlagsKept
      BY DEF IInv
    <2>3. Fionbio \subseteq {TRUE} /\ s.at = "flag" => s.val
      BY <1>7, <1>9
    <2> QED
      BY <2>1, <2>2, <2>3, <1>1, <1>8, <1>11 DEF FlagsKept
  <1> QED
    BY <1>12, <1>13, <1>15, <1>16, <1>17, <1>19, <1>20, <1>21, <1>22 DEF IInv

-----------------------------------------------------------------------------
\* addEvent() and the wake-ups.

LEMMA AddEventStep ==
  ASSUME IInv, NEW f \in Fibers, addEvent(f)
  PROVE  IInv'
  <1> DEFINE c == call[f]
             s == [call[f] EXCEPT !.at = "held", !.late = Late(f)]
  <1>1. /\ c.at = "add"
        /\ UNCHANGED <<m_datas, batch, ready, open, conn, sock, nonblock>>
    BY DEF addEvent
  <1>2. TypeOK /\ c \in CallState /\ Knows(c) /\ c.n \in Nat /\ c.op \in Waiting /\ c.fd \in Fds /\ c.ev \in Event
    BY <1>1 DEF IInv, TypeOK, CallState, CallsKnow, Knows, Waiting, IoOps
  <1>3. CASE failed' = TRUE /\ UNCHANGED <<call, timers, waits, watched>>
    <2>1. TypeOK'
      BY <1>1, <1>2, <1>3 DEF TypeOK
    <2> QED
      BY <1>1, <1>3, <2>1, QuietStep
  <1>4. CASE timers' = timers \ Cancelled(f) /\ Done(f) /\ UNCHANGED <<waits, watched, failed>>
    <2>1. timers' \subseteq timers /\ \A t \in timers \ timers' : t.f = f /\ t.stage = "armed"
      BY <1>4 DEF Cancelled, OwnTimers
    <2>2. ready' \in [Fds -> SUBSET Event] /\ sock' \in [Fds -> {"new", "connecting", "up", "failed"}]
      BY <1>1, <1>2 DEF TypeOK
    <2> QED
      BY <1>1, <1>4, <2>1, <2>2, DoneStep DEF Making, Closing
  <1>5. CASE /\ c.ev \notin EventsOf(c.fd)
             /\ waits' = [waits EXCEPT ![c.fd][c.ev] = f]
             /\ watched' = [watched EXCEPT ![c.fd] = @ \cup {c.ev}]
             /\ call' = [call EXCEPT ![f].at = "held", ![f].late = Late(f)]
             /\ UNCHANGED <<timers, failed>>
    <2>1. Late(f) \in BOOLEAN
      BY DEF Late
    <2>2. s \in CallState
      BY <1>2, <2>1 DEF CallState, At
    <2>3. /\ s.at = "held" /\ s.op = c.op /\ s.fd = c.fd /\ s.ev = c.ev /\ s.conn = c.conn /\ s.n = c.n
          /\ s.to = c.to /\ s.cancelled = c.cancelled /\ s.late = Late(f)
      BY <1>2 DEF CallState
    <2>4. call' = [call EXCEPT ![f] = s]
      BY <1>2, <1>5 DEF TypeOK
    <2> HIDE DEF s
    <2>5. call' \in [Fibers -> CallState] /\ call'[f] = s /\ \A g \in Fibers \ {f} : call'[g] = call[g]
      BY <1>2, <2>2, <2>4 DEF TypeOK
    <2>6. /\ waits' \in [Fds -> [Event -> Fibers \cup {NoFiber}]]
          /\ waits[c.fd][c.ev] = NoFiber /\ waits'[c.fd][c.ev] = f
          /\ \A d \in Fds, ev \in Event : d # c.fd \/ ev # c.ev => waits'[d][ev] = waits[d][ev]
      <3>1. waits \in [Fds -> [Event -> Fibers \cup {NoFiber}]]
        BY <1>2 DEF TypeOK
      <3>2. waits[c.fd][c.ev] = NoFiber
        BY <1>2, <1>5 DEF EventsOf
      <3> HIDE DEF c
      <3>3. /\ c.fd \in Fds /\ c.ev \in Event /\ waits' = [waits EXCEPT ![c.fd][c.ev] = f]
        BY <1>2, <1>5
      <3> QED
        BY <3>1, <3>2, <3>3
    <2>7. /\ watched' \in [Fds -> SUBSET Event] /\ c.ev \in watched'[c.fd]
          /\ \A d \in Fds : watched[d] \subseteq watched'[d]
      BY <1>2, <1>5 DEF TypeOK
    <2>8. TypeOK'
      BY <1>1, <1>2, <1>5, <2>5, <2>6, <2>7 DEF TypeOK
    <2>9. CallsKnow'
      <3>1. Knows(call[f])'
        BY <1>1, <1>2, <2>3, <2>5 DEF Knows, Closing
      <3>2. \A d \in Fds : conn[d] <= conn'[d]
        BY <1>1, <1>2, ConnMax DEF TypeOK
      <3> QED
        BY <2>5, <2>8, <3>1, <3>2, KnowsFrame
    <2>10. \A g \in Fibers : SameTimer(call[g], call'[g]) /\ SameCtx(call[g], call'[g])
      <3>1. SameTimer(call[f], s)
        BY <1>1, <1>2, <2>3 DEF SameTimer, Sleeping, Outside, Waiting, IoOps
      <3>2. SameCtx(call[f], s)
        BY <1>1, <1>2, <2>3 DEF SameCtx, Making
      <3> QED
        BY <2>5, <3>1, <3>2, SameCalls
    <2>11. TimersKnown' /\ SleepHeld' /\ Timed'
      BY <1>5, <2>8, <2>10, TimersFrame
    <2>12. CtxFresh' /\ Makers' /\ Closers' /\ ClosedHasNone' /\ FlagsKept'
      BY <1>1, <2>8, <2>10, CtxFrame
    <2>13. \A g \in Fibers : HeldRec(call[g]) => call[g].fd \in Fds /\ call[g].ev \in Event /\ waits[call[g].fd][call[g].ev] = g
      BY <1>2 DEF IInv, TypeOK, CallState, CallsKnow, Knows, WaitsMatch, Waits, HeldRec, Waiting, IoOps
    <2>14. f # NoFiber
      BY HookAssumption
    <2>15. WaitsMatch'
      <3>1. ASSUME NEW g \in Fibers PROVE Waits(call[g], g)'
        <4>1. CASE g = f
          BY <4>1, <2>3, <2>5, <2>6 DEF Waits
        <4>2. CASE g # f
          <5>1. SUFFICES ASSUME HeldRec(call[g]) PROVE waits'[call[g].fd][call[g].ev] = g
            BY <4>2, <2>5 DEF Waits, HeldRec
          <5>2. g # NoFiber
            BY HookAssumption
          <5> QED
            BY <5>1, <5>2, <2>6, <2>13
        <4> QED
          BY <4>1, <4>2
      <3>2. ASSUME NEW d \in Fds, NEW ev \in Event PROVE Waited(d, ev)'
        <4>1. CASE d = c.fd /\ ev = c.ev
          BY <4>1, <1>2, <2>3, <2>5, <2>6 DEF Waited
        <4>2. CASE d # c.fd \/ ev # c.ev
          <5>1. waits'[d][ev] = waits[d][ev] /\ Waited(d, ev) /\ waits[d][ev] \in Fibers \cup {NoFiber}
            BY <4>2, <1>2, <2>6 DEF IInv, WaitsMatch, TypeOK
          <5>2. waits[d][ev] # f
            BY <5>1, <1>1, <2>14 DEF Waited
          <5> QED
            BY <5>1, <5>2, <2>5 DEF Waited
        <4> QED
          BY <4>1, <4>2
      <3> QED
        BY <3>1, <3>2 DEF WaitsMatch
    <2>16. InTime'
      <3> SUFFICES ASSUME NEW g \in Fibers, HeldRec(call'[g]), ~ call'[g].late
                   PROVE  /\ Own(g)' /\ call'[g].ev \in watched'[call'[g].fd]
                          /\ \A h \in Fibers : call'[h].at \in {"del", "closefd"} => call'[h].fd # call'[g].fd
        BY DEF InTime, HeldRec
      <3>1. \A h \in Fibers : call'[h].at \in {"del", "closefd"} => call[h] = call'[h]
        BY <2>3, <2>5
      <3>2. CASE g = f
        <4>1. ~ Late(f)
          BY <3>2, <2>3, <2>5
        <4>2. Own(f) /\ \A h \in Fibers : call[h].at \in {"del", "closefd"} => call[h].fd # c.fd
          BY <4>1 DEF Late
        <4>3. Own(f)'
          BY <4>2, <1>1, <2>3, <2>5 DEF Own
        <4> QED
          BY <3>1, <3>2, <4>2, <4>3, <2>3, <2>5, <2>7
      <3>3. CASE g # f
        <4>1. call'[g] = call[g] /\ HeldRec(call[g]) /\ ~ call[g].late
          BY <3>3, <2>5
        <4>2. /\ Own(g) /\ call[g].ev \in watched[call[g].fd]
              /\ \A h \in Fibers : call[h].at \in {"del", "closefd"} => call[h].fd # call[g].fd
          BY <4>1 DEF IInv, InTime, HeldRec
        <4>3. Own(g)' /\ call[g].fd \in Fds
          BY <4>1, <4>2, <1>1 DEF Own
        <4> QED
          BY <3>1, <4>1, <4>2, <4>3, <2>7
      <3> QED
        BY <3>2, <3>3
    <2> QED
      BY <2>8, <2>9, <2>11, <2>12, <2>15, <2>16 DEF IInv
  <1> QED
    BY <1>3, <1>4, <1>5 DEF addEvent

LEMMA FireStep ==
  ASSUME IInv, NEW t \in timers, Fire(t)
  PROVE  IInv'
  <1>1. PICK u : u = [t EXCEPT !.stage = "listed"]
    OBVIOUS
  <1>2. /\ t.stage = "armed" /\ timers' = (timers \ {t}) \cup {u}
        /\ UNCHANGED <<call, m_datas, waits, watched, batch, ready, open, conn, sock, nonblock, failed>>
    BY <1>1 DEF Fire
  <1>3. TypeOK /\ t \in TimerState /\ OwnTimer(t)
    BY DEF IInv, TypeOK, TimersKnown
  <1>4. u \in TimerState /\ u.f = t.f /\ u.n = t.n /\ u.op = t.op /\ u.fd = t.fd /\ u.stage = "listed"
    BY <1>1, <1>3 DEF TimerState
  <1>5. TypeOK'
    BY <1>2, <1>3, <1>4 DEF TypeOK
  <1>6. CallsKnow'
    <2>1. ASSUME NEW f \in Fibers PROVE Knows(call[f])'
      BY <1>2 DEF IInv, CallsKnow, Knows
    <2> QED
      BY <2>1 DEF CallsKnow
  <1>7. \A g \in Fibers : SameWait(call[g], call'[g]) /\ SameCtx(call[g], call'[g])
    BY <1>2, SameCalls
  <1>8. WaitsMatch' /\ InTime'
    BY <1>2, <1>5, <1>7, WaitsFrame
  <1>9. CtxFresh' /\ Makers' /\ Closers' /\ ClosedHasNone' /\ FlagsKept'
    BY <1>2, <1>5, <1>7, CtxFrame
  <1>10. TimersKnown'
    <2>1. ASSUME NEW x \in timers PROVE OwnTimer(x)'
      BY <1>2 DEF IInv, TimersKnown, OwnTimer
    <2>2. OwnTimer(u)'
      BY <1>2, <1>3, <1>4 DEF OwnTimer
    <2> QED
      BY <1>2, <2>1, <2>2 DEF TimersKnown
  <1>11. SleepHeld'
    <2> SUFFICES ASSUME NEW g \in Fibers, Sleeping(call'[g]) PROVE \E x \in timers' : SleepTimers(g)' = {x}
      BY DEF SleepHeld, Sleeping
    <2>1. PICK x \in timers : SleepTimers(g) = {x}
      BY <1>2 DEF IInv, SleepHeld, Sleeping
    <2>2. CASE t.f = g /\ t.op = "sleep"
      <3>1. t = x
        BY <2>1, <2>2 DEF SleepTimers
      <3>2. SleepTimers(g)' = {u}
        BY <1>2, <1>4, <2>1, <2>2, <3>1 DEF SleepTimers
      <3> QED
        BY <1>2, <3>2
    <2>3. CASE ~ (t.f = g /\ t.op = "sleep")
      <3>1. SleepTimers(g)' = SleepTimers(g)
        BY <1>2, <1>4, <2>3 DEF SleepTimers
      <3>2. x \in timers'
        BY <2>1, <3>1 DEF SleepTimers
      <3> QED
        BY <2>1, <3>1, <3>2
    <2> QED
      BY <2>2, <2>3
  <1>12. Timed'
    <2> SUFFICES ASSUME NEW g \in Fibers, call'[g].at \in {"add", "held"}, call'[g].to = "some", ~ call'[g].cancelled
                 PROVE  \E x \in OwnTimers(g)' : x.stage # "noted"
      BY DEF Timed
    <2>1. PICK x \in OwnTimers(g) : x.stage # "noted"
      BY <1>2 DEF IInv, Timed
    <2>2. CASE x = t
      BY <1>2, <1>4, <2>1, <2>2 DEF OwnTimers
    <2>3. CASE x # t
      BY <1>2, <2>1, <2>3 DEF OwnTimers
    <2> QED
      BY <2>2, <2>3
  <1> QED
    BY <1>5, <1>6, <1>8, <1>9, <1>10, <1>11, <1>12 DEF IInv

LEMMA RunCallbackStep ==
  ASSUME IInv, NEW t \in timers, RunCallback(t)
  PROVE  IInv'
  <1> DEFINE f == t.f
  <1>1. /\ t.stage = "listed"
        /\ UNCHANGED <<m_datas, waits, watched, batch, ready, open, conn, sock, nonblock, failed>>
    BY DEF RunCallback
  <1>2. TypeOK /\ t \in TimerState /\ OwnTimer(t) /\ f \in Fibers
    BY DEF IInv, TypeOK, TimersKnown, TimerState
  <1>3. /\ call[f] \in CallState /\ Knows(call[f]) /\ call[f].n \in Nat
        /\ \A d \in Fds : conn[d] <= conn'[d]
    BY <1>1, <1>2, ConnMax DEF TypeOK, IInv, CallsKnow, CallState
  <1>4. \A x \in timers : x.f \in Fibers /\ x.n \in Nat /\ OwnTimer(x)
    BY DEF IInv, TypeOK, TimerState, TimersKnown
  <1>5. CASE t.op = "sleep" /\ timers' = timers \ {t} /\ Goto(f, "woken")
    <2>1. call[f].at = "held" /\ call[f].op = "sleep"
      BY <1>2, <1>5 DEF OwnTimer
    <2>2. /\ call' \in [Fibers -> CallState] /\ Knows(call[f])'
          /\ \A g \in Fibers \ {f} : call'[g] = call[g]
          /\ call'[f].at = "woken" /\ call'[f].op = call[f].op /\ call'[f].n = call[f].n
          /\ call'[f].to = call[f].to /\ call'[f].cancelled = call[f].cancelled
          /\ \A g \in Fibers : SameWait(call[g], call'[g]) /\ SameCtx(call[g], call'[g])
      BY <1>1, <1>2, <1>5, <2>1, MoveFrame
    <2>3. TypeOK'
      BY <1>1, <1>2, <1>5, <2>2 DEF TypeOK
    <2>4. CallsKnow'
      BY <1>2, <1>3, <2>2, <2>3, KnowsFrame
    <2>5. WaitsMatch' /\ InTime'
      BY <1>1, <2>2, <2>3, WaitsFrame
    <2>6. CtxFresh' /\ Makers' /\ Closers' /\ ClosedHasNone' /\ FlagsKept'
      BY <1>1, <2>2, <2>3, CtxFrame
    <2>7. ASSUME NEW x \in timers, x.f = f, x.op = "sleep" PROVE x = t
      <3>1. PICK y \in timers : SleepTimers(f) = {y}
        BY <1>2, <2>1 DEF IInv, SleepHeld
      <3> QED
        BY <1>5, <2>7, <3>1 DEF SleepTimers
    <2>8. TimersKnown'
      <3> SUFFICES ASSUME NEW x \in timers' PROVE OwnTimer(x)'
        BY DEF TimersKnown
      <3>1. x \in timers /\ x # t
        BY <1>5
      <3>2. CASE x.f = f
        BY <3>1, <3>2, <1>4, <2>1, <2>2, <2>7 DEF OwnTimer, Outside
      <3>3. CASE x.f # f
        BY <3>1, <3>3, <1>4, <2>2 DEF OwnTimer
      <3> QED
        BY <3>2, <3>3
    <2>9. SleepHeld'
      <3> SUFFICES ASSUME NEW g \in Fibers, Sleeping(call'[g]) PROVE \E x \in timers' : SleepTimers(g)' = {x}
        BY DEF SleepHeld, Sleeping
      <3>1. g # f /\ Sleeping(call[g])
        BY <2>2 DEF Sleeping
      <3>2. PICK x \in timers : SleepTimers(g) = {x}
        BY <3>1 DEF IInv, SleepHeld, Sleeping
      <3>3. SleepTimers(g)' = SleepTimers(g)
        BY <1>5, <3>1 DEF SleepTimers
      <3> QED
        BY <3>2, <3>3 DEF SleepTimers
    <2>10. Timed'
      <3> SUFFICES ASSUME NEW g \in Fibers, call'[g].at \in {"add", "held"}, call'[g].to = "some", ~ call'[g].cancelled
                   PROVE  \E x \in OwnTimers(g)' : x.stage # "noted"
        BY DEF Timed
      <3>1. g # f /\ call'[g] = call[g]
        BY <2>2
      <3>2. PICK x \in OwnTimers(g) : x.stage # "noted"
        BY <3>1 DEF IInv, Timed
      <3>3. x \in OwnTimers(g)'
        BY <1>5, <3>1, <3>2 DEF OwnTimers
      <3> QED
        BY <3>2, <3>3
    <2> QED
      BY <2>3, <2>4, <2>5, <2>6, <2>8, <2>9, <2>10 DEF IInv
  <1>6. CASE t.op # "sleep" /\ ~ Tinfo(t) /\ timers' = timers \ {t} /\ UNCHANGED call
    <2>1. TypeOK'
      BY <1>1, <1>2, <1>6 DEF TypeOK
    <2>2. CallsKnow'
      <3>1. ASSUME NEW g \in Fibers PROVE Knows(call[g])'
        BY <1>1, <1>6 DEF IInv, CallsKnow, Knows
      <3> QED
        BY <3>1 DEF CallsKnow
    <2>3. Spare(t)
      BY <1>6 DEF Tinfo, Spare, Outside
    <2>4. \A g \in Fibers : SameTimer(call[g], call'[g]) /\ SameWait(call[g], call'[g]) /\ SameCtx(call[g], call'[g])
      BY <1>6, SameCalls
    <2>5. timers' \subseteq timers /\ \A x \in timers \ timers' : Spare(x)
      BY <1>6, <2>3
    <2> QED
      BY <1>1, <2>1, <2>2, <2>4, <2>5, CallFrame
  <1>7. CASE /\ t.op # "sleep" /\ Tinfo(t)
             /\ timers' = (timers \ {t}) \cup {[t EXCEPT !.stage = "noted"]}
             /\ call' = [call EXCEPT ![f].cancelled = TRUE]
    <2>1. PICK u : u = [t EXCEPT !.stage = "noted"]
      OBVIOUS
    <2>2. u \in TimerState /\ u.f = f /\ u.n = t.n /\ u.op = t.op /\ u.fd = t.fd /\ u.stage = "noted"
      BY <1>2, <2>1 DEF TimerState
    <2> DEFINE s == [call[f] EXCEPT !.cancelled = TRUE]
    <2>3. /\ s \in CallState /\ s.at = call[f].at /\ s.op = call[f].op /\ s.fd = call[f].fd /\ s.ev = call[f].ev
          /\ s.conn = call[f].conn /\ s.n = call[f].n /\ s.to = call[f].to /\ s.late = call[f].late /\ s.val = call[f].val
          /\ s.cancelled = TRUE
      BY <1>3 DEF CallState
    <2>4. call' = [call EXCEPT ![f] = s]
      BY <1>2, <1>7 DEF TypeOK
    <2> HIDE DEF s
    <2>5. call' \in [Fibers -> CallState] /\ call'[f] = s /\ \A g \in Fibers \ {f} : call'[g] = call[g]
      BY <1>2, <2>3, <2>4 DEF TypeOK
    <2>6. call[f].at \notin Outside /\ t.n = call[f].n /\ call[f].to = "some" /\ t.op = call[f].op
      BY <1>2, <1>7 DEF Tinfo, OwnTimer
    <2>7. timers' = (timers \ {t}) \cup {u}
      BY <1>7, <2>1
    <2>8. TypeOK'
      BY <1>1, <1>2, <2>2, <2>5, <2>7 DEF TypeOK
    <2>9. CallsKnow'
      <3>1. Knows(call[f])'
        BY <1>1, <1>3, <2>3, <2>5, <2>6 DEF Knows, Outside
      <3> QED
        BY <1>2, <1>3, <2>5, <2>8, <3>1, KnowsFrame
    <2>10. \A g \in Fibers : SameWait(call[g], call'[g]) /\ SameCtx(call[g], call'[g])
      <3>1. SameWait(call[f], s)
        BY <2>3 DEF SameWait, HeldRec
      <3>2. SameCtx(call[f], s)
        BY <2>3 DEF SameCtx
      <3> QED
        BY <2>5, <3>1, <3>2, SameCalls
    <2>11. WaitsMatch' /\ InTime'
      BY <1>1, <2>8, <2>10, WaitsFrame
    <2>12. CtxFresh' /\ Makers' /\ Closers' /\ ClosedHasNone' /\ FlagsKept'
      BY <1>1, <2>8, <2>10, CtxFrame
    <2>13. TimersKnown'
      <3>1. ASSUME NEW x \in timers PROVE OwnTimer(x)'
        <4>1. CASE x.f = f
          BY <4>1, <1>4, <2>3, <2>5 DEF OwnTimer
        <4>2. CASE x.f # f
          BY <4>2, <1>4, <2>5 DEF OwnTimer
        <4> QED
          BY <4>1, <4>2
      <3>2. OwnTimer(u)'
        BY <1>2, <1>3, <1>7, <2>2, <2>3, <2>5, <2>6 DEF OwnTimer
      <3> QED
        BY <2>7, <3>1, <3>2 DEF TimersKnown
    <2>14. SleepHeld'
      <3> SUFFICES ASSUME NEW g \in Fibers, Sleeping(call'[g]) PROVE \E x \in timers' : SleepTimers(g)' = {x}
        BY DEF SleepHeld, Sleeping
      <3>1. Sleeping(call[g])
        BY <2>3, <2>5 DEF Sleeping
      <3>2. PICK x \in timers : SleepTimers(g) = {x}
        BY <3>1 DEF IInv, SleepHeld, Sleeping
      <3>3. SleepTimers(g)' = SleepTimers(g)
        BY <1>7, <2>2, <2>7 DEF SleepTimers
      <3> QED
        BY <3>2, <3>3 DEF SleepTimers
    <2>15. Timed'
      <3> SUFFICES ASSUME NEW g \in Fibers, call'[g].at \in {"add", "held"}, call'[g].to = "some", ~ call'[g].cancelled
                   PROVE  \E x \in OwnTimers(g)' : x.stage # "noted"
        BY DEF Timed
      <3>1. g # f /\ call'[g] = call[g]
        BY <2>3, <2>5
      <3>2. PICK x \in OwnTimers(g) : x.stage # "noted"
        BY <3>1 DEF IInv, Timed
      <3>3. x \in OwnTimers(g)'
        BY <2>7, <3>1, <3>2 DEF OwnTimers
      <3> QED
        BY <3>2, <3>3
    <2> QED
      BY <2>8, <2>9, <2>11, <2>12, <2>13, <2>14, <2>15 DEF IInv
  <1> QED
    BY <1>5, <1>6, <1>7 DEF RunCallback

\* What a wake-up makes of the calls: who waits for one of the events is woken,
\* and those who still wait are still in the table, and still watched.
LEMMA Wakes ==
  ASSUME IInv, NEW fd \in Fds, NEW E \in SUBSET Event, TakeOff(fd, E)
  PROVE  /\ \A g \in Fibers : \/ Woken(fd, E)[g] = call[g]
                              \/ HeldRec(call[g]) /\ Woken(fd, E)[g] = [call[g] EXCEPT !.at = "woken"]
         /\ \A g \in Fibers : HeldRec(Woken(fd, E)[g]) =>
                /\ Woken(fd, E)[g] = call[g] /\ waits'[call[g].fd][call[g].ev] = g
                /\ call[g].ev \in watched[call[g].fd] => call[g].ev \in watched'[call[g].fd]
                /\ call[g].fd = fd /\ E = Event => watched[fd] = {}
         /\ \A d \in Fds, ev \in Event : waits'[d][ev] # NoFiber =>
                waits'[d][ev] = waits[d][ev] /\ Woken(fd, E)[waits[d][ev]] = call[waits[d][ev]]
  <1> DEFINE S == Set(fd, E)
             w == Woken(fd, E)
  <1>1. /\ \A d \in Fds \ {fd} : waits'[d] = waits[d] /\ watched'[d] = watched[d]
        /\ \A ev \in Event : waits'[fd][ev] = IF ev \in S THEN NoFiber ELSE waits[fd][ev]
        /\ watched'[fd] = watched[fd] \ S
    BY WokenType DEF IInv
  <1>2. S \subseteq Event /\ \A ev \in S : waits[fd][ev] # NoFiber
    BY DEF Set
  <1>3. \A ev \in Event \ S : ev \in E => waits[fd][ev] = NoFiber \/ watched[fd] = {}
    BY DEF Set
  <1>4. \A g \in Fibers : w[g] = IF \E ev \in S : waits[fd][ev] = g THEN [call[g] EXCEPT !.at = "woken"] ELSE call[g]
    BY DEF Woken
  <1> HIDE DEF S, w
  <1>5. \A d \in Fds, ev \in Event : waits[d][ev] # NoFiber =>
            /\ waits[d][ev] \in Fibers /\ HeldRec(call[waits[d][ev]])
            /\ call[waits[d][ev]].fd = d /\ call[waits[d][ev]].ev = ev
    <2> SUFFICES ASSUME NEW d \in Fds, NEW ev \in Event, waits[d][ev] # NoFiber
                 PROVE  /\ waits[d][ev] \in Fibers /\ HeldRec(call[waits[d][ev]])
                        /\ call[waits[d][ev]].fd = d /\ call[waits[d][ev]].ev = ev
      OBVIOUS
    <2>1. Waited(d, ev) /\ waits[d][ev] \in Fibers
      BY DEF IInv, WaitsMatch, TypeOK
    <2> QED
      BY <2>1 DEF Waited, HeldRec
  <1>6. \A g \in Fibers : HeldRec(call[g]) => call[g].fd \in Fds /\ call[g].ev \in Event /\ waits[call[g].fd][call[g].ev] = g
    BY DEF IInv, TypeOK, CallState, CallsKnow, Knows, WaitsMatch, Waits, HeldRec, Waiting, IoOps
  <1>7. ASSUME NEW g \in Fibers PROVE \/ w[g] = call[g]
                                      \/ HeldRec(call[g]) /\ w[g] = [call[g] EXCEPT !.at = "woken"]
    <2>1. CASE \E ev \in S : waits[fd][ev] = g
      BY <2>1, <1>2, <1>4, <1>5
    <2> QED
      BY <2>1, <1>4
  <1>8. ASSUME NEW g \in Fibers, HeldRec(w[g])
        PROVE  /\ w[g] = call[g] /\ waits'[call[g].fd][call[g].ev] = g
               /\ call[g].ev \in watched[call[g].fd] => call[g].ev \in watched'[call[g].fd]
               /\ call[g].fd = fd /\ E = Event => watched[fd] = {}
    <2>1. ~ \E ev \in S : waits[fd][ev] = g
      <3> SUFFICES ASSUME \E ev \in S : waits[fd][ev] = g PROVE FALSE
        OBVIOUS
      <3>1. w[g] = [call[g] EXCEPT !.at = "woken"] /\ call[g] \in CallState
        BY <1>4 DEF IInv, TypeOK
      <3>2. w[g].at = "woken"
        BY <3>1 DEF CallState
      <3> QED
        BY <3>2, <1>8 DEF HeldRec
    <2>2. w[g] = call[g] /\ HeldRec(call[g])
      BY <2>1, <1>4, <1>8
    <2>3. call[g].fd \in Fds /\ call[g].ev \in Event /\ waits[call[g].fd][call[g].ev] = g /\ g # NoFiber
      BY <2>2, <1>6, HookAssumption
    <2>4. call[g].fd = fd => call[g].ev \notin S
      BY <2>1, <2>3
    <2> QED
      BY <2>2, <2>3, <2>4, <1>1, <1>3
  <1>9. ASSUME NEW d \in Fds, NEW ev \in Event, waits'[d][ev] # NoFiber
        PROVE  waits'[d][ev] = waits[d][ev] /\ w[waits[d][ev]] = call[waits[d][ev]]
    <2>1. waits'[d][ev] = waits[d][ev] /\ (d = fd => ev \notin S)
      BY <1>1, <1>9
    <2>2. /\ waits[d][ev] \in Fibers /\ call[waits[d][ev]].fd = d /\ call[waits[d][ev]].ev = ev
      BY <2>1, <1>5, <1>9
    <2>3. ~ \E e \in S : waits[fd][e] = waits[d][ev]
      BY <2>1, <2>2, <1>2, <1>5
    <2> QED
      BY <2>1, <2>2, <2>3, <1>4
  <1> QED
    BY <1>7, <1>8, <1>9 DEF w

\* The timers, the table and the contexts after a wake-up, whatever becomes of a
\* closer c besides.
LEMMA WokenCalls ==
  ASSUME IInv, NEW fd \in Fds, NEW E \in SUBSET Event, TakeOff(fd, E), NEW g \in Fibers, call'[g] = Woken(fd, E)[g], conn' = conn
  PROVE  SameTimer(call[g], call'[g]) /\ SameCtx(call[g], call'[g]) /\ Knows(call[g])'
  <1>1. call[g] \in CallState /\ call[g].n \in Nat /\ Knows(call[g])
    BY DEF IInv, TypeOK, CallState, CallsKnow
  <1>2. CASE call'[g] = call[g]
    <2>1. Knows(call[g])'
      BY <1>1, <1>2 DEF Knows
    <2> QED
      BY <1>2, <2>1, SameCalls
  <1>3. CASE HeldRec(call[g]) /\ call'[g] = [call[g] EXCEPT !.at = "woken"]
    <2>1. /\ call'[g].at = "woken" /\ call'[g].op = call[g].op /\ call'[g].fd = call[g].fd /\ call'[g].conn = call[g].conn
          /\ call'[g].n = call[g].n /\ call'[g].to = call[g].to /\ call'[g].cancelled = call[g].cancelled
      BY <1>1, <1>3 DEF CallState
    <2>2. Knows(call[g])'
      BY <1>1, <1>3, <2>1 DEF Knows, HeldRec, Closing
    <2>3. SameTimer(call[g], call'[g])
      BY <1>1, <1>3, <2>1 DEF SameTimer, HeldRec, Sleeping, Outside, Waiting, IoOps
    <2>4. SameCtx(call[g], call'[g])
      BY <1>3, <2>1 DEF SameCtx, HeldRec, Making
    <2> QED
      BY <2>2, <2>3, <2>4
  <1> QED
    BY <1>2, <1>3, Wakes

\* A wake-up by a timeout or by idle().
LEMMA WakeStep ==
  ASSUME IInv, NEW fd \in Fds, NEW E \in SUBSET Event, TakeOff(fd, E), call' = Woken(fd, E),
         timers' \subseteq timers, \A t \in timers \ timers' : t.stage = "noted", batch' \in [Fds -> SUBSET Event],
         UNCHANGED <<m_datas, ready, fdVars, failed>>
  PROVE  IInv'
  <1>1. TypeOK /\ call' \in [Fibers -> CallState]
        /\ waits' \in [Fds -> [Event -> Fibers \cup {NoFiber}]] /\ watched' \in [Fds -> SUBSET Event]
    BY WokenType DEF IInv
  <1>2. TypeOK'
    BY <1>1 DEF TypeOK
  <1>3. \A g \in Fibers : SameTimer(call[g], call'[g]) /\ SameCtx(call[g], call'[g]) /\ Knows(call[g])'
    BY WokenCalls
  <1>4. CallsKnow'
    BY <1>3 DEF CallsKnow
  <1>5. \A t \in timers \ timers' : Spare(t)
    BY DEF IInv, TimersKnown, OwnTimer, Spare
  <1>6. TimersKnown' /\ SleepHeld' /\ Timed'
    BY <1>2, <1>3, <1>5, TimersFrame
  <1>7. CtxFresh' /\ Makers' /\ Closers' /\ ClosedHasNone' /\ FlagsKept'
    BY <1>2, <1>3, CtxFrame
  <1>8. /\ \A g \in Fibers : HeldRec(call'[g]) =>
                /\ call'[g] = call[g] /\ waits'[call[g].fd][call[g].ev] = g
                /\ call[g].ev \in watched[call[g].fd] => call[g].ev \in watched'[call[g].fd]
        /\ \A d \in Fds, ev \in Event : waits'[d][ev] # NoFiber =>
                waits'[d][ev] = waits[d][ev] /\ call'[waits[d][ev]] = call[waits[d][ev]]
        /\ \A g \in Fibers : call'[g] = call[g] \/ (HeldRec(call[g]) /\ call'[g] = [call[g] EXCEPT !.at = "woken"])
    BY Wakes
  <1>9. WaitsMatch'
    <2>1. ASSUME NEW g \in Fibers PROVE Waits(call[g], g)'
      BY <1>8 DEF Waits, HeldRec
    <2>2. ASSUME NEW d \in Fds, NEW ev \in Event PROVE Waited(d, ev)'
      BY <1>8 DEF Waited, IInv, WaitsMatch
    <2> QED
      BY <2>1, <2>2 DEF WaitsMatch
  <1>10. InTime'
    <2> SUFFICES ASSUME NEW g \in Fibers, HeldRec(call'[g]), ~ call'[g].late
                 PROVE  /\ Own(g)' /\ call'[g].ev \in watched'[call'[g].fd]
                        /\ \A h \in Fibers : call'[h].at \in {"del", "closefd"} => call'[h].fd # call'[g].fd
      BY DEF InTime, HeldRec
    <2>1. call'[g] = call[g] /\ (call[g].ev \in watched[call[g].fd] => call[g].ev \in watched'[call[g].fd])
      BY <1>8
    <2>2. /\ Own(g) /\ call[g].ev \in watched[call[g].fd]
          /\ \A h \in Fibers : call[h].at \in {"del", "closefd"} => call[h].fd # call[g].fd
      BY <2>1 DEF IInv, InTime, HeldRec
    <2>3. Own(g)'
      BY <2>1, <2>2 DEF Own
    <2>4. ASSUME NEW h \in Fibers, call'[h].at \in {"del", "closefd"} PROVE call'[h] = call[h]
      <3>1. call[h] \in CallState
        BY <1>1 DEF TypeOK
      <3> QED
        BY <2>4, <1>8, <3>1 DEF CallState
    <2> QED
      BY <2>1, <2>2, <2>3, <2>4
  <1> QED
    BY <1>2, <1>4, <1>6, <1>7, <1>9, <1>10 DEF IInv

LEMMA CancelEventStep ==
  ASSUME IInv, NEW t \in timers, cancelEvent(t)
  PROVE  IInv'
  <1>1. t.fd \in Fds /\ t.ev \in Event /\ t.stage = "noted"
    BY DEF IInv, TypeOK, TimerState, TimersKnown, OwnTimer, cancelEvent
  <1>2. {t.ev} \in SUBSET Event /\ batch' \in [Fds -> SUBSET Event]
    BY <1>1 DEF IInv, TypeOK, cancelEvent
  <1> QED
    BY <1>1, <1>2, WakeStep DEF cancelEvent

LEMMA DispatchStep ==
  ASSUME IInv, NEW fd \in Fds, NEW ev \in Event, Dispatch(fd, ev)
  PROVE  IInv'
  <1>1. {ev} \in SUBSET Event /\ batch' \in [Fds -> SUBSET Event]
    BY DEF IInv, TypeOK, Dispatch
  <1> QED
    BY <1>1, WakeStep DEF Dispatch

-----------------------------------------------------------------------------
\* close()

\* cancelAll() leaves nobody who waits in time: a later one is late.
LEMMA CancelAllStep ==
  ASSUME IInv, NEW f \in Fibers, cancelAll(f)
  PROVE  IInv'
  <1> DEFINE fd == call[f].fd
             w == Woken(fd, Event)
             s == [call[f] EXCEPT !.at = "del"]
  <1>1. /\ call[f].at = "cancelAll" /\ TakeOff(fd, Event)
        /\ call' = [w EXCEPT ![f] = [@ EXCEPT !.at = "del"]]
        /\ UNCHANGED <<timers, m_datas, batch, ready, open, conn, sock, nonblock, failed>>
    BY DEF cancelAll, CancelSet, CloseNext, After
  <1>2. TypeOK /\ call[f] \in CallState /\ Knows(call[f]) /\ fd \in Fds /\ call[f].op = "close" /\ call[f].n \in Nat
    BY <1>1 DEF IInv, TypeOK, CallState, CallsKnow, Knows, Closing
  <1>3. /\ w \in [Fibers -> CallState]
        /\ waits' \in [Fds -> [Event -> Fibers \cup {NoFiber}]] /\ watched' \in [Fds -> SUBSET Event]
    BY <1>1, <1>2, WokenType
  <1>4. /\ \A g \in Fibers : HeldRec(w[g]) =>
                /\ w[g] = call[g] /\ waits'[call[g].fd][call[g].ev] = g
                /\ call[g].ev \in watched[call[g].fd] => call[g].ev \in watched'[call[g].fd]
                /\ call[g].fd = fd => watched[fd] = {}
        /\ \A d \in Fds, ev \in Event : waits'[d][ev] # NoFiber =>
                waits'[d][ev] = waits[d][ev] /\ w[waits[d][ev]] = call[waits[d][ev]]
        /\ \A g \in Fibers : w[g] = call[g] \/ (HeldRec(call[g]) /\ w[g] = [call[g] EXCEPT !.at = "woken"])
    BY <1>1, <1>2, Wakes
  <1>5. w[f] = call[f]
    BY <1>1, <1>4 DEF HeldRec
  <1>6. /\ s \in CallState /\ s.at = "del" /\ s.op = call[f].op /\ s.fd = call[f].fd /\ s.conn = call[f].conn
        /\ s.n = call[f].n /\ s.to = call[f].to /\ s.cancelled = call[f].cancelled
    BY <1>2 DEF CallState, At
  <1>7. fd = call[f].fd
    OBVIOUS
  <1>8. \A g \in Fibers \ {f} : w[g] = Woken(fd, Event)[g]
    OBVIOUS
  <1> HIDE DEF fd, w, s
  <1>9. call' \in [Fibers -> CallState] /\ call'[f] = s /\ \A g \in Fibers \ {f} : call'[g] = w[g]
    BY <1>1, <1>3, <1>5, <1>6 DEF s
  <1>10. TypeOK'
    BY <1>1, <1>2, <1>3, <1>9 DEF TypeOK
  <1>11. ASSUME NEW g \in Fibers \ {f}
         PROVE  SameTimer(call[g], call'[g]) /\ SameCtx(call[g], call'[g]) /\ Knows(call[g])'
    <2>1. call'[g] = Woken(fd, Event)[g]
      BY <1>8, <1>9
    <2> QED
      BY <2>1, <1>1, <1>2, WokenCalls
  <1>12. SameTimer(call[f], s)
    BY <1>1, <1>2, <1>6 DEF SameTimer, Sleeping, Outside
  <1>13. SameCtx(call[f], s)
    BY <1>1, <1>6 DEF SameCtx, Making
  <1>14. Knows(call[f])'
    BY <1>1, <1>2, <1>6, <1>9 DEF Knows, Closing
  <1>15. CallsKnow'
    BY <1>11, <1>14 DEF CallsKnow
  <1>16. TimersKnown' /\ SleepHeld' /\ Timed'
    <2>1. \A g \in Fibers : SameTimer(call[g], call'[g])
      BY <1>9, <1>11, <1>12
    <2> QED
      BY <1>1, <1>10, <2>1, TimersFrame
  <1>17. CtxFresh' /\ Makers' /\ Closers' /\ ClosedHasNone' /\ FlagsKept'
    <2>1. \A g \in Fibers : SameCtx(call[g], call'[g])
      BY <1>9, <1>11, <1>13
    <2> QED
      BY <1>1, <1>10, <2>1, CtxFrame
  <1>18. WaitsMatch'
    <2>1. ASSUME NEW g \in Fibers PROVE Waits(call[g], g)'
      BY <1>4, <1>6, <1>9 DEF Waits, HeldRec
    <2>2. ASSUME NEW d \in Fds, NEW ev \in Event, waits'[d][ev] # NoFiber PROVE Waited(d, ev)'
      <3>1. waits'[d][ev] = waits[d][ev] /\ w[waits[d][ev]] = call[waits[d][ev]] /\ waits[d][ev] \in Fibers
        BY <1>2, <1>4, <2>2 DEF TypeOK
      <3>2. Waited(d, ev)
        BY DEF IInv, WaitsMatch
      <3>3. waits[d][ev] # f
        BY <1>1, <2>2, <3>1, <3>2 DEF Waited
      <3> QED
        BY <1>9, <3>1, <3>2, <3>3 DEF Waited
    <2> QED
      BY <2>1, <2>2 DEF WaitsMatch, Waited
  <1>19. InTime'
    <2> SUFFICES ASSUME NEW g \in Fibers, HeldRec(call'[g]), ~ call'[g].late
                 PROVE  /\ Own(g)' /\ call'[g].ev \in watched'[call'[g].fd]
                        /\ \A h \in Fibers : call'[h].at \in {"del", "closefd"} => call'[h].fd # call'[g].fd
      BY DEF InTime, HeldRec
    <2>1. g # f
      BY <1>6, <1>9 DEF HeldRec
    <2>2. /\ call'[g] = call[g] /\ HeldRec(call[g])
          /\ call[g].ev \in watched[call[g].fd] => call[g].ev \in watched'[call[g].fd]
          /\ call[g].fd = fd => watched[fd] = {}
      BY <1>4, <1>9, <2>1
    <2>3. /\ Own(g) /\ call[g].ev \in watched[call[g].fd]
          /\ \A h \in Fibers : call[h].at \in {"del", "closefd"} => call[h].fd # call[g].fd
      BY <2>2 DEF IInv, InTime, HeldRec
    <2>4. call[g].fd # fd
      BY <2>2, <2>3
    <2>5. Own(g)'
      BY <1>1, <2>2, <2>3 DEF Own
    <2>6. ASSUME NEW h \in Fibers \ {f}, call'[h].at \in {"del", "closefd"} PROVE call'[h] = call[h]
      <3>1. call[h] \in CallState
        BY <1>2 DEF TypeOK
      <3> QED
        BY <2>6, <1>4, <1>9, <3>1 DEF CallState
    <2> QED
      BY <1>6, <1>7, <1>9, <2>2, <2>3, <2>4, <2>5, <2>6
  <1> QED
    BY <1>10, <1>15, <1>16, <1>17, <1>18, <1>19 DEF IInv

LEMMA DelStep ==
  ASSUME IInv, NEW f \in Fibers, del(f)
  PROVE  IInv'
  <1> DEFINE fd == call[f].fd
             s == [call[f] EXCEPT !.at = "closefd"]
  <1>1. /\ call[f].at = "del" /\ m_datas' = [m_datas EXCEPT ![fd] = NoCtx] /\ call' = [call EXCEPT ![f] = s]
        /\ UNCHANGED <<timers, waits, watched, batch, ready, open, conn, sock, nonblock, failed>>
    BY DEF del, CloseNext, After, IInv, TypeOK
  <1>2. TypeOK /\ call[f] \in CallState /\ Knows(call[f]) /\ fd \in Fds /\ call[f].op = "close" /\ call[f].n \in Nat
    BY <1>1 DEF IInv, TypeOK, CallState, CallsKnow, Knows, Closing
  <1>3. /\ s \in CallState /\ s.at = "closefd" /\ s.op = call[f].op /\ s.fd = call[f].fd /\ s.conn = call[f].conn
        /\ s.n = call[f].n /\ s.to = call[f].to /\ s.cancelled = call[f].cancelled
    BY <1>2 DEF CallState, At
  <1>4. fd = call[f].fd
    OBVIOUS
  <1> HIDE DEF fd, s
  <1>5. call' \in [Fibers -> CallState] /\ call'[f] = s /\ \A g \in Fibers \ {f} : call'[g] = call[g]
    BY <1>1, <1>2, <1>3 DEF TypeOK
  <1>6. /\ m_datas' \in [Fds -> CtxState \cup {NoCtx}] /\ m_datas'[fd] = NoCtx
        /\ \A d \in Fds \ {fd} : m_datas'[d] = m_datas[d]
    BY <1>1, <1>2 DEF TypeOK
  <1>7. TypeOK'
    BY <1>1, <1>2, <1>5, <1>6 DEF TypeOK
  <1>8. CallsKnow'
    <2>1. Knows(call[f])'
      BY <1>1, <1>2, <1>3, <1>5 DEF Knows, Closing
    <2>2. \A d \in Fds : conn[d] <= conn'[d]
      BY <1>1, <1>2, ConnMax DEF TypeOK
    <2> QED
      BY <1>5, <1>7, <2>1, <2>2, KnowsFrame
  <1>9. \A g \in Fibers : SameTimer(call[g], call'[g]) /\ SameWait(call[g], call'[g])
    <2>1. SameTimer(call[f], s)
      BY <1>1, <1>2, <1>3 DEF SameTimer, Sleeping, Outside
    <2>2. SameWait(call[f], s)
      BY <1>1, <1>3 DEF SameWait, HeldRec
    <2> QED
      BY <1>5, <2>1, <2>2, SameCalls
  <1>10. TimersKnown' /\ SleepHeld' /\ Timed'
    BY <1>1, <1>7, <1>9, TimersFrame
  <1>11. WaitsMatch' /\ InTime'
    BY <1>1, <1>7, <1>9, WaitsFrame
  <1>12. /\ open[fd] /\ call[f].conn = conn[fd]
         /\ \A g \in Fibers \ {f} : call[g].op = "close" => call[g].fd # fd
    BY <1>2, <1>4 DEF IInv, Closers
  <1>13. CtxFresh'
    <2>1. ASSUME NEW d \in Fds \ {fd}, NEW g \in Fibers, call[g].fd = d PROVE call'[g] = call[g]
      BY <2>1, <1>4, <1>5
    <2>2. call'[f].fd = fd /\ call'[f].conn = conn'[fd] /\ call'[f].at = "closefd"
      BY <1>1, <1>3, <1>4, <1>5, <1>12
    <2> QED
      BY <2>1, <2>2, <1>1, <1>6 DEF IInv, CtxFresh
  <1>14. Makers'
    <2> SUFFICES ASSUME NEW h \in Fibers, call'[h].at \in {"find", "create"}
                 PROVE  /\ open'[call'[h].fd] /\ call'[h].conn = conn'[call'[h].fd] /\ m_datas'[call'[h].fd] = NoCtx
                        /\ call'[h].conn > 0
                        /\ \A g \in Fibers \ {h} : call'[g].fd = call'[h].fd => call'[g].conn < call'[h].conn
      BY DEF Makers
    <2>1. h # f /\ call'[h] = call[h]
      BY <1>3, <1>5
    <2>2. /\ open[call[h].fd] /\ call[h].conn = conn[call[h].fd] /\ m_datas[call[h].fd] = NoCtx /\ call[h].conn > 0
          /\ \A g \in Fibers \ {h} : call[g].fd = call[h].fd => call[g].conn < call[h].conn
      BY <2>1 DEF IInv, Makers
    <2>3. call[h].fd \in Fds
      BY <2>1 DEF IInv, CallsKnow, Knows
    <2> QED
      BY <1>1, <1>3, <1>5, <1>6, <2>1, <2>2, <2>3
  <1>15. Closers'
    <2>1. ASSUME NEW g \in Fibers, call[g].op = "close" PROVE call[g].fd \in Fds
      BY <2>1 DEF IInv, CallsKnow, Knows, Closing
    <2> QED
      BY <2>1, <1>1, <1>2, <1>3, <1>4, <1>5, <1>6, <1>12 DEF IInv, Closers
  <1>16. ClosedHasNone'
    BY <1>1, <1>6 DEF IInv, ClosedHasNone
  <1>17. FlagsKept'
    <2>1. ASSUME NEW d \in Fds, Unfinished(d) PROVE Unfinished(d)'
      BY <2>1, <1>1, <1>5 DEF Unfinished
    <2>2. FlagsKept
      BY DEF IInv
    <2> QED
      BY <2>1, <2>2, <1>1, <1>3, <1>5, <1>6 DEF FlagsKept
  <1> QED
    BY <1>7, <1>8, <1>10, <1>11, <1>13, <1>14, <1>15, <1>16, <1>17 DEF IInv

LEMMA CloseFdStep ==
  ASSUME IInv, NEW f \in Fibers, CloseFd(f)
  PROVE  IInv'
  <1> DEFINE fd == call[f].fd
             s == [NoCall EXCEPT !.n = call[f].n]
  <1>1. /\ call[f].at = "closefd" /\ call' = [call EXCEPT ![f] = s]
        /\ open' = [open EXCEPT ![fd] = FALSE] /\ sock' = [sock EXCEPT ![fd] = "new"]
        /\ ready' = [ready EXCEPT ![fd] = {}] /\ watched' = [watched EXCEPT ![fd] = {}]
        /\ UNCHANGED <<timers, m_datas, waits, batch, conn, nonblock, failed>>
    BY DEF CloseFd, CloseNext, After
  <1>2. TypeOK /\ Knows(call[f]) /\ fd \in Fds /\ call[f].op = "close" /\ call[f].n \in Nat /\ call[f].n \in 0..MaxCalls
    BY <1>1 DEF IInv, TypeOK, CallState, CallsKnow, Knows, Closing
  <1>3. s \in CallState /\ s.at = "idle" /\ s.op = "none" /\ s.conn = 0 /\ ~ s.cancelled /\ s.n = call[f].n
    BY <1>2, NoCallType DEF NoCall
  <1>4. fd = call[f].fd
    OBVIOUS
  <1> HIDE DEF fd, s
  <1>5. call' \in [Fibers -> CallState] /\ call'[f] = s /\ \A g \in Fibers \ {f} : call'[g] = call[g]
    BY <1>1, <1>2, <1>3 DEF TypeOK
  <1>6. /\ open' \in [Fds -> BOOLEAN] /\ sock' \in [Fds -> {"new", "connecting", "up", "failed"}]
        /\ ready' \in [Fds -> SUBSET Event] /\ watched' \in [Fds -> SUBSET Event]
        /\ ~ open'[fd] /\ \A d \in Fds \ {fd} : open'[d] = open[d] /\ watched'[d] = watched[d]
    BY <1>1, <1>2 DEF TypeOK
  <1>7. TypeOK'
    BY <1>1, <1>2, <1>5, <1>6 DEF TypeOK
  <1>8. CallsKnow'
    <2>1. Knows(call[f])'
      BY <1>3, <1>5 DEF Knows, Closing
    <2>2. \A d \in Fds : conn[d] <= conn'[d]
      BY <1>1, <1>2, ConnMax DEF TypeOK
    <2> QED
      BY <1>5, <1>7, <2>1, <2>2, KnowsFrame
  <1>9. \A g \in Fibers : SameTimer(call[g], call'[g]) /\ SameWait(call[g], call'[g])
    <2>1. SameTimer(call[f], s)
      BY <1>1, <1>2, <1>3 DEF SameTimer, Sleeping, Outside
    <2>2. SameWait(call[f], s)
      BY <1>1, <1>3 DEF SameWait, HeldRec
    <2> QED
      BY <1>5, <2>1, <2>2, SameCalls
  <1>10. TimersKnown' /\ SleepHeld' /\ Timed'
    BY <1>1, <1>7, <1>9, TimersFrame
  <1>11. WaitsMatch'
    BY <1>1, <1>9, MatchFrame
  <1>12. InTime'
    <2> SUFFICES ASSUME NEW g \in Fibers, HeldRec(call'[g]), ~ call'[g].late
                 PROVE  /\ Own(g)' /\ call'[g].ev \in watched'[call'[g].fd]
                        /\ \A h \in Fibers : call'[h].at \in {"del", "closefd"} => call'[h].fd # call'[g].fd
      BY DEF InTime, HeldRec
    <2>1. g # f /\ call'[g] = call[g]
      BY <1>3, <1>5 DEF HeldRec
    <2>2. /\ Own(g) /\ call[g].ev \in watched[call[g].fd]
          /\ \A h \in Fibers : call[h].at \in {"del", "closefd"} => call[h].fd # call[g].fd
      BY <2>1 DEF IInv, InTime, HeldRec
    <2>3. call[g].fd \in Fds /\ call[g].fd # fd
      BY <1>1, <1>4, <2>2 DEF Own
    <2>4. Own(g)'
      BY <1>1, <1>6, <2>1, <2>2, <2>3 DEF Own
    <2> QED
      BY <1>3, <1>5, <1>6, <2>1, <2>2, <2>3, <2>4
  <1>13. /\ open[fd] /\ call[f].conn = conn[fd] /\ m_datas[fd] = NoCtx
         /\ \A g \in Fibers \ {f} : call[g].op = "close" => call[g].fd # fd
    BY <1>1, <1>2, <1>4 DEF IInv, Closers
  <1>14. CtxFresh'
    <2>1. ASSUME NEW d \in Fds \ {fd}, NEW g \in Fibers, call[g].fd = d PROVE call'[g] = call[g]
      BY <2>1, <1>4, <1>5
    <2> QED
      BY <2>1, <1>1, <1>6 DEF IInv, CtxFresh
  <1>15. Makers'
    <2> SUFFICES ASSUME NEW h \in Fibers, call'[h].at \in {"find", "create"}
                 PROVE  /\ open'[call'[h].fd] /\ call'[h].conn = conn'[call'[h].fd] /\ m_datas'[call'[h].fd] = NoCtx
                        /\ call'[h].conn > 0
                        /\ \A g \in Fibers \ {h} : call'[g].fd = call'[h].fd => call'[g].conn < call'[h].conn
      BY DEF Makers
    <2>1. h # f /\ call'[h] = call[h]
      BY <1>3, <1>5
    <2>2. /\ open[call[h].fd] /\ call[h].conn = conn[call[h].fd] /\ m_datas[call[h].fd] = NoCtx /\ call[h].conn > 0
          /\ \A g \in Fibers \ {h} : call[g].fd = call[h].fd => call[g].conn < call[h].conn
      BY <2>1 DEF IInv, Makers
    <2>3. call[h].fd \in Fds /\ conn[fd] \in Nat
      BY <1>2, <2>1, ConnMax DEF IInv, CallsKnow, Knows, TypeOK
    <2>4. call[h].fd # fd
      BY <1>4, <1>13, <2>1, <2>2, <2>3
    <2> QED
      BY <1>1, <1>3, <1>5, <1>6, <2>1, <2>2, <2>3, <2>4
  <1>16. Closers'
    <2>1. ASSUME NEW g \in Fibers, call'[g].op = "close" PROVE g # f /\ call'[g] = call[g] /\ call[g].fd \in Fds /\ call[g].fd # fd
      <3>1. g # f /\ call'[g] = call[g]
        BY <1>3, <1>5, <2>1
      <3> QED
        BY <1>13, <2>1, <3>1 DEF IInv, CallsKnow, Knows, Closing
    <2> QED
      BY <2>1, <1>1, <1>6 DEF IInv, Closers
  <1>17. ClosedHasNone'
    BY <1>1, <1>6, <1>13 DEF IInv, ClosedHasNone
  <1>18. FlagsKept'
    <2>1. ASSUME NEW d \in Fds, Unfinished(d) PROVE Unfinished(d)'
      BY <2>1, <1>1, <1>5 DEF Unfinished
    <2>2. FlagsKept
      BY DEF IInv
    <2> QED
      BY <2>1, <2>2, <1>1, <1>3, <1>5, <1>6 DEF FlagsKept
  <1> QED
    BY <1>7, <1>8, <1>10, <1>11, <1>12, <1>14, <1>15, <1>16, <1>17, <1>18 DEF IInv

-----------------------------------------------------------------------------
\* The invariant, and what follows from it.

LEMMA HookInit == Init => IInv
  <1> SUFFICES ASSUME NEW up \in InitFds, InitWith(up) PROVE IInv
    BY DEF Init
  <1>1. NoCall \in CallState
    <2>1. [NoCall EXCEPT !.n = 0] \in CallState /\ [NoCall EXCEPT !.n = 0] = NoCall
      BY NoCallType, HookAssumption DEF NoCall
    <2> QED
      BY <2>1
  <1>2. NewCtx(1) \in CtxState /\ NewCtx(1) # NoCtx /\ NewCtx(1).conn = 1 /\ NewCtx(1).sysNonblock
    BY ConnMax, NewCtxType DEF NewCtx
  <1>3. /\ NoCall.at = "idle" /\ NoCall.op = "none" /\ NoCall.conn = 0 /\ ~ NoCall.cancelled /\ ~ NoCall.late
    BY DEF NoCall
  <1>4. \A f \in Fibers : call[f] = NoCall
    BY DEF InitWith
  <1>5. TypeOK
    <2>1. m_datas \in [Fds -> CtxState \cup {NoCtx}] /\ call \in [Fibers -> CallState] /\ timers \subseteq TimerState
      BY <1>1, <1>2 DEF InitWith
    <2>2. conn \in [Fds -> 0..MaxConn] /\ sock \in [Fds -> {"new", "connecting", "up", "failed"}]
      BY ConnMax DEF InitWith
    <2>3. waits \in [Fds -> [Event -> Fibers \cup {NoFiber}]] /\ ready \in [Fds -> SUBSET Event]
      BY DEF InitWith
    <2>4. watched \in [Fds -> SUBSET Event] /\ batch \in [Fds -> SUBSET Event] /\ failed \in BOOLEAN
      BY DEF InitWith
    <2>5. \A fd \in Fds : (fd \in up) \in BOOLEAN
      OBVIOUS
    <2>6. open \in [Fds -> BOOLEAN]
      BY <2>5, Zenon DEF InitWith
    <2>7. nonblock \in [Fds -> BOOLEAN]
      BY <2>5, Zenon DEF InitWith
    <2> QED
      BY <2>1, <2>2, <2>3, <2>4, <2>6, <2>7 DEF TypeOK
  <1>6. CallsKnow
    BY <1>3, <1>4 DEF CallsKnow, Knows, Closing
  <1>7. TimersKnown /\ SleepHeld /\ Timed
    BY <1>3, <1>4 DEF InitWith, TimersKnown, SleepHeld, Timed
  <1>8. WaitsMatch
    BY <1>3, <1>4 DEF InitWith, WaitsMatch, Waits, Waited
  <1>9. CtxFresh
    BY <1>2 DEF InitWith, CtxFresh
  <1>10. Makers /\ Closers /\ InTime
    BY <1>3, <1>4 DEF Makers, Closers, InTime
  <1>11. ClosedHasNone
    BY DEF InitWith, ClosedHasNone
  <1>12. FlagsKept
    BY <1>2, <1>3, <1>4 DEF InitWith, FlagsKept
  <1> QED
    BY <1>5, <1>6, <1>7, <1>8, <1>9, <1>10, <1>11, <1>12 DEF IInv

LEMMA CallsStep ==
  ASSUME IInv, NEW f \in Fibers, Calls(f)
  PROVE  IInv'
  <1>1. FALSE \in BOOLEAN /\ "none" \in Timeout /\ "READ" \in Event /\ "WRITE" \in Event /\ Fionbio \subseteq BOOLEAN
    BY HookAssumption DEF Timeout, Event
  <1>2. ASSUME NEW fd \in Fds, NEW op \in UserOps \cap (IoOps \cup {"close"}), Call(f, op, fd, EventOf(op), FALSE, "none")
        PROVE  IInv'
    <2>1. op \in IoOps \cup {"close", "connect"} \cup Setters /\ op # "fionbio" /\ EventOf(op) \in Event
      BY DEF IoOps, EventOf, Event
    <2> QED
      BY <1>1, <1>2, <2>1, CallStep
  <1>3. ASSUME NEW fd \in Fds, NEW to \in Timeout, Call(f, "connect", fd, "WRITE", FALSE, to)
        PROVE  IInv'
    BY <1>1, <1>3, CallStep
  <1>4. ASSUME NEW fd \in Fds, NEW ev \in Event, NEW to \in Timeout, Call(f, "timeo", fd, ev, FALSE, to)
        PROVE  IInv'
    <2>1. "timeo" \in IoOps \cup {"close", "connect"} \cup Setters
      BY DEF Setters
    <2> QED
      BY <1>1, <1>4, <2>1, CallStep
  <1>5. ASSUME NEW fd \in Fds, NEW val \in BOOLEAN, Call(f, "setfl", fd, "READ", val, "none")
        PROVE  IInv'
    <2>1. "setfl" \in IoOps \cup {"close", "connect"} \cup Setters
      BY DEF Setters
    <2> QED
      BY <1>1, <1>5, <2>1, CallStep
  <1>6. ASSUME NEW fd \in Fds, NEW val \in Fionbio, Call(f, "fionbio", fd, "READ", val, "none")
        PROVE  IInv'
    <2>1. "fionbio" \in IoOps \cup {"close", "connect"} \cup Setters /\ val \in BOOLEAN
      BY <1>1 DEF Setters
    <2> QED
      BY <1>1, <1>6, <2>1, CallStep
  <1>7. ASSUME NEW op \in {"sleep", "socket"}, CallNew(f, op) PROVE IInv'
    BY <1>7, CallNewStep
  <1> QED
    BY <1>2, <1>3, <1>4, <1>5, <1>6, <1>7 DEF Calls

LEMMA FiberStepStep ==
  ASSUME IInv, NEW f \in Fibers, FiberStep(f)
  PROVE  IInv'
  BY SetFlagStep, SocketStep, GetFindStep, GetCreateStep, TryStep, TryConnectStep, ArmStep, AddEventStep, ResumedStep,
     CancelAllStep, DelStep, CloseFdStep DEF FiberStep

LEMMA HookStep == IInv /\ [Next]_vars => IInv'
  <1> SUFFICES ASSUME IInv, [Next]_vars PROVE IInv'
    OBVIOUS
  <1>1. CASE UNCHANGED vars
    <2>1. TypeOK'
      BY <1>1 DEF IInv, TypeOK
    <2> QED
      BY <1>1, <2>1, QuietStep
  <1>2. ASSUME NEW f \in Fibers, Calls(f) \/ FiberStep(f) PROVE IInv'
    BY <1>2, CallsStep, FiberStepStep
  <1>3. ASSUME NEW t \in timers, TimerStep(t) PROVE IInv'
    BY <1>3, FireStep, RunCallbackStep, CancelEventStep DEF TimerStep
  <1>4. ASSUME IdleStep PROVE IInv'
    BY <1>4, KernelStep, DispatchStep DEF IdleStep
  <1>5. ASSUME NEW fd \in Fds, Connected(fd) \/ \E ev \in Event : Arrive(fd, ev) PROVE IInv'
    BY <1>5, KernelStep
  <1> QED
    BY <1>1, <1>2, <1>3, <1>4, <1>5 DEF Next

LEMMA HookInv == Spec => []IInv
  BY HookInit, HookStep, PTL DEF Spec

\* Type correctness: every call names a descriptor of the table at the places
\* where the code uses one, and timers, contexts and waiters are well formed.
THEOREM HookTypeCorrect == Spec => []TypeOK
  BY HookInv, PTL DEF IInv

\* A suspended fiber has exactly one who will schedule it, an event or a sleep's
\* timer, and a fiber that runs has none: what Scheduler's assertions ask of those
\* who suspend fibers holds through every retry, timeout and close().
THEOREM HookOneWake == Spec => []OneWake
  <1>1. IInv => OneWake
    <2> SUFFICES ASSUME IInv, NEW f \in Fibers PROVE Cardinality(Wakers(f)) = IF call[f].at = "held" THEN 1 ELSE 0
      BY DEF OneWake
    <2> DEFINE P == {p \in Fds \X Event : waits[p[1]][p[2]] = f}
    <2>1. Wakers(f) = P \cup SleepTimers(f)
      BY DEF Wakers, SleepTimers
    <2>2. ASSUME NEW p \in P PROVE HeldRec(call[f]) /\ p = <<call[f].fd, call[f].ev>>
      <3>1. PICK d \in Fds, ev \in Event : p = <<d, ev>> /\ waits[d][ev] = f
        OBVIOUS
      <3>2. Waited(d, ev) /\ f # NoFiber
        BY HookAssumption DEF IInv, WaitsMatch
      <3> QED
        BY <3>1, <3>2 DEF Waited, HeldRec
    <2>3. ASSUME HeldRec(call[f]) PROVE <<call[f].fd, call[f].ev>> \in P
      <3>1. call[f].fd \in Fds /\ call[f].ev \in Event /\ waits[call[f].fd][call[f].ev] = f
        BY <2>3 DEF IInv, TypeOK, CallState, CallsKnow, Knows, WaitsMatch, Waits, HeldRec, Waiting, IoOps
      <3> QED
        BY <3>1
    <2> HIDE DEF P
    <2>4. ASSUME NEW t \in SleepTimers(f) PROVE Sleeping(call[f])
      BY <2>4 DEF IInv, TimersKnown, OwnTimer, SleepTimers, Sleeping
    <2>5. Sleeping(call[f]) => \E t : SleepTimers(f) = {t}
      BY DEF IInv, SleepHeld, Sleeping
    <2>6. ~ (HeldRec(call[f]) /\ Sleeping(call[f]))
      BY DEF HeldRec, Sleeping, Waiting, IoOps
    <2>7. CASE HeldRec(call[f])
      <3>1. Wakers(f) = {<<call[f].fd, call[f].ev>>}
        BY <2>1, <2>2, <2>3, <2>4, <2>6, <2>7
      <3> QED
        BY <2>7, <3>1, FS_Singleton DEF HeldRec
    <2>8. CASE Sleeping(call[f])
      <3>1. PICK t : Wakers(f) = {t}
        BY <2>1, <2>2, <2>5, <2>6, <2>8
      <3> QED
        BY <2>8, <3>1, FS_Singleton DEF Sleeping
    <2>9. CASE ~ HeldRec(call[f]) /\ ~ Sleeping(call[f])
      <3>1. Wakers(f) = {}
        BY <2>1, <2>2, <2>4, <2>9
      <3>2. call[f].at # "held"
        BY <2>9 DEF IInv, CallsKnow, Knows, HeldRec, Sleeping
      <3> QED
        BY <3>1, <3>2, FS_EmptySet
    <2> QED
      BY <2>7, <2>8, <2>9
  <1> QED
    BY <1>1, HookInv, PTL

\* A call reports ETIMEDOUT only if it has a timeout: a callback that an earlier
\* call left behind does not find its timer_info, and never ends a later call.
THEOREM HookTimeoutIsOwn == Spec => []TimeoutIsOwn
  <1>1. IInv => TimeoutIsOwn
    BY DEF IInv, CallsKnow, Knows, TimeoutIsOwn
  <1> QED
    BY <1>1, HookInv, PTL

\* do_io() never suspends with a timeout and without a timer, at the first try or
\* after a retry.
THEOREM HookTimerInForce == Spec => []TimerInForce
  <1>1. IInv => TimerInForce
    BY DEF IInv, Timed, TimerInForce
  <1> QED
    BY <1>1, HookInv, PTL

\* A number that is given out again never meets the context of the connection
\* that had it before: close() deletes it before close_f().
THEOREM HookCtxFresh == Spec => []CtxFresh
  BY HookInv, PTL DEF IInv

\* Nobody is left waiting for a connection that was closed, except one whose
\* addEvent() came behind close()'s cancelAll(), before or after close_f().
THEOREM HookCloseWakes == Spec => []CloseWakes
  <1>1. IInv => CloseWakes
    BY DEF IInv, InTime, CloseWakes
  <1> QED
    BY <1>1, HookInv, PTL

\* For users who never clear FIONBIO, a system call of a hooked call finds its
\* descriptor nonblocking: fcntl(F_SETFL) cannot clear the flag that FdCtx::init()
\* has set.  Only one for a connection that was closed, on its number given out
\* again, may come before FdCtx::init(): a call for the number's own connection
\* is not made before accept() or socket() has returned.
THEOREM HookNoThreadBlocks ==
  ASSUME Fionbio \subseteq {TRUE}
  PROVE  Spec => []NoThreadBlocks
  <1>1. IInv => NoThreadBlocks
    <2> SUFFICES ASSUME IInv, NEW f \in Fibers, call[f].at \in {"try", "direct"}, open[call[f].fd],
                        ~ nonblock[call[f].fd]
                 PROVE  ~ Own(f) /\ Unfinished(call[f].fd)
      BY DEF NoThreadBlocks
    <2>1. call[f].fd \in Fds
      BY DEF IInv, CallsKnow, Knows, Waiting, IoOps
    <2>2. Unfinished(call[f].fd)
      BY <2>1 DEF IInv, FlagsKept
    <2>3. PICK g \in Fibers : call[g].at \in {"find", "create"} /\ call[g].fd = call[f].fd
      BY <2>2 DEF Unfinished
    <2>4. call[g].conn = conn[call[f].fd] /\ call[f].conn < call[g].conn
      BY <2>3 DEF IInv, Makers
    <2>5. call[f].conn \in Nat /\ conn[call[f].fd] \in Nat
      BY <2>1, ConnMax DEF IInv, TypeOK, CallState
    <2>6. ~ Own(f)
      BY <2>4, <2>5 DEF Own
    <2> QED
      BY <2>2, <2>6
  <1> QED
    BY <1>1, HookInv, PTL

=============================================================================
