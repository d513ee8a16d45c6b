---------------------------- MODULE TimerProofs ----------------------------
(***************************************************************************)
(* Proofs about TimerManager: the types, that a timer's callback and its   *)
(* membership in m_timers never part, and that a spent timer is not handed *)
(* out again, for any number of timers, threads and set-backs of the clock.*)
(***************************************************************************)
EXTENDS TimerManager, TLAPS

\* CallbackIffListed is not inductive: a timer not inserted yet must be in no
\* list, one constructed and not inserted yet must have its callback, and a
\* spent one must have lost it for good.  Types need that
\* m_next - m_ms, the start reset() computes, does not go below zero.
Unlisted == \A t \in m_timers : stage[t] = "placed"
SpentIsOver == \A t \in spent : stage[t] = "placed" /\ ~ m_cb[t]
MadeHasCallback == \A t \in Timers : stage[t] = "made" => m_cb[t] /\ t \notin spent
StartIsNat == \A t \in Timers : m_ms[t] <= m_next[t]

IInv == TypeOK /\ CallbackIffListed /\ Unlisted /\ MadeHasCallback /\ SpentIsOver /\ StartIsNat

-----------------------------------------------------------------------------
\* The invariant holds when nothing is allocated.
LEMMA TimerInit == Init => IInv
  <1> SUFFICES ASSUME Init PROVE IInv
    OBVIOUS
  <1>1. Never \in Nat /\ 0 \in 0..Never /\ 0 \in 0..MaxReal /\ 0 \in 0..MaxBack /\ Start \in Nat
    BY TimerAssumption DEF Never
  <1>2. NoTime \in [ms: Nat, real: 0..MaxReal]
    BY <1>1 DEF NoTime
  <1>3. TypeOK
    BY <1>1, <1>2 DEF Init, TypeOK
  <1>4. CallbackIffListed /\ Unlisted /\ MadeHasCallback /\ SpentIsOver /\ StartIsNat
    BY DEF Init, CallbackIffListed, Unlisted, MadeHasCallback, SpentIsOver, StartIsNat
  <1> QED
    BY <1>3, <1>4 DEF IInv

\* The timeout of epoll_wait() is an integer.
LEMMA TimeoutType == \A x \in Nat : Timeout(x) \in Int
  BY TimerAssumption DEF Timeout, ToInt

USE DEF clockVars, timerVars, loopVars

\* The clock keeps the invariant.
LEMMA ClockStep ==
    ASSUME IInv, NEW d \in Nat, Tick \/ SetBack(d)
    PROVE  IInv'
  BY TimerAssumption DEF IInv, Tick, SetBack, TypeOK, CallbackIffListed, Unlisted, MadeHasCallback, SpentIsOver,
     StartIsNat, Never

\* Allocating, inserting and announcing a timer keep the invariant.
LEMMA AddStep ==
    ASSUME IInv, NEW t \in Timers,
           \/ \E ms \in Periods, r \in BOOLEAN : Construct(t, ms, r)
           \/ addTimer(t) \/ onTimerInsertedAtFront(t)
    PROVE  IInv'
  <1> USE DEF IInv
  <1>1. ASSUME NEW ms \in Periods, NEW r \in BOOLEAN, Construct(t, ms, r)
        PROVE  IInv'
    <2>1. ms \in Nat
      BY TimerAssumption
    <2>2. TypeOK' /\ StartIsNat'
      BY <1>1, <2>1 DEF Construct, TypeOK, StartIsNat
    <2>3. CallbackIffListed' /\ Unlisted' /\ MadeHasCallback' /\ SpentIsOver'
      BY <1>1 DEF Construct, TypeOK, CallbackIffListed, Unlisted, MadeHasCallback, SpentIsOver
    <2> QED
      BY <2>2, <2>3
  <1>2. CASE addTimer(t)
    <2>1. m_tickled' \in BOOLEAN /\ notifying' \subseteq Timers
      BY <1>2 DEF addTimer, InsertAndTickle, TypeOK
    <2>2. m_timers' = m_timers \cup {t} /\ stage[t] = "made" /\ stage' = [stage EXCEPT ![t] = "placed"]
      BY <1>2 DEF addTimer, InsertAndTickle
    <2>3. TypeOK' /\ StartIsNat'
      BY <1>2, <2>1, <2>2 DEF addTimer, TypeOK, StartIsNat
    <2>4. CallbackIffListed'
      BY <1>2, <2>2 DEF addTimer, TypeOK, CallbackIffListed, Unlisted, MadeHasCallback, SpentIsOver
    <2>5. Unlisted' /\ MadeHasCallback' /\ SpentIsOver'
      BY <1>2, <2>2 DEF addTimer, TypeOK, Unlisted, MadeHasCallback, SpentIsOver
    <2> QED
      BY <2>3, <2>4, <2>5
  <1>3. CASE onTimerInsertedAtFront(t)
    BY <1>3 DEF onTimerInsertedAtFront, TypeOK, StartIsNat, CallbackIffListed, Unlisted, MadeHasCallback, SpentIsOver
  <1> QED
    BY <1>1, <1>2, <1>3

\* cancel(), refresh() and reset() keep the invariant.
LEMMA ClientStep ==
    ASSUME IInv, NEW t \in Timers,
           \/ cancel(t) \/ refresh(t)
           \/ \E ms \in Periods, from_now \in BOOLEAN : reset(t, ms, from_now)
    PROVE  IInv'
  <1> USE DEF IInv
  <1>1. CASE cancel(t)
    BY <1>1 DEF cancel, TypeOK, StartIsNat, CallbackIffListed, Unlisted, MadeHasCallback, SpentIsOver
  <1>2. CASE refresh(t)
    BY <1>2 DEF refresh, TypeOK, StartIsNat, CallbackIffListed, Unlisted, MadeHasCallback, SpentIsOver
  <1>3. ASSUME NEW ms \in Periods, NEW from_now \in BOOLEAN, reset(t, ms, from_now)
        PROVE  IInv'
    <2>1. ms \in Nat
      BY TimerAssumption
    <2>2. ResetTime(t, ms, from_now) \in Nat /\ ms <= ResetTime(t, ms, from_now)
      BY <2>1 DEF ResetTime, TypeOK, StartIsNat
    <2>5. m_tickled' \in BOOLEAN /\ notifying' \subseteq Timers /\ m_timers' = m_timers \cup {t}
      <3>1. InsertAndTickle(t, [m_next EXCEPT ![t] = ResetTime(t, ms, from_now)])
        BY <1>3 DEF reset
      <3>2. /\ m_timers' = m_timers \cup {t}
            /\ \/ m_tickled' = TRUE /\ notifying' = notifying \cup {t}
               \/ m_tickled' = m_tickled /\ notifying' = notifying
        BY <3>1 DEF InsertAndTickle
      <3> QED
        BY <3>2 DEF TypeOK
    <2>3. TypeOK' /\ StartIsNat'
      BY <1>3, <2>1, <2>2, <2>5 DEF reset, TypeOK, StartIsNat
    <2>4. CallbackIffListed' /\ Unlisted' /\ MadeHasCallback' /\ SpentIsOver'
      BY <1>3 DEF reset, InsertAndTickle, TypeOK, CallbackIffListed, Unlisted, MadeHasCallback, SpentIsOver
    <2> QED
      BY <2>3, <2>4
  <1> QED
    BY <1>1, <1>2, <1>3

\* Sleeping and waking keep the invariant.
LEMMA SleepStep ==
    ASSUME IInv, NEW i \in Idlers,
           \/ GoIdle(i) \/ getNextTimer(i) \/ TimeoutWake(i) \/ PipeWake(i) \/ SocketWake(i)
           \/ listCheck(i) \/ listCrash(i) \/ deliver(i)
    PROVE  IInv'
  <1> USE DEF IInv, StartIsNat, CallbackIffListed, Unlisted, MadeHasCallback, SpentIsOver
  <1>1. CASE GoIdle(i) \/ listCrash(i) \/ deliver(i)
    <2>1. NoTime \in [ms: Nat, real: 0..MaxReal]
      BY TimerAssumption DEF NoTime
    <2>2. CASE GoIdle(i)
      BY <2>2 DEF GoIdle, TypeOK
    <2>3. CASE listCrash(i)
      BY <2>3 DEF listCrash, TypeOK
    <2>4. CASE deliver(i)
      <3>1. now' \in [Idlers -> [ms: Nat, real: 0..MaxReal]] /\ edge' \in BOOLEAN
        BY <2>1, <2>4 DEF deliver, TypeOK
      <3> QED
        BY <2>4, <3>1 DEF deliver, TypeOK
    <2> QED
      BY <1>1, <2>2, <2>3, <2>4
  <1>2. CASE getNextTimer(i)
    <2>1. PICK w \in Int : deadline' = [deadline EXCEPT ![i] = IF w < 0 \/ real + w > MaxReal
                                                             THEN Never ELSE real + w]
      <3>1. \A t \in m_timers : Timeout(Ahead(t)) \in Int
        BY TimeoutType DEF Ahead, TypeOK
      <3>2. MAX_TIMEOUT \in Int
        BY TimerAssumption
      <3>3. PICK w \in IF m_timers = {} THEN {MAX_TIMEOUT}
                       ELSE {Timeout(Ahead(t)) : t \in {u \in m_timers : \A v \in m_timers : m_next[u] <= m_next[v]}} :
               deadline' = [deadline EXCEPT ![i] = IF w < 0 \/ real + w > MaxReal THEN Never ELSE real + w]
        BY <1>2 DEF getNextTimer
      <3>4. w \in Int
        BY <3>1, <3>2, <3>3
      <3> QED
        BY <3>3, <3>4
    <2>2. deadline' \in [Idlers -> 0..Never]
      BY <2>1, TimerAssumption DEF TypeOK, Never
    <2> QED
      BY <1>2, <2>2 DEF getNextTimer, Untickle, TypeOK
  <1>3. CASE TimeoutWake(i) \/ PipeWake(i) \/ SocketWake(i)
    <2>1. 0 \in 0..Never
      BY TimerAssumption DEF Never
    <2>2. edge' \in BOOLEAN
      BY <1>3 DEF TimeoutWake, PipeWake, SocketWake, TypeOK
    <2>3. WakeUp(i, TRUE) \/ WakeUp(i, FALSE)
      BY <1>3 DEF TimeoutWake, PipeWake, SocketWake
    <2>4. took' \in [Idlers -> BOOLEAN]
      BY <2>3 DEF WakeUp, TypeOK
    <2>5. /\ deadline' = [deadline EXCEPT ![i] = 0] /\ pc' = [pc EXCEPT ![i] = "check"]
          /\ UNCHANGED <<clockVars, m_timers, m_tickled, m_previouseTime, timerVars, notifying, now, cbs>>
      BY <2>3 DEF WakeUp
    <2> QED
      BY <2>1, <2>2, <2>4, <2>5 DEF TypeOK
  <1>4. CASE listCheck(i)
    BY <1>4 DEF listCheck, TypeOK
  <1> QED
    BY <1>1, <1>2, <1>3, <1>4

\* Listing the expired timers keeps the invariant.
LEMMA ListStep ==
    ASSUME IInv, NEW i \in Idlers, listExpiredCb(i)
    PROVE  IInv'
  <1> USE DEF IInv
  <1> DEFINE E == Expired(i)
             R == {t \in E : m_recurring[t]}
  <1>1. E \subseteq m_timers /\ m_timers \subseteq Timers
    BY DEF Expired, TypeOK
  <1>2. /\ m_timers' = (m_timers \ E) \cup R
        /\ cbs' = [cbs EXCEPT ![i] = E]
        /\ m_next' = [t \in Timers |-> IF t \in R THEN Rearmed(i, t) ELSE m_next[t]]
        /\ armedAt' = [t \in Timers |-> IF t \in R THEN now[i].real ELSE armedAt[t]]
        /\ m_cb' = [t \in Timers |-> IF t \in OneShot(E) THEN FALSE ELSE m_cb[t]]
        /\ spent' = spent \cup (E \ R)
        /\ pc' = [pc EXCEPT ![i] = "deliver"]
        /\ m_previouseTime' = now[i].ms
        /\ UNCHANGED <<clockVars, m_tickled, stage, m_ms, m_recurring, notifying, now, deadline, took, edge>>
    BY DEF listExpiredCb
  <1>3. \A t \in Timers : Rearmed(i, t) \in Nat /\ m_ms[t] <= Rearmed(i, t)
    BY DEF Rearmed, TypeOK
  <1>4. m_next' \in [Timers -> Nat] /\ StartIsNat'
    BY <1>2, <1>3 DEF StartIsNat, TypeOK
  <1>5. m_cb' \in [Timers -> BOOLEAN] /\ m_timers' \subseteq Timers /\ spent' \subseteq Timers
    BY <1>1, <1>2 DEF TypeOK
  <1>6. cbs' \in [Idlers -> SUBSET Timers] /\ armedAt' \in [Timers -> 0..MaxReal]
    BY <1>1, <1>2 DEF TypeOK
  <1>7. TypeOK'
    BY <1>2, <1>4, <1>5, <1>6 DEF TypeOK
  <1>8. CallbackIffListed'
    <2> SUFFICES ASSUME NEW t \in Timers, stage[t] = "placed"
                 PROVE  m_cb'[t] <=> t \in m_timers'
      BY <1>2 DEF CallbackIffListed
    <2>1. m_cb[t] <=> t \in m_timers
      BY DEF CallbackIffListed
    <2>2. m_cb'[t] <=> (~ (t \in E /\ ~ m_recurring[t]) /\ m_cb[t])
      BY <1>2 DEF OneShot, TypeOK
    <2>3. t \in m_timers' <=> (t \in m_timers /\ (t \notin E \/ m_recurring[t]))
      BY <1>1, <1>2
    <2> QED
      BY <2>1, <2>2, <2>3
  <1>9. Unlisted'
    BY <1>1, <1>2 DEF Unlisted
  <1>10. SpentIsOver' /\ MadeHasCallback'
    BY <1>1, <1>2 DEF SpentIsOver, MadeHasCallback, Unlisted, OneShot, TypeOK
  <1> QED
    BY <1>4, <1>7, <1>8, <1>9, <1>10

\* The invariant is inductive.
LEMMA TimerNext == IInv /\ [Next]_vars => IInv'
  <1> SUFFICES ASSUME IInv, [Next]_vars PROVE IInv'
    OBVIOUS
  <1>1. CASE Tick \/ SetBack(1) \/ SetBack(Gap + 1)
    BY <1>1, ClockStep, TimerAssumption
  <1>2. CASE \E t \in Timers : Client(t) \/ addTimer(t) \/ onTimerInsertedAtFront(t)
    BY <1>2, AddStep, ClientStep DEF Client
  <1>3. CASE \E i \in Idlers : Idle(i) \/ SocketWake(i)
    BY <1>3, SleepStep, ListStep DEF Idle
  <1>4. CASE UNCHANGED vars
    BY <1>4 DEF vars, IInv, TypeOK, CallbackIffListed, Unlisted, MadeHasCallback, SpentIsOver, StartIsNat
  <1> QED
    BY <1>1, <1>2, <1>3, <1>4 DEF Next, Over

\* The invariant holds of every behaviour.
LEMMA TimerInvariant == Spec => []IInv
  BY TimerInit, TimerNext, PTL DEF Spec

-----------------------------------------------------------------------------
\* Type correctness of the timers, for every instance.
THEOREM TimerTypeCorrect == Spec => []TypeOK
  BY TimerInvariant, PTL DEF IInv

\* cancel() always finds what it erases: a timer that was inserted has its
\* callback exactly while it is in m_timers, whichever threads insert, list,
\* cancel, refresh and reset it and however the clock is set.
THEOREM TimerCallbacks == Spec => []CallbackIffListed
  BY TimerInvariant, PTL DEF IInv

\* A step that hands timers to a thread is its listExpiredCb(), and takes them
\* from m_timers.
LEMMA HandedOut ==
    ASSUME IInv, [Next]_vars, NEW i \in Idlers, NEW t \in cbs'[i] \ cbs[i]
    PROVE  t \in m_timers /\ listExpiredCb(i)
  <1>1. CASE \E j \in Idlers : listExpiredCb(j)
    <2>1. PICK j \in Idlers : listExpiredCb(j)
      BY <1>1
    <2>2. cbs' = [cbs EXCEPT ![j] = Expired(j)] /\ Expired(j) \subseteq m_timers
      BY <2>1 DEF listExpiredCb, Expired
    <2> QED
      BY <2>1, <2>2 DEF IInv, TypeOK
  <1>2. CASE \E j \in Idlers : deliver(j)
    BY <1>2 DEF deliver, IInv, TypeOK
  <1>3. CASE ~ (\E j \in Idlers : listExpiredCb(j) \/ deliver(j))
    <2>1. cbs' = cbs
      BY <1>3 DEF Next, Over, vars, Tick, SetBack, Client, Construct, addTimer, onTimerInsertedAtFront,
         cancel, refresh, reset, Idle, GoIdle, getNextTimer, TimeoutWake, PipeWake, SocketWake, WakeUp,
         listCheck, listCrash
    <2> QED
      BY <2>1
  <1> QED
    BY <1>1, <1>2, <1>3

\* A cancelled timer, and a one-shot timer that fired, is never handed out again.
THEOREM TimerSpent == Spec => SpentStaysSpent
  <1> DEFINE Kept == \A i \in Idlers : (cbs'[i] \ cbs[i]) \cap spent = {}
  <1>1. ASSUME IInv, [Next]_vars
        PROVE  [Kept]_vars
    <2> SUFFICES ASSUME NEW i \in Idlers, NEW t \in cbs'[i] \ cbs[i], t \in spent
                 PROVE  FALSE
      OBVIOUS
    <2>1. t \in m_timers
      BY <1>1, HandedOut
    <2>2. t \in Timers /\ stage[t] = "placed" /\ ~ m_cb[t]
      BY <1>1 DEF IInv, SpentIsOver, TypeOK
    <2> QED
      BY <1>1, <2>1, <2>2 DEF IInv, CallbackIffListed
  <1> QED
    BY <1>1, TimerInvariant, PTL DEF Spec, SpentStaysSpent

-----------------------------------------------------------------------------
(* Never early *)

\* As long as the clock is not set back it runs with real time, a thread that
\* lists holds a time it has really read before, and a timer is due exactly m_ms
\* after the moment from which it counts.
ClockInv ==
    backs = 0 =>
        /\ clock = Start + real
        /\ \A i \in Idlers : pc[i] = "list" => now[i].ms = Start + now[i].real /\ now[i].real <= real
        /\ \A t \in Timers : stage[t] # "none" => m_next[t] = Start + armedAt[t] + m_ms[t]

\* ClockInv under the clients' calls.
LEMMA ClockClient ==
    ASSUME IInv, ClockInv, NEW t \in Timers, Client(t) \/ addTimer(t) \/ onTimerInsertedAtFront(t)
    PROVE  ClockInv'
  <1> SUFFICES ASSUME backs = 0, backs' = 0
               PROVE  ClockInv'
    BY DEF ClockInv, Client, Construct, addTimer, onTimerInsertedAtFront, cancel, refresh, reset
  <1>0. /\ TypeOK /\ Start \in Nat /\ clock = Start + real
        /\ \A u \in Timers : stage[u] # "none" => m_next[u] = Start + armedAt[u] + m_ms[u]
    BY TimerAssumption DEF IInv, ClockInv
  <1>1. /\ UNCHANGED <<clock, real, pc, now>>
    BY DEF Client, Construct, addTimer, onTimerInsertedAtFront, cancel, refresh, reset
  <1> SUFFICES ASSUME NEW u \in Timers, stage'[u] # "none"
               PROVE  m_next'[u] = Start + armedAt'[u] + m_ms'[u]
    BY <1>1 DEF ClockInv
  <1>2. ASSUME NEW ms \in Periods, NEW r \in BOOLEAN, Construct(t, ms, r)
        PROVE  m_next'[u] = Start + armedAt'[u] + m_ms'[u]
    <2>1. ms \in Nat
      BY TimerAssumption
    <2> QED
      BY <1>0, <1>2, <2>1 DEF Construct, TypeOK
  <1>3. CASE addTimer(t) \/ onTimerInsertedAtFront(t) \/ cancel(t)
    BY <1>0, <1>3 DEF addTimer, onTimerInsertedAtFront, cancel, TypeOK
  <1>4. CASE refresh(t)
    BY <1>0, <1>4 DEF refresh, TypeOK
  <1>5. ASSUME NEW ms \in Periods, NEW from_now \in BOOLEAN, reset(t, ms, from_now)
        PROVE  m_next'[u] = Start + armedAt'[u] + m_ms'[u]
    <2>1. ms \in Nat
      BY TimerAssumption
    <2>2. /\ m_next' = [m_next EXCEPT ![t] = ResetTime(t, ms, from_now)]
          /\ m_ms' = [m_ms EXCEPT ![t] = ms] /\ stage' = stage
          /\ armedAt' = [armedAt EXCEPT ![t] = IF from_now THEN real ELSE armedAt[t]]
          /\ stage[t] = "placed"
      BY <1>5 DEF reset
    <2> QED
      BY <1>0, <2>1, <2>2 DEF ResetTime, TypeOK
  <1> QED
    BY <1>2, <1>3, <1>4, <1>5 DEF Client

\* ClockInv under the steps of idle().
LEMMA ClockIdle ==
    ASSUME IInv, ClockInv, NEW i \in Idlers, Idle(i) \/ SocketWake(i)
    PROVE  ClockInv'
  <1> USE DEF IInv
  <1>1. CASE listExpiredCb(i)
    <2>1. /\ m_next' = [t \in Timers |-> IF t \in Expired(i) /\ m_recurring[t] THEN Rearmed(i, t) ELSE m_next[t]]
          /\ armedAt' = [t \in Timers |-> IF t \in Expired(i) /\ m_recurring[t] THEN now[i].real ELSE armedAt[t]]
          /\ pc[i] = "list" /\ pc' = [pc EXCEPT ![i] = "deliver"]
          /\ UNCHANGED <<clock, real, backs, now, stage, m_ms>>
      BY <1>1 DEF listExpiredCb
    <2> QED
      BY <2>1, TimerAssumption DEF ClockInv, Rearmed, TypeOK
  <1>2. CASE listCheck(i)
    BY <1>2, TimerAssumption DEF listCheck, ClockInv, TypeOK
  <1>3. CASE deliver(i)
    BY <1>3 DEF deliver, ClockInv, TypeOK
  <1>4. CASE GoIdle(i) \/ getNextTimer(i) \/ listCrash(i)
    BY <1>4 DEF GoIdle, getNextTimer, listCrash, ClockInv, TypeOK
  <1>5. CASE TimeoutWake(i) \/ PipeWake(i) \/ SocketWake(i)
    BY <1>5 DEF TimeoutWake, PipeWake, SocketWake, WakeUp, ClockInv, TypeOK
  <1> QED
    BY <1>1, <1>2, <1>3, <1>4, <1>5 DEF Idle

\* ClockInv is inductive relative to IInv.
LEMMA ClockNext == IInv /\ ClockInv /\ [Next]_vars => ClockInv'
  <1> SUFFICES ASSUME IInv, ClockInv, [Next]_vars PROVE ClockInv'
    OBVIOUS
  <1>1. CASE Tick
    BY <1>1, TimerAssumption DEF Tick, ClockInv, IInv, TypeOK
  <1>2. CASE SetBack(1) \/ SetBack(Gap + 1)
    BY <1>2 DEF SetBack, ClockInv, IInv, TypeOK
  <1>3. CASE \E t \in Timers : Client(t) \/ addTimer(t) \/ onTimerInsertedAtFront(t)
    BY <1>3, ClockClient
  <1>4. CASE \E i \in Idlers : Idle(i) \/ SocketWake(i)
    BY <1>4, ClockIdle
  <1>5. CASE UNCHANGED vars
    BY <1>5 DEF vars, ClockInv
  <1> QED
    BY <1>1, <1>2, <1>3, <1>4, <1>5 DEF Next, Over

\* No timer is handed out before its time while the clock is not set back,
\* however long listExpiredCb() waits for the lock with the time it has read.
THEOREM TimerNeverEarly == Spec => NeverEarly
  <1> DEFINE OnTime == \A i \in Idlers : \A t \in cbs'[i] \ cbs[i] :
                          backs > 0 \/ Rollover(i) \/ real - armedAt[t] >= m_ms[t]
  <1>1. Init => ClockInv
    BY TimerAssumption DEF Init, ClockInv
  <1>2. ASSUME IInv, ClockInv, [Next]_vars
        PROVE  [OnTime]_vars
    <2> SUFFICES ASSUME NEW i \in Idlers, NEW t \in cbs'[i] \ cbs[i], ~ (backs > 0), ~ Rollover(i)
                 PROVE  real - armedAt[t] >= m_ms[t]
      OBVIOUS
    <2>1. backs = 0 /\ TypeOK /\ Start \in Nat
      BY <1>2, TimerAssumption DEF IInv, TypeOK
    <2>2. t \in m_timers /\ listExpiredCb(i)
      BY <1>2, HandedOut
    <2>3. pc[i] = "list" /\ m_next[t] <= now[i].ms /\ stage[t] = "placed" /\ t \in Timers
      BY <1>2, <2>1, <2>2 DEF listExpiredCb, Expired, IInv, Unlisted, TypeOK
    <2>4. m_next[t] = Start + armedAt[t] + m_ms[t] /\ now[i].ms = Start + now[i].real /\ now[i].real <= real
      BY <1>2, <2>1, <2>3 DEF ClockInv
    <2>5. /\ armedAt[t] \in Nat /\ m_ms[t] \in Nat /\ now[i].real \in Nat /\ real \in Nat
          /\ now[i].ms \in Nat /\ m_next[t] \in Nat
      BY <2>1, <2>3 DEF TypeOK
    <2> QED
      BY <2>1, <2>3, <2>4, <2>5
  <1> QED
    BY <1>1, <1>2, ClockNext, TimerInvariant, PTL DEF Spec, NeverEarly

-----------------------------------------------------------------------------
(* Nobody oversleeps *)

\* All threads sleep, and no wake-up is on its way.
Asleep == backs = 0 /\ (\A i \in Idlers : pc[i] = "wait") /\ ~ edge /\ notifying = {}

\* Some thread's epoll_wait() ends by the time the timer is due, if it is due while the clock runs.
Covered(t) ==
    m_next[t] < Start + Never => \E i \in Idlers : deadline[i] <= real \/ Start + deadline[i] <= m_next[t]

\* NoOversleep is not inductive: a timer that is not inserted at the front is
\* covered by the one before it, and one that is must find m_tickled cleared.
SleepInv ==
    /\ backs = 0 => \A t \in Timers : armedAt[t] <= real
    /\ \A t \in Timers : m_ms[t] \in Periods \cup {0}
    /\ Asleep => ~ m_tickled /\ \A t \in m_timers : Covered(t)

\* A timeout below 2^31 ms is passed on to epoll_wait(), or shortened.
LEMMA TimeoutShort ==
    ASSUME NEW x \in Nat, x < IntHalf
    PROVE  Timeout(x) \in Nat /\ Timeout(x) <= x
  <1>1. x % (2 * IntHalf) = x
    BY TimerAssumption
  <1>2. ToInt(x) = x
    BY <1>1, TimerAssumption DEF ToInt
  <1> QED
    BY <1>2, TimerAssumption DEF Timeout

\* A timer that is not inserted at the front has one before it.
LEMMA BehindFront ==
    ASSUME NEW t \in Timers, NEW next, InsertAndTickle(t, next), notifying' = {}, ~ m_tickled,
           \A u \in m_timers \cup {t} : next[u] \in Nat
    PROVE  /\ m_timers' = m_timers \cup {t} /\ m_tickled' = m_tickled /\ notifying = {}
           /\ \E u \in m_timers \ {t} : next[u] <= next[t]
  <1> DEFINE A == \A u \in m_timers \ {t} : next[t] <= next[u]
             B == \A u \in m_timers \ {t} : next[t] < next[u]
  <1>1. PICK front \in {A, B} : IF front /\ ~ m_tickled THEN m_tickled' = TRUE /\ notifying' = notifying \cup {t}
                               ELSE UNCHANGED <<m_tickled, notifying>>
    BY DEF InsertAndTickle, Front
  <1>2. ~ front /\ m_tickled' = m_tickled /\ notifying = {}
    BY <1>1
  <1>3. ~ A \/ ~ B
    BY <1>1, <1>2, Zenon
  <1>4. \E u \in m_timers \ {t} : next[u] <= next[t]
    BY <1>3
  <1> QED
    BY <1>2, <1>4 DEF InsertAndTickle

\* SleepInv under the clients' calls.
LEMMA SleepClient ==
    ASSUME IInv, ClockInv, SleepInv, NEW t \in Timers, Client(t) \/ addTimer(t) \/ onTimerInsertedAtFront(t)
    PROVE  SleepInv'
  <1>0. /\ TypeOK /\ Start \in Nat /\ Never \in Nat /\ real \in Nat /\ clock \in Nat
        /\ m_timers \subseteq Timers /\ (\A u \in Timers : m_next[u] \in Nat /\ armedAt[u] \in Nat /\ m_ms[u] \in Nat)
        /\ \A i \in Idlers : deadline[i] \in Nat
    BY TimerAssumption DEF IInv, TypeOK, Never
  <1>1. /\ UNCHANGED <<clock, real, backs, pc, deadline>>
        /\ \/ edge' = edge
           \/ onTimerInsertedAtFront(t)
    BY DEF Client, Construct, addTimer, onTimerInsertedAtFront, cancel, refresh, reset
  <1>2. /\ backs = 0 => \A u \in Timers : armedAt'[u] <= real
        /\ \A u \in Timers : m_ms'[u] \in Periods \cup {0}
    <2>1. ASSUME NEW ms \in Periods, NEW r \in BOOLEAN, Construct(t, ms, r)
          PROVE  /\ backs = 0 => \A u \in Timers : armedAt'[u] <= real
                 /\ \A u \in Timers : m_ms'[u] \in Periods \cup {0}
      BY <1>0, <2>1 DEF Construct, SleepInv, TypeOK
    <2>2. ASSUME NEW ms \in Periods, NEW from_now \in BOOLEAN, reset(t, ms, from_now)
          PROVE  /\ backs = 0 => \A u \in Timers : armedAt'[u] <= real
                 /\ \A u \in Timers : m_ms'[u] \in Periods \cup {0}
      BY <1>0, <2>2 DEF reset, SleepInv, TypeOK
    <2>3. CASE addTimer(t) \/ onTimerInsertedAtFront(t) \/ cancel(t) \/ refresh(t)
      BY <1>0, <2>3 DEF addTimer, onTimerInsertedAtFront, cancel, refresh, SleepInv, TypeOK
    <2> QED
      BY <2>1, <2>2, <2>3 DEF Client
  <1>3. SUFFICES ASSUME Asleep' PROVE ~ m_tickled' /\ \A u \in m_timers' : Covered(u)'
    BY <1>1, <1>2 DEF SleepInv
  <1>4. ~ onTimerInsertedAtFront(t)
    BY <1>3, TimerAssumption DEF onTimerInsertedAtFront, Asleep
  <1>5. notifying = {} => Asleep /\ ~ m_tickled /\ \A u \in m_timers : Covered(u)
    BY <1>1, <1>3, <1>4 DEF Asleep, SleepInv
  <1>6. ASSUME NEW u \in m_timers, NEW v \in m_timers', Covered(u), m_next[u] <= m_next'[v], m_next'[v] \in Nat
        PROVE  Covered(v)'
    BY <1>0, <1>1, <1>6 DEF Covered
  <1>7. ASSUME NEW ms \in Periods, NEW r \in BOOLEAN, Construct(t, ms, r)
        PROVE  ~ m_tickled' /\ \A u \in m_timers' : Covered(u)'
    <2>1. t \notin m_timers /\ m_timers' = m_timers /\ m_tickled' = m_tickled /\ notifying' = notifying
      BY <1>7 DEF Construct, IInv, Unlisted
    <2>2. \A u \in m_timers : m_next'[u] = m_next[u]
      BY <1>0, <1>7, <2>1 DEF Construct, TypeOK
    <2> QED
      BY <1>0, <1>3, <1>5, <1>6, <2>1, <2>2 DEF Asleep
  <1>8. CASE cancel(t)
    BY <1>0, <1>3, <1>5, <1>6, <1>8 DEF cancel, Asleep
  <1>9. CASE refresh(t)
    <2>1. /\ m_timers' = m_timers /\ m_tickled' = m_tickled /\ notifying' = notifying
          /\ stage[t] = "placed" /\ m_next' = [m_next EXCEPT ![t] = clock + m_ms[t]]
      BY <1>9 DEF refresh
    <2>2. m_next[t] = Start + armedAt[t] + m_ms[t] /\ clock = Start + real /\ armedAt[t] <= real
      BY <1>1, <1>3, <2>1 DEF ClockInv, SleepInv, Asleep
    <2>3. \A u \in m_timers : m_next[u] <= m_next'[u] /\ m_next'[u] \in Nat
      BY <1>0, <2>1, <2>2 DEF TypeOK
    <2> QED
      BY <1>0, <1>3, <1>5, <1>6, <2>1, <2>3 DEF Asleep
  <1>10. ASSUME NEW next \in [Timers -> Nat], InsertAndTickle(t, next), m_next' = next,
                \A u \in Timers \ {t} : next[u] = m_next[u]
         PROVE  ~ m_tickled' /\ \A u \in m_timers' : Covered(u)'
    <2>1. notifying = {}
      BY <1>3, <1>10 DEF InsertAndTickle, Asleep
    <2>2. \A u \in m_timers \cup {t} : next[u] \in Nat
      BY <1>0
    <2>3. /\ m_timers' = m_timers \cup {t} /\ m_tickled' = m_tickled
          /\ \E u \in m_timers \ {t} : next[u] <= next[t]
      BY <1>3, <1>5, <1>10, <2>1, <2>2, BehindFront DEF Asleep
    <2>4. PICK u \in m_timers \ {t} : next[u] <= next[t]
      BY <2>3
    <2>5. ASSUME NEW v \in m_timers' PROVE Covered(v)'
      <3>1. CASE v = t
        BY <1>0, <1>5, <1>6, <1>10, <2>1, <2>4, <2>5, <3>1
      <3>2. CASE v # t
        BY <1>0, <1>5, <1>6, <1>10, <2>1, <2>3, <2>5, <3>2
      <3> QED
        BY <3>1, <3>2
    <2> QED
      BY <1>5, <2>1, <2>3, <2>5
  <1>11. CASE addTimer(t)
    BY <1>0, <1>10, <1>11 DEF addTimer, TypeOK
  <1>12. ASSUME NEW ms \in Periods, NEW from_now \in BOOLEAN, reset(t, ms, from_now)
         PROVE  ~ m_tickled' /\ \A u \in m_timers' : Covered(u)'
    <2> DEFINE next == [m_next EXCEPT ![t] = ResetTime(t, ms, from_now)]
    <2>1. m_next' = next /\ InsertAndTickle(t, next)
      BY <1>12 DEF reset
    <2>2. ms \in Nat
      BY TimerAssumption
    <2>3. ResetTime(t, ms, from_now) \in Nat
      BY <1>0, <2>2 DEF ResetTime, IInv, StartIsNat
    <2>4. next \in [Timers -> Nat] /\ \A u \in Timers \ {t} : next[u] = m_next[u]
      BY <1>0, <2>3 DEF TypeOK
    <2> HIDE DEF next
    <2> QED
      BY <1>10, <2>1, <2>4
  <1> QED
    BY <1>4, <1>7, <1>8, <1>9, <1>11, <1>12 DEF Client

\* SleepInv under the steps of idle(): a thread that goes to sleep has looked at
\* the first timer, and every other step leaves a thread awake.
LEMMA SleepIdle ==
    ASSUME IInv, ClockInv, SleepInv, \A ms \in Periods : ms < IntHalf, NEW i \in Idlers, Idle(i) \/ SocketWake(i)
    PROVE  SleepInv'
  <1>0. /\ TypeOK /\ Start \in Nat /\ Never \in Nat /\ MaxReal \in Nat /\ Never = MaxReal + 1
        /\ real \in Nat /\ real <= MaxReal /\ clock \in Nat
        /\ m_timers \subseteq Timers /\ (\A u \in Timers : m_next[u] \in Nat /\ armedAt[u] \in Nat /\ m_ms[u] \in Nat)
    BY TimerAssumption DEF IInv, TypeOK, Never
  <1>1. /\ UNCHANGED <<clock, real, backs, m_ms>>
        /\ pc'[i] # "wait" \/ getNextTimer(i)
    BY <1>0 DEF Idle, GoIdle, getNextTimer, TimeoutWake, PipeWake, SocketWake, WakeUp, listCheck, listExpiredCb,
       listCrash, deliver, TypeOK
  <1>2. backs = 0 => \A u \in Timers : armedAt'[u] <= real
    <2>1. CASE armedAt' = armedAt
      BY <2>1 DEF SleepInv
    <2>2. CASE listExpiredCb(i)
      <3>1. /\ armedAt' = [t \in Timers |-> IF t \in Expired(i) /\ m_recurring[t] THEN now[i].real ELSE armedAt[t]]
            /\ pc[i] = "list"
        BY <2>2 DEF listExpiredCb
      <3> QED
        BY <3>1 DEF ClockInv, SleepInv
    <2> QED
      BY <2>1, <2>2 DEF Idle, GoIdle, getNextTimer, TimeoutWake, PipeWake, SocketWake, WakeUp, listCheck,
         listCrash, deliver
  <1>3. SUFFICES ASSUME Asleep' PROVE ~ m_tickled' /\ \A u \in m_timers' : Covered(u)'
    BY <1>1, <1>2 DEF SleepInv
  <1>4. /\ getNextTimer(i) /\ backs = 0
    BY <1>1, <1>3 DEF Asleep
  <1>5. ~ m_tickled' /\ m_timers' = m_timers /\ m_next' = m_next
    BY <1>4 DEF getNextTimer, Untickle
  <1>6. ASSUME NEW t \in m_timers, m_next[t] < Start + Never
        PROVE  deadline'[i] <= real \/ Start + deadline'[i] <= m_next[t]
    <2>1. PICK u \in m_timers : /\ m_next[u] <= m_next[t]
                                /\ deadline' = [deadline EXCEPT ![i] =
                                     IF Timeout(Ahead(u)) < 0 \/ real + Timeout(Ahead(u)) > MaxReal
                                     THEN Never ELSE real + Timeout(Ahead(u))]
      <3>1. PICK w \in {Timeout(Ahead(u)) : u \in {x \in m_timers : \A y \in m_timers : m_next[x] <= m_next[y]}} :
               deadline' = [deadline EXCEPT ![i] = IF w < 0 \/ real + w > MaxReal THEN Never ELSE real + w]
        BY <1>4, <1>6 DEF getNextTimer
      <3>2. PICK u \in {x \in m_timers : \A y \in m_timers : m_next[x] <= m_next[y]} : w = Timeout(Ahead(u))
        BY <3>1
      <3> QED
        BY <1>6, <3>1, <3>2
    <2>2. /\ u \in Timers /\ m_next[u] \in Nat /\ m_next[t] \in Nat /\ stage[u] = "placed" /\ m_ms[u] \in Periods \cup {0}
          /\ m_next[u] = Start + armedAt[u] + m_ms[u] /\ clock = Start + real /\ armedAt[u] <= real
      BY <1>0, <1>4 DEF IInv, Unlisted, ClockInv, SleepInv
    <2>3. m_ms[u] < IntHalf
      BY <2>2, TimerAssumption
    <2>4. Ahead(u) \in Nat /\ Ahead(u) < IntHalf /\ (Ahead(u) = 0 \/ Ahead(u) = m_next[u] - clock)
      BY <1>0, <2>2, <2>3, TimerAssumption DEF Ahead
    <2>5. Timeout(Ahead(u)) \in Nat /\ Timeout(Ahead(u)) <= Ahead(u)
      BY <2>4, TimeoutShort
    <2>6. real + Timeout(Ahead(u)) <= MaxReal
      BY <1>0, <1>6, <2>1, <2>2, <2>4, <2>5
    <2>7. deadline'[i] = real + Timeout(Ahead(u))
      BY <1>0, <2>1, <2>5, <2>6 DEF TypeOK
    <2> QED
      BY <1>0, <2>1, <2>2, <2>4, <2>5, <2>7
  <1> QED
    BY <1>1, <1>5, <1>6 DEF Covered

\* SleepInv is inductive relative to IInv and ClockInv, for timers of less than 2^31 ms.
LEMMA SleepNext ==
    ASSUME \A ms \in Periods : ms < IntHalf, IInv, ClockInv, SleepInv, [Next]_vars
    PROVE  SleepInv'
  <1>1. CASE Tick
    <2>1. /\ real' = real + 1 /\ real \in Nat /\ \A i \in Idlers : deadline[i] \in Nat
          /\ \A t \in Timers : armedAt[t] \in Nat
          /\ m_timers \subseteq Timers
          /\ UNCHANGED <<backs, m_timers, m_tickled, timerVars, notifying, loopVars, edge>>
      BY <1>1, TimerAssumption DEF Tick, IInv, TypeOK, Never
    <2>2. Asleep' => Asleep
      BY <2>1 DEF Asleep
    <2>3. ASSUME NEW t \in m_timers, Covered(t) PROVE Covered(t)'
      BY <2>1, <2>3 DEF Covered
    <2> QED
      BY <2>1, <2>2, <2>3 DEF SleepInv
  <1>2. CASE SetBack(1) \/ SetBack(Gap + 1)
    <2>1. backs' = backs + 1 /\ backs \in Nat /\ m_ms' = m_ms
      BY <1>2 DEF SetBack, IInv, TypeOK
    <2> QED
      BY <2>1 DEF SleepInv, Asleep
  <1>3. CASE \E t \in Timers : Client(t) \/ addTimer(t) \/ onTimerInsertedAtFront(t)
    BY <1>3, SleepClient
  <1>4. CASE \E i \in Idlers : Idle(i) \/ SocketWake(i)
    BY <1>4, SleepIdle
  <1>5. CASE UNCHANGED vars
    BY <1>5 DEF vars, SleepInv, Asleep, Covered
  <1> QED
    BY <1>1, <1>2, <1>3, <1>4, <1>5 DEF Next, Over

\* For timers of less than 2^31 ms: when all threads sleep and no wake-up is on
\* its way, one of them wakes up in time for the first timer, whatever was
\* inserted, reset, refreshed, cancelled or listed in the meantime.
THEOREM TimerNoOversleep ==
    ASSUME \A ms \in Periods : ms < IntHalf
    PROVE  Spec => []NoOversleep
  <1>1. Init => ClockInv /\ SleepInv
    BY TimerAssumption DEF Init, ClockInv, SleepInv, Asleep
  <1>2. IInv /\ ClockInv /\ SleepInv => NoOversleep
    <2> SUFFICES ASSUME IInv, ClockInv, SleepInv, Asleep, NEW t \in m_timers, real + (m_next[t] - clock) < Never
                 PROVE  \E i \in Idlers : deadline[i] <= real + (IF m_next[t] > clock THEN m_next[t] - clock ELSE 0)
      BY DEF NoOversleep, Asleep
    <2>1. /\ clock = Start + real /\ Start \in Nat /\ real \in Nat /\ Never \in Nat /\ m_next[t] \in Nat
          /\ \A i \in Idlers : deadline[i] \in Nat
      BY TimerAssumption DEF ClockInv, Asleep, IInv, TypeOK, Never
    <2>2. PICK i \in Idlers : deadline[i] <= real \/ Start + deadline[i] <= m_next[t]
      BY <2>1 DEF SleepInv, Covered
    <2> QED
      BY <2>1, <2>2
  <1>3. ASSUME IInv, ClockInv, SleepInv, [Next]_vars PROVE ClockInv' /\ SleepInv'
    BY <1>3, ClockNext, SleepNext
  <1> QED
    BY <1>1, <1>2, <1>3, TimerInvariant, PTL DEF Spec

=============================================================================
