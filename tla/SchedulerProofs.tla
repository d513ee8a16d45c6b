-------------------------- MODULE SchedulerProofs --------------------------
(***************************************************************************)
(* Proofs about module Scheduler, for every set of threads, callbacks and  *)
(* fibers, with and without use_caller, and for every use of thread        *)
(* affinity.                                                               *)
(***************************************************************************)
EXTENDS Scheduler, FiniteSetTheorems, TLAPS

(***************************************************************************)
(* The inductive invariant.  OneOwner is not inductive: it needs to know   *)
(* where the references to a fiber are while its thread lets go of it.     *)
(***************************************************************************)

\* An entry is a fiber or a callback, never both.
WellFormed(e) == (e.fiber = NoFiber) # (e.cb = NoCb)

\* The list: well-formed entries, and no fiber twice.
QueueInv ==
    /\ \A i \in DOMAIN m_fibers : WellFormed(m_fibers[i])
    /\ \A i, j \in DOMAIN m_fibers :
          m_fibers[i].fiber = m_fibers[j].fiber /\ m_fibers[i].fiber # NoFiber => i = j

\* A resume path leads to an allocated fiber, and there is one of them.
PathInv ==
    \A f \in Fibers :
        /\ Queued(f) => st[f] # "NONE" /\ f \notin armed
        /\ f \in armed => st[f] # "NONE"

\* A fiber in EXEC is on a thread.
ExecInv ==
    \A f \in Fibers : st[f] = "EXEC" => \E t \in Threads : InFiber(t) /\ Cur(t) = f

\* The fiber a thread has swapped into, up to the moment run() lets go of it.
InFiberInv(t) ==
    InFiber(t) =>
        /\ ft[t].cb = NoCb
        /\ Cur(t) \in Fibers
        /\ st[Cur(t)] \in {"EXEC", "READY", "TERM", "EXCEPT"}
        /\ pc[t] = "user" => st[Cur(t)] = "EXEC"
        /\ st[Cur(t)] = "READY" => Cur(t) \notin armed /\ ~ Queued(Cur(t))
        /\ st[Cur(t)] = "EXEC" /\ pc[t] # "user" => Cur(t) \in armed \/ Queued(Cur(t))
        /\ ft[t].fiber = NoFiber /\ st[Cur(t)] \in Ended
              => Cur(t) \notin armed /\ ~ Queued(Cur(t))

\* The entry in a thread's hands before it is dispatched.
DispatchInv(t) ==
    /\ ~ Holding(t) => ft[t] = NoEntry
    /\ pc[t] = "dispatch" =>
          /\ WellFormed(ft[t])
          /\ ft[t].fiber # NoFiber =>
                /\ st[ft[t].fiber] # "NONE"
                /\ ft[t].fiber \notin armed
                /\ ~ Queued(ft[t].fiber)

\* The pooled fiber is in INIT and known to nobody unless it runs a callback.
PooledInv(t) ==
    cb_fiber[t] # NoFiber /\ ~ (InFiber(t) /\ ft[t].fiber = NoFiber)
        => /\ st[cb_fiber[t]] = "INIT"
           /\ cb_fiber[t] \notin armed
           /\ ~ Queued(cb_fiber[t])

\* Two threads hold one fiber only when it is over and one of them is about
\* to drop its entry; a pooled fiber belongs to one thread.
PairInv(t, u) ==
    /\ cb_fiber[t] # NoFiber => cb_fiber[t] # ft[u].fiber
    /\ t # u =>
          /\ cb_fiber[t] # NoFiber => cb_fiber[t] # cb_fiber[u]
          /\ ft[t].fiber # NoFiber /\ ft[t].fiber = ft[u].fiber =>
                /\ st[ft[t].fiber] \in Ended
                /\ ~ (InFiber(t) /\ InFiber(u))

FiberInv ==
    /\ QueueInv
    /\ PathInv
    /\ ExecInv
    /\ \A t \in Threads : InFiberInv(t) /\ DispatchInv(t) /\ PooledInv(t)
    /\ \A t, u \in Threads : PairInv(t, u)

-----------------------------------------------------------------------------
(* Sequences: what push_back and erase do to the list. *)

\* push_back adds one entry at the end and keeps the others.
LEMMA AppendFacts ==
    ASSUME NEW S, NEW s \in Seq(S), NEW e \in S
    PROVE  /\ Append(s, e) \in Seq(S)
           /\ DOMAIN Append(s, e) = 1 .. (Len(s) + 1)
           /\ \A i \in DOMAIN s : i \in DOMAIN Append(s, e) /\ Append(s, e)[i] = s[i]
           /\ Append(s, e)[Len(s) + 1] = e
           /\ \A i \in DOMAIN Append(s, e) : i \in DOMAIN s \/ i = Len(s) + 1
  OBVIOUS

\* erase removes one entry and keeps the others in their order.
LEMMA EraseFacts ==
    ASSUME NEW S, NEW s \in Seq(S), NEW i \in DOMAIN s
    PROVE  /\ Erase(s, i) \in Seq(S)
           /\ DOMAIN Erase(s, i) = 1 .. (Len(s) - 1)
           /\ \A j \in DOMAIN Erase(s, i) :
                 /\ j \in DOMAIN s
                 /\ j + 1 \in DOMAIN s
                 /\ Erase(s, i)[j] = IF j < i THEN s[j] ELSE s[j + 1]
  <1> DEFINE a == SubSeq(s, 1, i - 1)
             b == SubSeq(s, i + 1, Len(s))
  <1>1. i \in 1 .. Len(s) /\ Len(s) \in Nat /\ DOMAIN s = 1 .. Len(s)
    OBVIOUS
  <1>2. a \in Seq(S) /\ Len(a) = i - 1 /\ \A j \in 1 .. (i - 1) : a[j] = s[j]
    BY <1>1
  <1>3. b \in Seq(S) /\ Len(b) = Len(s) - i /\ \A j \in 1 .. (Len(s) - i) : b[j] = s[i + j]
    BY <1>1
  <1> HIDE DEF a, b
  <1>4. a \o b \in Seq(S) /\ Len(a \o b) = Len(s) - 1
    <2>1. a \in Seq(S) /\ b \in Seq(S) /\ Len(a) + Len(b) = Len(s) - 1
      BY <1>1, <1>2, <1>3
    <2> QED
      BY <2>1
  <1>5. \A j \in 1 .. (Len(s) - 1) : (a \o b)[j] = IF j < i THEN s[j] ELSE s[j + 1]
    <2> SUFFICES ASSUME NEW j \in 1 .. (Len(s) - 1)
                 PROVE  (a \o b)[j] = IF j < i THEN s[j] ELSE s[j + 1]
      OBVIOUS
    <2>1. CASE j < i
      BY <2>1, <1>1, <1>2, <1>3
    <2>2. CASE ~ (j < i)
      <3>1. j - (i - 1) \in 1 .. (Len(s) - i) /\ i + (j - (i - 1)) = j + 1
        BY <2>2, <1>1
      <3>2. (a \o b)[j] = b[j - (i - 1)]
        BY <2>2, <1>1, <1>2, <1>3
      <3> QED
        BY <2>2, <3>1, <3>2, <1>3
    <2> QED
      BY <2>1, <2>2
  <1>6. Erase(s, i) = a \o b
    BY DEF Erase, a, b
  <1>7. DOMAIN (a \o b) = 1 .. (Len(s) - 1)
    BY <1>4
  <1>8. \A j \in 1 .. (Len(s) - 1) : j \in DOMAIN s /\ j + 1 \in DOMAIN s
    BY <1>1
  <1> HIDE DEF a, b
  <1> QED
    BY <1>4, <1>5, <1>6, <1>7, <1>8

-----------------------------------------------------------------------------
(* Type correctness *)

\* The entries schedule() makes, and an empty one, are FiberAndThread records.
LEMMA EntryTypes ==
    /\ NoEntry \in FiberAndThread
    /\ \A f \in Fibers, k \in Targets : FiberEntry(f, k) \in FiberAndThread
    /\ \A c \in Cbs, k \in Targets : CbEntry(c, k) \in FiberAndThread
    /\ AnyThread \in Targets
  BY ThreadAssumption DEF FiberAndThread, NoEntry, FiberEntry, CbEntry, Targets

\* TypeOK is not inductive on its own: a thread that has swapped into a fiber
\* must have one.
HasFiber == \A t \in Threads : InFiber(t) => Cur(t) \in Fibers
TypeInv == TypeOK /\ HasFiber

\* The constructed scheduler is well typed.
LEMMA TypeInit == Init => TypeInv
  <1> SUFFICES ASSUME Init PROVE TypeInv
    OBVIOUS
  <1>1. TypeOK
    <2>1. NoEntry \in FiberAndThread
      BY EntryTypes
    <2>2. m_fibers \in Seq(FiberAndThread) /\ ft \in [Threads -> FiberAndThread]
      BY <2>1 DEF Init
    <2>3. /\ st \in [Fibers -> State]
          /\ body \in [Fibers -> Cbs \cup {NoCb}]
          /\ idleTerm \in [Threads -> BOOLEAN]
          /\ cb_fiber \in [Threads -> Fibers \cup {NoFiber}]
          /\ pc \in [Threads -> {"out", "scan", "idle", "dispatch", "user", "leaving",
                                 "dec", "settle", "exit"}]
      BY DEF Init, State
    <2>4. yields \in 0 .. MaxYield
      BY ObjectAssumption DEF Init
    <2>5. /\ armed \subseteq Fibers /\ submitted \subseteq Cbs
          /\ mpc = "init"
          /\ m_activeThreadCount \in Int /\ m_idleThreadCount \in Int
      BY DEF Init
    <2>6. m_stopping \in BOOLEAN /\ m_autoStop \in BOOLEAN
      BY Zenon DEF Init
    <2> QED
      BY <2>2, <2>3, <2>4, <2>5, <2>6 DEF TypeOK
  <1>2. HasFiber
    BY DEF Init, HasFiber, InFiber
  <1> QED
    BY <1>1, <1>2 DEF TypeInv

USE DEF queueVars, fiberVars, threadVars, countVars, flagVars

\* schedule() and the wakers keep the types.
LEMMA TypeCalls ==
    ASSUME TypeOK, Calls
    PROVE  /\ m_fibers' \in Seq(FiberAndThread)
           /\ submitted' \subseteq Cbs
           /\ st' \in [Fibers -> State]
           /\ body' \in [Fibers -> Cbs \cup {NoCb}]
           /\ armed' \subseteq Fibers
  <1> PICK k \in Targets :
           \/ \E c \in Cbs : SubmitCb(c, k)
           \/ \E c \in Cbs, f \in Fibers : SubmitFiber(c, f, k)
           \/ \E g \in Fibers : Fire(g, k)
    BY DEF Calls
  <1>1. CASE \E c \in Cbs : SubmitCb(c, k)
    BY <1>1, EntryTypes, AppendFacts DEF SubmitCb, schedule, TypeOK
  <1>2. CASE \E c \in Cbs, f \in Fibers : SubmitFiber(c, f, k)
    BY <1>2, EntryTypes, AppendFacts DEF SubmitFiber, schedule, TypeOK, State
  <1>3. CASE \E g \in Fibers : Fire(g, k)
    BY <1>3, EntryTypes, AppendFacts DEF Fire, schedule, TypeOK
  <1> QED
    BY <1>1, <1>2, <1>3

\* The fiber a thread is in, or its pooled one, is a Fiber or null.
LEMMA CurType ==
    ASSUME TypeOK, NEW t \in Threads
    PROVE  /\ Cur(t) \in Fibers \cup {NoFiber}
           /\ ft[t].fiber \in Fibers \cup {NoFiber}
           /\ cb_fiber[t] \in Fibers \cup {NoFiber}
  BY DEF TypeOK, Cur, FiberAndThread

\* The steps of stop() keep the types.
LEMMA TypeStop ==
    ASSUME TypeInv, MainCalls \/ start \/ StopBegin \/ StopStep
    PROVE  TypeOK'
  <1> USE DEF TypeInv
  <1>1. CASE MainCalls
    BY <1>1, TypeCalls DEF MainCalls, TypeOK
  <1>2. CASE start
    BY <1>2 DEF start, TypeOK
  <1>3. CASE StopBegin \/ StopEarly \/ StopFlag
    BY <1>3 DEF StopBegin, StopEarly, StopFlag, TypeOK
  <1>4. CASE StopRoot \/ StopRootDone \/ StopJoin
    BY <1>4 DEF StopRoot, StopRootDone, StopJoin, TypeOK
  <1> QED
    BY <1>1, <1>2, <1>3, <1>4 DEF StopStep

\* The steps of run() and of user code keep the types.
LEMMA TypeThread ==
    ASSUME TypeInv, NEW t \in Threads, ThreadStep(t) \/ UserStep(t)
    PROVE  TypeOK'
  <1> TypeOK /\ (InFiber(t) => Cur(t) \in Fibers)
    BY DEF TypeInv, HasFiber
  <1>1. CASE Take(t)
    <2>1. PICK i \in DOMAIN m_fibers :
             /\ ft' = [ft EXCEPT ![t] = m_fibers[i]]
             /\ m_fibers' = Erase(m_fibers, i)
      BY <1>1 DEF Take
    <2>2. m_fibers[i] \in FiberAndThread /\ m_fibers' \in Seq(FiberAndThread)
      BY <2>1, EraseFacts DEF TypeOK
    <2> QED
      BY <1>1, <2>1, <2>2 DEF Take, TypeOK
  <1>2. CASE GoIdle(t)
    BY <1>2 DEF GoIdle, TypeOK
  <1>3. CASE Exit(t)
    BY <1>3 DEF Exit, Abort, TypeOK
  <1>4. CASE Idle(t)
    BY <1>4 DEF Idle, Stopping, TypeOK
  <1>5. CASE SwapInFiber(t)
    BY <1>5 DEF SwapInFiber, Abort, TypeOK, State
  <1>6. CASE DropEnded(t)
    BY <1>6, EntryTypes DEF DropEnded, TypeOK
  <1>7. CASE ReuseCbFiber(t)
    <2>1. ft[t].cb \in Cbs \cup {NoCb}
      BY DEF TypeOK, FiberAndThread
    <2> QED
      BY <1>7, <2>1, EntryTypes DEF ReuseCbFiber, Abort, TypeOK, State
  <1>8. CASE \E f \in Fibers : NewCbFiber(t, f)
    <2>1. ft[t].cb \in Cbs \cup {NoCb}
      BY DEF TypeOK, FiberAndThread
    <2> QED
      BY <1>8, <2>1, EntryTypes DEF NewCbFiber, TypeOK, State
  <1>9. CASE YieldToHold(t) \/ SwapOut(t) \/ Decrement(t)
    BY <1>9 DEF YieldToHold, SwapOut, Decrement, TypeOK
  <1>10. CASE Return(t) \/ Throw(t)
    BY <1>10 DEF Return, Throw, TypeOK, State
  <1>11. CASE SettleReady(t)
    <2>1. Cur(t) \in Fibers
      BY <1>11 DEF SettleReady, InFiber
    <2> QED
      BY <1>11, <2>1, EntryTypes, AppendFacts DEF SettleReady, Release, schedule, TypeOK
  <1>12. CASE SettleEnded(t)
    BY <1>12, EntryTypes DEF SettleEnded, TypeOK, State
  <1>13. CASE SettleHold(t)
    BY <1>13, EntryTypes DEF SettleHold, Release, Abort, TypeOK, State
  <1>14. CASE UserCalls(t)
    BY <1>14, TypeCalls DEF UserCalls, TypeOK
  <1>15. CASE Arm(t)
    BY <1>15, ObjectAssumption DEF Arm, InFiber, TypeOK
  <1>16. CASE YieldToReady(t)
    BY <1>16, ObjectAssumption DEF YieldToReady, InFiber, TypeOK, State
  <1> QED
    BY <1>1, <1>2, <1>3, <1>4, <1>5, <1>6, <1>7, <1>8, <1>9, <1>10, <1>11, <1>12,
       <1>13, <1>14, <1>15, <1>16 DEF ThreadStep, UserStep


\* A thread past swapIn() has a fiber to come back from.
LEMMA HasFiberThread ==
    ASSUME TypeInv, NEW t \in Threads, ThreadStep(t) \/ UserStep(t)
    PROVE  HasFiber'
  <1> USE DEF TypeInv, HasFiber, InFiber, Cur
  <1> SUFFICES ASSUME NEW u \in Threads, InFiber(u)'
               PROVE  Cur(u)' \in Fibers
    OBVIOUS
  <1> TypeOK /\ (InFiber(u) => Cur(u) \in Fibers)
    OBVIOUS
  <1>1. CASE Take(t)
    BY <1>1 DEF Take, TypeOK
  <1>2. CASE GoIdle(t) \/ Exit(t) \/ Idle(t)
    BY <1>2 DEF GoIdle, Exit, Idle, Abort, TypeOK
  <1>3. CASE SwapInFiber(t)
    BY <1>3, CurType DEF SwapInFiber, Abort, TypeOK
  <1>4. CASE DropEnded(t)
    BY <1>4 DEF DropEnded, TypeOK
  <1>5. CASE ReuseCbFiber(t)
    BY <1>5 DEF ReuseCbFiber, Abort, NoEntry, TypeOK
  <1>6. CASE \E f \in Fibers : NewCbFiber(t, f)
    BY <1>6 DEF NewCbFiber, NoEntry, TypeOK
  <1>7. CASE YieldToHold(t) \/ Return(t) \/ Throw(t) \/ SwapOut(t) \/ Decrement(t)
    BY <1>7 DEF YieldToHold, Return, Throw, SwapOut, Decrement, TypeOK
  <1>8. CASE SettleReady(t) \/ SettleEnded(t) \/ SettleHold(t)
    BY <1>8 DEF SettleReady, SettleEnded, SettleHold, Release, Abort, TypeOK
  <1>9. CASE UserCalls(t) \/ Arm(t) \/ YieldToReady(t)
    BY <1>9 DEF UserCalls, Arm, YieldToReady, TypeOK
  <1> QED
    BY <1>1, <1>2, <1>3, <1>4, <1>5, <1>6, <1>7, <1>8, <1>9 DEF ThreadStep, UserStep

\* The steps of stop() do not move a thread into a fiber.
LEMMA HasFiberStop ==
    ASSUME TypeInv, MainCalls \/ start \/ StopBegin \/ StopStep
    PROVE  HasFiber'
  <1> USE DEF TypeInv, HasFiber, InFiber, Cur
  <1>1. CASE MainCalls
    BY <1>1 DEF MainCalls
  <1>2. CASE start
    BY <1>2 DEF start, TypeOK
  <1>3. CASE StopBegin \/ StopEarly \/ StopFlag \/ StopRootDone \/ StopJoin
    BY <1>3 DEF StopBegin, StopEarly, StopFlag, StopRootDone, StopJoin
  <1>4. CASE StopRoot
    BY <1>4 DEF StopRoot, TypeOK
  <1> QED
    BY <1>1, <1>2, <1>3, <1>4 DEF StopStep

\* The type invariant is inductive.
LEMMA TypeNext == TypeInv /\ [Next]_vars => TypeInv'
  <1> SUFFICES ASSUME TypeInv, [Next]_vars PROVE TypeInv'
    OBVIOUS
  <1>1. CASE MainCalls \/ start \/ StopBegin \/ StopStep
    BY <1>1, TypeStop, HasFiberStop DEF TypeInv
  <1>2. CASE \E t \in Threads : ThreadStep(t) \/ UserStep(t)
    BY <1>2, TypeThread, HasFiberThread DEF TypeInv
  <1>3. CASE UNCHANGED vars
    BY <1>3 DEF vars, TypeInv, TypeOK, HasFiber, InFiber, Cur
  <1> QED
    BY <1>1, <1>2, <1>3 DEF Next, Over

\* Type correctness, for every instance.
THEOREM SchedulerTypeCorrect == Spec => []TypeOK
  <1>1. Spec => []TypeInv
    BY TypeInit, TypeNext, PTL DEF Spec
  <1> QED
    BY <1>1, PTL DEF TypeInv

-----------------------------------------------------------------------------
(* The list under push_back and erase *)

\* push_back keeps the list well formed and adds the entry's fiber to it.
LEMMA QueueAppend ==
    ASSUME TypeOK, QueueInv, NEW e \in FiberAndThread, WellFormed(e),
           e.fiber # NoFiber => ~ Queued(e.fiber), schedule(e)
    PROVE  /\ QueueInv'
           /\ QueuedFibers' = QueuedFibers \cup {e.fiber}
  <1>1. /\ DOMAIN m_fibers' = 1 .. (Len(m_fibers) + 1)
        /\ DOMAIN m_fibers = 1 .. Len(m_fibers)
        /\ Len(m_fibers) \in Nat
        /\ \A i \in DOMAIN m_fibers : i \in DOMAIN m_fibers' /\ m_fibers'[i] = m_fibers[i]
        /\ m_fibers'[Len(m_fibers) + 1] = e
        /\ \A i \in DOMAIN m_fibers' : i \in DOMAIN m_fibers \/ i = Len(m_fibers) + 1
    BY AppendFacts DEF schedule, TypeOK
  <1>2. Len(m_fibers) + 1 \in DOMAIN m_fibers'
    BY <1>1
  <1>3. QueuedFibers' = QueuedFibers \cup {e.fiber}
    BY <1>1, <1>2, Zenon DEF QueuedFibers
  <1>4. \A i \in DOMAIN m_fibers' : WellFormed(m_fibers'[i])
    BY <1>1 DEF QueueInv, WellFormed
  <1>5. \A i \in DOMAIN m_fibers : e.fiber # NoFiber => m_fibers[i].fiber # e.fiber
    BY DEF Queued, QueuedFibers
  <1>6. ASSUME NEW i \in DOMAIN m_fibers', NEW j \in DOMAIN m_fibers',
               m_fibers'[i].fiber = m_fibers'[j].fiber, m_fibers'[i].fiber # NoFiber
        PROVE  i = j
    BY <1>1, <1>5, <1>6 DEF QueueInv
  <1> QED
    BY <1>3, <1>4, <1>6 DEF QueueInv, WellFormed

\* erase keeps the list well formed and takes the entry's fiber out.
LEMMA QueueErase ==
    ASSUME TypeOK, QueueInv, NEW i \in DOMAIN m_fibers, m_fibers' = Erase(m_fibers, i)
    PROVE  /\ QueueInv'
           /\ QueuedFibers' \subseteq QueuedFibers
           /\ m_fibers[i].fiber \in QueuedFibers
           /\ \A f \in QueuedFibers : f \in QueuedFibers' \/ f = m_fibers[i].fiber
           /\ m_fibers[i].fiber # NoFiber => m_fibers[i].fiber \notin QueuedFibers'
  <1> DEFINE old(j) == IF j < i THEN j ELSE j + 1
  <1>1. /\ DOMAIN m_fibers' = 1 .. (Len(m_fibers) - 1)
        /\ DOMAIN m_fibers = 1 .. Len(m_fibers)
        /\ Len(m_fibers) \in Nat
    BY EraseFacts DEF TypeOK
  <1>2. \A j \in DOMAIN m_fibers' : old(j) \in DOMAIN m_fibers /\ m_fibers'[j] = m_fibers[old(j)]
    BY EraseFacts DEF TypeOK
  <1>3. \A j, k \in DOMAIN m_fibers' : old(j) = old(k) => j = k
    BY <1>1
  <1>4. \A j \in DOMAIN m_fibers' : old(j) # i
    BY <1>1
  <1>5. \A k \in DOMAIN m_fibers : k # i => \E j \in DOMAIN m_fibers' : old(j) = k
    <2> SUFFICES ASSUME NEW k \in DOMAIN m_fibers, k # i
                 PROVE  \E j \in DOMAIN m_fibers' : old(j) = k
      OBVIOUS
    <2>1. CASE k < i
      <3>1. k \in DOMAIN m_fibers' /\ old(k) = k
        BY <1>1, <2>1
      <3> QED
        BY <3>1
    <2>2. CASE ~ (k < i)
      <3>1. k - 1 \in DOMAIN m_fibers' /\ old(k - 1) = k
        BY <1>1, <2>2
      <3> QED
        BY <3>1
    <2> QED
      BY <2>1, <2>2
  <1> HIDE DEF old
  <1>6. QueueInv'
    <2>1. \A j \in DOMAIN m_fibers' : WellFormed(m_fibers'[j])
      BY <1>2 DEF QueueInv
    <2>2. ASSUME NEW j \in DOMAIN m_fibers', NEW k \in DOMAIN m_fibers',
                 m_fibers'[j].fiber = m_fibers'[k].fiber, m_fibers'[j].fiber # NoFiber
          PROVE  j = k
      BY <1>2, <1>3, <2>2 DEF QueueInv
    <2> QED
      BY <2>1, <2>2 DEF QueueInv, WellFormed
  <1>7. QueuedFibers' \subseteq QueuedFibers
    BY <1>2 DEF QueuedFibers
  <1>8. \A f \in QueuedFibers : f \in QueuedFibers' \/ f = m_fibers[i].fiber
    BY <1>2, <1>5 DEF QueuedFibers
  <1>9. m_fibers[i].fiber # NoFiber => m_fibers[i].fiber \notin QueuedFibers'
    BY <1>2, <1>4 DEF QueuedFibers, QueueInv
  <1> QED
    BY <1>6, <1>7, <1>8, <1>9 DEF QueuedFibers

-----------------------------------------------------------------------------
(* FiberInv: the first state, and the steps that leave fibers alone *)

\* FiberInv holds when nothing is allocated yet.
LEMMA FiberInit == Init => FiberInv
  BY DEF Init, FiberInv, QueueInv, PathInv, ExecInv, InFiberInv, DispatchInv, PooledInv,
         PairInv, InFiber, Holding, Counted, Queued, QueuedFibers, NoEntry

\* A step that changes neither the list, nor a fiber, nor what a thread holds,
\* and moves threads only outside the part of run() that holds an entry.
LEMMA FiberFrame ==
    ASSUME TypeInv, FiberInv,
           UNCHANGED <<m_fibers, st, armed, ft, cb_fiber>>,
           \A t \in Threads : pc'[t] = pc[t] \/ ~ (Holding(t) \/ Holding(t)')
    PROVE  FiberInv'
  <1>1. \A t \in Threads : /\ InFiber(t)' = InFiber(t)
                            /\ Holding(t)' = Holding(t)
                            /\ (pc[t] = "dispatch")' = (pc[t] = "dispatch")
                            /\ (pc[t] = "user")' = (pc[t] = "user")
    BY DEF Holding, Counted, InFiber
  <1>2. QueueInv' /\ QueuedFibers' = QueuedFibers
    BY DEF FiberInv, QueueInv, WellFormed, QueuedFibers
  <1>3. PathInv' /\ ExecInv'
    BY <1>1, <1>2 DEF FiberInv, PathInv, ExecInv, Queued, Cur
  <1>4. ASSUME NEW t \in Threads
        PROVE  InFiberInv(t)' /\ DispatchInv(t)' /\ PooledInv(t)'
    BY <1>1, <1>2 DEF FiberInv, InFiberInv, DispatchInv, PooledInv, Queued, Cur, WellFormed
  <1>5. ASSUME NEW t \in Threads, NEW u \in Threads
        PROVE  PairInv(t, u)'
    BY <1>1 DEF FiberInv, PairInv
  <1> QED
    BY <1>2, <1>3, <1>4, <1>5 DEF FiberInv

\* Threads enter run() in start(), and the owner's only in stop().
StageInv ==
    /\ mpc = "init" => \A t \in Threads : pc[t] = "out"
    /\ mpc \in {"init", "open", "early", "setstop", "rootcheck"} /\ UseCaller
          => pc[Main] = "out"
    /\ mpc = "rootcheck" => UseCaller

\* A step of run() moves its own thread only, and stop() not at all (or it aborts).
LEMMA ThreadStepMoves ==
    ASSUME TypeOK, NEW t \in Threads, ThreadStep(t) \/ UserStep(t)
    PROVE  /\ pc[t] # "out"
           /\ pc'[t] # "out"
           /\ \A u \in Threads : u # t => pc'[u] = pc[u]
           /\ mpc' = mpc \/ mpc' = "aborted"
  <1>1. CASE Take(t) \/ GoIdle(t) \/ Exit(t) \/ Idle(t)
    BY <1>1 DEF Take, GoIdle, Exit, Idle, Abort, TypeOK
  <1>2. CASE SwapInFiber(t) \/ DropEnded(t) \/ ReuseCbFiber(t) \/ \E f \in Fibers : NewCbFiber(t, f)
    BY <1>2 DEF SwapInFiber, DropEnded, ReuseCbFiber, NewCbFiber, Abort, TypeOK
  <1>3. CASE YieldToHold(t) \/ Return(t) \/ Throw(t) \/ SwapOut(t) \/ Decrement(t)
    BY <1>3 DEF YieldToHold, Return, Throw, SwapOut, Decrement, TypeOK
  <1>4. CASE SettleReady(t) \/ SettleEnded(t) \/ SettleHold(t)
    BY <1>4 DEF SettleReady, SettleEnded, SettleHold, Release, Abort, TypeOK
  <1>5. CASE UserCalls(t) \/ Arm(t) \/ YieldToReady(t)
    BY <1>5 DEF UserCalls, Arm, YieldToReady, TypeOK
  <1> QED
    BY <1>1, <1>2, <1>3, <1>4, <1>5 DEF ThreadStep, UserStep

\* stop() calls run() on Main only when Main is in the pool.
LEMMA StageNext == TypeInv /\ StageInv /\ [Next]_vars => StageInv'
  <1> SUFFICES ASSUME TypeInv, StageInv, [Next]_vars PROVE StageInv'
    OBVIOUS
  <1> USE DEF TypeInv, StageInv
  <1>1. CASE MainCalls
    BY <1>1 DEF MainCalls
  <1>2. CASE start
    BY <1>2, ThreadAssumption DEF start, Threads, TypeOK
  <1>3. CASE StopBegin \/ StopEarly \/ StopFlag \/ StopRoot \/ StopRootDone \/ StopJoin
    BY <1>3 DEF StopBegin, StopEarly, StopFlag, StopRoot, StopRootDone, StopJoin
  <1>4. CASE \E t \in Threads : ThreadStep(t) \/ UserStep(t)
    <2>1. PICK t \in Threads : ThreadStep(t) \/ UserStep(t)
      BY <1>4
    <2>2. UseCaller => Main \in Threads
      BY DEF Threads
    <2> QED
      BY <2>1, <2>2, ThreadStepMoves
  <1>5. CASE UNCHANGED vars
    BY <1>5 DEF vars
  <1> QED
    BY <1>1, <1>2, <1>3, <1>4, <1>5 DEF Next, Over, StopStep

\* start() and stop() keep FiberInv.
LEMMA FiberStop ==
    ASSUME TypeInv, StageInv, FiberInv, start \/ StopBegin \/ StopStep
    PROVE  FiberInv'
  <1> USE DEF Holding, Counted
  <1>1. CASE start
    BY <1>1, FiberFrame DEF start, StageInv, TypeInv, TypeOK
  <1>2. CASE StopRoot
    <2>1. \A t \in Threads : pc'[t] = pc[t] \/ ~ (Holding(t) \/ Holding(t)')
      BY <1>2 DEF StopRoot, StageInv, TypeInv, TypeOK
    <2> QED
      BY <1>2, <2>1, FiberFrame DEF StopRoot
  <1>3. CASE StopBegin \/ StopEarly \/ StopFlag \/ StopRootDone \/ StopJoin
    BY <1>3, FiberFrame DEF StopBegin, StopEarly, StopFlag, StopRootDone, StopJoin
  <1> QED
    BY <1>1, <1>2, <1>3 DEF StopStep

-----------------------------------------------------------------------------
(* FiberInv: the steps of run() and of user code *)

\* What a step that leaves the list alone keeps of it.
LEMMA SameQueue ==
    ASSUME QueueInv, UNCHANGED m_fibers
    PROVE  QueueInv' /\ QueuedFibers' = QueuedFibers
  BY DEF QueueInv, WellFormed, QueuedFibers

\* Going idle and coming back keeps FiberInv.
LEMMA FiberIdle ==
    ASSUME TypeInv, FiberInv, NEW t \in Threads, GoIdle(t) \/ Idle(t)
    PROVE  FiberInv'
  BY FiberFrame DEF GoIdle, Idle, Holding, Counted, TypeInv, TypeOK

\* Switching out, and the decrement after it, keep FiberInv.
LEMMA FiberLeave ==
    ASSUME TypeInv, FiberInv, NEW t \in Threads, YieldToHold(t) \/ SwapOut(t) \/ Decrement(t)
    PROVE  FiberInv'
  <1> USE DEF YieldToHold, SwapOut, Decrement, TypeInv, TypeOK
  <1>1. QueueInv' /\ QueuedFibers' = QueuedFibers
    BY SameQueue DEF FiberInv
  <1>2. PathInv'
    BY <1>1 DEF FiberInv, PathInv, Queued, HasFiber, InFiber, InFiberInv, Cur
  <1>3. ExecInv'
    BY <1>1 DEF FiberInv, ExecInv, InFiberInv, PairInv, InFiber, Cur
  <1>4. ASSUME NEW u \in Threads
        PROVE  InFiberInv(u)' /\ DispatchInv(u)' /\ PooledInv(u)'
    BY <1>1, ObjectAssumption
       DEF FiberInv, InFiberInv, DispatchInv, PooledInv, PairInv, InFiber, Holding, Counted, Cur, Queued,
           WellFormed, NoEntry, HasFiber
  <1>5. ASSUME NEW u \in Threads, NEW v \in Threads
        PROVE  PairInv(u, v)'
    BY <1>1 DEF FiberInv, PairInv, InFiber, NoEntry, InFiberInv, DispatchInv, Cur, Holding, Counted
  <1> QED
    BY <1>1, <1>2, <1>3, <1>4, <1>5 DEF FiberInv

\* The fiber a thread is in belongs to no other thread until it is over.
LEMMA Exclusive ==
    ASSUME TypeInv, FiberInv, NEW t \in Threads, InFiber(t)
    PROVE  /\ Cur(t) \in Fibers
           /\ \A u \in Threads \ {t} :
                 /\ cb_fiber[u] # Cur(t)
                 /\ ft[u].fiber = Cur(t) => st[Cur(t)] \in Ended /\ ~ InFiber(u)
           /\ st[Cur(t)] = "EXEC" =>
                 \A u \in Threads \ {t} : ft[u].fiber # Cur(t) /\ Cur(u) # Cur(t)
           /\ ft[t].fiber # NoFiber => cb_fiber[t] # Cur(t)
  <1>1. Cur(t) \in Fibers /\ Cur(t) # NoFiber
    BY ObjectAssumption DEF TypeInv, HasFiber
  <1>2. ASSUME NEW u \in Threads \ {t}
        PROVE  /\ cb_fiber[u] # Cur(t)
               /\ ft[u].fiber = Cur(t) => st[Cur(t)] \in Ended /\ ~ InFiber(u)
    BY <1>1 DEF FiberInv, PairInv, Cur
  <1>3. ft[t].fiber # NoFiber => cb_fiber[t] # Cur(t)
    BY <1>1 DEF FiberInv, PairInv, Cur
  <1> QED
    BY <1>1, <1>2, <1>3 DEF Cur, Ended

\* Dropping an entry whose fiber is over keeps FiberInv.
LEMMA FiberDrop ==
    ASSUME TypeInv, FiberInv, NEW t \in Threads, DropEnded(t)
    PROVE  FiberInv'
  <1> USE DEF DropEnded, Ended, TypeInv, TypeOK
  <1>1. QueueInv' /\ QueuedFibers' = QueuedFibers
    BY SameQueue DEF FiberInv
  <1>2. PathInv'
    BY <1>1 DEF FiberInv, PathInv, Queued, HasFiber, InFiber, InFiberInv, Cur
  <1>3. ExecInv'
    BY <1>1 DEF FiberInv, ExecInv, InFiberInv, PairInv, InFiber, Cur
  <1>4. ASSUME NEW u \in Threads
        PROVE  InFiberInv(u)' /\ DispatchInv(u)' /\ PooledInv(u)'
    BY <1>1, ObjectAssumption
       DEF FiberInv, InFiberInv, DispatchInv, PooledInv, PairInv, InFiber, Holding, Counted, Cur, Queued,
           WellFormed, NoEntry, HasFiber
  <1>5. ASSUME NEW u \in Threads, NEW v \in Threads
        PROVE  PairInv(u, v)'
    BY <1>1 DEF FiberInv, PairInv, InFiber, NoEntry, InFiberInv, DispatchInv, Cur, Holding, Counted
  <1> QED
    BY <1>1, <1>2, <1>3, <1>4, <1>5 DEF FiberInv

\* run() returns without an assertion failing and keeps FiberInv.
LEMMA FiberExit ==
    ASSUME TypeInv, FiberInv, NEW t \in Threads, Exit(t)
    PROVE  FiberInv'
  <1> USE DEF Exit, Abort, TypeInv, TypeOK
  <1>1. QueueInv' /\ QueuedFibers' = QueuedFibers
    BY SameQueue DEF FiberInv
  <1>2. PathInv'
    BY <1>1 DEF FiberInv, PathInv, Queued, HasFiber, InFiber, InFiberInv, Cur
  <1>3. ExecInv'
    BY <1>1 DEF FiberInv, ExecInv, InFiberInv, PairInv, InFiber, Cur
  <1>4. ASSUME NEW u \in Threads
        PROVE  InFiberInv(u)' /\ DispatchInv(u)' /\ PooledInv(u)'
    BY <1>1, ObjectAssumption
       DEF FiberInv, InFiberInv, DispatchInv, PooledInv, PairInv, InFiber, Holding, Counted, Cur, Queued,
           WellFormed, NoEntry, HasFiber
  <1>5. ASSUME NEW u \in Threads, NEW v \in Threads
        PROVE  PairInv(u, v)'
    BY <1>1 DEF FiberInv, PairInv, InFiber, NoEntry, InFiberInv, DispatchInv, Cur, Holding, Counted
  <1> QED
    BY <1>1, <1>2, <1>3, <1>4, <1>5 DEF FiberInv

\* A step of thread t that concerns one fiber f nobody else holds: what is left
\* to show is what becomes of t and of f.
LEMMA FiberFocus ==
    ASSUME TypeInv, FiberInv, TypeOK', NEW t \in Threads, NEW f \in Fibers,
           \A u \in Threads \ {t} :
              /\ pc'[u] = pc[u] /\ ft'[u] = ft[u] /\ cb_fiber'[u] = cb_fiber[u]
              /\ cb_fiber[u] # f /\ ft[u].fiber # f,
           \A g \in Fibers \ {f} :
              /\ st'[g] = st[g]
              /\ g \in armed' <=> g \in armed
              /\ g \in QueuedFibers' <=> g \in QueuedFibers,
           ft'[t].fiber \in {ft[t].fiber, f, NoFiber},
           cb_fiber'[t] \in {cb_fiber[t], f, NoFiber},
           InFiber(t) => Cur(t) = f,
           InFiber(t)' => Cur(t)' = f,
           cb_fiber'[t] # NoFiber => cb_fiber'[t] # ft'[t].fiber,
           QueueInv', InFiberInv(t)', DispatchInv(t)', PooledInv(t)',
           f \in QueuedFibers' => st'[f] # "NONE" /\ f \notin armed',
           f \in armed' => st'[f] # "NONE",
           st'[f] = "EXEC" => InFiber(t)'
    PROVE  FiberInv'
  <1>1. \A u \in Threads : /\ Cur(u) \in Fibers \cup {NoFiber}
                           /\ ft[u].fiber \in Fibers \cup {NoFiber}
                           /\ cb_fiber[u] \in Fibers \cup {NoFiber}
    BY CurType DEF TypeInv
  <1>2. f # NoFiber
    BY ObjectAssumption
  <1>3. \A u \in Threads \ {t} : /\ Cur(u)' = Cur(u) /\ Cur(u) # f
                                 /\ InFiber(u)' = InFiber(u) /\ Holding(u)' = Holding(u)
    BY DEF Cur, InFiber, Holding, Counted
  <1>4. PathInv'
    BY DEF FiberInv, PathInv, Queued
  <1>5. ExecInv'
    <2> SUFFICES ASSUME NEW g \in Fibers, st'[g] = "EXEC"
                 PROVE  \E u \in Threads : InFiber(u)' /\ Cur(u)' = g
      BY DEF ExecInv
    <2>1. CASE g = f
      BY <2>1
    <2>2. CASE g # f
      <3>1. PICK u \in Threads : InFiber(u) /\ Cur(u) = g
        BY <2>2 DEF FiberInv, ExecInv
      <3> QED
        BY <2>2, <3>1, <1>3
    <2> QED
      BY <2>1, <2>2
  <1>6. ASSUME NEW u \in Threads \ {t}
        PROVE  InFiberInv(u)' /\ DispatchInv(u)' /\ PooledInv(u)'
    <2>0. InFiberInv(u) /\ DispatchInv(u) /\ PooledInv(u)
      BY DEF FiberInv
    <2>1. InFiberInv(u)'
      BY <2>0, <1>1, <1>3 DEF InFiberInv, Queued
    <2>2. DispatchInv(u)'
      BY <2>0, <1>1, <1>3 DEF DispatchInv, Queued, WellFormed
    <2>3. PooledInv(u)'
      BY <2>0, <1>1, <1>3 DEF PooledInv, Queued
    <2> QED
      BY <2>1, <2>2, <2>3
  <1>7. ASSUME NEW u \in Threads, NEW v \in Threads
        PROVE  PairInv(u, v)'
    <2>0. PairInv(u, v)
      BY DEF FiberInv
    <2>1. CASE u # t /\ v # t
      BY <2>0, <2>1, <1>1, <1>3 DEF PairInv
    <2>2. CASE u = t /\ v # t
      BY <2>0, <2>2, <1>1, <1>2, <1>3 DEF PairInv, Cur
    <2>3. CASE u # t /\ v = t
      BY <2>0, <2>3, <1>1, <1>2, <1>3 DEF PairInv, Cur
    <2>4. CASE u = t /\ v = t
      BY <2>4 DEF PairInv
    <2> QED
      BY <2>1, <2>2, <2>3, <2>4
  <1> QED
    BY <1>4, <1>5, <1>6, <1>7 DEF FiberInv

\* YieldToReady() keeps FiberInv.
LEMMA FiberYieldToReady ==
    ASSUME TypeInv, TypeOK', FiberInv, NEW t \in Threads, YieldToReady(t)
    PROVE  FiberInv'
  <1>1. QueueInv' /\ QueuedFibers' = QueuedFibers
    BY SameQueue DEF FiberInv, YieldToReady
  <1>2. PICK f \in Fibers : f = Cur(t)
    BY Exclusive DEF YieldToReady, InFiber
  <1>3. /\ InFiber(t) /\ st[f] = "EXEC"
        /\ \A u \in Threads \ {t} : cb_fiber[u] # f /\ ft[u].fiber # f
        /\ ft[t].fiber # NoFiber => cb_fiber[t] # f
        /\ cb_fiber[t] # NoFiber => cb_fiber[t] # ft[t].fiber
        /\ InFiberInv(t) /\ DispatchInv(t) /\ PooledInv(t)
    BY <1>2, Exclusive DEF YieldToReady, InFiber, FiberInv, InFiberInv, PairInv
  <1>4. /\ UNCHANGED <<ft, cb_fiber>> /\ Cur(t)' = f
        /\ \A u \in Threads \ {t} : pc'[u] = pc[u]
        /\ InFiber(t)' /\ pc[t] # "dispatch" /\ Holding(t)'
    BY <1>2 DEF YieldToReady, Cur, InFiber, Holding, Counted, TypeInv, TypeOK
  <1>5. pc'[t] = "leaving" /\ st'[f] = "READY" /\ f \notin armed' /\ f \notin QueuedFibers
    BY <1>2, <1>3 DEF YieldToReady, Queued, TypeInv, TypeOK
  <1>6. \A g \in Fibers \ {f} : st'[g] = st[g] /\ (g \in armed' <=> g \in armed)
    BY <1>2 DEF YieldToReady, TypeInv, TypeOK
  <1>7. InFiberInv(t)'
    BY <1>1, <1>2, <1>3, <1>4, <1>5 DEF InFiberInv, Queued, Ended
  <1>8. DispatchInv(t)'
    BY <1>4, <1>5 DEF DispatchInv
  <1>9. PooledInv(t)'
    <2>1. cb_fiber[t] \in Fibers \cup {NoFiber}
      BY CurType DEF TypeInv
    <2> QED
      BY <2>1, <1>1, <1>2, <1>3, <1>4, <1>6 DEF PooledInv, Queued, Cur
  <1>10. f \in armed \/ Queued(f) => st[f] # "NONE" /\ ~ (f \in armed /\ Queued(f))
    BY DEF FiberInv, PathInv
  <1> QED
    BY <1>1, <1>2, <1>3, <1>4, <1>5, <1>6, <1>7, <1>8, <1>9, <1>10, FiberFocus DEF Queued, Ended

\* A callback that returns or throws keeps FiberInv.
LEMMA FiberEnd ==
    ASSUME TypeInv, TypeOK', FiberInv, NEW t \in Threads, Return(t) \/ Throw(t)
    PROVE  FiberInv'
  <1>1. QueueInv' /\ QueuedFibers' = QueuedFibers
    BY SameQueue DEF FiberInv, Return, Throw
  <1>2. PICK f \in Fibers : f = Cur(t)
    BY Exclusive DEF Return, Throw, InFiber
  <1>3. /\ InFiber(t) /\ st[f] = "EXEC"
        /\ \A u \in Threads \ {t} : cb_fiber[u] # f /\ ft[u].fiber # f
        /\ ft[t].fiber # NoFiber => cb_fiber[t] # f
        /\ cb_fiber[t] # NoFiber => cb_fiber[t] # ft[t].fiber
        /\ InFiberInv(t) /\ DispatchInv(t) /\ PooledInv(t)
    BY <1>2, Exclusive DEF Return, Throw, InFiber, FiberInv, InFiberInv, PairInv
  <1>4. /\ UNCHANGED <<ft, cb_fiber>> /\ Cur(t)' = f
        /\ \A u \in Threads \ {t} : pc'[u] = pc[u]
        /\ InFiber(t)' /\ pc[t] # "dispatch" /\ Holding(t)'
    BY <1>2 DEF Return, Throw, Cur, InFiber, Holding, Counted, TypeInv, TypeOK
  <1>5. /\ pc'[t] = "leaving" /\ st'[f] \in Ended /\ (f \in armed' <=> f \in armed)
        /\ ft[t].fiber = NoFiber => f \notin armed /\ f \notin QueuedFibers
    BY <1>2, <1>3 DEF Return, Throw, MayEnd, Ended, Queued, TypeInv, TypeOK
  <1>6. \A g \in Fibers \ {f} : st'[g] = st[g] /\ (g \in armed' <=> g \in armed)
    BY <1>2 DEF Return, Throw, TypeInv, TypeOK
  <1>7. InFiberInv(t)'
    BY <1>1, <1>2, <1>3, <1>4, <1>5 DEF InFiberInv, Queued, Ended
  <1>8. DispatchInv(t)'
    BY <1>4, <1>5 DEF DispatchInv
  <1>9. PooledInv(t)'
    <2>1. cb_fiber[t] \in Fibers \cup {NoFiber}
      BY CurType DEF TypeInv
    <2> QED
      BY <2>1, <1>1, <1>2, <1>3, <1>4, <1>6 DEF PooledInv, Queued, Cur
  <1>10. f \in armed \/ Queued(f) => st[f] # "NONE" /\ ~ (f \in armed /\ Queued(f))
    BY DEF FiberInv, PathInv
  <1> QED
    BY <1>1, <1>2, <1>3, <1>4, <1>5, <1>6, <1>7, <1>8, <1>9, <1>10, FiberFocus DEF Queued, Ended

\* Handing the running fiber to a waker keeps FiberInv.
LEMMA FiberArm ==
    ASSUME TypeInv, TypeOK', FiberInv, NEW t \in Threads, Arm(t)
    PROVE  FiberInv'
  <1>1. QueueInv' /\ QueuedFibers' = QueuedFibers
    BY SameQueue DEF FiberInv, Arm
  <1>2. PICK f \in Fibers : f = Cur(t)
    BY Exclusive DEF Arm, InFiber
  <1>3. /\ InFiber(t) /\ st[f] = "EXEC"
        /\ \A u \in Threads \ {t} : cb_fiber[u] # f /\ ft[u].fiber # f
        /\ ft[t].fiber # NoFiber => cb_fiber[t] # f
        /\ cb_fiber[t] # NoFiber => cb_fiber[t] # ft[t].fiber
        /\ InFiberInv(t) /\ DispatchInv(t) /\ PooledInv(t)
    BY <1>2, Exclusive DEF Arm, InFiber, FiberInv, InFiberInv, PairInv
  <1>4. /\ UNCHANGED <<ft, cb_fiber>> /\ Cur(t)' = f
        /\ \A u \in Threads \ {t} : pc'[u] = pc[u]
        /\ InFiber(t)' /\ pc[t] # "dispatch" /\ Holding(t)'
    BY <1>2 DEF Arm, Cur, InFiber, Holding, Counted, TypeInv, TypeOK
  <1>5. /\ pc'[t] = "user" /\ st'[f] = "EXEC" /\ f \in armed' /\ f \notin QueuedFibers
    BY <1>2, <1>3 DEF Arm, Queued, TypeInv, TypeOK
  <1>6. \A g \in Fibers \ {f} : st'[g] = st[g] /\ (g \in armed' <=> g \in armed)
    BY <1>2 DEF Arm, TypeInv, TypeOK
  <1>7. InFiberInv(t)'
    BY <1>1, <1>2, <1>3, <1>4, <1>5 DEF InFiberInv, Queued, Ended
  <1>8. DispatchInv(t)'
    BY <1>4, <1>5 DEF DispatchInv
  <1>9. PooledInv(t)'
    <2>1. cb_fiber[t] \in Fibers \cup {NoFiber}
      BY CurType DEF TypeInv
    <2> QED
      BY <2>1, <1>1, <1>2, <1>3, <1>4, <1>6 DEF PooledInv, Queued, Cur
  <1>10. f \in armed \/ Queued(f) => st[f] # "NONE" /\ ~ (f \in armed /\ Queued(f))
    BY DEF FiberInv, PathInv
  <1> QED
    BY <1>1, <1>2, <1>3, <1>4, <1>5, <1>6, <1>7, <1>8, <1>9, <1>10, FiberFocus DEF Queued, Ended

\* swapIn() of an entry's fiber finds it not in EXEC and keeps FiberInv.
LEMMA FiberSwapIn ==
    ASSUME TypeInv, TypeOK', FiberInv, NEW t \in Threads, SwapInFiber(t)
    PROVE  FiberInv' /\ mpc' = mpc
  <1>1. QueueInv' /\ QueuedFibers' = QueuedFibers
    BY SameQueue DEF FiberInv, SwapInFiber, Abort
  <1>2. PICK f \in Fibers : f = ft[t].fiber
    BY CurType DEF SwapInFiber, TypeInv
  <1>3. f # NoFiber /\ st[f] \notin Ended /\ pc[t] = "dispatch" /\ ~ InFiber(t)
    BY <1>2 DEF SwapInFiber, InFiber
  <1>4. /\ \A u \in Threads : cb_fiber[u] # f
        /\ \A u \in Threads \ {t} : ft[u].fiber # f
    BY <1>2, <1>3 DEF FiberInv, PairInv
  <1>5. /\ WellFormed(ft[t]) /\ f \notin armed /\ ~ Queued(f)
        /\ cb_fiber[t] # NoFiber =>
              st[cb_fiber[t]] = "INIT" /\ cb_fiber[t] \notin armed /\ ~ Queued(cb_fiber[t])
    BY <1>2, <1>3 DEF FiberInv, DispatchInv, PooledInv
  <1>6. st[f] # "EXEC"
    <2> SUFFICES ASSUME st[f] = "EXEC" PROVE FALSE
      OBVIOUS
    <2>1. PICK u \in Threads : InFiber(u) /\ Cur(u) = f
      BY DEF FiberInv, ExecInv
    <2> QED
      BY <2>1, <1>2, <1>3, <1>4 DEF Cur
  <1>7. /\ st' = [st EXCEPT ![f] = "EXEC"] /\ pc' = [pc EXCEPT ![t] = "user"]
        /\ UNCHANGED <<armed, ft, cb_fiber, mpc>>
    BY <1>2, <1>6 DEF SwapInFiber
  <1>8. /\ st'[f] = "EXEC" /\ \A g \in Fibers \ {f} : st'[g] = st[g]
        /\ pc'[t] = "user" /\ \A u \in Threads \ {t} : pc'[u] = pc[u]
        /\ InFiber(t)' /\ Holding(t)' /\ Cur(t)' = f
    BY <1>2, <1>3, <1>7 DEF TypeInv, TypeOK, InFiber, Holding, Counted, Cur
  <1>9. InFiberInv(t)'
    BY <1>2, <1>3, <1>5, <1>7, <1>8 DEF InFiberInv, WellFormed, Ended
  <1>10. DispatchInv(t)'
    BY <1>8 DEF DispatchInv
  <1>11. PooledInv(t)'
    <2>1. cb_fiber[t] \in Fibers \cup {NoFiber}
      BY CurType DEF TypeInv
    <2> QED
      BY <2>1, <1>1, <1>4, <1>5, <1>7, <1>8 DEF PooledInv, Queued
  <1>12. FiberInv'
    BY <1>1, <1>2, <1>3, <1>4, <1>5, <1>7, <1>8, <1>9, <1>10, <1>11, FiberFocus DEF Queued
  <1> QED
    BY <1>7, <1>12

\* reset() and swapIn() of the pooled fiber find it quiet and keep FiberInv.
LEMMA FiberReuse ==
    ASSUME TypeInv, TypeOK', FiberInv, NEW t \in Threads, ReuseCbFiber(t)
    PROVE  FiberInv' /\ mpc' = mpc
  <1>1. QueueInv' /\ QueuedFibers' = QueuedFibers
    BY SameQueue DEF FiberInv, ReuseCbFiber, Abort
  <1>2. PICK f \in Fibers : f = cb_fiber[t]
    BY CurType DEF ReuseCbFiber, TypeInv
  <1>3. f # NoFiber /\ pc[t] = "dispatch" /\ ft[t].fiber = NoFiber /\ ~ InFiber(t)
    BY <1>2 DEF ReuseCbFiber, InFiber
  <1>4. \A u \in Threads \ {t} : cb_fiber[u] # f /\ ft[u].fiber # f
    BY <1>2, <1>3 DEF FiberInv, PairInv
  <1>5. st[f] = "INIT" /\ f \notin armed /\ ~ Queued(f)
    BY <1>2, <1>3 DEF FiberInv, PooledInv
  <1>6. /\ st' = [st EXCEPT ![f] = "EXEC"] /\ pc' = [pc EXCEPT ![t] = "user"]
        /\ ft' = [ft EXCEPT ![t] = NoEntry]
        /\ UNCHANGED <<armed, cb_fiber, mpc>>
    BY <1>2, <1>5 DEF ReuseCbFiber, Quiet
  <1>7. /\ st'[f] = "EXEC" /\ \A g \in Fibers \ {f} : st'[g] = st[g]
        /\ pc'[t] = "user" /\ \A u \in Threads \ {t} : pc'[u] = pc[u] /\ ft'[u] = ft[u]
        /\ ft'[t].fiber = NoFiber /\ ft'[t].cb = NoCb
        /\ InFiber(t)' /\ Holding(t)' /\ Cur(t)' = f
    BY <1>2, <1>3, <1>6 DEF TypeInv, TypeOK, InFiber, Holding, Counted, Cur, NoEntry
  <1>8. InFiberInv(t)' /\ DispatchInv(t)' /\ PooledInv(t)'
    BY <1>5, <1>7 DEF InFiberInv, DispatchInv, PooledInv, Ended
  <1>9. FiberInv'
    BY <1>1, <1>2, <1>3, <1>4, <1>5, <1>6, <1>7, <1>8, FiberFocus DEF Queued
  <1> QED
    BY <1>6, <1>9

\* A new pooled fiber keeps FiberInv.
LEMMA FiberNew ==
    ASSUME TypeInv, TypeOK', FiberInv, NEW t \in Threads, NEW f \in Fibers, NewCbFiber(t, f)
    PROVE  FiberInv'
  <1>1. QueueInv' /\ QueuedFibers' = QueuedFibers
    BY SameQueue DEF FiberInv, NewCbFiber
  <1>2. /\ pc[t] = "dispatch" /\ ft[t].fiber = NoFiber /\ ~ InFiber(t)
        /\ st[f] = "NONE" /\ f # NoFiber
    BY ObjectAssumption DEF NewCbFiber, InFiber
  <1>3. \A u \in Threads : cb_fiber[u] # f /\ ft[u].fiber # f
    <2> SUFFICES ASSUME NEW u \in Threads PROVE cb_fiber[u] # f /\ ft[u].fiber # f
      OBVIOUS
    <2> InFiberInv(u) /\ DispatchInv(u) /\ PooledInv(u)
      BY DEF FiberInv
    <2>1. ft[u].fiber # f
      BY <1>2 DEF InFiberInv, DispatchInv, InFiber, Holding, Counted, Cur, NoEntry
    <2>2. cb_fiber[u] # f
      BY <1>2 DEF InFiberInv, PooledInv, Cur
    <2> QED
      BY <2>1, <2>2
  <1>4. f \notin armed /\ ~ Queued(f)
    BY <1>2 DEF FiberInv, PathInv
  <1>5. /\ st' = [st EXCEPT ![f] = "EXEC"] /\ pc' = [pc EXCEPT ![t] = "user"]
        /\ ft' = [ft EXCEPT ![t] = NoEntry] /\ cb_fiber' = [cb_fiber EXCEPT ![t] = f]
        /\ UNCHANGED armed
    BY DEF NewCbFiber
  <1>6. /\ st'[f] = "EXEC" /\ \A g \in Fibers \ {f} : st'[g] = st[g]
        /\ pc'[t] = "user" /\ cb_fiber'[t] = f
        /\ \A u \in Threads \ {t} : pc'[u] = pc[u] /\ ft'[u] = ft[u] /\ cb_fiber'[u] = cb_fiber[u]
        /\ ft'[t].fiber = NoFiber /\ ft'[t].cb = NoCb
        /\ InFiber(t)' /\ Holding(t)' /\ Cur(t)' = f
    BY <1>5 DEF TypeInv, TypeOK, InFiber, Holding, Counted, Cur, NoEntry
  <1>7. InFiberInv(t)' /\ DispatchInv(t)' /\ PooledInv(t)'
    BY <1>4, <1>6 DEF InFiberInv, DispatchInv, PooledInv, Ended
  <1> QED
    BY <1>1, <1>2, <1>3, <1>4, <1>5, <1>6, <1>7, FiberFocus DEF Queued

\* Setting HOLD after the swap back keeps FiberInv.
LEMMA FiberSettleHold ==
    ASSUME TypeInv, TypeOK', FiberInv, NEW t \in Threads, SettleHold(t)
    PROVE  FiberInv' /\ mpc' = mpc
  <1>1. QueueInv' /\ QueuedFibers' = QueuedFibers
    BY SameQueue DEF FiberInv, SettleHold, Abort
  <1>2. InFiber(t) /\ pc[t] = "settle" /\ InFiberInv(t) /\ PooledInv(t)
    BY DEF SettleHold, InFiber, FiberInv
  <1>3. PICK f \in Fibers : f = Cur(t)
    BY <1>2, Exclusive
  <1>4. f # NoFiber /\ st[f] = "EXEC" /\ (f \in armed \/ Queued(f))
    BY <1>2, <1>3, ObjectAssumption DEF SettleHold, InFiberInv, Ended
  <1>5. /\ \A u \in Threads \ {t} : cb_fiber[u] # f /\ ft[u].fiber # f
        /\ ft[t].fiber # NoFiber => cb_fiber[t] # f
    BY <1>2, <1>3, <1>4, Exclusive
  <1>6. /\ st' = [st EXCEPT ![f] = "HOLD"] /\ Release(t)
        /\ UNCHANGED <<armed, mpc>>
    BY <1>3, <1>4 DEF SettleHold
  <1>7. /\ st'[f] = "HOLD" /\ \A g \in Fibers \ {f} : st'[g] = st[g]
        /\ pc'[t] = "scan" /\ ft'[t] = NoEntry
        /\ cb_fiber'[t] = IF ft[t].fiber = NoFiber THEN NoFiber ELSE cb_fiber[t]
        /\ \A u \in Threads \ {t} : pc'[u] = pc[u] /\ ft'[u] = ft[u] /\ cb_fiber'[u] = cb_fiber[u]
        /\ ~ InFiber(t)' /\ ~ Holding(t)'
    BY <1>6 DEF Release, TypeInv, TypeOK, InFiber, Holding, Counted
  <1>8. InFiberInv(t)' /\ DispatchInv(t)'
    BY <1>7 DEF InFiberInv, DispatchInv
  <1>9. PooledInv(t)'
    <2>1. cb_fiber[t] \in Fibers \cup {NoFiber}
      BY CurType DEF TypeInv
    <2> QED
      BY <2>1, <1>1, <1>2, <1>5, <1>6, <1>7 DEF PooledInv, Queued
  <1>10. f \in QueuedFibers => f \notin armed
    BY DEF FiberInv, PathInv, Queued
  <1>11. FiberInv'
    BY <1>1, <1>2, <1>3, <1>5, <1>6, <1>7, <1>8, <1>9, <1>10, FiberFocus DEF NoEntry
  <1> QED
    BY <1>6, <1>11

\* Scheduling a READY fiber again keeps FiberInv.
LEMMA FiberSettleReady ==
    ASSUME TypeInv, TypeOK', FiberInv, NEW t \in Threads, SettleReady(t)
    PROVE  FiberInv'
  <1>1. InFiber(t) /\ pc[t] = "settle" /\ InFiberInv(t) /\ PooledInv(t)
    BY DEF SettleReady, InFiber, FiberInv
  <1>2. PICK f \in Fibers : f = Cur(t)
    BY <1>1, Exclusive
  <1>3. f # NoFiber /\ st[f] = "READY" /\ f \notin armed /\ ~ Queued(f)
    BY <1>1, <1>2, ObjectAssumption DEF SettleReady, InFiberInv
  <1>4. /\ \A u \in Threads \ {t} : cb_fiber[u] # f /\ ft[u].fiber # f
        /\ ft[t].fiber # NoFiber => cb_fiber[t] # f
    BY <1>1, <1>2, <1>3, Exclusive DEF Ended
  <1>5. QueueInv' /\ QueuedFibers' = QueuedFibers \cup {f}
    <2>1. /\ FiberEntry(f, AnyThread) \in FiberAndThread
          /\ WellFormed(FiberEntry(f, AnyThread))
          /\ FiberEntry(f, AnyThread).fiber = f
      BY <1>3, EntryTypes DEF FiberEntry, WellFormed
    <2>2. schedule(FiberEntry(f, AnyThread))
      BY <1>2 DEF SettleReady
    <2> QED
      BY <2>1, <2>2, <1>3, QueueAppend DEF TypeInv, FiberInv
  <1>6. Release(t) /\ UNCHANGED <<st, armed>>
    BY DEF SettleReady
  <1>7. /\ pc'[t] = "scan" /\ ft'[t] = NoEntry
        /\ cb_fiber'[t] = IF ft[t].fiber = NoFiber THEN NoFiber ELSE cb_fiber[t]
        /\ \A u \in Threads \ {t} : pc'[u] = pc[u] /\ ft'[u] = ft[u] /\ cb_fiber'[u] = cb_fiber[u]
        /\ ~ InFiber(t)' /\ ~ Holding(t)'
    BY <1>6 DEF Release, TypeInv, TypeOK, InFiber, Holding, Counted
  <1>8. InFiberInv(t)' /\ DispatchInv(t)'
    BY <1>7 DEF InFiberInv, DispatchInv
  <1>9. PooledInv(t)'
    BY <1>1, <1>4, <1>5, <1>6, <1>7 DEF PooledInv, Queued
  <1> QED
    BY <1>1, <1>2, <1>3, <1>4, <1>5, <1>6, <1>7, <1>8, <1>9, FiberFocus DEF NoEntry

\* Letting go of a fiber that is over keeps FiberInv.
LEMMA FiberSettleEnded ==
    ASSUME TypeInv, TypeOK', FiberInv, NEW t \in Threads, SettleEnded(t)
    PROVE  FiberInv'
  <1>1. QueueInv' /\ QueuedFibers' = QueuedFibers
    BY SameQueue DEF FiberInv, SettleEnded
  <1>2. InFiber(t) /\ pc[t] = "settle" /\ InFiberInv(t) /\ PooledInv(t)
    BY DEF SettleEnded, InFiber, FiberInv
  <1>3. PICK f \in Fibers : f = Cur(t)
    BY <1>2, Exclusive
  <1>4. st[f] \in Ended /\ f # NoFiber
    BY <1>3, ObjectAssumption DEF SettleEnded
  <1>5. /\ pc'[t] = "scan" /\ ft'[t] = NoEntry
        /\ UNCHANGED <<armed, cb_fiber>>
        /\ \A u \in Threads \ {t} : pc'[u] = pc[u] /\ ft'[u] = ft[u]
        /\ ~ InFiber(t)' /\ ~ Holding(t)'
    BY DEF SettleEnded, TypeInv, TypeOK, InFiber, Holding, Counted
  <1>6. InFiberInv(t)' /\ DispatchInv(t)'
    BY <1>5 DEF InFiberInv, DispatchInv
  <1>7. CASE ft[t].fiber = NoFiber
    <2>1. cb_fiber[t] = f /\ f \notin armed /\ ~ Queued(f)
      BY <1>2, <1>3, <1>4, <1>7 DEF Cur, InFiberInv
    <2>2. st'[f] = "INIT" /\ \A g \in Fibers \ {f} : st'[g] = st[g]
      BY <1>3, <1>7 DEF SettleEnded, TypeInv, TypeOK
    <2>3. \A u \in Threads \ {t} : cb_fiber[u] # f /\ ft[u].fiber # f
      BY <1>4, <2>1 DEF FiberInv, PairInv
    <2>4. PooledInv(t)'
      BY <1>1, <1>5, <2>1, <2>2 DEF PooledInv, Queued
    <2> QED
      BY <1>1, <1>2, <1>3, <1>4, <1>5, <1>6, <1>7, <2>1, <2>2, <2>3, <2>4, FiberFocus
         DEF NoEntry, Queued
  <1>8. CASE ft[t].fiber # NoFiber
    <2>1. UNCHANGED st
      BY <1>8 DEF SettleEnded
    <2>2. PathInv'
      BY <1>1, <1>5, <2>1 DEF FiberInv, PathInv, Queued
    <2>3. ExecInv'
      BY <1>3, <1>4, <1>5, <2>1 DEF FiberInv, ExecInv, Ended, Cur, InFiber
    <2>4. ASSUME NEW u \in Threads
          PROVE  InFiberInv(u)' /\ DispatchInv(u)' /\ PooledInv(u)'
      <3>0. InFiberInv(u) /\ DispatchInv(u) /\ PooledInv(u)
        BY DEF FiberInv
      <3>1. CASE u = t
        BY <3>1, <1>1, <1>2, <1>5, <1>6, <1>8, <2>1 DEF PooledInv, Queued
      <3>2. CASE u # t
        BY <3>0, <3>2, <1>1, <1>5, <2>1
           DEF InFiberInv, DispatchInv, PooledInv, Queued, WellFormed, Cur, InFiber, Holding, Counted
      <3> QED
        BY <3>1, <3>2
    <2>5. ASSUME NEW u \in Threads, NEW v \in Threads
          PROVE  PairInv(u, v)'
      BY <1>5, <2>1 DEF FiberInv, PairInv, NoEntry, InFiber
    <2> QED
      BY <1>1, <2>2, <2>3, <2>4, <2>5 DEF FiberInv
  <1> QED
    BY <1>7, <1>8

\* Taking the first eligible entry keeps FiberInv.
LEMMA FiberTake ==
    ASSUME TypeInv, TypeOK', FiberInv, NEW t \in Threads, Take(t)
    PROVE  FiberInv'
  <1>1. PICK i \in DOMAIN m_fibers : /\ Eligible(t, m_fibers[i])
                                    /\ ft' = [ft EXCEPT ![t] = m_fibers[i]]
                                    /\ m_fibers' = Erase(m_fibers, i)
    BY DEF Take, IsFirst, Candidates
  <1> DEFINE e == m_fibers[i]
  <1>2. /\ QueueInv' /\ QueuedFibers' \subseteq QueuedFibers
        /\ e.fiber \in QueuedFibers
        /\ \A g \in QueuedFibers : g \in QueuedFibers' \/ g = e.fiber
        /\ e.fiber # NoFiber => e.fiber \notin QueuedFibers'
    BY <1>1, QueueErase DEF TypeInv, FiberInv
  <1>3. /\ WellFormed(e) /\ e.fiber \in Fibers \cup {NoFiber}
        /\ e.fiber # NoFiber => st[e.fiber] # "EXEC"
    BY <1>1 DEF FiberInv, QueueInv, TypeInv, TypeOK, FiberAndThread, Eligible
  <1>4. /\ pc[t] = "scan" /\ pc'[t] = "dispatch" /\ ft'[t] = e
        /\ UNCHANGED <<st, armed, cb_fiber>>
        /\ \A u \in Threads \ {t} : pc'[u] = pc[u] /\ ft'[u] = ft[u]
        /\ ~ InFiber(t) /\ ~ InFiber(t)'
    BY <1>1 DEF Take, TypeInv, TypeOK, InFiber
  <1> HIDE DEF e
  <1>5. e.fiber # NoFiber => st[e.fiber] # "NONE" /\ e.fiber \notin armed
    BY <1>2, <1>3 DEF FiberInv, PathInv, Queued
  <1>6. ASSUME e.fiber # NoFiber, NEW u \in Threads \ {t}
        PROVE  /\ cb_fiber[u] # e.fiber
               /\ ft[u].fiber = e.fiber => st[e.fiber] \in Ended
    <2>0. InFiberInv(u) /\ DispatchInv(u) /\ PooledInv(u) /\ PairInv(u, u)
      BY DEF FiberInv
    <2>1. cb_fiber[u] # e.fiber
      BY <2>0, <1>2, <1>3, <1>6 DEF InFiberInv, PooledInv, Cur, Queued, Ended
    <2>2. ft[u].fiber = e.fiber => st[e.fiber] \in Ended
      BY <2>0, <1>2, <1>3, <1>6
         DEF InFiberInv, DispatchInv, Cur, Queued, Ended, Holding, Counted, InFiber, NoEntry
    <2> QED
      BY <2>1, <2>2
  <1>7. e.fiber # NoFiber => cb_fiber[t] # e.fiber
    BY <1>2, <1>4 DEF FiberInv, PooledInv, Queued
  <1>8. PathInv'
    BY <1>2, <1>4 DEF FiberInv, PathInv, Queued
  <1>9. ExecInv'
    BY <1>4 DEF FiberInv, ExecInv, Cur, InFiber
  <1>10. ASSUME NEW u \in Threads
         PROVE  InFiberInv(u)' /\ DispatchInv(u)' /\ PooledInv(u)'
    <2>0. InFiberInv(u) /\ DispatchInv(u) /\ PooledInv(u)
      BY DEF FiberInv
    <2>1. CASE u = t
      BY <2>0, <2>1, <1>2, <1>3, <1>4, <1>5
         DEF InFiberInv, DispatchInv, PooledInv, Queued, Holding, Counted, InFiber, WellFormed
    <2>2. CASE u # t
      <3>1. /\ InFiber(u)' = InFiber(u) /\ Holding(u)' = Holding(u) /\ Cur(u)' = Cur(u)
            /\ pc'[u] = pc[u] /\ ft'[u] = ft[u] /\ cb_fiber'[u] = cb_fiber[u]
        BY <2>2, <1>4 DEF InFiber, Holding, Counted, Cur
      <3>2. InFiberInv(u)'
        <4> SUFFICES ASSUME InFiber(u) PROVE InFiberInv(u)'
          BY <3>1 DEF InFiberInv
        <4>1. CASE Cur(u) = e.fiber
          BY <4>1, <3>1, <2>0, <1>2, <1>3, <1>4, ObjectAssumption DEF InFiberInv, Queued, Ended
        <4>2. CASE Cur(u) # e.fiber
          BY <4>2, <3>1, <2>0, <1>2, <1>4 DEF InFiberInv, Queued
        <4> QED
          BY <4>1, <4>2
      <3>3. DispatchInv(u)' /\ PooledInv(u)'
        BY <3>1, <2>0, <1>2, <1>4 DEF DispatchInv, PooledInv, Queued, WellFormed
      <3> QED
        BY <3>2, <3>3
    <2> QED
      BY <2>1, <2>2
  <1>11. ASSUME NEW u \in Threads, NEW v \in Threads
         PROVE  PairInv(u, v)'
    <2>0. PairInv(u, v) /\ PairInv(v, u)
      BY DEF FiberInv
    <2>1. CASE u # t /\ v # t
      BY <2>0, <2>1, <1>4 DEF PairInv, InFiber
    <2>2. CASE u = t \/ v = t
      BY <2>0, <2>2, <1>4, <1>6, <1>7 DEF PairInv
    <2> QED
      BY <2>1, <2>2
  <1> QED
    BY <1>2, <1>8, <1>9, <1>10, <1>11 DEF FiberInv

\* A fiber that is not allocated yet is nowhere.
LEMMA Fresh ==
    ASSUME FiberInv, NEW f \in Fibers, st[f] = "NONE"
    PROVE  /\ f \notin armed /\ ~ Queued(f)
           /\ \A u \in Threads : cb_fiber[u] # f /\ ft[u].fiber # f
  <1>0. f # NoFiber
    BY ObjectAssumption
  <1>1. f \notin armed /\ ~ Queued(f)
    BY DEF FiberInv, PathInv
  <1>2. ASSUME NEW u \in Threads
        PROVE  cb_fiber[u] # f /\ ft[u].fiber # f
    <2> InFiberInv(u) /\ DispatchInv(u) /\ PooledInv(u)
      BY DEF FiberInv
    <2>1. ft[u].fiber # f
      BY <1>0 DEF InFiberInv, DispatchInv, InFiber, Holding, Counted, Cur, NoEntry
    <2>2. cb_fiber[u] # f
      BY <1>0 DEF InFiberInv, PooledInv, Cur
    <2> QED
      BY <2>1, <2>2
  <1> QED
    BY <1>1, <1>2

\* schedule() and the wakers keep FiberInv.
LEMMA FiberCalls ==
    ASSUME TypeInv, TypeOK', FiberInv, Calls, UNCHANGED threadVars
    PROVE  FiberInv'
  <1>1. \A u \in Threads : /\ Cur(u)' = Cur(u) /\ InFiber(u)' = InFiber(u)
                           /\ Holding(u)' = Holding(u) /\ pc'[u] = pc[u]
                           /\ ft'[u] = ft[u] /\ cb_fiber'[u] = cb_fiber[u]
    BY DEF Cur, InFiber, Holding, Counted
  <1>2. \A u \in Threads : /\ Cur(u) \in Fibers \cup {NoFiber}
                           /\ ft[u].fiber \in Fibers \cup {NoFiber}
                           /\ cb_fiber[u] \in Fibers \cup {NoFiber}
    BY CurType DEF TypeInv
  <1>3. PICK k \in Targets :
           \/ \E c \in Cbs : SubmitCb(c, k)
           \/ \E c \in Cbs, f \in Fibers : SubmitFiber(c, f, k)
           \/ \E g \in Fibers : Fire(g, k)
    BY DEF Calls
  <1>4. CASE \E c \in Cbs : SubmitCb(c, k)
    <2>1. PICK c \in Cbs : SubmitCb(c, k)
      BY <1>4
    <2>2. /\ CbEntry(c, k) \in FiberAndThread /\ WellFormed(CbEntry(c, k))
          /\ CbEntry(c, k).fiber = NoFiber
      BY EntryTypes, ObjectAssumption DEF CbEntry, WellFormed
    <2>3. QueueInv' /\ QueuedFibers' = QueuedFibers \cup {NoFiber}
      BY <2>1, <2>2, QueueAppend DEF SubmitCb, TypeInv, FiberInv
    <2>4. UNCHANGED <<st, armed>>
      BY <2>1 DEF SubmitCb
    <2>5. PathInv' /\ ExecInv'
      BY <2>3, <2>4, <1>1, ObjectAssumption DEF FiberInv, PathInv, ExecInv, Queued
    <2>6. ASSUME NEW u \in Threads
          PROVE  InFiberInv(u)' /\ DispatchInv(u)' /\ PooledInv(u)'
      <3>0. InFiberInv(u) /\ DispatchInv(u) /\ PooledInv(u)
        BY DEF FiberInv
      <3> QED
        BY <3>0, <2>3, <2>4, <1>1, <1>2, ObjectAssumption
           DEF InFiberInv, DispatchInv, PooledInv, Queued, WellFormed
    <2>7. ASSUME NEW u \in Threads, NEW v \in Threads
          PROVE  PairInv(u, v)'
      BY <2>4, <1>1 DEF FiberInv, PairInv
    <2> QED
      BY <2>3, <2>5, <2>6, <2>7 DEF FiberInv
  <1>5. CASE \E c \in Cbs, f \in Fibers : SubmitFiber(c, f, k)
    <2>1. PICK c \in Cbs, f \in Fibers : SubmitFiber(c, f, k)
      BY <1>5
    <2>2. /\ FiberEntry(f, k) \in FiberAndThread /\ WellFormed(FiberEntry(f, k))
          /\ FiberEntry(f, k).fiber = f
      BY EntryTypes, ObjectAssumption DEF FiberEntry, WellFormed
    <2>3. /\ f \notin armed /\ ~ Queued(f)
          /\ \A u \in Threads : cb_fiber[u] # f /\ ft[u].fiber # f
      BY <2>1, Fresh DEF SubmitFiber
    <2>4. QueueInv' /\ QueuedFibers' = QueuedFibers \cup {f}
      BY <2>1, <2>2, <2>3, QueueAppend DEF SubmitFiber, TypeInv, FiberInv
    <2>5. /\ UNCHANGED armed /\ st'[f] = "INIT"
          /\ \A g \in Fibers \ {f} : st'[g] = st[g]
      BY <2>1 DEF SubmitFiber, TypeInv, TypeOK
    <2>6. PathInv' /\ ExecInv'
      BY <2>3, <2>4, <2>5, <1>1 DEF FiberInv, PathInv, ExecInv, Queued
    <2>7. ASSUME NEW u \in Threads
          PROVE  InFiberInv(u)' /\ DispatchInv(u)' /\ PooledInv(u)'
      <3>0. InFiberInv(u) /\ DispatchInv(u) /\ PooledInv(u)
        BY DEF FiberInv
      <3>1. Cur(u) # f
        BY <2>3 DEF Cur
      <3> QED
        BY <3>0, <3>1, <2>3, <2>4, <2>5, <1>1, <1>2
           DEF InFiberInv, DispatchInv, PooledInv, Queued, WellFormed
    <2>8. ASSUME NEW u \in Threads, NEW v \in Threads
          PROVE  PairInv(u, v)'
      BY <2>3, <2>5, <1>1, <1>2 DEF FiberInv, PairInv
    <2> QED
      BY <2>4, <2>6, <2>7, <2>8 DEF FiberInv
  <1>6. CASE \E g \in Fibers : Fire(g, k)
    <2>1. PICK g \in Fibers : Fire(g, k)
      BY <1>6
    <2>2. /\ FiberEntry(g, k) \in FiberAndThread /\ WellFormed(FiberEntry(g, k))
          /\ FiberEntry(g, k).fiber = g
      BY EntryTypes, ObjectAssumption DEF FiberEntry, WellFormed
    <2>3. g \in armed /\ ~ Queued(g) /\ st[g] # "NONE"
      BY <2>1 DEF Fire, FiberInv, PathInv
    <2>4. QueueInv' /\ QueuedFibers' = QueuedFibers \cup {g}
      BY <2>1, <2>2, <2>3, QueueAppend DEF Fire, TypeInv, FiberInv
    <2>5. armed' = armed \ {g} /\ UNCHANGED st
      BY <2>1 DEF Fire
    <2>6. PathInv' /\ ExecInv'
      BY <2>3, <2>4, <2>5, <1>1 DEF FiberInv, PathInv, ExecInv, Queued
    <2>7. ASSUME NEW u \in Threads
          PROVE  InFiberInv(u)' /\ DispatchInv(u)' /\ PooledInv(u)'
      <3>0. InFiberInv(u) /\ DispatchInv(u) /\ PooledInv(u)
        BY DEF FiberInv
      <3>1. InFiberInv(u)'
        BY <3>0, <2>3, <2>4, <2>5, <1>1 DEF InFiberInv, Queued
      <3>2. DispatchInv(u)' /\ PooledInv(u)'
        BY <3>0, <2>3, <2>4, <2>5, <1>1 DEF DispatchInv, PooledInv, Queued, WellFormed
      <3> QED
        BY <3>1, <3>2
    <2>8. ASSUME NEW u \in Threads, NEW v \in Threads
          PROVE  PairInv(u, v)'
      BY <2>5, <1>1 DEF FiberInv, PairInv
    <2> QED
      BY <2>4, <2>6, <2>7, <2>8 DEF FiberInv
  <1> QED
    BY <1>3, <1>4, <1>5, <1>6

-----------------------------------------------------------------------------
(* The theorems *)

IInv == TypeInv /\ StageInv /\ FiberInv /\ AssertionsHold

\* Every step of a thread keeps FiberInv and fails no assertion.
LEMMA FiberThread ==
    ASSUME TypeInv, TypeOK', FiberInv, NEW t \in Threads, ThreadStep(t) \/ UserStep(t)
    PROVE  FiberInv' /\ mpc' = mpc
  <1>1. CASE Take(t)
    BY <1>1, FiberTake DEF Take
  <1>2. CASE GoIdle(t) \/ Idle(t)
    BY <1>2, FiberIdle DEF GoIdle, Idle
  <1>3. CASE Exit(t)
    <2>1. cb_fiber[t] = NoFiber \/ st[cb_fiber[t]] \in Quiet
      BY <1>3 DEF Exit, FiberInv, PooledInv, InFiber, Quiet
    <2> QED
      BY <1>3, <2>1, FiberExit DEF Exit
  <1>4. CASE SwapInFiber(t) \/ ReuseCbFiber(t)
    BY <1>4, FiberSwapIn, FiberReuse
  <1>5. CASE DropEnded(t)
    BY <1>5, FiberDrop DEF DropEnded
  <1>6. CASE \E f \in Fibers : NewCbFiber(t, f)
    BY <1>6, FiberNew DEF NewCbFiber
  <1>7. CASE YieldToHold(t) \/ SwapOut(t) \/ Decrement(t)
    BY <1>7, FiberLeave DEF YieldToHold, SwapOut, Decrement
  <1>8. CASE Return(t) \/ Throw(t)
    BY <1>8, FiberEnd DEF Return, Throw
  <1>9. CASE SettleReady(t)
    BY <1>9, FiberSettleReady DEF SettleReady
  <1>10. CASE SettleEnded(t)
    BY <1>10, FiberSettleEnded DEF SettleEnded
  <1>11. CASE SettleHold(t)
    BY <1>11, FiberSettleHold
  <1>12. CASE UserCalls(t)
    BY <1>12, FiberCalls DEF UserCalls
  <1>13. CASE Arm(t)
    BY <1>13, FiberArm DEF Arm
  <1>14. CASE YieldToReady(t)
    BY <1>14, FiberYieldToReady DEF YieldToReady
  <1> QED
    BY <1>1, <1>2, <1>3, <1>4, <1>5, <1>6, <1>7, <1>8, <1>9, <1>10, <1>11, <1>12, <1>13, <1>14
       DEF ThreadStep, UserStep

\* IInv is inductive.
LEMMA IInvNext == IInv /\ [Next]_vars => IInv'
  <1> SUFFICES ASSUME IInv, [Next]_vars PROVE IInv'
    OBVIOUS
  <1>1. TypeInv /\ StageInv /\ FiberInv /\ mpc # "aborted"
    BY DEF IInv, AssertionsHold
  <1>2. TypeInv' /\ TypeOK' /\ StageInv'
    BY <1>1, TypeNext, StageNext DEF TypeInv
  <1>3. FiberInv' /\ mpc' # "aborted"
    <2>1. CASE MainCalls
      BY <2>1, <1>1, <1>2, FiberCalls DEF MainCalls
    <2>2. CASE start \/ StopBegin \/ StopStep
      BY <2>2, <1>1, FiberStop
         DEF start, StopBegin, StopStep, StopEarly, StopFlag, StopRoot, StopRootDone, StopJoin
    <2>3. CASE \E t \in Threads : ThreadStep(t) \/ UserStep(t)
      BY <2>3, <1>1, <1>2, FiberThread
    <2>4. CASE UNCHANGED vars
      BY <2>4, <1>1, FiberFrame DEF vars
    <2> QED
      BY <2>1, <2>2, <2>3, <2>4 DEF Next, Over
  <1> QED
    BY <1>2, <1>3 DEF IInv, AssertionsHold

\* IInv holds initially.
LEMMA IInvInit == Init => IInv
  BY TypeInit, FiberInit DEF Init, IInv, StageInv, AssertionsHold, Threads

\* IInv is an invariant.
LEMMA SchedulerInvariant == Spec => []IInv
  BY IInvInit, IInvNext, PTL DEF Spec

\* No SYLAR_ASSERT of swapIn(), reset() or ~Fiber() fails, whatever the number
\* of threads and fibers and however wake-ups race with the swap out.
THEOREM SchedulerAssertions == Spec => []AssertionsHold
  BY SchedulerInvariant, PTL DEF IInv

\* run() never deals with a fiber another thread is in.
THEOREM SchedulerOneOwner == Spec => []OneOwner
  <1>1. IInv => OneOwner
    <2> SUFFICES ASSUME IInv, NEW t \in Threads, NEW u \in Threads,
                        InFiber(t), InFiber(u), Cur(t) = Cur(u), t # u
                 PROVE  FALSE
      BY DEF OneOwner
    <2>1. TypeInv /\ FiberInv
      BY DEF IInv
    <2> QED
      BY <2>1, Exclusive DEF Cur
  <1> QED
    BY <1>1, SchedulerInvariant, PTL

-----------------------------------------------------------------------------
(* The counters *)

\* The pool has finitely many threads.
LEMMA ThreadsFinite == IsFiniteSet(Threads)
  <1>1. IsFiniteSet(Workers)
    BY ThreadAssumption
  <1>2. IsFiniteSet(Workers \cup {Main})
    BY <1>1, FS_AddElement
  <1> QED
    BY <1>1, <1>2, ThreadAssumption DEF Threads

Actives == {t \in Threads : Counted(t)}
Idlers  == {t \in Threads : pc[t] = "idle"}

\* What one thread joining or leaving a set of threads does to its size.
LEMMA CountSets ==
    /\ IsFiniteSet(Actives) /\ IsFiniteSet(Idlers)
    /\ \A t \in Threads :
          /\ t \notin Actives => Cardinality(Actives \cup {t}) = Cardinality(Actives) + 1
          /\ t \in Actives => Cardinality(Actives \ {t}) = Cardinality(Actives) - 1
          /\ t \notin Idlers => Cardinality(Idlers \cup {t}) = Cardinality(Idlers) + 1
          /\ t \in Idlers => Cardinality(Idlers \ {t}) = Cardinality(Idlers) - 1
  <1>1. Actives \subseteq Threads /\ Idlers \subseteq Threads
    BY DEF Actives, Idlers
  <1>2. IsFiniteSet(Actives) /\ IsFiniteSet(Idlers)
    BY <1>1, ThreadsFinite, FS_Subset
  <1> QED
    BY <1>2, FS_AddElement, FS_RemoveElement

\* Each counter moves with the set it counts.
LEMMA CountNext == IInv /\ CountsExact /\ [Next]_vars => CountsExact'
  <1> SUFFICES ASSUME IInv, CountsExact, [Next]_vars PROVE CountsExact'
    OBVIOUS
  <1>0. TypeOK /\ StageInv
    BY DEF IInv, TypeInv
  <1>1. /\ m_activeThreadCount = Cardinality(Actives)
        /\ m_idleThreadCount = Cardinality(Idlers)
    BY DEF CountsExact, Actives, Idlers
  <1>2. SUFFICES /\ m_activeThreadCount' = Cardinality(Actives')
                 /\ m_idleThreadCount' = Cardinality(Idlers')
    BY DEF CountsExact, Actives, Idlers, Counted
  <1>3. ASSUME UNCHANGED countVars, Actives' = Actives, Idlers' = Idlers
        PROVE  /\ m_activeThreadCount' = Cardinality(Actives')
               /\ m_idleThreadCount' = Cardinality(Idlers')
    BY <1>1, <1>3
  <1>4. ASSUME NEW t \in Threads, ThreadStep(t) \/ UserStep(t)
        PROVE  /\ m_activeThreadCount' = Cardinality(Actives')
               /\ m_idleThreadCount' = Cardinality(Idlers')
    <2>1. CASE Take(t)
      <3>1. t \notin Actives /\ Actives' = Actives \cup {t} /\ Idlers' = Idlers
        BY <2>1, <1>0 DEF Take, Actives, Idlers, Counted, TypeOK
      <3> QED
        BY <3>1, <2>1, <1>1, CountSets DEF Take
    <2>2. CASE GoIdle(t)
      <3>1. t \notin Idlers /\ Actives' = Actives /\ Idlers' = Idlers \cup {t}
        BY <2>2, <1>0 DEF GoIdle, Actives, Idlers, Counted, TypeOK
      <3> QED
        BY <3>1, <2>2, <1>1, CountSets DEF GoIdle
    <2>3. CASE Idle(t)
      <3>1. t \in Idlers /\ Actives' = Actives /\ Idlers' = Idlers \ {t}
        BY <2>3, <1>0 DEF Idle, Actives, Idlers, Counted, TypeOK
      <3> QED
        BY <3>1, <2>3, <1>1, CountSets DEF Idle
    <2>4. CASE DropEnded(t) \/ Decrement(t)
      <3>1. t \in Actives /\ Actives' = Actives \ {t} /\ Idlers' = Idlers
        BY <2>4, <1>0 DEF DropEnded, Decrement, Actives, Idlers, Counted, TypeOK
      <3> QED
        BY <3>1, <2>4, <1>1, CountSets DEF DropEnded, Decrement
    <2>5. CASE Exit(t)
      BY <2>5, <1>0, <1>3 DEF Exit, Abort, Actives, Idlers, Counted, TypeOK
    <2>6. CASE SwapInFiber(t) \/ ReuseCbFiber(t) \/ \E f \in Fibers : NewCbFiber(t, f)
      BY <2>6, <1>0, <1>3
         DEF SwapInFiber, ReuseCbFiber, NewCbFiber, Abort, Actives, Idlers, Counted, TypeOK
    <2>7. CASE YieldToHold(t) \/ Return(t) \/ Throw(t) \/ SwapOut(t)
      BY <2>7, <1>0, <1>3 DEF YieldToHold, Return, Throw, SwapOut, Actives, Idlers, Counted, TypeOK
    <2>8. CASE SettleReady(t) \/ SettleEnded(t) \/ SettleHold(t)
      BY <2>8, <1>0, <1>3
         DEF SettleReady, SettleEnded, SettleHold, Release, Abort, Actives, Idlers, Counted, TypeOK
    <2>9. CASE UserCalls(t) \/ Arm(t) \/ YieldToReady(t)
      BY <2>9, <1>0, <1>3 DEF UserCalls, Arm, YieldToReady, Actives, Idlers, Counted, TypeOK
    <2> QED
      BY <1>4, <2>1, <2>2, <2>3, <2>4, <2>5, <2>6, <2>7, <2>8, <2>9 DEF ThreadStep, UserStep
  <1>5. CASE start
    BY <1>5, <1>0, <1>3 DEF start, StageInv, Actives, Idlers, Counted, TypeOK
  <1>6. CASE StopRoot
    <2>1. \A t \in Threads : pc'[t] = pc[t] \/ (pc[t] = "out" /\ pc'[t] = "scan")
      BY <1>6, <1>0 DEF StopRoot, StageInv, TypeOK
    <2> QED
      BY <2>1, <1>6, <1>3 DEF StopRoot, Actives, Idlers, Counted
  <1>7. CASE MainCalls \/ StopBegin \/ StopEarly \/ StopFlag \/ StopRootDone \/ StopJoin
    BY <1>7, <1>3 DEF MainCalls, StopBegin, StopEarly, StopFlag, StopRootDone, StopJoin,
                      Actives, Idlers, Counted
  <1>8. CASE UNCHANGED vars
    BY <1>8, <1>3 DEF vars, Actives, Idlers, Counted
  <1> QED
    BY <1>4, <1>5, <1>6, <1>7, <1>8 DEF Next, Over, StopStep

\* m_activeThreadCount and m_idleThreadCount count what stopping() and
\* hasIdleThreads() take them to count, so neither ever goes below zero.
THEOREM SchedulerCounts == Spec => []CountsExact
  <1>1. Init => CountsExact
    <2> SUFFICES ASSUME Init PROVE CountsExact
      OBVIOUS
    <2>1. {t \in Threads : Counted(t)} = {} /\ {t \in Threads : pc[t] = "idle"} = {}
      BY DEF Init, Counted
    <2> QED
      BY <2>1, FS_EmptySet DEF Init, CountsExact
  <1> QED
    BY <1>1, CountNext, SchedulerInvariant, PTL DEF Spec

-----------------------------------------------------------------------------
(* stop() and the work that is left *)

\* Threads leave run() only after stop() has begun, and stop() returns only
\* when all of them have.
StopInv ==
    /\ mpc \in {"init", "open"} => ~ m_autoStop
    /\ ~ m_autoStop => \A t \in Threads : ~ idleTerm[t] /\ pc[t] # "exit"
    /\ mpc # "init" => \A w \in Workers : pc[w] # "out"
    /\ mpc = "early" => Workers = {} /\ UseCaller
    /\ mpc \in {"join", "done"} /\ UseCaller => pc[Main] \in {"out", "exit"}
    /\ mpc = "done" => \A w \in Workers : pc[w] = "exit"

\* The steps of run() keep StopInv.
LEMMA StopInvThread ==
    ASSUME IInv, StopInv, NEW t \in Threads, ThreadStep(t) \/ UserStep(t)
    PROVE  StopInv'
  <1>0. TypeOK /\ mpc # "aborted"
    BY DEF IInv, TypeInv, AssertionsHold
  <1>1. pc[t] # "out" /\ pc'[t] # "out" /\ \A u \in Threads : u # t => pc'[u] = pc[u]
    BY <1>0, ThreadStepMoves
  <1>2. mpc' = mpc
    BY FiberThread, TypeThread DEF IInv, TypeInv
  <1>3. m_autoStop' = m_autoStop /\ pc[t] # "exit"
    <2>1. CASE Take(t) \/ GoIdle(t) \/ Exit(t) \/ Idle(t)
      BY <2>1 DEF Take, GoIdle, Exit, Idle, Abort
    <2>2. CASE SwapInFiber(t) \/ DropEnded(t) \/ ReuseCbFiber(t) \/ \E f \in Fibers : NewCbFiber(t, f)
      BY <2>2 DEF SwapInFiber, DropEnded, ReuseCbFiber, NewCbFiber, Abort
    <2>3. CASE YieldToHold(t) \/ Return(t) \/ Throw(t) \/ SwapOut(t) \/ Decrement(t)
      BY <2>3 DEF YieldToHold, Return, Throw, SwapOut, Decrement
    <2>4. CASE SettleReady(t) \/ SettleEnded(t) \/ SettleHold(t)
      BY <2>4 DEF SettleReady, SettleEnded, SettleHold, Abort
    <2>5. CASE UserCalls(t) \/ Arm(t) \/ YieldToReady(t)
      BY <2>5 DEF UserCalls, Arm, YieldToReady
    <2> QED
      BY <2>1, <2>2, <2>3, <2>4, <2>5 DEF ThreadStep, UserStep
  <1>4. ~ m_autoStop => \A u \in Threads : ~ idleTerm'[u] /\ pc'[u] # "exit"
    <2> SUFFICES ASSUME ~ m_autoStop, NEW u \in Threads
                 PROVE  ~ idleTerm'[u] /\ pc'[u] # "exit"
      OBVIOUS
    <2>0. ~ idleTerm[u] /\ ~ idleTerm[t] /\ pc[u] # "exit"
      BY DEF StopInv
    <2>1. CASE Take(t) \/ GoIdle(t) \/ Exit(t)
      BY <2>0, <2>1, <1>0 DEF Take, GoIdle, Exit, TypeOK
    <2>2. CASE Idle(t)
      <3>1. Stopping = FALSE
        BY DEF Stopping
      <3>2. idleTerm' = [idleTerm EXCEPT ![t] = FALSE]
        BY <2>2, <3>1 DEF Idle
      <3>3. ~ idleTerm'[u]
        BY <3>2, <2>0, <1>0 DEF TypeOK
      <3> QED
        BY <3>3, <2>0, <2>2, <1>0 DEF Idle, TypeOK
    <2>3. CASE SwapInFiber(t) \/ DropEnded(t) \/ ReuseCbFiber(t) \/ \E f \in Fibers : NewCbFiber(t, f)
      BY <2>0, <2>3, <1>0 DEF SwapInFiber, DropEnded, ReuseCbFiber, NewCbFiber, Abort, TypeOK
    <2>4. CASE YieldToHold(t) \/ Return(t) \/ Throw(t) \/ SwapOut(t) \/ Decrement(t)
      BY <2>0, <2>4, <1>0 DEF YieldToHold, Return, Throw, SwapOut, Decrement, TypeOK
    <2>5. CASE SettleReady(t) \/ SettleEnded(t) \/ SettleHold(t)
      BY <2>0, <2>5, <1>0 DEF SettleReady, SettleEnded, SettleHold, Release, Abort, TypeOK
    <2>6. CASE UserCalls(t) \/ Arm(t) \/ YieldToReady(t)
      BY <2>0, <2>6, <1>0 DEF UserCalls, Arm, YieldToReady, TypeOK
    <2> QED
      BY <2>1, <2>2, <2>3, <2>4, <2>5, <2>6 DEF ThreadStep, UserStep
  <1>5. \A w \in Workers : w \in Threads
    BY DEF Threads
  <1>6. UseCaller => Main \in Threads
    BY DEF Threads
  <1> QED
    BY <1>1, <1>2, <1>3, <1>4, <1>5, <1>6 DEF StopInv

\* StopInv is inductive relative to IInv.
LEMMA StopInvNext == IInv /\ StopInv /\ [Next]_vars => StopInv'
  <1> SUFFICES ASSUME IInv, StopInv, [Next]_vars PROVE StopInv'
    OBVIOUS
  <1>0. TypeOK /\ StageInv /\ (\A w \in Workers : w \in Threads) /\ (UseCaller => Main \in Threads)
    BY DEF IInv, TypeInv, Threads
  <1>1. CASE MainCalls
    BY <1>1 DEF MainCalls, StopInv
  <1>2. CASE start
    BY <1>2, <1>0 DEF start, StopInv, TypeOK
  <1>3. CASE StopBegin
    BY <1>3 DEF StopBegin, StopInv
  <1>4. CASE StopEarly
    BY <1>4, <1>0 DEF StopEarly, StopInv, StageInv
  <1>5. CASE StopFlag
    BY <1>5 DEF StopFlag, StopInv
  <1>6. CASE StopRoot
    <2>1. UseCaller /\ pc[Main] = "out" /\ Main \notin Workers
      BY <1>6, <1>0, ThreadAssumption DEF StopRoot, StageInv
    <2>2. \A t \in Threads : t # Main => pc'[t] = pc[t]
      BY <1>6, <1>0 DEF StopRoot, TypeOK
    <2>3. \A t \in Threads : pc'[t] = pc[t] \/ pc'[t] = "scan"
      BY <1>6, <1>0 DEF StopRoot, TypeOK
    <2> QED
      BY <1>6, <1>0, <2>1, <2>2, <2>3 DEF StopRoot, StopInv
  <1>7. CASE StopRootDone
    BY <1>7 DEF StopRootDone, StopInv
  <1>8. CASE StopJoin
    BY <1>8 DEF StopJoin, StopInv
  <1>9. CASE \E t \in Threads : ThreadStep(t) \/ UserStep(t)
    BY <1>9, StopInvThread
  <1>10. CASE UNCHANGED vars
    BY <1>10 DEF vars, StopInv
  <1> QED
    BY <1>1, <1>2, <1>3, <1>4, <1>5, <1>6, <1>7, <1>8, <1>9, <1>10 DEF Next, Over, StopStep

\* No step of a thread leaves an entry without a thread that can come to it.
LEMMA ServerThread ==
    ASSUME IInv, WorkHasServer, NEW t \in Threads, ThreadStep(t) \/ UserStep(t)
    PROVE  WorkHasServer'
  <1>0. TypeOK /\ mpc' = mpc
    BY FiberThread, TypeThread DEF IInv, TypeInv
  <1>1. pc'[t] # "out" /\ \A u \in Threads : u # t => pc'[u] = pc[u]
    BY <1>0, ThreadStepMoves
  <1>2. CASE pc'[t] # "exit"
    BY <1>1, <1>2 DEF WorkHasServer, Serving
  <1>3. CASE pc'[t] = "exit"
    <2>1. Exit(t)
      BY <1>3, <1>0 DEF ThreadStep, UserStep, Take, GoIdle, Idle, SwapInFiber, DropEnded,
         ReuseCbFiber, NewCbFiber, YieldToHold, Return, Throw, SwapOut, Decrement, SettleReady,
         SettleEnded, SettleHold, Release, Abort, UserCalls, Arm, YieldToReady, TypeOK
    <2>2. pc[t] = "scan" /\ Candidates(t) = {} /\ UNCHANGED m_fibers
      BY <2>1 DEF Exit, Abort
    <2> SUFFICES ASSUME NEW i \in DOMAIN m_fibers, m_fibers[i].thread = AnyThread
                 PROVE  \E u \in Threads : Serving(u)'
      BY <2>2 DEF WorkHasServer
    <2>3. m_fibers[i].fiber # NoFiber /\ st[m_fibers[i].fiber] = "EXEC"
      BY <2>2 DEF Candidates, Eligible
    <2>4. m_fibers[i].fiber \in Fibers
      <3>1. m_fibers[i] \in FiberAndThread
        BY <1>0 DEF TypeOK
      <3> QED
        BY <3>1, <2>3 DEF FiberAndThread
    <2>5. PICK u \in Threads : InFiber(u)
      BY <2>3, <2>4 DEF IInv, FiberInv, ExecInv
    <2>6. u # t
      BY <2>2, <2>5 DEF InFiber
    <2> QED
      BY <2>5, <2>6, <1>1 DEF InFiber, Serving
  <1> QED
    BY <1>2, <1>3

\* WorkHasServer is inductive relative to IInv and StopInv.
LEMMA ServerNext == IInv /\ StopInv /\ WorkHasServer /\ [Next]_vars => WorkHasServer'
  <1> SUFFICES ASSUME IInv, StopInv, WorkHasServer, [Next]_vars PROVE WorkHasServer'
    OBVIOUS
  <1> USE DEF RootToCome, Serving
  <1>0. /\ TypeOK /\ StageInv /\ (UseCaller => Main \in Threads)
        /\ \A w \in Workers : w \in Threads
        /\ ~ UseCaller => \E w \in Workers : TRUE
    BY ThreadAssumption DEF IInv, TypeInv, Threads
  <1>1. CASE MainCalls
    <2>1. CASE mpc = "init" \/ UseCaller
      BY <1>1, <2>1 DEF MainCalls, WorkHasServer
    <2>2. CASE mpc = "open" /\ ~ UseCaller
      <3>1. PICK w \in Workers : w \in Threads /\ pc[w] # "out" /\ pc[w] # "exit"
        BY <1>0, <2>2 DEF StopInv
      <3> QED
        BY <3>1, <1>1 DEF MainCalls, WorkHasServer
    <2> QED
      BY <1>1, <2>1, <2>2 DEF MainCalls
  <1>2. CASE start
    <2>1. CASE UseCaller
      BY <1>2, <2>1 DEF start, WorkHasServer
    <2>2. CASE ~ UseCaller
      <3>1. PICK w \in Workers : w \in Threads /\ pc'[w] = "scan"
        BY <1>0, <1>2, <2>2 DEF start
      <3> QED
        BY <3>1 DEF WorkHasServer
    <2> QED
      BY <2>1, <2>2
  <1>3. CASE StopBegin \/ StopFlag
    BY <1>3, ThreadAssumption DEF StopBegin, StopFlag, WorkHasServer
  <1>4. CASE StopEarly
    <2>1. CASE mpc' = "done"
      BY <1>4, <2>1 DEF StopEarly, Stopping, WorkHasServer
    <2>2. CASE mpc' # "done"
      BY <1>4, <2>2 DEF StopEarly, StopInv, WorkHasServer
    <2> QED
      BY <2>1, <2>2
  <1>5. CASE StopRoot
    <2>1. CASE Stopping
      BY <1>5, <2>1 DEF StopRoot, Stopping, WorkHasServer
    <2>2. CASE ~ Stopping
      <3>1. Main \in Threads /\ pc'[Main] = "scan"
        BY <1>0, <1>5, <2>2 DEF StopRoot, StageInv, TypeOK
      <3> QED
        BY <3>1 DEF WorkHasServer
    <2> QED
      BY <2>1, <2>2
  <1>6. CASE StopRootDone \/ StopJoin
    BY <1>6 DEF StopRootDone, StopJoin, WorkHasServer
  <1>7. CASE \E t \in Threads : ThreadStep(t) \/ UserStep(t)
    BY <1>7, ServerThread
  <1>8. CASE UNCHANGED vars
    BY <1>8 DEF vars, WorkHasServer
  <1> QED
    BY <1>1, <1>2, <1>3, <1>4, <1>5, <1>6, <1>7, <1>8 DEF Next, Over, StopStep

\* The invariants about stop() hold together.
LEMMA StopInvariant == Spec => [](IInv /\ StopInv /\ WorkHasServer)
  <1>1. Init => StopInv /\ WorkHasServer
    BY DEF Init, StopInv, WorkHasServer, RootToCome
  <1> QED
    BY <1>1, StopInvNext, ServerNext, SchedulerInvariant, PTL DEF Spec

\* An entry any thread may run always has a thread left that will look at it,
\* although threads may leave run() while a READY fiber is in no list.
THEOREM SchedulerServer == Spec => []WorkHasServer
  BY StopInvariant, PTL

\* When stop() returns, no fiber is on a thread and no entry for any thread is
\* left in the list.
THEOREM SchedulerStopDrains == Spec => []StopDrains
  <1>1. IInv /\ StopInv /\ WorkHasServer => StopDrains
    <2> SUFFICES ASSUME IInv, StopInv, WorkHasServer, mpc = "done" PROVE StopDrains
      BY DEF StopDrains
    <2>1. \A t \in Threads : pc[t] \in {"out", "exit"}
      BY DEF StopInv, Threads
    <2>2. \A i \in DOMAIN m_fibers : m_fibers[i].thread # AnyThread
      BY <2>1 DEF WorkHasServer, Serving, RootToCome
    <2>3. \A f \in Fibers : st[f] # "EXEC"
      BY <2>1 DEF IInv, FiberInv, ExecInv, InFiber
    <2> QED
      BY <2>2, <2>3 DEF StopDrains
  <1> QED
    BY <1>1, StopInvariant, PTL

-----------------------------------------------------------------------------
(***************************************************************************)
(* OneResumePath.  That a fiber has at most one path is in FiberInv: it is *)
(* never queued twice, nor queued or taken while a waker knows it.  That a *)
(* suspended fiber has one at all needs an invariant of its own, because   *)
(* run() makes a fiber HOLD, or puts it back, some steps after it yielded. *)
(***************************************************************************)
OnThread(f) == \E t \in Threads : InFiber(t) /\ Cur(t) = f
Taken(f) == \E t \in Threads : pc[t] = "dispatch" /\ ft[t].fiber = f
Path(f) == OnThread(f) \/ Queued(f) \/ f \in armed \/ Taken(f)
HasPath == \A f \in Fibers : st[f] \in {"HOLD", "READY"} => Path(f)

\* push_back keeps every fiber in the list and adds the entry's.
LEMMA ScheduleAdds ==
    ASSUME TypeOK, NEW e \in FiberAndThread, schedule(e)
    PROVE  QueuedFibers \subseteq QueuedFibers' /\ e.fiber \in QueuedFibers'
  <1>1. /\ \A i \in DOMAIN m_fibers : i \in DOMAIN m_fibers' /\ m_fibers'[i] = m_fibers[i]
        /\ m_fibers'[Len(m_fibers) + 1] = e
        /\ DOMAIN m_fibers' = 1 .. (Len(m_fibers) + 1)
        /\ Len(m_fibers) \in Nat
    BY AppendFacts DEF schedule, TypeOK
  <1>2. Len(m_fibers) + 1 \in DOMAIN m_fibers'
    BY <1>1
  <1> QED
    BY <1>1, <1>2, Zenon DEF QueuedFibers

\* A step of one thread takes no path away unless it is the list's, the
\* waker's or that thread's.
LEMMA KeepPath ==
    ASSUME NEW t \in Threads, NEW f \in Fibers, Path(f),
           \A u \in Threads \ {t} : pc'[u] = pc[u] /\ ft'[u] = ft[u] /\ cb_fiber'[u] = cb_fiber[u],
           Queued(f) => Path(f)',
           f \in armed => Path(f)',
           InFiber(t) /\ Cur(t) = f => Path(f)',
           pc[t] = "dispatch" /\ ft[t].fiber = f => Path(f)'
    PROVE  Path(f)'
  <1>1. CASE OnThread(f)
    <2>1. PICK u \in Threads : InFiber(u) /\ Cur(u) = f
      BY <1>1 DEF OnThread
    <2>2. CASE u = t
      BY <2>1, <2>2
    <2>3. CASE u # t
      <3>1. InFiber(u)' /\ Cur(u)' = f
        BY <2>1, <2>3 DEF InFiber, Cur
      <3> QED
        BY <3>1 DEF Path, OnThread
    <2> QED
      BY <2>2, <2>3
  <1>2. CASE Taken(f)
    <2>1. PICK u \in Threads : pc[u] = "dispatch" /\ ft[u].fiber = f
      BY <1>2 DEF Taken
    <2>2. CASE u = t
      BY <2>1, <2>2
    <2>3. CASE u # t
      BY <2>1, <2>3 DEF Path, Taken
    <2> QED
      BY <2>2, <2>3
  <1> QED
    BY <1>1, <1>2 DEF Path

\* schedule() and a waker's Fire() keep every path.
LEMMA PathCalls ==
    ASSUME TypeInv, HasPath, Calls, UNCHANGED threadVars
    PROVE  HasPath'
  <1> SUFFICES ASSUME NEW f \in Fibers, st'[f] \in {"HOLD", "READY"} PROVE Path(f)'
    BY DEF HasPath
  <1>1. PICK k \in Targets : \/ \E c \in Cbs : SubmitCb(c, k)
                             \/ \E c \in Cbs, g \in Fibers : SubmitFiber(c, g, k)
                             \/ \E g \in Fibers : Fire(g, k)
    BY DEF Calls
  <1>2. TypeOK
    BY DEF TypeInv
  <1>3. /\ st'[f] = st[f]
        /\ QueuedFibers \subseteq QueuedFibers'
        /\ f \in armed => f \in armed' \/ f \in QueuedFibers'
    <2>1. CASE \E c \in Cbs : SubmitCb(c, k)
      BY <2>1, <1>2, EntryTypes, ScheduleAdds DEF SubmitCb, fiberVars
    <2>2. CASE \E c \in Cbs, g \in Fibers : SubmitFiber(c, g, k)
      BY <2>2, <1>2, EntryTypes, ScheduleAdds DEF SubmitFiber, TypeOK
    <2>3. CASE \E g \in Fibers : Fire(g, k)
      <3>1. PICK g \in Fibers : Fire(g, k)
        BY <2>3
      <3>2. FiberEntry(g, k).fiber = g
        BY DEF FiberEntry
      <3> QED
        BY <3>1, <3>2, <1>2, EntryTypes, ScheduleAdds DEF Fire
    <2> QED
      BY <1>1, <2>1, <2>2, <2>3
  <1>4. Path(f)
    BY <1>3 DEF HasPath
  <1> QED
    BY <1>3, <1>4 DEF Path, OnThread, Taken, Queued, InFiber, Cur, threadVars

\* A step of a thread that leaves the list and the wakers alone and lets go of
\* no fiber.
LEMMA PathFrame ==
    ASSUME HasPath, NEW t \in Threads,
           UNCHANGED m_fibers,
           armed \subseteq armed',
           \A u \in Threads \ {t} : pc'[u] = pc[u] /\ ft'[u] = ft[u] /\ cb_fiber'[u] = cb_fiber[u],
           \A f \in Fibers : \/ st'[f] = st[f]
                             \/ st'[f] \notin {"HOLD", "READY"}
                             \/ InFiber(t)' /\ Cur(t)' = f,
           InFiber(t) => InFiber(t)' /\ Cur(t)' = Cur(t),
           pc[t] = "dispatch" /\ ft[t].fiber \in Fibers => InFiber(t)' /\ Cur(t)' = ft[t].fiber
    PROVE  HasPath'
  <1> SUFFICES ASSUME NEW f \in Fibers, st'[f] \in {"HOLD", "READY"} PROVE Path(f)'
    BY DEF HasPath
  <1>1. InFiber(t)' /\ Cur(t)' = f => Path(f)'
    BY DEF Path, OnThread
  <1>2. CASE st'[f] = st[f]
    <2>1. Path(f) /\ QueuedFibers' = QueuedFibers
      BY <1>2 DEF HasPath, QueuedFibers
    <2>2. (Queued(f) => Path(f)') /\ (f \in armed => Path(f)')
      BY <2>1 DEF Path, Queued
    <2> QED
      BY <1>1, <2>1, <2>2, KeepPath
  <1> QED
    BY <1>1, <1>2

\* Taking an entry turns its place in the list into a thread's hands.
LEMMA PathTake ==
    ASSUME TypeInv, FiberInv, HasPath, NEW t \in Threads, Take(t)
    PROVE  HasPath'
  <1> SUFFICES ASSUME NEW f \in Fibers, st'[f] \in {"HOLD", "READY"} PROVE Path(f)'
    BY DEF HasPath
  <1>1. PICK i \in DOMAIN m_fibers : /\ ft' = [ft EXCEPT ![t] = m_fibers[i]]
                                    /\ m_fibers' = Erase(m_fibers, i)
    BY DEF Take
  <1>2. \A g \in QueuedFibers : g \in QueuedFibers' \/ g = m_fibers[i].fiber
    BY <1>1, QueueErase DEF TypeInv, FiberInv
  <1>3. /\ pc[t] = "scan" /\ pc'[t] = "dispatch" /\ ft'[t] = m_fibers[i]
        /\ UNCHANGED <<st, armed, cb_fiber>>
        /\ \A u \in Threads \ {t} : pc'[u] = pc[u] /\ ft'[u] = ft[u]
    BY <1>1 DEF Take, TypeInv, TypeOK, fiberVars
  <1>4. Path(f)
    BY <1>3 DEF HasPath
  <1>5. Queued(f) => Path(f)'
    BY <1>2, <1>3 DEF Path, Queued, Taken
  <1>6. f \in armed => Path(f)'
    BY <1>3 DEF Path
  <1> QED
    BY <1>3, <1>4, <1>5, <1>6, KeepPath DEF InFiber

\* A thread lets go of a fiber only when it is over, waits for a waker or a
\* place in the list it already has, or is put into the list.
LEMMA PathSettle ==
    ASSUME TypeInv, FiberInv, HasPath, NEW t \in Threads,
           DropEnded(t) \/ SettleReady(t) \/ SettleEnded(t) \/ SettleHold(t)
    PROVE  HasPath'
  <1> SUFFICES ASSUME NEW f \in Fibers, st'[f] \in {"HOLD", "READY"} PROVE Path(f)'
    BY DEF HasPath
  <1> DEFINE h == Cur(t)
  <1>1. /\ h \in Fibers /\ h # NoFiber
        /\ pc[t] # "dispatch" => InFiber(t)
        /\ pc[t] = "dispatch" => h = ft[t].fiber
        /\ InFiberInv(t)
    <2>1. InFiberInv(t)
      BY DEF FiberInv
    <2>2. CASE DropEnded(t)
      BY <2>1, <2>2, CurType DEF DropEnded, Cur, TypeInv
    <2>3. CASE SettleReady(t) \/ SettleEnded(t) \/ SettleHold(t)
      BY <2>1, <2>3, ObjectAssumption
         DEF SettleReady, SettleEnded, SettleHold, InFiber, InFiberInv
    <2> QED
      BY <2>2, <2>3
  <1>2. /\ \A u \in Threads \ {t} : pc'[u] = pc[u] /\ ft'[u] = ft[u] /\ cb_fiber'[u] = cb_fiber[u]
        /\ armed' = armed
        /\ f # h => st'[f] = st[f]
    BY <1>1 DEF DropEnded, SettleReady, SettleEnded, SettleHold, Release, TypeInv, TypeOK, fiberVars
  <1>3. QueuedFibers \subseteq QueuedFibers' /\ (SettleReady(t) => h \in QueuedFibers')
    <2>1. CASE SettleReady(t)
      <3>1. FiberEntry(h, AnyThread) \in FiberAndThread /\ FiberEntry(h, AnyThread).fiber = h
        BY <1>1, EntryTypes DEF FiberEntry
      <3> QED
        BY <2>1, <3>1, ScheduleAdds DEF SettleReady, TypeInv
    <2>2. CASE ~ SettleReady(t)
      BY <2>2 DEF DropEnded, SettleEnded, SettleHold, queueVars, QueuedFibers
    <2> QED
      BY <2>1, <2>2
  <1>4. f = h => Path(f)'
    <2> SUFFICES ASSUME f = h PROVE Path(f)'
      OBVIOUS
    <2>1. CASE SettleReady(t)
      BY <2>1, <1>3 DEF Path, Queued
    <2>2. CASE SettleHold(t)
      <3>1. h \in armed \/ Queued(h)
        BY <1>1, <2>2 DEF SettleHold, InFiberInv, InFiber, Ended
      <3> QED
        BY <3>1, <1>2, <1>3 DEF Path, Queued
    <2>3. CASE DropEnded(t)
      BY <2>3, <1>1 DEF DropEnded, Ended, fiberVars
    <2>4. CASE SettleEnded(t)
      BY <2>4, <1>1 DEF SettleEnded, Ended, TypeInv, TypeOK
    <2> QED
      BY <2>1, <2>2, <2>3, <2>4
  <1> HIDE DEF h
  <1>5. CASE f # h
    <2>1. Path(f)
      BY <1>2, <1>5 DEF HasPath
    <2>2. (Queued(f) => Path(f)') /\ (f \in armed => Path(f)')
      BY <1>2, <1>3 DEF Path, Queued
    <2>3. ~ (InFiber(t) /\ Cur(t) = f) /\ ~ (pc[t] = "dispatch" /\ ft[t].fiber = f)
      BY <1>1, <1>5 DEF h
    <2> QED
      BY <1>2, <2>1, <2>2, <2>3, KeepPath
  <1> QED
    BY <1>4, <1>5

\* Every step of a thread leaves a suspended fiber a way to run again.
LEMMA PathThread ==
    ASSUME TypeInv, FiberInv, HasPath, NEW t \in Threads, mpc' # "aborted",
           ThreadStep(t) \/ UserStep(t)
    PROVE  HasPath'
  <1>1. CASE Take(t)
    BY <1>1, PathTake
  <1>2. CASE DropEnded(t) \/ SettleReady(t) \/ SettleEnded(t) \/ SettleHold(t)
    BY <1>2, PathSettle
  <1>3. CASE UserCalls(t)
    BY <1>3, PathCalls DEF UserCalls
  <1>4. CASE GoIdle(t) \/ Idle(t) \/ Exit(t)
    BY <1>4, PathFrame DEF GoIdle, Idle, Exit, Abort, InFiber, TypeInv, TypeOK
  <1>5. CASE YieldToHold(t) \/ SwapOut(t) \/ Decrement(t) \/ Arm(t)
    BY <1>5, PathFrame DEF YieldToHold, SwapOut, Decrement, Arm, InFiber, Cur, TypeInv, TypeOK
  <1>6. CASE Return(t) \/ Throw(t) \/ YieldToReady(t)
    <2>1. Cur(t) \in Fibers
      BY <1>6 DEF Return, Throw, YieldToReady, TypeInv, HasFiber, InFiber
    <2>2. /\ UNCHANGED <<m_fibers, armed, ft, cb_fiber>>
          /\ pc[t] = "user" /\ pc'[t] = "leaving"
          /\ \A u \in Threads \ {t} : pc'[u] = pc[u]
          /\ \A f \in Fibers : f # Cur(t) => st'[f] = st[f]
      BY <1>6, <2>1 DEF Return, Throw, YieldToReady, queueVars, TypeInv, TypeOK
    <2>3. InFiber(t)' /\ Cur(t)' = Cur(t)
      BY <2>2 DEF InFiber, Cur
    <2> QED
      BY <2>2, <2>3, PathFrame
  <1>7. CASE SwapInFiber(t) \/ ReuseCbFiber(t) \/ \E f \in Fibers : NewCbFiber(t, f)
    <2>1. /\ UNCHANGED <<m_fibers, armed>>
          /\ pc[t] = "dispatch" /\ pc'[t] = "user"
          /\ \A u \in Threads \ {t} : pc'[u] = pc[u] /\ ft'[u] = ft[u] /\ cb_fiber'[u] = cb_fiber[u]
          /\ \A f \in Fibers : st'[f] = st[f] \/ st'[f] = "EXEC"
          /\ ft[t].fiber # NoFiber => UNCHANGED ft
      BY <1>7 DEF SwapInFiber, ReuseCbFiber, NewCbFiber, Abort, TypeInv, TypeOK
    <2>2. ~ InFiber(t) /\ InFiber(t)'
      BY <2>1 DEF InFiber
    <2>3. ft[t].fiber \in Fibers => Cur(t)' = ft[t].fiber
      BY <2>1, ObjectAssumption DEF Cur
    <2> QED
      BY <2>1, <2>2, <2>3, PathFrame
  <1> QED
    BY <1>1, <1>2, <1>3, <1>4, <1>5, <1>6, <1>7 DEF ThreadStep, UserStep

\* HasPath is inductive relative to IInv.
LEMMA PathNext == IInv /\ HasPath /\ [Next]_vars => HasPath'
  <1> SUFFICES ASSUME IInv, HasPath, [Next]_vars PROVE HasPath'
    OBVIOUS
  <1>1. TypeInv /\ TypeOK /\ StageInv /\ FiberInv /\ mpc' # "aborted"
    BY IInvNext DEF IInv, AssertionsHold, TypeInv
  <1>2. CASE MainCalls
    BY <1>1, <1>2, PathCalls DEF MainCalls
  <1>3. CASE start \/ StopBegin \/ StopStep
    <2>1. /\ UNCHANGED <<m_fibers, st, armed, ft, cb_fiber>>
          /\ \A t \in Threads : pc[t] \notin {"out", "exit"} => pc'[t] = pc[t]
      BY <1>1, <1>3 DEF start, StopBegin, StopStep, StopEarly, StopFlag, StopRoot, StopRootDone,
         StopJoin, queueVars, fiberVars, threadVars, StageInv, TypeOK
    <2> SUFFICES ASSUME NEW f \in Fibers, st[f] \in {"HOLD", "READY"} PROVE Path(f)'
      BY <2>1 DEF HasPath
    <2>2. Path(f) /\ QueuedFibers' = QueuedFibers
      BY <2>1 DEF HasPath, QueuedFibers
    <2> QED
      BY <2>1, <2>2 DEF Path, OnThread, Taken, Queued, InFiber, Cur
  <1>4. CASE \E t \in Threads : ThreadStep(t) \/ UserStep(t)
    BY <1>1, <1>4, PathThread
  <1>5. CASE UNCHANGED vars
    <2> USE <1>5 DEF vars, queueVars, fiberVars, threadVars
    <2>1. QueuedFibers' = QueuedFibers
      BY DEF QueuedFibers
    <2> QED
      BY <2>1 DEF HasPath, Path, OnThread, Taken, Queued, InFiber, Cur
  <1> QED
    BY <1>2, <1>3, <1>4, <1>5 DEF Next, Over

\* A suspended fiber has exactly one way to run again, for every number of
\* threads and fibers: HasPath says it has one, FiberInv that it has no two.
THEOREM SchedulerOneResumePath == Spec => []OneResumePath
  <1>1. IInv /\ HasPath => OneResumePath
    <2> SUFFICES ASSUME IInv, HasPath, NEW f \in Fibers, st[f] \in {"HOLD", "READY"},
                        ~ OnThread(f)
                 PROVE  Cardinality(Entries(f)) + Cardinality(Takers(f))
                            + (IF f \in armed THEN 1 ELSE 0) = 1
      BY DEF OneResumePath, OnThread
    <2>0. FiberInv /\ f # NoFiber
      BY ObjectAssumption DEF IInv
    <2>1. Cardinality({}) = 0 /\ \A x : Cardinality({x}) = 1
      BY FS_EmptySet, FS_Singleton
    <2>2. Entries(f) = {} \/ \E i \in DOMAIN m_fibers : Entries(f) = {i}
      BY <2>0 DEF FiberInv, QueueInv, Entries
    <2>3. Takers(f) = {} \/ \E t \in Threads : Takers(f) = {t}
      BY <2>0 DEF FiberInv, PairInv, Takers, Ended
    <2>4. Queued(f) <=> Entries(f) # {}
      BY DEF Queued, QueuedFibers, Entries
    <2>5. Taken(f) <=> Takers(f) # {}
      BY DEF Taken, Takers
    <2>6. Queued(f) \/ f \in armed \/ Taken(f)
      BY DEF HasPath, Path
    <2>7. /\ Queued(f) => f \notin armed
          /\ Taken(f) => f \notin armed /\ ~ Queued(f)
      BY <2>0 DEF FiberInv, PathInv, DispatchInv, Taken
    <2>8. Cardinality(Entries(f)) = IF Queued(f) THEN 1 ELSE 0
      BY <2>1, <2>2, <2>4
    <2>9. Cardinality(Takers(f)) = IF Taken(f) THEN 1 ELSE 0
      BY <2>1, <2>3, <2>5
    <2> QED
      BY <2>6, <2>7, <2>8, <2>9
  <1>2. Init => HasPath
    BY DEF Init, HasPath
  <1> QED
    BY <1>1, <1>2, PathNext, SchedulerInvariant, PTL DEF Spec

=============================================================================
