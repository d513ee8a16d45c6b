----------------------------- MODULE PoolProofs -----------------------------
(***************************************************************************)
(* The proof that the scheduler implements the task pool of module         *)
(* TaskPool, for every number of threads, callbacks and fibers, as long as *)
(* no entry names a thread: an entry for a named thread may outlive that   *)
(* thread, and stop() with it.                                             *)
(***************************************************************************)
EXTENDS SchedulerProofs

(***************************************************************************)
(* The inductive invariant, beside IInv and HasPath: where the callbacks   *)
(* are.  A callback is in one entry, in one thread's hands, or carried by  *)
(* one fiber, so that its status is that of this one place.                *)
(***************************************************************************)
Carried(c) == \E f \in Fibers : body[f] = c

\* A callback is somewhere only after it was submitted, and is carried by a
\* fiber only when no entry holds it.
PlaceInv ==
    \A c \in Cbs : /\ AsCallback(c) \/ Carried(c) => c \in submitted
                   /\ ~ (AsCallback(c) /\ Carried(c))

\* No two entries, threads or fibers have the same callback.
EntryInv ==
    /\ \A i, j \in DOMAIN m_fibers : m_fibers[i].cb = m_fibers[j].cb /\ m_fibers[i].cb # NoCb => i = j
    /\ \A i \in DOMAIN m_fibers, t \in Threads : m_fibers[i].cb # NoCb => ft[t].cb # m_fibers[i].cb
    /\ \A t, u \in Threads : ft[t].cb = ft[u].cb /\ ft[t].cb # NoCb => t = u
BodyInv == \A f, g \in Fibers : body[f] = body[g] /\ body[f] # NoCb => f = g

\* A fiber that has yet to start or is READY has a place in the list or a
\* thread; one that is not in use has no callback.
UnusedInv ==
    /\ \A f \in Fibers : st[f] = "NONE" => body[f] = NoCb
    /\ \A t \in Threads : cb_fiber[t] # NoFiber /\ ~ (InFiber(t) /\ ft[t].fiber = NoFiber)
                              => body[cb_fiber[t]] = NoCb
StartInv ==
    /\ \A f \in Fibers : st[f] = "INIT" /\ body[f] # NoCb => Queued(f) \/ Taken(f)
    /\ \A f \in Fibers : st[f] = "READY" => f \notin armed

\* No entry names a thread.
FreeInv == \A i \in DOMAIN m_fibers : m_fibers[i].thread = AnyThread

CarryInv == PlaceInv /\ EntryInv /\ BodyInv /\ UnusedInv /\ StartInv

-----------------------------------------------------------------------------
(* The callbacks in the list and in the threads' hands *)

InList(c) == \E i \in DOMAIN m_fibers : m_fibers[i].cb = c
InHand(c) == \E t \in Threads : ft[t].cb = c

\* Where a callback can be found that no fiber carries.
LEMMA Places == \A c : AsCallback(c) <=> InList(c) \/ InHand(c)
  BY DEF AsCallback, InList, InHand

\* A thread's hands never grow a callback but in Take().
HandsKept == \A t \in Threads : ft'[t].cb = ft[t].cb \/ ft'[t].cb = NoCb

\* A step that leaves the list alone.
LEMMA EntryKeep ==
    ASSUME EntryInv, UNCHANGED m_fibers, HandsKept
    PROVE  /\ EntryInv'
           /\ \A c \in Cbs : AsCallback(c)' => AsCallback(c)
  <1>1. EntryInv'
    BY DEF EntryInv, HandsKept
  <1>2. \A c \in Cbs : AsCallback(c)' => AsCallback(c)
    BY ObjectAssumption DEF AsCallback, HandsKept
  <1> QED
    BY <1>1, <1>2

\* push_back adds the entry's callback, if it has one.
LEMMA EntryAppend ==
    ASSUME TypeOK, EntryInv, NEW e \in FiberAndThread, schedule(e), HandsKept,
           e.cb # NoCb => ~ AsCallback(e.cb)
    PROVE  /\ EntryInv'
           /\ \A c \in Cbs : InList(c)' <=> InList(c) \/ c = e.cb
           /\ FreeInv /\ e.thread = AnyThread => FreeInv'
  <1>1. /\ DOMAIN m_fibers' = 1 .. (Len(m_fibers) + 1)
        /\ DOMAIN m_fibers = 1 .. Len(m_fibers)
        /\ Len(m_fibers) \in Nat
        /\ \A i \in DOMAIN m_fibers : i \in DOMAIN m_fibers' /\ m_fibers'[i] = m_fibers[i]
        /\ m_fibers'[Len(m_fibers) + 1] = e
        /\ \A i \in DOMAIN m_fibers' : i \in DOMAIN m_fibers \/ i = Len(m_fibers) + 1
    BY AppendFacts DEF schedule, TypeOK
  <1>2. Len(m_fibers) + 1 \in DOMAIN m_fibers'
    BY <1>1
  <1>3. \A c \in Cbs : InList(c)' <=> InList(c) \/ c = e.cb
    BY <1>1, <1>2 DEF InList
  <1>4. FreeInv /\ e.thread = AnyThread => FreeInv'
    BY <1>1 DEF FreeInv
  <1>5. e.cb # NoCb => /\ \A i \in DOMAIN m_fibers : m_fibers[i].cb # e.cb
                       /\ \A t \in Threads : ft[t].cb # e.cb
    BY DEF AsCallback
  <1>6. ASSUME NEW i \in DOMAIN m_fibers', NEW j \in DOMAIN m_fibers',
               m_fibers'[i].cb = m_fibers'[j].cb, m_fibers'[i].cb # NoCb
        PROVE  i = j
    BY <1>1, <1>5, <1>6 DEF EntryInv
  <1>7. ASSUME NEW i \in DOMAIN m_fibers', NEW t \in Threads, m_fibers'[i].cb # NoCb
        PROVE  ft'[t].cb # m_fibers'[i].cb
    BY <1>1, <1>5, <1>7 DEF EntryInv, HandsKept
  <1>8. \A t, u \in Threads : ft'[t].cb = ft'[u].cb /\ ft'[t].cb # NoCb => t = u
    BY DEF EntryInv, HandsKept
  <1> QED
    BY <1>3, <1>4, <1>6, <1>7, <1>8 DEF EntryInv

\* Take() moves a callback from the list into the thread's hands.
LEMMA EntryTake ==
    ASSUME TypeOK, FiberInv, EntryInv, NEW t \in Threads, Take(t)
    PROVE  /\ EntryInv'
           /\ \A c \in Cbs : AsCallback(c)' <=> AsCallback(c)
           /\ FreeInv => FreeInv'
  <1>1. PICK i \in DOMAIN m_fibers : /\ ft' = [ft EXCEPT ![t] = m_fibers[i]]
                                    /\ m_fibers' = Erase(m_fibers, i)
    BY DEF Take
  <1> DEFINE e == m_fibers[i]
             old(j) == IF j < i THEN j ELSE j + 1
  <1>2. /\ DOMAIN m_fibers' = 1 .. (Len(m_fibers) - 1)
        /\ DOMAIN m_fibers = 1 .. Len(m_fibers)
        /\ Len(m_fibers) \in Nat
        /\ \A j \in DOMAIN m_fibers' : old(j) \in DOMAIN m_fibers /\ m_fibers'[j] = m_fibers[old(j)]
    BY <1>1, EraseFacts DEF TypeOK
  <1>3. /\ \A j, k \in DOMAIN m_fibers' : old(j) = old(k) => j = k
        /\ \A j \in DOMAIN m_fibers' : old(j) # i
    BY <1>2
  <1>4. \A k \in DOMAIN m_fibers : k # i => \E j \in DOMAIN m_fibers' : old(j) = k
    <2> SUFFICES ASSUME NEW k \in DOMAIN m_fibers, k # i
                 PROVE  \E j \in DOMAIN m_fibers' : old(j) = k
      OBVIOUS
    <2>1. CASE k < i
      <3>1. k \in DOMAIN m_fibers' /\ old(k) = k
        BY <1>2, <2>1
      <3> QED
        BY <3>1
    <2>2. CASE ~ (k < i)
      <3>1. k - 1 \in DOMAIN m_fibers' /\ old(k - 1) = k
        BY <1>2, <2>2
      <3> QED
        BY <3>1
    <2> QED
      BY <2>1, <2>2
  <1> HIDE DEF old
  <1>5. /\ ft'[t] = e /\ \A u \in Threads \ {t} : ft'[u] = ft[u]
        /\ ft[t].cb = NoCb
    BY <1>1 DEF TypeOK, Take, FiberInv, DispatchInv, Holding, Counted, NoEntry
  <1>6. EntryInv'
    <2>1. \A j, k \in DOMAIN m_fibers' : m_fibers'[j].cb = m_fibers'[k].cb /\ m_fibers'[j].cb # NoCb => j = k
      BY <1>2, <1>3 DEF EntryInv
    <2>2. \A j \in DOMAIN m_fibers', u \in Threads : m_fibers'[j].cb # NoCb => ft'[u].cb # m_fibers'[j].cb
      BY <1>2, <1>3, <1>5 DEF EntryInv
    <2>3. \A u, v \in Threads : ft'[u].cb = ft'[v].cb /\ ft'[u].cb # NoCb => u = v
      BY <1>5 DEF EntryInv
    <2> QED
      BY <2>1, <2>2, <2>3 DEF EntryInv
  <1>7. ASSUME NEW c \in Cbs PROVE AsCallback(c)' <=> AsCallback(c)
    <2>1. InList(c)' => InList(c)
      BY <1>2 DEF InList
    <2>2. InList(c) => InList(c)' \/ c = e.cb
      BY <1>2, <1>4 DEF InList
    <2>3. c = e.cb => InHand(c)' /\ InList(c)
      BY <1>5 DEF InHand, InList
    <2>4. InHand(c) => InHand(c)'
      BY <1>5, ObjectAssumption DEF InHand
    <2>5. InHand(c)' => InHand(c) \/ c = e.cb
      BY <1>5 DEF InHand
    <2>6. (AsCallback(c) <=> InList(c) \/ InHand(c)) /\ (AsCallback(c)' <=> InList(c)' \/ InHand(c)')
      BY DEF AsCallback, InList, InHand
    <2> QED
      BY <2>1, <2>2, <2>3, <2>4, <2>5, <2>6
  <1>8. FreeInv => FreeInv'
    BY <1>2 DEF FreeInv
  <1> QED
    BY <1>6, <1>7, <1>8

-----------------------------------------------------------------------------
(* The status of a callback *)

\* The status is read off the one place where the callback is.
StatusIs ==
    \A c \in Cbs :
        /\ c \notin submitted => Status(c) = "new"
        /\ AsCallback(c) => Status(c) = "pending"
        /\ \A f \in Fibers : body[f] = c => Status(c) = FiberStatus(f)
        /\ c \in submitted /\ ~ AsCallback(c) /\ ~ Carried(c) => Status(c) = "ended"
LEMMA StatusFacts == PlaceInv /\ BodyInv => StatusIs
  <1> SUFFICES ASSUME PlaceInv, BodyInv, NEW c \in Cbs
               PROVE  /\ c \notin submitted => Status(c) = "new"
                      /\ AsCallback(c) => Status(c) = "pending"
                      /\ \A f \in Fibers : body[f] = c => Status(c) = FiberStatus(f)
                      /\ c \in submitted /\ ~ AsCallback(c) /\ ~ Carried(c) => Status(c) = "ended"
    BY DEF StatusIs
  <1>1. c \notin submitted => Status(c) = "new"
    BY DEF Status
  <1>2. AsCallback(c) => Status(c) = "pending"
    BY DEF Status, PlaceInv
  <1>3. ASSUME NEW f \in Fibers, body[f] = c PROVE Status(c) = FiberStatus(f)
    <2>1. c \in submitted /\ ~ AsCallback(c) /\ \E g \in Fibers : body[g] = c
      BY <1>3 DEF PlaceInv, Carried
    <2>2. (CHOOSE g \in Fibers : body[g] = c) = f
      <3>1. \A g \in Fibers : body[g] = c => g = f
        BY <1>3, ObjectAssumption DEF BodyInv
      <3> QED
        BY <1>3, <3>1
    <2> QED
      BY <2>1, <2>2 DEF Status
  <1>4. c \in submitted /\ ~ AsCallback(c) /\ ~ Carried(c) => Status(c) = "ended"
    BY DEF Status, Carried
  <1> QED
    BY <1>1, <1>2, <1>3, <1>4

\* The same after a step.
LEMMA StatusFactsNext == PlaceInv' /\ BodyInv' => StatusIs'
  BY StatusFacts, PTL

\* What a step does to the task pool: nothing, or one task moves.
StatusKept == \A c \in Cbs : Status(c)' = Status(c)
StatusMoves(c, from, to) ==
    /\ Status(c) = from /\ Status(c)' = to
    /\ \A d \in Cbs \ {c} : Status(d)' = Status(d)
Moved(from, to) == StatusKept \/ \E c \in Cbs : StatusMoves(c, from, to)

\* The step leaves the callbacks where they are.
CbsStay ==
    /\ UNCHANGED <<submitted, body>>
    /\ \A c \in Cbs : AsCallback(c)' <=> AsCallback(c)
LEMMA StayPlaces == PlaceInv /\ BodyInv /\ CbsStay => PlaceInv' /\ BodyInv'
  BY DEF PlaceInv, BodyInv, CbsStay, Carried

\* Then only the states of the fibers matter.
LEMMA StatusFocus ==
    ASSUME PlaceInv, BodyInv, CbsStay, NEW h \in Fibers, NEW from, NEW to,
           \A f \in Fibers \ {h} : FiberStatus(f)' = FiberStatus(f),
           FiberStatus(h)' = FiberStatus(h) \/ (FiberStatus(h) = from /\ FiberStatus(h)' = to)
    PROVE  Moved(from, to)
  <1>1. StatusIs /\ StatusIs'
    BY StatusFacts, StatusFactsNext, StayPlaces
  <1>2. ASSUME NEW d \in Cbs, body[h] = d => FiberStatus(h)' = FiberStatus(h)
        PROVE  Status(d)' = Status(d)
    <2>1. CASE d \notin submitted
      BY <1>1, <2>1 DEF StatusIs, CbsStay
    <2>2. CASE AsCallback(d)
      BY <1>1, <2>2 DEF StatusIs, CbsStay
    <2>3. CASE \E f \in Fibers : body[f] = d
      <3>1. PICK f \in Fibers : body[f] = d
        BY <2>3
      <3>2. body'[f] = d /\ FiberStatus(f)' = FiberStatus(f)
        BY <3>1, <1>2 DEF CbsStay
      <3>3. Status(d) = FiberStatus(f) /\ Status(d)' = FiberStatus(f)'
        BY <1>1, <3>1, <3>2, Zenon DEF StatusIs
      <3> QED
        BY <3>2, <3>3
    <2>4. CASE d \in submitted /\ ~ AsCallback(d) /\ ~ Carried(d)
      BY <1>1, <2>4 DEF StatusIs, CbsStay, Carried
    <2> QED
      BY <2>1, <2>2, <2>3, <2>4 DEF Carried
  <1>3. CASE body[h] \notin Cbs \/ FiberStatus(h)' = FiberStatus(h)
    BY <1>2, <1>3 DEF Moved, StatusKept
  <1>4. CASE body[h] \in Cbs /\ FiberStatus(h) = from /\ FiberStatus(h)' = to
    <2>1. Status(body[h]) = from
      BY <1>1, <1>4 DEF StatusIs
    <2>2. PICK c \in Cbs : c = body[h] /\ c = body'[h]
      BY <1>4 DEF CbsStay
    <2>3. Status(c)' = to
      BY <1>1, <1>4, <2>2 DEF StatusIs
    <2>4. \A d \in Cbs \ {c} : Status(d)' = Status(d)
      BY <1>2, <2>2
    <2> QED
      BY <2>1, <2>2, <2>3, <2>4 DEF Moved, StatusMoves
  <1> QED
    BY <1>3, <1>4

\* A step that changes no fiber's status moves no task.
LEMMA StatusStays ==
    ASSUME PlaceInv, BodyInv, CbsStay, \A f \in Fibers : FiberStatus(f)' = FiberStatus(f)
    PROVE  StatusKept
  <1>1. StatusIs /\ StatusIs'
    BY StatusFacts, StatusFactsNext, StayPlaces
  <1> SUFFICES ASSUME NEW d \in Cbs PROVE Status(d)' = Status(d)
    BY DEF StatusKept
  <1>2. CASE d \notin submitted \/ AsCallback(d)
    BY <1>1, <1>2 DEF StatusIs, CbsStay
  <1>3. CASE \E f \in Fibers : body[f] = d
    <2>1. PICK f \in Fibers : body[f] = d /\ body'[f] = d
      BY <1>3 DEF CbsStay
    <2>2. Status(d) = FiberStatus(f) /\ Status(d)' = FiberStatus(f)'
      BY <1>1, <2>1, Zenon DEF StatusIs
    <2> QED
      BY <2>2
  <1>4. CASE d \in submitted /\ ~ AsCallback(d) /\ ~ Carried(d)
    BY <1>1, <1>4 DEF StatusIs, CbsStay, Carried
  <1> QED
    BY <1>2, <1>3, <1>4 DEF Carried

\* The status of a callback that stays where it is, whatever happens to others.
LEMMA OneStatus ==
    ASSUME StatusIs, StatusIs', NEW d \in Cbs,
           d \in submitted' <=> d \in submitted,
           AsCallback(d)' <=> AsCallback(d),
           \A f \in Fibers : body'[f] = d <=> body[f] = d,
           \A f \in Fibers : body[f] = d => FiberStatus(f)' = FiberStatus(f)
    PROVE  Status(d)' = Status(d)
  <1>1. CASE d \notin submitted \/ AsCallback(d)
    BY <1>1 DEF StatusIs
  <1>2. CASE \E f \in Fibers : body[f] = d
    <2>1. PICK f \in Fibers : body[f] = d /\ body'[f] = d
      BY <1>2
    <2>2. Status(d) = FiberStatus(f) /\ Status(d)' = FiberStatus(f)'
      BY <2>1, Zenon DEF StatusIs
    <2> QED
      BY <2>1, <2>2
  <1>3. CASE d \in submitted /\ ~ AsCallback(d) /\ ~ Carried(d)
    BY <1>3 DEF StatusIs, Carried
  <1> QED
    BY <1>1, <1>2, <1>3 DEF Carried

\* A fiber's status is its state's and its waker's.
LEMMA SameFiberStatus ==
    ASSUME NEW f \in Fibers, st'[f] = st[f], f \in armed' <=> f \in armed
    PROVE  FiberStatus(f)' = FiberStatus(f)
  BY DEF FiberStatus

\* Nothing is taken from the list or from a thread's hands but entries without
\* a callback.
LEMMA SameHands ==
    ASSUME UNCHANGED m_fibers, \A t \in Threads : ft'[t].cb = ft[t].cb
    PROVE  \A c \in Cbs : AsCallback(c)' <=> AsCallback(c)
  BY DEF AsCallback

-----------------------------------------------------------------------------
(* CarryInv and the tasks' moves: the steps of run() and of user code *)

\* A step that moves threads only, into no fiber and out of none.
LEMMA CarryFrame ==
    ASSUME CarryInv, UNCHANGED <<m_fibers, st, body, armed, ft, cb_fiber, submitted>>,
           \A t \in Threads : /\ InFiber(t)' <=> InFiber(t)
                              /\ pc'[t] = "dispatch" <=> pc[t] = "dispatch"
    PROVE  CarryInv' /\ StatusKept
  <1>1. CbsStay /\ EntryInv'
    BY SameHands DEF CbsStay, CarryInv, EntryInv
  <1>2. QueuedFibers' = QueuedFibers
    BY DEF QueuedFibers
  <1>3. UnusedInv' /\ StartInv'
    BY <1>2 DEF CarryInv, UnusedInv, StartInv, Queued, Taken
  <1>4. \A f \in Fibers : FiberStatus(f)' = FiberStatus(f)
    BY SameFiberStatus
  <1> QED
    BY <1>1, <1>3, <1>4, StayPlaces, StatusStays DEF CarryInv

\* Steps of a thread outside the part of run() that holds an entry, and the
\* switch out of a fiber.
LEMMA CarryIdle ==
    ASSUME TypeOK, CarryInv, NEW t \in Threads,
           GoIdle(t) \/ Idle(t) \/ YieldToHold(t) \/ SwapOut(t) \/ Decrement(t)
    PROVE  CarryInv' /\ StatusKept
  <1>1. UNCHANGED <<m_fibers, st, body, armed, ft, cb_fiber, submitted>>
    BY DEF GoIdle, Idle, YieldToHold, SwapOut, Decrement, queueVars, fiberVars
  <1>2. \A u \in Threads : /\ InFiber(u)' <=> InFiber(u)
                           /\ pc'[u] = "dispatch" <=> pc[u] = "dispatch"
    BY DEF GoIdle, Idle, YieldToHold, SwapOut, Decrement, InFiber, TypeOK
  <1> QED
    BY <1>1, <1>2, CarryFrame

\* An entry that is taken has the same status in the thread's hands.
LEMMA CarryTake ==
    ASSUME TypeOK, FiberInv, CarryInv, NEW t \in Threads, Take(t)
    PROVE  CarryInv' /\ StatusKept
  <1>1. PICK i \in DOMAIN m_fibers : /\ ft' = [ft EXCEPT ![t] = m_fibers[i]]
                                    /\ m_fibers' = Erase(m_fibers, i)
    BY DEF Take
  <1>2. \A g \in QueuedFibers : g \in QueuedFibers' \/ g = m_fibers[i].fiber
    BY <1>1, QueueErase DEF FiberInv
  <1>3. /\ pc[t] = "scan" /\ pc'[t] = "dispatch" /\ ft'[t] = m_fibers[i]
        /\ UNCHANGED <<st, body, armed, cb_fiber, submitted>>
        /\ \A u \in Threads \ {t} : pc'[u] = pc[u] /\ ft'[u] = ft[u]
    BY <1>1 DEF Take, TypeOK, fiberVars
  <1>4. EntryInv' /\ CbsStay
    BY <1>3, EntryTake DEF CarryInv, CbsStay
  <1>5. UnusedInv'
    <2>1. \A u \in Threads : InFiber(u)' <=> InFiber(u)
      BY <1>3 DEF InFiber
    <2>2. ~ InFiber(t)
      BY <1>3 DEF InFiber
    <2> QED
      BY <1>3, <2>1, <2>2 DEF CarryInv, UnusedInv
  <1>6. StartInv'
    <2>1. ASSUME NEW f \in Fibers, Queued(f) \/ Taken(f) PROVE (Queued(f) \/ Taken(f))'
      BY <1>2, <1>3, <2>1 DEF Queued, Taken
    <2> QED
      BY <1>3, <2>1 DEF CarryInv, StartInv
  <1>7. \A f \in Fibers : FiberStatus(f)' = FiberStatus(f)
    BY <1>3, SameFiberStatus
  <1> QED
    BY <1>4, <1>5, <1>6, <1>7, StayPlaces, StatusStays DEF CarryInv

\* run() returns and its pooled fiber goes.
LEMMA CarryExit ==
    ASSUME TypeOK, CarryInv, NEW t \in Threads, Exit(t), mpc' # "aborted"
    PROVE  CarryInv' /\ StatusKept
  <1>1. /\ UNCHANGED <<m_fibers, st, body, armed, ft, submitted>>
        /\ pc[t] = "scan" /\ pc'[t] = "exit" /\ cb_fiber'[t] = NoFiber
        /\ \A u \in Threads \ {t} : pc'[u] = pc[u] /\ cb_fiber'[u] = cb_fiber[u]
    BY DEF Exit, Abort, queueVars, fiberVars, TypeOK
  <1>2. CbsStay /\ EntryInv'
    BY <1>1, SameHands DEF CbsStay, CarryInv, EntryInv
  <1>3. QueuedFibers' = QueuedFibers
    BY <1>1 DEF QueuedFibers
  <1>4. UnusedInv' /\ StartInv'
    BY <1>1, <1>3 DEF CarryInv, UnusedInv, StartInv, Queued, Taken, InFiber
  <1>5. \A f \in Fibers : FiberStatus(f)' = FiberStatus(f)
    BY <1>1, SameFiberStatus
  <1> QED
    BY <1>2, <1>4, <1>5, StayPlaces, StatusStays DEF CarryInv

\* swapIn(): a pending task runs.
LEMMA CarrySwapIn ==
    ASSUME TypeOK, FiberInv, CarryInv, NEW t \in Threads, SwapInFiber(t), mpc' # "aborted"
    PROVE  CarryInv' /\ Moved("pending", "running")
  <1>0. PICK h \in Fibers : h = ft[t].fiber /\ h # NoFiber
    BY CurType DEF SwapInFiber
  <1>1. /\ UNCHANGED <<m_fibers, submitted, body, armed, ft, cb_fiber>>
        /\ pc[t] = "dispatch" /\ pc'[t] = "user"
        /\ \A u \in Threads \ {t} : pc'[u] = pc[u]
        /\ st'[h] = "EXEC" /\ \A f \in Fibers \ {h} : st'[f] = st[f]
        /\ st[h] \notin Ended /\ st[h] # "EXEC"
    BY <1>0 DEF SwapInFiber, Abort, queueVars, TypeOK
  <1>2. h \notin armed
    BY <1>0, <1>1 DEF FiberInv, DispatchInv
  <1>3. CbsStay /\ EntryInv' /\ QueuedFibers' = QueuedFibers
    BY <1>1, SameHands DEF CbsStay, CarryInv, EntryInv, QueuedFibers
  <1>4. UnusedInv'
    <2>1. \A f \in Fibers : st'[f] = "NONE" => body'[f] = NoCb
      BY <1>1 DEF CarryInv, UnusedInv
    <2>2. \A u \in Threads : InFiber(u)' /\ ft'[u].fiber = NoFiber <=> InFiber(u) /\ ft[u].fiber = NoFiber
      BY <1>0, <1>1 DEF InFiber
    <2> QED
      BY <1>1, <2>1, <2>2 DEF CarryInv, UnusedInv
  <1>5. StartInv'
    <2>1. ASSUME NEW f \in Fibers \ {h}, Taken(f) PROVE Taken(f)'
      BY <1>0, <1>1, <2>1 DEF Taken
    <2> QED
      BY <1>1, <1>3, <2>1 DEF CarryInv, StartInv, Queued
  <1>6. \A f \in Fibers \ {h} : FiberStatus(f)' = FiberStatus(f)
    BY <1>1, SameFiberStatus
  <1>7. FiberStatus(h) = "pending" /\ FiberStatus(h)' = "running"
    BY <1>1, <1>2 DEF FiberStatus, Ended
  <1>8. Moved("pending", "running")
    BY <1>1, <1>3, <1>6, <1>7, StatusFocus DEF CarryInv
  <1> QED
    BY <1>3, <1>4, <1>5, <1>8, StayPlaces DEF CarryInv

\* The entry of a fiber that has ended is dropped.
LEMMA CarryDrop ==
    ASSUME TypeOK, FiberInv, CarryInv, NEW t \in Threads, DropEnded(t)
    PROVE  CarryInv' /\ StatusKept
  <1>1. /\ UNCHANGED <<m_fibers, submitted, st, body, armed, cb_fiber>>
        /\ pc[t] = "dispatch" /\ pc'[t] = "scan"
        /\ ft'[t] = NoEntry /\ \A u \in Threads \ {t} : pc'[u] = pc[u] /\ ft'[u] = ft[u]
        /\ ft[t].fiber # NoFiber /\ st[ft[t].fiber] \in Ended
    BY DEF DropEnded, queueVars, fiberVars, TypeOK
  <1>2. ft[t].cb = NoCb /\ ft'[t].cb = NoCb
    BY <1>1 DEF FiberInv, DispatchInv, WellFormed, NoEntry
  <1>3. CbsStay /\ EntryInv' /\ QueuedFibers' = QueuedFibers
    BY <1>1, <1>2, SameHands DEF CbsStay, CarryInv, EntryInv, QueuedFibers
  <1>4. UnusedInv'
    <2>1. \A u \in Threads : InFiber(u)' /\ ft'[u].fiber = NoFiber <=> InFiber(u) /\ ft[u].fiber = NoFiber
      BY <1>1 DEF InFiber
    <2> QED
      BY <1>1, <2>1 DEF CarryInv, UnusedInv
  <1>5. StartInv'
    <2>1. ASSUME NEW f \in Fibers, st[f] \notin Ended, Taken(f) PROVE Taken(f)'
      BY <1>1, <2>1 DEF Taken
    <2> QED
      BY <1>1, <1>3, <2>1 DEF CarryInv, StartInv, Queued, Ended
  <1>6. \A f \in Fibers : FiberStatus(f)' = FiberStatus(f)
    BY <1>1, SameFiberStatus
  <1> QED
    BY <1>3, <1>4, <1>5, <1>6, StayPlaces, StatusStays DEF CarryInv

\* A callback goes from the thread's hands onto a pooled fiber, a new one or the
\* one the thread has, and runs.
LEMMA CarryPooled ==
    ASSUME TypeOK, FiberInv, CarryInv, NEW t \in Threads,
           ReuseCbFiber(t) \/ \E f \in Fibers : NewCbFiber(t, f), mpc' # "aborted"
    PROVE  CarryInv' /\ Moved("pending", "running")
  <1>1. PICK h \in Fibers :
            /\ UNCHANGED <<m_fibers, submitted, armed>>
            /\ pc[t] = "dispatch" /\ pc'[t] = "user" /\ ft[t].fiber = NoFiber /\ ft'[t] = NoEntry
            /\ \A u \in Threads \ {t} : pc'[u] = pc[u] /\ ft'[u] = ft[u] /\ cb_fiber'[u] = cb_fiber[u]
            /\ cb_fiber'[t] = h /\ (cb_fiber[t] = h \/ st[h] = "NONE")
            /\ st'[h] = "EXEC" /\ body'[h] = ft[t].cb
            /\ \A f \in Fibers \ {h} : st'[f] = st[f] /\ body'[f] = body[f]
    <2>1. CASE ReuseCbFiber(t)
      BY <2>1, CurType DEF ReuseCbFiber, Abort, queueVars, TypeOK
    <2>2. CASE \E f \in Fibers : NewCbFiber(t, f)
      BY <2>2 DEF NewCbFiber, queueVars, TypeOK
    <2> QED
      BY <2>1, <2>2
  <1>2. PICK c \in Cbs : ft[t].cb = c
    BY <1>1 DEF FiberInv, DispatchInv, WellFormed, TypeOK, FiberAndThread
  <1>3. c # NoCb /\ body[h] = NoCb /\ h # NoFiber /\ ft'[t].cb = NoCb /\ ft'[t].fiber = NoFiber
    BY <1>1, ObjectAssumption DEF CarryInv, UnusedInv, InFiber, NoEntry
  <1>4. /\ AsCallback(c) /\ ~ AsCallback(c)'
        /\ \A d \in Cbs \ {c} : AsCallback(d)' <=> AsCallback(d)
    <2>1. AsCallback(c)
      BY <1>2 DEF AsCallback
    <2>2. ~ AsCallback(c)'
      BY <1>1, <1>2, <1>3 DEF AsCallback, CarryInv, EntryInv
    <2>3. \A d \in Cbs \ {c} : AsCallback(d)' <=> AsCallback(d)
      BY <1>1, <1>2, <1>3, ObjectAssumption DEF AsCallback
    <2> QED
      BY <2>1, <2>2, <2>3
  <1>5. c \in submitted /\ \A f \in Fibers : body[f] # c
    BY <1>4 DEF CarryInv, PlaceInv, Carried
  <1>6. EntryInv'
    BY <1>1, <1>3, EntryKeep DEF CarryInv, HandsKept
  <1>7. \A d \in Cbs \ {c}, f \in Fibers : body'[f] = d <=> body[f] = d
    BY <1>1, <1>2, <1>3, ObjectAssumption
  <1>8. PlaceInv' /\ BodyInv'
    <2>1. PlaceInv'
      BY <1>1, <1>4, <1>5, <1>7 DEF CarryInv, PlaceInv, Carried
    <2>2. BodyInv'
      BY <1>1, <1>2, <1>5 DEF CarryInv, BodyInv
    <2> QED
      BY <2>1, <2>2
  <1>9. UnusedInv'
    <2>1. \A f \in Fibers : st'[f] = "NONE" => body'[f] = NoCb
      BY <1>1 DEF CarryInv, UnusedInv
    <2>2. \A u \in Threads \ {t} : cb_fiber[u] # h \/ cb_fiber[u] = NoFiber
      BY <1>1, <1>3, Fresh DEF FiberInv, PairInv
    <2>3. ASSUME NEW u \in Threads, cb_fiber'[u] # NoFiber, ~ (InFiber(u)' /\ ft'[u].fiber = NoFiber)
          PROVE  body'[cb_fiber'[u]] = NoCb
      <3>1. u # t
        BY <1>1, <1>3, <2>3 DEF InFiber
      <3>2. cb_fiber[u] \in Fibers \ {h} /\ ~ (InFiber(u) /\ ft[u].fiber = NoFiber)
        BY <1>1, <2>2, <2>3, <3>1, CurType DEF InFiber
      <3>3. body[cb_fiber[u]] = NoCb
        BY <3>2, ObjectAssumption DEF CarryInv, UnusedInv
      <3>4. cb_fiber'[u] = cb_fiber[u]
        BY <1>1, <3>1
      <3> QED
        BY <1>1, <3>2, <3>3, <3>4
    <2> QED
      BY <2>1, <2>3 DEF UnusedInv
  <1>10. StartInv'
    <2>1. QueuedFibers' = QueuedFibers
      BY <1>1 DEF QueuedFibers
    <2>2. ASSUME NEW f \in Fibers, Taken(f) PROVE Taken(f)'
      BY <1>1, <2>2, ObjectAssumption DEF Taken
    <2> QED
      BY <1>1, <2>1, <2>2 DEF CarryInv, StartInv, Queued
  <1>11. Moved("pending", "running")
    <2>1. StatusIs /\ StatusIs'
      BY <1>8, StatusFacts, StatusFactsNext DEF CarryInv
    <2>2. Status(c) = "pending"
      BY <1>4, <2>1 DEF StatusIs
    <2>3. Status(c)' = "running"
      <3>1. FiberStatus(h)' = "running"
        BY <1>1 DEF FiberStatus, Ended
      <3> QED
        BY <1>1, <1>2, <2>1, <3>1 DEF StatusIs
    <2>4. ASSUME NEW d \in Cbs \ {c} PROVE Status(d)' = Status(d)
      <3>1. ASSUME NEW f \in Fibers, body[f] = d PROVE FiberStatus(f)' = FiberStatus(f)
        BY <3>1, <1>1, <1>3, ObjectAssumption, SameFiberStatus
      <3> QED
        BY <1>1, <1>4, <1>7, <2>1, <3>1, OneStatus
    <2> QED
      BY <2>2, <2>3, <2>4 DEF Moved, StatusMoves
  <1> QED
    BY <1>6, <1>8, <1>9, <1>10, <1>11 DEF CarryInv

\* A running fiber hands its pointer to a waker.
LEMMA CarryArm ==
    ASSUME TypeOK, FiberInv, CarryInv, NEW t \in Threads, Arm(t)
    PROVE  CarryInv' /\ StatusKept
  <1>0. PICK h \in Fibers : h = Cur(t) /\ st[h] = "EXEC"
    BY DEF Arm, FiberInv, InFiberInv, InFiber
  <1>1. /\ UNCHANGED <<m_fibers, submitted, st, body, pc, ft, cb_fiber>>
        /\ armed' = armed \cup {h}
    BY <1>0 DEF Arm, queueVars, threadVars
  <1>2. CbsStay /\ EntryInv' /\ QueuedFibers' = QueuedFibers
    BY <1>1, SameHands DEF CbsStay, CarryInv, EntryInv, QueuedFibers
  <1>3. UnusedInv' /\ StartInv'
    BY <1>0, <1>1, <1>2 DEF CarryInv, UnusedInv, StartInv, Queued, Taken, InFiber
  <1>4. ASSUME NEW f \in Fibers PROVE FiberStatus(f)' = FiberStatus(f)
    <2>1. CASE f = h
      BY <1>0, <1>1, <2>1 DEF FiberStatus, Ended
    <2>2. CASE f # h
      BY <1>1, <2>2, SameFiberStatus
    <2> QED
      BY <2>1, <2>2
  <1> QED
    BY <1>2, <1>3, <1>4, StayPlaces, StatusStays DEF CarryInv

\* A running fiber gives way or throws.
LEMMA CarryYield ==
    ASSUME TypeOK, FiberInv, CarryInv, NEW t \in Threads, YieldToReady(t) \/ Throw(t)
    PROVE  CarryInv' /\ (Moved("running", "pending") \/ Moved("running", "ended"))
  <1>0. PICK h \in Fibers : h = Cur(t) /\ st[h] = "EXEC"
    BY DEF YieldToReady, Throw, FiberInv, InFiberInv, InFiber
  <1>1. /\ UNCHANGED <<m_fibers, submitted, body, armed, ft, cb_fiber>>
        /\ pc[t] = "user" /\ pc'[t] = "leaving" /\ \A u \in Threads \ {t} : pc'[u] = pc[u]
        /\ \A f \in Fibers \ {h} : st'[f] = st[f]
        /\ (st'[h] = "READY" /\ h \notin armed) \/ st'[h] = "EXCEPT"
    BY <1>0 DEF YieldToReady, Throw, queueVars, TypeOK
  <1>2. CbsStay /\ EntryInv' /\ QueuedFibers' = QueuedFibers
    BY <1>1, SameHands DEF CbsStay, CarryInv, EntryInv, QueuedFibers
  <1>3. \A u \in Threads : (InFiber(u)' <=> InFiber(u)) /\ (pc'[u] = "dispatch" <=> pc[u] = "dispatch")
    BY <1>1 DEF InFiber
  <1>4. UnusedInv'
    BY <1>1, <1>3 DEF CarryInv, UnusedInv
  <1>5. StartInv'
    BY <1>1, <1>2, <1>3 DEF CarryInv, StartInv, Queued, Taken
  <1>6. \A f \in Fibers \ {h} : FiberStatus(f)' = FiberStatus(f)
    BY <1>1, SameFiberStatus
  <1>7. FiberStatus(h) = "running" /\ (FiberStatus(h)' = "pending" \/ FiberStatus(h)' = "ended")
    BY <1>0, <1>1 DEF FiberStatus, Ended
  <1>8. Moved("running", "pending") \/ Moved("running", "ended")
    BY <1>2, <1>6, <1>7, StatusFocus DEF CarryInv
  <1> QED
    BY <1>2, <1>4, <1>5, <1>8, StayPlaces DEF CarryInv

\* A fiber's callback returns, or run() resets the pooled fiber: no fiber
\* carries the callback any more, and its task has ended.
LEMMA StatusDropped ==
    ASSUME CarryInv, NEW h \in Fibers,
           UNCHANGED <<submitted, armed>>,
           \A c \in Cbs : AsCallback(c)' <=> AsCallback(c),
           body'[h] = NoCb,
           \A f \in Fibers \ {h} : st'[f] = st[f] /\ body'[f] = body[f],
           st[h] = "EXEC" \/ st[h] \in Ended
    PROVE  PlaceInv' /\ BodyInv' /\ Moved("running", "ended")
  <1>1. PlaceInv'
    BY ObjectAssumption DEF CarryInv, PlaceInv, Carried
  <1>2. BodyInv'
    BY DEF CarryInv, BodyInv
  <1>3. StatusIs /\ StatusIs'
    BY <1>1, <1>2, StatusFacts, StatusFactsNext DEF CarryInv
  <1>4. ASSUME NEW d \in Cbs, body[h] # d PROVE Status(d)' = Status(d)
    <2>1. \A f \in Fibers : body'[f] = d <=> body[f] = d
      BY <1>4, ObjectAssumption
    <2>2. \A f \in Fibers : body[f] = d => FiberStatus(f)' = FiberStatus(f)
      BY <1>4, SameFiberStatus
    <2> QED
      BY <1>3, <2>1, <2>2, OneStatus
  <1>5. CASE body[h] \in Cbs
    <2>1. PICK c \in Cbs : body[h] = c
      BY <1>5
    <2>2. c \in submitted /\ ~ AsCallback(c)
      BY <2>1 DEF CarryInv, PlaceInv, Carried
    <2>3. ~ Carried(c)'
      BY <2>1, ObjectAssumption DEF CarryInv, BodyInv, Carried
    <2>4. Status(c)' = "ended"
      BY <1>3, <2>2, <2>3 DEF StatusIs
    <2>5. Status(c) = FiberStatus(h)
      BY <1>3, <2>1 DEF StatusIs
    <2>6. FiberStatus(h) = "running" \/ FiberStatus(h) = "ended"
      BY DEF FiberStatus, Ended
    <2>7. \A d \in Cbs \ {c} : Status(d)' = Status(d)
      BY <1>4, <2>1
    <2>8. CASE FiberStatus(h) = "running"
      BY <1>1, <1>2, <2>4, <2>5, <2>7, <2>8 DEF Moved, StatusMoves
    <2>9. CASE FiberStatus(h) = "ended"
      <3>1. \A d \in Cbs : Status(d)' = Status(d)
        <4> SUFFICES ASSUME NEW d \in Cbs PROVE Status(d)' = Status(d)
          OBVIOUS
        <4>1. CASE d = c
          BY <2>4, <2>5, <2>9, <4>1
        <4> QED
          BY <2>7, <4>1
      <3> QED
        BY <1>1, <1>2, <3>1 DEF Moved, StatusKept
    <2> QED
      BY <2>6, <2>8, <2>9
  <1>6. CASE body[h] \notin Cbs
    <2>1. \A d \in Cbs : body[h] # d
      BY <1>6
    <2>2. \A d \in Cbs : Status(d)' = Status(d)
      BY <1>4, <2>1
    <2> QED
      BY <1>1, <1>2, <2>2 DEF Moved, StatusKept
  <1> QED
    BY <1>1, <1>2, <1>5, <1>6

\* The callback returns.
LEMMA CarryReturn ==
    ASSUME TypeOK, FiberInv, CarryInv, NEW t \in Threads, Return(t)
    PROVE  CarryInv' /\ Moved("running", "ended")
  <1>0. PICK h \in Fibers : h = Cur(t) /\ st[h] = "EXEC"
    BY DEF Return, FiberInv, InFiberInv, InFiber
  <1>1. /\ UNCHANGED <<m_fibers, submitted, armed, ft, cb_fiber>>
        /\ pc[t] = "user" /\ pc'[t] = "leaving" /\ \A u \in Threads \ {t} : pc'[u] = pc[u]
        /\ \A f \in Fibers \ {h} : st'[f] = st[f] /\ body'[f] = body[f]
        /\ st'[h] = "TERM" /\ body'[h] = NoCb
    BY <1>0 DEF Return, queueVars, TypeOK
  <1>2. \A c \in Cbs : AsCallback(c)' <=> AsCallback(c)
    BY <1>1, SameHands
  <1>3. EntryInv' /\ QueuedFibers' = QueuedFibers
    BY <1>1 DEF CarryInv, EntryInv, QueuedFibers
  <1>4. \A u \in Threads : (InFiber(u)' <=> InFiber(u)) /\ (pc'[u] = "dispatch" <=> pc[u] = "dispatch")
    BY <1>1 DEF InFiber
  <1>5. UnusedInv'
    <2>1. \A f \in Fibers : body[f] = NoCb => body'[f] = NoCb
      BY <1>1
    <2>2. \A u \in Threads : cb_fiber[u] # NoFiber => cb_fiber[u] \in Fibers
      BY CurType
    <2> QED
      BY <1>1, <1>4, <2>1, <2>2 DEF CarryInv, UnusedInv
  <1>6. StartInv'
    BY <1>1, <1>3, <1>4 DEF CarryInv, StartInv, Queued, Taken
  <1>7. PlaceInv' /\ BodyInv' /\ Moved("running", "ended")
    BY <1>0, <1>1, <1>2, StatusDropped
  <1> QED
    BY <1>3, <1>5, <1>6, <1>7 DEF CarryInv

\* run() lets go of a fiber that it has seen: the pooled one goes with it.
LEMMA ReleaseUnused ==
    ASSUME TypeOK, CarryInv, NEW t \in Threads, InFiber(t), Release(t),
           \A f \in Fibers : st'[f] = "NONE" => st[f] = "NONE", body' = body
    PROVE  UnusedInv'
  <1>1. \A f \in Fibers : st'[f] = "NONE" => body'[f] = NoCb
    BY DEF CarryInv, UnusedInv
  <1>2. ASSUME NEW u \in Threads, cb_fiber'[u] # NoFiber, ~ (InFiber(u)' /\ ft'[u].fiber = NoFiber)
        PROVE  cb_fiber'[u] = cb_fiber[u] /\ ~ (InFiber(u) /\ ft[u].fiber = NoFiber)
    BY <1>2 DEF Release, TypeOK, InFiber
  <1> QED
    BY <1>1, <1>2 DEF CarryInv, UnusedInv

\* A READY fiber is put back: its task was pending already.
LEMMA CarrySettleReady ==
    ASSUME TypeOK, FiberInv, CarryInv, NEW t \in Threads, SettleReady(t)
    PROVE  CarryInv' /\ StatusKept /\ (FreeInv => FreeInv')
  <1>0. PICK h \in Fibers : h = Cur(t) /\ InFiber(t) /\ ft[t].cb = NoCb
    BY DEF SettleReady, FiberInv, InFiberInv, InFiber
  <1>1. /\ UNCHANGED <<submitted, st, body, armed>>
        /\ schedule(FiberEntry(h, AnyThread)) /\ Release(t)
        /\ pc[t] = "settle" /\ pc'[t] = "scan"
        /\ ft'[t] = NoEntry /\ \A u \in Threads \ {t} : pc'[u] = pc[u] /\ ft'[u] = ft[u]
    BY <1>0 DEF SettleReady, Release, fiberVars, TypeOK
  <1>2. PICK e \in FiberAndThread : e = FiberEntry(h, AnyThread) /\ e.cb = NoCb /\ e.thread = AnyThread
    BY EntryTypes DEF FiberEntry
  <1>3. HandsKept /\ \A u \in Threads : ft'[u].cb = ft[u].cb
    BY <1>0, <1>1 DEF HandsKept, NoEntry
  <1>4. /\ EntryInv' /\ (FreeInv => FreeInv')
        /\ \A c \in Cbs : InList(c)' <=> InList(c) \/ c = e.cb
    BY <1>1, <1>2, <1>3, EntryAppend DEF CarryInv
  <1>5. CbsStay
    <2>1. \A c \in Cbs : InHand(c)' <=> InHand(c)
      BY <1>3 DEF InHand
    <2>2. \A c \in Cbs : /\ AsCallback(c) <=> InList(c) \/ InHand(c)
                         /\ AsCallback(c)' <=> InList(c)' \/ InHand(c)'
      BY DEF AsCallback, InList, InHand
    <2>3. \A c \in Cbs : c # e.cb
      BY <1>2, ObjectAssumption
    <2> QED
      BY <1>1, <1>4, <2>1, <2>2, <2>3 DEF CbsStay
  <1>6. QueuedFibers \subseteq QueuedFibers'
    BY <1>1, <1>2, ScheduleAdds
  <1>7. UnusedInv'
    BY <1>0, <1>1, ReleaseUnused
  <1>8. StartInv'
    <2>1. ASSUME NEW f \in Fibers, Taken(f) PROVE Taken(f)'
      BY <1>1, <2>1 DEF Taken
    <2> QED
      BY <1>1, <1>6, <2>1 DEF CarryInv, StartInv, Queued
  <1>9. \A f \in Fibers : FiberStatus(f)' = FiberStatus(f)
    BY <1>1, SameFiberStatus
  <1> QED
    BY <1>4, <1>5, <1>7, <1>8, <1>9, StayPlaces, StatusStays DEF CarryInv

\* A fiber that yielded to wait becomes HOLD: its task waits, or is pending if
\* the waker was faster.
LEMMA CarrySettleHold ==
    ASSUME TypeOK, FiberInv, CarryInv, NEW t \in Threads, SettleHold(t)
    PROVE  CarryInv' /\ (Moved("running", "pending") \/ Moved("running", "waiting"))
  <1>0. PICK h \in Fibers : h = Cur(t) /\ InFiber(t) /\ ft[t].cb = NoCb /\ st[h] = "EXEC"
    BY DEF SettleHold, FiberInv, InFiberInv, InFiber, Ended
  <1>1. /\ UNCHANGED <<m_fibers, submitted, body, armed>> /\ Release(t)
        /\ pc[t] = "settle" /\ pc'[t] = "scan"
        /\ ft'[t] = NoEntry /\ \A u \in Threads \ {t} : pc'[u] = pc[u] /\ ft'[u] = ft[u]
        /\ st'[h] = "HOLD" /\ \A f \in Fibers \ {h} : st'[f] = st[f]
    BY <1>0 DEF SettleHold, Release, queueVars, TypeOK
  <1>2. \A u \in Threads : ft'[u].cb = ft[u].cb
    BY <1>0, <1>1 DEF NoEntry
  <1>3. CbsStay /\ EntryInv' /\ QueuedFibers' = QueuedFibers
    BY <1>1, <1>2, SameHands DEF CbsStay, CarryInv, EntryInv, QueuedFibers
  <1>4. UnusedInv'
    <2>1. \A f \in Fibers : st'[f] = "NONE" => st[f] = "NONE"
      BY <1>1
    <2> QED
      BY <1>0, <1>1, <2>1, ReleaseUnused
  <1>5. StartInv'
    <2>1. ASSUME NEW f \in Fibers, Taken(f) PROVE Taken(f)'
      BY <1>1, <2>1 DEF Taken
    <2> QED
      BY <1>1, <1>3, <2>1 DEF CarryInv, StartInv, Queued
  <1>6. \A f \in Fibers \ {h} : FiberStatus(f)' = FiberStatus(f)
    BY <1>1, SameFiberStatus
  <1>7. FiberStatus(h) = "running" /\ (FiberStatus(h)' = "pending" \/ FiberStatus(h)' = "waiting")
    BY <1>0, <1>1 DEF FiberStatus, Ended
  <1>8. Moved("running", "pending") \/ Moved("running", "waiting")
    BY <1>3, <1>6, <1>7, StatusFocus DEF CarryInv
  <1> QED
    BY <1>3, <1>4, <1>5, <1>8, StayPlaces DEF CarryInv

\* run() is done with a fiber that has ended, and resets the pooled one.
LEMMA CarrySettleEnded ==
    ASSUME TypeOK, FiberInv, CarryInv, NEW t \in Threads, SettleEnded(t)
    PROVE  CarryInv' /\ Moved("running", "ended")
  <1>0. PICK h \in Fibers : h = Cur(t) /\ InFiber(t) /\ ft[t].cb = NoCb /\ st[h] \in Ended
    BY DEF SettleEnded, FiberInv, InFiberInv, InFiber
  <1>1. /\ UNCHANGED <<m_fibers, submitted, armed, cb_fiber>>
        /\ pc[t] = "settle" /\ pc'[t] = "scan"
        /\ ft'[t] = NoEntry /\ \A u \in Threads \ {t} : pc'[u] = pc[u] /\ ft'[u] = ft[u]
        /\ \A f \in Fibers \ {h} : st'[f] = st[f] /\ body'[f] = body[f]
        /\ ft[t].fiber = NoFiber => st'[h] = "INIT" /\ body'[h] = NoCb
        /\ ft[t].fiber # NoFiber => UNCHANGED <<st, body>>
    BY <1>0 DEF SettleEnded, queueVars, TypeOK
  <1>2. \A u \in Threads : ft'[u].cb = ft[u].cb
    BY <1>0, <1>1 DEF NoEntry
  <1>3. EntryInv' /\ QueuedFibers' = QueuedFibers /\ \A c \in Cbs : AsCallback(c)' <=> AsCallback(c)
    BY <1>1, <1>2, SameHands DEF CarryInv, EntryInv, QueuedFibers
  <1>4. UnusedInv'
    <2>1. \A f \in Fibers : st'[f] = "NONE" => body'[f] = NoCb
      BY <1>0, <1>1 DEF CarryInv, UnusedInv, Ended
    <2>2. \A f \in Fibers : body[f] = NoCb => body'[f] = NoCb
      BY <1>1
    <2>3. ASSUME NEW u \in Threads, cb_fiber[u] # NoFiber, ~ (InFiber(u)' /\ ft'[u].fiber = NoFiber)
          PROVE  body'[cb_fiber[u]] = NoCb
      <3>1. CASE InFiber(u) /\ ft[u].fiber = NoFiber
        <4>1. u = t
          BY <1>1, <2>3, <3>1 DEF InFiber
        <4>2. cb_fiber[t] = h
          BY <1>0, <3>1, <4>1 DEF Cur
        <4> QED
          BY <1>1, <3>1, <4>1, <4>2
      <3>2. CASE ~ (InFiber(u) /\ ft[u].fiber = NoFiber)
        <4>1. body[cb_fiber[u]] = NoCb /\ cb_fiber[u] \in Fibers
          BY <2>3, <3>2, CurType DEF CarryInv, UnusedInv
        <4> QED
          BY <2>2, <4>1
      <3> QED
        BY <3>1, <3>2
    <2> QED
      BY <1>1, <2>1, <2>3 DEF UnusedInv
  <1>5. StartInv'
    <2>1. ASSUME NEW f \in Fibers, Taken(f) PROVE Taken(f)'
      BY <1>1, <2>1 DEF Taken
    <2> QED
      BY <1>0, <1>1, <1>3, <2>1 DEF CarryInv, StartInv, Queued
  <1>6. CASE ft[t].fiber = NoFiber
    <2>1. PlaceInv' /\ BodyInv' /\ Moved("running", "ended")
      BY <1>0, <1>1, <1>3, <1>6, StatusDropped
    <2> QED
      BY <1>3, <1>4, <1>5, <2>1 DEF CarryInv
  <1>7. CASE ft[t].fiber # NoFiber
    <2>1. CbsStay
      BY <1>1, <1>3, <1>7 DEF CbsStay
    <2>2. \A f \in Fibers : FiberStatus(f)' = FiberStatus(f)
      BY <1>1, <1>7, SameFiberStatus
    <2> QED
      BY <1>3, <1>4, <1>5, <2>1, <2>2, StayPlaces, StatusStays DEF CarryInv, Moved
  <1> QED
    BY <1>6, <1>7

\* schedule() of a callback submits its task.
LEMMA CarrySubmitCb ==
    ASSUME TypeOK, CarryInv, UNCHANGED threadVars, NEW c \in Cbs, NEW k \in Targets, SubmitCb(c, k)
    PROVE  CarryInv' /\ Moved("new", "pending") /\ (FreeInv /\ k = AnyThread => FreeInv')
  <1>1. /\ UNCHANGED <<st, body, armed, pc, ft, cb_fiber>>
        /\ c \notin submitted /\ submitted' = submitted \cup {c}
        /\ schedule(CbEntry(c, k))
    BY DEF SubmitCb, fiberVars, threadVars
  <1>2. PICK e \in FiberAndThread : e = CbEntry(c, k) /\ e.cb = c /\ e.thread = k
    BY EntryTypes DEF CbEntry
  <1>3. ~ AsCallback(c) /\ ~ Carried(c)
    BY <1>1 DEF CarryInv, PlaceInv
  <1>4. /\ EntryInv' /\ (FreeInv /\ k = AnyThread => FreeInv')
        /\ \A d \in Cbs : InList(d)' <=> InList(d) \/ d = c
    BY <1>1, <1>2, <1>3, EntryAppend DEF CarryInv, HandsKept
  <1>5. \A d \in Cbs : AsCallback(d)' <=> AsCallback(d) \/ d = c
    <2>1. \A d \in Cbs : /\ AsCallback(d) <=> InList(d) \/ InHand(d)
                         /\ AsCallback(d)' <=> InList(d)' \/ InHand(d)'
      BY DEF AsCallback, InList, InHand
    <2>2. \A d \in Cbs : InHand(d)' <=> InHand(d)
      BY <1>1 DEF InHand
    <2> QED
      BY <1>4, <2>1, <2>2
  <1>6. PlaceInv' /\ BodyInv'
    BY <1>1, <1>3, <1>5 DEF CarryInv, PlaceInv, BodyInv, Carried
  <1>7. UnusedInv' /\ StartInv'
    <2>1. QueuedFibers \subseteq QueuedFibers'
      BY <1>1, <1>2, ScheduleAdds
    <2> QED
      BY <1>1, <2>1 DEF CarryInv, UnusedInv, StartInv, Queued, Taken, InFiber
  <1>8. Moved("new", "pending")
    <2>1. StatusIs /\ StatusIs'
      BY <1>6, StatusFacts, StatusFactsNext DEF CarryInv
    <2>2. Status(c) = "new" /\ Status(c)' = "pending"
      BY <1>1, <1>5, <2>1 DEF StatusIs
    <2>3. \A f \in Fibers : FiberStatus(f)' = FiberStatus(f)
      BY <1>1, SameFiberStatus
    <2>4. ASSUME NEW d \in Cbs \ {c} PROVE Status(d)' = Status(d)
      BY <1>1, <1>5, <2>1, <2>3, OneStatus
    <2> QED
      BY <2>2, <2>4 DEF Moved, StatusMoves
  <1> QED
    BY <1>4, <1>6, <1>7, <1>8 DEF CarryInv

\* schedule() of a new fiber submits its callback's task.
LEMMA CarrySubmitFiber ==
    ASSUME TypeOK, FiberInv, CarryInv, UNCHANGED threadVars,
           NEW c \in Cbs, NEW h \in Fibers, NEW k \in Targets, SubmitFiber(c, h, k)
    PROVE  CarryInv' /\ Moved("new", "pending") /\ (FreeInv /\ k = AnyThread => FreeInv')
  <1>1. /\ UNCHANGED <<armed, pc, ft, cb_fiber>>
        /\ c \notin submitted /\ submitted' = submitted \cup {c}
        /\ schedule(FiberEntry(h, k))
        /\ st[h] = "NONE" /\ st'[h] = "INIT" /\ body'[h] = c
        /\ \A f \in Fibers \ {h} : st'[f] = st[f] /\ body'[f] = body[f]
    BY DEF SubmitFiber, threadVars, TypeOK
  <1>2. PICK e \in FiberAndThread : /\ e = FiberEntry(h, k) /\ e.cb = NoCb /\ e.thread = k
                                    /\ e.fiber = h
    BY EntryTypes DEF FiberEntry
  <1>3. ~ AsCallback(c) /\ ~ Carried(c) /\ body[h] = NoCb
    BY <1>1 DEF CarryInv, PlaceInv, UnusedInv
  <1>4. /\ EntryInv' /\ (FreeInv /\ k = AnyThread => FreeInv')
        /\ \A d \in Cbs : InList(d)' <=> InList(d) \/ d = e.cb
    BY <1>1, <1>2, EntryAppend DEF CarryInv, HandsKept
  <1>5. \A d \in Cbs : AsCallback(d)' <=> AsCallback(d)
    <2>1. \A d \in Cbs : /\ AsCallback(d) <=> InList(d) \/ InHand(d)
                         /\ AsCallback(d)' <=> InList(d)' \/ InHand(d)'
      BY DEF AsCallback, InList, InHand
    <2>2. \A d \in Cbs : InHand(d)' <=> InHand(d)
      BY <1>1 DEF InHand
    <2> QED
      BY <1>2, <1>4, <2>1, <2>2, ObjectAssumption
  <1>6. PlaceInv'
    BY <1>1, <1>3, <1>5 DEF CarryInv, PlaceInv, Carried
  <1>7. BodyInv'
    BY <1>1, <1>3 DEF CarryInv, BodyInv, Carried
  <1>8. UnusedInv'
    <2>1. \A u \in Threads : cb_fiber[u] # h
      BY <1>1, Fresh
    <2>2. \A u \in Threads : cb_fiber[u] # NoFiber => cb_fiber[u] \in Fibers \ {h}
      BY <2>1, CurType
    <2> QED
      BY <1>1, <2>2 DEF CarryInv, UnusedInv, InFiber
  <1>9. StartInv'
    <2>1. QueuedFibers \subseteq QueuedFibers' /\ h \in QueuedFibers'
      BY <1>1, <1>2, ScheduleAdds
    <2> QED
      BY <1>1, <2>1 DEF CarryInv, StartInv, Queued, Taken
  <1>10. Moved("new", "pending")
    <2>1. StatusIs /\ StatusIs'
      BY <1>6, <1>7, StatusFacts, StatusFactsNext DEF CarryInv
    <2>2. Status(c) = "new"
      BY <1>1, <2>1 DEF StatusIs
    <2>3. Status(c)' = "pending"
      <3>1. FiberStatus(h)' = "pending"
        BY <1>1 DEF FiberStatus, Ended
      <3> QED
        BY <1>1, <2>1, <3>1 DEF StatusIs
    <2>4. ASSUME NEW d \in Cbs \ {c} PROVE Status(d)' = Status(d)
      <3>1. \A f \in Fibers : body'[f] = d <=> body[f] = d
        BY <1>1, <1>3, ObjectAssumption
      <3>2. \A f \in Fibers : body[f] = d => FiberStatus(f)' = FiberStatus(f)
        BY <1>1, <1>3, ObjectAssumption, SameFiberStatus
      <3> QED
        BY <1>1, <1>5, <2>1, <3>1, <3>2, OneStatus
    <2> QED
      BY <2>2, <2>3, <2>4 DEF Moved, StatusMoves
  <1> QED
    BY <1>4, <1>6, <1>7, <1>8, <1>9, <1>10 DEF CarryInv

\* A waker fires: a waiting task is pending.
LEMMA CarryFire ==
    ASSUME TypeOK, FiberInv, CarryInv, UNCHANGED threadVars,
           NEW h \in Fibers, NEW k \in Targets, Fire(h, k)
    PROVE  CarryInv' /\ Moved("waiting", "pending") /\ (FreeInv /\ k = AnyThread => FreeInv')
  <1>1. /\ UNCHANGED <<submitted, st, body, pc, ft, cb_fiber>>
        /\ schedule(FiberEntry(h, k))
        /\ h \in armed /\ armed' = armed \ {h}
    BY DEF Fire, threadVars
  <1>2. PICK e \in FiberAndThread : e = FiberEntry(h, k) /\ e.cb = NoCb /\ e.thread = k
    BY EntryTypes DEF FiberEntry
  <1>3. /\ EntryInv' /\ (FreeInv /\ k = AnyThread => FreeInv')
        /\ \A d \in Cbs : InList(d)' <=> InList(d) \/ d = e.cb
    BY <1>1, <1>2, EntryAppend DEF CarryInv, HandsKept
  <1>4. CbsStay
    <2>1. \A d \in Cbs : /\ AsCallback(d) <=> InList(d) \/ InHand(d)
                         /\ AsCallback(d)' <=> InList(d)' \/ InHand(d)'
      BY DEF AsCallback, InList, InHand
    <2>2. \A d \in Cbs : InHand(d)' <=> InHand(d)
      BY <1>1 DEF InHand
    <2> QED
      BY <1>1, <1>2, <1>3, <2>1, <2>2, ObjectAssumption DEF CbsStay
  <1>5. UnusedInv' /\ StartInv'
    <2>1. QueuedFibers \subseteq QueuedFibers'
      BY <1>1, <1>2, ScheduleAdds
    <2> QED
      BY <1>1, <2>1 DEF CarryInv, UnusedInv, StartInv, Queued, Taken, InFiber
  <1>6. \A f \in Fibers \ {h} : FiberStatus(f)' = FiberStatus(f)
    BY <1>1, SameFiberStatus
  <1>7. FiberStatus(h)' = FiberStatus(h) \/ (FiberStatus(h) = "waiting" /\ FiberStatus(h)' = "pending")
    <2>1. CASE st[h] = "HOLD"
      BY <1>1, <2>1 DEF FiberStatus, Ended
    <2>2. CASE st[h] # "HOLD"
      BY <1>1, <2>2 DEF FiberStatus
    <2> QED
      BY <2>1, <2>2
  <1>8. Moved("waiting", "pending")
    BY <1>4, <1>6, <1>7, StatusFocus DEF CarryInv
  <1> QED
    BY <1>3, <1>4, <1>5, <1>8, StayPlaces DEF CarryInv

-----------------------------------------------------------------------------
(* Every step is a step of the task pool *)

PoolMoves ==
    \/ Moved("new", "pending") \/ Moved("pending", "running")
    \/ Moved("running", "pending") \/ Moved("running", "waiting")
    \/ Moved("waiting", "pending") \/ Moved("running", "ended")

\* The calls any code can make.
LEMMA CarryCalls ==
    ASSUME TypeOK, FiberInv, CarryInv, FreeInv, Affine = {}, UNCHANGED threadVars, Calls
    PROVE  CarryInv' /\ FreeInv' /\ PoolMoves
  <1>1. PICK k \in Targets : \/ \E c \in Cbs : SubmitCb(c, k)
                             \/ \E c \in Cbs, g \in Fibers : SubmitFiber(c, g, k)
                             \/ \E g \in Fibers : Fire(g, k)
    BY DEF Calls
  <1>2. k = AnyThread
    BY DEF Targets
  <1>3. CASE \E c \in Cbs : SubmitCb(c, k)
    BY <1>2, <1>3, CarrySubmitCb DEF PoolMoves
  <1>4. CASE \E c \in Cbs, g \in Fibers : SubmitFiber(c, g, k)
    BY <1>2, <1>4, CarrySubmitFiber DEF PoolMoves
  <1>5. CASE \E g \in Fibers : Fire(g, k)
    BY <1>2, <1>5, CarryFire DEF PoolMoves
  <1> QED
    BY <1>1, <1>3, <1>4, <1>5

\* The steps of a thread.
LEMMA CarryThread ==
    ASSUME TypeOK, FiberInv, CarryInv, FreeInv, Affine = {}, mpc' # "aborted",
           NEW t \in Threads, ThreadStep(t) \/ UserStep(t)
    PROVE  CarryInv' /\ FreeInv' /\ PoolMoves
  <1> USE DEF PoolMoves
  <1>0. UNCHANGED m_fibers => FreeInv'
    BY DEF FreeInv
  <1>k. StatusKept => Moved("running", "pending")
    BY DEF Moved
  <1>1. CASE Take(t)
    BY <1>1, <1>k, CarryTake, EntryTake DEF CarryInv
  <1>2. CASE GoIdle(t) \/ Idle(t) \/ YieldToHold(t) \/ SwapOut(t) \/ Decrement(t)
    <2>1. UNCHANGED m_fibers
      BY <1>2 DEF GoIdle, Idle, YieldToHold, SwapOut, Decrement, queueVars
    <2> QED
      BY <1>0, <1>2, <1>k, <2>1, CarryIdle
  <1>3. CASE Exit(t)
    <2>1. UNCHANGED m_fibers
      BY <1>3 DEF Exit, Abort, queueVars
    <2> QED
      BY <1>0, <1>3, <1>k, <2>1, CarryExit
  <1>4. CASE SwapInFiber(t)
    <2>1. UNCHANGED m_fibers
      BY <1>4 DEF SwapInFiber, Abort, queueVars
    <2> QED
      BY <1>0, <1>4, <2>1, CarrySwapIn
  <1>5. CASE DropEnded(t)
    <2>1. UNCHANGED m_fibers
      BY <1>5 DEF DropEnded, queueVars
    <2> QED
      BY <1>0, <1>5, <1>k, <2>1, CarryDrop
  <1>6. CASE ReuseCbFiber(t) \/ \E f \in Fibers : NewCbFiber(t, f)
    <2>1. UNCHANGED m_fibers
      BY <1>6 DEF ReuseCbFiber, NewCbFiber, Abort, queueVars
    <2> QED
      BY <1>0, <1>6, <2>1, CarryPooled
  <1>7. CASE YieldToReady(t) \/ Throw(t)
    <2>1. UNCHANGED m_fibers
      BY <1>7 DEF YieldToReady, Throw, queueVars
    <2> QED
      BY <1>0, <1>7, <2>1, CarryYield
  <1>8. CASE Return(t)
    <2>1. UNCHANGED m_fibers
      BY <1>8 DEF Return, queueVars
    <2> QED
      BY <1>0, <1>8, <2>1, CarryReturn
  <1>9. CASE Arm(t)
    <2>1. UNCHANGED m_fibers
      BY <1>9 DEF Arm, queueVars
    <2> QED
      BY <1>0, <1>9, <1>k, <2>1, CarryArm
  <1>10. CASE SettleReady(t)
    BY <1>10, <1>k, CarrySettleReady
  <1>11. CASE SettleHold(t)
    <2>1. UNCHANGED m_fibers
      BY <1>11 DEF SettleHold, queueVars
    <2> QED
      BY <1>0, <1>11, <2>1, CarrySettleHold
  <1>12. CASE SettleEnded(t)
    <2>1. UNCHANGED m_fibers
      BY <1>12 DEF SettleEnded, queueVars
    <2> QED
      BY <1>0, <1>12, <2>1, CarrySettleEnded
  <1>13. CASE UserCalls(t)
    BY <1>13, CarryCalls DEF UserCalls
  <1> QED
    BY <1>1, <1>2, <1>3, <1>4, <1>5, <1>6, <1>7, <1>8, <1>9, <1>10, <1>11, <1>12, <1>13
       DEF ThreadStep, UserStep

\* start() and stop() move no task.
LEMMA CarryStop ==
    ASSUME TypeOK, StageInv, CarryInv, FreeInv, start \/ StopBegin \/ StopStep
    PROVE  CarryInv' /\ FreeInv' /\ StatusKept
  <1>1. UNCHANGED <<m_fibers, st, body, armed, ft, cb_fiber, submitted>>
    BY DEF start, StopBegin, StopStep, StopEarly, StopFlag, StopRoot, StopRootDone, StopJoin,
           queueVars, fiberVars, threadVars
  <1>2. \A t \in Threads : /\ pc[t] \notin {"out", "exit"} => pc'[t] = pc[t]
                           /\ pc'[t] \in {"scan", pc[t]}
    BY DEF start, StopBegin, StopStep, StopEarly, StopFlag, StopRoot, StopRootDone, StopJoin,
           threadVars, StageInv, TypeOK
  <1>3. \A t \in Threads : (InFiber(t)' <=> InFiber(t)) /\ (pc'[t] = "dispatch" <=> pc[t] = "dispatch")
    BY <1>2 DEF InFiber
  <1>4. FreeInv'
    BY <1>1 DEF FreeInv
  <1> QED
    BY <1>1, <1>3, <1>4, CarryFrame

\* When stop() has returned no task is pending or running.
AllInv == IInv /\ StopInv /\ WorkHasServer /\ HasPath /\ CarryInv /\ FreeInv
Drained == mpc = "done" => \A c \in Cbs : Status(c) \notin {"pending", "running"}
LEMMA PoolDrained == AllInv => Drained
  <1> SUFFICES ASSUME AllInv, mpc = "done", NEW c \in Cbs
               PROVE  Status(c) \notin {"pending", "running"}
    BY DEF Drained
  <1> USE DEF AllInv
  <1>1. \A t \in Threads : pc[t] \in {"out", "exit"}
    BY DEF StopInv, Threads
  <1>2. \A i \in DOMAIN m_fibers : FALSE
    BY <1>1 DEF WorkHasServer, Serving, RootToCome, FreeInv
  <1>3. \A t \in Threads : ft[t] = NoEntry /\ ~ InFiber(t)
    BY <1>1 DEF IInv, FiberInv, DispatchInv, Holding, Counted, InFiber
  <1>4. ~ AsCallback(c)
    BY <1>2, <1>3, ObjectAssumption DEF AsCallback, NoEntry
  <1>5. ASSUME NEW f \in Fibers
        PROVE  ~ Queued(f) /\ ~ Taken(f) /\ ~ OnThread(f)
    BY <1>1, <1>2, <1>3 DEF Queued, QueuedFibers, Taken, OnThread
  <1>6. StatusIs
    BY StatusFacts DEF CarryInv
  <1>7. ASSUME NEW f \in Fibers, body[f] = c PROVE FiberStatus(f) \in {"waiting", "ended"}
    <2>1. st[f] \in State
      BY DEF IInv, TypeInv, TypeOK
    <2>2. st[f] # "EXEC"
      BY <1>5 DEF IInv, FiberInv, ExecInv, OnThread
    <2>3. st[f] # "NONE" /\ st[f] # "INIT"
      BY <1>5, <1>7, ObjectAssumption DEF CarryInv, UnusedInv, StartInv
    <2>4. st[f] \in {"HOLD", "READY"} => f \in armed
      BY <1>5 DEF HasPath, Path
    <2>5. st[f] # "READY"
      BY <2>4 DEF CarryInv, StartInv
    <2>6. CASE st[f] = "HOLD"
      BY <2>4, <2>6 DEF FiberStatus, Ended
    <2>7. CASE st[f] \in Ended
      BY <2>7 DEF FiberStatus, Ended
    <2> QED
      BY <2>1, <2>2, <2>3, <2>5, <2>6, <2>7 DEF State, Ended
  <1>8. CASE \E f \in Fibers : body[f] = c
    <2>1. PICK f \in Fibers : body[f] = c
      BY <1>8
    <2>2. Status(c) = FiberStatus(f)
      BY <1>6, <2>1, Zenon DEF StatusIs
    <2> QED
      BY <1>7, <2>1, <2>2
  <1>9. CASE ~ Carried(c)
    <2>1. Status(c) \in {"new", "ended"}
      BY <1>4, <1>6, <1>9 DEF StatusIs
    <2> QED
      BY <2>1
  <1> QED
    BY <1>8, <1>9 DEF Carried

\* A move of one task is the task pool's.
LEMMA MoveIsStep ==
    ASSUME PoolMoves, mpc # "done", mpc' # "done"
    PROVE  [Pool!Next]_(Pool!vars)
  <1>1. CASE StatusKept
    <2>1. [c \in Cbs |-> Status(c)]' = [c \in Cbs |-> Status(c)]
      BY <1>1 DEF StatusKept
    <2> QED
      BY <2>1 DEF Pool!vars
  <1>2. ASSUME NEW c \in Cbs, NEW from, NEW to, StatusMoves(c, from, to)
        PROVE  Pool!Move(c, from, to)
    <2>1. [d \in Cbs |-> Status(d)]' = [[d \in Cbs |-> Status(d)] EXCEPT ![c] = to]
      BY <1>2 DEF StatusMoves
    <2>2. [d \in Cbs |-> Status(d)][c] = from
      BY <1>2 DEF StatusMoves
    <2> QED
      BY <2>1, <2>2 DEF Pool!Move
  <1>3. CASE ~ StatusKept
    <2>1. PICK c \in Cbs : \/ StatusMoves(c, "new", "pending")
                           \/ StatusMoves(c, "pending", "running")
                           \/ StatusMoves(c, "running", "pending")
                           \/ StatusMoves(c, "running", "waiting")
                           \/ StatusMoves(c, "waiting", "pending")
                           \/ StatusMoves(c, "running", "ended")
      BY <1>3 DEF PoolMoves, Moved
    <2>2. \/ Pool!Submit(c) \/ Pool!Run(c) \/ Pool!GiveWay(c)
          \/ Pool!Wait(c) \/ Pool!Wake(c) \/ Pool!Finish(c)
      BY <1>2, <2>1 DEF Pool!Submit, Pool!Run, Pool!GiveWay, Pool!Wait, Pool!Wake, Pool!Finish
    <2> QED
      BY <2>2 DEF Pool!Next
  <1> QED
    BY <1>1, <1>3

\* A thread that takes a step has not left run().
LEMMA ThreadInRun ==
    ASSUME NEW t \in Threads, ThreadStep(t) \/ UserStep(t)
    PROVE  pc[t] \notin {"out", "exit"}
  BY DEF ThreadStep, UserStep, Take, GoIdle, Exit, Idle, SwapInFiber, DropEnded, ReuseCbFiber,
         NewCbFiber, YieldToHold, Return, Throw, SwapOut, Decrement, SettleReady, SettleEnded,
         SettleHold, UserCalls, Arm, YieldToReady

\* Every step keeps CarryInv and FreeInv, and moves a task or none.
LEMMA CarryNext ==
    ASSUME Affine = {}, AllInv, [Next]_vars
    PROVE  /\ CarryInv' /\ FreeInv'
           /\ StatusKept \/ (PoolMoves /\ mpc # "done" /\ mpc' = mpc)
  <1>1. TypeOK /\ StageInv /\ FiberInv /\ CarryInv /\ FreeInv /\ StopInv
    BY DEF AllInv, IInv, TypeInv
  <1>2. mpc' # "aborted"
    BY IInvNext DEF AllInv, IInv, AssertionsHold
  <1>3. CASE MainCalls
    BY <1>1, <1>3, CarryCalls DEF MainCalls, flagVars
  <1>4. CASE start \/ StopBegin \/ StopStep
    BY <1>1, <1>4, CarryStop
  <1>5. CASE \E t \in Threads : ThreadStep(t) \/ UserStep(t)
    <2>1. PICK t \in Threads : ThreadStep(t) \/ UserStep(t)
      BY <1>5
    <2>2. CarryInv' /\ FreeInv' /\ PoolMoves
      BY <1>1, <1>2, <2>1, CarryThread
    <2>3. mpc' = mpc
      BY <1>1, <1>2, <2>1, ThreadStepMoves
    <2>4. mpc # "done"
      BY <1>1, <2>1, ThreadInRun DEF StopInv, Threads
    <2> QED
      BY <2>2, <2>3, <2>4
  <1>6. CASE UNCHANGED vars
    <2>1. UNCHANGED <<m_fibers, st, body, armed, ft, cb_fiber, submitted, pc>>
      BY <1>6 DEF vars, queueVars, fiberVars, threadVars
    <2>2. FreeInv'
      BY <1>1, <2>1 DEF FreeInv
    <2>3. \A t \in Threads : (InFiber(t)' <=> InFiber(t)) /\ (pc'[t] = "dispatch" <=> pc[t] = "dispatch")
      BY <2>1 DEF InFiber
    <2> QED
      BY <1>1, <2>1, <2>2, <2>3, CarryFrame
  <1> QED
    BY <1>3, <1>4, <1>5, <1>6 DEF Next, Over

\* The invariants hold together.
LEMMA AllInvNext == Affine = {} /\ AllInv /\ [Next]_vars => AllInv'
  <1> SUFFICES ASSUME Affine = {}, AllInv, [Next]_vars PROVE AllInv'
    OBVIOUS
  <1>1. CarryInv' /\ FreeInv'
    BY CarryNext
  <1> QED
    BY <1>1, IInvNext, StopInvNext, ServerNext, PathNext DEF AllInv

\* Every step of the scheduler is a step of the task pool or none.
LEMMA PoolNext ==
    ASSUME Affine = {}, AllInv, [Next]_vars, Drained'
    PROVE  [Pool!Next]_(Pool!vars)
  <1>1. StatusKept \/ (PoolMoves /\ mpc # "done" /\ mpc' = mpc)
    BY CarryNext
  <1>2. CASE PoolMoves /\ mpc # "done" /\ mpc' = mpc
    BY <1>2, MoveIsStep
  <1>3. CASE StatusKept
    <2>1. [c \in Cbs |-> Status(c)]' = [c \in Cbs |-> Status(c)]
      BY <1>3 DEF StatusKept
    <2>2. CASE (mpc = "done")' = (mpc = "done")
      BY <2>1, <2>2 DEF Pool!vars
    <2>3. CASE mpc # "done" /\ mpc' = "done"
      <3>1. \A c \in Cbs : Status(c) \notin {"pending", "running"}
        BY <1>3, <2>3 DEF Drained, StatusKept
      <3>2. Pool!Close
        BY <2>1, <2>3, <3>1 DEF Pool!Close
      <3> QED
        BY <3>2 DEF Pool!Next
    <2>4. mpc = "done" => mpc' = "done"
      <3> SUFFICES ASSUME mpc = "done" PROVE mpc' = "done"
        OBVIOUS
      <3>1. \A t \in Threads : ~ (ThreadStep(t) \/ UserStep(t))
        BY ThreadInRun DEF AllInv, StopInv, Threads
      <3> QED
        BY <3>1 DEF Next, Over, vars, flagVars, MainCalls, start, StopBegin, StopStep, StopEarly,
                    StopFlag, StopRoot, StopRootDone, StopJoin
    <2> QED
      BY <2>2, <2>3, <2>4
  <1> QED
    BY <1>1, <1>2, <1>3

\* The scheduler implements the task pool, for every number of threads, callbacks
\* and fibers, as long as no entry names a thread: each callback runs once, is
\* resumed only when woken or READY, and stop() returns only when every callback
\* that was submitted has ended or waits for its waker.
THEOREM SchedulerRefines ==
  ASSUME Affine = {}
  PROVE  Spec => RefinesTaskPool
  <1>1. Init => Pool!Init
    <2> SUFFICES ASSUME Init PROVE Pool!Init
      OBVIOUS
    <2>1. \A c \in Cbs : Status(c) = "new"
      BY DEF Init, Status
    <2> QED
      BY <2>1 DEF Init, Pool!Init
  <1>2. Init => AllInv
    <2> SUFFICES ASSUME Init PROVE AllInv
      OBVIOUS
    <2>1. IInv
      BY IInvInit
    <2>2. StopInv /\ WorkHasServer /\ HasPath /\ FreeInv
      BY DEF Init, StopInv, WorkHasServer, RootToCome, HasPath, FreeInv
    <2>3. CarryInv
      BY ObjectAssumption DEF Init, CarryInv, PlaceInv, EntryInv, BodyInv, UnusedInv, StartInv,
         AsCallback, Carried, NoEntry
    <2> QED
      BY <2>1, <2>2, <2>3 DEF AllInv
  <1>3. AllInv /\ [Next]_vars => AllInv'
    BY AllInvNext
  <1>4. AllInv /\ [Next]_vars /\ Drained' => [Pool!Next]_(Pool!vars)
    BY PoolNext
  <1> QED
    BY <1>1, <1>2, <1>3, <1>4, PoolDrained, PTL DEF Spec, RefinesTaskPool, Pool!Spec

=============================================================================
