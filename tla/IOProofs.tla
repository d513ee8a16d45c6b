------------------------------ MODULE IOProofs ------------------------------
(***************************************************************************)
(* Proofs about IOManager: the types, that m_pendingEventCount counts the  *)
(* waits, that events and waiters never part, and that no edge of epoll is *)
(* lost, for any number of clients, pollers, descriptors and closes.       *)
(***************************************************************************)
EXTENDS IOManager, FiniteSetTheorems, TLAPS

\* Every place of the table holds a context.
Tabled == size >= 2 /\ \A fd \in Fds : fd < size => gen[fd] >= 1

\* What a call's record r knows of its descriptor, its context and its connection.
Knows(r) ==
    /\ r.at = "idle" => r = NoCall
    /\ r.at = "scheduled" => r = Scheduled
    /\ r.at \in {"grow", "lock", "held", "closefd"} =>
          /\ r.fd \in Fds /\ r.conn <= conn[r.fd]
          /\ r.conn = conn[r.fd] => open[r.fd]
    /\ r.at = "grow" => r.fd >= 2
    /\ r.at \in {"lock", "held"} => r.k \in 1..gen[r.fd]
    /\ r.at \in {"grow", "held"} => r.op = "add"
    /\ r.at = "closefd" => r.op = "close"
CallsKnow == \A c \in Clients : Knows(call[c])

\* There is one close() of a connection.
OneCloser ==
    /\ \A c \in Clients : call[c].op = "close" =>
          call[c].conn = conn[call[c].fd] /\ conn[call[c].fd] < MaxClose
    /\ \A c, d \in Clients : call[c].op = "close" /\ call[d].op = "close" /\ call[c].fd = call[d].fd => c = d

\* Epoll and the batches know contexts that were made; only a watched descriptor is reported.
KernelKnows ==
    /\ \A fd \in Fds : /\ watch[fd].k <= gen[fd]
                       /\ watch[fd].k = 0 <=> watch[fd].evs = {}
                       /\ fd \in edge => watch[fd].k # 0
    /\ \A t \in Pollers : \A e \in batch[t] : e.k <= gen[e.fd]

\* KernelWatches is not inductive: what is registered must be the context's mask
\* whether or not somebody waits, and who waits must have a registration.
MaskIsContext == \A fd \in Fds : Kept(fd) /\ watch[fd].k # 0 => watch[fd].k = 1 /\ watch[fd].evs = events[fd][1]
LiveIsWatched == \A c \in Clients : Live(c) /\ Kept(call[c].fd) => watch[call[c].fd].k # 0

IInv == TypeOK /\ PendingExact /\ WaiterIffEvent /\ Tabled /\ CallsKnow /\ OneCloser /\ KernelKnows
        /\ MaskIsContext /\ LiveIsWatched /\ ReadyIsReported

USE DEF kernelVars, tableVars, ctxVars, vars

-----------------------------------------------------------------------------
\* Lemmas about the model's operators.

\* There are finitely many places to wait at.
LEMMA FinitePlaces == IsFiniteSet(Places)
  <1> DEFINE Q == (Fds \X Gens) \X Event
             f == [q \in Q |-> <<q[1][1], q[1][2], q[2]>>]
  <1>1. IsFiniteSet(Gens) /\ IsFiniteSet(Fds)
    BY TableAssumption, FS_Interval DEF Gens
  <1>2. IsFiniteSet(Event)
    <2>1. Event = {"READ"} \cup {"WRITE"}
      BY DEF Event
    <2> QED
      BY <2>1, FS_Singleton, FS_AddElement
  <1>3. IsFiniteSet(Q)
    <2>1. IsFiniteSet(Fds \X Gens)
      BY <1>1, FS_Product
    <2> QED
      BY <1>2, <2>1, FS_Product
  <1>4. f \in Surjection(Q, Places)
    <2>1. f \in [Q -> Places]
      BY DEF Places
    <2>2. ASSUME NEW p \in Places PROVE \E q \in Q : f[q] = p
      <3>1. /\ <<<<p[1], p[2]>>, p[3]>> \in Q
            /\ p = <<p[1], p[2], p[3]>>
        BY DEF Places
      <3>2. f[<<<<p[1], p[2]>>, p[3]>>] = <<p[1], p[2], p[3]>>
        BY <3>1
      <3> QED
        BY <3>1, <3>2
    <2> QED
      BY <2>1, <2>2 DEF Surjection
  <1> QED
    BY <1>3, <1>4, FS_Surjection

LEMMA FiniteWaits == IsFiniteSet(Waits) /\ Cardinality(Waits) \in Nat
  <1>1. Waits \subseteq Places
    BY DEF Waits
  <1> QED
    BY <1>1, FinitePlaces, FS_Subset, FS_CardinalityType

\* A set of places without the events E of one context.
PlacesOf(fd, k, E) == {<<fd, k, ev>> : ev \in E}
LEMMA RemoveEvents ==
    ASSUME NEW S, IsFiniteSet(S), NEW fd, NEW k, NEW E \in SUBSET Event,
           \A ev \in E : <<fd, k, ev>> \in S
    PROVE  /\ Cardinality(S \ PlacesOf(fd, k, E)) = Cardinality(S) - Cardinality(E)
           /\ Cardinality(S \ PlacesOf(fd, k, E)) \in Nat
  <1> DEFINE T == PlacesOf(fd, k, E)
             r == <<fd, k, "READ">>
             w == <<fd, k, "WRITE">>
  <1>1. r # w
    OBVIOUS
  <1> USE DEF PlacesOf
  <1>0. E = {} \/ E = {"READ"} \/ E = {"WRITE"} \/ E = {"READ"} \cup {"WRITE"}
    BY DEF Event
  <1>2. CASE E = {}
    <2>1. S \ T = S
      BY <1>2
    <2> QED
      BY <1>2, <2>1, FS_EmptySet, FS_CardinalityType
  <1>3. CASE E = {"READ"}
    <2>1. S \ T = S \ {r} /\ r \in S
      BY <1>3
    <2>2. IsFiniteSet(S \ {r}) /\ Cardinality(S \ {r}) = Cardinality(S) - 1
      BY <2>1, FS_RemoveElement
    <2>3. Cardinality(E) = 1
      BY <1>3, FS_Singleton
    <2>4. Cardinality(S \ {r}) \in Nat
      BY <2>2, FS_CardinalityType
    <2> QED
      BY <2>1, <2>2, <2>3, <2>4
  <1>4. CASE E = {"WRITE"}
    <2>1. S \ T = S \ {w} /\ w \in S
      BY <1>4
    <2>2. IsFiniteSet(S \ {w}) /\ Cardinality(S \ {w}) = Cardinality(S) - 1
      BY <2>1, FS_RemoveElement
    <2>3. Cardinality(E) = 1
      BY <1>4, FS_Singleton
    <2>4. Cardinality(S \ {w}) \in Nat
      BY <2>2, FS_CardinalityType
    <2> QED
      BY <2>1, <2>2, <2>3, <2>4
  <1>5. CASE E = {"READ"} \cup {"WRITE"}
    <2>1. S \ T = (S \ {r}) \ {w} /\ r \in S /\ w \in S \ {r}
      BY <1>1, <1>5
    <2>2. IsFiniteSet(S \ {r}) /\ Cardinality(S \ {r}) = Cardinality(S) - 1
      BY <2>1, FS_RemoveElement
    <2>3. IsFiniteSet((S \ {r}) \ {w}) /\ Cardinality((S \ {r}) \ {w}) = Cardinality(S \ {r}) - 1
      BY <2>1, <2>2, FS_RemoveElement
    <2>4. Cardinality(E) = 2
      <3>1. IsFiniteSet({"READ"}) /\ Cardinality({"READ"}) = 1
        BY FS_Singleton
      <3>2. "WRITE" \notin {"READ"}
        OBVIOUS
      <3> QED
        BY <1>5, <3>1, <3>2, FS_AddElement
    <2>5. Cardinality(S) \in Nat /\ Cardinality((S \ {r}) \ {w}) \in Nat
      BY <2>3, FS_CardinalityType
    <2> QED
      BY <2>1, <2>2, <2>3, <2>4, <2>5
  <1> QED
    BY <1>0, <1>2, <1>3, <1>4, <1>5

\* The places of a context.
LEMMA PlaceType ==
    /\ \A fd \in Fds, k \in Gens, ev \in Event : <<fd, k, ev>> \in Places
    /\ \A p \in Places : p[1] \in Fds /\ p[2] \in Gens /\ p[3] \in Event /\ p = <<p[1], p[2], p[3]>>
  BY DEF Places

\* The two halves of WaiterIffEvent, place by place.
Waited(fd, k, ev) ==
    LET c == waiter[fd][k][ev]
    IN  IF ev \in events[fd][k]
        THEN c \in Clients /\ call[c].at = "held" /\ call[c].fd = fd /\ call[c].k = k /\ call[c].ev = ev
        ELSE c = NoClient
AllWaited ==
    /\ \A fd \in Fds, k \in Gens, ev \in Event : Waited(fd, k, ev)
    /\ \A c \in Clients : call[c].at = "held" => waiter[call[c].fd][call[c].k][call[c].ev] = c
LEMMA WaiterPlaces == TypeOK => (WaiterIffEvent <=> AllWaited)
  <1> SUFFICES ASSUME TypeOK PROVE WaiterIffEvent <=> AllWaited
    OBVIOUS
  <1>1. \A fd \in Fds, k \in Gens, ev \in Event :
           /\ <<fd, k, ev>> \in Places
           /\ <<fd, k, ev>> \in Waits <=> ev \in events[fd][k]
           /\ waiter[fd][k][ev] \in Clients \cup {NoClient}
    <2> TAKE fd \in Fds, k \in Gens, ev \in Event
    <2>1. <<fd, k, ev>> \in Places
      BY PlaceType
    <2>2. <<fd, k, ev>> \in Waits <=> ev \in events[fd][k]
      BY <2>1 DEF Waits
    <2> QED
      BY <2>1, <2>2 DEF TypeOK
  <1>2. ASSUME WaiterIffEvent, NEW fd \in Fds, NEW k \in Gens, NEW ev \in Event PROVE Waited(fd, k, ev)
    <2> DEFINE p == <<fd, k, ev>>
    <2>1. p \in Places /\ p[1] = fd /\ p[2] = k /\ p[3] = ev
      BY <1>1
    <2> QED
      BY <1>1, <1>2, <2>1, TableAssumption DEF WaiterIffEvent, Waited
  <1>3. ASSUME \A fd \in Fds, k \in Gens, ev \in Event : Waited(fd, k, ev), NEW p \in Places
        PROVE  IF p \in Waits
               THEN LET c == waiter[p[1]][p[2]][p[3]]
                    IN  /\ c # NoClient
                        /\ call[c].at = "held" /\ call[c].fd = p[1] /\ call[c].k = p[2] /\ call[c].ev = p[3]
               ELSE waiter[p[1]][p[2]][p[3]] = NoClient
    <2>1. p[1] \in Fds /\ p[2] \in Gens /\ p[3] \in Event /\ p = <<p[1], p[2], p[3]>>
      BY PlaceType
    <2>2. Waited(p[1], p[2], p[3])
      BY <1>3, <2>1
    <2> QED
      BY <2>1, <2>2, <1>1, TableAssumption DEF Waited
  <1> QED
    BY <1>2, <1>3 DEF WaiterIffEvent, AllWaited

LEMMA WaiterPlacesNext == (TypeOK => (WaiterIffEvent <=> AllWaited))'
  BY WaiterPlaces, PTL

-----------------------------------------------------------------------------
\* The records of a client without a call, and of a descriptor that is not watched.
LEMMA Nobody == NoCall \in CallRec /\ Scheduled \in CallRec /\ Unwatched \in [k: 0..MaxGen, evs: SUBSET Event]
  BY TableAssumption DEF CallRec, NoCall, Scheduled, NoFd, Event, Unwatched

\* The invariant holds of an empty table.
LEMMA IOInit == Init => IInv
  <1> SUFFICES ASSUME Init PROVE IInv
    OBVIOUS
  <1>1. TypeOK
    BY Nobody, TableAssumption DEF Init, TypeOK
  <1>2. PendingExact
    <2>1. Waits = {}
      BY PlaceType DEF Init, Waits
    <2> QED
      BY <2>1, FS_EmptySet DEF Init, PendingExact
  <1>3. WaiterIffEvent
    <2>1. \A fd \in Fds, k \in Gens, ev \in Event : Waited(fd, k, ev)
      BY DEF Init, Waited
    <2>2. \A c \in Clients : call[c].at # "held"
      BY DEF Init, NoCall
    <2> QED
      BY <1>1, <2>1, <2>2, WaiterPlaces DEF AllWaited
  <1>4. Tabled /\ OneCloser /\ CallsKnow
    BY TableAssumption DEF Init, Tabled, OneCloser, CallsKnow, Knows, NoCall
  <1>5. KernelKnows /\ MaskIsContext
    BY TableAssumption DEF Init, KernelKnows, MaskIsContext, Unwatched
  <1>6. LiveIsWatched /\ ReadyIsReported
    BY DEF Init, LiveIsWatched, ReadyIsReported, Live, NoCall
  <1> QED
    BY <1>1, <1>2, <1>3, <1>4, <1>5, <1>6 DEF IInv

\* A step that touches no context keeps the waits.
LEMMA WaitsStay ==
    ASSUME TypeOK, TypeOK', PendingExact, WaiterIffEvent, UNCHANGED ctxVars,
           \A c \in Clients : call[c].at = "held" \/ call'[c].at = "held" => call'[c] = call[c]
    PROVE  PendingExact' /\ WaiterIffEvent'
  <1>1. Waits' = Waits
    BY DEF Waits
  <1>2. \A fd \in Fds, k \in Gens, ev \in Event : Waited(fd, k, ev)
    BY WaiterPlaces DEF AllWaited
  <1>3. ASSUME NEW fd \in Fds, NEW k \in Gens, NEW ev \in Event PROVE Waited(fd, k, ev)'
    BY <1>2 DEF Waited
  <1>4. ASSUME NEW c \in Clients, call'[c].at = "held" PROVE waiter'[call'[c].fd][call'[c].k][call'[c].ev] = c
    <2>1. call'[c] = call[c] /\ call[c].at = "held"
      BY <1>4
    <2> QED
      BY <2>1 DEF WaiterIffEvent
  <1> QED
    BY <1>1, <1>3, <1>4, WaiterPlacesNext DEF PendingExact, AllWaited

\* An assertion fails, or nothing happens.
LEMMA Unchanged ==
    ASSUME IInv, failed' \in {"none", "add", "context", "trigger"},
           UNCHANGED <<tableVars, ctxVars, call, batch, kernelVars>>
    PROVE  IInv'
  <1> USE DEF IInv
  <1>1. TypeOK'
    BY DEF TypeOK
  <1>2. PendingExact' /\ WaiterIffEvent'
    BY <1>1, WaitsStay
  <1>3. Tabled' /\ CallsKnow' /\ OneCloser'
    BY DEF Tabled, CallsKnow, Knows, OneCloser
  <1>4. KernelKnows' /\ MaskIsContext' /\ LiveIsWatched'
    BY DEF KernelKnows, MaskIsContext, LiveIsWatched, Kept, Live
  <1>5. ReadyIsReported'
    BY DEF ReadyIsReported, Kept, Live, IsReady
  <1> QED
    BY <1>1, <1>2, <1>3, <1>4, <1>5

\* A call begins, returns, or goes from one part to the next: only its record changes.
LEMMA CallChanges ==
    ASSUME IInv, NEW c \in Clients, NEW r \in CallRec, call' = [call EXCEPT ![c] = r],
           call[c].at # "held", r.at # "held", Knows(r),
           r.op = "close" => /\ r.conn = conn[r.fd] /\ conn[r.fd] < MaxClose
                             /\ \A d \in Clients : d # c => ~ (call[d].op = "close" /\ call[d].fd = r.fd),
           UNCHANGED <<tableVars, ctxVars, batch, kernelVars, failed>>
    PROVE  IInv'
  <1> USE DEF IInv
  <1>1. TypeOK'
    BY DEF TypeOK
  <1>2. call'[c] = r /\ \A d \in Clients : d # c => call'[d] = call[d]
    BY DEF TypeOK
  <1>3. PendingExact' /\ WaiterIffEvent'
    BY <1>1, <1>2, WaitsStay
  <1>4. Tabled' /\ CallsKnow' /\ OneCloser'
    BY <1>2 DEF Tabled, CallsKnow, Knows, OneCloser
  <1>5. KernelKnows' /\ MaskIsContext' /\ LiveIsWatched'
    BY <1>2 DEF KernelKnows, MaskIsContext, LiveIsWatched, Kept, Live
  <1>6. ReadyIsReported'
    BY <1>2 DEF ReadyIsReported, Kept, Live, IsReady
  <1> QED
    BY <1>1, <1>3, <1>4, <1>5, <1>6

\* A call ends without having changed anything.
LEMMA ReturnStep ==
    ASSUME IInv, NEW c \in Clients, call[c].at # "held", Return(c)
    PROVE  IInv'
  <1>1. call' = [call EXCEPT ![c] = NoCall]
    BY DEF Return, Finished, IInv, TypeOK
  <1>2. NoCall \in CallRec /\ NoCall.at # "held" /\ NoCall.op # "close" /\ Knows(NoCall)
    BY Nobody DEF NoCall, Knows
  <1> QED
    BY <1>1, <1>2, CallChanges DEF Return

\* A client calls.
LEMMA CallStep ==
    ASSUME IInv, NEW c \in Clients, NEW op \in Ops, NEW fd \in Fds, NEW ev \in Event, Call(c, op, fd, ev)
    PROVE  IInv'
  <1> USE DEF IInv
  <1> DEFINE r == [at |-> IF size > fd THEN "lock" ELSE IF op = "add" THEN "grow" ELSE "closefd",
                   op |-> op, fd |-> fd, ev |-> ev,
                   k |-> IF size > fd THEN gen[fd] ELSE 0, conn |-> conn[fd]]
  <1>1. /\ call[c] = NoCall /\ open[fd] /\ call' = [call EXCEPT ![c] = r]
        /\ op = "close" => conn[fd] < MaxClose /\ Calling("close", fd) = {}
        /\ size > fd \/ op \in {"add", "close"}
        /\ UNCHANGED <<tableVars, ctxVars, batch, kernelVars, failed>>
    BY DEF Call
  <1>2. gen[fd] \in 0..MaxGen /\ conn[fd] \in 0..MaxClose /\ fd \in Nat /\ size \in Nat
    BY TableAssumption DEF TypeOK
  <1>3. r \in CallRec
    BY <1>2, TableAssumption DEF CallRec
  <1>4. Knows(r)
    <2>1. size > fd => gen[fd] >= 1
      BY <1>2 DEF Tabled
    <2>2. ~ (size > fd) => fd >= 2
      BY <1>2 DEF Tabled
    <2> QED
      BY <1>1, <1>2, <2>1, <2>2 DEF Knows
  <1>5. op = "close" => \A d \in Clients : d # c => ~ (call[d].op = "close" /\ call[d].fd = fd)
    BY <1>1 DEF Calling, OneCloser
  <1>6. call[c].at # "held" /\ r.at # "held"
    BY <1>1 DEF NoCall
  <1>7. r.op = "close" => /\ r.conn = conn[r.fd] /\ conn[r.fd] < MaxClose
                          /\ \A d \in Clients : d # c => ~ (call[d].op = "close" /\ call[d].fd = r.fd)
    BY <1>1, <1>5
  <1> HIDE DEF r
  <1> QED
    BY <1>1, <1>3, <1>4, <1>6, <1>7, CallChanges

\* cancelAll() finds nothing to cancel.
LEMMA OnwardStep ==
    ASSUME IInv, NEW c \in Clients, call[c].at = "lock", Onward(c, {}),
           UNCHANGED <<tableVars, ctxVars, batch, kernelVars, failed>>
    PROVE  IInv'
  <1> USE DEF IInv
  <1>1. CASE call[c].op # "close"
    <2>1. Return(c)
      BY <1>1 DEF Onward, Return, Finished
    <2> QED
      BY <2>1, ReturnStep
  <1>2. CASE call[c].op = "close"
    <2> DEFINE r == [call[c] EXCEPT !.at = "closefd"]
    <2>1. call' = [call EXCEPT ![c] = r]
      BY <1>2 DEF Onward, TypeOK
    <2>2. call[c] \in CallRec
      BY DEF TypeOK
    <2>3. /\ r \in CallRec /\ r.at = "closefd" /\ r.op = "close" /\ r.fd = call[c].fd /\ r.conn = call[c].conn
      BY <1>2, <2>2 DEF CallRec
    <2>4. Knows(r)
      BY <1>2, <2>3 DEF Knows, CallsKnow
    <2>5. /\ r.conn = conn[r.fd] /\ conn[r.fd] < MaxClose
          /\ \A d \in Clients : d # c => ~ (call[d].op = "close" /\ call[d].fd = r.fd)
      BY <1>2, <2>3 DEF OneCloser
    <2> HIDE DEF r
    <2> QED
      BY <2>1, <2>3, <2>4, <2>5, CallChanges
  <1> QED
    BY <1>1, <1>2

\* The table is resized.
LEMMA GrowStep ==
    ASSUME IInv, NEW c \in Clients, Grow(c)
    PROVE  IInv'
  <1> USE DEF IInv
  <1> DEFINE f == call[c].fd
             n == (3 * f) \div 2
  <1>1. /\ call[c].at = "grow" /\ f \in Fds /\ f \in Nat /\ f >= 2 /\ call[c].op = "add"
        /\ UNCHANGED <<ctxVars, batch, kernelVars, failed>>
        /\ size' = n /\ size \in Nat
    BY TableAssumption DEF Grow, contextResize, CallsKnow, Knows, TypeOK
  <1>2. n \in Nat /\ n > f
    BY <1>1
  <1>3. /\ gen' \in [Fds -> 0..MaxGen]
        /\ \A fd \in Fds : gen[fd] <= gen'[fd] /\ gen[fd] \in Nat /\ gen'[fd] \in Nat
        /\ \A fd \in Fds : fd < n => gen'[fd] >= 1
    <2>1. gen' = [fd \in Fds |-> IF fd < n /\ fd >= size THEN gen[fd] + 1 ELSE gen[fd]]
      BY DEF Grow, contextResize
    <2>2. \A fd \in Fds : gen[fd] \in 0..MaxGen /\ fd \in Nat /\ (gen[fd] < MaxGen \/ fd < size)
      BY TableAssumption DEF Grow, TypeOK
    <2> QED
      BY <1>1, <1>2, <2>1, <2>2, TableAssumption DEF Tabled
  <1>4. gen'[f] \in 1..MaxGen /\ gen'[f] \in 0..MaxGen
    BY <1>1, <1>2, <1>3
  <1>5. /\ call' \in [Clients -> CallRec]
        /\ \A d \in Clients : d # c => call'[d] = call[d]
        /\ call'[c].at = "lock" /\ call'[c].op = "add" /\ call'[c].fd = f /\ call'[c].k = gen'[f]
        /\ call'[c].conn = call[c].conn
    <2>1. call[c] \in CallRec
      BY DEF TypeOK
    <2>2. [call[c] EXCEPT !.at = "lock", !.k = gen'[f]] \in CallRec
      BY <1>4, <2>1 DEF CallRec
    <2>3. call' = [call EXCEPT ![c] = [call[c] EXCEPT !.at = "lock", !.k = gen'[f]]]
      BY DEF Grow, TypeOK
    <2> QED
      BY <1>1, <2>1, <2>2, <2>3 DEF TypeOK, CallRec
  <1>6. TypeOK'
    BY <1>1, <1>2, <1>3, <1>5 DEF TypeOK
  <1>7. PendingExact' /\ WaiterIffEvent'
    BY <1>1, <1>5, <1>6, WaitsStay
  <1>8. Tabled'
    BY <1>1, <1>2, <1>3 DEF Tabled
  <1>9. CallsKnow'
    <2>1. ASSUME NEW d \in Clients, d # c PROVE Knows(call[d])'
      <3>1. Knows(call[d]) /\ call'[d] = call[d]
        BY <1>5, <2>1 DEF CallsKnow
      <3>2. call[d].at \in {"lock", "held"} => call[d].k \in 1..gen'[call[d].fd]
        BY <1>3, <3>1 DEF Knows
      <3> QED
        BY <1>1, <3>1, <3>2 DEF Knows
    <2>2. Knows(call[c])'
      BY <1>1, <1>3, <1>4, <1>5 DEF Knows, CallsKnow
    <2> QED
      BY <2>1, <2>2 DEF CallsKnow
  <1>10. OneCloser'
    BY <1>1, <1>5 DEF OneCloser
  <1>11. KernelKnows'
    <2>1. \A fd \in Fds : watch[fd].k \in Nat
      BY DEF TypeOK
    <2>2. \A t \in Pollers : \A e \in batch[t] : e.fd \in Fds /\ e.k \in Nat
      BY DEF TypeOK, Gens
    <2> QED
      BY <1>1, <1>3, <2>1, <2>2 DEF KernelKnows
  <1>12. \A fd \in Fds : gen'[fd] = 1 /\ gen[fd] # 1 => gen[fd] = 0
    BY <1>3
  <1>13. MaskIsContext'
    <2>1. \A fd \in Fds : gen[fd] = 0 => watch[fd].k = 0
      BY DEF KernelKnows, TypeOK
    <2> QED
      BY <1>1, <1>12, <2>1 DEF MaskIsContext, Kept
  <1>14. \A d \in Clients : call'[d].at = "held" => /\ call'[d] = call[d] /\ call[d].fd \in Fds
                                                    /\ gen'[call[d].fd] = 1 => gen[call[d].fd] = 1
    BY <1>5, <1>12 DEF CallsKnow, Knows
  <1>15. LiveIsWatched'
    BY <1>1, <1>14 DEF LiveIsWatched, Kept, Live
  <1>16. ReadyIsReported'
    <2>1. \A d \in Clients : Live(d)' /\ gen'[call'[d].fd] = 1 /\ IsReady(d)'
                                => call'[d] = call[d] /\ Live(d) /\ gen[call[d].fd] = 1 /\ IsReady(d)
      BY <1>1, <1>14 DEF Live, IsReady
    <2> QED
      BY <1>1, <2>1 DEF ReadyIsReported, Kept
  <1> QED
    BY <1>6, <1>7, <1>8, <1>9, <1>10, <1>11, <1>13, <1>15, <1>16

\* The descriptor is closed: epoll forgets it.
LEMMA CloseStep ==
    ASSUME IInv, NEW c \in Clients, CloseFd(c)
    PROVE  IInv'
  <1> USE DEF IInv
  <1> DEFINE f == call[c].fd
  <1>1. /\ call[c].at = "closefd" /\ f \in Fds /\ call[c].op = "close" /\ conn[f] < MaxClose /\ conn[f] \in Nat
        /\ \A d \in Clients : d # c => ~ (call[d].op = "close" /\ call[d].fd = f)
        /\ UNCHANGED <<tableVars, ctxVars, batch, failed>>
    BY DEF CloseFd, CallsKnow, Knows, OneCloser, TypeOK
  <1>2. call'[c] = NoCall /\ call' \in [Clients -> CallRec] /\ \A d \in Clients : d # c => call'[d] = call[d]
    BY Nobody DEF CloseFd, Finished, TypeOK
  <1>3. /\ open' = [open EXCEPT ![f] = FALSE] /\ conn' = [conn EXCEPT ![f] = @ + 1]
        /\ watch' = [watch EXCEPT ![f] = Unwatched] /\ level' = [level EXCEPT ![f] = {}]
        /\ edge' = edge \ {f}
    BY DEF CloseFd
  <1>4. /\ open' \in [Fds -> BOOLEAN] /\ conn' \in [Fds -> 0..MaxClose]
        /\ watch' \in [Fds -> [k: 0..MaxGen, evs: SUBSET Event]]
        /\ level' \in [Fds -> SUBSET (Event \cup {"HUP"})] /\ edge' \subseteq Fds
    <2>1. conn[f] + 1 \in 0..MaxClose
      BY <1>1, TableAssumption DEF TypeOK
    <2> QED
      BY <1>1, <1>3, <2>1, Nobody DEF TypeOK
  <1>5. TypeOK'
    BY <1>1, <1>2, <1>4 DEF TypeOK
  <1>6. PendingExact' /\ WaiterIffEvent'
    BY <1>1, <1>2, <1>5, WaitsStay DEF NoCall
  <1>7. \A fd \in Fds : /\ fd # f => conn'[fd] = conn[fd] /\ open'[fd] = open[fd] /\ watch'[fd] = watch[fd]
                                     /\ level'[fd] = level[fd]
                        /\ conn'[f] = conn[f] + 1 /\ watch'[f].k = 0 /\ watch'[f].evs = {}
    BY <1>1, <1>3 DEF TypeOK, Unwatched
  <1>8. CallsKnow'
    <2>1. ASSUME NEW d \in Clients, d # c PROVE Knows(call[d])'
      <3>1. Knows(call[d]) /\ call'[d] = call[d] /\ call[d] \in CallRec
        BY <1>2, <2>1 DEF CallsKnow, TypeOK
      <3>2. call[d].at \in {"grow", "lock", "held", "closefd"} =>
              /\ call[d].fd \in Fds /\ call[d].conn <= conn'[call[d].fd]
              /\ call[d].conn = conn'[call[d].fd] => open'[call[d].fd]
        <4>1. call[d].conn \in Nat
          BY <3>1 DEF CallRec
        <4> QED
          BY <1>1, <1>7, <3>1, <4>1 DEF Knows
      <3> QED
        BY <1>1, <3>1, <3>2 DEF Knows
    <2>2. Knows(NoCall)'
      BY DEF Knows, NoCall
    <2> QED
      BY <1>2, <2>1, <2>2 DEF CallsKnow
  <1>9. OneCloser'
    <2>1. \A d \in Clients : call'[d].op = "close" => call'[d] = call[d] /\ d # c
      BY <1>2 DEF NoCall
    <2>2. \A d \in Clients : call[d].op = "close" => call[d].fd \in Fds
      <3> SUFFICES ASSUME NEW d \in Clients, call[d].op = "close" PROVE call[d].fd \in Fds
        OBVIOUS
      <3>1. call[d] \in CallRec /\ Knows(call[d])
        BY DEF CallsKnow, TypeOK
      <3>2. NoCall.op # "close" /\ Scheduled.op # "close"
        BY DEF NoCall, Scheduled
      <3> QED
        BY <3>1, <3>2 DEF Knows, CallRec
    <2> QED
      BY <1>1, <1>7, <2>1, <2>2 DEF OneCloser
  <1>10. Tabled' /\ KernelKnows'
    <2>1. 0 <= gen[f]
      BY <1>1 DEF TypeOK
    <2>2. ASSUME NEW fd \in Fds
          PROVE  watch'[fd].k <= gen[fd] /\ (watch'[fd].k = 0 <=> watch'[fd].evs = {}) /\ (fd \in edge' => watch'[fd].k # 0)
      <3>1. CASE fd = f
        BY <1>1, <1>3, <1>7, <2>1, <3>1
      <3>2. CASE fd # f
        BY <1>3, <1>7, <3>2 DEF KernelKnows
      <3> QED
        BY <3>1, <3>2
    <2>3. Tabled'
      BY <1>1 DEF Tabled
    <2> QED
      BY <1>1, <2>2, <2>3 DEF KernelKnows
  <1>11. MaskIsContext'
    BY <1>1, <1>7 DEF MaskIsContext, Kept
  <1>12. \A d \in Clients : Live(d)' => call'[d] = call[d] /\ call[d].fd \in Fds /\ call[d].fd # f /\ Live(d)
    <2> SUFFICES ASSUME NEW d \in Clients, Live(d)'
                 PROVE  call'[d] = call[d] /\ call[d].fd \in Fds /\ call[d].fd # f /\ Live(d)
      OBVIOUS
    <2>1. d # c /\ call'[d] = call[d] /\ call[d].at = "held"
      BY <1>2 DEF Live, NoCall
    <2>2. call[d].fd \in Fds /\ call[d].conn <= conn[call[d].fd] /\ call[d].conn \in Nat
      BY <2>1 DEF CallsKnow, Knows, TypeOK, CallRec
    <2> QED
      BY <1>1, <1>7, <2>1, <2>2 DEF Live
  <1>13. LiveIsWatched'
    BY <1>1, <1>7, <1>12 DEF LiveIsWatched, Kept
  <1>14. ReadyIsReported'
    BY <1>1, <1>3, <1>7, <1>12 DEF ReadyIsReported, Kept, IsReady
  <1> QED
    BY <1>5, <1>6, <1>8, <1>9, <1>10, <1>11, <1>13, <1>14

-----------------------------------------------------------------------------
\* Who waits is in the context that he found, and the event is set.
LEMMA HeldIsSet ==
    ASSUME IInv, NEW c \in Clients, call[c].at = "held"
    PROVE  /\ call[c].fd \in Fds /\ call[c].k \in Gens /\ call[c].ev \in Event
           /\ call[c].ev \in events[call[c].fd][call[c].k]
           /\ waiter[call[c].fd][call[c].k][call[c].ev] = c
           /\ Kept(call[c].fd) => call[c].k = 1
  <1> USE DEF IInv
  <1>1. /\ call[c].fd \in Fds /\ call[c].k \in Gens /\ call[c].ev \in Event
        /\ Kept(call[c].fd) => call[c].k = 1
    <2>1. call[c] \in CallRec /\ call[c].fd \in Fds /\ call[c].k \in 1..gen[call[c].fd]
      BY DEF CallsKnow, Knows, TypeOK
    <2>2. gen[call[c].fd] \in 0..MaxGen
      BY <2>1 DEF TypeOK
    <2> QED
      BY <2>1, <2>2, TableAssumption DEF CallRec, Gens, Kept
  <1>2. waiter[call[c].fd][call[c].k][call[c].ev] = c
    BY DEF WaiterIffEvent
  <1>3. Waited(call[c].fd, call[c].k, call[c].ev)
    BY <1>1, WaiterPlaces DEF AllWaited
  <1> QED
    BY <1>1, <1>2, <1>3, TableAssumption DEF Waited

\* Data, room or a hang-up arrives, is consumed, or the number is given out again.
LEMMA KernelStep ==
    ASSUME IInv, NEW f \in Fds, Kernel(f)
    PROVE  IInv'
  <1> USE DEF IInv
  <1>1. UNCHANGED <<tableVars, ctxVars, call, batch, watch, conn, failed>>
    BY DEF Kernel, Arrive, Drain, Reopen
  <1>2. TypeOK'
    <2>1. CASE \E l \in Event \cup {"HUP"} : Arrive(f, l)
      BY <1>1, <2>1 DEF Arrive, TypeOK
    <2>2. CASE \E l \in Event : Drain(f, l)
      BY <1>1, <2>2 DEF Drain, TypeOK
    <2>3. CASE Reopen(f)
      BY <1>1, <2>3 DEF Reopen, TypeOK
    <2> QED
      BY <2>1, <2>2, <2>3 DEF Kernel
  <1>3. PendingExact' /\ WaiterIffEvent'
    BY <1>1, <1>2, WaitsStay
  <1>4. Tabled' /\ OneCloser' /\ MaskIsContext'
    BY <1>1 DEF Tabled, OneCloser, MaskIsContext, Kept
  <1>5. /\ \A fd \in Fds : open[fd] => open'[fd]
        /\ \A fd \in Fds : open'[fd] # open[fd] => \A c \in Clients : call[c].at = "held" /\ call[c].fd = fd
                                                                        => call[c].conn # conn[fd]
        /\ edge \subseteq edge' /\ \A fd \in edge' : fd \in edge \/ watch[fd].k # 0
    <2>1. CASE \E l \in Event \cup {"HUP"} : Arrive(f, l)
      BY <2>1 DEF Arrive
    <2>2. CASE \E l \in Event : Drain(f, l)
      BY <2>2 DEF Drain
    <2>3. CASE Reopen(f)
      BY <2>3 DEF Reopen, TypeOK, CallsKnow, Knows
    <2> QED
      BY <2>1, <2>2, <2>3 DEF Kernel
  <1>6. CallsKnow' /\ KernelKnows'
    BY <1>1, <1>5 DEF CallsKnow, Knows, KernelKnows
  <1>7. \A c \in Clients : Live(c)' => Live(c) /\ call[c].fd \in Fds
    <2> SUFFICES ASSUME NEW c \in Clients, Live(c)' PROVE Live(c) /\ call[c].fd \in Fds
      OBVIOUS
    <2>1. call[c].fd \in Fds
      BY <1>1 DEF Live, CallsKnow, Knows
    <2>2. open[call[c].fd] \in BOOLEAN /\ open'[call[c].fd] \in BOOLEAN
      BY <1>2, <2>1 DEF TypeOK
    <2> QED
      BY <1>1, <1>5, <2>1, <2>2 DEF Live
  <1>8. LiveIsWatched'
    BY <1>1, <1>7 DEF LiveIsWatched, Kept
  <1>9. ReadyIsReported'
    <2> SUFFICES ASSUME NEW c \in Clients, Live(c)', Kept(call[c].fd), IsReady(c)'
                 PROVE  \/ call[c].fd \in edge'
                        \/ \E t \in Pollers : \E e \in batch[t] :
                              e.fd = call[c].fd /\ e.k = call[c].k /\ {call[c].ev, "HUP"} \cap e.evs # {}
      BY <1>1 DEF ReadyIsReported, Kept
    <2>1. Live(c) /\ call[c].fd \in Fds
      BY <1>7
    <2>2. CASE IsReady(c)
      BY <1>5, <2>1, <2>2 DEF ReadyIsReported
    <2>3. CASE ~ IsReady(c)
      <3>1. PICK l \in Event \cup {"HUP"} : Arrive(f, l)
        <4>1. ASSUME NEW l \in Event, Drain(f, l) PROVE FALSE
          <5>1. level'[call[c].fd] \subseteq level[call[c].fd]
            BY <2>1, <4>1 DEF Drain, TypeOK
          <5> QED
            BY <1>1, <2>3, <5>1 DEF IsReady
        <4>2. CASE Reopen(f)
          BY <1>1, <2>3, <4>2 DEF Reopen, IsReady
        <4> QED
          BY <4>1, <4>2 DEF Kernel
      <3>2. f = call[c].fd /\ l \in {call[c].ev, "HUP"}
        BY <1>1, <2>1, <2>3, <3>1 DEF Arrive, IsReady, TypeOK
      <3>3. watch[f].k = 1 /\ watch[f].evs = events[f][1]
        BY <2>1, <3>2 DEF LiveIsWatched, MaskIsContext
      <3>4. call[c].ev \in events[f][1]
        BY <2>1, <3>2, HeldIsSet DEF Live
      <3> QED
        BY <3>1, <3>2, <3>3, <3>4 DEF Arrive
    <2> QED
      BY <2>2, <2>3
  <1> QED
    BY <1>2, <1>3, <1>4, <1>6, <1>8, <1>9

\* epoll_wait() hands out what is on the ready list.
LEMMA EpollWaitStep ==
    ASSUME IInv, NEW t \in Pollers, epoll_wait(t)
    PROVE  IInv'
  <1> USE DEF IInv
  <1>1. PICK S \in SUBSET edge :
           /\ edge' = edge \ S
           /\ batch' = [batch EXCEPT ![t] =
                {e \in {[fd |-> fd, k |-> watch[fd].k, evs |-> Reported(fd, watch[fd].evs)] : fd \in S} :
                    e.evs # {}}]
    BY DEF epoll_wait
  <1>2. batch[t] = {} /\ UNCHANGED <<tableVars, ctxVars, call, watch, level, open, conn, failed>>
    BY DEF epoll_wait
  <1>3. \A fd \in S : fd \in Fds /\ watch[fd].k \in Gens /\ watch[fd].k <= gen[fd]
                      /\ Reported(fd, watch[fd].evs) \in SUBSET (Event \cup {"HUP"})
    BY DEF TypeOK, KernelKnows, Reported, Gens
  <1>4. /\ batch' \in [Pollers -> SUBSET [fd: Fds, k: Gens, evs: SUBSET (Event \cup {"HUP"})]]
        /\ \A u \in Pollers : u # t => batch'[u] = batch[u]
        /\ \A e \in batch'[t] : e.k <= gen[e.fd]
        /\ \A fd \in S : Reported(fd, watch[fd].evs) # {} =>
              [fd |-> fd, k |-> watch[fd].k, evs |-> Reported(fd, watch[fd].evs)] \in batch'[t]
    <2> DEFINE B == {e \in {[fd |-> fd, k |-> watch[fd].k, evs |-> Reported(fd, watch[fd].evs)] : fd \in S} :
                        e.evs # {}}
    <2>1. B \subseteq [fd: Fds, k: Gens, evs: SUBSET (Event \cup {"HUP"})] /\ \A e \in B : e.k <= gen[e.fd]
      BY <1>3
    <2>2. batch'[t] = B /\ \A u \in Pollers : u # t => batch'[u] = batch[u]
      BY <1>1 DEF TypeOK
    <2>3. batch' \in [Pollers -> SUBSET [fd: Fds, k: Gens, evs: SUBSET (Event \cup {"HUP"})]]
      BY <1>1, <2>1 DEF TypeOK
    <2> QED
      BY <2>1, <2>2, <2>3
  <1>5. TypeOK'
    BY <1>1, <1>2, <1>4 DEF TypeOK
  <1>6. PendingExact' /\ WaiterIffEvent'
    BY <1>2, <1>5, WaitsStay
  <1>7. Tabled' /\ CallsKnow' /\ OneCloser' /\ MaskIsContext' /\ LiveIsWatched'
    BY <1>2 DEF Tabled, CallsKnow, Knows, OneCloser, MaskIsContext, LiveIsWatched, Kept, Live
  <1>8. KernelKnows'
    BY <1>1, <1>2, <1>4 DEF KernelKnows
  <1>9. ReadyIsReported'
    <2> SUFFICES ASSUME NEW c \in Clients, Live(c), Kept(call[c].fd), IsReady(c)
                 PROVE  \/ call[c].fd \in edge'
                        \/ \E u \in Pollers : \E e \in batch'[u] :
                              e.fd = call[c].fd /\ e.k = call[c].k /\ {call[c].ev, "HUP"} \cap e.evs # {}
      BY <1>2 DEF ReadyIsReported, Kept, Live, IsReady
    <2>1. CASE call[c].fd \in edge
      <3> DEFINE f == call[c].fd
                 e == [fd |-> f, k |-> watch[f].k, evs |-> Reported(f, watch[f].evs)]
      <3>1. CASE f \notin S
        BY <1>1, <2>1, <3>1
      <3>2. CASE f \in S
        <4>1. f \in Fds /\ call[c].k = 1 /\ call[c].ev \in events[f][1]
          BY HeldIsSet DEF Live
        <4>2. watch[f].k = 1 /\ watch[f].evs = events[f][1]
          BY <4>1 DEF LiveIsWatched, MaskIsContext
        <4>3. {call[c].ev, "HUP"} \cap Reported(f, watch[f].evs) # {}
          BY <4>1, <4>2 DEF IsReady, Reported
        <4>4. e \in batch'[t]
          BY <1>4, <3>2, <4>3
        <4> QED
          BY <4>1, <4>2, <4>3, <4>4
      <3> QED
        BY <3>1, <3>2
    <2>2. CASE call[c].fd \notin edge
      <3>1. PICK u \in Pollers : \E e \in batch[u] :
               e.fd = call[c].fd /\ e.k = call[c].k /\ {call[c].ev, "HUP"} \cap e.evs # {}
        BY <2>2 DEF ReadyIsReported
      <3>2. u # t
        BY <1>2, <3>1
      <3> QED
        BY <1>4, <3>1, <3>2
    <2> QED
      BY <2>1, <2>2
  <1> QED
    BY <1>5, <1>6, <1>7, <1>8, <1>9

-----------------------------------------------------------------------------
\* What epoll_ctl() leaves of a registration.
LEMMA Registered ==
    ASSUME TypeOK, NEW fd \in Fds, NEW k \in Gens, NEW evs \in SUBSET Event, epoll_ctl(fd, k, evs)
    PROVE  /\ watch' \in [Fds -> [k: 0..MaxGen, evs: SUBSET Event]] /\ edge' \subseteq Fds
           /\ UNCHANGED <<level, open, conn>>
           /\ \A f \in Fds : f # fd => watch'[f] = watch[f] /\ (f \in edge' <=> f \in edge)
           /\ evs = {} => watch'[fd].k = 0 /\ watch'[fd].evs = {} /\ fd \notin edge'
           /\ evs # {} => /\ watch'[fd].k = k /\ watch'[fd].evs = evs /\ (fd \in edge => fd \in edge')
                          /\ level[fd] \cap (evs \cup {"HUP"}) # {} => fd \in edge'
  <1>1. [k |-> k, evs |-> evs] \in [k: 0..MaxGen, evs: SUBSET Event]
    BY DEF Gens
  <1>2. watch' = [watch EXCEPT ![fd] = IF evs = {} THEN Unwatched ELSE [k |-> k, evs |-> evs]]
    BY DEF epoll_ctl
  <1>3. CASE evs = {}
    BY <1>2, <1>3, Nobody DEF epoll_ctl, TypeOK, Unwatched
  <1>4. CASE evs # {}
    BY <1>1, <1>2, <1>4 DEF epoll_ctl, TypeOK, Reported
  <1> QED
    BY <1>3, <1>4

\* Events that are set are taken off a context and their waiters woken or
\* forgotten, by whoever holds the context's mutex.
LEMMA SettleStep ==
    ASSUME IInv, NEW fd \in Fds, NEW k \in Gens, k <= gen[fd], NEW E \in SUBSET Event, E \subseteq events[fd][k],
           epoll_ctl(fd, k, events[fd][k] \ E), Settle(fd, k, E), UNCHANGED <<tableVars, failed>>,
           \A d \in Clients :
              \/ d \notin WaitersOf(fd, k, E) /\ call'[d] = call[d]
              \/ (d \in WaitersOf(fd, k, E) \/ call[d].at = "lock") /\ call'[d] \in {NoCall, Scheduled}
              \/ call[d].at = "lock" /\ call[d].op = "close" /\ call'[d] = [call[d] EXCEPT !.at = "closefd"],
           call' = [d \in Clients |-> call'[d]],
           batch' \in [Pollers -> SUBSET [fd: Fds, k: Gens, evs: SUBSET (Event \cup {"HUP"})]],
           \A u \in Pollers : batch'[u] \subseteq batch[u],
           \A u \in Pollers : \A e \in batch[u] : e \notin batch'[u] =>
              /\ e.fd = fd /\ e.k = k
              /\ \A ev \in events[fd][k] : {ev, "HUP"} \cap e.evs # {} => ev \in E
    PROVE  IInv'
  <1> USE DEF IInv
  <1> DEFINE W == WaitersOf(fd, k, E)
             left == events[fd][k] \ E
  <1>1. /\ watch' \in [Fds -> [k: 0..MaxGen, evs: SUBSET Event]] /\ edge' \subseteq Fds
        /\ UNCHANGED <<level, open, conn>>
        /\ \A f \in Fds : f # fd => watch'[f] = watch[f] /\ (f \in edge' <=> f \in edge)
        /\ left = {} => watch'[fd].k = 0 /\ watch'[fd].evs = {} /\ fd \notin edge'
        /\ left # {} => watch'[fd].k = k /\ watch'[fd].evs = left /\ (fd \in edge => fd \in edge')
    <2>1. left \in SUBSET Event
      BY DEF TypeOK
    <2>2. TypeOK /\ epoll_ctl(fd, k, left)
      OBVIOUS
    <2> HIDE DEF left, IInv
    <2> QED
      BY <2>1, <2>2, Registered
  <1>2. /\ events' \in [Fds -> [Gens -> SUBSET Event]]
        /\ events'[fd][k] = left
        /\ \A f \in Fds, j \in Gens : f # fd \/ j # k => events'[f][j] = events[f][j]
    BY DEF Settle, TypeOK
  <1>3. /\ waiter' \in [Fds -> [Gens -> [Event -> Clients \cup {NoClient}]]]
        /\ \A f \in Fds, j \in Gens, ev \in Event :
              waiter'[f][j][ev] = IF f = fd /\ j = k /\ ev \in E THEN NoClient ELSE waiter[f][j][ev]
    BY DEF Settle, Emptied, TypeOK
  <1>4. \A d \in Clients : d \in W <=> /\ call[d].at = "held" /\ call[d].fd = fd /\ call[d].k = k
                                       /\ call[d].ev \in E
    <2>1. \A ev \in E : Waited(fd, k, ev) /\ ev \in events[fd][k]
      BY WaiterPlaces DEF AllWaited
    <2>2. \A d \in Clients : call[d].at = "held" => waiter[call[d].fd][call[d].k][call[d].ev] = d
      BY WaiterPlaces DEF AllWaited
    <2> QED
      BY <2>1, <2>2 DEF Waited, WaitersOf
  <1>5. /\ call' \in [Clients -> CallRec]
        /\ \A d \in Clients : call'[d].at \notin {"idle", "scheduled", "closefd"} => call'[d] = call[d] /\ d \notin W
        /\ \A d \in Clients : call'[d].at = "closefd" =>
              \/ call'[d] = call[d]
              \/ /\ call[d].at = "lock" /\ call[d].op = "close" /\ call'[d].op = "close"
                 /\ call'[d].fd = call[d].fd /\ call'[d].conn = call[d].conn
        /\ \A d \in Clients : /\ call'[d].at = "idle" => call'[d] = NoCall
                              /\ call'[d].at = "scheduled" => call'[d] = Scheduled
    <2>1. ASSUME NEW d \in Clients
          PROVE  /\ call'[d] \in CallRec
                 /\ call'[d].at \notin {"idle", "scheduled", "closefd"} => call'[d] = call[d] /\ d \notin W
                 /\ call'[d].at = "closefd" =>
                       \/ call'[d] = call[d]
                       \/ /\ call[d].at = "lock" /\ call[d].op = "close" /\ call'[d].op = "close"
                          /\ call'[d].fd = call[d].fd /\ call'[d].conn = call[d].conn
                 /\ call'[d].at = "idle" => call'[d] = NoCall
                 /\ call'[d].at = "scheduled" => call'[d] = Scheduled
      <3>1. call[d] \in CallRec /\ Knows(call[d])
        BY DEF TypeOK, CallsKnow
      <3>2. NoCall.at = "idle" /\ Scheduled.at = "scheduled"
        BY DEF NoCall, Scheduled
      <3>3. CASE d \notin W /\ call'[d] = call[d]
        BY <3>1, <3>3 DEF Knows
      <3>4. CASE call'[d] \in {NoCall, Scheduled}
        BY <3>2, <3>4, Nobody
      <3>5. CASE call[d].at = "lock" /\ call[d].op = "close" /\ call'[d] = [call[d] EXCEPT !.at = "closefd"]
        BY <3>1, <3>5 DEF CallRec
      <3> QED
        BY <3>3, <3>4, <3>5
    <2> QED
      BY <2>1
  <1>6. PendingExact' /\ m_pendingEventCount' \in Nat
    <2>1. Waits' = Waits \ PlacesOf(fd, k, E)
      <3>1. ASSUME NEW p \in Places
            PROVE  p[3] \in events'[p[1]][p[2]] <=> p[3] \in events[p[1]][p[2]] /\ p \notin PlacesOf(fd, k, E)
        BY <1>2, PlaceType DEF PlacesOf
      <3> QED
        BY <3>1 DEF Waits
    <2>2. \A ev \in E : <<fd, k, ev>> \in Waits
      BY PlaceType DEF Waits
    <2>3. m_pendingEventCount' = Cardinality(Waits) - Cardinality(E)
      BY DEF PendingExact, Settle
    <2>4. /\ Cardinality(Waits \ PlacesOf(fd, k, E)) = Cardinality(Waits) - Cardinality(E)
          /\ Cardinality(Waits \ PlacesOf(fd, k, E)) \in Nat
      BY <2>2, FiniteWaits, RemoveEvents
    <2> QED
      BY <2>1, <2>3, <2>4 DEF PendingExact
  <1>7. TypeOK'
    BY <1>1, <1>2, <1>3, <1>5, <1>6 DEF TypeOK
  <1>8. WaiterIffEvent'
    <2>1. ASSUME NEW f \in Fds, NEW j \in Gens, NEW ev \in Event PROVE Waited(f, j, ev)'
      <3>1. Waited(f, j, ev)
        BY WaiterPlaces DEF AllWaited
      <3>2. CASE f = fd /\ j = k /\ ev \in E
        BY <1>2, <1>3, <3>2 DEF Waited
      <3>3. CASE ~ (f = fd /\ j = k /\ ev \in E)
        <4>1. waiter'[f][j][ev] = waiter[f][j][ev] /\ (ev \in events'[f][j] <=> ev \in events[f][j])
          BY <1>2, <1>3, <3>3
        <4>2. CASE ev \in events[f][j]
          <5> DEFINE d == waiter[f][j][ev]
          <5>1. d \in Clients /\ call[d].at = "held" /\ call[d].fd = f /\ call[d].k = j /\ call[d].ev = ev
            BY <3>1, <4>2 DEF Waited
          <5>2. d \notin W
            BY <1>4, <3>3, <5>1
          <5>3. call'[d] = call[d]
            BY <5>1, <5>2
          <5> QED
            BY <4>1, <4>2, <5>1, <5>3 DEF Waited
        <4>3. CASE ev \notin events[f][j]
          BY <3>1, <4>1, <4>3 DEF Waited
        <4> QED
          BY <4>2, <4>3
      <3> QED
        BY <3>2, <3>3
    <2>2. ASSUME NEW d \in Clients, call'[d].at = "held" PROVE waiter'[call'[d].fd][call'[d].k][call'[d].ev] = d
      <3>1. call'[d] = call[d] /\ d \notin W
        BY <1>5, <2>2
      <3>2. /\ call[d].at = "held" /\ call[d].fd \in Fds /\ call[d].k \in Gens /\ call[d].ev \in Event
            /\ waiter[call[d].fd][call[d].k][call[d].ev] = d
        BY <2>2, <3>1, HeldIsSet
      <3>3. ~ (call[d].fd = fd /\ call[d].k = k /\ call[d].ev \in E)
        BY <1>4, <3>1, <3>2
      <3> QED
        BY <1>3, <3>1, <3>2, <3>3
    <2> QED
      BY <1>7, <2>1, <2>2, WaiterPlacesNext DEF AllWaited
  <1>9. Tabled' /\ CallsKnow' /\ OneCloser'
    <2>1. Tabled'
      BY DEF Tabled
    <2>2. ASSUME NEW d \in Clients PROVE Knows(call[d])'
      BY <1>1, <1>5 DEF CallsKnow, Knows
    <2>3. \A d \in Clients : call'[d].op = "close" =>
             call[d].op = "close" /\ call'[d].fd = call[d].fd /\ call'[d].conn = call[d].conn
      BY <1>5 DEF NoCall, Scheduled, CallRec
    <2> QED
      BY <1>1, <2>1, <2>2, <2>3 DEF CallsKnow, OneCloser
  <1>10. KernelKnows'
    <2>1. ASSUME NEW f \in Fds
          PROVE  watch'[f].k <= gen[f] /\ (watch'[f].k = 0 <=> watch'[f].evs = {}) /\ (f \in edge' => watch'[f].k # 0)
      <3>1. k # 0 /\ 0 <= gen[fd]
        BY DEF Gens, TypeOK
      <3> QED
        BY <1>1, <3>1 DEF KernelKnows
    <2> QED
      BY <2>1 DEF KernelKnows
  <1>11. gen[fd] = 1 => k = 1
    BY DEF Gens, TypeOK
  <1>12. MaskIsContext'
    <2>1. \A f \in Fds : gen[f] = 1 => 1 \in Gens
      BY TableAssumption DEF Gens
    <2> SUFFICES ASSUME NEW f \in Fds, gen[f] = 1, watch'[f].k # 0
                 PROVE  watch'[f].k = 1 /\ watch'[f].evs = events'[f][1]
      BY DEF MaskIsContext, Kept
    <2>2. CASE f = fd
      BY <1>1, <1>2, <1>11, <2>2
    <2>3. CASE f # fd
      BY <1>1, <1>2, <2>1, <2>3 DEF MaskIsContext, Kept
    <2> QED
      BY <2>2, <2>3
  <1>13. ASSUME NEW d \in Clients, Live(d)', Kept(call'[d].fd)
         PROVE  /\ call'[d] = call[d] /\ d \notin W /\ call[d].fd \in Fds /\ Live(d)
                /\ call[d].fd = fd => call[d].k = k /\ call[d].ev \in left
    <2>1. call'[d] = call[d] /\ d \notin W /\ call[d].at = "held"
      BY <1>5, <1>13 DEF Live
    <2>2. call[d].fd \in Fds /\ call[d].ev \in events[call[d].fd][call[d].k] /\ call[d].k = 1
      BY <1>13, <2>1, HeldIsSet
    <2> QED
      BY <1>1, <1>4, <1>11, <1>13, <2>1, <2>2 DEF Live, Kept
  <1>14. LiveIsWatched'
    <2> SUFFICES ASSUME NEW d \in Clients, Live(d)', Kept(call'[d].fd) PROVE watch'[call'[d].fd].k # 0
      BY DEF LiveIsWatched, Kept
    <2>1. k # 0
      BY DEF Gens
    <2> QED
      BY <1>1, <1>13, <2>1 DEF LiveIsWatched
  <1>15. ReadyIsReported'
    <2> SUFFICES ASSUME NEW d \in Clients, Live(d)', Kept(call'[d].fd), IsReady(d)'
                 PROVE  \/ call[d].fd \in edge'
                        \/ \E u \in Pollers : \E e \in batch'[u] :
                              e.fd = call[d].fd /\ e.k = call[d].k /\ {call[d].ev, "HUP"} \cap e.evs # {}
      BY <1>13 DEF ReadyIsReported, Kept
    <2>1. /\ call'[d] = call[d] /\ d \notin W /\ call[d].fd \in Fds /\ Live(d)
          /\ call[d].fd = fd => call[d].k = k /\ call[d].ev \in left
      BY <1>13
    <2>2. IsReady(d)
      BY <1>1, <2>1 DEF IsReady
    <2>3. CASE call[d].fd \in edge
      BY <1>1, <2>1, <2>3
    <2>4. ASSUME NEW u \in Pollers, NEW e \in batch[u], e.fd = call[d].fd, e.k = call[d].k,
                 {call[d].ev, "HUP"} \cap e.evs # {}
          PROVE  e \in batch'[u]
      <3> SUFFICES ASSUME e \notin batch'[u] PROVE FALSE
        OBVIOUS
      <3>1. call[d].fd = fd /\ call[d].k = k /\ call[d].ev \in E
        BY <2>1, <2>4
      <3> QED
        BY <2>1, <3>1
    <2> QED
      BY <2>1, <2>2, <2>3, <2>4 DEF ReadyIsReported
  <1> QED
    BY <1>6, <1>7, <1>8, <1>9, <1>10, <1>12, <1>14, <1>15

\* delEvent(), cancelEvent() and cancelAll().
LEMMA TakeOffStep ==
    ASSUME IInv, NEW c \in Clients, delEvent(c) \/ cancelEvent(c) \/ cancelAll(c)
    PROVE  IInv'
  <1> USE DEF IInv
  <1> DEFINE fd == call[c].fd
             k == call[c].k
             ev == call[c].ev
  <1>1. /\ call[c].at = "lock" /\ call[c] \in CallRec /\ fd \in Fds /\ k \in 1..gen[fd] /\ gen[fd] \in 0..MaxGen
        /\ ev \in Event
    BY DEF delEvent, cancelEvent, cancelAll, CallsKnow, Knows, TypeOK, CallRec
  <1>2. k \in Gens /\ k <= gen[fd] /\ events[fd][k] \subseteq Event
    <2>1. k \in Gens /\ k <= gen[fd]
      BY <1>1, TableAssumption DEF Gens
    <2> QED
      BY <1>1, <2>1 DEF TypeOK
  <1>3. ASSUME NEW what \in {NoCall, Scheduled}, TakeOff(c, what) PROVE IInv'
    <2>1. CASE ev \notin events[fd][k] \/ CtlFails(fd, FALSE)
      BY <1>1, <1>3, <2>1, ReturnStep DEF TakeOff
    <2>2. CASE ~ (ev \notin events[fd][k] \/ CtlFails(fd, FALSE))
      <3>1. /\ epoll_ctl(fd, k, events[fd][k] \ {ev}) /\ Settle(fd, k, {ev})
            /\ call' = [d \in Clients |-> IF d = c THEN NoCall ELSE IF d \in WaitersOf(fd, k, {ev}) THEN what ELSE call[d]]
            /\ UNCHANGED <<tableVars, batch, failed>>
        BY <1>3, <2>2 DEF TakeOff, Finished
      <3>2. \A d \in Clients :
               \/ d \notin WaitersOf(fd, k, {ev}) /\ call'[d] = call[d]
               \/ (d \in WaitersOf(fd, k, {ev}) \/ call[d].at = "lock") /\ call'[d] \in {NoCall, Scheduled}
        BY <1>1, <3>1
      <3>3. batch' \in [Pollers -> SUBSET [fd: Fds, k: Gens, evs: SUBSET (Event \cup {"HUP"})]]
        BY <3>1 DEF TypeOK
      <3>4. {ev} \in SUBSET Event /\ {ev} \subseteq events[fd][k] /\ call' = [d \in Clients |-> call'[d]]
        BY <1>1, <2>2, <3>1
      <3> HIDE DEF fd, k, ev, IInv
      <3> QED
        BY <1>1, <1>2, <3>1, <3>2, <3>3, <3>4, SettleStep
    <2> QED
      BY <2>1, <2>2
  <1>4. CASE delEvent(c) \/ cancelEvent(c)
    BY <1>3, <1>4 DEF delEvent, cancelEvent
  <1>5. CASE cancelAll(c)
    <2>1. CASE events[fd][k] = {} \/ CtlFails(fd, FALSE)
      BY <1>1, <1>5, <2>1, OnwardStep DEF cancelAll
    <2>2. CASE ~ (events[fd][k] = {} \/ CtlFails(fd, FALSE))
      <3> DEFINE E == events[fd][k]
      <3>1. /\ epoll_ctl(fd, k, {}) /\ Settle(fd, k, E) /\ Onward(c, WaitersOf(fd, k, E))
            /\ UNCHANGED <<tableVars, batch, failed>>
        BY <1>5, <2>2 DEF cancelAll
      <3>2. \A d \in Clients :
               \/ d \notin WaitersOf(fd, k, E) /\ call'[d] = call[d]
               \/ (d \in WaitersOf(fd, k, E) \/ call[d].at = "lock") /\ call'[d] \in {NoCall, Scheduled}
               \/ call[d].at = "lock" /\ call[d].op = "close" /\ call'[d] = [call[d] EXCEPT !.at = "closefd"]
        BY <1>1, <3>1 DEF Onward
      <3>3. batch' \in [Pollers -> SUBSET [fd: Fds, k: Gens, evs: SUBSET (Event \cup {"HUP"})]]
        BY <3>1 DEF TypeOK
      <3>4. E \in SUBSET Event /\ events[fd][k] \ E = {}
        BY <1>2
      <3>5. call' = [d \in Clients |-> call'[d]]
        BY <3>1 DEF Onward
      <3>6. epoll_ctl(fd, k, events[fd][k] \ E) /\ E \subseteq events[fd][k]
        BY <3>1, <3>4
      <3> HIDE DEF fd, k, E, IInv
      <3> QED
        BY <1>1, <1>2, <3>1, <3>2, <3>3, <3>4, <3>5, <3>6, SettleStep
    <2> QED
      BY <2>1, <2>2
  <1> QED
    BY <1>4, <1>5

\* One event of a poller's batch is dispatched.
LEMMA DispatchStep ==
    ASSUME IInv, NEW t \in Pollers, Dispatch(t)
    PROVE  IInv'
  <1> USE DEF IInv
  <1>1. PICK e \in batch[t] :
           IF RealEvents(e) \cap events[e.fd][e.k] = {} \/ CtlFails(e.fd, FALSE)
           THEN /\ batch' = [batch EXCEPT ![t] = @ \ {e}]
                /\ UNCHANGED <<tableVars, ctxVars, call, kernelVars, failed>>
           ELSE IF ~ (RealEvents(e) \subseteq events[e.fd][e.k]) THEN Abort("trigger")
           ELSE /\ batch' = [batch EXCEPT ![t] = @ \ {e}]
                /\ epoll_ctl(e.fd, e.k, LeftEvents(e))
                /\ Settle(e.fd, e.k, RealEvents(e))
                /\ call' = [c \in Clients |-> IF c \in WaitersOf(e.fd, e.k, RealEvents(e))
                                              THEN Scheduled ELSE call[c]]
                /\ UNCHANGED <<tableVars, failed>>
    BY DEF Dispatch
  <1> DEFINE fd == e.fd
             k == e.k
             E == RealEvents(e)
  <1>2. fd \in Fds /\ k \in Gens /\ k <= gen[fd] /\ events[fd][k] \subseteq Event /\ E \subseteq Event
    BY DEF TypeOK, KernelKnows, RealEvents
  <1>3. \A ev \in events[fd][k] : {ev, "HUP"} \cap e.evs # {} => ev \in E
    BY <1>2 DEF RealEvents
  <1>4. CASE E \cap events[fd][k] # {} /\ ~ CtlFails(fd, FALSE) /\ ~ (E \subseteq events[fd][k])
    <2>1. Abort("trigger")
      BY <1>1, <1>4
    <2> QED
      BY <2>1, Unchanged DEF Abort
  <1>5. ASSUME batch' = [batch EXCEPT ![t] = @ \ {e}]
        PROVE  /\ batch' \in [Pollers -> SUBSET [fd: Fds, k: Gens, evs: SUBSET (Event \cup {"HUP"})]]
               /\ \A u \in Pollers : batch'[u] \subseteq batch[u]
               /\ \A u \in Pollers : \A x \in batch[u] : x \notin batch'[u] => x = e
    BY <1>5 DEF TypeOK
  <1>6. CASE E \cap events[fd][k] # {} /\ ~ CtlFails(fd, FALSE) /\ E \subseteq events[fd][k]
    <2>1. /\ epoll_ctl(fd, k, events[fd][k] \ E) /\ Settle(fd, k, E)
          /\ call' = [c \in Clients |-> IF c \in WaitersOf(fd, k, E) THEN Scheduled ELSE call[c]]
          /\ UNCHANGED <<tableVars, failed>> /\ batch' = [batch EXCEPT ![t] = @ \ {e}]
      BY <1>1, <1>6 DEF LeftEvents
    <2>2. \A d \in Clients :
             \/ d \notin WaitersOf(fd, k, E) /\ call'[d] = call[d]
             \/ (d \in WaitersOf(fd, k, E) \/ call[d].at = "lock") /\ call'[d] \in {NoCall, Scheduled}
      BY <2>1
    <2>3. \A u \in Pollers : \A x \in batch[u] : x \notin batch'[u] =>
              /\ x.fd = fd /\ x.k = k
              /\ \A ev \in events[fd][k] : {ev, "HUP"} \cap x.evs # {} => ev \in E
      BY <1>3, <1>5, <2>1
    <2>4. /\ batch' \in [Pollers -> SUBSET [fd: Fds, k: Gens, evs: SUBSET (Event \cup {"HUP"})]]
          /\ \A u \in Pollers : batch'[u] \subseteq batch[u]
      BY <1>5, <2>1
    <2>5. call' = [d \in Clients |-> call'[d]]
      BY <2>1
    <2> HIDE DEF fd, k, E, IInv
    <2> QED
      BY <1>2, <1>6, <2>1, <2>2, <2>3, <2>4, <2>5, SettleStep
  <1>7. CASE E \cap events[fd][k] = {} \/ CtlFails(fd, FALSE)
    <2>1. batch' = [batch EXCEPT ![t] = @ \ {e}] /\ UNCHANGED <<tableVars, ctxVars, call, kernelVars, failed>>
      BY <1>1, <1>7
    <2>2. TypeOK'
      BY <1>5, <2>1 DEF TypeOK
    <2>3. PendingExact' /\ WaiterIffEvent'
      BY <2>1, <2>2, WaitsStay
    <2>4. Tabled' /\ CallsKnow' /\ OneCloser' /\ MaskIsContext' /\ LiveIsWatched'
      BY <2>1 DEF Tabled, CallsKnow, Knows, OneCloser, MaskIsContext, LiveIsWatched, Kept, Live
    <2>5. KernelKnows'
      BY <1>5, <2>1 DEF KernelKnows
    <2>6. ReadyIsReported'
      <3> SUFFICES ASSUME NEW c \in Clients, Live(c), Kept(call[c].fd), IsReady(c)
                   PROVE  \/ call[c].fd \in edge
                          \/ \E u \in Pollers : \E x \in batch'[u] :
                                x.fd = call[c].fd /\ x.k = call[c].k /\ {call[c].ev, "HUP"} \cap x.evs # {}
        BY <2>1 DEF ReadyIsReported, Kept, Live, IsReady
      <3>1. ASSUME fd = call[c].fd, k = call[c].k, {call[c].ev, "HUP"} \cap e.evs # {} PROVE FALSE
        <4>1. call[c].ev \in events[fd][k] /\ call[c].fd \in Fds
          BY <3>1, HeldIsSet DEF Live
        <4>2. call[c].ev \in E
          BY <1>3, <3>1, <4>1
        <4>3. CtlFails(fd, FALSE)
          BY <1>7, <4>1, <4>2
        <4>4. open[fd] /\ watch[fd].k # 0
          BY <3>1 DEF Live, LiveIsWatched
        <4> QED
          BY <4>3, <4>4 DEF CtlFails
      <3> QED
        BY <1>5, <2>1, <3>1 DEF ReadyIsReported
    <2> QED
      BY <2>2, <2>3, <2>4, <2>5, <2>6
  <1> QED
    BY <1>4, <1>6, <1>7

\* addEvent() under the context's mutex.
LEMMA AddStep ==
    ASSUME IInv, NEW c \in Clients, addEvent(c)
    PROVE  IInv'
  <1> USE DEF IInv
  <1> DEFINE fd == call[c].fd
             k == call[c].k
             ev == call[c].ev
             mask == events[fd][k] \cup {ev}
  <1>1. /\ call[c].at = "lock" /\ call[c].op = "add" /\ call[c] \in CallRec /\ fd \in Fds
        /\ k \in 1..gen[fd] /\ gen[fd] \in 0..MaxGen /\ ev \in Event
    BY DEF addEvent, CallsKnow, Knows, TypeOK, CallRec
  <1>2. k \in Gens /\ k <= gen[fd] /\ events[fd][k] \subseteq Event /\ mask \in SUBSET Event /\ k # 0
    <2>1. k \in Gens /\ k <= gen[fd] /\ k # 0
      BY <1>1, TableAssumption DEF Gens
    <2> QED
      BY <1>1, <2>1 DEF TypeOK
  <1>3. CASE Abort("add") \/ Abort("context")
    BY <1>3, Unchanged DEF Abort
  <1>4. CASE Return(c)
    BY <1>1, <1>4, ReturnStep
  <1>5. CASE /\ ev \notin events[fd][k] /\ ~ CtlFails(fd, events[fd][k] = {}) /\ waiter[fd][k][ev] = NoClient
             /\ epoll_ctl(fd, k, mask)
             /\ m_pendingEventCount' = m_pendingEventCount + 1
             /\ events' = [events EXCEPT ![fd][k] = @ \cup {ev}]
             /\ waiter' = [waiter EXCEPT ![fd][k][ev] = c]
             /\ call' = [call EXCEPT ![c].at = "held"]
             /\ UNCHANGED <<tableVars, batch, failed>>
    <2>1. /\ watch' \in [Fds -> [k: 0..MaxGen, evs: SUBSET Event]] /\ edge' \subseteq Fds
          /\ UNCHANGED <<level, open, conn>>
          /\ \A f \in Fds : f # fd => watch'[f] = watch[f] /\ (f \in edge' <=> f \in edge)
          /\ watch'[fd].k = k /\ watch'[fd].evs = mask /\ (fd \in edge => fd \in edge')
          /\ level[fd] \cap (mask \cup {"HUP"}) # {} => fd \in edge'
      <3>1. TypeOK /\ mask # {} /\ epoll_ctl(fd, k, mask)
        BY <1>5
      <3> HIDE DEF fd, k, mask, IInv
      <3> QED
        BY <1>1, <1>2, <3>1, Registered
    <2>2. /\ events' \in [Fds -> [Gens -> SUBSET Event]] /\ events'[fd][k] = mask
          /\ \A f \in Fds, j \in Gens : f # fd \/ j # k => events'[f][j] = events[f][j]
      BY <1>1, <1>2, <1>5 DEF TypeOK
    <2>3. /\ waiter' \in [Fds -> [Gens -> [Event -> Clients \cup {NoClient}]]]
          /\ \A f \in Fds, j \in Gens, x \in Event :
                waiter'[f][j][x] = IF f = fd /\ j = k /\ x = ev THEN c ELSE waiter[f][j][x]
      BY <1>1, <1>2, <1>5 DEF TypeOK
    <2>4. /\ call' \in [Clients -> CallRec] /\ \A d \in Clients : d # c => call'[d] = call[d]
          /\ call'[c].at = "held" /\ call'[c].op = "add" /\ call'[c].fd = fd /\ call'[c].k = k /\ call'[c].ev = ev
          /\ call'[c].conn = call[c].conn
      <3>1. [call[c] EXCEPT !.at = "held"] \in CallRec
        BY <1>1 DEF CallRec
      <3>2. call' = [call EXCEPT ![c] = [call[c] EXCEPT !.at = "held"]]
        BY <1>5 DEF TypeOK
      <3> QED
        BY <1>1, <3>1, <3>2 DEF TypeOK, CallRec
    <2>5. PendingExact' /\ m_pendingEventCount' \in Nat
      <3>1. <<fd, k, ev>> \in Places /\ <<fd, k, ev>> \notin Waits
        BY <1>1, <1>2, <1>5, PlaceType DEF Waits
      <3>2. Waits' = Waits \cup {<<fd, k, ev>>}
        <4>1. ASSUME NEW p \in Places
              PROVE  p[3] \in events'[p[1]][p[2]] <=> p[3] \in events[p[1]][p[2]] \/ p = <<fd, k, ev>>
          BY <2>2, PlaceType
        <4> QED
          BY <3>1, <4>1 DEF Waits
      <3>3. Cardinality(Waits') = Cardinality(Waits) + 1 /\ Cardinality(Waits) \in Nat
        BY <3>1, <3>2, FiniteWaits, FS_AddElement
      <3> QED
        BY <1>5, <3>3 DEF PendingExact
    <2>6. TypeOK'
      BY <1>5, <2>1, <2>2, <2>3, <2>4, <2>5 DEF TypeOK
    <2>7. WaiterIffEvent'
      <3>1. ASSUME NEW f \in Fds, NEW j \in Gens, NEW x \in Event PROVE Waited(f, j, x)'
        <4>1. Waited(f, j, x)
          BY WaiterPlaces DEF AllWaited
        <4>2. CASE f = fd /\ j = k /\ x = ev
          BY <2>2, <2>3, <2>4, <4>2 DEF Waited
        <4>3. CASE ~ (f = fd /\ j = k /\ x = ev)
          <5>1. waiter'[f][j][x] = waiter[f][j][x] /\ (x \in events'[f][j] <=> x \in events[f][j])
            BY <2>2, <2>3, <4>3
          <5>2. waiter[f][j][x] \in Clients /\ call[waiter[f][j][x]].at = "held" => waiter[f][j][x] # c
            BY <1>1
          <5> QED
            BY <2>4, <4>1, <5>1, <5>2 DEF Waited
        <4> QED
          BY <4>2, <4>3
      <3>2. ASSUME NEW d \in Clients, call'[d].at = "held" PROVE waiter'[call'[d].fd][call'[d].k][call'[d].ev] = d
        <4>1. CASE d = c
          BY <1>1, <1>2, <2>3, <2>4, <4>1
        <4>2. CASE d # c
          <5>1. call'[d] = call[d] /\ call[d].at = "held"
            BY <2>4, <3>2, <4>2
          <5>2. /\ call[d].fd \in Fds /\ call[d].k \in Gens /\ call[d].ev \in Event
                /\ waiter[call[d].fd][call[d].k][call[d].ev] = d
                /\ call[d].ev \in events[call[d].fd][call[d].k]
            BY <5>1, HeldIsSet
          <5>3. ~ (call[d].fd = fd /\ call[d].k = k /\ call[d].ev = ev)
            BY <1>5, <5>2
          <5> QED
            BY <2>3, <5>1, <5>2, <5>3
        <4> QED
          BY <4>1, <4>2
      <3> QED
        BY <2>6, <3>1, <3>2, WaiterPlacesNext DEF AllWaited
    <2>8. Tabled' /\ CallsKnow' /\ OneCloser'
      <3>1. Tabled'
        BY <1>5 DEF Tabled
      <3>2. ASSUME NEW d \in Clients PROVE Knows(call[d])'
        BY <1>1, <1>5, <2>1, <2>4 DEF CallsKnow, Knows
      <3> QED
        BY <1>1, <2>1, <2>4, <3>1, <3>2 DEF CallsKnow, OneCloser
    <2>9. KernelKnows'
      <3>1. ASSUME NEW f \in Fds
            PROVE  watch'[f].k <= gen[f] /\ (watch'[f].k = 0 <=> watch'[f].evs = {}) /\ (f \in edge' => watch'[f].k # 0)
        BY <1>2, <2>1 DEF KernelKnows
      <3> QED
        BY <1>5, <3>1 DEF KernelKnows
    <2>10. MaskIsContext'
      <3> SUFFICES ASSUME NEW f \in Fds, gen[f] = 1, watch'[f].k # 0
                   PROVE  watch'[f].k = 1 /\ watch'[f].evs = events'[f][1]
        BY <1>5 DEF MaskIsContext, Kept
      <3>1. CASE f = fd
        <4>1. k = 1
          BY <1>1, <3>1
        <4> QED
          BY <2>1, <2>2, <3>1, <4>1
      <3>2. CASE f # fd
        <4>1. 1 \in Gens
          BY TableAssumption DEF Gens
        <4> QED
          BY <2>1, <2>2, <3>2, <4>1 DEF MaskIsContext, Kept
      <3> QED
        BY <3>1, <3>2
    <2>11. \A d \in Clients : d # c /\ Live(d)' => Live(d) /\ call'[d] = call[d] /\ call[d].fd \in Fds
      BY <2>1, <2>4 DEF Live, CallsKnow, Knows
    <2>12. LiveIsWatched'
      BY <1>1, <1>2, <1>5, <2>1, <2>4, <2>11 DEF LiveIsWatched, Kept
    <2>13. ReadyIsReported'
      <3> SUFFICES ASSUME NEW d \in Clients, Live(d)', gen[call'[d].fd] = 1, IsReady(d)'
                   PROVE  \/ call'[d].fd \in edge'
                          \/ \E u \in Pollers : \E e \in batch[u] :
                                e.fd = call'[d].fd /\ e.k = call'[d].k /\ {call'[d].ev, "HUP"} \cap e.evs # {}
        BY <1>5 DEF ReadyIsReported, Kept
      <3>1. CASE d = c
        BY <2>1, <2>4, <3>1 DEF IsReady
      <3>2. CASE d # c
        <4>1. Live(d) /\ call'[d] = call[d] /\ call[d].fd \in Fds /\ Kept(call[d].fd) /\ IsReady(d)
          BY <1>5, <2>1, <2>11, <3>2 DEF Kept, IsReady
        <4>2. call[d].fd \in edge => call[d].fd \in edge'
          BY <2>1, <4>1
        <4> QED
          BY <4>1, <4>2 DEF ReadyIsReported
      <3> QED
        BY <3>1, <3>2
    <2> QED
      BY <2>5, <2>6, <2>7, <2>8, <2>9, <2>10, <2>12, <2>13
  <1> QED
    BY <1>3, <1>4, <1>5 DEF addEvent, AddMask

-----------------------------------------------------------------------------
\* The invariant is inductive.
LEMMA IOStep ==
    ASSUME IInv, [Next]_vars
    PROVE  IInv'
  <1>1. CASE UNCHANGED vars
    BY <1>1, Unchanged DEF IInv, TypeOK
  <1>2. ASSUME NEW fd \in Fds, Kernel(fd) PROVE IInv'
    BY <1>2, KernelStep
  <1>3. ASSUME NEW c \in Clients, NEW op \in Ops, NEW fd \in Fds, NEW ev \in Event, Call(c, op, fd, ev) PROVE IInv'
    BY <1>3, CallStep
  <1>4. ASSUME NEW c \in Clients, ClientStep(c) PROVE IInv'
    <2>1. CASE Resume(c)
      <3>1. call[c].at = "scheduled" /\ Return(c)
        BY <2>1 DEF Resume, Scheduled, NoCall
      <3> QED
        BY <3>1, ReturnStep
    <2> QED
      BY <1>4, <2>1, GrowStep, AddStep, TakeOffStep, CloseStep DEF ClientStep
  <1>5. ASSUME NEW t \in Pollers, PollerStep(t) PROVE IInv'
    BY <1>5, EpollWaitStep, DispatchStep DEF PollerStep
  <1> QED
    BY <1>1, <1>2, <1>3, <1>4, <1>5 DEF Next, Over

\* The inductive invariant holds throughout.
LEMMA IOInv == Spec => []IInv
  BY IOInit, IOStep, PTL DEF Spec

\* Type correctness: the count never falls below zero, a call finds a context at
\* its place whatever the table was resized to, and epoll never hands out a
\* descriptor without one.
THEOREM IOTypeCorrect == Spec => []TypeOK
  BY IOInv, PTL DEF IInv

\* m_pendingEventCount, on which stopping() decides, is the number of events
\* waited for, through every mixture of add, delete, cancel, close and dispatch.
THEOREM IOPendingExact == Spec => []PendingExact
  BY IOInv, PTL DEF IInv

\* An event is set exactly while its EventContext names the one client that waits
\* for it: triggerEvent() wakes nobody twice, and forgets nobody.
THEOREM IOWaiters == Spec => []WaiterIffEvent
  BY IOInv, PTL DEF IInv

\* While a descriptor keeps its context, epoll's mask for it is the context's own.
THEOREM IOKernelWatches == Spec => []KernelWatches
  <1>1. IInv => KernelWatches
    <2> SUFFICES ASSUME IInv, NEW c \in Clients, Live(c), Kept(call[c].fd)
                 PROVE  watch[call[c].fd].k = call[c].k /\ watch[call[c].fd].evs = events[call[c].fd][call[c].k]
      BY DEF KernelWatches
    <2>1. call[c].fd \in Fds /\ call[c].k = 1
      BY HeldIsSet DEF Live
    <2> QED
      BY <2>1 DEF IInv, MaskIsContext, LiveIsWatched
  <1> QED
    BY <1>1, IOInv, PTL

\* With EPOLLET no edge is lost between epoll_wait(), the batches and re-arming:
\* what a waiting client's connection is ready for is on its way to him.
THEOREM IOReadyIsReported == Spec => []ReadyIsReported
  BY IOInv, PTL DEF IInv

\* addEvent()'s assertion that the EventContext it is about to fill is empty.
ContextAssertion == failed # "context"

\* SYLAR_ASSERT(!event_ctx.scheduler && !event_ctx.fiber && !event_ctx.cb) never
\* fails: whoever took the event off the context has emptied it.
THEOREM IOContextAssertion == Spec => []ContextAssertion
  <1>1. Init => ContextAssertion
    BY DEF Init, ContextAssertion
  <1>2. ASSUME IInv, ContextAssertion, [Next]_vars PROVE ContextAssertion'
    <2> USE DEF ContextAssertion
    <2>1. CASE UNCHANGED failed
      BY <1>2, <2>1
    <2>2. ASSUME NEW c \in Clients, addEvent(c) PROVE failed' # "context"
      <3>1. call[c].fd \in Fds /\ call[c].k \in Gens /\ call[c].ev \in Event
        <4>1. call[c].fd \in Fds /\ call[c].k \in 1..gen[call[c].fd] /\ call[c].ev \in Event
          BY <1>2, <2>2 DEF addEvent, IInv, CallsKnow, Knows, TypeOK, CallRec
        <4>2. gen[call[c].fd] \in 0..MaxGen
          BY <1>2, <4>1 DEF IInv, TypeOK
        <4> QED
          BY <4>1, <4>2, TableAssumption DEF Gens
      <3>2. Waited(call[c].fd, call[c].k, call[c].ev)
        BY <1>2, <3>1, WaiterPlaces DEF IInv, AllWaited
      <3> QED
        BY <1>2, <2>2, <3>2 DEF addEvent, Waited, Abort, Return
    <2>3. ASSUME NEW t \in Pollers, Dispatch(t) PROVE failed' # "context"
      BY <1>2, <2>3 DEF Dispatch, Abort
    <2>4. ASSUME NEW c \in Clients, ClientStep(c) PROVE failed' # "context"
      BY <1>2, <2>2, <2>4 DEF ClientStep, Grow, delEvent, cancelEvent, TakeOff, cancelAll, CloseFd, Resume, Return
    <2>5. ASSUME NEW fd \in Fds, Kernel(fd) PROVE failed' # "context"
      BY <1>2, <2>5 DEF Kernel, Arrive, Drain, Reopen
    <2>6. ASSUME NEW c \in Clients, NEW op \in Ops, NEW fd \in Fds, NEW ev \in Event, Call(c, op, fd, ev)
          PROVE  failed' # "context"
      BY <1>2, <2>6 DEF Call
    <2>7. ASSUME NEW t \in Pollers, epoll_wait(t) PROVE failed' # "context"
      BY <1>2, <2>7 DEF epoll_wait
    <2> QED
      BY <1>2, <2>1, <2>3, <2>4, <2>5, <2>6, <2>7 DEF Next, PollerStep, Over
  <1> QED
    BY <1>1, <1>2, IOInv, PTL DEF Spec

=============================================================================
