---------------------------- MODULE LoggerProofs ----------------------------
(***************************************************************************)
(* Proofs about modules Config and Logger, for every number of setters,    *)
(* listeners and writers, every document and every change of "logs".       *)
(***************************************************************************)
EXTENDS Logger, SequenceTheorems, FiniteSetTheorems, FunctionTheorems, WellFoundedInduction, TLAPS

(***************************************************************************)
(* The inductive invariant of the variable.  ListenersTold speaks of the   *)
(* moments at which no change is in progress; between them it has to say   *)
(* how far the one setter has got: who it has still to tell while it holds *)
(* the read lock, and that it has told everyone when it has released it.   *)
(***************************************************************************)
Vals == {Default} \cup {Cast(doc) : doc \in {doc \in Docs : ~ Throws(doc)}}

ConfigType ==
    /\ set \in [Setters -> [at: {"idle", "loop", "call", "write"}, val: Vals, todo: SUBSET Keys]]
    /\ told \in [Keys -> Vals]
    /\ m_val \in Vals
    /\ m_cbs \subseteq Keys
    /\ s_fun_id \in Keys

\* Unless two calls of setValue() have met, one setter at most is under way.
OneSetter ==
    ~ overlapped => \A s, r \in Setters : set[s].at # "idle" /\ set[r].at # "idle" => s = r

\* The listeners a setter has told so far, and all of them behind its loop.
Telling ==
    ~ overlapped => \A s \in Setters :
        /\ set[s].at \in {"loop", "call"} => \A l \in m_cbs \ set[s].todo : told[l] = set[s].val
        /\ set[s].at = "write" => \A l \in m_cbs \ late : told[l] = set[s].val

TellInv == ConfigType /\ OneSetter /\ Telling /\ ListenersTold

\* setValue() begins.
LEMMA TellSet ==
    ASSUME TellInv, NEW s \in Setters, NEW val \in Vals, setValue(s, val)
    PROVE  TellInv'
  <1> USE DEF TellInv, ConfigType
  <1>1. /\ UNCHANGED <<m_val, m_cbs, s_fun_id, told, late>>
        /\ set'[s] = [at |-> "loop", val |-> val, todo |-> m_cbs]
        /\ \A r \in Setters \ {s} : set'[r] = set[r]
        /\ set[s].at = "idle" /\ set'[s].at = "loop" /\ set'[s].todo = m_cbs
        /\ ~ overlapped' => ~ overlapped /\ \A r \in Setters : set[r].at = "idle"
    BY DEF setValue
  <1>2. ConfigType'
    <2>1. set'[s] \in [at: {"idle", "loop", "call", "write"}, val: Vals, todo: SUBSET Keys]
      BY <1>1
    <2>2. set' = [set EXCEPT ![s] = set'[s]]
      BY <1>1 DEF setValue
    <2> QED
      BY <1>1, <2>1, <2>2
  <1>3. OneSetter' /\ Telling'
    BY <1>1 DEF OneSetter, Telling
  <1>4. ListenersTold'
    BY <1>1 DEF ListenersTold, Quiet
  <1> QED
    BY <1>2, <1>3, <1>4

\* A listener is told.
LEMMA TellListener ==
    ASSUME TellInv, NEW s \in Setters, NEW l \in Keys, CallListener(s, l)
    PROVE  TellInv'
  <1> USE DEF TellInv, ConfigType
  <1>1. /\ UNCHANGED <<m_val, m_cbs, s_fun_id, overlapped>>
        /\ set[s].at = "loop" /\ set'[s].at = "call" /\ set'[s].val = set[s].val
        /\ set'[s].todo = set[s].todo \ {l} /\ l \in set[s].todo
        /\ \A r \in Setters \ {s} : set'[r] = set[r]
        /\ told'[l] = set[s].val /\ \A k \in Keys \ {l} : told'[k] = told[k]
        /\ late' \subseteq late
    BY DEF CallListener
  <1>2. ConfigType'
    BY <1>1 DEF CallListener
  <1>3. OneSetter'
    BY <1>1 DEF OneSetter
  <1>4. Telling'
    <2> SUFFICES ASSUME ~ overlapped PROVE Telling'
      BY <1>1 DEF Telling
    <2>1. \A r \in Setters \ {s} : set[r].at = "idle"
      BY <1>1 DEF OneSetter
    <2>2. \A k \in m_cbs \ set'[s].todo : told'[k] = set[s].val
      BY <1>1 DEF Telling
    <2> QED
      BY <1>1, <2>1, <2>2 DEF Telling
  <1>5. ListenersTold'
    BY <1>1 DEF ListenersTold, Quiet
  <1> QED
    BY <1>2, <1>3, <1>4, <1>5

\* A listener returns, and the read lock is released.
LEMMA TellReturn ==
    ASSUME TellInv, NEW s \in Setters, ListenerReturns(s) \/ EndLoop(s)
    PROVE  TellInv'
  <1> USE DEF TellInv, ConfigType
  <1>1. /\ UNCHANGED <<m_val, m_cbs, s_fun_id, told, late, overlapped>>
        /\ \/ set[s].at = "call" /\ set'[s].at = "loop"
           \/ set[s].at = "loop" /\ set'[s].at = "write" /\ set[s].todo = {}
        /\ set'[s].val = set[s].val /\ set'[s].todo = set[s].todo
        /\ \A r \in Setters \ {s} : set'[r] = set[r]
    BY DEF ListenerReturns, EndLoop
  <1>2. ConfigType'
    BY DEF ListenerReturns, EndLoop
  <1>3. OneSetter' /\ Telling'
    BY <1>1 DEF OneSetter, Telling
  <1>4. ListenersTold'
    BY <1>1 DEF ListenersTold, Quiet
  <1> QED
    BY <1>2, <1>3, <1>4

\* The value is written: it is the one the listeners know.
LEMMA TellWrite ==
    ASSUME TellInv, NEW s \in Setters, WriteValue(s)
    PROVE  TellInv'
  <1> USE DEF TellInv, ConfigType
  <1>1. /\ UNCHANGED <<m_cbs, s_fun_id, told, late, overlapped>>
        /\ m_val' = set[s].val
        /\ set[s].at = "write" /\ set'[s] = Idle /\ set'[s].at = "idle"
        /\ \A r \in Setters \ {s} : set'[r] = set[r]
    BY DEF WriteValue, Idle
  <1>2. ConfigType'
    <2>1. Idle \in [at: {"idle", "loop", "call", "write"}, val: Vals, todo: SUBSET Keys]
      BY DEF Idle, Vals
    <2> QED
      BY <1>1, <2>1 DEF WriteValue
  <1>3. OneSetter' /\ Telling'
    BY <1>1 DEF OneSetter, Telling
  <1>4. ListenersTold'
    BY <1>1 DEF ListenersTold, Telling
  <1> QED
    BY <1>2, <1>3, <1>4

\* A listener is added or deleted, while nobody holds the read lock.
LEMMA TellAdd ==
    ASSUME TellInv, addListener \/ \E l \in Keys : delListener(l)
    PROVE  TellInv'
  <1> USE DEF TellInv, ConfigType
  <1>1. CASE addListener
    <2> DEFINE n == s_fun_id + 1
    <2>0. n \in Keys /\ s_fun_id' = n
      BY <1>1, ConfigAssumption DEF addListener, AddListener, Keys
    <2> HIDE DEF n
    <2>1. /\ m_cbs' = m_cbs \cup {n}
          /\ told' = [told EXCEPT ![n] = m_val]
          /\ (\E s \in Setters : set[s].at = "write") => late' = late \cup {n}
          /\ ~ (\E s \in Setters : set[s].at = "write") => late' = late
          /\ UNCHANGED <<m_val, set, overlapped>>
          /\ NoReader
      BY <1>1, <2>0 DEF addListener, AddListener
    <2>2. ConfigType'
      BY <2>0, <2>1
    <2>3. OneSetter' /\ Telling'
      BY <2>0, <2>1 DEF OneSetter, Telling, NoReader
    <2>4. ListenersTold'
      BY <2>0, <2>1 DEF ListenersTold, Quiet
    <2> QED
      BY <2>2, <2>3, <2>4
  <1>2. CASE \E l \in Keys : delListener(l)
    <2>1. /\ UNCHANGED <<m_val, s_fun_id, set, told, late, overlapped>>
          /\ m_cbs' \subseteq m_cbs /\ NoReader
      BY <1>2 DEF delListener
    <2>2. ConfigType'
      BY <2>1
    <2>3. OneSetter' /\ Telling' /\ ListenersTold'
      BY <2>1 DEF OneSetter, Telling, NoReader, ListenersTold, Quiet
    <2> QED
      BY <2>2, <2>3
  <1> QED
    BY <1>1, <1>2

\* TellInv is inductive.
LEMMA TellNext == TellInv /\ [Next]_vars => TellInv'
  <1> SUFFICES ASSUME TellInv, [Next]_vars PROVE TellInv'
    OBVIOUS
  <1>1. CASE UNCHANGED configVars
    BY <1>1 DEF configVars, TellInv, ConfigType, OneSetter, Telling, ListenersTold, Quiet
  <1>2. ASSUME NEW s \in Setters, SetterStep(s) PROVE TellInv'
    <2>1. CASE \E doc \in Docs : fromString(s, doc)
      BY <2>1, TellSet DEF fromString, Vals
    <2>2. CASE onChange(s)
      <3>1. 1 \in Keys
        BY ConfigAssumption DEF Keys
      <3> QED
        BY <2>2, <3>1, TellListener DEF onChange
    <2>3. CASE Reconfigure(s) \/ \E d \in job[s].new \cup job[s].old : SetLevel(s, d)
      BY <1>1, <2>3 DEF Reconfigure, Call, SetLevel
    <2>4. CASE \E l \in Keys \ {1} : CallListener(s, l)
      BY <2>4, TellListener
    <2>5. CASE ListenerReturns(s) \/ EndLoop(s)
      BY <2>5, TellReturn
    <2>6. CASE WriteValue(s)
      BY <2>6, TellWrite
    <2> QED
      BY <1>2, <2>1, <2>2, <2>3, <2>4, <2>5, <2>6 DEF SetterStep
  <1>3. ASSUME NEW w \in Writers, WriterStep(w) PROVE TellInv'
    BY <1>1, <1>3 DEF WriterStep, LogEvent, LogCheck, LogWrite, LogRootCheck, LogRootWrite
  <1>4. ASSUME NEW name \in UserNames, UserStep(name) PROVE TellInv'
    BY <1>1, <1>4 DEF UserStep
  <1>5. CASE ListenerStep
    BY <1>5, TellAdd DEF ListenerStep
  <1>6. CASE UNCHANGED vars
    BY <1>1, <1>6 DEF vars
  <1> QED
    BY <1>2, <1>3, <1>4, <1>5, <1>6 DEF Next

LEMMA TellStart == Init => TellInv
  BY ConfigAssumption DEF Init, ConfigInit, TellInv, ConfigType, OneSetter, Telling, ListenersTold,
     Idle, Keys, Vals

\* When no change is in progress every listener knows the variable's value, for
\* any number of setters and listeners, although setValue() tells them under one
\* lock and writes under another; unless two calls of setValue() met.
THEOREM ConfigListenersTold == Spec => []ListenersTold
  BY TellStart, TellNext, PTL DEF Spec, TellInv

-----------------------------------------------------------------------------
(* Loggers, appenders and defines *)

IsSeq(s) == Len(s) \in Nat /\ s = [i \in 1..Len(s) |-> s[i]]

IsAppender(a) ==
    /\ a = [type |-> a.type, level |-> a.level, formatter |-> a.formatter, hasFormatter |-> a.hasFormatter]
    /\ a.formatter # Absent /\ ~ isError(a.formatter)

IsLogger(lg) ==
    /\ lg = [level |-> lg.level, formatter |-> lg.formatter, appenders |-> lg.appenders]
    /\ lg.level \in Nat
    /\ lg.formatter # Absent /\ ~ isError(lg.formatter)
    /\ IsSeq(lg.appenders) /\ \A i \in 1..Len(lg.appenders) : IsAppender(lg.appenders[i])

IsDefine(d) ==
    /\ d.name \in Names \ UserNames
    /\ d.level \in Nat
    /\ d.formatter # <<>> => d.formatter # Absent
    /\ Len(d.appenders) \in Nat /\ DOMAIN d.appenders = 1..Len(d.appenders)
    /\ d.appenders = <<>> <=> Len(d.appenders) = 0
    /\ \A i \in DOMAIN d.appenders : d.appenders[i].formatter # <<>> => d.appenders[i].formatter # Absent

\* A sequence is one of its own elements, and push_back makes a longer one.
LEMMA SeqOfItself == ASSUME NEW s, IsSeq(s) PROVE s \in Seq({s[i] : i \in 1..Len(s)})
  <1>1. \A i \in 1..Len(s) : s[i] \in {s[k] : k \in 1..Len(s)}
    OBVIOUS
  <1>2. [i \in 1..Len(s) |-> s[i]] \in Seq({s[k] : k \in 1..Len(s)})
    BY <1>1, IsASeq DEF IsSeq
  <1> QED
    BY <1>2 DEF IsSeq

LEMMA FunctionIsSeq ==
    ASSUME NEW k \in Nat, NEW s, DOMAIN s = 1..k, s = [i \in 1..k |-> s[i]]
    PROVE  IsSeq(s) /\ Len(s) = k
  <1>1. \A i \in 1..k : s[i] \in {s[n] : n \in 1..k}
    OBVIOUS
  <1>2. [i \in 1..k |-> s[i]] \in Seq({s[n] : n \in 1..k})
    BY <1>1, IsASeq
  <1>3. s \in Seq({s[n] : n \in 1..k})
    BY <1>2
  <1>4. Len(s) \in Nat /\ DOMAIN s = 1..Len(s)
    BY <1>3, LenProperties
  <1>5. Len(s) = k
    BY <1>4
  <1> QED
    BY <1>5 DEF IsSeq

LEMMA SeqAppended ==
    ASSUME NEW s, IsSeq(s), NEW a
    PROVE  /\ IsSeq(Append(s, a)) /\ Len(Append(s, a)) = Len(s) + 1
           /\ \A i \in 1..Len(s) : Append(s, a)[i] = s[i]
           /\ Append(s, a)[Len(s) + 1] = a
           /\ Append(s, a) # <<>>
  <1> DEFINE S == {s[i] : i \in 1..Len(s)} \cup {a}
             t == Append(s, a)
  <1>1. s \in Seq(S) /\ a \in S
    <2>2. \A i \in 1..Len(s) : s[i] \in S
      OBVIOUS
    <2>3. [i \in 1..Len(s) |-> s[i]] \in Seq(S)
      BY <2>2, IsASeq DEF IsSeq
    <2> QED
      BY <2>3 DEF IsSeq
  <1> HIDE DEF S
  <1>2. /\ t \in Seq(S) /\ Len(t) = Len(s) + 1
        /\ \A i \in 1..Len(s) : t[i] = s[i]
        /\ t[Len(s) + 1] = a
        /\ t # <<>>
    BY <1>1, AppendProperties
  <1>3. t = [i \in 1..Len(t) |-> t[i]] /\ Len(t) \in Nat
    BY <1>2, LenProperties
  <1> QED
    BY <1>2, <1>3 DEF IsSeq

LEMMA EmptyIsSeq == IsSeq(<<>>) /\ Len(<<>>) = 0
  BY DEF IsSeq

\* An empty sequence has length zero, and no other has.
LEMMA SeqEmpty == ASSUME NEW s, IsSeq(s) PROVE s = <<>> <=> Len(s) = 0
  BY SeqOfItself, EmptySeq

\* The operations on a logger keep it one.
LEMMA NewLoggerFacts == IsLogger(NewLogger) /\ NewLogger.appenders = <<>> /\ NewLogger.level # Removed
  BY LoggerAssumption, EmptyIsSeq DEF NewLogger, IsLogger, DEBUG, Removed

LEMMA AppenderFacts ==
    ASSUME NEW t, NEW l, NEW f, NEW lg, IsLogger(lg), f = Absent \/ ~ isError(f)
    PROVE  /\ IsAppender(Adopt(lg, Appender(t, l, f)))
           /\ Adopt(lg, Appender(t, l, f)).type = t /\ Adopt(lg, Appender(t, l, f)).level = l
           /\ Adopt(lg, Appender(t, l, f)).formatter = IF f = Absent THEN lg.formatter ELSE f
  BY DEF Adopt, Appender, IsAppender, IsLogger

LEMMA AddFacts ==
    ASSUME NEW lg, IsLogger(lg), NEW a, IsAppender(Adopt(lg, a))
    PROVE  /\ IsLogger(addAppender(lg, a))
           /\ addAppender(lg, a).level = lg.level /\ addAppender(lg, a).formatter = lg.formatter
           /\ addAppender(lg, a).appenders = Append(lg.appenders, Adopt(lg, a))
           /\ addAppender(lg, a).appenders # <<>>
  <1> DEFINE b == Adopt(lg, a)
             s == Append(lg.appenders, b)
             r == [level |-> lg.level, formatter |-> lg.formatter, appenders |-> s]
  <1>1. addAppender(lg, a) = r
    BY DEF addAppender, IsLogger
  <1>2. /\ IsSeq(s) /\ Len(s) = Len(lg.appenders) + 1 /\ s # <<>>
        /\ \A i \in 1..Len(lg.appenders) : s[i] = lg.appenders[i]
        /\ s[Len(lg.appenders) + 1] = b
        /\ Len(lg.appenders) \in Nat
    BY SeqAppended DEF IsLogger, IsSeq
  <1> HIDE DEF b, s
  <1>3. \A i \in 1..Len(s) : IsAppender(s[i])
    <2> SUFFICES ASSUME NEW i \in 1..Len(s) PROVE IsAppender(s[i])
      OBVIOUS
    <2>1. CASE i \in 1..Len(lg.appenders)
      BY <1>2, <2>1 DEF IsLogger
    <2>2. CASE i = Len(lg.appenders) + 1
      BY <1>2, <2>2 DEF b
    <2> QED
      BY <1>2, <2>1, <2>2
  <1>4. IsLogger(r) /\ r.level = lg.level /\ r.formatter = lg.formatter /\ r.appenders = s
    BY <1>2, <1>3 DEF IsLogger
  <1> QED
    BY <1>1, <1>2, <1>4 DEF s, b

LEMMA ClearFacts ==
    ASSUME NEW lg, IsLogger(lg)
    PROVE  /\ IsLogger(clearAppenders(lg)) /\ clearAppenders(lg).appenders = <<>>
           /\ clearAppenders(lg).level = lg.level /\ clearAppenders(lg).formatter = lg.formatter
  BY EmptyIsSeq DEF IsLogger, clearAppenders

LEMMA LevelFacts ==
    ASSUME NEW lg, IsLogger(lg), NEW level \in Nat
    PROVE  /\ IsLogger([lg EXCEPT !.level = level]) /\ [lg EXCEPT !.level = level].level = level
           /\ [lg EXCEPT !.level = level].formatter = lg.formatter
           /\ [lg EXCEPT !.level = level].appenders = lg.appenders
  BY DEF IsLogger

LEMMA FormatterFacts ==
    ASSUME NEW lg, IsLogger(lg), NEW p, p # Absent
    PROVE  /\ IsLogger(setFormatter(lg, p)) /\ setFormatter(lg, p).level = lg.level
           /\ ~ isError(p) => setFormatter(lg, p).formatter = p
           /\ lg.appenders # <<>> => setFormatter(lg, p).appenders # <<>>
  <1> DEFINE F(a) == IF a.hasFormatter THEN a ELSE [a EXCEPT !.formatter = p]
             s == [i \in DOMAIN lg.appenders |-> F(lg.appenders[i])]
             r == [level |-> lg.level, formatter |-> p, appenders |-> s]
  <1>1. CASE isError(p)
    BY <1>1 DEF setFormatter
  <1>2. CASE ~ isError(p)
    <2>1. setFormatter(lg, p) = r
      BY <1>2 DEF setFormatter, IsLogger
    <2>2. DOMAIN lg.appenders = 1..Len(lg.appenders) /\ Len(lg.appenders) \in Nat
      BY DEF IsLogger, IsSeq
    <2>3. IsSeq(s) /\ Len(s) = Len(lg.appenders)
      BY <2>2, FunctionIsSeq
    <2>4. ASSUME NEW a, IsAppender(a) PROVE IsAppender(F(a))
      BY <1>2, <2>4 DEF IsAppender
    <2>5. \A i \in 1..Len(s) : IsAppender(s[i])
      BY <2>2, <2>3, <2>4 DEF IsLogger
    <2>6. lg.appenders # <<>> => s # <<>>
      BY <2>2, <2>3, SeqEmpty DEF IsLogger
    <2> HIDE DEF s
    <2>7. IsLogger(r)
      BY <1>2, <2>3, <2>5 DEF IsLogger
    <2> QED
      BY <2>1, <2>6, <2>7
  <1> QED
    BY <1>1, <1>2

LEMMA DeleteFacts ==
    ASSUME NEW lg, IsLogger(lg), lg.appenders # <<>>
    PROVE  IsLogger(delAppender(lg, 1))
  <1> DEFINE s == lg.appenders
             S == {s[i] : i \in 1..Len(s)}
             t == RemoveAt(s, 1)
  <1>1. s \in Seq(S) /\ Len(s) \in Nat /\ Len(s) >= 1 /\ DOMAIN s = 1..Len(s)
    BY SeqOfItself, SeqEmpty DEF IsLogger, IsSeq
  <1>2. t = SubSeq(s, 2, Len(s))
    <2>1. SubSeq(s, 1, 0) = <<>>
      BY <1>1, SubSeqEmpty
    <2>2. SubSeq(s, 2, Len(s)) \in Seq(S)
      BY <1>1, SubSeqProperties
    <2> QED
      BY <2>1, <2>2, ConcatEmptySeq DEF RemoveAt
  <1>3. t \in Seq(S)
    <2>1. 2 \in 1..(Len(s) + 1) /\ Len(s) \in 0..Len(s)
      BY <1>1
    <2> HIDE DEF S, s
    <2>2. SubSeq(s, 2, Len(s)) \in Seq(S)
      BY <1>1, <2>1, SubSeqProperties
    <2> QED
      BY <1>2, <2>2
  <1>4. \A x \in S : IsAppender(x)
    BY DEF IsLogger
  <1>5. IsSeq(t) /\ \A i \in 1..Len(t) : t[i] \in S
    BY <1>3, LenProperties, ElementOfSeq DEF IsSeq
  <1> HIDE DEF t, S
  <1>6. delAppender(lg, 1) = [level |-> lg.level, formatter |-> lg.formatter, appenders |-> t]
    BY DEF delAppender, IsLogger, t
  <1> QED
    BY <1>4, <1>5, <1>6 DEF IsLogger

\* What the documents become: defines, one for a name.
OneOfAName(v) == \A d, e \in v : d.name = e.name => d = e

LEMMA TakenFacts ==
    ASSUME NEW as, as \in Seq(Range(as))
    PROVE  /\ Len(Taken(as)) \in Nat /\ DOMAIN Taken(as) = 1..Len(Taken(as))
           /\ Taken(as) = <<>> <=> Len(Taken(as)) = 0
           /\ \A i \in DOMAIN Taken(as) : Taken(as)[i].formatter # <<>> => Taken(as)[i].formatter # Absent
  <1> DEFINE used == {i \in DOMAIN as : Usable(as[i])}
             k == Cardinality(used)
             At(n) == as[CHOOSE i \in used : Cardinality({j \in used : j <= i}) = n]
             t == [n \in 1..k |-> AppenderDefine(At(n))]
  <1>1. Taken(as) = t
    BY DEF Taken
  <1>2. k \in Nat
    <2>1. DOMAIN as = 1..Len(as) /\ Len(as) \in Nat
      BY LenProperties
    <2>2. IsFiniteSet(DOMAIN as)
      <3>1. Len(as) \in Int /\ 1 \in Int
        BY <2>1
      <3>2. IsFiniteSet(1..Len(as))
        BY <3>1, FS_Interval
      <3> QED
        BY <2>1, <3>2
    <2>3. IsFiniteSet(used)
      BY <2>2, FS_Subset
    <2> QED
      BY <2>3, FS_CardinalityType
  <1>3. \A x : AppenderDefine(x).formatter # <<>> => AppenderDefine(x).formatter # Absent
    BY DEF AppenderDefine, Get
  <1> HIDE DEF k, At
  <1>4. IsSeq(t) /\ Len(t) = k
    BY <1>2, FunctionIsSeq
  <1>5. t = <<>> <=> Len(t) = 0
    BY <1>4, SeqEmpty
  <1> QED
    BY <1>1, <1>2, <1>3, <1>4, <1>5

\* LexicalCast takes exactly the usable appenders, each once and in the order of
\* the document.
THEOREM TakenInOrder ==
    ASSUME NEW as, as \in Seq(Range(as))
    PROVE  \E at \in [1..Len(Taken(as)) -> DOMAIN as] :
              /\ \A m, n \in 1..Len(Taken(as)) : m < n => at[m] < at[n]
              /\ \A i \in DOMAIN as : Usable(as[i]) <=> \E n \in 1..Len(Taken(as)) : at[n] = i
              /\ \A n \in 1..Len(Taken(as)) : Taken(as)[n] = AppenderDefine(as[at[n]])
  <1> DEFINE used == {i \in DOMAIN as : Usable(as[i])}
             Upto(i) == {j \in used : j <= i}
             k == Cardinality(used)
             place == [i \in used |-> Cardinality(Upto(i))]
             at == [n \in 1..k |-> CHOOSE i \in used : Cardinality(Upto(i)) = n]
  <1>1. DOMAIN as = 1..Len(as) /\ Len(as) \in Nat
    BY LenProperties
  <1>2. IsFiniteSet(used) /\ k \in Nat
    <2>1. Len(as) \in Int /\ 1 \in Int
      BY <1>1
    <2>2. IsFiniteSet(1..Len(as))
      BY <2>1, FS_Interval
    <2>3. IsFiniteSet(used)
      BY <1>1, <2>2, FS_Subset
    <2> QED
      BY <2>3, FS_CardinalityType
  <1>3. Taken(as) = [n \in 1..k |-> AppenderDefine(as[at[n]])]
    BY DEF Taken
  <1>4. Len(Taken(as)) = k
    <2> DEFINE t == [n \in 1..k |-> AppenderDefine(as[at[n]])]
    <2> HIDE DEF k, at
    <2>1. Len(t) = k
      BY <1>2, FunctionIsSeq
    <2> QED
      BY <1>3, <2>1
  <1>5. used \subseteq DOMAIN as /\ \A i \in used : i \in Nat
    <2>1. used \subseteq DOMAIN as
      OBVIOUS
    <2>2. ASSUME NEW i \in used PROVE i \in Nat
      <3>1. i \in 1..Len(as)
        BY <1>1, <2>1
      <3> QED
        BY <1>1, <3>1
    <2> QED
      BY <2>1, <2>2
  <1>6. \A i \in DOMAIN as : Usable(as[i]) <=> i \in used
    OBVIOUS
  <1> HIDE DEF used
  <1>7. ASSUME NEW i \in used PROVE IsFiniteSet(Upto(i)) /\ Cardinality(Upto(i)) \in 1..k
    <2>1. IsFiniteSet(Upto(i)) /\ Cardinality(Upto(i)) <= k
      BY <1>2, FS_Subset
    <2>2. i \in Upto(i)
      BY <1>5
    <2> DEFINE U == Upto(i)
    <2> HIDE DEF U, Upto
    <2>3. Cardinality(U) \in Nat /\ Cardinality(U) # 0
      BY <2>1, <2>2, FS_CardinalityType, FS_EmptySet DEF U
    <2> QED
      BY <1>2, <2>1, <2>3 DEF U
  <1>8. ASSUME NEW i \in used, NEW j \in used, i < j PROVE Cardinality(Upto(i)) < Cardinality(Upto(j))
    <2>1. i \in Nat /\ j \in Nat
      BY <1>5
    <2>2. Upto(i) \in SUBSET Upto(j) /\ Upto(i) # Upto(j)
      <3>1. \A x \in used : x <= i => x <= j
        BY <1>5, <1>8, <2>1
      <3>2. j \in Upto(j) /\ j \notin Upto(i)
        BY <1>8, <2>1
      <3> QED
        BY <3>1, <3>2
    <2> HIDE DEF Upto
    <2>3. /\ Cardinality(Upto(i)) <= Cardinality(Upto(j))
          /\ Cardinality(Upto(j)) # Cardinality(Upto(i))
      BY <1>7, <2>2, FS_Subset
    <2>4. Cardinality(Upto(i)) \in Nat /\ Cardinality(Upto(j)) \in Nat
      BY <1>7
    <2> QED
      BY <2>3, <2>4
  <1> HIDE DEF k, Upto
  <1>9. ASSUME NEW n \in 1..k PROVE at[n] \in used /\ Cardinality(Upto(at[n])) = n
    <2>1. place \in [used -> 1..k]
      BY <1>7
    <2>2. place \in Injection(used, 1..k)
      <3>1. ASSUME NEW i \in used, NEW j \in used, place[i] = place[j] PROVE i = j
        BY <1>2, <1>5, <1>7, <1>8, <3>1
      <3> QED
        BY <2>1, <3>1, Fun_IsInj
    <2>3. IsFiniteSet(1..k) /\ Cardinality(1..k) = k
      <3>1. 1 \in Int /\ k \in Int
        BY <1>2
      <3> QED
        BY <1>2, <3>1, FS_Interval
    <2> HIDE DEF place
    <2>4. place \in Surjection(used, 1..k)
      BY <2>2, <2>3, FS_Injection DEF k
    <2>5. \E i \in used : Cardinality(Upto(i)) = n
      BY <2>4 DEF Surjection, place
    <2> QED
      BY <2>5
  <1> HIDE DEF at
  <1>10. \A m, n \in 1..k : m < n => at[m] < at[n]
    <2> SUFFICES ASSUME NEW m \in 1..k, NEW n \in 1..k, m < n PROVE at[m] < at[n]
      OBVIOUS
    <2>1. /\ at[m] \in used /\ at[n] \in used /\ at[m] \in Nat /\ at[n] \in Nat
          /\ Cardinality(Upto(at[m])) = m /\ Cardinality(Upto(at[n])) = n
      BY <1>5, <1>9
    <2>2. ~ at[n] < at[m] /\ at[n] # at[m]
      BY <1>2, <1>8, <2>1
    <2> QED
      BY <2>1, <2>2
  <1>11. \A i \in used : \E n \in 1..k : at[n] = i
    <2> SUFFICES ASSUME NEW i \in used PROVE \E n \in 1..k : at[n] = i
      OBVIOUS
    <2> DEFINE n == Cardinality(Upto(i))
    <2>1. n \in 1..k /\ at[n] \in used /\ Cardinality(Upto(at[n])) = n
      BY <1>7, <1>9
    <2>2. i \in Nat /\ at[n] \in Nat
      BY <1>5, <2>1
    <2>3. ~ at[n] < i /\ ~ i < at[n]
      BY <1>2, <1>8, <2>1
    <2> HIDE DEF n
    <2> QED
      BY <2>1, <2>2, <2>3
  <1>12. at \in [1..k -> DOMAIN as]
    BY <1>5, <1>9 DEF at
  <1>13. \A i \in DOMAIN as : Usable(as[i]) <=> \E n \in 1..k : at[n] = i
    BY <1>6, <1>9, <1>11
  <1> QED
    BY <1>3, <1>4, <1>10, <1>12, <1>13

LEMMA ValsFacts ==
    ASSUME NEW v \in Vals
    PROVE  OneOfAName(v) /\ \A d \in v : IsDefine(d)
  <1>1. CASE v = Default
    BY <1>1, LoggerAssumption DEF OneOfAName
  <1>2. ASSUME NEW doc \in Docs, ~ Throws(doc), v = Cast(doc) PROVE OneOfAName(v) /\ \A d \in v : IsDefine(d)
    <2> DEFINE I == {i \in DOMAIN doc : \A j \in 1..(i - 1) : doc[j].name # doc[i].name}
    <2>1. DOMAIN doc = 1..Len(doc) /\ Len(doc) \in Nat
      BY DocsAssumption, LenProperties
    <2>2. v = {Define(doc[i]) : i \in I}
      BY <1>2 DEF Cast
    <2>3. \A i \in DOMAIN doc : doc[i] \in Range(doc)
      BY DEF Range
    <2>4. ASSUME NEW i \in DOMAIN doc PROVE IsDefine(Define(doc[i])) /\ Define(doc[i]).name = doc[i].name
      <3> DEFINE n == doc[i]
      <3>1. /\ n.name \in Names \ UserNames /\ (n.level = Absent \/ n.level \in Nat)
            /\ n.appenders \in Seq(Range(n.appenders))
        BY <1>2, <2>3, DocsAssumption DEF Throws
      <3> HIDE DEF n
      <3>2. /\ Define(n).name = n.name /\ Define(n).level = Get(n.level, UNKNOW)
            /\ Define(n).formatter = Get(n.formatter, <<>>) /\ Define(n).appenders = Taken(n.appenders)
        BY DEF Define
      <3>3. Get(n.level, UNKNOW) \in Nat
        BY <3>1 DEF Get, UNKNOW
      <3>4. Get(n.formatter, <<>>) # <<>> => Get(n.formatter, <<>>) # Absent
        BY DEF Get
      <3>5. /\ Len(Taken(n.appenders)) \in Nat /\ DOMAIN Taken(n.appenders) = 1..Len(Taken(n.appenders))
            /\ Taken(n.appenders) = <<>> <=> Len(Taken(n.appenders)) = 0
            /\ \A k \in DOMAIN Taken(n.appenders) :
                  Taken(n.appenders)[k].formatter # <<>> => Taken(n.appenders)[k].formatter # Absent
        BY <3>1, TakenFacts
      <3>6. IsDefine(Define(n)) /\ Define(n).name = n.name
        BY <3>1, <3>2, <3>3, <3>4, <3>5 DEF IsDefine
      <3> QED
        BY <3>6 DEF n
    <2>5. ASSUME NEW i \in I, NEW j \in I, doc[i].name = doc[j].name PROVE i = j
      BY <2>1, <2>5
    <2>6. OneOfAName(v)
      <3> SUFFICES ASSUME NEW d \in v, NEW e \in v, d.name = e.name PROVE d = e
        BY DEF OneOfAName
      <3>1. PICK i \in I : d = Define(doc[i])
        BY <2>2
      <3>2. PICK j \in I : e = Define(doc[j])
        BY <2>2
      <3>3. doc[i].name = doc[j].name
        BY <2>4, <3>1, <3>2
      <3> QED
        BY <2>5, <3>1, <3>2, <3>3
    <2> QED
      BY <2>2, <2>4, <2>6
  <1> QED
    BY <1>1, <1>2 DEF Vals

\* A document becomes one define for every name in it, that of the first node of
\* this name: a later one of the same name is left out, and nothing else is.
THEOREM CastKeepsFirst ==
    ASSUME NEW doc \in Docs, ~ Throws(doc), NEW i \in DOMAIN doc
    PROVE  /\ \E j \in 1..i :
                 /\ doc[j].name = doc[i].name /\ \A m \in 1..(j - 1) : doc[m].name # doc[i].name
                 /\ Define(doc[j]) \in Cast(doc)
           /\ \A d, e \in Cast(doc) : d.name = e.name => d = e
  <1>1. DOMAIN doc = 1..Len(doc) /\ Len(doc) \in Nat
    BY DocsAssumption, LenProperties
  <1>2. i \in 1..Len(doc)
    BY <1>1
  <1> DEFINE T == {j \in Nat : j \in 1..i /\ doc[j].name = doc[i].name}
  <1>3. T \subseteq Nat /\ i \in T
    BY <1>1, <1>2
  <1>4. PICK j \in T : \A m \in T : ~ (m < j)
    <2>1. PICK j \in T : \A m \in T : <<m, j>> \notin OpToRel(<, Nat)
      BY <1>3, NatLessThanWellFounded, WFMin
    <2>2. \A m \in T : m < j => <<m, j>> \in OpToRel(<, Nat)
      BY <1>3 DEF OpToRel
    <2> QED
      BY <2>1, <2>2
  <1>5. j \in 1..i /\ j \in DOMAIN doc /\ doc[j].name = doc[i].name
    BY <1>1, <1>2
  <1>6. \A m \in 1..(j - 1) : doc[m].name # doc[j].name
    <2> SUFFICES ASSUME NEW m \in 1..(j - 1), doc[m].name = doc[i].name PROVE FALSE
      BY <1>5
    <2>1. m \in Nat /\ m < j /\ m \in 1..i
      BY <1>1, <1>2, <1>5
    <2> QED
      BY <1>4, <2>1
  <1>7. Define(doc[j]) \in Cast(doc)
    BY <1>5, <1>6 DEF Cast
  <1>8. OneOfAName(Cast(doc))
    <2>1. Cast(doc) \in Vals
      BY DEF Vals
    <2> QED
      BY <2>1, ValsFacts
  <1> QED
    BY <1>5, <1>6, <1>7, <1>8 DEF OneOfAName

-----------------------------------------------------------------------------
(***************************************************************************)
(* The inductive invariant of the loggers.  ConfigApplied and NoEventLost  *)
(* speak of what the listener leaves behind; the invariant says how far it *)
(* has got: which defines it has still to look at, and what is already set *)
(* in the logger that it has in its hands.                                 *)
(***************************************************************************)
IsJob(j) ==
    /\ j = [at |-> j.at, def |-> j.def, n |-> j.n, new |-> j.new, old |-> j.old]
    /\ j.at \in {"next", "formatter", "clear", "add"} /\ j.n \in Nat
    /\ \A d \in j.new \cup j.old : IsDefine(d)
    /\ j.at = "next" => j.def = Absent /\ j.n = 0
    /\ j.at # "next" => IsDefine(j.def)
    /\ j.at = "formatter" => j.def.formatter # <<>>
    /\ j.at \in {"formatter", "clear"} => j.n = 0
    /\ j.at = "add" => j.n < Len(j.def.appenders)

LogType ==
    /\ m_loggers = [n \in Names |-> m_loggers[n]] /\ \A n \in Names : IsLogger(m_loggers[n])
    /\ job = [s \in Setters |-> job[s]] /\ \A s \in Setters : IsJob(job[s])

EventType ==
    /\ wr \in [Writers -> [at: {"idle", "check", "write", "rootcheck", "rootwrite"}, name: Names,
                           level: EventLevels \cup {DEBUG}]]
    /\ fate \in [Writers -> {"none", "filtered", "written", "dropped", "lost"}]

\* The listener works within the setter's call of it.
Heard(s) == set[s].at # "idle" /\ 1 \notin set[s].todo
Busy(j) == j.at # "next" \/ j.new # {} \/ j.old # {}
Working ==
    /\ 1 \in m_cbs
    /\ \A s \in Setters : /\ Busy(job[s]) => set[s].at = "call" /\ 1 \notin set[s].todo
                          /\ set[s].at = "write" => 1 \notin set[s].todo

\* What is already set in the logger whose define the listener applies.
Partly(lg, j) ==
    /\ lg.level = j.def.level
    /\ j.at # "formatter" /\ j.def.formatter # <<>> /\ ~ isError(j.def.formatter) => lg.formatter = j.def.formatter
    /\ j.at = "add" => /\ Len(lg.appenders) = j.n
                       /\ \A i \in 1..j.n : Matches(lg, lg.appenders[i], j.def.appenders[i])

Disjoint(d, v) == \A e \in v : e.name # d.name

Applying(v, j) ==
    /\ \A d \in v : d \in j.new \/ (j.at # "next" /\ j.def = d) \/ Configured(m_loggers[d.name], d)
    /\ j.new \subseteq v
    /\ \A d \in j.old : Disjoint(d, v)
    /\ j.at # "next" => Partly(m_loggers[j.def.name], j) /\ (j.def \in v \/ Disjoint(j.def, v))

ConfInv ==
    ~ overlapped =>
        /\ (\A s \in Setters : ~ Heard(s)) => \A d \in m_val : Configured(m_loggers[d.name], d)
        /\ \A s \in Setters : Heard(s) => Applying(set[s].val, job[s])

\* No document takes all appenders from the root logger; a define that does is
\* the listener's own, for a root logger that is no longer named.
RootGiven == \A doc \in Docs : ~ Throws(doc) => \A d \in Cast(doc) : d.name = Root => d.appenders # <<>>
Leaves(d) == d.name = Root /\ d.appenders = <<>> => d.level = Removed
RootInv ==
    RootGiven =>
        /\ \A s \in Setters : /\ \A d \in job[s].new \cup job[s].old : Leaves(d)
                              /\ job[s].at # "next" => Leaves(job[s].def)
        /\ m_loggers[Root].appenders = <<>> => Excused

LogInv == LogType /\ EventType /\ Working /\ ConfInv /\ RootInv

\* The listener takes the next define, and calls setLevel().
LEMMA LevelStep ==
    ASSUME LogType, NEW s \in Setters, NEW d, SetLevel(s, d)
    PROVE  LET j == job[s] k == job'[s]
           IN  /\ d \in j.new \cup j.old /\ IsDefine(d) /\ j.at = "next"
               /\ k.at # "next" /\ k.at # "add" /\ k.def = d /\ k.new = j.new \ {d} /\ k.old = j.old \ {d}
               /\ k.at = "clear" => d.formatter = <<>>
               /\ m_loggers'[d.name].level = d.level
               /\ m_loggers'[d.name].appenders = m_loggers[d.name].appenders
               /\ \A n \in Names \ {d.name} : m_loggers'[n] = m_loggers[n]
               /\ \A r \in Setters \ {s} : job'[r] = job[r]
               /\ LogType'
  <1> DEFINE j == job[s]
             at == IF d.formatter = <<>> THEN "clear" ELSE "formatter"
             k == [at |-> at, def |-> d, n |-> 0, new |-> j.new \ {d}, old |-> j.old \ {d}]
             lg == m_loggers[d.name]
  <1>1. d \in j.new \cup j.old /\ j.at = "next" /\ IsJob(j) /\ IsDefine(d)
    BY DEF SetLevel, First, LogType, IsJob
  <1>2. d.name \in Names /\ d.level \in Nat /\ IsLogger(lg)
    BY <1>1 DEF IsDefine, LogType
  <1>3. job' = [job EXCEPT ![s] = k]
    BY DEF SetLevel, Job, LogType
  <1>4. m_loggers' = [m_loggers EXCEPT ![d.name] = [lg EXCEPT !.level = d.level]]
    BY <1>2 DEF SetLevel, LogType
  <1>5. IsJob(k)
    BY <1>1 DEF IsJob
  <1>6. s \in DOMAIN job /\ d.name \in DOMAIN m_loggers
    BY <1>2 DEF LogType
  <1>7. job'[s] = k /\ \A r \in Setters \ {s} : job'[r] = job[r]
    BY <1>3, <1>6 DEF LogType
  <1>8. /\ m_loggers'[d.name] = [lg EXCEPT !.level = d.level]
        /\ \A n \in Names \ {d.name} : m_loggers'[n] = m_loggers[n]
    BY <1>4, <1>6 DEF LogType
  <1>9. LogType'
    <2>1. DOMAIN job' = Setters /\ DOMAIN m_loggers' = Names
      BY <1>3, <1>4 DEF LogType
    <2>2. \A r \in Setters : IsJob(job'[r])
      BY <1>5, <1>7 DEF LogType
    <2>3. \A n \in Names : IsLogger(m_loggers'[n])
      BY <1>2, <1>8, LevelFacts DEF LogType
    <2>4. job' = [r \in Setters |-> job'[r]] /\ m_loggers' = [n \in Names |-> m_loggers'[n]]
      BY <1>3, <1>4, <2>1 DEF LogType
    <2> QED
      BY <2>2, <2>3, <2>4 DEF LogType
  <1> QED
    BY <1>1, <1>2, <1>7, <1>8, <1>9, LevelFacts

\* One of the other calls on the logger in the listener's hands.
LEMMA CallStep ==
    ASSUME LogType, NEW s \in Setters, NEW at, NEW lg, NEW next, Call(s, at, lg, next), at # "next",
           IsLogger(lg), IsJob(next)
    PROVE  /\ job[s].at = at /\ IsDefine(job[s].def)
           /\ job'[s] = next /\ m_loggers'[job[s].def.name] = lg
           /\ \A n \in Names \ {job[s].def.name} : m_loggers'[n] = m_loggers[n]
           /\ \A r \in Setters \ {s} : job'[r] = job[r]
           /\ LogType'
  <1>1. job[s].at = at /\ IsDefine(job[s].def) /\ job[s].def.name \in Names
    BY DEF Call, LogType, IsJob, IsDefine
  <1>2. job' = [job EXCEPT ![s] = next] /\ m_loggers' = [m_loggers EXCEPT ![job[s].def.name] = lg]
    BY DEF Call
  <1>3. DOMAIN job = Setters /\ DOMAIN m_loggers = Names
    BY DEF LogType
  <1>4. /\ job'[s] = next /\ m_loggers'[job[s].def.name] = lg
        /\ \A n \in Names \ {job[s].def.name} : m_loggers'[n] = m_loggers[n]
        /\ \A r \in Setters \ {s} : job'[r] = job[r]
    BY <1>1, <1>2, <1>3
  <1>5. job' = [r \in Setters |-> job'[r]] /\ m_loggers' = [n \in Names |-> m_loggers'[n]]
    BY <1>2, <1>3
  <1>6. (\A r \in Setters : IsJob(job'[r])) /\ \A n \in Names : IsLogger(m_loggers'[n])
    BY <1>4 DEF LogType
  <1> QED
    BY <1>1, <1>4, <1>5, <1>6 DEF LogType

\* Behind clearAppenders() or addAppender() the loop goes on or is over.
LEMMA AddingFacts ==
    ASSUME NEW j, IsJob(j), j.at # "next", NEW n \in Nat, n <= Len(j.def.appenders)
    PROVE  LET k == Adding(j, n)
           IN  /\ IsJob(k) /\ k.new = j.new /\ k.old = j.old
               /\ n = Len(j.def.appenders) => k.at = "next"
               /\ n # Len(j.def.appenders) => k.at = "add" /\ k.def = j.def /\ k.n = n
  <1>1. Len(j.def.appenders) \in Nat /\ IsDefine(j.def)
    BY DEF IsJob, IsDefine
  <1>2. CASE n = Len(j.def.appenders)
    BY <1>2 DEF Adding, Job, IsJob
  <1>3. CASE n # Len(j.def.appenders)
    BY <1>1, <1>3 DEF Adding, Job, IsJob
  <1> QED
    BY <1>2, <1>3

-----------------------------------------------------------------------------
(* The listener's steps *)

\* One setter is at work: what remains to be shown of its step.
LEMMA ApplyFrame ==
    ASSUME TellInv, Working, NEW s \in Setters, UNCHANGED configVars, Busy(job[s]),
           \A r \in Setters \ {s} : job'[r] = job[r],
           ~ overlapped => Applying(set[s].val, job[s])'
    PROVE  Working' /\ ConfInv'
  <1>1. /\ UNCHANGED <<m_val, m_cbs, set, overlapped>>
        /\ set[s].at = "call" /\ 1 \notin set[s].todo
    BY DEF configVars, Working
  <1>2. Working'
    BY <1>1 DEF Working
  <1>3. ASSUME ~ overlapped PROVE \A r \in Setters \ {s} : set[r].at = "idle"
    BY <1>1, <1>3 DEF TellInv, OneSetter
  <1>4. ConfInv'
    BY <1>1, <1>3 DEF ConfInv, Heard
  <1> QED
    BY <1>2, <1>4

LEMMA RootFrame ==
    ASSUME RootInv, NEW s \in Setters, NEW nm \in Names, UNCHANGED configVars,
           \A r \in Setters \ {s} : job'[r] = job[r],
           \A n \in Names \ {nm} : m_loggers'[n] = m_loggers[n],
           job[s].at # "next" => job[s].def.name = nm,
           RootGiven => /\ \A d \in job'[s].new \cup job'[s].old : Leaves(d)
                        /\ job'[s].at # "next" => Leaves(job'[s].def)
                        /\ nm = Root /\ m_loggers'[Root].appenders = <<>> =>
                              \/ overlapped \/ m_loggers'[Root].level = Removed
                              \/ job'[s].at # "next" /\ job'[s].def.name = Root
    PROVE  RootInv'
  <1> SUFFICES ASSUME RootGiven
               PROVE  /\ \A r \in Setters : /\ \A d \in job'[r].new \cup job'[r].old : Leaves(d)
                                            /\ job'[r].at # "next" => Leaves(job'[r].def)
                      /\ m_loggers'[Root].appenders = <<>> => Excused'
    BY DEF RootInv, Leaves, RootGiven
  <1>1. \A r \in Setters : /\ \A d \in job'[r].new \cup job'[r].old : Leaves(d)
                           /\ job'[r].at # "next" => Leaves(job'[r].def)
    BY DEF RootInv
  <1>2. ASSUME m_loggers'[Root].appenders = <<>> PROVE Excused'
    <2>1. CASE nm = Root
      BY <1>2, <2>1 DEF Excused, configVars
    <2>2. CASE nm # Root
      <3>1. m_loggers'[Root] = m_loggers[Root] /\ Excused
        BY <1>2, <2>2, LoggerAssumption DEF RootInv
      <3> QED
        BY <2>2, <3>1 DEF Excused, configVars
    <2> QED
      BY <2>1, <2>2
  <1> QED
    BY <1>1, <1>2

LEMMA ApplyLevel ==
    ASSUME TellInv, LogType, Working, ConfInv, RootInv, NEW s \in Setters, NEW d, SetLevel(s, d)
    PROVE  LogType' /\ Working' /\ ConfInv' /\ RootInv'
  <1> DEFINE j == job[s]
             k == job'[s]
             v == set[s].val
  <1>1. /\ d \in j.new \cup j.old /\ IsDefine(d) /\ j.at = "next"
        /\ k.at # "next" /\ k.at # "add" /\ k.def = d /\ k.new = j.new \ {d} /\ k.old = j.old \ {d}
        /\ k.at = "clear" => d.formatter = <<>>
        /\ m_loggers'[d.name].level = d.level
        /\ m_loggers'[d.name].appenders = m_loggers[d.name].appenders
        /\ \A n \in Names \ {d.name} : m_loggers'[n] = m_loggers[n]
        /\ \A r \in Setters \ {s} : job'[r] = job[r]
        /\ LogType'
    BY LevelStep
  <1>2. UNCHANGED configVars /\ Busy(j)
    BY <1>1 DEF SetLevel, Busy
  <1>3. set' = set /\ overlapped' = overlapped /\ Heard(s) /\ k.at \in {"formatter", "clear"} /\ v \in Vals
    BY <1>1, <1>2 DEF configVars, Working, Heard, LogType, IsJob, TellInv, ConfigType
  <1> HIDE DEF j, k, v
  <1>4. ASSUME ~ overlapped PROVE Applying(set[s].val, job[s])'
    <2>1. Applying(v, j)
      BY <1>3, <1>4 DEF ConfInv, j, v
    <2>2. OneOfAName(v) /\ \A e \in v : e.name \in Names
      BY <1>3, ValsFacts DEF IsDefine
    <2>3. d \in v \/ Disjoint(d, v)
      BY <1>1, <2>1 DEF Applying
    <2>4. \A e \in v : e # d => m_loggers'[e.name] = m_loggers[e.name]
      BY <1>1, <2>2, <2>3 DEF OneOfAName, Disjoint
    <2>5. \A e \in v : e \in k.new \/ (k.at # "next" /\ k.def = e) \/ Configured(m_loggers'[e.name], e)
      BY <1>1, <2>1, <2>4 DEF Applying
    <2>6. k.new \subseteq v /\ \A e \in k.old : Disjoint(e, v)
      BY <1>1, <2>1 DEF Applying
    <2>7. Partly(m_loggers'[k.def.name], k)
      BY <1>1, <1>3 DEF Partly
    <2>8. set'[s].val = v /\ job'[s] = k
      BY <1>3 DEF v, k
    <2> QED
      BY <1>1, <2>3, <2>5, <2>6, <2>7, <2>8 DEF Applying
  <1>5. Working' /\ ConfInv'
    BY <1>1, <1>2, <1>4, ApplyFrame DEF j, k
  <1>6. RootInv'
    <2>1. RootGiven => \A e \in j.new \cup j.old : Leaves(e)
      BY DEF RootInv, j
    <2>2. d.name \in Names
      BY <1>1 DEF IsDefine
    <2> QED
      BY <1>1, <1>2, <2>1, <2>2, RootFrame DEF j, k
  <1> QED
    BY <1>1, <1>5, <1>6

\* The other calls: what they leave of the logger and of the defines.
LEMMA ApplyCall ==
    ASSUME TellInv, LogType, Working, ConfInv, RootInv, NEW s \in Setters, NEW at, NEW lg, NEW next,
           Call(s, at, lg, next), at \in {"formatter", "clear", "add"}, IsLogger(lg), IsJob(next),
           next.new = job[s].new, next.old = job[s].old,
           \/ next.at # "next" /\ next.def = job[s].def
           \/ next.at = "next" /\ (lg.appenders = <<>> => job[s].def.appenders = <<>>),
           Partly(m_loggers[job[s].def.name], job[s]) =>
              IF next.at = "next" THEN Configured(lg, job[s].def) ELSE Partly(lg, next)
    PROVE  LogType' /\ Working' /\ ConfInv' /\ RootInv'
  <1> DEFINE j == job[s]
             v == set[s].val
             nm == job[s].def.name
  <1>1. /\ j.at = at /\ IsDefine(j.def) /\ nm \in Names
        /\ job'[s] = next /\ m_loggers'[nm] = lg
        /\ \A n \in Names \ {nm} : m_loggers'[n] = m_loggers[n]
        /\ \A r \in Setters \ {s} : job'[r] = job[r]
        /\ LogType'
    BY CallStep DEF IsDefine
  <1>2. UNCHANGED configVars /\ Busy(j) /\ j.at # "next"
    BY <1>1 DEF Call, Busy
  <1>3. set' = set /\ overlapped' = overlapped /\ Heard(s) /\ v \in Vals
    BY <1>2 DEF configVars, Working, Heard, TellInv, ConfigType
  <1>4. ASSUME ~ overlapped PROVE Applying(v, j)
    BY <1>3, <1>4 DEF ConfInv
  <1>5. ASSUME ~ overlapped PROVE IF next.at = "next" THEN Configured(lg, j.def) ELSE Partly(lg, next)
    BY <1>2, <1>4, <1>5 DEF Applying
  <1>6. ASSUME ~ overlapped PROVE Applying(set[s].val, job[s])'
    <2> HIDE DEF j, v, nm
    <2>1. OneOfAName(v) /\ \A e \in v : e.name \in Names
      BY <1>3, ValsFacts DEF IsDefine
    <2>2. Applying(v, j) /\ nm = j.def.name
      BY <1>4, <1>6 DEF nm, j
    <2>3. \A e \in v : e # j.def => m_loggers'[e.name] = m_loggers[e.name]
      BY <1>1, <1>2, <2>1, <2>2 DEF Applying, OneOfAName, Disjoint
    <2>4. next.new = j.new /\ next.old = j.old /\ (next.at # "next" => next.def = j.def)
      BY DEF j
    <2>5. \A e \in v : e \in next.new \/ (next.at # "next" /\ next.def = e) \/ Configured(m_loggers'[e.name], e)
      <3> SUFFICES ASSUME NEW e \in v, e \notin next.new, ~ (next.at # "next" /\ next.def = e)
                   PROVE  Configured(m_loggers'[e.name], e)
        OBVIOUS
      <3>1. CASE e = j.def
        BY <1>1, <1>5, <1>6, <2>2, <2>4, <3>1
      <3>2. CASE e # j.def
        BY <2>2, <2>3, <2>4, <3>2 DEF Applying
      <3> QED
        BY <3>1, <3>2
    <2>6. next.at # "next" => Partly(m_loggers'[next.def.name], next) /\ (next.def \in v \/ Disjoint(next.def, v))
      BY <1>1, <1>2, <1>5, <1>6, <2>2, <2>4 DEF Applying
    <2>7. set'[s].val = v /\ job'[s] = next
      BY <1>1, <1>3 DEF v
    <2> QED
      BY <2>2, <2>4, <2>5, <2>6, <2>7 DEF Applying
  <1>7. Working' /\ ConfInv'
    BY <1>1, <1>2, <1>6, ApplyFrame
  <1>8. RootInv'
    <2>1. ASSUME RootGiven PROVE Leaves(j.def) /\ \A d \in j.new \cup j.old : Leaves(d)
      BY <1>2, <2>1 DEF RootInv
    <2>2. ASSUME RootGiven, nm = Root, lg.appenders = <<>>, next.at = "next", ~ overlapped
          PROVE  lg.level = Removed
      <3>1. lg.level = j.def.level
        BY <1>5, <2>2 DEF Configured
      <3> QED
        BY <2>1, <2>2, <3>1 DEF Leaves
    <2> QED
      BY <1>1, <1>2, <2>1, <2>2, RootFrame
  <1> QED
    BY <1>1, <1>7, <1>8

LEMMA ApplyRest ==
    ASSUME TellInv, LogType, Working, ConfInv, RootInv, NEW s \in Setters, Reconfigure(s)
    PROVE  LogType' /\ Working' /\ ConfInv' /\ RootInv'
  <1> DEFINE j == job[s]
             d == j.def
             lg == m_loggers[d.name]
  <1>1. IsJob(j)
    BY DEF LogType
  <1>2. ASSUME j.at # "next" PROVE IsDefine(d) /\ IsLogger(lg)
    BY <1>1, <1>2 DEF IsJob, IsDefine, LogType
  <1>3. CASE Call(s, "formatter", setFormatter(lg, d.formatter), Job("clear", d, 0, j.new, j.old))
    <2> DEFINE f == setFormatter(lg, d.formatter)
               next == Job("clear", d, 0, j.new, j.old)
    <2>1. j.at = "formatter" /\ IsDefine(d) /\ IsLogger(lg) /\ d.formatter # Absent
      BY <1>1, <1>2, <1>3 DEF Call, IsJob, IsDefine
    <2>2. IsLogger(f) /\ f.level = lg.level /\ (~ isError(d.formatter) => f.formatter = d.formatter)
      BY <2>1, FormatterFacts
    <2>3. IsJob(next) /\ next.at = "clear" /\ next.def = d /\ next.new = j.new /\ next.old = j.old
      BY <1>1, <2>1 DEF Job, IsJob
    <2> HIDE DEF f, next
    <2>4. Partly(lg, j) => Partly(f, next)
      BY <2>2, <2>3 DEF Partly
    <2> QED
      BY <1>3, <2>2, <2>3, <2>4, ApplyCall DEF f, next
  <1>4. CASE Call(s, "clear", clearAppenders(lg), Adding(j, 0))
    <2> DEFINE c == clearAppenders(lg)
               next == Adding(j, 0)
    <2>1. j.at = "clear" /\ IsDefine(d) /\ IsLogger(lg) /\ Len(d.appenders) \in Nat /\ Len(d.appenders) >= 0
      BY <1>1, <1>2, <1>4 DEF Call, IsDefine
    <2>2. IsLogger(c) /\ c.level = lg.level /\ c.formatter = lg.formatter /\ c.appenders = <<>> /\ Len(c.appenders) = 0
      BY <2>1, ClearFacts, EmptyIsSeq
    <2>3. /\ IsJob(next) /\ next.new = j.new /\ next.old = j.old
          /\ Len(d.appenders) = 0 => next.at = "next"
          /\ Len(d.appenders) # 0 => next.at = "add" /\ next.def = d /\ next.n = 0
      BY <1>1, <2>1, AddingFacts
    <2> HIDE DEF c, next
    <2>4. CASE Len(d.appenders) = 0
      <3>1. Partly(lg, j) => Configured(c, d)
        BY <2>1, <2>2, <2>4 DEF Partly, Configured, IsDefine
      <3>2. d.appenders = <<>>
        BY <2>1, <2>4 DEF IsDefine
      <3> QED
        BY <1>4, <2>2, <2>3, <2>4, <3>1, <3>2, ApplyCall DEF c, next
    <2>5. CASE Len(d.appenders) # 0
      <3>1. Partly(lg, j) => Partly(c, next)
        BY <2>1, <2>2, <2>3, <2>5 DEF Partly
      <3> QED
        BY <1>4, <2>2, <2>3, <2>5, <3>1, ApplyCall DEF c, next
    <2> QED
      BY <2>4, <2>5
  <1>5. CASE Call(s, "add", addAppender(lg, NewAppender(d.appenders[j.n + 1])), Adding(j, j.n + 1))
    <2> DEFINE x == d.appenders[j.n + 1]
               y == NewAppender(x)
               a == Adopt(lg, y)
               c == addAppender(lg, y)
               next == Adding(j, j.n + 1)
    <2>1. /\ j.at = "add" /\ IsDefine(d) /\ IsLogger(lg) /\ Len(d.appenders) \in Nat /\ j.n \in Nat
          /\ j.n + 1 <= Len(d.appenders) /\ DOMAIN d.appenders = 1..Len(d.appenders)
      BY <1>1, <1>2, <1>5 DEF Call, IsDefine, IsJob
    <2>2. x.formatter # <<>> => x.formatter # Absent
      BY <2>1 DEF IsDefine
    <2> HIDE DEF x
    <2>3. /\ IsAppender(a) /\ a.type = x.type /\ a.level = x.level
          /\ a.formatter = IF x.formatter = <<>> \/ isError(x.formatter) THEN lg.formatter ELSE x.formatter
      <3> DEFINE f == IF x.formatter = <<>> \/ isError(x.formatter) THEN Absent ELSE x.formatter
      <3>1. f = Absent \/ ~ isError(f)
        OBVIOUS
      <3>2. f = Absent <=> (x.formatter = <<>> \/ isError(x.formatter))
        BY <2>2
      <3>3. x.formatter = <<>> \/ isError(x.formatter) \/ f = x.formatter
        OBVIOUS
      <3> HIDE DEF f
      <3>4. a = Adopt(lg, Appender(x.type, x.level, f))
        BY DEF NewAppender, f
      <3> HIDE DEF a
      <3>5. /\ IsAppender(a) /\ a.type = x.type /\ a.level = x.level
            /\ a.formatter = IF f = Absent THEN lg.formatter ELSE f
        BY <2>1, <3>1, <3>4, AppenderFacts
      <3> QED
        BY <3>2, <3>3, <3>5
    <2>4. /\ IsLogger(c) /\ c.level = lg.level /\ c.formatter = lg.formatter
          /\ c.appenders = Append(lg.appenders, a) /\ c.appenders # <<>>
      BY <2>1, <2>3, AddFacts
    <2>5. /\ IsJob(next) /\ next.new = j.new /\ next.old = j.old
          /\ Len(d.appenders) = j.n + 1 => next.at = "next"
          /\ Len(d.appenders) # j.n + 1 => next.at = "add" /\ next.def = d /\ next.n = j.n + 1
      BY <1>1, <2>1, AddingFacts
    <2> HIDE DEF y, a, c, next
    <2>6. ASSUME Partly(lg, j)
          PROVE  /\ Len(c.appenders) = j.n + 1
                 /\ \A i \in 1..(j.n + 1) : Matches(c, c.appenders[i], d.appenders[i])
      <3>1. Len(lg.appenders) = j.n /\ \A i \in 1..j.n : Matches(lg, lg.appenders[i], d.appenders[i])
        BY <2>1, <2>6 DEF Partly
      <3>2. /\ Len(c.appenders) = j.n + 1 /\ \A i \in 1..j.n : c.appenders[i] = lg.appenders[i]
            /\ c.appenders[j.n + 1] = a
        <4> DEFINE q == lg.appenders
        <4>1. IsSeq(q) /\ Len(q) = j.n
          BY <2>1, <3>1 DEF IsLogger
        <4> HIDE DEF q
        <4>2. /\ Len(Append(q, a)) = Len(q) + 1 /\ \A i \in 1..Len(q) : Append(q, a)[i] = q[i]
              /\ Append(q, a)[Len(q) + 1] = a
          BY <4>1, SeqAppended
        <4>3. c.appenders = Append(q, a)
          BY <2>4 DEF q
        <4>4. \A i \in 1..j.n : Append(q, a)[i] = lg.appenders[i]
          BY <4>1, <4>2 DEF q
        <4> QED
          BY <4>1, <4>2, <4>3, <4>4
      <3>3. \A i \in 1..j.n : Matches(c, c.appenders[i], d.appenders[i])
        BY <2>4, <3>1, <3>2 DEF Matches
      <3>4. Matches(c, a, x)
        BY <2>3, <2>4 DEF Matches
      <3>5. Matches(c, c.appenders[j.n + 1], d.appenders[j.n + 1])
        BY <3>2, <3>4 DEF x
      <3> QED
        BY <2>1, <3>2, <3>3, <3>5
    <2>7. CASE Len(d.appenders) = j.n + 1
      <3>1. Partly(lg, j) => Configured(c, d)
        BY <2>1, <2>4, <2>6, <2>7 DEF Partly, Configured
      <3> QED
        BY <1>5, <2>4, <2>5, <2>7, <3>1, ApplyCall DEF c, y, x, next
    <2>8. CASE Len(d.appenders) # j.n + 1
      <3>1. Partly(lg, j) => Partly(c, next)
        BY <2>1, <2>4, <2>5, <2>6, <2>8 DEF Partly
      <3> QED
        BY <1>5, <2>4, <2>5, <2>8, <3>1, ApplyCall DEF c, y, x, next
    <2> QED
      BY <2>7, <2>8
  <1> QED
    BY <1>3, <1>4, <1>5 DEF Reconfigure

\* The listener is called: nothing is done yet, and what it will skip is right.
LEMMA ApplyOnChange ==
    ASSUME TellInv, LogType, Working, ConfInv, RootInv, NEW s \in Setters, onChange(s)
    PROVE  LogType' /\ Working' /\ ConfInv' /\ RootInv'
  <1> DEFINE v == set[s].val
             new == Changed(m_val, v)
             old == Gone(m_val, v)
             k == Job("next", Absent, 0, new, old)
  <1>1. /\ set[s].at = "loop" /\ 1 \in set[s].todo
        /\ set' = [set EXCEPT ![s].at = "call", ![s].todo = @ \ {1}]
        /\ UNCHANGED <<m_val, m_cbs, overlapped, m_loggers>>
        /\ job' = [job EXCEPT ![s] = k]
    BY DEF onChange, CallListener
  <1>2. s \in DOMAIN job /\ DOMAIN job = Setters /\ v \in Vals /\ m_val \in Vals
    BY DEF LogType, TellInv, ConfigType
  <1>3. /\ set'[s].at = "call" /\ 1 \notin set'[s].todo /\ set'[s].val = v
        /\ \A r \in Setters \ {s} : set'[r] = set[r]
    BY <1>1 DEF TellInv, ConfigType
  <1>4. job'[s] = k /\ \A r \in Setters \ {s} : job'[r] = job[r]
    BY <1>1, <1>2
  <1>5. /\ OneOfAName(v) /\ \A d \in v : IsDefine(d)
        /\ \A d \in m_val : IsDefine(d)
    BY <1>2, ValsFacts
  <1> HIDE DEF v
  <1>6. new \subseteq v /\ (\A d \in v : d \in new \/ d \in m_val)
    BY DEF Changed
  <1>7. \A d \in old : IsDefine(d) /\ Disjoint(d, v) /\ d.level = Removed
    <2> SUFFICES ASSUME NEW e \in m_val, \A d \in v : d.name # e.name
                 PROVE  LET d == Dismissed(e.name) IN IsDefine(d) /\ Disjoint(d, v) /\ d.level = Removed
      BY DEF Gone
    <2>1. e.name \in Names \ UserNames
      BY <1>5 DEF IsDefine
    <2> QED
      BY <2>1, EmptyIsSeq DEF Dismissed, IsDefine, Disjoint, Removed
  <1> HIDE DEF new, old
  <1>8. IsJob(k) /\ k.at = "next" /\ k.new = new /\ k.old = old
    BY <1>5, <1>6, <1>7 DEF Job, IsJob
  <1> HIDE DEF k
  <1>9. LogType'
    BY <1>1, <1>2, <1>4, <1>8 DEF LogType
  <1>10. Working'
    BY <1>1, <1>3, <1>4 DEF Working
  <1>11. ConfInv'
    <2> SUFFICES ASSUME ~ overlapped PROVE ConfInv'
      BY <1>1 DEF ConfInv
    <2>1. \A r \in Setters \ {s} : set[r].at = "idle"
      BY <1>1 DEF TellInv, OneSetter
    <2>2. \A r \in Setters : ~ Heard(r)
      BY <1>1, <2>1 DEF Heard
    <2>3. \A d \in m_val : Configured(m_loggers[d.name], d)
      BY <2>2 DEF ConfInv
    <2>4. Applying(v, k)
      BY <1>6, <1>7, <1>8, <2>3 DEF Applying
    <2>5. \A r \in Setters : Heard(r)' => r = s
      BY <1>3, <2>1 DEF Heard
    <2>6. Applying(set[s].val, job[s])'
      BY <1>1, <1>3, <1>4, <2>4 DEF Applying
    <2>7. Heard(s)'
      BY <1>3 DEF Heard
    <2> QED
      BY <2>5, <2>6, <2>7 DEF ConfInv
  <1>12. RootInv'
    <2> SUFFICES ASSUME RootGiven PROVE RootInv'
      BY DEF RootInv, RootGiven
    <2>1. \A d \in new : Leaves(d)
      BY <1>2, <1>6, LoggerAssumption DEF RootGiven, Leaves, Vals
    <2>2. \A d \in old : Leaves(d)
      BY <1>7 DEF Leaves
    <2>3. m_loggers'[Root].appenders = <<>> => Excused'
      <3> SUFFICES ASSUME m_loggers[Root].appenders = <<>> PROVE Excused'
        BY <1>1
      <3>1. Excused
        BY DEF RootInv
      <3>2. job[s].at = "next"
        BY <1>1 DEF Working, Busy
      <3> QED
        BY <1>1, <1>4, <3>1, <3>2 DEF Excused
    <2>4. \A r \in Setters : /\ \A d \in job'[r].new \cup job'[r].old : Leaves(d)
                             /\ job'[r].at # "next" => Leaves(job'[r].def)
      BY <1>4, <1>8, <2>1, <2>2 DEF RootInv
    <2> QED
      BY <2>3, <2>4 DEF RootInv, Leaves, RootGiven
  <1> QED
    BY <1>9, <1>10, <1>11, <1>12

\* Steps that leave the loggers and the listener alone.
LEMMA RootStays ==
    ASSUME RootInv, UNCHANGED <<m_loggers, job>>, overlapped => overlapped'
    PROVE  RootInv'
  BY DEF RootInv, Leaves, RootGiven, Excused

LEMMA ApplySet ==
    ASSUME TellInv, LogInv, NEW s \in Setters, NEW val, setValue(s, val), UNCHANGED logVars
    PROVE  LogInv'
  <1>1. /\ UNCHANGED <<m_val, m_cbs, m_loggers, job, wr, fate>>
        /\ set[s].at = "idle" /\ set'[s].at = "loop" /\ set'[s].todo = m_cbs
        /\ \A r \in Setters \ {s} : set'[r] = set[r]
        /\ overlapped => overlapped'
        /\ ~ overlapped' => ~ overlapped /\ \A r \in Setters : set[r].at = "idle"
    BY DEF setValue, logVars, TellInv, ConfigType
  <1>2. LogType' /\ EventType' /\ RootInv'
    BY <1>1, RootStays DEF LogInv, LogType, EventType
  <1>3. Working'
    BY <1>1 DEF LogInv, Working
  <1>4. ConfInv'
    <2> SUFFICES ASSUME ~ overlapped' PROVE ConfInv'
      BY DEF ConfInv
    <2>1. (\A r \in Setters : ~ Heard(r)) /\ \A r \in Setters : ~ Heard(r)'
      BY <1>1 DEF Heard, LogInv, Working
    <2> QED
      BY <1>1, <2>1 DEF LogInv, ConfInv
  <1> QED
    BY <1>2, <1>3, <1>4 DEF LogInv

\* Another listener is called, one returns, or the read lock is released.
LEMMA ApplyGoOn ==
    ASSUME TellInv, LogInv, NEW s \in Setters, UNCHANGED logVars,
           \/ \E l \in Keys \ {1} : CallListener(s, l)
           \/ ListenerDone(s) /\ ListenerReturns(s)
           \/ EndLoop(s)
    PROVE  LogInv'
  <1>1. /\ UNCHANGED <<m_val, m_cbs, overlapped, m_loggers, job, wr, fate>>
        /\ \A r \in Setters \ {s} : set'[r] = set[r]
        /\ set[s].at # "idle" /\ set'[s].at # "idle" /\ set'[s].val = set[s].val
        /\ 1 \in set'[s].todo <=> 1 \in set[s].todo
        /\ set'[s].at = "write" => 1 \notin set[s].todo
        /\ ~ Busy(job[s])
    <2>1. CASE \E l \in Keys \ {1} : CallListener(s, l)
      <3>1. PICK l \in Keys \ {1} : CallListener(s, l)
        BY <2>1
      <3>2. /\ UNCHANGED <<m_val, m_cbs, overlapped, m_loggers, job, wr, fate>>
            /\ set[s].at = "loop" /\ set' = [set EXCEPT ![s].at = "call", ![s].todo = @ \ {l}]
        BY <3>1 DEF CallListener, logVars
      <3>3. /\ \A r \in Setters \ {s} : set'[r] = set[r]
            /\ set'[s].at = "call" /\ set'[s].val = set[s].val /\ set'[s].todo = set[s].todo \ {l}
        BY <3>2 DEF TellInv, ConfigType
      <3>4. ~ Busy(job[s])
        BY <3>2 DEF LogInv, Working
      <3>5. l # 1 /\ (1 \in set'[s].todo <=> 1 \in set[s].todo)
        BY <3>1, <3>3
      <3> QED
        BY <3>2, <3>3, <3>4, <3>5
    <2>2. CASE ListenerDone(s) /\ ListenerReturns(s)
      <3>1. ~ Busy(job[s])
        BY <2>2 DEF ListenerDone, NoJob, Job, Busy
      <3> QED
        BY <2>2, <3>1 DEF ListenerReturns, logVars, TellInv, ConfigType
    <2>3. CASE EndLoop(s)
      BY <2>3 DEF EndLoop, logVars, TellInv, ConfigType, LogInv, Working
    <2> QED
      BY <2>1, <2>2, <2>3
  <1>2. LogType' /\ EventType' /\ RootInv'
    BY <1>1, RootStays DEF LogInv, LogType, EventType
  <1>3. Working'
    BY <1>1 DEF LogInv, Working
  <1>4. \A r \in Setters : (Heard(r)' <=> Heard(r)) /\ set'[r].val = set[r].val
    BY <1>1 DEF Heard
  <1>5. ConfInv'
    BY <1>1, <1>4 DEF LogInv, ConfInv, Applying
  <1> QED
    BY <1>2, <1>3, <1>5 DEF LogInv

\* The value is written: the listener has applied it.
LEMMA ApplyWrite ==
    ASSUME TellInv, LogInv, NEW s \in Setters, UNCHANGED logVars, WriteValue(s)
    PROVE  LogInv'
  <1>1. /\ UNCHANGED <<m_cbs, overlapped, m_loggers, job, wr, fate>>
        /\ m_val' = set[s].val
        /\ set[s].at = "write" /\ set'[s] = Idle /\ set'[s].at = "idle"
        /\ \A r \in Setters \ {s} : set'[r] = set[r]
    BY DEF WriteValue, Idle, logVars, TellInv, ConfigType
  <1>2. LogType' /\ EventType' /\ RootInv'
    BY <1>1, RootStays DEF LogInv, LogType, EventType
  <1>3. ~ Busy(job[s]) /\ Heard(s)
    BY <1>1 DEF LogInv, Working, Heard
  <1>4. Working'
    BY <1>1, <1>3 DEF LogInv, Working
  <1>5. ConfInv'
    <2> SUFFICES ASSUME ~ overlapped PROVE ConfInv'
      BY <1>1 DEF ConfInv
    <2>1. \A r \in Setters : ~ Heard(r)'
      BY <1>1 DEF TellInv, OneSetter, Heard
    <2>2. \A d \in set[s].val : Configured(m_loggers[d.name], d)
      BY <1>3 DEF LogInv, ConfInv, Applying, Busy
    <2> QED
      BY <1>1, <2>1, <2>2 DEF ConfInv
  <1> QED
    BY <1>2, <1>4, <1>5 DEF LogInv

LEMMA ApplyListeners ==
    ASSUME TellInv, LogInv, ListenerStep
    PROVE  LogInv'
  <1>1. UNCHANGED <<m_val, set, overlapped, m_loggers, job, wr, fate>> /\ 1 \in m_cbs'
    <2>1. CASE addListener
      BY <2>1 DEF ListenerStep, addListener, AddListener, logVars, LogInv, Working
    <2>2. CASE \E l \in Keys : delListener(l)
      BY <2>2 DEF ListenerStep, delListener, logVars, LogInv, Working
    <2> QED
      BY <2>1, <2>2 DEF ListenerStep
  <1>2. LogType' /\ EventType' /\ RootInv'
    BY <1>1, RootStays DEF LogInv, LogType, EventType
  <1>3. Working' /\ ConfInv'
    BY <1>1 DEF LogInv, Working, ConfInv, Heard, Applying
  <1> QED
    BY <1>2, <1>3 DEF LogInv

-----------------------------------------------------------------------------
(* Users and writers *)

LEMMA ApplyUser ==
    ASSUME TellInv, LogInv, NEW name \in UserNames, UserStep(name)
    PROVE  LogInv'
  <1> DEFINE old == m_loggers[name]
  <1>1. /\ UNCHANGED <<configVars, job, wr, fate>> /\ name \in Names \ {Root}
        /\ IsLogger(old) /\ DOMAIN m_loggers = Names
    BY LoggerAssumption DEF UserStep, LogInv, LogType
  <1>2. PICK lg \in UserOp(old) : m_loggers' = [m_loggers EXCEPT ![name] = lg]
    BY DEF UserStep
  <1> HIDE DEF old
  <1>3. IsLogger(lg)
    <2>1. CASE \E p \in UserPatterns : lg = setFormatter(old, p)
      BY <1>1, <2>1, FormatterFacts, LoggerAssumption
    <2>2. ASSUME NEW p \in Valid \cup {Absent}, lg = addAppender(old, Appender("StdoutLogAppender", DEBUG, p))
          PROVE  IsLogger(lg)
      <3>1. p = Absent \/ ~ isError(p)
        BY DEF Valid
      <3>2. IsAppender(Adopt(old, Appender("StdoutLogAppender", DEBUG, p)))
        BY <1>1, <3>1, AppenderFacts
      <3> QED
        BY <1>1, <2>2, <3>2, AddFacts
    <2>3. CASE old.appenders # <<>> /\ lg \in {delAppender(old, 1), clearAppenders(old)}
      BY <1>1, <2>3, DeleteFacts, ClearFacts
    <2> QED
      BY <2>1, <2>2, <2>3 DEF UserOp
  <1>4. m_loggers'[name] = lg /\ \A n \in Names \ {name} : m_loggers'[n] = m_loggers[n]
    BY <1>1, <1>2
  <1>5. LogType' /\ EventType'
    <2>1. m_loggers' = [n \in Names |-> m_loggers'[n]]
      BY <1>1, <1>2
    <2>2. \A n \in Names : IsLogger(m_loggers'[n])
      BY <1>3, <1>4 DEF LogInv, LogType
    <2> QED
      BY <1>1, <2>1, <2>2 DEF LogInv, LogType, EventType
  <1>6. \A v \in Vals : \A d \in v : m_loggers'[d.name] = m_loggers[d.name]
    BY <1>4, ValsFacts DEF IsDefine
  <1>7. \A s \in Setters : job[s].at # "next" => m_loggers'[job[s].def.name] = m_loggers[job[s].def.name]
    BY <1>4 DEF LogInv, LogType, IsJob, IsDefine
  <1>8. UNCHANGED <<m_val, m_cbs, set, overlapped>> /\ m_val \in Vals /\ \A s \in Setters : set[s].val \in Vals
    BY <1>1 DEF configVars, TellInv, ConfigType
  <1>9. Working'
    BY <1>1, <1>8 DEF LogInv, Working
  <1>10. \A s \in Setters : Applying(set[s].val, job[s]) => Applying(set[s].val, job[s])'
    BY <1>1, <1>6, <1>7, <1>8 DEF Applying
  <1>11. ConfInv'
    BY <1>6, <1>8, <1>10 DEF LogInv, ConfInv, Heard
  <1>12. RootInv'
    <2>1. m_loggers'[Root] = m_loggers[Root]
      BY <1>1, <1>4, LoggerAssumption
    <2> QED
      BY <1>1, <1>8, <2>1 DEF LogInv, RootInv, Leaves, RootGiven, Excused
  <1> QED
    BY <1>5, <1>9, <1>11, <1>12 DEF LogInv

\* An event goes on its way: the loggers and the listener are left alone, and
\* nothing is lost unless the root logger is without an appender.
LEMMA ApplyWriter ==
    ASSUME TellInv, LogInv, NEW w \in Writers, WriterStep(w)
    PROVE  LogInv' /\ (RootGiven /\ NoEventLost => NoEventLost')
  <1> DEFINE Ats == {"idle", "check", "write", "rootcheck", "rootwrite"}
             Fates == {"none", "filtered", "written", "dropped", "lost"}
             Levels == EventLevels \cup {DEBUG}
             Event(r) == r = [at |-> r.at, name |-> r.name, level |-> r.level]
                         /\ r.at \in Ats /\ r.name \in Names /\ r.level \in Levels
  <1>1. UNCHANGED <<configVars, m_loggers, job>>
    BY DEF WriterStep, LogEvent, LogCheck, LogWrite, LogRootCheck, LogRootWrite
  <1>2. wr[w] \in [at: Ats, name: Names, level: Levels] /\ DOMAIN wr = Writers /\ DOMAIN fate = Writers
    BY DEF LogInv, EventType
  <1>3. NoEvent \in [at: Ats, name: Names, level: Levels]
    BY LoggerAssumption DEF NoEvent
  <1>4. ASSUME NEW at \in Ats, Goto(w, at), UNCHANGED fate PROVE EventType' /\ (NoEventLost => NoEventLost')
    BY <1>2, <1>4 DEF Goto, LogInv, EventType, NoEventLost
  <1>5. ASSUME NEW what \in Fates \ {"lost"}, Back(w, what) PROVE EventType' /\ (NoEventLost => NoEventLost')
    BY <1>2, <1>3, <1>5 DEF Back, LogInv, EventType, NoEventLost
  <1>6. ASSUME Dropped(w), m_loggers[Root].appenders = <<>>
        PROVE  EventType' /\ (RootGiven /\ NoEventLost => NoEventLost')
    <2>1. CASE Excused
      BY <1>5, <1>6, <2>1 DEF Dropped
    <2>2. CASE ~ Excused
      <3>1. ~ RootGiven
        BY <1>6, <2>2 DEF LogInv, RootInv
      <3>2. Back(w, "lost")
        BY <1>6, <2>2 DEF Dropped
      <3>3. EventType'
        BY <1>2, <1>3, <3>2 DEF Back, LogInv, EventType
      <3> QED
        BY <3>1, <3>3
    <2> QED
      BY <2>1, <2>2
  <1>7. \A name : Output(w, name) \in Fates \ {"lost"}
    BY DEF Output
  <1>8. EventType' /\ (RootGiven /\ NoEventLost => NoEventLost')
    <2>1. ASSUME NEW name \in Names, NEW level \in EventLevels, LogEvent(w, name, level)
          PROVE  EventType' /\ (NoEventLost => NoEventLost')
      <3>1. [at |-> "check", name |-> name, level |-> level] \in [at: Ats, name: Names, level: Levels]
        OBVIOUS
      <3> QED
        BY <1>2, <2>1, <3>1 DEF LogEvent, LogInv, EventType, NoEventLost
    <2>2. CASE LogCheck(w)
      BY <1>4, <1>5, <2>2 DEF LogCheck
    <2>3. CASE LogWrite(w)
      BY <1>4, <1>5, <1>6, <1>7, <2>3 DEF LogWrite, WithoutAppenders
    <2>4. CASE LogRootCheck(w)
      BY <1>4, <1>5, <2>4 DEF LogRootCheck
    <2>5. CASE LogRootWrite(w)
      BY <1>5, <1>6, <1>7, <2>5 DEF LogRootWrite
    <2> QED
      BY <2>1, <2>2, <2>3, <2>4, <2>5 DEF WriterStep
  <1>9. LogType' /\ Working' /\ ConfInv' /\ RootInv'
    BY <1>1, RootStays DEF configVars, LogInv, LogType, Working, ConfInv, Heard, Applying
  <1> QED
    BY <1>8, <1>9 DEF LogInv

-----------------------------------------------------------------------------
(* The theorems *)

LEMMA LogStart == Init => LogInv
  <1> SUFFICES ASSUME Init PROVE LogInv
    OBVIOUS
  <1>1. /\ m_loggers = [n \in Names |-> IF n = Root THEN RootLogger ELSE NewLogger]
        /\ job = [s \in Setters |-> NoJob]
        /\ \A s \in Setters : set[s].at = "idle"
        /\ m_val = {} /\ 1 \in m_cbs
    BY LoggerAssumption DEF Init, ConfigInit, Idle
  <1>2. IsLogger(RootLogger) /\ RootLogger.appenders # <<>>
    <2> DEFINE a == Appender("StdoutLogAppender", DEBUG, Absent)
    <2>1. IsAppender(Adopt(NewLogger, a))
      BY NewLoggerFacts, AppenderFacts
    <2> QED
      BY <2>1, NewLoggerFacts, AddFacts DEF RootLogger
  <1>3. NoJob = [at |-> "next", def |-> Absent, n |-> 0, new |-> {}, old |-> {}]
    BY DEF NoJob, Job
  <1>4. IsJob(NoJob) /\ ~ Busy(NoJob)
    BY <1>3 DEF IsJob, Busy
  <1>5. LogType
    BY <1>1, <1>2, <1>4, NewLoggerFacts DEF LogType
  <1>6. EventType
    <2>1. NoEvent \in [at: {"idle", "check", "write", "rootcheck", "rootwrite"}, name: Names,
                       level: EventLevels \cup {DEBUG}]
      BY LoggerAssumption DEF NoEvent
    <2> QED
      BY <2>1 DEF Init, EventType
  <1>7. Working
    BY <1>1, <1>4 DEF Working
  <1>8. ConfInv
    BY <1>1 DEF ConfInv, Heard
  <1>9. RootInv
    <2>1. m_loggers[Root].appenders # <<>>
      BY <1>1, <1>2, LoggerAssumption
    <2>2. \A s \in Setters : job[s].at = "next" /\ job[s].new \cup job[s].old = {}
      BY <1>1, <1>3
    <2> QED
      BY <2>1, <2>2 DEF RootInv
  <1> QED
    BY <1>5, <1>6, <1>7, <1>8, <1>9 DEF LogInv

\* LogInv is inductive, together with TellInv; a step that loses an event is
\* one that no document allows.
LEMMA LogNext ==
    ASSUME TellInv, LogInv, [Next]_vars
    PROVE  LogInv' /\ (RootGiven /\ NoEventLost => NoEventLost')
  <1>1. CASE UNCHANGED <<wr, fate>> /\ LogType' /\ Working' /\ ConfInv' /\ RootInv'
    BY <1>1 DEF LogInv, EventType, NoEventLost
  <1>2. CASE UNCHANGED fate /\ LogInv'
    BY <1>2 DEF NoEventLost
  <1>3. ASSUME NEW s \in Setters, SetterStep(s) PROVE LogInv' /\ (RootGiven /\ NoEventLost => NoEventLost')
    <2>1. CASE \E doc \in Docs : fromString(s, doc)
      BY <1>2, <2>1, ApplySet DEF fromString, logVars
    <2>2. CASE onChange(s)
      BY <1>1, <2>2, ApplyOnChange DEF onChange, LogInv
    <2>3. CASE \E d \in job[s].new \cup job[s].old : SetLevel(s, d)
      BY <1>1, <2>3, ApplyLevel DEF SetLevel, LogInv
    <2>4. CASE Reconfigure(s)
      BY <1>1, <2>4, ApplyRest DEF Reconfigure, Call, LogInv
    <2>5. CASE /\ UNCHANGED logVars
               /\ \/ \E l \in Keys \ {1} : CallListener(s, l)
                  \/ ListenerDone(s) /\ ListenerReturns(s)
                  \/ EndLoop(s)
      BY <1>2, <2>5, ApplyGoOn DEF logVars
    <2>6. CASE WriteValue(s) /\ UNCHANGED logVars
      BY <1>2, <2>6, ApplyWrite DEF logVars
    <2> QED
      BY <1>3, <2>1, <2>2, <2>3, <2>4, <2>5, <2>6 DEF SetterStep
  <1>4. ASSUME NEW w \in Writers, WriterStep(w) PROVE LogInv' /\ (RootGiven /\ NoEventLost => NoEventLost')
    BY <1>4, ApplyWriter
  <1>5. ASSUME NEW name \in UserNames, UserStep(name) PROVE LogInv' /\ (RootGiven /\ NoEventLost => NoEventLost')
    BY <1>2, <1>5, ApplyUser DEF UserStep
  <1>6. CASE ListenerStep
    BY <1>2, <1>6, ApplyListeners DEF ListenerStep, logVars
  <1>7. CASE UNCHANGED vars
    <2>1. UNCHANGED <<m_val, m_cbs, set, overlapped, m_loggers, job, wr, fate>>
      BY <1>7 DEF vars, configVars, logVars
    <2>2. LogType' /\ Working' /\ ConfInv' /\ RootInv'
      BY <2>1, RootStays DEF LogInv, LogType, Working, ConfInv, Heard, Applying
    <2> QED
      BY <1>1, <2>1, <2>2
  <1> QED
    BY <1>3, <1>4, <1>5, <1>6, <1>7 DEF Next

LEMMA LogAlways == Spec => [](TellInv /\ LogInv)
  <1>1. Init => TellInv /\ LogInv
    BY TellStart, LogStart
  <1>2. TellInv /\ LogInv /\ [Next]_vars => (TellInv /\ LogInv)'
    BY TellNext, LogNext
  <1> QED
    BY <1>1, <1>2, PTL DEF Spec

\* Every logger keeps a formatter without an error, and so has every appender of
\* it, which its log() calls without looking: addAppender(), delAppender(),
\* clearAppenders() and setFormatter() keep this whoever calls them, and for any
\* documents, patterns and numbers of threads.
THEOREM LoggerTypeCorrect == Spec => []TypeOK
  <1>1. TellInv /\ LogInv => TypeOK
    <2> SUFFICES ASSUME TellInv, LogInv PROVE TypeOK
      OBVIOUS
    <2>1. ASSUME NEW n \in Names
          PROVE  /\ m_loggers[n].level \in Nat /\ ~ isError(m_loggers[n].formatter)
                 /\ \A i \in DOMAIN m_loggers[n].appenders :
                       /\ m_loggers[n].appenders[i].formatter # Absent
                       /\ ~ isError(m_loggers[n].appenders[i].formatter)
      <3> DEFINE lg == m_loggers[n]
      <3>1. IsLogger(lg)
        BY DEF LogInv, LogType
      <3> HIDE DEF lg
      <3>2. DOMAIN lg.appenders = 1..Len(lg.appenders)
        BY <3>1 DEF IsLogger, IsSeq
      <3>3. /\ lg.level \in Nat /\ ~ isError(lg.formatter)
            /\ \A i \in DOMAIN lg.appenders :
                  lg.appenders[i].formatter # Absent /\ ~ isError(lg.appenders[i].formatter)
        BY <3>1, <3>2 DEF IsLogger, IsAppender
      <3> QED
        BY <3>3 DEF lg
    <2>2. /\ \A s \in Setters : set[s].at \in {"idle", "loop", "call", "write"}
          /\ m_cbs \subseteq Keys /\ s_fun_id \in Keys
      BY DEF TellInv, ConfigType
    <2> QED
      BY <2>1, <2>2 DEF LogInv, EventType, TypeOK
  <1> QED
    BY <1>1, LogAlways, PTL

\* When no change is in progress and no two have met, the loggers are what
\* "logs" says, for any documents, although LogIniter's listener changes them
\* call by call while events are written, and skips the defines that it finds
\* in the old value.
THEOREM LoggerConfigApplied == Spec => []ConfigApplied
  <1>1. LogInv => ConfigApplied
    BY DEF LogInv, ConfInv, Heard, ConfigApplied, Quiet
  <1> QED
    BY <1>1, LogAlways, PTL

\* No event that its logger lets pass is lost for want of an appender, for any
\* number of threads and any documents none of which names the root logger
\* without a usable appender: only within the listener's own work on the root
\* logger, or when "logs" has dismissed it, is the root logger without one.
THEOREM LoggerNoEventLost == RootGiven => (Spec => []NoEventLost)
  <1> SUFFICES ASSUME RootGiven PROVE Spec => []NoEventLost
    OBVIOUS
  <1>1. Init => NoEventLost
    BY DEF Init, NoEventLost
  <1>2. TellInv /\ LogInv /\ NoEventLost /\ [Next]_vars => NoEventLost'
    BY LogNext
  <1> QED
    BY <1>1, <1>2, LogAlways, PTL DEF Spec

=============================================================================
