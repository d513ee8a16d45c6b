------------------------------- MODULE Logger -------------------------------
(***************************************************************************)
(* The loggers of sylar (log.cpp) while threads write events to them and   *)
(* the variable "logs" (module Config) reconfigures them: its first        *)
(* listener, LogIniter's, changes the loggers one call after another.      *)
(*                                                                         *)
(* A logger that nobody has asked for is as getLogger() would make it.     *)
(* Each Logger's and LogAppender's spinlock is held within one action,     *)
(* except a logger's while its event is on its way to the root logger.     *)
(* What an appender writes is left out: an event is written to it or not.  *)
(*                                                                         *)
(* Contract assumed of users: they change the loggers in UserNames only,   *)
(* which "logs" does not name, and not the root logger; an appender        *)
(* belongs to one logger, and is given formatters without an error.        *)
(***************************************************************************)
EXTENDS Config, Formatter, SequencesExt

CONSTANTS
    Order,          \* the loggers' names, sorted as std::set<LogDefine> sorts them
    Root,           \* the root logger's name
    UserNames,      \* the loggers that user code changes
    Writers,        \* the threads that write events
    Docs,           \* the YAML nodes given for "logs"
    EventLevels, UserPatterns,
    DefaultPattern, \* the pattern of a new logger
    Absent          \* a node that is not defined, the null pointer

VARIABLES
    m_loggers,      \* name -> level, formatter and appenders
    job,            \* each setter's place in LogIniter's listener
    wr,             \* each writer's place in log(), with its logger and level
    fate            \* history: what became of each writer's last event

logVars == <<m_loggers, job, wr, fate>>
vars == <<configVars, logVars>>

Names == {Order[n] : n \in 1..Len(Order)}
UNKNOW == 0
DEBUG == 1
Removed == 100    \* (LogLevel::Level)100

ASSUME LoggerAssumption ==
    /\ Root \in Names /\ UserNames \subseteq Names \ {Root}
    /\ Default = {}
    /\ EventLevels \subseteq Nat
    /\ DefaultPattern # Absent /\ ~ isError(DefaultPattern) /\ Absent \notin UserPatterns

\* A document is a list of nodes, which name no logger of the user.
ASSUME DocsAssumption ==
    \A doc \in Docs :
        /\ doc \in Seq(Range(doc))
        /\ \A n \in Range(doc) :
              /\ n.name = Absent \/ n.name \in Names \ UserNames
              /\ n.level = Absent \/ n.level \in Nat
              /\ n.appenders \in Seq(Range(n.appenders))

-----------------------------------------------------------------------------
(* LexicalCast: the nodes of the document become LogDefines *)

Get(node, default) == IF node = Absent THEN default ELSE node

\* An appender without a type, of an unknown type, or for a file without a
\* name is left out; no level is read.
Usable(a) == a.type = "StdoutLogAppender" \/ (a.type = "FileLogAppender" /\ a.file # Absent)
AppenderDefine(a) ==
    [type |-> a.type, level |-> UNKNOW, formatter |-> Get(a.formatter, <<>>),
     file |-> IF a.type = "FileLogAppender" THEN a.file ELSE Absent]

\* The appenders that are taken, in their order.
Taken(as) ==
    LET used == {i \in DOMAIN as : Usable(as[i])}
        Place(i) == Cardinality({j \in used : j <= i})
    IN  [n \in 1..Cardinality(used) |-> AppenderDefine(as[CHOOSE i \in used : Place(i) = n])]

Define(n) ==
    [name |-> n.name, level |-> Get(n.level, UNKNOW), formatter |-> Get(n.formatter, <<>>),
     appenders |-> Taken(n.appenders)]

\* A node without a name throws, which fromString() turns into no change.
Throws(doc) == \E i \in DOMAIN doc : doc[i].name = Absent

\* std::set::insert() keeps the first define of a name.
Cast(doc) == {Define(doc[i]) : i \in {i \in DOMAIN doc : \A j \in 1..(i - 1) : doc[j].name # doc[i].name}}

fromString(s, doc) == ~ Throws(doc) /\ setValue(s, Cast(doc)) /\ UNCHANGED logVars

-----------------------------------------------------------------------------
(* Loggers and appenders *)

\* A StdoutLogAppender or FileLogAppender, and LogAppender::setFormatter().
Appender(type, level, f) == [type |-> type, level |-> level, formatter |-> f, hasFormatter |-> f # Absent]

\* Mutant: the appender keeps what it has.
AdoptNot(lg, a) == a

\* Logger::addAppender(): the appender takes over the logger's formatter if it has none.
Adopt(lg, a) == IF a.formatter = Absent THEN [a EXCEPT !.formatter = lg.formatter] ELSE a
addAppender(lg, a) == [lg EXCEPT !.appenders = Append(@, Adopt(lg, a))]

delAppender(lg, i) == [lg EXCEPT !.appenders = RemoveAt(@, i)]
clearAppenders(lg) == [lg EXCEPT !.appenders = <<>>]

\* Logger::setFormatter(): a pattern in error is refused; appenders without a
\* formatter of their own follow.
setFormatter(lg, p) ==
    IF isError(p) THEN lg
    ELSE [lg EXCEPT !.formatter = p,
                    !.appenders = [i \in DOMAIN @ |-> IF @[i].hasFormatter THEN @[i]
                                                      ELSE [@[i] EXCEPT !.formatter = p]]]

\* Logger::Logger(), and the root logger with its StdoutLogAppender.
NewLogger == [level |-> DEBUG, formatter |-> DefaultPattern, appenders |-> <<>>]
RootLogger == addAppender(NewLogger, Appender("StdoutLogAppender", DEBUG, Absent))

\* The listener's place: the call that is next for the define in its hands (or
\* the next define), the appenders added, and the defines left for its two loops.
Job(at, def, n, new, old) == [at |-> at, def |-> def, n |-> n, new |-> new, old |-> old]
NoJob == Job("next", Absent, 0, {}, {})

NoEvent == [at |-> "idle", name |-> Root, level |-> DEBUG]

Init ==
    /\ ConfigInit
    /\ m_loggers = [n \in Names |-> IF n = Root THEN RootLogger ELSE NewLogger]
    /\ job = [s \in Setters |-> NoJob]
    /\ wr = [w \in Writers |-> NoEvent]
    /\ fate = [w \in Writers |-> "none"]

\* log() holds its logger's spinlock while it calls the root logger's log().
Locked(name) == \E w \in Writers : wr[w].at \in {"rootcheck", "rootwrite"} /\ wr[w].name = name

-----------------------------------------------------------------------------
(* LogIniter's listener *)

\* An appender's pattern that is in error is not set.
NewAppender(a) == Appender(a.type, a.level, IF a.formatter = <<>> \/ isError(a.formatter) THEN Absent ELSE a.formatter)

\* Mutant: a define that has changed is taken for the old one.
ChangedNew(old, new) == {d \in new : \A e \in old : e.name # d.name}

\* What the first loop, over the new value, does not skip ...
Changed(old, new) == new \ old

\* ... and the second one, over the old value.  What is done there is what is
\* done for a define of that level without a pattern and appenders.
Dismissed(name) == [name |-> name, level |-> Removed, formatter |-> <<>>, appenders |-> <<>>]
Gone(old, new) == {Dismissed(d.name) : d \in {d \in old : \A e \in new : e.name # d.name}}

onChange(s) ==
    /\ CallListener(s, 1)
    /\ job' = [job EXCEPT ![s] = Job("next", Absent, 0, Changed(m_val, set[s].val), Gone(m_val, set[s].val))]
    /\ UNCHANGED <<m_loggers, wr, fate>>

\* std::set is walked in the order of the names.
Before(m, n) == \E i, j \in DOMAIN Order : i <= j /\ Order[i] = m /\ Order[j] = n
First(d, D) == d \in D /\ \A e \in D : Before(d.name, e.name)

\* setLevel(), of the next logger; it takes no lock.
SetLevel(s, d) ==
    /\ job[s].at = "next"
    /\ First(d, IF job[s].new # {} THEN job[s].new ELSE job[s].old)
    /\ m_loggers' = [m_loggers EXCEPT ![d.name].level = d.level]
    /\ job' = [job EXCEPT ![s] = Job(IF d.formatter = <<>> THEN "clear" ELSE "formatter", d, 0,
                                     @.new \ {d}, @.old \ {d})]
    /\ UNCHANGED <<configVars, wr, fate>>

\* A call under the logger's lock, and the place behind it.
Call(s, at, lg, next) ==
    /\ job[s].at = at /\ ~ Locked(job[s].def.name)
    /\ m_loggers' = [m_loggers EXCEPT ![job[s].def.name] = lg]
    /\ job' = [job EXCEPT ![s] = next]
    /\ UNCHANGED <<configVars, wr, fate>>

\* The loop over the appenders goes on, or is over.
Adding(j, n) ==
    IF n = Len(j.def.appenders) THEN Job("next", Absent, 0, j.new, j.old) ELSE Job("add", j.def, n, j.new, j.old)

\* setFormatter(), clearAppenders() and an addAppender() for each appender.
Reconfigure(s) ==
    LET j == job[s]
        lg == m_loggers[j.def.name]
    IN  \/ Call(s, "formatter", setFormatter(lg, j.def.formatter), Job("clear", j.def, 0, j.new, j.old))
        \/ Call(s, "clear", clearAppenders(lg), Adding(j, 0))
        \/ Call(s, "add", addAppender(lg, NewAppender(j.def.appenders[j.n + 1])), Adding(j, j.n + 1))

ListenerDone(s) == job[s] = NoJob

-----------------------------------------------------------------------------
(* SYLAR_LOG_LEVEL, ~LogEventWrap() and Logger::log() *)

Goto(w, at) == wr' = [wr EXCEPT ![w].at = at]
Back(w, what) == wr' = [wr EXCEPT ![w] = NoEvent] /\ fate' = [fate EXCEPT ![w] = what]
Passes(name, level) == level >= m_loggers[name].level

\* The macro looks at the level, log() does so again.
LogEvent(w, name, level) ==
    /\ wr[w].at = "idle" /\ Passes(name, level)
    /\ wr' = [wr EXCEPT ![w] = [at |-> "check", name |-> name, level |-> level]]
    /\ fate' = [fate EXCEPT ![w] = "none"]
    /\ UNCHANGED <<configVars, m_loggers, job>>

LogCheck(w) ==
    /\ wr[w].at = "check"
    /\ IF Passes(wr[w].name, wr[w].level) THEN Goto(w, "write") /\ UNCHANGED fate ELSE Back(w, "filtered")
    /\ UNCHANGED <<configVars, m_loggers, job>>

\* Each appender's log() looks at its own level.
Takes(a, level) == level >= a.level
Output(w, name) ==
    IF \E i \in DOMAIN m_loggers[name].appenders : Takes(m_loggers[name].appenders[i], wr[w].level)
    THEN "written" ELSE "filtered"

\* The root logger has no appender because a listener is at work on it or the
\* configuration has dismissed it, or because two listeners met.
Excused ==
    \/ overlapped \/ m_loggers[Root].level = Removed
    \/ \E s \in Setters : job[s].at # "next" /\ job[s].def.name = Root
Dropped(w) == Back(w, IF Excused THEN "dropped" ELSE "lost")

\* Mutant: without appenders nothing is done.
WithoutAppendersNothing(w) == Dropped(w)

\* Without appenders the root logger is asked.
WithoutAppenders(w) ==
    IF wr[w].name # Root THEN Goto(w, "rootcheck") /\ UNCHANGED fate ELSE Dropped(w)

LogWrite(w) ==
    /\ wr[w].at = "write" /\ ~ Locked(wr[w].name)
    /\ IF m_loggers[wr[w].name].appenders # <<>> THEN Back(w, Output(w, wr[w].name)) ELSE WithoutAppenders(w)
    /\ UNCHANGED <<configVars, m_loggers, job>>

LogRootCheck(w) ==
    /\ wr[w].at = "rootcheck"
    /\ IF Passes(Root, wr[w].level) THEN Goto(w, "rootwrite") /\ UNCHANGED fate ELSE Back(w, "filtered")
    /\ UNCHANGED <<configVars, m_loggers, job>>

LogRootWrite(w) ==
    /\ wr[w].at = "rootwrite"
    /\ IF m_loggers[Root].appenders # <<>> THEN Back(w, Output(w, Root)) ELSE Dropped(w)
    /\ UNCHANGED <<configVars, m_loggers, job>>

-----------------------------------------------------------------------------
(* User code on its own loggers *)

\* The patterns of the formatters that users give to appenders.
Valid == {p \in UserPatterns : ~ isError(p)}

UserOp(lg) ==
    {setFormatter(lg, p) : p \in UserPatterns}
        \cup (IF lg.appenders = <<>>
              THEN {addAppender(lg, Appender("StdoutLogAppender", DEBUG, p)) : p \in Valid \cup {Absent}}
              ELSE {delAppender(lg, 1), clearAppenders(lg)})

UserStep(name) ==
    /\ ~ Locked(name)
    /\ \E lg \in UserOp(m_loggers[name]) : m_loggers' = [m_loggers EXCEPT ![name] = lg]
    /\ UNCHANGED <<configVars, job, wr, fate>>

-----------------------------------------------------------------------------
SetterStep(s) ==
    \/ \E doc \in Docs : fromString(s, doc)
    \/ onChange(s)
    \/ \E d \in job[s].new \cup job[s].old : SetLevel(s, d)
    \/ Reconfigure(s)
    \/ \E l \in Keys \ {1} : CallListener(s, l) /\ UNCHANGED logVars
    \/ ListenerDone(s) /\ ListenerReturns(s) /\ UNCHANGED logVars
    \/ (EndLoop(s) \/ WriteValue(s)) /\ UNCHANGED logVars

WriterStep(w) ==
    \/ \E name \in Names, level \in EventLevels : LogEvent(w, name, level)
    \/ LogCheck(w) \/ LogWrite(w) \/ LogRootCheck(w) \/ LogRootWrite(w)

ListenerStep == (addListener \/ \E l \in Keys : delListener(l)) /\ UNCHANGED logVars

Next ==
    \/ \E s \in Setters : SetterStep(s)
    \/ \E w \in Writers : WriterStep(w)
    \/ \E name \in UserNames : UserStep(name)
    \/ ListenerStep

Spec == Init /\ [][Next]_vars

-----------------------------------------------------------------------------
(* Properties *)

\* Type correctness; every appender of a logger has a formatter that was
\* parsed without an error, which its log() calls without looking.
TypeOK ==
    /\ \A n \in Names :
          /\ m_loggers[n].level \in Nat /\ ~ isError(m_loggers[n].formatter)
          /\ \A i \in DOMAIN m_loggers[n].appenders :
                /\ m_loggers[n].appenders[i].formatter # Absent
                /\ ~ isError(m_loggers[n].appenders[i].formatter)
    /\ \A s \in Setters : set[s].at \in {"idle", "loop", "call", "write"}
    /\ m_cbs \subseteq Keys /\ s_fun_id \in Keys
    /\ wr \in [Writers -> [at: {"idle", "check", "write", "rootcheck", "rootwrite"}, name: Names, level: EventLevels \cup {DEBUG}]]
    /\ fate \in [Writers -> {"none", "filtered", "written", "dropped", "lost"}]

\* The appender is what its define says, and writes as its logger does unless
\* its define has a valid pattern.
Matches(lg, a, d) ==
    /\ a.type = d.type /\ a.level = d.level
    /\ IF d.formatter # <<>> /\ ~ isError(d.formatter) THEN a.formatter = d.formatter ELSE a.formatter = lg.formatter

Configured(lg, d) ==
    /\ lg.level = d.level
    /\ d.formatter # <<>> /\ ~ isError(d.formatter) => lg.formatter = d.formatter
    /\ Len(lg.appenders) = Len(d.appenders)
    /\ \A i \in DOMAIN d.appenders : Matches(lg, lg.appenders[i], d.appenders[i])

\* When no change is in progress the loggers are what "logs" says, although
\* they are changed call by call, and only where the new value differs from the
\* old one: level, pattern, and appenders in their order.  A pattern that is
\* missing or in error leaves the logger's.
ConfigApplied == Quiet /\ ~ overlapped => \A d \in m_val : Configured(m_loggers[d.name], d)

\* An event that its logger let pass finds an appender, its logger's old or new
\* one or the root logger's, whatever call of the listener comes between log()'s
\* test of the level and its look at the appenders.  Only while the root
\* logger's own appenders are replaced, or when "logs" has dismissed it, is
\* there none.
NoEventLost == \A w \in Writers : fate[w] # "lost"

=============================================================================
