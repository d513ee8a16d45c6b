------------------------------- MODULE Config -------------------------------
(***************************************************************************)
(* One ConfigVar<T> of sylar (config.h): a value that several threads set, *)
(* and listeners that are told of each change before it is made.           *)
(* setValue() calls the listeners under the read lock, releases it, and    *)
(* writes the value under the write lock.                                  *)
(*                                                                         *)
(* Contract assumed of users: a listener neither throws nor calls this     *)
(* variable's setters, and clearListener() is not used.                    *)
(***************************************************************************)
EXTENDS Naturals

CONSTANTS
    Setters,        \* the threads that call setValue()
    Default,        \* the value the variable is made with
    MaxListeners,   \* bound: calls of addListener()
    MaxSets         \* bound: changes of the value

ASSUME ConfigAssumption == MaxListeners \in Nat \ {0} /\ MaxSets \in Nat

VARIABLES
    m_val,
    m_cbs,          \* the keys of the listeners
    s_fun_id,       \* the last key given out
    set,            \* each setter's place in setValue(), its value and the listeners left
    sets,           \* how often setValue() found a change to make
    told,           \* history: the value each listener knows
    late,           \* history: the listeners that came between a setter's two locks
    overlapped      \* history: two calls of setValue() have met

configVars == <<m_val, m_cbs, s_fun_id, set, sets, told, late, overlapped>>

Keys == 1..MaxListeners

Idle == [at |-> "idle", val |-> Default, todo |-> {}]

\* The first listener is there from the start.
ConfigInit ==
    /\ m_val = Default
    /\ m_cbs = {1} /\ s_fun_id = 1
    /\ set = [s \in Setters |-> Idle]
    /\ sets = 0
    /\ told = [l \in Keys |-> Default]
    /\ late = {}
    /\ overlapped = FALSE

\* The write lock is to be had.  (It is held within one action only.)
NoReader == \A s \in Setters : set[s].at \notin {"loop", "call"}

\* setValue(): a value that is already there changes nothing.
setValue(s, val) ==
    /\ set[s].at = "idle" /\ val # m_val
    /\ sets < MaxSets /\ sets' = sets + 1
    /\ set' = [set EXCEPT ![s] = [at |-> "loop", val |-> val, todo |-> m_cbs]]
    /\ overlapped' = (overlapped \/ \E r \in Setters : set[r].at # "idle")
    /\ UNCHANGED <<m_val, m_cbs, s_fun_id, told, late>>

\* The listeners in the order of their keys.
CallListener(s, l) ==
    /\ set[s].at = "loop" /\ l \in set[s].todo
    /\ \A k \in set[s].todo : l <= k
    /\ set' = [set EXCEPT ![s].at = "call", ![s].todo = @ \ {l}]
    /\ told' = [told EXCEPT ![l] = set[s].val]
    /\ late' = late \ {l}
    /\ UNCHANGED <<m_val, m_cbs, s_fun_id, sets, overlapped>>

ListenerReturns(s) ==
    /\ set[s].at = "call"
    /\ set' = [set EXCEPT ![s].at = "loop"]
    /\ UNCHANGED <<m_val, m_cbs, s_fun_id, told, late, sets, overlapped>>

\* The read lock is released ...
EndLoop(s) ==
    /\ set[s].at = "loop" /\ set[s].todo = {}
    /\ set' = [set EXCEPT ![s].at = "write"]
    /\ UNCHANGED <<m_val, m_cbs, s_fun_id, told, late, sets, overlapped>>

\* ... and the write lock taken.
WriteValue(s) ==
    /\ set[s].at = "write" /\ NoReader
    /\ m_val' = set[s].val
    /\ set' = [set EXCEPT ![s] = Idle]
    /\ UNCHANGED <<m_cbs, s_fun_id, told, late, sets, overlapped>>

\* The new listener's owner knows the value there is.
AddListener(free) ==
    /\ free
    /\ s_fun_id < MaxListeners
    /\ s_fun_id' = s_fun_id + 1
    /\ m_cbs' = m_cbs \cup {s_fun_id'}
    /\ told' = [told EXCEPT ![s_fun_id'] = m_val]
    /\ late' = IF \E s \in Setters : set[s].at = "write" THEN late \cup {s_fun_id'} ELSE late
    /\ UNCHANGED <<m_val, set, sets, overlapped>>

\* Mutant: addListener() does not wait for a setter that is in its loop.
addListenerAtOnce == AddListener(TRUE)

addListener == AddListener(NoReader)

\* The first listener's key is known to nobody.
delListener(l) ==
    /\ NoReader
    /\ l \in m_cbs \ {1}
    /\ m_cbs' = m_cbs \ {l}
    /\ UNCHANGED <<m_val, s_fun_id, set, told, late, sets, overlapped>>

-----------------------------------------------------------------------------
(* Properties *)

\* setValue() is not in progress anywhere.
Quiet == \A s \in Setters : set[s].at = "idle"

\* When no change is in progress, every listener was last told the value that
\* the variable has: none misses a change and none is told of one that is not
\* made.  Two calls of setValue() that met may leave the value of the one and
\* the listeners told of the other, and a listener that is added between a
\* setter's two locks is not told.
ListenersTold == Quiet /\ ~ overlapped => \A l \in m_cbs \ late : told[l] = m_val

=============================================================================
