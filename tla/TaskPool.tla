------------------------------ MODULE TaskPool ------------------------------
(***************************************************************************)
(* What a user of sylar's Scheduler relies on: tasks are submitted, run    *)
(* one step after another on some thread, may give way or wait, and end    *)
(* once; when the pool reports that it is closed (stop() has returned), no *)
(* task is left that is running or could run.                              *)
(***************************************************************************)
CONSTANT Tasks

VARIABLES
    status,  \* of every task
    closed   \* stop() has returned

vars == <<status, closed>>

Statuses == {"new", "pending", "running", "waiting", "ended"}

Init ==
    /\ status = [c \in Tasks |-> "new"]
    /\ closed = FALSE

Move(c, from, to) ==
    /\ ~ closed
    /\ status[c] = from
    /\ status' = [status EXCEPT ![c] = to]
    /\ UNCHANGED closed

Submit(c)  == Move(c, "new", "pending")
Run(c)     == Move(c, "pending", "running")
GiveWay(c) == Move(c, "running", "pending")
Wait(c)    == Move(c, "running", "waiting")
Wake(c)    == Move(c, "waiting", "pending")
Finish(c)  == Move(c, "running", "ended")

Close ==
    /\ ~ closed
    /\ \A c \in Tasks : status[c] \notin {"pending", "running"}
    /\ closed' = TRUE
    /\ UNCHANGED status

Next ==
    \/ Close
    \/ \E c \in Tasks :
          Submit(c) \/ Run(c) \/ GiveWay(c) \/ Wait(c) \/ Wake(c) \/ Finish(c)

Spec == Init /\ [][Next]_vars

=============================================================================
