------------------------------ MODULE TaskPool ------------------------------
(***************************************************************************)
(* What the process-wide pool promises, with no thread and no io_context:  *)
(* a task handed to the pool starts at most once, and a call of run()      *)
(* stays in the pool until the pool has been shut down.                    *)
(***************************************************************************)
EXTENDS Sequences

CONSTANTS Task, Runner

VARIABLES
    submitted,  \* tasks handed to the pool
    begun,      \* the tasks that have started, in order
    open,       \* nobody has shut the pool down
    home        \* calls of run() that have returned

vars == <<submitted, begun, open, home>>

Init == submitted = {} /\ begun = <<>> /\ open = TRUE /\ home = {}

Submit(t) ==
    /\ t \notin submitted
    /\ submitted' = submitted \cup {t}
    /\ UNCHANGED <<begun, open, home>>

Start(t) ==
    /\ t \in submitted
    /\ \A i \in DOMAIN begun : begun[i] # t
    /\ begun' = Append(begun, t)
    /\ UNCHANGED <<submitted, open, home>>

\* A task of the pool that hands in another may find it done at once.
SubmitAndStart(t) ==
    /\ t \notin submitted
    /\ submitted' = submitted \cup {t}
    /\ begun' = Append(begun, t)
    /\ UNCHANGED <<open, home>>

Close == open /\ open' = FALSE /\ UNCHANGED <<submitted, begun, home>>

ReturnHome(m) ==
    /\ ~open
    /\ m \notin home
    /\ home' = home \cup {m}
    /\ UNCHANGED <<submitted, begun, open>>

Next ==
    \/ \E t \in Task : Submit(t) \/ Start(t) \/ SubmitAndStart(t)
    \/ Close
    \/ \E m \in Runner : ReturnHome(m)

Spec == Init /\ [][Next]_vars
=============================================================================
