---------------------------- MODULE AtomicSignal ----------------------------
(***************************************************************************)
(* What Signal promises: an emit() acts at one moment, on exactly the      *)
(* handlers that are registered for its topic at that moment.              *)
(***************************************************************************)
CONSTANTS Topic, Handler

VARIABLES
    registry,   \* the handlers registered for each topic
    last        \* the last emit: its topic and the handlers it ran

vars == <<registry, last>>

Init == registry = [t \in Topic |-> {}] /\ last = <<>>

Register(t, h) ==
    /\ registry' = [registry EXCEPT ![t] = @ \cup {h}]
    /\ UNCHANGED last

Remove(t) == registry' = [registry EXCEPT ![t] = {}] /\ UNCHANGED last

Emit(t) == last' = <<t, registry[t]>> /\ UNCHANGED registry

Next ==
    \E t \in Topic : (\E h \in Handler : Register(t, h)) \/ Remove(t) \/ Emit(t)

Spec == Init /\ [][Next]_vars
=============================================================================
