--------------------------- MODULE AtomicService ----------------------------
(***************************************************************************)
(* What a service registry promises: a name gets at most one handler, once *)
(* and for all, and a call answers with that handler, or with the          *)
(* exception if the name has none yet.                                     *)
(***************************************************************************)
CONSTANTS Service, Handler, Names, Nobody

VARIABLES
    registry,   \* the handler of each service, or Nobody
    last        \* the last answer: the service and its handler, or Nobody

Init ==
    /\ registry = [s \in Service |-> Nobody]
    /\ last = <<>>

Register(h) ==
    /\ registry[Names[h]] = Nobody
    /\ registry' = [registry EXCEPT ![Names[h]] = h]
    /\ UNCHANGED last

Answer(s) ==
    /\ last' = <<s, registry[s]>>
    /\ UNCHANGED registry

Next == (\E h \in Handler : Register(h)) \/ (\E s \in Service : Answer(s))

Spec == Init /\ [][Next]_<<registry, last>>
=============================================================================
