------------------------------ MODULE MCSignal ------------------------------
(***************************************************************************)
(* Signal for TLC.  As in examples/src/signal.cpp, one handler, on_vel,    *)
(* emits another topic.                                                    *)
(***************************************************************************)
EXTENDS Signal

CONSTANTS vel, over, onVel, onOver1, onOver2

MCTopics == {vel, over}
MCHandlers == {onVel, onOver1, onOver2}

OwnTopic   == [h \in Handlers |-> IF h = onVel THEN vel ELSE over]
OnVelEmits == [h \in Handlers |-> IF h = onVel THEN over ELSE NoTopic]
=============================================================================
