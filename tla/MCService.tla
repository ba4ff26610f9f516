----------------------------- MODULE MCService ------------------------------
(***************************************************************************)
(* Service for TLC.  Two registrations race for one name, and the handler  *)
(* of the other, main, calls it and may register its second handler.      *)
(***************************************************************************)
EXTENDS Service

CONSTANTS main, helper, onMain, onHelper, onHelper2

MCServices == {main, helper}
MCHandlers == {onMain, onHelper, onHelper2}

MCNames       == [h \in Handlers |-> IF h = onMain THEN main ELSE helper]
MainCalls     == [h \in Handlers |-> IF h = onMain THEN {helper} ELSE {}]
MainRegisters == [h \in Handlers |-> IF h = onMain THEN {onHelper2} ELSE {}]
=============================================================================
