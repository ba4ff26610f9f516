---------------------------- MODULE FifoChannel ----------------------------
(***************************************************************************)
(* What AsyncQueue promises to the code that uses it, with no thread, no   *)
(* mutex and no timer: a log of everything pushed, in the order of the     *)
(* pushes, and the prefix of that log that some pop has handed over.  A    *)
(* pop takes the whole backlog or nothing.                                 *)
(***************************************************************************)
EXTENDS Sequences

CONSTANT Item

VARIABLES log, delivered

vars == <<log, delivered>>

Init == log = <<>> /\ delivered = <<>>

Push(v) == log' = Append(log, v) /\ UNCHANGED delivered

TakeAll == delivered # log /\ delivered' = log /\ UNCHANGED log

Next == (\E v \in Item : Push(v)) \/ TakeAll

Spec == Init /\ [][Next]_vars
=============================================================================
