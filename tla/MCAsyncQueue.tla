---------------------------- MODULE MCAsyncQueue ----------------------------
(* AsyncQueue for TLC; the .cfg files give the actors. *)
EXTENDS AsyncQueue
=============================================================================
