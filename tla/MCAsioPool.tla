----------------------------- MODULE MCAsioPool -----------------------------
(* AsioPool for TLC; the .cfg files give the threads and tasks. *)
EXTENDS AsioPool
=============================================================================
