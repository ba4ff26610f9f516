--------------------------- MODULE MCSignalStream ---------------------------
(* SignalStream for TLC; the .cfg file gives the actors. *)
EXTENDS SignalStream
=============================================================================
