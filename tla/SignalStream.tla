---------------------------- MODULE SignalStream ----------------------------
(***************************************************************************)
(* SignalStream<Signature> (examples/src/coro/async_signal2.cpp): a topic  *)
(* of a Signal read as a stream.  The constructor makes an AsyncQueue and  *)
(* registers a handler that holds it weakly; emit() calls the handler,     *)
(* which pushes if the queue is still there; async_wait() is pop().        *)
(*                                                                         *)
(* The producers emit, the consumer makes the stream, reads it, and may    *)
(* drop it between two reads.  The signal's registry, which has no remove  *)
(* here, is modelled by whether the handler is in it; the queue is that of *)
(* module AsyncQueue, which leaves the handler alone.                      *)
(***************************************************************************)
EXTENDS AsyncQueue

VARIABLES
    registered, \* the handler is in the signal's registry
    dropped     \* the stream, and with it the first owner, is gone

svars == <<vars, registered, dropped>>

StreamInit == Init /\ registered = FALSE /\ dropped = FALSE

\* The producers inside the handler, each with a shared_ptr of its own.
Holders == {p \in Producers : pc[p] # "start"}

\* What weak_ptr::lock finds.
Alive == registered /\ (~dropped \/ Holders # {})

\* make_signal_stream, at the start of the coroutine that reads.
MakeStream(c) ==
    /\ ~registered
    /\ OnThread(c)
    /\ registered' = TRUE
    /\ UNCHANGED <<vars, dropped>>

\* ~SignalStream, between two reads: the coroutine ends.  The reader of the
\* example never ends; the weak_ptr in the handler is there for one that does.
DropStream(c) ==
    /\ Alive /\ ~dropped
    /\ OnThread(c) /\ pc[c] = "start"
    /\ dropped' = TRUE
    /\ running' = running \ {c}
    /\ UNCHANGED <<queue_mtx_, strandVars, timerWaits, ready, pc, calls, listVars, registered>>

\* emit() finds no handler, or one whose queue is gone.
EmitMissed(p) ==
    /\ ~Alive
    /\ pc[p] = "start" /\ OnThread(p) /\ HasWork(p)
    /\ calls' = [calls EXCEPT ![p] = @ + 1]
    /\ Finish(p, {})
    /\ UNCHANGED <<queue_mtx_, strandVars, timerWaits, pc, listVars, registered, dropped>>

\* The steps of the queue: a push is begun only by an emit() whose handler
\* has locked the queue, and a pop() only by the stream's reader.
QueueStep ==
    /\ Next
    /\ \A p \in Producers : calls'[p] # calls[p] => Alive /\ pc'[p] = "append"
    /\ \A c \in Consumers : pc'[c] # pc[c] => registered /\ ~dropped
    /\ UNCHANGED <<registered, dropped>>

StreamNext ==
    \/ QueueStep
    \/ \E c \in Consumers : MakeStream(c) \/ DropStream(c)
    \/ \E p \in Producers : EmitMissed(p)

\* The queue's own fairness; a coroutine that has a thread goes on.
StreamSpec ==
    /\ StreamInit /\ [][StreamNext]_svars
    /\ Fairness
    /\ \A c \in Consumers : WF_svars(MakeStream(c))
    /\ \A p \in Producers : SF_svars(EmitMissed(p))

-----------------------------------------------------------------------------
(* Safety. *)

\* The queue has been destroyed.
Destroyed == registered /\ ~Alive

\* Nothing is left that would touch a destroyed queue: no producer is in a
\* member function of it, and no lambda of wake(), which holds a bare this,
\* waits in its strand or runs.  It is the handler's shared_ptr that keeps
\* the queue until wake() has returned, and one pool thread that makes wake()
\* run its lambda before it returns.
NoDanglingWake ==
    /\ dropped => registered
    /\ Destroyed => /\ ~WakePending
                    /\ timerWaits = {}
                    /\ queue_mtx_ = NoActor

-----------------------------------------------------------------------------
(* Liveness. *)

InSeq(v, s) == \E i \in DOMAIN s : s[i] = v

\* What is emitted while the stream is there is read in the end, unless the
\* reader drops the stream first.
EveryEmitIsTaken == \A v \in Item : InSeq(v, pushed) ~> InSeq(v, taken) \/ dropped

\* When nobody emits any more the reader ends up waiting for an event, or
\* has dropped the stream: a read with nothing to return does not return.
ReaderComesToRest == <>[](dropped \/ \A c \in Consumers : pc[c] = "waiting")
=============================================================================
