------------------------------- MODULE Signal -------------------------------
(***************************************************************************)
(* ccl2::Signal over std::shared_mutex (include/ccl2/signal.h), that is    *)
(* ConcurrentSignalProvider: emit() holds the mutex shared while it runs   *)
(* the handlers of a topic, register_handler() and remove() hold it alone. *)
(* A handler may itself emit, as on_vel does in examples/src/signal.cpp,   *)
(* which locks the mutex shared a second time.                             *)
(*                                                                         *)
(* std::shared_mutex is external.  Whether a new reader passes a waiting   *)
(* writer is left to the implementation, hence Policies.                   *)
(***************************************************************************)
EXTENDS Integers, Sequences, FiniteSets

CONSTANTS
    Threads,
    PoolThreads,    \* the threads that run the executor of emit_on()
    Topics,
    Handlers,       \* one per call of register_handler()
    Listens,        \* Listens[h]: the topic that handler h is registered for
    Emits,          \* Emits[h]: the topic that handler h emits, or NoTopic
    Policies,       \* whether a waiting writer may hold up new readers
    MaxCalls,       \* bound: calls of emit(), emit_on() and remove(), those of
                    \* the handlers aside
    NoTopic, NoHandler, NoThread

ASSUME SignalAssumption ==
    /\ PoolThreads \subseteq Threads
    /\ Listens \in [Handlers -> Topics]
    /\ Emits \in [Handlers -> Topics \cup {NoTopic}]
    /\ Policies \in (SUBSET BOOLEAN) \ {{}}
    /\ MaxCalls \in Nat
    /\ NoTopic \notin Topics
    /\ NoHandler \notin Handlers
    /\ NoThread \notin Threads

VARIABLES
    prefersWriters, \* a waiting writer holds up new readers
    registry_,  \* the handlers registered for each topic
    writer,     \* who holds mtx_ alone
    waiting,    \* what each thread waits to write: {}, or {a write}
    frames,     \* per thread: the emits it is inside, innermost first
    posted,     \* emits given to the executor by emit_on()
    calls,      \* emit(), emit_on() and remove() called so far
    used,       \* handlers registered so far
    last        \* history: the last emit that returned, with the handlers it ran

vars == <<prefersWriters, registry_, writer, waiting, frames, posted, calls, used, last>>

\* A write: registering h for t, or removing t.
Writes == [topic : Topics, handler : Handlers \cup {NoHandler}]

\* An emit under way: the handlers it has still to run, those it has run,
\* the one that runs, and whether that one has its own emit ahead.
Frames == [topic : Topics, todo : SUBSET Handlers, done : SUBSET Handlers,
           current : Handlers \cup {NoHandler}, nests : BOOLEAN]

Init ==
    /\ prefersWriters \in Policies
    /\ registry_ = [t \in Topics |-> {}]
    /\ writer = NoThread
    /\ waiting = [p \in Threads |-> {}]
    /\ frames = [p \in Threads |-> <<>>]
    /\ posted = <<>>
    /\ calls = 0
    /\ used = {}
    /\ last = <<>>

-----------------------------------------------------------------------------
(* mtx_. *)

\* Mutated form of CanRead: the reader lock is left at its default, MutexLock.
ExclusiveEmit == writer = NoThread /\ \A q \in Threads : frames[q] = <<>>

CanRead ==
    /\ writer = NoThread
    /\ prefersWriters => \A q \in Threads : waiting[q] = {}

CanWrite == writer = NoThread /\ \A q \in Threads : frames[q] = <<>>

Idle(p) == frames[p] = <<>> /\ waiting[p] = {} /\ writer # p

-----------------------------------------------------------------------------
(* emit(). *)

\* The shared lock is taken, and the handlers of the topic looked up.
Enter(p, t) ==
    /\ CanRead
    /\ frames' = [frames EXCEPT ![p] =
         <<[topic |-> t, todo |-> registry_[t], done |-> {},
            current |-> NoHandler, nests |-> FALSE]>> \o @]
    /\ UNCHANGED <<prefersWriters, registry_, writer, waiting, used, last>>

Emit(p, t) ==
    /\ Idle(p)
    /\ calls < MaxCalls
    /\ Enter(p, t)
    /\ calls' = calls + 1
    /\ UNCHANGED posted

\* emit() by the handler that runs: a frame on top of the one it is called in.
EmitNested(p) ==
    /\ frames[p] # <<>>
    /\ Head(frames[p]).nests
    /\ CanRead
    /\ LET f == Head(frames[p])
           t == Emits[f.current]
       IN frames' = [frames EXCEPT ![p] =
            <<[topic |-> t, todo |-> registry_[t], done |-> {},
               current |-> NoHandler, nests |-> FALSE],
              [f EXCEPT !.nests = FALSE]>> \o Tail(@)]
    /\ UNCHANGED <<prefersWriters, registry_, writer, waiting, posted, calls, used, last>>

\* The next handler of the range, in whatever order the multimap has.
Invoke(p, h) ==
    /\ frames[p] # <<>>
    /\ LET f == Head(frames[p])
       IN /\ f.current = NoHandler
          /\ h \in f.todo
          /\ frames' = [frames EXCEPT ![p] =
               <<[f EXCEPT !.todo = @ \ {h}, !.current = h,
                           !.nests = Emits[h] # NoTopic]>> \o Tail(@)]
    /\ UNCHANGED <<prefersWriters, registry_, writer, waiting, posted, calls, used, last>>

\* The handler returns to emit().
HandlerReturn(p) ==
    /\ frames[p] # <<>>
    /\ LET f == Head(frames[p])
       IN /\ f.current # NoHandler
          /\ ~f.nests
          /\ frames' = [frames EXCEPT ![p] =
               <<[f EXCEPT !.done = @ \cup {f.current}, !.current = NoHandler]>>
                   \o Tail(@)]
    /\ UNCHANGED <<prefersWriters, registry_, writer, waiting, posted, calls, used, last>>

\* Mutated form of EmitReturn: one handler of the topic is enough.
ReturnAfterFirst(p) ==
    /\ frames[p] # <<>>
    /\ LET f == Head(frames[p])
       IN /\ f.current = NoHandler
          /\ f.done # {} \/ f.todo = {}
          /\ last' = <<f.topic, f.done>>
    /\ frames' = [frames EXCEPT ![p] = Tail(@)]
    /\ UNCHANGED <<prefersWriters, registry_, writer, waiting, posted, calls, used>>

\* The range is exhausted: emit() unlocks and returns.
EmitReturn(p) ==
    /\ frames[p] # <<>>
    /\ LET f == Head(frames[p])
       IN /\ f.current = NoHandler
          /\ f.todo = {}
          /\ last' = <<f.topic, f.done>>
    /\ frames' = [frames EXCEPT ![p] = Tail(@)]
    /\ UNCHANGED <<prefersWriters, registry_, writer, waiting, posted, calls, used>>

\* emit_on(): the emit is bound and given to the executor, which runs it
\* later; the executor of a pool thread runs it in place, which is Emit.
EmitOn(p, t) ==
    /\ Idle(p)
    /\ p \notin PoolThreads
    /\ calls < MaxCalls
    /\ calls' = calls + 1
    /\ posted' = Append(posted, t)
    /\ UNCHANGED <<prefersWriters, registry_, writer, waiting, frames, used, last>>

\* A pool thread runs the emit at the front of the executor.
RunPosted(p) ==
    /\ Idle(p)
    /\ p \in PoolThreads
    /\ posted # <<>>
    /\ Enter(p, Head(posted))
    /\ posted' = Tail(posted)
    /\ UNCHANGED calls

-----------------------------------------------------------------------------
(* register_handler() and remove(). *)

Register(p, h) ==
    /\ Idle(p)
    /\ h \notin used
    /\ used' = used \cup {h}
    /\ waiting' = [waiting EXCEPT ![p] = {[topic |-> Listens[h], handler |-> h]}]
    /\ UNCHANGED <<prefersWriters, registry_, writer, frames, posted, calls, last>>

Remove(p, t) ==
    /\ Idle(p)
    /\ calls < MaxCalls
    /\ calls' = calls + 1
    /\ waiting' = [waiting EXCEPT ![p] = {[topic |-> t, handler |-> NoHandler]}]
    /\ UNCHANGED <<prefersWriters, registry_, writer, frames, posted, used, last>>

\* Mutated form of WriteLock: writers do not wait for readers.
WriteAmongReaders(p) ==
    /\ waiting[p] # {}
    /\ writer = NoThread
    /\ writer' = p
    /\ UNCHANGED <<prefersWriters, registry_, waiting, frames, posted, calls, used, last>>

\* The exclusive lock is granted.
WriteLock(p) ==
    /\ waiting[p] # {}
    /\ writer # p
    /\ CanWrite
    /\ writer' = p
    /\ UNCHANGED <<prefersWriters, registry_, waiting, frames, posted, calls, used, last>>

\* emplace, or erase of the topic's range; then the lock is released.
WriteUnlock(p) ==
    /\ writer = p
    /\ \E w \in waiting[p] :
          registry_' = [registry_ EXCEPT ![w.topic] =
                          IF w.handler = NoHandler THEN {} ELSE @ \cup {w.handler}]
    /\ waiting' = [waiting EXCEPT ![p] = {}]
    /\ writer' = NoThread
    /\ UNCHANGED <<prefersWriters, frames, posted, calls, used, last>>

-----------------------------------------------------------------------------

EmitNext(p) ==
    \/ EmitNested(p) \/ HandlerReturn(p) \/ EmitReturn(p) \/ RunPosted(p)
    \/ \E h \in Handlers : Invoke(p, h)
    \/ \E t \in Topics : Emit(p, t) \/ EmitOn(p, t)

WriteNext(p) ==
    \/ WriteLock(p) \/ WriteUnlock(p)
    \/ \E t \in Topics : Remove(p, t)
    \/ \E h \in Handlers : Register(p, h)

Next == \E p \in Threads : EmitNext(p) \/ WriteNext(p)

Spec == Init /\ [][Next]_vars

-----------------------------------------------------------------------------
(* Safety. *)

TypeOK ==
    /\ prefersWriters \in Policies
    /\ registry_ \in [Topics -> SUBSET Handlers]
    /\ writer \in Threads \cup {NoThread}
    /\ waiting \in [Threads -> SUBSET Writes]
    /\ frames \in [Threads -> Seq(Frames)]
    /\ posted \in Seq(Topics)
    /\ calls \in 0 .. MaxCalls
    /\ used \subseteq Handlers
    /\ last \in {<<>>} \cup (Topics \X SUBSET Handlers)

\* The range an emit iterates over is what is registered, all the time it
\* runs, the handlers' own emits included: an insertion or an erasure would
\* leave its iterators dangling.
RangeIsStable ==
    \A p \in Threads : \A i \in DOMAIN frames[p] :
        LET f == frames[p][i]
        IN f.todo \cup f.done \cup ({f.current} \ {NoHandler}) = registry_[f.topic]

\* Every frame of every thread is an emit over what is registered.
EmitInv == TypeOK /\ RangeIsStable

\* The abstract signal.
Atomic == INSTANCE AtomicSignal WITH
              Topic <- Topics, Handler <- Handlers, registry <- registry_

\* An emit acts as if it ran all its handlers at the moment it returns.
ImplementsAtomicSignal == Atomic!Spec

\* Thread p is inside a call that cannot go on.
Blocked(p) ==
    \/ waiting[p] # {} /\ writer # p /\ ~CanWrite
    \/ frames[p] # <<>> /\ Head(frames[p]).nests /\ ~CanRead

\* The only way for all calls to wait on one another is a handler that emits
\* while a writer waits, with a mutex that lets the writer go first.
OnlyNestingDeadlocks ==
    (/\ \E p \in Threads : ~Idle(p)
     /\ \A p \in Threads : Idle(p) \/ Blocked(p))
        => /\ prefersWriters
           /\ \E p \in Threads : frames[p] # <<>> /\ Head(frames[p]).nests
           /\ \E p \in Threads : waiting[p] # {}

-----------------------------------------------------------------------------
(* Liveness. *)

\* A handler returns, a thread inside a call goes on, and a lock that can be
\* had again and again is granted.
Fairness ==
    \A p \in Threads :
        /\ WF_vars(HandlerReturn(p) \/ EmitReturn(p) \/ \E h \in Handlers : Invoke(p, h))
        /\ SF_vars(EmitNested(p))
        /\ SF_vars(WriteLock(p))
        /\ WF_vars(WriteUnlock(p))
        /\ SF_vars(RunPosted(p))

FairSpec == Spec /\ Fairness

\* With a mutex that lets readers pass, every call of emit(),
\* register_handler() and remove() returns, and what emit_on() was given is
\* emitted.
EveryCallReturns ==
    /\ \A p \in Threads : ~Idle(p) ~> Idle(p) \/ prefersWriters
    /\ posted # <<>> ~> posted = <<>> \/ prefersWriters
=============================================================================
