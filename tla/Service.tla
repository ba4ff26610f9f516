------------------------------ MODULE Service -------------------------------
(***************************************************************************)
(* ccl2::Service over std::shared_mutex (include/ccl2/service.h), that is  *)
(* ConcurrentServiceProvider: call() holds the mutex shared while the      *)
(* handler runs, register_handler() holds it alone.  A handler may itself  *)
(* call a service or register one, which locks the mutex a second time.    *)
(*                                                                         *)
(* std::shared_mutex is external; Policies is as in module Signal.         *)
(***************************************************************************)
EXTENDS Integers, Sequences

CONSTANTS
    Threads,
    Services,
    Handlers,       \* one per call of register_handler()
    Names,          \* Names[h]: the service that handler h is registered as
    CallsOf,        \* CallsOf[h]: the services that handler h may call
    Registers,      \* Registers[h]: the handlers that handler h may register
    Policies,       \* whether a waiting writer may hold up new readers
    MaxCalls,       \* bound: calls of call(), those of the handlers aside
    NoHandler, NoThread

ASSUME ServiceAssumption ==
    /\ Names \in [Handlers -> Services]
    /\ CallsOf \in [Handlers -> SUBSET Services]
    /\ Registers \in [Handlers -> SUBSET Handlers]
    /\ Policies \in (SUBSET BOOLEAN) \ {{}}
    /\ MaxCalls \in Nat
    /\ NoHandler \notin Handlers
    /\ NoThread \notin Threads

VARIABLES
    prefersWriters, \* a waiting writer holds up new readers
    registry_,  \* the handler of each service
    writer,     \* who holds mtx_ alone
    wants,      \* what each thread waits to do: {}, or {an operation}
    frames,     \* per thread: the calls it is inside, innermost first
    calls,      \* call() called so far
    used,       \* handlers given to register_handler() so far
    last        \* history: the last call that ended and who answered it

vars == <<prefersWriters, registry_, writer, wants, frames, calls, used, last>>

CallOf(s)     == [service |-> s, handler |-> NoHandler]
RegisterOf(h) == [service |-> Names[h], handler |-> h]
Operations    == {CallOf(s) : s \in Services} \cup {RegisterOf(h) : h \in Handlers}

\* A call under way: its handler, and what that may still do.
Frames == [handler : Handlers, todo : SUBSET Operations]

Init ==
    /\ prefersWriters \in Policies
    /\ registry_ = [s \in Services |-> NoHandler]
    /\ writer = NoThread
    /\ wants = [p \in Threads |-> {}]
    /\ frames = [p \in Threads |-> <<>>]
    /\ calls = 0
    /\ used = {}
    /\ last = <<>>

-----------------------------------------------------------------------------
(* mtx_. *)

CanWrite == writer = NoThread /\ \A q \in Threads : frames[q] = <<>>

\* Mutated form of CanRead: the reader lock is left at its default, MutexLock.
ExclusiveCall == CanWrite

Reads(p)  == \E op \in wants[p] : op.handler = NoHandler
Writes(p) == \E op \in wants[p] : op.handler # NoHandler

CanRead ==
    /\ writer = NoThread
    /\ prefersWriters => \A q \in Threads : ~Writes(q)

Idle(p) == frames[p] = <<>> /\ wants[p] = {}

-----------------------------------------------------------------------------
(* call(). *)

Call(p, s) ==
    /\ Idle(p)
    /\ calls < MaxCalls
    /\ calls' = calls + 1
    /\ wants' = [wants EXCEPT ![p] = {CallOf(s)}]
    /\ UNCHANGED <<prefersWriters, registry_, writer, frames, used, last>>

\* The shared lock is taken and the handler, which was found, is invoked.
Invoke(p) ==
    /\ CanRead
    /\ Reads(p)
    /\ \E op \in wants[p] :
          LET h == registry_[op.service]
          IN /\ h # NoHandler
             /\ frames' = [frames EXCEPT ![p] =
                  <<[handler |-> h,
                     todo |-> {CallOf(s) : s \in CallsOf[h]} \cup
                              {RegisterOf(g) : g \in Registers[h]}]>> \o @]
    /\ wants' = [wants EXCEPT ![p] = {}]
    /\ UNCHANGED <<prefersWriters, registry_, writer, calls, used, last>>

\* "expect svc" is thrown: it leaves every handler on its way, and every
\* lock is released.
ExpectSvc(p) ==
    /\ CanRead
    /\ Reads(p)
    /\ \E op \in wants[p] :
          /\ registry_[op.service] = NoHandler
          /\ last' = <<op.service, NoHandler>>
    /\ frames' = [frames EXCEPT ![p] = <<>>]
    /\ wants' = [wants EXCEPT ![p] = {}]
    /\ UNCHANGED <<prefersWriters, registry_, writer, calls, used>>

\* The handler that runs makes a call of its own.
HandlerStep(p, op) ==
    /\ frames[p] # <<>>
    /\ wants[p] = {}
    /\ op \in Head(frames[p]).todo
    /\ wants' = [wants EXCEPT ![p] = {op}]
    /\ frames' = [frames EXCEPT ![p][1].todo = @ \ {op}]
    /\ used' = used \cup ({op.handler} \ {NoHandler})
    /\ UNCHANGED <<prefersWriters, registry_, writer, calls, last>>

\* The handler returns, and call() unlocks.
Return(p) ==
    /\ frames[p] # <<>>
    /\ wants[p] = {}
    /\ last' = <<Names[Head(frames[p]).handler], Head(frames[p]).handler>>
    /\ frames' = [frames EXCEPT ![p] = Tail(@)]
    /\ UNCHANGED <<prefersWriters, registry_, writer, wants, calls, used>>

-----------------------------------------------------------------------------
(* register_handler(). *)

Register(p, h) ==
    /\ Idle(p)
    /\ h \notin used
    /\ used' = used \cup {h}
    /\ wants' = [wants EXCEPT ![p] = {RegisterOf(h)}]
    /\ UNCHANGED <<prefersWriters, registry_, writer, frames, calls, last>>

WriteLock(p) ==
    /\ Writes(p)
    /\ CanWrite
    /\ writer' = p
    /\ UNCHANGED <<prefersWriters, registry_, wants, frames, calls, used, last>>

\* Mutated form of WriteUnlock: a service may be registered again.
WriteOver(p) ==
    /\ writer = p
    /\ \E op \in wants[p] : registry_' = [registry_ EXCEPT ![op.service] = op.handler]
    /\ wants' = [wants EXCEPT ![p] = {}]
    /\ writer' = NoThread
    /\ UNCHANGED <<prefersWriters, frames, calls, used, last>>

\* Mutated form of WriteUnlock: the lock is not released by the exception.
KeepLockOnDup(p) ==
    /\ writer = p
    /\ \E op \in wants[p] :
          /\ registry_' = [registry_ EXCEPT ![op.service] =
                             IF @ = NoHandler THEN op.handler ELSE @]
          /\ writer' = IF registry_[op.service] = NoHandler THEN NoThread ELSE p
    /\ wants' = [wants EXCEPT ![p] = {}]
    /\ UNCHANGED <<prefersWriters, frames, calls, used, last>>

\* The service is registered, unless it is already, in which case "dup svc"
\* is thrown; either way the lock is released.
WriteUnlock(p) ==
    /\ writer = p
    /\ \E op \in wants[p] :
          registry_' = [registry_ EXCEPT ![op.service] =
                          IF @ = NoHandler THEN op.handler ELSE @]
    /\ wants' = [wants EXCEPT ![p] = {}]
    /\ writer' = NoThread
    /\ UNCHANGED <<prefersWriters, frames, calls, used, last>>

-----------------------------------------------------------------------------

Next ==
    \E p \in Threads :
        \/ Invoke(p) \/ ExpectSvc(p) \/ Return(p) \/ WriteLock(p) \/ WriteUnlock(p)
        \/ \E s \in Services : Call(p, s)
        \/ \E h \in Handlers : Register(p, h)
        \/ \E op \in Operations : HandlerStep(p, op)

Spec == Init /\ [][Next]_vars

-----------------------------------------------------------------------------
(* Safety. *)

\* The type invariant: a thread waits for one operation at most, and nobody
\* holds mtx_ beside a writer.
TypeOK ==
    /\ prefersWriters \in Policies
    /\ registry_ \in [Services -> Handlers \cup {NoHandler}]
    /\ writer \in Threads \cup {NoThread}
    /\ wants \in [Threads -> {{}} \cup {{op} : op \in Operations}]
    /\ frames \in [Threads -> Seq(Frames)]
    /\ calls \in 0 .. MaxCalls
    /\ used \subseteq Handlers
    /\ last \in {<<>>} \cup (Services \X (Handlers \cup {NoHandler}))
    /\ writer # NoThread => Writes(writer) /\ \A p \in Threads : frames[p] = <<>>

\* The abstract registry.
Atomic == INSTANCE AtomicService WITH
              Service <- Services, Handler <- Handlers, Nobody <- NoHandler,
              registry <- registry_

\* Of the registrations of a name that race, one wins for good, and a call
\* answers as if the registry were looked up at the moment it ends.
ImplementsAtomicService == Atomic!Spec

\* Thread p is inside a call that cannot go on.
Blocked(p) == (Writes(p) /\ writer # p /\ ~CanWrite) \/ (Reads(p) /\ ~CanRead)

\* A handler registers a service, for which its own call is in the way.
HandlerRegisters == \E p \in Threads : frames[p] # <<>> /\ Writes(p)

\* Calls wait on one another for ever only because of a handler: one that
\* registers a service, or one that calls another while a writer waits and
\* the mutex lets the writer go first.
OnlyHandlersDeadlock ==
    (/\ \E p \in Threads : ~Idle(p)
     /\ \A p \in Threads : Idle(p) \/ Blocked(p))
        => \/ HandlerRegisters
           \/ /\ prefersWriters
              /\ \E p \in Threads : frames[p] # <<>> /\ Reads(p)
              /\ \E p \in Threads : Writes(p)

\* The lock is held as its rules allow, and only a handler can bring the
\* program to a standstill.
RegistryInv == TypeOK /\ OnlyHandlersDeadlock

-----------------------------------------------------------------------------
(* Liveness. *)

\* A handler goes on, and a lock that can be had again and again is granted.
Fairness ==
    \A p \in Threads :
        /\ WF_vars(Return(p) \/ \E op \in Operations : HandlerStep(p, op))
        /\ SF_vars(Invoke(p) \/ ExpectSvc(p))
        /\ SF_vars(WriteLock(p))
        /\ WF_vars(WriteUnlock(p))

FairSpec == Spec /\ Fairness

\* Every call of call() and register_handler() returns or throws, with a
\* mutex that lets readers pass, and unless a handler registers a service.
EveryCallReturns ==
    \A p \in Threads : ~Idle(p) ~> Idle(p) \/ prefersWriters \/ HandlerRegisters
=============================================================================
