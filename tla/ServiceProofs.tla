---------------------------- MODULE ServiceProofs ----------------------------
(***************************************************************************)
(* Theorems about Service, for every number of threads, services, handlers *)
(* and calls, whatever the handlers call and register and whichever policy *)
(* the mutex has: the first registration of a name wins for good, a call   *)
(* is answered by the handler of its name, and only handlers deadlock.     *)
(***************************************************************************)
EXTENDS Service, TLAPS, SequenceTheorems

-----------------------------------------------------------------------------
(* The inductive invariant. *)

\* A handler is registered as the service it was made for.
NamesInv == \A s \in Services : registry_[s] # NoHandler => Names[registry_[s]] = s

\* The calls whose handler is the one that is registered.
LiveFrames == {f \in Frames : registry_[Names[f.handler]] = f.handler}

\* A call runs the handler that is registered, however long it takes.
FramesInv == \A p \in Threads : frames[p] \in Seq(LiveFrames)

IInv == TypeOK /\ NamesInv /\ FramesInv

-----------------------------------------------------------------------------
(* Lemmas about operations and frames. *)

\* An operation is a call of a service or the registration of a handler
\* under its name, and its handler tells which.
LEMMA OperationKinds ==
  ASSUME NEW op \in Operations
  PROVE  /\ op.service \in Services
         /\ op.handler \in Handlers \cup {NoHandler}
         /\ op.handler # NoHandler => op.service = Names[op.handler]
<1>1. CASE \E s \in Services : op = CallOf(s)
  BY <1>1 DEF CallOf
<1>2. CASE \E h \in Handlers : op = RegisterOf(h)
  BY <1>2, ServiceAssumption DEF RegisterOf
<1> QED
  BY <1>1, <1>2 DEF Operations

\* A thread waits for one operation at most.
LEMMA OneWish ==
  ASSUME IInv, NEW p \in Threads
  PROVE  /\ wants[p] \subseteq Operations
         /\ \A v, w \in wants[p] : v = w
  BY DEF IInv, TypeOK

\* The innermost call of a thread runs a handler that is registered.
LEMMA InnermostFrame ==
  ASSUME IInv, NEW p \in Threads, frames[p] # <<>>
  PROVE  /\ Head(frames[p]) \in LiveFrames
         /\ Head(frames[p]) = frames[p][1]
         /\ Tail(frames[p]) \in Seq(LiveFrames)
         /\ 1 \in DOMAIN frames[p]
         /\ writer = NoThread
<1>1. frames[p] \in Seq(LiveFrames)
  BY DEF IInv, FramesInv
<1>2. Len(frames[p]) \in Nat \ {0} /\ DOMAIN frames[p] = 1 .. Len(frames[p])
  BY <1>1, EmptySeq, LenProperties
<1>3. Head(frames[p]) \in LiveFrames /\ Tail(frames[p]) \in Seq(LiveFrames)
  BY <1>1, HeadTailProperties
<1>4. writer = NoThread
  BY DEF IInv, TypeOK
<1> QED
  BY <1>2, <1>3, <1>4

\* A sequence of live frames is a sequence of frames.
LEMMA LiveIsTyped == Seq(LiveFrames) \subseteq Seq(Frames)
<1>1. LiveFrames \subseteq Frames
  BY DEF LiveFrames
<1> QED
  BY <1>1

\* A step that changes the stack of one thread, outside of any write, keeps
\* the invariants when the frames it leaves there are alive.
LEMMA StackStep ==
  ASSUME IInv, NEW p \in Threads, NEW stack \in Seq(LiveFrames),
         writer = NoThread, registry_' = registry_, writer' = writer,
         frames' = [frames EXCEPT ![p] = stack]
  PROVE  /\ frames' \in [Threads -> Seq(Frames)]
         /\ NamesInv' /\ FramesInv'
         /\ writer' # NoThread =>
               Writes(writer)' /\ \A q \in Threads : frames'[q] = <<>>
<1>1. frames' \in [Threads -> Seq(Frames)]
  BY LiveIsTyped DEF IInv, TypeOK
<1>2. \A q \in Threads : frames'[q] = IF q = p THEN stack ELSE frames[q]
  BY DEF IInv, TypeOK
<1>3. LiveFrames' = LiveFrames
  BY DEF LiveFrames
<1>4. FramesInv'
  BY <1>2, <1>3 DEF IInv, FramesInv
<1>5. NamesInv'
  BY DEF IInv, NamesInv
<1> QED
  BY <1>1, <1>4, <1>5

-----------------------------------------------------------------------------
(* The steps of call(). *)

\* What Invoke pushes is a call of the handler that is registered.
LEMMA InvokeStep ==
  ASSUME IInv, NEW p \in Threads, Invoke(p)
  PROVE  IInv'
<1>1. PICK op \in wants[p] :
         LET h == registry_[op.service]
         IN /\ h # NoHandler
            /\ frames' = [frames EXCEPT ![p] =
                 <<[handler |-> h,
                    todo |-> {CallOf(s) : s \in CallsOf[h]} \cup
                             {RegisterOf(g) : g \in Registers[h]}]>> \o @]
  BY DEF Invoke
<1> DEFINE h == registry_[op.service]
           todo == {CallOf(s) : s \in CallsOf[h]} \cup {RegisterOf(g) : g \in Registers[h]}
           f == [handler |-> h, todo |-> todo]
           stack == <<f>> \o frames[p]
<1>2. /\ h \in Handlers /\ registry_[Names[h]] = h
  <2>1. op.service \in Services
    BY OneWish, OperationKinds
  <2> QED
    BY <1>1, <2>1 DEF IInv, TypeOK, NamesInv
<1>3. todo \subseteq Operations
  <2> HIDE DEF h
  <2> QED
    BY <1>2, ServiceAssumption DEF Operations
<1>4. f \in LiveFrames
  <2> HIDE DEF h, todo
  <2> QED
    BY <1>2, <1>3 DEF LiveFrames, Frames
<1>5. stack \in Seq(LiveFrames)
  <2> HIDE DEF f
  <2>1. frames[p] \in Seq(LiveFrames) /\ <<f>> \in Seq(LiveFrames)
    BY <1>4 DEF IInv, FramesInv
  <2> QED
    BY <2>1, ConcatProperties
<1>6. /\ frames' = [frames EXCEPT ![p] = stack]
      /\ writer = NoThread /\ registry_' = registry_ /\ writer' = writer
  BY <1>1 DEF Invoke, CanRead
<1>7. wants' \in [Threads -> {{}} \cup {{o} : o \in Operations}]
  BY DEF Invoke, IInv, TypeOK
<1> HIDE DEF stack
<1>8. /\ frames' \in [Threads -> Seq(Frames)]
      /\ NamesInv' /\ FramesInv'
      /\ writer' # NoThread =>
            Writes(writer)' /\ \A q \in Threads : frames'[q] = <<>>
  BY <1>5, <1>6, StackStep
<1> QED
  BY <1>7, <1>8 DEF Invoke, IInv, TypeOK

\* The exception unwinds the whole stack, and answers for a service that
\* has no handler.
LEMMA ExpectSvcStep ==
  ASSUME IInv, NEW p \in Threads, ExpectSvc(p)
  PROVE  /\ IInv'
         /\ \E s \in Services : last' = <<s, registry_[s]>>
<1>1. PICK op \in wants[p] : /\ registry_[op.service] = NoHandler
                             /\ last' = <<op.service, NoHandler>>
  BY DEF ExpectSvc
<1>2. op.service \in Services
  BY OneWish, OperationKinds
<1>3. wants' \in [Threads -> {{}} \cup {{o} : o \in Operations}]
  BY DEF ExpectSvc, IInv, TypeOK
<1>4. /\ frames' \in [Threads -> Seq(Frames)]
      /\ NamesInv' /\ FramesInv'
      /\ writer' # NoThread =>
            Writes(writer)' /\ \A q \in Threads : frames'[q] = <<>>
  <2>1. <<>> \in Seq(LiveFrames)
    BY EmptySeq
  <2> QED
    BY <2>1, StackStep DEF ExpectSvc, CanRead
<1>5. last' \in Services \X (Handlers \cup {NoHandler})
  BY <1>1, <1>2
<1> QED
  BY <1>1, <1>2, <1>3, <1>4, <1>5 DEF ExpectSvc, IInv, TypeOK

\* A handler goes on to its next operation; its frame stays alive.
LEMMA HandlerStepStep ==
  ASSUME IInv, NEW p \in Threads, NEW op \in Operations, HandlerStep(p, op)
  PROVE  IInv'
<1> DEFINE f == frames[p][1]
           g == [f EXCEPT !.todo = @ \ {op}]
           stack == [frames[p] EXCEPT ![1] = g]
<1>1. /\ frames[p] # <<>> /\ frames[p] \in Seq(LiveFrames)
      /\ f \in LiveFrames /\ 1 \in DOMAIN frames[p]
  <2>1. frames[p] # <<>> /\ frames[p] \in Seq(LiveFrames)
    BY DEF HandlerStep, IInv, FramesInv
  <2>2. f \in LiveFrames /\ 1 \in DOMAIN frames[p]
    BY <2>1, InnermostFrame
  <2> QED
    BY <2>1, <2>2
<1>2. g \in LiveFrames
  <2> HIDE DEF f
  <2> QED
    BY <1>1 DEF LiveFrames, Frames
<1>3. stack \in Seq(LiveFrames)
  <2> HIDE DEF g
  <2> QED
    BY <1>1, <1>2, ExceptSeq
<1>4. frames' = [frames EXCEPT ![p] = stack]
  BY DEF HandlerStep
<1>5. writer = NoThread /\ registry_' = registry_ /\ writer' = writer
  BY <1>1, InnermostFrame DEF HandlerStep
<1>6. wants' \in [Threads -> {{}} \cup {{o} : o \in Operations}]
  BY DEF HandlerStep, IInv, TypeOK
<1>7. used' \subseteq Handlers
  BY OperationKinds DEF HandlerStep, IInv, TypeOK
<1> HIDE DEF stack
<1>8. /\ frames' \in [Threads -> Seq(Frames)]
      /\ NamesInv' /\ FramesInv'
      /\ writer' # NoThread =>
            Writes(writer)' /\ \A q \in Threads : frames'[q] = <<>>
  BY <1>3, <1>4, <1>5, StackStep
<1> QED
  BY <1>6, <1>7, <1>8 DEF HandlerStep, IInv, TypeOK

\* A call that returns was answered by the handler of its service.
LEMMA ReturnStep ==
  ASSUME IInv, NEW p \in Threads, Return(p)
  PROVE  /\ IInv'
         /\ \E s \in Services : last' = <<s, registry_[s]>>
<1> DEFINE f == Head(frames[p])
           stack == Tail(frames[p])
<1>1. f \in LiveFrames /\ stack \in Seq(LiveFrames) /\ writer = NoThread
  BY InnermostFrame DEF Return
<1>2. /\ Names[f.handler] \in Services
      /\ f.handler \in Handlers /\ f.handler = registry_[Names[f.handler]]
  <2> HIDE DEF f
  <2> QED
    BY <1>1, ServiceAssumption DEF LiveFrames, Frames
<1>3. last' = <<Names[f.handler], f.handler>>
  BY DEF Return
<1>4. /\ frames' \in [Threads -> Seq(Frames)]
      /\ NamesInv' /\ FramesInv'
      /\ writer' # NoThread =>
            Writes(writer)' /\ \A q \in Threads : frames'[q] = <<>>
  <2>1. /\ frames' = [frames EXCEPT ![p] = stack]
        /\ registry_' = registry_ /\ writer' = writer
    BY DEF Return
  <2> HIDE DEF stack
  <2> QED
    BY <1>1, <2>1, StackStep
<1>5. /\ last' \in Services \X (Handlers \cup {NoHandler})
      /\ \E s \in Services : last' = <<s, registry_[s]>>
  <2> HIDE DEF f
  <2> QED
    BY <1>2, <1>3
<1> QED
  BY <1>4, <1>5 DEF Return, IInv, TypeOK

-----------------------------------------------------------------------------
(* The steps of register_handler(), and the call that begins. *)

\* An idle thread, which is not the writer, wants one operation.
LEMMA AskStep ==
  ASSUME IInv, NEW p \in Threads, Idle(p), NEW op \in Operations,
         wants' = [wants EXCEPT ![p] = {op}],
         registry_' = registry_, writer' = writer, frames' = frames
  PROVE  /\ wants' \in [Threads -> {{}} \cup {{o} : o \in Operations}]
         /\ NamesInv' /\ FramesInv'
         /\ writer' # NoThread =>
               Writes(writer)' /\ \A q \in Threads : frames'[q] = <<>>
<1>1. /\ wants' \in [Threads -> {{}} \cup {{o} : o \in Operations}]
      /\ \A q \in Threads : q # p => wants'[q] = wants[q]
  BY DEF IInv, TypeOK
<1>2. writer # p
  BY ServiceAssumption DEF IInv, TypeOK, Idle, Writes
<1>3. NamesInv' /\ FramesInv'
  BY DEF IInv, NamesInv, FramesInv, LiveFrames
<1>4. writer # NoThread => Writes(writer)' /\ \A q \in Threads : frames'[q] = <<>>
  BY <1>1, <1>2 DEF IInv, TypeOK, Writes
<1> QED
  BY <1>1, <1>3, <1>4

\* The registration either wins, the service being free, or changes nothing;
\* no call is under way in which the handler could change.
LEMMA WriteUnlockStep ==
  ASSUME IInv, NEW p \in Threads, WriteUnlock(p)
  PROVE  /\ IInv'
         /\ \/ registry_' = registry_
            \/ \E h \in Handlers : /\ registry_[Names[h]] = NoHandler
                                   /\ registry_' = [registry_ EXCEPT ![Names[h]] = h]
<1>1. writer = p /\ p # NoThread
  BY ServiceAssumption DEF WriteUnlock
<1>2. Writes(p) /\ \A q \in Threads : frames[q] = <<>> /\ frames'[q] = <<>>
  BY <1>1 DEF IInv, TypeOK, WriteUnlock
<1>3. PICK op \in wants[p] :
         registry_' = [registry_ EXCEPT ![op.service] =
                         IF @ = NoHandler THEN op.handler ELSE @]
  BY DEF WriteUnlock
<1>4. /\ op.handler \in Handlers /\ op.service = Names[op.handler]
      /\ op.service \in Services
  BY <1>2, OneWish, OperationKinds DEF Writes
<1>5. \/ registry_' = registry_
      \/ \E h \in Handlers : /\ registry_[Names[h]] = NoHandler
                             /\ registry_' = [registry_ EXCEPT ![Names[h]] = h]
  <2>1. CASE registry_[op.service] = NoHandler
    BY <1>3, <1>4, <2>1
  <2>2. CASE registry_[op.service] # NoHandler
    BY <1>3, <1>4, <2>2 DEF IInv, TypeOK
  <2> QED
    BY <2>1, <2>2
<1>6. registry_' \in [Services -> Handlers \cup {NoHandler}] /\ NamesInv'
  <2>1. CASE registry_' = registry_
    BY <2>1 DEF IInv, TypeOK, NamesInv
  <2>2. ASSUME NEW h \in Handlers, registry_' = [registry_ EXCEPT ![Names[h]] = h]
        PROVE  registry_' \in [Services -> Handlers \cup {NoHandler}] /\ NamesInv'
    BY <2>2, ServiceAssumption DEF IInv, TypeOK, NamesInv
  <2> QED
    BY <1>5, <2>1, <2>2
<1>7. FramesInv'
  BY <1>2, EmptySeq DEF FramesInv
<1>8. wants' \in [Threads -> {{}} \cup {{o} : o \in Operations}]
  BY DEF WriteUnlock, IInv, TypeOK
<1> QED
  BY <1>5, <1>6, <1>7, <1>8 DEF WriteUnlock, IInv, TypeOK

-----------------------------------------------------------------------------
(* The invariant holds. *)

\* Every reachable state satisfies the inductive invariant.
LEMMA Invariance == Spec => []IInv
<1>1. Init => IInv
  BY ServiceAssumption, EmptySeq DEF Init, IInv, TypeOK, NamesInv, FramesInv
<1>2. IInv /\ [Next]_vars => IInv'
  <2> SUFFICES ASSUME IInv, [Next]_vars PROVE IInv'
    OBVIOUS
  <2>1. ASSUME NEW p \in Threads,
               Invoke(p) \/ ExpectSvc(p) \/ Return(p) \/ WriteUnlock(p)
        PROVE  IInv'
    BY <2>1, InvokeStep, ExpectSvcStep, ReturnStep, WriteUnlockStep
  <2>2. ASSUME NEW p \in Threads, WriteLock(p) PROVE IInv'
    BY <2>2 DEF WriteLock, CanWrite, Writes, IInv, TypeOK, NamesInv, FramesInv, LiveFrames
  <2>3. ASSUME NEW p \in Threads, NEW s \in Services, Call(p, s) PROVE IInv'
    <3>1. CallOf(s) \in Operations
      BY DEF Operations
    <3>2. /\ wants' \in [Threads -> {{}} \cup {{o} : o \in Operations}]
          /\ NamesInv' /\ FramesInv'
          /\ writer' # NoThread =>
                Writes(writer)' /\ \A q \in Threads : frames'[q] = <<>>
      BY <2>3, <3>1, AskStep DEF Call
    <3>3. calls' \in 0 .. MaxCalls
      BY <2>3, ServiceAssumption DEF Call, IInv, TypeOK
    <3> QED
      BY <2>3, <3>2, <3>3 DEF Call, IInv, TypeOK
  <2>4. ASSUME NEW p \in Threads, NEW h \in Handlers, Register(p, h) PROVE IInv'
    <3>1. RegisterOf(h) \in Operations
      BY DEF Operations
    <3>2. /\ wants' \in [Threads -> {{}} \cup {{o} : o \in Operations}]
          /\ NamesInv' /\ FramesInv'
          /\ writer' # NoThread =>
                Writes(writer)' /\ \A q \in Threads : frames'[q] = <<>>
      BY <2>4, <3>1, AskStep DEF Register
    <3> QED
      BY <2>4, <3>2 DEF Register, IInv, TypeOK
  <2>5. ASSUME NEW p \in Threads, NEW op \in Operations, HandlerStep(p, op) PROVE IInv'
    BY <2>5, HandlerStepStep
  <2>6. CASE UNCHANGED vars
    BY <2>6 DEF vars, Writes, IInv, TypeOK, NamesInv, FramesInv, LiveFrames
  <2> QED
    BY <2>1, <2>2, <2>3, <2>4, <2>5, <2>6 DEF Next
<1> QED
  BY <1>1, <1>2, PTL DEF Spec

\* The mutex is held as its rules allow, and only a handler that registers a
\* service, or that calls another while a writer waits and may go first, can
\* bring the program to a standstill.
THEOREM OnlyHandlersBlock == Spec => []RegistryInv
<1>1. ASSUME IInv, ~HandlerRegisters,
             NEW p \in Threads, ~Idle(p), \A q \in Threads : Idle(q) \/ Blocked(q)
      PROVE  /\ prefersWriters
             /\ \E q \in Threads : frames[q] # <<>> /\ Reads(q)
             /\ \E q \in Threads : Writes(q)
  <2>1. writer = NoThread
    <3> SUFFICES ASSUME writer # NoThread PROVE FALSE
      OBVIOUS
    <3>1. writer \in Threads /\ Writes(writer)
      BY <1>1 DEF IInv, TypeOK
    <3>2. ~Reads(writer)
      BY <1>1, <3>1, OneWish DEF Reads, Writes
    <3>3. ~Idle(writer) /\ ~Blocked(writer)
      BY <3>1, <3>2 DEF Idle, Blocked, Writes
    <3> QED
      BY <1>1, <3>1, <3>3
  <2>2. ASSUME NEW q \in Threads, Writes(q) PROVE \E r \in Threads : frames[r] # <<>>
    <3>1. ~Idle(q) /\ ~Reads(q)
      BY <1>1, <2>2, OneWish DEF Idle, Reads, Writes
    <3>2. ~CanWrite
      BY <1>1, <3>1 DEF Blocked
    <3> QED
      BY <2>1, <3>2 DEF CanWrite
  <2>3. ASSUME NEW q \in Threads, Reads(q), ~CanRead
        PROVE  prefersWriters /\ \E r \in Threads : Writes(r)
    BY <2>1, <2>3 DEF CanRead
  <2>4. PICK q \in Threads : frames[q] # <<>>
    BY <1>1, <2>2, <2>3 DEF Blocked
  <2>5. Reads(q) /\ ~CanRead
    BY <1>1, <2>4 DEF Idle, Blocked, HandlerRegisters
  <2> QED
    BY <2>3, <2>4, <2>5
<1>2. IInv => RegistryInv
  BY <1>1 DEF IInv, RegistryInv, OnlyHandlersDeadlock
<1> QED
  BY <1>2, Invariance, PTL

\* Of the registrations of one name the first to get the mutex wins and the
\* others change nothing; a call answers with the handler that is registered
\* when it ends, however many registrations raced with it.
THEOREM ServiceIsAtomic == Spec => ImplementsAtomicService
<1>1. Init => Atomic!Init
  BY DEF Init, Atomic!Init
<1>2. IInv /\ [Next]_vars => [Atomic!Next]_<<registry_, last>>
  <2> SUFFICES ASSUME IInv, [Next]_vars PROVE [Atomic!Next]_<<registry_, last>>
    OBVIOUS
  <2> DEFINE Still == UNCHANGED <<registry_, last>>
  <2>1. ASSUME NEW p \in Threads, ExpectSvc(p) \/ Return(p) PROVE Atomic!Next
    <3>1. PICK s \in Services : last' = <<s, registry_[s]>>
      BY <2>1, ExpectSvcStep, ReturnStep
    <3>2. Atomic!Answer(s)
      BY <2>1, <3>1 DEF ExpectSvc, Return, Atomic!Answer
    <3> QED
      BY <3>2 DEF Atomic!Next
  <2>2. ASSUME NEW p \in Threads, WriteUnlock(p) PROVE Atomic!Next \/ Still
    <3>1. \/ registry_' = registry_
          \/ \E h \in Handlers : /\ registry_[Names[h]] = NoHandler
                                 /\ registry_' = [registry_ EXCEPT ![Names[h]] = h]
      BY <2>2, WriteUnlockStep
    <3>2. last' = last
      BY <2>2 DEF WriteUnlock
    <3> QED
      BY <3>1, <3>2 DEF Atomic!Next, Atomic!Register
  <2>3. ASSUME NEW p \in Threads, Invoke(p) \/ WriteLock(p) PROVE Still
    BY <2>3 DEF Invoke, WriteLock
  <2>4. ASSUME NEW p \in Threads, NEW s \in Services, Call(p, s) PROVE Still
    BY <2>4 DEF Call
  <2>5. ASSUME NEW p \in Threads, NEW h \in Handlers, Register(p, h) PROVE Still
    BY <2>5 DEF Register
  <2>6. ASSUME NEW p \in Threads, NEW op \in Operations, HandlerStep(p, op) PROVE Still
    BY <2>6 DEF HandlerStep
  <2>7. CASE UNCHANGED vars
    BY <2>7 DEF vars
  <2> QED
    BY <2>1, <2>2, <2>3, <2>4, <2>5, <2>6, <2>7 DEF Next
<1> QED
  BY <1>1, <1>2, Invariance, PTL DEF Spec, ImplementsAtomicService, Atomic!Spec

\* The handler of a service is never replaced nor taken away, whatever calls
\* and registrations overlap: "dup svc" leaves the registry as it is.
THEOREM RegisteredForGood ==
    Spec => [][\A s \in Services : registry_[s] # NoHandler => registry_'[s] = registry_[s]]_vars
<1>1. ASSUME IInv, [Next]_vars, NEW s \in Services, registry_[s] # NoHandler
      PROVE  registry_'[s] = registry_[s]
  <2>1. ASSUME NEW p \in Threads, WriteUnlock(p) PROVE registry_'[s] = registry_[s]
    BY <1>1, <2>1, WriteUnlockStep DEF IInv, TypeOK
  <2>2. CASE registry_' = registry_
    BY <2>2
  <2>3. ASSUME ~\E p \in Threads : WriteUnlock(p) PROVE registry_' = registry_
    BY <1>1, <2>3 DEF Next, vars, Invoke, ExpectSvc, Return, WriteLock, Call, Register,
                      HandlerStep
  <2> QED
    BY <2>1, <2>2, <2>3
<1>2. IInv /\ [Next]_vars =>
         [\A s \in Services : registry_[s] # NoHandler => registry_'[s] = registry_[s]]_vars
  BY <1>1
<1> QED
  BY <1>2, Invariance, PTL DEF Spec
=============================================================================
