------------------------------ MODULE AsioPool ------------------------------
(***************************************************************************)
(* ccl2::AsioPool and the asio_pool_* functions (include/ccl2/asio_pool.h):*)
(* one io_context for the process, created on first use under a once_flag, *)
(* run by the threads that call asio_pool_run() and by the workers those   *)
(* spawn, kept busy by a work guard, and stopped by shutdown().            *)
(*                                                                         *)
(* The io_context is Boost.Asio's, modelled from the calls the pool makes: *)
(*   - a handler dispatched from a thread that runs the io_context is run  *)
(*     in place, any other is queued;                                      *)
(*   - run() returns when the io_context is stopped, or out of work;       *)
(*   - an exception of a handler leaves run() once the outermost handler   *)
(*     of that thread has ended.                                           *)
(***************************************************************************)
EXTENDS Integers, Sequences, FiniteSets

CONSTANTS
    Runners,    \* threads that call asio_pool_run()
    Main,       \* the runner whose return ends the program
    Clients,    \* other threads that use the pool
    Tasks,      \* handlers given to asio_pool_enqueue, each at most once
    Throwers,   \* tasks that end with an exception
    Closers,    \* tasks that may call asio_pool_shutdown()
    MaxSize     \* bound on the size given to asio_pool_init

Callers == Runners \cup Clients
Workers == Runners \X (1 .. MaxSize - 1)
Threads == Callers \cup Workers

ASSUME PoolAssumption ==
    /\ Main \in Runners
    /\ Runners \cap Clients = {}
    /\ Callers \cap Workers = {}
    /\ Throwers \subseteq Tasks
    /\ Closers \subseteq Tasks
    /\ Tasks \cap {"none", "run"} = {}
    /\ MaxSize \in Nat \ {0}

VARIABLES
    once,           \* kAsioPoolInitFlag: "idle", "busy" or "done"
    pool,           \* kAsioPool: "null", "alive" or "destroyed"
    worker_count_,
    stopped_,
    work_guard_,    \* work_guard_ still counts as work of ctx_
    ctxStopped,     \* ctx_.stop() has taken effect
    queue,          \* handlers posted to ctx_
    stack,          \* per thread: the handlers it is inside, innermost first
    raised,         \* threads with an exception that run() will rethrow
    pc,             \* where each thread stands in the code
    goal,           \* what a caller came for: "run", a task, or "none"
    spawned,        \* workers started by each runner
    submitted,      \* history: tasks given to the pool
    begun,          \* history: every start of a task, in order
    terminated      \* std::terminate was called

ctxVars  == <<ctxStopped, queue>>
taskVars == <<stack, submitted, begun>>
initVars == <<once, pool, worker_count_>>
vars == <<initVars, stopped_, work_guard_, ctxVars, taskVars, raised, pc, goal,
          spawned, terminated>>

Init ==
    /\ once = "idle"
    /\ pool = "null"
    /\ worker_count_ = 0
    /\ stopped_ = FALSE
    /\ work_guard_ = FALSE
    /\ ctxStopped = FALSE
    /\ queue = <<>>
    /\ stack = [th \in Threads |-> <<>>]
    /\ raised = {}
    /\ pc = [th \in Threads |-> "out"]
    /\ goal = [a \in Callers |-> "none"]
    /\ spawned = [m \in Runners |-> 0]
    /\ submitted = {}
    /\ begun = <<>>
    /\ terminated = FALSE

Goto(th, l) == pc' = [pc EXCEPT ![th] = l]

InTask(th) == pc[th] = "loop" /\ stack[th] # <<>>

-----------------------------------------------------------------------------
(* asio_pool_init: every function but asio_pool_shutdown calls it first. *)

\* A task that nobody has handed in, or is about to.
Fresh(t) == t \notin submitted /\ \A a \in Callers : goal[a] # t

\* A runner calls asio_pool_run() (g = "run"), any caller asio_pool_enqueue(g).
Call(a, g) ==
    /\ pc[a] = "out"
    /\ IF g = "run" THEN a \in Runners ELSE Fresh(g)
    /\ goal' = [goal EXCEPT ![a] = g]
    /\ Goto(a, "once")
    /\ UNCHANGED <<initVars, stopped_, work_guard_, ctxVars, taskVars, raised,
                   spawned, terminated>>

\* std::call_once: one caller runs the initialisation, others wait for it.
OnceEnter(a) ==
    /\ pc[a] = "once"
    /\ once = "idle"
    /\ once' = "busy"
    /\ Goto(a, "construct")
    /\ UNCHANGED <<pool, worker_count_, stopped_, work_guard_, ctxVars, taskVars,
                   raised, goal, spawned, terminated>>

\* Mutated form of Construct: no work guard.
ConstructNoGuard(a, num) ==
    /\ pc[a] = "construct"
    /\ num > 0
    /\ pool' = "alive"
    /\ worker_count_' = num
    /\ once' = "done"
    /\ Goto(a, "once")
    /\ UNCHANGED <<stopped_, work_guard_, ctxVars, taskVars, raised, goal, spawned,
                   terminated>>

\* AsioPool(num): the io_context with its work guard.
Construct(a, num) ==
    /\ pc[a] = "construct"
    /\ num > 0
    /\ pool' = "alive"
    /\ worker_count_' = num
    /\ work_guard_' = TRUE
    /\ once' = "done"
    /\ Goto(a, "once")
    /\ UNCHANGED <<stopped_, ctxVars, taskVars, raised, goal, spawned, terminated>>

\* AsioPool(0) throws: the once_flag stays unset, the caller's call fails.
ConstructThrows(a) ==
    /\ pc[a] = "construct"
    /\ once' = "idle"
    /\ goal' = [goal EXCEPT ![a] = "none"]
    /\ Goto(a, "out")
    /\ UNCHANGED <<pool, worker_count_, stopped_, work_guard_, ctxVars, taskVars,
                   raised, spawned, terminated>>

\* The flag is set: go on with the call that needed the pool.
OnceDone(a) ==
    /\ pc[a] = "once"
    /\ once = "done"
    /\ Goto(a, IF goal[a] = "run" THEN "run" ELSE "enqueue")
    /\ UNCHANGED <<initVars, stopped_, work_guard_, ctxVars, taskVars, raised,
                   goal, spawned, terminated>>

\* enqueue() by a thread that is not running the io_context.
Enqueue(a) ==
    /\ pc[a] = "enqueue"
    /\ queue' = Append(queue, goal[a])
    /\ submitted' = submitted \cup {goal[a]}
    /\ goal' = [goal EXCEPT ![a] = "none"]
    /\ Goto(a, "out")
    /\ UNCHANGED <<initVars, stopped_, work_guard_, ctxStopped, stack, raised,
                   begun, spawned, terminated>>

-----------------------------------------------------------------------------
(* run(). *)

\* run(): stopped_ is read before anything is spawned.
RunStopped(m) ==
    /\ pc[m] = "run"
    /\ stopped_
    /\ Goto(m, "returned")
    /\ UNCHANGED <<initVars, stopped_, work_guard_, ctxVars, taskVars, raised,
                   goal, spawned, terminated>>

RunStart(m) ==
    /\ pc[m] = "run"
    /\ ~stopped_
    /\ Goto(m, "spawn")
    /\ UNCHANGED <<initVars, stopped_, work_guard_, ctxVars, taskVars, raised,
                   goal, spawned, terminated>>

\* Mutated form of SpawnWorker: one worker too many.
SpawnOneMore(m) ==
    /\ pc[m] = "spawn"
    /\ spawned[m] < worker_count_
    /\ spawned' = [spawned EXCEPT ![m] = @ + 1]
    /\ Goto(<<m, spawned[m] + 1>>, "loop")
    /\ UNCHANGED <<initVars, stopped_, work_guard_, ctxVars, taskVars, raised,
                   goal, terminated>>

\* One turn of the loop that starts worker_count_ - 1 threads.
SpawnWorker(m) ==
    /\ pc[m] = "spawn"
    /\ spawned[m] < worker_count_ - 1
    /\ spawned' = [spawned EXCEPT ![m] = @ + 1]
    /\ Goto(<<m, spawned[m] + 1>>, "loop")
    /\ UNCHANGED <<initVars, stopped_, work_guard_, ctxVars, taskVars, raised,
                   goal, terminated>>

\* The calling thread joins in: ctx_.run().
RunSelf(m) ==
    /\ pc[m] = "spawn"
    /\ spawned[m] >= worker_count_ - 1
    /\ Goto(m, "loop")
    /\ UNCHANGED <<initVars, stopped_, work_guard_, ctxVars, taskVars, raised,
                   goal, spawned, terminated>>

\* The io_context has nothing left to wait for.
OutOfWork == ~work_guard_ /\ queue = <<>> /\ \A th \in Threads : stack[th] = <<>>

\* ctx_.run() returns, in the runner or in a worker.
LeaveLoop(th) ==
    /\ pc[th] = "loop"
    /\ stack[th] = <<>>
    /\ ctxStopped \/ OutOfWork
    /\ ctxStopped' = TRUE
    /\ Goto(th, IF th \in Runners THEN "join" ELSE "exited")
    /\ UNCHANGED <<initVars, stopped_, work_guard_, queue, taskVars, raised,
                   goal, spawned, terminated>>

\* Mutated form of Join: run() returns without waiting for its workers.
JoinNobody(m) ==
    /\ pc[m] = "join"
    /\ Goto(m, "returned")
    /\ UNCHANGED <<initVars, stopped_, work_guard_, ctxVars, taskVars, raised,
                   goal, spawned, terminated>>

\* The workers of m are joined one after the other; then run() returns.
Join(m) ==
    /\ pc[m] = "join"
    /\ \A i \in 1 .. spawned[m] : pc[<<m, i>>] = "exited"
    /\ Goto(m, "returned")
    /\ UNCHANGED <<initVars, stopped_, work_guard_, ctxVars, taskVars, raised,
                   goal, spawned, terminated>>

-----------------------------------------------------------------------------
(* Handlers. *)

\* Mutated form of TakeTask: the handler stays in the queue.
PeekTask(th) ==
    /\ pc[th] = "loop"
    /\ stack[th] = <<>>
    /\ ~ctxStopped
    /\ queue # <<>>
    /\ stack' = [stack EXCEPT ![th] = <<Head(queue)>>]
    /\ begun' = Append(begun, Head(queue))
    /\ UNCHANGED <<initVars, stopped_, work_guard_, ctxVars, submitted, raised,
                   pc, goal, spawned, terminated>>

\* A thread inside ctx_.run() takes the handler at the front.
TakeTask(th) ==
    /\ pc[th] = "loop"
    /\ stack[th] = <<>>
    /\ ~ctxStopped
    /\ queue # <<>>
    /\ stack' = [stack EXCEPT ![th] = <<Head(queue)>>]
    /\ begun' = Append(begun, Head(queue))
    /\ queue' = Tail(queue)
    /\ UNCHANGED <<initVars, stopped_, work_guard_, ctxStopped, submitted,
                   raised, pc, goal, spawned, terminated>>

\* enqueue(t) by a handler: dispatch runs t in place.
EnqueueInline(th, t) ==
    /\ InTask(th)
    /\ Fresh(t)
    /\ stack' = [stack EXCEPT ![th] = <<t>> \o @]
    /\ submitted' = submitted \cup {t}
    /\ begun' = Append(begun, t)
    /\ UNCHANGED <<initVars, stopped_, work_guard_, ctxVars, raised, pc, goal,
                   spawned, terminated>>

\* The innermost handler ends without leaving the loop.
EndTask(th) ==
    /\ InTask(th)
    /\ LET t == Head(stack[th])
           throws == th \in raised \/ t \in Throwers
       IN /\ Tail(stack[th]) = <<>> => ~throws
          /\ raised' = IF throws THEN raised \cup {th} ELSE raised
    /\ stack' = [stack EXCEPT ![th] = Tail(@)]
    /\ UNCHANGED <<initVars, stopped_, work_guard_, ctxVars, submitted, begun, pc,
                   goal, spawned, terminated>>

\* The outermost handler ends, and ctx_.run() throws.  A worker has no handler
\* for the exception, and a runner with unjoined workers cannot unwind its
\* vector of threads; with no workers, the caller of run() sees the exception.
EndTaskThrows(th) ==
    /\ InTask(th)
    /\ Tail(stack[th]) = <<>>
    /\ th \in raised \/ Head(stack[th]) \in Throwers
    /\ stack' = [stack EXCEPT ![th] = <<>>]
    /\ raised' = raised \ {th}
    /\ terminated' = (th \in Workers \/ spawned[th] > 0)
    /\ Goto(th, "out")
    /\ UNCHANGED <<initVars, stopped_, work_guard_, ctxVars, submitted, begun,
                   goal, spawned>>

-----------------------------------------------------------------------------
(* shutdown(). *)

\* A handler may shut the pool down; so may any caller, once there is a pool.
MayShutdown(th) ==
    \/ InTask(th) /\ Head(stack[th]) \in Closers
    \/ th \in Callers /\ pc[th] = "out" /\ pool # "null"

\* Mutated form of ShutdownFirst: the result of the exchange is inverted.
ShutdownSkipped(th) ==
    /\ MayShutdown(th)
    /\ ~stopped_
    /\ stopped_' = TRUE
    /\ UNCHANGED <<initVars, work_guard_, ctxVars, taskVars, raised, pc, goal,
                   spawned, terminated>>

\* stopped_.exchange(true) returns false: this call stops the pool.
ShutdownFirst(th) ==
    /\ MayShutdown(th)
    /\ ~stopped_
    /\ stopped_' = TRUE
    /\ Goto(th, "stop")
    /\ UNCHANGED <<initVars, work_guard_, ctxVars, taskVars, raised, goal,
                   spawned, terminated>>

\* ctx_.stop().
ShutdownStop(th) ==
    /\ pc[th] = "stop"
    /\ ctxStopped' = TRUE
    /\ Goto(th, "reset")
    /\ UNCHANGED <<initVars, stopped_, work_guard_, queue, taskVars, raised,
                   goal, spawned, terminated>>

\* work_guard_.reset(), and back to the caller.
ShutdownReset(th) ==
    /\ pc[th] = "reset"
    /\ work_guard_' = FALSE
    /\ Goto(th, IF stack[th] = <<>> THEN "out" ELSE "loop")
    /\ UNCHANGED <<initVars, stopped_, ctxVars, taskVars, raised, goal, spawned,
                   terminated>>

\* main returns after asio_pool_run(): the static unique_ptr destroys the
\* pool.  Its shutdown() finds stopped_ set, or stops a pool nobody runs.
Destroy ==
    /\ pc[Main] = "returned"
    /\ pool = "alive"
    /\ pool' = "destroyed"
    /\ stopped_' = TRUE
    /\ ctxStopped' = TRUE
    /\ work_guard_' = FALSE
    /\ UNCHANGED <<once, worker_count_, queue, taskVars, raised, pc, goal,
                   spawned, terminated>>

-----------------------------------------------------------------------------

CallerNext(a) ==
    \/ \E g \in {"run"} \cup Tasks : Call(a, g)
    \/ OnceEnter(a)
    \/ \E num \in 1 .. MaxSize : Construct(a, num)
    \/ ConstructThrows(a)
    \/ OnceDone(a)
    \/ Enqueue(a)

RunnerNext(m) ==
    RunStopped(m) \/ RunStart(m) \/ SpawnWorker(m) \/ RunSelf(m) \/ Join(m)

LoopNext(th) == LeaveLoop(th) \/ TakeTask(th) \/ EndTask(th) \/ EndTaskThrows(th)

ShutdownNext(th) == ShutdownFirst(th) \/ ShutdownStop(th) \/ ShutdownReset(th)

\* The process goes on: it has not been terminated, nor has main returned
\* and destroyed the pool.
Alive == ~terminated /\ pool # "destroyed"

Next ==
    /\ Alive
    /\ \/ \E a \in Callers : CallerNext(a)
       \/ \E m \in Runners : RunnerNext(m)
       \/ \E th \in Runners \cup Workers : LoopNext(th)
       \/ \E th \in Runners \cup Workers, t \in Tasks : EnqueueInline(th, t)
       \/ \E th \in Threads : ShutdownNext(th)
       \/ Destroy

Spec == Init /\ [][Next]_vars

-----------------------------------------------------------------------------
(* Safety. *)

CallerLocations == {"out", "once", "construct", "enqueue", "stop", "reset"}

RunLocations == {"run", "spawn", "loop", "join", "returned", "exited"}

\* Every variable keeps to the values its C++ counterpart can take.
TypeOK ==
    /\ once \in {"idle", "busy", "done"}
    /\ pool \in {"null", "alive", "destroyed"}
    /\ worker_count_ \in 0 .. MaxSize
    /\ stopped_ \in BOOLEAN
    /\ work_guard_ \in BOOLEAN
    /\ ctxStopped \in BOOLEAN
    /\ queue \in Seq(Tasks)
    /\ stack \in [Threads -> Seq(Tasks)]
    /\ raised \subseteq Threads
    /\ pc \in [Threads -> CallerLocations \cup RunLocations]
    /\ goal \in [Callers -> {"none", "run"} \cup Tasks]
    /\ spawned \in [Runners -> 0 .. MaxSize - 1]
    /\ submitted \subseteq Tasks
    /\ begun \in Seq(Tasks)
    /\ terminated \in BOOLEAN

\* A thread is inside a member function of the pool.
InPool(th) ==
    pc[th] \in {"enqueue", "run", "spawn", "loop", "join", "stop", "reset"}

\* Whoever gets past asio_pool_init finds a pool: a second caller waits for
\* the first, and a failed initialisation is tried again.
PoolCreated == \A th \in Threads : InPool(th) => pool # "null"

\* Neither main nor its workers are inside the pool when it is destroyed: a
\* worker has been joined, and a handler's shutdown() has run to its end,
\* before run() returns.
PoolAlive ==
    \A th \in {Main} \cup ({Main} \X (1 .. MaxSize - 1)) :
        InPool(th) => pool = "alive"

\* Whoever is inside the pool finds one: constructed, and, for main and its
\* workers, not destroyed yet.
PoolUsable == PoolCreated /\ PoolAlive

\* An exception of a handler ends the process only if there are workers.
SoleRunnerSurvives == worker_count_ = 1 => ~terminated

\* The abstract pool.
Pool == INSTANCE TaskPool WITH
            Task <- Tasks, Runner <- Runners,
            open <- ~stopped_, home <- {m \in Runners : pc[m] = "returned"}

\* Every task starts at most once, and run() returns only after shutdown().
ImplementsPool == Pool!Spec

-----------------------------------------------------------------------------
(* Liveness. *)

\* Threads that are inside a call go on, handlers end, and main keeps
\* calling asio_pool_run() until it returns without an exception.
Fairness ==
    /\ \A a \in Callers :
         /\ WF_vars(Alive /\ (OnceDone(a) \/ Enqueue(a) \/ \E num \in 1 .. MaxSize : Construct(a, num)))
         /\ SF_vars(Alive /\ OnceEnter(a))
    /\ WF_vars(Alive /\ Call(Main, "run"))
    /\ \A m \in Runners : WF_vars(Alive /\ RunnerNext(m))
    /\ \A th \in Runners \cup Workers : WF_vars(Alive /\ LoopNext(th))
    /\ \A th \in Threads : WF_vars(Alive /\ (ShutdownStop(th) \/ ShutdownReset(th)))

FairSpec == Spec /\ Fairness

\* The tasks that have started.
Started == {begun[i] : i \in DOMAIN begun}

\* A task that was handed in starts, unless the pool is stopped first.
EveryTaskStarts ==
    \A t \in Tasks : t \in submitted ~> (t \in Started \/ stopped_ \/ terminated)

\* After shutdown() every run() comes back, by a return or by the exception
\* of a handler.
ShutdownEndsRun ==
    \A m \in Runners :
        stopped_ /\ pc[m] \in {"run", "spawn", "loop", "join"}
            ~> (pc[m] \in {"returned", "out"} \/ ~Alive)
=============================================================================
