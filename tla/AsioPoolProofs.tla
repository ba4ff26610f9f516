--------------------------- MODULE AsioPoolProofs ---------------------------
(***************************************************************************)
(* Theorems about AsioPool, for every number of threads and tasks: types,  *)
(* initialisation before use, survival of exceptions with one thread, the  *)
(* implementation of TaskPool, and that neither main nor its workers are   *)
(* inside the pool when it is destroyed.                                   *)
(***************************************************************************)
EXTENDS AsioPool, TLAPS, SequenceTheorems

-----------------------------------------------------------------------------
(* The inductive invariant. *)

\* The once_flag is set exactly when there is a pool, one caller at a time
\* constructs, and nobody is past the flag before.
OnceInv ==
    /\ once = "done" <=> pool # "null"
    /\ \A a \in Threads : pc[a] = "construct" => once = "busy"
    /\ \A a, b \in Threads : pc[a] = "construct" /\ pc[b] = "construct" => a = b
    /\ \A th \in Threads : InPool(th) => once = "done"
    /\ pool # "null" <=> worker_count_ # 0

\* A caller on its way into the pool carries what it came for, and tasks
\* that are carried are nobody else's.
GoalInv ==
    /\ \A a \in Callers : pc[a] \in {"once", "construct", "enqueue"} => goal[a] # "none"
    /\ \A a \in Callers : pc[a] = "enqueue" => goal[a] # "run"
    /\ \A a \in Callers : goal[a] \notin submitted
    /\ \A a, b \in Callers : goal[a] = goal[b] /\ goal[a] \in Tasks => a = b

\* The io_context is stopped, or out of its guard, only by shutdown().
StopInv ==
    /\ ctxStopped => stopped_
    /\ pool # "null" /\ ~work_guard_ => stopped_
    /\ \A m \in Runners : pc[m] \in {"join", "returned"} => stopped_
    /\ \A th \in Threads : pc[th] \in {"stop", "reset"} => stopped_

\* The queue holds tasks that were handed in and have not started, once.
QueueInv ==
    /\ \A i \in DOMAIN queue : queue[i] \in submitted /\ queue[i] \notin Started
    /\ \A i, j \in DOMAIN queue : queue[i] = queue[j] => i = j
    /\ Started \subseteq submitted

\* A worker exists from its start to its end, inside one call of run().
WorkerInv ==
    /\ \A w \in Workers : pc[w] \in {"out", "loop", "stop", "reset", "exited"}
    /\ \A w \in Workers : pc[w] \in {"stop", "reset"} => stack[w] # <<>>
    /\ \A m \in Runners, i \in 1 .. MaxSize - 1 :
          i > spawned[m] => pc[<<m, i>>] = "out"
    /\ \A m \in Runners :
          \/ spawned[m] = 0
          \/ terminated
          \/ pc[m] \in {"spawn", "loop", "join", "returned"}
          \/ pc[m] \in {"stop", "reset"} /\ stack[m] # <<>>
    /\ \A m \in Runners : pc[m] = "returned" =>
          \A i \in 1 .. MaxSize - 1 : pc[<<m, i>>] \in {"out", "exited"}

\* With a pool of one there are no workers.
SoleInv ==
    /\ \A m \in Runners : spawned[m] > 0 => worker_count_ > 1
    /\ terminated => worker_count_ # 1

IInv ==
    /\ TypeOK
    /\ OnceInv
    /\ GoalInv
    /\ StopInv
    /\ QueueInv
    /\ WorkerInv
    /\ SoleInv

-----------------------------------------------------------------------------
(* Every step preserves every part of the invariant. *)

\* A worker is named by its runner and its number, and is no caller.
LEMMA WorkerIds ==
  /\ \A m \in Runners, i \in 1 .. MaxSize - 1 : <<m, i>> \in Workers
  /\ \A w \in Workers : \E m \in Runners, i \in 1 .. MaxSize - 1 : w = <<m, i>>
  /\ \A w \in Workers : w \notin Runners /\ w \notin Clients
  /\ MaxSize \in Nat \ {0}
  /\ Main \in Runners
BY PoolAssumption DEF Workers, Callers

\* The handler at the front has not started, and is nowhere behind.
LEMMA QueueHead ==
  ASSUME IInv, queue # <<>>
  PROVE  /\ Head(queue) \in Tasks /\ Tail(queue) \in Seq(Tasks)
         /\ Head(queue) \in submitted /\ Head(queue) \notin Started
         /\ \A i \in DOMAIN Tail(queue) :
               /\ i + 1 \in DOMAIN queue /\ Tail(queue)[i] = queue[i + 1]
               /\ Tail(queue)[i] # Head(queue)
<1> USE DEF IInv, TypeOK, QueueInv
<1>1. Head(queue) = queue[1] /\ 1 \in DOMAIN queue /\ Tail(queue) \in Seq(Tasks)
      /\ Head(queue) \in Tasks
  BY HeadTailProperties
<1>2. ASSUME NEW i \in DOMAIN Tail(queue)
      PROVE  i + 1 \in DOMAIN queue /\ Tail(queue)[i] = queue[i + 1] /\ i + 1 # 1
  BY HeadTailProperties
<1> QED
  BY <1>1, <1>2

\* A start adds the task to those that have started.
LEMMA AppendStarted ==
  ASSUME IInv, NEW t \in Tasks, begun' = Append(begun, t)
  PROVE  Started' = Started \cup {t}
<1>1. begun \in Seq(Tasks)
  BY DEF IInv, TypeOK
<1>2. /\ DOMAIN Append(begun, t) = DOMAIN begun \cup {Len(begun) + 1}
      /\ Append(begun, t)[Len(begun) + 1] = t
      /\ \A i \in DOMAIN begun : Append(begun, t)[i] = begun[i]
  BY <1>1
<1> QED
  BY <1>2 DEF Started

\* Every step keeps the variables in their types.
LEMMA TypeStep == IInv /\ [Next]_vars => TypeOK'
<1> SUFFICES ASSUME IInv, [Next]_vars PROVE TypeOK'
  OBVIOUS
<1> USE DEF IInv, TypeOK, CallerLocations, RunLocations, Threads, Callers,
   Goto, Workers, initVars, ctxVars, taskVars, OnceInv, GoalInv, WorkerInv
<1>1. ASSUME NEW a \in Callers, NEW g \in {"run"} \cup Tasks,
             Call(a, g)
      PROVE  TypeOK'
  BY <1>1, PoolAssumption DEF Call
<1>2. ASSUME NEW a \in Callers, OnceEnter(a) PROVE TypeOK'
  BY <1>2, PoolAssumption DEF OnceEnter
<1>3. ASSUME NEW a \in Callers, NEW num \in 1 .. MaxSize,
             Construct(a, num)
      PROVE  TypeOK'
  BY <1>3, PoolAssumption DEF Construct
<1>4. ASSUME NEW a \in Callers, ConstructThrows(a) PROVE TypeOK'
  BY <1>4, PoolAssumption DEF ConstructThrows
<1>5. ASSUME NEW a \in Callers, OnceDone(a) PROVE TypeOK'
  BY <1>5, PoolAssumption DEF OnceDone
<1>6. ASSUME NEW a \in Callers, Enqueue(a) PROVE TypeOK'
  BY <1>6, PoolAssumption, SMTT(30) DEF Enqueue
<1>7. ASSUME NEW m \in Runners, RunStopped(m) PROVE TypeOK'
  BY <1>7, PoolAssumption DEF RunStopped
<1>8. ASSUME NEW m \in Runners, RunStart(m) PROVE TypeOK'
  BY <1>8, PoolAssumption DEF RunStart
<1>9. ASSUME NEW m \in Runners, SpawnWorker(m) PROVE TypeOK'
  <2>1. spawned' \in [Runners -> 0 .. MaxSize - 1]
    <3>1. spawned[m] + 1 \in 0 .. MaxSize - 1
      BY <1>9, PoolAssumption DEF SpawnWorker
    <3> QED
      BY <1>9, <3>1 DEF SpawnWorker
  <2>2. pc' \in [Threads -> CallerLocations \cup RunLocations]
    BY <1>9 DEF SpawnWorker
  <2> QED
    BY <1>9, <2>1, <2>2 DEF SpawnWorker
<1>10. ASSUME NEW m \in Runners, RunSelf(m) PROVE TypeOK'
  BY <1>10, PoolAssumption DEF RunSelf
<1>11. ASSUME NEW m \in Runners, Join(m) PROVE TypeOK'
  BY <1>11, PoolAssumption DEF Join
<1>12. ASSUME NEW th \in Runners \cup Workers, LeaveLoop(th) PROVE TypeOK'
  BY <1>12, PoolAssumption DEF LeaveLoop
<1>13. ASSUME NEW th \in Runners \cup Workers, TakeTask(th) PROVE TypeOK'
  BY <1>13, QueueHead DEF TakeTask
<1>14. ASSUME NEW th \in Runners \cup Workers, EndTask(th) PROVE TypeOK'
  <2>1. stack' \in [Threads -> Seq(Tasks)]
    <3>1. stack[th] \in Seq(Tasks) /\ stack[th] # <<>>
      BY <1>14 DEF EndTask, InTask
    <3>2. Tail(stack[th]) \in Seq(Tasks)
      BY <3>1, HeadTailProperties
    <3> QED
      BY <1>14, <3>2 DEF EndTask
  <2>2. raised' \subseteq Threads
    BY <1>14 DEF EndTask
  <2> QED
    BY <1>14, <2>1, <2>2 DEF EndTask
<1>15. ASSUME NEW th \in Runners \cup Workers, EndTaskThrows(th) PROVE TypeOK'
  BY <1>15, PoolAssumption, SMTT(30) DEF EndTaskThrows, InTask
<1>16. ASSUME NEW th \in Runners \cup Workers, NEW t \in Tasks,
             EnqueueInline(th, t)
      PROVE  TypeOK'
  BY <1>16, PoolAssumption, SMTT(30) DEF EnqueueInline, InTask
<1>17. ASSUME NEW th \in Threads, ShutdownFirst(th) PROVE TypeOK'
  BY <1>17, PoolAssumption DEF ShutdownFirst, MayShutdown, InTask
<1>18. ASSUME NEW th \in Threads, ShutdownStop(th) PROVE TypeOK'
  BY <1>18, PoolAssumption DEF ShutdownStop
<1>19. ASSUME NEW th \in Threads, ShutdownReset(th) PROVE TypeOK'
  BY <1>19, PoolAssumption DEF ShutdownReset
<1>20. CASE Destroy
  BY <1>20, PoolAssumption DEF Destroy
<1>21. CASE UNCHANGED vars
  BY <1>21 DEF vars
<1> QED
  BY <1>1, <1>2, <1>3, <1>4, <1>5, <1>6, <1>7, <1>8, <1>9, <1>10, <1>11,
     <1>12, <1>13, <1>14, <1>15, <1>16, <1>17, <1>18, <1>19, <1>20, <1>21 DEF
     Next, CallerNext, RunnerNext, LoopNext, ShutdownNext

\* The flag is set by the one caller that constructs.
LEMMA OnceStep == IInv /\ [Next]_vars => OnceInv'
<1> SUFFICES ASSUME IInv, [Next]_vars PROVE OnceInv'
  OBVIOUS
<1> USE DEF IInv, TypeOK, CallerLocations, RunLocations, Threads, Callers,
   Goto, Workers, initVars, ctxVars, taskVars, OnceInv, InPool, WorkerInv
<1>1. ASSUME NEW a \in Callers, NEW g \in {"run"} \cup Tasks,
             Call(a, g)
      PROVE  OnceInv'
  BY <1>1, PoolAssumption DEF Call
<1>2. ASSUME NEW a \in Callers, OnceEnter(a) PROVE OnceInv'
  BY <1>2, PoolAssumption DEF OnceEnter
<1>3. ASSUME NEW a \in Callers, NEW num \in 1 .. MaxSize,
             Construct(a, num)
      PROVE  OnceInv'
  BY <1>3, PoolAssumption DEF Construct
<1>4. ASSUME NEW a \in Callers, ConstructThrows(a) PROVE OnceInv'
  BY <1>4, PoolAssumption DEF ConstructThrows
<1>5. ASSUME NEW a \in Callers, OnceDone(a) PROVE OnceInv'
  BY <1>5, PoolAssumption DEF OnceDone
<1>6. ASSUME NEW a \in Callers, Enqueue(a) PROVE OnceInv'
  BY <1>6, PoolAssumption DEF Enqueue
<1>7. ASSUME NEW m \in Runners, RunStopped(m) PROVE OnceInv'
  BY <1>7, PoolAssumption DEF RunStopped
<1>8. ASSUME NEW m \in Runners, RunStart(m) PROVE OnceInv'
  BY <1>8, PoolAssumption DEF RunStart
<1>9. ASSUME NEW m \in Runners, SpawnWorker(m) PROVE OnceInv'
  BY <1>9, PoolAssumption DEF SpawnWorker
<1>10. ASSUME NEW m \in Runners, RunSelf(m) PROVE OnceInv'
  BY <1>10, PoolAssumption DEF RunSelf
<1>11. ASSUME NEW m \in Runners, Join(m) PROVE OnceInv'
  BY <1>11, PoolAssumption DEF Join
<1>12. ASSUME NEW th \in Runners \cup Workers, LeaveLoop(th) PROVE OnceInv'
  BY <1>12, PoolAssumption DEF LeaveLoop
<1>13. ASSUME NEW th \in Runners \cup Workers, TakeTask(th) PROVE OnceInv'
  BY <1>13, PoolAssumption DEF TakeTask
<1>14. ASSUME NEW th \in Runners \cup Workers, EndTask(th) PROVE OnceInv'
  BY <1>14, PoolAssumption DEF EndTask, InTask
<1>15. ASSUME NEW th \in Runners \cup Workers,
             EndTaskThrows(th)
      PROVE  OnceInv'
  BY <1>15, PoolAssumption DEF EndTaskThrows, InTask
<1>16. ASSUME NEW th \in Runners \cup Workers, NEW t \in Tasks,
             EnqueueInline(th, t)
      PROVE  OnceInv'
  BY <1>16, PoolAssumption DEF EnqueueInline, InTask
<1>17. ASSUME NEW th \in Threads, ShutdownFirst(th) PROVE OnceInv'
  BY <1>17, PoolAssumption DEF ShutdownFirst, MayShutdown, InTask
<1>18. ASSUME NEW th \in Threads, ShutdownStop(th) PROVE OnceInv'
  BY <1>18, PoolAssumption DEF ShutdownStop
<1>19. ASSUME NEW th \in Threads, ShutdownReset(th) PROVE OnceInv'
  BY <1>19, PoolAssumption DEF ShutdownReset
<1>20. CASE Destroy
  BY <1>20, PoolAssumption DEF Destroy
<1>21. CASE UNCHANGED vars
  BY <1>21 DEF vars
<1> QED
  BY <1>1, <1>2, <1>3, <1>4, <1>5, <1>6, <1>7, <1>8, <1>9, <1>10, <1>11,
     <1>12, <1>13, <1>14, <1>15, <1>16, <1>17, <1>18, <1>19, <1>20, <1>21 DEF
     Next, CallerNext, RunnerNext, LoopNext, ShutdownNext

\* A task is carried by one caller, until it is handed in.
LEMMA GoalStep == IInv /\ [Next]_vars => GoalInv'
<1> SUFFICES ASSUME IInv, [Next]_vars PROVE GoalInv'
  OBVIOUS
<1> USE DEF IInv, TypeOK, CallerLocations, RunLocations, Threads, Callers,
   Goto, Workers, initVars, ctxVars, taskVars, GoalInv, Fresh
<1>1. ASSUME NEW a \in Callers, NEW g \in {"run"} \cup Tasks,
             Call(a, g)
      PROVE  GoalInv'
  BY <1>1, PoolAssumption DEF Call
<1>2. ASSUME NEW a \in Callers, OnceEnter(a) PROVE GoalInv'
  BY <1>2, PoolAssumption DEF OnceEnter
<1>3. ASSUME NEW a \in Callers, NEW num \in 1 .. MaxSize,
             Construct(a, num)
      PROVE  GoalInv'
  BY <1>3, PoolAssumption DEF Construct
<1>4. ASSUME NEW a \in Callers, ConstructThrows(a) PROVE GoalInv'
  BY <1>4, PoolAssumption DEF ConstructThrows
<1>5. ASSUME NEW a \in Callers, OnceDone(a) PROVE GoalInv'
  BY <1>5, PoolAssumption DEF OnceDone
<1>6. ASSUME NEW a \in Callers, Enqueue(a) PROVE GoalInv'
  BY <1>6, PoolAssumption DEF Enqueue
<1>7. ASSUME NEW m \in Runners, RunStopped(m) PROVE GoalInv'
  BY <1>7, PoolAssumption DEF RunStopped
<1>8. ASSUME NEW m \in Runners, RunStart(m) PROVE GoalInv'
  BY <1>8, PoolAssumption DEF RunStart
<1>9. ASSUME NEW m \in Runners, SpawnWorker(m) PROVE GoalInv'
  BY <1>9, PoolAssumption DEF SpawnWorker
<1>10. ASSUME NEW m \in Runners, RunSelf(m) PROVE GoalInv'
  BY <1>10, PoolAssumption DEF RunSelf
<1>11. ASSUME NEW m \in Runners, Join(m) PROVE GoalInv'
  BY <1>11, PoolAssumption DEF Join
<1>12. ASSUME NEW th \in Runners \cup Workers, LeaveLoop(th) PROVE GoalInv'
  BY <1>12, PoolAssumption DEF LeaveLoop
<1>13. ASSUME NEW th \in Runners \cup Workers, TakeTask(th) PROVE GoalInv'
  BY <1>13, PoolAssumption DEF TakeTask
<1>14. ASSUME NEW th \in Runners \cup Workers, EndTask(th) PROVE GoalInv'
  BY <1>14, PoolAssumption DEF EndTask, InTask
<1>15. ASSUME NEW th \in Runners \cup Workers,
             EndTaskThrows(th)
      PROVE  GoalInv'
  BY <1>15, PoolAssumption DEF EndTaskThrows, InTask
<1>16. ASSUME NEW th \in Runners \cup Workers, NEW t \in Tasks,
             EnqueueInline(th, t)
      PROVE  GoalInv'
  BY <1>16, PoolAssumption DEF EnqueueInline, InTask
<1>17. ASSUME NEW th \in Threads, ShutdownFirst(th) PROVE GoalInv'
  BY <1>17, PoolAssumption DEF ShutdownFirst, MayShutdown, InTask
<1>18. ASSUME NEW th \in Threads, ShutdownStop(th) PROVE GoalInv'
  BY <1>18, PoolAssumption DEF ShutdownStop
<1>19. ASSUME NEW th \in Threads, ShutdownReset(th) PROVE GoalInv'
  BY <1>19, PoolAssumption DEF ShutdownReset
<1>20. CASE Destroy
  BY <1>20, PoolAssumption DEF Destroy
<1>21. CASE UNCHANGED vars
  BY <1>21 DEF vars
<1> QED
  BY <1>1, <1>2, <1>3, <1>4, <1>5, <1>6, <1>7, <1>8, <1>9, <1>10, <1>11,
     <1>12, <1>13, <1>14, <1>15, <1>16, <1>17, <1>18, <1>19, <1>20, <1>21 DEF
     Next, CallerNext, RunnerNext, LoopNext, ShutdownNext

\* Nothing but shutdown() stops the io_context.
LEMMA StopStep == IInv /\ [Next]_vars => StopInv'
<1> SUFFICES ASSUME IInv, [Next]_vars PROVE StopInv'
  OBVIOUS
<1> USE DEF IInv, TypeOK, CallerLocations, RunLocations, Threads, Callers,
   Goto, Workers, initVars, ctxVars, taskVars, StopInv, OnceInv, InPool,
   OutOfWork
<1>1. ASSUME NEW a \in Callers, NEW g \in {"run"} \cup Tasks,
             Call(a, g)
      PROVE  StopInv'
  BY <1>1, PoolAssumption DEF Call
<1>2. ASSUME NEW a \in Callers, OnceEnter(a) PROVE StopInv'
  BY <1>2, PoolAssumption DEF OnceEnter
<1>3. ASSUME NEW a \in Callers, NEW num \in 1 .. MaxSize,
             Construct(a, num)
      PROVE  StopInv'
  BY <1>3, PoolAssumption DEF Construct
<1>4. ASSUME NEW a \in Callers, ConstructThrows(a) PROVE StopInv'
  BY <1>4, PoolAssumption DEF ConstructThrows
<1>5. ASSUME NEW a \in Callers, OnceDone(a) PROVE StopInv'
  BY <1>5, PoolAssumption DEF OnceDone
<1>6. ASSUME NEW a \in Callers, Enqueue(a) PROVE StopInv'
  BY <1>6, PoolAssumption DEF Enqueue
<1>7. ASSUME NEW m \in Runners, RunStopped(m) PROVE StopInv'
  BY <1>7, PoolAssumption DEF RunStopped
<1>8. ASSUME NEW m \in Runners, RunStart(m) PROVE StopInv'
  BY <1>8, PoolAssumption DEF RunStart
<1>9. ASSUME NEW m \in Runners, SpawnWorker(m) PROVE StopInv'
  BY <1>9, PoolAssumption DEF SpawnWorker
<1>10. ASSUME NEW m \in Runners, RunSelf(m) PROVE StopInv'
  BY <1>10, PoolAssumption DEF RunSelf
<1>11. ASSUME NEW m \in Runners, Join(m) PROVE StopInv'
  BY <1>11, PoolAssumption DEF Join
<1>12. ASSUME NEW th \in Runners \cup Workers, LeaveLoop(th) PROVE StopInv'
  BY <1>12, PoolAssumption DEF LeaveLoop
<1>13. ASSUME NEW th \in Runners \cup Workers, TakeTask(th) PROVE StopInv'
  BY <1>13, PoolAssumption DEF TakeTask
<1>14. ASSUME NEW th \in Runners \cup Workers, EndTask(th) PROVE StopInv'
  BY <1>14, PoolAssumption DEF EndTask, InTask
<1>15. ASSUME NEW th \in Runners \cup Workers,
             EndTaskThrows(th)
      PROVE  StopInv'
  BY <1>15, PoolAssumption DEF EndTaskThrows, InTask
<1>16. ASSUME NEW th \in Runners \cup Workers, NEW t \in Tasks,
             EnqueueInline(th, t)
      PROVE  StopInv'
  BY <1>16, PoolAssumption DEF EnqueueInline, InTask
<1>17. ASSUME NEW th \in Threads, ShutdownFirst(th) PROVE StopInv'
  BY <1>17, PoolAssumption DEF ShutdownFirst, MayShutdown, InTask
<1>18. ASSUME NEW th \in Threads, ShutdownStop(th) PROVE StopInv'
  BY <1>18, PoolAssumption DEF ShutdownStop
<1>19. ASSUME NEW th \in Threads, ShutdownReset(th) PROVE StopInv'
  BY <1>19, PoolAssumption DEF ShutdownReset
<1>20. CASE Destroy
  BY <1>20, PoolAssumption DEF Destroy
<1>21. CASE UNCHANGED vars
  BY <1>21 DEF vars
<1> QED
  BY <1>1, <1>2, <1>3, <1>4, <1>5, <1>6, <1>7, <1>8, <1>9, <1>10, <1>11,
     <1>12, <1>13, <1>14, <1>15, <1>16, <1>17, <1>18, <1>19, <1>20, <1>21 DEF
     Next, CallerNext, RunnerNext, LoopNext, ShutdownNext

\* A task is queued when it is handed in, and leaves the queue to start.
LEMMA QueueStep == IInv /\ [Next]_vars => QueueInv'
<1> SUFFICES ASSUME IInv, [Next]_vars PROVE QueueInv'
  OBVIOUS
<1> USE DEF IInv, TypeOK, CallerLocations, RunLocations, Threads, Callers,
   Goto, Workers, initVars, ctxVars, taskVars, QueueInv, Started, GoalInv,
   Fresh
<1>1. ASSUME NEW a \in Callers, NEW g \in {"run"} \cup Tasks,
             Call(a, g)
      PROVE  QueueInv'
  BY <1>1, PoolAssumption DEF Call
<1>2. ASSUME NEW a \in Callers, OnceEnter(a) PROVE QueueInv'
  BY <1>2, PoolAssumption DEF OnceEnter
<1>3. ASSUME NEW a \in Callers, NEW num \in 1 .. MaxSize,
             Construct(a, num)
      PROVE  QueueInv'
  BY <1>3, PoolAssumption DEF Construct
<1>4. ASSUME NEW a \in Callers, ConstructThrows(a) PROVE QueueInv'
  BY <1>4, PoolAssumption DEF ConstructThrows
<1>5. ASSUME NEW a \in Callers, OnceDone(a) PROVE QueueInv'
  BY <1>5, PoolAssumption DEF OnceDone
<1>6. ASSUME NEW a \in Callers, Enqueue(a) PROVE QueueInv'
  BY <1>6, PoolAssumption, SMTT(30) DEF Enqueue
<1>7. ASSUME NEW m \in Runners, RunStopped(m) PROVE QueueInv'
  BY <1>7, PoolAssumption DEF RunStopped
<1>8. ASSUME NEW m \in Runners, RunStart(m) PROVE QueueInv'
  BY <1>8, PoolAssumption DEF RunStart
<1>9. ASSUME NEW m \in Runners, SpawnWorker(m) PROVE QueueInv'
  BY <1>9, PoolAssumption DEF SpawnWorker
<1>10. ASSUME NEW m \in Runners, RunSelf(m) PROVE QueueInv'
  BY <1>10, PoolAssumption DEF RunSelf
<1>11. ASSUME NEW m \in Runners, Join(m) PROVE QueueInv'
  BY <1>11, PoolAssumption DEF Join
<1>12. ASSUME NEW th \in Runners \cup Workers, LeaveLoop(th) PROVE QueueInv'
  BY <1>12, PoolAssumption DEF LeaveLoop
<1>13. ASSUME NEW th \in Runners \cup Workers, TakeTask(th) PROVE QueueInv'
  <2>1. queue # <<>> /\ Started' = Started \cup {Head(queue)}
    BY <1>13, QueueHead, AppendStarted DEF TakeTask
  <2>2. ASSUME NEW i \in DOMAIN Tail(queue), NEW j \in DOMAIN Tail(queue),
               Tail(queue)[i] = Tail(queue)[j]
        PROVE  i = j
    <3>1. i + 1 = j + 1
      BY <2>1, <2>2, QueueHead
    <3>2. i \in Nat /\ j \in Nat
      BY <2>1, QueueHead, LenProperties
    <3> QED
      BY <3>1, <3>2
  <2>3. ASSUME NEW i \in DOMAIN Tail(queue)
        PROVE  Tail(queue)[i] \in submitted /\ Tail(queue)[i] \notin Started'
    BY <2>1, QueueHead
  <2>4. queue' = Tail(queue) /\ submitted' = submitted
    BY <1>13 DEF TakeTask
  <2>5. Started' \subseteq submitted'
    <3>1. Head(queue) \in submitted /\ Started \subseteq submitted
      BY <2>1, QueueHead
    <3> HIDE DEF IInv, TypeOK, QueueInv, Started
    <3> QED
      BY <2>1, <2>4, <3>1
  <2>6. \A i \in DOMAIN queue' : queue'[i] \in submitted' /\ queue'[i] \notin Started'
    BY <2>3, <2>4
  <2>7. \A i, j \in DOMAIN queue' : queue'[i] = queue'[j] => i = j
    BY <2>2, <2>4
  <2> HIDE DEF Started
  <2> QED
    BY <2>5, <2>6, <2>7
<1>14. ASSUME NEW th \in Runners \cup Workers, EndTask(th) PROVE QueueInv'
  BY <1>14, PoolAssumption DEF EndTask, InTask
<1>15. ASSUME NEW th \in Runners \cup Workers,
             EndTaskThrows(th)
      PROVE  QueueInv'
  BY <1>15, PoolAssumption DEF EndTaskThrows, InTask
<1>16. ASSUME NEW th \in Runners \cup Workers, NEW t \in Tasks,
             EnqueueInline(th, t)
      PROVE  QueueInv'
  <2>1. Started' = Started \cup {t}
    BY <1>16, AppendStarted DEF EnqueueInline
  <2> QED
    BY <1>16, <2>1 DEF EnqueueInline
<1>17. ASSUME NEW th \in Threads, ShutdownFirst(th) PROVE QueueInv'
  BY <1>17, PoolAssumption DEF ShutdownFirst, MayShutdown, InTask
<1>18. ASSUME NEW th \in Threads, ShutdownStop(th) PROVE QueueInv'
  BY <1>18, PoolAssumption DEF ShutdownStop
<1>19. ASSUME NEW th \in Threads, ShutdownReset(th) PROVE QueueInv'
  BY <1>19, PoolAssumption DEF ShutdownReset
<1>20. CASE Destroy
  BY <1>20, PoolAssumption DEF Destroy
<1>21. CASE UNCHANGED vars
  BY <1>21 DEF vars
<1> QED
  BY <1>1, <1>2, <1>3, <1>4, <1>5, <1>6, <1>7, <1>8, <1>9, <1>10, <1>11,
     <1>12, <1>13, <1>14, <1>15, <1>16, <1>17, <1>18, <1>19, <1>20, <1>21 DEF
     Next, CallerNext, RunnerNext, LoopNext, ShutdownNext

\* A worker is spawned by a run(), which joins it.
LEMMA WorkerStep == IInv /\ [Next]_vars => WorkerInv'
<1> SUFFICES ASSUME IInv, [Next]_vars PROVE WorkerInv'
  OBVIOUS
<1> USE DEF IInv, TypeOK, CallerLocations, RunLocations, Threads, Callers,
   Goto, initVars, ctxVars, taskVars, WorkerInv, OnceInv, InPool, Alive
<1>1. ASSUME Alive, NEW a \in Callers, NEW g \in {"run"} \cup Tasks,
             Call(a, g)
      PROVE  WorkerInv'
  BY <1>1, WorkerIds DEF Call
<1>2. ASSUME Alive, NEW a \in Callers, OnceEnter(a) PROVE WorkerInv'
  BY <1>2, WorkerIds DEF OnceEnter
<1>3. ASSUME Alive, NEW a \in Callers, NEW num \in 1 .. MaxSize,
             Construct(a, num)
      PROVE  WorkerInv'
  BY <1>3, WorkerIds DEF Construct
<1>4. ASSUME Alive, NEW a \in Callers, ConstructThrows(a) PROVE WorkerInv'
  BY <1>4, WorkerIds DEF ConstructThrows
<1>5. ASSUME Alive, NEW a \in Callers, OnceDone(a) PROVE WorkerInv'
  BY <1>5, WorkerIds DEF OnceDone
<1>6. ASSUME Alive, NEW a \in Callers, Enqueue(a) PROVE WorkerInv'
  BY <1>6, WorkerIds DEF Enqueue
<1>7. ASSUME Alive, NEW m \in Runners, RunStopped(m) PROVE WorkerInv'
  <2>1. spawned[m] = 0
    BY <1>7 DEF RunStopped
  <2>2. \A i \in 1 .. MaxSize - 1 : pc[<<m, i>>] = "out"
    BY <2>1, WorkerIds
  <2> QED
    BY <1>7, <2>2, WorkerIds DEF RunStopped
<1>8. ASSUME Alive, NEW m \in Runners, RunStart(m) PROVE WorkerInv'
  BY <1>8, WorkerIds DEF RunStart
<1>9. ASSUME Alive, NEW m \in Runners, SpawnWorker(m) PROVE WorkerInv'
  BY <1>9, WorkerIds, SMTT(30) DEF SpawnWorker
<1>10. ASSUME Alive, NEW m \in Runners, RunSelf(m) PROVE WorkerInv'
  BY <1>10, WorkerIds DEF RunSelf
<1>11. ASSUME Alive, NEW m \in Runners, Join(m) PROVE WorkerInv'
  BY <1>11, WorkerIds, SMTT(30) DEF Join
<1>12. ASSUME Alive, NEW th \in Runners \cup Workers,
             LeaveLoop(th)
      PROVE  WorkerInv'
  BY <1>12, WorkerIds, SMTT(30) DEF LeaveLoop
<1>13. ASSUME Alive, NEW th \in Runners \cup Workers,
             TakeTask(th)
      PROVE  WorkerInv'
  BY <1>13, WorkerIds DEF TakeTask
<1>14. ASSUME Alive, NEW th \in Runners \cup Workers,
             EndTask(th)
      PROVE  WorkerInv'
  BY <1>14, WorkerIds DEF EndTask, InTask
<1>15. ASSUME Alive, NEW th \in Runners \cup Workers,
             EndTaskThrows(th)
      PROVE  WorkerInv'
  <2>1. /\ pc' = [pc EXCEPT ![th] = "out"] /\ spawned' = spawned
        /\ stack' = [stack EXCEPT ![th] = <<>>]
        /\ terminated' = (th \in Workers \/ spawned[th] > 0)
        /\ pc[th] = "loop"
    BY <1>15 DEF EndTaskThrows, InTask
  <2>2. \A m \in Runners : spawned[m] \in Nat
    BY WorkerIds
  <2>3. CASE th \in Runners /\ spawned[th] = 0
    <3>1. \A w \in Workers : pc'[w] = pc[w] /\ stack'[w] = stack[w]
      BY <2>1, <2>3, WorkerIds
    <3>2. \A m \in Runners : m # th => pc'[m] = pc[m] /\ stack'[m] = stack[m]
      BY <2>1
    <3>3. pc'[th] = "out" /\ spawned'[th] = 0
      BY <2>1, <2>3
    <3>4. \A m \in Runners, i \in 1 .. MaxSize - 1 : pc'[<<m, i>>] = pc[<<m, i>>]
      BY <3>1, WorkerIds
    <3>5. \A m \in Runners : m # th =>
             \/ spawned'[m] = 0
             \/ pc'[m] \in {"spawn", "loop", "join", "returned"}
             \/ pc'[m] \in {"stop", "reset"} /\ stack'[m] # <<>>
      BY <1>15, <2>1, <3>2
    <3>6. \A m \in Runners : pc'[m] = "returned" =>
             \A i \in 1 .. MaxSize - 1 : pc'[<<m, i>>] \in {"out", "exited"}
      <4> SUFFICES ASSUME NEW m \in Runners, pc'[m] = "returned"
                   PROVE  \A i \in 1 .. MaxSize - 1 : pc'[<<m, i>>] \in {"out", "exited"}
        OBVIOUS
      <4>1. pc[m] = "returned"
        BY <3>2, <3>3
      <4> QED
        BY <3>4, <4>1, ZenonT(40)
    <3> QED
      BY <2>1, <3>1, <3>3, <3>4, <3>5, <3>6
  <2>4. CASE th \in Workers \/ spawned[th] # 0
    <3>1. th \in Workers \/ spawned[th] > 0
      BY <2>2, <2>4, <1>15
    <3>2. terminated'
      BY <2>1, <3>1
    <3> QED
      BY <2>1, <3>2, WorkerIds
  <2> QED
    BY <2>3, <2>4, <1>15
<1>16. ASSUME Alive, NEW th \in Runners \cup Workers, NEW t \in Tasks,
             EnqueueInline(th, t)
      PROVE  WorkerInv'
  BY <1>16, WorkerIds, SMTT(30) DEF EnqueueInline, InTask
<1>17. ASSUME Alive, NEW th \in Threads, ShutdownFirst(th) PROVE WorkerInv'
  BY <1>17, WorkerIds, SMTT(30) DEF ShutdownFirst, MayShutdown, InTask
<1>18. ASSUME Alive, NEW th \in Threads, ShutdownStop(th) PROVE WorkerInv'
  BY <1>18, WorkerIds DEF ShutdownStop
<1>19. ASSUME Alive, NEW th \in Threads, ShutdownReset(th) PROVE WorkerInv'
  BY <1>19, WorkerIds DEF ShutdownReset
<1>20. CASE Destroy
  BY <1>20, WorkerIds DEF Destroy
<1>21. CASE UNCHANGED vars
  BY <1>21 DEF vars
<1> QED
  BY <1>1, <1>2, <1>3, <1>4, <1>5, <1>6, <1>7, <1>8, <1>9, <1>10, <1>11,
     <1>12, <1>13, <1>14, <1>15, <1>16, <1>17, <1>18, <1>19, <1>20, <1>21 DEF
     Next, CallerNext, RunnerNext, LoopNext, ShutdownNext

\* A pool of one never spawns.
LEMMA SoleStep == IInv /\ [Next]_vars => SoleInv'
<1> SUFFICES ASSUME IInv, [Next]_vars PROVE SoleInv'
  OBVIOUS
<1> USE DEF IInv, TypeOK, CallerLocations, RunLocations, Threads, Callers,
   Goto, initVars, ctxVars, taskVars, WorkerInv, SoleInv, OnceInv, InPool,
   Alive
<1>1. ASSUME Alive, NEW a \in Callers, NEW g \in {"run"} \cup Tasks,
             Call(a, g)
      PROVE  SoleInv'
  BY <1>1, WorkerIds DEF Call
<1>2. ASSUME Alive, NEW a \in Callers, OnceEnter(a) PROVE SoleInv'
  BY <1>2, WorkerIds DEF OnceEnter
<1>3. ASSUME Alive, NEW a \in Callers, NEW num \in 1 .. MaxSize,
             Construct(a, num)
      PROVE  SoleInv'
  BY <1>3, WorkerIds DEF Construct
<1>4. ASSUME Alive, NEW a \in Callers, ConstructThrows(a) PROVE SoleInv'
  BY <1>4, WorkerIds DEF ConstructThrows
<1>5. ASSUME Alive, NEW a \in Callers, OnceDone(a) PROVE SoleInv'
  BY <1>5, WorkerIds DEF OnceDone
<1>6. ASSUME Alive, NEW a \in Callers, Enqueue(a) PROVE SoleInv'
  BY <1>6, WorkerIds DEF Enqueue
<1>7. ASSUME Alive, NEW m \in Runners, RunStopped(m) PROVE SoleInv'
  BY <1>7, WorkerIds DEF RunStopped
<1>8. ASSUME Alive, NEW m \in Runners, RunStart(m) PROVE SoleInv'
  BY <1>8, WorkerIds DEF RunStart
<1>9. ASSUME Alive, NEW m \in Runners, SpawnWorker(m) PROVE SoleInv'
  BY <1>9, WorkerIds DEF SpawnWorker
<1>10. ASSUME Alive, NEW m \in Runners, RunSelf(m) PROVE SoleInv'
  BY <1>10, WorkerIds DEF RunSelf
<1>11. ASSUME Alive, NEW m \in Runners, Join(m) PROVE SoleInv'
  BY <1>11, WorkerIds DEF Join
<1>12. ASSUME Alive, NEW th \in Runners \cup Workers,
             LeaveLoop(th)
      PROVE  SoleInv'
  BY <1>12, WorkerIds DEF LeaveLoop
<1>13. ASSUME Alive, NEW th \in Runners \cup Workers,
             TakeTask(th)
      PROVE  SoleInv'
  BY <1>13, WorkerIds DEF TakeTask
<1>14. ASSUME Alive, NEW th \in Runners \cup Workers,
             EndTask(th)
      PROVE  SoleInv'
  BY <1>14, WorkerIds DEF EndTask, InTask
<1>15. ASSUME Alive, NEW th \in Runners \cup Workers,
             EndTaskThrows(th)
      PROVE  SoleInv'
  <2>1. th \in Workers => \E m \in Runners : spawned[m] > 0
    <3> SUFFICES ASSUME NEW m \in Runners, NEW i \in 1 .. MaxSize - 1, th = <<m, i>>
                 PROVE  spawned[m] > 0
      BY WorkerIds
    <3>1. ~(i > spawned[m])
      BY <1>15 DEF EndTaskThrows, InTask
    <3> QED
      BY <3>1, WorkerIds
  <2>2. /\ spawned' = spawned /\ worker_count_' = worker_count_
        /\ terminated' = (th \in Workers \/ spawned[th] > 0)
    BY <1>15 DEF EndTaskThrows
  <2>3. terminated' => \E m \in Runners : spawned[m] > 0
    BY <1>15, <2>1, <2>2
  <2> QED
    BY <2>2, <2>3
<1>16. ASSUME Alive, NEW th \in Runners \cup Workers, NEW t \in Tasks,
             EnqueueInline(th, t)
      PROVE  SoleInv'
  BY <1>16, WorkerIds, SMTT(30) DEF EnqueueInline, InTask
<1>17. ASSUME Alive, NEW th \in Threads, ShutdownFirst(th) PROVE SoleInv'
  BY <1>17, WorkerIds DEF ShutdownFirst, MayShutdown, InTask
<1>18. ASSUME Alive, NEW th \in Threads, ShutdownStop(th) PROVE SoleInv'
  BY <1>18, WorkerIds DEF ShutdownStop
<1>19. ASSUME Alive, NEW th \in Threads, ShutdownReset(th) PROVE SoleInv'
  BY <1>19, WorkerIds DEF ShutdownReset
<1>20. CASE Destroy
  BY <1>20, WorkerIds DEF Destroy
<1>21. CASE UNCHANGED vars
  BY <1>21 DEF vars
<1> QED
  BY <1>1, <1>2, <1>3, <1>4, <1>5, <1>6, <1>7, <1>8, <1>9, <1>10, <1>11,
     <1>12, <1>13, <1>14, <1>15, <1>16, <1>17, <1>18, <1>19, <1>20, <1>21 DEF
     Next, CallerNext, RunnerNext, LoopNext, ShutdownNext

-----------------------------------------------------------------------------
(* The theorems. *)

\* The invariant holds initially: there is no pool and nobody is in a call.
LEMMA InitInv == Init => IInv
<1> SUFFICES ASSUME Init PROVE IInv
  OBVIOUS
<1> USE PoolAssumption DEF Init, Callers, Threads
<1>1. TypeOK
  <2>1. pc \in [Threads -> CallerLocations \cup RunLocations] /\ stack \in [Threads -> Seq(Tasks)]
    BY DEF CallerLocations
  <2>2. goal \in [Callers -> {"none", "run"} \cup Tasks]
    OBVIOUS
  <2>3. spawned \in [Runners -> 0 .. MaxSize - 1] /\ worker_count_ \in 0 .. MaxSize
    OBVIOUS
  <2>4. queue \in Seq(Tasks) /\ begun \in Seq(Tasks)
    OBVIOUS
  <2> QED
    BY <2>1, <2>2, <2>3, <2>4 DEF TypeOK
<1>2. OnceInv /\ GoalInv /\ StopInv
  BY DEF OnceInv, GoalInv, StopInv, InPool
<1>3. QueueInv
  BY DEF QueueInv, Started
<1>4. WorkerInv /\ SoleInv
  BY WorkerIds DEF WorkerInv, SoleInv
<1> QED
  BY <1>1, <1>2, <1>3, <1>4 DEF IInv

\* The inductive invariant holds in every reachable state of the pool.
THEOREM Invariance == Spec => []IInv
<1>1. IInv /\ [Next]_vars => IInv'
  BY TypeStep, OnceStep, GoalStep, StopStep, QueueStep, WorkerStep, SoleStep DEF IInv
<1> QED
  BY InitInv, <1>1, PTL DEF Spec

\* Every variable of the pool keeps to its type.
THEOREM TypeCorrect == Spec => []TypeOK
<1>1. IInv => TypeOK
  BY DEF IInv
<1> QED
  BY Invariance, <1>1, PTL

\* Nobody uses the pool before it is made, whichever caller comes first and
\* however often asio_pool_init fails.
THEOREM InitBeforeUse == Spec => []PoolCreated
<1>1. IInv => PoolCreated
  BY DEF IInv, OnceInv, PoolCreated
<1> QED
  BY Invariance, <1>1, PTL

\* A handler's exception ends the process only when the pool has workers.
THEOREM SoleRunner == Spec => []SoleRunnerSurvives
<1>1. IInv => SoleRunnerSurvives
  BY DEF IInv, SoleInv, SoleRunnerSurvives
<1> QED
  BY Invariance, <1>1, PTL

\* The pool implements TaskPool: a task starts at most once and only after it
\* was handed in, and run() returns only after shutdown().
THEOREM PoolImplementsTaskPool == Spec => ImplementsPool
<1>1. Init => Pool!Init
  BY PoolAssumption DEF Init, Pool!Init, Threads, Callers
<1>2. IInv /\ [Next]_vars => [Pool!Next]_(Pool!vars)
  <2> SUFFICES ASSUME IInv, [Next]_vars PROVE [Pool!Next]_(Pool!vars)
    OBVIOUS
  <2> DEFINE Home == {m \in Runners : pc[m] = "returned"}
             Still == UNCHANGED <<submitted, begun, stopped_>> /\ Home' = Home
  <2>0. Still => UNCHANGED Pool!vars
    BY DEF Pool!vars
  <2> USE DEF IInv, TypeOK, Threads, Callers, Goto, taskVars
  <2>1. ASSUME NEW a \in Callers, CallerNext(a) PROVE Still \/ Pool!Next
    <3>1. ASSUME Enqueue(a) PROVE Pool!Submit(goal[a]) /\ goal[a] \in Tasks
      BY <3>1 DEF Enqueue, Pool!Submit, GoalInv
    <3>2. ASSUME NEW g, Call(a, g) PROVE Still
      BY <3>2 DEF Call
    <3>3. CASE OnceEnter(a)
      BY <3>3 DEF OnceEnter
    <3>4. ASSUME NEW num \in 1 .. MaxSize, Construct(a, num) PROVE Still
      BY <3>4 DEF Construct
    <3>5. CASE ConstructThrows(a)
      BY <3>5 DEF ConstructThrows
    <3>6. CASE OnceDone(a)
      BY <3>6 DEF OnceDone
    <3> QED
      BY <2>1, <3>1, <3>2, <3>3, <3>4, <3>5, <3>6 DEF CallerNext, Pool!Next
  <2>2. ASSUME NEW m \in Runners, RunnerNext(m) PROVE Still \/ Pool!Next
    <3>1. ASSUME RunStopped(m) \/ Join(m) PROVE Pool!ReturnHome(m)
      BY <3>1 DEF RunStopped, Join, Pool!ReturnHome, StopInv
    <3>2. CASE RunStart(m) \/ RunSelf(m)
      BY <3>2 DEF RunStart, RunSelf
    <3>3. CASE SpawnWorker(m)
      <4>1. <<m, spawned[m] + 1>> \notin Runners
        <5>1. spawned[m] + 1 \in 1 .. MaxSize - 1
          BY <3>3, PoolAssumption DEF SpawnWorker
        <5> QED
          BY <5>1, WorkerIds
      <4>2. \A n \in Runners : pc'[n] = pc[n]
        BY <3>3, <4>1 DEF SpawnWorker
      <4>3. UNCHANGED <<submitted, begun, stopped_>>
        BY <3>3 DEF SpawnWorker
      <4> QED
        BY <4>2, <4>3
    <3> QED
      BY <2>2, <3>1, <3>2, <3>3 DEF RunnerNext, Pool!Next
  <2>3. ASSUME NEW th \in Runners \cup Workers, LoopNext(th) PROVE Still \/ Pool!Next
    <3>1. ASSUME TakeTask(th) PROVE Pool!Start(Head(queue)) /\ Head(queue) \in Tasks
      BY <3>1, QueueHead DEF TakeTask, Pool!Start, Started
    <3>2. CASE LeaveLoop(th)
      BY <3>2 DEF LeaveLoop
    <3>3. CASE EndTask(th) \/ EndTaskThrows(th)
      BY <3>3 DEF EndTask, EndTaskThrows, InTask
    <3> QED
      BY <2>3, <3>1, <3>2, <3>3 DEF LoopNext, Pool!Next
  <2>4. ASSUME NEW th \in Runners \cup Workers, NEW t \in Tasks, EnqueueInline(th, t)
        PROVE  Pool!SubmitAndStart(t)
    BY <2>4 DEF EnqueueInline, Fresh, Pool!SubmitAndStart
  <2>5. ASSUME NEW th \in Threads, ShutdownNext(th) PROVE Still \/ Pool!Close
    <3>1. ASSUME ShutdownFirst(th) PROVE Pool!Close
      BY <3>1 DEF ShutdownFirst, MayShutdown, InTask, Pool!Close
    <3>2. CASE ShutdownStop(th) \/ ShutdownReset(th)
      BY <3>2 DEF ShutdownStop, ShutdownReset
    <3> QED
      BY <2>5, <3>1, <3>2 DEF ShutdownNext
  <2>6. ASSUME Destroy PROVE Still
    BY <2>6, PoolAssumption DEF Destroy, StopInv
  <2>7. ASSUME UNCHANGED vars PROVE Still
    BY <2>7 DEF vars
  <2> QED
    BY <2>0, <2>1, <2>2, <2>3, <2>4, <2>5, <2>6, <2>7 DEF Next, Pool!Next
<1> QED
  BY <1>1, <1>2, Invariance, PTL DEF Spec, ImplementsPool, Pool!Spec

\* Neither main nor its workers are inside the pool when it is destroyed:
\* run() has joined them, and they have finished what they were doing.
THEOREM NoUseAfterDestroy == Spec => []PoolAlive
<1> DEFINE Gone == pool = "destroyed" => pc[Main] = "returned"
<1>1. Init => Gone
  BY DEF Init
<1>2. IInv /\ Gone /\ [Next]_vars => Gone'
  <2> SUFFICES ASSUME IInv, Gone, [Next]_vars, pool' = "destroyed"
               PROVE  pc'[Main] = "returned"
    OBVIOUS
  <2>1. CASE UNCHANGED vars
    BY <2>1 DEF vars, initVars
  <2>2. CASE Destroy
    BY <2>2 DEF Destroy
  <2>3. ASSUME Next, ~Destroy PROVE FALSE
    BY <2>3 DEF Next, Alive, CallerNext, RunnerNext, LoopNext, ShutdownNext, Call,
       OnceEnter, Construct, ConstructThrows, OnceDone, Enqueue, RunStopped,
       RunStart, SpawnWorker, RunSelf, Join, LeaveLoop, TakeTask, EndTask,
       EndTaskThrows, EnqueueInline, ShutdownFirst, ShutdownStop, ShutdownReset,
       initVars
  <2> QED
    BY <2>1, <2>2, <2>3
<1>3. IInv /\ Gone => PoolAlive
  <2> SUFFICES ASSUME IInv, Gone,
                      NEW th \in {Main} \cup ({Main} \X (1 .. MaxSize - 1)),
                      InPool(th), pool # "alive"
               PROVE  FALSE
    BY DEF PoolAlive
  <2>1. Main \in Threads /\ {Main} \X (1 .. MaxSize - 1) \subseteq Threads
    BY PoolAssumption DEF Threads, Callers, Workers
  <2>2. pc[Main] = "returned"
    BY <2>1 DEF IInv, TypeOK, OnceInv
  <2>3. th # Main
    BY <2>2 DEF InPool
  <2>4. PICK i \in 1 .. MaxSize - 1 : th = <<Main, i>>
    BY <2>3
  <2>5. pc[th] \in {"out", "exited"}
    BY <2>2, <2>4, WorkerIds, PoolAssumption DEF IInv, WorkerInv
  <2> QED
    BY <2>5 DEF InPool
<1> QED
  BY <1>1, <1>2, <1>3, Invariance, PTL DEF Spec

\* The pool is there whenever somebody is inside it: between the two ends of
\* its life, as far as main and the workers of main are concerned.
THEOREM PoolIsUsable == Spec => []PoolUsable
  BY InitBeforeUse, NoUseAfterDestroy, PTL DEF PoolUsable
=============================================================================
