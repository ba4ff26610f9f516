-------------------------- MODULE AsyncQueueProofs --------------------------
(***************************************************************************)
(* Theorems about AsyncQueue, for every number of producers, consumers,    *)
(* observers, pool threads and calls: the types, the exclusive use of the  *)
(* list and of the timer, exactly-once delivery in order, and that the     *)
(* queue implements FifoChannel.                                           *)
(*                                                                         *)
(* Then about SignalStream, which makes a queue part of a stream: emitting,*)
(* making and dropping a stream keep the invariant of the queue, so that a *)
(* stream is still a FifoChannel; and on one pool thread a stream with one *)
(* reader loses no event and leaves nothing behind that would touch its    *)
(* queue once it is destroyed.                                             *)
(***************************************************************************)
EXTENDS SignalStream, TLAPS, SequenceTheorems, FiniteSetTheorems

-----------------------------------------------------------------------------
(* The inductive invariant. *)

\* The actors that are between a lock and an unlock of queue_mtx_.
HoldsMutex(a) ==
    pc[a] \in {"append", "tryMove", "tryClear", "popMove", "popClear", "size"}

\* The value a producer is about to append is one of its items.
CallsInv == \A p \in Producers : pc[p] = "append" => calls[p] \in 1 .. MaxCalls

\* The mutex is held by the actor that is inside a critical section.
MutexInv == \A a \in Actors : HoldsMutex(a) <=> queue_mtx_ = a

\* Between the halves of a move, the local list is the queue.
MoveInv == \A t \in Takers : pc[t] \in {"tryClear", "popClear"} => r[t] = queue_

\* The strand is owned by the actor that is at work on the timer.
StrandInv == \A a \in Actors : TouchesTimer(a) <=> strandOwner = a

\* An invocation of the strand is posted only when it is free and has work.
PostedInv == strandPosted => strandOwner = NoActor /\ strandQueue # <<>>

\* A coroutine in the strand's queue is suspended there, once.
SuspendedInv ==
    /\ \A i \in DOMAIN strandQueue :
          strandQueue[i] \in Consumers => pc[strandQueue[i]] = "strandWait"
    /\ \A i, j \in DOMAIN strandQueue :
          strandQueue[i] = strandQueue[j] /\ strandQueue[i] \in Consumers => i = j

\* A pending wait belongs to a suspended consumer.
WaitInv == \A c \in timerWaits : pc[c] = "waiting"

IInv ==
    /\ TypeOK
    /\ CallsInv
    /\ MutexInv
    /\ MoveInv
    /\ ExactlyOnceInOrder
    /\ StrandInv
    /\ PostedInv
    /\ SuspendedInv
    /\ WaitInv

-----------------------------------------------------------------------------
(* Lemmas about the operators. *)

\* The handler at the front of the strand's queue is wake()'s, or a consumer
\* that is suspended there.
LEMMA StrandHead ==
  ASSUME IInv, strandQueue # <<>>
  PROVE  /\ Head(strandQueue) \in Consumers \cup {WakeHandler}
         /\ Tail(strandQueue) \in Seq(Consumers \cup {WakeHandler})
         /\ Head(strandQueue) \in Consumers => pc[Head(strandQueue)] = "strandWait"
         /\ \A i \in DOMAIN Tail(strandQueue) :
                /\ i + 1 \in DOMAIN strandQueue
                /\ Tail(strandQueue)[i] = strandQueue[i + 1]
                /\ Tail(strandQueue)[i] \in Consumers =>
                      Tail(strandQueue)[i] # Head(strandQueue)
<1> USE DEF IInv, TypeOK
<1>1. /\ Head(strandQueue) = strandQueue[1]
      /\ 1 \in DOMAIN strandQueue
      /\ Tail(strandQueue) \in Seq(Consumers \cup {WakeHandler})
      /\ Head(strandQueue) \in Consumers \cup {WakeHandler}
  BY HeadTailProperties
<1>2. ASSUME NEW i \in DOMAIN Tail(strandQueue)
      PROVE  /\ i + 1 \in DOMAIN strandQueue
             /\ Tail(strandQueue)[i] = strandQueue[i + 1]
             /\ i + 1 # 1
  BY HeadTailProperties
<1> QED
  BY <1>1, <1>2 DEF SuspendedInv

\* A handler that is queued goes behind the others.
LEMMA StrandAppend ==
  ASSUME IInv, NEW h \in Consumers \cup {WakeHandler}
  PROVE  /\ Append(strandQueue, h) \in Seq(Consumers \cup {WakeHandler})
         /\ Append(strandQueue, h) # <<>>
         /\ \A i \in DOMAIN Append(strandQueue, h) :
               \/ i \in DOMAIN strandQueue /\ Append(strandQueue, h)[i] = strandQueue[i]
               \/ i = Len(strandQueue) + 1 /\ Append(strandQueue, h)[i] = h
<1> strandQueue \in Seq(Consumers \cup {WakeHandler})
  BY DEF IInv, TypeOK
<1> QED
  BY AppendProperties

\* A value appended to the queue is appended to the history.
LEMMA AppendToHistory ==
  ASSUME NEW S, NEW s \in Seq(S), NEW t \in Seq(S), NEW v \in S
  PROVE  s \o Append(t, v) = Append(s \o t, v)
<1>1. <<v>> \in Seq(S)
  OBVIOUS
<1>2. Append(t, v) = t \o <<v>> /\ Append(s \o t, v) = (s \o t) \o <<v>>
  BY AppendIsConcat, ConcatProperties
<1> QED
  BY <1>1, <1>2, ConcatAssociative

\* Emptying the list into a caller's hands keeps the types.
LEMMA ClearTypes ==
  ASSUME IInv, NEW t \in Takers, ClearAndUnlock(t)
  PROVE  /\ queue_' \in Seq(Item)
         /\ taken' \in Seq(Item)
         /\ r' \in [Takers -> Seq(Item)]
         /\ queue_mtx_' = NoActor
         /\ UNCHANGED <<strandVars, timerWaits, calls, pushed>>
<1> USE DEF IInv, TypeOK, ClearAndUnlock
<1>1. r[t] \in Seq(Item) /\ taken \in Seq(Item)
  OBVIOUS
<1>2. taken \o r[t] \in Seq(Item)
  BY <1>1, ConcatProperties
<1> QED
  BY <1>2

-----------------------------------------------------------------------------
(* Every step preserves every part of the invariant. *)

\* A step keeps every variable in its type.
LEMMA TypeStep == IInv /\ [Next]_vars => TypeOK'
<1> SUFFICES ASSUME IInv, [Next]_vars PROVE TypeOK'
  OBVIOUS
<1> USE DEF IInv, TypeOK, Locations, Item, Producers, Coroutines, Takers,
   Actors, strandVars, listVars, CallsInv, PostedInv, ExactlyOnceInOrder
<1>1. ASSUME NEW a \in Coroutines, Resume(a) PROVE TypeOK'
  BY <1>1 DEF Resume
<1>2. CASE StrandInvoke
  <2>1. strandQueue # <<>>
    BY <1>2 DEF StrandInvoke
  <2> QED
    BY <1>2, <2>1, StrandHead, QueueAssumption DEF StrandInvoke
<1>3. CASE CancelQueued
  BY <1>3 DEF CancelQueued, CancelWaits, LeaveStrand, Finish
<1>4. ASSUME NEW p \in Producers, PushLock(p) PROVE TypeOK'
  BY <1>4, QueueAssumption DEF PushLock, HasWork
<1>5. ASSUME NEW p \in Producers, PushAppend(p) PROVE TypeOK'
  BY <1>5 DEF PushAppend
<1>6. ASSUME NEW p \in Producers, WakeOnly(p) PROVE TypeOK'
  BY <1>6, QueueAssumption DEF WakeOnly, HasWork
<1>7. ASSUME NEW p \in Producers, WakeInline(p) PROVE TypeOK'
  BY <1>7 DEF WakeInline, EnterStrand
<1>8. ASSUME NEW p \in Producers, WakeQueued(p) PROVE TypeOK'
  BY <1>8 DEF WakeQueued, QueueOnStrand, Finish
<1>9. ASSUME NEW p \in Producers, CancelInline(p) PROVE TypeOK'
  BY <1>9 DEF CancelInline, CancelWaits, LeaveStrand, Finish
<1>10. ASSUME NEW t \in Takers, TryPopLock(t) PROVE TypeOK'
  BY <1>10 DEF TryPopLock
<1>11. ASSUME NEW t \in Takers, TryPopBusy(t) PROVE TypeOK'
  BY <1>11 DEF TryPopBusy
<1>12. ASSUME NEW t \in Takers, TryPopMove(t) PROVE TypeOK'
  BY <1>12 DEF TryPopMove, MoveOut
<1>13. ASSUME NEW t \in Takers, TryPopReturn(t) PROVE TypeOK'
  BY <1>13, ClearTypes DEF TryPopReturn, Finish
<1>14. ASSUME NEW c \in Consumers, TryPopEmpty(c) PROVE TypeOK'
  BY <1>14, ClearTypes DEF TryPopEmpty
<1>15. ASSUME NEW c \in Consumers, PopDispatchInline(c) PROVE TypeOK'
  BY <1>15 DEF PopDispatchInline, EnterStrand
<1>16. ASSUME NEW c \in Consumers, PopDispatchQueued(c) PROVE TypeOK'
  BY <1>16 DEF PopDispatchQueued, QueueOnStrand
<1>17. ASSUME NEW c \in Consumers, PopRearm(c) PROVE TypeOK'
  BY <1>17 DEF PopRearm, CancelWaits
<1>18. ASSUME NEW c \in Consumers, PopWait(c) PROVE TypeOK'
  BY <1>18 DEF PopWait, LeaveStrand
<1>19. ASSUME NEW c \in Consumers, PopLock(c) PROVE TypeOK'
  BY <1>19 DEF PopLock
<1>20. ASSUME NEW c \in Consumers, PopMove(c) PROVE TypeOK'
  BY <1>20 DEF PopMove, MoveOut
<1>21. ASSUME NEW c \in Consumers, PopReturn(c) PROVE TypeOK'
  BY <1>21, ClearTypes DEF PopReturn, Finish
<1>22. ASSUME NEW o \in Observers, SizeLock(o) \/ SizeUnlock(o) PROVE TypeOK'
  BY <1>22 DEF SizeLock, SizeUnlock
<1>23. CASE UNCHANGED vars
  BY <1>23 DEF vars, strandVars, listVars
<1> QED
  BY <1>1, <1>2, <1>3, <1>4, <1>5, <1>6, <1>7, <1>8, <1>9, <1>10, <1>11,
     <1>12, <1>13, <1>14, <1>15, <1>16, <1>17, <1>18, <1>19, <1>20, <1>21,
     <1>22, <1>23 DEF Next, ProducerNext, TryPopNext, PopNext, SizeNext

\* A producer's counter is raised before it appends.
LEMMA CallsStep == IInv /\ [Next]_vars => CallsInv'
<1> SUFFICES ASSUME IInv, [Next]_vars PROVE CallsInv'
  OBVIOUS
<1> USE DEF IInv, TypeOK, Locations, Item, Producers, Coroutines, Takers,
   Actors, strandVars, listVars, CallsInv, WaitInv
<1>1. ASSUME NEW a \in Coroutines, Resume(a) PROVE CallsInv'
  BY <1>1 DEF Resume
<1>2. CASE StrandInvoke
  BY <1>2 DEF StrandInvoke
<1>3. CASE CancelQueued
  BY <1>3 DEF CancelQueued, CancelWaits, LeaveStrand, Finish
<1>4. ASSUME NEW p \in Producers, PushLock(p) PROVE CallsInv'
  BY <1>4, QueueAssumption DEF PushLock, HasWork
<1>5. ASSUME NEW p \in Producers,
             PushAppend(p) \/ WakeOnly(p) \/ WakeInline(p) \/ WakeQueued(p)
             \/ CancelInline(p)
      PROVE  CallsInv'
  BY <1>5 DEF PushAppend, WakeOnly, WakeInline, EnterStrand, WakeQueued,
     QueueOnStrand, Finish, CancelInline, CancelWaits, LeaveStrand
<1>6. ASSUME NEW t \in Takers,
             TryPopLock(t) \/ TryPopBusy(t) \/ TryPopMove(t)
             \/ TryPopReturn(t)
      PROVE  CallsInv'
  BY <1>6 DEF TryPopLock, TryPopBusy, TryPopMove, MoveOut, TryPopReturn,
     ClearAndUnlock, Finish
<1>7. ASSUME NEW c \in Consumers,
             TryPopEmpty(c) \/ PopDispatchInline(c) \/ PopDispatchQueued(c)
             \/ PopRearm(c) \/ PopWait(c) \/ PopLock(c) \/ PopMove(c)
             \/ PopReturn(c)
      PROVE  CallsInv'
  BY <1>7 DEF TryPopEmpty, ClearAndUnlock, PopDispatchInline, EnterStrand,
     PopDispatchQueued, QueueOnStrand, PopRearm, CancelWaits, PopWait,
     LeaveStrand, PopLock, PopMove, MoveOut, PopReturn, Finish
<1>8. ASSUME NEW o \in Observers, SizeLock(o) \/ SizeUnlock(o) PROVE CallsInv'
  BY <1>8 DEF SizeLock, SizeUnlock
<1>9. CASE UNCHANGED vars
  BY <1>9 DEF vars, strandVars, listVars
<1> QED
  BY <1>1, <1>2, <1>3, <1>4, <1>5, <1>6, <1>7, <1>8, <1>9 DEF Next,
     ProducerNext, TryPopNext, PopNext, SizeNext

\* Locks and unlocks bracket the critical sections.
LEMMA MutexStep == IInv /\ [Next]_vars => MutexInv'
<1> SUFFICES ASSUME IInv, [Next]_vars PROVE MutexInv'
  OBVIOUS
<1> USE DEF IInv, TypeOK, Locations, Item, Producers, Coroutines, Takers,
   Actors, strandVars, listVars, MutexInv, HoldsMutex, WaitInv, SuspendedInv,
   StrandInv, PostedInv, TouchesTimer
<1>1. ASSUME NEW a \in Coroutines, Resume(a) PROVE MutexInv'
  BY <1>1 DEF Resume
<1>2. CASE StrandInvoke
  <2>1. strandQueue # <<>>
    BY <1>2 DEF StrandInvoke
  <2> QED
    BY <1>2, <2>1, StrandHead, QueueAssumption DEF StrandInvoke
<1>3. CASE CancelQueued
  BY <1>3 DEF CancelQueued, CancelWaits, LeaveStrand, Finish
<1>4. ASSUME NEW p \in Producers, PushLock(p) PROVE MutexInv'
  BY <1>4, QueueAssumption DEF PushLock
<1>5. ASSUME NEW p \in Producers, PushAppend(p) PROVE MutexInv'
  BY <1>5, QueueAssumption DEF PushAppend
<1>6. ASSUME NEW p \in Producers, WakeOnly(p) PROVE MutexInv'
  BY <1>6 DEF WakeOnly
<1>7. ASSUME NEW p \in Producers, WakeInline(p) PROVE MutexInv'
  BY <1>7 DEF WakeInline, EnterStrand
<1>8. ASSUME NEW p \in Producers, WakeQueued(p) PROVE MutexInv'
  BY <1>8 DEF WakeQueued, QueueOnStrand, Finish
<1>9. ASSUME NEW p \in Producers, CancelInline(p) PROVE MutexInv'
  BY <1>9 DEF CancelInline, CancelWaits, LeaveStrand, Finish
<1>10. ASSUME NEW t \in Takers, TryPopLock(t) PROVE MutexInv'
  BY <1>10, QueueAssumption DEF TryPopLock
<1>11. ASSUME NEW t \in Takers, TryPopReturn(t) PROVE MutexInv'
  BY <1>11, QueueAssumption DEF TryPopReturn, ClearAndUnlock, Finish
<1>12. ASSUME NEW t \in Takers, TryPopBusy(t) \/ TryPopMove(t) PROVE MutexInv'
  BY <1>12 DEF TryPopBusy, TryPopMove, MoveOut
<1>13. ASSUME NEW c \in Consumers, TryPopEmpty(c) PROVE MutexInv'
  BY <1>13, QueueAssumption DEF TryPopEmpty, ClearAndUnlock
<1>14. ASSUME NEW c \in Consumers, PopDispatchInline(c) PROVE MutexInv'
  BY <1>14 DEF PopDispatchInline, EnterStrand
<1>15. ASSUME NEW c \in Consumers, PopDispatchQueued(c) PROVE MutexInv'
  BY <1>15 DEF PopDispatchQueued, QueueOnStrand
<1>16. ASSUME NEW c \in Consumers, PopRearm(c) PROVE MutexInv'
  BY <1>16 DEF PopRearm, CancelWaits
<1>17. ASSUME NEW c \in Consumers, PopWait(c) PROVE MutexInv'
  BY <1>17 DEF PopWait, LeaveStrand
<1>18. ASSUME NEW c \in Consumers, PopLock(c) PROVE MutexInv'
  BY <1>18, QueueAssumption DEF PopLock
<1>19. ASSUME NEW c \in Consumers, PopMove(c) PROVE MutexInv'
  BY <1>19 DEF PopMove, MoveOut
<1>20. ASSUME NEW c \in Consumers, PopReturn(c) PROVE MutexInv'
  BY <1>20, QueueAssumption DEF PopReturn, ClearAndUnlock, Finish
<1>21. ASSUME NEW o \in Observers, SizeLock(o) PROVE MutexInv'
  BY <1>21, QueueAssumption DEF SizeLock
<1>22. ASSUME NEW o \in Observers, SizeUnlock(o) PROVE MutexInv'
  BY <1>22, QueueAssumption DEF SizeUnlock
<1>23. CASE UNCHANGED vars
  BY <1>23 DEF vars, strandVars, listVars
<1> QED
  BY <1>1, <1>2, <1>3, <1>4, <1>5, <1>6, <1>7, <1>8, <1>9, <1>10, <1>11,
     <1>12, <1>13, <1>14, <1>15, <1>16, <1>17, <1>18, <1>19, <1>20, <1>21,
     <1>22, <1>23 DEF Next, ProducerNext, TryPopNext, PopNext, SizeNext

\* Nobody touches the list between the halves of a move.
LEMMA MoveStep == IInv /\ [Next]_vars => MoveInv'
<1> SUFFICES ASSUME IInv, [Next]_vars PROVE MoveInv'
  OBVIOUS
<1> USE DEF IInv, TypeOK, Locations, Item, Producers, Coroutines, Takers,
   Actors, strandVars, listVars, MoveInv, MutexInv, HoldsMutex, WaitInv
<1>1. ASSUME NEW a \in Coroutines, Resume(a) PROVE MoveInv'
  BY <1>1 DEF Resume
<1>2. CASE StrandInvoke
  BY <1>2 DEF StrandInvoke
<1>3. CASE CancelQueued
  BY <1>3 DEF CancelQueued, CancelWaits, LeaveStrand, Finish
<1>4. ASSUME NEW p \in Producers,
             PushLock(p) \/ PushAppend(p) \/ WakeOnly(p) \/ WakeInline(p)
             \/ WakeQueued(p) \/ CancelInline(p)
      PROVE  MoveInv'
  BY <1>4 DEF PushLock, PushAppend, WakeOnly, WakeInline, EnterStrand,
     WakeQueued, QueueOnStrand, Finish, CancelInline, CancelWaits, LeaveStrand
<1>5. ASSUME NEW t \in Takers,
             TryPopLock(t) \/ TryPopBusy(t) \/ TryPopMove(t)
             \/ TryPopReturn(t)
      PROVE  MoveInv'
  <2>1. CASE TryPopLock(t)
    BY <2>1 DEF TryPopLock
  <2>2. CASE TryPopBusy(t)
    BY <2>2 DEF TryPopBusy
  <2>3. CASE TryPopMove(t)
    BY <2>3 DEF TryPopMove, MoveOut
  <2>4. CASE TryPopReturn(t)
    BY <2>4 DEF TryPopReturn, ClearAndUnlock, Finish
  <2> QED
    BY <1>5, <2>1, <2>2, <2>3, <2>4
<1>6. ASSUME NEW c \in Consumers,
             TryPopEmpty(c) \/ PopDispatchInline(c) \/ PopDispatchQueued(c)
             \/ PopRearm(c) \/ PopWait(c) \/ PopLock(c) \/ PopMove(c)
             \/ PopReturn(c)
      PROVE  MoveInv'
  BY <1>6 DEF TryPopEmpty, ClearAndUnlock, PopDispatchInline, EnterStrand,
     PopDispatchQueued, QueueOnStrand, PopRearm, CancelWaits, PopWait,
     LeaveStrand, PopLock, PopMove, MoveOut, PopReturn, Finish
<1>7. ASSUME NEW o \in Observers, SizeLock(o) \/ SizeUnlock(o) PROVE MoveInv'
  BY <1>7 DEF SizeLock, SizeUnlock
<1>8. CASE UNCHANGED vars
  BY <1>8 DEF vars, strandVars, listVars
<1> QED
  BY <1>1, <1>2, <1>3, <1>4, <1>5, <1>6, <1>7, <1>8 DEF Next, ProducerNext,
     TryPopNext, PopNext, SizeNext

\* A step keeps what was taken and what is queued equal to what was pushed.
LEMMA HistoryStep == IInv /\ [Next]_vars => ExactlyOnceInOrder'
<1> SUFFICES ASSUME IInv, [Next]_vars PROVE ExactlyOnceInOrder'
  OBVIOUS
<1> USE DEF IInv, TypeOK, Locations, Item, Producers, Coroutines, Takers,
   Actors, strandVars, listVars, ExactlyOnceInOrder, MoveInv, CallsInv
<1>1. ASSUME NEW a \in Coroutines, Resume(a) PROVE ExactlyOnceInOrder'
  BY <1>1 DEF Resume
<1>2. CASE StrandInvoke
  BY <1>2 DEF StrandInvoke
<1>3. CASE CancelQueued
  BY <1>3 DEF CancelQueued, CancelWaits, LeaveStrand, Finish
<1>4. ASSUME NEW p \in Producers, PushAppend(p) PROVE ExactlyOnceInOrder'
  <2>1. <<p, calls[p]>> \in Item /\ queue_ \in Seq(Item) /\ taken \in Seq(Item)
    BY <1>4 DEF PushAppend
  <2>2. taken \o Append(queue_, <<p, calls[p]>>) = Append(taken \o queue_, <<p, calls[p]>>)
    <3> HIDE DEF IInv, TypeOK, Item
    <3> QED
      BY <2>1, AppendToHistory
  <2> QED
    BY <1>4, <2>2 DEF PushAppend
<1>5. ASSUME NEW p \in Producers,
             PushLock(p) \/ WakeOnly(p) \/ WakeInline(p) \/ WakeQueued(p)
             \/ CancelInline(p)
      PROVE  ExactlyOnceInOrder'
  BY <1>5 DEF PushLock, WakeOnly, WakeInline, EnterStrand, WakeQueued,
     QueueOnStrand, Finish, CancelInline, CancelWaits, LeaveStrand
<1>6. ASSUME NEW t \in Takers, TryPopReturn(t) PROVE ExactlyOnceInOrder'
  <2>1. r[t] = queue_
    BY <1>6 DEF TryPopReturn
  <2>2. taken' \o queue_' = taken \o queue_
    BY <1>6, <2>1 DEF TryPopReturn, ClearAndUnlock
  <2> QED
    BY <1>6, <2>2 DEF TryPopReturn, ClearAndUnlock
<1>7. ASSUME NEW t \in Takers,
             TryPopLock(t) \/ TryPopBusy(t) \/ TryPopMove(t)
      PROVE  ExactlyOnceInOrder'
  BY <1>7 DEF TryPopLock, TryPopBusy, TryPopMove, MoveOut
<1>8. ASSUME NEW c \in Consumers, TryPopEmpty(c) PROVE ExactlyOnceInOrder'
  <2>1. r[c] = <<>> /\ queue_ = <<>>
    BY <1>8 DEF TryPopEmpty
  <2>2. taken' = taken /\ queue_' = queue_
    BY <1>8, <2>1, ConcatEmptySeq DEF TryPopEmpty, ClearAndUnlock
  <2> QED
    BY <1>8, <2>2 DEF TryPopEmpty, ClearAndUnlock
<1>9. ASSUME NEW c \in Consumers, PopReturn(c) PROVE ExactlyOnceInOrder'
  <2>1. r[c] = queue_
    BY <1>9 DEF PopReturn
  <2>2. taken' \o queue_' = taken \o queue_
    BY <1>9, <2>1 DEF PopReturn, ClearAndUnlock
  <2> QED
    BY <1>9, <2>2 DEF PopReturn, ClearAndUnlock
<1>10. ASSUME NEW c \in Consumers,
             PopDispatchInline(c) \/ PopDispatchQueued(c) \/ PopRearm(c)
             \/ PopWait(c) \/ PopLock(c) \/ PopMove(c)
      PROVE  ExactlyOnceInOrder'
  BY <1>10 DEF PopDispatchInline, EnterStrand, PopDispatchQueued,
     QueueOnStrand, PopRearm, CancelWaits, PopWait, LeaveStrand, PopLock,
     PopMove, MoveOut
<1>11. ASSUME NEW o \in Observers,
             SizeLock(o) \/ SizeUnlock(o)
      PROVE  ExactlyOnceInOrder'
  BY <1>11 DEF SizeLock, SizeUnlock
<1>12. CASE UNCHANGED vars
  BY <1>12 DEF vars, strandVars, listVars
<1> QED
  BY <1>1, <1>2, <1>3, <1>4, <1>5, <1>6, <1>7, <1>8, <1>9, <1>10, <1>11, <1>12
     DEF Next, ProducerNext, TryPopNext, PopNext, SizeNext

\* Only the owner of the strand works on the timer.
LEMMA StrandStep == IInv /\ [Next]_vars => StrandInv'
<1> SUFFICES ASSUME IInv, [Next]_vars PROVE StrandInv'
  OBVIOUS
<1> USE DEF IInv, TypeOK, Locations, Item, Producers, Coroutines, Takers,
   Actors, strandVars, listVars, StrandInv, TouchesTimer, WaitInv, PostedInv,
   SuspendedInv, StrandLocked
<1>1. ASSUME NEW a \in Coroutines, Resume(a) PROVE StrandInv'
  BY <1>1 DEF Resume
<1>2. CASE StrandInvoke
  <2>1. strandQueue # <<>>
    BY <1>2 DEF StrandInvoke
  <2> QED
    BY <1>2, <2>1, StrandHead, QueueAssumption DEF StrandInvoke
<1>3. CASE CancelQueued
  BY <1>3, QueueAssumption DEF CancelQueued, CancelWaits, LeaveStrand, Finish
<1>4. ASSUME NEW p \in Producers, WakeInline(p) PROVE StrandInv'
  BY <1>4, QueueAssumption DEF WakeInline, EnterStrand
<1>5. ASSUME NEW p \in Producers, CancelInline(p) PROVE StrandInv'
  BY <1>5, QueueAssumption DEF CancelInline, CancelWaits, LeaveStrand, Finish
<1>6. ASSUME NEW p \in Producers,
             PushLock(p) \/ PushAppend(p) \/ WakeOnly(p) \/ WakeQueued(p)
      PROVE  StrandInv'
  BY <1>6 DEF PushLock, PushAppend, WakeOnly, WakeQueued, QueueOnStrand,
     Finish
<1>7. ASSUME NEW t \in Takers,
             TryPopLock(t) \/ TryPopBusy(t) \/ TryPopMove(t)
             \/ TryPopReturn(t)
      PROVE  StrandInv'
  <2>1. CASE TryPopLock(t)
    BY <2>1 DEF TryPopLock
  <2>2. CASE TryPopBusy(t)
    BY <2>2 DEF TryPopBusy
  <2>3. CASE TryPopMove(t)
    BY <2>3 DEF TryPopMove, MoveOut
  <2>4. CASE TryPopReturn(t)
    BY <2>4 DEF TryPopReturn, ClearAndUnlock, Finish
  <2> QED
    BY <1>7, <2>1, <2>2, <2>3, <2>4
<1>8. ASSUME NEW c \in Consumers, PopDispatchInline(c) PROVE StrandInv'
  BY <1>8, QueueAssumption DEF PopDispatchInline, EnterStrand
<1>9. ASSUME NEW c \in Consumers, PopWait(c) PROVE StrandInv'
  BY <1>9, QueueAssumption DEF PopWait, LeaveStrand
<1>10. ASSUME NEW c \in Consumers,
             TryPopEmpty(c) \/ PopDispatchQueued(c) \/ PopRearm(c)
             \/ PopLock(c) \/ PopMove(c) \/ PopReturn(c)
      PROVE  StrandInv'
  BY <1>10 DEF TryPopEmpty, ClearAndUnlock, PopDispatchQueued, QueueOnStrand,
     PopRearm, CancelWaits, PopLock, PopMove, MoveOut, PopReturn, Finish
<1>11. ASSUME NEW o \in Observers,
             SizeLock(o) \/ SizeUnlock(o)
      PROVE  StrandInv'
  BY <1>11 DEF SizeLock, SizeUnlock
<1>12. CASE UNCHANGED vars
  BY <1>12 DEF vars, strandVars, listVars
<1> QED
  BY <1>1, <1>2, <1>3, <1>4, <1>5, <1>6, <1>7, <1>8, <1>9, <1>10, <1>11, <1>12
     DEF Next, ProducerNext, TryPopNext, PopNext, SizeNext

\* The strand is posted when a handler waits and nobody is inside.
LEMMA PostedStep == IInv /\ [Next]_vars => PostedInv'
<1> SUFFICES ASSUME IInv, [Next]_vars PROVE PostedInv'
  OBVIOUS
<1> USE DEF IInv, TypeOK, Locations, Item, Producers, Coroutines, Takers,
   Actors, strandVars, listVars, PostedInv, StrandInv, TouchesTimer,
   StrandLocked
<1>1. ASSUME NEW a \in Coroutines, Resume(a) PROVE PostedInv'
  BY <1>1 DEF Resume
<1>2. CASE StrandInvoke
  BY <1>2 DEF StrandInvoke
<1>3. CASE CancelQueued
  BY <1>3 DEF CancelQueued, CancelWaits, LeaveStrand, Finish
<1>4. ASSUME NEW p \in Producers, WakeQueued(p) PROVE PostedInv'
  BY <1>4, StrandAppend DEF WakeQueued, QueueOnStrand, Finish
<1>5. ASSUME NEW p \in Producers,
             PushLock(p) \/ PushAppend(p) \/ WakeOnly(p) \/ WakeInline(p)
             \/ CancelInline(p)
      PROVE  PostedInv'
  BY <1>5 DEF PushLock, PushAppend, WakeOnly, WakeInline, EnterStrand,
     CancelInline, CancelWaits, LeaveStrand, Finish
<1>6. ASSUME NEW t \in Takers,
             TryPopLock(t) \/ TryPopBusy(t) \/ TryPopMove(t)
             \/ TryPopReturn(t)
      PROVE  PostedInv'
  BY <1>6 DEF TryPopLock, TryPopBusy, TryPopMove, MoveOut, TryPopReturn,
     ClearAndUnlock, Finish
<1>7. ASSUME NEW c \in Consumers, PopDispatchQueued(c) PROVE PostedInv'
  BY <1>7, StrandAppend DEF PopDispatchQueued, QueueOnStrand
<1>8. ASSUME NEW c \in Consumers,
             TryPopEmpty(c) \/ PopDispatchInline(c) \/ PopRearm(c)
             \/ PopWait(c) \/ PopLock(c) \/ PopMove(c) \/ PopReturn(c)
      PROVE  PostedInv'
  BY <1>8 DEF TryPopEmpty, ClearAndUnlock, PopDispatchInline, EnterStrand,
     PopRearm, CancelWaits, PopWait, LeaveStrand, PopLock, PopMove, MoveOut,
     PopReturn, Finish
<1>9. ASSUME NEW o \in Observers,
             SizeLock(o) \/ SizeUnlock(o)
      PROVE  PostedInv'
  BY <1>9 DEF SizeLock, SizeUnlock
<1>10. CASE UNCHANGED vars
  BY <1>10 DEF vars, strandVars, listVars
<1> QED
  BY <1>1, <1>2, <1>3, <1>4, <1>5, <1>6, <1>7, <1>8, <1>9, <1>10 DEF Next,
     ProducerNext, TryPopNext, PopNext, SizeNext

\* A coroutine enters the strand's queue once and leaves it to run.
LEMMA SuspendedStep == IInv /\ [Next]_vars => SuspendedInv'
<1> SUFFICES ASSUME IInv, [Next]_vars PROVE SuspendedInv'
  OBVIOUS
<1> USE DEF IInv, TypeOK, Locations, Item, Producers, Coroutines, Takers,
   Actors, strandVars, listVars, SuspendedInv, WaitInv, PostedInv
<1>1. ASSUME NEW a \in Coroutines, Resume(a) PROVE SuspendedInv'
  BY <1>1 DEF Resume
<1>2. CASE StrandInvoke
  <2>1. strandQueue # <<>>
    BY <1>2 DEF StrandInvoke
  <2>2. ASSUME NEW i \in DOMAIN Tail(strandQueue),
               Tail(strandQueue)[i] \in Consumers
        PROVE  pc'[Tail(strandQueue)[i]] = "strandWait"
    BY <1>2, <2>1, <2>2, StrandHead, QueueAssumption DEF StrandInvoke
  <2>3. ASSUME NEW i \in DOMAIN Tail(strandQueue), NEW j \in DOMAIN Tail(strandQueue),
               Tail(strandQueue)[i] = Tail(strandQueue)[j],
               Tail(strandQueue)[i] \in Consumers
        PROVE  i = j
    <3>1. i + 1 = j + 1
      BY <2>1, <2>3, StrandHead
    <3>2. i \in Nat /\ j \in Nat
      BY <2>1, StrandHead, LenProperties
    <3> QED
      BY <3>1, <3>2
  <2> QED
    BY <1>2, <2>2, <2>3 DEF StrandInvoke
<1>3. CASE CancelQueued
  BY <1>3, QueueAssumption DEF CancelQueued, CancelWaits, LeaveStrand, Finish
<1>4. ASSUME NEW p \in Producers, PushLock(p) PROVE SuspendedInv'
  BY <1>4 DEF PushLock
<1>5. ASSUME NEW p \in Producers, PushAppend(p) PROVE SuspendedInv'
  BY <1>5 DEF PushAppend
<1>6. ASSUME NEW p \in Producers, WakeOnly(p) PROVE SuspendedInv'
  BY <1>6 DEF WakeOnly
<1>7. ASSUME NEW p \in Producers, WakeInline(p) PROVE SuspendedInv'
  BY <1>7 DEF WakeInline, EnterStrand
<1>8. ASSUME NEW p \in Producers, WakeQueued(p) PROVE SuspendedInv'
  BY <1>8, StrandAppend, QueueAssumption, SMTT(30) DEF WakeQueued, QueueOnStrand, Finish
<1>9. ASSUME NEW p \in Producers, CancelInline(p) PROVE SuspendedInv'
  BY <1>9 DEF CancelInline, CancelWaits, LeaveStrand, Finish
<1>10. ASSUME NEW t \in Takers,
             TryPopLock(t) \/ TryPopBusy(t) \/ TryPopMove(t)
             \/ TryPopReturn(t)
      PROVE  SuspendedInv'
  BY <1>10 DEF TryPopLock, TryPopBusy, TryPopMove, MoveOut, TryPopReturn,
     ClearAndUnlock, Finish
<1>11. ASSUME NEW c \in Consumers, TryPopEmpty(c) PROVE SuspendedInv'
  BY <1>11 DEF TryPopEmpty, ClearAndUnlock
<1>12. ASSUME NEW c \in Consumers, PopDispatchInline(c) PROVE SuspendedInv'
  BY <1>12 DEF PopDispatchInline, EnterStrand
<1>13. ASSUME NEW c \in Consumers, PopDispatchQueued(c) PROVE SuspendedInv'
  BY <1>13, StrandAppend, SMTT(30) DEF PopDispatchQueued, QueueOnStrand
<1>14. ASSUME NEW c \in Consumers, PopRearm(c) PROVE SuspendedInv'
  BY <1>14 DEF PopRearm, CancelWaits
<1>15. ASSUME NEW c \in Consumers, PopWait(c) PROVE SuspendedInv'
  BY <1>15 DEF PopWait, LeaveStrand
<1>16. ASSUME NEW c \in Consumers, PopLock(c) PROVE SuspendedInv'
  BY <1>16 DEF PopLock
<1>17. ASSUME NEW c \in Consumers, PopMove(c) PROVE SuspendedInv'
  BY <1>17 DEF PopMove, MoveOut
<1>18. ASSUME NEW c \in Consumers, PopReturn(c) PROVE SuspendedInv'
  BY <1>18 DEF PopReturn, ClearAndUnlock, Finish
<1>19. ASSUME NEW o \in Observers,
             SizeLock(o) \/ SizeUnlock(o)
      PROVE  SuspendedInv'
  BY <1>19 DEF SizeLock, SizeUnlock
<1>20. CASE UNCHANGED vars
  BY <1>20 DEF vars, strandVars, listVars
<1> QED
  BY <1>1, <1>2, <1>3, <1>4, <1>5, <1>6, <1>7, <1>8, <1>9, <1>10, <1>11,
     <1>12, <1>13, <1>14, <1>15, <1>16, <1>17, <1>18, <1>19, <1>20 DEF Next,
     ProducerNext, TryPopNext, PopNext, SizeNext

\* A wait is registered by a suspending consumer and ended for all.
LEMMA WaitStep == IInv /\ [Next]_vars => WaitInv'
<1> SUFFICES ASSUME IInv, [Next]_vars PROVE WaitInv'
  OBVIOUS
<1> USE DEF IInv, TypeOK, Locations, Item, Producers, Coroutines, Takers,
   Actors, strandVars, listVars, SuspendedInv, WaitInv, PostedInv
<1>1. ASSUME NEW a \in Coroutines, Resume(a) PROVE WaitInv'
  BY <1>1 DEF Resume
<1>2. CASE StrandInvoke
  <2>1. strandQueue # <<>>
    BY <1>2 DEF StrandInvoke
  <2> QED
    BY <1>2, <2>1, StrandHead, QueueAssumption DEF StrandInvoke
<1>3. CASE CancelQueued
  BY <1>3 DEF CancelQueued, CancelWaits, LeaveStrand, Finish
<1>4. ASSUME NEW p \in Producers,
             PushLock(p) \/ PushAppend(p) \/ WakeOnly(p) \/ WakeInline(p)
             \/ WakeQueued(p) \/ CancelInline(p)
      PROVE  WaitInv'
  BY <1>4 DEF PushLock, PushAppend, WakeOnly, WakeInline, EnterStrand,
     WakeQueued, QueueOnStrand, Finish, CancelInline, CancelWaits, LeaveStrand
<1>5. ASSUME NEW t \in Takers,
             TryPopLock(t) \/ TryPopBusy(t) \/ TryPopMove(t)
             \/ TryPopReturn(t)
      PROVE  WaitInv'
  BY <1>5 DEF TryPopLock, TryPopBusy, TryPopMove, MoveOut, TryPopReturn,
     ClearAndUnlock, Finish
<1>6. ASSUME NEW c \in Consumers,
             TryPopEmpty(c) \/ PopDispatchInline(c) \/ PopDispatchQueued(c)
             \/ PopRearm(c) \/ PopWait(c) \/ PopLock(c) \/ PopMove(c)
             \/ PopReturn(c)
      PROVE  WaitInv'
  BY <1>6 DEF TryPopEmpty, ClearAndUnlock, PopDispatchInline, EnterStrand,
     PopDispatchQueued, QueueOnStrand, PopRearm, CancelWaits, PopWait,
     LeaveStrand, PopLock, PopMove, MoveOut, PopReturn, Finish
<1>7. ASSUME NEW o \in Observers, SizeLock(o) \/ SizeUnlock(o) PROVE WaitInv'
  BY <1>7 DEF SizeLock, SizeUnlock
<1>8. CASE UNCHANGED vars
  BY <1>8 DEF vars, strandVars, listVars
<1> QED
  BY <1>1, <1>2, <1>3, <1>4, <1>5, <1>6, <1>7, <1>8 DEF Next, ProducerNext,
     TryPopNext, PopNext, SizeNext
-----------------------------------------------------------------------------
(* The theorems. *)

\* The invariant holds initially: the list is empty and nobody is in a call.
LEMMA InitInv == Init => IInv
<1> SUFFICES ASSUME Init PROVE IInv
  OBVIOUS
<1> USE QueueAssumption DEF Init, Producers, Coroutines, Takers, Actors
<1>1. TypeOK
  <2>1. pc \in [Actors -> Locations] /\ r \in [Takers -> Seq(Item)]
    BY DEF Locations
  <2>2. calls \in [Producers -> 0 .. MaxCalls]
    OBVIOUS
  <2>3. strandQueue \in Seq(Consumers \cup {WakeHandler}) /\ queue_ \in Seq(Item)
    OBVIOUS
  <2> QED
    BY <2>1, <2>2, <2>3 DEF TypeOK
<1>2. CallsInv /\ MutexInv /\ MoveInv
  BY DEF CallsInv, MutexInv, MoveInv, HoldsMutex
<1>3. ExactlyOnceInOrder
  BY DEF ExactlyOnceInOrder
<1>4. StrandInv /\ PostedInv /\ SuspendedInv /\ WaitInv
  BY DEF StrandInv, PostedInv, SuspendedInv, WaitInv, TouchesTimer
<1> QED
  BY <1>1, <1>2, <1>3, <1>4 DEF IInv

\* The inductive invariant holds in every reachable state of the queue.
THEOREM Invariance == Spec => []IInv
<1>1. IInv /\ [Next]_vars => IInv'
  BY TypeStep, CallsStep, MutexStep, MoveStep, HistoryStep, StrandStep,
     PostedStep, SuspendedStep, WaitStep DEF IInv
<1> QED
  BY InitInv, <1>1, PTL DEF Spec

\* Every variable of the queue keeps to its type, however many threads push,
\* pop and cancel at once.
THEOREM TypeCorrect == Spec => []TypeOK
<1>1. IInv => TypeOK
  BY DEF IInv
<1> QED
  BY Invariance, <1>1, PTL

\* No push() is lost, duplicated or reordered by pop() and try_pop(),
\* although a move of the list is two steps and pop() tries the lock first
\* and takes it later.
THEOREM ExactlyOnce == Spec => []ExactlyOnceInOrder
<1>1. IInv => ExactlyOnceInOrder
  BY DEF IInv
<1> QED
  BY Invariance, <1>1, PTL

\* timer_ is used by one thread at a time: the strand excludes wake()'s
\* lambda and the part of pop() after its dispatch from each other.
THEOREM TimerIsExclusive == Spec => []TimerExclusive
<1>1. IInv => TimerExclusive
  BY QueueAssumption DEF IInv, StrandInv, TimerExclusive
<1> QED
  BY Invariance, <1>1, PTL

\* A step of the queue pushes one value at the end of the log, hands over the
\* whole backlog, or changes neither.
LEMMA ChannelStep == IInv /\ [Next]_vars => [Channel!Next]_(Channel!vars)
<1> SUFFICES ASSUME IInv, [Next]_vars PROVE [Channel!Next]_(Channel!vars)
  OBVIOUS
<1> USE DEF Channel!vars
<1>1. ASSUME NEW p \in Producers, PushAppend(p) PROVE Channel!Next
  <2>1. <<p, calls[p]>> \in Item
    BY <1>1 DEF PushAppend, IInv, CallsInv, Item
  <2>2. Channel!Push(<<p, calls[p]>>)
    BY <1>1 DEF PushAppend, Channel!Push
  <2> QED
    BY <2>1, <2>2 DEF Channel!Next
<1>2. ASSUME NEW t \in Takers, pc[t] \in {"tryClear", "popClear"}, ClearAndUnlock(t)
      PROVE  Channel!Next \/ UNCHANGED <<pushed, taken>>
  <2>1. taken' = pushed /\ UNCHANGED pushed
    BY <1>2 DEF ClearAndUnlock, IInv, MoveInv, ExactlyOnceInOrder
  <2> QED
    BY <2>1 DEF Channel!Next, Channel!TakeAll
<1>3. ASSUME NEW t \in Takers, TryPopNext(t)
      PROVE  Channel!Next \/ UNCHANGED <<pushed, taken>>
  BY <1>2, <1>3 DEF TryPopNext, TryPopLock, TryPopBusy, TryPopMove, MoveOut,
                    TryPopReturn, listVars
<1>4. ASSUME NEW c \in Consumers, PopNext(c)
      PROVE  Channel!Next \/ UNCHANGED <<pushed, taken>>
  BY <1>2, <1>4 DEF PopNext, TryPopEmpty, PopDispatchInline, PopDispatchQueued,
                    PopRearm, PopWait, PopLock, PopMove, MoveOut, PopReturn,
                    listVars, Takers
<1>5. ASSUME NEW p \in Producers, ProducerNext(p)
      PROVE  Channel!Next \/ UNCHANGED <<pushed, taken>>
  BY <1>1, <1>5 DEF ProducerNext, PushLock, WakeOnly, WakeInline, WakeQueued,
                    CancelInline, listVars
<1>6. ASSUME NEW o \in Observers, SizeNext(o) PROVE UNCHANGED <<pushed, taken>>
  BY <1>6 DEF SizeNext, SizeLock, SizeUnlock, listVars
<1>7. ASSUME NEW a \in Coroutines, Resume(a) PROVE UNCHANGED <<pushed, taken>>
  BY <1>7 DEF Resume, listVars
<1>8. CASE StrandInvoke
  BY <1>8 DEF StrandInvoke, listVars
<1>9. CASE CancelQueued
  BY <1>9 DEF CancelQueued, listVars
<1>10. CASE UNCHANGED vars
  BY <1>10 DEF vars
<1> QED
  BY <1>3, <1>4, <1>5, <1>6, <1>7, <1>8, <1>9, <1>10 DEF Next

\* AsyncQueue implements FifoChannel: a step of the queue pushes one value
\* at the end of the log, hands over the whole backlog, or changes neither.
THEOREM QueueImplementsChannel == Spec => ImplementsChannel
<1>1. Init => Channel!Init
  BY DEF Init, Channel!Init
<1> QED
  BY <1>1, ChannelStep, Invariance, PTL DEF Spec, ImplementsChannel, Channel!Spec

-----------------------------------------------------------------------------
(* One pool thread. *)

\* The configuration of asio_pool_init(1) when every user of the queue is a
\* coroutine of the pool.
OneThread == Workers = 1 /\ ExtProducers = {} /\ Observers = {}

\* The coroutine on the only thread is the only one inside a call, unless
\* it is suspended on the timer.
RunningInv ==
    /\ running = {} \/ \E a \in Coroutines : running = {a}
    /\ \A a \in Coroutines : pc[a] \notin {"start", "waiting", "woken"} => running = {a}

\* Nothing is ever queued on the strand.
StrandIdle == strandQueue = <<>> /\ strandOwner # WakeHandler

\* From try_pop() to async_wait the list stays empty.
GapInv == \A c \in Consumers : pc[c] \in {"dispatch", "rearm", "wait"} => queue_ = <<>>

\* The pushed values that a waiting consumer does not know of are announced
\* by a wake() that is about to run.
PendingInv ==
    /\ \A c \in Consumers : pc[c] = "waiting" => c \in timerWaits
    /\ queue_ # <<>> /\ timerWaits # {} =>
          \E p \in Producers : pc[p] \in {"wake", "cancel"}

OneThreadInv == RunningInv /\ StrandIdle /\ GapInv /\ PendingInv

\* Two coroutines are never inside their calls at once, and the strand is
\* free unless the one that runs is inside it.
LEMMA OneThreadFacts ==
  ASSUME OneThread, IInv, OneThreadInv
  PROVE  /\ Actors = Coroutines /\ Producers = PoolProducers /\ Takers = Consumers
         /\ \A a, b \in Actors :
               (/\ pc[a] \notin {"start", "waiting", "woken"}
                /\ pc[b] \notin {"start", "waiting", "woken"}) => a = b
         /\ ~strandPosted
         /\ \A a \in Actors : OnThread(a) /\ ~TouchesTimer(a) => ~StrandLocked
         /\ \A a \in Actors : OnThread(a) /\ pc[a] = "start" => queue_mtx_ = NoActor
<1>1. Actors = Coroutines /\ Producers = PoolProducers /\ Takers = Consumers
  BY DEF OneThread, Actors, Coroutines, Producers, Takers
<1>2. ASSUME NEW a \in Actors, NEW b \in Actors,
             pc[a] \notin {"start", "waiting", "woken"}, b \in running
      PROVE  a = b
  <2>1. running = {a}
    BY <1>1, <1>2 DEF OneThreadInv, RunningInv
  <2> QED
    BY <1>2, <2>1
<1>3. ~strandPosted
  BY DEF OneThreadInv, StrandIdle, IInv, PostedInv
<1>4. ASSUME NEW a \in Actors, OnThread(a), ~TouchesTimer(a) PROVE ~StrandLocked
  <2>1. a \in running
    BY <1>1, <1>4 DEF OnThread
  <2>2. \A b \in Actors : ~TouchesTimer(b)
    BY <1>2, <1>4, <2>1 DEF TouchesTimer
  <2>3. strandOwner \in Actors \cup {WakeHandler, NoActor}
    BY DEF IInv, TypeOK
  <2> QED
    BY <1>3, <2>2, <2>3 DEF StrandLocked, IInv, StrandInv, OneThreadInv, StrandIdle
<1>5. ASSUME NEW a \in Actors, OnThread(a), pc[a] = "start" PROVE queue_mtx_ = NoActor
  <2>1. a \in running
    BY <1>1, <1>5 DEF OnThread
  <2>2. \A b \in Actors : ~HoldsMutex(b)
    BY <1>2, <1>5, <2>1 DEF HoldsMutex
  <2>3. queue_mtx_ \in Actors \cup {NoActor}
    BY DEF IInv, TypeOK
  <2> QED
    BY <2>2, <2>3 DEF IInv, MutexInv
<1>6. ASSUME NEW a \in Actors, NEW b \in Actors,
             pc[a] \notin {"start", "waiting", "woken"},
             pc[b] \notin {"start", "waiting", "woken"}
      PROVE  a = b
  <2>1. b \in running
    BY <1>1, <1>6 DEF OneThreadInv, RunningInv
  <2> QED
    BY <1>2, <1>6, <2>1
<1> QED
  BY <1>1, <1>3, <1>4, <1>5, <1>6

\* One coroutine runs at a time, and suspends only on the timer.
LEMMA RunningStep ==
  ASSUME OneThread, IInv, OneThreadInv, [Next]_vars
  PROVE  RunningInv'
<1> USE DEF IInv, TypeOK, Coroutines, Producers, Takers, Actors, strandVars,
   listVars, OnThread, OneThreadInv, RunningInv, WaitInv, StrandInv,
   TouchesTimer, MutexInv, HoldsMutex
<1>1. ASSUME NEW a \in Coroutines, Resume(a) PROVE RunningInv'
  <2>1. running = {}
    <3>1. ASSUME NEW b \in Coroutines, running = {b} PROVE FALSE
      <4>1. Cardinality(running) = 1
        BY <3>1, FS_Singleton
      <4> QED
        BY <1>1, <4>1 DEF Resume, WorkerFree, OneThread
    <3> QED
      BY <3>1 DEF RunningInv
  <2> QED
    BY <1>1, <2>1 DEF Resume, RunningInv
<1>2. CASE StrandInvoke
  BY <1>2, OneThreadFacts DEF StrandInvoke
<1>3. CASE CancelQueued
  BY <1>3 DEF CancelQueued, StrandIdle
<1>4. ASSUME NEW p \in Producers,
             PushLock(p) \/ PushAppend(p) \/ WakeOnly(p) \/ WakeInline(p)
             \/ WakeQueued(p) \/ CancelInline(p)
      PROVE  RunningInv'
  <2>1. CASE PushLock(p)
    BY <2>1, OneThreadFacts DEF PushLock
  <2>2. CASE PushAppend(p)
    BY <2>2, OneThreadFacts DEF PushAppend
  <2>3. CASE WakeOnly(p)
    BY <2>3, OneThreadFacts DEF WakeOnly, Finish
  <2>4. CASE WakeInline(p)
    BY <2>4, OneThreadFacts DEF WakeInline, EnterStrand
  <2>5. CASE WakeQueued(p)
    BY <2>5, OneThreadFacts, ZenonT(40) DEF WakeQueued, QueueOnStrand, Finish
  <2>6. CASE CancelInline(p)
    BY <2>6, OneThreadFacts DEF CancelInline, CancelWaits, LeaveStrand, Finish
  <2> QED
    BY <1>4, <2>1, <2>2, <2>3, <2>4, <2>5, <2>6
<1>5. ASSUME NEW t \in Takers,
             TryPopLock(t) \/ TryPopBusy(t) \/ TryPopMove(t)
             \/ TryPopReturn(t)
      PROVE  RunningInv'
  <2>1. CASE TryPopLock(t)
    BY <2>1, OneThreadFacts DEF TryPopLock
  <2>2. CASE TryPopBusy(t)
    BY <2>2, OneThreadFacts DEF TryPopBusy
  <2>3. CASE TryPopMove(t)
    BY <2>3, OneThreadFacts DEF TryPopMove, MoveOut
  <2>4. CASE TryPopReturn(t)
    BY <2>4, OneThreadFacts DEF TryPopReturn, ClearAndUnlock, Finish
  <2> QED
    BY <1>5, <2>1, <2>2, <2>3, <2>4
<1>6. ASSUME NEW c \in Consumers, TryPopEmpty(c) PROVE RunningInv'
  BY <1>6, OneThreadFacts DEF TryPopEmpty, ClearAndUnlock
<1>7. ASSUME NEW c \in Consumers, PopDispatchInline(c) PROVE RunningInv'
  BY <1>7, OneThreadFacts DEF PopDispatchInline, EnterStrand
<1>8. ASSUME NEW c \in Consumers, PopDispatchQueued(c) PROVE RunningInv'
  BY <1>8, OneThreadFacts, ZenonT(40) DEF PopDispatchQueued, QueueOnStrand
<1>9. ASSUME NEW c \in Consumers, PopRearm(c) PROVE RunningInv'
  BY <1>9, OneThreadFacts DEF PopRearm, CancelWaits
<1>10. ASSUME NEW c \in Consumers, PopWait(c) PROVE RunningInv'
  BY <1>10, OneThreadFacts DEF PopWait, LeaveStrand
<1>11. ASSUME NEW c \in Consumers, PopLock(c) PROVE RunningInv'
  BY <1>11, OneThreadFacts DEF PopLock
<1>12. ASSUME NEW c \in Consumers, PopMove(c) PROVE RunningInv'
  BY <1>12, OneThreadFacts DEF PopMove, MoveOut
<1>13. ASSUME NEW c \in Consumers, PopReturn(c) PROVE RunningInv'
  BY <1>13, OneThreadFacts DEF PopReturn, ClearAndUnlock, Finish
<1>14. ASSUME NEW o \in Observers, SizeLock(o) PROVE RunningInv'
  BY <1>14 DEF OneThread
<1>15. ASSUME NEW o \in Observers, SizeUnlock(o) PROVE RunningInv'
  BY <1>15 DEF OneThread
<1>16. CASE UNCHANGED vars
  BY <1>16 DEF vars, strandVars, listVars
<1> QED
  BY <1>1, <1>2, <1>3, <1>4, <1>5, <1>6, <1>7, <1>8, <1>9, <1>10, <1>11,
     <1>12, <1>13, <1>14, <1>15, <1>16 DEF Next, ProducerNext, TryPopNext,
     PopNext, SizeNext

\* The running coroutine never finds the strand locked.
LEMMA IdleStep ==
  ASSUME OneThread, IInv, OneThreadInv, [Next]_vars
  PROVE  StrandIdle'
<1> USE DEF IInv, TypeOK, Coroutines, Producers, Takers, Actors, strandVars,
   listVars, OnThread, OneThreadInv, RunningInv, StrandIdle, TouchesTimer
<1>1. ASSUME NEW a \in Coroutines, Resume(a) PROVE StrandIdle'
  BY <1>1, OneThreadFacts DEF Resume
<1>2. CASE StrandInvoke
  BY <1>2, OneThreadFacts DEF StrandInvoke
<1>3. CASE CancelQueued
  BY <1>3, OneThreadFacts DEF CancelQueued, CancelWaits, LeaveStrand, Finish
<1>4. ASSUME NEW p \in Producers, WakeInline(p) PROVE StrandIdle'
  BY <1>4, OneThreadFacts, QueueAssumption DEF WakeInline, EnterStrand
<1>5. ASSUME NEW p \in Producers, WakeQueued(p) PROVE StrandIdle'
  BY <1>5, OneThreadFacts, QueueAssumption DEF WakeQueued, QueueOnStrand, Finish
<1>6. ASSUME NEW p \in Producers, CancelInline(p) PROVE StrandIdle'
  BY <1>6, OneThreadFacts, QueueAssumption DEF CancelInline, CancelWaits, LeaveStrand, Finish
<1>7. ASSUME NEW p \in Producers,
             PushLock(p) \/ PushAppend(p) \/ WakeOnly(p)
      PROVE  StrandIdle'
  BY <1>7, OneThreadFacts DEF PushLock, PushAppend, WakeOnly
<1>8. ASSUME NEW t \in Takers,
             TryPopLock(t) \/ TryPopBusy(t) \/ TryPopMove(t)
             \/ TryPopReturn(t)
      PROVE  StrandIdle'
  BY <1>8, OneThreadFacts DEF TryPopLock, TryPopBusy, TryPopMove, MoveOut,
     TryPopReturn, ClearAndUnlock, Finish
<1>9. ASSUME NEW c \in Consumers, PopDispatchInline(c) PROVE StrandIdle'
  BY <1>9, OneThreadFacts, QueueAssumption DEF PopDispatchInline, EnterStrand
<1>10. ASSUME NEW c \in Consumers, PopDispatchQueued(c) PROVE StrandIdle'
  BY <1>10, OneThreadFacts, QueueAssumption DEF PopDispatchQueued, QueueOnStrand
<1>11. ASSUME NEW c \in Consumers, PopWait(c) PROVE StrandIdle'
  BY <1>11, OneThreadFacts, QueueAssumption DEF PopWait, LeaveStrand
<1>12. ASSUME NEW c \in Consumers,
             TryPopEmpty(c) \/ PopRearm(c) \/ PopLock(c) \/ PopMove(c)
             \/ PopReturn(c)
      PROVE  StrandIdle'
  BY <1>12, OneThreadFacts DEF TryPopEmpty, ClearAndUnlock, PopRearm,
     CancelWaits, PopLock, PopMove, MoveOut, PopReturn, Finish
<1>13. ASSUME NEW o \in Observers,
             SizeLock(o) \/ SizeUnlock(o)
      PROVE  StrandIdle'
  BY <1>13, OneThreadFacts DEF SizeLock, SizeUnlock
<1>14. CASE UNCHANGED vars
  BY <1>14 DEF vars, strandVars, listVars
<1> QED
  BY <1>1, <1>2, <1>3, <1>4, <1>5, <1>6, <1>7, <1>8, <1>9, <1>10, <1>11,
     <1>12, <1>13, <1>14 DEF Next, ProducerNext, TryPopNext, PopNext, SizeNext

\* No value gets in between try_pop() and the wait.
LEMMA GapStep ==
  ASSUME OneThread, IInv, OneThreadInv, [Next]_vars
  PROVE  GapInv'
<1> USE DEF IInv, TypeOK, Coroutines, Producers, Takers, Actors, strandVars,
   listVars, OnThread, OneThreadInv, GapInv, MoveInv, WaitInv
<1>1. ASSUME NEW a \in Coroutines, Resume(a) PROVE GapInv'
  BY <1>1, OneThreadFacts DEF Resume
<1>2. CASE StrandInvoke
  BY <1>2, OneThreadFacts DEF StrandInvoke
<1>3. CASE CancelQueued
  BY <1>3, OneThreadFacts DEF CancelQueued, CancelWaits, LeaveStrand, Finish
<1>4. ASSUME NEW p \in Producers, PushLock(p) PROVE GapInv'
  BY <1>4, OneThreadFacts DEF PushLock
<1>5. ASSUME NEW p \in Producers, PushAppend(p) PROVE GapInv'
  BY <1>5, OneThreadFacts DEF PushAppend
<1>6. ASSUME NEW p \in Producers, WakeOnly(p) PROVE GapInv'
  BY <1>6, OneThreadFacts DEF WakeOnly
<1>7. ASSUME NEW p \in Producers, WakeInline(p) PROVE GapInv'
  BY <1>7, OneThreadFacts DEF WakeInline, EnterStrand
<1>8. ASSUME NEW p \in Producers, WakeQueued(p) PROVE GapInv'
  BY <1>8, OneThreadFacts DEF WakeQueued, QueueOnStrand, Finish
<1>9. ASSUME NEW p \in Producers, CancelInline(p) PROVE GapInv'
  BY <1>9, OneThreadFacts DEF CancelInline, CancelWaits, LeaveStrand, Finish
<1>10. ASSUME NEW t \in Takers,
             TryPopLock(t) \/ TryPopBusy(t) \/ TryPopMove(t)
             \/ TryPopReturn(t)
      PROVE  GapInv'
  BY <1>10, OneThreadFacts DEF TryPopLock, TryPopBusy, TryPopMove, MoveOut,
     TryPopReturn, ClearAndUnlock, Finish
<1>11. ASSUME NEW c \in Consumers,
             TryPopEmpty(c) \/ PopDispatchInline(c) \/ PopDispatchQueued(c)
             \/ PopRearm(c) \/ PopWait(c) \/ PopLock(c) \/ PopMove(c)
             \/ PopReturn(c)
      PROVE  GapInv'
  BY <1>11, OneThreadFacts DEF TryPopEmpty, ClearAndUnlock, PopDispatchInline,
     EnterStrand, PopDispatchQueued, QueueOnStrand, PopRearm, CancelWaits,
     PopWait, LeaveStrand, PopLock, PopMove, MoveOut, PopReturn, Finish
<1>12. ASSUME NEW o \in Observers, SizeLock(o) \/ SizeUnlock(o) PROVE GapInv'
  BY <1>12, OneThreadFacts DEF SizeLock, SizeUnlock
<1>13. CASE UNCHANGED vars
  BY <1>13 DEF vars, strandVars, listVars
<1> QED
  BY <1>1, <1>2, <1>3, <1>4, <1>5, <1>6, <1>7, <1>8, <1>9, <1>10, <1>11,
     <1>12, <1>13 DEF Next, ProducerNext, TryPopNext, PopNext, SizeNext

\* A push that finds a waiting consumer is followed by its wake().
LEMMA PendingStep ==
  ASSUME OneThread, IInv, OneThreadInv, [Next]_vars
  PROVE  PendingInv'
<1> USE DEF IInv, TypeOK, Coroutines, Producers, Takers, Actors, strandVars,
   listVars, OnThread, OneThreadInv, RunningInv, PendingInv, GapInv, MoveInv,
   WaitInv, TouchesTimer
<1>1. ASSUME NEW a \in Coroutines, Resume(a) PROVE PendingInv'
  BY <1>1, OneThreadFacts DEF Resume
<1>2. CASE StrandInvoke
  BY <1>2, OneThreadFacts DEF StrandInvoke
<1>3. CASE CancelQueued
  BY <1>3, OneThreadFacts DEF CancelQueued, CancelWaits, LeaveStrand, Finish
<1>4. ASSUME NEW p \in Producers,
             PushLock(p) \/ PushAppend(p) \/ WakeOnly(p) \/ WakeInline(p)
             \/ WakeQueued(p) \/ CancelInline(p)
      PROVE  PendingInv'
  BY <1>4, OneThreadFacts, SMTT(30) DEF PushLock, PushAppend, WakeOnly, WakeInline,
     EnterStrand, WakeQueued, QueueOnStrand, Finish, CancelInline,
     CancelWaits, LeaveStrand
<1>5. ASSUME NEW t \in Takers,
             TryPopLock(t) \/ TryPopBusy(t) \/ TryPopMove(t)
             \/ TryPopReturn(t)
      PROVE  PendingInv'
  BY <1>5, OneThreadFacts DEF TryPopLock, TryPopBusy, TryPopMove, MoveOut,
     TryPopReturn, ClearAndUnlock, Finish
<1>6. ASSUME NEW c \in Consumers,
             TryPopEmpty(c) \/ PopDispatchInline(c) \/ PopDispatchQueued(c)
             \/ PopRearm(c) \/ PopWait(c) \/ PopLock(c) \/ PopMove(c)
             \/ PopReturn(c)
      PROVE  PendingInv'
  <2>1. CASE TryPopEmpty(c)
    BY <2>1, OneThreadFacts DEF TryPopEmpty, ClearAndUnlock
  <2>2. CASE PopDispatchInline(c)
    BY <2>2, OneThreadFacts DEF PopDispatchInline, EnterStrand
  <2>3. CASE PopDispatchQueued(c)
    BY <2>3, OneThreadFacts DEF PopDispatchQueued, QueueOnStrand
  <2>4. CASE PopRearm(c)
    BY <2>4, OneThreadFacts DEF PopRearm, CancelWaits
  <2>5. CASE PopWait(c)
    BY <2>5, OneThreadFacts DEF PopWait, LeaveStrand
  <2>6. CASE PopLock(c)
    BY <2>6, OneThreadFacts DEF PopLock
  <2>7. CASE PopMove(c)
    BY <2>7, OneThreadFacts DEF PopMove, MoveOut
  <2>8. CASE PopReturn(c)
    BY <2>8, OneThreadFacts DEF PopReturn, ClearAndUnlock, Finish
  <2> QED
    BY <1>6, <2>1, <2>2, <2>3, <2>4, <2>5, <2>6, <2>7, <2>8
<1>7. ASSUME NEW o \in Observers,
             SizeLock(o) \/ SizeUnlock(o)
      PROVE  PendingInv'
  BY <1>7, OneThreadFacts DEF SizeLock, SizeUnlock
<1>8. CASE UNCHANGED vars
  BY <1>8 DEF vars, strandVars, listVars
<1> QED
  BY <1>1, <1>2, <1>3, <1>4, <1>5, <1>6, <1>7, <1>8 DEF Next, ProducerNext,
     TryPopNext, PopNext, SizeNext


\* With one pool thread, and nobody outside the pool, no wakeup is lost: the
\* gap between try_pop() and async_wait needs a second thread.
THEOREM OneThreadNoLostWakeup ==
  ASSUME OneThread PROVE Spec => []NoLostWakeup
<1>1. Init => OneThreadInv
  BY QueueAssumption DEF Init, OneThread, OneThreadInv, RunningInv, StrandIdle, GapInv, PendingInv,
         Coroutines, Producers, Takers, Actors
<1>2. IInv /\ OneThreadInv /\ [Next]_vars => OneThreadInv'
  BY RunningStep, IdleStep, GapStep, PendingStep DEF OneThreadInv
<1>3. IInv /\ OneThreadInv => NoLostWakeup
  BY DEF OneThreadInv, PendingInv, NoLostWakeup, WakePending
<1> QED
  BY <1>1, <1>2, <1>3, Invariance, PTL DEF Spec

-----------------------------------------------------------------------------
(* SignalStream: what a queue still is as part of a stream.               *)

\* A stream belongs to the one coroutine that made it.
OneReader == \A c, d \in Consumers : c = d

\* The reader that dropped the stream is in none of its calls.
DroppedInv ==
    dropped => registered /\ \A c \in Consumers : pc[c] = "start"

-----------------------------------------------------------------------------
(* The steps that are not the queue's. *)

\* What DropStream and EmitMissed do to the queue's variables: a coroutine or
\* a thread that is in no call of the queue gives up its turn.
LeaveTurn(a) ==
    /\ pc[a] = "start" /\ OnThread(a)
    /\ running' = running \ {a}
    /\ ready' \in SUBSET Coroutines
    /\ calls' \in [Producers -> 0 .. MaxCalls]
    /\ \A p \in Producers \ {a} : calls'[p] = calls[p]
    /\ UNCHANGED <<queue_mtx_, strandVars, timerWaits, pc, listVars>>

\* Each step of a stream is one of the queue, or leaves a turn unused.
LEMMA StreamStep ==
  ASSUME IInv, [StreamNext]_svars
  PROVE  [Next]_vars \/ \E a \in Actors : LeaveTurn(a)
<1> USE DEF IInv, TypeOK, Producers, Coroutines, Takers, Actors
<1>1. CASE QueueStep
  BY <1>1 DEF QueueStep
<1>2. ASSUME NEW c \in Consumers, MakeStream(c) PROVE UNCHANGED vars
  BY <1>2 DEF MakeStream
<1>3. ASSUME NEW c \in Consumers, DropStream(c) PROVE LeaveTurn(c)
  BY <1>3 DEF DropStream, LeaveTurn
<1>4. ASSUME NEW p \in Producers, EmitMissed(p) PROVE LeaveTurn(p)
  <2>1. ready' \in SUBSET Coroutines
    BY <1>4 DEF EmitMissed, Finish
  <2>2. /\ calls' \in [Producers -> 0 .. MaxCalls]
        /\ \A q \in Producers \ {p} : calls'[q] = calls[q]
    BY <1>4, QueueAssumption DEF EmitMissed, HasWork
  <2> QED
    BY <1>4, <2>1, <2>2 DEF EmitMissed, Finish, LeaveTurn
<1>5. CASE UNCHANGED svars
  BY <1>5 DEF svars
<1> QED
  BY <1>1, <1>2, <1>3, <1>4, <1>5 DEF StreamNext

\* A turn that is not used leaves the queue's invariant as it was.
LEMMA LeaveTurnKeeps ==
  ASSUME IInv, NEW a \in Actors, LeaveTurn(a)
  PROVE  IInv'
<1> USE DEF LeaveTurn, strandVars, listVars
<1>1. TypeOK'
  BY DEF IInv, TypeOK
<1>2. CallsInv'
  BY DEF IInv, CallsInv
<1>3. MutexInv' /\ MoveInv' /\ ExactlyOnceInOrder'
  BY DEF IInv, MutexInv, HoldsMutex, MoveInv, ExactlyOnceInOrder
<1>4. StrandInv' /\ PostedInv' /\ SuspendedInv' /\ WaitInv'
  BY DEF IInv, StrandInv, TouchesTimer, PostedInv, SuspendedInv, WaitInv
<1> QED
  BY <1>1, <1>2, <1>3, <1>4 DEF IInv

\* On one thread it leaves the thread free.
LEMMA LeaveTurnKeepsOneThread ==
  ASSUME OneThread, IInv, OneThreadInv, NEW a \in Actors, LeaveTurn(a)
  PROVE  OneThreadInv'
<1> USE DEF LeaveTurn, strandVars, listVars
<1>1. RunningInv'
  <2>1. running = {a}
    BY OneThreadFacts DEF OneThreadInv, RunningInv, OnThread
  <2> QED
    BY <2>1 DEF OneThreadInv, RunningInv
<1>2. StrandIdle' /\ GapInv' /\ PendingInv'
  BY DEF OneThreadInv, StrandIdle, GapInv, PendingInv
<1> QED
  BY <1>1, <1>2 DEF OneThreadInv

-----------------------------------------------------------------------------
(* Invariance. *)

\* The queue's invariant is one of the stream.
LEMMA StreamInvariance == StreamSpec => []IInv
<1>1. StreamInit => IInv
  BY InitInv DEF StreamInit
<1>2. IInv /\ [StreamNext]_svars => IInv'
  BY StreamStep, LeaveTurnKeeps, TypeStep, CallsStep, MutexStep, MoveStep,
     HistoryStep, StrandStep, PostedStep, SuspendedStep, WaitStep DEF IInv
<1> QED
  BY <1>1, <1>2, PTL DEF StreamSpec

\* So is the one of a single thread.
LEMMA StreamOneThread ==
  ASSUME OneThread PROVE StreamSpec => []OneThreadInv
<1>1. StreamInit => OneThreadInv
  BY QueueAssumption DEF StreamInit, Init, OneThread, OneThreadInv,
     RunningInv, StrandIdle, GapInv, PendingInv, Coroutines, Producers,
     Takers, Actors
<1>2. IInv /\ OneThreadInv /\ [StreamNext]_svars => OneThreadInv'
  <2> SUFFICES ASSUME IInv, OneThreadInv, [StreamNext]_svars PROVE OneThreadInv'
    OBVIOUS
  <2>1. CASE [Next]_vars
    BY <2>1, RunningStep, IdleStep, GapStep, PendingStep DEF OneThreadInv
  <2>2. ASSUME NEW a \in Actors, LeaveTurn(a) PROVE OneThreadInv'
    BY <2>2, LeaveTurnKeepsOneThread
  <2> QED
    BY <2>1, <2>2, StreamStep
<1> QED
  BY <1>1, <1>2, StreamInvariance, PTL DEF StreamSpec

\* A reader that has dropped its stream stays out of it.
LEMMA DroppedStep ==
  ASSUME OneReader, IInv, DroppedInv, [StreamNext]_svars
  PROVE  DroppedInv'
<1> USE DEF DroppedInv
<1>1. CASE QueueStep
  BY <1>1 DEF QueueStep
<1>2. ASSUME NEW c \in Consumers, MakeStream(c) PROVE DroppedInv'
  BY <1>2 DEF MakeStream, vars
<1>3. ASSUME NEW c \in Consumers, DropStream(c) PROVE DroppedInv'
  BY <1>3 DEF DropStream, Alive, OneReader
<1>4. ASSUME NEW p \in Producers, EmitMissed(p) PROVE DroppedInv'
  BY <1>4 DEF EmitMissed
<1>5. CASE UNCHANGED svars
  BY <1>5 DEF svars, vars
<1> QED
  BY <1>1, <1>2, <1>3, <1>4, <1>5 DEF StreamNext

-----------------------------------------------------------------------------
(* The theorems. *)

\* On any number of threads a stream of a signal is a channel: what is
\* emitted while it is there is read once, in the order of the emits.  The
\* emits that miss it and the end of the reader do not disturb the list.
THEOREM StreamIsAChannel == StreamSpec => ImplementsChannel
<1>1. StreamInit => Channel!Init
  BY DEF StreamInit, Init, Channel!Init
<1>2. IInv /\ [StreamNext]_svars => [Channel!Next]_(Channel!vars)
  <2> SUFFICES ASSUME IInv, [StreamNext]_svars
               PROVE  [Channel!Next]_(Channel!vars)
    OBVIOUS
  <2>1. CASE [Next]_vars
    BY <2>1, ChannelStep
  <2>2. ASSUME NEW a \in Actors, LeaveTurn(a) PROVE UNCHANGED Channel!vars
    BY <2>2 DEF LeaveTurn, listVars, Channel!vars
  <2> QED
    BY <2>1, <2>2, StreamStep
<1> QED
  BY <1>1, <1>2, StreamInvariance, PTL DEF StreamSpec, ImplementsChannel, Channel!Spec

\* On one thread the reader does not sleep through an emit: the handler of
\* the signal pushes and wakes before anybody else runs.
THEOREM StreamLosesNoWakeup ==
  ASSUME OneThread PROVE StreamSpec => []NoLostWakeup
<1>1. OneThreadInv => NoLostWakeup
  BY DEF OneThreadInv, PendingInv, NoLostWakeup, WakePending
<1> QED
  BY <1>1, StreamOneThread, PTL

\* On one thread the weak_ptr in the handler is enough: when the last
\* shared_ptr is gone no push() or wake() is under way, no lambda with a bare
\* this waits in the strand, and no pop() is suspended on the timer.
THEOREM DroppedStreamIsLeftAlone ==
  ASSUME OneThread, OneReader PROVE StreamSpec => []NoDanglingWake
<1>1. StreamInit => DroppedInv
  BY DEF StreamInit, DroppedInv
<1>2. IInv /\ DroppedInv /\ [StreamNext]_svars => DroppedInv'
  BY DroppedStep
<1>3. IInv /\ OneThreadInv /\ DroppedInv => NoDanglingWake
  <2> SUFFICES ASSUME IInv, OneThreadInv, DroppedInv, Destroyed
               PROVE  ~WakePending /\ timerWaits = {} /\ queue_mtx_ = NoActor
    BY DEF NoDanglingWake, DroppedInv
  <2>1. \A a \in Actors : pc[a] = "start"
    BY DEF Destroyed, Alive, Holders, DroppedInv, OneThread, Actors, Takers
  <2>2. ~WakePending
    BY <2>1 DEF WakePending, OneThreadInv, StrandIdle, Actors
  <2>3. timerWaits = {}
    BY <2>1 DEF IInv, WaitInv, TypeOK, Actors, Takers
  <2>4. queue_mtx_ = NoActor
    BY <2>1 DEF IInv, MutexInv, HoldsMutex, TypeOK
  <2> QED
    BY <2>2, <2>3, <2>4
<1> QED
  BY <1>1, <1>2, <1>3, StreamInvariance, StreamOneThread, PTL DEF StreamSpec
=============================================================================
