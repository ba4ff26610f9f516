----------------------------- MODULE AsyncQueue -----------------------------
(***************************************************************************)
(* ccl2::AsyncQueue<T> (include/ccl2/async_queue.h): a list guarded by a   *)
(* mutex, and a steady_timer that never expires, used as an event.  pop()  *)
(* waits on the timer, push() cancels it, and both touch the timer only    *)
(* from inside an asio strand.                                             *)
(*                                                                         *)
(* The callers are producers and consumers that are coroutines of the      *)
(* io_context, run by Workers pool threads, and threads outside the pool   *)
(* (producers, and observers that call size(), empty() or try_pop()).      *)
(*                                                                         *)
(* The strand, the timer and the scheduler are Boost.Asio's; they are      *)
(* modelled from the calls async_queue.h makes:                            *)
(*   - a handler dispatched to the strand by a pool thread runs at once if *)
(*     the strand is unlocked; in every other case it is queued, FIFO, and *)
(*     an invocation of the strand is posted to the io_context;            *)
(*   - cancelling the timer (cancel, or expires_at) posts every pending    *)
(*     wait to the io_context; the coroutine then resumes on a pool thread,*)
(*     outside the strand.                                                 *)
(***************************************************************************)
EXTENDS Integers, Sequences, FiniteSets

CONSTANTS
    PoolProducers,  \* coroutines that push
    ExtProducers,   \* threads outside the pool that push
    Consumers,      \* coroutines that loop on co_await pop()
    Observers,      \* threads outside the pool that call size() and try_pop()
    Workers,        \* number of threads that run the io_context
    MaxCalls,       \* bound: calls of push() or wake() that one producer makes
    WakeHandler,    \* the lambda that wake() dispatches to the strand
    NoActor         \* nobody

Producers  == PoolProducers \cup ExtProducers
Coroutines == PoolProducers \cup Consumers
Takers     == Consumers \cup Observers
Actors     == Producers \cup Takers

ASSUME QueueAssumption ==
    /\ PoolProducers \cap (ExtProducers \cup Takers) = {}
    /\ ExtProducers \cap Takers = {}
    /\ Consumers \cap Observers = {}
    /\ WakeHandler # NoActor
    /\ {WakeHandler, NoActor} \cap Actors = {}
    /\ Workers \in Nat \ {0}
    /\ MaxCalls \in Nat

\* The n-th call of producer p, as the value it pushes.
Item == Producers \X (1 .. MaxCalls)

VARIABLES
    queue_,         \* the std::list
    queue_mtx_,     \* who holds the mutex, or NoActor
    strandOwner,    \* who is inside strand_, or NoActor
    strandPosted,   \* an invocation of strand_ waits in the io_context
    strandQueue,    \* handlers waiting in strand_
    timerWaits,     \* consumers with a pending async_wait on timer_
    ready,          \* coroutines posted to the io_context
    running,        \* handlers that occupy a pool thread
    pc,             \* where each actor stands in the code
    r,              \* the local list r of pop() and try_pop()
    calls,          \* calls made by each producer
    pushed,         \* history: every value appended to queue_, in order
    taken           \* history: every value handed to a caller, in order

strandVars == <<strandOwner, strandPosted, strandQueue>>
listVars   == <<queue_, r, pushed, taken>>
vars == <<queue_, queue_mtx_, strandVars, timerWaits, ready, running, pc, r,
          calls, pushed, taken>>

Init ==
    /\ queue_ = <<>>
    /\ queue_mtx_ = NoActor
    /\ strandOwner = NoActor
    /\ strandPosted = FALSE
    /\ strandQueue = <<>>
    /\ timerWaits = {}
    /\ ready = Coroutines
    /\ running = {}
    /\ pc = [a \in Actors |-> "start"]
    /\ r = [t \in Takers |-> <<>>]
    /\ calls = [p \in Producers |-> 0]
    /\ pushed = <<>>
    /\ taken = <<>>

-----------------------------------------------------------------------------
(* The io_context: who may run, and how a handler gets and leaves a thread. *)

\* A coroutine advances only while it occupies a pool thread.
OnThread(a) == a \in Coroutines => a \in running

WorkerFree == Cardinality(running) < Workers

\* A producer that has made its last call is done; it never runs again.
HasWork(a) == a \in Producers => calls[a] < MaxCalls

\* A pool thread picks up a posted coroutine.
Resume(a) ==
    /\ a \in ready
    /\ HasWork(a)
    /\ WorkerFree
    /\ ready' = ready \ {a}
    /\ running' = running \cup {a}
    /\ UNCHANGED <<queue_mtx_, strandVars, timerWaits, pc, calls, listVars>>

\* Mutated form of Finish: every caller is posted, the threads outside too.
FinishPosted(a, woken) ==
    /\ running' = running \ {a}
    /\ ready' = ready \cup woken \cup {a}

\* Actor a finishes its call; between two calls a coroutine yields its
\* thread (async_sleep) and is posted again, together with the set woken.
Finish(a, woken) ==
    /\ running' = running \ {a}
    /\ ready' = ready \cup woken \cup ({a} \cap Coroutines)

-----------------------------------------------------------------------------
(* The strand and the timer. *)

StrandLocked == strandOwner # NoActor \/ strandPosted

\* boost::asio::dispatch(strand_, h) when h cannot run in place.
QueueOnStrand(h) ==
    /\ strandQueue' = Append(strandQueue, h)
    /\ strandPosted' = (strandPosted \/ strandOwner = NoActor)
    /\ UNCHANGED strandOwner

\* ... and when it can: the caller runs the handler inside the strand.
EnterStrand(a) ==
    /\ ~StrandLocked
    /\ strandOwner' = a
    /\ UNCHANGED <<strandPosted, strandQueue>>

\* Leaving the strand posts its next invocation if handlers wait.
LeaveStrand ==
    /\ strandOwner' = NoActor
    /\ strandPosted' = (strandQueue # <<>>)
    /\ UNCHANGED strandQueue

\* A pool thread runs the posted invocation: the handler at the front.
StrandInvoke ==
    /\ strandPosted
    /\ WorkerFree
    /\ LET h == Head(strandQueue)
       IN /\ strandOwner' = h
          /\ running' = running \cup {h}
          /\ pc' = [a \in Actors |-> IF a = h THEN "rearm" ELSE pc[a]]
    /\ strandQueue' = Tail(strandQueue)
    /\ strandPosted' = FALSE
    /\ UNCHANGED <<queue_mtx_, timerWaits, ready, calls, listVars>>

\* Cancelling timer_ moves every pending wait to "woken"; self goes to next.
CancelWaits(self, next) ==
    /\ timerWaits' = {}
    /\ pc' = [a \in Actors |-> IF a \in timerWaits THEN "woken"
                               ELSE IF a = self THEN next ELSE pc[a]]

-----------------------------------------------------------------------------
(* push() and wake(). *)

\* push(): lock_guard on queue_mtx_.
PushLock(p) ==
    /\ pc[p] = "start"
    /\ OnThread(p)
    /\ HasWork(p)
    /\ queue_mtx_ = NoActor
    /\ queue_mtx_' = p
    /\ calls' = [calls EXCEPT ![p] = @ + 1]
    /\ pc' = [pc EXCEPT ![p] = "append"]
    /\ UNCHANGED <<strandVars, timerWaits, ready, running, listVars>>

\* Mutated form of PushAppend: push() does not call wake().
AppendNoWake(p) ==
    /\ pc[p] = "append"
    /\ queue_' = Append(queue_, <<p, calls[p]>>)
    /\ pushed' = Append(pushed, <<p, calls[p]>>)
    /\ queue_mtx_' = NoActor
    /\ pc' = [pc EXCEPT ![p] = "start"]
    /\ Finish(p, {})
    /\ UNCHANGED <<strandVars, timerWaits, r, calls, taken>>

\* push(): emplace_back, then the end of the guard's scope.
PushAppend(p) ==
    /\ pc[p] = "append"
    /\ queue_' = Append(queue_, <<p, calls[p]>>)
    /\ pushed' = Append(pushed, <<p, calls[p]>>)
    /\ queue_mtx_' = NoActor
    /\ pc' = [pc EXCEPT ![p] = "wake"]
    /\ UNCHANGED <<strandVars, timerWaits, ready, running, r, calls, taken>>

\* wake() is public: a call of it with nothing pushed.
WakeOnly(p) ==
    /\ pc[p] = "start"
    /\ OnThread(p)
    /\ HasWork(p)
    /\ calls' = [calls EXCEPT ![p] = @ + 1]
    /\ pc' = [pc EXCEPT ![p] = "wake"]
    /\ UNCHANGED <<queue_mtx_, strandVars, timerWaits, ready, running, listVars>>

\* Mutated form of WakeInline: timer_.cancel() without the strand.
WakeOffStrand(p) ==
    /\ pc[p] = "wake"
    /\ p \in PoolProducers
    /\ pc' = [pc EXCEPT ![p] = "cancel"]
    /\ UNCHANGED <<queue_mtx_, strandVars, timerWaits, ready, running, calls,
                   listVars>>

\* Mutated form of WakeInline: the lambda is posted, never run in place.
WakePosted(p) ==
    /\ pc[p] = "wake"
    /\ p \in PoolProducers /\ ~StrandLocked
    /\ QueueOnStrand(WakeHandler)
    /\ Finish(p, {})
    /\ pc' = [pc EXCEPT ![p] = "start"]
    /\ UNCHANGED <<queue_mtx_, timerWaits, calls, listVars>>

\* wake(): dispatch to the strand, run in place.
WakeInline(p) ==
    /\ pc[p] = "wake"
    /\ p \in PoolProducers
    /\ EnterStrand(p)
    /\ pc' = [pc EXCEPT ![p] = "cancel"]
    /\ UNCHANGED <<queue_mtx_, timerWaits, ready, running, calls, listVars>>

\* wake(): dispatch to the strand, queued.
WakeQueued(p) ==
    /\ pc[p] = "wake"
    /\ p \in PoolProducers => StrandLocked
    /\ QueueOnStrand(WakeHandler)
    /\ Finish(p, {})
    /\ pc' = [pc EXCEPT ![p] = "start"]
    /\ UNCHANGED <<queue_mtx_, timerWaits, calls, listVars>>

\* The lambda of wake(), run in place by the producer: timer_.cancel().
CancelInline(p) ==
    /\ pc[p] = "cancel"
    /\ CancelWaits(p, "start")
    /\ LeaveStrand
    /\ Finish(p, timerWaits)
    /\ UNCHANGED <<queue_mtx_, calls, listVars>>

\* The lambda of wake(), run by an invocation of the strand.
CancelQueued ==
    /\ strandOwner = WakeHandler
    /\ CancelWaits(WakeHandler, "start")
    /\ LeaveStrand
    /\ Finish(WakeHandler, timerWaits)
    /\ UNCHANGED <<queue_mtx_, calls, listVars>>

-----------------------------------------------------------------------------
(* try_pop() and pop(). *)

\* Mutated form of TryPopLock: the result of try_lock is ignored.
TryPopRegardless(t) ==
    /\ pc[t] = "start"
    /\ OnThread(t)
    /\ queue_mtx_' = t
    /\ pc' = [pc EXCEPT ![t] = "tryMove"]
    /\ UNCHANGED <<strandVars, timerWaits, ready, running, calls, listVars>>

\* try_pop(): try_lock succeeds.  pop() starts with the same call.
TryPopLock(t) ==
    /\ pc[t] = "start"
    /\ OnThread(t)
    /\ queue_mtx_ = NoActor
    /\ queue_mtx_' = t
    /\ pc' = [pc EXCEPT ![t] = "tryMove"]
    /\ UNCHANGED <<strandVars, timerWaits, ready, running, calls, listVars>>

\* try_pop(): try_lock fails, r stays empty; pop() goes on to wait.
TryPopBusy(t) ==
    /\ pc[t] = "start"
    /\ OnThread(t)
    /\ queue_mtx_ # NoActor
    /\ pc' = [pc EXCEPT ![t] = IF t \in Consumers THEN "dispatch" ELSE "start"]
    /\ UNCHANGED <<queue_mtx_, strandVars, timerWaits, ready, running, calls,
                   listVars>>

\* r = std::move(queue_), first half: r takes the nodes.
MoveOut(t, from, to) ==
    /\ pc[t] = from
    /\ r' = [r EXCEPT ![t] = queue_]
    /\ pc' = [pc EXCEPT ![t] = to]
    /\ UNCHANGED <<queue_, queue_mtx_, strandVars, timerWaits, ready, running,
                   calls, pushed, taken>>

\* Mutated form of ClearAndUnlock: the list is copied, not moved.
CopyAndUnlock(t) ==
    /\ queue_' = queue_
    /\ taken' = taken \o r[t]
    /\ r' = [r EXCEPT ![t] = <<>>]
    /\ queue_mtx_' = NoActor
    /\ UNCHANGED <<strandVars, timerWaits, calls, pushed>>

\* Second half: queue_ is left empty, and the mutex is released.
ClearAndUnlock(t) ==
    /\ queue_' = <<>>
    /\ taken' = taken \o r[t]
    /\ r' = [r EXCEPT ![t] = <<>>]
    /\ queue_mtx_' = NoActor
    /\ UNCHANGED <<strandVars, timerWaits, calls, pushed>>

TryPopMove(t) == MoveOut(t, "tryMove", "tryClear")

\* try_pop() returns; so does pop() when it got something.
TryPopReturn(t) ==
    /\ pc[t] = "tryClear"
    /\ t \in Consumers => r[t] # <<>>
    /\ ClearAndUnlock(t)
    /\ Finish(t, {})
    /\ pc' = [pc EXCEPT ![t] = "start"]

\* pop(): r.size() = 0, so wait for an event.
TryPopEmpty(c) ==
    /\ pc[c] = "tryClear"
    /\ r[c] = <<>>
    /\ ClearAndUnlock(c)
    /\ pc' = [pc EXCEPT ![c] = "dispatch"]
    /\ UNCHANGED <<ready, running>>

\* pop(): co_await dispatch(strand_, use_awaitable), resumed in place.
PopDispatchInline(c) ==
    /\ pc[c] = "dispatch"
    /\ EnterStrand(c)
    /\ pc' = [pc EXCEPT ![c] = "rearm"]
    /\ UNCHANGED <<queue_mtx_, timerWaits, ready, running, calls, listVars>>

\* ... or suspended until the strand runs it (StrandInvoke).
PopDispatchQueued(c) ==
    /\ pc[c] = "dispatch"
    /\ StrandLocked
    /\ QueueOnStrand(c)
    /\ running' = running \ {c}
    /\ pc' = [pc EXCEPT ![c] = "strandWait"]
    /\ UNCHANGED <<queue_mtx_, timerWaits, ready, calls, listVars>>

\* pop(): timer_.expires_at(max), which cancels the waits of other consumers.
PopRearm(c) ==
    /\ pc[c] = "rearm"
    /\ CancelWaits(c, "wait")
    /\ ready' = ready \cup timerWaits
    /\ UNCHANGED <<queue_mtx_, strandVars, running, calls, listVars>>

\* Mutated form of PopWait: the deadline is in the past, so the wait ends.
WaitExpired(c) ==
    /\ pc[c] = "wait"
    /\ LeaveStrand
    /\ running' = running \ {c}
    /\ ready' = ready \cup {c}
    /\ pc' = [pc EXCEPT ![c] = "woken"]
    /\ UNCHANGED <<queue_mtx_, timerWaits, calls, listVars>>

\* pop(): co_await timer_.async_wait(...), which suspends the coroutine.
PopWait(c) ==
    /\ pc[c] = "wait"
    /\ timerWaits' = timerWaits \cup {c}
    /\ LeaveStrand
    /\ running' = running \ {c}
    /\ pc' = [pc EXCEPT ![c] = "waiting"]
    /\ UNCHANGED <<queue_mtx_, ready, calls, listVars>>

\* Mutated form of PopLock: an event only makes pop() wait for the next one.
WaitAgain(c) ==
    /\ pc[c] = "woken"
    /\ OnThread(c)
    /\ pc' = [pc EXCEPT ![c] = "dispatch"]
    /\ UNCHANGED <<queue_mtx_, strandVars, timerWaits, ready, running, calls,
                   listVars>>

\* pop(): the wait was cancelled; lock_guard on queue_mtx_.
PopLock(c) ==
    /\ pc[c] = "woken"
    /\ OnThread(c)
    /\ queue_mtx_ = NoActor
    /\ queue_mtx_' = c
    /\ pc' = [pc EXCEPT ![c] = "popMove"]
    /\ UNCHANGED <<strandVars, timerWaits, ready, running, calls, listVars>>

PopMove(c) == MoveOut(c, "popMove", "popClear")

\* pop(): co_return r, empty or not.
PopReturn(c) ==
    /\ pc[c] = "popClear"
    /\ ClearAndUnlock(c)
    /\ Finish(c, {})
    /\ pc' = [pc EXCEPT ![c] = "start"]

-----------------------------------------------------------------------------
(* size() and empty(). *)

SizeLock(o) ==
    /\ pc[o] = "start"
    /\ queue_mtx_ = NoActor
    /\ queue_mtx_' = o
    /\ pc' = [pc EXCEPT ![o] = "size"]
    /\ UNCHANGED <<strandVars, timerWaits, ready, running, calls, listVars>>

SizeUnlock(o) ==
    /\ pc[o] = "size"
    /\ queue_mtx_' = NoActor
    /\ pc' = [pc EXCEPT ![o] = "start"]
    /\ UNCHANGED <<strandVars, timerWaits, ready, running, calls, listVars>>

-----------------------------------------------------------------------------

ProducerNext(p) ==
    \/ PushLock(p) \/ PushAppend(p) \/ WakeOnly(p)
    \/ WakeInline(p) \/ WakeQueued(p) \/ CancelInline(p)

TryPopNext(t) ==
    \/ TryPopLock(t) \/ TryPopBusy(t) \/ TryPopMove(t) \/ TryPopReturn(t)

PopNext(c) ==
    \/ TryPopEmpty(c) \/ PopDispatchInline(c) \/ PopDispatchQueued(c)
    \/ PopRearm(c) \/ PopWait(c) \/ PopLock(c) \/ PopMove(c) \/ PopReturn(c)

SizeNext(o) == SizeLock(o) \/ SizeUnlock(o)

Next ==
    \/ \E a \in Coroutines : Resume(a)
    \/ StrandInvoke
    \/ CancelQueued
    \/ \E p \in Producers : ProducerNext(p)
    \/ \E t \in Takers : TryPopNext(t)
    \/ \E c \in Consumers : PopNext(c)
    \/ \E o \in Observers : SizeNext(o)

Spec == Init /\ [][Next]_vars

-----------------------------------------------------------------------------
(* Safety. *)

Locations == {"start", "append", "wake", "cancel", "tryMove", "tryClear",
              "dispatch", "strandWait", "rearm", "wait", "waiting", "woken",
              "popMove", "popClear", "size"}

\* Every variable keeps to the values its C++ counterpart can take.
TypeOK ==
    /\ queue_ \in Seq(Item)
    /\ queue_mtx_ \in Actors \cup {NoActor}
    /\ strandOwner \in Actors \cup {WakeHandler, NoActor}
    /\ strandPosted \in BOOLEAN
    /\ strandQueue \in Seq(Consumers \cup {WakeHandler})
    /\ timerWaits \subseteq Consumers
    /\ ready \subseteq Coroutines
    /\ running \subseteq Coroutines \cup {WakeHandler}
    /\ pc \in [Actors -> Locations]
    /\ r \in [Takers -> Seq(Item)]
    /\ calls \in [Producers -> 0 .. MaxCalls]
    /\ pushed \in Seq(Item)
    /\ taken \in Seq(Item)

\* No value is lost, handed over twice or reordered: what the pops returned,
\* followed by what is still queued, is what was pushed.  This is the work
\* of queue_mtx_: a push between the two halves of a move would break it.
ExactlyOnceInOrder == taken \o queue_ = pushed

\* The threads that are about to touch timer_.
TouchesTimer(a) == pc[a] \in {"cancel", "rearm", "wait"}

\* timer_ is not thread safe, and the strand is all that protects it: at
\* most one handler, wake()'s lambda or the middle of pop(), works on it.
TimerExclusive ==
    /\ \A a, b \in Actors : TouchesTimer(a) /\ TouchesTimer(b) => a = b
    /\ strandOwner = WakeHandler => \A a \in Actors : ~TouchesTimer(a)

\* A wake() is still on its way to the timer.
WakePending ==
    \/ \E p \in Producers : pc[p] \in {"wake", "cancel"}
    \/ strandOwner = WakeHandler
    \/ \E i \in DOMAIN strandQueue : strandQueue[i] = WakeHandler

\* The event is not missed: when values are queued and every consumer waits
\* in pop(), some wake() is still going to end one of the waits.
NoLostWakeup ==
    queue_ # <<>> /\ Consumers # {} /\ (\A c \in Consumers : pc[c] = "waiting")
        => WakePending

\* The abstract channel, with the histories as its log.
Channel == INSTANCE FifoChannel WITH log <- pushed, delivered <- taken

\* Every step of the queue is a push, a take of the whole backlog, or
\* invisible to the callers.
ImplementsChannel == Channel!Spec

-----------------------------------------------------------------------------
(* Liveness. *)

\* A thread or coroutine that is inside a call goes on (the OS schedules the
\* threads); a posted handler is eventually picked up (the io_context's
\* queue is FIFO); a blocking lock is eventually granted.  A thread outside
\* the pool need not make another call, and the consumers call pop() for ever.
Fairness ==
    /\ \A a \in Coroutines : SF_vars(Resume(a))
    /\ SF_vars(StrandInvoke)
    /\ WF_vars(CancelQueued)
    /\ \A p \in Producers :
         WF_vars(PushAppend(p) \/ WakeInline(p) \/ WakeQueued(p) \/ CancelInline(p))
    /\ \A p \in PoolProducers : SF_vars(PushLock(p) \/ WakeOnly(p))
    /\ \A t \in Takers : WF_vars(TryPopMove(t) \/ TryPopReturn(t))
    /\ \A c \in Consumers :
         /\ WF_vars(TryPopLock(c) \/ TryPopBusy(c))
         /\ WF_vars(TryPopEmpty(c) \/ PopDispatchInline(c) \/ PopDispatchQueued(c)
                    \/ PopRearm(c) \/ PopWait(c) \/ PopMove(c) \/ PopReturn(c))
         /\ SF_vars(PopLock(c))
    /\ \A o \in Observers : WF_vars(SizeUnlock(o))

FairSpec == Spec /\ Fairness

\* A consumer whose wait was cancelled takes whatever is queued, so values
\* queued at that moment do not depend on any later push.
WokenConsumerDrains ==
    \A v \in Item :
        (\E i \in DOMAIN queue_ : queue_[i] = v) /\ (\E c \in Consumers : pc[c] = "woken")
            ~> \E i \in DOMAIN taken : taken[i] = v
=============================================================================
