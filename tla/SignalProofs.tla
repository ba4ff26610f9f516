---------------------------- MODULE SignalProofs ----------------------------
(***************************************************************************)
(* Theorems about Signal, for every number of threads, topics, handlers    *)
(* and calls, whatever the handlers emit and whichever policy the mutex    *)
(* has: the range of an emit is stable, emits are atomic, and only nested  *)
(* emits deadlock.                                                         *)
(***************************************************************************)
EXTENDS Signal, TLAPS, SequenceTheorems

-----------------------------------------------------------------------------
(* The inductive invariant. *)

\* A frame iterates over what is registered for its topic.
InRange(f) == f.todo \cup f.done \cup ({f.current} \ {NoHandler}) = registry_[f.topic]

\* A frame whose handler has its own emit ahead runs a handler that emits.
NestsRightly(f) == f.nests => f.current \in Handlers /\ Emits[f.current] \in Topics

FramesInv ==
    \A p \in Threads : \A i \in DOMAIN frames[p] :
        InRange(frames[p][i]) /\ NestsRightly(frames[p][i])

\* A thread waits for one write at most, and only outside of all emits.
WaitInv ==
    \A p \in Threads :
        /\ \A v, w \in waiting[p] : v = w
        /\ frames[p] # <<>> => waiting[p] = {}

\* A writer has something to write, and nobody is inside an emit.
WriterInv ==
    writer # NoThread => /\ waiting[writer] # {}
                         /\ \A p \in Threads : frames[p] = <<>>

IInv ==
    /\ TypeOK
    /\ FramesInv
    /\ WaitInv
    /\ WriterInv

-----------------------------------------------------------------------------
(* Lemmas about the stack of frames. *)

\* A frame put on a stack.
LEMMA PushFrame ==
  ASSUME NEW S, NEW s \in Seq(S), NEW x \in S
  PROVE  /\ <<x>> \o s \in Seq(S)
         /\ <<x>> \o s # <<>>
         /\ \A i \in DOMAIN (<<x>> \o s) :
               \/ (<<x>> \o s)[i] = x
               \/ \E j \in DOMAIN s : (<<x>> \o s)[i] = s[j]
<1>1. <<x>> \in Seq(S) /\ Len(<<x>>) = 1 /\ <<x>>[1] = x
  OBVIOUS
<1>2. /\ <<x>> \o s \in Seq(S)
      /\ Len(<<x>> \o s) = 1 + Len(s)
      /\ \A i \in 1 .. 1 + Len(s) :
            (<<x>> \o s)[i] = IF i <= 1 THEN <<x>>[i] ELSE s[i - 1]
  BY <1>1, ConcatProperties
<1>3. Len(s) \in Nat
  BY LenProperties
<1>4. <<x>> \o s # <<>>
  BY <1>2, <1>3, EmptySeq
<1>5. ASSUME NEW i \in DOMAIN (<<x>> \o s)
      PROVE  \/ (<<x>> \o s)[i] = x
             \/ \E j \in DOMAIN s : (<<x>> \o s)[i] = s[j]
  <2>1. i \in 1 .. 1 + Len(s)
    BY <1>2, LenProperties
  <2>2. CASE i = 1
    BY <1>1, <1>2, <2>1, <2>2
  <2>3. CASE i # 1
    <3>1. i - 1 \in DOMAIN s
      BY <1>3, <2>1, <2>3, LenProperties
    <3>2. (<<x>> \o s)[i] = s[i - 1]
      BY <1>2, <1>3, <2>1, <2>3
    <3> QED
      BY <3>1, <3>2
  <2> QED
    BY <2>2, <2>3
<1> QED
  BY <1>2, <1>4, <1>5

\* Two frames put on a stack at once.
LEMMA PushTwo ==
  ASSUME NEW S, NEW s \in Seq(S), NEW x \in S, NEW y \in S
  PROVE  <<x, y>> \o s = <<x>> \o (<<y>> \o s)
<1> DEFINE sx == <<x>>
           sy == <<y>>
           sxy == <<x, y>>
<1>1. /\ sx \in Seq(S) /\ Len(sx) = 1 /\ sx[1] = x
      /\ sy \in Seq(S) /\ Len(sy) = 1 /\ sy[1] = y
      /\ sxy \in Seq(S) /\ Len(sxy) = 2 /\ sxy[1] = x /\ sxy[2] = y
  OBVIOUS
<1> HIDE DEF sx, sy, sxy
<1>2. sx \o sy = sxy
  <2>0. /\ sx \o sy \in Seq(S)
        /\ Len(sx \o sy) = Len(sx) + Len(sy)
        /\ \A i \in 1 .. Len(sx) + Len(sy) :
              (sx \o sy)[i] = IF i <= Len(sx) THEN sx[i] ELSE sy[i - Len(sx)]
    BY <1>1, ConcatProperties
  <2>1. /\ sx \o sy \in Seq(S) /\ Len(sx \o sy) = 2
        /\ (sx \o sy)[1] = x /\ (sx \o sy)[2] = y
    BY <1>1, <2>0
  <2>2. \A i \in 1 .. 2 : (sx \o sy)[i] = sxy[i]
    BY <1>1, <2>1
  <2> QED
    BY <1>1, <2>1, <2>2, SeqEqual
<1>3. (sx \o sy) \o s = sx \o (sy \o s)
  BY <1>1, ConcatAssociative, SMTT(30)
<1>4. sxy \o s = sx \o (sy \o s)
  BY <1>2, <1>3
<1> QED
  BY <1>4, Zenon DEF sx, sy, sxy

\* A stack without its innermost frame.
LEMMA PopFrame ==
  ASSUME NEW S, NEW s \in Seq(S), s # <<>>
  PROVE  /\ Head(s) \in S
         /\ Tail(s) \in Seq(S)
         /\ \E j \in DOMAIN s : Head(s) = s[j]
         /\ \A i \in DOMAIN Tail(s) : \E j \in DOMAIN s : Tail(s)[i] = s[j]
<1>1. Len(s) \in Nat \ {0} /\ DOMAIN s = 1 .. Len(s)
  BY EmptySeq, LenProperties
<1>2. /\ Head(s) \in S
      /\ Tail(s) \in Seq(S)
      /\ Len(Tail(s)) = Len(s) - 1
      /\ \A i \in 1 .. Len(Tail(s)) : Tail(s)[i] = s[i + 1]
  BY HeadTailProperties
<1>3. Head(s) = s[1]
  BY <1>1
<1>4. ASSUME NEW i \in DOMAIN Tail(s) PROVE \E j \in DOMAIN s : Tail(s)[i] = s[j]
  <2>1. i \in 1 .. Len(s) - 1
    BY <1>2, LenProperties
  <2>2. i + 1 \in DOMAIN s /\ Tail(s)[i] = s[i + 1]
    BY <1>1, <1>2, <2>1
  <2> QED
    BY <2>2
<1> QED
  BY <1>1, <1>2, <1>3, <1>4

\* The innermost frame of a thread that is inside an emit.
LEMMA InnermostFrame ==
  ASSUME IInv, NEW p \in Threads, frames[p] # <<>>
  PROVE  /\ Head(frames[p]) \in Frames
         /\ InRange(Head(frames[p])) /\ NestsRightly(Head(frames[p]))
         /\ Tail(frames[p]) \in Seq(Frames)
         /\ waiting[p] = {} /\ writer = NoThread
<1>1. frames[p] \in Seq(Frames)
  BY DEF IInv, TypeOK
<1>2. /\ Head(frames[p]) \in Frames
      /\ Tail(frames[p]) \in Seq(Frames)
      /\ \E j \in DOMAIN frames[p] : Head(frames[p]) = frames[p][j]
  BY <1>1, PopFrame
<1> QED
  BY <1>2 DEF IInv, FramesInv, WaitInv, WriterInv

\* A step that changes one thread's stack, outside of any write, keeps the
\* invariants when each frame it leaves there is an old one or right.
LEMMA StackStep ==
  ASSUME IInv, NEW p \in Threads, NEW stack \in Seq(Frames),
         writer = NoThread, waiting[p] = {},
         registry_' = registry_, waiting' = waiting, writer' = writer,
         frames' = [frames EXCEPT ![p] = stack],
         \A i \in DOMAIN stack :
            \/ \E j \in DOMAIN frames[p] : stack[i] = frames[p][j]
            \/ InRange(stack[i]) /\ NestsRightly(stack[i])
  PROVE  /\ frames' \in [Threads -> Seq(Frames)]
         /\ FramesInv' /\ WaitInv' /\ WriterInv'
<1>1. frames' \in [Threads -> Seq(Frames)]
  BY DEF IInv, TypeOK
<1>2. \A q \in Threads : frames'[q] = IF q = p THEN stack ELSE frames[q]
  BY DEF IInv, TypeOK
<1>3. ASSUME NEW q \in Threads, NEW i \in DOMAIN frames'[q]
      PROVE  InRange(frames'[q][i]) /\ NestsRightly(frames'[q][i])
  BY <1>2 DEF IInv, FramesInv
<1>4. FramesInv'
  <2> SUFFICES ASSUME NEW q \in Threads, NEW i \in DOMAIN frames'[q]
               PROVE  InRange(frames[q][i])' /\ NestsRightly(frames[q][i])'
    BY DEF FramesInv
  <2>1. InRange(frames'[q][i]) /\ NestsRightly(frames'[q][i])
    BY <1>3
  <2>2. InRange(frames[q][i])'
    BY <2>1 DEF InRange
  <2>3. NestsRightly(frames[q][i])'
    BY <2>1 DEF NestsRightly
  <2> QED
    BY <2>2, <2>3
<1>5. WaitInv'
  BY <1>2 DEF IInv, WaitInv
<1>6. WriterInv'
  BY DEF WriterInv
<1> QED
  BY <1>1, <1>4, <1>5, <1>6

\* An emit that begins has before it exactly what is registered.
LEMMA NewFrame ==
  ASSUME IInv, NEW t \in Topics
  PROVE  LET f == [topic |-> t, todo |-> registry_[t], done |-> {},
                   current |-> NoHandler, nests |-> FALSE]
         IN f \in Frames /\ InRange(f) /\ NestsRightly(f)
<1>1. registry_[t] \in SUBSET Handlers
  BY DEF IInv, TypeOK
<1> QED
  BY <1>1 DEF Frames, InRange, NestsRightly

-----------------------------------------------------------------------------
(* The steps of emit(). *)

\* emit() takes the lock and looks its handlers up.
LEMMA EnterStep ==
  ASSUME IInv, NEW p \in Threads, NEW t \in Topics, Idle(p), Enter(p, t)
  PROVE  /\ frames' \in [Threads -> Seq(Frames)]
         /\ FramesInv' /\ WaitInv' /\ WriterInv'
<1> DEFINE f == [topic |-> t, todo |-> registry_[t], done |-> {},
                 current |-> NoHandler, nests |-> FALSE]
           stack == <<f>> \o frames[p]
<1>1. f \in Frames /\ InRange(f) /\ NestsRightly(f)
  BY NewFrame
<1>2. frames[p] \in Seq(Frames)
  BY DEF IInv, TypeOK
<1>3. /\ stack \in Seq(Frames)
      /\ \A i \in DOMAIN stack : stack[i] = f \/ \E j \in DOMAIN frames[p] : stack[i] = frames[p][j]
  <2> HIDE DEF f
  <2> QED
    BY <1>1, <1>2, PushFrame
<1>4. /\ frames' = [frames EXCEPT ![p] = stack]
      /\ writer = NoThread /\ waiting[p] = {}
      /\ UNCHANGED <<registry_, writer, waiting>>
  BY DEF Enter, CanRead, Idle
<1>5. \A i \in DOMAIN stack :
         \/ \E j \in DOMAIN frames[p] : stack[i] = frames[p][j]
         \/ InRange(stack[i]) /\ NestsRightly(stack[i])
  <2> HIDE DEF f, stack
  <2> QED
    BY <1>1, <1>3
<1> HIDE DEF stack
<1> QED
  BY <1>3, <1>4, <1>5, StackStep

\* The frame at the top is replaced by another one.
LEMMA ReplaceFrame ==
  ASSUME IInv, NEW p \in Threads, frames[p] # <<>>,
         NEW f \in Frames, InRange(f), NestsRightly(f),
         frames' = [frames EXCEPT ![p] = <<f>> \o Tail(@)],
         registry_' = registry_, waiting' = waiting, writer' = writer
  PROVE  /\ frames' \in [Threads -> Seq(Frames)]
         /\ FramesInv' /\ WaitInv' /\ WriterInv'
<1> DEFINE stack == <<f>> \o Tail(frames[p])
<1>1. frames[p] \in Seq(Frames)
  BY DEF IInv, TypeOK
<1>2. /\ Tail(frames[p]) \in Seq(Frames)
      /\ \A i \in DOMAIN Tail(frames[p]) :
            \E j \in DOMAIN frames[p] : Tail(frames[p])[i] = frames[p][j]
  BY <1>1, PopFrame
<1>3. /\ stack \in Seq(Frames)
      /\ \A i \in DOMAIN stack : \/ stack[i] = f
                                 \/ \E j \in DOMAIN Tail(frames[p]) : stack[i] = Tail(frames[p])[j]
  BY <1>2, PushFrame
<1>4. frames' = [frames EXCEPT ![p] = stack]
  OBVIOUS
<1>5. \A i \in DOMAIN stack :
         \/ \E j \in DOMAIN frames[p] : stack[i] = frames[p][j]
         \/ InRange(stack[i]) /\ NestsRightly(stack[i])
  <2> HIDE DEF stack
  <2> QED
    BY <1>2, <1>3
<1>6. writer = NoThread /\ waiting[p] = {}
  BY InnermostFrame
<1> HIDE DEF stack
<1> QED
  BY <1>3, <1>4, <1>5, <1>6, StackStep

\* A handler's own emit puts a frame on the one it is called in.
LEMMA EmitNestedStep ==
  ASSUME IInv, NEW p \in Threads, EmitNested(p)
  PROVE  /\ frames' \in [Threads -> Seq(Frames)]
         /\ FramesInv' /\ WaitInv' /\ WriterInv'
<1> DEFINE f == Head(frames[p])
           t == Emits[f.current]
           g == [topic |-> t, todo |-> registry_[t], done |-> {},
                 current |-> NoHandler, nests |-> FALSE]
           below == [f EXCEPT !.nests = FALSE]
           rest == <<below>> \o Tail(frames[p])
           stack == <<g>> \o rest
<1>1. /\ f \in Frames /\ InRange(f) /\ NestsRightly(f) /\ f.nests
      /\ Tail(frames[p]) \in Seq(Frames)
      /\ writer = NoThread /\ waiting[p] = {}
  BY InnermostFrame DEF EmitNested
<1>2. t \in Topics
  BY <1>1 DEF NestsRightly
<1>3. g \in Frames /\ InRange(g) /\ NestsRightly(g)
  <2> HIDE DEF t
  <2> QED
    BY <1>2, NewFrame
<1>4. below \in Frames /\ InRange(below) /\ NestsRightly(below)
  <2> HIDE DEF f
  <2> QED
    BY <1>1 DEF Frames, InRange, NestsRightly
<1>5. \A i \in DOMAIN Tail(frames[p]) :
         \E j \in DOMAIN frames[p] : Tail(frames[p])[i] = frames[p][j]
  <2>1. frames[p] \in Seq(Frames) /\ frames[p] # <<>>
    BY DEF IInv, TypeOK, EmitNested
  <2> QED
    BY <2>1, PopFrame
<1>6. /\ rest \in Seq(Frames)
      /\ \A i \in DOMAIN rest : \/ rest[i] = below
                                \/ \E j \in DOMAIN Tail(frames[p]) : rest[i] = Tail(frames[p])[j]
  <2> HIDE DEF below
  <2> QED
    BY <1>1, <1>4, PushFrame
<1>7. /\ stack \in Seq(Frames)
      /\ \A i \in DOMAIN stack : stack[i] = g \/ \E j \in DOMAIN rest : stack[i] = rest[j]
  <2> HIDE DEF g, rest
  <2> QED
    BY <1>3, <1>6, PushFrame
<1>8. \A i \in DOMAIN stack :
         \/ \E j \in DOMAIN frames[p] : stack[i] = frames[p][j]
         \/ InRange(stack[i]) /\ NestsRightly(stack[i])
  <2> HIDE DEF g, below, rest, stack
  <2>1. ASSUME NEW i \in DOMAIN rest
        PROVE  \/ \E j \in DOMAIN frames[p] : rest[i] = frames[p][j]
               \/ InRange(rest[i]) /\ NestsRightly(rest[i])
    <3>1. CASE rest[i] = below
      BY <1>4, <3>1, Zenon
    <3>2. CASE \E j \in DOMAIN Tail(frames[p]) : rest[i] = Tail(frames[p])[j]
      BY <1>5, <3>2, Zenon
    <3> QED
      BY <1>6, <3>1, <3>2, Zenon
  <2> QED
    BY <1>3, <1>7, <2>1, Zenon
<1>9. <<g, below>> \o Tail(frames[p]) = stack
  <2> HIDE DEF g, below
  <2> QED
    BY <1>1, <1>3, <1>4, PushTwo
<1>10. /\ frames' = [frames EXCEPT ![p] = stack]
       /\ UNCHANGED <<registry_, writer, waiting>>
  <2>1. frames' = [frames EXCEPT ![p] = <<g, below>> \o Tail(frames[p])]
    BY DEF EmitNested
  <2> HIDE DEF stack
  <2> QED
    BY <1>9, <2>1 DEF EmitNested
<1> HIDE DEF stack
<1> QED
  BY <1>1, <1>7, <1>8, <1>10, StackStep

\* A handler begins: it moves from what is left to what runs.
LEMMA InvokeStep ==
  ASSUME IInv, NEW p \in Threads, NEW h \in Handlers, Invoke(p, h)
  PROVE  /\ frames' \in [Threads -> Seq(Frames)]
         /\ FramesInv' /\ WaitInv' /\ WriterInv'
<1> DEFINE f == Head(frames[p])
           g == [f EXCEPT !.todo = @ \ {h}, !.current = h, !.nests = Emits[h] # NoTopic]
<1>1. /\ frames[p] # <<>> /\ f.current = NoHandler /\ h \in f.todo
      /\ frames' = [frames EXCEPT ![p] = <<g>> \o Tail(@)]
      /\ registry_' = registry_ /\ waiting' = waiting /\ writer' = writer
  BY DEF Invoke
<1>2. f \in Frames /\ InRange(f)
  BY <1>1, InnermostFrame
<1>3. g \in Frames /\ InRange(g) /\ NestsRightly(g)
  <2> HIDE DEF f
  <2>1. g \in Frames
    BY <1>2 DEF Frames
  <2>2. InRange(g)
    BY <1>1, <1>2, SignalAssumption DEF Frames, InRange
  <2>3. NestsRightly(g)
    BY <1>2, SignalAssumption DEF Frames, NestsRightly
  <2> QED
    BY <2>1, <2>2, <2>3
<1> HIDE DEF g
<1> QED
  BY <1>1, <1>3, ReplaceFrame

\* A handler returns: it moves from what runs to what has run.
LEMMA HandlerReturnStep ==
  ASSUME IInv, NEW p \in Threads, HandlerReturn(p)
  PROVE  /\ frames' \in [Threads -> Seq(Frames)]
         /\ FramesInv' /\ WaitInv' /\ WriterInv'
<1> DEFINE f == Head(frames[p])
           g == [f EXCEPT !.done = @ \cup {f.current}, !.current = NoHandler]
<1>1. /\ frames[p] # <<>> /\ f.current # NoHandler /\ ~f.nests
      /\ frames' = [frames EXCEPT ![p] = <<g>> \o Tail(@)]
      /\ registry_' = registry_ /\ waiting' = waiting /\ writer' = writer
  BY DEF HandlerReturn
<1>2. f \in Frames /\ InRange(f)
  BY <1>1, InnermostFrame
<1>3. g \in Frames /\ InRange(g) /\ NestsRightly(g)
  <2> HIDE DEF f
  <2>1. g \in Frames
    BY <1>1, <1>2 DEF Frames
  <2>2. InRange(g)
    BY <1>1, <1>2 DEF Frames, InRange
  <2>3. NestsRightly(g)
    BY <1>1, <1>2 DEF Frames, NestsRightly
  <2> QED
    BY <2>1, <2>2, <2>3
<1> HIDE DEF g
<1> QED
  BY <1>1, <1>3, ReplaceFrame

\* emit() returns: its frame is gone, and it ran what is registered.
LEMMA EmitReturnStep ==
  ASSUME IInv, NEW p \in Threads, EmitReturn(p)
  PROVE  /\ frames' \in [Threads -> Seq(Frames)]
         /\ FramesInv' /\ WaitInv' /\ WriterInv'
         /\ \E t \in Topics : last' = <<t, registry_[t]>>
<1> DEFINE f == Head(frames[p])
           stack == Tail(frames[p])
<1>1. /\ frames[p] # <<>> /\ f.current = NoHandler /\ f.todo = {}
      /\ last' = <<f.topic, f.done>>
      /\ frames' = [frames EXCEPT ![p] = stack]
      /\ registry_' = registry_ /\ waiting' = waiting /\ writer' = writer
  BY DEF EmitReturn
<1>2. /\ f \in Frames /\ InRange(f) /\ stack \in Seq(Frames)
      /\ waiting[p] = {} /\ writer = NoThread
  BY <1>1, InnermostFrame
<1>3. \A i \in DOMAIN stack : \E j \in DOMAIN frames[p] : stack[i] = frames[p][j]
  <2>1. frames[p] \in Seq(Frames)
    BY DEF IInv, TypeOK
  <2> QED
    BY <1>1, <2>1, PopFrame
<1>4. \E t \in Topics : last' = <<t, registry_[t]>>
  <2> HIDE DEF f
  <2>1. f.topic \in Topics /\ f.done = registry_[f.topic]
    BY <1>1, <1>2 DEF Frames, InRange
  <2> QED
    BY <1>1, <2>1
<1> HIDE DEF f, stack
<1> QED
  BY <1>1, <1>2, <1>3, <1>4, StackStep

-----------------------------------------------------------------------------
(* The steps of register_handler() and remove(). *)

\* A thread outside of all emits, and not the writer, asks for one write.
LEMMA AskToWrite ==
  ASSUME IInv, NEW p \in Threads, Idle(p), NEW w \in Writes,
         waiting' = [waiting EXCEPT ![p] = {w}],
         registry_' = registry_, writer' = writer, frames' = frames
  PROVE  /\ waiting' \in [Threads -> SUBSET Writes]
         /\ FramesInv' /\ WaitInv' /\ WriterInv'
<1>1. /\ waiting' \in [Threads -> SUBSET Writes]
      /\ \A q \in Threads : waiting'[q] = IF q = p THEN {w} ELSE waiting[q]
  BY DEF IInv, TypeOK
<1>2. FramesInv'
  BY DEF IInv, FramesInv, InRange, NestsRightly
<1>3. WaitInv'
  BY <1>1 DEF IInv, WaitInv, Idle
<1>4. WriterInv'
  BY <1>1 DEF IInv, TypeOK, WriterInv, Idle
<1> QED
  BY <1>1, <1>2, <1>3, <1>4

\* The exclusive lock is granted when nobody reads.
LEMMA WriteLockStep ==
  ASSUME IInv, NEW p \in Threads, WriteLock(p)
  PROVE  FramesInv' /\ WaitInv' /\ WriterInv'
<1> USE DEF WriteLock, CanWrite
<1>1. FramesInv'
  BY DEF IInv, FramesInv, InRange, NestsRightly
<1>2. WaitInv'
  BY DEF IInv, WaitInv
<1>3. WriterInv'
  BY DEF IInv, WriterInv
<1> QED
  BY <1>1, <1>2, <1>3

\* The registry changes while no emit is under way, by one write.
LEMMA WriteUnlockStep ==
  ASSUME IInv, NEW p \in Threads, WriteUnlock(p)
  PROVE  /\ registry_' \in [Topics -> SUBSET Handlers]
         /\ waiting' \in [Threads -> SUBSET Writes]
         /\ FramesInv' /\ WaitInv' /\ WriterInv'
         /\ \E t \in Topics :
               \/ \E h \in Handlers : registry_' = [registry_ EXCEPT ![t] = @ \cup {h}]
               \/ registry_' = [registry_ EXCEPT ![t] = {}]
<1>1. writer = p /\ p # NoThread
  BY SignalAssumption DEF WriteUnlock
<1>2. \A q \in Threads : frames[q] = <<>> /\ frames'[q] = <<>>
  BY <1>1 DEF IInv, WriterInv, WriteUnlock
<1>3. PICK w \in waiting[p] :
         registry_' = [registry_ EXCEPT ![w.topic] =
                         IF w.handler = NoHandler THEN {} ELSE @ \cup {w.handler}]
  BY DEF WriteUnlock
<1>4. w.topic \in Topics /\ w.handler \in Handlers \cup {NoHandler}
  BY <1>3 DEF IInv, TypeOK, Writes
<1>5. registry_' \in [Topics -> SUBSET Handlers]
  BY <1>3, <1>4 DEF IInv, TypeOK
<1>6. /\ waiting' \in [Threads -> SUBSET Writes]
      /\ \A q \in Threads : waiting'[q] = IF q = p THEN {} ELSE waiting[q]
  BY DEF IInv, TypeOK, WriteUnlock
<1>7. FramesInv'
  BY <1>2 DEF FramesInv
<1>8. WaitInv'
  BY <1>2, <1>6 DEF IInv, WaitInv
<1>9. WriterInv'
  BY DEF WriterInv, WriteUnlock
<1>10. \E t \in Topics :
          \/ \E h \in Handlers : registry_' = [registry_ EXCEPT ![t] = @ \cup {h}]
          \/ registry_' = [registry_ EXCEPT ![t] = {}]
  <2>1. CASE w.handler = NoHandler
    BY <1>3, <1>4, <2>1
  <2>2. CASE w.handler # NoHandler
    BY <1>3, <1>4, <2>2
  <2> QED
    BY <2>1, <2>2
<1> QED
  BY <1>5, <1>6, <1>7, <1>8, <1>9, <1>10

-----------------------------------------------------------------------------
(* The invariant holds. *)

LEMMA InitInvariant == Init => IInv
<1> SUFFICES ASSUME Init PROVE IInv
  OBVIOUS
<1>1. \A p \in Threads : frames[p] = <<>> /\ waiting[p] = {}
  BY DEF Init
<1>2. TypeOK
  BY SignalAssumption, EmptySeq DEF Init, TypeOK
<1>3. FramesInv
  BY <1>1 DEF FramesInv
<1> QED
  BY <1>1, <1>2, <1>3 DEF IInv, WaitInv, WriterInv, Init

\* What the executor holds are topics, first in, first out.
LEMMA PostedTypes ==
  ASSUME IInv
  PROVE  /\ \A t \in Topics : Append(posted, t) \in Seq(Topics)
         /\ posted # <<>> => Head(posted) \in Topics /\ Tail(posted) \in Seq(Topics)
<1>1. posted \in Seq(Topics)
  BY DEF IInv, TypeOK
<1>2. \A t \in Topics : Append(posted, t) \in Seq(Topics)
  BY <1>1, AppendProperties
<1>3. posted # <<>> => Head(posted) \in Topics /\ Tail(posted) \in Seq(Topics)
  BY <1>1, HeadTailProperties
<1> QED
  BY <1>2, <1>3

\* The steps of emit(), of emit_on() and of the handlers.
LEMMA EmitNextStep ==
  ASSUME IInv, NEW p \in Threads, EmitNext(p)
  PROVE  IInv'
<1>1. CASE EmitNested(p)
  <2>1. /\ frames' \in [Threads -> Seq(Frames)]
        /\ FramesInv' /\ WaitInv' /\ WriterInv'
    BY <1>1, EmitNestedStep
  <2> QED
    BY <1>1, <2>1 DEF EmitNested, IInv, TypeOK
<1>2. CASE HandlerReturn(p)
  <2>1. /\ frames' \in [Threads -> Seq(Frames)]
        /\ FramesInv' /\ WaitInv' /\ WriterInv'
    BY <1>2, HandlerReturnStep
  <2> QED
    BY <1>2, <2>1 DEF HandlerReturn, IInv, TypeOK
<1>3. CASE EmitReturn(p)
  <2>1. /\ frames' \in [Threads -> Seq(Frames)]
        /\ FramesInv' /\ WaitInv' /\ WriterInv'
        /\ \E t \in Topics : last' = <<t, registry_[t]>>
    BY <1>3, EmitReturnStep
  <2>2. last' \in Topics \X SUBSET Handlers
    BY <2>1 DEF IInv, TypeOK
  <2> QED
    BY <1>3, <2>1, <2>2 DEF EmitReturn, IInv, TypeOK
<1>4. CASE RunPosted(p)
  <2>1. Head(posted) \in Topics /\ Tail(posted) \in Seq(Topics)
    BY <1>4, PostedTypes DEF RunPosted
  <2>2. /\ frames' \in [Threads -> Seq(Frames)]
        /\ FramesInv' /\ WaitInv' /\ WriterInv'
    BY <1>4, <2>1, EnterStep DEF RunPosted
  <2> QED
    BY <1>4, <2>1, <2>2 DEF RunPosted, Enter, IInv, TypeOK
<1>5. ASSUME NEW h \in Handlers, Invoke(p, h) PROVE IInv'
  <2>1. /\ frames' \in [Threads -> Seq(Frames)]
        /\ FramesInv' /\ WaitInv' /\ WriterInv'
    BY <1>5, InvokeStep
  <2> QED
    BY <1>5, <2>1 DEF Invoke, IInv, TypeOK
<1>6. ASSUME NEW t \in Topics, Emit(p, t) PROVE IInv'
  <2>1. /\ frames' \in [Threads -> Seq(Frames)]
        /\ FramesInv' /\ WaitInv' /\ WriterInv'
    BY <1>6, EnterStep DEF Emit
  <2>2. calls' \in 0 .. MaxCalls
    BY <1>6, SignalAssumption DEF Emit, IInv, TypeOK
  <2> QED
    BY <1>6, <2>1, <2>2 DEF Emit, Enter, IInv, TypeOK
<1>7. ASSUME NEW t \in Topics, EmitOn(p, t) PROVE IInv'
  <2>1. calls' \in 0 .. MaxCalls
    BY <1>7, SignalAssumption DEF EmitOn, IInv, TypeOK
  <2>2. posted' \in Seq(Topics)
    BY <1>7, PostedTypes DEF EmitOn
  <2>3. TypeOK'
    BY <1>7, <2>1, <2>2 DEF EmitOn, IInv, TypeOK
  <2> QED
    BY <1>7, <2>3, SMTT(30) DEF EmitOn, IInv, FramesInv, WaitInv, WriterInv, InRange, NestsRightly
<1> QED
  BY <1>1, <1>2, <1>3, <1>4, <1>5, <1>6, <1>7 DEF EmitNext

\* The steps of register_handler() and remove().
LEMMA WriteNextStep ==
  ASSUME IInv, NEW p \in Threads, WriteNext(p)
  PROVE  IInv'
<1>1. CASE WriteLock(p)
  <2>1. FramesInv' /\ WaitInv' /\ WriterInv'
    BY <1>1, WriteLockStep
  <2> QED
    BY <1>1, <2>1 DEF WriteLock, IInv, TypeOK
<1>2. CASE WriteUnlock(p)
  <2>1. /\ registry_' \in [Topics -> SUBSET Handlers]
        /\ waiting' \in [Threads -> SUBSET Writes]
        /\ FramesInv' /\ WaitInv' /\ WriterInv'
    BY <1>2, WriteUnlockStep
  <2> QED
    BY <1>2, <2>1 DEF WriteUnlock, IInv, TypeOK
<1>3. ASSUME NEW t \in Topics, Remove(p, t) PROVE IInv'
  <2>1. [topic |-> t, handler |-> NoHandler] \in Writes
    BY DEF Writes
  <2>2. /\ waiting' \in [Threads -> SUBSET Writes]
        /\ FramesInv' /\ WaitInv' /\ WriterInv'
    BY <1>3, <2>1, AskToWrite DEF Remove
  <2>3. calls' \in 0 .. MaxCalls
    BY <1>3, SignalAssumption DEF Remove, IInv, TypeOK
  <2> QED
    BY <1>3, <2>2, <2>3 DEF Remove, IInv, TypeOK
<1>4. ASSUME NEW h \in Handlers, Register(p, h) PROVE IInv'
  <2>1. [topic |-> Listens[h], handler |-> h] \in Writes
    BY SignalAssumption DEF Writes
  <2>2. /\ waiting' \in [Threads -> SUBSET Writes]
        /\ FramesInv' /\ WaitInv' /\ WriterInv'
    BY <1>4, <2>1, AskToWrite DEF Register
  <2> QED
    BY <1>4, <2>2 DEF Register, IInv, TypeOK
<1> QED
  BY <1>1, <1>2, <1>3, <1>4 DEF WriteNext

\* Every reachable state satisfies the inductive invariant.
LEMMA Invariance == Spec => []IInv
<1>1. IInv /\ UNCHANGED vars => IInv'
  BY DEF vars, IInv, TypeOK, FramesInv, WaitInv, WriterInv, InRange, NestsRightly
<1>2. IInv /\ [Next]_vars => IInv'
  BY <1>1, EmitNextStep, WriteNextStep DEF Next
<1> QED
  BY <1>2, InitInvariant, PTL DEF Spec

\* While an emit iterates over the handlers of its topic, nested emits and
\* all, the registry has exactly those: no write comes in between.
THEOREM RangesAreStable == Spec => []EmitInv
<1>1. IInv => EmitInv
  BY DEF IInv, FramesInv, InRange, EmitInv, RangeIsStable
<1> QED
  BY <1>1, Invariance, PTL

\* Every emit() acts as if it ran its handlers at the moment it returns, and
\* every register_handler() and remove() at the moment it unlocks.
THEOREM SignalIsAtomic == Spec => ImplementsAtomicSignal
<1>1. Init => Atomic!Init
  BY DEF Init, Atomic!Init
<1>2. IInv /\ [Next]_vars => [Atomic!Next]_(Atomic!vars)
  <2> SUFFICES ASSUME IInv, [Next]_vars PROVE [Atomic!Next]_(Atomic!vars)
    OBVIOUS
  <2> DEFINE Still == UNCHANGED <<registry_, last>>
  <2> USE DEF Atomic!vars
  <2>1. ASSUME NEW p \in Threads, EmitNext(p) PROVE Atomic!Next \/ Still
    <3>1. CASE EmitReturn(p)
      <4>1. PICK t \in Topics : last' = <<t, registry_[t]>>
        BY <3>1, EmitReturnStep
      <4>2. Atomic!Emit(t)
        BY <3>1, <4>1 DEF EmitReturn, Atomic!Emit
      <4> QED
        BY <4>2 DEF Atomic!Next
    <3>2. CASE EmitNested(p) \/ HandlerReturn(p) \/ RunPosted(p)
      BY <3>2 DEF EmitNested, HandlerReturn, RunPosted, Enter
    <3>3. ASSUME NEW h \in Handlers, Invoke(p, h) PROVE Still
      BY <3>3 DEF Invoke
    <3>4. ASSUME NEW t \in Topics, Emit(p, t) \/ EmitOn(p, t) PROVE Still
      BY <3>4 DEF Emit, EmitOn, Enter
    <3> QED
      BY <2>1, <3>1, <3>2, <3>3, <3>4 DEF EmitNext
  <2>2. ASSUME NEW p \in Threads, WriteNext(p) PROVE Atomic!Next \/ Still
    <3>1. CASE WriteUnlock(p)
      <4>1. PICK t \in Topics :
               \/ \E h \in Handlers : registry_' = [registry_ EXCEPT ![t] = @ \cup {h}]
               \/ registry_' = [registry_ EXCEPT ![t] = {}]
        BY <3>1, WriteUnlockStep
      <4>2. (\E h \in Handlers : Atomic!Register(t, h)) \/ Atomic!Remove(t)
        BY <3>1, <4>1 DEF WriteUnlock, Atomic!Register, Atomic!Remove
      <4> QED
        BY <4>2 DEF Atomic!Next
    <3>2. CASE WriteLock(p)
      BY <3>2 DEF WriteLock
    <3>3. ASSUME NEW t \in Topics, Remove(p, t) PROVE Still
      BY <3>3 DEF Remove
    <3>4. ASSUME NEW h \in Handlers, Register(p, h) PROVE Still
      BY <3>4 DEF Register
    <3> QED
      BY <2>2, <3>1, <3>2, <3>3, <3>4 DEF WriteNext
  <2>3. CASE UNCHANGED vars
    BY <2>3 DEF vars
  <2> QED
    BY <2>1, <2>2, <2>3 DEF Next
<1> QED
  BY <1>1, <1>2, Invariance, PTL DEF Spec, ImplementsAtomicSignal, Atomic!Spec

\* Calls of emit(), register_handler() and remove() wait on one another for
\* ever only when a handler emits while a writer waits and the mutex lets the
\* writer go first: whichever way the calls overlap, nothing else deadlocks.
THEOREM DeadlockNeedsNesting == Spec => []OnlyNestingDeadlocks
<1>1. ASSUME IInv, NEW p \in Threads, ~Idle(p), \A q \in Threads : Idle(q) \/ Blocked(q)
      PROVE  /\ prefersWriters
             /\ \E q \in Threads : frames[q] # <<>> /\ Head(frames[q]).nests
             /\ \E q \in Threads : waiting[q] # {}
  <2>1. writer = NoThread
    <3> SUFFICES ASSUME writer # NoThread PROVE FALSE
      OBVIOUS
    <3>1. writer \in Threads /\ frames[writer] = <<>>
      BY <1>1 DEF IInv, TypeOK, WriterInv
    <3>2. ~Idle(writer) /\ ~Blocked(writer)
      BY <3>1 DEF Idle, Blocked
    <3> QED
      BY <1>1, <3>1, <3>2
  <2>2. PICK q \in Threads : frames[q] # <<>>
    <3>1. CASE frames[p] # <<>>
      BY <3>1
    <3>2. CASE frames[p] = <<>>
      <4>1. ~CanWrite
        BY <1>1, <2>1, <3>2 DEF Blocked
      <4> QED
        BY <2>1, <4>1 DEF CanWrite
    <3> QED
      BY <3>1, <3>2
  <2>3. waiting[q] = {}
    BY <1>1, <2>2 DEF IInv, WaitInv
  <2>4. Head(frames[q]).nests /\ ~CanRead
    BY <1>1, <2>2, <2>3 DEF Idle, Blocked
  <2> QED
    BY <2>1, <2>2, <2>4 DEF CanRead
<1>2. IInv => OnlyNestingDeadlocks
  BY <1>1 DEF OnlyNestingDeadlocks
<1> QED
  BY <1>2, Invariance, PTL
=============================================================================
