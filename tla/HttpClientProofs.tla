--------------------------- MODULE HttpClientProofs ---------------------------
(***************************************************************************)
(* Theorems about HttpClient, for every timeout, every number of pieces of *)
(* an answer and every server: a fetch returns whole answers only, and it  *)
(* takes at most twice the timeout once the host is resolved; and about    *)
(* the url_t of module Url that it parses its URL into, for every URL and  *)
(* every target: what is accepted is canonical, and no part of it is lost. *)
(***************************************************************************)
EXTENDS HttpClient, TLAPS, SequenceTheorems, WellFoundedInduction

-----------------------------------------------------------------------------
(* The inductive invariant. *)

Heads == [framing : {"none", "length", "chunked", "close"}, length : 0 .. MaxBody]

Servers == [end : {"open", "finished", "reset"}, head : Heads,
            sent : 0 .. MaxBody, last : BOOLEAN]

Outcomes == [is : {"none", "bad url", "error", "timeout"}]
                \cup [is : {"result"}, body : 0 .. MaxBody]

TypeInv ==
    /\ stage \in Stages
    /\ options \in [method : Methods, timeout : Nat]
    /\ options \in [method : Methods, timeout : Timeouts] \cup {NoOptions}
    /\ left \in {Never} \cup 0 .. options.timeout
    /\ elapsed \in 0 .. 3 * options.timeout + 1
    /\ server \in Servers
    /\ outcome \in Outcomes
    /\ outcome.is = "none" <=> stage # "over"

\* What has been spent and what is left of the deadline, at each stage: one
\* timeout to connect, and one more from then on.
ClockInv ==
    /\ stage \in {"idle", "resolve"} => elapsed = 0 /\ left = Never
    /\ stage \in {"connect", "write", "read"} => left \in 0 .. options.timeout
    /\ stage = "connect" => elapsed + left <= options.timeout
    /\ stage \in {"write", "read"} => elapsed + left <= 2 * options.timeout
    /\ elapsed <= 2 * options.timeout

\* The answer is whole when the socket is shut down, and stays what it is.
AnswerInv ==
    /\ stage = "shutdown" => Arrived
    /\ outcome.is = "result" => Arrived /\ outcome.body = server.sent

IInv == TypeInv /\ ClockInv /\ AnswerInv

-----------------------------------------------------------------------------
(* Lemmas. *)

\* The smaller of two numbers.
LEMMA MinOfTwo ==
  ASSUME NEW a \in Int, NEW b \in Int
  PROVE  /\ Min({a, b}) \in {a, b}
         /\ Min({a, b}) <= a
         /\ Min({a, b}) <= b
<1>1. \E x \in {a, b} : \A y \in {a, b} : x =< y
  <2>1. CASE a <= b
    BY <2>1
  <2>2. CASE b <= a
    BY <2>2
  <2> QED
    BY <2>1, <2>2
<1> QED
  BY <1>1 DEF Min

LEMMA InitInvariant == FetchInit => IInv
<1> SUFFICES ASSUME FetchInit PROVE IInv
  OBVIOUS
<1> USE DEF FetchInit
<1>1. /\ options.timeout = 0 /\ outcome.is = "none"
      /\ options \in [method : Methods, timeout : Nat]
  BY ClientAssumption DEF NoOptions
<1>2. server \in Servers
  BY ClientAssumption DEF ServerInit, NoHead, Servers, Heads
<1>3. outcome \in Outcomes
  BY DEF Outcomes
<1>4. TypeInv
  BY <1>1, <1>2, <1>3 DEF TypeInv, Stages
<1>5. ClockInv
  BY <1>1 DEF ClockInv
<1>6. AnswerInv
  BY <1>1 DEF AnswerInv
<1> QED
  BY <1>4, <1>5, <1>6 DEF IInv

\* A tick of the clock is taken from what is left of the deadline.
LEMMA TickStep ==
  ASSUME IInv, Tick
  PROVE  IInv'
<1>1. /\ stage \in {"connect", "write", "read"} /\ left # 0
      /\ left' = IF left = Never THEN Never ELSE left - 1
      /\ elapsed' = Min({elapsed + 1, 3 * options.timeout + 1})
      /\ UNCHANGED <<stage, options, server, outcome>>
  BY DEF Tick
<1>2. options.timeout \in Nat /\ left \in 0 .. options.timeout /\ left # Never
      /\ elapsed \in Nat
  BY <1>1, ClientAssumption DEF IInv, TypeInv, ClockInv
<1>3. left' = left - 1 /\ left' \in 0 .. options.timeout
  BY <1>1, <1>2
<1>4. elapsed' <= elapsed + 1 /\ elapsed' \in 0 .. 3 * options.timeout + 1
  <2>1. elapsed + 1 \in Int /\ 3 * options.timeout + 1 \in Int
    BY <1>2
  <2>2. /\ elapsed' \in {elapsed + 1, 3 * options.timeout + 1}
        /\ elapsed' <= elapsed + 1 /\ elapsed' <= 3 * options.timeout + 1
    BY <1>1, <2>1, MinOfTwo
  <2> QED
    BY <1>2, <2>2
<1>5. TypeInv'
  BY <1>1, <1>3, <1>4 DEF IInv, TypeInv
<1>6. ClockInv'
  BY <1>1, <1>2, <1>3, <1>4 DEF IInv, TypeInv, ClockInv
<1>7. AnswerInv'
  BY <1>1 DEF IInv, AnswerInv, Arrived
<1> QED
  BY <1>5, <1>6, <1>7 DEF IInv

\* The server sends while the coroutine writes or reads, and only then.
LEMMA ServerStep ==
  ASSUME IInv, ServerNext
  PROVE  IInv'
<1>1. /\ Connected /\ UNCHANGED <<stage, options, left, elapsed, outcome>>
      /\ server' \in Servers
  <2>1. ASSUME NEW f \in {"length", "chunked", "close"}, NEW n \in 0 .. MaxBody, SendHead(f, n)
        PROVE  server' \in Servers
    BY <2>1 DEF SendHead, IInv, TypeInv, Servers, Heads
  <2>2. ASSUME SendPiece PROVE server' \in Servers
    <3>1. /\ server \in Servers /\ server' = [server EXCEPT !.sent = @ + 1]
          /\ server.sent < IF server.head.framing = "length" THEN server.head.length ELSE MaxBody
      BY <2>2 DEF SendPiece, IInv, TypeInv
    <3>2. server.sent + 1 \in 0 .. MaxBody
      BY <3>1, ClientAssumption DEF Servers, Heads
    <3> QED
      BY <3>1, <3>2 DEF Servers
  <2>3. ASSUME SendLastChunk PROVE server' \in Servers
    BY <2>3 DEF SendLastChunk, IInv, TypeInv, Servers
  <2>4. ASSUME NEW how \in {"finished", "reset"}, Hangup(how) PROVE server' \in Servers
    BY <2>4 DEF Hangup, IInv, TypeInv, Servers
  <2>5. /\ Connected /\ UNCHANGED <<stage, options, left, elapsed, outcome>>
    BY DEF ServerNext, SendHead, SendPiece, SendLastChunk, Hangup
  <2> QED
    BY <2>1, <2>2, <2>3, <2>4, <2>5 DEF ServerNext
<1>2. stage \in {"write", "read"} /\ outcome.is = "none"
  BY <1>1 DEF Connected, IInv, TypeInv
<1>3. TypeInv'
  BY <1>1 DEF IInv, TypeInv
<1>4. ClockInv'
  BY <1>1 DEF IInv, ClockInv
<1>5. AnswerInv'
  BY <1>1, <1>2 DEF AnswerInv
<1> QED
  BY <1>3, <1>4, <1>5 DEF IInv

\* An exception ends the fetch without a result.
LEMMA FailsStep ==
  ASSUME IInv, NEW why \in {"error", "timeout"}, Fails(why)
  PROVE  IInv'
<1>1. /\ stage' = "over" /\ outcome' = [is |-> why]
      /\ UNCHANGED <<options, left, elapsed, server>>
  BY DEF Fails, Ends
<1>2. outcome' \in Outcomes /\ outcome'.is = why
  BY <1>1 DEF Outcomes
<1>3. TypeInv'
  BY <1>1, <1>2 DEF IInv, TypeInv, Stages
<1>4. ClockInv'
  BY <1>1 DEF IInv, ClockInv
<1>5. AnswerInv'
  BY <1>1, <1>2 DEF AnswerInv
<1> QED
  BY <1>3, <1>4, <1>5 DEF IInv

\* The steps of the coroutine, in their order.
LEMMA ClientStep ==
  ASSUME IInv, ClientNext
  PROVE  IInv'
<1>0. options.timeout \in Nat
  BY DEF IInv, TypeInv
<1>1. ASSUME NEW raw \in Fetched, NEW m \in Methods, NEW t \in Timeouts,
             Fetch(raw, [method |-> m, timeout |-> t])
      PROVE  IInv'
  <2>1. /\ stage = "idle" /\ UNCHANGED <<left, elapsed, server>>
        /\ options' = [method |-> m, timeout |-> t]
        /\ \/ stage' = "over" /\ outcome' = [is |-> "bad url"]
           \/ stage' = "resolve" /\ outcome' = outcome
    BY <1>1 DEF Fetch
  <2>2. elapsed = 0 /\ left = Never /\ outcome.is = "none"
    BY <2>1 DEF IInv, TypeInv, ClockInv
  <2>3. /\ t \in Nat /\ options'.timeout = t
        /\ options' \in [method : Methods, timeout : Nat]
        /\ options' \in [method : Methods, timeout : Timeouts]
    BY <2>1, ClientAssumption
  <2>4. /\ outcome' \in Outcomes
        /\ outcome'.is \in {"none", "bad url"}
        /\ outcome'.is = "none" <=> stage' # "over"
    <3>1. CASE stage' = "over" /\ outcome' = [is |-> "bad url"]
      BY <3>1 DEF Outcomes
    <3>2. CASE stage' = "resolve" /\ outcome' = outcome
      BY <2>2, <3>2 DEF IInv, TypeInv
    <3> QED
      BY <2>1, <3>1, <3>2
  <2>5. TypeInv'
    <3>1. stage' \in Stages /\ server' \in Servers
      <4>1. stage' \in {"over", "resolve"} /\ server' = server
        BY <2>1
      <4> QED
        BY <4>1 DEF IInv, TypeInv, Stages
    <3>2. elapsed' \in 0 .. 3 * options'.timeout + 1
      <4>1. elapsed' = 0
        BY <2>1, <2>2
      <4>2. options'.timeout \in Nat
        BY <2>3
      <4> QED
        BY <4>1, <4>2
    <3>3. left' \in {Never} \cup 0 .. options'.timeout
      BY <2>1, <2>2
    <3> QED
      BY <2>3, <2>4, <3>1, <3>2, <3>3 DEF TypeInv
  <2>6. ClockInv'
    <3>1. elapsed' = 0 /\ left' = Never /\ stage' \in {"over", "resolve"}
      BY <2>1, <2>2
    <3> QED
      BY <2>3, <3>1 DEF ClockInv
  <2>7. AnswerInv'
    <3>1. stage' # "shutdown" /\ outcome'.is # "result"
      BY <2>1, <2>4
    <3> QED
      BY <3>1 DEF AnswerInv
  <2> QED
    BY <2>5, <2>6, <2>7 DEF IInv
<1>2. CASE Resolved
  <2>1. TypeInv'
    BY <1>0, <1>2 DEF Resolved, IInv, TypeInv, Stages
  <2>2. ClockInv'
    BY <1>0, <1>2 DEF Resolved, IInv, ClockInv
  <2>3. AnswerInv'
    BY <1>2 DEF Resolved, IInv, TypeInv, AnswerInv
  <2> QED
    BY <2>1, <2>2, <2>3 DEF IInv
<1>3. CASE ConnectDone
  <2>1. TypeInv'
    BY <1>0, <1>3 DEF ConnectDone, IInv, TypeInv, Stages
  <2>2. ClockInv'
    <3>1. elapsed <= options.timeout
      BY <1>0, <1>3 DEF ConnectDone, IInv, TypeInv, ClockInv
    <3> QED
      BY <1>0, <1>3, <3>1 DEF ConnectDone, IInv, TypeInv, ClockInv
  <2>3. AnswerInv'
    BY <1>3 DEF ConnectDone, IInv, TypeInv, AnswerInv
  <2> QED
    BY <2>1, <2>2, <2>3 DEF IInv
<1>4. CASE WriteDone
  <2>1. TypeInv'
    BY <1>4 DEF WriteDone, IInv, TypeInv, Stages
  <2>2. ClockInv'
    BY <1>4 DEF WriteDone, IInv, ClockInv
  <2>3. AnswerInv'
    BY <1>4 DEF WriteDone, IInv, TypeInv, AnswerInv
  <2> QED
    BY <2>1, <2>2, <2>3 DEF IInv
<1>5. CASE ReadDone
  <2>1. TypeInv'
    BY <1>5 DEF ReadDone, IInv, TypeInv, Stages
  <2>2. ClockInv'
    BY <1>5 DEF ReadDone, IInv, ClockInv
  <2>3. AnswerInv'
    BY <1>5 DEF ReadDone, IInv, TypeInv, AnswerInv, Arrived
  <2> QED
    BY <2>1, <2>2, <2>3 DEF IInv
<1>6. ASSUME stage = "shutdown", Ends([is |-> "result", body |-> server.sent]) PROVE IInv'
  <2>1. /\ stage' = "over" /\ outcome' = [is |-> "result", body |-> server.sent]
        /\ UNCHANGED <<options, left, elapsed, server>>
    BY <1>6 DEF Ends
  <2>2. /\ outcome' \in Outcomes /\ outcome'.is = "result" /\ outcome'.body = server.sent
    BY <2>1 DEF IInv, TypeInv, Servers, Outcomes
  <2>3. TypeInv'
    BY <2>1, <2>2 DEF IInv, TypeInv, Stages
  <2>4. ClockInv'
    BY <2>1 DEF IInv, ClockInv
  <2>5. AnswerInv'
    BY <1>6, <2>1, <2>2 DEF IInv, AnswerInv, Arrived
  <2> QED
    BY <2>3, <2>4, <2>5 DEF IInv
<1>7. CASE ResolveFails \/ ConnectFails \/ WriteFails \/ ReadFails \/ TimesOut
  BY <1>7, FailsStep DEF ResolveFails, ConnectFails, WriteFails, ReadFails, TimesOut
<1>8. CASE Shutdown
  BY <1>6, <1>8, FailsStep DEF Shutdown
<1> QED
  BY <1>1, <1>2, <1>3, <1>4, <1>5, <1>7, <1>8 DEF ClientNext

\* Every reachable state satisfies the inductive invariant.
LEMMA Invariance == ClientSpec => []IInv
<1>1. IInv /\ UNCHANGED client => IInv'
  BY DEF client, IInv, TypeInv, ClockInv, AnswerInv, Arrived
<1>2. IInv /\ [FetchNext]_cvars => IInv'
  BY <1>1, TickStep, ServerStep, ClientStep DEF FetchNext, OtherUsers, cvars, client
<1> QED
  BY <1>2, InitInvariant, PTL DEF ClientSpec

-----------------------------------------------------------------------------
(* The theorems. *)

\* A fetch returns the body of an answer only if the answer was complete, as
\* the server framed it, when the socket was shut down.
THEOREM OnlyWholeAnswersReturn == ClientSpec => []OnlyWholeAnswers
<1>1. IInv => ClientTypeOK
  BY DEF IInv, TypeInv, ClientTypeOK, Servers, Outcomes
<1>2. IInv /\ outcome.is = "result" =>
         /\ outcome.body = server.sent
         /\ server.head # NoHead
         /\ server.head.framing = "length" => outcome.body = server.head.length
         /\ server.head.framing = "chunked" => server.last
         /\ server.head.framing = "close" => server.end = "finished"
  BY DEF IInv, AnswerInv, Arrived, NoHead
<1> QED
  BY <1>1, <1>2, Invariance, PTL DEF OnlyWholeAnswers

\* Connecting, writing and reading take at most twice the timeout together,
\* because the deadline is set anew once, when the connection is made.
THEOREM TwiceTheTimeoutAtMost == ClientSpec => []AtMostTwiceTheTimeout
<1>1. IInv => AtMostTwiceTheTimeout
  BY DEF IInv, ClockInv, AtMostTwiceTheTimeout
<1> QED
  BY <1>1, Invariance, PTL

-----------------------------------------------------------------------------
(* Induction over data, as facts about sets of numbers. *)

\* A set of natural numbers that is not empty has a smallest member.
LEMMA Smallest ==
  ASSUME NEW S \in SUBSET Nat, S # {}
  PROVE  \E n \in S : \A k \in S : n <= k
<1>1. PICK n \in S : \A k \in S : ~ (<<k, n>> \in OpToRel(<, Nat))
  BY NatLessThanWellFounded, WFMin
<1>2. \A k \in S : ~ (k < n)
  BY <1>1 DEF OpToRel
<1> QED
  BY <1>2

\* What holds of 0 and passes from each number below n to the next holds of
\* all up to n.
LEMMA UpTo ==
  ASSUME NEW n \in Nat, NEW S, 0 \in S,
         \A k \in 0 .. n - 1 : k \in S => k + 1 \in S
  PROVE  \A k \in 0 .. n : k \in S
<1> SUFFICES ASSUME (0 .. n) \ S # {} PROVE FALSE
  OBVIOUS
<1>1. PICK k \in (0 .. n) \ S : \A j \in (0 .. n) \ S : k <= j
  <2> DEFINE T == (0 .. n) \ S
  <2>1. T \in SUBSET Nat /\ T # {}
    OBVIOUS
  <2> HIDE DEF T
  <2>2. \E k \in T : \A j \in T : k <= j
    BY <2>1, Smallest
  <2> QED
    BY <2>2 DEF T
<1>2. k - 1 \in 0 .. n - 1 /\ k - 1 \in S /\ (k - 1) + 1 = k
  BY <1>1
<1> QED
  BY <1>1, <1>2

\* A set of positions that is not empty has a last member, and Max is it.
LEMMA MaxOfPositions ==
  ASSUME NEW n \in Nat, NEW S \in SUBSET (0 .. n), S # {}
  PROVE  Max(S) \in S /\ \A k \in S : k <= Max(S)
<1> DEFINE T == {n - k : k \in S}
<1>1. PICK m \in T : \A l \in T : m <= l
  <2>1. T \subseteq Nat
    OBVIOUS
  <2>2. T # {}
    <3>1. PICK k \in S : TRUE
      OBVIOUS
    <3>2. n - k \in T
      BY <3>1
    <3> QED
      BY <3>2
  <2> HIDE DEF T
  <2> QED
    BY <2>1, <2>2, Smallest
<1>2. PICK x \in S : m = n - x
  OBVIOUS
<1>3. \A k \in S : k <= x
  BY <1>1, <1>2
<1> QED
  BY <1>3 DEF Max

\* A set of numbers that is not empty has a first member, and Min is it.
LEMMA MinOfPositions ==
  ASSUME NEW S \in SUBSET Nat, S # {}
  PROVE  Min(S) \in S /\ \A k \in S : Min(S) <= k
<1>1. PICK n \in S : \A k \in S : n <= k
  BY Smallest
<1> QED
  BY <1>1 DEF Min

-----------------------------------------------------------------------------
(* Lemmas about pieces of texts. *)

\* What t has behind its first i bytes, up to the j-th.
Piece(t, i, j) == SubSeq(t, i + 1, j)

\* Texts are put together in any order.
LEMMA BytesAssociate ==
  \A s, t, u \in Seq(Bytes) : (s \o t) \o u = s \o (t \o u)
BY ConcatAssociative, SMTT(30)

\* A piece is a text of its length, its bytes those of the whole.
LEMMA PieceType ==
  ASSUME NEW t \in Seq(Bytes), NEW i \in 0 .. Len(t), NEW j \in i .. Len(t)
  PROVE  /\ Piece(t, i, j) \in Seq(Bytes)
         /\ Len(Piece(t, i, j)) = j - i
         /\ \A k \in 1 .. j - i : Piece(t, i, j)[k] = t[i + k]
<1> DEFINE n == Len(t)
           from == i + 1
           p == SubSeq(t, from, j)
<1>1. n \in Nat
  BY LenProperties
<1>2. i \in 0 .. n /\ j \in i .. n
  OBVIOUS
<1>3. from \in Int /\ j \in Int /\ from = i + 1 /\ from \in 1 .. n + 1
  BY <1>1, <1>2
<1>4. \A k \in from .. j : t[k] \in Bytes
  <2> SUFFICES ASSUME NEW k \in from .. j PROVE t[k] \in Bytes
    OBVIOUS
  <2>1. k \in 1 .. n
    BY <1>1, <1>2, <1>3
  <2> QED
    BY <2>1, ElementOfSeq
<1> HIDE DEF n, from
<1>5. /\ p \in Seq(Bytes)
      /\ Len(p) = IF from <= j THEN j - from + 1 ELSE 0
      /\ \A k \in 1 .. j - from + 1 : p[k] = t[from + k - 1]
  BY <1>3, <1>4, SubSeqProperties
<1> HIDE DEF p
<1>6. Len(p) = j - i
  BY <1>1, <1>2, <1>3, <1>5
<1>7. \A k \in 1 .. j - i : p[k] = t[i + k]
  <2> SUFFICES ASSUME NEW k \in 1 .. j - i PROVE p[k] = t[i + k]
    OBVIOUS
  <2>1. k \in 1 .. j - from + 1 /\ from + k - 1 = i + k
    BY <1>1, <1>2, <1>3
  <2> QED
    BY <1>5, <2>1
<1> QED
  BY <1>5, <1>6, <1>7 DEF Piece, p, from

\* Pieces with the same bytes are the same.
LEMMA PieceOfPiece ==
  ASSUME NEW t \in Seq(Bytes), NEW i \in 0 .. Len(t), NEW j \in i .. Len(t),
         NEW k \in 0 .. j - i, NEW l \in k .. j - i
  PROVE  Piece(Piece(t, i, j), k, l) = Piece(t, i + k, i + l)
<1> DEFINE n == Len(t)
           p == Piece(t, i, j)
           q == Piece(p, k, l)
           r == Piece(t, i + k, i + l)
<1>1. n \in Nat
  BY LenProperties
<1>2. i \in 0 .. n /\ j \in i .. n /\ k \in 0 .. j - i /\ l \in k .. j - i
  OBVIOUS
<1>3. p \in Seq(Bytes) /\ Len(p) = j - i /\ \A x \in 1 .. j - i : p[x] = t[i + x]
  BY PieceType
<1> HIDE DEF n, p
<1>4. q \in Seq(Bytes) /\ Len(q) = l - k /\ \A x \in 1 .. l - k : q[x] = p[k + x]
  <2>1. k \in 0 .. Len(p) /\ l \in k .. Len(p)
    BY <1>2, <1>3
  <2> QED
    BY <1>3, <2>1, PieceType
<1>5. i + k \in 0 .. n /\ i + l \in i + k .. n /\ (i + l) - (i + k) = l - k
  BY <1>1, <1>2
<1>6. r \in Seq(Bytes) /\ Len(r) = (i + l) - (i + k)
      /\ \A x \in 1 .. (i + l) - (i + k) : r[x] = t[(i + k) + x]
  BY <1>5, PieceType DEF n
<1> HIDE DEF q, r
<1>7. \A x \in 1 .. l - k : q[x] = r[x]
  <2> SUFFICES ASSUME NEW x \in 1 .. l - k PROVE q[x] = r[x]
    OBVIOUS
  <2>1. k + x \in 1 .. j - i /\ i + (k + x) = (i + k) + x
    BY <1>1, <1>2
  <2>2. q[x] = p[k + x] /\ p[k + x] = t[i + (k + x)]
    BY <1>3, <1>4, <2>1
  <2>3. r[x] = t[(i + k) + x]
    BY <1>5, <1>6
  <2> QED
    BY <2>1, <2>2, <2>3
<1>8. Len(q) = Len(r) /\ \A x \in 1 .. Len(q) : q[x] = r[x]
  BY <1>4, <1>5, <1>6, <1>7
<1>9. q = r
  BY <1>4, <1>6, <1>8, SeqEqual
<1> QED
  BY <1>9 DEF p, q, r

\* Pieces that follow each other make one.
LEMMA PieceJoin ==
  ASSUME NEW t \in Seq(Bytes), NEW i \in 0 .. Len(t), NEW j \in i .. Len(t),
         NEW k \in j .. Len(t)
  PROVE  Piece(t, i, j) \o Piece(t, j, k) = Piece(t, i, k)
<1> DEFINE n == Len(t)
           from == i + 1
<1>1. n \in Nat
  BY LenProperties
<1>2. from \in 1 .. n + 1 /\ j \in from - 1 .. n /\ k \in j .. n
  BY <1>1
<1> HIDE DEF from
<1>3. SubSeq(t, from, j) \o SubSeq(t, j + 1, k) = SubSeq(t, from, k)
  BY <1>2, ConcatAdjacentSubSeq
<1> QED
  BY <1>3 DEF Piece, from

\* All of a text is a piece of it.
LEMMA PieceWhole ==
  ASSUME NEW t \in Seq(Bytes)
  PROVE  Piece(t, 0, Len(t)) = t
<1>1. SubSeq(t, 1, Len(t)) = t
  BY SubSeqFull
<1>2. 0 + 1 = 1
  OBVIOUS
<1> QED
  BY <1>1, <1>2, Zenon DEF Piece

\* A piece that ends where it begins is empty.
LEMMA PieceEmpty ==
  ASSUME NEW t, NEW i \in Int
  PROVE  Piece(t, i, i) = <<>>
<1> DEFINE from == i + 1
<1>1. from \in Int /\ i < from
  OBVIOUS
<1> HIDE DEF from
<1>2. SubSeq(t, from, i) = <<>>
  BY <1>1, SubSeqEmpty
<1> QED
  BY <1>2 DEF Piece, from

\* A piece of one byte.
LEMMA PieceOfOne ==
  ASSUME NEW t \in Seq(Bytes), NEW i \in 0 .. Len(t) - 1
  PROVE  Piece(t, i, i + 1) = <<t[i + 1]>>
<1> DEFINE n == Len(t)
           j == i + 1
           p == Piece(t, i, j)
           q == <<t[j]>>
<1>1. n \in Nat /\ i \in 0 .. n - 1
  BY LenProperties
<1>2. /\ i \in 0 .. n /\ j \in i .. n /\ j - i = 1 /\ 1 \in 1 .. j - i /\ j \in 1 .. n
  BY <1>1
<1> HIDE DEF j
<1>3. p \in Seq(Bytes) /\ Len(p) = j - i /\ \A k \in 1 .. j - i : p[k] = t[i + k]
  BY <1>2, PieceType
<1> HIDE DEF p
<1>4. Len(p) = 1 /\ p[1] = t[j]
  <2>1. p[1] = t[i + 1]
    BY <1>2, <1>3
  <2> QED
    BY <1>2, <1>3, <2>1 DEF j
<1>5. t[j] \in Bytes
  BY <1>2, ElementOfSeq
<1>6. q \in Seq(Bytes) /\ Len(q) = 1 /\ q[1] = t[j]
  BY <1>5
<1> HIDE DEF q, n
<1>7. Len(p) = Len(q) /\ \A k \in 1 .. Len(p) : p[k] = q[k]
  BY <1>4, <1>6
<1>8. p = q
  BY <1>3, <1>6, <1>7, SeqEqual
<1> QED
  BY <1>8 DEF p, q, j

\* FirstOf finds the first of the bytes, or the end.
LEMMA FirstOfIs ==
  ASSUME NEW t \in Seq(Bytes), NEW i \in 1 .. Len(t) + 1, NEW bs
  PROVE  /\ FirstOf(t, i, bs) \in i .. Len(t) + 1
         /\ \A k \in i .. FirstOf(t, i, bs) - 1 : t[k] \notin bs
         /\ FirstOf(t, i, bs) <= Len(t) => t[FirstOf(t, i, bs)] \in bs
<1> DEFINE n == Len(t)
           S == {j \in i .. n : t[j] \in bs} \cup {n + 1}
<1>1. n \in Nat
  BY LenProperties
<1>2. S \in SUBSET Nat /\ S # {} /\ i \in 1 .. n + 1
  BY <1>1
<1>3. FirstOf(t, i, bs) = Min(S)
  BY DEF FirstOf
<1> HIDE DEF n
<1>4. \A k \in i .. n : t[k] \in bs => k \in S
  OBVIOUS
<1>5. \A k \in S : k = n + 1 \/ (k \in i .. n /\ t[k] \in bs)
  OBVIOUS
<1> HIDE DEF S
<1>6. Min(S) \in S /\ \A k \in S : Min(S) <= k
  BY <1>2, MinOfPositions
<1> DEFINE m == Min(S)
<1> HIDE DEF m
<1>7. m \in S /\ \A k \in S : m <= k
  BY <1>6 DEF m
<1>8. m \in i .. n + 1
  BY <1>1, <1>2, <1>5, <1>7
<1>9. \A k \in i .. m - 1 : t[k] \notin bs
  <2> SUFFICES ASSUME NEW k \in i .. m - 1, t[k] \in bs PROVE FALSE
    OBVIOUS
  <2>1. k \in i .. n /\ ~ (m <= k)
    BY <1>1, <1>2, <1>8
  <2> QED
    BY <1>4, <1>7, <2>1
<1>10. m <= n => t[m] \in bs
  BY <1>1, <1>5, <1>7
<1> QED
  BY <1>3, <1>8, <1>9, <1>10 DEF m, n

-----------------------------------------------------------------------------
(* The recursions of Collapsed, Reduced and Scanned end. *)

\* One step of Collapsed.
CollapsedStep(t, out, i) ==
    IF i = 0 THEN <<>>
    ELSE IF Redundant(t, i) THEN out[i - 1] ELSE Append(out[i - 1], t[i])

\* The recursion of Collapsed ends: there is a function that takes these steps.
LEMMA CollapsedEquation ==
  ASSUME NEW t, Len(t) \in Nat
  PROVE  \A i \in 0 .. Len(t) : Collapsed(t)[i] = CollapsedStep(t, Collapsed(t), i)
<1> DEFINE n == Len(t)
           IsCollapsed(w, k) == w = [i \in 0 .. k |-> CollapsedStep(t, w, i)]
<1>1. \E w : IsCollapsed(w, 0)
  <2> DEFINE w == [i \in 0 .. 0 |-> CollapsedStep(t, <<>>, i)]
  <2>1. w = [i \in 0 .. 0 |-> CollapsedStep(t, w, i)]
    BY DEF CollapsedStep
  <2> QED
    BY <2>1
<1>2. ASSUME NEW k \in Nat, \E w : IsCollapsed(w, k)
      PROVE  \E w : IsCollapsed(w, k + 1)
  <2>1. PICK v : v = [i \in 0 .. k |-> CollapsedStep(t, v, i)]
    BY <1>2
  <2> DEFINE w == [i \in 0 .. k + 1 |-> CollapsedStep(t, v, i)]
  <2>2. \A i \in 0 .. k : w[i] = v[i]
    <3> SUFFICES ASSUME NEW i \in 0 .. k PROVE w[i] = v[i]
      OBVIOUS
    <3>1. w[i] = CollapsedStep(t, v, i)
      OBVIOUS
    <3> QED
      BY <2>1, <3>1
  <2>3. \A i \in 0 .. k + 1 : CollapsedStep(t, v, i) = CollapsedStep(t, w, i)
    <3> SUFFICES ASSUME NEW i \in 0 .. k + 1
                 PROVE  CollapsedStep(t, v, i) = CollapsedStep(t, w, i)
      OBVIOUS
    <3>1. i # 0 => v[i - 1] = w[i - 1]
      <4>1. i # 0 => i - 1 \in 0 .. k
        OBVIOUS
      <4> HIDE DEF w
      <4> QED
        BY <2>2, <4>1
    <3> HIDE DEF w
    <3> QED
      BY <3>1 DEF CollapsedStep
  <2>4. w = [i \in 0 .. k + 1 |-> CollapsedStep(t, w, i)]
    <3>1. [i \in 0 .. k + 1 |-> CollapsedStep(t, v, i)] = [i \in 0 .. k + 1 |-> CollapsedStep(t, w, i)]
      <4> HIDE DEF w
      <4> QED
        BY <2>3, Zenon
    <3> QED
      BY <3>1
  <2> QED
    BY <2>4
<1>3. \E w : IsCollapsed(w, n)
  <2> DEFINE CollapsedTo == {k \in Nat : \E w : IsCollapsed(w, k)}
  <2> HIDE DEF IsCollapsed
  <2>1. 0 \in CollapsedTo /\ \A k \in 0 .. n - 1 : k \in CollapsedTo => k + 1 \in CollapsedTo
    BY <1>1, <1>2
  <2>2. \A k \in 0 .. n : k \in CollapsedTo
    <3> HIDE DEF CollapsedTo
    <3> QED
      BY <2>1, UpTo
  <2> QED
    BY <2>2
<1>4. Collapsed(t) = CHOOSE w : IsCollapsed(w, n)
  BY DEF Collapsed, CollapsedStep
<1>5. IsCollapsed(Collapsed(t), n)
  <2> HIDE DEF IsCollapsed
  <2> QED
  BY <1>3, <1>4
<1> QED
  <2> DEFINE w == Collapsed(t)
  <2>1. w = [i \in 0 .. n |-> CollapsedStep(t, w, i)]
    BY <1>5
  <2> HIDE DEF w
  <2> SUFFICES ASSUME NEW i \in 0 .. n PROVE w[i] = CollapsedStep(t, w, i)
    BY DEF w
  <2>2. [j \in 0 .. n |-> CollapsedStep(t, w, j)][i] = CollapsedStep(t, w, i)
    OBVIOUS
  <2> QED
    BY <2>1, <2>2, Zenon

\* One step of Reduced.
ReducedStep(t, acc, i) ==
    IF i = 0 THEN [out |-> <<>>, skip |-> 0]
    ELSE LET was == acc[i - 1]
         IN IF was.skip > 0 THEN [out |-> was.out, skip |-> was.skip - 1]
            ELSE IF Holds(t, i, <<Dot, Dot>>) THEN [out |-> Popped(was.out), skip |-> 2]
            ELSE IF Holds(t, i, <<Dot>>) THEN [out |-> was.out, skip |-> 1]
            ELSE [out |-> Append(was.out, t[i]), skip |-> 0]

\* The recursion of Reduced ends: there is a function that takes these steps.
LEMMA ReducedEquation ==
  ASSUME NEW t, Len(t) \in Nat
  PROVE  \A i \in 0 .. Len(t) : Reduced(t)[i] = ReducedStep(t, Reduced(t), i)
<1> DEFINE n == Len(t)
           IsReduced(w, k) == w = [i \in 0 .. k |-> ReducedStep(t, w, i)]
<1>1. \E w : IsReduced(w, 0)
  <2> DEFINE w == [i \in 0 .. 0 |-> ReducedStep(t, <<>>, i)]
  <2>1. w = [i \in 0 .. 0 |-> ReducedStep(t, w, i)]
    BY DEF ReducedStep
  <2> QED
    BY <2>1
<1>2. ASSUME NEW k \in Nat, \E w : IsReduced(w, k)
      PROVE  \E w : IsReduced(w, k + 1)
  <2>1. PICK v : v = [i \in 0 .. k |-> ReducedStep(t, v, i)]
    BY <1>2
  <2> DEFINE w == [i \in 0 .. k + 1 |-> ReducedStep(t, v, i)]
  <2>2. \A i \in 0 .. k : w[i] = v[i]
    <3> SUFFICES ASSUME NEW i \in 0 .. k PROVE w[i] = v[i]
      OBVIOUS
    <3>1. w[i] = ReducedStep(t, v, i)
      OBVIOUS
    <3> QED
      BY <2>1, <3>1
  <2>3. \A i \in 0 .. k + 1 : ReducedStep(t, v, i) = ReducedStep(t, w, i)
    <3> SUFFICES ASSUME NEW i \in 0 .. k + 1
                 PROVE  ReducedStep(t, v, i) = ReducedStep(t, w, i)
      OBVIOUS
    <3>1. i # 0 => v[i - 1] = w[i - 1]
      <4>1. i # 0 => i - 1 \in 0 .. k
        OBVIOUS
      <4> HIDE DEF w
      <4> QED
        BY <2>2, <4>1
    <3> HIDE DEF w
    <3> QED
      BY <3>1 DEF ReducedStep
  <2>4. w = [i \in 0 .. k + 1 |-> ReducedStep(t, w, i)]
    <3>1. [i \in 0 .. k + 1 |-> ReducedStep(t, v, i)] = [i \in 0 .. k + 1 |-> ReducedStep(t, w, i)]
      <4> HIDE DEF w
      <4> QED
        BY <2>3, Zenon
    <3> QED
      BY <3>1
  <2> QED
    BY <2>4
<1>3. \E w : IsReduced(w, n)
  <2> DEFINE ReducedTo == {k \in Nat : \E w : IsReduced(w, k)}
  <2> HIDE DEF IsReduced
  <2>1. 0 \in ReducedTo /\ \A k \in 0 .. n - 1 : k \in ReducedTo => k + 1 \in ReducedTo
    BY <1>1, <1>2
  <2>2. \A k \in 0 .. n : k \in ReducedTo
    <3> HIDE DEF ReducedTo
    <3> QED
      BY <2>1, UpTo
  <2> QED
    BY <2>2
<1>4. Reduced(t) = CHOOSE w : IsReduced(w, n)
  BY DEF Reduced, ReducedStep
<1>5. IsReduced(Reduced(t), n)
  <2> HIDE DEF IsReduced
  <2> QED
  BY <1>3, <1>4
<1> QED
  <2> DEFINE w == Reduced(t)
  <2>1. w = [i \in 0 .. n |-> ReducedStep(t, w, i)]
    BY <1>5
  <2> HIDE DEF w
  <2> SUFFICES ASSUME NEW i \in 0 .. n PROVE w[i] = ReducedStep(t, w, i)
    BY DEF w
  <2>2. [j \in 0 .. n |-> ReducedStep(t, w, j)][i] = ReducedStep(t, w, i)
    OBVIOUS
  <2> QED
    BY <2>1, <2>2, Zenon

\* One step of Scanned.
ScannedStep(u, rest, acc, i) ==
    IF i = 0 THEN [begin |-> 1, end |-> 0, user |-> u.userinfo, failed |-> FALSE]
    ELSE LET was == acc[i - 1]
         IN IF was.end # 0 \/ was.failed \/ (i = was.begin /\ i > 1) THEN was
            ELSE IF rest[i] \in Separators THEN [was EXCEPT !.end = i]
            ELSE IF rest[i] # At THEN was
            ELSE IF was.user # <<>> THEN [was EXCEPT !.failed = TRUE]
            ELSE [was EXCEPT !.user = SubSeq(rest, was.begin, i - 1), !.begin = i + 1]

\* The recursion of Scanned ends: there is a function that takes these steps.
LEMMA ScannedEquation ==
  ASSUME NEW u, NEW rest, Len(rest) \in Nat
  PROVE  \A i \in 0 .. Len(rest) : Scanned(u, rest)[i] = ScannedStep(u, rest, Scanned(u, rest), i)
<1> DEFINE n == Len(rest)
           IsScanned(w, k) == w = [i \in 0 .. k |-> ScannedStep(u, rest, w, i)]
<1>1. \E w : IsScanned(w, 0)
  <2> DEFINE w == [i \in 0 .. 0 |-> ScannedStep(u, rest, <<>>, i)]
  <2>1. w = [i \in 0 .. 0 |-> ScannedStep(u, rest, w, i)]
    BY DEF ScannedStep
  <2> QED
    BY <2>1
<1>2. ASSUME NEW k \in Nat, \E w : IsScanned(w, k)
      PROVE  \E w : IsScanned(w, k + 1)
  <2>1. PICK v : v = [i \in 0 .. k |-> ScannedStep(u, rest, v, i)]
    BY <1>2
  <2> DEFINE w == [i \in 0 .. k + 1 |-> ScannedStep(u, rest, v, i)]
  <2>2. \A i \in 0 .. k : w[i] = v[i]
    <3> SUFFICES ASSUME NEW i \in 0 .. k PROVE w[i] = v[i]
      OBVIOUS
    <3>1. w[i] = ScannedStep(u, rest, v, i)
      OBVIOUS
    <3> QED
      BY <2>1, <3>1
  <2>3. \A i \in 0 .. k + 1 : ScannedStep(u, rest, v, i) = ScannedStep(u, rest, w, i)
    <3> SUFFICES ASSUME NEW i \in 0 .. k + 1
                 PROVE  ScannedStep(u, rest, v, i) = ScannedStep(u, rest, w, i)
      OBVIOUS
    <3>1. i # 0 => v[i - 1] = w[i - 1]
      <4>1. i # 0 => i - 1 \in 0 .. k
        OBVIOUS
      <4> HIDE DEF w
      <4> QED
        BY <2>2, <4>1
    <3> HIDE DEF w
    <3> QED
      BY <3>1 DEF ScannedStep
  <2>4. w = [i \in 0 .. k + 1 |-> ScannedStep(u, rest, w, i)]
    <3>1. [i \in 0 .. k + 1 |-> ScannedStep(u, rest, v, i)] = [i \in 0 .. k + 1 |-> ScannedStep(u, rest, w, i)]
      <4> HIDE DEF w
      <4> QED
        BY <2>3, Zenon
    <3> QED
      BY <3>1
  <2> QED
    BY <2>4
<1>3. \E w : IsScanned(w, n)
  <2> DEFINE ScannedTo == {k \in Nat : \E w : IsScanned(w, k)}
  <2> HIDE DEF IsScanned
  <2>1. 0 \in ScannedTo /\ \A k \in 0 .. n - 1 : k \in ScannedTo => k + 1 \in ScannedTo
    BY <1>1, <1>2
  <2>2. \A k \in 0 .. n : k \in ScannedTo
    <3> HIDE DEF ScannedTo
    <3> QED
      BY <2>1, UpTo
  <2> QED
    BY <2>2
<1>4. Scanned(u, rest) = CHOOSE w : IsScanned(w, n)
  BY DEF Scanned, ScannedStep
<1>5. IsScanned(Scanned(u, rest), n)
  <2> HIDE DEF IsScanned
  <2> QED
  BY <1>3, <1>4
<1> QED
  <2> DEFINE w == Scanned(u, rest)
  <2>1. w = [i \in 0 .. n |-> ScannedStep(u, rest, w, i)]
    BY <1>5
  <2> HIDE DEF w
  <2> SUFFICES ASSUME NEW i \in 0 .. n PROVE w[i] = ScannedStep(u, rest, w, i)
    BY DEF w
  <2>2. [j \in 0 .. n |-> ScannedStep(u, rest, w, j)][i] = ScannedStep(u, rest, w, i)
    OBVIOUS
  <2> QED
    BY <2>1, <2>2, Zenon

-----------------------------------------------------------------------------
(* What is canonical is a text. *)

\* What is left of a text when its last element is taken off: all up to its
\* last slash, or nothing.
LEMMA PoppedIs ==
  ASSUME NEW out \in Seq(Bytes)
  PROVE  \E m \in 0 .. Len(out) :
            /\ Popped(out) = Piece(out, 0, m)
            /\ m = 0 \/ out[m + 1] = Slash
            /\ \A k \in m + 2 .. Len(out) : out[k] # Slash
            /\ m = Len(out) => out = <<>>
<1> DEFINE n == Len(out)
           S == {i \in DOMAIN out : out[i] = Slash} \cup {1}
           x == Max(S)
           m == x - 1
<1>1. n \in Nat /\ DOMAIN out = 1 .. n
  BY LenProperties
<1> HIDE DEF n
<1>2. S \in SUBSET (0 .. n + 1) /\ S # {} /\ n + 1 \in Nat
  BY <1>1
<1>3. \A i \in S : i = 1 \/ (i \in 1 .. n /\ out[i] = Slash)
  BY <1>1
<1>4. \A i \in 1 .. n : out[i] = Slash => i \in S
  BY <1>1
<1>0. 1 \in S
  OBVIOUS
<1> HIDE DEF S
<1>5. x \in S /\ \A k \in S : k <= x
  BY <1>2, MaxOfPositions
<1> HIDE DEF x
<1>6. m \in Nat /\ x = m + 1 /\ 1 <= x
  BY <1>0, <1>2, <1>5
<1>7. Popped(out) = SubSeq(out, 1, m)
  BY DEF Popped, m, x, S
<1> HIDE DEF m
<1>8. Popped(out) = Piece(out, 0, m)
  <2>1. 0 + 1 = 1
    OBVIOUS
  <2> QED
    BY <1>7, <2>1, Zenon DEF Piece
<1>9. m = 0 \/ (m + 1 \in 1 .. n /\ out[m + 1] = Slash)
  BY <1>3, <1>5, <1>6
<1>10. m \in 0 .. n
  BY <1>1, <1>6, <1>9
<1>11. \A k \in m + 2 .. n : out[k] # Slash
  BY <1>1, <1>4, <1>5, <1>6
<1>12. m = n => out = <<>>
  <2>1. m = n => n = 0
    BY <1>1, <1>9, <1>6
  <2> QED
    BY <1>1, <2>1, EmptySeq DEF n
<1> QED
  BY <1>8, <1>9, <1>10, <1>11, <1>12 DEF n

\* What needs no escape, and the rest.
LEMMA UnescapeType ==
  ASSUME NEW t \in Seq(Bytes)
  PROVE  /\ Unescape(t) \in Seq(Bytes) /\ Len(Unescape(t)) = Len(t)
         /\ \A i \in 1 .. Len(t) :
               Unescape(t)[i] = IF t[i] \in 256 .. 511 /\ Safe(t[i] - 256)
                                THEN t[i] - 256 ELSE t[i]
<1> DEFINE n == Len(t)
           U(i) == IF t[i] \in 256 .. 511 /\ Safe(t[i] - 256) THEN t[i] - 256 ELSE t[i]
<1>1. n \in Nat /\ DOMAIN t = 1 .. n
  BY LenProperties
<1>2. ASSUME NEW i \in 1 .. n PROVE U(i) \in Bytes
  <2>1. t[i] \in Bytes
    BY <1>2, ElementOfSeq
  <2>2. Safe(t[i] - 256) => t[i] - 256 # 0
    <3> DEFINE b == t[i] - 256
    <3>1. ~ Safe(0)
      BY DEF Safe, Letters, Digits, Dot
    <3> HIDE DEF b
    <3> QED
      BY <3>1 DEF b
  <2> QED
    BY <2>1, <2>2 DEF Bytes, BadEsc
<1>3. Unescape(t) = [i \in 1 .. n |-> U(i)]
  BY <1>1 DEF Unescape
<1> HIDE DEF n, U
<1>4. Unescape(t) \in [1 .. n -> Bytes]
  BY <1>2, <1>3
<1>5. Unescape(t) \in Seq(Bytes)
  BY <1>1, <1>4, IsASeq
<1>6. Len(Unescape(t)) = n
  BY <1>1, <1>4, <1>5, LenProperties
<1>7. \A i \in 1 .. n : Unescape(t)[i] = U(i)
  BY <1>3
<1> QED
  BY <1>5, <1>6, <1>7 DEF n, U

-----------------------------------------------------------------------------
(* The canonical form is a fixed point. *)

\* The first x bytes of a text belong to its path.
InPath(t, x) == \A k \in 1 .. x : t[k] \notin {Query, Hash}

\* PathEnd is where the path ends.
LEMMA PathEndIs ==
  ASSUME NEW t \in Seq(Bytes)
  PROVE  /\ PathEnd(t) \in 1 .. Len(t) + 1
         /\ \A x \in 0 .. Len(t) : x < PathEnd(t) <=> InPath(t, x)
<1> DEFINE n == Len(t)
           p == PathEnd(t)
<1>1. n \in Nat /\ 1 \in 1 .. n + 1
  BY LenProperties
<1>2. /\ p \in 1 .. n + 1
      /\ \A k \in 1 .. p - 1 : t[k] \notin {Query, Hash}
      /\ p <= n => t[p] \in {Query, Hash}
  BY <1>1, FirstOfIs DEF PathEnd
<1> HIDE DEF n, p
<1>3. ASSUME NEW x \in 0 .. n PROVE x < p <=> InPath(t, x)
  <2>1. x < p => InPath(t, x)
    BY <1>1, <1>2 DEF InPath
  <2>2. ~ (x < p) => p \in 1 .. x /\ p <= n
    BY <1>1, <1>2
  <2>3. ~ (x < p) => ~ InPath(t, x)
    BY <1>2, <2>2 DEF InPath
  <2> QED
    BY <2>1, <2>3
<1> QED
  BY <1>2, <1>3 DEF n, p

\* A text is in the path when a byte more is, unless that ends the path.
LEMMA InPathAppend ==
  ASSUME NEW t \in Seq(Bytes), NEW c \in Bytes
  PROVE  LET w == Append(t, c)
         IN /\ \A x \in 0 .. Len(t) : InPath(w, x) <=> InPath(t, x)
            /\ InPath(w, Len(t) + 1) <=> InPath(t, Len(t)) /\ c \notin {Query, Hash}
<1> DEFINE w == Append(t, c)
           n == Len(t)
           m == n + 1
<1>1. n \in Nat /\ \A k \in 1 .. n : w[k] = t[k]
  BY LenProperties, AppendProperties
<1>2. w[m] = c
  BY AppendProperties
<1> HIDE DEF w, n
<1>3. \A x \in 0 .. n : InPath(w, x) <=> InPath(t, x)
  BY <1>1 DEF InPath
<1>4. InPath(w, m) <=> InPath(t, n) /\ c \notin {Query, Hash}
  <2>1. 1 .. m = 1 .. n \cup {m}
    BY <1>1
  <2> HIDE DEF m
  <2> QED
    BY <1>1, <1>2, <2>1 DEF InPath
<1> QED
  BY <1>3, <1>4 DEF w, n

\* No slash of the path follows another.
Spaced(t) ==
    \A x \in 2 .. Len(t) : t[x - 1] = Slash /\ t[x] = Slash => ~ InPath(t, x)

\* Every byte of o is one of t.
Within(o, t) == \A x \in 1 .. Len(o) : \E k \in 1 .. Len(t) : o[x] = t[k]

\* Such a slash is what is redundant.
LEMMA SpacedIs ==
  ASSUME NEW t \in Seq(Bytes)
  PROVE  Spaced(t) <=> \A x \in 0 .. Len(t) : ~ Redundant(t, x)
<1> DEFINE n == Len(t)
           p == PathEnd(t)
<1>1. n \in Nat /\ p \in 1 .. n + 1
  BY LenProperties, PathEndIs
<1>2. \A x \in 0 .. n : x < p <=> InPath(t, x)
  BY PathEndIs
<1> HIDE DEF n, p
<1>3. \A x \in 0 .. n : Redundant(t, x) <=> x \in 2 .. n /\ InPath(t, x) /\ t[x - 1] = Slash /\ t[x] = Slash
  <2> SUFFICES ASSUME NEW x \in 0 .. n
               PROVE  Redundant(t, x) <=> x \in 2 .. n /\ InPath(t, x) /\ t[x - 1] = Slash /\ t[x] = Slash
    OBVIOUS
  <2>1. x \in 2 .. p - 1 <=> x \in 2 .. n /\ x < p
    BY <1>1
  <2>2. x < p <=> InPath(t, x)
    BY <1>2
  <2> QED
    BY <2>1, <2>2, Zenon DEF Redundant, p
<1>4. \A x \in 2 .. n : x \in 0 .. n
  BY <1>1
<1> QED
  BY <1>3, <1>4, Zenon DEF Spaced, n

\* A piece and the byte behind it.
LEMMA AppendPiece ==
  ASSUME NEW t \in Seq(Bytes), NEW i \in 0 .. Len(t) - 1
  PROVE  Append(Piece(t, 0, i), t[i + 1]) = Piece(t, 0, i + 1)
<1> DEFINE n == Len(t)
           j == i + 1
           o == Piece(t, 0, i)
<1>1. n \in Nat /\ i \in 0 .. n /\ j \in i .. n /\ 0 \in 0 .. n /\ j \in 1 .. n
  BY LenProperties
<1>2. o \in Seq(Bytes)
  BY <1>1, PieceType
<1>3. t[j] \in Bytes
  BY <1>1, ElementOfSeq
<1>4. Append(o, t[j]) = o \o <<t[j]>>
  <2> HIDE DEF o
  <2> QED
    BY <1>2, <1>3, AppendIsConcat
<1>5. Piece(t, i, j) = <<t[j]>>
  BY PieceOfOne
<1>6. Piece(t, 0, i) \o Piece(t, i, j) = Piece(t, 0, j)
  BY <1>1, PieceJoin
<1> QED
  BY <1>4, <1>5, <1>6, Zenon

\* Of a text without such slashes Collapse leaves everything.
LEMMA CollapseFixed ==
  ASSUME NEW t \in Seq(Bytes), Spaced(t)
  PROVE  Collapse(t) = t
<1> DEFINE n == Len(t)
           out == Collapsed(t)
           S == {i \in Nat : out[i] = Piece(t, 0, i)}
<1>1. n \in Nat
  BY LenProperties
<1>2. \A i \in 0 .. n : out[i] = CollapsedStep(t, out, i)
  BY <1>1, CollapsedEquation
<1>3. \A i \in 0 .. n : ~ Redundant(t, i)
  BY SpacedIs
<1> HIDE DEF out, n
<1>4. 0 \in S
  <2>1. out[0] = <<>>
    BY <1>1, <1>2 DEF CollapsedStep
  <2>2. Piece(t, 0, 0) = <<>>
    BY PieceEmpty
  <2> QED
    BY <2>1, <2>2
<1>5. ASSUME NEW i \in 0 .. n - 1, i \in S PROVE i + 1 \in S
  <2> DEFINE j == i + 1
  <2>1. j \in 0 .. n /\ j # 0 /\ j - 1 = i /\ j \in Nat
    BY <1>1
  <2>2. out[j] = Append(out[i], t[j])
    BY <1>2, <1>3, <2>1 DEF CollapsedStep
  <2>3. Append(Piece(t, 0, i), t[j]) = Piece(t, 0, j)
    BY AppendPiece DEF n
  <2> HIDE DEF j
  <2> QED
    BY <1>5, <2>1, <2>2, <2>3 DEF j
<1>6. n \in S
  <2> HIDE DEF S
  <2>1. \A i \in 0 .. n : i \in S
    BY <1>1, <1>4, <1>5, UpTo
  <2> QED
    BY <1>1, <2>1
<1>7. Piece(t, 0, n) = t
  BY PieceWhole DEF n
<1> QED
  BY <1>6, <1>7 DEF Collapse, out, n

\* What Collapse leaves of the first i bytes of t.
CollapsedSoFar(t, o, i) ==
    /\ o \in Seq(Bytes) /\ Spaced(o) /\ Within(o, t)
    /\ InPath(o, Len(o)) <=> InPath(t, i)
    /\ i > 0 => Len(o) > 0 /\ o[Len(o)] = t[i]

\* A byte more that is not redundant.
LEMMA SpacedAppend ==
  ASSUME NEW o \in Seq(Bytes), NEW c \in Bytes, Spaced(o),
         c = Slash /\ Len(o) > 0 /\ o[Len(o)] = Slash => ~ InPath(o, Len(o))
  PROVE  Spaced(Append(o, c))
<1> DEFINE w == Append(o, c)
           l == Len(o)
           m == l + 1
<1>1. l \in Nat /\ Len(w) = m /\ w[m] = c /\ \A x \in 1 .. l : w[x] = o[x]
  BY LenProperties, AppendProperties
<1>2. /\ \A x \in 0 .. l : InPath(w, x) <=> InPath(o, x)
      /\ InPath(w, m) <=> InPath(o, l) /\ c \notin {Query, Hash}
  BY InPathAppend
<1>3. \A x \in 2 .. l : o[x - 1] = Slash /\ o[x] = Slash => ~ InPath(o, x)
  BY DEF Spaced
<1>4. c = Slash /\ l > 0 /\ o[l] = Slash => ~ InPath(o, l)
  OBVIOUS
<1> HIDE DEF w, l
<1>5. ASSUME NEW x \in 2 .. m, w[x - 1] = Slash, w[x] = Slash PROVE ~ InPath(w, x)
  <2>1. CASE x = m
    <3>1. l > 0 /\ l \in 1 .. l /\ x - 1 = l
      BY <1>1, <1>5, <2>1
    <3> HIDE DEF m
    <3>2. c = Slash /\ o[l] = Slash
      BY <1>1, <1>5, <2>1, <3>1
    <3> QED
      BY <1>2, <1>4, <2>1, <3>1, <3>2
  <2>2. CASE x # m
    <3>1. x \in 2 .. l /\ x \in 1 .. l /\ x - 1 \in 1 .. l /\ x \in 0 .. l
      BY <1>1, <1>5, <2>2
    <3> HIDE DEF m
    <3> QED
      BY <1>1, <1>2, <1>3, <1>5, <3>1
  <2> QED
    BY <2>1, <2>2
<1> QED
  BY <1>1, <1>5, Zenon DEF Spaced, w

\* A byte of t more is one of t.
LEMMA WithinAppend ==
  ASSUME NEW t \in Seq(Bytes), NEW o \in Seq(Bytes), NEW j \in 1 .. Len(t), Within(o, t)
  PROVE  Append(o, t[j]) \in Seq(Bytes) /\ Within(Append(o, t[j]), t)
<1> DEFINE l == Len(o)
           c == t[j]
           w == Append(o, c)
<1>1. c \in Bytes
  BY ElementOfSeq
<1>2. l \in Nat /\ w \in Seq(Bytes) /\ Len(w) = l + 1 /\ w[l + 1] = c /\ \A x \in 1 .. l : w[x] = o[x]
  BY <1>1, LenProperties, AppendProperties
<1>3. \A x \in 1 .. l : \E k \in 1 .. Len(t) : o[x] = t[k]
  BY DEF Within
<1> HIDE DEF w, l
<1>4. ASSUME NEW x \in 1 .. l + 1 PROVE \E k \in 1 .. Len(t) : w[x] = t[k]
  <2>1. CASE x = l + 1
    BY <1>2, <2>1
  <2>2. CASE x # l + 1
    <3>1. x \in 1 .. l
      BY <1>2, <1>4, <2>2
    <3> QED
      BY <1>2, <1>3, <3>1
  <2> QED
    BY <2>1, <2>2
<1> QED
  BY <1>2, <1>4 DEF Within, w

\* One byte more of t in the path.
LEMMA InPathNext ==
  ASSUME NEW t \in Seq(Bytes), NEW i \in 0 .. Len(t) - 1
  PROVE  InPath(t, i + 1) <=> InPath(t, i) /\ t[i + 1] \notin {Query, Hash}
<1> DEFINE j == i + 1
<1>1. 1 .. j = 1 .. i \cup {j}
  BY LenProperties
<1> HIDE DEF j
<1>2. InPath(t, j) <=> InPath(t, i) /\ t[j] \notin {Query, Hash}
  BY <1>1 DEF InPath
<1> QED
  BY <1>2 DEF j

\* What is left on the way has no such slash, and only bytes that were there.
LEMMA CollapsedIs ==
  ASSUME NEW t \in Seq(Bytes)
  PROVE  \A i \in 0 .. Len(t) : CollapsedSoFar(t, Collapsed(t)[i], i)
<1> DEFINE n == Len(t)
           out == Collapsed(t)
           S == {i \in Nat : CollapsedSoFar(t, out[i], i)}
<1>1. n \in Nat
  BY LenProperties
<1>2. \A i \in 0 .. n : out[i] = CollapsedStep(t, out, i)
  BY <1>1, CollapsedEquation
<1> HIDE DEF out, n
<1>3. 0 \in S
  <2>1. out[0] = <<>>
    BY <1>1, <1>2 DEF CollapsedStep
  <2>2. CollapsedSoFar(t, <<>>, 0)
    <3>1. <<>> \in Seq(Bytes) /\ Len(<<>>) = 0
      OBVIOUS
    <3> QED
      BY <3>1 DEF CollapsedSoFar, Spaced, Within, InPath
  <2> QED
    BY <2>1, <2>2
<1>4. ASSUME NEW i \in 0 .. n - 1, i \in S PROVE i + 1 \in S
  <2> DEFINE j == i + 1
             o == out[i]
             c == t[j]
             w == Append(o, c)
             l == Len(o)
  <2>1. j \in 0 .. n /\ j # 0 /\ j - 1 = i /\ j \in Nat /\ j \in 1 .. n /\ (i > 0 => j \in 2 .. n)
        /\ (i = 0 => j = 1) /\ i \in 0 .. n /\ (i > 0 \/ i = 0)
    BY <1>1
  <2>2. out[j] = IF Redundant(t, j) THEN o ELSE w
    BY <1>2, <2>1 DEF CollapsedStep
  <2>3. c \in Bytes
    BY <2>1, ElementOfSeq DEF n
  <2>4. /\ o \in Seq(Bytes) /\ Spaced(o) /\ Within(o, t)
        /\ InPath(o, l) <=> InPath(t, i)
        /\ i > 0 => l > 0 /\ o[l] = t[i]
    BY <1>4 DEF CollapsedSoFar
  <2>5. InPath(t, j) <=> InPath(t, i) /\ c \notin {Query, Hash}
    BY InPathNext DEF n
  <2>6. Redundant(t, j) <=> j \in 2 .. n /\ InPath(t, j) /\ c = Slash /\ t[i] = Slash
    <3>1. PathEnd(t) \in 1 .. n + 1 /\ (j < PathEnd(t) <=> InPath(t, j))
      BY <2>1, PathEndIs DEF n
    <3>2. j \in 2 .. PathEnd(t) - 1 <=> j \in 2 .. n /\ j < PathEnd(t)
      BY <1>1, <2>1, <3>1
    <3> HIDE DEF j
    <3> QED
      BY <2>1, <3>1, <3>2, Zenon DEF Redundant
  <2> HIDE DEF j, o, c, w, l
  <2>7. CASE Redundant(t, j)
    <3>1. out[j] = o
      BY <2>2, <2>7
    <3>2. i > 0 /\ c = Slash /\ t[i] = Slash /\ InPath(t, j)
      BY <2>1, <2>6, <2>7
    <3>3. CollapsedSoFar(t, o, j)
      BY <2>4, <2>5, <3>2 DEF CollapsedSoFar, c, l
    <3> QED
      BY <2>1, <3>1, <3>3 DEF j
  <2>8. CASE ~ Redundant(t, j)
    <3>1. out[j] = w
      BY <2>2, <2>8
    <3>2. w \in Seq(Bytes) /\ Len(w) = l + 1 /\ w[l + 1] = c /\ l + 1 > 0 /\ l \in Nat
      <4>1. l \in Nat
        BY <2>4, LenProperties DEF l
      <4> QED
        BY <2>3, <2>4, <4>1, AppendProperties DEF w, l
    <3>3. Within(w, t)
      BY <2>1, <2>4, WithinAppend DEF w, c, n
    <3>4. Spaced(w)
      <4>1. c = Slash /\ l > 0 /\ o[l] = Slash => ~ InPath(o, l)
        <5> SUFFICES ASSUME c = Slash, l > 0, o[l] = Slash PROVE ~ InPath(o, l)
          OBVIOUS
        <5>1. CASE i > 0
          <6>1. j \in 2 .. n /\ t[i] = Slash
            BY <2>1, <2>4, <5>1
          <6>2. ~ InPath(t, j)
            BY <2>6, <2>8, <6>1
          <6>3. c \notin {Query, Hash}
            BY DEF Slash, Query, Hash
          <6> QED
            BY <2>4, <2>5, <6>2, <6>3
        <5>2. CASE i = 0
          <6>1. o = <<>>
            BY <1>1, <1>2, <5>2 DEF o, CollapsedStep
          <6> QED
            BY <6>1 DEF l
        <5> QED
          BY <2>1, <5>1, <5>2
      <4> QED
        BY <2>3, <2>4, <4>1, SpacedAppend DEF w, l
    <3>5. InPath(w, l + 1) <=> InPath(o, l) /\ c \notin {Query, Hash}
      BY <2>3, <2>4, InPathAppend DEF w, l
    <3>6. CollapsedSoFar(t, w, j)
      <4>1. InPath(w, Len(w)) <=> InPath(t, j)
        BY <2>4, <2>5, <3>2, <3>5
      <4>2. Len(w) > 0 /\ w[Len(w)] = t[j]
        BY <3>2 DEF c
      <4> QED
        BY <3>2, <3>3, <3>4, <4>1, <4>2, Zenon DEF CollapsedSoFar
    <3> QED
      BY <2>1, <3>1, <3>6 DEF j
  <2> QED
    BY <2>7, <2>8
<1>5. \A i \in 0 .. n : i \in S
  <2> HIDE DEF S
  <2> QED
    BY <1>1, <1>3, <1>4, UpTo
<1> QED
  BY <1>5 DEF out, n

\* So has what Collapse leaves.
LEMMA CollapseIs ==
  ASSUME NEW t \in Seq(Bytes)
  PROVE  LET c == Collapse(t) IN c \in Seq(Bytes) /\ Spaced(c) /\ Within(c, t)
<1>1. Len(t) \in 0 .. Len(t)
  BY LenProperties
<1>2. CollapsedSoFar(t, Collapse(t), Len(t))
  BY <1>1, CollapsedIs, Zenon DEF Collapse
<1> QED
  BY <1>2 DEF CollapsedSoFar

\* Behind a slash at x stands an element of one dot, or of two.
HasDot(t, x) ==
    /\ x + 1 <= Len(t) /\ t[x] = Slash /\ t[x + 1] = Dot
    /\ x + 1 = Len(t) \/ t[x + 2] \in Separators

HasDots(t, x) ==
    /\ x + 2 <= Len(t) /\ t[x] = Slash /\ t[x + 1] = Dot /\ t[x + 2] = Dot
    /\ x + 2 = Len(t) \/ t[x + 3] \in Separators

\* Two dots, one behind the other.
LEMMA TwoDots == <<Dot>> \o <<Dot>> = <<Dot, Dot>>
<1> DEFINE v == <<Dot>>
           w == v \o v
           q == <<Dot, Dot>>
<1>1. v \in Seq(Bytes) /\ Len(v) = 1 /\ v[1] = Dot /\ q \in Seq(Bytes) /\ Len(q) = 2 /\ q[1] = Dot /\ q[2] = Dot
  BY DEF Dot, Bytes, BadEsc
<1> HIDE DEF v, q
<1>2. /\ w \in Seq(Bytes) /\ Len(w) = 1 + 1
      /\ \A i \in 1 .. 1 + 1 : w[i] = IF i <= 1 THEN v[i] ELSE v[i - 1]
  BY <1>1, ConcatProperties
<1> HIDE DEF w
<1>3. Len(w) = 2 /\ w[1] = Dot /\ w[2] = Dot
  BY <1>1, <1>2
<1>4. Len(w) = Len(q) /\ \A i \in 1 .. Len(w) : w[i] = q[i]
  BY <1>1, <1>3
<1>5. w = q
  BY <1>1, <1>2, <1>4, SeqEqual
<1> QED
  BY <1>5 DEF v, w, q

\* These are the elements that Reduced looks for.
LEMMA HoldsDot ==
  ASSUME NEW t \in Seq(Bytes), NEW x \in 1 .. Len(t)
  PROVE  /\ Holds(t, x, <<Dot>>) <=> InPath(t, x) /\ HasDot(t, x)
         /\ Holds(t, x, <<Dot, Dot>>) <=> InPath(t, x) /\ HasDots(t, x)
         /\ Holds(t, x, <<Dot>>) => InPath(t, x + 1)
         /\ Holds(t, x, <<Dot, Dot>>) => InPath(t, x + 2)
<1> DEFINE n == Len(t)
           p == PathEnd(t)
           y == x + 1
           z == x + 2
           f == FirstOf(t, y, Separators)
           g == f - 1
           e == Piece(t, x, g)
<1>1. n \in Nat /\ x \in 1 .. n /\ x \in 0 .. n /\ y = x + 1 /\ z = x + 2 /\ y \in 1 .. n + 1
      /\ z = y + 1 /\ g = f - 1 /\ z + 1 = x + 3
  BY LenProperties
<1>2. x < p <=> InPath(t, x)
  BY <1>1, PathEndIs
<1>3. /\ f \in y .. n + 1
      /\ \A k \in y .. f - 1 : t[k] \notin Separators
      /\ f <= n => t[f] \in Separators
  BY <1>1, FirstOfIs
<1>4. \A d : Holds(t, x, d) <=> x < p /\ t[x] = Slash /\ e = d
  BY Zenon DEF Holds, Piece, Separators
<1>5. p \in 1 .. n + 1 /\ (p <= n => t[p] \in Separators) /\ (\A k \in 1 .. p - 1 : t[k] \notin {Query, Hash})
  <2>1. 1 \in 1 .. n + 1
    BY <1>1
  <2> HIDE DEF n
  <2> QED
    BY <2>1, FirstOfIs DEF PathEnd, n, Separators
<1> HIDE DEF n, p, y, f, g, z
<1>6. g \in x .. n /\ Len(e) = g - x /\ \A k \in 1 .. g - x : e[k] = t[x + k]
  <2>1. g \in x .. n
    BY <1>1, <1>3
  <2> QED
    BY <1>1, <2>1, PieceType DEF n
<1>7. x < p => f <= p
  <2> SUFFICES ASSUME x < p, ~ (f <= p) PROVE FALSE
    OBVIOUS
  <2>1. p \in y .. f - 1 /\ p <= n
    BY <1>1, <1>3, <1>5
  <2> QED
    BY <1>3, <1>5, <2>1
<1>8. Dot \notin Separators
  BY DEF Dot, Separators, Slash, Query, Hash
<1>9. e = <<Dot>> <=> y <= n /\ t[y] = Dot /\ (y = n \/ t[z] \in Separators)
  <2>1. ASSUME e = <<Dot>> PROVE f = z /\ y <= n /\ t[y] = Dot /\ (y = n \/ t[z] \in Separators)
    <3>1. Len(e) = 1 /\ e[1] = Dot
      BY <2>1
    <3> HIDE DEF e
    <3>2. g - x = 1 /\ 1 \in 1 .. g - x
      <4>1. 1 \in 1 .. 1
        OBVIOUS
      <4> QED
        BY <1>6, <3>1, <4>1, Zenon
    <3>3. f = z /\ y <= n /\ (y = n \/ f <= n)
      BY <1>1, <1>3, <3>2
    <3>4. t[y] = Dot
      BY <1>1, <1>6, <3>1, <3>2
    <3> QED
      BY <1>3, <3>3, <3>4
  <2>2. ASSUME y <= n, t[y] = Dot, y = n \/ t[z] \in Separators PROVE e = <<Dot>>
    <3>1. f # y
      BY <1>3, <1>8, <2>2
    <3>2. ~ (z < f)
      <4> SUFFICES ASSUME z < f PROVE FALSE
        OBVIOUS
      <4>1. z \in y .. f - 1 /\ y # n
        BY <1>1, <1>3
      <4> QED
        BY <1>3, <2>2, <4>1
    <3>3. f = z /\ g = y
      BY <1>1, <1>3, <3>1, <3>2
    <3>4. x \in 0 .. Len(t) - 1
      BY <1>1, <2>2 DEF n
    <3>5. Piece(t, x, x + 1) = <<t[x + 1]>>
      BY <3>4, PieceOfOne
    <3> QED
      BY <1>1, <2>2, <3>3, <3>5
  <2> QED
    BY <2>1, <2>2
<1>10. e = <<Dot, Dot>> <=> z <= n /\ t[y] = Dot /\ t[z] = Dot /\ (z = n \/ t[z + 1] \in Separators)
  <2>1. ASSUME e = <<Dot, Dot>>
        PROVE  f = z + 1 /\ z <= n /\ t[y] = Dot /\ t[z] = Dot /\ (z = n \/ t[z + 1] \in Separators)
    <3>1. Len(e) = 2 /\ e[1] = Dot /\ e[2] = Dot
      BY <2>1
    <3> HIDE DEF e
    <3>2. g - x = 2 /\ 1 \in 1 .. g - x /\ 2 \in 1 .. g - x
      <4>1. 1 \in 1 .. 2 /\ 2 \in 1 .. 2
        OBVIOUS
      <4> QED
        BY <1>6, <3>1, <4>1, Zenon
    <3>3. f = z + 1 /\ z <= n /\ (z = n \/ f <= n)
      BY <1>1, <1>3, <3>2
    <3>4. t[y] = Dot /\ t[z] = Dot
      BY <1>1, <1>6, <3>1, <3>2
    <3> QED
      BY <1>3, <3>3, <3>4
  <2>2. ASSUME z <= n, t[y] = Dot, t[z] = Dot, z = n \/ t[z + 1] \in Separators
        PROVE  e = <<Dot, Dot>>
    <3>1. f # y /\ f # z
      <4>1. y <= n
        BY <1>1, <2>2
      <4>2. f = y => t[y] \in Separators
        BY <1>3, <4>1, Zenon
      <4>3. f = z => t[z] \in Separators
        BY <1>3, <2>2, Zenon
      <4> QED
        BY <1>8, <2>2, <4>2, <4>3, Zenon
    <3>2. ~ (z + 1 < f)
      <4> SUFFICES ASSUME z + 1 < f PROVE FALSE
        OBVIOUS
      <4>1. z + 1 \in y .. f - 1 /\ z # n
        BY <1>1, <1>3
      <4> QED
        BY <1>3, <2>2, <4>1
    <3>3. g = z
      BY <1>1, <1>3, <3>1, <3>2
    <3>4. x \in 0 .. Len(t) - 1 /\ y \in 0 .. Len(t) - 1 /\ y \in x .. Len(t) /\ z \in y .. Len(t)
          /\ x \in 0 .. Len(t)
      BY <1>1, <2>2 DEF n
    <3>5. Piece(t, x, x + 1) = <<t[x + 1]>> /\ Piece(t, y, y + 1) = <<t[y + 1]>>
      BY <3>4, PieceOfOne
    <3>6. Piece(t, x, y) \o Piece(t, y, z) = Piece(t, x, z)
      BY <3>4, PieceJoin
    <3>7. <<Dot>> \o <<Dot>> = <<Dot, Dot>>
      BY TwoDots
    <3>8. Piece(t, x, y) = <<Dot>> /\ Piece(t, y, z) = <<Dot>>
      BY <1>1, <2>2, <3>5
    <3> QED
      BY <3>3, <3>6, <3>7, <3>8, Zenon
  <2> QED
    BY <2>1, <2>2
<1>11. HasDot(t, x) <=> t[x] = Slash /\ e = <<Dot>>
  <2> HIDE DEF e
  <2> QED
    BY <1>1, <1>9 DEF HasDot, n
<1>12. HasDots(t, x) <=> t[x] = Slash /\ e = <<Dot, Dot>>
  <2> HIDE DEF e
  <2> QED
    BY <1>1, <1>10 DEF HasDots, n
<1>13. \A k \in 0 .. n : k < p => InPath(t, k)
  BY PathEndIs DEF n, p
<1>14. Holds(t, x, <<Dot>>) => InPath(t, x + 1)
  <2> SUFFICES ASSUME x < p, e = <<Dot>> PROVE InPath(t, x + 1)
    BY <1>4
  <2>1. Len(e) = 1
    OBVIOUS
  <2> HIDE DEF e
  <2>2. x + 1 < p /\ x + 1 \in 0 .. n
    BY <1>1, <1>3, <1>5, <1>6, <1>7, <2>1
  <2> QED
    BY <1>13, <2>2
<1>15. Holds(t, x, <<Dot, Dot>>) => InPath(t, x + 2)
  <2> SUFFICES ASSUME x < p, e = <<Dot, Dot>> PROVE InPath(t, x + 2)
    BY <1>4
  <2>1. Len(e) = 2
    OBVIOUS
  <2> HIDE DEF e
  <2>2. x + 2 < p /\ x + 2 \in 0 .. n
    BY <1>1, <1>3, <1>5, <1>6, <1>7, <2>1
  <2> QED
    BY <1>13, <2>2
<1> QED
  BY <1>2, <1>4, <1>11, <1>12, <1>14, <1>15, Zenon

\* There is no element of dots in the path.
NoDots(t) ==
    \A x \in 1 .. Len(t) : InPath(t, x) => ~ HasDot(t, x) /\ ~ HasDots(t, x)

\* Of a text without such elements Resolve leaves everything.
LEMMA ResolveFixed ==
  ASSUME NEW t \in Seq(Bytes), NoDots(t)
  PROVE  Resolve(t) = t
<1> DEFINE n == Len(t)
           acc == Reduced(t)
           S == {i \in Nat : acc[i].out = Piece(t, 0, i) /\ acc[i].skip = 0}
<1>1. n \in Nat
  BY LenProperties
<1>2. \A i \in 0 .. n : acc[i] = ReducedStep(t, acc, i)
  BY <1>1, ReducedEquation
<1>3. \A i \in 1 .. n : ~ Holds(t, i, <<Dot>>) /\ ~ Holds(t, i, <<Dot, Dot>>)
  BY HoldsDot DEF NoDots
<1> HIDE DEF acc, n
<1>4. 0 \in S
  <2>1. acc[0] = [out |-> <<>>, skip |-> 0]
    <3>1. 0 \in 0 .. n
      BY <1>1
    <3> QED
      BY <1>2, <3>1, Zenon DEF ReducedStep
  <2>2. Piece(t, 0, 0) = <<>>
    BY PieceEmpty
  <2> QED
    BY <2>1, <2>2
<1>5. ASSUME NEW i \in 0 .. n - 1, i \in S PROVE i + 1 \in S
  <2> DEFINE j == i + 1
  <2>1. j \in 0 .. n /\ j # 0 /\ j - 1 = i /\ j \in Nat /\ j \in 1 .. n
    BY <1>1
  <2>2. ~ (acc[i].skip > 0)
    BY <1>5
  <2>3. acc[j] = [out |-> Append(acc[i].out, t[j]), skip |-> 0]
    BY <1>2, <1>3, <2>1, <2>2 DEF ReducedStep
  <2>4. Append(Piece(t, 0, i), t[j]) = Piece(t, 0, j)
    BY AppendPiece DEF n
  <2>5. acc[i].out = Piece(t, 0, i)
    BY <1>5
  <2>6. acc[j].out = Append(acc[i].out, t[j]) /\ acc[j].skip = 0
    BY <2>3
  <2>7. acc[j].out = Piece(t, 0, j) /\ acc[j].skip = 0
    BY <2>4, <2>5, <2>6, Zenon
  <2> QED
    BY <2>1, <2>7
<1>6. n \in S
  <2> HIDE DEF S
  <2>1. \A i \in 0 .. n : i \in S
    BY <1>1, <1>4, <1>5, UpTo
  <2> QED
    BY <1>1, <2>1
<1>7. Piece(t, 0, n) = t
  BY PieceWhole DEF n
<1> QED
  BY <1>6, <1>7 DEF Resolve, acc, n

\* A text ends on a slash, on an element of one dot, or on one of two.
EndsOnSlash(t) == Len(t) >= 1 /\ t[Len(t)] = Slash
EndsOnDot(t)   == Len(t) >= 2 /\ t[Len(t) - 1] = Slash /\ t[Len(t)] = Dot
EndsOnDots(t)  == Len(t) >= 3 /\ t[Len(t) - 2] = Slash /\ t[Len(t) - 1] = Dot /\ t[Len(t)] = Dot

\* No element of dots is followed by another in the path.
Undotted(t) ==
    \A x \in 1 .. Len(t) :
        InPath(t, x) =>
            /\ ~ (x + 2 <= Len(t) /\ t[x] = Slash /\ t[x + 1] = Dot /\ t[x + 2] \in Separators)
            /\ ~ (x + 3 <= Len(t) /\ t[x] = Slash /\ t[x + 1] = Dot /\ t[x + 2] = Dot
                  /\ t[x + 3] \in Separators)

Ended(t) == ~ EndsOnSlash(t) /\ ~ EndsOnDot(t) /\ ~ EndsOnDots(t)

\* What o ends on is what stands in front of i in t, and not an element of dots.
Follows(t, o, i) ==
    /\ EndsOnSlash(o) => /\ i \in 1 .. Len(t) /\ t[i] = Slash
                         /\ ~ HasDot(t, i) /\ ~ HasDots(t, i)
    /\ EndsOnDot(o)  => /\ i - 1 \in 1 .. Len(t) /\ t[i - 1] = Slash /\ t[i] = Dot
                        /\ ~ HasDot(t, i - 1) /\ ~ HasDots(t, i - 1)
    /\ EndsOnDots(o) => /\ i - 2 \in 1 .. Len(t) /\ t[i - 2] = Slash /\ t[i - 1] = Dot /\ t[i] = Dot
                        /\ ~ HasDots(t, i - 2)

\* What Reduced leaves of the first i bytes of t, with s bytes to pass over.
ReducedSoFar(t, o, s, i) ==
    /\ o \in Seq(Bytes) /\ Spaced(o) /\ Undotted(o) /\ Within(o, t)
    /\ InPath(o, Len(o)) <=> InPath(t, i)
    /\ s \in Nat
    /\ s > 0 => Ended(o) /\ i + s <= Len(t) /\ InPath(t, i + s)
    /\ InPath(t, i) => Follows(t, o, i)

\* A byte is left where it is.
LEMMA UndottedAppend ==
  ASSUME NEW o \in Seq(Bytes), NEW c \in Bytes, Undotted(o),
         c \in Separators /\ InPath(o, Len(o)) => ~ EndsOnDot(o) /\ ~ EndsOnDots(o)
  PROVE  Undotted(Append(o, c))
<1> DEFINE w == Append(o, c)
           l == Len(o)
           m == l + 1
<1>1. l \in Nat /\ Len(w) = m /\ w[m] = c /\ \A x \in 1 .. l : w[x] = o[x]
  BY LenProperties, AppendProperties
<1>2. /\ \A x \in 0 .. l : InPath(w, x) <=> InPath(o, x)
  BY InPathAppend
<1>3. \A x \in 0 .. l - 1 : InPath(o, x + 1) <=> InPath(o, x) /\ o[x + 1] \notin {Query, Hash}
  BY InPathNext
<1>4. \A x \in 1 .. l :
        InPath(o, x) =>
            /\ ~ (x + 2 <= l /\ o[x] = Slash /\ o[x + 1] = Dot /\ o[x + 2] \in Separators)
            /\ ~ (x + 3 <= l /\ o[x] = Slash /\ o[x + 1] = Dot /\ o[x + 2] = Dot
                  /\ o[x + 3] \in Separators)
  BY Zenon DEF Undotted
<1>5. c \in Separators /\ InPath(o, l) =>
        /\ ~ (l >= 2 /\ o[l - 1] = Slash /\ o[l] = Dot)
        /\ ~ (l >= 3 /\ o[l - 2] = Slash /\ o[l - 1] = Dot /\ o[l] = Dot)
  BY Zenon DEF EndsOnDot, EndsOnDots
<1>6. Dot \notin {Query, Hash}
  BY DEF Dot, Query, Hash
<1> HIDE DEF w, l
<1>7. ASSUME NEW x \in 1 .. m, InPath(w, x), x + 2 <= m, w[x] = Slash, w[x + 1] = Dot,
             w[x + 2] \in Separators
      PROVE  FALSE
  <2>1. x \in 1 .. l /\ x + 1 \in 1 .. l /\ x \in 0 .. l - 1 /\ x \in 0 .. l
    BY <1>1, <1>7
  <2>2. InPath(o, x) /\ o[x] = Slash /\ o[x + 1] = Dot
    BY <1>1, <1>2, <1>7, <2>1
  <2>3. CASE x + 2 <= l
    <3>1. w[x + 2] = o[x + 2]
      BY <1>1, <2>1, <2>3
    <3> QED
      BY <1>4, <1>7, <2>1, <2>2, <2>3, <3>1
  <2>4. CASE ~ (x + 2 <= l)
    <3>1. x + 2 = m /\ x = l - 1 /\ x + 1 = l /\ l >= 2
      BY <1>1, <1>7, <2>1, <2>4
    <3> HIDE DEF m
    <3>2. InPath(o, l)
      BY <1>3, <1>6, <2>1, <2>2, <3>1
    <3>3. c \in Separators
      BY <1>1, <1>7, <3>1
    <3> QED
      BY <1>5, <2>2, <3>1, <3>2, <3>3
  <2> QED
    BY <2>3, <2>4
<1>8. ASSUME NEW x \in 1 .. m, InPath(w, x), x + 3 <= m, w[x] = Slash, w[x + 1] = Dot,
             w[x + 2] = Dot, w[x + 3] \in Separators
      PROVE  FALSE
  <2>1. /\ x \in 1 .. l /\ x + 1 \in 1 .. l /\ x + 2 \in 1 .. l /\ x \in 0 .. l - 1
        /\ x + 1 \in 0 .. l - 1 /\ x \in 0 .. l /\ (x + 1) + 1 = x + 2
    BY <1>1, <1>8
  <2>2. InPath(o, x) /\ o[x] = Slash /\ o[x + 1] = Dot /\ o[x + 2] = Dot
    BY <1>1, <1>2, <1>8, <2>1
  <2>3. CASE x + 3 <= l
    <3>1. w[x + 3] = o[x + 3]
      BY <1>1, <2>1, <2>3
    <3> QED
      BY <1>4, <1>8, <2>1, <2>2, <2>3, <3>1
  <2>4. CASE ~ (x + 3 <= l)
    <3>1. x + 3 = m /\ x = l - 2 /\ x + 1 = l - 1 /\ x + 2 = l /\ l >= 3
      BY <1>1, <1>8, <2>1, <2>4
    <3> HIDE DEF m
    <3>2. InPath(o, x + 1)
      BY <1>3, <1>6, <2>1, <2>2
    <3>3. InPath(o, x + 2)
      BY <1>3, <1>6, <2>1, <2>2, <3>2
    <3>4. InPath(o, l)
      BY <3>1, <3>3
    <3>5. c \in Separators
      BY <1>1, <1>8, <3>1
    <3> QED
      BY <1>5, <2>2, <3>1, <3>4, <3>5
  <2> QED
    BY <2>3, <2>4
<1> QED
  BY <1>1, <1>7, <1>8 DEF Undotted, w

\* The element that is taken off leaves the end of another, or nothing.
LEMMA PoppedEnds ==
  ASSUME NEW t \in Seq(Bytes), NEW o \in Seq(Bytes), Spaced(o), Undotted(o), Within(o, t),
         InPath(o, Len(o))
  PROVE  LET q == Popped(o)
         IN /\ q \in Seq(Bytes) /\ Spaced(q) /\ Undotted(q) /\ Within(q, t)
            /\ InPath(q, Len(q)) /\ Ended(q)
<1> DEFINE l == Len(o)
           q == Popped(o)
<1>1. PICK m \in 0 .. l : q = Piece(o, 0, m) /\ (m = 0 \/ o[m + 1] = Slash) /\ (m = l => o = <<>>)
  BY PoppedIs
<1>2. l \in Nat /\ 0 \in 0 .. l /\ m \in 0 .. l /\ m - 0 = m /\ \A x \in 1 .. m : 0 + x = x
  BY LenProperties
<1>3. q \in Seq(Bytes) /\ Len(q) = m /\ \A x \in 1 .. m : q[x] = o[x]
  <2> DEFINE p == Piece(o, 0, m)
  <2>1. p \in Seq(Bytes) /\ Len(p) = m - 0 /\ \A x \in 1 .. m - 0 : p[x] = o[0 + x]
    BY <1>2, PieceType
  <2>2. q = p
    BY <1>1
  <2> HIDE DEF p, q
  <2> QED
    BY <1>2, <2>1, <2>2
<1>4. \A x \in 1 .. l : InPath(o, x)
  BY <1>2 DEF InPath
<1>5. /\ \A x \in 2 .. l : ~ (o[x - 1] = Slash /\ o[x] = Slash)
      /\ \A x \in 1 .. l :
            /\ ~ (x + 2 <= l /\ o[x] = Slash /\ o[x + 1] = Dot /\ o[x + 2] \in Separators)
            /\ ~ (x + 3 <= l /\ o[x] = Slash /\ o[x + 1] = Dot /\ o[x + 2] = Dot
                  /\ o[x + 3] \in Separators)
      /\ \A x \in 1 .. l : \E k \in 1 .. Len(t) : o[x] = t[k]
  <2>1. \A x \in 2 .. l : x \in 1 .. l
    BY <1>2
  <2> QED
    BY <1>4, <2>1, Zenon DEF Spaced, Undotted, Within
<1>6. \A x \in 1 .. l : o[x] \notin {Query, Hash}
  BY DEF InPath
<1> HIDE DEF q, l
<1>7. InPath(q, m)
  BY <1>2, <1>3, <1>6 DEF InPath
<1>8. Spaced(q)
  <2>1. \A x \in 2 .. m : x \in 2 .. l /\ q[x] = o[x] /\ q[x - 1] = o[x - 1]
    BY <1>2, <1>3
  <2> QED
    BY <1>3, <1>5, <2>1, Zenon DEF Spaced
<1>9. Undotted(q)
  <2>1. ASSUME NEW x \in 1 .. m, x + 2 <= m, q[x] = Slash, q[x + 1] = Dot, q[x + 2] \in Separators
        PROVE  FALSE
    <3>1. x \in 1 .. l /\ x + 2 <= l /\ q[x] = o[x] /\ q[x + 1] = o[x + 1] /\ q[x + 2] = o[x + 2]
      BY <1>2, <1>3, <2>1
    <3> QED
      BY <1>5, <2>1, <3>1
  <2>2. ASSUME NEW x \in 1 .. m, x + 3 <= m, q[x] = Slash, q[x + 1] = Dot, q[x + 2] = Dot,
               q[x + 3] \in Separators
        PROVE  FALSE
    <3>1. x \in 1 .. l /\ x + 3 <= l /\ q[x] = o[x] /\ q[x + 1] = o[x + 1] /\ q[x + 2] = o[x + 2]
          /\ q[x + 3] = o[x + 3]
      BY <1>2, <1>3, <2>2
    <3> QED
      BY <1>5, <2>2, <3>1
  <2> QED
    BY <1>3, <2>1, <2>2 DEF Undotted
<1>10. Within(q, t)
  <2>1. \A x \in 1 .. m : x \in 1 .. l
    BY <1>2
  <2> QED
    BY <1>3, <1>5, <2>1, Zenon DEF Within
<1>11. Ended(q)
  <2>1. CASE m = 0
    BY <1>3, <2>1 DEF Ended, EndsOnSlash, EndsOnDot, EndsOnDots
  <2>2. CASE m # 0
    <3>1. m # l
      <4>1. m = l => l = 0
        BY <1>1 DEF l
      <4> QED
        BY <2>2, <4>1
    <3> DEFINE j == m + 1
    <3>2. o[j] = Slash /\ Slash \in Separators
      BY <1>1, <2>2 DEF Separators
    <3>3. j \in 2 .. l /\ j - 1 = m /\ m \in 1 .. m /\ m \in 1 .. l
      BY <1>2, <2>2, <3>1
    <3>4. ~ EndsOnSlash(q)
      <4> HIDE DEF j
      <4> QED
        BY <1>3, <1>5, <3>2, <3>3 DEF EndsOnSlash
    <3>5. ~ EndsOnDot(q)
      <4> SUFFICES ASSUME m >= 2, q[m - 1] = Slash, q[m] = Dot PROVE FALSE
        BY <1>3 DEF EndsOnDot
      <4> DEFINE x == m - 1
      <4>1. x \in 1 .. l /\ x \in 1 .. m /\ x + 1 = m /\ x + 2 = j /\ j <= l
        BY <1>2, <3>3
      <4> HIDE DEF x, j
      <4>2. o[x] = Slash /\ o[m] = Dot
        BY <1>3, <3>3, <4>1 DEF x
      <4> QED
        BY <1>5, <3>2, <4>1, <4>2
    <3>6. ~ EndsOnDots(q)
      <4> SUFFICES ASSUME m >= 3, q[m - 2] = Slash, q[m - 1] = Dot, q[m] = Dot PROVE FALSE
        BY <1>3 DEF EndsOnDots
      <4> DEFINE x == m - 2
                 y == m - 1
      <4>1. x \in 1 .. l /\ x \in 1 .. m /\ y \in 1 .. m /\ x + 1 = y /\ x + 2 = m /\ x + 3 = j /\ j <= l
        BY <1>2, <3>3
      <4> HIDE DEF x, y, j
      <4>2. o[x] = Slash /\ o[y] = Dot /\ o[m] = Dot
        BY <1>3, <3>3, <4>1 DEF x, y
      <4> QED
        BY <1>5, <3>2, <4>1, <4>2
    <3> QED
      BY <3>4, <3>5, <3>6 DEF Ended
  <2> QED
    BY <2>1, <2>2
<1> QED
  BY <1>3, <1>7, <1>8, <1>9, <1>10, <1>11 DEF q

\* The steps of Reduced, on a text without redundant slashes: a byte is left
\* where it is,
LEMMA StepKeeps ==
  ASSUME NEW t \in Seq(Bytes), Spaced(t), NEW i \in 0 .. Len(t) - 1, NEW o,
         ReducedSoFar(t, o, 0, i),
         InPath(t, i + 1) => ~ HasDot(t, i + 1) /\ ~ HasDots(t, i + 1)
  PROVE  ReducedSoFar(t, Append(o, t[i + 1]), 0, i + 1)
<1> DEFINE n == Len(t)
           j == i + 1
           c == t[j]
           w == Append(o, c)
           l == Len(o)
           m == l + 1
<1>1. /\ n \in Nat /\ j \in 1 .. n /\ j - 1 = i /\ i \in 0 .. n - 1 /\ (i \in 1 .. n => j \in 2 .. n)
      /\ i + 1 = j /\ i <= n /\ j \in 0 .. n
  BY LenProperties
<1>2. /\ o \in Seq(Bytes) /\ Spaced(o) /\ Undotted(o) /\ Within(o, t)
      /\ InPath(o, l) <=> InPath(t, i)
      /\ InPath(t, i) => Follows(t, o, i)
  BY DEF ReducedSoFar
<1>3. c \in Bytes
  BY <1>1, ElementOfSeq
<1>4. l \in Nat /\ w \in Seq(Bytes) /\ Len(w) = m /\ w[m] = c /\ \A x \in 1 .. l : w[x] = o[x]
  BY <1>2, <1>3, LenProperties, AppendProperties
<1>5. Within(w, t)
  BY <1>1, <1>2, WithinAppend
<1>6. InPath(w, m) <=> InPath(o, l) /\ c \notin {Query, Hash}
  BY <1>2, <1>3, InPathAppend
<1>7. InPath(t, j) <=> InPath(t, i) /\ c \notin {Query, Hash}
  BY InPathNext
<1>8. InPath(t, j) => ~ HasDot(t, j) /\ ~ HasDots(t, j)
  OBVIOUS
<1>9. /\ Slash \in Separators /\ Slash \notin {Query, Hash} /\ Dot \notin {Query, Hash}
      /\ Slash # Dot
  BY DEF Separators, Slash, Query, Hash, Dot
<1>10. \A x \in 2 .. n : t[x - 1] = Slash /\ t[x] = Slash => ~ InPath(t, x)
  BY DEF Spaced
<1> HIDE DEF n, j, c, w, l
<1>11. c = Slash /\ l > 0 /\ o[l] = Slash => ~ InPath(o, l)
  <2> SUFFICES ASSUME c = Slash, l > 0, o[l] = Slash, InPath(o, l) PROVE FALSE
    OBVIOUS
  <2>1. EndsOnSlash(o)
    BY <1>4 DEF EndsOnSlash, l
  <2>2. i \in 1 .. n /\ t[i] = Slash
    BY <1>2, <2>1 DEF Follows, n
  <2>3. ~ InPath(t, j)
    BY <1>1, <1>10, <2>2 DEF c
  <2> QED
    BY <1>2, <1>7, <1>9, <2>3
<1>12. Spaced(w)
  BY <1>2, <1>3, <1>11, SpacedAppend DEF w, l
<1>13. c \in Separators /\ InPath(o, l) => ~ EndsOnDot(o) /\ ~ EndsOnDots(o)
  <2> SUFFICES ASSUME c \in Separators, InPath(o, l) PROVE ~ EndsOnDot(o) /\ ~ EndsOnDots(o)
    OBVIOUS
  <2>0. Follows(t, o, i)
    BY <1>2
  <2>1. ASSUME EndsOnDot(o) PROVE FALSE
    <3> DEFINE x == i - 1
    <3>1. x \in 1 .. n /\ t[x] = Slash /\ t[i] = Dot /\ ~ HasDot(t, x)
      BY <2>0, <2>1 DEF Follows, n
    <3>2. x + 1 = i /\ x + 2 = j /\ i <= n
      BY <1>1, <3>1
    <3> HIDE DEF x
    <3>3. HasDot(t, x)
      BY <3>1, <3>2 DEF HasDot, c, n
    <3> QED
      BY <3>1, <3>3
  <2>2. ASSUME EndsOnDots(o) PROVE FALSE
    <3> DEFINE x == i - 2
    <3>1. x \in 1 .. n /\ t[x] = Slash /\ t[i - 1] = Dot /\ t[i] = Dot /\ ~ HasDots(t, x)
      BY <2>0, <2>2 DEF Follows, n
    <3>2. x + 1 = i - 1 /\ x + 2 = i /\ x + 3 = j /\ i <= n
      BY <1>1, <3>1
    <3> HIDE DEF x
    <3>3. HasDots(t, x)
      BY <3>1, <3>2 DEF HasDots, c, n
    <3> QED
      BY <3>1, <3>3
  <2> QED
    BY <2>1, <2>2
<1>14. Undotted(w)
  BY <1>2, <1>3, <1>13, UndottedAppend DEF w, l
<1>15. ASSUME InPath(t, j) PROVE Follows(t, w, j)
  <2>0. InPath(t, i) /\ Follows(t, o, i) /\ ~ HasDot(t, j) /\ ~ HasDots(t, j)
    BY <1>2, <1>7, <1>8, <1>15
  <2>1. EndsOnSlash(w) => j \in 1 .. n /\ t[j] = Slash /\ ~ HasDot(t, j) /\ ~ HasDots(t, j)
    BY <1>1, <1>4, <2>0 DEF EndsOnSlash, c
  <2>2. EndsOnDot(w) => /\ j - 1 \in 1 .. n /\ t[j - 1] = Slash /\ t[j] = Dot
                        /\ ~ HasDot(t, j - 1) /\ ~ HasDots(t, j - 1)
    <3> SUFFICES ASSUME m >= 2, w[m - 1] = Slash, w[m] = Dot
                 PROVE  /\ i \in 1 .. n /\ t[i] = Slash /\ t[j] = Dot
                        /\ ~ HasDot(t, i) /\ ~ HasDots(t, i)
      BY <1>1, <1>4 DEF EndsOnDot
    <3>1. m - 1 = l /\ l >= 1 /\ l \in 1 .. l
      BY <1>4
    <3>2. EndsOnSlash(o)
      BY <1>4, <3>1 DEF EndsOnSlash, l
    <3> QED
      BY <1>4, <2>0, <3>2 DEF Follows, n, c
  <2>3. EndsOnDots(w) => /\ j - 2 \in 1 .. n /\ t[j - 2] = Slash /\ t[j - 1] = Dot /\ t[j] = Dot
                         /\ ~ HasDots(t, j - 2)
    <3> SUFFICES ASSUME m >= 3, w[m - 2] = Slash, w[m - 1] = Dot, w[m] = Dot
                 PROVE  /\ j - 2 \in 1 .. n /\ t[j - 2] = Slash /\ t[j - 1] = Dot /\ t[j] = Dot
                        /\ ~ HasDots(t, j - 2)
      BY <1>4 DEF EndsOnDots
    <3>1. m - 1 = l /\ m - 2 = l - 1 /\ l >= 2 /\ l \in 1 .. l /\ l - 1 \in 1 .. l
      BY <1>4
    <3> HIDE DEF m
    <3>2. EndsOnDot(o)
      BY <1>4, <3>1 DEF EndsOnDot, l
    <3>3. i - 1 \in 1 .. n /\ t[i - 1] = Slash /\ t[i] = Dot /\ ~ HasDots(t, i - 1)
      BY <2>0, <3>2 DEF Follows, n
    <3>4. j - 2 = i - 1
      BY <1>1
    <3> QED
      BY <1>1, <1>4, <3>3, <3>4 DEF c
  <2> QED
    BY <2>1, <2>2, <2>3, Zenon DEF Follows, n
<1>16. InPath(w, Len(w)) <=> InPath(t, j)
  BY <1>2, <1>4, <1>6, <1>7
<1>17. 0 \in Nat /\ ~ (0 > 0)
  OBVIOUS
<1>18. ReducedSoFar(t, w, 0, j)
  BY <1>4, <1>5, <1>12, <1>14, <1>15, <1>16, <1>17, Zenon DEF ReducedSoFar
<1> QED
  BY <1>18 DEF w, c, j

\* What is in the path begins in it.
LEMMA InPathBefore ==
  ASSUME NEW t, NEW x \in Int, NEW y \in Int, x <= y, InPath(t, y)
  PROVE  InPath(t, x)
BY DEF InPath

\* nothing of what ends on no element of dots is to follow,
LEMMA EndedFollows ==
  ASSUME NEW t, NEW o, NEW i, Ended(o)
  PROVE  Follows(t, o, i)
BY DEF Ended, Follows

\* a byte is passed over,
LEMMA StepSkips ==
  ASSUME NEW t \in Seq(Bytes), NEW i \in 0 .. Len(t) - 1, NEW o, NEW s, s > 0,
         ReducedSoFar(t, o, s, i)
  PROVE  ReducedSoFar(t, o, s - 1, i + 1)
<1> DEFINE n == Len(t)
           j == i + 1
           r == s - 1
<1>1. /\ o \in Seq(Bytes) /\ Spaced(o) /\ Undotted(o) /\ Within(o, t)
      /\ InPath(o, Len(o)) <=> InPath(t, i)
      /\ s \in Nat
      /\ Ended(o) /\ i + s <= n /\ InPath(t, i + s)
  BY DEF ReducedSoFar
<1>2. n \in Nat
  BY LenProperties
<1> HIDE DEF n
<1>3. /\ i \in Int /\ j \in Int /\ i + s \in Int /\ i <= i + s /\ j <= i + s /\ r \in Nat /\ j + r = i + s
  BY <1>1, <1>2
<1>4. InPath(t, i) /\ InPath(t, j)
  BY <1>1, <1>3, InPathBefore
<1>5. Follows(t, o, j)
  BY <1>1, EndedFollows
<1> HIDE DEF r, j
<1>6. j + r <= n /\ InPath(t, j + r)
  BY <1>1, <1>3
<1>7. ReducedSoFar(t, o, r, j)
  BY <1>1, <1>3, <1>4, <1>5, <1>6, Zenon DEF ReducedSoFar, n
<1> QED
  BY <1>7 DEF r, j

\* an element of one dot is passed over,
LEMMA StepStays ==
  ASSUME NEW t \in Seq(Bytes), Spaced(t), NEW i \in 0 .. Len(t) - 1, NEW o,
         ReducedSoFar(t, o, 0, i), HasDot(t, i + 1), InPath(t, (i + 1) + 1)
  PROVE  ReducedSoFar(t, o, 1, i + 1)
<1> DEFINE n == Len(t)
           j == i + 1
           k == j + 1
<1>1. /\ o \in Seq(Bytes) /\ Spaced(o) /\ Undotted(o) /\ Within(o, t)
      /\ InPath(o, Len(o)) <=> InPath(t, i)
      /\ InPath(t, i) => Follows(t, o, i)
  BY DEF ReducedSoFar
<1>2. t[j] = Slash /\ k <= n /\ n \in Nat
  BY LenProperties DEF HasDot
<1>3. i \in Int /\ j \in Int /\ k \in Int /\ i <= k /\ j <= k /\ i + 1 = j /\ j - 1 = i
      /\ (i \in 1 .. n => j \in 2 .. n) /\ i <= n
  BY <1>2
<1>4. InPath(t, i) /\ InPath(t, j)
  BY <1>3, InPathBefore
<1>5. Follows(t, o, i)
  BY <1>1, <1>4
<1>6. \A x \in 2 .. n : t[x - 1] = Slash /\ t[x] = Slash => ~ InPath(t, x)
  BY DEF Spaced
<1>7. Slash \in Separators
  BY DEF Separators
<1> HIDE DEF n, j
<1>8. ~ EndsOnSlash(o)
  BY <1>2, <1>3, <1>4, <1>5, <1>6 DEF Follows, n
<1>9. ~ EndsOnDot(o)
  <2> SUFFICES ASSUME EndsOnDot(o) PROVE FALSE
    OBVIOUS
  <2> DEFINE x == i - 1
  <2>1. x \in 1 .. n /\ t[x] = Slash /\ t[i] = Dot /\ ~ HasDot(t, x)
    BY <1>5 DEF Follows, n
  <2>2. x + 1 = i /\ x + 2 = j /\ i <= n
    BY <1>3, <2>1
  <2> HIDE DEF x
  <2> QED
    BY <1>2, <1>7, <2>1, <2>2 DEF HasDot, n
<1>10. ~ EndsOnDots(o)
  <2> SUFFICES ASSUME EndsOnDots(o) PROVE FALSE
    OBVIOUS
  <2> DEFINE x == i - 2
  <2>1. x \in 1 .. n /\ t[x] = Slash /\ t[i - 1] = Dot /\ t[i] = Dot /\ ~ HasDots(t, x)
    BY <1>5 DEF Follows, n
  <2>2. x + 1 = i - 1 /\ x + 2 = i /\ x + 3 = j /\ i <= n
    BY <1>3, <2>1
  <2> HIDE DEF x
  <2> QED
    BY <1>2, <1>7, <2>1, <2>2 DEF HasDots, n
<1>11. Ended(o) /\ Follows(t, o, j)
  BY <1>8, <1>9, <1>10, EndedFollows DEF Ended
<1>12. 1 \in Nat /\ k = j + 1 /\ InPath(t, k)
  BY DEF j
<1> HIDE DEF k
<1>13. ReducedSoFar(t, o, 1, j)
  BY <1>1, <1>2, <1>4, <1>11, <1>12, Zenon DEF ReducedSoFar, n
<1> QED
  BY <1>13 DEF j

\* and an element of two takes another along.
LEMMA StepPops ==
  ASSUME NEW t \in Seq(Bytes), NEW i \in 0 .. Len(t) - 1, NEW o,
         ReducedSoFar(t, o, 0, i), HasDots(t, i + 1), InPath(t, (i + 1) + 2)
  PROVE  ReducedSoFar(t, Popped(o), 2, i + 1)
<1> DEFINE n == Len(t)
           j == i + 1
           k == j + 2
           q == Popped(o)
<1>1. /\ o \in Seq(Bytes) /\ Spaced(o) /\ Undotted(o) /\ Within(o, t)
      /\ InPath(o, Len(o)) <=> InPath(t, i)
  BY DEF ReducedSoFar
<1>2. k <= n /\ n \in Nat
  BY LenProperties DEF HasDots
<1>3. i \in Int /\ j \in Int /\ k \in Int /\ i <= k /\ j <= k
  BY <1>2
<1>4. InPath(t, i) /\ InPath(t, j)
  BY <1>3, InPathBefore
<1>5. q \in Seq(Bytes) /\ Spaced(q) /\ Undotted(q) /\ Within(q, t) /\ InPath(q, Len(q)) /\ Ended(q)
  BY <1>1, <1>4, PoppedEnds
<1> HIDE DEF q
<1>6. Follows(t, q, j)
  BY <1>5, EndedFollows
<1>7. 2 \in Nat /\ k = j + 2 /\ InPath(t, k)
  OBVIOUS
<1> HIDE DEF j, k, n
<1>8. ReducedSoFar(t, q, 2, j)
  BY <1>2, <1>4, <1>5, <1>6, <1>7, Zenon DEF ReducedSoFar, n
<1> QED
  BY <1>8 DEF q, j

\* So is what they leave on the way.
LEMMA ReducedIs ==
  ASSUME NEW t \in Seq(Bytes), Spaced(t)
  PROVE  \A i \in 0 .. Len(t) : ReducedSoFar(t, Reduced(t)[i].out, Reduced(t)[i].skip, i)
<1> DEFINE n == Len(t)
           acc == Reduced(t)
           S == {i \in Nat : ReducedSoFar(t, acc[i].out, acc[i].skip, i)}
<1>1. n \in Nat
  BY LenProperties
<1>2. \A i \in 0 .. n : acc[i] = ReducedStep(t, acc, i)
  BY <1>1, ReducedEquation
<1> HIDE DEF acc, n
<1>3. 0 \in S
  <2>1. acc[0] = [out |-> <<>>, skip |-> 0]
    <3>1. 0 \in 0 .. n
      BY <1>1
    <3> QED
      BY <1>2, <3>1, Zenon DEF ReducedStep
  <2>2. ReducedSoFar(t, <<>>, 0, 0)
    <3>1. <<>> \in Seq(Bytes) /\ Len(<<>>) = 0
      OBVIOUS
    <3> QED
      BY <3>1 DEF ReducedSoFar, Spaced, Undotted, Within, InPath, Follows, EndsOnSlash,
                  EndsOnDot, EndsOnDots
  <2>3. acc[0].out = <<>> /\ acc[0].skip = 0
    BY <2>1
  <2> QED
    BY <2>2, <2>3
<1>4. ASSUME NEW i \in 0 .. n - 1, i \in S PROVE i + 1 \in S
  <2> DEFINE j == i + 1
             o == acc[i].out
             s == acc[i].skip
             w == Append(o, t[j])
             q == Popped(o)
             up == Holds(t, j, <<Dot, Dot>>)
             here == Holds(t, j, <<Dot>>)
  <2>1. j \in 0 .. n /\ j # 0 /\ j - 1 = i /\ j \in Nat /\ j \in 1 .. n
    BY <1>1
  <2>2. acc[j] = IF s > 0 THEN [out |-> o, skip |-> s - 1]
                 ELSE IF up THEN [out |-> q, skip |-> 2]
                 ELSE IF here THEN [out |-> o, skip |-> 1]
                 ELSE [out |-> w, skip |-> 0]
    BY <1>2, <2>1 DEF ReducedStep
  <2>3. ReducedSoFar(t, o, s, i) /\ s \in Nat
    BY <1>4 DEF ReducedSoFar
  <2>4. /\ here <=> InPath(t, j) /\ HasDot(t, j)
        /\ up <=> InPath(t, j) /\ HasDots(t, j)
        /\ here => InPath(t, j + 1)
        /\ up => InPath(t, j + 2)
    BY <2>1, HoldsDot DEF n
  <2>5. i \in 0 .. Len(t) - 1
    BY DEF n
  <2>6. ~ (s > 0) => s = 0
    BY <2>3
  <2> HIDE DEF o, s, up, here
  <2>7. CASE s > 0
    <3>1. ReducedSoFar(t, o, s - 1, j)
      BY <2>3, <2>5, <2>7, StepSkips
    <3>2. acc[j].out = o /\ acc[j].skip = s - 1
      BY <2>2, <2>7
    <3> QED
      BY <2>1, <3>1, <3>2
  <2>8. CASE ~ (s > 0) /\ up
    <3>1. ReducedSoFar(t, q, 2, j)
      BY <2>3, <2>4, <2>5, <2>6, <2>8, StepPops
    <3>2. acc[j].out = q /\ acc[j].skip = 2
      BY <2>2, <2>8
    <3> QED
      BY <2>1, <3>1, <3>2
  <2>9. CASE ~ (s > 0) /\ ~ up /\ here
    <3>1. ReducedSoFar(t, o, 1, j)
      BY <2>3, <2>4, <2>5, <2>6, <2>9, StepStays
    <3>2. acc[j].out = o /\ acc[j].skip = 1
      BY <2>2, <2>9
    <3> QED
      BY <2>1, <3>1, <3>2
  <2>10. CASE ~ (s > 0) /\ ~ up /\ ~ here
    <3>1. ReducedSoFar(t, w, 0, j)
      BY <2>3, <2>4, <2>5, <2>6, <2>10, StepKeeps
    <3>2. acc[j].out = w /\ acc[j].skip = 0
      BY <2>2, <2>10
    <3> QED
      BY <2>1, <3>1, <3>2
  <2> QED
    BY <2>7, <2>8, <2>9, <2>10
<1>5. \A i \in 0 .. n : i \in S
  <2> HIDE DEF S
  <2> QED
    BY <1>1, <1>3, <1>4, UpTo
<1> QED
  BY <1>5 DEF acc, n

\* Resolve leaves no element of dots, and only bytes that were there.
LEMMA ResolveIs ==
  ASSUME NEW t \in Seq(Bytes), Spaced(t)
  PROVE  LET r == Resolve(t) IN r \in Seq(Bytes) /\ Spaced(r) /\ NoDots(r) /\ Within(r, t)
<1> DEFINE n == Len(t)
           r == Resolve(t)
           l == Len(r)
<1>1. n \in Nat /\ n \in 0 .. n
  BY LenProperties
<1>5. ReducedSoFar(t, r, Reduced(t)[n].skip, n)
  BY <1>1, ReducedIs, Zenon DEF Resolve, n
<1>6. /\ r \in Seq(Bytes) /\ Spaced(r) /\ Undotted(r) /\ Within(r, t)
      /\ InPath(r, l) => Follows(t, r, n)
  BY <1>5, Zenon DEF ReducedSoFar
<1>7. l \in Nat
  BY <1>6, LenProperties
<1> HIDE DEF r, n
<1>8. \A x \in 0 .. l - 1 : InPath(r, x + 1) <=> InPath(r, x) /\ r[x + 1] \notin {Query, Hash}
  BY <1>6, InPathNext
<1>9. Dot \notin {Query, Hash}
  BY DEF Dot, Query, Hash
<1> HIDE DEF l
<1>10. ASSUME NEW x \in 1 .. l, InPath(r, x), HasDot(r, x) PROVE FALSE
  <2>1. /\ x + 1 <= l /\ r[x] = Slash /\ r[x + 1] = Dot
        /\ x + 1 = l \/ r[x + 2] \in Separators
    BY <1>10, Zenon DEF HasDot, l
  <2>2. x + 1 = l \/ x + 2 <= l
    BY <1>7, <2>1
  <2>3. CASE x + 1 = l
    <3>1. x = l - 1 /\ l >= 2 /\ x \in 0 .. l - 1
      BY <1>7, <2>3
    <3>2. EndsOnDot(r)
      BY <2>1, <2>3, <3>1 DEF EndsOnDot, l
    <3>3. InPath(r, l)
      BY <1>8, <1>9, <1>10, <2>1, <2>3, <3>1
    <3>4. n - 1 \in 1 .. n /\ t[n - 1] = Slash /\ t[n] = Dot /\ ~ HasDot(t, n - 1)
      BY <1>6, <3>2, <3>3 DEF Follows, n
    <3> DEFINE y == n - 1
    <3>5. y + 1 = n /\ y + 1 <= n
      BY <1>1
    <3> HIDE DEF y
    <3>6. t[y] = Slash /\ t[n] = Dot /\ ~ HasDot(t, y)
      BY <3>4 DEF y
    <3> QED
      BY <3>5, <3>6 DEF HasDot, n
  <2>4. CASE x + 1 # l
    BY <1>6, <1>10, <2>1, <2>2, <2>4 DEF Undotted, l
  <2> QED
    BY <2>3, <2>4
<1>11. ASSUME NEW x \in 1 .. l, InPath(r, x), HasDots(r, x) PROVE FALSE
  <2>1. /\ x + 2 <= l /\ r[x] = Slash /\ r[x + 1] = Dot /\ r[x + 2] = Dot
        /\ x + 2 = l \/ r[x + 3] \in Separators
    BY <1>11, Zenon DEF HasDots, l
  <2>2. x + 2 = l \/ x + 3 <= l
    BY <1>7, <2>1
  <2>3. CASE x + 2 = l
    <3>1. /\ x = l - 2 /\ x + 1 = l - 1 /\ l >= 3 /\ x \in 0 .. l - 1 /\ x + 1 \in 0 .. l - 1
          /\ (x + 1) + 1 = l
      BY <1>7, <2>3
    <3>2. EndsOnDots(r)
      BY <2>1, <2>3, <3>1 DEF EndsOnDots, l
    <3>3. InPath(r, l)
      <4>1. InPath(r, x + 1)
        BY <1>8, <1>9, <1>11, <2>1, <3>1
      <4> QED
        BY <1>8, <1>9, <2>1, <2>3, <3>1, <4>1
    <3>4. n - 2 \in 1 .. n /\ t[n - 2] = Slash /\ t[n - 1] = Dot /\ t[n] = Dot /\ ~ HasDots(t, n - 2)
      BY <1>6, <3>2, <3>3 DEF Follows, n
    <3> DEFINE y == n - 2
    <3>5. y + 1 = n - 1 /\ y + 2 = n /\ y + 2 <= n
      BY <1>1
    <3> HIDE DEF y
    <3>6. t[y] = Slash /\ t[n - 1] = Dot /\ t[n] = Dot /\ ~ HasDots(t, y)
      BY <3>4 DEF y
    <3> QED
      BY <3>5, <3>6 DEF HasDots, n
  <2>4. CASE x + 2 # l
    BY <1>6, <1>11, <2>1, <2>2, <2>4 DEF Undotted, l
  <2> QED
    BY <2>3, <2>4
<1>12. NoDots(r)
  BY <1>10, <1>11, Zenon DEF NoDots, l
<1> QED
  BY <1>6, <1>12 DEF r

\* Of a text in which no escape may go, Unescape leaves everything.
LEMMA UnescapeFixed ==
  ASSUME NEW t \in Seq(Bytes), NEW r \in Seq(Bytes), Within(r, Unescape(t))
  PROVE  Unescape(r) = r
<1> DEFINE v == Unescape(t)
           w == Unescape(r)
           E(b) == IF b \in 256 .. 511 /\ Safe(b - 256) THEN b - 256 ELSE b
<1>1. \A b \in Bytes : E(E(b)) = E(b)
  <2> SUFFICES ASSUME NEW b \in Bytes PROVE E(E(b)) = E(b)
    OBVIOUS
  <2>1. CASE b \in 256 .. 511 /\ Safe(b - 256)
    <3>1. b - 256 \notin 256 .. 511
      BY <2>1
    <3>2. E(b) = b - 256
      BY <2>1
    <3> QED
      BY <3>1, <3>2
  <2>2. CASE ~ (b \in 256 .. 511 /\ Safe(b - 256))
    <3>1. E(b) = b
      BY <2>2
    <3> QED
      BY <3>1
  <2> QED
    BY <2>1, <2>2
<1>2. Len(t) \in Nat /\ Len(v) = Len(t) /\ \A k \in 1 .. Len(t) : v[k] = E(t[k]) /\ t[k] \in Bytes
  BY UnescapeType, LenProperties, ElementOfSeq
<1>3. w \in Seq(Bytes) /\ Len(w) = Len(r) /\ \A x \in 1 .. Len(r) : w[x] = E(r[x])
  BY UnescapeType
<1>4. \A x \in 1 .. Len(r) : \E k \in 1 .. Len(v) : r[x] = v[k]
  BY DEF Within
<1> HIDE DEF v, w, E
<1>5. ASSUME NEW x \in 1 .. Len(w) PROVE w[x] = r[x]
  <2>1. PICK k \in 1 .. Len(t) : r[x] = v[k]
    BY <1>2, <1>3, <1>4
  <2>2. r[x] = E(t[k]) /\ t[k] \in Bytes
    BY <1>2, <2>1
  <2> QED
    BY <1>1, <1>3, <2>2
<1>6. w = r
  BY <1>3, <1>5, SeqEqual
<1> QED
  BY <1>6 DEF w

\* What is canonical stays what it is, and has only bytes of the text, with
\* escapes or without.
LEMMA CanonicalFixed ==
  ASSUME NEW t \in Seq(Bytes)
  PROVE  LET r == Canonical(t)
         IN /\ r \in Seq(Bytes) /\ Canonical(r) = r /\ Spaced(r) /\ NoDots(r)
            /\ (\A i \in 1 .. Len(t) : t[i] # BadEsc) => \A i \in 1 .. Len(r) : r[i] # BadEsc
<1> DEFINE v == Unescape(t)
           c == Collapse(v)
           r == Resolve(c)
<1>0. \A b \in 256 .. 511 : b - 256 # BadEsc
  BY DEF BadEsc
<1>1. /\ v \in Seq(Bytes) /\ Len(v) = Len(t)
      /\ \A i \in 1 .. Len(t) : v[i] = IF t[i] \in 256 .. 511 /\ Safe(t[i] - 256)
                                       THEN t[i] - 256 ELSE t[i]
  BY UnescapeType
<1> HIDE DEF v
<1>2. c \in Seq(Bytes) /\ Spaced(c) /\ Within(c, v)
  BY <1>1, CollapseIs
<1> HIDE DEF c
<1>3. r \in Seq(Bytes) /\ Spaced(r) /\ NoDots(r) /\ Within(r, c)
  BY <1>2, ResolveIs
<1>4. r = Canonical(t)
  BY Zenon DEF Canonical, r, c, v
<1> HIDE DEF r
<1>5. Within(r, v)
  BY <1>2, <1>3 DEF Within
<1>6. Unescape(r) = r
  BY <1>3, <1>5, UnescapeFixed DEF v
<1>7. Canonical(r) = r
  <2>1. Collapse(r) = r /\ Resolve(r) = r
    BY <1>3, CollapseFixed, ResolveFixed
  <2> QED
    BY <1>6, <2>1, Zenon DEF Canonical
<1>8. ASSUME \A i \in 1 .. Len(t) : t[i] # BadEsc, NEW i \in 1 .. Len(r)
      PROVE  r[i] # BadEsc
  <2>1. \E k \in 1 .. Len(v) : r[i] = v[k]
    BY <1>5, <1>8, Zenon DEF Within
  <2>2. PICK k \in 1 .. Len(t) : r[i] = v[k]
    <3>1. Len(v) = Len(t)
      BY <1>1
    <3> QED
      BY <2>1, <3>1, Zenon
  <2> QED
    BY <1>0, <1>1, <1>8, <2>2, ZenonT(40)
<1> QED
  BY <1>3, <1>4, <1>7, <1>8, Zenon

-----------------------------------------------------------------------------
(* What a path means. *)

\* One step of Entered.
EnteredStep(path, places, i) ==
    LET first == SubSeq(path, 1, FirstOf(path, 1, {Slash}) - 1)
    IN IF i = 0 THEN IF first = <<>> THEN << <<>> >> ELSE << <<>>, first >>
       ELSE LET was == places[i - 1]
                e == ElementAt(path, i)
            IN IF \/ path[i] # Slash \/ e = <<Slash, Dot>>
                  \/ e = <<Slash>> /\ i < Len(path)
               THEN was
               ELSE IF e # <<Slash, Dot, Dot>> THEN Append(was, Last(was) \o e)
               ELSE IF Len(was) > 1 THEN Front(was) ELSE was

\* The recursion of Entered ends: there is a function that takes these steps.
LEMMA EnteredEquation ==
  ASSUME NEW t, Len(t) \in Nat
  PROVE  \A i \in 0 .. Len(t) : Entered(t)[i] = EnteredStep(t, Entered(t), i)
<1> DEFINE n == Len(t)
           IsEntered(w, k) == w = [i \in 0 .. k |-> EnteredStep(t, w, i)]
<1>1. \E w : IsEntered(w, 0)
  <2> DEFINE w == [i \in 0 .. 0 |-> EnteredStep(t, <<>>, i)]
  <2>1. w = [i \in 0 .. 0 |-> EnteredStep(t, w, i)]
    BY DEF EnteredStep
  <2> QED
    BY <2>1
<1>2. ASSUME NEW k \in Nat, \E w : IsEntered(w, k)
      PROVE  \E w : IsEntered(w, k + 1)
  <2>1. PICK v : v = [i \in 0 .. k |-> EnteredStep(t, v, i)]
    BY <1>2
  <2> DEFINE w == [i \in 0 .. k + 1 |-> EnteredStep(t, v, i)]
  <2>2. \A i \in 0 .. k : w[i] = v[i]
    <3> SUFFICES ASSUME NEW i \in 0 .. k PROVE w[i] = v[i]
      OBVIOUS
    <3>1. w[i] = EnteredStep(t, v, i)
      OBVIOUS
    <3> QED
      BY <2>1, <3>1
  <2>3. \A i \in 0 .. k + 1 : EnteredStep(t, v, i) = EnteredStep(t, w, i)
    <3> SUFFICES ASSUME NEW i \in 0 .. k + 1
                 PROVE  EnteredStep(t, v, i) = EnteredStep(t, w, i)
      OBVIOUS
    <3>1. i # 0 => v[i - 1] = w[i - 1]
      <4>1. i # 0 => i - 1 \in 0 .. k
        OBVIOUS
      <4> HIDE DEF w
      <4> QED
        BY <2>2, <4>1
    <3> HIDE DEF w
    <3> QED
      BY <3>1 DEF EnteredStep
  <2>4. w = [i \in 0 .. k + 1 |-> EnteredStep(t, w, i)]
    <3>1. [i \in 0 .. k + 1 |-> EnteredStep(t, v, i)] = [i \in 0 .. k + 1 |-> EnteredStep(t, w, i)]
      <4> HIDE DEF w
      <4> QED
        BY <2>3, Zenon
    <3> QED
      BY <3>1
  <2> QED
    BY <2>4
<1>3. \E w : IsEntered(w, n)
  <2> DEFINE EnteredTo == {k \in Nat : \E w : IsEntered(w, k)}
  <2> HIDE DEF IsEntered
  <2>1. 0 \in EnteredTo /\ \A k \in 0 .. n - 1 : k \in EnteredTo => k + 1 \in EnteredTo
    BY <1>1, <1>2
  <2>2. \A k \in 0 .. n : k \in EnteredTo
    <3> HIDE DEF EnteredTo
    <3> QED
      BY <2>1, UpTo
  <2> QED
    BY <2>2
<1>4. Entered(t) = CHOOSE w : IsEntered(w, n)
  BY DEF Entered, EnteredStep
<1>5. IsEntered(Entered(t), n)
  <2> HIDE DEF IsEntered
  <2> QED
  BY <1>3, <1>4
<1> QED
  <2> DEFINE w == Entered(t)
  <2>1. w = [i \in 0 .. n |-> EnteredStep(t, w, i)]
    BY <1>5
  <2> HIDE DEF w
  <2> SUFFICES ASSUME NEW i \in 0 .. n PROVE w[i] = EnteredStep(t, w, i)
    BY DEF w
  <2>2. [j \in 0 .. n |-> EnteredStep(t, w, j)][i] = EnteredStep(t, w, i)
    OBVIOUS
  <2> QED
    BY <2>1, <2>2, Zenon


\* What an element e does, if it counts: it leads on, but for the dots.
EnteredBy(was, e) ==
    IF e = <<Slash, Dot>> THEN was
    ELSE IF e # <<Slash, Dot, Dot>> THEN Append(was, Last(was) \o e)
    ELSE IF Len(was) > 1 THEN Front(was) ELSE was

\* The path of a text is a text of its own, with the same elements.
LEMMA PathPiece ==
  ASSUME NEW t \in Seq(Bytes)
  PROVE  LET m == PathEnd(t) - 1
             p == Piece(t, 0, m)
         IN /\ m \in 0 .. Len(t) /\ p \in Seq(Bytes) /\ Len(p) = m
            /\ \A k \in 1 .. m : p[k] = t[k] /\ t[k] \notin {Query, Hash}
            /\ \A i \in 1 .. m + 1 : FirstOf(p, i, {Slash}) = FirstOf(t, i, Separators)
<1> DEFINE n == Len(t)
           m == PathEnd(t) - 1
           p == Piece(t, 0, m)
<1>1. n \in Nat /\ 1 \in 1 .. n + 1
  BY LenProperties
<1>2. /\ PathEnd(t) \in 1 .. n + 1
      /\ \A k \in 1 .. m : t[k] \notin {Query, Hash}
      /\ PathEnd(t) <= n => t[PathEnd(t)] \in {Query, Hash}
  BY <1>1, FirstOfIs DEF PathEnd
<1>3. m \in 0 .. n /\ m + 1 = PathEnd(t) /\ m - 0 = m /\ 0 \in 0 .. n /\ \A k \in 1 .. m : 0 + k = k
  BY <1>1, <1>2
<1>4. p \in Seq(Bytes) /\ Len(p) = m /\ \A k \in 1 .. m : p[k] = t[k]
  <2> HIDE DEF m
  <2>1. p \in Seq(Bytes) /\ Len(p) = m - 0 /\ \A k \in 1 .. m - 0 : p[k] = t[0 + k]
    BY <1>3, PieceType
  <2> QED
    BY <1>3, <2>1
<1>5. m + 1 <= n => t[m + 1] \in {Query, Hash}
  BY <1>2, <1>3
<1> HIDE DEF m, p, n
<1>6. ASSUME NEW i \in 1 .. m + 1
      PROVE  FirstOf(p, i, {Slash}) = FirstOf(t, i, Separators)
  <2> DEFINE x == FirstOf(p, i, {Slash})
             y == FirstOf(t, i, Separators)
  <2>1. i \in 1 .. n + 1
    BY <1>1, <1>3
  <2>2. /\ x \in i .. m + 1
        /\ \A k \in i .. x - 1 : p[k] # Slash
        /\ x <= m => p[x] = Slash
    <3>1. i \in 1 .. Len(p) + 1
      BY <1>4
    <3>2. /\ x \in i .. Len(p) + 1
          /\ \A k \in i .. x - 1 : p[k] \notin {Slash}
          /\ x <= Len(p) => p[x] \in {Slash}
      BY <1>4, <3>1, FirstOfIs
    <3> HIDE DEF x
    <3> QED
      BY <1>4, <3>2
  <2>3. /\ y \in i .. n + 1
        /\ \A k \in i .. y - 1 : t[k] \notin Separators
        /\ y <= n => t[y] \in Separators
    BY <2>1, FirstOfIs DEF n
  <2> HIDE DEF x, y
  <2>4. ~ (x < y)
    <3> SUFFICES ASSUME x < y PROVE FALSE
      OBVIOUS
    <3>1. x \in i .. y - 1 /\ x <= n /\ (x <= m => x \in 1 .. m) /\ (x <= m \/ x = m + 1)
      BY <1>1, <1>3, <2>1, <2>2, <2>3
    <3>2. t[x] \notin Separators
      BY <2>3, <3>1
    <3> QED
      BY <1>4, <1>5, <2>2, <3>1, <3>2 DEF Separators
  <2>5. ~ (y < x)
    <3> SUFFICES ASSUME y < x PROVE FALSE
      OBVIOUS
    <3>1. y \in i .. x - 1 /\ y <= n /\ y \in 1 .. m
      BY <1>1, <1>3, <2>1, <2>2, <2>3
    <3> QED
      BY <1>2, <1>4, <2>2, <2>3, <3>1 DEF Separators, m
  <2>6. x = y
    BY <1>1, <1>3, <2>1, <2>2, <2>3, <2>4, <2>5
  <2> QED
    BY <2>6 DEF x, y
<1> QED
  BY <1>2, <1>3, <1>4, <1>6 DEF m, p, n

\* Where the element that begins at i ends.
ElementEnd(t, i) == FirstOf(t, i + 1, Separators) - 1

\* It ends in front of a slash, or with the path.
LEMMA ElementEndIs ==
  ASSUME NEW t \in Seq(Bytes), NEW i \in 0 .. PathEnd(t) - 1
  PROVE  LET m == PathEnd(t) - 1
             e == ElementEnd(t, i)
         IN /\ e \in i .. m /\ m \in 0 .. Len(t)
            /\ FirstOf(Piece(t, 0, m), i + 1, {Slash}) = e + 1
            /\ \A k \in i + 1 .. e : t[k] # Slash
            /\ e < m => t[e + 1] = Slash
<1> DEFINE m == PathEnd(t) - 1
           e == ElementEnd(t, i)
           p == Piece(t, 0, m)
           j == i + 1
           x == FirstOf(p, j, {Slash})
<1>1. /\ m \in 0 .. Len(t) /\ p \in Seq(Bytes) /\ Len(p) = m
      /\ \A k \in 1 .. m : p[k] = t[k]
      /\ \A k \in 1 .. m + 1 : FirstOf(p, k, {Slash}) = FirstOf(t, k, Separators)
  BY PathPiece
<1>2. i \in 0 .. m /\ m \in Nat /\ j \in 1 .. m + 1
  BY <1>1, LenProperties
<1>3. x = FirstOf(t, j, Separators)
  BY <1>1, <1>2
<1>4. /\ x \in j .. m + 1
      /\ \A k \in j .. x - 1 : p[k] \notin {Slash}
      /\ x <= m => p[x] \in {Slash}
  <2> HIDE DEF x, m, p, j
  <2>1. j \in 1 .. Len(p) + 1
    BY <1>1, <1>2
  <2> QED
    BY <1>1, <2>1, FirstOfIs DEF x
<1>5. e = x - 1
  BY <1>3 DEF ElementEnd
<1> HIDE DEF e, x, p, m
<1>6. e \in i .. m /\ x = e + 1
  BY <1>2, <1>4, <1>5
<1>7. \A k \in j .. e : t[k] # Slash
  <2> SUFFICES ASSUME NEW k \in j .. e PROVE t[k] # Slash
    OBVIOUS
  <2>1. k \in j .. x - 1 /\ k \in 1 .. m
    BY <1>2, <1>6
  <2> QED
    BY <1>1, <1>4, <2>1
<1>8. e < m => t[e + 1] = Slash
  <2> SUFFICES ASSUME e < m PROVE t[x] = Slash
    BY <1>6
  <2>1. x \in 1 .. m
    BY <1>2, <1>6
  <2> QED
    BY <1>1, <1>4, <2>1
<1> QED
  BY <1>1, <1>6, <1>7, <1>8 DEF e, x, p, m

\* An element is a slash alone if it ends where it begins.
LEMMA ElementIsSlash ==
  ASSUME NEW t \in Seq(Bytes), NEW i \in 1 .. PathEnd(t) - 1, t[i] = Slash
  PROVE  Piece(t, i - 1, ElementEnd(t, i)) = <<Slash>> <=> ElementEnd(t, i) = i
<1> DEFINE m == PathEnd(t) - 1
           e == ElementEnd(t, i)
           h == i - 1
           q == Piece(t, h, e)
<1>1. m \in 0 .. Len(t) /\ e \in i .. m
  <2>1. i \in 0 .. m
    OBVIOUS
  <2> QED
    BY <2>1, ElementEndIs
<1>2. Len(t) \in Nat /\ h \in 0 .. Len(t) - 1 /\ h + 1 = i /\ h \in 0 .. Len(t) /\ e \in h .. Len(t)
      /\ e - h >= 1 /\ (e - h = 1 <=> e = i)
  BY <1>1, LenProperties
<1> HIDE DEF e, h, m
<1>3. Len(q) = e - h
  BY <1>2, PieceType
<1>4. Len(<<Slash>>) = 1
  OBVIOUS
<1>5. e = i => q = <<Slash>>
  <2>1. Piece(t, h, h + 1) = <<t[h + 1]>>
    BY <1>2, PieceOfOne
  <2> QED
    BY <1>2, <2>1, Zenon
<1>6. q = <<Slash>> => e = i
  BY <1>2, <1>3, <1>4
<1> QED
  BY <1>5, <1>6 DEF e, h

\* The places that a path leads through, in terms of the text it begins.
LEMMA EnteredIs ==
  ASSUME NEW t \in Seq(Bytes)
  PROVE  LET m == PathEnd(t) - 1
             w == Entered(Piece(t, 0, m))
             first == Piece(t, 0, ElementEnd(t, 0))
         IN /\ w[0] = IF first = <<>> THEN << <<>> >> ELSE << <<>>, first >>
            /\ \A i \in 1 .. m :
                  w[i] = IF t[i] # Slash \/ (ElementEnd(t, i) = i /\ i < m) THEN w[i - 1]
                         ELSE EnteredBy(w[i - 1], Piece(t, i - 1, ElementEnd(t, i)))
<1> DEFINE m == PathEnd(t) - 1
           p == Piece(t, 0, m)
           w == Entered(p)
           first == Piece(t, 0, ElementEnd(t, 0))
<1>1. /\ m \in 0 .. Len(t) /\ p \in Seq(Bytes) /\ Len(p) = m
      /\ \A k \in 1 .. m : p[k] = t[k]
  BY PathPiece
<1>2. \A i \in 0 .. m : ElementEnd(t, i) \in i .. m /\ FirstOf(p, i + 1, {Slash}) = ElementEnd(t, i) + 1
  BY ElementEndIs
<1>3. Len(t) \in Nat /\ m \in Nat
  BY <1>1, LenProperties
<1> HIDE DEF p, m
<1>4. \A i \in 0 .. m : w[i] = EnteredStep(p, w, i)
  BY <1>1, <1>3, EnteredEquation
<1> HIDE DEF w
<1>5. ASSUME NEW i \in 0 .. m, NEW e \in i .. m
      PROVE  SubSeq(p, i + 1, e) = Piece(t, i, e)
  <2>1. Piece(p, i, e) = Piece(t, 0 + i, 0 + e)
    <3>1. 0 \in 0 .. Len(t) /\ m \in 0 .. Len(t) /\ i \in 0 .. m - 0 /\ e \in i .. m - 0
      BY <1>1, <1>3, <1>5
    <3> QED
      BY <3>1, PieceOfPiece DEF p
  <2>2. 0 + i = i /\ 0 + e = e
    BY <1>3
  <2> QED
    BY <2>1, <2>2, Zenon DEF Piece
<1>6. w[0] = IF first = <<>> THEN << <<>> >> ELSE << <<>>, first >>
  <2> DEFINE e == ElementEnd(t, 0)
             x == FirstOf(p, 1, {Slash}) - 1
  <2>1. 0 \in 0 .. m /\ 0 + 1 = 1
    BY <1>3
  <2>2. e \in 0 .. m /\ FirstOf(p, 0 + 1, {Slash}) = e + 1
    BY <1>2, <2>1
  <2>3. e + 1 - 1 = e
    BY <1>3, <2>2
  <2> HIDE DEF e
  <2>4. SubSeq(p, 1, x) = Piece(t, 0, e)
    <3>1. SubSeq(p, 0 + 1, e) = Piece(t, 0, e)
      BY <1>5, <2>1, <2>2
    <3>2. x = e
      BY <2>1, <2>2, <2>3
    <3> QED
      BY <2>1, <3>1, <3>2, Zenon
  <2>5. w[0] = EnteredStep(p, w, 0)
    BY <1>4, <2>1
  <2> QED
    BY <2>4, <2>5, Zenon DEF EnteredStep, e
<1>7. ASSUME NEW i \in 1 .. m
      PROVE  w[i] = IF t[i] # Slash \/ (ElementEnd(t, i) = i /\ i < m) THEN w[i - 1]
                    ELSE EnteredBy(w[i - 1], Piece(t, i - 1, ElementEnd(t, i)))
  <2> DEFINE e == ElementEnd(t, i)
             h == i - 1
             el == ElementAt(p, i)
             q == Piece(t, h, e)
             last == i < Len(p)
  <2>1. i \in 0 .. m /\ h \in 0 .. m /\ h + 1 = i /\ i # 0
    BY <1>3, <1>7
  <2>2. e \in i .. m /\ FirstOf(p, i + 1, {Slash}) = e + 1
    BY <1>2, <2>1
  <2>3. e + 1 - 1 = e /\ e \in h .. m
    BY <1>3, <2>1, <2>2
  <2> HIDE DEF e, h
  <2>4. el = q
    <3>1. SubSeq(p, h + 1, e) = Piece(t, h, e)
      BY <1>5, <2>1, <2>3
    <3>2. el = SubSeq(p, i, FirstOf(p, i + 1, {Slash}) - 1)
      BY DEF ElementAt
    <3>4. FirstOf(p, i + 1, {Slash}) - 1 = e
      BY <2>2, <2>3
    <3>3. el = SubSeq(p, i, e)
      BY <3>2, <3>4, Zenon
    <3> QED
      BY <2>1, <3>1, <3>3, Zenon
  <2>5. t[i] = Slash => (q = <<Slash>> <=> e = i)
    BY <1>7, ElementIsSlash DEF e, h, m
  <2>6. p[i] = t[i] /\ Len(p) = m
    BY <1>1, <1>7
  <2>7. w[i] = EnteredStep(p, w, i)
    BY <1>4, <2>1
  <2>8. w[i] = IF \/ p[i] # Slash \/ el = <<Slash, Dot>>
                  \/ el = <<Slash>> /\ i < Len(p)
               THEN w[h]
               ELSE IF el # <<Slash, Dot, Dot>> THEN Append(w[h], Last(w[h]) \o el)
               ELSE IF Len(w[h]) > 1 THEN Front(w[h]) ELSE w[h]
    BY <2>1, <2>7, Zenon DEF EnteredStep, h
  <2> HIDE DEF el, q
  <2>9. w[i] = IF t[i] # Slash \/ (e = i /\ i < m) THEN w[h] ELSE EnteredBy(w[h], q)
    <3>1. CASE t[i] # Slash
      BY <2>6, <2>8, <3>1, Zenon
    <3>2. CASE t[i] = Slash /\ q = <<Slash, Dot>>
      <4>1. w[i] = w[h] /\ EnteredBy(w[h], q) = w[h]
        BY <2>4, <2>8, <3>2, Zenon DEF EnteredBy
      <4> QED
        BY <4>1, Zenon
    <3>3. CASE t[i] = Slash /\ q # <<Slash, Dot>>
      BY <2>4, <2>5, <2>6, <2>8, <3>3, Zenon DEF EnteredBy
    <3> QED
      BY <3>1, <3>2, <3>3
  <2> QED
    BY <2>9 DEF e, h, q
<1> QED
  BY <1>6, <1>7 DEF w, p, m

-----------------------------------------------------------------------------
(* Places, one below the other. *)

\* Each place is its place above and one element more.
IsPlaces(w) ==
    /\ w \in Seq(Seq(Bytes)) /\ Len(w) >= 1 /\ w[1] = <<>>
    /\ \A k \in 2 .. Len(w) : Popped(w[k]) = w[k - 1]

\* What stands in front of a text that was added.
LEMMA PieceFront ==
  ASSUME NEW d \in Seq(Bytes), NEW q \in Seq(Bytes)
  PROVE  Piece(d \o q, 0, Len(d)) = d
<1> DEFINE l == Len(d)
           out == d \o q
           r == Piece(out, 0, l)
<1>1. l \in Nat /\ Len(q) \in Nat
  BY LenProperties
<1>2. out \in Seq(Bytes) /\ Len(out) = l + Len(q)
      /\ \A k \in 1 .. l + Len(q) : out[k] = IF k <= l THEN d[k] ELSE q[k - l]
  BY ConcatProperties
<1> HIDE DEF out, l
<1>3. 0 \in 0 .. Len(out) /\ l \in 0 .. Len(out) /\ l - 0 = l
      /\ \A k \in 1 .. l : 0 + k = k /\ k <= l /\ k \in 1 .. l + Len(q)
  BY <1>1, <1>2
<1>4. r \in Seq(Bytes) /\ Len(r) = l - 0 /\ \A k \in 1 .. l - 0 : r[k] = out[0 + k]
  <2>1. out \in Seq(Bytes) /\ 0 \in 0 .. Len(out) /\ l \in 0 .. Len(out)
    BY <1>2, <1>3
  <2> QED
    BY <2>1, PieceType
<1> HIDE DEF r
<1>5. Len(r) = l /\ \A k \in 1 .. l : r[k] = d[k]
  BY <1>2, <1>3, <1>4
<1>6. r = d
  BY <1>4, <1>5, SeqEqual DEF l
<1> QED
  BY <1>6 DEF r, out, l

\* Of a text without a slash nothing is left,
LEMMA PoppedFirst ==
  ASSUME NEW d \in Seq(Bytes), \A k \in 1 .. Len(d) : d[k] # Slash
  PROVE  Popped(d) = <<>>
<1> DEFINE n == Len(d)
<1>1. n \in Nat
  BY LenProperties
<1>2. PICK m \in 0 .. n : /\ Popped(d) = Piece(d, 0, m)
                          /\ m = 0 \/ d[m + 1] = Slash
                          /\ m = n => d = <<>>
  BY PoppedIs
<1>3. m = 0
  <2>1. CASE m = n
    <3>1. n = 0
      BY <1>2, <2>1
    <3> QED
      BY <2>1, <3>1
  <2>2. CASE m # n
    <3>1. m + 1 \in 1 .. n
      BY <1>1, <2>2
    <3> QED
      BY <1>2, <3>1
  <2> QED
    BY <2>1, <2>2
<1>4. Piece(d, 0, 0) = <<>>
  BY PieceEmpty
<1> QED
  BY <1>2, <1>3, <1>4

\* and of one with an element more, that one is taken off.
LEMMA PoppedElement ==
  ASSUME NEW d \in Seq(Bytes), NEW q \in Seq(Bytes),
         Len(q) >= 1, q[1] = Slash, \A k \in 2 .. Len(q) : q[k] # Slash
  PROVE  Popped(d \o q) = d
<1> DEFINE l == Len(d)
           x == Len(q)
           out == d \o q
           n == Len(out)
<1>1. l \in Nat /\ x \in Nat /\ x >= 1 /\ q[1] = Slash /\ \A k \in 2 .. x : q[k] # Slash
  BY LenProperties
<1>2. out \in Seq(Bytes) /\ n = l + x /\ \A k \in 1 .. l + x : out[k] = IF k <= l THEN d[k] ELSE q[k - l]
  BY ConcatProperties
<1> HIDE DEF out, n
<1>3. PICK m \in 0 .. n : /\ Popped(out) = Piece(out, 0, m)
                          /\ m = 0 \/ out[m + 1] = Slash
                          /\ \A k \in m + 2 .. n : out[k] # Slash
                          /\ m = n => out = <<>>
  BY <1>2, PoppedIs DEF n
<1> HIDE DEF l, x
<1>4. out[l + 1] = Slash
  <2>1. l + 1 \in 1 .. l + x /\ ~ (l + 1 <= l) /\ (l + 1) - l = 1
    BY <1>1
  <2> QED
    BY <1>1, <1>2, <2>1
<1>5. \A k \in l + 2 .. n : out[k] # Slash
  <2> SUFFICES ASSUME NEW k \in l + 2 .. n PROVE out[k] # Slash
    OBVIOUS
  <2>1. k \in 1 .. l + x /\ ~ (k <= l) /\ k - l \in 2 .. x
    BY <1>1, <1>2
  <2> QED
    BY <1>1, <1>2, <2>1
<1>6. m # n
  <2> SUFFICES ASSUME out = <<>> PROVE FALSE
    BY <1>3
  <2>1. n = 0
    BY DEF n
  <2> QED
    BY <1>1, <1>2, <2>1
<1>7. m = l
  <2>1. m + 1 \in 1 .. n /\ l + 1 \in 1 .. n /\ n \in Nat
    BY <1>1, <1>2, <1>6
  <2>2. ~ (l + 1 \in m + 2 .. n)
    BY <1>3, <1>4
  <2>3. m = 0 \/ ~ (m + 1 \in l + 2 .. n)
    BY <1>3, <1>5
  <2> QED
    BY <1>1, <2>1, <2>2, <2>3
<1>8. Piece(out, 0, l) = d
  BY PieceFront DEF out, l
<1> QED
  BY <1>3, <1>7, <1>8 DEF out

\* One element further there is another place,
LEMMA PlacesFurther ==
  ASSUME NEW w, IsPlaces(w), NEW d \in Seq(Bytes), Popped(d) = Last(w)
  PROVE  IsPlaces(Append(w, d)) /\ Last(Append(w, d)) = d
<1> DEFINE n == Len(w)
           m == n + 1
           v == Append(w, d)
<1>1. w \in Seq(Seq(Bytes)) /\ n \in Nat /\ n >= 1 /\ w[1] = <<>>
      /\ \A k \in 2 .. n : Popped(w[k]) = w[k - 1]
  BY LenProperties DEF IsPlaces
<1>2. v \in Seq(Seq(Bytes)) /\ Len(v) = m /\ v[m] = d /\ \A k \in 1 .. n : v[k] = w[k]
  BY <1>1, AppendProperties
<1>3. Popped(d) = w[n]
  BY DEF Last
<1> HIDE DEF v, n
<1>4. ASSUME NEW k \in 2 .. m PROVE Popped(v[k]) = v[k - 1]
  <2>1. CASE k = m
    <3>1. k - 1 = n /\ n \in 1 .. n
      BY <1>1, <2>1
    <3> HIDE DEF m
    <3> QED
      BY <1>2, <1>3, <2>1, <3>1
  <2>2. CASE k # m
    <3>1. k \in 2 .. n /\ k \in 1 .. n /\ k - 1 \in 1 .. n
      BY <1>1, <2>2
    <3> QED
      BY <1>1, <1>2, <3>1
  <2> QED
    BY <2>1, <2>2
<1>5. m >= 1 /\ 1 \in 1 .. n
  BY <1>1
<1> HIDE DEF m
<1>6. IsPlaces(v)
  BY <1>1, <1>2, <1>4, <1>5 DEF IsPlaces
<1>7. Last(v) = d
  BY <1>2 DEF Last
<1> QED
  BY <1>6, <1>7 DEF v

\* and back is the place above.
LEMMA PlacesBack ==
  ASSUME NEW w, IsPlaces(w)
  PROVE  LET v == IF Len(w) > 1 THEN Front(w) ELSE w
         IN IsPlaces(v) /\ Last(v) = Popped(Last(w))
<1> DEFINE n == Len(w)
           m == n - 1
           f == Front(w)
<1>1. w \in Seq(Seq(Bytes)) /\ n \in Nat /\ n >= 1 /\ w[1] = <<>>
      /\ \A k \in 2 .. n : Popped(w[k]) = w[k - 1]
  BY LenProperties DEF IsPlaces
<1>2. CASE n > 1
  <2>1. m \in Nat /\ 1 <= m /\ m - 1 + 1 = m /\ m \in Int /\ n \in 2 .. n /\ 1 \in Int /\ 1 \in 1 .. m
    BY <1>1, <1>2
  <2>2. \A k \in 1 .. m : w[k] \in Seq(Bytes)
    <3> SUFFICES ASSUME NEW k \in 1 .. m PROVE w[k] \in Seq(Bytes)
      OBVIOUS
    <3>1. k \in 1 .. n
      BY <1>1
    <3> QED
      BY <1>1, <3>1, ElementOfSeq
  <2>3. \A k \in 1 .. m - 1 + 1 : 1 + k - 1 = k
    BY <2>1
  <2>4. f = SubSeq(w, 1, m)
    BY DEF Front
  <2> HIDE DEF m, n
  <2>5. /\ SubSeq(w, 1, m) \in Seq(Seq(Bytes))
        /\ Len(SubSeq(w, 1, m)) = IF 1 <= m THEN m - 1 + 1 ELSE 0
        /\ \A k \in 1 .. m - 1 + 1 : SubSeq(w, 1, m)[k] = w[1 + k - 1]
    BY <2>1, <2>2, SubSeqProperties
  <2>6. f \in Seq(Seq(Bytes)) /\ Len(f) = m /\ \A k \in 1 .. m : f[k] = w[k]
    BY <2>1, <2>3, <2>4, <2>5
  <2> HIDE DEF f
  <2>7. IsPlaces(f)
    <3>1. \A k \in 2 .. m : k \in 2 .. n /\ k \in 1 .. m /\ k - 1 \in 1 .. m
      BY <1>1, <2>1 DEF m
    <3> QED
      BY <1>1, <2>1, <2>6, <3>1 DEF IsPlaces
  <2>8. m \in 1 .. m /\ n - 1 = m
    BY <1>1, <2>1 DEF m
  <2>9. Last(f) = Popped(Last(w))
    BY <1>1, <2>1, <2>6, <2>8, Zenon DEF Last, n
  <2> QED
    BY <1>2, <2>7, <2>9 DEF f, n
<1>3. CASE ~ (n > 1)
  <2>1. n = 1
    <3> HIDE DEF n
    <3> QED
      BY <1>1, <1>3
  <2>2. Last(w) = <<>>
    BY <1>1, <2>1 DEF Last
  <2>3. Popped(<<>>) = <<>>
    <3>1. <<>> \in Seq(Bytes) /\ \A k \in 1 .. Len(<<>>) : <<>>[k] # Slash
      OBVIOUS
    <3> QED
      BY <3>1, PoppedFirst
  <2> QED
    BY <1>3, <2>2, <2>3
<1> QED
  BY <1>2, <1>3

-----------------------------------------------------------------------------
(* What Resolve leaves of a path is the place that the path leads to. *)

\* From one byte to the next, the element goes on or another begins.
LEMMA ElementEndNext ==
  ASSUME NEW t \in Seq(Bytes), NEW i \in 0 .. PathEnd(t) - 2
  PROVE  /\ t[i + 1] = Slash => ElementEnd(t, i) = i
         /\ t[i + 1] # Slash => ElementEnd(t, i) = ElementEnd(t, i + 1) /\ i + 1 <= ElementEnd(t, i)
<1> DEFINE m == PathEnd(t) - 1
           j == i + 1
           d == ElementEnd(t, i)
           e == ElementEnd(t, j)
<1>1. PathEnd(t) \in 1 .. Len(t) + 1 /\ Len(t) \in Nat
  BY PathEndIs, LenProperties
<1>2. i \in 0 .. m /\ j \in 0 .. m /\ j \in 1 .. m /\ i < m /\ m \in Nat
  BY <1>1
<1>3. d \in i .. m /\ (\A k \in i + 1 .. d : t[k] # Slash) /\ (d < m => t[d + 1] = Slash)
  BY <1>2, ElementEndIs
<1>4. e \in j .. m /\ (\A k \in j + 1 .. e : t[k] # Slash) /\ (e < m => t[e + 1] = Slash)
  <2> HIDE DEF j
  <2> QED
    BY <1>2, ElementEndIs
<1> HIDE DEF m, d, e
<1>5. j \in Int /\ i + 1 = j /\ i \in Int /\ (d # i => j \in i + 1 .. d)
  BY <1>2, <1>3
<1>6. t[j] = Slash => d = i
  BY <1>3, <1>5
<1>7. ASSUME t[j] # Slash PROVE d = e /\ j <= d
  <2>1. d # i
    BY <1>2, <1>3, <1>5, <1>7
  <2>2. ~ (d < e)
    <3> SUFFICES ASSUME d < e PROVE FALSE
      OBVIOUS
    <3>1. d < m /\ d + 1 \in j + 1 .. e
      BY <1>2, <1>3, <1>4, <2>1
    <3> QED
      BY <1>3, <1>4, <3>1
  <2>3. ~ (e < d)
    <3> SUFFICES ASSUME e < d PROVE FALSE
      OBVIOUS
    <3>1. e < m /\ e + 1 \in i + 1 .. d
      BY <1>2, <1>3, <1>4, <2>1
    <3> QED
      BY <1>3, <1>4, <3>1
  <2> QED
    BY <1>2, <1>3, <1>4, <2>1, <2>2, <2>3
<1> QED
  BY <1>6, <1>7 DEF d, e

\* An element is a slash and what stands behind it, up to the next.
LEMMA ElementIs ==
  ASSUME NEW t \in Seq(Bytes), NEW i \in 1 .. PathEnd(t) - 1, t[i] = Slash
  PROVE  LET e == ElementEnd(t, i)
             q == Piece(t, i - 1, e)
         IN /\ q \in Seq(Bytes) /\ Len(q) >= 1 /\ q[1] = Slash
            /\ \A k \in 2 .. Len(q) : q[k] # Slash
            /\ Piece(t, i, e) \in Seq(Bytes) /\ Len(Piece(t, i, e)) = e - i
            /\ q = <<Slash>> \o Piece(t, i, e)
<1> DEFINE m == PathEnd(t) - 1
           e == ElementEnd(t, i)
           h == i - 1
           q == Piece(t, h, e)
<1>1. m \in 0 .. Len(t) /\ e \in i .. m /\ \A k \in i + 1 .. e : t[k] # Slash
  <2>1. i \in 0 .. m
    OBVIOUS
  <2> QED
    BY <2>1, ElementEndIs
<1>2. /\ Len(t) \in Nat /\ h \in 0 .. Len(t) - 1 /\ h + 1 = i /\ h \in 0 .. Len(t) /\ e \in h .. Len(t)
      /\ e - h >= 1 /\ i \in h .. Len(t) /\ i \in 0 .. Len(t) /\ e \in i .. Len(t) /\ e - h \in Nat
  BY <1>1, LenProperties
<1> HIDE DEF e, h, m
<1>3. q \in Seq(Bytes) /\ Len(q) = e - h /\ \A k \in 1 .. e - h : q[k] = t[h + k]
  BY <1>2, PieceType
<1>4. Piece(t, i, e) \in Seq(Bytes) /\ Len(Piece(t, i, e)) = e - i
  BY <1>2, PieceType
<1>5. Piece(t, h, i) \o Piece(t, i, e) = q
  BY <1>2, PieceJoin
<1>6. Piece(t, h, i) = <<Slash>>
  <2>1. Piece(t, h, h + 1) = <<t[h + 1]>>
    BY <1>2, PieceOfOne
  <2> QED
    BY <1>2, <2>1, Zenon
<1>7. q[1] = Slash
  BY <1>2, <1>3
<1>8. \A k \in 2 .. e - h : q[k] # Slash
  <2> SUFFICES ASSUME NEW k \in 2 .. e - h PROVE q[k] # Slash
    OBVIOUS
  <2>1. k \in 1 .. e - h /\ h + k \in i + 1 .. e
    BY <1>2
  <2> QED
    BY <1>1, <1>3, <2>1
<1> HIDE DEF q
<1>9. q = <<Slash>> \o Piece(t, i, e)
  BY <1>5, <1>6, Zenon
<1> QED
  BY <1>2, <1>3, <1>4, <1>7, <1>8, <1>9 DEF e, h, q

\* What stands behind a slash tells the element.
LEMMA BehindSlash ==
  ASSUME NEW x \in Seq(Bytes), NEW y \in Seq(Bytes), <<Slash>> \o x = <<Slash>> \o y
  PROVE  x = y
<1> DEFINE s == <<Slash>>
           v == s \o x
           w == s \o y
<1>1. s \in Seq(Bytes) /\ Len(s) = 1
  BY DEF Slash, Bytes, BadEsc
<1> HIDE DEF s
<1>2. /\ Len(v) = 1 + Len(x) /\ \A k \in 1 .. 1 + Len(x) : v[k] = IF k <= 1 THEN s[k] ELSE x[k - 1]
  <2>1. /\ Len(v) = Len(s) + Len(x)
        /\ \A k \in 1 .. Len(s) + Len(x) : v[k] = IF k <= Len(s) THEN s[k] ELSE x[k - Len(s)]
    BY <1>1, ConcatProperties
  <2> HIDE DEF v
  <2> QED
    BY <1>1, <2>1
<1>3. /\ Len(w) = 1 + Len(y) /\ \A k \in 1 .. 1 + Len(y) : w[k] = IF k <= 1 THEN s[k] ELSE y[k - 1]
  <2>1. /\ Len(w) = Len(s) + Len(y)
        /\ \A k \in 1 .. Len(s) + Len(y) : w[k] = IF k <= Len(s) THEN s[k] ELSE y[k - Len(s)]
    BY <1>1, ConcatProperties
  <2> HIDE DEF w
  <2> QED
    BY <1>1, <2>1
<1>4. v = w
  BY DEF s
<1>5. Len(x) \in Nat /\ Len(y) \in Nat
  BY LenProperties
<1> HIDE DEF v, w
<1>6. Len(x) = Len(y)
  BY <1>2, <1>3, <1>4, <1>5
<1>7. ASSUME NEW k \in 1 .. Len(x) PROVE x[k] = y[k]
  <2> DEFINE l == k + 1
  <2>1. l \in 1 .. 1 + Len(x) /\ l \in 1 .. 1 + Len(y) /\ ~ (l <= 1) /\ l - 1 = k
    BY <1>5, <1>6
  <2> HIDE DEF l
  <2> QED
    BY <1>2, <1>3, <1>4, <2>1
<1> QED
  BY <1>6, <1>7, SeqEqual

\* The elements that Reduced looks for.
LEMMA HoldsElement ==
  ASSUME NEW t \in Seq(Bytes), NEW i \in 1 .. PathEnd(t) - 1, t[i] = Slash,
         NEW x \in Seq(Bytes)
  PROVE  /\ Holds(t, i, x) <=> Piece(t, i - 1, ElementEnd(t, i)) = <<Slash>> \o x
         /\ Holds(t, i, x) => ElementEnd(t, i) = i + Len(x)
<1> DEFINE e == ElementEnd(t, i)
           p == Piece(t, i, e)
<1>1. /\ Piece(t, i - 1, e) = <<Slash>> \o p /\ p \in Seq(Bytes) /\ Len(p) = e - i
  BY ElementIs
<1>2. i < PathEnd(t) /\ e \in Int /\ i \in Int
  <2>1. PathEnd(t) \in Nat /\ i \in 0 .. PathEnd(t) - 1
    BY PathEndIs, LenProperties
  <2>2. e \in i .. PathEnd(t) - 1
    BY <2>1, ElementEndIs
  <2> QED
    BY <2>1, <2>2
<1>3. Holds(t, i, x) <=> p = x
  BY <1>2, Zenon DEF Holds, p, e, Piece, ElementEnd, Separators
<1> HIDE DEF p, e
<1>4. p = x <=> <<Slash>> \o p = <<Slash>> \o x
  BY <1>1, BehindSlash
<1>5. p = x => e = i + Len(x)
  BY <1>1, <1>2
<1> QED
  BY <1>1, <1>3, <1>4, <1>5, Zenon DEF e

\* Slashes and dots, one behind the other.
LEMMA SlashDots ==
  /\ <<Dot>> \in Seq(Bytes) /\ <<Dot, Dot>> \in Seq(Bytes)
  /\ Len(<<Dot>>) = 1 /\ Len(<<Dot, Dot>>) = 2
  /\ <<Slash>> \o <<Dot>> = <<Slash, Dot>> /\ <<Slash>> \o <<Dot, Dot>> = <<Slash, Dot, Dot>>
<1> DEFINE s == <<Slash>>
           d == <<Dot>>
           dd == <<Dot, Dot>>
           v == s \o d
           w == s \o dd
           x == <<Slash, Dot>>
           y == <<Slash, Dot, Dot>>
<1>1. /\ s \in Seq(Bytes) /\ Len(s) = 1 /\ s[1] = Slash
      /\ d \in Seq(Bytes) /\ Len(d) = 1 /\ d[1] = Dot
      /\ dd \in Seq(Bytes) /\ Len(dd) = 2 /\ dd[1] = Dot /\ dd[2] = Dot
  BY DEF Slash, Dot, Bytes, BadEsc
<1>2. /\ x \in Seq(Bytes) /\ Len(x) = 2 /\ x[1] = Slash /\ x[2] = Dot
      /\ y \in Seq(Bytes) /\ Len(y) = 3 /\ y[1] = Slash /\ y[2] = Dot /\ y[3] = Dot
  BY DEF Slash, Dot, Bytes, BadEsc
<1> HIDE DEF s, d, dd, x, y
<1>3. /\ v \in Seq(Bytes) /\ Len(v) = Len(s) + Len(d)
      /\ \A i \in 1 .. Len(s) + Len(d) : v[i] = IF i <= Len(s) THEN s[i] ELSE d[i - Len(s)]
  BY <1>1, ConcatProperties
<1>4. /\ w \in Seq(Bytes) /\ Len(w) = Len(s) + Len(dd)
      /\ \A i \in 1 .. Len(s) + Len(dd) : w[i] = IF i <= Len(s) THEN s[i] ELSE dd[i - Len(s)]
  BY <1>1, ConcatProperties
<1> HIDE DEF v, w
<1>5. v = x
  <2>1. Len(v) = 2 /\ v[1] = Slash /\ v[2] = Dot
    BY <1>1, <1>3
  <2>2. \A i \in 1 .. Len(v) : v[i] = x[i]
    BY <1>2, <2>1
  <2> QED
    BY <1>2, <1>3, <2>1, <2>2, SeqEqual
<1>6. w = y
  <2>1. Len(w) = 3 /\ w[1] = Slash /\ w[2] = Dot /\ w[3] = Dot
    BY <1>1, <1>4
  <2>2. \A i \in 1 .. Len(w) : w[i] = y[i]
    BY <1>2, <2>1
  <2> QED
    BY <1>2, <1>4, <2>1, <2>2, SeqEqual
<1> QED
  BY <1>1, <1>5, <1>6 DEF s, d, dd, v, w, x, y

\* What Reduced leaves of the first i bytes, with s to pass over, and the
\* rest of the element is the place that these bytes lead to.
EnteredSoFar(t, o, s, w, i) ==
    /\ IsPlaces(w)
    /\ s = 0 => Last(w) = o \o Piece(t, i, ElementEnd(t, i))
    /\ s > 0 => i + s = ElementEnd(t, i) /\ Last(w) = o

\* An element that is no dots leads on, and its slash is left.
LEMMA ElementEnters ==
  ASSUME NEW t \in Seq(Bytes), NEW i \in 0 .. PathEnd(t) - 2, t[i + 1] = Slash,
         NEW o \in Seq(Bytes), NEW w, IsPlaces(w), Last(w) = o
  PROVE  LET j == i + 1
             q == Piece(t, i, ElementEnd(t, j))
             v == Append(w, Last(w) \o q)
         IN IsPlaces(v) /\ Last(v) = Append(o, t[j]) \o Piece(t, j, ElementEnd(t, j))
<1> DEFINE j == i + 1
           e == ElementEnd(t, j)
           q == Piece(t, i, e)
           r == Piece(t, j, e)
           s == <<Slash>>
<1>1. PathEnd(t) \in 1 .. Len(t) + 1 /\ Len(t) \in Nat
  BY PathEndIs, LenProperties
<1>2. j \in 1 .. PathEnd(t) - 1 /\ j - 1 = i
  BY <1>1
<1>3. /\ q \in Seq(Bytes) /\ Len(q) >= 1 /\ q[1] = Slash /\ \A k \in 2 .. Len(q) : q[k] # Slash
      /\ r \in Seq(Bytes) /\ q = s \o r
  <2> HIDE DEF j
  <2>1. t[j] = Slash
    BY DEF j
  <2> QED
    BY <1>2, <2>1, ElementIs
<1> HIDE DEF q, r, e
<1>4. o \o q \in Seq(Bytes) /\ Popped(o \o q) = o
  BY <1>3, PoppedElement, ConcatProperties
<1> DEFINE v == Append(w, o \o q)
<1>5. IsPlaces(v) /\ Last(v) = o \o q
  BY <1>4, PlacesFurther
<1>6. s \in Seq(Bytes)
  BY DEF Slash, Bytes, BadEsc
<1> HIDE DEF s
<1>7. (o \o s) \o r = o \o (s \o r)
  <2>1. o \in Seq(Bytes) /\ s \in Seq(Bytes) /\ r \in Seq(Bytes)
    BY <1>3, <1>6
  <2> QED
    BY <2>1, BytesAssociate, Zenon
<1>8. Append(o, Slash) = o \o s
  <2>1. Slash \in Bytes
    BY DEF Slash, Bytes, BadEsc
  <2> QED
    BY <2>1, AppendIsConcat DEF s
<1>9. o \o q = Append(o, t[j]) \o r
  BY <1>3, <1>7, <1>8, Zenon DEF j
<1> QED
  BY <1>5, <1>9, Zenon DEF v, q, r, e, j

\* The steps of Reduced and those of Entered, side by side.
LEMMA ReducedEnters ==
  ASSUME NEW t \in Seq(Bytes), Spaced(t)
  PROVE  LET m == PathEnd(t) - 1
             w == Entered(Piece(t, 0, m))
         IN \A i \in 0 .. m : EnteredSoFar(t, Reduced(t)[i].out, Reduced(t)[i].skip, w[i], i)
<1> DEFINE m == PathEnd(t) - 1
           n == Len(t)
           w == Entered(Piece(t, 0, m))
           acc == Reduced(t)
           first == Piece(t, 0, ElementEnd(t, 0))
           End(i) == ElementEnd(t, i)
           S == {i \in Nat : EnteredSoFar(t, acc[i].out, acc[i].skip, w[i], i)}
<1>1. PathEnd(t) \in 1 .. n + 1 /\ n \in Nat
  BY PathEndIs, LenProperties
<1>2. m \in 0 .. n /\ m \in Nat
  BY <1>1
<1>3. \A i \in 0 .. n : acc[i] = ReducedStep(t, acc, i)
  BY <1>1, ReducedEquation
<1>4. /\ w[0] = IF first = <<>> THEN << <<>> >> ELSE << <<>>, first >>
      /\ \A i \in 1 .. m :
            w[i] = IF t[i] # Slash \/ (End(i) = i /\ i < m) THEN w[i - 1]
                   ELSE EnteredBy(w[i - 1], Piece(t, i - 1, End(i)))
  BY EnteredIs
<1>5. \A i \in 0 .. n : acc[i].out \in Seq(Bytes) /\ acc[i].skip \in Nat
  BY ReducedIs DEF ReducedSoFar
<1> HIDE DEF acc, w
<1>6. 0 \in S
  <2>1. acc[0] = [out |-> <<>>, skip |-> 0]
    <3>1. 0 \in 0 .. n
      BY <1>1
    <3> QED
      BY <1>3, <3>1, Zenon DEF ReducedStep
  <2>2. 0 \in 0 .. m /\ 0 \in 0 .. n /\ End(0) \in 0 .. m /\ \A k \in 0 + 1 .. End(0) : t[k] # Slash
    <3>1. 0 \in 0 .. m
      BY <1>2
    <3>2. End(0) \in 0 .. m /\ \A k \in 0 + 1 .. End(0) : t[k] # Slash
      BY <3>1, ElementEndIs
    <3> QED
      BY <1>2, <3>1, <3>2
  <2> DEFINE e == End(0)
  <2> HIDE DEF e, m
  <2>3. /\ first \in Seq(Bytes) /\ Len(first) = e - 0 /\ \A k \in 1 .. e - 0 : first[k] = t[0 + k]
    <3>1. 0 \in 0 .. Len(t) /\ e \in 0 .. Len(t)
      BY <1>2, <2>2 DEF n, e
    <3> QED
      BY <3>1, PieceType DEF e
  <2> HIDE DEF first, n
  <2>4. \A k \in 1 .. Len(first) : first[k] # Slash
    <3> SUFFICES ASSUME NEW k \in 1 .. Len(first) PROVE first[k] # Slash
      OBVIOUS
    <3>1. e \in Nat /\ e - 0 = e /\ 0 + k = k /\ k \in 0 + 1 .. e /\ k \in 1 .. e - 0
      BY <1>2, <2>2, <2>3 DEF e
    <3> QED
      BY <2>2, <2>3, <3>1 DEF e
  <2>5. Popped(first) = <<>>
    BY <2>3, <2>4, PoppedFirst
  <2>6. <<>> \in Seq(Bytes) /\ Popped(<<>>) = <<>>
    <3>1. <<>> \in Seq(Bytes) /\ \A k \in 1 .. Len(<<>>) : <<>>[k] # Slash
      OBVIOUS
    <3> QED
      BY <3>1, PoppedFirst
  <2>7. IsPlaces(w[0]) /\ Last(w[0]) = first
    <3>1. CASE first = <<>>
      <4>1. w[0] = << <<>> >>
        BY <1>4, <3>1
      <4> QED
        BY <3>1, <4>1 DEF IsPlaces, Last
    <3>2. CASE first # <<>>
      <4>1. w[0] = << <<>>, first >>
        BY <1>4, <3>2
      <4> QED
        BY <2>3, <2>5, <4>1 DEF IsPlaces, Last
    <3> QED
      BY <3>1, <3>2
  <2>8. <<>> \o first = first
    BY <2>3, ConcatEmptySeq
  <2>9. EnteredSoFar(t, <<>>, 0, w[0], 0)
    <3>1. first = Piece(t, 0, End(0))
      BY DEF first
    <3>2. ~ (0 > 0)
      OBVIOUS
    <3> QED
      BY <2>7, <2>8, <3>1, <3>2, Zenon DEF EnteredSoFar
  <2>10. acc[0].out = <<>> /\ acc[0].skip = 0
    BY <2>1
  <2> QED
    BY <2>9, <2>10
<1>7. ASSUME NEW i \in 0 .. m - 1, i \in S PROVE i + 1 \in S
  <2> DEFINE j == i + 1
             o == acc[i].out
             s == acc[i].skip
             x == w[i]
             q == Piece(t, i, End(j))
             up == Holds(t, j, <<Dot, Dot>>)
             here == Holds(t, j, <<Dot>>)
             goal(p, z, y) == EnteredSoFar(t, p, z, y, j)
  <2>1. /\ j \in 0 .. n /\ j # 0 /\ j - 1 = i /\ j \in Nat /\ j \in 1 .. n /\ j \in 1 .. m /\ i \in 0 .. n
        /\ i \in 0 .. PathEnd(t) - 2 /\ j \in 1 .. PathEnd(t) - 1
    BY <1>1, <1>2
  <2>2. acc[j] = IF s > 0 THEN [out |-> o, skip |-> s - 1]
                 ELSE IF up THEN [out |-> Popped(o), skip |-> 2]
                 ELSE IF here THEN [out |-> o, skip |-> 1]
                 ELSE [out |-> Append(o, t[j]), skip |-> 0]
    BY <1>3, <2>1 DEF ReducedStep
  <2>3. w[j] = IF t[j] # Slash \/ (End(j) = j /\ j < m) THEN x ELSE EnteredBy(x, q)
    BY <1>4, <2>1
  <2>4. /\ IsPlaces(x) /\ o \in Seq(Bytes) /\ s \in Nat
        /\ s = 0 => Last(x) = o \o Piece(t, i, End(i))
        /\ s > 0 => i + s = End(i) /\ Last(x) = o
    BY <1>5, <1>7, <2>1 DEF EnteredSoFar
  <2>5. /\ t[j] = Slash => End(i) = i
        /\ t[j] # Slash => End(i) = End(j) /\ j <= End(i)
    BY <2>1, ElementEndNext
  <2>6. (up => t[j] = Slash) /\ (here => t[j] = Slash)
    BY DEF Holds
  <2>7. End(i) \in Int /\ i \in Int
    <3>1. i \in 0 .. m
      BY <1>2
    <3>2. End(i) \in i .. m
      BY <3>1, ElementEndIs
    <3> QED
      BY <1>2, <3>2
  <2> HIDE DEF o, s, x, S, m
  <2>8. CASE t[j] # Slash
    <3>1. w[j] = x
      BY <2>3, <2>8
    <3>2. CASE s > 0
      <4> DEFINE z == s - 1
      <4>1. acc[j].out = o /\ acc[j].skip = z
        BY <2>2, <3>2
      <4>2. z \in Nat /\ j + z = End(j) /\ Last(x) = o
        BY <2>1, <2>4, <2>5, <2>7, <2>8, <3>2
      <4>3. z = 0 => Last(x) = o \o Piece(t, j, End(j))
        <5> SUFFICES ASSUME z = 0 PROVE o = o \o Piece(t, j, End(j))
          BY <4>2
        <5>1. j = End(j) /\ j \in Int
          BY <2>1, <4>2
        <5>2. Piece(t, j, End(j)) = <<>>
          <6>1. Piece(t, j, j) = <<>>
            BY <5>1, PieceEmpty
          <6> QED
            BY <5>1, <6>1, Zenon
        <5>3. o \o <<>> = o
          BY <2>4, ConcatEmptySeq
        <5> QED
          BY <5>2, <5>3, Zenon
      <4> HIDE DEF z, j
      <4>4. EnteredSoFar(t, o, z, x, j)
        BY <2>4, <4>2, <4>3, Zenon DEF EnteredSoFar
      <4>5. j \in S
        BY <2>1, <3>1, <4>1, <4>4 DEF S
      <4> QED
        BY <4>5 DEF j
    <3>3. CASE s = 0
      <4>1. acc[j].out = Append(o, t[j]) /\ acc[j].skip = 0
        <5>1. ~ (s > 0) /\ ~ up /\ ~ here
          BY <2>6, <2>8, <3>3
        <5>2. acc[j] = [out |-> Append(o, t[j]), skip |-> 0]
          BY <2>2, <5>1, Zenon
        <5> QED
          BY <5>2
      <4> DEFINE e == End(j)
      <4>2. e \in j .. m /\ m \in 0 .. Len(t)
        <5>1. j \in 0 .. m
          BY <1>2, <2>1
        <5> HIDE DEF j
        <5> QED
          BY <5>1, ElementEndIs DEF m
      <4>3. i \in 0 .. Len(t) - 1 /\ i \in 0 .. Len(t) /\ j \in i .. Len(t) /\ e \in j .. Len(t) /\ j \in 0 .. Len(t) /\ j \in 1 .. Len(t) /\ e \in i .. Len(t)
        BY <1>1, <2>1, <4>2 DEF n
      <4>4. Piece(t, i, e) = <<t[j]>> \o Piece(t, j, e)
        <5>1. Piece(t, i, j) = <<t[j]>>
          BY <4>3, PieceOfOne
        <5> HIDE DEF e, j
        <5>2. Piece(t, i, j) \o Piece(t, j, e) = Piece(t, i, e)
          BY <4>3, PieceJoin
        <5> QED
          BY <5>1, <5>2, Zenon
      <4>5. t[j] \in Bytes /\ Piece(t, j, e) \in Seq(Bytes)
        <5> HIDE DEF e, j
        <5> QED
          BY <4>3, ElementOfSeq, PieceType
      <4>6. Last(x) = o \o (<<t[j]>> \o Piece(t, j, e))
        BY <2>4, <2>5, <2>8, <3>3, <4>4, Zenon
      <4> HIDE DEF e, j
      <4>7. o \o (<<t[j]>> \o Piece(t, j, e)) = Append(o, t[j]) \o Piece(t, j, e)
        <5> DEFINE c == <<t[j]>>
                   r == Piece(t, j, e)
        <5>1. c \in Seq(Bytes) /\ r \in Seq(Bytes) /\ Append(o, t[j]) = o \o c
          BY <2>4, <4>5, AppendIsConcat
        <5> HIDE DEF c, r
        <5>2. (o \o c) \o r = o \o (c \o r)
          BY <2>4, <5>1, BytesAssociate, Zenon
        <5> QED
          BY <5>1, <5>2, Zenon DEF c, r
      <4>8. EnteredSoFar(t, Append(o, t[j]), 0, x, j)
        <5>1. ~ (0 > 0)
          OBVIOUS
        <5> QED
          BY <2>4, <4>6, <4>7, <5>1, Zenon DEF EnteredSoFar, e
      <4>9. j \in S
        BY <2>1, <3>1, <4>1, <4>8 DEF S
      <4> QED
        BY <4>9 DEF j
    <3> QED
      BY <2>4, <3>2, <3>3
  <2>9. CASE t[j] = Slash
    <3>1. End(i) = i /\ s = 0
      BY <2>4, <2>5, <2>7, <2>9
    <3>2. Last(x) = o
      <4>1. Piece(t, i, i) = <<>>
        BY <2>7, PieceEmpty
      <4>2. o \o <<>> = o
        BY <2>4, ConcatEmptySeq
      <4> QED
        BY <2>4, <3>1, <4>1, <4>2, Zenon
    <3>3. <<Dot>> \in Seq(Bytes) /\ <<Dot, Dot>> \in Seq(Bytes) /\ Len(<<Dot>>) = 1 /\ Len(<<Dot, Dot>>) = 2
          /\ <<Slash>> \o <<Dot>> = <<Slash, Dot>> /\ <<Slash>> \o <<Dot, Dot>> = <<Slash, Dot, Dot>>
      BY SlashDots
    <3>4. /\ here <=> q = <<Slash, Dot>>
          /\ here => End(j) = j + 1
      <4> HIDE DEF j
      <4>1. /\ here <=> Piece(t, j - 1, End(j)) = <<Slash>> \o <<Dot>>
            /\ here => End(j) = j + Len(<<Dot>>)
        BY <2>1, <2>9, <3>3, HoldsElement
      <4> QED
        BY <2>1, <3>3, <4>1, Zenon
    <3>5. /\ up <=> q = <<Slash, Dot, Dot>>
          /\ up => End(j) = j + 2
      <4> HIDE DEF j
      <4>1. /\ up <=> Piece(t, j - 1, End(j)) = <<Slash>> \o <<Dot, Dot>>
            /\ up => End(j) = j + Len(<<Dot, Dot>>)
        BY <2>1, <2>9, <3>3, HoldsElement
      <4> QED
        BY <2>1, <3>3, <4>1, Zenon
    <3>6. ~ (End(j) = j /\ j < m)
      <4> SUFFICES ASSUME End(j) = j, j < m PROVE FALSE
        OBVIOUS
      <4> DEFINE k == j + 1
      <4>1. t[k] = Slash
        <5>1. j \in 0 .. m
          BY <1>2, <2>1
        <5> HIDE DEF j
        <5> QED
          BY <5>1, ElementEndIs DEF m, k
      <4>2. k \in 2 .. n /\ k - 1 = j /\ k \in 0 .. n /\ k < PathEnd(t)
        BY <1>1, <1>2, <2>1 DEF m
      <4>3. InPath(t, k)
        BY <4>2, PathEndIs DEF n
      <4> HIDE DEF k, j
      <4> QED
        BY <2>9, <4>1, <4>2, <4>3 DEF Spaced, n
    <3>7. w[j] = EnteredBy(x, q)
      BY <2>3, <2>9, <3>6
    <3>8. <<Slash, Dot>> # <<Slash, Dot, Dot>>
      <4>1. Len(<<Slash, Dot>>) = 2 /\ Len(<<Slash, Dot, Dot>>) = 3
        OBVIOUS
      <4> QED
        BY <4>1
    <3>9. CASE up
      <4> DEFINE v == IF Len(x) > 1 THEN Front(x) ELSE x
      <4>1. acc[j].out = Popped(o) /\ acc[j].skip = 2
        BY <2>2, <3>1, <3>9
      <4>2. w[j] = v
        BY <3>5, <3>7, <3>8, <3>9, Zenon DEF EnteredBy
      <4>3. IsPlaces(v) /\ Last(v) = Popped(o)
        BY <2>4, <3>2, PlacesBack
      <4> HIDE DEF v, j
      <4>4. EnteredSoFar(t, Popped(o), 2, v, j)
        BY <3>5, <3>9, <4>3 DEF EnteredSoFar
      <4>5. j \in S
        BY <2>1, <4>1, <4>2, <4>4 DEF S
      <4> QED
        BY <4>5 DEF j
    <3>10. CASE ~ up /\ here
      <4>1. acc[j].out = o /\ acc[j].skip = 1
        BY <2>2, <3>1, <3>10
      <4>2. w[j] = x
        BY <3>4, <3>7, <3>10, Zenon DEF EnteredBy
      <4> HIDE DEF j
      <4>4. EnteredSoFar(t, o, 1, x, j)
        BY <2>4, <3>2, <3>4, <3>10 DEF EnteredSoFar
      <4>5. j \in S
        BY <2>1, <4>1, <4>2, <4>4 DEF S
      <4> QED
        BY <4>5 DEF j
    <3>11. CASE ~ up /\ ~ here
      <4> DEFINE v == Append(x, Last(x) \o q)
      <4>1. acc[j].out = Append(o, t[j]) /\ acc[j].skip = 0
        BY <2>2, <3>1, <3>11
      <4>2. w[j] = v
        BY <3>4, <3>5, <3>7, <3>11, Zenon DEF EnteredBy
      <4>3. IsPlaces(v) /\ Last(v) = Append(o, t[j]) \o Piece(t, j, End(j))
        BY <2>1, <2>4, <2>9, <3>2, ElementEnters
      <4> HIDE DEF v, j
      <4>4. EnteredSoFar(t, Append(o, t[j]), 0, v, j)
        <5>1. ~ (0 > 0)
          OBVIOUS
        <5> QED
          BY <4>3, <5>1, Zenon DEF EnteredSoFar
      <4>5. j \in S
        BY <2>1, <4>1, <4>2, <4>4 DEF S
      <4> QED
        BY <4>5 DEF j
    <3> QED
      BY <3>9, <3>10, <3>11
  <2> QED
    BY <2>8, <2>9
<1>8. \A i \in 0 .. m : i \in S
  <2> HIDE DEF S, m
  <2> QED
    BY <1>2, <1>6, <1>7, UpTo
<1> QED
  BY <1>8 DEF acc, w, m

\* What follows the path stays behind it.
LEMMA PathOfJoin ==
  ASSUME NEW t \in Seq(Bytes), NEW o \in Seq(Bytes), InPath(o, Len(o))
  PROVE  LET m == PathEnd(t) - 1
             r == o \o Piece(t, m, Len(t))
         IN SubSeq(r, 1, PathEnd(r) - 1) = o
<1> DEFINE n == Len(t)
           m == PathEnd(t) - 1
           x == Piece(t, m, n)
           r == o \o x
           l == Len(o)
           p == PathEnd(r)
<1>1. PathEnd(t) \in 1 .. n + 1 /\ n \in Nat /\ l \in Nat
  BY PathEndIs, LenProperties
<1>2. m \in 0 .. n /\ n \in m .. n
  BY <1>1
<1>3. m + 1 <= n => t[m + 1] \in {Query, Hash}
  <2>1. 1 \in 1 .. n + 1 /\ m + 1 = PathEnd(t)
    BY <1>1
  <2>2. PathEnd(t) <= n => t[PathEnd(t)] \in {Query, Hash}
    BY <2>1, FirstOfIs DEF PathEnd
  <2> HIDE DEF m
  <2> QED
    BY <2>1, <2>2
<1> HIDE DEF m, n, l
<1>4. x \in Seq(Bytes) /\ Len(x) = n - m /\ \A k \in 1 .. n - m : x[k] = t[m + k]
  BY <1>2, PieceType DEF n
<1> HIDE DEF x
<1>5. /\ r \in Seq(Bytes) /\ Len(r) = l + Len(x)
      /\ \A k \in 1 .. l + Len(x) : r[k] = IF k <= l THEN o[k] ELSE x[k - l]
  BY <1>4, ConcatProperties DEF l
<1>6. SubSeq(r, 1, l) = o
  <2>1. Piece(r, 0, l) = o
    BY <1>4, PieceFront DEF l
  <2>2. 0 + 1 = 1
    OBVIOUS
  <2> HIDE DEF r
  <2> QED
    BY <2>1, <2>2, Zenon DEF Piece
<1> HIDE DEF r
<1>7. p \in 1 .. Len(r) + 1 /\ \A k \in 0 .. Len(r) : k < p <=> InPath(r, k)
  BY <1>5, PathEndIs
<1>8. InPath(r, l)
  <2> SUFFICES ASSUME NEW k \in 1 .. l PROVE r[k] \notin {Query, Hash}
    BY DEF InPath
  <2>1. k \in 1 .. l + Len(x) /\ k <= l
    BY <1>1, <1>2, <1>4
  <2>2. o[k] \notin {Query, Hash}
    BY DEF InPath, l
  <2> QED
    BY <1>5, <2>1, <2>2
<1>9. Len(x) \in Nat /\ (Len(x) > 0 => m + 1 <= n /\ 1 \in 1 .. n - m)
  BY <1>1, <1>2, <1>4
<1>10. Len(x) > 0 => ~ InPath(r, l + 1)
  <2> SUFFICES ASSUME Len(x) > 0, InPath(r, l + 1) PROVE FALSE
    OBVIOUS
  <2>1. l + 1 \in 1 .. l + Len(x) /\ ~ (l + 1 <= l) /\ (l + 1) - l = 1 /\ l + 1 \in 1 .. l + 1
    BY <1>1, <1>9
  <2>2. r[l + 1] = x[1]
    BY <1>5, <2>1
  <2>3. x[1] = t[m + 1]
    BY <1>4, <1>9
  <2>4. r[l + 1] \notin {Query, Hash}
    BY <2>1 DEF InPath
  <2> QED
    BY <1>3, <1>9, <2>2, <2>3, <2>4
<1> HIDE DEF p
<1>11. l < p
  <2>1. l \in 0 .. Len(r)
    BY <1>1, <1>5, <1>9
  <2> QED
    BY <1>7, <1>8, <2>1
<1>12. ~ (l + 1 < p)
  <2> SUFFICES ASSUME l + 1 < p PROVE FALSE
    OBVIOUS
  <2>1. Len(x) > 0 /\ l + 1 \in 0 .. Len(r)
    BY <1>1, <1>5, <1>7, <1>9
  <2> QED
    BY <1>7, <1>10, <2>1
<1>13. p - 1 = l
  BY <1>1, <1>5, <1>7, <1>9, <1>11, <1>12
<1> QED
  BY <1>6, <1>13, Zenon DEF p, r, x, m, n

\* What Resolve leaves of a path without empty elements is where it leads to.
LEMMA ResolvedPath ==
  ASSUME NEW t \in Seq(Bytes), Spaced(t)
  PROVE  LET m == PathEnd(t) - 1
             r == Resolve(t)
         IN SubSeq(r, 1, PathEnd(r) - 1) = Last(Entered(Piece(t, 0, m))[m])
<1> DEFINE m == PathEnd(t) - 1
           n == Len(t)
           w == Entered(Piece(t, 0, m))
           acc == Reduced(t)
           o == acc[m].out
           d == n - m
           S == {k \in Nat : acc[m + k].out = o \o Piece(t, m, m + k) /\ acc[m + k].skip = 0}
<1>1. PathEnd(t) \in 1 .. n + 1 /\ n \in Nat
  BY PathEndIs, LenProperties
<1>2. m \in 0 .. n /\ m \in Nat /\ m \in 0 .. m /\ m < PathEnd(t) /\ m + 1 = PathEnd(t) /\ d \in Nat /\ m + d = n
  BY <1>1
<1>3. \A i \in 0 .. n : acc[i] = ReducedStep(t, acc, i)
  BY <1>1, ReducedEquation
<1>4. ReducedSoFar(t, o, acc[m].skip, m)
  BY <1>2, ReducedIs
<1>5. EnteredSoFar(t, o, acc[m].skip, w[m], m)
  BY <1>2, ReducedEnters
<1>6. InPath(t, m)
  BY <1>2, PathEndIs
<1>7. ElementEnd(t, m) = m
  <2>1. ElementEnd(t, m) \in m .. m
    BY <1>2, ElementEndIs
  <2> QED
    BY <1>2, <2>1
<1> HIDE DEF acc, w, o, m, d
<1>8. o \in Seq(Bytes) /\ InPath(o, Len(o)) /\ acc[m].skip \in Nat
  BY <1>4, <1>6 DEF ReducedSoFar
<1>9. acc[m].skip = 0
  <2> SUFFICES ASSUME acc[m].skip > 0 PROVE FALSE
    BY <1>8
  <2>1. m + acc[m].skip = m
    BY <1>5, <1>7 DEF EnteredSoFar
  <2> QED
    BY <1>2, <1>8, <2>1
<1>10. Last(w[m]) = o
  <2>1. Last(w[m]) = o \o Piece(t, m, m)
    BY <1>5, <1>7, <1>9, Zenon DEF EnteredSoFar
  <2>2. Piece(t, m, m) = <<>> /\ o \o <<>> = o
    BY <1>2, <1>8, PieceEmpty, ConcatEmptySeq
  <2> QED
    BY <2>1, <2>2, Zenon
<1>11. 0 \in S
  <2>1. m + 0 = m /\ Piece(t, m, m) = <<>> /\ o \o <<>> = o
    BY <1>2, <1>8, PieceEmpty, ConcatEmptySeq
  <2>2. acc[m + 0].out = o \o Piece(t, m, m + 0) /\ acc[m + 0].skip = 0
    BY <1>9, <2>1, Zenon DEF o
  <2> QED
    BY <2>2
<1>12. ASSUME NEW k \in 0 .. d - 1, k \in S PROVE k + 1 \in S
  <2> DEFINE i == m + k
             j == i + 1
             x == Piece(t, m, i)
             c == <<t[j]>>
  <2>1. /\ i \in 0 .. n - 1 /\ i \in m .. n /\ j \in 0 .. n /\ j # 0 /\ j - 1 = i /\ j \in 1 .. n
        /\ j \in i .. n /\ ~ (j < PathEnd(t)) /\ m + (k + 1) = j /\ k + 1 \in Nat /\ i \in 0 .. n
    BY <1>1, <1>2
  <2> HIDE DEF i
  <2>2. acc[i].out = o \o x /\ acc[i].skip = 0
    BY <1>12 DEF i
  <2> HIDE DEF j
  <2>3. ~ Holds(t, j, <<Dot, Dot>>) /\ ~ Holds(t, j, <<Dot>>)
    BY <2>1 DEF Holds
  <2>4. acc[j].out = Append(o \o x, t[j]) /\ acc[j].skip = 0
    <3>1. ~ (acc[i].skip > 0)
      BY <2>2
    <3>2. acc[j] = [out |-> Append(acc[i].out, t[j]), skip |-> 0]
      BY <1>3, <2>1, <2>3, <3>1, Zenon DEF ReducedStep
    <3> QED
      BY <2>2, <3>2
  <2>5. x \in Seq(Bytes) /\ t[j] \in Bytes /\ c \in Seq(Bytes)
    <3>1. x \in Seq(Bytes)
      BY <1>2, <2>1, PieceType DEF n
    <3>2. t[j] \in Bytes
      BY <2>1, ElementOfSeq DEF n
    <3> QED
      BY <3>1, <3>2
  <2>6. x \o c = Piece(t, m, j)
    <3>1. c = Piece(t, i, j)
      BY <2>1, PieceOfOne DEF n, j
    <3>2. x \o Piece(t, i, j) = Piece(t, m, j)
      BY <1>2, <2>1, PieceJoin DEF n
    <3> QED
      BY <3>1, <3>2, Zenon
  <2>7. Append(o \o x, t[j]) = o \o (x \o c)
    <3>1. o \o x \in Seq(Bytes)
      BY <1>8, <2>5, ConcatProperties
    <3>2. Append(o \o x, t[j]) = (o \o x) \o c
      BY <2>5, <3>1, AppendIsConcat
    <3> HIDE DEF x, c
    <3>3. o \in Seq(Bytes) /\ x \in Seq(Bytes) /\ c \in Seq(Bytes)
      BY <1>8, <2>5
    <3>4. (o \o x) \o c = o \o (x \o c)
      BY <3>3, BytesAssociate, Zenon
    <3> QED
      BY <3>2, <3>4, Zenon
  <2>8. acc[j].out = o \o Piece(t, m, j)
    BY <2>4, <2>6, <2>7, Zenon
  <2> QED
    BY <2>1, <2>4, <2>8
<1>13. d \in S
  <2> HIDE DEF S
  <2>1. \A k \in 0 .. d : k \in S
    BY <1>2, <1>11, <1>12, UpTo
  <2> QED
    BY <1>2, <2>1
<1>14. Resolve(t) = o \o Piece(t, m, n)
  BY <1>2, <1>13 DEF Resolve, acc, n
<1>15. SubSeq(Resolve(t), 1, PathEnd(Resolve(t)) - 1) = o
  BY <1>8, <1>14, PathOfJoin DEF m, n
<1> QED
  BY <1>10, <1>15, Zenon DEF w, m

-----------------------------------------------------------------------------
(* Collapse leaves empty elements out, and no other.                       *)

\* FirstOf is the position with what FirstOfIs says of it.
LEMMA FirstOfFound ==
  ASSUME NEW t \in Seq(Bytes), NEW i \in 1 .. Len(t) + 1, NEW bs, NEW y \in i .. Len(t) + 1,
         \A k \in i .. y - 1 : t[k] \notin bs,
         y <= Len(t) => t[y] \in bs
  PROVE  FirstOf(t, i, bs) = y
<1> DEFINE n == Len(t)
           x == FirstOf(t, i, bs)
<1>1. n \in Nat
  BY LenProperties
<1>2. /\ x \in i .. n + 1
      /\ \A k \in i .. x - 1 : t[k] \notin bs
      /\ x <= n => t[x] \in bs
  BY FirstOfIs
<1> HIDE DEF x
<1>3. ~ (x < y)
  <2> SUFFICES ASSUME x < y PROVE FALSE
    OBVIOUS
  <2>1. x \in i .. y - 1 /\ x <= n
    BY <1>1, <1>2
  <2> QED
    BY <1>2, <2>1
<1>4. ~ (y < x)
  <2> SUFFICES ASSUME y < x PROVE FALSE
    OBVIOUS
  <2>1. y \in i .. x - 1 /\ y <= n
    BY <1>1, <1>2
  <2> QED
    BY <1>2, <2>1
<1>5. x = y
  BY <1>1, <1>2, <1>3, <1>4
<1> QED
  BY <1>5 DEF x

\* How many of the first i bytes Collapse keeps.
Kept(t, i) == Len(Collapsed(t)[i])

\* A byte that is not redundant is one more.
LEMMA KeptNext ==
  ASSUME NEW t \in Seq(Bytes), NEW i \in 0 .. Len(t) - 1
  PROVE  /\ Kept(t, i) \in Nat
         /\ Redundant(t, i + 1) => Collapsed(t)[i + 1] = Collapsed(t)[i]
         /\ Redundant(t, i + 1) => Kept(t, i + 1) = Kept(t, i)
         /\ ~ Redundant(t, i + 1) => /\ Kept(t, i + 1) = Kept(t, i) + 1
                                     /\ Collapsed(t)[i + 1] = Append(Collapsed(t)[i], t[i + 1])
<1> DEFINE n == Len(t)
           out == Collapsed(t)
           j == i + 1
           o == out[i]
<1>1. n \in Nat
  BY LenProperties
<1>2. j \in 0 .. n /\ j # 0 /\ j - 1 = i /\ i \in 0 .. n /\ j \in 1 .. n
  BY <1>1
<1> HIDE DEF n, j
<1>3. out[j] = IF Redundant(t, j) THEN o ELSE Append(o, t[j])
  <2>1. out[j] = CollapsedStep(t, out, j)
    BY <1>1, <1>2, CollapsedEquation DEF n
  <2> QED
    BY <1>2, <2>1 DEF CollapsedStep
<1>4. o \in Seq(Bytes)
  BY <1>2, CollapsedIs DEF CollapsedSoFar, n
<1>5. t[j] \in Bytes
  BY <1>2, ElementOfSeq DEF n
<1> HIDE DEF o, out
<1>6. Len(o) \in Nat /\ Len(Append(o, t[j])) = Len(o) + 1
  BY <1>4, <1>5, LenProperties, AppendProperties
<1> QED
  BY <1>3, <1>6 DEF Kept, o, out, j

\* What is kept of a beginning stays where it is.
LEMMA KeptStays ==
  ASSUME NEW t \in Seq(Bytes), NEW i \in 0 .. Len(t)
  PROVE  LET o == Collapsed(t)[i]
             c == Collapse(t)
         IN /\ o \in Seq(Bytes) /\ c \in Seq(Bytes)
            /\ Len(o) \in 0 .. Len(c)
            /\ \A x \in 1 .. Len(o) : c[x] = o[x]
<1> DEFINE n == Len(t)
           d == n - i
           out == Collapsed(t)
           o == out[i]
           l == Len(o)
           S == {k \in Nat : l <= Len(out[i + k]) /\ \A x \in 1 .. l : out[i + k][x] = o[x]}
<1>1. n \in Nat /\ i \in 0 .. n /\ d \in Nat /\ i + d = n /\ i + 0 = i /\ n \in 0 .. n
  BY LenProperties
<1> HIDE DEF n, d
<1>2. \A k \in 0 .. n : out[k] \in Seq(Bytes) /\ Len(out[k]) \in Nat
  <2> SUFFICES ASSUME NEW k \in 0 .. n PROVE out[k] \in Seq(Bytes) /\ Len(out[k]) \in Nat
    OBVIOUS
  <2>1. out[k] \in Seq(Bytes)
    BY CollapsedIs DEF CollapsedSoFar, n
  <2> HIDE DEF out
  <2> QED
    BY <2>1, LenProperties
<1>3. ASSUME NEW k \in 0 .. d - 1, k \in S PROVE k + 1 \in S
  <2> DEFINE x == i + k
             y == x + 1
             v == out[x]
             c == t[y]
  <2>1. x \in 0 .. n - 1 /\ x \in 0 .. n /\ y \in 1 .. n /\ i + (k + 1) = y /\ k + 1 \in Nat
    BY <1>1, <1>3
  <2>2. l <= Len(v) /\ \A z \in 1 .. l : v[z] = o[z]
    BY <1>3
  <2>3. c \in Bytes
    BY <2>1, ElementOfSeq DEF n
  <2>4. v \in Seq(Bytes) /\ Len(v) \in Nat /\ l \in Nat
    BY <1>1, <1>2, <2>1
  <2>5. out[y] \in {v, Append(v, c)}
    BY <2>1, KeptNext DEF n
  <2> HIDE DEF x, y, c, v, o, l, out
  <2>6. /\ Len(Append(v, c)) = Len(v) + 1
        /\ \A z \in 1 .. Len(v) : Append(v, c)[z] = v[z]
    BY <2>3, <2>4, AppendProperties
  <2>7. l <= Len(out[y]) /\ \A z \in 1 .. l : out[y][z] = o[z]
    <3>1. CASE out[y] = v
      BY <2>2, <3>1
    <3>2. CASE out[y] = Append(v, c)
      <4>1. \A z \in 1 .. l : z \in 1 .. Len(v)
        BY <2>2, <2>4
      <4>2. l <= Len(v) + 1
        BY <2>2, <2>4
      <4> QED
        BY <2>2, <2>6, <3>2, <4>1, <4>2
    <3> QED
      BY <2>5, <3>1, <3>2
  <2> QED
    BY <2>1, <2>7
<1>4. 0 \in S
  <2>1. l \in Nat /\ i + 0 = i
    BY <1>1, <1>2
  <2> HIDE DEF l, o
  <2>2. l <= Len(out[i + 0]) /\ \A x \in 1 .. l : out[i + 0][x] = o[x]
    BY <2>1 DEF l, o
  <2> QED
    BY <2>2
<1>5. d \in S
  <2> HIDE DEF S
  <2>1. \A k \in 0 .. d : k \in S
    BY <1>1, <1>3, <1>4, UpTo
  <2> QED
    BY <1>1, <2>1
<1>6. Collapse(t) = out[n]
  BY DEF Collapse, n
<1>7. l <= Len(out[n]) /\ \A x \in 1 .. l : out[n][x] = o[x]
  BY <1>1, <1>5
<1>8. o \in Seq(Bytes) /\ out[n] \in Seq(Bytes) /\ l \in Nat /\ Len(out[n]) \in Nat
  BY <1>1, <1>2
<1> HIDE DEF out, l, o
<1>9. l \in 0 .. Len(out[n])
  BY <1>7, <1>8
<1> QED
  BY <1>6, <1>7, <1>8, <1>9 DEF l, o, out

\* Where the bytes of a text are in what Collapse leaves of it.
LEMMA KeptIs ==
  ASSUME NEW t \in Seq(Bytes)
  PROVE  LET c == Collapse(t)
         IN /\ c \in Seq(Bytes) /\ Kept(t, 0) = 0 /\ Kept(t, Len(t)) = Len(c)
            /\ \A i \in 0 .. Len(t) :
                  /\ Kept(t, i) \in 0 .. Len(c)
                  /\ i > 0 => Kept(t, i) >= 1 /\ c[Kept(t, i)] = t[i]
                  /\ InPath(t, i) => InPath(c, Kept(t, i))
<1> DEFINE n == Len(t)
           c == Collapse(t)
<1>1. n \in Nat /\ n \in 0 .. n /\ 0 \in 0 .. n
  BY LenProperties
<1>2. c \in Seq(Bytes)
  BY CollapseIs
<1>3. Kept(t, 0) = 0
  <2>1. Collapsed(t)[0] = <<>>
    BY <1>1, CollapsedEquation DEF CollapsedStep
  <2> QED
    BY <2>1 DEF Kept
<1>4. Kept(t, n) = Len(c)
  BY DEF Kept, Collapse
<1> HIDE DEF n, c
<1>5. ASSUME NEW i \in 0 .. n
      PROVE  /\ Kept(t, i) \in 0 .. Len(c)
             /\ i > 0 => Kept(t, i) >= 1 /\ c[Kept(t, i)] = t[i]
             /\ InPath(t, i) => InPath(c, Kept(t, i))
  <2> DEFINE o == Collapsed(t)[i]
             l == Len(o)
  <2>1. o \in Seq(Bytes) /\ l \in 0 .. Len(c) /\ \A x \in 1 .. l : c[x] = o[x]
    BY KeptStays DEF n, c
  <2>2. /\ InPath(o, l) <=> InPath(t, i)
        /\ i > 0 => l > 0 /\ o[l] = t[i]
    BY CollapsedIs DEF CollapsedSoFar, n
  <2>3. Kept(t, i) = l
    BY DEF Kept
  <2> HIDE DEF o, l
  <2>4. i > 0 => l >= 1 /\ c[l] = t[i]
    <3> SUFFICES ASSUME i > 0 PROVE l >= 1 /\ c[l] = t[i]
      OBVIOUS
    <3>1. l \in 1 .. l /\ l >= 1
      BY <2>1, <2>2
    <3> QED
      BY <2>1, <2>2, <3>1
  <2>5. InPath(t, i) => InPath(c, l)
    BY <2>1, <2>2 DEF InPath
  <2> QED
    BY <2>1, <2>3, <2>4, <2>5
<1> QED
  BY <1>2, <1>3, <1>4, <1>5 DEF n, c

\* What stands behind a byte that is kept, up to the next separator, is kept.
LEMMA KeptElement ==
  ASSUME NEW t \in Seq(Bytes), NEW i \in 0 .. Len(t), ~ Redundant(t, i + 1)
  PROVE  LET c == Collapse(t)
             e == ElementEnd(t, i)
             k == Kept(t, i)
         IN /\ e \in i .. Len(t)
            /\ ElementEnd(c, k) = k + (e - i)
            /\ Piece(c, k, k + (e - i)) = Piece(t, i, e)
<1> DEFINE n == Len(t)
           c == Collapse(t)
           j == i + 1
           e == ElementEnd(t, i)
           k == Kept(t, i)
           d == e - i
           S == {x \in Nat : Kept(t, i + x) = k + x}
<1>1. n \in Nat /\ i \in 0 .. n /\ j \in 1 .. n + 1
  BY LenProperties
<1>2. /\ e \in i .. n /\ e + 1 \in j .. n + 1
      /\ \A x \in j .. e : t[x] \notin Separators
      /\ e + 1 <= n => t[e + 1] \in Separators
  <2> DEFINE x == FirstOf(t, j, Separators)
  <2>1. /\ x \in j .. n + 1
        /\ \A y \in j .. x - 1 : t[y] \notin Separators
        /\ x <= n => t[x] \in Separators
    BY <1>1, FirstOfIs DEF n
  <2>2. e = x - 1
    BY DEF ElementEnd
  <2> HIDE DEF x, e, n, j
  <2>3. e \in i .. n /\ e + 1 = x
    BY <1>1, <2>1, <2>2 DEF j
  <2> QED
    BY <2>1, <2>2, <2>3
<1>3. /\ c \in Seq(Bytes) /\ Kept(t, n) = Len(c) /\ k \in Nat
      /\ \A x \in 0 .. n : Kept(t, x) \in 0 .. Len(c) /\ (x > 0 => c[Kept(t, x)] = t[x])
  <2>1. /\ c \in Seq(Bytes) /\ Kept(t, n) = Len(c)
        /\ \A x \in 0 .. n : Kept(t, x) \in 0 .. Len(c) /\ (x > 0 => c[Kept(t, x)] = t[x])
    BY KeptIs
  <2>2. k \in 0 .. Len(c)
    BY <1>1, <2>1
  <2> QED
    BY <2>1, <2>2
<1> HIDE DEF n, c, e, k
<1>4. d \in Nat /\ i + d = e /\ i + 0 = i /\ k + 0 = k /\ Len(c) \in Nat
  BY <1>1, <1>2, <1>3, LenProperties
<1> HIDE DEF d
<1>5. 0 \in S
  BY <1>4 DEF k
<1>6. ASSUME NEW x \in 0 .. d - 1, x \in S PROVE x + 1 \in S
  <2> DEFINE y == i + x
             z == y + 1
  <2>1. y \in 0 .. n - 1 /\ z \in j .. e /\ i + (x + 1) = z /\ k + (x + 1) = (k + x) + 1 /\ x + 1 \in Nat
    BY <1>1, <1>2, <1>3, <1>4, <1>6
  <2>2. t[z] \notin Separators
    BY <1>2, <2>1
  <2>3. ~ Redundant(t, z)
    BY <2>2 DEF Redundant, Separators
  <2>4. Kept(t, z) = Kept(t, y) + 1
    BY <2>1, <2>3, KeptNext DEF n
  <2>5. Kept(t, y) = k + x
    BY <1>6
  <2> HIDE DEF y, z
  <2>6. Kept(t, i + (x + 1)) = k + (x + 1)
    BY <2>1, <2>4, <2>5
  <2> QED
    BY <2>1, <2>6
<1>7. ASSUME NEW x \in 0 .. d PROVE Kept(t, i + x) = k + x
  <2> HIDE DEF S
  <2>1. \A y \in 0 .. d : y \in S
    BY <1>4, <1>5, <1>6, UpTo
  <2>2. x \in S
    BY <2>1
  <2> QED
    BY <2>2 DEF S
<1> DEFINE f == k + d
           g == k + 1
           h == f + 1
<1>8. Kept(t, e) = f /\ f \in k .. Len(c) /\ d \in 0 .. d /\ g \in 1 .. Len(c) + 1 /\ h \in g .. Len(c) + 1
      /\ h - 1 = f
  <2>1. d \in 0 .. d
    BY <1>4
  <2>2. Kept(t, i + d) = k + d
    BY <1>7, <2>1
  <2>3. Kept(t, e) = f
    BY <1>4, <2>2, Zenon
  <2>4. Kept(t, e) \in 0 .. Len(c)
    <3>1. e \in 0 .. n
      BY <1>1, <1>2
    <3> QED
      BY <1>3, <3>1
  <2> QED
    BY <1>3, <1>4, <2>1, <2>3, <2>4
<1>9. ASSUME NEW x \in 1 .. d PROVE c[k + x] = t[i + x] /\ t[i + x] \notin Separators
  <2>1. x \in 0 .. d /\ i + x \in 0 .. n /\ i + x > 0 /\ i + x \in j .. e
    BY <1>1, <1>2, <1>4, <1>9
  <2>2. Kept(t, i + x) = k + x
    BY <1>7, <2>1
  <2>3. c[Kept(t, i + x)] = t[i + x]
    BY <1>3, <2>1
  <2> QED
    BY <1>2, <2>1, <2>2, <2>3
<1>10. h <= Len(c) => c[h] \in Separators
  <2> DEFINE x == e + 1
  <2>1. CASE e < n
    <3>1. x \in 0 .. n /\ x > 0 /\ x <= n /\ e \in 0 .. n - 1
      BY <1>1, <1>2, <2>1
    <3>2. ~ Redundant(t, x)
      <4>1. CASE e = i
        BY <4>1
      <4>2. CASE e # i
        <5>1. e \in j .. e /\ x - 1 = e
          BY <1>1, <1>2, <4>2
        <5>2. t[e] \notin Separators
          BY <1>2, <5>1
        <5> QED
          BY <5>1, <5>2 DEF Redundant, Separators
      <4> QED
        BY <4>1, <4>2
    <3>3. Kept(t, x) = Kept(t, e) + 1
      BY <3>1, <3>2, KeptNext DEF n
    <3> HIDE DEF x
    <3>4. Kept(t, x) = h
      BY <1>8, <3>3
    <3>5. c[Kept(t, x)] = t[x]
      BY <1>3, <3>1
    <3> QED
      BY <1>2, <3>1, <3>4, <3>5 DEF x
  <2>2. CASE e = n
    <3>1. f = Len(c)
      BY <1>3, <1>8, <2>2
    <3> QED
      BY <1>4, <3>1
  <2> QED
    BY <1>1, <1>2, <2>1, <2>2
<1>11. ElementEnd(c, k) = f
  <2>1. \A y \in g .. h - 1 : c[y] \notin Separators
    <3> SUFFICES ASSUME NEW y \in g .. f PROVE c[y] \notin Separators
      BY <1>8
    <3>1. y - k \in 1 .. d /\ k + (y - k) = y
      BY <1>3, <1>4
    <3>2. c[k + (y - k)] = t[i + (y - k)] /\ t[i + (y - k)] \notin Separators
      BY <1>9, <3>1
    <3> QED
      BY <3>1, <3>2
  <2> HIDE DEF h
  <2>2. FirstOf(c, g, Separators) = h
    BY <1>3, <1>8, <1>10, <2>1, FirstOfFound
  <2> QED
    BY <1>8, <2>2, Zenon DEF ElementEnd
<1>12. Piece(c, k, f) = Piece(t, i, e)
  <2> DEFINE p == Piece(c, k, f)
             q == Piece(t, i, e)
  <2>1. k \in 0 .. Len(c) /\ f \in k .. Len(c) /\ f - k = d /\ i \in 0 .. n /\ e \in i .. n /\ e - i = d
    BY <1>1, <1>2, <1>3, <1>4, <1>8
  <2> HIDE DEF f
  <2>2. p \in Seq(Bytes) /\ Len(p) = f - k /\ \A x \in 1 .. f - k : p[x] = c[k + x]
    BY <1>3, <2>1, PieceType
  <2>3. q \in Seq(Bytes) /\ Len(q) = e - i /\ \A x \in 1 .. e - i : q[x] = t[i + x]
    BY <2>1, PieceType DEF n
  <2> HIDE DEF p, q
  <2>4. Len(p) = Len(q) /\ \A x \in 1 .. Len(p) : p[x] = q[x]
    BY <1>9, <2>1, <2>2, <2>3
  <2>5. p = q
    BY <2>2, <2>3, <2>4, SeqEqual
  <2> QED
    BY <2>5 DEF p, q
<1> QED
  BY <1>2, <1>11, <1>12 DEF n, c, e, k, d

\* The path ends with the same byte.
LEMMA KeptPath ==
  ASSUME NEW t \in Seq(Bytes)
  PROVE  PathEnd(Collapse(t)) - 1 = Kept(t, PathEnd(t) - 1)
<1> DEFINE n == Len(t)
           c == Collapse(t)
           m == PathEnd(t) - 1
           k == Kept(t, m)
           h == k + 1
           x == m + 1
<1>1. n \in Nat /\ 1 \in 1 .. n + 1
  BY LenProperties
<1>2. /\ PathEnd(t) \in 1 .. n + 1
      /\ PathEnd(t) <= n => t[PathEnd(t)] \in {Query, Hash}
  BY <1>1, FirstOfIs DEF PathEnd
<1>3. m \in 0 .. n /\ m < PathEnd(t) /\ m + 1 = PathEnd(t)
  BY <1>1, <1>2
<1>4. InPath(t, m)
  BY <1>3, PathEndIs
<1>5. x <= n => t[x] \in {Query, Hash}
  BY <1>2, <1>3
<1> HIDE DEF m, n, c
<1>6. /\ c \in Seq(Bytes) /\ k \in 0 .. Len(c) /\ InPath(c, k) /\ Kept(t, n) = Len(c)
      /\ \A y \in 0 .. n : y > 0 => c[Kept(t, y)] = t[y]
  BY <1>3, <1>4, KeptIs DEF n, c
<1>7. Len(c) \in Nat
  BY <1>6, LenProperties
<1>8. h <= Len(c) => c[h] \in {Query, Hash}
  <2>1. CASE m < n
    <3>1. x \in 0 .. n /\ x > 0 /\ x <= n /\ m \in 0 .. n - 1
      BY <1>1, <1>3, <2>1
    <3>2. ~ Redundant(t, x)
      BY <1>5, <3>1 DEF Redundant, Slash, Query, Hash
    <3>3. Kept(t, x) = h
      BY <3>1, <3>2, KeptNext DEF n
    <3> HIDE DEF x, h
    <3>4. c[Kept(t, x)] = t[x]
      BY <1>6, <3>1
    <3> QED
      BY <1>5, <3>1, <3>3, <3>4
  <2>2. CASE m = n
    <3>1. k = Len(c)
      BY <1>6, <2>2
    <3> QED
      BY <1>7, <3>1
  <2> QED
    BY <1>1, <1>3, <2>1, <2>2
<1> HIDE DEF k
<1>9. PathEnd(c) = h
  <2>1. 1 \in 1 .. Len(c) + 1 /\ h \in 1 .. Len(c) + 1 /\ h - 1 = k
    BY <1>6, <1>7
  <2>2. \A y \in 1 .. h - 1 : c[y] \notin {Query, Hash}
    BY <1>6, <2>1 DEF InPath
  <2> HIDE DEF h
  <2> QED
    BY <1>6, <1>8, <2>1, <2>2, FirstOfFound DEF PathEnd
<1>10. PathEnd(c) - 1 = k
  BY <1>6, <1>7, <1>9
<1> QED
  BY <1>10 DEF c, k, m

\* Where the places are that the first i bytes of t lead through, in what
\* Collapse leaves: in front of the last slash, while its run goes on.
PlaceAt(t, i) == IF Redundant(t, i + 1) THEN Kept(t, i) - 1 ELSE Kept(t, i)

\* A path leads through the same places without its empty elements.
LEMMA CollapseEnters ==
  ASSUME NEW t \in Seq(Bytes)
  PROVE  LET c == Collapse(t)
             m == PathEnd(t) - 1
             k == PathEnd(c) - 1
         IN Entered(Piece(t, 0, m))[m] = Entered(Piece(c, 0, k))[k]
<1> DEFINE c == Collapse(t)
           n == Len(t)
           m == PathEnd(t) - 1
           l == PathEnd(c) - 1
           w == Entered(Piece(t, 0, m))
           v == Entered(Piece(c, 0, l))
           S == {i \in Nat : w[i] = v[PlaceAt(t, i)]}
<1>1. /\ c \in Seq(Bytes) /\ Kept(t, 0) = 0
      /\ \A i \in 0 .. n :
            /\ Kept(t, i) \in 0 .. Len(c)
            /\ i > 0 => Kept(t, i) >= 1 /\ c[Kept(t, i)] = t[i]
            /\ InPath(t, i) => InPath(c, Kept(t, i))
  BY KeptIs
<1>2. l = Kept(t, m)
  BY KeptPath
<1>3. PathEnd(t) \in 1 .. n + 1 /\ n \in Nat /\ \A x \in 0 .. n : x < PathEnd(t) <=> InPath(t, x)
  BY PathEndIs, LenProperties
<1>4. m \in 0 .. n /\ m \in Nat /\ m < PathEnd(t) /\ m + 1 = PathEnd(t)
  BY <1>3
<1>5. /\ w[0] = (IF Piece(t, 0, ElementEnd(t, 0)) = <<>> THEN << <<>> >>
                 ELSE << <<>>, Piece(t, 0, ElementEnd(t, 0)) >>)
      /\ \A i \in 1 .. m :
            w[i] = IF t[i] # Slash \/ (ElementEnd(t, i) = i /\ i < m) THEN w[i - 1]
                   ELSE EnteredBy(w[i - 1], Piece(t, i - 1, ElementEnd(t, i)))
  BY EnteredIs
<1>6. /\ v[0] = (IF Piece(c, 0, ElementEnd(c, 0)) = <<>> THEN << <<>> >>
                 ELSE << <<>>, Piece(c, 0, ElementEnd(c, 0)) >>)
      /\ \A i \in 1 .. l :
            v[i] = IF c[i] # Slash \/ (ElementEnd(c, i) = i /\ i < l) THEN v[i - 1]
                   ELSE EnteredBy(v[i - 1], Piece(c, i - 1, ElementEnd(c, i)))
  BY <1>1, EnteredIs
<1>7. \A i \in 0 .. n : Kept(t, i) < PathEnd(c) <=> InPath(c, Kept(t, i))
  <2> HIDE DEF c
  <2> QED
    BY <1>1, PathEndIs
<1>8. PathEnd(c) \in 1 .. Len(c) + 1 /\ Len(c) \in Nat /\ l + 1 = PathEnd(c) /\ l \in 0 .. Len(c)
  <2>1. PathEnd(c) \in 1 .. Len(c) + 1 /\ Len(c) \in Nat
    BY <1>1, PathEndIs, LenProperties
  <2> QED
    BY <2>1
<1> HIDE DEF c, n, m, l, w, v
<1>9. ASSUME NEW i \in 0 .. m
      PROVE  Kept(t, i) \in 0 .. l /\ i \in 0 .. n
  <2>1. i \in 0 .. n /\ i < PathEnd(t)
    BY <1>3, <1>4
  <2>2. InPath(t, i)
    BY <1>3, <2>1
  <2>3. Kept(t, i) < PathEnd(c) /\ Kept(t, i) \in 0 .. Len(c)
    BY <1>1, <1>7, <2>1, <2>2
  <2> QED
    BY <1>8, <2>1, <2>3
<1>10. 0 \in S
  <2> DEFINE e == ElementEnd(t, 0)
             d == ElementEnd(c, 0)
  <2>1. ~ Redundant(t, 0 + 1) /\ 0 \in 0 .. n
    BY <1>3 DEF Redundant
  <2>2. e \in 0 .. n /\ d = 0 + (e - 0) /\ Piece(c, 0, 0 + (e - 0)) = Piece(t, 0, e)
    <3>1. /\ e \in 0 .. n
          /\ ElementEnd(c, Kept(t, 0)) = Kept(t, 0) + (e - 0)
          /\ Piece(c, Kept(t, 0), Kept(t, 0) + (e - 0)) = Piece(t, 0, e)
      BY <2>1, KeptElement DEF n, c
    <3> HIDE DEF e
    <3> QED
      BY <1>1, <3>1
  <2> HIDE DEF e, d
  <2>3. Piece(c, 0, d) = Piece(t, 0, e)
    BY <2>2
  <2>4. w[0] = v[0]
    BY <1>5, <1>6, <2>3, Zenon DEF e, d
  <2>5. PlaceAt(t, 0) = 0
    BY <1>1, <2>1 DEF PlaceAt
  <2> QED
    BY <2>4, <2>5
<1>11. ASSUME NEW i \in 0 .. m - 1, i \in S PROVE i + 1 \in S
  <2> DEFINE j == i + 1
             x == j + 1
             k == Kept(t, j)
             e == ElementEnd(t, j)
             d == ElementEnd(c, k)
  <2>1. /\ j \in 1 .. m /\ j \in 0 .. m /\ j - 1 = i /\ j > 0 /\ i \in 0 .. n - 1 /\ j \in 0 .. n /\ x - 1 = j
        /\ i \in 0 .. m /\ j \in Nat
    BY <1>3, <1>4
  <2>2. w[i] = v[PlaceAt(t, i)]
    BY <1>11
  <2>3. w[j] = IF t[j] # Slash \/ (e = j /\ j < m) THEN w[i] ELSE EnteredBy(w[i], Piece(t, i, e))
    BY <1>5, <2>1
  <2>4. k \in 1 .. l /\ c[k] = t[j]
    <3>1. k \in 0 .. l
      BY <1>9, <2>1
    <3>2. k >= 1 /\ c[k] = t[j]
      BY <1>1, <2>1
    <3> QED
      BY <1>8, <3>1, <3>2
  <2>5. v[k] = IF c[k] # Slash \/ (d = k /\ k < l) THEN v[k - 1] ELSE EnteredBy(v[k - 1], Piece(c, k - 1, d))
    <3> HIDE DEF k
    <3> QED
      BY <1>6, <2>4
  <2>6. PlaceAt(t, i) = k - 1
    <3> DEFINE h == Kept(t, i)
    <3>1. /\ h \in Nat
          /\ Redundant(t, j) => k = h
          /\ ~ Redundant(t, j) => k = h + 1
      BY <2>1, KeptNext DEF n
    <3>2. PlaceAt(t, i) = IF Redundant(t, j) THEN h - 1 ELSE h
      BY DEF PlaceAt
    <3> HIDE DEF h, k, j
    <3> QED
      BY <3>1, <3>2
  <2>7. PlaceAt(t, j) = IF Redundant(t, x) THEN k - 1 ELSE k
    BY DEF PlaceAt
  <2>8. /\ e \in j .. m
        /\ e < m => t[e + 1] = Slash
    <3> HIDE DEF j
    <3> QED
      BY <2>1, ElementEndIs DEF e, m
  <2>9. Redundant(t, x) <=> x <= m /\ t[x] = Slash /\ t[j] = Slash
    <3>1. x \in 2 .. PathEnd(t) - 1 <=> x <= m
      BY <1>3, <1>4, <2>1
    <3> HIDE DEF x, j
    <3> QED
      BY <2>1, <3>1 DEF Redundant
  <2>10. ~ Redundant(t, x) => d = k + (e - j) /\ Piece(c, k, d) = Piece(t, j, e)
    <3> HIDE DEF j
    <3> SUFFICES ASSUME ~ Redundant(t, x) PROVE d = k + (e - j) /\ Piece(c, k, d) = Piece(t, j, e)
      OBVIOUS
    <3>1. d = k + (e - j) /\ Piece(c, k, k + (e - j)) = Piece(t, j, e)
      BY <2>1, KeptElement DEF n, c, x
    <3> HIDE DEF d, k, e
    <3> QED
      BY <3>1, Zenon
  <2>11. x <= m /\ t[x] = Slash => e = j
    <3> SUFFICES ASSUME x <= m, t[x] = Slash PROVE e = j
      OBVIOUS
    <3>1. j \in 0 .. PathEnd(t) - 2 /\ j + 1 = x
      BY <1>3, <1>4, <2>1
    <3> HIDE DEF j, x
    <3> QED
      BY <3>1, ElementEndNext DEF e
  <2> HIDE DEF e, d, k, S
  <2>12. CASE t[j] # Slash
    <3>1. w[j] = w[i]
      BY <2>3, <2>12
    <3>2. v[k] = v[k - 1]
      BY <2>4, <2>5, <2>12
    <3>3. PlaceAt(t, j) = k
      BY <2>7, <2>9, <2>12
    <3> HIDE DEF j
    <3>4. w[j] = v[PlaceAt(t, j)]
      BY <2>2, <2>6, <3>1, <3>2, <3>3, Zenon
    <3>5. j \in S
      BY <2>1, <3>4 DEF S
    <3> QED
      BY <3>5 DEF j
  <2>13. CASE Redundant(t, x)
    <3>1. t[j] = Slash /\ e = j /\ j < m
      BY <1>4, <2>1, <2>9, <2>11, <2>13
    <3>2. w[j] = w[i]
      BY <2>3, <3>1
    <3>3. PlaceAt(t, j) = k - 1
      BY <2>7, <2>13
    <3> HIDE DEF j
    <3>4. w[j] = v[PlaceAt(t, j)]
      BY <2>2, <2>6, <3>2, <3>3, Zenon
    <3>5. j \in S
      BY <2>1, <3>4 DEF S
    <3> QED
      BY <3>5 DEF j
  <2>14. CASE t[j] = Slash /\ ~ Redundant(t, x)
    <3>1. ~ (e = j /\ j < m)
      <4> SUFFICES ASSUME e = j, j < m PROVE FALSE
        OBVIOUS
      <4>1. x <= m /\ t[x] = Slash
        BY <1>4, <2>1, <2>8
      <4> QED
        BY <2>9, <2>14, <4>1
    <3>2. w[j] = EnteredBy(w[i], Piece(t, i, e))
      BY <2>3, <2>14, <3>1
    <3>3. d = k + (e - j) /\ Piece(c, k, d) = Piece(t, j, e)
      BY <2>10, <2>14
    <3>4. ~ (d = k /\ k < l)
      <4> SUFFICES ASSUME d = k, k < l PROVE FALSE
        OBVIOUS
      <4>1. e = j
        BY <1>4, <1>8, <2>1, <2>4, <2>8, <3>3
      <4>2. j = m
        BY <1>4, <2>1, <3>1, <4>1
      <4>3. k = l
        BY <1>2, <4>2 DEF k
      <4> QED
        BY <1>8, <4>3
    <3>5. v[k] = EnteredBy(v[k - 1], Piece(c, k - 1, d))
      BY <2>4, <2>5, <2>14, <3>4
    <3>6. Piece(c, k - 1, d) = Piece(t, i, e)
      <4>1. Piece(t, j - 1, e) = <<Slash>> \o Piece(t, j, e)
        <5>1. j \in 1 .. PathEnd(t) - 1 /\ t[j] = Slash
          BY <2>1, <2>14 DEF m
        <5> HIDE DEF j
        <5> QED
          BY <5>1, ElementIs DEF e
      <4>2. Piece(c, k - 1, d) = <<Slash>> \o Piece(c, k, d)
        <5>1. k \in 1 .. PathEnd(c) - 1 /\ c[k] = Slash
          BY <2>4, <2>14 DEF l
        <5> QED
          BY <1>1, <5>1, ElementIs DEF d
      <4>3. Piece(t, i, e) = <<Slash>> \o Piece(t, j, e)
        <5> HIDE DEF j
        <5> QED
          BY <2>1, <4>1, Zenon
      <4> QED
        BY <3>3, <4>2, <4>3, Zenon
    <3>7. PlaceAt(t, j) = k
      BY <2>7, <2>14
    <3> HIDE DEF j
    <3>8. w[j] = v[PlaceAt(t, j)]
      BY <2>2, <2>6, <3>2, <3>5, <3>6, <3>7, Zenon
    <3>9. j \in S
      BY <2>1, <3>8 DEF S
    <3> QED
      BY <3>9 DEF j
  <2> QED
    BY <2>12, <2>13, <2>14
<1>12. m \in S
  <2> HIDE DEF S
  <2>1. \A i \in 0 .. m : i \in S
    BY <1>4, <1>10, <1>11, UpTo
  <2> QED
    BY <1>4, <2>1
<1>13. PlaceAt(t, m) = l
  <2>1. ~ Redundant(t, m + 1)
    BY <1>3, <1>4 DEF Redundant
  <2> QED
    BY <1>2, <2>1 DEF PlaceAt
<1>14. w[m] = v[l]
  <2>1. w[m] = v[PlaceAt(t, m)]
    BY <1>12
  <2> QED
    BY <1>13, <2>1, Zenon
<1> QED
  BY <1>14 DEF w, v, m, l, c

\* An escape that goes makes no separator: the path ends with the same byte.
LEMMA UnescapePath ==
  ASSUME NEW t \in Seq(Bytes)
  PROVE  PathEnd(Unescape(t)) = PathEnd(t)
<1> DEFINE u == Unescape(t)
           p == PathEnd(t)
           U(b) == IF b \in 256 .. 511 /\ Safe(b - 256) THEN b - 256 ELSE b
<1>1. u \in Seq(Bytes) /\ Len(u) = Len(t) /\ \A i \in 1 .. Len(t) : u[i] = U(t[i])
  BY UnescapeType
<1>2. \A b : U(b) \in {Query, Hash} <=> b \in {Query, Hash}
  <2>1. ~ Safe(Query) /\ ~ Safe(Hash)
    BY DEF Safe, Letters, Digits, Dot, Query, Hash
  <2>2. Query \notin 256 .. 511 /\ Hash \notin 256 .. 511
    BY DEF Query, Hash
  <2> SUFFICES ASSUME NEW b PROVE U(b) \in {Query, Hash} <=> b \in {Query, Hash}
    OBVIOUS
  <2>3. CASE b \in 256 .. 511 /\ Safe(b - 256)
    <3> DEFINE d == b - 256
    <3>1. U(b) = d /\ Safe(d)
      BY <2>3
    <3> HIDE DEF d, U
    <3> QED
      BY <2>1, <2>2, <2>3, <3>1, ZenonT(40)
  <2>4. CASE ~ (b \in 256 .. 511 /\ Safe(b - 256))
    BY <2>4
  <2> QED
    BY <2>3, <2>4
<1>3. Len(t) \in Nat /\ 1 \in 1 .. Len(t) + 1
  BY LenProperties
<1>4. /\ p \in 1 .. Len(t) + 1
      /\ \A k \in 1 .. p - 1 : t[k] \notin {Query, Hash}
      /\ p <= Len(t) => t[p] \in {Query, Hash}
  BY <1>3, FirstOfIs DEF PathEnd
<1> HIDE DEF u, p, U
<1>5. \A k \in 1 .. p - 1 : u[k] \notin {Query, Hash}
  <2> SUFFICES ASSUME NEW k \in 1 .. p - 1 PROVE u[k] \notin {Query, Hash}
    OBVIOUS
  <2>1. k \in 1 .. Len(t)
    BY <1>3, <1>4
  <2> QED
    BY <1>1, <1>2, <1>4, <2>1
<1>6. p <= Len(u) => u[p] \in {Query, Hash}
  <2> SUFFICES ASSUME p <= Len(t) PROVE u[p] \in {Query, Hash}
    BY <1>1
  <2>1. p \in 1 .. Len(t)
    BY <1>3, <1>4
  <2> QED
    BY <1>1, <1>2, <1>4, <2>1
<1>7. 1 \in 1 .. Len(u) + 1 /\ p \in 1 .. Len(u) + 1
  BY <1>1, <1>3, <1>4
<1>8. PathEnd(u) = p
  BY <1>1, <1>5, <1>6, <1>7, FirstOfFound DEF PathEnd
<1> QED
  BY <1>8 DEF u, p

\* The path of a canonical text is where the path of the text leads to, its
\* needless escapes apart.
LEMMA CanonicalPath ==
  ASSUME NEW t \in Seq(Bytes)
  PROVE  LET r == Canonical(t)
         IN SubSeq(r, 1, PathEnd(r) - 1) = Normal(SubSeq(Unescape(t), 1, PathEnd(t) - 1))
<1> DEFINE u == Unescape(t)
           c == Collapse(u)
           r == Canonical(t)
           m == PathEnd(u) - 1
           l == PathEnd(c) - 1
           p == Piece(u, 0, m)
           place == Entered(Piece(c, 0, l))[l]
           path == SubSeq(r, 1, PathEnd(r) - 1)
<1>1. u \in Seq(Bytes) /\ PathEnd(u) = PathEnd(t)
  BY UnescapeType, UnescapePath
<1>2. r = Resolve(c)
  BY DEF Canonical
<1> HIDE DEF u
<1>3. c \in Seq(Bytes) /\ Spaced(c)
  BY <1>1, CollapseIs
<1>4. Entered(p)[m] = place
  BY <1>1, CollapseEnters
<1> HIDE DEF c
<1>5. path = Last(place)
  <2>1. SubSeq(Resolve(c), 1, PathEnd(Resolve(c)) - 1) = Last(place)
    BY <1>3, ResolvedPath
  <2> HIDE DEF r, place
  <2> QED
    BY <1>2, <2>1, Zenon
<1>6. Len(p) = m
  BY <1>1, PathPiece
<1> HIDE DEF place, path, r
<1>7. p = SubSeq(u, 1, PathEnd(t) - 1)
  <2>1. 0 + 1 = 1
    OBVIOUS
  <2>2. m = PathEnd(t) - 1
    BY <1>1, Zenon
  <2> HIDE DEF m
  <2> QED
    BY <2>1, <2>2, Zenon DEF Piece
<1>8. Normal(p) = Last(place)
  <2> HIDE DEF p, m
  <2> QED
    BY <1>4, <1>6, Zenon DEF Normal
<1> HIDE DEF p
<1> QED
  BY <1>5, <1>7, <1>8, Zenon DEF path, r, u

-----------------------------------------------------------------------------
(* Where the host begins and ends. *)

\* What stands in front of the host, if it begins at begin: nothing, a user, or
\* a user behind an empty one.
UserIs(user, begin, old, rest) ==
    \/ begin = 1 /\ user = old
    \/ Piece(rest, 0, begin - 1) = user \o <<At>>
    \/ user # <<>> /\ Piece(rest, 0, begin - 1) = <<At>> \o user \o <<At>>

\* Of the bytes from begin to end, none ends the host, or a user, but for one
\* behind an "@".
HostRuns(rest, begin, end) ==
    \A x \in begin .. end : rest[x] \in Separators \cup {At} => x = begin /\ begin # 1

\* What the scan knows behind its first i bytes.
ScanInv(u, rest, a, i) ==
    /\ a \in [begin : 1 .. Len(rest) + 1, end : 0 .. Len(rest), user : Seq(Bytes),
              failed : BOOLEAN]
    /\ a.begin <= i + 1 /\ a.end <= i
    /\ a.end # 0 => a.begin <= a.end /\ rest[a.end] \in Separators
    /\ UserIs(a.user, a.begin, u.userinfo, rest)
    /\ a.failed \/ HostRuns(rest, a.begin, IF a.end = 0 THEN i ELSE a.end - 1)

\* An "@" ends a user, unless there is one.
LEMMA UserFound ==
  ASSUME NEW rest \in Seq(Bytes), NEW old, NEW begin, NEW i \in 1 .. Len(rest),
         begin \in 1 .. i, begin = i => i = 1,
         UserIs(<<>>, begin, old, rest), rest[i] = At
  PROVE  /\ SubSeq(rest, begin, i - 1) \in Seq(Bytes)
         /\ UserIs(SubSeq(rest, begin, i - 1), i + 1, old, rest)
<1> DEFINE n == Len(rest)
           b == begin - 1
           user == Piece(rest, b, i - 1)
<1>1. n \in Nat /\ i \in 1 .. n
  BY LenProperties
<1>2. b \in 0 .. i - 1 /\ b \in 0 .. n /\ i - 1 \in b .. n /\ i \in i - 1 .. n /\ b + 1 = begin
      /\ 0 \in 0 .. n /\ i - 1 \in 0 .. n /\ i \in b .. n /\ i - 1 \in 0 .. n /\ i \in 0 .. n
      /\ b \in 0 .. i /\ i - (i - 1) = 1 /\ (i - 1) + 1 = i /\ (i + 1) - 1 = i
      /\ begin \in Int /\ 0 + 1 = 1
  BY <1>1
<1> HIDE DEF n
<1>3. user = SubSeq(rest, begin, i - 1)
  BY <1>2, Zenon DEF Piece
<1>4. user \in Seq(Bytes) /\ Len(user) = (i - 1) - b
  <2> HIDE DEF b
  <2> QED
    BY <1>2, PieceType DEF n
<1>5. Piece(rest, i - 1, i) = <<At>>
  <2> DEFINE j == i - 1
  <2>1. j \in 0 .. n - 1 /\ j + 1 = i
    BY <1>1
  <2> HIDE DEF j
  <2>2. Piece(rest, j, j + 1) = <<rest[j + 1]>>
    BY <2>1, PieceOfOne DEF n
  <2> QED
    BY <2>1, <2>2 DEF j
<1>6. Piece(rest, 0, i) = Piece(rest, 0, b) \o user \o <<At>>
  <2>1. Piece(rest, 0, b) \o Piece(rest, b, i - 1) = Piece(rest, 0, i - 1)
    BY <1>2, PieceJoin DEF n
  <2>2. Piece(rest, 0, i - 1) \o Piece(rest, i - 1, i) = Piece(rest, 0, i)
    BY <1>2, PieceJoin DEF n
  <2> QED
    BY <1>5, <2>1, <2>2, Zenon
<1>7. CASE begin = 1
  <2>1. b = 0
    BY <1>7
  <2>2. Piece(rest, 0, b) = <<>>
    BY <2>1, PieceEmpty
  <2>3. <<>> \o user = user
    BY <1>4
  <2>4. Piece(rest, 0, i) = user \o <<At>>
    BY <1>6, <2>2, <2>3, Zenon
  <2> HIDE DEF user, b
  <2>5. UserIs(user, i + 1, old, rest)
    BY <1>2, <2>4, Zenon DEF UserIs
  <2> QED
    BY <1>3, <1>4, <2>5, Zenon
<1>8. CASE begin # 1
  <2>1. Piece(rest, 0, b) = <<>> \o <<At>>
    BY <1>8 DEF UserIs
  <2>2. <<>> \o <<At>> = <<At>>
    OBVIOUS
  <2>3. user # <<>>
    <3>1. begin # i
      BY <1>1, <1>8
    <3>2. (i - 1) - b # 0
      BY <1>1, <1>2, <3>1
    <3> HIDE DEF user
    <3> QED
      BY <1>4, <3>2
  <2>4. Piece(rest, 0, i) = <<At>> \o user \o <<At>>
    BY <1>6, <2>1, <2>2, Zenon
  <2> HIDE DEF user, b
  <2>5. UserIs(user, i + 1, old, rest)
    BY <1>2, <2>3, <2>4, Zenon DEF UserIs
  <2> QED
    BY <1>3, <1>4, <2>5, Zenon
<1> QED
  BY <1>7, <1>8

\* The scan, byte by byte.
LEMMA ScannedIs ==
  ASSUME NEW u, u.userinfo \in Seq(Bytes), NEW rest \in Seq(Bytes)
  PROVE  \A i \in 0 .. Len(rest) : ScanInv(u, rest, Scanned(u, rest)[i], i)
<1> DEFINE n == Len(rest)
           acc == Scanned(u, rest)
           Right == {i \in Nat : ScanInv(u, rest, acc[i], i)}
<1>1. n \in Nat
  BY LenProperties
<1>2. \A i \in 0 .. n : acc[i] = ScannedStep(u, rest, acc, i)
  BY <1>1, ScannedEquation
<1> HIDE DEF acc
<1>3. 0 \in Right
  <2>1. acc[0] = [begin |-> 1, end |-> 0, user |-> u.userinfo, failed |-> FALSE]
    <3>1. 0 \in 0 .. n
      BY <1>1
    <3> QED
      BY <1>2, <3>1, Zenon DEF ScannedStep
  <2>2. UserIs(u.userinfo, 1, u.userinfo, rest)
    BY DEF UserIs
  <2>3. ScanInv(u, rest, acc[0], 0)
    BY <1>1, <2>1, <2>2 DEF ScanInv, HostRuns
  <2> QED
    BY <2>3
<1>4. ASSUME NEW j \in 0 .. n - 1, j \in Right PROVE j + 1 \in Right
  <2> DEFINE i == j + 1
             was == acc[j]
             now == acc[i]
  <2>1. i \in 0 .. n /\ i # 0 /\ i - 1 = j /\ i \in 1 .. n /\ i \in Nat
    BY <1>1
  <2>2. ScanInv(u, rest, was, j)
    BY <1>4
  <2>3. now = IF was.end # 0 \/ was.failed \/ (i = was.begin /\ i > 1) THEN was
              ELSE IF rest[i] \in Separators THEN [was EXCEPT !.end = i]
              ELSE IF rest[i] # At THEN was
              ELSE IF was.user # <<>> THEN [was EXCEPT !.failed = TRUE]
              ELSE [was EXCEPT !.user = SubSeq(rest, was.begin, i - 1), !.begin = i + 1]
    BY <1>2, <2>1, ZenonT(40) DEF ScannedStep
  <2> HIDE DEF i, now
  <2> SUFFICES ScanInv(u, rest, now, i)
    BY <2>1 DEF i, now
  <2>4. /\ was \in [begin : 1 .. n + 1, end : 0 .. n, user : Seq(Bytes), failed : BOOLEAN]
        /\ was.begin <= i /\ was.end < i
    BY <1>1, <2>1, <2>2 DEF ScanInv
  <2>h. was.failed \/ HostRuns(rest, was.begin, IF was.end = 0 THEN j ELSE was.end - 1)
    BY <2>2 DEF ScanInv
  <2>5. CASE /\ now = was
             /\ was.end # 0 \/ was.failed \/ (i = was.begin /\ i > 1)
                \/ rest[i] \notin Separators \cup {At}
    <3>1. was.failed \/ HostRuns(rest, was.begin, IF was.end = 0 THEN i ELSE was.end - 1)
      <4>1. CASE was.end # 0 \/ was.failed
        BY <2>h, <4>1
      <4>2. CASE was.end = 0 /\ ~ was.failed
        BY <2>1, <2>4, <2>5, <2>h, <4>2 DEF HostRuns
      <4> QED
        BY <4>1, <4>2
    <3> QED
      BY <1>1, <2>1, <2>2, <2>4, <2>5, <3>1 DEF ScanInv
  <2>6. CASE now = [was EXCEPT !.end = i] /\ rest[i] \in Separators /\ was.end = 0
    <3>1. /\ now.begin = was.begin /\ now.end = i /\ now.user = was.user
          /\ now.failed = was.failed
          /\ now \in [begin : 1 .. n + 1, end : 0 .. n, user : Seq(Bytes), failed : BOOLEAN]
      BY <2>1, <2>4, <2>6
    <3> QED
      <4>1. now.failed \/ HostRuns(rest, now.begin, IF now.end = 0 THEN i ELSE now.end - 1)
        BY <2>1, <2>6, <2>h, <3>1
      <4>2. UserIs(now.user, now.begin, u.userinfo, rest)
        BY <2>2, <3>1 DEF ScanInv
      <4>3. now.begin <= i + 1 /\ now.end <= i /\ (now.end # 0 => now.begin <= now.end /\ rest[now.end] \in Separators)
        BY <2>1, <2>4, <2>6, <3>1
      <4> QED
        BY <3>1, <4>1, <4>2, <4>3 DEF ScanInv
  <2>7. CASE now = [was EXCEPT !.failed = TRUE]
    <3>1. /\ now.begin = was.begin /\ now.end = was.end /\ now.user = was.user /\ now.failed
          /\ now \in [begin : 1 .. n + 1, end : 0 .. n, user : Seq(Bytes), failed : BOOLEAN]
      BY <2>4, <2>7
    <3> QED
      BY <1>1, <2>1, <2>2, <2>4, <3>1 DEF ScanInv
  <2>8. CASE /\ now = [was EXCEPT !.user = SubSeq(rest, was.begin, i - 1), !.begin = i + 1]
             /\ was.user = <<>> /\ rest[i] = At /\ was.end = 0 /\ ~ (i = was.begin /\ i > 1)
    <3> DEFINE b == was.begin
    <3>1. b \in 1 .. i /\ (b = i => i = 1)
      BY <2>1, <2>4, <2>8
    <3>2. UserIs(<<>>, b, u.userinfo, rest)
      BY <2>2, <2>8 DEF ScanInv
    <3> DEFINE user == SubSeq(rest, b, i - 1)
    <3> HIDE DEF b
    <3>3. user \in Seq(Bytes) /\ UserIs(user, i + 1, u.userinfo, rest)
      BY <2>1, <2>8, <3>1, <3>2, UserFound
    <3>4. now = [was EXCEPT !.user = user, !.begin = i + 1]
      BY <2>8 DEF b
    <3> HIDE DEF user
    <3>5. /\ now.begin = i + 1 /\ now.end = 0 /\ now.user = user
          /\ now \in [begin : 1 .. n + 1, end : 0 .. n, user : Seq(Bytes), failed : BOOLEAN]
      <4> DEFINE k == i + 1
      <4>1. k \in 1 .. n + 1
        BY <1>1, <2>1
      <4> HIDE DEF k
      <4>2. now.begin = k /\ now.end = was.end /\ now.user = user /\ now.failed = was.failed
        BY <2>4, <3>4 DEF k
      <4>3. now \in [begin : 1 .. n + 1, end : 0 .. n, user : Seq(Bytes), failed : BOOLEAN]
        BY <2>4, <3>3, <3>4, <4>1 DEF k
      <4> QED
        BY <2>8, <4>2, <4>3 DEF k
    <3> QED
      BY <1>1, <2>1, <3>3, <3>5 DEF ScanInv, HostRuns
  <2> QED
    BY <2>3, <2>5, <2>6, <2>7, <2>8
<1>5. \A i \in 0 .. n : i \in Right
  <2> HIDE DEF Right, n
  <2> QED
    BY <1>1, <1>3, <1>4, UpTo
<1> QED
  BY <1>5 DEF acc, n

\* The host lies between what stands in front of it and a separator or the end.
LEMMA ScanIs ==
  ASSUME NEW u, u.userinfo \in Seq(Bytes), NEW rest \in Seq(Bytes)
  PROVE  LET scan == Scan(u, rest)
         IN /\ scan.end \in 1 .. Len(rest) + 1 /\ scan.begin \in 1 .. scan.end
            /\ scan.end <= Len(rest) => rest[scan.end] \in Separators
            /\ scan.user \in Seq(Bytes)
            /\ UserIs(scan.user, scan.begin, u.userinfo, rest)
            /\ scan.failed \/ HostRuns(rest, scan.begin, scan.end - 1)
<1> DEFINE n == Len(rest)
           all == Scanned(u, rest)[n]
           scan == Scan(u, rest)
<1>1. n \in Nat
  BY LenProperties
<1>2. ScanInv(u, rest, all, n)
  BY <1>1, ScannedIs
<1>3. scan = IF all.end = 0 THEN [all EXCEPT !.end = n + 1] ELSE all
  BY DEF Scan
<1> HIDE DEF all, scan
<1>4. /\ all \in [begin : 1 .. n + 1, end : 0 .. n, user : Seq(Bytes), failed : BOOLEAN]
      /\ (all.end # 0 => all.begin <= all.end /\ rest[all.end] \in Separators)
      /\ UserIs(all.user, all.begin, u.userinfo, rest)
      /\ all.failed \/ HostRuns(rest, all.begin, IF all.end = 0 THEN n ELSE all.end - 1)
  BY <1>2 DEF ScanInv
<1>5. CASE all.end = 0
  <2>1. /\ scan.end = n + 1 /\ scan.begin = all.begin /\ scan.user = all.user
        /\ scan.failed = all.failed /\ (n + 1) - 1 = n
    BY <1>1, <1>3, <1>4, <1>5
  <2> HIDE DEF n
  <2>2. /\ scan.end \in 1 .. n + 1 /\ scan.begin \in 1 .. scan.end
        /\ ~ (scan.end <= n) /\ scan.user \in Seq(Bytes)
        /\ UserIs(scan.user, scan.begin, u.userinfo, rest)
    BY <1>1, <1>4, <2>1
  <2>3. scan.failed \/ HostRuns(rest, scan.begin, scan.end - 1)
    BY <1>4, <1>5, <2>1
  <2> QED
    BY <2>2, <2>3 DEF scan, n
<1>6. CASE all.end # 0
  <2>1. scan = all
    BY <1>3, <1>6
  <2> HIDE DEF n
  <2>2. /\ scan.end \in 1 .. n + 1 /\ scan.begin \in 1 .. scan.end
        /\ rest[scan.end] \in Separators /\ scan.user \in Seq(Bytes)
        /\ UserIs(scan.user, scan.begin, u.userinfo, rest)
        /\ scan.failed \/ HostRuns(rest, scan.begin, scan.end - 1)
    BY <1>1, <1>4, <1>6, <2>1
  <2> QED
    BY <2>2 DEF scan, n
<1> QED
  BY <1>5, <1>6

-----------------------------------------------------------------------------
(* The host and the port. *)

\* The byte at a position of a text.
LEMMA ByteAtIs ==
  ASSUME NEW t \in Seq(Bytes), NEW i \in Nat \ {0}, NEW b \in 1 .. 255, b # Percent
  PROVE  /\ ByteAt(t, i) = b <=> i <= Len(t) /\ t[i] = b
         /\ ByteAt(t, i) = 0 <=> i > Len(t)
<1>1. Len(t) \in Nat
  BY LenProperties
<1>2. i <= Len(t) => t[i] \in 1 .. 512
  <2>1. i <= Len(t) => i \in 1 .. Len(t)
    BY <1>1
  <2> QED
    BY <2>1, ElementOfSeq, ZenonT(40) DEF Bytes, BadEsc
<1> DEFINE c == t[i]
           l == Len(t)
<1>3. ByteAt(t, i) = IF i > l THEN 0 ELSE IF c > 255 THEN 37 ELSE c
  BY DEF ByteAt, Percent
<1>4. b # 37
  BY DEF Percent
<1> HIDE DEF c, l
<1>5. l \in Nat /\ (i <= l => c \in 1 .. 512)
  BY <1>1, <1>2 DEF c, l
<1>6. ByteAt(t, i) = b <=> i <= l /\ c = b
  BY <1>3, <1>4, <1>5
<1>7. ByteAt(t, i) = 0 <=> i > l
  <2>1. i > l => ByteAt(t, i) = 0
    BY <1>3
  <2>2. ~ (i > l) => ByteAt(t, i) # 0
    <3> SUFFICES ASSUME ~ (i > l) PROVE ByteAt(t, i) # 0
      OBVIOUS
    <3>1. c \in 1 .. 512
      BY <1>5
    <3>2. ByteAt(t, i) = IF c > 255 THEN 37 ELSE c
      BY <1>3
    <3> QED
      BY <3>1, <3>2
  <2> QED
    BY <2>1, <2>2
<1> QED
  BY <1>6, <1>7 DEF c, l

\* The first byte of a text.
LEMMA BeginsWith ==
  ASSUME NEW t \in Seq(Bytes), NEW b \in 1 .. 255, b # Percent
  PROVE  ByteAt(t, 1) = b <=> 1 <= Len(t) /\ t[1] = b
<1>1. \A i \in Nat \ {0} : ByteAt(t, i) = b <=> i <= Len(t) /\ t[i] = b
  BY ByteAtIs, ZenonT(40)
<1>2. 1 \in Nat \ {0}
  OBVIOUS
<1> QED
  BY <1>1, <1>2, Zenon

\* Whether it is a "[".
LEMMA BeginsWithOpen ==
  ASSUME NEW t \in Seq(Bytes)
  PROVE  ByteAt(t, 1) = Open <=> 1 <= Len(t) /\ t[1] = Open
<1>1. Open \in 1 .. 255 /\ Open # Percent
  BY DEF Open, Percent
<1> QED
  BY <1>1, BeginsWith, Zenon

\* The same of a "*".
LEMMA BeginsWithStar ==
  ASSUME NEW t \in Seq(Bytes)
  PROVE  ByteAt(t, 1) = Star <=> 1 <= Len(t) /\ t[1] = Star
<1>1. Star \in 1 .. 255 /\ Star # Percent
  BY DEF Star, Percent
<1> QED
  BY <1>1, BeginsWith, Zenon

\* A text is its first byte and the rest.
LEMMA TailIs ==
  ASSUME NEW t \in Seq(Bytes), Len(t) >= 1
  PROVE  /\ Tail(t) = Piece(t, 1, Len(t)) /\ Piece(t, 0, 1) = <<t[1]>>
         /\ Tail(t) \in Seq(Bytes) /\ Len(Tail(t)) = Len(t) - 1
         /\ t = <<t[1]>> \o Tail(t)
<1> DEFINE n == Len(t)
<1>1. n \in Nat /\ n >= 1
  BY LenProperties
<1>2. /\ 0 \in 0 .. n /\ 1 \in 0 .. n /\ n \in 1 .. n /\ 1 \in 0 .. 1 /\ n \in 0 .. n /\ 1 - 0 = 1
      /\ 1 \in 1 .. 1 - 0 /\ 0 + 1 = 1 /\ 1 + 1 = 2 /\ 1 \in 1 .. n
  BY <1>1
<1> HIDE DEF n
<1>3. Tail(t) = Piece(t, 1, n)
  <2>1. Tail(t) = SubSeq(t, 2, n)
    <3>1. t # <<>>
      BY <1>1 DEF n
    <3> QED
      BY <3>1, TailIsSubSeq DEF n
  <2> QED
    BY <1>2, <2>1, Zenon DEF Piece
<1>4. Piece(t, 0, 1) = <<t[1]>>
  <2>1. 0 \in 0 .. n - 1
    BY <1>1 DEF n
  <2>2. Piece(t, 0, 0 + 1) = <<t[0 + 1]>>
    BY <2>1, PieceOfOne DEF n
  <2> QED
    BY <1>2, <2>2, Zenon
<1>5. Piece(t, 1, n) \in Seq(Bytes) /\ Len(Piece(t, 1, n)) = n - 1
  BY <1>2, PieceType DEF n
<1>6. Piece(t, 0, 1) \o Piece(t, 1, n) = Piece(t, 0, n)
  BY <1>2, PieceJoin DEF n
<1>7. Piece(t, 0, n) = t
  BY PieceWhole DEF n
<1> QED
  BY <1>3, <1>4, <1>5, <1>6, <1>7, Zenon DEF n

\* What is skipped in front of a host is a "*" before a colon.
LEMMA HostIs ==
  ASSUME NEW authority \in Seq(Bytes), NEW next, next # Star, NEW host,
         host = HostOf(authority, next)
  PROVE  /\ host \in Seq(Bytes)
         /\ \/ host = authority
            \/ /\ authority = <<Star>> \o host
               /\ ByteAt(host, 1) = Colon
               /\ \A x \in 1 .. Len(host) : x + 1 \in 2 .. Len(authority) /\ host[x] = authority[x + 1]
<1>1. Len(authority) \in Nat
  BY LenProperties
<1>2. CASE Len(authority) > 1 /\ SubSeq(authority, 1, 2) = <<Star, Colon>>
  <2>1. host = Tail(authority)
    BY <1>2 DEF HostOf
  <2> DEFINE p == SubSeq(authority, 1, 2)
             l == Len(authority)
  <2>2. authority[1] = Star /\ authority[2] = Colon
    <3>1. p = Piece(authority, 0, 2)
      <4>1. 0 + 1 = 1
        OBVIOUS
      <4> QED
        BY <4>1, Zenon DEF Piece
    <3>2. /\ 0 \in 0 .. l /\ 2 \in 0 .. l /\ 1 \in 1 .. 2 - 0 /\ 0 + 1 = 1
          /\ 2 \in 1 .. 2 - 0 /\ 0 + 2 = 2
      BY <1>1, <1>2
    <3>3. p[1] = authority[0 + 1] /\ p[2] = authority[0 + 2]
      BY <3>1, <3>2, PieceType
    <3>4. p[1] = authority[1] /\ p[2] = authority[2]
      BY <3>2, <3>3, Zenon
    <3>5. p[1] = Star /\ p[2] = Colon
      <4>1. p = <<Star, Colon>>
        BY <1>2
      <4> HIDE DEF p
      <4> QED
        BY <4>1
    <3> QED
      BY <3>4, <3>5, Zenon
  <2>3. /\ host = Piece(authority, 1, l) /\ host \in Seq(Bytes) /\ Len(host) = l - 1
        /\ authority = <<authority[1]>> \o host
    BY <1>1, <1>2, <2>1, TailIs
  <2>4. authority = <<Star>> \o host
    BY <2>2, <2>3, Zenon
  <2>5. \A x \in 1 .. l - 1 : host[x] = authority[1 + x]
    <3>1. 1 \in 0 .. l /\ l \in 1 .. l
      BY <1>1, <1>2
    <3> QED
      BY <2>3, <3>1, PieceType, ZenonT(40)
  <2> HIDE DEF l, p
  <2>6. /\ l \in Nat /\ l > 1 /\ 1 \in 1 .. l - 1 /\ 1 + 1 = 2
        /\ \A x \in 1 .. l - 1 : x + 1 \in 2 .. l /\ 1 + x = x + 1
    BY <1>1, <1>2 DEF l
  <2>7. ByteAt(host, 1) = Colon
    <3>1. host[1] = Colon /\ 1 <= Len(host)
      BY <2>2, <2>3, <2>5, <2>6
    <3>2. Colon \in 1 .. 255 /\ Colon # Percent
      BY DEF Colon, Percent
    <3> QED
      BY <2>3, <3>1, <3>2, BeginsWith
  <2>8. \A x \in 1 .. Len(host) : x + 1 \in 2 .. Len(authority) /\ host[x] = authority[x + 1]
    BY <2>3, <2>5, <2>6 DEF l
  <2> QED
    BY <2>3, <2>4, <2>7, <2>8
<1>3. CASE ~ (Len(authority) > 1 /\ SubSeq(authority, 1, 2) = <<Star, Colon>>)
  BY <1>3 DEF HostOf
<1> QED
  BY <1>2, <1>3

\* The bytes of a host: only the first may end another one, and only behind an
\* "@".
LEMMA HostBytes ==
  ASSUME NEW rest \in Seq(Bytes), NEW b \in 0 .. Len(rest), NEW e \in b .. Len(rest),
         HostRuns(rest, b + 1, e), NEW next, next # Star, NEW host,
         host = HostOf(Piece(rest, b, e), next)
  PROVE  \A j \in DOMAIN host : host[j] \in Separators \cup {At} => j = 1 /\ b # 0
<1> DEFINE authority == Piece(rest, b, e)
           l == e - b
<1>1. /\ authority \in Seq(Bytes) /\ Len(authority) = l
      /\ \A x \in 1 .. l : authority[x] = rest[b + x]
  BY PieceType
<1>2. b \in Nat /\ e \in Nat /\ l \in Nat /\ b + l = e
  BY LenProperties
<1>3. \A x \in 1 .. l : authority[x] \in Separators \cup {At} => x = 1 /\ b # 0
  <2> SUFFICES ASSUME NEW x \in 1 .. l, authority[x] \in Separators \cup {At}
               PROVE  x = 1 /\ b # 0
    OBVIOUS
  <2>1. rest[b + x] \in Separators \cup {At}
    BY <1>1
  <2> HIDE DEF l, authority
  <2>2. b + x \in b + 1 .. e
    BY <1>2
  <2>3. b + x = b + 1 /\ b + 1 # 1
    BY <2>1, <2>2 DEF HostRuns
  <2> QED
    BY <1>2, <2>3
<1>4. host = HostOf(authority, next)
  OBVIOUS
<1> HIDE DEF l, authority
<1>5. host \in Seq(Bytes) /\ DOMAIN host = 1 .. Len(host) /\ DOMAIN authority = 1 .. l
  BY <1>1, <1>4, HostIs, LenProperties
<1>6. CASE host = authority
  BY <1>3, <1>5, <1>6
<1>7. CASE \A x \in 1 .. Len(host) : x + 1 \in 2 .. Len(authority) /\ host[x] = authority[x + 1]
  <2> SUFFICES ASSUME NEW j \in 1 .. Len(host), host[j] \in Separators \cup {At} PROVE FALSE
    BY <1>5
  <2>1. j + 1 \in 2 .. l /\ authority[j + 1] \in Separators \cup {At}
    BY <1>1, <1>7
  <2>2. j + 1 \in 1 .. l /\ j + 1 # 1
    BY <1>2, <2>1
  <2> QED
    BY <1>3, <2>1, <2>2
<1> QED
  BY <1>1, <1>4, <1>6, <1>7, HostIs

\* A number, read from a text behind its first byte.
LEMMA NumberIsRead ==
  ASSUME NEW t \in Seq(Bytes), NEW x \in 2 .. Len(t) + 1, NEW sign \in {<<>>, <<Plus>>, <<Minus>>},
         NEW y \in x .. Len(t) + 1, y = x + Len(sign), Piece(t, x - 1, y - 1) = sign,
         NEW z \in y + 1 .. Len(t) + 1,
         \A k \in 2 .. x - 1 : t[k] \in Spaces,
         \A k \in y .. z - 1 : t[k] \in Digits,
         z <= Len(t) => t[z] \notin Digits,
         NEW number,
         number = IF sign = <<Minus>> THEN - Number(Piece(t, y - 1, z - 1))
                  ELSE Number(Piece(t, y - 1, z - 1))
  PROVE  ReadAs(From(t, 1), number)
<1> DEFINE l == Len(t)
           rest == From(t, 1)
           m == l - 1
           a == x - 2
           b == y - 2
           n == z - 2
<1>1. /\ l \in Nat /\ l >= 2 /\ m \in Nat /\ a \in 0 .. m /\ b \in a .. m /\ n \in 1 .. m /\ b < n
      /\ b \in 0 .. m /\ n \in b .. m /\ 1 + a = x - 1 /\ 1 + b = y - 1 /\ 1 + n = z - 1
      /\ 1 \in 0 .. l /\ l \in 1 .. l /\ a + Len(sign) = b /\ z \in 2 .. l + 1
  <2>1. l \in Nat /\ Len(sign) \in Nat
    BY LenProperties
  <2> QED
    BY <2>1
<1>2. rest = Piece(t, 1, l)
  <2>1. 1 + 1 = 2
    OBVIOUS
  <2> QED
    BY <2>1, Zenon DEF From, Piece
<1>3. Len(rest) = m /\ \A i \in 1 .. m : rest[i] = t[1 + i]
  <2>1. Len(Piece(t, 1, l)) = l - 1 /\ \A i \in 1 .. l - 1 : Piece(t, 1, l)[i] = t[1 + i]
    <3>1. 1 \in 0 .. Len(t) /\ Len(t) \in 1 .. Len(t)
      BY <1>1
    <3> QED
      BY <3>1, PieceType, ZenonT(40)
  <2> HIDE DEF l, rest
  <2> QED
    BY <1>2, <2>1
<1>4. Piece(rest, a, b) = sign /\ Piece(rest, b, n) = Piece(t, y - 1, z - 1)
  <2> HIDE DEF l, m, a, b, n, rest
  <2>0. /\ 1 \in 0 .. Len(t) /\ l \in 1 .. Len(t)
        /\ a \in 0 .. l - 1 /\ b \in a .. l - 1 /\ b \in 0 .. l - 1 /\ n \in b .. l - 1
    BY <1>1 DEF m, l
  <2>1. Piece(Piece(t, 1, l), a, b) = Piece(t, 1 + a, 1 + b)
    BY <2>0, PieceOfPiece
  <2>2. Piece(Piece(t, 1, l), b, n) = Piece(t, 1 + b, 1 + n)
    BY <2>0, PieceOfPiece
  <2> QED
    BY <1>1, <1>2, <2>1, <2>2, Zenon
<1>5. /\ \A i \in 1 .. a : t[1 + i] \in Spaces
      /\ \A i \in b + 1 .. n : t[1 + i] \in Digits
      /\ n < m => t[1 + (n + 1)] \notin Digits
      /\ \A i \in 1 .. a : i \in 1 .. m
      /\ \A i \in b + 1 .. n : i \in 1 .. m
      /\ n < m => n + 1 \in 1 .. m
  <2>1. \A i \in 1 .. a : 1 + i \in 2 .. x - 1 /\ i \in 1 .. m
    BY <1>1
  <2>2. \A i \in b + 1 .. n : 1 + i \in y .. z - 1 /\ i \in 1 .. m
    BY <1>1
  <2>3. n < m => 1 + (n + 1) = z /\ z <= l /\ n + 1 \in 1 .. m
    BY <1>1
  <2> HIDE DEF a, b, n, m, l
  <2>4. l = Len(t)
    BY DEF l
  <2> QED
    BY <2>1, <2>2, <2>3, <2>4
<1>6. /\ \A i \in 1 .. a : rest[i] \in Spaces
      /\ \A i \in b + 1 .. n : rest[i] \in Digits
      /\ n < m => rest[n + 1] \notin Digits
  BY <1>3, <1>5, Zenon
<1>7. SubSeq(rest, a + 1, b) = sign /\ SubSeq(rest, b + 1, n) = Piece(t, y - 1, z - 1)
  BY <1>4, Zenon DEF Piece
<1> HIDE DEF a, b, n, m, l, rest
<1>8. /\ b < n
      /\ number = IF sign = <<Minus>> THEN - Number(SubSeq(rest, b + 1, n))
                  ELSE Number(SubSeq(rest, b + 1, n))
  BY <1>1, <1>7, Zenon
<1>9. a \in 0 .. Len(rest) /\ n \in 1 .. Len(rest) /\ (n < Len(rest) => rest[n + 1] \notin Digits)
  BY <1>1, <1>3, <1>6
<1> QED
  BY <1>1, <1>6, <1>7, <1>8, <1>9, ZenonT(40) DEF ReadAs, rest

\* A port is one that is given or the one of the scheme.
LEMMA PortIs ==
  ASSUME NEW t \in Seq(Bytes), NEW scheme, PortOf(scheme, t) # nport
  PROVE  IF Len(t) >= 1 /\ t[1] = Colon
         THEN ReadAs(From(t, 1), PortOf(scheme, t)) /\ PortOf(scheme, t) \in Ints
         ELSE scheme \in DOMAIN DefaultPorts /\ PortOf(scheme, t) = DefaultPorts[scheme]
<1> DEFINE l == Len(t)
           x == FirstOf(t, 2, NotSpaces)
           y == IF ByteAt(t, x) \in {Plus, Minus} THEN x + 1 ELSE x
           z == FirstOf(t, y, NotDigits)
           digits == Number(SubSeq(t, y, z - 1))
           port == IF ByteAt(t, x) = Minus THEN - digits ELSE digits
<1>1. l \in Nat
  BY LenProperties
<1>2. ByteAt(t, 1) = Colon <=> l >= 1 /\ t[1] = Colon
  <2>1. Colon \in 1 .. 255 /\ Colon # Percent
    BY DEF Colon, Percent
  <2>2. ByteAt(t, 1) = Colon <=> 1 <= l /\ t[1] = Colon
    BY <2>1, BeginsWith, Zenon DEF l
  <2> HIDE DEF l
  <2>3. 1 <= l <=> l >= 1
    BY <1>1
  <2> QED
    BY <2>2, <2>3
<1>o. PortOf(scheme, t) = IF ByteAt(t, 1) = Colon
                          THEN IF z > y /\ port \in Ints THEN port ELSE nport
                          ELSE IF scheme \in DOMAIN DefaultPorts THEN DefaultPorts[scheme] ELSE nport
  BY Zenon DEF PortOf
<1>3. CASE l >= 1 /\ t[1] = Colon
  <2>1. PortOf(scheme, t) = port /\ z > y /\ port \in Ints
    <3> HIDE DEF port, z, y, l
    <3> QED
      BY <1>2, <1>3, <1>o
  <2>2. x \in 2 .. l + 1 /\ (\A k \in 2 .. x - 1 : t[k] \notin NotSpaces)
        /\ (x <= l => t[x] \in NotSpaces)
    <3>1. 2 \in 1 .. l + 1
      BY <1>1, <1>3
    <3> QED
      BY <3>1, FirstOfIs
  <2> HIDE DEF x
  <2>b. /\ ByteAt(t, x) = Plus <=> x <= l /\ t[x] = Plus
        /\ ByteAt(t, x) = Minus <=> x <= l /\ t[x] = Minus
    <3>1. Plus \in 1 .. 255 /\ Plus # Percent /\ Minus \in 1 .. 255 /\ Minus # Percent
      BY DEF Plus, Minus, Percent
    <3>2. x \in Nat \ {0}
      BY <2>2
    <3> QED
      BY <3>1, <3>2, ByteAtIs, ZenonT(40)
  <2>3. y \in x .. l + 1
    BY <1>1, <2>2, <2>b
  <2>4. z \in y .. l + 1 /\ (\A k \in y .. z - 1 : t[k] \notin NotDigits)
        /\ (z <= l => t[z] \in NotDigits)
    <3>1. y \in 1 .. l + 1
      BY <1>1, <2>2, <2>3
    <3> HIDE DEF y
    <3> QED
      BY <3>1, FirstOfIs
  <2>5. \A k \in 2 .. x - 1 : t[k] \in Spaces
    <3> SUFFICES ASSUME NEW k \in 2 .. x - 1 PROVE t[k] \in Spaces
      OBVIOUS
    <3>1. k \in 1 .. l
      BY <1>1, <2>2
    <3>2. t[k] \in Bytes
      BY <3>1, ElementOfSeq
    <3> QED
      BY <2>2, <3>2 DEF NotSpaces, Bytes, BadEsc
  <2>6. \A k \in y .. z - 1 : t[k] \in Digits
    <3> HIDE DEF y, z
    <3> SUFFICES ASSUME NEW k \in y .. z - 1 PROVE t[k] \in Digits
      OBVIOUS
    <3>1. k \in 1 .. l
      BY <1>1, <2>2, <2>3, <2>4
    <3>2. t[k] \in Bytes
      BY <3>1, ElementOfSeq
    <3> QED
      BY <2>4, <3>2 DEF NotDigits, Bytes, BadEsc
  <2>7. z <= l => t[z] \notin Digits
    BY <2>4 DEF NotDigits
  <2>8. SubSeq(t, y, z - 1) = Piece(t, y - 1, z - 1)
    <3> HIDE DEF z, y
    <3>1. (y - 1) + 1 = y
      BY <1>1, <2>2, <2>3
    <3> QED
      BY <3>1, Zenon DEF Piece
  <2>9. z \in y + 1 .. l + 1
    <3> HIDE DEF z, y
    <3> QED
      BY <1>1, <2>1, <2>2, <2>3, <2>4
  <2>s. \E sign \in {<<>>, <<Plus>>, <<Minus>>} :
           /\ y = x + Len(sign) /\ Piece(t, x - 1, y - 1) = sign
           /\ ByteAt(t, x) = Minus <=> sign = <<Minus>>
    <3>1. CASE ByteAt(t, x) \notin {Plus, Minus}
      <4>1. y = x /\ x + 0 = x /\ x - 1 \in Int /\ Len(<<>>) = 0 /\ <<>> # <<Minus>>
        BY <2>2, <3>1
      <4>2. Piece(t, x - 1, x - 1) = <<>>
        BY <4>1, PieceEmpty
      <4> HIDE DEF y
      <4> QED
        BY <3>1, <4>1, <4>2
    <3>2. ASSUME NEW c \in {Plus, Minus}, ByteAt(t, x) = c
          PROVE  /\ y = x + Len(<<c>>) /\ Piece(t, x - 1, y - 1) = <<c>>
                 /\ ByteAt(t, x) = Minus <=> <<c>> = <<Minus>>
      <4>1. t[x] = c /\ x <= l /\ y = x + 1 /\ Len(<<c>>) = 1
        BY <2>b, <3>2
      <4> HIDE DEF y
      <4>2. x - 1 \in 0 .. l - 1 /\ (x - 1) + 1 = x /\ y - 1 = x
        BY <1>1, <2>2, <4>1
      <4> DEFINE w == x - 1
      <4>3. Piece(t, w, w + 1) = <<t[w + 1]>>
        <5> HIDE DEF w
        <5>1. w \in 0 .. Len(t) - 1
          BY <4>2 DEF w
        <5> QED
          BY <5>1, PieceOfOne
      <4>4. Piece(t, x - 1, x) = <<c>>
        BY <4>1, <4>2, <4>3, Zenon
      <4>5. Piece(t, x - 1, y - 1) = <<c>>
        BY <4>2, <4>4, Zenon
      <4>6. c = Minus <=> <<c>> = <<Minus>>
        OBVIOUS
      <4> QED
        BY <3>2, <4>1, <4>5, <4>6
    <3>3. CASE ByteAt(t, x) = Plus
      BY <3>2, <3>3, Zenon
    <3>4. CASE ByteAt(t, x) = Minus
      BY <3>2, <3>4, Zenon
    <3> QED
      BY <3>1, <3>3, <3>4
  <2>10. PICK sign \in {<<>>, <<Plus>>, <<Minus>>} :
            /\ y = x + Len(sign) /\ Piece(t, x - 1, y - 1) = sign
            /\ ByteAt(t, x) = Minus <=> sign = <<Minus>>
    BY <2>s
  <2>11. port = IF sign = <<Minus>> THEN - Number(Piece(t, y - 1, z - 1))
                ELSE Number(Piece(t, y - 1, z - 1))
    <3> HIDE DEF y, z
    <3> QED
      BY <2>8, <2>10, Zenon
  <2> HIDE DEF y, z, port
  <2>12. ReadAs(From(t, 1), port)
    BY <2>2, <2>3, <2>5, <2>6, <2>7, <2>9, <2>10, <2>11, NumberIsRead
  <2> QED
    BY <1>3, <2>1, <2>12
<1>4. CASE ~ (l >= 1 /\ t[1] = Colon)
  <2> HIDE DEF port, z, y
  <2> QED
    BY <1>2, <1>4, <1>o
<1> QED
  BY <1>3, <1>4 DEF l

\* How a host falls into name and port.
NameAndPort(name, host, scheme, port) ==
    \/ /\ host = name
       /\ scheme \in DOMAIN DefaultPorts
       /\ port = DefaultPorts[scheme]
    \/ /\ IsPrefix(name \o <<Colon>>, host)
       /\ ReadAs(From(host, Len(name) + 1), port)
       /\ port \in Ints /\ port # nport

\* A name ends with the host, or in front of the colon of a port.
LEMMA PortBehindName ==
  ASSUME NEW host \in Seq(Bytes), NEW k \in 0 .. Len(host), NEW scheme,
         k = Len(host) \/ host[k + 1] = Colon,
         PortOf(scheme, Piece(host, k, Len(host))) # nport
  PROVE  NameAndPort(Piece(host, 0, k), host, scheme,
                     PortOf(scheme, Piece(host, k, Len(host))))
<1> DEFINE n == Len(host)
           t == Piece(host, k, n)
           name == Piece(host, 0, k)
           l == n - k
<1>1. n \in Nat /\ k \in 0 .. n /\ l \in Nat
  BY LenProperties
<1>2. t \in Seq(Bytes) /\ Len(t) = l /\ \A x \in 1 .. l : t[x] = host[k + x]
  <2>1. n \in k .. n
    BY <1>1
  <2> QED
    BY <2>1, PieceType
<1>3. name \in Seq(Bytes) /\ Len(name) = k
  <2>1. 0 \in 0 .. n /\ k \in 0 .. n /\ k - 0 = k
    BY <1>1
  <2> QED
    BY <2>1, PieceType
<1>4. IF Len(t) >= 1 /\ t[1] = Colon
      THEN ReadAs(From(t, 1), PortOf(scheme, t)) /\ PortOf(scheme, t) \in Ints
      ELSE scheme \in DOMAIN DefaultPorts /\ PortOf(scheme, t) = DefaultPorts[scheme]
  BY <1>2, PortIs
<1>5. CASE k = n
  <2>1. l = 0
    BY <1>1, <1>5
  <2>2. scheme \in DOMAIN DefaultPorts /\ PortOf(scheme, t) = DefaultPorts[scheme]
    BY <1>2, <1>4, <2>1
  <2>3. host = name
    BY <1>5, PieceWhole
  <2> QED
    BY <2>2, <2>3, Zenon DEF NameAndPort
<1>6. CASE k # n
  <2> HIDE DEF n, t, name
  <2>1. l >= 1 /\ 1 \in 1 .. l
    BY <1>1, <1>6
  <2>2. t[1] = Colon
    BY <1>2, <1>6, <2>1 DEF n
  <2>3. ReadAs(From(t, 1), PortOf(scheme, t)) /\ PortOf(scheme, t) \in Ints
    BY <1>2, <1>4, <2>1, <2>2
  <2>4. From(t, 1) = From(host, k + 1)
    <3>1. 1 \in 0 .. n - k /\ l \in 1 .. n - k /\ k + l = n /\ 1 + 1 = 2
      BY <1>1, <2>1
    <3>2. Piece(Piece(host, k, n), 1, l) = Piece(host, k + 1, k + l)
      <4>1. n = Len(host) /\ k \in 0 .. n /\ n \in k .. n
        BY <1>1 DEF n
      <4> HIDE DEF l
      <4> QED
        BY <3>1, <4>1, PieceOfPiece
    <3>3. From(t, 1) = Piece(t, 1, l)
      BY <1>2, Zenon DEF From, Piece
    <3>4. From(host, k + 1) = Piece(host, k + 1, n)
      BY Zenon DEF From, Piece, n
    <3> QED
      BY <3>1, <3>2, <3>3, <3>4, Zenon DEF t
  <2>5. ReadAs(From(host, Len(name) + 1), PortOf(scheme, t))
    BY <1>3, <2>3, <2>4, Zenon
  <2> DEFINE j == k + 1
  <2>6. /\ j \in 0 .. n /\ j \in k .. n /\ j - k = 1 /\ 0 \in 0 .. n /\ k \in 0 .. n /\ j - 0 = j
        /\ 1 \in 1 .. j - k /\ j - 0 \in Nat /\ j <= n /\ 0 + 1 = 1
    BY <1>1, <1>6
  <2>7. Piece(host, k, j) = <<Colon>>
    <3>1. k \in 0 .. n - 1
      BY <1>1, <1>6
    <3>2. Piece(host, k, k + 1) = <<host[k + 1]>>
      BY <3>1, PieceOfOne DEF n
    <3> QED
      BY <1>6, <3>2 DEF n
  <2> HIDE DEF j
  <2>8. name \o <<Colon>> = Piece(host, 0, j)
    BY <2>6, <2>7, PieceJoin DEF name, n
  <2>9. IsPrefix(Piece(host, 0, j), host)
    <3> DEFINE p == Piece(host, 0, j)
    <3>1. p \in Seq(Bytes) /\ Len(p) = j
      BY <2>6, PieceType DEF n
    <3>2. SubSeq(host, 1, j) = p
      BY <2>6, Zenon DEF Piece
    <3> HIDE DEF p
    <3>3. SubSeq(p, 1, Len(p)) = p
      BY <3>1, SubSeqFull
    <3>4. IsPrefix(p, host)
      BY <2>6, <3>1, <3>2, <3>3 DEF IsPrefix, n
    <3> QED
      BY <3>4 DEF p
  <2> QED
    BY <2>3, <2>5, <2>8, <2>9, Zenon DEF NameAndPort, name, t, n
<1> QED
  BY <1>5, <1>6

\* A url_t: all of its parts are there, and a user is a text.
IsUrl(u) ==
    /\ u \in [scheme : {u.scheme}, userinfo : {u.userinfo}, host : {u.host},
              hostname : {u.hostname}, port : {u.port}, requri : {u.requri},
              path : {u.path}, query : {u.query}, fragment : {u.fragment}]
    /\ u.userinfo \in Seq(Bytes)

\* The name of the host is in it, in brackets or not, and ends where it must.
NamesHost(hostname, host, scheme, port) ==
    LET v6 == ByteAt(host, 1) = Open
        name == IF v6 THEN <<Open>> \o hostname \o <<Close>> ELSE hostname
    IN /\ \A i \in DOMAIN hostname : hostname[i] # (IF v6 THEN Close ELSE Colon)
       /\ NameAndPort(name, host, scheme, port)

\* A host that is accepted is a name, in brackets or not, and a port.
LEMMA HostSplits ==
  ASSUME NEW u, IsUrl(u), u.host \in Seq(Bytes), WithHostname(u).ok
  PROVE  \E hostname, port :
            /\ WithHostname(u).url = [u EXCEPT !.hostname = hostname, !.port = port]
            /\ NamesHost(hostname, u.host, u.scheme, port)
<1> DEFINE h == u.host
           n == Len(h)
           v6 == ByteAt(h, 1) = Open
           rest == IF v6 THEN Tail(h) ELSE h
           e == FirstOf(rest, 1, {IF v6 THEN Close ELSE Colon})
           behind == From(rest, IF v6 THEN e ELSE e - 1)
           p == PortOf(u.scheme, behind)
           hostname == SubSeq(rest, 1, e - 1)
<1>1. n \in Nat
  BY LenProperties
<1>2. /\ p # nport
      /\ v6 => e <= Len(rest) /\ ByteAt(behind, 1) \in {Colon, 0}
      /\ WithHostname(u).url = [u EXCEPT !.hostname = hostname, !.port = p]
  <2>1. WithHostname(u) = IF v6 /\ (e > Len(rest) \/ ByteAt(behind, 1) \notin {Colon, 0})
                          THEN [ok |-> FALSE, url |-> u]
                          ELSE [ok |-> p # nport,
                                url |-> [u EXCEPT !.hostname = hostname, !.port = p]]
    BY Zenon DEF WithHostname
  <2> DEFINE bad == v6 /\ (e > Len(rest) \/ ByteAt(behind, 1) \notin {Colon, 0})
             v == [u EXCEPT !.hostname = hostname, !.port = p]
             q == p # nport
  <2>2. WithHostname(u) = IF bad THEN [ok |-> FALSE, url |-> u] ELSE [ok |-> q, url |-> v]
    BY <2>1
  <2> HIDE DEF bad, v, q
  <2>3. ~ bad /\ q /\ WithHostname(u).url = v
    BY <2>2
  <2> HIDE DEF e, rest, behind, p, hostname, v6
  <2>4. v6 => ~ (e > Len(rest)) /\ ByteAt(behind, 1) \in {Colon, 0}
    BY <2>3 DEF bad
  <2>5. v6 => e <= Len(rest)
    <3> SUFFICES ASSUME v6 PROVE e <= Len(rest)
      OBVIOUS
    <3>1. ~ (e > Len(rest))
      BY <2>4
    <3>2. rest = Tail(h) /\ n >= 1
      BY <1>1, ByteAtIs DEF rest, v6, Open, Percent
    <3>3. rest \in Seq(Bytes)
      BY <3>2, TailIs
    <3>4. 1 \in 1 .. Len(rest) + 1
      BY <3>3, LenProperties
    <3>5. e \in 1 .. Len(rest) + 1 /\ Len(rest) \in Nat
      BY <3>3, <3>4, FirstOfIs, LenProperties DEF e
    <3> QED
      BY <3>1, <3>5
  <2> QED
    BY <2>3, <2>4, <2>5 DEF q, v
<1>3. NamesHost(hostname, h, u.scheme, p)
  <2>1. CASE v6
    <3>1. n >= 1 /\ h[1] = Open
      <4>1. ByteAt(h, 1) = Open /\ h \in Seq(Bytes)
        BY <2>1
      <4>4. 1 <= Len(h) /\ h[1] = Open
        BY <4>1, BeginsWithOpen
      <4> QED
        BY <1>1, <4>4
    <3> DEFINE t == Tail(h)
    <3>2. t = Piece(h, 1, n) /\ Piece(h, 0, 1) = <<Open>> /\ t \in Seq(Bytes) /\ Len(t) = n - 1
      BY <3>1, TailIs
    <3>3. rest = t /\ e = FirstOf(t, 1, {Close}) /\ behind = From(t, e) /\ hostname = SubSeq(t, 1, e - 1)
      BY <2>1, Zenon
    <3>4. e <= Len(t) /\ ByteAt(behind, 1) \in {Colon, 0}
      BY <1>2, <2>1, <3>3
    <3> HIDE DEF h, n, v6, rest, e, behind, p, hostname, t
    <3>5. e \in 1 .. n /\ t[e] = Close /\ e <= n - 1 /\ \A x \in 1 .. e - 1 : t[x] \notin {Close}
      <4>1. 1 \in 1 .. Len(t) + 1
        BY <1>1, <3>1, <3>2
      <4>2. /\ e \in 1 .. Len(t) + 1 /\ (e <= Len(t) => t[e] \in {Close})
            /\ \A x \in 1 .. e - 1 : t[x] \notin {Close}
        BY <3>2, <3>3, <4>1, FirstOfIs
      <4> QED
        BY <1>1, <3>2, <3>4, <4>2
    <3> DEFINE k == e + 1
               f == e - 1
    <3>6. /\ k \in 0 .. n /\ e \in 0 .. n /\ k \in e .. n /\ e \in 1 .. n /\ 1 \in 0 .. n
          /\ 0 \in 0 .. n /\ 1 \in 0 .. n /\ k - e = 1 /\ 1 \in 1 .. k - e /\ f + 1 = e
          /\ f \in 0 .. n - 1 /\ f \in 0 .. f /\ e \in 0 .. n - 1 /\ n - 1 \in e .. n - 1
          /\ n \in 1 .. n /\ 1 + e = k /\ 1 + (n - 1) = n /\ 0 + 1 = 1 /\ 1 + 0 = 1 /\ 1 + f = e
          /\ n \in Nat /\ n \in k .. n /\ f \in 0 .. n - 1 /\ 0 \in 0 .. n - 1 /\ f \in 0 .. n - 1
          /\ e \in f .. n - 1 /\ e - f = 1 /\ 1 \in 1 .. e - f /\ n - 1 - e = n - k
      BY <1>1, <3>1, <3>5
    <3> HIDE DEF k, f
    <3>h. h \in Seq(Bytes) /\ n = Len(h) /\ IsUrl(u)
      BY DEF h, n
    <3>l. /\ 1 \in 0 .. Len(h) /\ n \in 1 .. Len(h) /\ k \in 0 .. Len(h) /\ n \in k .. Len(h)
      BY <3>h, <3>6
    <3>7. hostname = Piece(h, 1, e)
      <4>1. hostname = Piece(t, 0, f)
        BY <3>3, <3>6, Zenon DEF Piece, f
      <4>2. Piece(Piece(h, 1, n), 0, f) = Piece(h, 1 + 0, 1 + f)
        BY <3>h, <3>6, PieceOfPiece
      <4> QED
        BY <3>2, <3>6, <4>1, <4>2, Zenon
    <3>8. behind = Piece(h, k, n)
      <4>1. behind = Piece(t, e, n - 1)
        BY <3>2, <3>3, Zenon DEF From, Piece
      <4>2. Piece(Piece(h, 1, n), e, n - 1) = Piece(h, 1 + e, 1 + (n - 1))
        BY <3>h, <3>6, PieceOfPiece
      <4> QED
        BY <3>2, <3>6, <4>1, <4>2, Zenon
    <3>9. h[k] = Close
      <4>1. Len(Piece(h, 1, n)) = n - 1 /\ \A x \in 1 .. n - 1 : Piece(h, 1, n)[x] = h[1 + x]
        BY <3>h, <3>l, PieceType, ZenonT(40)
      <4>2. e \in 1 .. n - 1
        BY <3>5
      <4>3. t[e] = h[1 + e]
        BY <3>2, <4>1, <4>2
      <4> QED
        BY <3>5, <3>6, <4>3, Zenon
    <3>10. Piece(h, e, k) = <<Close>>
      <4>1. e \in 0 .. Len(h) - 1
        BY <3>h, <3>6
      <4>2. Piece(h, e, e + 1) = <<h[e + 1]>>
        BY <3>h, <4>1, PieceOfOne
      <4> QED
        BY <3>9, <4>2 DEF k
    <3>11. <<Open>> \o hostname \o <<Close>> = Piece(h, 0, k)
      <4>1. Piece(h, 0, 1) \o Piece(h, 1, e) = Piece(h, 0, e)
        BY <3>h, <3>6, PieceJoin
      <4>2. Piece(h, 0, e) \o Piece(h, e, k) = Piece(h, 0, k)
        BY <3>h, <3>6, PieceJoin
      <4> QED
        BY <3>2, <3>7, <3>10, <4>1, <4>2, Zenon
    <3>12. k = n \/ h[k + 1] = Colon
      <4> DEFINE l == n - k
      <4>1. behind \in Seq(Bytes) /\ Len(behind) = l /\ \A x \in 1 .. l : behind[x] = h[k + x]
        BY <3>h, <3>l, <3>8, PieceType
      <4>2. Colon \in 1 .. 255 /\ Colon # Percent /\ 1 \in Nat \ {0}
        BY DEF Colon, Percent
      <4>3. /\ ByteAt(behind, 1) = Colon <=> 1 <= Len(behind) /\ behind[1] = Colon
            /\ ByteAt(behind, 1) = 0 <=> 1 > Len(behind)
        BY <4>1, <4>2, ByteAtIs
      <4>4. CASE ByteAt(behind, 1) = Colon
        <5>1. 1 <= Len(behind) /\ behind[1] = Colon
          BY <4>3, <4>4
        <5>2. 1 \in 1 .. l
          BY <3>6, <4>1, <5>1
        <5> QED
          BY <4>1, <5>1, <5>2
      <4>5. CASE ByteAt(behind, 1) = 0
        <5>1. 1 > l
          BY <4>1, <4>3, <4>5
        <5> QED
          BY <3>6, <5>1
      <4> QED
        BY <3>4, <4>4, <4>5
    <3>13. NameAndPort(Piece(h, 0, k), h, u.scheme, p)
      <4>1. p = PortOf(u.scheme, Piece(h, k, n))
        BY <3>8 DEF p
      <4>2. k \in 0 .. Len(h)
        BY <3>h, <3>6
      <4> QED
        BY <1>2, <3>h, <3>12, <4>1, <4>2, PortBehindName
    <3>14. \A x \in DOMAIN hostname : hostname[x] # Close
      <4>1. hostname = Piece(t, 0, f)
        BY <3>3, <3>6, Zenon DEF Piece, f
      <4>2. 0 \in 0 .. Len(t) /\ f \in 0 .. Len(t) /\ f \in Nat /\ f - 0 = f
        BY <1>1, <3>2, <3>6
      <4>3. /\ hostname \in Seq(Bytes) /\ Len(hostname) = f
            /\ \A x \in 1 .. f : hostname[x] = t[0 + x]
        <5> HIDE DEF f, t, hostname
        <5>1. /\ Piece(t, 0, f) \in Seq(Bytes) /\ Len(Piece(t, 0, f)) = f - 0
              /\ \A x \in 1 .. f - 0 : Piece(t, 0, f)[x] = t[0 + x]
          BY <3>2, <4>2, PieceType
        <5> QED
          BY <4>1, <4>2, <5>1, Zenon
      <4>4. DOMAIN hostname = 1 .. f /\ \A x \in 1 .. f : 0 + x = x
        BY <4>2, <4>3, LenProperties
      <4>5. \A x \in 1 .. f : t[x] \notin {Close}
        BY <3>5 DEF f
      <4> QED
        BY <4>3, <4>4, <4>5, Zenon
    <3>15. ByteAt(h, 1) = Open
      BY <2>1 DEF v6
    <3> QED
      BY <3>11, <3>13, <3>14, <3>15, Zenon DEF NamesHost
  <2>2. CASE ~ v6
    <3>3. rest = h /\ e = FirstOf(h, 1, {Colon}) /\ behind = From(h, e - 1) /\ hostname = SubSeq(h, 1, e - 1)
      BY <2>2, Zenon
    <3> HIDE DEF h, n, v6, rest, e, behind, p, hostname
    <3>h. h \in Seq(Bytes) /\ n = Len(h) /\ IsUrl(u)
      BY DEF h, n
    <3>4. e \in 1 .. n + 1 /\ (e <= n => h[e] = Colon) /\ \A x \in 1 .. e - 1 : h[x] \notin {Colon}
      <4>1. 1 \in 1 .. Len(h) + 1
        BY <1>1, <3>h
      <4>2. /\ e \in 1 .. Len(h) + 1 /\ (e <= Len(h) => h[e] \in {Colon})
            /\ \A x \in 1 .. e - 1 : h[x] \notin {Colon}
        BY <3>h, <3>3, <4>1, FirstOfIs
      <4> QED
        BY <3>h, <4>2
    <3> DEFINE k == e - 1
    <3>5. k \in 0 .. n /\ k + 1 = e /\ 0 + 1 = 1 /\ (k # n => e <= n)
      BY <1>1, <3>4
    <3>6. hostname = Piece(h, 0, k) /\ behind = Piece(h, k, n)
      BY <3>h, <3>3, <3>5, Zenon DEF Piece, From
    <3> HIDE DEF k
    <3>7. k = n \/ h[k + 1] = Colon
      BY <3>4, <3>5
    <3>8. NameAndPort(Piece(h, 0, k), h, u.scheme, p)
      <4>1. p = PortOf(u.scheme, Piece(h, k, n))
        BY <3>6 DEF p
      <4>2. k \in 0 .. Len(h)
        BY <3>h, <3>5
      <4> QED
        BY <1>2, <3>h, <3>7, <4>1, <4>2, PortBehindName
    <3>9. \A x \in DOMAIN hostname : hostname[x] # Colon
      <4>2. 0 \in 0 .. Len(h) /\ k \in 0 .. Len(h) /\ k \in Nat /\ k - 0 = k
        BY <1>1, <3>h, <3>5
      <4>3. /\ hostname \in Seq(Bytes) /\ Len(hostname) = k
            /\ \A x \in 1 .. k : hostname[x] = h[0 + x]
        BY <3>h, <3>6, <4>2, PieceType
      <4>4. DOMAIN hostname = 1 .. k /\ \A x \in 1 .. k : 0 + x = x
        BY <4>2, <4>3, LenProperties
      <4>5. \A x \in 1 .. k : h[x] \notin {Colon}
        BY <3>4 DEF k
      <4> QED
        BY <4>3, <4>4, <4>5, Zenon
    <3>10. ByteAt(h, 1) # Open
      BY <2>2 DEF v6
    <3> QED
      BY <3>6, <3>8, <3>9, <3>10, Zenon DEF NamesHost
  <2> QED
    BY <2>1, <2>2
<1> HIDE DEF hostname, p
<1> QED
  <2>1. WithHostname(u).url = [u EXCEPT !.hostname = hostname, !.port = p]
    BY <1>2
  <2>2. NamesHost(hostname, u.host, u.scheme, p)
    BY <1>3, Zenon DEF h
  <2> QED
    BY <2>1, <2>2, ZenonT(40)

\* What is left of a url_t once its host is split.
HostTaken(u, v) ==
    /\ IsUrl(v)
    /\ v.scheme = u.scheme /\ v.userinfo = u.userinfo /\ v.host = u.host
    /\ v.requri = u.requri /\ v.path = u.path /\ v.query = u.query
    /\ v.fragment = u.fragment

\* WithHostname leaves the other parts as they are.
LEMMA HostIsTaken ==
  ASSUME NEW u, IsUrl(u), u.host \in Seq(Bytes)
  PROVE  LET p == WithHostname(u)
         IN HostTaken(u, p.url) /\ (p.ok => HostRecomposes(p.url))
<1> DEFINE p == WithHostname(u)
<1>1. HostTaken(u, u)
  BY Zenon DEF HostTaken
<1>2. ASSUME NEW name, NEW port PROVE HostTaken(u, [u EXCEPT !.hostname = name, !.port = port])
  <2> DEFINE v == [u EXCEPT !.hostname = name, !.port = port]
  <2>1. /\ IsUrl(v) /\ v.scheme = u.scheme /\ v.userinfo = u.userinfo /\ v.host = u.host
        /\ v.requri = u.requri /\ v.path = u.path /\ v.query = u.query
        /\ v.fragment = u.fragment
    BY DEF IsUrl
  <2> HIDE DEF v
  <2>2. HostTaken(u, v)
    BY <2>1 DEF HostTaken
  <2> QED
    BY <2>2 DEF v
<1>3. HostTaken(u, p.url)
  <2>1. p.url = u \/ \E name, port : p.url = [u EXCEPT !.hostname = name, !.port = port]
    BY DEF WithHostname
  <2> HIDE DEF p
  <2>2. ASSUME NEW name, NEW port, p.url = [u EXCEPT !.hostname = name, !.port = port]
        PROVE  HostTaken(u, p.url)
    <3>1. HostTaken(u, [u EXCEPT !.hostname = name, !.port = port])
      BY <1>2
    <3> QED
      BY <2>2, <3>1
  <2>3. ASSUME p.url = u PROVE HostTaken(u, p.url)
    BY <1>1, <2>3
  <2> QED
    BY <2>1, <2>2, <2>3
<1>4. ASSUME p.ok PROVE HostRecomposes(p.url)
  <2>1. PICK hostname, port :
          /\ p.url = [u EXCEPT !.hostname = hostname, !.port = port]
          /\ NamesHost(hostname, u.host, u.scheme, port)
    BY <1>4, HostSplits
  <2> DEFINE v == [u EXCEPT !.hostname = hostname, !.port = port]
  <2>2. v.hostname = hostname /\ v.port = port /\ v.scheme = u.scheme /\ v.host = u.host
    BY DEF IsUrl
  <2> HIDE DEF v, p
  <2>3. HostRecomposes(v)
    BY <2>1, <2>2, Zenon DEF NamesHost, NameAndPort, HostRecomposes
  <2> QED
    BY <2>1, <2>3, Zenon DEF v
<1> QED
  BY <1>3, <1>4

-----------------------------------------------------------------------------
(* The target, and the whole URL. *)

\* The positions at which a path and a query end, in a text of n bytes.
CutsAt(n, e, f) ==
    /\ e - 1 \in 0 .. n /\ (e - 1) + 1 = e /\ f - 1 \in e - 1 .. n /\ (f - 1) + 1 = f
    /\ f - 1 \in 0 .. n
    /\ 0 \in 0 .. n /\ 0 + 1 = 1 /\ n \in f - 1 .. n
    /\ e < f =>
          /\ e - 1 \in 0 .. n - 1 /\ e \in 0 .. n /\ f - 1 \in e .. n /\ e \in e - 1 .. n
          /\ e <= n /\ e \in e .. f - 1
          /\ \A i \in 1 .. (f - 1) - e : e + i \in e .. f - 1
    /\ ~ (e < f) => e - 1 = f - 1
    /\ f <= n =>
          /\ f - 1 \in 0 .. n - 1 /\ f \in 0 .. n /\ f \in f - 1 .. n /\ n \in f .. n
    /\ ~ (f <= n) => f - 1 = n

\* Two positions of the text, or behind it, the second not before the first.
LEMMA CutNumbers ==
  ASSUME NEW n \in Nat, NEW e \in 1 .. n + 1, NEW f \in e .. n + 1
  PROVE  CutsAt(n, e, f)
BY DEF CutsAt

\* A path, a query and a fragment as the code cuts them make the whole.
LEMMA TargetSplits ==
  ASSUME NEW u, NEW v, NEW r \in Seq(Bytes), NEW e, NEW f, v.requri = r,
         e = PathEnd(r), f = FirstOf(r, e, {Hash}),
         v.path = SubSeq(r, 1, e - 1),
         v.query = IF e < f THEN SubSeq(r, e + 1, f - 1) ELSE u.query,
         v.fragment = IF f <= Len(r) THEN From(r, f) ELSE u.fragment
  PROVE  TargetRecomposes(v, u)
<1> DEFINE n == Len(r)
           a == e - 1
           b == f - 1
<1>1. n \in Nat
  BY LenProperties
<1>2. /\ e \in 1 .. n + 1 /\ (e <= n => r[e] \in {Query, Hash})
      /\ \A k \in 1 .. e - 1 : r[k] \notin {Query, Hash}
  <2>1. 1 \in 1 .. n + 1
    BY <1>1
  <2> QED
    BY <2>1, FirstOfIs DEF PathEnd
<1>3. /\ f \in e .. n + 1 /\ (\A k \in e .. f - 1 : r[k] \notin {Hash})
      /\ (f <= n => r[f] \in {Hash})
  BY <1>2, FirstOfIs
<1> HIDE DEF n
<1>4. /\ a \in 0 .. n /\ a + 1 = e /\ b \in a .. n /\ b + 1 = f
      /\ b \in 0 .. n
      /\ 0 \in 0 .. n /\ 0 + 1 = 1 /\ n \in b .. n
      /\ e < f =>
            /\ a \in 0 .. n - 1 /\ e \in 0 .. n /\ b \in e .. n /\ e \in a .. n
            /\ e <= n /\ e \in e .. f - 1
            /\ \A i \in 1 .. b - e : e + i \in e .. f - 1
      /\ ~ (e < f) => a = b
      /\ f <= n =>
            /\ b \in 0 .. n - 1 /\ f \in 0 .. n /\ f \in b .. n /\ n \in f .. n
      /\ ~ (f <= n) => b = n
  <2>1. e \in 1 .. n + 1 /\ f \in e .. n + 1
    BY <1>2, <1>3
  <2>2. CutsAt(n, e, f)
    BY <1>1, <2>1, CutNumbers, Zenon
  <2> QED
    BY <2>2 DEF CutsAt
<1> DEFINE path == v.path
           query == v.query
           fragment == v.fragment
<1>5. path = Piece(r, 0, a)
  BY <1>4, Zenon DEF Piece
<1>p. \A i \in DOMAIN path : path[i] \notin {Query, Hash}
  <2> DEFINE l == a - 0
  <2>0. /\ Piece(r, 0, a) \in Seq(Bytes) /\ Len(Piece(r, 0, a)) = l
        /\ \A i \in 1 .. l : Piece(r, 0, a)[i] = r[0 + i]
    <3>1. r \in Seq(Bytes) /\ 0 \in 0 .. Len(r) /\ a \in 0 .. Len(r)
      BY <1>4 DEF n
    <3> HIDE DEF a
    <3> QED
      BY <3>1, PieceType
  <2>1. path \in Seq(Bytes) /\ Len(path) = l /\ \A i \in 1 .. l : path[i] = r[0 + i]
    <3> HIDE DEF l, a, path
    <3> QED
      BY <1>5, <2>0, Zenon
  <2>2. \A i \in 1 .. l : 0 + i \in 1 .. e - 1
    BY <1>1, <1>2
  <2>3. DOMAIN path = 1 .. l
    BY <2>1, LenProperties
  <2> HIDE DEF l, path
  <2> QED
    BY <1>2, <2>1, <2>2, <2>3, Zenon
<1> HIDE DEF a, b, path, query, fragment
<1>s. <<Query>> \in Seq(Bytes) /\ <<Hash>> \in Seq(Bytes) /\ path \in Seq(Bytes)
  <2>1. <<Query>> \in Seq(Bytes) /\ <<Hash>> \in Seq(Bytes)
    BY DEF Query, Hash, Bytes, BadEsc
  <2>2. path \in Seq(Bytes)
    BY <1>4, <1>5, PieceType DEF n
  <2> QED
    BY <2>1, <2>2
<1>6. \E q \in {<<>>, <<Query>> \o query} :
         /\ path \o q = Piece(r, 0, b)
         /\ IF q = <<>> THEN query = u.query ELSE \A i \in DOMAIN query : query[i] # Hash
  <2>1. CASE e < f
    <3>1. /\ a \in 0 .. n - 1 /\ e \in 0 .. n /\ b \in e .. n /\ e \in a .. n /\ e <= n
          /\ e \in e .. f - 1 /\ \A i \in 1 .. b - e : e + i \in e .. f - 1
      BY <1>4, <2>1, Zenon
    <3>2. r[e] = Query
      <4>1. r[e] \in {Query, Hash} /\ r[e] \notin {Hash}
        BY <1>2, <1>3, <3>1
      <4> QED
        BY <4>1
    <3>3. Piece(r, a, e) = <<Query>>
      <4>1. Piece(r, a, a + 1) = <<r[a + 1]>>
        BY <3>1, PieceOfOne DEF n
      <4> QED
        BY <1>4, <3>2, <4>1, Zenon
    <3>4. query = Piece(r, e, b)
      <4>1. query = SubSeq(r, e + 1, f - 1)
        BY <2>1 DEF query
      <4> QED
        BY <4>1, Zenon DEF Piece, b
    <3>5. path \o <<Query>> = Piece(r, 0, e)
      <4>1. Piece(r, 0, a) \o Piece(r, a, e) = Piece(r, 0, e)
        BY <1>4, <3>1, PieceJoin DEF n
      <4> QED
        BY <1>5, <3>3, <4>1, Zenon
    <3>6. Piece(r, 0, e) \o query = Piece(r, 0, b)
      BY <1>4, <3>1, <3>4, PieceJoin DEF n
    <3> DEFINE l == b - e
    <3>7. query \in Seq(Bytes) /\ Len(query) = l /\ \A i \in 1 .. l : query[i] = r[e + i]
      BY <3>1, <3>4, PieceType DEF n
    <3>8. \A i \in DOMAIN query : query[i] # Hash
      <4>1. DOMAIN query = 1 .. l
        BY <3>7, LenProperties
      <4>2. \A i \in 1 .. l : r[e + i] \notin {Hash}
        BY <1>3, <3>1, Zenon
      <4> HIDE DEF l
      <4>3. \A i \in 1 .. l : query[i] \notin {Hash}
        BY <3>7, <4>2, Zenon
      <4> QED
        BY <4>1, <4>3, Zenon
    <3>9. path \o (<<Query>> \o query) = Piece(r, 0, b)
      <4>1. (path \o <<Query>>) \o query = path \o (<<Query>> \o query)
        BY <1>s, <3>7, BytesAssociate
      <4> QED
        BY <3>5, <3>6, <4>1, Zenon
    <3>10. <<Query>> \o query # <<>>
      BY <3>7
    <3> QED
      BY <3>8, <3>9, <3>10, Zenon
  <2>2. CASE ~ (e < f)
    <3>1. a = b /\ query = u.query
      BY <1>4, <2>2 DEF query
    <3>2. path \o <<>> = path
      BY <1>s
    <3> QED
      BY <1>5, <3>1, <3>2, Zenon
  <2> QED
    BY <2>1, <2>2
<1>7. \E h \in {<<>>, <<Hash>> \o fragment} :
         /\ Piece(r, 0, b) \o h = r
         /\ h = <<>> => fragment = u.fragment
  <2>0. Piece(r, 0, b) \in Seq(Bytes)
    BY <1>4, PieceType DEF n
  <2>1. CASE f <= n
    <3>1. /\ b \in 0 .. n - 1 /\ f \in 0 .. n /\ f \in b .. n /\ n \in f .. n
      BY <1>4, <2>1
    <3>2. Piece(r, b, f) = <<Hash>>
      <4>1. Piece(r, b, b + 1) = <<r[b + 1]>>
        BY <3>1, PieceOfOne DEF n
      <4>2. r[f] = Hash
        BY <1>3, <2>1
      <4> QED
        BY <1>4, <4>1, <4>2, Zenon
    <3>3. fragment = Piece(r, f, n)
      BY <2>1 DEF From, Piece, n, fragment
    <3>4. fragment \in Seq(Bytes)
      BY <3>1, <3>3, PieceType DEF n
    <3>5. Piece(r, 0, b) \o <<Hash>> = Piece(r, 0, f)
      <4>1. Piece(r, 0, b) \o Piece(r, b, f) = Piece(r, 0, f)
        BY <1>4, <3>1, PieceJoin DEF n
      <4> QED
        BY <3>2, <4>1, Zenon
    <3>6. Piece(r, 0, f) \o fragment = Piece(r, 0, n)
      BY <1>4, <3>1, <3>3, PieceJoin DEF n
    <3>7. Piece(r, 0, b) \o (<<Hash>> \o fragment) = r
      <4>1. Piece(r, 0, n) = r
        BY PieceWhole DEF n
      <4>2. (Piece(r, 0, b) \o <<Hash>>) \o fragment = Piece(r, 0, b) \o (<<Hash>> \o fragment)
        BY <1>s, <2>0, <3>4, BytesAssociate
      <4> QED
        BY <3>5, <3>6, <4>1, <4>2, Zenon
    <3>8. <<Hash>> \o fragment # <<>>
      BY <3>4
    <3> QED
      BY <3>7, <3>8, Zenon
  <2>2. CASE ~ (f <= n)
    <3>1. b = n /\ fragment = u.fragment
      BY <1>4, <2>2 DEF n, fragment
    <3>2. Piece(r, 0, b) = r
      BY <3>1, PieceWhole DEF n
    <3>3. r \o <<>> = r
      OBVIOUS
    <3> QED
      BY <3>1, <3>2, <3>3, Zenon
  <2> QED
    BY <2>1, <2>2
<1>8. PICK q \in {<<>>, <<Query>> \o query} :
         /\ path \o q = Piece(r, 0, b)
         /\ IF q = <<>> THEN query = u.query ELSE \A i \in DOMAIN query : query[i] # Hash
  BY <1>6
<1>9. PICK h \in {<<>>, <<Hash>> \o fragment} :
         /\ Piece(r, 0, b) \o h = r
         /\ h = <<>> => fragment = u.fragment
  BY <1>7
<1>10. v.requri = path \o q \o h
  BY <1>8, <1>9, Zenon
<1> QED
  BY <1>p, <1>8, <1>9, <1>10, ZenonT(40) DEF TargetRecomposes, path, query, fragment

\* The parts of a canonical target are set as they are in it.
Settled(requri, path, query, fragment) ==
    LET q == PathEnd(requri)
        f == FirstOf(requri, q, {Hash})
    IN /\ requri \in Seq(Bytes) /\ Canonical(requri) = requri /\ Canonifies(requri)
       /\ path = SubSeq(requri, 1, q - 1)
       /\ q < f => query = SubSeq(requri, q + 1, f - 1)
       /\ f <= Len(requri) => fragment = From(requri, f)

\* They are set again by their own requri.
LEMMA SettledFixed ==
  ASSUME NEW u, IsUrl(u), Settled(u.requri, u.path, u.query, u.fragment)
  PROVE  WithRequri(u, u.requri) = u /\ Canonifies(u.requri)
<1> DEFINE r == Canonical(u.requri)
           e == PathEnd(r)
           f == FirstOf(r, e, {Hash})
           path == SubSeq(r, 1, e - 1)
           query == IF e < f THEN SubSeq(r, e + 1, f - 1) ELSE u.query
           fragment == IF f <= Len(r) THEN From(r, f) ELSE u.fragment
<1>1. WithRequri(u, u.requri) =
        IF ~ Canonifies(u.requri) THEN [u EXCEPT !.requri = HalfRewritten]
        ELSE [u EXCEPT !.requri = r, !.path = path, !.query = query, !.fragment = fragment]
  <2>1. query = (IF e < f THEN SubSeq(r, e + 1, f - 1) ELSE u.query)
        /\ fragment = (IF f <= Len(r) THEN From(r, f) ELSE u.fragment)
    OBVIOUS
  <2> QED
    BY <2>1 DEF WithRequri
<1>2. r = u.requri /\ Canonifies(u.requri)
  BY Zenon DEF Settled
<1>3. path = u.path /\ query = u.query /\ fragment = u.fragment
  BY <1>2, Zenon DEF Settled
<1> HIDE DEF r, path, query, fragment
<1>4. WithRequri(u, u.requri) = [u EXCEPT !.requri = r, !.path = path, !.query = query, !.fragment = fragment]
  BY <1>1, <1>2
<1>5. [u EXCEPT !.requri = r, !.path = path, !.query = query, !.fragment = fragment] = u
  BY <1>2, <1>3 DEF IsUrl
<1> QED
  BY <1>2, <1>4, <1>5

\* A canonical target is one whose parts are so.
LEMMA CanonicalSettled ==
  ASSUME NEW t \in Seq(Bytes), Canonifies(t), NEW query, NEW fragment
  PROVE  LET r == Canonical(t)
             e == PathEnd(r)
             f == FirstOf(r, e, {Hash})
         IN Settled(r, SubSeq(r, 1, e - 1),
                    IF e < f THEN SubSeq(r, e + 1, f - 1) ELSE query,
                    IF f <= Len(r) THEN From(r, f) ELSE fragment)
<1> DEFINE r == Canonical(t)
<1>1. DOMAIN t = 1 .. Len(t)
  BY LenProperties
<1>2. (\A i \in 1 .. Len(t) : t[i] # BadEsc) /\ Utf8Valid(r)
  BY <1>1 DEF Canonifies
<1>3. r \in Seq(Bytes) /\ Canonical(r) = r /\ \A i \in 1 .. Len(r) : r[i] # BadEsc
  BY <1>2, CanonicalFixed
<1> HIDE DEF r
<1>4. DOMAIN r = 1 .. Len(r)
  BY <1>3, LenProperties
<1>5. Canonifies(r)
  BY <1>2, <1>3, <1>4 DEF Canonifies
<1> DEFINE e == PathEnd(r)
           f == FirstOf(r, e, {Hash})
           a == SubSeq(r, e + 1, f - 1)
           b == From(r, f)
<1>6. Settled(r, SubSeq(r, 1, e - 1), IF e < f THEN a ELSE query, IF f <= Len(r) THEN b ELSE fragment)
  <2>1. /\ e < f => (IF e < f THEN a ELSE query) = a
        /\ f <= Len(r) => (IF f <= Len(r) THEN b ELSE fragment) = b
    OBVIOUS
  <2> QED
    BY <1>3, <1>5, <2>1, Zenon DEF Settled
<1> QED
  BY <1>6 DEF r

\* What url_parse_requri sets, and what it leaves.
LEMMA RequriParts ==
  ASSUME NEW u, IsUrl(u), NEW t \in Seq(Bytes)
  PROVE  LET v == WithRequri(u, t)
         IN /\ IsUrl(v)
            /\ v.scheme = u.scheme /\ v.userinfo = u.userinfo /\ v.host = u.host
            /\ Canonifies(t) =>
                  /\ v.requri = Canonical(t)
                  /\ v.path = SubSeq(v.requri, 1, PathEnd(v.requri) - 1)
                  /\ Settled(v.requri, v.path, v.query, v.fragment)
                  /\ TargetRecomposes(v, u)
<1> DEFINE r == Canonical(t)
           e == PathEnd(r)
           f == FirstOf(r, e, {Hash})
           path == SubSeq(r, 1, e - 1)
           query == IF e < f THEN SubSeq(r, e + 1, f - 1) ELSE u.query
           fragment == IF f <= Len(r) THEN From(r, f) ELSE u.fragment
           v == WithRequri(u, t)
<1>1. v = IF ~ Canonifies(t) THEN [u EXCEPT !.requri = HalfRewritten]
          ELSE [u EXCEPT !.requri = r, !.path = path, !.query = query, !.fragment = fragment]
  <2>1. query = (IF e < f THEN SubSeq(r, e + 1, f - 1) ELSE u.query)
        /\ fragment = (IF f <= Len(r) THEN From(r, f) ELSE u.fragment)
    OBVIOUS
  <2> QED
    BY <2>1 DEF WithRequri
<1>2. r \in Seq(Bytes)
  BY CanonicalFixed
<1>0. path = SubSeq(r, 1, PathEnd(r) - 1)
  OBVIOUS
<1>6. Canonifies(t) => Settled(r, path, query, fragment)
  BY CanonicalSettled, Zenon
<1>3. ASSUME NEW w, w.requri = r, w.path = path, w.query = query, w.fragment = fragment
      PROVE  TargetRecomposes(w, u)
  <2>1. e = PathEnd(r) /\ f = FirstOf(r, e, {Hash}) /\ path = SubSeq(r, 1, e - 1)
    OBVIOUS
  <2>2. /\ query = IF e < f THEN SubSeq(r, e + 1, f - 1) ELSE u.query
        /\ fragment = IF f <= Len(r) THEN From(r, f) ELSE u.fragment
    OBVIOUS
  <2> HIDE DEF r, e, f, path, query, fragment, v
  <2> QED
    BY <1>2, <1>3, <2>1, <2>2, TargetSplits
<1> HIDE DEF r, e, f, path, query, fragment, v
<1>4. CASE ~ Canonifies(t)
  <2>1. v = [u EXCEPT !.requri = HalfRewritten]
    BY <1>1, <1>4
  <2>2. IsUrl(v) /\ v.scheme = u.scheme /\ v.userinfo = u.userinfo /\ v.host = u.host
    BY <2>1 DEF IsUrl
  <2> QED
    BY <1>4, <2>2 DEF v
<1>5. CASE Canonifies(t)
  <2>1. v = [u EXCEPT !.requri = r, !.path = path, !.query = query, !.fragment = fragment]
    BY <1>1, <1>5
  <2>2. /\ IsUrl(v) /\ v.scheme = u.scheme /\ v.userinfo = u.userinfo /\ v.host = u.host
        /\ v.requri = r /\ v.path = path /\ v.query = query /\ v.fragment = fragment
    BY <2>1 DEF IsUrl
  <2>3. TargetRecomposes(v, u)
    BY <1>3, <2>2, Zenon
  <2>4. v.path = SubSeq(v.requri, 1, PathEnd(v.requri) - 1)
    BY <1>0, <2>2, Zenon
  <2>5. Settled(v.requri, v.path, v.query, v.fragment)
    BY <1>5, <1>6, <2>2, Zenon
  <2> QED
    BY <2>2, <2>3, <2>4, <2>5 DEF v, r
<1> QED
  BY <1>4, <1>5

\* A scheme ends where "://" begins.
LEMMA SchemeEnds ==
  ASSUME NEW raw \in Seq(Bytes), NEW k \in 0 .. Len(raw),
         IsPrefix(<<Colon, Slash, Slash>>, From(raw, k))
  PROVE  k + 3 <= Len(raw) /\ Piece(raw, k, k + 3) = <<Colon, Slash, Slash>>
<1> DEFINE n == Len(raw)
           t == From(raw, k)
           sep == <<Colon, Slash, Slash>>
           l == n - k
<1>1. n \in Nat /\ k \in 0 .. n /\ n \in k .. n /\ l \in Nat
  BY LenProperties
<1>2. t = Piece(raw, k, n)
  BY Zenon DEF From, Piece
<1>3. t \in Seq(Bytes) /\ Len(t) = l
  BY <1>1, <1>2, PieceType
<1>4. Len(sep) = 3 /\ SubSeq(sep, 1, 3) = sep
  <2>1. sep \in Seq(Bytes) /\ Len(sep) = 3
    BY DEF Colon, Slash, Bytes, BadEsc
  <2> HIDE DEF sep
  <2>2. SubSeq(sep, 1, Len(sep)) = sep
    BY <2>1, SubSeqFull
  <2> QED
    BY <2>1, <2>2
<1>5. IsPrefix(sep, t)
  OBVIOUS
<1> HIDE DEF sep, t, n
<1>6. 3 <= l /\ sep = SubSeq(t, 1, 3)
  BY <1>3, <1>4, <1>5 DEF IsPrefix
<1>7. /\ k + 3 <= n /\ 0 \in 0 .. l /\ 3 \in 0 .. l /\ 0 + 1 = 1 /\ k + 0 = k
  BY <1>1, <1>6
<1>8. sep = Piece(t, 0, 3)
  BY <1>6, <1>7, Zenon DEF Piece
<1>9. Piece(Piece(raw, k, n), 0, 3) = Piece(raw, k + 0, k + 3)
  <2>1. 0 \in 0 .. n - k /\ 3 \in 0 .. n - k
    BY <1>7
  <2> QED
    BY <1>1, <2>1, PieceOfPiece DEF n
<1> QED
  BY <1>2, <1>7, <1>8, <1>9 DEF sep, n

\* A URL that is accepted falls into its scheme, what stands in front of the
\* host, the host and the target, and these into their parts.
Apart(raw, v, before) ==
    IF v.scheme = UnixScheme THEN raw = v.scheme \o <<Colon, Slash, Slash>> \o v.path
    ELSE /\ Recomposes(raw, v, before)
         /\ TargetRecomposes(v, before)
         /\ HostRecomposes(v)

\* What url_parse() makes of a text.
LEMMA ParsedApart ==
  ASSUME NEW u, IsUrl(u), NEW raw \in Seq(Bytes)
  PROVE  LET p == Parsed(u, raw)
         IN /\ IsUrl(p.url)
            /\ p.ok => Apart(raw, p.url, u)
            /\ p.ok /\ p.url.scheme # UnixScheme =>
                  Settled(p.url.requri, p.url.path, p.url.query, p.url.fragment)
<1> DEFINE s == FirstOf(raw, 1, {Colon})
           schemed == [u EXCEPT !.scheme = SubSeq(raw, 1, s - 1)]
           rest == From(raw, s + 2)
           scan == Scan(u, rest)
           authority == SubSeq(rest, scan.begin, scan.end - 1)
           target == From(rest, scan.end - 1)
           host == HostOf(authority, ByteAt(target, 1))
           hosted == [schemed EXCEPT !.userinfo = scan.user, !.host = host]
           there == IsPrefix(<<Colon, Slash, Slash>>, From(raw, s - 1))
           p == Parsed(u, raw)
           n == Len(raw)
           k == s - 1
           m == s + 2
<1>1. p = IF ~ there THEN [ok |-> FALSE, url |-> u]
          ELSE IF schemed.scheme = UnixScheme
          THEN [ok |-> TRUE, url |-> [schemed EXCEPT !.path = rest]]
          ELSE IF scan.failed
          THEN [ok |-> FALSE, url |-> [schemed EXCEPT !.userinfo = scan.user]]
          ELSE IF ~ Canonifies(target) THEN [ok |-> FALSE, url |-> WithRequri(hosted, target)]
          ELSE WithHostname(WithRequri(hosted, target))
  BY Zenon DEF Parsed
<1>2. n \in Nat /\ 1 \in 1 .. n + 1 /\ 0 + 1 = 1
  BY LenProperties
<1>3. s \in 1 .. n + 1 /\ k \in 0 .. n /\ k + 3 = m /\ m + 1 = s + 2 + 1
  <2>1. s \in 1 .. n + 1
    BY <1>2, FirstOfIs
  <2> HIDE DEF s, n
  <2> QED
    BY <1>2, <2>1
<1>4. schemed.scheme = Piece(raw, 0, k) /\ IsUrl(schemed) /\ schemed.userinfo = u.userinfo
      /\ schemed.query = u.query /\ schemed.fragment = u.fragment
  <2> DEFINE scheme == SubSeq(raw, 1, s - 1)
  <2>1. scheme = Piece(raw, 0, k)
    BY <1>2, Zenon DEF Piece
  <2>2. schemed = [u EXCEPT !.scheme = scheme]
    OBVIOUS
  <2> HIDE DEF scheme, schemed, k
  <2>3. /\ schemed.scheme = scheme /\ IsUrl(schemed) /\ schemed.userinfo = u.userinfo
        /\ schemed.query = u.query /\ schemed.fragment = u.fragment
    BY <2>2 DEF IsUrl
  <2> QED
    BY <2>1, <2>3
<1>5. CASE ~ there
  <2>1. p = [ok |-> FALSE, url |-> u]
    BY <1>1, <1>5
  <2> HIDE DEF p
  <2> QED
    BY <2>1 DEF p
<1>6. CASE there
  <2>1. m <= n /\ Piece(raw, k, m) = <<Colon, Slash, Slash>>
    <3>1. k + 3 <= n /\ Piece(raw, k, k + 3) = <<Colon, Slash, Slash>>
      <4> HIDE DEF s
      <4> QED
        BY <1>3, <1>6, SchemeEnds
    <3> QED
      BY <1>3, <3>1, Zenon
  <2>2. rest = Piece(raw, m, n)
    BY Zenon DEF From, Piece
  <2> DEFINE l == n - m
  <2>3. m \in 0 .. n /\ n \in m .. n /\ m \in k .. n /\ l \in Nat /\ k \in 0 .. n /\ 0 \in 0 .. n
    <3> HIDE DEF s, n, k
    <3> QED
      BY <1>2, <1>3, <2>1
  <2>4. rest \in Seq(Bytes) /\ Len(rest) = l
    <3>1. n - m = l
      OBVIOUS
    <3> HIDE DEF n, m, l, rest
    <3> QED
      BY <2>2, <2>3, <3>1, PieceType DEF n
  <2>5. u.userinfo \in Seq(Bytes)
    BY DEF IsUrl
  <2>6. /\ scan.end \in 1 .. l + 1 /\ scan.begin \in 1 .. scan.end
        /\ scan.end <= l => rest[scan.end] \in Separators
        /\ scan.user \in Seq(Bytes)
        /\ UserIs(scan.user, scan.begin, u.userinfo, rest)
        /\ scan.failed \/ HostRuns(rest, scan.begin, scan.end - 1)
    <3> HIDE DEF rest, l
    <3>1. Len(rest) = l
      BY <2>4
    <3> QED
      BY <2>4, <2>5, <3>1, ScanIs
  <2> DEFINE b == scan.begin - 1
             e == scan.end - 1
             i == m + e
             j == m + b
  <2>7. /\ e \in 0 .. l /\ b \in 0 .. e /\ b + 1 = scan.begin /\ e + 1 = scan.end
        /\ i \in 0 .. n /\ j \in m .. i /\ j \in m .. n /\ i \in j .. n /\ b \in 0 .. l /\ e \in b .. l
        /\ 0 \in 0 .. l /\ l \in e .. l /\ m + 0 = m /\ m + l = n /\ l - e = n - i
        /\ m \in 0 .. n /\ i \in m .. n /\ j \in 0 .. n /\ b \in 0 .. l
    <3> DEFINE x == scan.begin
               y == scan.end
    <3>1. y \in 1 .. l + 1 /\ x \in 1 .. y
      BY <2>6
    <3>2. l = n - m /\ b = x - 1 /\ e = y - 1 /\ i = m + e /\ j = m + b
      OBVIOUS
    <3>3. b + 1 = scan.begin /\ e + 1 = scan.end <=> b + 1 = x /\ e + 1 = y
      OBVIOUS
    <3> HIDE DEF x, y, l, n, m, b, e, i, j
    <3> QED
      BY <1>2, <2>3, <3>1, <3>2, <3>3
  <2>8. authority = Piece(rest, b, e) /\ target = Piece(rest, e, l)
    BY <2>4, <2>7, Zenon DEF From, Piece
  <2> HIDE DEF s, n, k, m, l, rest, scan, b, e, i, j, authority, target, host, schemed
  <2>9. /\ authority \in Seq(Bytes)
        /\ authority = Piece(raw, j, i)
        /\ target = Piece(raw, i, n)
        /\ Piece(rest, 0, b) = Piece(raw, m, j)
    <3>1. Piece(rest, b, e) \in Seq(Bytes)
      BY <2>4, <2>7, PieceType
    <3>2. /\ b \in 0 .. n - m /\ e \in b .. n - m /\ l \in e .. n - m /\ 0 \in 0 .. n - m /\ b \in 0 .. n - m
          /\ e \in 0 .. n - m /\ l \in e .. n - m
      BY <2>7 DEF l
    <3>3. Piece(Piece(raw, m, n), b, e) = Piece(raw, m + b, m + e)
      BY <2>3, <3>2, PieceOfPiece DEF n
    <3>4. Piece(Piece(raw, m, n), e, l) = Piece(raw, m + e, m + l)
      BY <2>3, <3>2, PieceOfPiece DEF n
    <3>5. Piece(Piece(raw, m, n), 0, b) = Piece(raw, m + 0, m + b)
      BY <2>3, <3>2, PieceOfPiece DEF n
    <3> QED
      BY <2>2, <2>7, <2>8, <3>1, <3>3, <3>4, <3>5, Zenon DEF i, j
  <2>10. target \in Seq(Bytes) /\ target = From(raw, i)
    <3>1. i \in 0 .. n /\ n \in i .. n
      BY <1>2, <2>7
    <3> QED
      BY <2>9, <3>1, PieceType DEF From, Piece, n
  <2>11. ByteAt(target, 1) # Star /\ (i < n => raw[i + 1] \in Separators)
    <3>1. target \in Seq(Bytes) /\ Len(target) = l - e /\ \A x \in 1 .. l - e : target[x] = rest[e + x]
      BY <2>4, <2>7, <2>8, PieceType
    <3>2. CASE e < l
      <4>1. 1 \in 1 .. l - e /\ e + 1 = scan.end /\ scan.end <= l
        BY <2>3, <2>7, <3>2
      <4>2. target[1] = rest[scan.end]
        BY <3>1, <4>1
      <4>3. target[1] \in Separators
        BY <2>6, <4>1, <4>2
      <4>4. target[1] # Star
        BY <4>3 DEF Separators, Slash, Query, Hash, Star
      <4>5. target[1] = raw[i + 1]
        <5>1. \A x \in 1 .. n - i : Piece(raw, i, n)[x] = raw[i + x]
          <6>1. i \in 0 .. n /\ n \in i .. n
            BY <1>2, <2>7
          <6> QED
            BY <6>1, PieceType DEF n
        <5>2. 1 \in 1 .. n - i
          BY <2>7, <4>1
        <5> QED
          BY <2>9, <5>1, <5>2
      <4>6. ByteAt(target, 1) = Star <=> 1 <= Len(target) /\ target[1] = Star
        BY <3>1, BeginsWithStar
      <4> QED
        BY <4>3, <4>4, <4>5, <4>6
    <3>3. CASE ~ (e < l)
      <4>1. Len(target) = 0 /\ ~ (i < n)
        BY <2>3, <2>7, <3>1, <3>3
      <4>2. 1 > Len(target)
        BY <4>1
      <4> QED
        BY <4>1, <4>2 DEF ByteAt, Star
    <3> QED
      BY <3>2, <3>3
  <2>12. /\ host \in Seq(Bytes)
         /\ \E star \in {<<>>, <<Star>>} :
               authority = star \o host /\ (star # <<>> => ByteAt(host, 1) = Colon)
    <3>1. /\ host \in Seq(Bytes)
          /\ \/ host = authority
             \/ authority = <<Star>> \o host /\ ByteAt(host, 1) = Colon
      BY <2>9, <2>11, HostIs DEF host
    <3>2. <<>> \o host = host
      BY <3>1
    <3> QED
      BY <3>1, <3>2, Zenon
  <2>13. ~ scan.failed =>
            \A x \in DOMAIN host : host[x] \in Separators \cup {At} => x = 1 /\ b # 0
    <3> SUFFICES ASSUME ~ scan.failed
                 PROVE  \A x \in DOMAIN host : host[x] \in Separators \cup {At} => x = 1 /\ b # 0
      OBVIOUS
    <3>1. HostRuns(rest, b + 1, e)
      BY <2>6, <2>7 DEF e
    <3>2. host = HostOf(Piece(rest, b, e), ByteAt(target, 1))
      BY <2>8 DEF host
    <3>3. rest \in Seq(Bytes) /\ b \in 0 .. Len(rest) /\ e \in b .. Len(rest)
      BY <2>4, <2>7
    <3> QED
      BY <2>11, <3>1, <3>2, <3>3, HostBytes
  <2> DEFINE front == Piece(raw, m, j)
  <2>20. /\ front \in Seq(Bytes) /\ (b # 0 => front # <<>>)
         /\ \/ front = <<>> /\ scan.user = u.userinfo
            \/ front = scan.user \o <<At>>
            \/ scan.user # <<>> /\ front = <<At>> \o scan.user \o <<At>>
    <3>1. front \in Seq(Bytes) /\ Len(front) = j - m
      BY <2>7, PieceType DEF n
    <3>2. scan.begin = 1 => front = <<>>
      <4> SUFFICES ASSUME scan.begin = 1 PROVE front = <<>>
        OBVIOUS
      <4>1. b = 0
        BY <2>7 DEF b
      <4>2. Piece(rest, 0, b) = <<>>
        BY <4>1, PieceEmpty
      <4> QED
        BY <2>9, <4>2, Zenon
    <3>3. Piece(rest, 0, scan.begin - 1) = front
      BY <2>9 DEF b
    <3>4. j - m = b
      BY <2>3, <2>7 DEF j
    <3>5. b # 0 => front # <<>>
      <4> HIDE DEF front
      <4> QED
        BY <3>1, <3>4
    <3> QED
      BY <2>6, <3>1, <3>2, <3>3, <3>5, Zenon DEF UserIs
  <2> HIDE DEF front
  <2>14. /\ IsUrl(hosted) /\ hosted.scheme = Piece(raw, 0, k) /\ hosted.userinfo = scan.user
         /\ hosted.host = host /\ hosted.query = u.query /\ hosted.fragment = u.fragment
    <3> DEFINE user == scan.user
    <3>1. user \in Seq(Bytes) /\ hosted = [schemed EXCEPT !.userinfo = user, !.host = host]
      BY <2>6
    <3> HIDE DEF user, hosted
    <3>2. /\ IsUrl(hosted) /\ hosted.scheme = schemed.scheme /\ hosted.userinfo = user
          /\ hosted.host = host /\ hosted.query = schemed.query
          /\ hosted.fragment = schemed.fragment
      BY <1>4, <3>1 DEF IsUrl
    <3> QED
      BY <1>4, <3>2 DEF user
  <2> DEFINE v == WithRequri(hosted, target)
  <2>15. /\ IsUrl(v) /\ v.scheme = hosted.scheme /\ v.userinfo = hosted.userinfo
         /\ v.host = hosted.host
         /\ Canonifies(target) =>
               /\ v.requri = Canonical(target)
               /\ v.path = SubSeq(v.requri, 1, PathEnd(v.requri) - 1)
               /\ Settled(v.requri, v.path, v.query, v.fragment)
               /\ TargetRecomposes(v, hosted)
    <3> HIDE DEF hosted
    <3> QED
      BY <2>10, <2>14, RequriParts
  <2> HIDE DEF hosted, v
  <2>16. CASE schemed.scheme = UnixScheme
    <3>1. p = [ok |-> TRUE, url |-> [schemed EXCEPT !.path = rest]]
      BY <1>1, <1>6, <2>16
    <3> HIDE DEF p
    <3>2. /\ IsUrl(p.url) /\ p.url.scheme = UnixScheme /\ p.url.scheme = Piece(raw, 0, k)
          /\ p.url.path = rest
      BY <1>4, <2>16, <3>1 DEF IsUrl
    <3>3. Piece(raw, 0, k) \o Piece(raw, k, m) \o Piece(raw, m, n) = raw
      <4>1. Piece(raw, 0, k) \o Piece(raw, k, m) = Piece(raw, 0, m)
        BY <2>3, PieceJoin DEF n
      <4>2. Piece(raw, 0, m) \o Piece(raw, m, n) = Piece(raw, 0, n)
        BY <2>3, PieceJoin DEF n
      <4>3. Piece(raw, 0, n) = raw
        BY PieceWhole DEF n
      <4> QED
        BY <4>1, <4>2, <4>3, Zenon
    <3>4. raw = p.url.scheme \o <<Colon, Slash, Slash>> \o p.url.path
      BY <2>1, <2>2, <3>2, <3>3, Zenon
    <3> QED
      BY <3>2, <3>4, Zenon DEF p, Apart
  <2>17. CASE schemed.scheme # UnixScheme /\ scan.failed
    <3>1. p = [ok |-> FALSE, url |-> [schemed EXCEPT !.userinfo = scan.user]]
      BY <1>1, <1>6, <2>17
    <3> HIDE DEF p
    <3>2. IsUrl(p.url) /\ ~ p.ok
      <4> DEFINE user == scan.user
      <4>1. user \in Seq(Bytes) /\ p = [ok |-> FALSE, url |-> [schemed EXCEPT !.userinfo = user]]
        BY <2>6, <3>1
      <4> HIDE DEF user
      <4> QED
        BY <1>4, <4>1 DEF IsUrl
    <3> QED
      BY <3>2 DEF p
  <2>18. CASE schemed.scheme # UnixScheme /\ ~ scan.failed /\ ~ Canonifies(target)
    <3>1. p = [ok |-> FALSE, url |-> v]
      BY <1>1, <1>6, <2>18 DEF v
    <3> HIDE DEF p
    <3> QED
      BY <2>15, <3>1 DEF p
  <2>19. CASE schemed.scheme # UnixScheme /\ ~ scan.failed /\ Canonifies(target)
    <3>1. p = WithHostname(v)
      BY <1>1, <1>6, <2>19 DEF v
    <3> HIDE DEF p
    <3>2. HostTaken(v, p.url) /\ (p.ok => HostRecomposes(p.url))
      <4>1. v.host \in Seq(Bytes)
        BY <2>12, <2>14, <2>15
      <4> QED
        BY <2>15, <3>1, <4>1, HostIsTaken
    <3>3. ASSUME p.ok
          PROVE  /\ p.url.scheme # UnixScheme /\ Recomposes(raw, p.url, u)
                 /\ TargetRecomposes(p.url, u) /\ HostRecomposes(p.url)
                 /\ Settled(p.url.requri, p.url.path, p.url.query, p.url.fragment)
      <4> DEFINE w == p.url
      <4>1. HostRecomposes(w)
        BY <3>2, <3>3
      <4>2. /\ w.scheme = v.scheme
            /\ w.userinfo = v.userinfo /\ w.host = v.host /\ w.requri = v.requri
            /\ w.path = v.path /\ w.query = v.query /\ w.fragment = v.fragment
        BY <3>2 DEF HostTaken
      <4> HIDE DEF w
      <4>3. PICK star \in {<<>>, <<Star>>} :
               authority = star \o host /\ (star # <<>> => ByteAt(host, 1) = Colon)
        BY <2>12
      <4>4. w.scheme = Piece(raw, 0, k) /\ w.host = host /\ w.userinfo = scan.user
        BY <2>14, <2>15, <4>2, Zenon
      <4>5. SubSeq(raw, 1, i) = w.scheme \o <<Colon, Slash, Slash>> \o (front \o star \o w.host)
        <5>1. SubSeq(raw, 1, i) = Piece(raw, 0, i)
          BY <1>2, Zenon DEF Piece
        <5>2. Piece(raw, 0, k) \o Piece(raw, k, m) = Piece(raw, 0, m)
          BY <2>3, PieceJoin DEF n
        <5>3. Piece(raw, m, j) \o Piece(raw, j, i) = Piece(raw, m, i)
          BY <2>7, PieceJoin DEF n
        <5>4. Piece(raw, 0, m) \o Piece(raw, m, i) = Piece(raw, 0, i)
          BY <2>3, <2>7, PieceJoin DEF n
        <5>5. front \o (star \o host) = front \o star \o host
          <6>1. star \in Seq(Bytes)
            <7>1. <<Star>> \in Seq(Bytes) /\ <<>> \in Seq(Bytes)
              BY DEF Star, Bytes, BadEsc
            <7> QED
              BY <4>3, <7>1
          <6> QED
            BY <2>12, <2>20, <6>1, BytesAssociate, Zenon
        <5>6. Piece(raw, m, i) = front \o star \o host
          BY <2>9, <4>3, <5>3, <5>5, Zenon DEF front
        <5> QED
          BY <2>1, <4>4, <5>1, <5>2, <5>4, <5>6, Zenon
      <4>6. front \in Fronts(w, u)
        <5>1. <<>> \o <<At>> = <<At>>
          OBVIOUS
        <5>2. front = <<>> /\ w.userinfo = u.userinfo => front \in Fronts(w, u)
          BY Zenon DEF Fronts
        <5>3. front = w.userinfo \o <<At>> => front \in Fronts(w, u)
          BY <5>1, Zenon DEF Fronts
        <5>4. w.userinfo # <<>> /\ front = <<At>> \o w.userinfo \o <<At>> => front \in Fronts(w, u)
          BY Zenon DEF Fronts
        <5> QED
          BY <2>20, <4>4, <5>2, <5>3, <5>4, Zenon
      <4>7. w.requri = Canonical(From(raw, i))
        BY <2>10, <2>15, <2>19, <4>2
      <4>8. \A x \in DOMAIN w.scheme : w.scheme[x] # Colon
        <5> DEFINE scheme == Piece(raw, 0, k)
                   c == k - 0
        <5>1. scheme \in Seq(Bytes) /\ Len(scheme) = c /\ \A x \in 1 .. c : scheme[x] = raw[0 + x]
          BY <2>3, PieceType DEF n
        <5>2. \A x \in 1 .. s - 1 : raw[x] \notin {Colon}
          BY <1>2, FirstOfIs DEF s, n
        <5>3. \A x \in 1 .. c : 0 + x \in 1 .. s - 1
          BY <2>3 DEF k
        <5>4. DOMAIN scheme = 1 .. c
          BY <5>1, LenProperties
        <5> HIDE DEF scheme, c
        <5>5. \A x \in DOMAIN scheme : scheme[x] # Colon
          BY <5>1, <5>2, <5>3, <5>4, Zenon
        <5> QED
          BY <4>4, <5>5, Zenon DEF scheme
      <4>9. \A x \in DOMAIN w.host : w.host[x] \in Separators \cup {At} => x = 1 /\ front # <<>>
        BY <2>13, <2>19, <2>20, <4>4, Zenon
      <4>10. Recomposes(raw, w, u)
        <5>1. i \in 0 .. Len(raw) /\ (i < Len(raw) => raw[i + 1] \in Separators)
          BY <2>7, <2>11 DEF n
        <5>2. star # <<>> => ByteAt(w.host, 1) = Colon
          BY <4>3, <4>4, Zenon
        <5> QED
          BY <4>3, <4>5, <4>6, <4>7, <4>8, <4>9, <5>1, <5>2, Zenon DEF Recomposes
      <4>11. Settled(w.requri, w.path, w.query, w.fragment)
        BY <2>15, <2>19, <4>2
      <4>12. TargetRecomposes(w, u)
        <5>1. TargetRecomposes(v, hosted)
          BY <2>15, <2>19
        <5> QED
          BY <2>14, <4>2, <5>1, Zenon DEF TargetRecomposes
      <4>13. w.scheme # UnixScheme
        BY <1>4, <2>19, <4>4
      <4> QED
        BY <4>1, <4>10, <4>11, <4>12, <4>13 DEF w
    <3> QED
      BY <3>2, <3>3, Zenon DEF p, HostTaken, Apart
  <2> QED
    BY <2>16, <2>17, <2>18, <2>19
<1> QED
  BY <1>5, <1>6

-----------------------------------------------------------------------------
(* Every reachable state. *)

UrlInv ==
    /\ IsUrl(url)
    /\ calls \in Nat
    /\ ok /\ url.scheme # UnixScheme => Settled(url.requri, url.path, url.query, url.fragment)
    /\ ok /\ calls = 0 =>
          asked \in Seq(Bytes) /\ url.path = SubSeq(Canonical(asked), 1, PathEnd(Canonical(asked)) - 1)

\* Nothing is canonical, and has no end before its own.
LEMMA NothingIs ==
  /\ Canonical(<<>>) = <<>>
  /\ PathEnd(<<>>) = 1 /\ FirstOf(<<>>, 1, {Hash}) = 1
<1>1. Canonical(<<>>) = <<>>
  <2>1. <<>> \in Seq(Bytes) /\ Len(<<>>) = 0 /\ 0 \in 0 .. 0
    OBVIOUS
  <2>2. Unescape(<<>>) = <<>>
    BY <2>1, UnescapeType, EmptySeq, ZenonT(40)
  <2>3. Collapse(<<>>) = <<>>
    <3>1. Collapsed(<<>>)[0] = CollapsedStep(<<>>, Collapsed(<<>>), 0)
      BY <2>1, CollapsedEquation
    <3>2. CollapsedStep(<<>>, Collapsed(<<>>), 0) = <<>>
      BY DEF CollapsedStep
    <3>3. Collapse(<<>>) = Collapsed(<<>>)[0]
      BY <2>1, Zenon DEF Collapse
    <3> QED
      BY <3>1, <3>2, <3>3, Zenon
  <2>4. Resolve(<<>>) = <<>>
    <3>1. Reduced(<<>>)[0] = ReducedStep(<<>>, Reduced(<<>>), 0)
      BY <2>1, ReducedEquation
    <3>2. ReducedStep(<<>>, Reduced(<<>>), 0).out = <<>>
      BY DEF ReducedStep
    <3>3. Resolve(<<>>) = Reduced(<<>>)[0].out
      BY <2>1, Zenon DEF Resolve
    <3> QED
      BY <3>1, <3>2, <3>3, Zenon
  <2> QED
    BY <2>2, <2>3, <2>4 DEF Canonical
<1>2. PathEnd(<<>>) = 1 /\ FirstOf(<<>>, 1, {Hash}) = 1
  <2>1. <<>> \in Seq(Bytes) /\ Len(<<>>) = 0 /\ 1 \in 1 .. 1
    OBVIOUS
  <2>2. PathEnd(<<>>) = 1
    <3>1. <<>> \in Seq(Bytes) /\ 1 \in 1 .. Len(<<>>) + 1
      OBVIOUS
    <3>2. FirstOf(<<>>, 1, {Query, Hash}) \in 1 .. Len(<<>>) + 1
      BY <3>1, FirstOfIs
    <3> QED
      BY <1>1, <2>1, <3>2 DEF PathEnd
  <2>3. FirstOf(<<>>, 1, {Hash}) = 1
    <3>1. <<>> \in Seq(Bytes) /\ 1 \in 1 .. Len(<<>>) + 1
      OBVIOUS
    <3>2. FirstOf(<<>>, 1, {Hash}) \in 1 .. Len(<<>>) + 1
      BY <3>1, FirstOfIs
    <3> QED
      BY <1>1, <2>1, <2>2, <3>2
  <2> QED
    BY <1>1, <2>1, <2>2, <2>3
<1> QED
  BY <1>1, <1>2

\* Nothing is valid UTF-8.
LEMMA NothingIsUtf8 == Utf8Valid(<<>>)
<1> DEFINE Valid(v, i) ==
             IF i > Len(<<>>) THEN TRUE
             ELSE LET n == Following(ByteAt(<<>>, i))
                      c == CodePoint(<<>>, i, n)
                  IN \/ n = 0 /\ v[i + 1]
                     \/ /\ n > 0
                        /\ \A k \in 1 .. n : ByteAt(<<>>, i + k) \in 128 .. 191
                        /\ c >= Least(n) /\ c \notin 55296 .. 57343 /\ c <= 1114111
                        /\ v[i + n + 1]
           IsValid(v) == v = [i \in 1 .. Len(<<>>) + 1 |-> Valid(v, i)]
           valid == CHOOSE v : IsValid(v)
<1>1. Utf8Valid(<<>>) = valid[1]
  BY DEF Utf8Valid
<1>2. Len(<<>>) = 0 /\ 1 > 0 /\ 1 \in 1 .. 0 + 1 /\ \A i \in 1 .. 0 + 1 : i > 0
  OBVIOUS
<1>3. \A v : \A i \in 1 .. Len(<<>>) + 1 : Valid(v, i) = TRUE
  BY <1>2
<1> HIDE DEF Valid
<1>4. \E v : IsValid(v)
  <2> DEFINE v == [i \in 1 .. Len(<<>>) + 1 |-> TRUE]
  <2>1. v = [i \in 1 .. Len(<<>>) + 1 |-> Valid(v, i)]
    BY <1>3
  <2> QED
    BY <2>1
<1>5. IsValid(valid)
  <2> HIDE DEF IsValid
  <2> QED
    BY <1>4
<1>6. valid = [i \in 1 .. Len(<<>>) + 1 |-> Valid(valid, i)]
  BY <1>5
<1> HIDE DEF valid
<1>7. valid[1] = Valid(valid, 1)
  <2>1. 1 \in 1 .. Len(<<>>) + 1
    BY <1>2
  <2> DEFINE w == [i \in 1 .. Len(<<>>) + 1 |-> Valid(valid, i)]
  <2>2. w[1] = Valid(valid, 1)
    BY <2>1
  <2> HIDE DEF w
  <2> QED
    BY <1>6, <2>2 DEF w
<1> QED
  BY <1>1, <1>2, <1>3, <1>7

\* A new url_t has the parts of an empty target.
LEMMA EmptySettled == Settled(<<>>, <<>>, <<>>, <<>>)
<1>1. Canonifies(<<>>)
  BY NothingIs, NothingIsUtf8 DEF Canonifies
<1>2. <<>> \in Seq(Bytes) /\ Len(<<>>) = 0 /\ <<>> = SubSeq(<<>>, 1, 1 - 1) /\ ~ (1 < 1) /\ ~ (1 <= 0)
  OBVIOUS
<1> QED
  BY <1>1, <1>2, NothingIs DEF Settled

\* The url_t is new at first.
LEMMA UrlInitInvariant == Init => UrlInv
<1> SUFFICES ASSUME Init PROVE UrlInv
  OBVIOUS
<1>1. PICK p \in AnyPort :
          url = [scheme |-> <<>>, userinfo |-> <<>>, host |-> <<>>, hostname |-> <<>>,
                 port |-> p, requri |-> <<>>, path |-> <<>>, query |-> <<>>,
                 fragment |-> <<>>]
  BY DEF Init
<1>2. /\ IsUrl(url) /\ url.query = <<>> /\ url.fragment = <<>> /\ url.requri = <<>> /\ url.path = <<>>
  BY <1>1 DEF IsUrl
<1>4. Settled(url.requri, url.path, url.query, url.fragment)
  BY <1>2, EmptySettled, Zenon
<1>3. calls = 0 /\ asked = <<>> /\ calls \in Nat /\ ~ (calls > 0)
  BY DEF Init
<1>5. asked \in Seq(Bytes) /\ url.path = SubSeq(Canonical(asked), 1, PathEnd(Canonical(asked)) - 1)
  <2>1. <<>> = SubSeq(<<>>, 1, 1 - 1) /\ <<>> \in Seq(Bytes)
    OBVIOUS
  <2>2. Canonical(<<>>) = <<>> /\ PathEnd(<<>>) = 1
    BY NothingIs
  <2> QED
    BY <1>2, <1>3, <2>1, <2>2, Zenon
<1> QED
  BY <1>2, <1>3, <1>4, <1>5, Zenon DEF UrlInv

\* Each call of url_parse() and url_parse_requri() keeps the invariant.
LEMMA UrlStep ==
  ASSUME UrlInv, Next
  PROVE  UrlInv'
<1>1. ASSUME NEW raw \in RawUrls, Parse(raw)
      PROVE  UrlInv'
  <2> DEFINE p == Parsed(url, raw)
             v == p.url
  <2>1. url' = v /\ ok' = p.ok /\ calls' = calls + 1
    BY <1>1 DEF Parse
  <2>2. raw \in Seq(Bytes) /\ IsUrl(url) /\ calls \in Nat
    BY UrlAssumption DEF UrlInv
  <2>3. /\ IsUrl(v)
        /\ p.ok /\ v.scheme # UnixScheme => Settled(v.requri, v.path, v.query, v.fragment)
    BY <2>2, ParsedApart
  <2>4. calls' \in Nat /\ calls' # 0
    BY <2>1, <2>2
  <2> HIDE DEF p
  <2>5. IsUrl(url')
    BY <2>1, <2>3
  <2>6. ok' /\ url'.scheme # UnixScheme =>
          Settled(url'.requri, url'.path, url'.query, url'.fragment)
    BY <2>1, <2>3, Zenon
  <2> QED
    BY <2>4, <2>5, <2>6, Zenon DEF UrlInv
<1>2. ASSUME NEW t \in Targets, ParseRequri(t)
      PROVE  UrlInv'
  <2>1. /\ asked = <<>> /\ calls = 0 /\ url' = WithRequri(url, t) /\ asked' = t /\ calls' = 0
        /\ ok' = Canonifies(t)
    BY <1>2 DEF ParseRequri
  <2>2. t \in Seq(Bytes) /\ IsUrl(url)
    BY UrlAssumption DEF UrlInv
  <2>3. IsUrl(url')
    BY <2>1, <2>2, RequriParts
  <2>5. calls' \in Nat
    BY <2>1
  <2>6. ok' => Settled(url'.requri, url'.path, url'.query, url'.fragment)
    <3> DEFINE v == WithRequri(url, t)
    <3>1. Canonifies(t) => Settled(v.requri, v.path, v.query, v.fragment)
      BY <2>2, RequriParts
    <3> HIDE DEF v
    <3>2. url' = v
      BY <2>1 DEF v
    <3> QED
      BY <2>1, <3>1, <3>2, Zenon
  <2>7. ok' => url'.path = SubSeq(Canonical(t), 1, PathEnd(Canonical(t)) - 1)
    <3> DEFINE v == WithRequri(url, t)
    <3>1. Canonifies(t) =>
             v.requri = Canonical(t) /\ v.path = SubSeq(v.requri, 1, PathEnd(v.requri) - 1)
      BY <2>2, RequriParts
    <3> HIDE DEF v
    <3>2. url' = v
      BY <2>1 DEF v
    <3> QED
      BY <2>1, <3>1, <3>2, Zenon
  <2> QED
    BY <2>1, <2>2, <2>3, <2>5, <2>6, <2>7, Zenon DEF UrlInv
<1> QED
  BY <1>1, <1>2 DEF Next

\* A step of the client parses one URL, or leaves the url_t alone.
LEMMA ClientParses ==
  ASSUME [FetchNext]_cvars
  PROVE  Next \/ UNCHANGED vars
<1>1. CASE UNCHANGED cvars
  BY <1>1 DEF cvars
<1>2. CASE OtherUsers \/ Tick \/ ServerNext
  BY <1>2 DEF OtherUsers, Tick, ServerNext, SendHead, SendPiece, SendLastChunk, Hangup
<1>3. ASSUME NEW raw \in Fetched, NEW opts, Fetch(raw, opts)
      PROVE  Next
  BY <1>3, ClientAssumption DEF Fetch, Next
<1>4. CASE ClientNext
  BY <1>3, <1>4 DEF ClientNext, Resolved, ResolveFails, ConnectDone, ConnectFails,
                    WriteDone, WriteFails, ReadDone, ReadFails, TimesOut, Shutdown,
                    Fails, Ends
<1> QED
  BY <1>1, <1>2, <1>4 DEF FetchNext

\* Whatever the client does, its url_t satisfies the invariant.
LEMMA UrlInvariance == ClientSpec => []UrlInv
<1>1. FetchInit => UrlInv
  BY UrlInitInvariant DEF FetchInit
<1>2. UrlInv /\ UNCHANGED vars => UrlInv'
  BY DEF UrlInv, vars
<1>3. UrlInv /\ [FetchNext]_cvars => UrlInv'
  BY <1>2, ClientParses, UrlStep
<1> QED
  BY <1>1, <1>3, PTL DEF ClientSpec

\* A url_t whose parts were accepted may be parsed again from its own requri,
\* and nothing changes: what the passes over it leave, however escapes, slashes
\* and dots are mixed in it, has nothing for any of them to do.
THEOREM CanonicalStays == ClientSpec => []CanonicalIsFixed
<1>1. UrlInv => CanonicalIsFixed
  BY SettledFixed DEF UrlInv, CanonicalIsFixed
<1> QED
  BY <1>1, UrlInvariance, PTL

\* A target that was accepted is in its canonical form: parsed again it changes
\* nothing, and its path is the one a reader makes of the elements that were
\* asked for, "." and ".." and runs of slashes among them, and however they
\* were escaped.
THEOREM TargetsAreResolved == ClientSpec => []CanonicalForm
<1>1. UrlInv => CanonicalIsFixed
  BY SettledFixed DEF UrlInv, CanonicalIsFixed
<1>2. UrlInv => PathIsResolved
  <2> SUFFICES ASSUME UrlInv, ok, calls = 0
               PROVE  url.path = Normal(SubSeq(Unescape(asked), 1, PathEnd(asked) - 1))
    BY Zenon DEF PathIsResolved
  <2>1. /\ asked \in Seq(Bytes)
        /\ url.path = SubSeq(Canonical(asked), 1, PathEnd(Canonical(asked)) - 1)
    BY Zenon DEF UrlInv
  <2> QED
    BY <2>1, CanonicalPath, Zenon
<1> QED
  BY <1>1, <1>2, UrlInvariance, PTL DEF CanonicalForm

\* No target that was accepted has an element "." or ".." behind a slash of
\* its path, or a slash behind another: nothing in it is left that leads back.
THEOREM NothingLeadsUpwards ==
  ClientSpec => [](ok /\ url.scheme # UnixScheme =>
                     \A i \in 1 .. Len(url.requri) :
                        /\ ~ Holds(url.requri, i, <<Dot>>) /\ ~ Holds(url.requri, i, <<Dot, Dot>>)
                        /\ ~ Redundant(url.requri, i))
<1>1. ASSUME NEW r, Settled(r, url.path, url.query, url.fragment), NEW i \in 1 .. Len(r)
      PROVE  ~ Holds(r, i, <<Dot>>) /\ ~ Holds(r, i, <<Dot, Dot>>) /\ ~ Redundant(r, i)
  <2>1. r \in Seq(Bytes) /\ Canonical(r) = r
    BY <1>1, Zenon DEF Settled
  <2>2. Spaced(r) /\ NoDots(r)
    BY <2>1, CanonicalFixed
  <2>3. i \in 0 .. Len(r)
    BY <2>1, LenProperties
  <2>4. ~ Redundant(r, i)
    BY <2>1, <2>2, <2>3, SpacedIs
  <2> QED
    BY <2>1, <2>2, <2>4, HoldsDot DEF NoDots
<1>2. UrlInv => (ok /\ url.scheme # UnixScheme =>
                   \A i \in 1 .. Len(url.requri) :
                      /\ ~ Holds(url.requri, i, <<Dot>>) /\ ~ Holds(url.requri, i, <<Dot, Dot>>)
                      /\ ~ Redundant(url.requri, i))
  BY <1>1, Zenon DEF UrlInv
<1> QED
  BY <1>2, UrlInvariance, PTL

\* Whatever URL url_parse() accepts, and whatever the url_t held before, its
\* parts give the URL back: scheme, user, host and target one behind the other,
\* with nothing lost but the "*" before a colon and the "@" of an empty user;
\* the path, the query and the fragment where the target has them; and the port
\* is the number behind the host, with its sign, or that of the scheme.  Only a
\* user, a query and a fragment that the URL lacks may be those of an earlier.
THEOREM NoPartIsLost == ClientSpec => PartsRecompose
<1>1. ASSUME UrlInv, [FetchNext]_cvars
      PROVE  [ok' /\ calls' > calls => Apart(asked', url', url)]_vars
  <2>1. CASE UNCHANGED vars
    BY <2>1
  <2>2. ASSUME NEW raw \in RawUrls, Parse(raw)
        PROVE  ok' => Apart(asked', url', url)
    <3> DEFINE p == Parsed(url, raw)
    <3>1. url' = p.url /\ ok' = p.ok /\ asked' = raw
      BY <2>2 DEF Parse
    <3>2. IsUrl(url) /\ raw \in Seq(Bytes)
      BY <1>1, UrlAssumption DEF UrlInv
    <3>3. p.ok => Apart(raw, p.url, url)
      BY <3>2, ParsedApart
    <3> HIDE DEF p
    <3> QED
      BY <3>1, <3>3, Zenon
  <2>3. ASSUME NEW t \in Targets, ParseRequri(t)
        PROVE  ~ (calls' > calls)
    BY <2>3 DEF ParseRequri
  <2> QED
    BY <1>1, <2>1, <2>2, <2>3, ClientParses DEF Next
<1>2. UrlInv /\ [FetchNext]_cvars =>
        [ok' /\ calls' > calls =>
            IF url'.scheme = UnixScheme
            THEN asked' = url'.scheme \o <<Colon, Slash, Slash>> \o url'.path
            ELSE /\ Recomposes(asked', url', url)
                 /\ TargetRecomposes(url', url)
                 /\ HostRecomposes(url')]_vars
  BY <1>1 DEF Apart
<1> QED
  BY <1>2, UrlInvariance, PTL DEF ClientSpec, PartsRecompose
=============================================================================
