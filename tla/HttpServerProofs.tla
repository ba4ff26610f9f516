--------------------------- MODULE HttpServerProofs ---------------------------
(***************************************************************************)
(* Theorems about HttpServer, for every number of connections and of       *)
(* requests on each, whatever the clients pipeline and whenever they       *)
(* leave: a session knows whether it reads a header or a body until it has *)
(* passed over one, and it answers the requests in order, at most once,    *)
(* without skipping any.                                                   *)
(***************************************************************************)
EXTENDS HttpServer, TLAPS, SequenceTheorems

-----------------------------------------------------------------------------
(* The inductive invariant, for the record k of one connection. *)

Messages == {"header", "body"}

ConnTypes ==
    [client  : {"none", "open", "finished", "gone"},
     asked   : Seq(Requests),
     owed    : BOOLEAN,
     inbox   : Seq(Messages),
     pc      : Places,
     heads   : 0 .. MaxRequests,
     expired : BOOLEAN,
     astray  : BOOLEAN,
     hidden  : Seq(Requests),
     replied : Seq(0 .. MaxRequests),
     keep    : BOOLEAN,
     outcome : Outcomes]

\* own[i] is the number of headers the session will have read when it has
\* read i of the messages that have arrived: all that were sent, in the end.
Numbers(k, own) ==
    /\ own \in [0 .. Len(k.inbox) -> 0 .. Len(k.asked)]
    /\ own[0] = k.heads
    /\ own[Len(k.inbox)] = Len(k.asked)
    /\ \A i \in 1 .. Len(k.inbox) :
          own[i] = IF k.inbox[i] = "header" THEN own[i - 1] + 1 ELSE own[i - 1]

\* The body of the current request is still to be read.
BodyUnread(k) ==
    /\ k.heads # 0
    /\ k.pc = "body"
    /\ k.asked[k.heads] \in HasBody

\* A body is due after i of the messages that have arrived.
BodyDue(k, own, i) ==
    IF i = 0 THEN BodyUnread(k)
             ELSE k.inbox[i] = "header" /\ k.asked[own[i]] \in HasBody

\* A body arrives where one is due and nowhere else, or the client owes it, as
\* long as no body was left unread.
StreamInv(k) ==
    k.pc # "over" /\ ~k.astray =>
        \E own \in [0 .. Len(k.inbox) -> 0 .. Len(k.asked)] :
            /\ Numbers(k, own)
            /\ \A i \in 1 .. Len(k.inbox) :
                  k.inbox[i] = "body" <=> BodyDue(k, own, i - 1)
            /\ k.owed <=> BodyDue(k, own, Len(k.inbox))

LastNumber(k) == IF k.replied = <<>> THEN 0 ELSE k.replied[Len(k.replied)]

\* Requests first to last were all uploads.
OnlyUploads(k, first, last) == \A m \in first .. last : k.asked[m] \in Uploads

\* The session is in the midst of a request, or between two of them: all
\* those read before it are answered, but for the uploads.
TurnInv(k) ==
    /\ k.pc \in {"none", "backlog"} => k.heads = 0 /\ k.replied = <<>> /\ ~k.astray
    /\ k.pc = "header" /\ ~k.astray =>
          LastNumber(k) <= k.heads /\ OnlyUploads(k, LastNumber(k) + 1, k.heads)
    /\ k.pc \in {"body", "handle", "write"} /\ ~k.astray =>
          /\ LastNumber(k) < k.heads
          /\ k.asked[k.heads] \notin Uploads
          /\ OnlyUploads(k, LastNumber(k) + 1, k.heads - 1)
    /\ ~k.astray /\ k.replied # <<>> => LastNumber(k) # 0
    /\ ~k.keep => k.pc \in {"write", "over"}

\* A session has gone astray because of the last request it knew, an upload
\* with a body; it has answered none since, or what it answers is no request.
AstrayInv(k) ==
    k.astray =>
        /\ k.heads \in 1 .. Len(k.asked)
        /\ k.asked[k.heads] \in Straying
        /\ \/ k.replied # <<>> /\ LastNumber(k) = 0
           \/ /\ LastNumber(k) < k.heads
              /\ OnlyUploads(k, LastNumber(k) + 1, k.heads)

ConnInv(k) ==
    /\ k.client = "none" => k.pc = "none"
    /\ Len(k.asked) <= MaxRequests
    /\ StreamInv(k)
    /\ TurnInv(k)
    /\ AstrayInv(k)

IInv == TypeOK /\ \A c \in Conns : ConnInv(conn[c])

-----------------------------------------------------------------------------
(* Lemmas about one connection. *)

\* What the invariant says of one connection.
LEMMA ConnAt ==
  ASSUME IInv, NEW c \in Conns
  PROVE  conn[c] \in ConnTypes /\ ConnInv(conn[c])
  BY DEF IInv, TypeOK, ConnTypes, Messages

\* A step of one connection keeps the invariant if the connection's record
\* is right afterwards.
LEMMA ConnStep ==
  ASSUME IInv, NEW c \in Conns, NEW k \in ConnTypes, ConnInv(k),
         conn' = [conn EXCEPT ![c] = k],
         UNCHANGED <<hasTimeout, launched, listening>>
  PROVE  IInv'
<1>1. /\ conn' \in [Conns -> ConnTypes]
      /\ \A d \in Conns : conn'[d] = IF d = c THEN k ELSE conn[d]
  BY DEF IInv, TypeOK, ConnTypes, Messages
<1>2. TypeOK'
  BY <1>1 DEF IInv, TypeOK, ConnTypes, Messages
<1>3. \A d \in Conns : ConnInv(conn'[d])
  BY <1>1 DEF IInv
<1>4. (\A d \in Conns : ConnInv(conn[d]))'
  BY <1>3
<1> QED
  BY <1>2, <1>4 DEF IInv

\* The last reply is a request's number, or zero.
LEMMA LastNumberType ==
  ASSUME NEW k \in ConnTypes
  PROVE  LastNumber(k) \in 0 .. MaxRequests
<1>1. k.replied \in Seq(0 .. MaxRequests)
  BY DEF ConnTypes
<1>2. ASSUME k.replied # <<>> PROVE k.replied[Len(k.replied)] \in 0 .. MaxRequests
  <2>1. Len(k.replied) \in 1 .. Len(k.replied)
    BY <1>1, <1>2, EmptySeq
  <2> QED
    BY <1>1, <2>1, ElementOfSeq
<1> QED
  BY <1>2, ServerAssumption DEF LastNumber

\* Messages that arrive and messages that are read are all that changes the
\* numbering; the rest must agree on whether a body is unread.
LEMMA SameStream ==
  ASSUME NEW k, NEW n, StreamInv(k), k.pc # "over", n.astray = k.astray,
         n.asked = k.asked, n.inbox = k.inbox, n.owed = k.owed, n.heads = k.heads,
         n.pc # "over" => (BodyUnread(n) <=> BodyUnread(k))
  PROVE  StreamInv(n)
<1> SUFFICES ASSUME n.pc # "over", ~n.astray
             PROVE  \E own \in [0 .. Len(n.inbox) -> 0 .. Len(n.asked)] :
                       /\ Numbers(n, own)
                       /\ \A i \in 1 .. Len(n.inbox) :
                             n.inbox[i] = "body" <=> BodyDue(n, own, i - 1)
                       /\ n.owed <=> BodyDue(n, own, Len(n.inbox))
  BY DEF StreamInv
<1>1. PICK own \in [0 .. Len(k.inbox) -> 0 .. Len(k.asked)] :
         /\ Numbers(k, own)
         /\ \A i \in 1 .. Len(k.inbox) :
               k.inbox[i] = "body" <=> BodyDue(k, own, i - 1)
         /\ k.owed <=> BodyDue(k, own, Len(k.inbox))
  BY DEF StreamInv
<1>2. Numbers(n, own)
  BY <1>1 DEF Numbers
<1>3. \A i : BodyDue(n, own, i) <=> BodyDue(k, own, i)
  BY DEF BodyDue
<1> QED
  BY <1>1, <1>2, <1>3

\* What the session can tell of the message in front of it.
LEMMA NextMessage ==
  ASSUME NEW k \in ConnTypes, StreamInv(k), k.pc # "over", ~k.astray
  PROVE  /\ k.heads <= Len(k.asked)
         /\ k.inbox # <<>> =>
               /\ Head(k.inbox) = k.inbox[1]
               /\ Head(k.inbox) = "body" <=> BodyUnread(k)
               /\ Head(k.inbox) = "header" => k.heads + 1 <= Len(k.asked)
<1>1. PICK own \in [0 .. Len(k.inbox) -> 0 .. Len(k.asked)] :
         /\ Numbers(k, own)
         /\ \A i \in 1 .. Len(k.inbox) :
               k.inbox[i] = "body" <=> BodyDue(k, own, i - 1)
  BY DEF StreamInv
<1>2. /\ k.inbox \in Seq(Messages) /\ k.asked \in Seq(Requests)
      /\ k.heads \in Int /\ Len(k.asked) \in Nat
  BY LenProperties DEF ConnTypes
<1>3. k.heads <= Len(k.asked)
  <2>1. 0 \in 0 .. Len(k.inbox)
    BY <1>2, LenProperties
  <2>2. own[0] \in 0 .. Len(k.asked)
    BY <2>1
  <2> QED
    BY <1>1, <1>2, <2>2 DEF Numbers
<1>4. ASSUME k.inbox # <<>>
      PROVE  /\ Head(k.inbox) = k.inbox[1]
             /\ Head(k.inbox) = "body" <=> BodyUnread(k)
             /\ Head(k.inbox) = "header" => k.heads + 1 <= Len(k.asked)
  <2>1. Len(k.inbox) \in Nat /\ 1 \in 1 .. Len(k.inbox)
    BY <1>2, <1>4, EmptySeq
  <2>2. Head(k.inbox) = k.inbox[1]
    BY <1>2, <1>4
  <2>3. k.inbox[1] = "body" <=> BodyDue(k, own, 1 - 1)
    BY <1>1, <2>1
  <2>4. k.inbox[1] = "body" <=> BodyUnread(k)
    BY <2>3 DEF BodyDue
  <2>5. own[1] \in 0 .. Len(k.asked)
    BY <2>1
  <2>6. own[1] = IF k.inbox[1] = "header" THEN own[1 - 1] + 1 ELSE own[1 - 1]
    BY <1>1, <2>1 DEF Numbers
  <2>7. k.inbox[1] = "header" => k.heads + 1 <= Len(k.asked)
    BY <1>1, <1>2, <2>5, <2>6 DEF Numbers
  <2> QED
    BY <2>2, <2>4, <2>7
<1> QED
  BY <1>3, <1>4

\* The client sends the header of a request, having sent all of the others.
LEMMA HeaderArrives ==
  ASSUME NEW k \in ConnTypes, NEW n, NEW q \in Requests, StreamInv(k), ~k.owed,
         n.inbox = Append(k.inbox, "header"), n.asked = Append(k.asked, q),
         n.owed = (q \in HasBody), n.heads = k.heads, n.pc = k.pc,
         n.astray = k.astray
  PROVE  StreamInv(n)
<1> SUFFICES ASSUME k.pc # "over", ~k.astray
             PROVE  \E own \in [0 .. Len(n.inbox) -> 0 .. Len(n.asked)] :
                       /\ Numbers(n, own)
                       /\ \A i \in 1 .. Len(n.inbox) :
                             n.inbox[i] = "body" <=> BodyDue(n, own, i - 1)
                       /\ n.owed <=> BodyDue(n, own, Len(n.inbox))
  BY DEF StreamInv
<1> DEFINE L == Len(k.inbox)
           A == Len(k.asked)
<1>1. PICK old \in [0 .. L -> 0 .. A] :
         /\ Numbers(k, old)
         /\ \A i \in 1 .. L : k.inbox[i] = "body" <=> BodyDue(k, old, i - 1)
         /\ k.owed <=> BodyDue(k, old, L)
  BY DEF StreamInv
<1>2. /\ L \in Nat /\ Len(n.inbox) = L + 1
      /\ \A i \in 1 .. L : n.inbox[i] = k.inbox[i]
      /\ n.inbox[L + 1] = "header"
  <2>1. k.inbox \in Seq(Messages) /\ "header" \in Messages
    BY DEF ConnTypes, Messages
  <2> QED
    BY <2>1, AppendProperties, LenProperties
<1>3. /\ A \in Nat /\ Len(n.asked) = A + 1
      /\ \A i \in 1 .. A : n.asked[i] = k.asked[i]
      /\ n.asked[A + 1] = q
  <2>1. k.asked \in Seq(Requests)
    BY DEF ConnTypes
  <2> QED
    BY <2>1, AppendProperties, LenProperties
<1> DEFINE own == [i \in 0 .. L + 1 |-> IF i = L + 1 THEN A + 1 ELSE old[i]]
<1> HIDE DEF L, A
<1>4. own \in [0 .. L + 1 -> 0 .. A + 1]
  BY <1>2, <1>3
<1>5. \A i \in 0 .. L : own[i] = old[i] /\ old[i] \in 0 .. A
  BY <1>2
<1>6. own[L + 1] = A + 1
  BY <1>2
<1>7. old[0] = k.heads /\ old[L] = A
  BY <1>1 DEF Numbers, L, A
<1>8. \A i \in 1 .. L : old[i] = IF k.inbox[i] = "header" THEN old[i - 1] + 1 ELSE old[i - 1]
  BY <1>1 DEF Numbers, L
<1> HIDE DEF own
<1>9. Numbers(n, own)
  <2>1. own[0] = n.heads /\ own[L + 1] = A + 1
    BY <1>2, <1>5, <1>6, <1>7
  <2>2. ASSUME NEW i \in 1 .. L + 1
        PROVE  own[i] = IF n.inbox[i] = "header" THEN own[i - 1] + 1 ELSE own[i - 1]
    <3>1. CASE i = L + 1
      BY <1>2, <1>5, <1>6, <1>7, <3>1
    <3>2. CASE i \in 1 .. L
      BY <1>2, <1>5, <1>8, <3>2, SMTT(30)
    <3> QED
      BY <1>2, <3>1, <3>2
  <2> QED
    BY <1>2, <1>3, <1>4, <2>1, <2>2 DEF Numbers
<1>10. BodyUnread(n) <=> BodyUnread(k)
  <2>1. k.heads \in 0 .. A
    BY <1>2, <1>5, <1>7
  <2> QED
    BY <1>3, <2>1 DEF BodyUnread
<1>11. \A i \in 0 .. L : BodyDue(n, own, i) <=> BodyDue(k, old, i)
  <2> SUFFICES ASSUME NEW i \in 0 .. L PROVE BodyDue(n, own, i) <=> BodyDue(k, old, i)
    OBVIOUS
  <2>1. CASE i = 0
    BY <1>10, <2>1 DEF BodyDue
  <2>2. CASE i \in 1 .. L /\ k.inbox[i] = "header"
    <3>1. old[i] \in 1 .. A
      <4>1. old[i - 1] \in 0 .. A /\ old[i] \in 0 .. A
        BY <1>2, <1>5, <2>2
      <4>2. old[i] = old[i - 1] + 1
        BY <1>8, <2>2
      <4> QED
        BY <1>3, <4>1, <4>2
    <3>2. /\ ~ (i = 0) /\ n.inbox[i] = k.inbox[i]
          /\ own[i] = old[i] /\ n.asked[old[i]] = k.asked[old[i]]
      BY <1>2, <1>3, <1>5, <2>2, <3>1, SMTT(30)
    <3> QED
      BY <3>2, Zenon DEF BodyDue
  <2>3. CASE i \in 1 .. L /\ k.inbox[i] # "header"
    BY <1>2, <2>3 DEF BodyDue
  <2> QED
    BY <1>2, <2>1, <2>2, <2>3
<1>12. ASSUME NEW i \in 1 .. L + 1
       PROVE  n.inbox[i] = "body" <=> BodyDue(n, own, i - 1)
  <2>1. CASE i = L + 1
    <3>1. ~BodyDue(k, old, L)
      BY <1>1 DEF L
    <3> QED
      BY <1>2, <1>11, <2>1, <3>1, SMTT(30)
  <2>2. CASE i \in 1 .. L
    <3>1. k.inbox[i] = "body" <=> BodyDue(k, old, i - 1)
      BY <1>1, <2>2 DEF L
    <3> QED
      BY <1>2, <1>11, <2>2, <3>1
  <2> QED
    BY <1>2, <2>1, <2>2
<1>13. n.owed <=> BodyDue(n, own, L + 1)
  <2>1. L + 1 # 0 /\ n.asked[own[L + 1]] = q
    BY <1>2, <1>3, <1>6
  <2>2. BodyDue(n, own, L + 1) <=> q \in HasBody
    BY <1>2, <2>1 DEF BodyDue
  <2> QED
    BY <2>2, Zenon
<1> QED
  BY <1>2, <1>3, <1>4, <1>9, <1>12, <1>13

\* The client sends the body it owes.
LEMMA BodyArrives ==
  ASSUME NEW k \in ConnTypes, NEW n, StreamInv(k), k.owed,
         n.inbox = Append(k.inbox, "body"), n.asked = k.asked,
         n.owed = FALSE, n.heads = k.heads, n.pc = k.pc,
         n.astray = k.astray
  PROVE  StreamInv(n)
<1> SUFFICES ASSUME k.pc # "over", ~k.astray
             PROVE  \E own \in [0 .. Len(n.inbox) -> 0 .. Len(n.asked)] :
                       /\ Numbers(n, own)
                       /\ \A i \in 1 .. Len(n.inbox) :
                             n.inbox[i] = "body" <=> BodyDue(n, own, i - 1)
                       /\ n.owed <=> BodyDue(n, own, Len(n.inbox))
  BY DEF StreamInv
<1> DEFINE L == Len(k.inbox)
           A == Len(k.asked)
<1>1. PICK old \in [0 .. L -> 0 .. A] :
         /\ Numbers(k, old)
         /\ \A i \in 1 .. L : k.inbox[i] = "body" <=> BodyDue(k, old, i - 1)
         /\ k.owed <=> BodyDue(k, old, L)
  BY DEF StreamInv
<1>2. /\ L \in Nat /\ Len(n.inbox) = L + 1
      /\ \A i \in 1 .. L : n.inbox[i] = k.inbox[i]
      /\ n.inbox[L + 1] = "body"
  <2>1. k.inbox \in Seq(Messages) /\ "body" \in Messages
    BY DEF ConnTypes, Messages
  <2> QED
    BY <2>1, AppendProperties, LenProperties
<1>3. A \in Nat /\ Len(n.asked) = A
  BY LenProperties DEF ConnTypes
<1> DEFINE own == [i \in 0 .. L + 1 |-> IF i = L + 1 THEN A ELSE old[i]]
<1> HIDE DEF L, A
<1>4. own \in [0 .. L + 1 -> 0 .. A]
  BY <1>2, <1>3
<1>5. \A i \in 0 .. L : own[i] = old[i]
  BY <1>2
<1>6. own[L + 1] = A
  BY <1>2
<1>7. old[0] = k.heads /\ old[L] = A
  BY <1>1 DEF Numbers, L, A
<1>8. \A i \in 1 .. L : old[i] = IF k.inbox[i] = "header" THEN old[i - 1] + 1 ELSE old[i - 1]
  BY <1>1 DEF Numbers, L
<1> HIDE DEF own
<1>9. Numbers(n, own)
  <2>1. own[0] = n.heads /\ own[L + 1] = A
    BY <1>2, <1>5, <1>6, <1>7
  <2>2. ASSUME NEW i \in 1 .. L + 1
        PROVE  own[i] = IF n.inbox[i] = "header" THEN own[i - 1] + 1 ELSE own[i - 1]
    <3>1. CASE i = L + 1
      BY <1>2, <1>5, <1>6, <1>7, <3>1, SMTT(40)
    <3>2. CASE i \in 1 .. L
      BY <1>2, <1>5, <1>8, <3>2
    <3> QED
      BY <1>2, <3>1, <3>2
  <2> QED
    BY <1>2, <1>3, <1>4, <2>1, <2>2 DEF Numbers
<1>10. \A i \in 0 .. L : BodyDue(n, own, i) <=> BodyDue(k, old, i)
  <2>1. BodyUnread(n) <=> BodyUnread(k)
    BY DEF BodyUnread
  <2> QED
    BY <1>2, <1>5, <2>1 DEF BodyDue
<1>11. ASSUME NEW i \in 1 .. L + 1
       PROVE  n.inbox[i] = "body" <=> BodyDue(n, own, i - 1)
  <2>1. CASE i = L + 1
    <3>1. BodyDue(k, old, L)
      BY <1>1 DEF L
    <3> QED
      BY <1>2, <1>10, <2>1, <3>1
  <2>2. CASE i \in 1 .. L
    <3>1. k.inbox[i] = "body" <=> BodyDue(k, old, i - 1)
      BY <1>1, <2>2 DEF L
    <3> QED
      BY <1>2, <1>10, <2>2, <3>1
  <2> QED
    BY <1>2, <2>1, <2>2
<1>12. ~BodyDue(n, own, L + 1)
  BY <1>2 DEF BodyDue
<1> QED
  BY <1>2, <1>3, <1>4, <1>9, <1>11, <1>12

\* The session reads the message in front of it, and goes where a body is
\* due exactly if that was a header with one.
LEMMA MessageRead ==
  ASSUME NEW k \in ConnTypes, NEW n, StreamInv(k), k.pc # "over", ~k.astray, k.inbox # <<>>,
         n.inbox = Tail(k.inbox), n.asked = k.asked, n.owed = k.owed,
         n.heads = IF Head(k.inbox) = "header" THEN k.heads + 1 ELSE k.heads,
         BodyUnread(n) <=> Head(k.inbox) = "header" /\ k.asked[n.heads] \in HasBody
  PROVE  StreamInv(n)
<1> DEFINE L == Len(k.inbox)
           A == Len(k.asked)
<1>1. PICK old \in [0 .. L -> 0 .. A] :
         /\ Numbers(k, old)
         /\ \A i \in 1 .. L : k.inbox[i] = "body" <=> BodyDue(k, old, i - 1)
         /\ k.owed <=> BodyDue(k, old, L)
  BY DEF StreamInv
<1>2. /\ L \in Nat \ {0} /\ Len(n.inbox) = L - 1
      /\ \A i \in 1 .. L - 1 : n.inbox[i] = k.inbox[i + 1]
      /\ Head(k.inbox) = k.inbox[1]
  <2>1. k.inbox \in Seq(Messages)
    BY DEF ConnTypes
  <2> QED
    BY <2>1, HeadTailProperties, EmptySeq
<1> DEFINE own == [i \in 0 .. L - 1 |-> old[i + 1]]
<1> HIDE DEF L, A
<1>3. own \in [0 .. L - 1 -> 0 .. A]
  BY <1>2
<1>4. \A i \in 0 .. L - 1 : own[i] = old[i + 1]
  BY <1>2
<1>5. old[0] = k.heads /\ old[L] = A
  BY <1>1 DEF Numbers, L, A
<1>6. \A i \in 1 .. L : old[i] = IF k.inbox[i] = "header" THEN old[i - 1] + 1 ELSE old[i - 1]
  BY <1>1 DEF Numbers, L
<1> HIDE DEF own
<1>7. own[0] = n.heads
  <2>1. own[0] = old[1]
    BY <1>2, <1>4
  <2>2. old[1] = IF k.inbox[1] = "header" THEN old[1 - 1] + 1 ELSE old[1 - 1]
    BY <1>2, <1>6
  <2> QED
    BY <1>2, <1>5, <2>1, <2>2
<1>8. Numbers(n, own)
  <2>1. own[L - 1] = A
    BY <1>2, <1>4, <1>5
  <2>2. ASSUME NEW i \in 1 .. L - 1
        PROVE  own[i] = IF n.inbox[i] = "header" THEN own[i - 1] + 1 ELSE own[i - 1]
    <3>1. /\ i + 1 \in 1 .. L /\ (i + 1) - 1 = i /\ (i - 1) + 1 = i
          /\ i \in 0 .. L - 1 /\ i - 1 \in 0 .. L - 1
      BY <1>2
    <3>2. own[i] = old[i + 1] /\ own[i - 1] = old[(i - 1) + 1]
      BY <1>4, <3>1
    <3>3. old[i + 1] = IF k.inbox[i + 1] = "header" THEN old[i] + 1 ELSE old[i]
      BY <1>6, <3>1
    <3> QED
      BY <1>2, <3>1, <3>2, <3>3
  <2> QED
    BY <1>2, <1>3, <1>7, <2>1, <2>2 DEF Numbers, A
<1>9. \A i \in 0 .. L - 1 : BodyDue(n, own, i) <=> BodyDue(k, old, i + 1)
  <2> SUFFICES ASSUME NEW i \in 0 .. L - 1
               PROVE  BodyDue(n, own, i) <=> BodyDue(k, old, i + 1)
    OBVIOUS
  <2>1. CASE i = 0
    BY <1>2, <1>4, <1>7, <2>1 DEF BodyDue
  <2>2. CASE i \in 1 .. L - 1
    BY <1>2, <1>4, <2>2, SMTT(30) DEF BodyDue
  <2> QED
    BY <1>2, <2>1, <2>2
<1>10. ASSUME NEW i \in 1 .. L - 1
       PROVE  n.inbox[i] = "body" <=> BodyDue(n, own, i - 1)
  <2>1. i + 1 \in 1 .. L /\ (i + 1) - 1 = i /\ (i - 1) + 1 = i /\ i - 1 \in 0 .. L - 1
    BY <1>2
  <2>2. k.inbox[i + 1] = "body" <=> BodyDue(k, old, i)
    BY <1>1, <2>1 DEF L
  <2>3. BodyDue(n, own, i - 1) <=> BodyDue(k, old, i)
    BY <1>9, <2>1
  <2> QED
    BY <1>2, <2>2, <2>3
<1>11. n.owed <=> BodyDue(n, own, L - 1)
  <2>1. L - 1 \in 0 .. L - 1 /\ (L - 1) + 1 = L
    BY <1>2
  <2>2. BodyDue(n, own, L - 1) <=> BodyDue(k, old, L)
    BY <1>9, <2>1
  <2>3. k.owed <=> BodyDue(k, old, L)
    BY <1>1 DEF L
  <2> QED
    BY <2>2, <2>3
<1> QED
  BY <1>2, <1>3, <1>8, <1>10, <1>11 DEF StreamInv, A

-----------------------------------------------------------------------------
(* The clients' steps. *)

LEMMA ConnectStep ==
  ASSUME IInv, NEW c \in Conns, Connect(c)
  PROVE  IInv'
<1> DEFINE k == conn[c]
           n == [k EXCEPT !.client = "open", !.pc = "backlog"]
<1>1. k \in ConnTypes /\ ConnInv(k) /\ k.client = "none"
  BY ConnAt DEF Connect
<1>2. /\ conn' = [conn EXCEPT ![c] = n]
      /\ UNCHANGED <<hasTimeout, launched, listening>>
  BY DEF Connect
<1> HIDE DEF k
<1>3. k.pc = "none"
  BY <1>1 DEF ConnInv
<1>4. n \in ConnTypes /\ n.pc = "backlog" /\ n.client = "open"
  BY <1>1 DEF ConnTypes, Places
<1>5. /\ n.asked = k.asked /\ n.inbox = k.inbox /\ n.owed = k.owed
      /\ n.heads = k.heads /\ n.replied = k.replied /\ n.keep = k.keep /\ n.astray = k.astray
  BY <1>1 DEF ConnTypes
<1> HIDE DEF n
<1>6. StreamInv(n)
  BY <1>1, <1>3, <1>4, <1>5, SameStream DEF ConnInv, BodyUnread
<1>7. TurnInv(n)
  BY <1>1, <1>3, <1>4, <1>5 DEF ConnInv, TurnInv
<1>8. ConnInv(n)
  BY <1>1, <1>3, <1>4, <1>5, <1>6, <1>7 DEF ConnInv, TurnInv, AstrayInv
<1> QED
  BY <1>2, <1>4, <1>8, ConnStep

\* Requests sent are appended, so that what is said of earlier ones stays.
LEMMA SendHeaderStep ==
  ASSUME IInv, NEW c \in Conns, NEW q \in Requests, SendHeader(c, q)
  PROVE  IInv'
<1> DEFINE k == conn[c]
           owes == q \in HasBody
           n == [k EXCEPT !.asked = Append(@, q), !.inbox = Append(@, "header"),
                          !.owed = owes]
<1>1. /\ k \in ConnTypes /\ ConnInv(k) /\ k.client = "open"
      /\ ~k.owed /\ Len(k.asked) < MaxRequests
  BY ConnAt DEF SendHeader
<1>2. /\ conn' = [conn EXCEPT ![c] = n]
      /\ UNCHANGED <<hasTimeout, launched, listening>>
  BY DEF SendHeader
<1> HIDE DEF k
<1>3. /\ Append(k.asked, q) \in Seq(Requests)
      /\ Len(Append(k.asked, q)) = Len(k.asked) + 1
      /\ \A i \in 1 .. Len(k.asked) : Append(k.asked, q)[i] = k.asked[i]
      /\ Len(k.asked) \in Nat
  BY <1>1, AppendProperties, LenProperties DEF ConnTypes
<1>4. Append(k.inbox, "header") \in Seq(Messages)
  BY <1>1, AppendProperties DEF ConnTypes, Messages
<1>5. n \in ConnTypes
  <2>1. owes \in BOOLEAN
    OBVIOUS
  <2> HIDE DEF owes
  <2> QED
    BY <1>1, <1>3, <1>4, <2>1 DEF ConnTypes
<1>6. /\ n.asked = Append(k.asked, q) /\ n.inbox = Append(k.inbox, "header")
      /\ n.owed = (q \in HasBody) /\ n.astray = k.astray
      /\ n.pc = k.pc /\ n.client = k.client
      /\ n.heads = k.heads /\ n.replied = k.replied /\ n.keep = k.keep /\ n.astray = k.astray
  BY <1>1 DEF ConnTypes
<1> HIDE DEF n
<1>7. StreamInv(n)
  BY <1>1, <1>6, HeaderArrives DEF ConnInv
<1>8. LastNumber(n) = LastNumber(k) /\ LastNumber(k) \in 0 .. MaxRequests
  BY <1>1, <1>6, LastNumberType DEF LastNumber
<1>9. k.heads \in 0 .. MaxRequests /\ TurnInv(k) /\ AstrayInv(k)
  BY <1>1 DEF ConnTypes, ConnInv
<1>10. ASSUME k.pc # "over" \/ k.astray
       PROVE  k.heads <= Len(k.asked) /\ \A i \in 1 .. k.heads : n.asked[i] = k.asked[i]
  <2>1. k.heads <= Len(k.asked)
    BY <1>1, <1>3, <1>9, <1>10, NextMessage DEF ConnInv, AstrayInv
  <2> QED
    BY <1>3, <1>6, <1>9, <2>1
<1>11. ASSUME k.pc # "over" \/ k.astray, NEW l \in Int, l <= k.heads,
              OnlyUploads(k, LastNumber(k) + 1, l)
       PROVE  OnlyUploads(n, LastNumber(n) + 1, l)
  <2> SUFFICES ASSUME NEW m \in LastNumber(k) + 1 .. l PROVE n.asked[m] \in Uploads
    BY <1>8 DEF OnlyUploads
  <2>1. m \in 1 .. k.heads
    BY <1>8, <1>9, <1>11, ServerAssumption
  <2> QED
    BY <1>10, <1>11, <2>1 DEF OnlyUploads
<1>12. TurnInv(n)
  <2>1. CASE n.pc = "header"
    BY <1>6, <1>8, <1>9, <1>11, <2>1, ServerAssumption DEF TurnInv
  <2>2. CASE n.pc \in {"body", "handle", "write"} /\ ~k.astray
    <3>1. LastNumber(k) < k.heads /\ k.asked[k.heads] \notin Uploads
      BY <1>6, <1>9, <2>2 DEF TurnInv
    <3>2. OnlyUploads(n, LastNumber(n) + 1, n.heads - 1)
      BY <1>6, <1>9, <1>11, <2>2, ServerAssumption DEF TurnInv
    <3>3. n.asked[n.heads] = k.asked[k.heads]
      <4>1. k.heads \in 1 .. k.heads
        BY <1>8, <1>9, <3>1, ServerAssumption
      <4> QED
        BY <1>6, <1>10, <2>2, <4>1
    <3> QED
      BY <1>6, <1>8, <1>9, <2>2, <3>1, <3>2, <3>3 DEF TurnInv
  <2>3. CASE n.pc \notin {"header", "body", "handle", "write"} \/ (n.pc # "header" /\ k.astray)
    BY <1>6, <1>8, <1>9, <2>3 DEF TurnInv
  <2> QED
    BY <2>1, <2>2, <2>3
<1>13. AstrayInv(n)
  <2> SUFFICES ASSUME k.astray PROVE AstrayInv(n)
    BY <1>6 DEF AstrayInv
  <2>1. /\ k.heads \in 1 .. Len(k.asked) /\ k.heads \in Int /\ k.heads <= k.heads
        /\ k.asked[k.heads] \in Straying
    BY <1>3, <1>9 DEF AstrayInv
  <2>2. n.heads \in 1 .. Len(n.asked) /\ n.asked[n.heads] = k.asked[k.heads]
    BY <1>3, <1>6, <2>1
  <2>3. CASE k.replied # <<>> /\ LastNumber(k) = 0
    BY <1>6, <1>8, <2>1, <2>2, <2>3 DEF AstrayInv
  <2>4. CASE LastNumber(k) < k.heads /\ OnlyUploads(k, LastNumber(k) + 1, k.heads)
    <3>1. OnlyUploads(n, LastNumber(n) + 1, n.heads)
      BY <1>6, <1>11, <2>1, <2>4
    <3> QED
      BY <1>6, <1>8, <2>1, <2>2, <2>4, <3>1 DEF AstrayInv
  <2> QED
    BY <1>9, <2>3, <2>4 DEF AstrayInv
<1>14. ConnInv(n)
  BY <1>1, <1>3, <1>6, <1>7, <1>12, <1>13, ServerAssumption DEF ConnInv
<1> QED
  BY <1>2, <1>5, <1>14, ConnStep

LEMMA SendBodyStep ==
  ASSUME IInv, NEW c \in Conns, SendBody(c)
  PROVE  IInv'
<1> DEFINE k == conn[c]
           n == [k EXCEPT !.inbox = Append(@, "body"), !.owed = FALSE]
<1>1. k \in ConnTypes /\ ConnInv(k) /\ k.owed
  BY ConnAt DEF SendBody
<1>2. /\ conn' = [conn EXCEPT ![c] = n]
      /\ UNCHANGED <<hasTimeout, launched, listening>>
  BY DEF SendBody
<1> HIDE DEF k
<1>3. Append(k.inbox, "body") \in Seq(Messages)
  BY <1>1, AppendProperties DEF ConnTypes, Messages
<1>4. n \in ConnTypes
  BY <1>1, <1>3 DEF ConnTypes
<1>5. /\ n.inbox = Append(k.inbox, "body") /\ n.owed = FALSE
      /\ n.asked = k.asked /\ n.pc = k.pc /\ n.client = k.client
      /\ n.heads = k.heads /\ n.replied = k.replied /\ n.keep = k.keep /\ n.astray = k.astray
  BY <1>1 DEF ConnTypes
<1> HIDE DEF n
<1>6. StreamInv(n)
  BY <1>1, <1>5, BodyArrives DEF ConnInv
<1>7. ConnInv(n)
  BY <1>1, <1>5, <1>6 DEF ConnInv, TurnInv, AstrayInv, LastNumber, OnlyUploads
<1> QED
  BY <1>2, <1>4, <1>7, ConnStep

\* The client leaves, or the deadline passes: the rest of the record stays.
LEMMA LeaveOrExpireStep ==
  ASSUME IInv, NEW c \in Conns,
         Expire(c) \/ \E how \in {"finished", "gone"} : Leave(c, how)
  PROVE  IInv'
<1> DEFINE k == conn[c]
<1>1. k \in ConnTypes /\ ConnInv(k)
  BY ConnAt
<1> SUFFICES ASSUME NEW n \in ConnTypes,
                    /\ n.asked = k.asked /\ n.inbox = k.inbox /\ n.owed = k.owed
                    /\ n.heads = k.heads /\ n.replied = k.replied /\ n.keep = k.keep /\ n.astray = k.astray
                    /\ n.pc = k.pc /\ (n.client = "none" => k.client = "none"),
                    conn' = [conn EXCEPT ![c] = n],
                    UNCHANGED <<hasTimeout, launched, listening>>
             PROVE  IInv'
  <2>1. ASSUME NEW how \in {"finished", "gone"}, Leave(c, how)
        PROVE  \E n \in ConnTypes :
                  /\ n.asked = k.asked /\ n.inbox = k.inbox /\ n.owed = k.owed
                  /\ n.heads = k.heads /\ n.replied = k.replied /\ n.keep = k.keep /\ n.astray = k.astray
                  /\ n.pc = k.pc /\ (n.client = "none" => k.client = "none")
                  /\ conn' = [conn EXCEPT ![c] = n]
    <3> DEFINE n == [k EXCEPT !.client = how]
    <3>1. conn' = [conn EXCEPT ![c] = n]
      BY <2>1 DEF Leave
    <3> HIDE DEF k
    <3>2. /\ n \in ConnTypes
          /\ n.asked = k.asked /\ n.inbox = k.inbox /\ n.owed = k.owed
          /\ n.heads = k.heads /\ n.replied = k.replied /\ n.keep = k.keep /\ n.astray = k.astray
          /\ n.pc = k.pc /\ n.client = how
      BY <1>1 DEF ConnTypes
    <3> HIDE DEF n
    <3> QED
      BY <3>1, <3>2
  <2>2. ASSUME Expire(c)
        PROVE  \E n \in ConnTypes :
                  /\ n.asked = k.asked /\ n.inbox = k.inbox /\ n.owed = k.owed
                  /\ n.heads = k.heads /\ n.replied = k.replied /\ n.keep = k.keep /\ n.astray = k.astray
                  /\ n.pc = k.pc /\ (n.client = "none" => k.client = "none")
                  /\ conn' = [conn EXCEPT ![c] = n]
    <3> DEFINE n == [k EXCEPT !.expired = TRUE]
    <3>1. conn' = [conn EXCEPT ![c] = n]
      BY <2>2 DEF Expire
    <3> HIDE DEF k
    <3>2. /\ n \in ConnTypes
          /\ n.asked = k.asked /\ n.inbox = k.inbox /\ n.owed = k.owed
          /\ n.heads = k.heads /\ n.replied = k.replied /\ n.keep = k.keep /\ n.astray = k.astray
          /\ n.pc = k.pc /\ n.client = k.client
      BY <1>1 DEF ConnTypes
    <3> HIDE DEF n
    <3> QED
      BY <3>1, <3>2
  <2>3. UNCHANGED <<hasTimeout, launched, listening>>
    BY DEF Leave, Expire
  <2> HIDE DEF k
  <2> QED
    BY <2>1, <2>2, <2>3
<1> HIDE DEF k
<1>2. StreamInv(n)
  <2>1. BodyUnread(n) <=> BodyUnread(k)
    BY DEF BodyUnread
  <2>2. CASE k.pc = "over"
    BY <2>2 DEF StreamInv
  <2>3. CASE k.pc # "over"
    BY <1>1, <2>1, <2>3, SameStream DEF ConnInv
  <2> QED
    BY <2>2, <2>3
<1>3. ConnInv(n)
  BY <1>1, <1>2 DEF ConnInv, TurnInv, AstrayInv, LastNumber, OnlyUploads
<1> QED
  BY <1>3, ConnStep

-----------------------------------------------------------------------------
(* The session's steps. *)

LEMMA AcceptStep ==
  ASSUME IInv, NEW c \in Conns, Accept(c)
  PROVE  IInv'
<1> DEFINE k == conn[c]
           n == [k EXCEPT !.pc = "header"]
<1>1. k \in ConnTypes /\ ConnInv(k) /\ k.pc = "backlog"
  BY ConnAt DEF Accept
<1>2. /\ conn' = [conn EXCEPT ![c] = n]
      /\ UNCHANGED <<hasTimeout, launched, listening>>
  BY DEF Accept
<1> HIDE DEF k
<1>3. /\ n \in ConnTypes /\ n.pc = "header"
      /\ n.asked = k.asked /\ n.inbox = k.inbox /\ n.owed = k.owed
      /\ n.heads = k.heads /\ n.replied = k.replied /\ n.keep = k.keep /\ n.astray = k.astray
      /\ n.client = k.client
  BY <1>1 DEF ConnTypes, Places
<1> HIDE DEF n
<1>4. k.heads = 0 /\ k.replied = <<>> /\ k.keep /\ ~k.astray
  BY <1>1 DEF ConnInv, TurnInv
<1>5. StreamInv(n)
  BY <1>1, <1>3, <1>4, SameStream DEF ConnInv, BodyUnread
<1>6. TurnInv(n)
  BY <1>3, <1>4 DEF TurnInv, LastNumber, OnlyUploads
<1>7. ConnInv(n)
  BY <1>1, <1>3, <1>4, <1>5, <1>6 DEF ConnInv, AstrayInv
<1> QED
  BY <1>2, <1>3, <1>7, ConnStep

\* A session that is over leaves its connection as it is for good.
LEMMA EndStep ==
  ASSUME IInv, NEW c \in Conns, conn[c].pc # "none", NEW how \in Outcomes, End(c, how)
  PROVE  IInv'
<1> DEFINE k == conn[c]
           n == [k EXCEPT !.pc = "over", !.outcome = how]
<1>1. k \in ConnTypes /\ ConnInv(k) /\ k.pc # "none"
  BY ConnAt
<1>2. /\ conn' = [conn EXCEPT ![c] = n]
      /\ UNCHANGED <<hasTimeout, launched, listening>>
  BY DEF End
<1> HIDE DEF k
<1>3. /\ n \in ConnTypes /\ n.pc = "over"
      /\ n.asked = k.asked /\ n.heads = k.heads /\ n.replied = k.replied
      /\ n.astray = k.astray /\ n.client = k.client
  BY <1>1 DEF ConnTypes, Places
<1> HIDE DEF n
<1>4. ConnInv(n)
  BY <1>1, <1>3 DEF ConnInv, StreamInv, TurnInv, AstrayInv, LastNumber, OnlyUploads
<1> QED
  BY <1>2, <1>3, <1>4, ConnStep

\* The header that is read is that of the next request, which has been sent.
LEMMA ReadHeaderStep ==
  ASSUME IInv, NEW c \in Conns, ReadHeader(c)
  PROVE  IInv'
<1> DEFINE k == conn[c]
           h == k.heads + 1
           unread == k.asked[h] \in Uploads
           lost == k.asked[h] \in Straying
           late == IF unread THEN FALSE ELSE k.expired
           place == IF unread THEN "header" ELSE "body"
           n == [k EXCEPT !.inbox = Tail(@), !.heads = h, !.astray = lost,
                          !.expired = late, !.pc = place]
<1>1. /\ k \in ConnTypes /\ ConnInv(k) /\ k.pc = "header" /\ ~k.astray
      /\ k.inbox # <<>> /\ Head(k.inbox) = "header"
  BY ConnAt DEF ReadHeader
<1>2. /\ conn' = [conn EXCEPT ![c] = n]
      /\ UNCHANGED <<hasTimeout, launched, listening>>
  BY DEF ReadHeader
<1> HIDE DEF k
<1>3. h <= Len(k.asked) /\ Len(k.asked) <= MaxRequests
  BY <1>1, NextMessage DEF ConnInv
<1>4. k.heads \in 0 .. MaxRequests /\ h \in 1 .. MaxRequests /\ Len(k.asked) \in Nat
  BY <1>1, <1>3, ServerAssumption, LenProperties DEF ConnTypes
<1>5. Tail(k.inbox) \in Seq(Messages)
  BY <1>1, HeadTailProperties DEF ConnTypes
<1> HIDE DEF h
<1>6. n \in ConnTypes
  <2>1. late \in BOOLEAN
    BY <1>1 DEF ConnTypes
  <2>4. lost \in BOOLEAN
    OBVIOUS
  <2>2. place \in Places
    BY DEF Places
  <2>3. h \in 0 .. MaxRequests
    BY <1>4, ServerAssumption
  <2> HIDE DEF late, place, lost
  <2> QED
    BY <1>1, <1>5, <2>1, <2>2, <2>3, <2>4 DEF ConnTypes
<1>7. /\ n.asked = k.asked /\ n.inbox = Tail(k.inbox) /\ n.owed = k.owed
      /\ n.heads = h /\ n.replied = k.replied /\ n.keep = k.keep
      /\ n.client = k.client
      /\ n.astray = lost
      /\ n.pc = IF k.asked[h] \in Uploads THEN "header" ELSE "body"
  BY <1>1 DEF ConnTypes
<1> HIDE DEF n
<1>8. StreamInv(n)
  <2>1. CASE lost
    BY <1>7, <2>1 DEF StreamInv
  <2>2. CASE ~lost
    <3>1. BodyUnread(n) <=> k.asked[n.heads] \in HasBody
      BY <1>4, <1>7, <2>2 DEF BodyUnread, Straying
    <3> QED
      BY <1>1, <1>7, <3>1, MessageRead DEF ConnInv, h
  <2> QED
    BY <2>1, <2>2
<1>9. LastNumber(n) = LastNumber(k) /\ LastNumber(k) \in 0 .. MaxRequests
  BY <1>1, <1>7, LastNumberType DEF LastNumber
<1>10. /\ LastNumber(k) <= k.heads /\ k.keep
       /\ OnlyUploads(k, LastNumber(k) + 1, k.heads)
       /\ k.replied # <<>> => LastNumber(k) # 0
  BY <1>1 DEF ConnInv, TurnInv
<1>11. CASE k.asked[h] \in Uploads
  <2>1. OnlyUploads(n, LastNumber(n) + 1, n.heads)
    BY <1>4, <1>7, <1>9, <1>10, <1>11, ServerAssumption DEF OnlyUploads, h
  <2>2. n.pc = "header" /\ LastNumber(n) < n.heads
    BY <1>4, <1>7, <1>9, <1>10, <1>11, ServerAssumption DEF h
  <2>3. LastNumber(n) <= n.heads
    BY <1>4, <1>7, <1>9, <2>2, ServerAssumption
  <2>4. TurnInv(n)
    BY <1>7, <1>9, <1>10, <2>1, <2>2, <2>3 DEF TurnInv
  <2>5. AstrayInv(n)
    <3>1. n.heads \in 1 .. Len(n.asked)
      BY <1>3, <1>4, <1>7, ServerAssumption
    <3>2. n.astray => n.asked[n.heads] \in Straying
      BY <1>7
    <3> QED
      BY <2>1, <2>2, <3>1, <3>2 DEF AstrayInv
  <2> QED
    BY <1>1, <1>2, <1>6, <1>7, <1>8, <2>4, <2>5, ConnStep DEF ConnInv
<1>12. CASE k.asked[h] \notin Uploads
  <2>1. OnlyUploads(n, LastNumber(n) + 1, n.heads - 1)
    BY <1>4, <1>7, <1>9, <1>10, ServerAssumption DEF OnlyUploads, h
  <2>2. n.pc = "body" /\ LastNumber(n) < n.heads
    BY <1>4, <1>7, <1>9, <1>10, <1>12, ServerAssumption DEF h
  <2>3. TurnInv(n)
    BY <1>7, <1>9, <1>10, <1>12, <2>1, <2>2 DEF TurnInv
  <2>4. AstrayInv(n)
    BY <1>7, <1>12 DEF AstrayInv, Straying
  <2> QED
    BY <1>1, <1>2, <1>6, <1>7, <1>8, <2>3, <2>4, ConnStep DEF ConnInv
<1> QED
  BY <1>11, <1>12

\* What a session that has gone astray reads disturbs nothing.
LEMMA AstrayStep ==
  ASSUME IInv, NEW c \in Conns, conn[c].astray, conn[c].pc \in {"header", "body"},
         NEW n \in ConnTypes, n.pc \in {"header", "body", "handle"},
         n.asked = conn[c].asked, n.heads = conn[c].heads, n.keep = conn[c].keep,
         n.replied = conn[c].replied, n.astray = conn[c].astray,
         n.client = conn[c].client,
         conn' = [conn EXCEPT ![c] = n],
         UNCHANGED <<hasTimeout, launched, listening>>
  PROVE  IInv'
<1>1. ConnInv(conn[c])
  BY ConnAt
<1>2. ConnInv(n)
  BY <1>1 DEF ConnInv, StreamInv, TurnInv, AstrayInv, LastNumber, OnlyUploads
<1> QED
  BY <1>2, ConnStep

\* Any rest of what has come is made of messages.
LEMMA RestType ==
  ASSUME NEW s \in Seq(Messages), NEW rest \in Rests(s)
  PROVE  rest \in Seq(Messages)
<1>1. PICK i \in 1 .. Len(s) + 1 : rest = SubSeq(s, i, Len(s))
  BY DEF Rests
<1>2. Len(s) \in Nat /\ \A l \in 1 .. Len(s) : s[l] \in Messages
  BY LenProperties, ElementOfSeq
<1>3. \A l \in i .. Len(s) : s[l] \in Messages
  BY <1>2
<1> QED
  BY <1>1, <1>2, <1>3, SubSeqProperties

LEMMA ReadHiddenStep ==
  ASSUME IInv, NEW c \in Conns, NEW q \in Requests, ReadHidden(c, q)
  PROVE  IInv'
<1> DEFINE k == conn[c]
           late == IF q \in Uploads THEN FALSE ELSE k.expired
           place == IF q \in Uploads THEN "header" ELSE "body"
<1>1. k \in ConnTypes /\ k.pc = "header" /\ k.astray
  BY ConnAt DEF ReadHidden
<1>2. PICK rest \in Rests(k.inbox) :
         conn' = [conn EXCEPT ![c] = [k EXCEPT !.inbox = rest,
                    !.hidden = Append(@, q), !.expired = late, !.pc = place]]
  BY ZenonT(60) DEF ReadHidden
<1> DEFINE n == [k EXCEPT !.inbox = rest, !.hidden = Append(@, q),
                          !.expired = late, !.pc = place]
<1>3. conn' = [conn EXCEPT ![c] = n] /\ UNCHANGED <<hasTimeout, launched, listening>>
  BY <1>2 DEF ReadHidden
<1>4. rest \in Seq(Messages) /\ Append(k.hidden, q) \in Seq(Requests)
  BY <1>1, RestType, AppendProperties DEF ConnTypes
<1>5. late \in BOOLEAN /\ place \in {"header", "body"}
  BY <1>1 DEF ConnTypes
<1> HIDE DEF late, place
<1>6. /\ n \in ConnTypes /\ n.pc = place
      /\ n.asked = k.asked /\ n.heads = k.heads /\ n.keep = k.keep
      /\ n.replied = k.replied /\ n.astray = k.astray /\ n.client = k.client
  BY <1>1, <1>4, <1>5 DEF ConnTypes, Places
<1> HIDE DEF n
<1> QED
  BY <1>1, <1>3, <1>5, <1>6, AstrayStep

LEMMA ReadPartStep ==
  ASSUME IInv, NEW c \in Conns, ReadPart(c)
  PROVE  IInv'
<1> DEFINE k == conn[c]
           n == [k EXCEPT !.inbox = <<>>]
<1>1. k \in ConnTypes /\ k.pc \in {"header", "body"} /\ k.astray
  BY ConnAt DEF ReadPart, Reading
<1>2. conn' = [conn EXCEPT ![c] = n] /\ UNCHANGED <<hasTimeout, launched, listening>>
  BY DEF ReadPart
<1>3. /\ n \in ConnTypes /\ n.pc = k.pc
      /\ n.asked = k.asked /\ n.heads = k.heads /\ n.keep = k.keep
      /\ n.replied = k.replied /\ n.astray = k.astray /\ n.client = k.client
  BY <1>1, EmptySeq DEF ConnTypes
<1> HIDE DEF n
<1> QED
  BY <1>1, <1>2, <1>3, AstrayStep

\* What ReadBody reads is a body, and after it none is due, unless the session
\* has gone astray.
LEMMA ReadBodyStep ==
  ASSUME IInv, NEW c \in Conns, ReadBody(c)
  PROVE  IInv'
<1> DEFINE k == conn[c]
<1>1. /\ k \in ConnTypes /\ ConnInv(k) /\ k.pc = "body"
  BY ConnAt DEF ReadBody
<1>2. UNCHANGED <<hasTimeout, launched, listening>>
  BY DEF ReadBody
<1>3. CASE Current(c) \in HasBody
  <2>1. PICK rest \in Rests(k.inbox) :
           /\ k.inbox # <<>>
           /\ k.astray \/ rest = Tail(k.inbox)
           /\ conn' = [conn EXCEPT ![c] = [k EXCEPT !.inbox = rest, !.pc = "handle"]]
    BY <1>3 DEF ReadBody
  <2> DEFINE n == [k EXCEPT !.inbox = rest, !.pc = "handle"]
  <2>2. conn' = [conn EXCEPT ![c] = n]
    BY <2>1
  <2>3. ~k.astray => k.asked[k.heads] \in HasBody
    BY <1>3 DEF Current
  <2> HIDE DEF k
  <2>4. rest \in Seq(Messages)
    BY <1>1, RestType DEF ConnTypes
  <2>5. /\ n \in ConnTypes /\ n.pc = "handle"
        /\ n.asked = k.asked /\ n.inbox = rest /\ n.owed = k.owed
        /\ n.heads = k.heads /\ n.replied = k.replied /\ n.keep = k.keep
        /\ n.astray = k.astray /\ n.client = k.client
    BY <1>1, <2>4 DEF ConnTypes, Places
  <2> HIDE DEF n
  <2>6. CASE ~k.astray
    <3>1. k.heads # 0
      <4>1. LastNumber(k) \in 0 .. MaxRequests /\ LastNumber(k) < k.heads
        BY <1>1, <2>6, LastNumberType DEF ConnInv, TurnInv
      <4> QED
        BY <4>1, ServerAssumption
    <3>2. Head(k.inbox) = "body"
      BY <1>1, <2>1, <2>3, <2>6, <3>1, NextMessage DEF ConnInv, BodyUnread
    <3>3. StreamInv(n)
      BY <1>1, <2>1, <2>5, <2>6, <3>2, MessageRead DEF ConnInv, BodyUnread
    <3>4. ConnInv(n)
      BY <1>1, <2>5, <3>3 DEF ConnInv, TurnInv, AstrayInv, LastNumber, OnlyUploads
    <3> QED
      BY <1>2, <2>2, <2>5, <3>4, ConnStep
  <2>7. CASE k.astray
    BY <1>1, <1>2, <2>2, <2>5, <2>7, AstrayStep DEF k
  <2> QED
    BY <2>6, <2>7
<1>4. CASE Current(c) \notin HasBody
  <2> DEFINE n == [k EXCEPT !.pc = "handle"]
  <2>1. conn' = [conn EXCEPT ![c] = n]
    BY <1>4 DEF ReadBody
  <2>2. ~k.astray => k.asked[k.heads] \notin HasBody
    BY <1>4 DEF Current
  <2> HIDE DEF k
  <2>3. /\ n \in ConnTypes /\ n.pc = "handle"
        /\ n.asked = k.asked /\ n.inbox = k.inbox /\ n.owed = k.owed
        /\ n.heads = k.heads /\ n.replied = k.replied /\ n.keep = k.keep
        /\ n.astray = k.astray /\ n.client = k.client
    BY <1>1 DEF ConnTypes, Places
  <2> HIDE DEF n
  <2>4. CASE ~k.astray
    <3>1. StreamInv(n)
      BY <1>1, <2>2, <2>3, <2>4, SameStream DEF ConnInv, BodyUnread
    <3>2. ConnInv(n)
      BY <1>1, <2>3, <3>1 DEF ConnInv, TurnInv, AstrayInv, LastNumber, OnlyUploads
    <3> QED
      BY <1>2, <2>1, <2>3, <3>2, ConnStep
  <2>5. CASE k.astray
    BY <1>1, <1>2, <2>1, <2>3, <2>5, AstrayStep DEF k
  <2> QED
    BY <2>4, <2>5
<1> QED
  BY <1>3, <1>4

LEMMA HandleStep ==
  ASSUME IInv, NEW c \in Conns, NEW keep \in BOOLEAN, Handle(c, keep)
  PROVE  IInv'
<1> DEFINE k == conn[c]
           n == [k EXCEPT !.keep = keep, !.pc = "write"]
<1>1. k \in ConnTypes /\ ConnInv(k) /\ k.pc = "handle"
  BY ConnAt DEF Handle
<1>2. /\ conn' = [conn EXCEPT ![c] = n]
      /\ UNCHANGED <<hasTimeout, launched, listening>>
  BY DEF Handle
<1> HIDE DEF k
<1>3. /\ n \in ConnTypes /\ n.pc = "write"
      /\ n.asked = k.asked /\ n.inbox = k.inbox /\ n.owed = k.owed
      /\ n.heads = k.heads /\ n.replied = k.replied /\ n.client = k.client
      /\ n.astray = k.astray
  BY <1>1 DEF ConnTypes, Places
<1> HIDE DEF n
<1>4. StreamInv(n)
  BY <1>1, <1>3, SameStream DEF ConnInv, BodyUnread
<1>5. ConnInv(n)
  BY <1>1, <1>3, <1>4 DEF ConnInv, TurnInv, AstrayInv, LastNumber, OnlyUploads
<1> QED
  BY <1>2, <1>3, <1>5, ConnStep

\* The current request is answered, the last one that has been.
LEMMA WriteStep ==
  ASSUME IInv, NEW c \in Conns, Write(c)
  PROVE  IInv'
<1> DEFINE k == conn[c]
           a == Number(c)
           n == [k EXCEPT !.replied = Append(@, a), !.expired = FALSE,
                          !.pc = IF k.keep THEN "header" ELSE "over",
                          !.outcome = IF k.keep THEN "open" ELSE "shutdown"]
<1>1. k \in ConnTypes /\ ConnInv(k) /\ k.pc = "write"
  BY ConnAt DEF Write
<1>2. /\ conn' = [conn EXCEPT ![c] = n]
      /\ UNCHANGED <<hasTimeout, launched, listening>>
  BY DEF Write
<1>3. a = IF k.astray THEN 0 ELSE k.heads
  BY DEF Number
<1> HIDE DEF k, a
<1>4. ~k.astray => /\ k.heads \in 1 .. MaxRequests
                   /\ LastNumber(k) < k.heads /\ k.asked[k.heads] \notin Uploads
  BY <1>1, LastNumberType, ServerAssumption DEF ConnInv, TurnInv, ConnTypes
<1>5. /\ Append(k.replied, a) \in Seq(0 .. MaxRequests)
      /\ Append(k.replied, a) # <<>>
      /\ Append(k.replied, a)[Len(Append(k.replied, a))] = a
  <2>1. k.replied \in Seq(0 .. MaxRequests) /\ a \in 0 .. MaxRequests
    BY <1>1, <1>3, ServerAssumption DEF ConnTypes
  <2> QED
    BY <2>1, AppendProperties
<1>6. n \in ConnTypes
  BY <1>1, <1>5 DEF ConnTypes, Places, Outcomes
<1>7. /\ n.asked = k.asked /\ n.inbox = k.inbox /\ n.owed = k.owed
      /\ n.heads = k.heads /\ n.replied = Append(k.replied, a)
      /\ n.keep = k.keep /\ n.client = k.client /\ n.astray = k.astray
      /\ n.pc = IF k.keep THEN "header" ELSE "over"
  BY <1>1 DEF ConnTypes
<1> HIDE DEF n
<1>8. StreamInv(n)
  BY <1>1, <1>7, SameStream DEF ConnInv, BodyUnread
<1>9. LastNumber(n) = a /\ n.replied # <<>>
  BY <1>5, <1>7 DEF LastNumber
<1>10. CASE k.astray
  <2>1. TurnInv(n)
    BY <1>7, <1>10 DEF TurnInv
  <2>2. AstrayInv(n)
    BY <1>1, <1>3, <1>7, <1>9, <1>10 DEF AstrayInv, ConnInv
  <2> QED
    BY <1>1, <1>2, <1>6, <1>7, <1>8, <2>1, <2>2, ConnStep DEF ConnInv
<1>11. CASE ~k.astray
  <2>1. OnlyUploads(n, LastNumber(n) + 1, n.heads)
    BY <1>3, <1>4, <1>7, <1>9, <1>11 DEF OnlyUploads
  <2>2. LastNumber(n) # 0 /\ LastNumber(n) <= n.heads
    BY <1>3, <1>4, <1>7, <1>9, <1>11
  <2>3. TurnInv(n)
    BY <1>7, <2>1, <2>2 DEF TurnInv
  <2>4. AstrayInv(n)
    BY <1>7, <1>11 DEF AstrayInv
  <2> QED
    BY <1>1, <1>2, <1>6, <1>7, <1>8, <2>3, <2>4, ConnStep DEF ConnInv
<1> QED
  BY <1>10, <1>11

-----------------------------------------------------------------------------
(* The invariant holds. *)

LEMMA InitInvariant == Init => IInv
<1> SUFFICES ASSUME Init PROVE IInv
  OBVIOUS
<1>1. NewConn \in ConnTypes
  BY ServerAssumption, EmptySeq DEF NewConn, ConnTypes, Places, Outcomes
<1>2. StreamInv(NewConn)
  <2> DEFINE own == [i \in 0 .. 0 |-> 0]
  <2>1. /\ Len(NewConn.inbox) = 0 /\ Len(NewConn.asked) = 0 /\ NewConn.heads = 0
        /\ NewConn.owed = FALSE
    BY EmptySeq DEF NewConn
  <2>2. own \in [0 .. 0 -> 0 .. 0] /\ own[0] = 0
    OBVIOUS
  <2> HIDE DEF own
  <2>3. Numbers(NewConn, own)
    BY <2>1, <2>2 DEF Numbers
  <2>4. ~BodyDue(NewConn, own, 0)
    BY <2>1 DEF BodyDue, BodyUnread
  <2> QED
    BY <2>1, <2>2, <2>3, <2>4 DEF StreamInv
<1>3. TurnInv(NewConn)
  BY DEF NewConn, TurnInv, LastNumber, OnlyUploads
<1>4. ConnInv(NewConn)
  BY <1>2, <1>3, ServerAssumption DEF ConnInv, AstrayInv, NewConn
<1>5. \A c \in Conns : conn[c] = NewConn
  BY DEF Init
<1>6. TypeOK
  BY <1>1 DEF Init, TypeOK, ConnTypes, Messages
<1> QED
  BY <1>4, <1>5, <1>6 DEF IInv

\* The steps in which a session ends without an answer.
LEMMA EndingSteps ==
  ASSUME IInv, NEW c \in Conns,
         \/ ReadGarbage(c) \/ BodyTooBig(c) \/ FileFails(c) \/ ReadEnd(c) \/ TimedOut(c)
         \/ \E how \in Outcomes : HandlerThrows(c, how) \/ PeerGone(c, how)
  PROVE  conn[c].pc # "none" /\ \E how \in Outcomes : End(c, how)
<1> USE DEF Reading, Outcomes
<1>1. CASE ReadGarbage(c) \/ BodyTooBig(c) \/ FileFails(c) \/ ReadEnd(c) \/ TimedOut(c)
  BY <1>1 DEF ReadGarbage, BodyTooBig, FileFails, ReadEnd, TimedOut
<1>2. ASSUME NEW how \in Outcomes, HandlerThrows(c, how) \/ PeerGone(c, how)
      PROVE  conn[c].pc # "none" /\ End(c, how)
  BY <1>2 DEF HandlerThrows, PeerGone
<1> QED
  BY <1>1, <1>2

\* Every reachable state satisfies the inductive invariant.
LEMMA Invariance == Spec => []IInv
<1>1. IInv /\ [Next]_vars => IInv'
  <2> SUFFICES ASSUME IInv, [Next]_vars PROVE IInv'
    OBVIOUS
  <2>1. ASSUME NEW c \in Conns, ClientNext(c) \/ Accept(c) \/ Expire(c) PROVE IInv'
    BY <2>1, ConnectStep, SendHeaderStep, SendBodyStep, LeaveOrExpireStep, AcceptStep
       DEF ClientNext
  <2>2. ASSUME NEW c \in Conns, SessionNext(c) PROVE IInv'
    <3>1. CASE ReadHeader(c) \/ ReadPart(c) \/ ReadBody(c) \/ Write(c)
      BY <3>1, ReadHeaderStep, ReadPartStep, ReadBodyStep, WriteStep
    <3>4. ASSUME NEW q \in Requests, ReadHidden(c, q) PROVE IInv'
      BY <3>4, ReadHiddenStep
    <3>2. ASSUME NEW keep \in BOOLEAN, Handle(c, keep) PROVE IInv'
      BY <3>2, HandleStep
    <3>3. ASSUME \/ ReadGarbage(c) \/ BodyTooBig(c) \/ FileFails(c) \/ ReadEnd(c)
                 \/ TimedOut(c)
                 \/ \E how \in Outcomes : HandlerThrows(c, how) \/ PeerGone(c, how)
          PROVE  IInv'
      BY <3>3, EndingSteps, EndStep
    <3> QED
      BY <2>2, <3>1, <3>2, <3>3, <3>4 DEF SessionNext
  <2>3. CASE Launch \/ AcceptThrows
    BY <2>3 DEF Launch, AcceptThrows, IInv, TypeOK
  <2>4. CASE UNCHANGED vars
    BY <2>4 DEF vars, IInv, TypeOK
  <2> QED
    BY <2>1, <2>2, <2>3, <2>4 DEF Next
<1> QED
  BY <1>1, InitInvariant, PTL DEF Spec

\* However far a client pipelines its requests, the session tells headers
\* from bodies as long as it has not passed over an upload with a body.
THEOREM SessionsStayInStep == Spec => []SessionInv
<1>1. ASSUME IInv, NEW c \in Conns, conn[c].pc # "over", conn[c].inbox # <<>>,
             \A i \in 1 .. conn[c].heads : conn[c].asked[i] \notin Straying
      PROVE  Head(conn[c].inbox) = "body" <=> conn[c].pc = "body" /\ Current(c) \in HasBody
  <2> DEFINE k == conn[c]
  <2>1. k \in ConnTypes /\ ConnInv(k)
    BY <1>1, ConnAt
  <2>2. \A i \in 1 .. k.heads : k.asked[i] \notin Straying
    BY <1>1
  <2>3. k.pc # "over" /\ k.inbox # <<>>
    BY <1>1
  <2>4. ~k.astray => Current(c) = k.asked[k.heads]
    BY DEF Current
  <2> HIDE DEF k
  <2>5. ~k.astray
    <3>1. k.astray => k.heads \in 1 .. k.heads /\ k.asked[k.heads] \in Straying
      BY <2>1 DEF ConnInv, AstrayInv
    <3> QED
      BY <2>2, <3>1
  <2>6. Head(k.inbox) = "body" <=> BodyUnread(k)
    BY <2>1, <2>3, <2>5, NextMessage DEF ConnInv
  <2>7. k.pc = "body" => k.heads # 0
    <3>1. k.pc = "body" => LastNumber(k) \in 0 .. MaxRequests /\ LastNumber(k) < k.heads
      BY <2>1, <2>5, LastNumberType DEF ConnInv, TurnInv
    <3> QED
      BY <3>1, ServerAssumption
  <2>8. Head(k.inbox) = "body" <=> k.pc = "body" /\ k.asked[k.heads] \in HasBody
    BY <2>6, <2>7 DEF BodyUnread
  <2> QED
    BY <2>4, <2>5, <2>8 DEF k
<1>2. IInv => SessionInv
  BY <1>1 DEF IInv, SessionInv, InStep
<1> QED
  BY <1>2, Invariance, PTL

-----------------------------------------------------------------------------
(* The refinement. *)

\* No further reply comes on the connection whose record is k.
Closed(k) == k.pc = "over" \/ (~k.keep /\ k.pc # "write")

\* A step that asks nothing and answers nothing; it may close the connection.
LEMMA QuietStep ==
  ASSUME IInv, NEW c \in Conns, NEW n,
         conn' = [conn EXCEPT ![c] = n],
         n.asked = conn[c].asked, n.replied = conn[c].replied,
         Closed(conn[c]) => Closed(n)
  PROVE  Replies!Next \/ UNCHANGED Replies!vars
<1>1. \A d \in Conns : conn'[d] = IF d = c THEN n ELSE conn[d]
  BY DEF IInv, TypeOK
<1>2. /\ [d \in Conns |-> conn'[d].asked] = [d \in Conns |-> conn[d].asked]
      /\ [d \in Conns |-> conn'[d].replied] = [d \in Conns |-> conn[d].replied]
  BY <1>1
<1>3. {d \in Conns : Closed(conn'[d])} \in
         {{d \in Conns : Closed(conn[d])}, {d \in Conns : Closed(conn[d])} \cup {c}}
  <2>1. CASE Closed(n)
    BY <1>1, <2>1
  <2>2. CASE ~Closed(n)
    BY <1>1, <2>2
  <2> QED
    BY <2>1, <2>2
<1>4. CASE {d \in Conns : Closed(conn'[d])} = {d \in Conns : Closed(conn[d])}
  BY <1>2, <1>4 DEF Replies!vars, Closed, ClosedByReply
<1>5. CASE {d \in Conns : Closed(conn'[d])} = {d \in Conns : Closed(conn[d])} \cup {c}
  <2>1. Replies!Close(c)
    BY <1>2, <1>5 DEF Replies!Close, Closed, ClosedByReply
  <2> QED
    BY <2>1 DEF Replies!Next
<1> QED
  BY <1>3, <1>4, <1>5

\* The client's header is a request asked.
LEMMA SendHeaderAsks ==
  ASSUME IInv, NEW c \in Conns, NEW q \in Requests, SendHeader(c, q)
  PROVE  Replies!Next
<1> DEFINE k == conn[c]
           owes == q \in HasBody
           n == [k EXCEPT !.asked = Append(@, q), !.inbox = Append(@, "header"),
                          !.owed = owes]
<1>1. conn' = [conn EXCEPT ![c] = n]
  BY DEF SendHeader
<1>2. k \in ConnTypes
  BY ConnAt
<1> HIDE DEF k
<1>3. /\ n.asked = Append(k.asked, q) /\ n.replied = k.replied
      /\ n.pc = k.pc /\ n.keep = k.keep
  BY <1>2 DEF ConnTypes
<1> HIDE DEF n
<1>4. \A d \in Conns : conn'[d] = IF d = c THEN n ELSE conn[d]
  BY <1>1 DEF IInv, TypeOK
<1>5. /\ [d \in Conns |-> conn'[d].asked] =
            [[d \in Conns |-> conn[d].asked] EXCEPT ![c] = Append(@, q)]
      /\ [d \in Conns |-> conn'[d].replied] = [d \in Conns |-> conn[d].replied]
      /\ {d \in Conns : Closed(conn'[d])} = {d \in Conns : Closed(conn[d])}
  BY <1>3, <1>4 DEF k, Closed
<1>6. Replies!Ask(c, q)
  BY <1>5 DEF Replies!Ask, Closed, ClosedByReply
<1> QED
  BY <1>6 DEF Replies!Next

\* What is written answers the current request, all those before it being
\* answered or uploads, or what was hidden in an upload, on a connection that
\* no reply has closed.
LEMMA WriteReplies ==
  ASSUME IInv, NEW c \in Conns, Write(c)
  PROVE  Replies!Next
<1> DEFINE k == conn[c]
           a == Number(c)
           next == IF k.keep THEN "header" ELSE "over"
           n == [k EXCEPT !.replied = Append(@, a), !.expired = FALSE,
                          !.pc = next,
                          !.outcome = IF k.keep THEN "open" ELSE "shutdown"]
<1>1. conn' = [conn EXCEPT ![c] = n] /\ k.pc = "write"
  BY DEF Write
<1>2. k \in ConnTypes /\ ConnInv(k)
  BY ConnAt
<1>3. a = IF k.astray THEN 0 ELSE k.heads
  BY DEF Number
<1> HIDE DEF k, a
<1>4. /\ n.asked = k.asked /\ n.replied = Append(k.replied, a)
      /\ n.pc = next /\ n.keep = k.keep
  BY <1>2 DEF ConnTypes
<1> HIDE DEF n
<1>5. \A d \in Conns : conn'[d] = IF d = c THEN n ELSE conn[d]
  BY <1>1 DEF IInv, TypeOK
<1>6. ~Closed(k) /\ (Closed(n) <=> ~k.keep)
  BY <1>1, <1>4 DEF Closed
<1>7. /\ [d \in Conns |-> conn'[d].asked] = [d \in Conns |-> conn[d].asked]
      /\ [d \in Conns |-> conn'[d].replied] =
            [[d \in Conns |-> conn[d].replied] EXCEPT ![c] = Append(@, a)]
  BY <1>4, <1>5 DEF k
<1>8. {d \in Conns : Closed(conn'[d])} \in
         {{d \in Conns : Closed(conn[d])}, {d \in Conns : Closed(conn[d])} \cup {c}}
  <2>1. CASE k.keep
    <3>1. \A d \in Conns : Closed(conn'[d]) <=> Closed(conn[d])
      BY <1>5, <1>6, <2>1 DEF k
    <3> QED
      BY <3>1
  <2>2. CASE ~k.keep
    <3>1. \A d \in Conns : Closed(conn'[d]) <=> Closed(conn[d]) \/ d = c
      BY <1>5, <1>6, <2>2 DEF k
    <3> QED
      BY <3>1
  <2> QED
    BY <2>1, <2>2
<1>9. c \notin {d \in Conns : Closed(conn[d])}
  BY <1>6 DEF k
<1>10. /\ Replies!LastReply(c) = LastNumber(k)
       /\ Replies!Astray(c) <=> k.replied # <<>> /\ LastNumber(k) = 0
  BY DEF Replies!LastReply, Replies!Astray, LastNumber, k
<1>11. /\ LastNumber(k) \in 0 .. MaxRequests /\ k.heads \in 0 .. MaxRequests
       /\ Len(k.asked) \in Nat /\ DOMAIN k.asked = 1 .. Len(k.asked)
  BY <1>2, LastNumberType, LenProperties DEF ConnTypes
<1>12. [d \in Conns |-> conn[d].asked][c] = k.asked
  BY DEF k
<1>13. ASSUME k.heads <= Len(k.asked), LastNumber(k) < k.heads,
              OnlyUploads(k, LastNumber(k) + 1, k.heads - 1)
       PROVE  k.heads \in DOMAIN k.asked /\ Replies!Reached(c, k.heads)
  <2>1. /\ k.heads \in LastNumber(k) + 1 .. Len(k.asked)
        /\ \A m \in LastNumber(k) + 1 .. k.heads - 1 : k.asked[m] \in Uploads
    BY <1>11, <1>13, ServerAssumption DEF OnlyUploads
  <2>2. k.heads \in DOMAIN k.asked
    BY <1>11, <2>1, ServerAssumption
  <2> QED
    BY <1>10, <1>12, <2>1, <2>2 DEF Replies!Reached
<1>14. CASE ~k.astray
  <2>1. /\ k.heads <= Len(k.asked) /\ LastNumber(k) < k.heads
        /\ k.asked[k.heads] \notin Uploads
        /\ OnlyUploads(k, LastNumber(k) + 1, k.heads - 1)
        /\ ~(k.replied # <<>> /\ LastNumber(k) = 0)
    BY <1>1, <1>2, <1>14, NextMessage DEF ConnInv, TurnInv
  <2>2. a = k.heads
    BY <1>3, <1>14
  <2>3. Replies!Answer(c, k.heads)
    BY <1>7, <1>8, <1>9, <2>2 DEF Replies!Answer, Closed, ClosedByReply
  <2>4. Replies!Reply(c, k.heads)
    BY <1>10, <1>12, <1>13, <2>1, <2>3 DEF Replies!Reply
  <2>5. k.heads \in DOMAIN k.asked
    BY <1>13, <2>1
  <2>6. PICK h \in DOMAIN [d \in Conns |-> conn[d].asked][c] : h = k.heads
    BY <1>12, <2>5
  <2> QED
    BY <2>4, <2>6 DEF Replies!Next
<1>15. CASE k.astray
  <2>1. a = 0
    BY <1>3, <1>15
  <2>2. Replies!Answer(c, 0)
    BY <1>7, <1>8, <1>9, <2>1 DEF Replies!Answer, Closed, ClosedByReply
  <2>3. CASE k.replied # <<>> /\ LastNumber(k) = 0
    BY <1>10, <2>2, <2>3 DEF Replies!ReplyAstray, Replies!Next
  <2>4. CASE LastNumber(k) < k.heads /\ OnlyUploads(k, LastNumber(k) + 1, k.heads)
    <3>1. k.heads <= Len(k.asked) /\ k.asked[k.heads] \in Straying
      BY <1>2, <1>11, <1>15 DEF ConnInv, AstrayInv
    <3>2. OnlyUploads(k, LastNumber(k) + 1, k.heads - 1)
      BY <1>11, <2>4, ServerAssumption DEF OnlyUploads
    <3>3. k.heads \in DOMAIN k.asked /\ Replies!Reached(c, k.heads)
      BY <1>13, <2>4, <3>1, <3>2
    <3>4. Replies!ReplyAstray(c)
      BY <1>12, <2>2, <3>1, <3>3 DEF Replies!ReplyAstray
    <3> QED
      BY <3>4 DEF Replies!Next
  <2> QED
    BY <1>2, <1>15, <2>3, <2>4 DEF ConnInv, AstrayInv
<1> QED
  BY <1>14, <1>15

\* The other steps of a session.
LEMMA OtherStepsAreQuiet ==
  ASSUME IInv, NEW c \in Conns,
         \/ Connect(c) \/ SendBody(c) \/ Accept(c) \/ Expire(c)
         \/ ReadHeader(c) \/ ReadPart(c) \/ ReadBody(c)
         \/ \E q \in Requests : ReadHidden(c, q)
         \/ \E how \in {"finished", "gone"} : Leave(c, how)
         \/ \E keep \in BOOLEAN : Handle(c, keep)
         \/ conn[c].pc # "none" /\ \E how \in Outcomes : End(c, how)
  PROVE  Replies!Next \/ UNCHANGED Replies!vars
<1> DEFINE k == conn[c]
           Quiet(n) == /\ conn' = [conn EXCEPT ![c] = n]
                       /\ n.asked = k.asked /\ n.replied = k.replied
                       /\ Closed(k) => Closed(n)
<1>1. k \in ConnTypes /\ ConnInv(k)
  BY ConnAt
<1>2. Closed(k) <=> k.pc = "over"
  BY <1>1 DEF ConnInv, TurnInv, Closed
<1>3. \E n : Quiet(n)
  <2>1. ASSUME Connect(c) PROVE \E n : Quiet(n)
    <3>1. conn' = [conn EXCEPT ![c] = [k EXCEPT !.client = "open", !.pc = "backlog"]] /\ k.client = "none"
      BY <2>1 DEF Connect
    <3> HIDE DEF k
    <3>2. Quiet([k EXCEPT !.client = "open", !.pc = "backlog"])
      BY <1>1, <1>2, <3>1 DEF ConnTypes, ConnInv
    <3> QED
      BY <3>2
  <2>2. ASSUME SendBody(c) PROVE \E n : Quiet(n)
    <3>1. conn' = [conn EXCEPT ![c] = [k EXCEPT !.inbox = Append(@, "body"), !.owed = FALSE]]
      BY <2>2 DEF SendBody
    <3> HIDE DEF k
    <3>2. Quiet([k EXCEPT !.inbox = Append(@, "body"), !.owed = FALSE])
      BY <1>1, <3>1 DEF ConnTypes, Closed
    <3> QED
      BY <3>2
  <2>3. ASSUME Accept(c) PROVE \E n : Quiet(n)
    <3>1. conn' = [conn EXCEPT ![c] = [k EXCEPT !.pc = "header"]] /\ k.pc = "backlog"
      BY <2>3 DEF Accept
    <3> HIDE DEF k
    <3>2. Quiet([k EXCEPT !.pc = "header"])
      BY <1>1, <1>2, <3>1 DEF ConnTypes
    <3> QED
      BY <3>2
  <2>4. ASSUME Expire(c) PROVE \E n : Quiet(n)
    <3>1. conn' = [conn EXCEPT ![c] = [k EXCEPT !.expired = TRUE]]
      BY <2>4 DEF Expire
    <3> HIDE DEF k
    <3>2. Quiet([k EXCEPT !.expired = TRUE])
      BY <1>1, <3>1 DEF ConnTypes, Closed
    <3> QED
      BY <3>2
  <2>5. ASSUME ReadHeader(c) PROVE \E n : Quiet(n)
    <3> DEFINE h == k.heads + 1
               unread == k.asked[h] \in Uploads
               n == [k EXCEPT !.inbox = Tail(@), !.heads = h,
                              !.astray = k.asked[h] \in Straying,
                              !.expired = IF unread THEN FALSE ELSE @,
                              !.pc = IF unread THEN "header" ELSE "body"]
    <3>1. conn' = [conn EXCEPT ![c] = n] /\ k.pc = "header"
      BY <2>5 DEF ReadHeader
    <3> HIDE DEF k
    <3>2. Quiet(n)
      BY <1>1, <1>2, <3>1 DEF ConnTypes
    <3> QED
      BY <3>2
  <2>11. ASSUME NEW q, ReadHidden(c, q) PROVE \E n : Quiet(n)
    <3>1. PICK rest : /\ conn' = [conn EXCEPT ![c] =
                            [k EXCEPT !.inbox = rest, !.hidden = Append(@, q),
                                      !.expired = IF q \in Uploads THEN FALSE ELSE @,
                                      !.pc = IF q \in Uploads THEN "header" ELSE "body"]]
                      /\ k.pc = "header"
      BY <2>11, ZenonT(60) DEF ReadHidden
    <3> HIDE DEF k
    <3>2. Quiet([k EXCEPT !.inbox = rest, !.hidden = Append(@, q),
                          !.expired = IF q \in Uploads THEN FALSE ELSE @,
                          !.pc = IF q \in Uploads THEN "header" ELSE "body"])
      BY <1>1, <1>2, <3>1 DEF ConnTypes
    <3> QED
      BY <3>2
  <2>12. ASSUME ReadPart(c) PROVE \E n : Quiet(n)
    <3>1. conn' = [conn EXCEPT ![c] = [k EXCEPT !.inbox = <<>>]]
      BY <2>12 DEF ReadPart
    <3> HIDE DEF k
    <3>2. Quiet([k EXCEPT !.inbox = <<>>])
      BY <1>1, <3>1 DEF ConnTypes, Closed
    <3> QED
      BY <3>2
  <2>6. ASSUME ReadBody(c), Current(c) \in HasBody PROVE \E n : Quiet(n)
    <3>1. PICK rest : /\ conn' = [conn EXCEPT ![c] = [k EXCEPT !.inbox = rest, !.pc = "handle"]]
                      /\ k.pc = "body"
      BY <2>6 DEF ReadBody
    <3> HIDE DEF k
    <3>2. Quiet([k EXCEPT !.inbox = rest, !.pc = "handle"])
      BY <1>1, <1>2, <3>1 DEF ConnTypes
    <3> QED
      BY <3>2
  <2>7. ASSUME ReadBody(c), Current(c) \notin HasBody PROVE \E n : Quiet(n)
    <3>1. conn' = [conn EXCEPT ![c] = [k EXCEPT !.pc = "handle"]] /\ k.pc = "body"
      BY <2>7 DEF ReadBody
    <3> HIDE DEF k
    <3>2. Quiet([k EXCEPT !.pc = "handle"])
      BY <1>1, <1>2, <3>1 DEF ConnTypes
    <3> QED
      BY <3>2
  <2>8. ASSUME NEW how, Leave(c, how) PROVE \E n : Quiet(n)
    <3>1. conn' = [conn EXCEPT ![c] = [k EXCEPT !.client = how]]
      BY <2>8 DEF Leave
    <3> HIDE DEF k
    <3>2. Quiet([k EXCEPT !.client = how])
      BY <1>1, <3>1 DEF ConnTypes, Closed
    <3> QED
      BY <3>2
  <2>9. ASSUME NEW keep, Handle(c, keep) PROVE \E n : Quiet(n)
    <3>1. conn' = [conn EXCEPT ![c] = [k EXCEPT !.keep = keep, !.pc = "write"]] /\ k.pc = "handle"
      BY <2>9 DEF Handle
    <3> HIDE DEF k
    <3>2. Quiet([k EXCEPT !.keep = keep, !.pc = "write"])
      BY <1>1, <1>2, <3>1 DEF ConnTypes
    <3> QED
      BY <3>2
  <2>10. ASSUME NEW how, End(c, how) PROVE \E n : Quiet(n)
    <3>1. conn' = [conn EXCEPT ![c] = [k EXCEPT !.pc = "over", !.outcome = how]]
      BY <2>10 DEF End
    <3> HIDE DEF k
    <3>2. Quiet([k EXCEPT !.pc = "over", !.outcome = how])
      BY <1>1, <3>1 DEF ConnTypes, Closed
    <3> QED
      BY <3>2
  <2> HIDE DEF Quiet
  <2> QED
    BY <2>1, <2>2, <2>3, <2>4, <2>5, <2>6, <2>7, <2>8, <2>9, <2>10, <2>11, <2>12
<1> QED
  BY <1>3, QuietStep

\* The requests of a connection are answered in order, each at most once and
\* none skipped but uploads, however they were pipelined and however sessions
\* end; what answers no request does so after an upload with a body, with no
\* answer between them, and from then on nothing else is answered; and nothing
\* is answered after a reply that closes the connection.
THEOREM ServerAnswersInOrder == Spec => ImplementsRequestReply
<1>1. Init => Replies!Init
  <2> SUFFICES ASSUME Init PROVE Replies!Init
    OBVIOUS
  <2>1. \A c \in Conns : /\ conn[c].asked = <<>> /\ conn[c].replied = <<>>
                         /\ conn[c].pc = "none" /\ conn[c].keep = TRUE
    BY DEF Init, NewConn
  <2> QED
    BY <2>1 DEF Replies!Init, ClosedByReply
<1>2. IInv /\ [Next]_vars => [Replies!Next]_(Replies!vars)
  <2> SUFFICES ASSUME IInv, [Next]_vars PROVE Replies!Next \/ UNCHANGED Replies!vars
    OBVIOUS
  <2>1. ASSUME NEW c \in Conns, ClientNext(c) \/ Accept(c) \/ Expire(c)
        PROVE  Replies!Next \/ UNCHANGED Replies!vars
    BY <2>1, SendHeaderAsks, OtherStepsAreQuiet DEF ClientNext
  <2>2. ASSUME NEW c \in Conns, SessionNext(c)
        PROVE  Replies!Next \/ UNCHANGED Replies!vars
    BY <2>2, WriteReplies, OtherStepsAreQuiet, EndingSteps DEF SessionNext
  <2>3. CASE Launch \/ AcceptThrows \/ UNCHANGED vars
    BY <2>3 DEF Launch, AcceptThrows, vars, Replies!vars, ClosedByReply
  <2> QED
    BY <2>1, <2>2, <2>3 DEF Next
<1> QED
  BY <1>1, <1>2, Invariance, PTL DEF Spec, ImplementsRequestReply, Replies!Spec
=============================================================================
