------------------------ MODULE MultipartParserProofs ------------------------
(***************************************************************************)
(* Theorems about MultipartParser, for all messages and all ways to cut    *)
(* them into chunks.  The invariant says where in the message the parser   *)
(* is: what the buffer has is the message from one position to another,    *)
(* and that position is a line of a header, a place in a body of which all *)
(* that precedes has been taken, or the end of a delimiter.  What Find and *)
(* StartsWith find in the buffer is then a fact about the message.         *)
(***************************************************************************)
EXTENDS MultipartParser, TLAPS, SequenceTheorems, WellFoundedInduction

-----------------------------------------------------------------------------
(* Lemmas about pieces of texts. *)

\* What t has behind its first i characters, up to the j-th.
Piece(t, i, j) == SubSeq(t, i + 1, j)

\* A piece is a text of its length, its characters those of the whole.
LEMMA PieceType ==
  ASSUME NEW t \in Seq(Characters), NEW i \in 0 .. Len(t), NEW j \in i .. Len(t)
  PROVE  /\ Piece(t, i, j) \in Seq(Characters)
         /\ Len(Piece(t, i, j)) = j - i
         /\ \A k \in 1 .. j - i : Piece(t, i, j)[k] = t[i + k]
<1> DEFINE n == Len(t)
           from == i + 1
           p == SubSeq(t, from, j)
<1>1. n \in Nat
  BY LenProperties
<1>2. i \in 0 .. n /\ j \in i .. n
  OBVIOUS
<1>3. from \in Int /\ j \in Int /\ from = i + 1 /\ from \in 1 .. n + 1
  BY <1>1, <1>2
<1>4. \A k \in from .. j : t[k] \in Characters
  <2> SUFFICES ASSUME NEW k \in from .. j PROVE t[k] \in Characters
    OBVIOUS
  <2>1. k \in 1 .. n
    BY <1>1, <1>2, <1>3
  <2> QED
    BY <2>1, ElementOfSeq
<1> HIDE DEF n, from
<1>5. /\ p \in Seq(Characters)
      /\ Len(p) = IF from <= j THEN j - from + 1 ELSE 0
      /\ \A k \in 1 .. j - from + 1 : p[k] = t[from + k - 1]
  BY <1>3, <1>4, SubSeqProperties
<1> HIDE DEF p
<1>6. Len(p) = j - i
  BY <1>1, <1>2, <1>3, <1>5
<1>7. \A k \in 1 .. j - i : p[k] = t[i + k]
  <2> SUFFICES ASSUME NEW k \in 1 .. j - i PROVE p[k] = t[i + k]
    OBVIOUS
  <2>1. k \in 1 .. j - from + 1 /\ from + k - 1 = i + k
    BY <1>1, <1>2, <1>3
  <2> QED
    BY <1>5, <2>1
<1> QED
  BY <1>5, <1>6, <1>7 DEF Piece, p, from

\* Pieces with the same characters are the same.
LEMMA PieceOfPiece ==
  ASSUME NEW t \in Seq(Characters), NEW i \in 0 .. Len(t), NEW j \in i .. Len(t),
         NEW k \in 0 .. j - i, NEW l \in k .. j - i
  PROVE  Piece(Piece(t, i, j), k, l) = Piece(t, i + k, i + l)
<1> DEFINE n == Len(t)
           p == Piece(t, i, j)
           q == Piece(p, k, l)
           r == Piece(t, i + k, i + l)
<1>1. n \in Nat
  BY LenProperties
<1>2. i \in 0 .. n /\ j \in i .. n /\ k \in 0 .. j - i /\ l \in k .. j - i
  OBVIOUS
<1>3. p \in Seq(Characters) /\ Len(p) = j - i /\ \A x \in 1 .. j - i : p[x] = t[i + x]
  BY PieceType
<1> HIDE DEF n, p
<1>4. q \in Seq(Characters) /\ Len(q) = l - k /\ \A x \in 1 .. l - k : q[x] = p[k + x]
  <2>1. k \in 0 .. Len(p) /\ l \in k .. Len(p)
    BY <1>2, <1>3
  <2> QED
    BY <1>3, <2>1, PieceType
<1>5. i + k \in 0 .. n /\ i + l \in i + k .. n /\ (i + l) - (i + k) = l - k
  BY <1>1, <1>2
<1>6. r \in Seq(Characters) /\ Len(r) = (i + l) - (i + k)
      /\ \A x \in 1 .. (i + l) - (i + k) : r[x] = t[(i + k) + x]
  BY <1>5, PieceType DEF n
<1> HIDE DEF q, r
<1>7. \A x \in 1 .. l - k : q[x] = r[x]
  <2> SUFFICES ASSUME NEW x \in 1 .. l - k PROVE q[x] = r[x]
    OBVIOUS
  <2>1. k + x \in 1 .. j - i /\ i + (k + x) = (i + k) + x
    BY <1>1, <1>2
  <2>2. q[x] = p[k + x] /\ p[k + x] = t[i + (k + x)]
    BY <1>3, <1>4, <2>1
  <2>3. r[x] = t[(i + k) + x]
    BY <1>5, <1>6
  <2> QED
    BY <2>1, <2>2, <2>3
<1>8. Len(q) = Len(r) /\ \A x \in 1 .. Len(q) : q[x] = r[x]
  BY <1>4, <1>5, <1>6, <1>7
<1>9. q = r
  BY <1>4, <1>6, <1>8, SeqEqual
<1> QED
  BY <1>9 DEF p, q, r

\* Pieces that follow each other make one.
LEMMA PieceJoin ==
  ASSUME NEW t \in Seq(Characters), NEW i \in 0 .. Len(t), NEW j \in i .. Len(t),
         NEW k \in j .. Len(t)
  PROVE  Piece(t, i, j) \o Piece(t, j, k) = Piece(t, i, k)
<1> DEFINE n == Len(t)
           from == i + 1
<1>1. n \in Nat
  BY LenProperties
<1>2. from \in 1 .. n + 1 /\ j \in from - 1 .. n /\ k \in j .. n
  BY <1>1
<1> HIDE DEF from
<1>3. SubSeq(t, from, j) \o SubSeq(t, j + 1, k) = SubSeq(t, from, k)
  BY <1>2, ConcatAdjacentSubSeq
<1> QED
  BY <1>3 DEF Piece, from

\* All of a text is a piece of it.
LEMMA PieceWhole ==
  ASSUME NEW t \in Seq(Characters)
  PROVE  Piece(t, 0, Len(t)) = t
<1>1. SubSeq(t, 1, Len(t)) = t
  BY SubSeqFull
<1>2. 0 + 1 = 1
  OBVIOUS
<1> QED
  BY <1>1, <1>2, Zenon DEF Piece

\* A piece that ends where it begins is empty.
LEMMA PieceEmpty ==
  ASSUME NEW t, NEW i \in Int
  PROVE  Piece(t, i, i) = <<>>
<1> DEFINE from == i + 1
<1>1. from \in Int /\ i < from
  OBVIOUS
<1> HIDE DEF from
<1>2. SubSeq(t, from, i) = <<>>
  BY <1>1, SubSeqEmpty
<1> QED
  BY <1>2 DEF Piece, from

\* A text is found in a piece where it stands in the whole.
LEMMA AtPiece ==
  ASSUME NEW t \in Seq(Characters), NEW i \in 0 .. Len(t), NEW j \in i .. Len(t),
         NEW s \in Seq(Characters), NEW k \in Nat
  PROVE  At(Piece(t, i, j), k, s) <=> At(t, i + k, s) /\ i + k + Len(s) <= j
<1> DEFINE n == Len(t)
           len == Len(s)
           p == Piece(t, i, j)
<1>1. n \in Nat /\ len \in Nat /\ i \in 0 .. n /\ j \in i .. n
  BY LenProperties
<1>2. Len(p) = j - i
  BY PieceType
<1>3. At(p, k, s) <=> k + len <= Len(p) /\ Piece(p, k, k + len) = s
  BY DEF At, Piece
<1>4. At(t, i + k, s) <=> i + k + len <= n /\ Piece(t, i + k, i + k + len) = s
  BY DEF At, Piece
<1>5. k + len <= j - i => Piece(p, k, k + len) = Piece(t, i + k, i + k + len)
  <2> SUFFICES ASSUME k + len <= j - i
               PROVE  Piece(p, k, k + len) = Piece(t, i + k, i + k + len)
    OBVIOUS
  <2> DEFINE l == k + len
  <2>1. k \in 0 .. j - i /\ l \in k .. j - i /\ i + l = i + k + len
    BY <1>1
  <2> HIDE DEF l
  <2>2. Piece(p, k, l) = Piece(t, i + k, i + l)
    BY <2>1, PieceOfPiece
  <2> QED
    BY <2>1, <2>2 DEF l
<1> HIDE DEF n, len, p
<1>6. k + len <= Len(p) <=> i + k + len <= j
  BY <1>1, <1>2
<1>7. i + k + len <= j => i + k + len <= n
  BY <1>1
<1>8. i + k + len <= j => k + len <= j - i
  BY <1>1
<1> QED
  BY <1>3, <1>4, <1>5, <1>6, <1>7, <1>8 DEF p, len

-----------------------------------------------------------------------------
(* The buffer. *)

\* A set of natural numbers that is not empty has a first member, and Min is it.
LEMMA MinOfPositions ==
  ASSUME NEW S \in SUBSET Nat, S # {}
  PROVE  Min(S) \in S /\ \A k \in S : Min(S) <= k
<1>1. PICK n \in S : \A k \in S : ~ (<<k, n>> \in OpToRel(<, Nat))
  BY NatLessThanWellFounded, WFMin
<1>2. \A k \in S : ~ (k < n)
  BY <1>1 DEF OpToRel
<1>3. \E m \in S : \A k \in S : m <= k
  BY <1>2
<1> QED
  BY <1>3 DEF Min

\* How much of the message parse() has been given, and where what the buffer
\* has of it begins.
Fed == Len(message.text) - Len(input)
Pos == Fed - Len(buf)

\* What the buffer has is the end of what parse() has been given.
BufInv ==
    /\ message \in Messages
    /\ input \in Seq(Characters) /\ buf \in Seq(Characters)
    /\ Len(input) <= Len(message.text)
    /\ Len(buf) <= Fed
    /\ input = Piece(message.text, Fed, Len(message.text))
    /\ buf = Piece(message.text, Pos, Fed)

\* The numbers that BufInv speaks of.
LEMMA Buffer ==
  ASSUME BufInv
  PROVE  /\ message.text \in Seq(Characters) /\ Len(message.text) \in Nat
         /\ Fed \in 0 .. Len(message.text) /\ Pos \in 0 .. Fed
         /\ Pos \in 0 .. Len(message.text) /\ Fed \in Pos .. Len(message.text)
         /\ Len(buf) = Fed - Pos /\ Len(input) = Len(message.text) - Fed
         /\ buf = Piece(message.text, Pos, Fed)
         /\ input = Piece(message.text, Fed, Len(message.text))
<1>1. message.text \in Seq(Characters)
  BY MultipartAssumption DEF BufInv, IsMessage
<1> DEFINE n == Len(message.text)
           i == Len(input)
           l == Len(buf)
<1>2. n \in Nat /\ i \in Nat /\ l \in Nat /\ i <= n /\ l <= n - i
  BY <1>1, LenProperties DEF BufInv, Fed
<1>3. Fed = n - i /\ Pos = n - i - l
  BY DEF Fed, Pos
<1> HIDE DEF n, i, l
<1>4. /\ Fed \in 0 .. n /\ Pos \in 0 .. Fed /\ Pos \in 0 .. n /\ Fed \in Pos .. n
      /\ l = Fed - Pos /\ i = n - Fed
  BY <1>2, <1>3
<1> QED
  BY <1>1, <1>2, <1>4 DEF BufInv, n, i, l

\* Taking characters off the buffer.
LEMMA Taken ==
  ASSUME BufInv, NEW n \in 0 .. Len(buf), buf' = From(n), message' = message, input' = input
  PROVE  BufInv' /\ Fed' = Fed /\ Pos' = Pos + n
<1> DEFINE t == message.text
           len == Len(buf)
<1>1. /\ t \in Seq(Characters) /\ Fed \in 0 .. Len(t) /\ Pos \in 0 .. Len(t)
      /\ Fed \in Pos .. Len(t)
      /\ len = Fed - Pos /\ buf = Piece(t, Pos, Fed) /\ len \in Nat
  BY Buffer
<1>2. n \in 0 .. len /\ len \in n .. len
  BY <1>1
<1>3. buf' = Piece(buf, n, len)
  BY DEF From, Piece
<1>4. buf' \in Seq(Characters) /\ Len(buf') = len - n
  <2>1. buf \in Seq(Characters) /\ n \in 0 .. Len(buf) /\ len \in n .. Len(buf)
    BY <1>2 DEF BufInv
  <2> HIDE DEF len
  <2>2. Piece(buf, n, len) \in Seq(Characters) /\ Len(Piece(buf, n, len)) = len - n
    BY <2>1, PieceType
  <2> QED
    BY <1>3, <2>2, Zenon
<1>5. buf' = Piece(t, Pos + n, Pos + len)
  <2> HIDE DEF t, len
  <2>1. n \in 0 .. Fed - Pos /\ len \in n .. Fed - Pos
    BY <1>1, <1>2
  <2> QED
    BY <1>1, <1>3, <2>1, PieceOfPiece
<1>6. Fed' = Fed
  BY DEF Fed
<1>7. Pos' = Fed - Len(buf')
  BY <1>6 DEF Pos
<1> HIDE DEF t, len
<1>8. Pos' = Pos + n /\ Pos + len = Fed /\ Len(buf') <= Fed
  <2> DEFINE l == Len(buf')
  <2>1. l = len - n /\ Pos' = Fed - l
    BY <1>4, <1>7
  <2> HIDE DEF l
  <2>2. Pos' = Pos + n /\ Pos + len = Fed /\ l <= Fed
    BY <1>1, <1>2, <2>1
  <2> QED
    BY <2>2 DEF l
<1>9. BufInv'
  BY <1>4, <1>5, <1>6, <1>8 DEF BufInv, t
<1> QED
  BY <1>6, <1>8, <1>9

\* Nothing is taken off.
LEMMA NothingTaken ==
  ASSUME BufInv, UNCHANGED <<message, input, buf>>
  PROVE  BufInv' /\ Fed' = Fed /\ Pos' = Pos
BY DEF BufInv, Fed, Pos, Piece

\* A chunk comes in.
LEMMA Fetched ==
  ASSUME BufInv, NEW n \in 1 .. Len(input), Feed(n)
  PROVE  BufInv' /\ Fed' = Fed + n /\ Pos' = Pos
<1> DEFINE t == message.text
           len == Len(t)
           chunk == SubSeq(input, 1, n)
           left == SubSeq(input, n + 1, Len(input))
<1>1. /\ t \in Seq(Characters) /\ len \in Nat
      /\ Fed \in 0 .. len /\ Pos \in 0 .. len /\ Fed \in Pos .. len
      /\ Len(buf) = Fed - Pos /\ Len(input) = len - Fed
      /\ buf = Piece(t, Pos, Fed) /\ input = Piece(t, Fed, len)
  BY Buffer
<1>2. buf' = buf \o chunk /\ input' = left /\ message' = message
  BY DEF Feed
<1>3. n \in 1 .. len - Fed
  BY <1>1
<1>4. chunk = Piece(input, 0, n)
  <2>1. 0 + 1 = 1
    OBVIOUS
  <2> QED
    BY <2>1, Zenon DEF Piece
<1>5. left = Piece(input, n, len - Fed)
  BY <1>1 DEF Piece
<1> HIDE DEF t, len, chunk, left
<1>6. Fed \in 0 .. Len(t) /\ len \in Fed .. Len(t) /\ Fed + n \in Fed .. Len(t) /\ Pos \in 0 .. Len(t)
      /\ Fed \in Pos .. Len(t)
  BY <1>1, <1>3 DEF len
<1>7. 0 \in 0 .. len - Fed /\ n \in 0 .. len - Fed /\ len - Fed \in n .. len - Fed
  BY <1>1, <1>3
<1>8. chunk = Piece(t, Fed, Fed + n)
  <2>1. chunk = Piece(t, Fed + 0, Fed + n)
    BY <1>1, <1>4, <1>6, <1>7, PieceOfPiece
  <2>2. Fed + 0 = Fed
    BY <1>1
  <2> QED
    BY <2>1, <2>2
<1>9. left = Piece(t, Fed + n, len)
  <2>1. left = Piece(t, Fed + n, Fed + (len - Fed))
    BY <1>1, <1>5, <1>6, <1>7, PieceOfPiece
  <2>2. Fed + (len - Fed) = len
    BY <1>1
  <2> QED
    BY <2>1, <2>2
<1>10. buf' = Piece(t, Pos, Fed + n)
  BY <1>1, <1>2, <1>6, <1>8, PieceJoin
<1>11. /\ Pos \in 0 .. Len(t) /\ Fed + n \in Pos .. Len(t)
       /\ Fed + n \in 0 .. Len(t) /\ len \in Fed + n .. Len(t)
  BY <1>1, <1>3, <1>6 DEF len
<1>12. /\ buf' \in Seq(Characters) /\ Len(buf') = (Fed + n) - Pos
       /\ input' \in Seq(Characters) /\ Len(input') = len - (Fed + n)
  BY <1>1, <1>2, <1>9, <1>10, <1>11, PieceType
<1>13. Fed' = len - Len(input')
  BY <1>2 DEF Fed, t, len
<1>14. Fed' = Fed + n /\ Len(input') <= len
  <2> DEFINE i == Len(input')
  <2>1. i = len - (Fed + n) /\ Fed' = len - i
    BY <1>12, <1>13
  <2> HIDE DEF i
  <2>2. Fed' = Fed + n /\ i <= len
    BY <1>1, <1>3, <2>1
  <2> QED
    BY <2>2 DEF i
<1>15. Pos' = Pos /\ Len(buf') <= Fed'
  <2> DEFINE b == Len(buf')
  <2>1. b = (Fed + n) - Pos /\ Pos' = Fed' - b
    BY <1>12 DEF Pos
  <2> HIDE DEF b
  <2>2. Pos' = Pos /\ b <= Fed'
    BY <1>1, <1>3, <1>14, <2>1
  <2> QED
    BY <2>2 DEF b
<1>16. BufInv'
  BY <1>2, <1>9, <1>10, <1>12, <1>14, <1>15 DEF BufInv, t, len
<1> QED
  BY <1>14, <1>15, <1>16

\* What the buffer starts with.
LEMMA StartsWithIs ==
  ASSUME BufInv, NEW s \in Seq(Characters)
  PROVE  StartsWith(s) <=> At(message.text, Pos, s) /\ Pos + Len(s) <= Fed
<1>1. StartsWith(s) <=> At(buf, 0, s)
  <2>1. SubSeq(s, 1, Len(s)) = s
    BY SubSeqFull
  <2>2. 0 + 1 = 1 /\ 0 + Len(s) = Len(s)
    BY LenProperties
  <2> QED
    BY <2>1, <2>2, Zenon DEF StartsWith, IsPrefix, At
<1>2. At(Piece(message.text, Pos, Fed), 0, s)
        <=> At(message.text, Pos + 0, s) /\ Pos + 0 + Len(s) <= Fed
  BY Buffer, AtPiece
<1>3. Pos + 0 = Pos
  BY Buffer
<1> QED
  BY <1>1, <1>2, <1>3, Buffer

\* What Find finds, in terms of the message.
LEMMA FindIs ==
  ASSUME BufInv, NEW s \in Seq(Characters), s # <<>>
  PROVE  /\ Find(s) \in 0 .. Len(buf)
         /\ Find(s) < Len(buf) => At(message.text, Pos + Find(s), s)
                                  /\ Pos + Find(s) + Len(s) <= Fed
         /\ \A i \in Pos .. Fed - Len(s) : At(message.text, i, s) => Find(s) <= i - Pos
<1> DEFINE n == Len(buf)
           len == Len(s)
           f == Find(s)
           S == {i \in 0 .. n - len : SubSeq(buf, i + 1, i + len) = s}
<1>1. n \in Nat /\ len \in Nat \ {0} /\ n = Fed - Pos
  BY Buffer, EmptySeq, LenProperties DEF BufInv
<1>2. Pos \in Nat /\ Fed \in Nat /\ Pos <= Fed
  BY Buffer
<1>3. f \in S \cup {n} /\ \A k \in S \cup {n} : f <= k
  <2> DEFINE T == S \cup {n}
  <2>1. T \in SUBSET Nat /\ T # {}
    BY <1>1
  <2>2. f = Min(T)
    BY DEF Find
  <2> HIDE DEF T, f
  <2>3. f \in T /\ \A k \in T : f <= k
    BY <2>1, <2>2, MinOfPositions
  <2> QED
    BY <2>3 DEF T
<1>4. \A i \in Nat : At(buf, i, s) <=> i \in S
  <2> SUFFICES ASSUME NEW i \in Nat PROVE At(buf, i, s) <=> i \in S
    OBVIOUS
  <2>1. At(buf, i, s) <=> i + len <= n /\ SubSeq(buf, i + 1, i + len) = s
    BY DEF At
  <2>2. i + len <= n <=> i \in 0 .. n - len
    <3> HIDE DEF n, len
    <3> QED
      BY <1>1
  <2> QED
    BY <2>1, <2>2
<1>5. \A i \in Nat : At(buf, i, s) <=> At(message.text, Pos + i, s) /\ Pos + i + len <= Fed
  <2> SUFFICES ASSUME NEW i \in Nat
               PROVE  At(buf, i, s) <=> At(message.text, Pos + i, s) /\ Pos + i + len <= Fed
    OBVIOUS
  <2>1. At(Piece(message.text, Pos, Fed), i, s)
          <=> At(message.text, Pos + i, s) /\ Pos + i + Len(s) <= Fed
    BY Buffer, AtPiece
  <2> QED
    BY <2>1, Buffer
<1>6. S \subseteq 0 .. n
  <2> HIDE DEF n, len
  <2> QED
    BY <1>1
<1> HIDE DEF n, len, f, S
<1>7. f \in 0 .. n
  BY <1>1, <1>3, <1>6
<1>8. ASSUME f < n PROVE At(message.text, Pos + f, s) /\ Pos + f + len <= Fed
  <2>1. f \in S /\ f \in Nat
    BY <1>1, <1>3, <1>7, <1>8
  <2> QED
    BY <1>4, <1>5, <2>1
<1>9. ASSUME NEW i \in Pos .. Fed - len, At(message.text, i, s) PROVE f <= i - Pos
  <2>1. i - Pos \in Nat /\ Pos + (i - Pos) = i /\ Pos + (i - Pos) + len <= Fed
    BY <1>1, <1>2
  <2>2. i - Pos \in S
    BY <1>4, <1>5, <1>9, <2>1
  <2> QED
    BY <1>3, <2>2
<1> QED
  BY <1>7, <1>8, <1>9 DEF n, len, f

-----------------------------------------------------------------------------
(* The inductive invariant. *)

\* What the callbacks may take.
Taking == [header : SUBSET Fields, body : Seq(Characters)]

TypesInv ==
    /\ pc \in {"idle", "loop", "headers", "failed"}
    /\ state_ \in 0 .. 4
    /\ is_valid_ \in BOOLEAN /\ refused \in BOOLEAN
    /\ cuts \subseteq {"start", "end"}
    /\ file_ \subseteq Fields
    /\ parts \in Seq(Taking)
    /\ pc = "headers" => state_ = 2
    /\ state_ \in {3, 4} => parts # <<>>

\* The part of the message that the callbacks got last, if they missed the
\* first k.
Current(k) == k + Len(parts)

\* Before the initial boundary: it has not come yet, or has come whole.
AtStart ==
    state_ = 0 =>
        /\ parts = <<>>
        /\ "start" \in cuts \/ Fed = 0 \/ (Pos = 0 /\ Fed >= message.start /\ pc = "loop")

\* A header begins.
AtHead(k) ==
    state_ = 1 =>
        /\ Current(k) < Len(message.places)
        /\ Pos = message.places[Current(k) + 1].head

\* What the first n lines of a header set.
FieldsOf(t, place, n) == {t[LineAt(place, i) + 1] : i \in 0 .. n - 1}

\* Between two lines of a header, with the fields of those before.
InHeader(k) ==
    state_ = 2 =>
        /\ Current(k) < Len(message.places)
        /\ \E j \in 0 .. message.places[Current(k) + 1].lines :
              /\ Pos = LineAt(message.places[Current(k) + 1], j)
              /\ file_ = FieldsOf(message.text, message.places[Current(k) + 1], j)

\* In a body, of which all that precedes has been taken.
InBody(k) ==
    state_ = 3 =>
        /\ Pos \in BodyAt(message.places[Current(k)]) .. message.places[Current(k)].to
        /\ parts[Len(parts)].header = message.parts[Current(k)].header
        /\ parts[Len(parts)].body =
              Piece(message.text, BodyAt(message.places[Current(k)]), Pos)

\* Behind a delimiter, or done.
AtDelimiter(k) ==
    state_ = 4 =>
        IF is_valid_
        THEN /\ buf = <<>>
             /\ Current(k) = Len(message.parts)
             /\ message.stop \in 1 .. Fed
        ELSE /\ At(message.text, message.places[Current(k)].to, crlf_dash_boundary_)
             /\ Pos = Behind(message.places[Current(k)])

\* Where the parser is in the message, if the callbacks missed the first k
\* parts.
PlacedAt(k) ==
    /\ Current(k) <= Len(message.parts)
    /\ \A i \in 1 .. Len(parts) :
          i < Len(parts) \/ state_ # 3 => parts[i] = message.parts[k + i]
    /\ is_valid_ => state_ = 4
    /\ AtStart /\ AtHead(k) /\ InHeader(k) /\ InBody(k) /\ AtDelimiter(k)

\* None is missed if the initial boundary comes whole.
PlaceInv ==
    "end" \notin cuts =>
        \E k \in 0 .. Len(message.parts) : PlacedAt(k) /\ ("start" \notin cuts => k = 0)

\* parse() returns when it cannot go on with what is in the buffer.
IdleInv ==
    pc = "idle" =>
        /\ state_ = 1 => buf = <<>>
        /\ state_ = 2 => Find(crlf_) = Len(buf)
        /\ state_ = 3 => Find(crlf_dash_boundary_) = Len(buf)
        /\ state_ = 4 => ~StartsWith(crlf_) /\ ~Closed

IInv == BufInv /\ TypesInv /\ PlaceInv /\ IdleInv /\ FailsForACause

-----------------------------------------------------------------------------
(* Lemmas about the delimiters and the places. *)

\* The delimiters are texts, and not empty; the two that may stand behind a
\* part begin differently.
LEMMA Delimiters ==
  /\ crlf_ \in Seq(Characters) /\ crlf_ # <<>> /\ Len(crlf_) = 2 /\ crlf_[1] = CR
  /\ dash_crlf_ \in Seq(Characters) /\ dash_crlf_ # <<>> /\ Len(dash_crlf_) = 4
  /\ dash_crlf_[1] = Dash
  /\ dash_boundary_crlf_ \in Seq(Characters) /\ dash_boundary_crlf_ # <<>>
  /\ Len(dash_boundary_crlf_) \in Nat \ {0}
  /\ crlf_dash_boundary_ \in Seq(Characters) /\ crlf_dash_boundary_ # <<>>
  /\ Len(crlf_dash_boundary_) \in Nat \ {0}
<1>1. CR \in Characters /\ LF \in Characters /\ Dash \in Characters /\ Boundary \in Seq(Characters)
  BY MultipartAssumption
<1>2. crlf_ \in Seq(Characters) /\ Len(crlf_) = 2 /\ crlf_[1] = CR /\ crlf_ # <<>>
  BY <1>1 DEF crlf_
<1>3. dash_crlf_ \in Seq(Characters) /\ Len(dash_crlf_) = 4 /\ dash_crlf_[1] = Dash /\ dash_crlf_ # <<>>
  BY <1>1 DEF dash_crlf_
<1> DEFINE dashes == <<Dash, Dash>>
<1>4. dashes \in Seq(Characters) /\ Len(dashes) = 2
  BY <1>1
<1> HIDE DEF dashes
<1>5. /\ dashes \o Boundary \in Seq(Characters)
      /\ Len(dashes \o Boundary) = Len(dashes) + Len(Boundary)
  BY <1>1, <1>4, ConcatProperties
<1>6. /\ dash_boundary_crlf_ \in Seq(Characters)
      /\ Len(dash_boundary_crlf_) = Len(dashes \o Boundary) + Len(crlf_)
  <2>1. dash_boundary_crlf_ = (dashes \o Boundary) \o crlf_
    BY DEF dash_boundary_crlf_, dashes
  <2> QED
    BY <1>2, <1>5, <2>1, ConcatProperties
<1>7. /\ crlf_ \o dashes \in Seq(Characters) /\ Len(crlf_ \o dashes) = Len(crlf_) + Len(dashes)
  BY <1>2, <1>4, ConcatProperties
<1>8. /\ crlf_dash_boundary_ \in Seq(Characters)
      /\ Len(crlf_dash_boundary_) = Len(crlf_ \o dashes) + Len(Boundary)
  <2>1. crlf_dash_boundary_ = (crlf_ \o dashes) \o Boundary
    BY DEF crlf_dash_boundary_, dashes
  <2> QED
    BY <1>1, <1>7, <2>1, ConcatProperties
<1> DEFINE b == Len(Boundary)
           x == Len(dash_boundary_crlf_)
           y == Len(crlf_dash_boundary_)
<1>9. b \in Nat
  BY <1>1, LenProperties
<1>10. x = (2 + b) + 2 /\ y = (2 + 2) + b
  BY <1>2, <1>4, <1>5, <1>6, <1>7, <1>8
<1> HIDE DEF b, x, y
<1>11. x \in Nat \ {0} /\ y \in Nat \ {0}
  BY <1>9, <1>10
<1>12. dash_boundary_crlf_ # <<>> /\ crlf_dash_boundary_ # <<>>
  <2>1. Len(dash_boundary_crlf_) # 0 /\ Len(crlf_dash_boundary_) # 0
    BY <1>11 DEF x, y
  <2> QED
    BY <2>1, EmptySeq
<1> QED
  BY <1>2, <1>3, <1>6, <1>8, <1>11, <1>12 DEF x, y

\* Where a text stands its first character does.
LEMMA AtFirst ==
  ASSUME NEW t \in Seq(Characters), NEW i \in Nat, NEW s \in Seq(Characters), s # <<>>,
         At(t, i, s)
  PROVE  i + Len(s) <= Len(t) /\ t[i + 1] = s[1]
<1> DEFINE j == i + Len(s)
           n == Len(t)
<1>1. n \in Nat /\ Len(s) \in Nat \ {0} /\ j <= n
  BY EmptySeq, LenProperties DEF At
<1>2. i \in 0 .. n /\ j \in i .. n /\ j - i = Len(s) /\ 1 \in 1 .. j - i
  BY <1>1
<1>3. Piece(t, i, j) = s
  BY DEF At, Piece
<1> HIDE DEF j
<1>4. Piece(t, i, j)[1] = t[i + 1]
  BY <1>2, PieceType
<1> QED
  BY <1>1, <1>3, <1>4 DEF j

\* A line that is well formed is not the empty one, and ends behind its
\* first character.
LEMMA FieldLine ==
  ASSUME NEW t \in Seq(Characters), NEW i \in Nat, FieldAt(t, i)
  PROVE  /\ t[i + 1] \in Fields /\ At(t, i + 1, crlf_) /\ ~At(t, i, crlf_)
         /\ i + 3 <= Len(t)
<1>1. t[i + 1] \in Fields /\ At(t, i + 1, crlf_)
  BY DEF FieldAt
<1>2. t[i + 1] # CR
  BY <1>1, MultipartAssumption
<1>3. ~At(t, i, crlf_)
  BY <1>2, AtFirst, Delimiters
<1>4. i + 1 + Len(crlf_) <= Len(t)
  BY <1>1 DEF At
<1>5. i + 1 + 2 <= Len(t)
  BY <1>4, Delimiters
<1> QED
  BY <1>1, <1>3, <1>5, LenProperties

\* The places of a message.
LEMMA Places ==
  ASSUME BufInv
  PROVE  /\ Len(message.parts) \in Nat /\ Len(message.places) \in Nat \ {0}
         /\ Len(message.places) \in {Len(message.parts), Len(message.parts) + 1}
         /\ message.start \in 1 .. Len(message.text)
         /\ message.stop \in 0 .. Len(message.text)
         /\ \A i \in 1 .. Len(message.parts) : message.parts[i] \in Taking
         /\ \A i \in 1 .. Len(message.places) :
               /\ message.places[i].head \in Nat /\ message.places[i].lines \in Nat
               /\ message.places[i].to \in Nat
               /\ BodyAt(message.places[i]) \in Nat
               /\ Behind(message.places[i]) \in Nat
               /\ \A j \in Nat : LineAt(message.places[i], j) \in Nat
               /\ \A j \in 0 .. message.places[i].lines - 1 :
                     FieldAt(message.text, LineAt(message.places[i], j))
<1>1. IsMessage(message)
  BY MultipartAssumption DEF BufInv
<1> DEFINE n == Len(message.parts)
           last == Len(message.places)
           Place == [head : Nat, lines : Nat, to : Nat]
<1>2. /\ message.parts \in Seq(Taking) /\ message.places \in Seq(Place)
      /\ last \in {n, n + 1} /\ last # 0
      /\ message.start \in 1 .. Len(message.text) /\ message.stop \in 0 .. Len(message.text)
      /\ \A i \in 1 .. last : \A j \in 0 .. message.places[i].lines - 1 :
            FieldAt(message.text, LineAt(message.places[i], j))
  BY <1>1 DEF IsMessage, Taking
<1>3. n \in Nat /\ last \in Nat
  BY <1>2, LenProperties
<1>4. \A i \in 1 .. n : message.parts[i] \in Taking
  BY <1>2, ElementOfSeq
<1>5. \A i \in 1 .. last : message.places[i] \in Place
  BY <1>2, ElementOfSeq
<1> HIDE DEF n, last
<1>6. ASSUME NEW i \in 1 .. last
      PROVE  /\ message.places[i].head \in Nat /\ message.places[i].lines \in Nat
             /\ message.places[i].to \in Nat
             /\ BodyAt(message.places[i]) \in Nat
             /\ Behind(message.places[i]) \in Nat
             /\ \A j \in Nat : LineAt(message.places[i], j) \in Nat
  <2> DEFINE p == message.places[i]
  <2>1. p.head \in Nat /\ p.lines \in Nat /\ p.to \in Nat
    BY <1>5
  <2> HIDE DEF p
  <2>2. \A j \in Nat : LineAt(p, j) \in Nat
    BY <2>1 DEF LineAt
  <2>3. BodyAt(p) \in Nat
    BY <2>1, <2>2 DEF BodyAt
  <2>4. Behind(p) \in Nat
    BY <2>1, Delimiters DEF Behind
  <2> QED
    BY <2>1, <2>2, <2>3, <2>4 DEF p
<1>7. last \in Nat \ {0} /\ last \in {n, n + 1}
  BY <1>2, <1>3
<1> QED
  BY <1>2, <1>3, <1>4, <1>6, <1>7 DEF n, last

\* The part that has a place.
LEMMA PartAt ==
  ASSUME BufInv, NEW c \in 1 .. Len(message.parts)
  PROVE  /\ c \in 1 .. Len(message.places)
         /\ IsPart(message.parts[c], message.places[c], message.text)
<1>1. IsMessage(message)
  BY MultipartAssumption DEF BufInv
<1>2. \A i \in 1 .. Len(message.parts) : IsPart(message.parts[i], message.places[i], message.text)
  BY <1>1 DEF IsMessage
<1> DEFINE n == Len(message.parts)
           last == Len(message.places)
<1>3. n \in Nat /\ last \in {n, n + 1} /\ c \in 1 .. n
  BY Places
<1> HIDE DEF n, last
<1>4. c \in 1 .. last
  BY <1>3
<1> QED
  BY <1>2, <1>4 DEF last

\* What follows it.
LEMMA BehindPart ==
  ASSUME BufInv, NEW c \in 1 .. Len(message.parts)
  PROVE  \/ /\ c < Len(message.places)
            /\ Another(message.places[c], message.places[c + 1], message.text)
         \/ /\ c = Len(message.parts)
            /\ Closes(message.places[c], message) \/ BreaksOff(message.places[c], message)
<1>1. IsMessage(message)
  BY MultipartAssumption DEF BufInv
<1> DEFINE n == Len(message.parts)
           last == Len(message.places)
<1>2. /\ \A i \in 1 .. last - 1 : Another(message.places[i], message.places[i + 1], message.text)
      /\ last = n => Closes(message.places[n], message) \/ BreaksOff(message.places[n], message)
  BY <1>1 DEF IsMessage
<1>3. n \in Nat /\ last \in {n, n + 1} /\ c \in 1 .. n
  BY Places
<1> HIDE DEF n, last
<1>4. (c \in 1 .. last - 1 /\ c < last) \/ (c = n /\ last = n)
  BY <1>3
<1>5. CASE c \in 1 .. last - 1 /\ c < last
  BY <1>2, <1>5 DEF last
<1>6. CASE c = n /\ last = n
  BY <1>2, <1>6 DEF n
<1> QED
  BY <1>4, <1>5, <1>6

\* The place behind the parts, if there is one.
LEMMA OpenPlace ==
  ASSUME BufInv, NEW c \in Nat, Len(message.parts) < c, c <= Len(message.places)
  PROVE  message.stop = 0 /\ GoesWrong(message.places[c], message.text)
<1>1. IsMessage(message)
  BY MultipartAssumption DEF BufInv
<1> DEFINE n == Len(message.parts)
           last == Len(message.places)
<1>2. last = n + 1 => message.stop = 0 /\ GoesWrong(message.places[last], message.text)
  BY <1>1 DEF IsMessage
<1>3. n \in Nat /\ last \in {n, n + 1} /\ n < c /\ c <= last
  BY Places
<1> HIDE DEF n, last
<1>4. last = n + 1 /\ c = last
  BY <1>3
<1> QED
  BY <1>2, <1>4

\* A body ends with a delimiter, or with the text.
LEMMA BodyEnds ==
  ASSUME BufInv, NEW c \in 1 .. Len(message.parts)
  PROVE  /\ message.places[c].to \in BodyAt(message.places[c]) .. Len(message.text)
         /\ message.places[c].to \in Nat /\ BodyAt(message.places[c]) \in Nat
         /\ \/ At(message.text, message.places[c].to, crlf_dash_boundary_)
            \/ message.places[c].to = Len(message.text) /\ message.stop = 0
<1>1. IsPart(message.parts[c], message.places[c], message.text) /\ c \in 1 .. Len(message.places)
  BY PartAt
<1>2. message.places[c].to \in BodyAt(message.places[c]) .. Len(message.text)
  BY <1>1 DEF IsPart
<1>3. message.places[c].to \in Nat /\ BodyAt(message.places[c]) \in Nat
  BY <1>1, Places
<1>4. CASE Another(message.places[c], message.places[c + 1], message.text)
  BY <1>2, <1>3, <1>4 DEF Another
<1>5. CASE Closes(message.places[c], message)
  BY <1>2, <1>3, <1>5 DEF Closes
<1>6. CASE BreaksOff(message.places[c], message)
  BY <1>2, <1>3, <1>6 DEF BreaksOff
<1> QED
  BY <1>4, <1>5, <1>6, BehindPart

\* What stands behind a delimiter cannot be the CRLF and the end both.
LEMMA EitherOr ==
  ASSUME NEW t \in Seq(Characters), NEW i \in Nat
  PROVE  ~(At(t, i, crlf_) /\ At(t, i, dash_crlf_))
<1> SUFFICES ASSUME At(t, i, crlf_), At(t, i, dash_crlf_) PROVE FALSE
  OBVIOUS
<1>1. t[i + 1] = crlf_[1]
  BY AtFirst, Delimiters
<1>2. t[i + 1] = dash_crlf_[1]
  BY AtFirst, Delimiters
<1> QED
  BY <1>1, <1>2, Delimiters, MultipartAssumption

-----------------------------------------------------------------------------
(* Find and the parts of a message. *)

\* A line that is well formed and whole ends behind its first character; one
\* that is not whole is not found to end.
LEMMA LineIsFound ==
  ASSUME BufInv, FieldAt(message.text, Pos)
  PROVE  /\ (Find(crlf_) <= 2 /\ Find(crlf_) # 0) \/ buf = <<>>
         /\ Find(crlf_) < Len(buf) => Find(crlf_) = 1
         /\ Pos + 3 <= Fed => Find(crlf_) = 1
<1> DEFINE f == Find(crlf_)
           n == Len(buf)
<1>1. Pos \in Nat /\ Fed \in Nat /\ Pos <= Fed /\ n = Fed - Pos /\ message.text \in Seq(Characters)
  BY Buffer
<1>2. At(message.text, Pos + 1, crlf_) /\ ~At(message.text, Pos, crlf_)
  BY <1>1, FieldLine
<1>3. /\ f \in 0 .. n
      /\ f < n => At(message.text, Pos + f, crlf_) /\ Pos + f + 2 <= Fed
      /\ \A i \in Pos .. Fed - 2 : At(message.text, i, crlf_) => f <= i - Pos
  BY FindIs, Delimiters
<1> HIDE DEF f, n
<1>4. f < n => f # 0
  <2> SUFFICES ASSUME f = 0, f < n PROVE FALSE
    OBVIOUS
  <2>1. At(message.text, Pos + 0, crlf_) /\ Pos + 0 = Pos
    BY <1>1, <1>3
  <2> QED
    BY <1>2, <2>1
<1>5. Pos + 3 <= Fed => f <= 1
  <2> SUFFICES ASSUME Pos + 3 <= Fed PROVE f <= 1
    OBVIOUS
  <2>1. Pos + 1 \in Pos .. Fed - 2 /\ (Pos + 1) - Pos = 1
    BY <1>1
  <2> QED
    BY <1>2, <1>3, <2>1
<1>6. n = 0 => buf = <<>>
  BY EmptySeq DEF n, BufInv
<1>7. /\ (f <= 2 /\ f # 0) \/ n = 0
      /\ f < n => f = 1
      /\ Pos + 3 <= Fed => f = 1
  BY <1>1, <1>3, <1>4, <1>5
<1> QED
  BY <1>6, <1>7 DEF f, n

\* So is the empty line.
LEMMA EmptyLineIsFound ==
  ASSUME BufInv, At(message.text, Pos, crlf_)
  PROVE  /\ Find(crlf_) <= 2
         /\ Find(crlf_) < Len(buf) => Find(crlf_) = 0
         /\ Pos + 2 <= Fed => Find(crlf_) = 0
<1> DEFINE f == Find(crlf_)
           n == Len(buf)
<1>1. Pos \in Nat /\ Fed \in Nat /\ Pos <= Fed /\ n = Fed - Pos
  BY Buffer
<1>3. /\ f \in 0 .. n
      /\ f < n => At(message.text, Pos + f, crlf_) /\ Pos + f + 2 <= Fed
      /\ \A i \in Pos .. Fed - 2 : At(message.text, i, crlf_) => f <= i - Pos
  BY FindIs, Delimiters
<1> HIDE DEF f, n
<1>4. Pos + 2 <= Fed => f = 0
  BY <1>1, <1>3
<1>5. f <= 2 /\ (f < n => f = 0)
  BY <1>1, <1>3, <1>4
<1> QED
  BY <1>4, <1>5 DEF f, n

\* In a body, a delimiter is found only where the body ends, and there if
\* it is whole.
LEMMA DelimiterIsFound ==
  ASSUME BufInv, NEW c \in 1 .. Len(message.parts),
         Pos \in BodyAt(message.places[c]) .. message.places[c].to
  PROVE  /\ Find(crlf_dash_boundary_) < Len(buf) =>
               /\ Find(crlf_dash_boundary_) = message.places[c].to - Pos
               /\ At(message.text, message.places[c].to, crlf_dash_boundary_)
               /\ message.places[c].to + Len(crlf_dash_boundary_) <= Fed
         /\ Find(crlf_dash_boundary_) = Len(buf) =>
               Fed - Len(crlf_dash_boundary_) <= message.places[c].to
         /\ At(message.text, message.places[c].to, crlf_dash_boundary_)
            /\ message.places[c].to + Len(crlf_dash_boundary_) <= Fed
               => Find(crlf_dash_boundary_) < Len(buf)
<1> DEFINE f == Find(crlf_dash_boundary_)
           n == Len(buf)
           len == Len(crlf_dash_boundary_)
           to == message.places[c].to
           from == BodyAt(message.places[c])
           t == message.text
           max == Len(t)
<1>1. /\ Pos \in Nat /\ Fed \in Nat /\ Pos <= Fed /\ n = Fed - Pos
      /\ max \in Nat /\ Fed <= max /\ t \in Seq(Characters)
  BY Buffer
<1>2. /\ f \in 0 .. n
      /\ f < n => At(t, Pos + f, crlf_dash_boundary_) /\ Pos + f + len <= Fed
      /\ \A i \in Pos .. Fed - len : At(t, i, crlf_dash_boundary_) => f <= i - Pos
  BY FindIs, Delimiters
<1>3. /\ to \in from .. max /\ to \in Nat /\ from \in Nat
      /\ At(t, to, crlf_dash_boundary_) \/ to = max
  BY BodyEnds
<1>4. \A i \in from .. to - 1 : ~At(t, i, crlf_dash_boundary_)
  BY PartAt DEF IsPart
<1>5. len \in Nat /\ len # 0 /\ Pos \in from .. to
  BY Delimiters
<1> HIDE DEF f, n, len, to, from, t, max
<1>6. ASSUME f < n PROVE f = to - Pos /\ At(t, to, crlf_dash_boundary_) /\ to + len <= Fed
  <2>1. At(t, Pos + f, crlf_dash_boundary_) /\ Pos + f + len <= Fed /\ f \in Nat
    BY <1>1, <1>2, <1>6
  <2>2. ~(Pos + f \in from .. to - 1)
    BY <1>4, <2>1
  <2>3. Pos + f >= to
    BY <1>1, <1>3, <1>5, <2>1, <2>2
  <2>4. to + len <= Fed /\ to # max
    BY <1>1, <1>3, <1>5, <2>1, <2>3
  <2>5. At(t, to, crlf_dash_boundary_)
    BY <1>3, <2>4
  <2>6. to \in Pos .. Fed - len
    BY <1>1, <1>3, <1>5, <2>4
  <2>7. f <= to - Pos
    BY <1>2, <2>5, <2>6
  <2> QED
    BY <1>1, <1>3, <2>1, <2>3, <2>4, <2>5, <2>7
<1>7. ASSUME At(t, to, crlf_dash_boundary_), to + len <= Fed PROVE f < n
  <2>1. to \in Pos .. Fed - len
    BY <1>1, <1>3, <1>5, <1>7
  <2>2. f <= to - Pos
    BY <1>2, <1>7, <2>1
  <2> QED
    BY <1>1, <1>2, <1>3, <1>5, <1>7, <2>2
<1>8. ASSUME f = n PROVE Fed - len <= to
  <2>1. CASE to = max
    BY <1>1, <1>5, <2>1
  <2>2. CASE At(t, to, crlf_dash_boundary_)
    <3>1. ~(to + len <= Fed)
      BY <1>1, <1>2, <1>7, <1>8, <2>2
    <3> QED
      BY <1>1, <1>3, <1>5, <3>1
  <2> QED
    BY <1>3, <2>1, <2>2
<1> QED
  BY <1>6, <1>7, <1>8 DEF f, n, len, to, from, t, max

-----------------------------------------------------------------------------
(* The steps. *)

\* The content of a body goes to the part that was taken last.
LEMMA Delivering ==
  ASSUME BufInv, TypesInv, parts # <<>>, NEW n \in 0 .. Len(buf), Deliver(n)
  PROVE  /\ parts' \in Seq(Taking) /\ Len(parts') = Len(parts) /\ Len(parts) \in Nat \ {0}
         /\ \A i \in 1 .. Len(parts) : i < Len(parts) => parts'[i] = parts[i]
         /\ parts'[Len(parts)].header = parts[Len(parts)].header
         /\ parts'[Len(parts)].body =
               parts[Len(parts)].body \o Piece(message.text, Pos, Pos + n)
<1> DEFINE last == Len(parts)
           len == Len(buf)
           part == parts[last]
           chunk == SubSeq(buf, 1, n)
           more == [part EXCEPT !.body = @ \o chunk]
<1>1. parts \in Seq(Taking) /\ last \in Nat \ {0} /\ last \in 1 .. last
  BY EmptySeq, LenProperties DEF TypesInv
<1>2. part \in Taking
  BY <1>1, ElementOfSeq
<1>3. chunk = Piece(buf, 0, n)
  <2>1. 0 + 1 = 1
    OBVIOUS
  <2> QED
    BY <2>1, Zenon DEF Piece
<1>4. /\ message.text \in Seq(Characters)
      /\ Pos \in 0 .. Len(message.text) /\ Fed \in Pos .. Len(message.text)
      /\ len = Fed - Pos /\ len \in Nat /\ buf = Piece(message.text, Pos, Fed)
  BY Buffer
<1> HIDE DEF last, len, part, chunk
<1>5. n \in 0 .. len
  BY DEF len
<1>6. 0 \in 0 .. Fed - Pos /\ n \in 0 .. Fed - Pos
  BY <1>4, <1>5
<1>7. chunk = Piece(message.text, Pos, Pos + n)
  <2>1. Piece(Piece(message.text, Pos, Fed), 0, n) = Piece(message.text, Pos + 0, Pos + n)
    BY <1>4, <1>6, PieceOfPiece
  <2>2. Pos + 0 = Pos
    BY Buffer
  <2> QED
    BY <1>3, <1>4, <2>1, <2>2
<1>8. chunk \in Seq(Characters)
  <2>1. Pos \in Nat /\ Fed <= Len(message.text) /\ Len(message.text) \in Nat /\ Fed \in Nat
    BY Buffer
  <2>2. Pos + n \in Pos .. Len(message.text)
    <3> DEFINE max == Len(message.text)
    <3>1. max \in Nat /\ Fed <= max
      BY <2>1
    <3> HIDE DEF max
    <3> QED
      BY <1>6, <2>1, <3>1 DEF max
  <2> QED
    BY <1>4, <1>7, <2>2, PieceType
<1>9. part.body \in Seq(Characters) /\ part.header \in SUBSET Fields
  BY <1>2 DEF Taking
<1>10. part.body \o chunk \in Seq(Characters)
  BY <1>8, <1>9, ConcatProperties
<1>11. more \in Taking /\ more.header = part.header /\ more.body = part.body \o chunk
  BY <1>2, <1>10 DEF Taking
<1>12. parts' = [parts EXCEPT ![last] = more]
  BY DEF Deliver, last, part, chunk
<1> HIDE DEF more
<1>13. /\ parts' \in Seq(Taking) /\ Len(parts') = Len(parts)
       /\ \A i \in 1 .. Len(parts) : parts'[i] = IF i = last THEN more ELSE parts[i]
  <2>1. /\ [parts EXCEPT ![last] = more] \in Seq(Taking)
        /\ Len([parts EXCEPT ![last] = more]) = Len(parts)
        /\ \A i \in 1 .. Len(parts) :
              [parts EXCEPT ![last] = more][i] = IF i = last THEN more ELSE parts[i]
    BY <1>1, <1>11, ExceptSeq DEF last
  <2> QED
    BY <1>12, <2>1
<1>14. last = Len(parts)
  BY DEF last
<1>15. parts'[last] = more /\ \A i \in 1 .. last : i < last => parts'[i] = parts[i]
  BY <1>1, <1>13, <1>14
<1> QED
  BY <1>1, <1>7, <1>11, <1>13, <1>14, <1>15 DEF part

\* A step that takes nothing and says nothing moves nothing.
LEMMA Standing ==
  ASSUME BufInv, TypesInv, PlaceInv,
         UNCHANGED <<message, input, buf, state_, file_, parts, cuts>>,
         is_valid_' = is_valid_ \/ (is_valid_' = FALSE /\ state_ # 4),
         state_ # 0 \/ pc' = pc \/ buf = <<>>
  PROVE  PlaceInv'
<1>1. Pos' = Pos /\ Fed' = Fed
  BY NothingTaken
<1>2. buf = <<>> => Pos = Fed
  <2> SUFFICES ASSUME buf = <<>> PROVE Pos = Fed
    OBVIOUS
  <2>1. Len(buf) = 0
    BY EmptySeq
  <2> QED
    BY <2>1, Buffer
<1>3. ASSUME NEW k, PlacedAt(k) PROVE PlacedAt(k)'
  <2>1. Current(k)' = Current(k)
    BY DEF Current
  <2>2. is_valid_' => is_valid_
    OBVIOUS
  <2>3. AtStart'
    BY <1>1, <1>2, <1>3, Buffer DEF PlacedAt, AtStart
  <2>4. AtHead(k)'
    BY <1>1, <1>3, <2>1 DEF PlacedAt, AtHead
  <2>5. InHeader(k)'
    BY <1>1, <1>3, <2>1 DEF PlacedAt, InHeader, LineAt
  <2>6. InBody(k)'
    BY <1>1, <1>3, <2>1 DEF PlacedAt, InBody, BodyAt, LineAt, Piece
  <2>7. AtDelimiter(k)'
    <3>1. At(message.text, message.places[Current(k)].to, crlf_dash_boundary_)'
            <=> At(message.text, message.places[Current(k)].to, crlf_dash_boundary_)
      BY <2>1 DEF At, crlf_dash_boundary_, crlf_
    <3>2. Behind(message.places[Current(k)])' = Behind(message.places[Current(k)])
      BY <2>1 DEF Behind, crlf_dash_boundary_, crlf_
    <3>3. state_ = 4 => is_valid_' = is_valid_
      OBVIOUS
    <3> QED
      BY <1>1, <1>3, <2>1, <3>1, <3>2, <3>3 DEF PlacedAt, AtDelimiter
  <2>8. Current(k)' <= Len(message'.parts)
    BY <1>3, <2>1 DEF PlacedAt
  <2>9. \A i \in 1 .. Len(parts') :
           i < Len(parts') \/ state_' # 3 => parts'[i] = message'.parts[k + i]
    BY <1>3 DEF PlacedAt
  <2>10. is_valid_' => state_' = 4
    BY <1>3, <2>2 DEF PlacedAt
  <2> QED
    BY <2>3, <2>4, <2>5, <2>6, <2>7, <2>8, <2>9, <2>10 DEF PlacedAt
<1> QED
  BY <1>3 DEF PlaceInv

\* Nothing has been given to parse(): the parser is before the boundary.
LEMMA Start ==
  ASSUME Init
  PROVE  IInv
<1> DEFINE n == Len(message.text)
<1>1. message \in Messages /\ message.text \in Seq(Characters) /\ n \in Nat
  <2>1. IsMessage(message)
    BY MultipartAssumption DEF Init
  <2> QED
    BY <2>1, LenProperties DEF Init, IsMessage
<1>2. input = message.text /\ buf = <<>> /\ Len(buf) = 0
  BY EmptySeq DEF Init
<1>3. Fed = 0 /\ Pos = 0
  <2>1. Fed = n - n
    BY <1>2 DEF Fed
  <2>2. Pos = Fed - 0
    BY <1>2 DEF Pos
  <2> HIDE DEF n
  <2> QED
    BY <1>1, <2>1, <2>2
<1>4. BufInv
  <2>1. input = Piece(message.text, Fed, Len(message.text))
    BY <1>1, <1>2, <1>3, PieceWhole
  <2>2. Piece(message.text, 0, 0) = <<>>
    BY PieceEmpty
  <2>3. <<>> \in Seq(Characters)
    BY EmptySeq
  <2> HIDE DEF n
  <2>4. Len(input) <= Len(message.text) /\ Len(buf) <= Fed
    BY <1>1, <1>2, <1>3 DEF n
  <2> QED
    BY <1>1, <1>2, <1>3, <2>1, <2>2, <2>3, <2>4 DEF BufInv
<1>5. TypesInv
  <2>1. parts = <<>> /\ <<>> \in Seq(Taking)
    BY EmptySeq DEF Init
  <2> QED
    <3>1. parts \in Seq(Taking)
      BY <2>1
    <3>2. is_valid_ \in BOOLEAN /\ refused \in BOOLEAN
      BY Zenon DEF Init
    <3>3. state_ = 0 /\ pc = "idle" /\ cuts = {} /\ file_ = {}
      BY DEF Init
    <3> QED
      BY <3>1, <3>2, <3>3 DEF TypesInv
<1>6. PlaceInv
  <2>1. Len(parts) = 0 /\ parts = <<>>
    BY EmptySeq DEF Init
  <2>2. Len(message.parts) \in Nat
    BY <1>4, Places
  <2>3. Current(0) = 0
    BY <2>1 DEF Current
  <2>4. PlacedAt(0)
    BY <1>3, <2>1, <2>2, <2>3 DEF Init, PlacedAt, AtStart, AtHead, InHeader, InBody, AtDelimiter
  <2> QED
    BY <2>2, <2>4 DEF PlaceInv
<1>7. IdleInv
  BY DEF IdleInv, Init
<1>8. FailsForACause
  BY DEF FailsForACause, Init
<1> QED
  BY <1>4, <1>5, <1>6, <1>7, <1>8 DEF IInv

\* A chunk adds to the buffer's end only. One that cuts the start, or comes in
\* behind the end, is in cuts from then on.
LEMMA FeedStep ==
  ASSUME IInv, NEW n \in 1 .. Len(input), Feed(n)
  PROVE  IInv'
<1>1. BufInv' /\ Fed' = Fed + n /\ Pos' = Pos
  BY Fetched DEF IInv
<1>2. TypesInv'
  BY DEF IInv, TypesInv, Feed
<1>3. IdleInv' /\ FailsForACause'
  BY DEF Feed, IdleInv, FailsForACause
<1>4. PlaceInv'
  <2>1. SUFFICES ASSUME "end" \notin cuts'
                 PROVE  \E k \in 0 .. Len(message'.parts) : PlacedAt(k)' /\ ("start" \notin cuts' => k = 0)
    BY DEF PlaceInv
  <2>2. /\ cuts' = cuts \cup (IF Fed = 0 /\ n < message.start THEN {"start"} ELSE {})
                       \cup (IF message.stop \in 1 .. Fed THEN {"end"} ELSE {})
        /\ pc = "idle" /\ pc' = "loop"
        /\ UNCHANGED <<message, state_, is_valid_, file_, parts, refused>>
    BY DEF Feed, Fed
  <2>3. "end" \notin cuts /\ ~(message.stop \in 1 .. Fed) /\ cuts \subseteq cuts'
    BY <2>1, <2>2
  <2>4. PICK k \in 0 .. Len(message.parts) : PlacedAt(k) /\ ("start" \notin cuts => k = 0)
    BY <2>3 DEF IInv, PlaceInv
  <2>5. Current(k)' = Current(k)
    BY <2>2 DEF Current
  <2>6. AtStart'
    <3>1. ASSUME state_ = 0, "start" \notin cuts' PROVE Pos = 0 /\ Fed + n >= message.start
      <4>1. AtStart
        BY <2>4 DEF PlacedAt
      <4>2. "start" \notin cuts
        BY <2>3, <3>1
      <4>3. Fed = 0
        BY <2>2, <3>1, <4>1, <4>2 DEF AtStart
      <4>4. ~(n < message.start) /\ message.start \in Nat
        BY <2>2, <3>1, <4>3, Places DEF IInv
      <4>5. Pos = 0
        BY <4>3, Buffer DEF IInv
      <4> QED
        BY <4>3, <4>4, <4>5
    <3>2. state_ = 0 => parts = <<>>
      BY <2>4 DEF PlacedAt, AtStart
    <3> QED
      BY <1>1, <2>2, <3>1, <3>2 DEF AtStart
  <2>7. AtHead(k)'
    BY <1>1, <2>2, <2>4, <2>5 DEF PlacedAt, AtHead
  <2>8. InHeader(k)'
    BY <1>1, <2>2, <2>4, <2>5 DEF PlacedAt, InHeader, LineAt
  <2>9. InBody(k)'
    BY <1>1, <2>2, <2>4, <2>5 DEF PlacedAt, InBody, BodyAt, LineAt, Piece
  <2>10. AtDelimiter(k)'
    BY <1>1, <2>2, <2>3, <2>4, <2>5
       DEF PlacedAt, AtDelimiter, At, Behind, crlf_dash_boundary_, crlf_
  <2>11. PlacedAt(k)'
    BY <2>2, <2>4, <2>5, <2>6, <2>7, <2>8, <2>9, <2>10 DEF PlacedAt
  <2> QED
    BY <2>2, <2>3, <2>4, <2>11
<1> QED
  BY <1>1, <1>2, <1>3, <1>4 DEF IInv

\* An empty buffer has no line, no delimiter and no end.
LEMMA ParseReturnsStep ==
  ASSUME IInv, ParseReturns
  PROVE  IInv'
<1>1. BufInv' /\ Fed' = Fed /\ Pos' = Pos
  BY NothingTaken DEF IInv, ParseReturns
<1>2. TypesInv'
  BY DEF IInv, TypesInv, ParseReturns
<1>3. PlaceInv'
  BY Standing DEF IInv, ParseReturns
<1>4. FailsForACause'
  BY DEF FailsForACause, ParseReturns
<1>5. IdleInv'
  <2>1. buf' = <<>> /\ Len(buf') = 0
    BY EmptySeq DEF ParseReturns
  <2>2. BufInv
    BY DEF IInv
  <2>3. Find(crlf_) \in 0 .. Len(buf) /\ Find(crlf_dash_boundary_) \in 0 .. Len(buf)
    BY <2>2, FindIs, Delimiters
  <2>4. Len(buf) = 0 /\ buf = <<>> /\ buf' = buf
    BY <2>1 DEF ParseReturns
  <2>5. Find(crlf_) = 0 /\ Find(crlf_dash_boundary_) = 0
    BY <2>3, <2>4
  <2>6. Find(crlf_)' = Find(crlf_) /\ Find(crlf_dash_boundary_)' = Find(crlf_dash_boundary_)
    BY <2>4 DEF Find, crlf_, crlf_dash_boundary_
  <2>7. ~StartsWith(crlf_)'
    <3>1. ~(Pos + Len(crlf_) <= Fed)
      BY <2>2, <2>4, Buffer, Delimiters
    <3>2. ~StartsWith(crlf_)
      BY <2>2, <3>1, StartsWithIs, Delimiters
    <3> QED
      BY <2>4, <3>2 DEF StartsWith, crlf_
  <2>8. ~Closed'
    <3>1. ~(Pos + Len(dash_crlf_) <= Fed)
      BY <2>2, <2>4, Buffer, Delimiters
    <3>2. ~StartsWith(dash_crlf_)
      BY <2>2, <3>1, StartsWithIs, Delimiters
    <3> QED
      BY <2>4, <3>2 DEF Closed, StartsWith, dash_crlf_
  <2> QED
    BY <2>1, <2>4, <2>5, <2>6, <2>7, <2>8 DEF IdleInv
<1> QED
  BY <1>1, <1>2, <1>3, <1>4, <1>5 DEF IInv

\* If the boundary came whole it is found where it is. Otherwise it, or a
\* delimiter that looks like it, is: a header begins behind that, too.
LEMMA InitialBoundaryStep ==
  ASSUME IInv, InitialBoundary
  PROVE  IInv'
<1> DEFINE d == dash_boundary_crlf_
           len == Len(dash_boundary_crlf_)
           f == Find(dash_boundary_crlf_)
           n == Len(buf)
           rest == From(Find(dash_boundary_crlf_))
           left == Len(From(Find(dash_boundary_crlf_)))
           t == message.text
<1>1. BufInv /\ pc = "loop" /\ buf # <<>> /\ state_ = 0
  BY DEF IInv, InitialBoundary, Turn
<1>2. /\ UNCHANGED <<message, input, is_valid_, file_, parts, refused, cuts>>
      /\ \/ len > left /\ buf' = rest /\ pc' = "idle" /\ state_' = 0
         \/ ~(len > left) /\ buf' = SubSeq(rest, len + 1, left) /\ pc' = pc /\ state_' = 1
  BY <1>1 DEF InitialBoundary
<1>3. /\ n \in Nat /\ n = Fed - Pos /\ Fed \in Nat /\ Pos \in Nat
      /\ t \in Seq(Characters) /\ Pos \in 0 .. Len(t) /\ Fed \in Pos .. Len(t)
      /\ buf = Piece(t, Pos, Fed)
  BY <1>1, Buffer
<1>4. n # 0
  BY <1>1, EmptySeq DEF BufInv
<1>5. /\ f \in 0 .. n
      /\ f < n => At(t, Pos + f, d) /\ Pos + f + len <= Fed
      /\ \A i \in Pos .. Fed - len : At(t, i, d) => f <= i - Pos
  BY <1>1, FindIs, Delimiters
<1>6. len \in Nat /\ len # 0
  BY Delimiters
<1>7. rest = Piece(buf, f, n)
  BY DEF From, Piece
<1>8. rest \in Seq(Characters) /\ left = n - f
  <2>1. n \in f .. n
    <3> HIDE DEF n, f
    <3> QED
      BY <1>3, <1>5
  <2> QED
    BY <1>1, <1>5, <1>7, <2>1, PieceType, ZenonT(40) DEF BufInv
<1>9. PICK first \in Nat : /\ first = message.start - len /\ At(t, first, d)
                           /\ \A i \in 0 .. first - 1 : ~At(t, i, d)
  <2>1. IsMessage(message)
    BY <1>1, MultipartAssumption DEF BufInv
  <2>2. message.start \in Nat
    BY <1>1, Places
  <2> DEFINE g == message.start - len
  <2>3. g >= 0 /\ At(t, g, d) /\ \A i \in 0 .. g - 1 : ~At(t, i, d)
    BY <2>1 DEF IsMessage
  <2>4. g \in Nat
    <3> HIDE DEF len
    <3> QED
      BY <1>6, <2>2, <2>3
  <2> QED
    BY <2>3, <2>4
<1>10. \A i \in 0 .. Len(t) : At(t, i, d) =>
          \E p \in 1 .. Len(message.places) : message.places[p].head = i + len
  <2>1. IsMessage(message)
    BY <1>1, MultipartAssumption DEF BufInv
  <2> QED
    BY <2>1 DEF IsMessage
<1>11. message.start \in Nat /\ message.start = first + len
  <2>1. message.start \in Nat
    BY <1>1, Places
  <2> HIDE DEF len
  <2> QED
    BY <1>6, <1>9, <2>1
<1> HIDE DEF f, n, d, len, rest, left
\* The boundary, if it came whole, is found where it is.
<1>12. ASSUME Pos = 0, Fed >= message.start PROVE f <= first
  <2>1. first \in Pos .. Fed - len /\ first - Pos = first
    BY <1>3, <1>6, <1>9, <1>11, <1>12
  <2> QED
    BY <1>5, <1>9, <2>1
<1>13. TypesInv'
  <2>1. TypesInv /\ pc' \in {"idle", "loop"} /\ state_' \in 0 .. 1
    BY <1>1, <1>2 DEF IInv
  <2> QED
    BY <1>2, <2>1 DEF TypesInv
<1>14. FailsForACause'
  BY <1>1, <1>2 DEF FailsForACause
<1>15. CASE len > left /\ buf' = rest /\ pc' = "idle" /\ state_' = 0
  <2>1. BufInv' /\ Fed' = Fed
    BY <1>1, <1>2, <1>5, <1>15, Taken DEF f, n, rest
  <2>2. IdleInv'
    BY <1>15 DEF IdleInv
  <2>3. ASSUME NEW k, PlacedAt(k) PROVE PlacedAt(k)'
    <3>1. Current(k)' = Current(k)
      BY <1>2 DEF Current
    <3>2. AtStart'
      <4>1. AtStart
        BY <2>3 DEF PlacedAt
      <4>2. Fed # 0
        BY <1>3, <1>4
      <4>3. ~(Pos = 0 /\ Fed >= message.start)
        BY <1>3, <1>5, <1>6, <1>8, <1>11, <1>12, <1>15
      <4>4. "start" \in cuts /\ parts = <<>>
        BY <1>1, <4>1, <4>2, <4>3 DEF AtStart
      <4> QED
        BY <1>2, <4>4 DEF AtStart
    <3>3. AtHead(k)' /\ InHeader(k)' /\ InBody(k)' /\ AtDelimiter(k)'
      BY <1>15 DEF AtHead, InHeader, InBody, AtDelimiter
    <3> QED
      BY <1>1, <1>2, <1>15, <2>3, <3>1, <3>2, <3>3 DEF PlacedAt
  <2>4. PlaceInv'
    BY <1>2, <2>3 DEF IInv, PlaceInv
  <2> QED
    BY <1>13, <1>14, <2>1, <2>2, <2>4 DEF IInv
<1>16. CASE ~(len > left) /\ buf' = SubSeq(rest, len + 1, left) /\ pc' = pc /\ state_' = 1
  <2>1. f < n /\ f + len \in 0 .. n /\ f \in Nat
    BY <1>3, <1>5, <1>6, <1>8, <1>16
  <2>2. At(t, Pos + f, d) /\ Pos + f + len <= Fed
    BY <1>5, <2>1
  <2>3. buf' = From(f + len)
    <3> DEFINE whole == Piece(t, Pos, Fed)
    <3>1. buf' = Piece(rest, len, left)
      BY <1>16 DEF Piece
    <3>2. whole = buf /\ rest = Piece(whole, f, n)
      BY <1>3, <1>7
    <3> HIDE DEF whole
    <3>3. n = Len(buf)
      BY DEF n
    <3>4. /\ f \in 0 .. Len(buf) /\ n \in f .. Len(buf)
          /\ len \in 0 .. n - f /\ left \in len .. n - f
      BY <1>3, <1>5, <1>6, <1>8, <1>16, <3>3
    <3>5. Piece(Piece(buf, f, n), len, left) = Piece(buf, f + len, f + left)
      BY <1>1, <3>4, PieceOfPiece DEF BufInv
    <3>6. f + left = n
      BY <1>3, <1>5, <1>8
    <3>7. buf' = Piece(buf, f + len, n)
      BY <3>1, <3>2, <3>5, <3>6
    <3> QED
      BY <3>3, <3>7 DEF Piece, From
  <2>4. BufInv' /\ Fed' = Fed /\ Pos' = Pos + (f + len)
    BY <1>1, <1>2, <2>1, <2>3, Taken DEF n
  <2>5. IdleInv'
    BY <1>1, <1>16 DEF IdleInv
  <2>6. PlaceInv'
    <3> DEFINE last == Len(message.places)
               count == Len(message.parts)
    <3> SUFFICES ASSUME "end" \notin cuts
                 PROVE  \E k \in 0 .. count : PlacedAt(k)' /\ ("start" \notin cuts => k = 0)
      BY <1>2 DEF PlaceInv
    <3>1. PICK k \in 0 .. count : PlacedAt(k) /\ ("start" \notin cuts => k = 0)
      BY DEF IInv, PlaceInv
    <3>2. parts = <<>> /\ Len(parts) = 0 /\ parts' = <<>> /\ Len(parts') = 0
      BY <1>1, <1>2, <3>1, EmptySeq DEF PlacedAt, AtStart
    <3>3. count \in Nat /\ last \in {count, count + 1} /\ last \in Nat
      BY <1>1, Places
    <3>4. ASSUME NEW p \in 1 .. last, message.places[p].head = Pos'
          PROVE  PlacedAt(p - 1)'
      <4>1. p - 1 \in 0 .. count /\ p - 1 \in Nat /\ p - 1 < last /\ (p - 1) + 1 = p /\ (p - 1) + 0 = p - 1
        <5> HIDE DEF last, count
        <5> QED
          BY <3>3
      <4>2. Current(p - 1)' = p - 1
        BY <3>2, <4>1 DEF Current
      <4>3. AtHead(p - 1)'
        BY <1>2, <3>4, <4>1, <4>2 DEF AtHead
      <4>4. AtStart' /\ InHeader(p - 1)' /\ InBody(p - 1)' /\ AtDelimiter(p - 1)'
        BY <1>16 DEF AtStart, InHeader, InBody, AtDelimiter
      <4>5. is_valid_' => state_' = 4
        BY <1>1, <1>2, <3>1 DEF PlacedAt
      <4>6. p - 1 <= Len(message'.parts)
        BY <1>2, <4>1
      <4>7. \A i \in 1 .. Len(parts') :
               i < Len(parts') \/ state_' # 3 => parts'[i] = message'.parts[(p - 1) + i]
        BY <3>2
      <4> QED
        BY <4>2, <4>3, <4>4, <4>5, <4>6, <4>7 DEF PlacedAt
    <3>5. \E p \in 1 .. last : message.places[p].head = Pos' /\ ("start" \notin cuts => p = 1)
      <4>1. CASE "start" \in cuts
        <5>1. Pos + f \in 0 .. Len(t)
          <6> DEFINE max == Len(t)
          <6>1. max \in Nat /\ Fed <= max
            BY <1>1, Buffer
          <6> HIDE DEF max
          <6> QED
            BY <1>3, <1>6, <2>1, <2>2, <6>1 DEF max
        <5>2. PICK p \in 1 .. last : message.places[p].head = (Pos + f) + len
          BY <1>10, <2>2, <5>1
        <5>3. (Pos + f) + len = Pos'
          BY <1>3, <1>6, <2>1, <2>4
        <5> QED
          BY <4>1, <5>2, <5>3
      <4>2. CASE "start" \notin cuts
        <5>1. Fed # 0
          BY <1>3, <1>4
        <5>2. Pos = 0 /\ Fed >= message.start
          BY <1>1, <3>1, <4>2, <5>1 DEF PlacedAt, AtStart
        <5>3. f <= first
          BY <1>12, <5>2
        <5>4. Pos + f = f
          BY <2>1, <5>2
        <5>5. ~(f \in 0 .. first - 1)
          BY <1>9, <2>2, <5>4
        <5>6. f = first
          BY <1>9, <2>1, <5>3, <5>5
        <5>7. Pos' = message.start
          BY <1>6, <1>9, <1>11, <2>1, <2>4, <5>2, <5>6
        <5>8. message.places[1].head = message.start
          <6>1. IsMessage(message)
            BY <1>1, MultipartAssumption DEF BufInv
          <6> QED
            BY <6>1 DEF IsMessage
        <5>9. 1 \in 1 .. last
          <6>1. last \in Nat \ {0}
            BY <1>1, Places
          <6> HIDE DEF last
          <6> QED
            BY <6>1
        <5> QED
          BY <5>7, <5>8, <5>9
      <4> QED
        BY <4>1, <4>2
    <3>6. PICK p \in 1 .. last : message.places[p].head = Pos' /\ ("start" \notin cuts => p = 1)
      BY <3>5
    <3>7. PlacedAt(p - 1)'
      BY <3>4, <3>6
    <3>8. p - 1 \in 0 .. count /\ (p = 1 => p - 1 = 0)
      <4> HIDE DEF last, count
      <4> QED
        BY <3>3
    <3> QED
      BY <3>6, <3>7, <3>8
  <2> QED
    BY <1>13, <1>14, <2>4, <2>5, <2>6 DEF IInv
<1> QED
  BY <1>2, <1>15, <1>16

\* A header begins with no field set.
LEMMA NewEntryStep ==
  ASSUME IInv, NewEntry
  PROVE  IInv'
<1>1. BufInv /\ BufInv' /\ Pos' = Pos
  BY NothingTaken DEF IInv, NewEntry
<1>2. TypesInv'
  BY DEF IInv, TypesInv, NewEntry, Turn
<1>3. IdleInv' /\ FailsForACause'
  BY DEF IdleInv, FailsForACause, NewEntry, Turn
<1>4. /\ state_ = 1 /\ state_' = 2 /\ file_' = {}
      /\ UNCHANGED <<message, parts, is_valid_, cuts>>
  BY DEF NewEntry, Turn
<1>5. ASSUME NEW k \in 0 .. Len(message.parts), PlacedAt(k) PROVE PlacedAt(k)'
  <2> DEFINE place == message.places[Current(k) + 1]
  <2>1. Current(k)' = Current(k)
    BY <1>4 DEF Current
  <2>2. Current(k) < Len(message.places) /\ Pos = place.head
    BY <1>4, <1>5 DEF PlacedAt, AtHead
  <2>3. place.head \in Nat /\ place.lines \in Nat
    <3> DEFINE c == Current(k)
               last == Len(message.places)
    <3>1. c \in Nat
      <4>1. Len(parts) \in Nat /\ k \in Nat
        BY LenProperties, Places DEF IInv, TypesInv
      <4> QED
        BY <4>1 DEF Current
    <3>2. last \in Nat /\ c < last
      BY <1>1, <2>2, Places
    <3>3. c + 1 \in 1 .. last
      <4> HIDE DEF c, last
      <4> QED
        BY <3>1, <3>2
    <3> QED
      BY <1>1, <3>3, Places
  <2>4. LineAt(place, 0) = place.head
    BY <2>3 DEF LineAt
  <2>5. FieldsOf(message.text, place, 0) = {}
    <3>1. 0 .. 0 - 1 = {}
      OBVIOUS
    <3> QED
      BY <3>1 DEF FieldsOf
  <2>6. 0 \in 0 .. place.lines
    BY <2>3
  <2>7. InHeader(k)'
    <3> SUFFICES /\ Current(k) < Len(message.places)
                 /\ \E j \in 0 .. place.lines :
                       /\ Pos = LineAt(place, j)
                       /\ {} = FieldsOf(message.text, place, j)
      BY <1>1, <1>4, <2>1 DEF InHeader
    <3> QED
      BY <2>2, <2>4, <2>5, <2>6
  <2>8. AtStart' /\ AtHead(k)' /\ InBody(k)' /\ AtDelimiter(k)'
    BY <1>4 DEF AtStart, AtHead, InBody, AtDelimiter
  <2> QED
    BY <1>4, <1>5, <2>1, <2>7, <2>8 DEF PlacedAt
<1>6. PlaceInv'
  BY <1>4, <1>5 DEF IInv, PlaceInv
<1> QED
  BY <1>1, <1>2, <1>3, <1>6 DEF IInv

\* The callbacks got the parts up to a number.
LEMMA CurrentIs ==
  ASSUME BufInv, TypesInv, NEW k \in 0 .. Len(message.parts)
  PROVE  /\ Current(k) \in Nat /\ Len(parts) \in Nat
         /\ Current(k) < Len(message.places) => Current(k) + 1 \in 1 .. Len(message.places)
         /\ parts # <<>> /\ Current(k) <= Len(message.parts)
               => Current(k) \in 1 .. Len(message.parts)
<1> DEFINE l == Len(parts)
           n == Len(message.parts)
           last == Len(message.places)
           c == Current(k)
<1>1. l \in Nat /\ (parts # <<>> => l # 0)
  BY EmptySeq, LenProperties DEF TypesInv
<1>2. n \in Nat /\ last \in Nat /\ k \in 0 .. n
  BY Places
<1>3. c = k + l
  BY DEF Current
<1> HIDE DEF l, n, last, c
<1>4. /\ c \in Nat
      /\ c < last => c + 1 \in 1 .. last
      /\ parts # <<>> /\ c <= n => c \in 1 .. n
  BY <1>1, <1>2, <1>3
<1> QED
  BY <1>1, <1>4 DEF l, n, last, c

\* What stands where the parser is in a header.
LEMMA HeaderIs ==
  ASSUME BufInv, TypesInv, NEW k \in 0 .. Len(message.parts), PlacedAt(k), state_ = 2
  PROVE  /\ Current(k) + 1 \in 1 .. Len(message.places)
         /\ \E j \in 0 .. message.places[Current(k) + 1].lines :
               /\ Pos = LineAt(message.places[Current(k) + 1], j)
               /\ file_ = FieldsOf(message.text, message.places[Current(k) + 1], j)
               /\ \/ j < message.places[Current(k) + 1].lines /\ FieldAt(message.text, Pos)
                  \/ /\ j = message.places[Current(k) + 1].lines
                     /\ Current(k) + 1 \in 1 .. Len(message.parts)
                     /\ At(message.text, Pos, crlf_)
                  \/ /\ message.stop = 0
                     /\ ~FieldAt(message.text, Pos) /\ ~At(message.text, Pos, crlf_)
<1> DEFINE c == Current(k) + 1
           place == message.places[c]
           n == Len(message.parts)
           last == Len(message.places)
           lines == place.lines
<1>1. Current(k) \in Nat /\ Current(k) < last /\ c \in 1 .. last
  BY CurrentIs DEF PlacedAt, InHeader
<1>2. PICK j \in 0 .. lines : /\ Pos = LineAt(place, j)
                              /\ file_ = FieldsOf(message.text, place, j)
  BY DEF PlacedAt, InHeader
<1>3. lines \in Nat /\ \A i \in 0 .. lines - 1 : FieldAt(message.text, LineAt(place, i))
  BY <1>1, Places
<1>4. n \in Nat /\ last \in {n, n + 1}
  BY Places
<1>5. ASSUME j = lines, c \in 1 .. n PROVE At(message.text, Pos, crlf_)
  <2>1. IsPart(message.parts[c], message.places[c], message.text)
    BY <1>5, PartAt
  <2> QED
    BY <1>2, <1>5, <2>1 DEF IsPart
<1>6. ASSUME j = lines, ~(c \in 1 .. n)
      PROVE  message.stop = 0 /\ ~FieldAt(message.text, Pos) /\ ~At(message.text, Pos, crlf_)
  <2>1. c \in Nat /\ n < c /\ c <= last
    <3> HIDE DEF n, last
    <3> QED
      BY <1>1, <1>4, <1>6
  <2>2. message.stop = 0 /\ GoesWrong(message.places[c], message.text)
    BY <2>1, OpenPlace
  <2> QED
    BY <1>2, <1>6, <2>2 DEF GoesWrong
<1>7. j = lines \/ (j < lines /\ j \in 0 .. lines - 1)
  <2> HIDE DEF lines
  <2> QED
    BY <1>2, <1>3
<1>8. \/ j < lines /\ FieldAt(message.text, Pos)
      \/ j = lines /\ c \in 1 .. n /\ At(message.text, Pos, crlf_)
      \/ message.stop = 0 /\ ~FieldAt(message.text, Pos) /\ ~At(message.text, Pos, crlf_)
  BY <1>2, <1>3, <1>5, <1>6, <1>7
<1> QED
  BY <1>1, <1>2, <1>8

\* The header's first line, wherever the chunks are cut, is within the limit
\* unless the message is malformed.
LEMMA HeadersStep ==
  ASSUME IInv, Headers
  PROVE  IInv'
<1>1. BufInv /\ BufInv' /\ Pos' = Pos /\ TypesInv
  BY NothingTaken DEF IInv, Headers
<1>2. /\ state_ = 2 /\ pc' = IF Find(crlf_) > HeaderMax THEN "failed" ELSE "headers"
      /\ UNCHANGED <<message, input, buf, state_, is_valid_, file_, parts, refused, cuts>>
  BY DEF Headers, Turn
<1>3. TypesInv'
  BY <1>1, <1>2 DEF TypesInv
<1>4. IdleInv'
  BY <1>2 DEF IdleInv
<1>5. PlaceInv'
  BY <1>1, <1>2, Standing DEF IInv
<1>6. FailsForACause'
  <2> SUFFICES ASSUME Find(crlf_) > HeaderMax, "end" \notin cuts PROVE message.stop = 0
    BY <1>2 DEF FailsForACause
  <2>1. PICK k \in 0 .. Len(message.parts) : PlacedAt(k)
    BY DEF IInv, PlaceInv
  <2>2. HeaderMax \in Nat /\ HeaderMax >= 2
    BY MultipartAssumption
  <2>3. Find(crlf_) \in Nat /\ (buf = <<>> => Find(crlf_) = 0)
    <3>1. Find(crlf_) \in 0 .. Len(buf)
      BY <1>1, FindIs, Delimiters
    <3>2. Len(buf) \in Nat /\ (buf = <<>> => Len(buf) = 0)
      BY <1>1, EmptySeq, LenProperties DEF BufInv
    <3> QED
      BY <3>1, <3>2
  <2>4. FieldAt(message.text, Pos) => Find(crlf_) <= 2
    BY <1>1, <2>3, LineIsFound
  <2>5. At(message.text, Pos, crlf_) => Find(crlf_) <= 2
    BY <1>1, EmptyLineIsFound
  <2>6. ~FieldAt(message.text, Pos) /\ ~At(message.text, Pos, crlf_)
    BY <2>2, <2>3, <2>4, <2>5
  <2> QED
    BY <1>1, <1>2, <2>1, <2>6, HeaderIs
<1> QED
  BY <1>1, <1>3, <1>4, <1>5, <1>6 DEF IInv

\* A line that is not found in the buffer is waited for.
LEMMA HeaderMissingStep ==
  ASSUME IInv, HeaderMissing
  PROVE  IInv'
<1>1. BufInv /\ BufInv' /\ TypesInv
  BY NothingTaken DEF IInv, HeaderMissing
<1>2. /\ state_ = 2 /\ pc' = "idle" /\ Find(crlf_) = Len(buf)
      /\ UNCHANGED <<message, input, buf, state_, is_valid_, file_, parts, refused, cuts>>
  BY <1>1 DEF HeaderMissing, TypesInv
<1>3. TypesInv'
  BY <1>1, <1>2 DEF TypesInv
<1>4. Find(crlf_)' = Find(crlf_)
  BY <1>2 DEF Find, crlf_
<1>5. IdleInv'
  BY <1>2, <1>4 DEF IdleInv
<1>6. PlaceInv'
  BY <1>1, <1>2, Standing DEF IInv
<1>7. FailsForACause'
  BY <1>2 DEF FailsForACause
<1> QED
  BY <1>1, <1>3, <1>5, <1>6, <1>7 DEF IInv

\* A callback returned false.
LEMMA RefuseStep ==
  ASSUME IInv, Refuse, state_ \in {2, 3}
  PROVE  IInv'
<1>1. BufInv /\ BufInv' /\ TypesInv
  BY NothingTaken DEF IInv, Refuse
<1>2. TypesInv'
  BY <1>1 DEF Refuse, TypesInv
<1>3. IdleInv' /\ FailsForACause'
  BY DEF Refuse, IdleInv, FailsForACause
<1>4. PlaceInv'
  <2>1. state_ # 4 /\ state_ # 0 /\ PlaceInv
    BY DEF IInv
  <2> QED
    BY <1>1, <2>1, Standing, Zenon DEF Refuse
<1> QED
  BY <1>1, <1>2, <1>3, <1>4 DEF IInv

\* A line that is found is the one at the position: if it sets a field it is
\* well formed, and if it is refused it is not.
LEMMA HeaderLineStep ==
  ASSUME IInv, HeaderLine
  PROVE  IInv'
<1> DEFINE f == Find(crlf_)
           n == Len(buf)
           t == message.text
<1>1. BufInv /\ TypesInv
  BY DEF IInv
<1>2. state_ = 2 /\ f \in 1 .. n - 1 /\ UNCHANGED <<message, input, state_, parts, refused, cuts>>
  BY <1>1 DEF HeaderLine, TypesInv
<1>3. /\ n \in Nat /\ n = Fed - Pos /\ Fed \in Nat /\ Pos \in Nat
      /\ t \in Seq(Characters) /\ Pos \in 0 .. Len(t) /\ Fed \in Pos .. Len(t)
      /\ buf = Piece(t, Pos, Fed)
  BY <1>1, Buffer
<1>4. f < n /\ f # 0 /\ f \in 0 .. n /\ f \in Nat
  <2> HIDE DEF f, n
  <2> QED
    BY <1>2, <1>3
<1>5. At(t, Pos + f, crlf_) /\ Pos + f + 2 <= Fed
  BY <1>1, <1>4, FindIs, Delimiters
<1>6. SubSeq(buf, 1, f) = Piece(buf, 0, f) /\ 0 + 1 = 1
  <2>1. 0 + 1 = 1
    OBVIOUS
  <2> QED
    BY <2>1, Zenon DEF Piece
<1>7. Len(SubSeq(buf, 1, f)) = f /\ SubSeq(buf, 1, f)[1] = buf[1] /\ buf[1] = t[Pos + 1]
  <2>1. 0 \in 0 .. Len(buf) /\ f \in 0 .. Len(buf) /\ 1 \in 1 .. f - 0 /\ 0 + 1 = 1 /\ f - 0 = f
    <3> HIDE DEF f
    <3> QED
      BY <1>3, <1>4 DEF n
  <2>2. Len(Piece(buf, 0, f)) = f - 0 /\ \A i \in 1 .. f - 0 : Piece(buf, 0, f)[i] = buf[0 + i]
    BY <1>1, <2>1, PieceType DEF BufInv
  <2>3. \A i \in 1 .. Fed - Pos : Piece(t, Pos, Fed)[i] = t[Pos + i]
    BY <1>3, PieceType
  <2>4. 1 \in 1 .. Fed - Pos
    <3> HIDE DEF f, n
    <3> QED
      BY <1>3, <1>4
  <2>5. Piece(buf, 0, f)[1] = buf[1]
    BY <2>1, <2>2
  <2>6. buf[1] = t[Pos + 1]
    BY <1>3, <2>3, <2>4
  <2> QED
    BY <1>6, <2>1, <2>2, <2>5, <2>6
<1> HIDE DEF f, n
<1>8. CASE \E e \in Fields : SubSeq(buf, 1, f) = <<e>>
  <2>1. PICK e \in Fields : SubSeq(buf, 1, f) = <<e>>
    BY <1>8
  <2>2. Len(<<e>>) = 1 /\ <<e>>[1] = e
    OBVIOUS
  <2>3. f = 1 /\ buf[1] = e /\ t[Pos + 1] = e
    BY <1>7, <2>1, <2>2
  <2>4. buf' = From(3) /\ file_' = file_ \cup {t[Pos + 1]} /\ UNCHANGED <<pc, is_valid_>>
    BY <1>7, <1>8, <2>3 DEF HeaderLine, f
  <2>5. 3 \in 0 .. Len(buf)
    BY <1>3, <1>5, <2>3 DEF n
  <2>6. BufInv' /\ Fed' = Fed /\ Pos' = Pos + 3
    BY <1>1, <1>2, <2>4, <2>5, Taken
  <2>7. FieldAt(t, Pos)
    <3>1. Pos < Len(t)
      <4> DEFINE max == Len(t)
      <4>1. max \in Nat /\ Fed <= max
        BY <1>1, Buffer
      <4> HIDE DEF max
      <4> QED
        BY <1>3, <1>5, <2>3, <4>1 DEF max
    <3> QED
      BY <1>5, <2>3, <3>1 DEF FieldAt
  <2>8. TypesInv'
    <3>1. file_' \subseteq Fields
      BY <1>1, <2>3, <2>4 DEF TypesInv
    <3> QED
      BY <1>1, <1>2, <2>4, <3>1 DEF TypesInv
  <2>9. IdleInv' /\ FailsForACause'
    BY <2>4 DEF HeaderLine, IdleInv, FailsForACause
  <2>10. ASSUME NEW k \in 0 .. Len(message.parts), PlacedAt(k) PROVE PlacedAt(k)'
    <3> DEFINE place == message.places[Current(k) + 1]
               lines == place.lines
    <3>1. Current(k)' = Current(k)
      BY <1>2 DEF Current
    <3>2. /\ Current(k) + 1 \in 1 .. Len(message.places)
          /\ \E j \in 0 .. lines :
                /\ Pos = LineAt(place, j)
                /\ file_ = FieldsOf(t, place, j)
                /\ \/ j < lines /\ FieldAt(t, Pos)
                   \/ At(t, Pos, crlf_)
                   \/ ~FieldAt(t, Pos)
      BY <1>1, <1>2, <2>10, HeaderIs
    <3>3. ~At(t, Pos, crlf_)
      BY <1>3, <2>7, FieldLine
    <3>4. PICK j \in 0 .. lines : /\ Pos = LineAt(place, j)
                                  /\ file_ = FieldsOf(t, place, j)
                                  /\ j < lines
      BY <2>7, <3>2, <3>3
    <3>5. lines \in Nat /\ place.head \in Nat
      BY <1>1, <3>2, Places
    <3> HIDE DEF lines
    <3>6. j \in Nat /\ j + 1 \in 0 .. lines
      BY <3>4, <3>5
    <3>7. Pos' = LineAt(place, j + 1)
      BY <2>6, <3>4, <3>5, <3>6 DEF LineAt
    <3>8. file_' = FieldsOf(t, place, j + 1)
      <4>1. 0 .. (j + 1) - 1 = (0 .. j - 1) \cup {j}
        BY <3>6
      <4>2. FieldsOf(t, place, j + 1) = FieldsOf(t, place, j) \cup {t[LineAt(place, j) + 1]}
        BY <4>1 DEF FieldsOf
      <4> QED
        BY <2>4, <3>4, <4>2
    <3>9. Current(k) < Len(message.places)
      BY <1>2, <2>10 DEF PlacedAt, InHeader
    <3>10. InHeader(k)'
      BY <1>2, <3>1, <3>6, <3>7, <3>8, <3>9 DEF InHeader, lines
    <3>11. AtStart' /\ AtHead(k)' /\ InBody(k)' /\ AtDelimiter(k)'
      BY <1>2 DEF AtStart, AtHead, InBody, AtDelimiter
    <3> QED
      BY <1>2, <2>4, <2>10, <3>1, <3>10, <3>11 DEF PlacedAt
  <2>11. PlaceInv'
    BY <1>2, <2>10 DEF IInv, PlaceInv
  <2> QED
    BY <2>6, <2>8, <2>9, <2>11 DEF IInv
<1>9. CASE ~\E e \in Fields : SubSeq(buf, 1, f) = <<e>>
  <2>1. pc' = "failed" /\ is_valid_' = FALSE /\ UNCHANGED <<buf, file_>>
    BY <1>9 DEF HeaderLine, f
  <2>2. BufInv'
    BY <1>1, <1>2, <2>1, NothingTaken
  <2>3. TypesInv'
    BY <1>1, <1>2, <2>1 DEF TypesInv
  <2>4. IdleInv'
    BY <2>1 DEF IdleInv
  <2>5. PlaceInv'
    <3>1. state_ # 4 /\ state_ # 0 /\ PlaceInv
      BY <1>2 DEF IInv
    <3> QED
      BY <1>1, <1>2, <2>1, <3>1, Standing, Zenon
  <2>6. FailsForACause'
    <3> SUFFICES ASSUME "end" \notin cuts PROVE message.stop = 0
      BY <1>2 DEF FailsForACause
    <3>1. PICK k \in 0 .. Len(message.parts) : PlacedAt(k)
      BY DEF IInv, PlaceInv
    <3>2. ~At(t, Pos, crlf_)
      <4>1. At(t, Pos, crlf_) => Find(crlf_) = 0
        BY <1>1, <1>4, EmptyLineIsFound DEF f, n
      <4> QED
        BY <1>4, <4>1 DEF f
    <3>3. ~FieldAt(t, Pos)
      <4> SUFFICES ASSUME FieldAt(t, Pos) PROVE FALSE
        OBVIOUS
      <4>1. f = 1
        BY <1>1, <1>4, LineIsFound DEF f, n
      <4>2. t[Pos + 1] \in Fields
        BY DEF FieldAt
      <4>3. SubSeq(buf, 1, f) = <<t[Pos + 1]>>
        <5> DEFINE s == SubSeq(buf, 1, f)
                   r == <<t[Pos + 1]>>
        <5>1. 0 \in 0 .. Len(buf) /\ f \in 0 .. Len(buf)
          BY <1>3, <1>4 DEF n
        <5>2. s \in Seq(Characters)
          BY <1>1, <1>6, <5>1, PieceType DEF BufInv
        <5>3. t[Pos + 1] \in Characters
          BY <4>2, MultipartAssumption
        <5>4. r \in Seq(Characters) /\ Len(r) = 1 /\ r[1] = t[Pos + 1]
          BY <5>3
        <5>5. Len(s) = 1 /\ s[1] = t[Pos + 1]
          BY <1>7, <4>1
        <5> HIDE DEF s, r
        <5>6. Len(s) = Len(r) /\ \A i \in 1 .. Len(s) : s[i] = r[i]
          BY <5>4, <5>5
        <5>7. s = r
          BY <5>2, <5>4, <5>6, SeqEqual
        <5> QED
          BY <5>7 DEF s, r
      <4> QED
        BY <1>9, <4>2, <4>3
    <3> QED
      BY <1>1, <1>2, <3>1, <3>2, <3>3, HeaderIs
  <2> QED
    BY <2>2, <2>3, <2>4, <2>5, <2>6 DEF IInv
<1> QED
  BY <1>8, <1>9

\* The empty line ends the header of a part of the message, whose fields have
\* all been set.
LEMMA HeaderEndStep ==
  ASSUME IInv, NEW verdict, HeaderEnd(verdict)
  PROVE  IInv'
<1> DEFINE n == Len(buf)
           t == message.text
           header == [header |-> file_, body |-> <<>>]
<1>1. BufInv /\ TypesInv
  BY DEF IInv
<1>2. state_ = 2 /\ buf # <<>> /\ Find(crlf_) = 0
  BY <1>1 DEF HeaderEnd, TypesInv
<1>3. CASE ~verdict
  BY <1>2, <1>3, RefuseStep DEF HeaderEnd
<1>4. CASE verdict
  <2>1. /\ parts' = Append(parts, header) /\ buf' = From(2) /\ state_' = 3 /\ pc' = "loop"
        /\ UNCHANGED <<message, input, is_valid_, file_, refused, cuts>>
    BY <1>4 DEF HeaderEnd
  <2>2. n \in Nat /\ n # 0 /\ n = Fed - Pos /\ Fed \in Nat /\ Pos \in Nat /\ t \in Seq(Characters)
    BY <1>1, <1>2, EmptySeq, Buffer DEF BufInv
  <2>3. At(t, Pos, crlf_) /\ Pos + 2 <= Fed
    <3>1. At(t, Pos + 0, crlf_) /\ Pos + 0 + 2 <= Fed
      <4>1. 0 < n
        <5> HIDE DEF n
        <5> QED
          BY <2>2
      <4> QED
        BY <1>1, <1>2, <4>1, FindIs, Delimiters
    <3>2. Pos + 0 = Pos
      BY <2>2
    <3> QED
      BY <3>1, <3>2
  <2>4. BufInv' /\ Fed' = Fed /\ Pos' = Pos + 2
    <3>1. 2 \in 0 .. Len(buf)
      BY <2>2, <2>3
    <3> QED
      BY <1>1, <2>1, <3>1, Taken
  <2>5. header \in Taking
    <3>1. file_ \in SUBSET Fields /\ <<>> \in Seq(Characters)
      BY <1>1, EmptySeq DEF TypesInv
    <3> QED
      BY <3>1 DEF Taking
  <2> HIDE DEF header
  <2>6. /\ parts \in Seq(Taking) /\ parts' \in Seq(Taking) /\ Len(parts') = Len(parts) + 1
        /\ Len(parts) \in Nat /\ parts' # <<>>
        /\ \A i \in 1 .. Len(parts) : parts'[i] = parts[i]
        /\ parts'[Len(parts')] = header
    <3>1. parts \in Seq(Taking) /\ Len(parts) \in Nat
      BY <1>1, LenProperties DEF TypesInv
    <3>2. /\ Append(parts, header) \in Seq(Taking)
          /\ Len(Append(parts, header)) = Len(parts) + 1
          /\ \A i \in 1 .. Len(parts) : Append(parts, header)[i] = parts[i]
          /\ Append(parts, header)[Len(parts) + 1] = header
          /\ Append(parts, header) # <<>>
      BY <2>5, <3>1, AppendProperties
    <3> QED
      BY <2>1, <3>1, <3>2, Zenon
  <2>7. TypesInv'
    <3>1. is_valid_' \in BOOLEAN /\ refused' \in BOOLEAN
      BY <1>1, <2>1, Zenon DEF TypesInv
    <3>2. cuts' \subseteq {"start", "end"} /\ file_' \subseteq Fields
      BY <1>1, <2>1 DEF TypesInv
    <3> QED
      BY <2>1, <2>6, <3>1, <3>2 DEF TypesInv
  <2>8. IdleInv' /\ FailsForACause'
    BY <2>1 DEF IdleInv, FailsForACause
  <2>9. ASSUME NEW k \in 0 .. Len(message.parts), PlacedAt(k) PROVE PlacedAt(k)'
    <3> DEFINE c == Current(k) + 1
               place == message.places[c]
               part == message.parts[c]
    <3>1. PICK j \in 0 .. place.lines :
             /\ c \in 1 .. Len(message.places) /\ Pos = LineAt(place, j)
             /\ file_ = FieldsOf(t, place, j)
             /\ j = place.lines /\ c \in 1 .. Len(message.parts)
      <4>1. FieldAt(t, Pos) => ~At(t, Pos, crlf_)
        BY <2>2, FieldLine
      <4> QED
        BY <1>1, <1>2, <2>3, <2>9, <4>1, HeaderIs
    <3>2. Len(parts') \in Nat /\ Len(parts) \in Nat /\ Current(k) = k + Len(parts)
          /\ k + Len(parts') = c /\ Current(k)' = c /\ k \in Nat
      <4> DEFINE l == Len(parts)
                 m == Len(parts')
      <4>1. l \in Nat /\ m = l + 1 /\ k \in Nat
        BY <1>1, <2>6, Places
      <4>2. Current(k) = k + l /\ Current(k)' = k + m
        BY DEF Current
      <4> HIDE DEF l, m
      <4>3. k + m = (k + l) + 1 /\ m \in Nat
        BY <4>1
      <4> QED
        BY <4>1, <4>2, <4>3 DEF l, m
    <3>3. IsPart(part, place, t) /\ part \in Taking
      BY <1>1, <3>1, PartAt, Places
    <3> HIDE DEF c
    <3>4. part.header = file_
      BY <3>1, <3>3 DEF IsPart, FieldsOf
    <3>5. BodyAt(place) = Pos' /\ BodyAt(place) \in Nat
      <4>1. BodyAt(place) = Pos + 2
        BY <3>1 DEF BodyAt
      <4> QED
        BY <2>2, <2>4, <4>1
    <3>6. place.to \in BodyAt(place) .. Len(t)
      BY <3>3 DEF IsPart
    <3>7. Pos' \in BodyAt(place) .. place.to
      BY <1>1, <3>5, <3>6, Buffer
    <3>8. parts'[Len(parts')].body = Piece(t, BodyAt(place), Pos')
      <4>1. Piece(t, Pos', Pos') = <<>>
        <5>1. Pos' \in Int
          BY <3>5
        <5> QED
          BY <5>1, PieceEmpty
      <4> QED
        BY <2>6, <3>5, <4>1 DEF header
    <3>9. parts'[Len(parts')].header = part.header
      BY <2>6, <3>4 DEF header
    <3>10. InBody(k)'
      BY <2>1, <3>2, <3>7, <3>8, <3>9 DEF InBody
    <3>11. AtStart' /\ AtHead(k)' /\ InHeader(k)' /\ AtDelimiter(k)'
      BY <2>1 DEF AtStart, AtHead, InHeader, AtDelimiter
    <3>12. Current(k)' <= Len(message'.parts)
      BY <1>1, <2>1, <3>1, <3>2, Places
    <3>13. \A i \in 1 .. Len(parts') :
              i < Len(parts') \/ state_' # 3 => parts'[i] = message'.parts[k + i]
      <4> SUFFICES ASSUME NEW i \in 1 .. Len(parts'), i < Len(parts')
                   PROVE  parts'[i] = message.parts[k + i]
        BY <2>1
      <4>1. i \in 1 .. Len(parts)
        <5> DEFINE l == Len(parts)
                   m == Len(parts')
        <5>1. l \in Nat /\ m = l + 1 /\ i \in 1 .. m /\ i < m
          BY <2>6
        <5> HIDE DEF l, m
        <5>2. i \in 1 .. l
          BY <5>1
        <5> QED
          BY <5>2 DEF l
      <4>2. parts[i] = message.parts[k + i]
        BY <1>2, <2>9, <4>1 DEF PlacedAt
      <4> QED
        BY <2>6, <4>1, <4>2
    <3>14. is_valid_' => state_' = 4
      BY <1>2, <2>1, <2>9 DEF PlacedAt
    <3> QED
      BY <3>10, <3>11, <3>12, <3>13, <3>14 DEF PlacedAt
  <2>10. PlaceInv'
    BY <2>1, <2>9 DEF IInv, PlaceInv
  <2> QED
    BY <2>4, <2>7, <2>8, <2>10 DEF IInv
<1> QED
  BY <1>3, <1>4

\* The delimiter that is found ends the body, of which the rest is taken.
LEMMA BodyEndStep ==
  ASSUME IInv, NEW verdict, BodyEnd(verdict)
  PROVE  IInv'
<1> DEFINE f == Find(crlf_dash_boundary_)
           len == Len(crlf_dash_boundary_)
           n == Len(buf)
           t == message.text
<1>1. BufInv /\ TypesInv
  BY DEF IInv
<1>2. state_ = 3 /\ f < n
  BY DEF BodyEnd, Turn
<1>3. CASE ~verdict
  BY <1>2, <1>3, RefuseStep DEF BodyEnd
<1>4. CASE verdict
  <2>1. /\ Deliver(f) /\ buf' = From(f + len) /\ state_' = 4
        /\ UNCHANGED <<message, input, pc, is_valid_, file_, refused, cuts>>
    BY <1>4 DEF BodyEnd
  <2>2. pc = "loop" /\ parts # <<>>
    BY <1>1, <1>2 DEF BodyEnd, Turn, TypesInv
  <2>3. /\ n \in Nat /\ n = Fed - Pos /\ Fed \in Nat /\ Pos \in Nat /\ t \in Seq(Characters)
        /\ Len(t) \in Nat /\ Fed <= Len(t)
    BY <1>1, Buffer
  <2>4. f \in 0 .. n /\ Pos + f + len <= Fed /\ len \in Nat /\ len # 0
    BY <1>1, <1>2, FindIs, Delimiters
  <2>5. BufInv' /\ Fed' = Fed /\ Pos' = Pos + (f + len)
    <3>1. f + len \in 0 .. Len(buf)
      <4> HIDE DEF f, len
      <4> QED
        BY <2>3, <2>4
    <3> QED
      BY <1>1, <2>1, <3>1, Taken
  <2>6. /\ parts' \in Seq(Taking) /\ Len(parts') = Len(parts) /\ Len(parts) \in Nat \ {0}
        /\ \A i \in 1 .. Len(parts) : i < Len(parts) => parts'[i] = parts[i]
        /\ parts'[Len(parts)].header = parts[Len(parts)].header
        /\ parts'[Len(parts)].body = parts[Len(parts)].body \o Piece(t, Pos, Pos + f)
    BY <1>1, <2>1, <2>2, <2>4, Delivering
  <2>7. parts' # <<>>
    BY <2>6, EmptySeq
  <2>8. TypesInv'
    <3>1. is_valid_' \in BOOLEAN /\ refused' \in BOOLEAN
      BY <1>1, <2>1, Zenon DEF TypesInv
    <3>2. cuts' \subseteq {"start", "end"} /\ file_' \subseteq Fields
      BY <1>1, <2>1 DEF TypesInv
    <3> QED
      BY <2>1, <2>2, <2>6, <2>7, <3>1, <3>2 DEF TypesInv
  <2>9. IdleInv' /\ FailsForACause'
    BY <2>1, <2>2 DEF IdleInv, FailsForACause
  <2>10. ASSUME NEW k \in 0 .. Len(message.parts), PlacedAt(k) PROVE PlacedAt(k)'
    <3> DEFINE c == Current(k)
               place == message.places[c]
               part == message.parts[c]
               last == Len(parts)
    <3>1. c' = c
      BY <2>6 DEF Current
    <3>2. c \in 1 .. Len(message.parts) /\ c = k + last
      BY <1>1, <2>2, <2>10, CurrentIs DEF PlacedAt, Current
    <3> HIDE DEF c
    <3>3. /\ Pos \in BodyAt(place) .. place.to
          /\ parts[last].header = part.header
          /\ parts[last].body = Piece(t, BodyAt(place), Pos)
      BY <1>2, <2>10 DEF PlacedAt, InBody, c
    <3>4. /\ f = place.to - Pos /\ At(t, place.to, crlf_dash_boundary_) /\ place.to + len <= Fed
      BY <1>1, <1>2, <3>2, <3>3, DelimiterIsFound
    <3>5. IsPart(part, place, t) /\ part \in Taking
      BY <1>1, <3>2, PartAt, Places
    <3>6. place.to \in BodyAt(place) .. Len(t) /\ place.to \in Nat /\ BodyAt(place) \in Nat
      BY <1>1, <3>2, BodyEnds
    <3> HIDE DEF f, len
    <3>7. Pos + f = place.to /\ Pos' = Behind(place)
      <4>1. Pos + f = place.to /\ Pos' = place.to + len
        <5>1. f = place.to - Pos /\ Pos \in Nat /\ place.to \in Nat /\ len \in Nat
          BY <2>3, <2>4, <3>4, <3>6
        <5>2. Pos' = Pos + (f + len)
          BY <2>5
        <5> QED
          BY <5>1, <5>2, SMTT(30)
      <4> QED
        BY <4>1 DEF Behind, len
    <3>8. parts'[last] = part
      <4>1. BodyAt(place) \in 0 .. Len(t) /\ Pos \in BodyAt(place) .. Len(t) /\ place.to \in Pos .. Len(t)
        BY <2>3, <3>3, <3>6
      <4>2. Piece(t, BodyAt(place), Pos) \o Piece(t, Pos, place.to) = Piece(t, BodyAt(place), place.to)
        BY <2>3, <4>1, PieceJoin
      <4>3. part.body = Piece(t, BodyAt(place), place.to)
        BY <3>5 DEF IsPart, Piece
      <4>4. parts'[last].body = part.body /\ parts'[last].header = part.header
        BY <2>6, <3>3, <3>7, <4>2, <4>3
      <4>5. parts'[last] \in Taking
        <5>1. last \in 1 .. Len(parts')
          BY <2>6
        <5> QED
          BY <2>6, <5>1, ElementOfSeq
      <4> HIDE DEF part, last
      <4> QED
        BY <3>5, <4>4, <4>5 DEF Taking
    <3>9. \A i \in 1 .. Len(parts') :
             i < Len(parts') \/ state_' # 3 => parts'[i] = message'.parts[k + i]
      <4> SUFFICES ASSUME NEW i \in 1 .. last PROVE parts'[i] = message.parts[k + i]
        BY <2>1, <2>6
      <4>1. CASE i = last
        BY <3>2, <3>8, <4>1
      <4>2. CASE i < last
        <5>1. parts[i] = message.parts[k + i]
          BY <2>10, <4>2 DEF PlacedAt
        <5> QED
          BY <2>6, <4>2, <5>1
      <4> QED
        BY <2>6, <4>1, <4>2
    <3>10. ~is_valid_'
      BY <1>2, <2>1, <2>10 DEF PlacedAt
    <3>11. AtDelimiter(k)'
      BY <2>1, <3>1, <3>4, <3>7, <3>10 DEF AtDelimiter, c
    <3>12. AtStart' /\ AtHead(k)' /\ InHeader(k)' /\ InBody(k)'
      BY <2>1 DEF AtStart, AtHead, InHeader, InBody
    <3>13. Current(k)' <= Len(message'.parts)
      BY <2>1, <2>10, <3>1 DEF PlacedAt, c
    <3> QED
      BY <3>9, <3>10, <3>11, <3>12, <3>13 DEF PlacedAt
  <2>11. PlaceInv'
    BY <2>1, <2>10 DEF IInv, PlaceInv
  <2> QED
    BY <2>5, <2>8, <2>9, <2>11 DEF IInv
<1> QED
  BY <1>3, <1>4

\* What FindIs says of the delimiter.
DelimiterFound ==
    /\ Find(crlf_dash_boundary_) \in 0 .. Len(buf)
    /\ Find(crlf_dash_boundary_) < Len(buf) =>
          /\ At(message.text, Pos + Find(crlf_dash_boundary_), crlf_dash_boundary_)
          /\ Pos + Find(crlf_dash_boundary_) + Len(crlf_dash_boundary_) <= Fed

LEMMA FindsTheDelimiter == BufInv => DelimiterFound
BY FindIs, Delimiters DEF DelimiterFound

\* If no delimiter is found, none begins in what is taken: the position stays
\* in the body, and none is found in what is left.
LEMMA BodyMoreStep ==
  ASSUME IInv, NEW verdict, BodyMore(verdict)
  PROVE  IInv'
<1> DEFINE len == Len(crlf_dash_boundary_)
           n == Len(buf)
           m == n - len
           t == message.text
<1>1. BufInv /\ TypesInv
  BY DEF IInv
<1>2. state_ = 3 /\ m > 0 /\ Find(crlf_dash_boundary_) = n
  BY DEF BodyMore, Turn
<1>3. CASE ~verdict
  BY <1>2, <1>3, RefuseStep DEF BodyMore
<1>4. CASE verdict
  <2>1. /\ Deliver(m) /\ buf' = From(m) /\ pc' = "idle"
        /\ UNCHANGED <<message, input, state_, is_valid_, file_, refused, cuts>>
    BY <1>4 DEF BodyMore
  <2>2. parts # <<>>
    BY <1>1, <1>2 DEF TypesInv
  <2>3. /\ n \in Nat /\ n = Fed - Pos /\ Fed \in Nat /\ Pos \in Nat /\ t \in Seq(Characters)
        /\ Len(t) \in Nat /\ Fed <= Len(t) /\ len \in Nat /\ len # 0
    BY <1>1, Buffer, Delimiters
  <2>4. m \in 0 .. Len(buf) /\ Pos + m = Fed - len /\ m \in Nat
    <3>1. m \in 0 .. n /\ Pos + m = Fed - len /\ m \in Nat
      <4> HIDE DEF n, len
      <4> QED
        BY <1>2, <2>3
    <3> QED
      BY <3>1
  <2> HIDE DEF m
  <2>5. BufInv' /\ Fed' = Fed /\ Pos' = Pos + m
    BY <1>1, <2>1, <2>4, Taken
  <2>6. /\ parts' \in Seq(Taking) /\ Len(parts') = Len(parts) /\ Len(parts) \in Nat \ {0}
        /\ \A i \in 1 .. Len(parts) : i < Len(parts) => parts'[i] = parts[i]
        /\ parts'[Len(parts)].header = parts[Len(parts)].header
        /\ parts'[Len(parts)].body = parts[Len(parts)].body \o Piece(t, Pos, Pos + m)
    BY <1>1, <2>1, <2>2, <2>4, Delivering
  <2>7. parts' # <<>>
    BY <2>6, EmptySeq
  <2>8. TypesInv'
    <3>1. is_valid_' \in BOOLEAN /\ refused' \in BOOLEAN
      BY <1>1, <2>1, Zenon DEF TypesInv
    <3>2. cuts' \subseteq {"start", "end"} /\ file_' \subseteq Fields
      BY <1>1, <2>1 DEF TypesInv
    <3> QED
      BY <1>2, <2>1, <2>6, <2>7, <3>1, <3>2 DEF TypesInv
  <2>9. IdleInv'
    <3> DEFINE g == Find(crlf_dash_boundary_)'
               n2 == Len(buf')
    <3>1. /\ g \in 0 .. n2
          /\ g < n2 => At(t, Pos' + g, crlf_dash_boundary_) /\ Pos' + g + len <= Fed'
      <4>1. (BufInv => DelimiterFound)'
        BY FindsTheDelimiter, PTL
      <4> QED
        BY <2>1, <2>5, <4>1 DEF DelimiterFound
    <3>2. \A i \in Pos .. Fed - len : At(t, i, crlf_dash_boundary_) =>
             Find(crlf_dash_boundary_) <= i - Pos
      BY <1>1, FindIs, Delimiters
    <3>3. n2 \in Nat
      BY <2>5, LenProperties DEF BufInv
    <3> HIDE DEF g, n2, n, len
    <3>4. ~(g < n2)
      <4> SUFFICES ASSUME g < n2 PROVE FALSE
        OBVIOUS
      <4>1. At(t, Pos' + g, crlf_dash_boundary_) /\ Pos' + g + len <= Fed /\ g \in Nat
        BY <2>5, <3>1, <3>3
      <4>2. Pos' + g \in Pos .. Fed - len
        BY <2>3, <2>4, <2>5, <4>1
      <4>3. n <= (Pos' + g) - Pos
        BY <1>2, <3>2, <4>1, <4>2
      <4> QED
        BY <2>3, <2>4, <2>5, <4>1, <4>3
    <3>5. g = n2
      BY <3>1, <3>3, <3>4
    <3> QED
      BY <1>2, <2>1, <3>5 DEF IdleInv, g, n2
  <2>10. FailsForACause'
    BY <2>1 DEF FailsForACause
  <2>11. ASSUME NEW k \in 0 .. Len(message.parts), PlacedAt(k) PROVE PlacedAt(k)'
    <3> DEFINE c == Current(k)
               place == message.places[c]
               part == message.parts[c]
               last == Len(parts)
    <3>1. c' = c
      BY <2>6 DEF Current
    <3>2. c \in 1 .. Len(message.parts)
      BY <1>1, <2>2, <2>11, CurrentIs DEF PlacedAt
    <3> HIDE DEF c
    <3>3. /\ Pos \in BodyAt(place) .. place.to
          /\ parts[last].header = part.header
          /\ parts[last].body = Piece(t, BodyAt(place), Pos)
      BY <1>2, <2>11 DEF PlacedAt, InBody, c
    <3>4. Fed - len <= place.to
      BY <1>1, <1>2, <3>2, <3>3, DelimiterIsFound
    <3>5. place.to \in BodyAt(place) .. Len(t) /\ place.to \in Nat /\ BodyAt(place) \in Nat
      BY <1>1, <3>2, BodyEnds
    <3>6. Pos' \in BodyAt(place) .. place.to
      <4> HIDE DEF n, len
      <4> QED
        BY <2>3, <2>4, <2>5, <3>3, <3>4, <3>5
    <3>7. parts'[last].body = Piece(t, BodyAt(place), Pos')
      <4>1. BodyAt(place) \in 0 .. Len(t) /\ Pos \in BodyAt(place) .. Len(t) /\ Pos + m \in Pos .. Len(t)
        <5> HIDE DEF n, len
        <5> QED
          BY <2>3, <2>4, <2>5, <3>3, <3>5, <3>6
      <4>2. Piece(t, BodyAt(place), Pos) \o Piece(t, Pos, Pos + m) = Piece(t, BodyAt(place), Pos + m)
        BY <2>3, <4>1, PieceJoin
      <4> QED
        BY <2>5, <2>6, <3>3, <4>2
    <3>8. InBody(k)'
      BY <2>1, <2>6, <3>1, <3>3, <3>6, <3>7 DEF InBody, c
    <3>9. \A i \in 1 .. Len(parts') :
             i < Len(parts') \/ state_' # 3 => parts'[i] = message'.parts[k + i]
      <4> SUFFICES ASSUME NEW i \in 1 .. last, i < last PROVE parts'[i] = message.parts[k + i]
        BY <1>2, <2>1, <2>6
      <4>1. parts[i] = message.parts[k + i]
        BY <2>11 DEF PlacedAt
      <4> QED
        BY <2>6, <4>1
    <3>10. AtStart' /\ AtHead(k)' /\ InHeader(k)' /\ AtDelimiter(k)'
      BY <1>2, <2>1 DEF AtStart, AtHead, InHeader, AtDelimiter
    <3>11. Current(k)' <= Len(message'.parts) /\ ~is_valid_'
      BY <1>2, <2>1, <2>11, <3>1 DEF PlacedAt, c
    <3> QED
      BY <3>8, <3>9, <3>10, <3>11 DEF PlacedAt
  <2>12. PlaceInv'
    BY <2>1, <2>11 DEF IInv, PlaceInv
  <2> QED
    BY <2>5, <2>8, <2>9, <2>10, <2>12 DEF IInv
<1> QED
  BY <1>3, <1>4

\* A buffer that is not longer than the delimiter has it only if it is it.
LEMMA BodyWaitStep ==
  ASSUME IInv, BodyWait
  PROVE  IInv'
<1> DEFINE d == crlf_dash_boundary_
           len == Len(crlf_dash_boundary_)
           f == Find(crlf_dash_boundary_)
           n == Len(buf)
           t == message.text
<1>1. BufInv /\ BufInv' /\ TypesInv
  BY NothingTaken DEF IInv, BodyWait
<1>2. /\ state_ = 3 /\ pc' = "idle" /\ n <= len /\ buf # d
      /\ UNCHANGED <<message, input, buf, state_, is_valid_, file_, parts, refused, cuts>>
  BY DEF BodyWait, Turn
<1>3. TypesInv'
  BY <1>1, <1>2 DEF TypesInv
<1>4. PlaceInv'
  BY <1>1, <1>2, Standing DEF IInv
<1>5. FailsForACause'
  BY <1>2 DEF FailsForACause
<1>6. f = n
  <2>1. /\ n \in Nat /\ n = Fed - Pos /\ Fed \in Nat /\ Pos \in Nat
        /\ buf = Piece(t, Pos, Fed) /\ len \in Nat
    BY <1>1, Buffer, Delimiters
  <2>2. f \in 0 .. n /\ (f < n => At(t, Pos + f, d) /\ Pos + f + len <= Fed)
    BY <1>1, FindIs, Delimiters
  <2> SUFFICES ASSUME f < n PROVE FALSE
    <3> HIDE DEF f, n
    <3> QED
      BY <2>1, <2>2
  <2>3. At(t, Pos + f, d) /\ Pos + f + len <= Fed
    BY <2>2
  <2>4. f = 0 /\ Pos + f = Pos /\ Pos + f + len = Fed
    <3> HIDE DEF f, n, len
    <3> QED
      BY <1>2, <2>1, <2>2, <2>3
  <2>5. Piece(t, Pos + f, Pos + f + len) = d
    BY <2>3 DEF At, Piece
  <2> QED
    BY <1>2, <2>1, <2>4, <2>5
<1>7. IdleInv'
  <2>1. Find(crlf_dash_boundary_)' = Find(crlf_dash_boundary_)
    BY <1>2 DEF Find, crlf_dash_boundary_
  <2> QED
    BY <1>2, <1>6, <2>1 DEF IdleInv
<1> QED
  BY <1>1, <1>3, <1>4, <1>5, <1>7 DEF IInv

\* What the parser knows of the message behind a delimiter.
LEMMA DelimiterIs ==
  ASSUME BufInv, TypesInv, NEW k \in 0 .. Len(message.parts), PlacedAt(k), state_ = 4,
         ~is_valid_
  PROVE  /\ Current(k) \in 1 .. Len(message.parts)
         /\ Pos \in Nat /\ message.text \in Seq(Characters)
         /\ \/ /\ Current(k) < Len(message.places)
               /\ At(message.text, Pos, crlf_)
               /\ message.places[Current(k) + 1].head = Pos + 2
            \/ /\ Current(k) = Len(message.parts)
               /\ At(message.text, Pos, dash_crlf_)
               /\ message.stop = Pos + 4
            \/ /\ message.stop = 0
               /\ ~At(message.text, Pos, crlf_) /\ ~At(message.text, Pos, dash_crlf_)
<1> DEFINE c == Current(k)
           place == message.places[c]
           len == Len(crlf_dash_boundary_)
<1>1. c \in 1 .. Len(message.parts)
  BY CurrentIs DEF PlacedAt, TypesInv
<1>2. At(message.text, place.to, crlf_dash_boundary_) /\ Pos = Behind(place)
  BY DEF PlacedAt, AtDelimiter
<1>3. Pos \in Nat /\ message.text \in Seq(Characters) /\ Len(message.text) \in Nat
  BY Buffer
<1> HIDE DEF c
<1>4. place.to # Len(message.text)
  <2>1. place.to \in Nat /\ len \in Nat /\ len # 0
    BY <1>1, BodyEnds, Delimiters
  <2>2. place.to + len <= Len(message.text)
    BY <1>2 DEF At
  <2> HIDE DEF place, len
  <2> QED
    BY <1>3, <2>1, <2>2
<1>5. CASE c < Len(message.places) /\ Another(place, message.places[c + 1], message.text)
  BY <1>1, <1>2, <1>3, <1>5 DEF Another, c
<1>6. CASE c = Len(message.parts) /\ Closes(place, message)
  BY <1>1, <1>2, <1>3, <1>6 DEF Closes, c
<1>7. CASE BreaksOff(place, message)
  BY <1>1, <1>2, <1>3, <1>4, <1>7 DEF BreaksOff, c
<1> QED
  BY <1>1, <1>5, <1>6, <1>7, BehindPart

\* The close delimiter is behind the last part of a message that has one.
LEMMA BoundaryEndStep ==
  ASSUME IInv, BoundaryEnd
  PROVE  IInv'
<1> DEFINE n == Len(buf)
<1>1. BufInv /\ TypesInv
  BY DEF IInv
<1>2. /\ state_ = 4 /\ pc = "loop" /\ pc' = pc /\ Closed /\ buf # <<>> /\ buf' = <<>>
      /\ is_valid_' = TRUE
      /\ UNCHANGED <<message, input, state_, file_, parts, refused, cuts>>
  BY DEF BoundaryEnd, Turn
<1>3. At(message.text, Pos, dash_crlf_) /\ Pos + 4 <= Fed
  BY <1>1, <1>2, StartsWithIs, Delimiters DEF Closed
<1>4. BufInv' /\ Fed' = Fed
  <2>1. n \in 0 .. n
    BY <1>1, LenProperties DEF BufInv
  <2>2. From(n) = <<>>
    <3>1. n \in Int
      BY <2>1
    <3>2. Piece(buf, n, n) = <<>>
      BY <3>1, PieceEmpty
    <3> QED
      BY <3>2 DEF From, Piece
  <2> QED
    BY <1>1, <1>2, <2>1, <2>2, Taken
<1>5. TypesInv'
  <2>1. is_valid_' \in BOOLEAN /\ refused' \in BOOLEAN
    BY <1>1, <1>2, Zenon DEF TypesInv
  <2> QED
    BY <1>1, <1>2, <2>1 DEF TypesInv
<1>6. IdleInv' /\ FailsForACause'
  BY <1>2 DEF IdleInv, FailsForACause
<1>7. ASSUME NEW k \in 0 .. Len(message.parts), PlacedAt(k) PROVE PlacedAt(k)'
  <2>1. ~is_valid_
    BY <1>2, <1>7 DEF PlacedAt, AtDelimiter
  <2>2. /\ Current(k) = Len(message.parts) /\ message.stop = Pos + 4
    <3>1. ~At(message.text, Pos, crlf_)
      BY <1>1, <1>3, Buffer, EitherOr
    <3> QED
      BY <1>1, <1>2, <1>3, <1>7, <2>1, <3>1, DelimiterIs
  <2>3. message.stop \in 1 .. Fed
    BY <1>1, <1>3, <2>2, Buffer
  <2>4. Current(k)' = Current(k)
    BY <1>2 DEF Current
  <2>5. AtDelimiter(k)'
    BY <1>2, <1>4, <2>2, <2>3, <2>4 DEF AtDelimiter
  <2>6. AtStart' /\ AtHead(k)' /\ InHeader(k)' /\ InBody(k)'
    BY <1>2 DEF AtStart, AtHead, InHeader, InBody
  <2>7. Current(k)' <= Len(message'.parts)
    BY <1>2, <1>7, <2>4 DEF PlacedAt
  <2>8. \A i \in 1 .. Len(parts') :
           i < Len(parts') \/ state_' # 3 => parts'[i] = message'.parts[k + i]
    BY <1>2, <1>7 DEF PlacedAt
  <2> QED
    BY <1>2, <2>5, <2>6, <2>7, <2>8 DEF PlacedAt
<1>8. PlaceInv'
  BY <1>2, <1>7 DEF IInv, PlaceInv
<1> QED
  BY <1>4, <1>5, <1>6, <1>8 DEF IInv

\* A CRLF behind a delimiter is where the next header begins.
LEMMA BoundaryNextStep ==
  ASSUME IInv, BoundaryNext
  PROVE  IInv'
<1>1. BufInv /\ TypesInv
  BY DEF IInv
<1>2. /\ state_ = 4 /\ pc = "loop" /\ StartsWith(crlf_) /\ buf # <<>> /\ buf' = From(2)
      /\ state_' = 1
      /\ UNCHANGED <<message, input, pc, is_valid_, file_, parts, refused, cuts>>
  BY DEF BoundaryNext, Turn
<1>3. At(message.text, Pos, crlf_) /\ Pos + 2 <= Fed
  BY <1>1, <1>2, StartsWithIs, Delimiters
<1>4. BufInv' /\ Pos' = Pos + 2
  <2>1. 2 \in 0 .. Len(buf)
    BY <1>1, <1>3, Buffer
  <2> QED
    BY <1>1, <1>2, <2>1, Taken
<1>5. TypesInv'
  BY <1>1, <1>2 DEF TypesInv
<1>6. IdleInv' /\ FailsForACause'
  BY <1>2 DEF IdleInv, FailsForACause
<1>7. ASSUME NEW k \in 0 .. Len(message.parts), PlacedAt(k) PROVE PlacedAt(k)'
  <2>1. ~is_valid_
    BY <1>2, <1>7 DEF PlacedAt, AtDelimiter
  <2>2. Current(k) < Len(message.places) /\ message.places[Current(k) + 1].head = Pos + 2
    <3>1. ~At(message.text, Pos, dash_crlf_)
      BY <1>1, <1>3, Buffer, EitherOr
    <3> QED
      BY <1>1, <1>2, <1>3, <1>7, <2>1, <3>1, DelimiterIs
  <2>3. Current(k)' = Current(k)
    BY <1>2 DEF Current
  <2>4. AtHead(k)'
    BY <1>2, <1>4, <2>2, <2>3 DEF AtHead
  <2>5. AtStart' /\ InHeader(k)' /\ InBody(k)' /\ AtDelimiter(k)'
    BY <1>2 DEF AtStart, InHeader, InBody, AtDelimiter
  <2>6. Current(k)' <= Len(message'.parts)
    BY <1>2, <1>7, <2>3 DEF PlacedAt
  <2>7. \A i \in 1 .. Len(parts') :
           i < Len(parts') \/ state_' # 3 => parts'[i] = message'.parts[k + i]
    BY <1>2, <1>7 DEF PlacedAt
  <2>8. ~is_valid_'
    BY <1>2, <2>1
  <2> QED
    BY <2>4, <2>5, <2>6, <2>7, <2>8 DEF PlacedAt
<1>8. PlaceInv'
  BY <1>2, <1>7 DEF IInv, PlaceInv
<1> QED
  BY <1>4, <1>5, <1>6, <1>8 DEF IInv

\* What stands behind a delimiter is not known yet, or is neither.
LEMMA BoundaryWaitStep ==
  ASSUME IInv, BoundaryWait
  PROVE  IInv'
<1>1. BufInv /\ BufInv' /\ TypesInv
  BY NothingTaken DEF IInv, BoundaryWait
<1>2. /\ state_ = 4 /\ pc' = "idle" /\ ~StartsWith(crlf_) /\ ~Closed
      /\ UNCHANGED <<message, input, buf, state_, is_valid_, file_, parts, refused, cuts>>
  BY DEF BoundaryWait, Turn
<1>3. TypesInv'
  BY <1>1, <1>2 DEF TypesInv
<1>4. IdleInv'
  BY <1>2 DEF IdleInv, Closed, StartsWith, crlf_, dash_crlf_
<1>5. PlaceInv'
  BY <1>1, <1>2, Standing DEF IInv
<1>6. FailsForACause'
  BY <1>2 DEF FailsForACause
<1> QED
  BY <1>1, <1>3, <1>4, <1>5, <1>6 DEF IInv

\* The parser is always where the invariant says.
LEMMA Invariance == Spec => []IInv
<1>1. Init => IInv
  BY Start
<1>2. IInv /\ [Next]_vars => IInv'
  <2> SUFFICES ASSUME IInv, [Next]_vars PROVE IInv'
    OBVIOUS
  <2>1. ASSUME NEW n \in 1 .. Len(input), Feed(n) PROVE IInv'
    BY <2>1, FeedStep
  <2>2. ASSUME ParseReturns PROVE IInv'
    BY <2>2, ParseReturnsStep
  <2>3. ASSUME InitialBoundary PROVE IInv'
    BY <2>3, InitialBoundaryStep
  <2>4. ASSUME NewEntry PROVE IInv'
    BY <2>4, NewEntryStep
  <2>5. ASSUME Headers PROVE IInv'
    BY <2>5, HeadersStep
  <2>6. ASSUME HeaderMissing PROVE IInv'
    BY <2>6, HeaderMissingStep
  <2>7. ASSUME HeaderLine PROVE IInv'
    BY <2>7, HeaderLineStep
  <2>8. ASSUME NEW verdict \in Verdicts,
               HeaderEnd(verdict) \/ BodyEnd(verdict) \/ BodyMore(verdict)
        PROVE  IInv'
    BY <2>8, HeaderEndStep, BodyEndStep, BodyMoreStep
  <2>9. ASSUME BodyWait PROVE IInv'
    BY <2>9, BodyWaitStep
  <2>10. ASSUME BoundaryEnd PROVE IInv'
    BY <2>10, BoundaryEndStep
  <2>11. ASSUME BoundaryNext PROVE IInv'
    BY <2>11, BoundaryNextStep
  <2>12. ASSUME BoundaryWait PROVE IInv'
    BY <2>12, BoundaryWaitStep
  <2>13. CASE UNCHANGED vars
    <3>1. BufInv'
      BY <2>13, NothingTaken DEF IInv, vars
    <3>2. TypesInv'
      BY <2>13 DEF IInv, TypesInv, vars
    <3>3. PlaceInv'
      BY <2>13, Standing DEF IInv, vars
    <3>4. IdleInv'
      BY <2>13 DEF IInv, IdleInv, vars, Closed, StartsWith, Find, crlf_, dash_crlf_,
                   crlf_dash_boundary_
    <3>5. FailsForACause'
      BY <2>13 DEF IInv, FailsForACause, vars
    <3> QED
      BY <3>1, <3>2, <3>3, <3>4, <3>5 DEF IInv
  <2> QED
    BY <2>1, <2>2, <2>3, <2>4, <2>5, <2>6, <2>7, <2>8, <2>9, <2>10, <2>11, <2>12, <2>13
       DEF Next
<1> QED
  BY <1>1, <1>2, PTL DEF Spec

-----------------------------------------------------------------------------
(* What follows from it. *)

\* Reverse turns a text round.
LEMMA ReverseType ==
  ASSUME NEW s \in Seq(Characters)
  PROVE  /\ Reverse(s) \in Seq(Characters) /\ Len(Reverse(s)) = Len(s)
         /\ \A i \in 1 .. Len(s) : Reverse(s)[i] = s[(Len(s) - i) + 1]
<1> DEFINE n == Len(s)
           r == Reverse(s)
<1>1. n \in Nat
  BY LenProperties
<1>2. r = [i \in 1 .. n |-> s[(n - i) + 1]]
  BY DEF Reverse
<1>3. \A i \in 1 .. n : s[(n - i) + 1] \in Characters
  <2> SUFFICES ASSUME NEW i \in 1 .. n PROVE s[(n - i) + 1] \in Characters
    OBVIOUS
  <2>1. (n - i) + 1 \in 1 .. n
    <3> HIDE DEF n
    <3> QED
      BY <1>1
  <2> QED
    BY <2>1, ElementOfSeq
<1> HIDE DEF n, r
<1>4. r \in [1 .. n -> Characters]
  BY <1>2, <1>3
<1>5. r \in Seq(Characters) /\ Len(r) = n
  BY <1>1, <1>4, SeqDef, LenProperties
<1>6. \A i \in 1 .. n : r[i] = s[(n - i) + 1]
  BY <1>2
<1> QED
  BY <1>5, <1>6 DEF n, r

\* The end of a text is a suffix of it.
LEMMA EndIsSuffix ==
  ASSUME NEW t \in Seq(Characters), NEW i \in 0 .. Len(t)
  PROVE  IsSuffix(Piece(t, i, Len(t)), t)
<1> DEFINE n == Len(t)
           s == Piece(t, i, n)
           r == Reverse(s)
           q == Reverse(t)
           l == n - i
<1>1. n \in Nat /\ n \in i .. n /\ l \in 0 .. n /\ l \in Nat
  <2>1. n \in Nat /\ i \in 0 .. n
    BY LenProperties
  <2> HIDE DEF n
  <2> QED
    BY <2>1
<1>2. s \in Seq(Characters) /\ Len(s) = l /\ \A k \in 1 .. l : s[k] = t[i + k]
  BY <1>1, PieceType
<1>3. r \in Seq(Characters) /\ Len(r) = l /\ \A k \in 1 .. l : r[k] = s[(l - k) + 1]
  <2> HIDE DEF s, l
  <2>1. r \in Seq(Characters) /\ Len(r) = Len(s)
        /\ \A k \in 1 .. Len(s) : r[k] = s[(Len(s) - k) + 1]
    BY <1>2, ReverseType
  <2> QED
    BY <1>2, <2>1, Zenon
<1>4. q \in Seq(Characters) /\ Len(q) = n /\ \A k \in 1 .. n : q[k] = t[(n - k) + 1]
  BY ReverseType
<1> HIDE DEF n, s, r, q
<1>5. Piece(r, 0, l) = r
  BY <1>3, PieceWhole
<1>6. /\ Piece(q, 0, l) \in Seq(Characters) /\ Len(Piece(q, 0, l)) = l
      /\ \A k \in 1 .. l : Piece(q, 0, l)[k] = q[k]
  <2>1. 0 \in 0 .. Len(q) /\ l \in 0 .. Len(q)
    BY <1>1, <1>4
  <2>2. /\ Piece(q, 0, l) \in Seq(Characters) /\ Len(Piece(q, 0, l)) = l - 0
        /\ \A k \in 1 .. l - 0 : Piece(q, 0, l)[k] = q[0 + k]
    BY <1>4, <2>1, PieceType
  <2> QED
    BY <1>1, <2>2
<1>7. \A k \in 1 .. l : r[k] = q[k]
  <2> SUFFICES ASSUME NEW k \in 1 .. l PROVE r[k] = q[k]
    OBVIOUS
  <2>1. (l - k) + 1 \in 1 .. l /\ i + ((l - k) + 1) = (n - k) + 1 /\ k \in 1 .. n
    BY <1>1
  <2> HIDE DEF l
  <2>2. r[k] = s[(l - k) + 1] /\ s[(l - k) + 1] = t[i + ((l - k) + 1)] /\ q[k] = t[(n - k) + 1]
    BY <1>2, <1>3, <1>4, <2>1
  <2> QED
    BY <2>1, <2>2
<1> HIDE DEF l
<1>8. \A k \in 1 .. l : r[k] = Piece(q, 0, l)[k]
  BY <1>6, <1>7
<1>9. Len(r) = Len(Piece(q, 0, l)) /\ \A k \in 1 .. Len(r) : r[k] = Piece(q, 0, l)[k]
  BY <1>3, <1>6, <1>8
<1>10. r = Piece(q, 0, l)
  BY <1>3, <1>6, <1>9, SeqEqual
<1>11. SubSeq(r, 1, Len(r)) = SubSeq(q, 1, Len(r)) /\ Len(r) <= Len(q)
  <2>1. 0 + 1 = 1
    OBVIOUS
  <2>2. SubSeq(r, 1, l) = SubSeq(q, 1, l)
    BY <1>5, <1>10, <2>1, Zenon DEF Piece
  <2> QED
    BY <1>1, <1>3, <1>4, <2>2
<1>12. IsPrefix(r, q)
  BY <1>11 DEF IsPrefix
<1> QED
  BY <1>12 DEF IsSuffix, r, q, s, n

\* As much of a body as is known is a prefix of it.
LEMMA PieceIsPrefix ==
  ASSUME NEW t \in Seq(Characters), NEW i \in 0 .. Len(t), NEW j \in i .. Len(t),
         NEW k \in i .. j
  PROVE  IsPrefix(Piece(t, i, k), Piece(t, i, j))
<1> DEFINE n == Len(t)
           p == Piece(t, i, k)
           q == Piece(t, i, j)
           l == k - i
<1>1. n \in Nat /\ i \in 0 .. n /\ j \in i .. n /\ k \in i .. j
  BY LenProperties
<1>2. k \in i .. n
  <2> HIDE DEF n
  <2> QED
    BY <1>1
<1>3. p \in Seq(Characters) /\ Len(p) = l /\ q \in Seq(Characters) /\ Len(q) = j - i
  BY <1>2, PieceType
<1> HIDE DEF n
<1>4. 0 \in 0 .. j - i /\ l \in 0 .. j - i /\ i + 0 = i /\ i + l = k /\ l <= j - i
  BY <1>1
<1> HIDE DEF l
<1>5. Piece(q, 0, l) = p
  <2>1. Piece(Piece(t, i, j), 0, l) = Piece(t, i + 0, i + l)
    BY <1>4, PieceOfPiece
  <2> QED
    BY <1>4, <2>1
<1> HIDE DEF p, q
<1>6. Piece(p, 0, l) = p
  BY <1>3, PieceWhole
<1>7. SubSeq(p, 1, l) = SubSeq(q, 1, l)
  <2>1. 0 + 1 = 1
    OBVIOUS
  <2> QED
    BY <1>5, <1>6, <2>1, Zenon DEF Piece
<1> QED
  BY <1>3, <1>4, <1>7 DEF IsPrefix, p, q

\* What the callbacks took, if they missed the first k parts.
LEMMA TakenFromIs ==
  ASSUME BufInv, TypesInv, NEW k \in 0 .. Len(message.parts), PlacedAt(k)
  PROVE  TakenFrom(k)
<1> DEFINE l == Len(parts)
           n == Len(message.parts)
           t == message.text
<1>1. /\ parts \in Seq(Taking) /\ l \in Nat /\ DOMAIN parts = 1 .. l
      /\ n \in Nat /\ k \in 0 .. n /\ state_ \in 0 .. 4
  BY LenProperties, Places DEF TypesInv
<1>2. Current(k) <= n /\ Current(k) = k + l
  BY DEF PlacedAt, Current
<1>3. \A i \in 1 .. l : i < l \/ state_ # 3 => parts[i] = message.parts[k + i]
  BY DEF PlacedAt
<1>4. \A i \in 1 .. l : message.parts[k + i] \in Taking
  <2> SUFFICES ASSUME NEW i \in 1 .. l PROVE message.parts[k + i] \in Taking
    OBVIOUS
  <2>1. k + i \in 1 .. n
    <3> HIDE DEF l, n
    <3> QED
      BY <1>1, <1>2
  <2> QED
    BY <2>1, Places
<1>5. ASSUME NEW i \in 1 .. l, i < l \/ state_ # 3
      PROVE  /\ parts[i].header = message.parts[k + i].header
             /\ parts[i].body = message.parts[k + i].body
             /\ IsPrefix(parts[i].body, message.parts[k + i].body)
  <2>1. parts[i] = message.parts[k + i] /\ message.parts[k + i].body \in Seq(Characters)
    BY <1>3, <1>4, <1>5 DEF Taking
  <2>2. Len(message.parts[k + i].body) \in Nat
    BY <2>1, LenProperties
  <2> QED
    BY <2>1, <2>2 DEF IsPrefix
<1>6. ASSUME NEW i \in 1 .. l, ~(i < l), state_ = 3
      PROVE  /\ parts[i].header = message.parts[k + i].header
             /\ IsPrefix(parts[i].body, message.parts[k + i].body)
  <2> DEFINE c == Current(k)
             place == message.places[c]
  <2>1. c \in 1 .. n /\ i = l /\ k + i = c
    <3>1. c \in 1 .. n
      BY <1>2, <1>6, CurrentIs DEF TypesInv
    <3> HIDE DEF l, n
    <3> QED
      BY <1>1, <1>2, <1>6, <3>1
  <2> HIDE DEF c
  <2>2. /\ Pos \in BodyAt(place) .. place.to
        /\ parts[l].header = message.parts[c].header
        /\ parts[l].body = Piece(t, BodyAt(place), Pos)
    BY <1>6 DEF PlacedAt, InBody, c
  <2>3. message.parts[c].body = Piece(t, BodyAt(place), place.to)
    BY <2>1, PartAt DEF IsPart, Piece
  <2>4. place.to \in BodyAt(place) .. Len(t) /\ BodyAt(place) \in Nat
    BY <2>1, BodyEnds
  <2>5. t \in Seq(Characters) /\ BodyAt(place) \in 0 .. Len(t)
    <3>1. t \in Seq(Characters) /\ Len(t) \in Nat
      BY Buffer
    <3> QED
      BY <2>4, <3>1
  <2>6. IsPrefix(Piece(t, BodyAt(place), Pos), Piece(t, BodyAt(place), place.to))
    BY <2>2, <2>4, <2>5, PieceIsPrefix
  <2> QED
    BY <2>1, <2>2, <2>3, <2>6
<1>7. l <= n - k
  <2> HIDE DEF l, n
  <2> QED
    BY <1>1, <1>2
<1>8. ASSUME NEW i \in DOMAIN parts
      PROVE  /\ parts[i].header = message.parts[k + i].header
             /\ IF i < Len(parts) THEN parts[i].body = message.parts[k + i].body
                ELSE IsPrefix(parts[i].body, message.parts[k + i].body)
  BY <1>1, <1>5, <1>6
<1> QED
  BY <1>7, <1>8 DEF TakenFrom

\* The invariant has the types.
LEMMA TypesFollow == IInv => TypeOK
<1> SUFFICES ASSUME IInv PROVE TypeOK
  OBVIOUS
<1>1. BufInv /\ TypesInv
  BY DEF IInv
<1>2. IsSuffix(input, message.text)
  <2>1. /\ message.text \in Seq(Characters) /\ Fed \in 0 .. Len(message.text)
        /\ input = Piece(message.text, Fed, Len(message.text))
    BY <1>1, Buffer
  <2> QED
    BY <2>1, EndIsSuffix
<1>3. Len(buf) <= Len(message.text) - Len(input)
  BY <1>1 DEF BufInv, Fed
<1>4. is_valid_ /\ "end" \notin cuts => state_ = 4 /\ buf = <<>>
  BY DEF IInv, PlaceInv, PlacedAt, AtDelimiter
<1>5. message \in Messages
  BY <1>1 DEF BufInv
<1> QED
  BY <1>1, <1>2, <1>3, <1>4, <1>5 DEF TypesInv, TypeOK

\* It says which parts the callbacks have had.
LEMMA PartsFollow == IInv => PartsInv
<1> SUFFICES ASSUME IInv PROVE DeliveredInOrder /\ NoPartIsTorn
  BY TypesFollow DEF PartsInv
<1>1. ASSUME "end" \notin cuts
      PROVE  \E k \in 0 .. Len(message.parts) : TakenFrom(k) /\ ("start" \notin cuts => k = 0)
  <2>1. PICK k \in 0 .. Len(message.parts) : PlacedAt(k) /\ ("start" \notin cuts => k = 0)
    BY <1>1 DEF IInv, PlaceInv
  <2>2. TakenFrom(k)
    BY <2>1, TakenFromIs DEF IInv
  <2> QED
    BY <2>1, <2>2
<1> QED
  BY <1>1 DEF DeliveredInOrder, NoPartIsTorn

\* A parser that is done has had the last part.
LEMMA VerdictFollows == IInv => VerdictIsRight
<1> SUFFICES ASSUME IInv PROVE ValidMeansComplete
  BY DEF IInv, VerdictIsRight
<1> SUFFICES ASSUME is_valid_, cuts = {} PROVE message.stop # 0 /\ parts = message.parts
  BY DEF ValidMeansComplete
<1>1. BufInv /\ TypesInv /\ PlacedAt(0)
  BY DEF IInv, PlaceInv
<1>2. state_ = 4 /\ Current(0) = Len(message.parts) /\ message.stop \in 1 .. Fed
  BY <1>1 DEF PlacedAt, AtDelimiter
<1>3. message.stop # 0
  BY <1>2
<1>4. parts \in Seq(Taking) /\ message.parts \in Seq(Taking) /\ Len(parts) = Len(message.parts)
  <2>1. parts \in Seq(Taking) /\ Len(parts) \in Nat
    BY <1>1, LenProperties DEF TypesInv
  <2>2. message.parts \in Seq(Taking)
    BY <1>1, MultipartAssumption DEF BufInv, IsMessage, Taking
  <2>3. 0 + Len(parts) = Len(parts)
    BY <2>1
  <2> QED
    BY <1>2, <2>1, <2>2, <2>3 DEF Current
<1>5. \A i \in 1 .. Len(parts) : parts[i] = message.parts[i]
  <2> SUFFICES ASSUME NEW i \in 1 .. Len(parts) PROVE parts[i] = message.parts[i]
    OBVIOUS
  <2>1. 0 + i = i
    OBVIOUS
  <2>2. parts[i] = message.parts[0 + i]
    BY <1>1, <1>2 DEF PlacedAt
  <2> QED
    BY <2>1, <2>2
<1>6. parts = message.parts
  BY <1>4, <1>5, SeqEqual
<1> QED
  BY <1>3, <1>6

\* A well-formed message that has come whole leaves no state to wait in: every
\* line, delimiter and end that is looked for is in the buffer.
LEMMA NothingStaysBack == IInv => NothingIsHeldBack
<1> SUFFICES ASSUME IInv, input = <<>>, pc = "idle", message.stop # 0, cuts = {}, ~is_valid_
             PROVE  FALSE
  BY DEF NothingIsHeldBack
<1> DEFINE n == Len(buf)
           max == Len(message.text)
           t == message.text
           c == Current(0)
           last == Len(message.places)
<1>1. BufInv /\ TypesInv /\ PlacedAt(0) /\ IdleInv
  BY DEF IInv, PlaceInv
\* parse() has been given all of the text.
<1>2. /\ Fed = max /\ max \in Nat /\ Pos \in Nat /\ n = Fed - Pos /\ n \in Nat /\ Pos <= Fed
      /\ t \in Seq(Characters) /\ message.start \in 1 .. max
  <2>1. Len(input) = 0 /\ Len(input) = max - Fed
    BY <1>1, EmptySeq, Buffer
  <2>2. /\ max \in Nat /\ Fed \in Nat /\ Pos \in Nat /\ n = Fed - Pos /\ Pos <= Fed
        /\ t \in Seq(Characters) /\ message.start \in 1 .. max
    BY <1>1, Buffer, Places
  <2>3. Fed = max /\ n \in Nat
    <3> HIDE DEF max, n
    <3> QED
      BY <2>1, <2>2
  <2> QED
    BY <2>2, <2>3
\* Every place is that of a part.
<1>3. ASSUME NEW d \in 1 .. last PROVE d \in 1 .. Len(message.parts)
  <2> DEFINE m == Len(message.parts)
  <2>1. m \in Nat /\ last \in Nat
    BY <1>1, Places
  <2>2. d \in Nat /\ d <= last /\ d # 0
    <3> HIDE DEF last
    <3> QED
      BY <2>1
  <2>3. ~(m < d)
    BY <1>1, <2>2, OpenPlace
  <2> HIDE DEF m, last
  <2>4. d \in 1 .. m
    BY <2>1, <2>2, <2>3
  <2> QED
    BY <2>4 DEF m
<1>4. /\ Find(crlf_) \in 0 .. n
      /\ Len(crlf_) = 2 /\ Len(dash_crlf_) = 4
      /\ Len(crlf_dash_boundary_) \in Nat \ {0}
  BY <1>1, FindIs, Delimiters
<1>5. CASE state_ = 0
  <2>1. Fed = 0
    BY <1>1, <1>5 DEF PlacedAt, AtStart
  <2> HIDE DEF max
  <2> QED
    BY <1>2, <2>1
<1>6. CASE state_ = 1
  <2> DEFINE place == message.places[c + 1]
  <2>1. buf = <<>>
    BY <1>1, <1>6 DEF IdleInv
  <2>2. n = 0
    BY <2>1, EmptySeq
  <2>3. c + 1 \in 1 .. last /\ Pos = place.head
    BY <1>1, <1>6, CurrentIs DEF PlacedAt, AtHead
  <2> HIDE DEF c
  <2>4. At(t, LineAt(place, place.lines), crlf_)
    <3>1. c + 1 \in 1 .. Len(message.parts)
      BY <1>3, <2>3
    <3> QED
      BY <1>1, <3>1, PartAt DEF IsPart
  <2>5. place.head \in Nat /\ place.lines \in Nat
    BY <1>1, <2>3, Places
  <2>6. LineAt(place, place.lines) + 2 <= max
    BY <1>4, <2>4 DEF At
  <2>7. Pos + 2 <= max
    <3> DEFINE head == place.head
               lines == place.lines
    <3>1. Pos = head /\ head \in Nat /\ lines \in Nat /\ (head + 3 * lines) + 2 <= max
      BY <2>3, <2>5, <2>6 DEF LineAt
    <3>2. max \in Nat
      BY <1>2
    <3> HIDE DEF head, lines, max
    <3> QED
      BY <3>1, <3>2
  <2> HIDE DEF n, max
  <2> QED
    BY <1>2, <2>2, <2>7
<1>7. CASE state_ = 2
  <2>1. Find(crlf_) = n
    BY <1>1, <1>7 DEF IdleInv
  <2>2. FieldAt(t, Pos) \/ At(t, Pos, crlf_)
    <3>1. 0 \in 0 .. Len(message.parts)
      BY <1>1, Places
    <3> QED
      BY <1>1, <1>7, <3>1, HeaderIs
  <2>3. CASE FieldAt(t, Pos)
    <3>1. Pos + 3 <= Fed
      <4>1. Pos + 3 <= max
        BY <1>2, <2>3, FieldLine
      <4> QED
        BY <1>2, <4>1
    <3>2. Find(crlf_) = 1
      BY <1>1, <2>3, <3>1, LineIsFound
    <3> HIDE DEF n
    <3> QED
      BY <1>2, <2>1, <3>1, <3>2
  <2>4. CASE At(t, Pos, crlf_)
    <3>1. Pos + 2 <= Fed
      BY <1>2, <1>4, <2>4 DEF At
    <3>2. Find(crlf_) = 0
      BY <1>1, <2>4, <3>1, EmptyLineIsFound
    <3> HIDE DEF n
    <3> QED
      BY <1>2, <2>1, <3>1, <3>2
  <2> QED
    BY <2>2, <2>3, <2>4
<1>8. CASE state_ = 3
  <2> DEFINE place == message.places[c]
  <2>1. Find(crlf_dash_boundary_) = n
    BY <1>1, <1>8 DEF IdleInv
  <2>2. c \in 1 .. Len(message.parts)
    <3>1. 0 \in 0 .. Len(message.parts)
      BY <1>1, Places
    <3> QED
      BY <1>1, <1>8, <3>1, CurrentIs DEF PlacedAt, TypesInv
  <2>3. Pos \in BodyAt(place) .. place.to
    BY <1>1, <1>8 DEF PlacedAt, InBody
  <2> HIDE DEF c
  <2>4. At(t, place.to, crlf_dash_boundary_)
    BY <1>1, <2>2, BodyEnds
  <2>5. place.to + Len(crlf_dash_boundary_) <= Fed
    BY <1>2, <2>4 DEF At
  <2>6. Find(crlf_dash_boundary_) < n
    BY <1>1, <2>2, <2>3, <2>4, <2>5, DelimiterIsFound
  <2> QED
    BY <1>2, <2>1, <2>6
<1>9. CASE state_ = 4
  <2>1. ~StartsWith(crlf_) /\ ~StartsWith(dash_crlf_)
    BY <1>1, <1>9 DEF IdleInv, Closed
  <2>2. At(t, Pos, crlf_) \/ At(t, Pos, dash_crlf_)
    <3>1. 0 \in 0 .. Len(message.parts)
      BY <1>1, Places
    <3> QED
      BY <1>1, <1>9, <3>1, DelimiterIs
  <2>3. CASE At(t, Pos, crlf_)
    <3>1. Pos + Len(crlf_) <= Fed
      BY <1>2, <2>3 DEF At
    <3> QED
      BY <1>1, <2>1, <2>3, <3>1, StartsWithIs, Delimiters
  <2>4. CASE At(t, Pos, dash_crlf_)
    <3>1. Pos + Len(dash_crlf_) <= Fed
      BY <1>2, <2>4 DEF At
    <3> QED
      BY <1>1, <2>1, <2>4, <3>1, StartsWithIs, Delimiters
  <2> QED
    BY <2>2, <2>3, <2>4
<1> QED
  BY <1>1, <1>5, <1>6, <1>7, <1>8, <1>9 DEF TypesInv

-----------------------------------------------------------------------------
(* The theorems. *)

\* parse(): wherever the chunks cut a message, what header_callback and
\* content_callback have had is a run of its parts, each with its own header
\* and of the last as much of its body as is known; it is the first parts if
\* the initial boundary came whole.
THEOREM PartsComeWhole == Spec => []PartsInv
BY Invariance, PartsFollow, PTL

\* is_valid() and the result of parse(): the one means that the callbacks have
\* had the whole message, the other that a callback returned false or the
\* message is malformed.
THEOREM VerdictsAreRight == Spec => []VerdictIsRight
BY Invariance, VerdictFollows, PTL

\* parse(): a well-formed message that has all been given to it is delivered,
\* however it was cut behind the initial boundary; nothing of it waits in the
\* buffer for a chunk that will not come.
THEOREM NothingWaits == Spec => []NothingIsHeldBack
BY Invariance, NothingStaysBack, PTL
=============================================================================
