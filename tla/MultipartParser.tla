--------------------------- MODULE MultipartParser --------------------------
(***************************************************************************)
(* MultipartFormDataParser (include/ccl2/http/multipart_parser.h): a       *)
(* parser of multipart/form-data that is given its input in chunks, which  *)
(* may be cut anywhere.  parse() buffers a chunk and loops over the five   *)
(* states; each turn of the loop is an action.                             *)
(*                                                                         *)
(* Texts are sequences of characters, CR and LF among them.  A header line *)
(* is abstracted to the character of Fields that it gives, if it is well   *)
(* formed; any other line is refused.                                      *)
(***************************************************************************)
EXTENDS Integers, Sequences, FiniteSetsExt, SequencesExt

CONSTANTS
    Characters,     \* all characters, these among them:
    CR, LF, Dash,
    Fields,         \* for the well-formed header lines: what of
                    \* content_type, name and filename they set
    Boundary,       \* boundary_
    HeaderMax,      \* CPPHTTPLIB_HEADER_MAX_LENGTH
    Messages,       \* the inputs, with what they mean
    Verdicts        \* what the callbacks return

crlf_ == <<CR, LF>>
dash_crlf_ == <<Dash, Dash, CR, LF>>
dash_boundary_crlf_ == <<Dash, Dash>> \o Boundary \o crlf_
crlf_dash_boundary_ == crlf_ \o <<Dash, Dash>> \o Boundary

-----------------------------------------------------------------------------
(* What a message means: its parts, and the places that they have in its   *)
(* text.  Behind the parts a malformed message may have a header more, or  *)
(* only its beginning: a place without a part.                             *)

\* The text t has s behind its first i characters.
At(t, i, s) == i + Len(s) <= Len(t) /\ SubSeq(t, i + 1, i + Len(s)) = s

\* Where the line behind the first n lines of a header begins, and the body.
LineAt(place, n) == place.head + 3 * n
BodyAt(place) == LineAt(place, place.lines) + 2

\* A line that is well formed.
FieldAt(t, i) == i < Len(t) /\ t[i + 1] \in Fields /\ At(t, i + 1, crlf_)

\* A part has a header of well-formed lines and an empty one, and a body that
\* ends where the first delimiter begins, or with the text.
IsPart(part, place, t) ==
    /\ At(t, LineAt(place, place.lines), crlf_)
    /\ part.header = {t[LineAt(place, i) + 1] : i \in 0 .. place.lines - 1}
    /\ place.to \in BodyAt(place) .. Len(t)
    /\ part.body = SubSeq(t, BodyAt(place) + 1, place.to)
    /\ \A i \in BodyAt(place) .. place.to - 1 : ~At(t, i, crlf_dash_boundary_)

\* A header goes wrong behind its well-formed lines, or ends there.
GoesWrong(place, t) ==
    LET i == LineAt(place, place.lines) IN ~FieldAt(t, i) /\ ~At(t, i, crlf_)

\* Behind the delimiter that ends a body: a header, the end, or neither.
Behind(place) == place.to + Len(crlf_dash_boundary_)

Another(place, next, t) ==
    /\ At(t, place.to, crlf_dash_boundary_)
    /\ At(t, Behind(place), crlf_)
    /\ next.head = Behind(place) + 2

Closes(place, m) ==
    /\ At(m.text, place.to, crlf_dash_boundary_)
    /\ At(m.text, Behind(place), dash_crlf_)
    /\ m.stop = Behind(place) + 4

BreaksOff(place, m) ==
    /\ m.stop = 0
    /\ \/ place.to = Len(m.text)
       \/ /\ At(m.text, place.to, crlf_dash_boundary_)
          /\ ~At(m.text, Behind(place), dash_crlf_)
          /\ ~At(m.text, Behind(place), crlf_)

\* A message: the initial boundary ends at its start, where the first header
\* begins, and the close delimiter at its stop (0: there is none); what looks
\* like the initial boundary is a delimiter.
IsMessage(m) ==
    LET n == Len(m.parts)
        last == Len(m.places)
    IN /\ m.text \in Seq(Characters)
       /\ m.parts \in Seq([header : SUBSET Fields, body : Seq(Characters)])
       /\ m.places \in Seq([head : Nat, lines : Nat, to : Nat])
       /\ m.start \in 1 .. Len(m.text) /\ m.stop \in 0 .. Len(m.text)
       /\ last \in {n, n + 1} /\ last # 0
       /\ m.places[1].head = m.start
       /\ \A i \in 1 .. last : \A j \in 0 .. m.places[i].lines - 1 :
             FieldAt(m.text, LineAt(m.places[i], j))
       /\ \A i \in 1 .. n : IsPart(m.parts[i], m.places[i], m.text)
       /\ \A i \in 1 .. last - 1 : Another(m.places[i], m.places[i + 1], m.text)
       /\ last = n => Closes(m.places[n], m) \/ BreaksOff(m.places[n], m)
       /\ last = n + 1 => m.stop = 0 /\ GoesWrong(m.places[last], m.text)
       /\ LET first == m.start - Len(dash_boundary_crlf_)
          IN /\ first >= 0 /\ At(m.text, first, dash_boundary_crlf_)
             /\ \A i \in 0 .. first - 1 : ~At(m.text, i, dash_boundary_crlf_)
       /\ \A i \in 0 .. Len(m.text) : At(m.text, i, dash_boundary_crlf_) =>
             \E p \in 1 .. last : m.places[p].head = i + Len(dash_boundary_crlf_)

\* No well-formed header line exceeds the limit, its CR included.
ASSUME MultipartAssumption ==
    /\ {CR, LF, Dash} \cup Fields \subseteq Characters
    /\ CR # Dash /\ {CR, LF} \cap Fields = {}
    /\ Boundary \in Seq(Characters)
    /\ HeaderMax \in Nat /\ HeaderMax >= 2
    /\ Verdicts \subseteq BOOLEAN
    /\ \A m \in Messages : IsMessage(m)

-----------------------------------------------------------------------------
(* The parser. *)

VARIABLES
    message,    \* the message that is parsed
    input,      \* what of it has not been given to parse() yet
    pc,         \* where parse() is: "idle", "loop", "headers", or "failed"
                \* for good, having returned false
    buf,        \* buf_ from buf_spos_ to buf_epos_
    state_,
    is_valid_,
    file_,      \* the fields set since the part began
    parts,      \* what the callbacks took: header and body of each part
    refused,    \* history: a callback returned false
    cuts        \* history: a chunk has cut the "start", that is, the initial
                \* boundary or what precedes it, or the "end", that is, come
                \* in behind the close delimiter

vars == <<message, input, pc, buf, state_, is_valid_, file_, parts, refused, cuts>>

Init ==
    /\ message \in Messages
    /\ input = message.text
    /\ pc = "idle"
    /\ buf = <<>>
    /\ state_ = 0
    /\ is_valid_ = FALSE
    /\ file_ = {}
    /\ parts = <<>>
    /\ refused = FALSE
    /\ cuts = {}

-----------------------------------------------------------------------------
(* The buffer. *)

StartsWith(s) == IsPrefix(s, buf)

From(i) == SubSeq(buf, i + 1, Len(buf))

\* The offset of s in the buffer, or the buffer's size.
Find(s) == Min({i \in 0 .. Len(buf) - Len(s) : SubSeq(buf, i + 1, i + Len(s)) = s}
               \cup {Len(buf)})

-----------------------------------------------------------------------------
(* parse(). *)

\* The caller gives parse() the next n characters.
Feed(n) ==
    LET fed == Len(message.text) - Len(input)
    IN /\ pc = "idle"
       /\ n \in 1 .. Len(input)
       /\ cuts' = cuts \cup (IF fed = 0 /\ n < message.start THEN {"start"} ELSE {})
                       \cup (IF message.stop \in 1 .. fed THEN {"end"} ELSE {})
       /\ buf' = buf \o SubSeq(input, 1, n)
       /\ input' = SubSeq(input, n + 1, Len(input))
       /\ pc' = "loop"
       /\ UNCHANGED <<message, state_, is_valid_, file_, parts, refused>>

\* Nothing is left in the buffer.
ParseReturns ==
    /\ pc = "loop"
    /\ buf = <<>>
    /\ pc' = "idle"
    /\ UNCHANGED <<message, input, buf, state_, is_valid_, file_, parts, refused, cuts>>

Turn(s) == pc = "loop" /\ buf # <<>> /\ state_ = s

\* All up to the boundary is dropped, or, if it is not there, the whole
\* buffer.  (What is left starts with the boundary or is too short for it:
\* the `return false` of this state is not reached.)
InitialBoundary ==
    /\ Turn(0)
    /\ LET rest == From(Find(dash_boundary_crlf_))
       IN IF Len(dash_boundary_crlf_) > Len(rest)
          THEN buf' = rest /\ pc' = "idle" /\ UNCHANGED state_
          ELSE /\ buf' = SubSeq(rest, Len(dash_boundary_crlf_) + 1, Len(rest))
               /\ state_' = 1
               /\ UNCHANGED pc
    /\ UNCHANGED <<message, input, is_valid_, file_, parts, refused, cuts>>

NewEntry ==
    /\ Turn(1)
    /\ file_' = {}
    /\ state_' = 2
    /\ UNCHANGED <<message, input, pc, buf, is_valid_, parts, refused, cuts>>

\* Only the first header line of a turn is held against the limit.
Headers ==
    /\ Turn(2)
    /\ pc' = IF Find(crlf_) > HeaderMax THEN "failed" ELSE "headers"
    /\ UNCHANGED <<message, input, buf, state_, is_valid_, file_, parts, refused, cuts>>

\* A header line that is not all there waits for the next chunk.
HeaderMissing ==
    /\ pc = "headers"
    /\ Find(crlf_) = Len(buf)
    /\ pc' = "idle"
    /\ UNCHANGED <<message, input, buf, state_, is_valid_, file_, parts, refused, cuts>>

HeaderLine ==
    /\ pc = "headers"
    /\ Find(crlf_) \in 1 .. Len(buf) - 1
    /\ IF \E f \in Fields : SubSeq(buf, 1, Find(crlf_)) = <<f>>
       THEN /\ buf' = From(Find(crlf_) + 2)
            /\ file_' = file_ \cup {buf[1]}
            /\ UNCHANGED <<pc, is_valid_>>
       ELSE /\ pc' = "failed"
            /\ is_valid_' = FALSE
            /\ UNCHANGED <<buf, file_>>
    /\ UNCHANGED <<message, input, state_, parts, refused, cuts>>

\* A callback returned false, and so does parse().
Refuse ==
    /\ pc' = "failed"
    /\ is_valid_' = FALSE
    /\ refused' = TRUE
    /\ UNCHANGED <<message, input, buf, state_, file_, parts, cuts>>

\* The empty line: the header is handed to header_callback.
HeaderEnd(verdict) ==
    /\ pc = "headers"
    /\ buf # <<>>
    /\ Find(crlf_) = 0
    /\ IF verdict
       THEN /\ parts' = Append(parts, [header |-> file_, body |-> <<>>])
            /\ buf' = From(2)
            /\ state_' = 3
            /\ pc' = "loop"
            /\ UNCHANGED <<message, input, is_valid_, file_, refused, cuts>>
       ELSE Refuse

\* content_callback is given the first n characters of the buffer.
Deliver(n) == parts' = [parts EXCEPT ![Len(parts)].body = @ \o SubSeq(buf, 1, n)]

\* Mutated form of BodyEnd: the last character before the delimiter is lost.
BodyEndShort(verdict) ==
    /\ Turn(3)
    /\ Find(crlf_dash_boundary_) < Len(buf)
    /\ IF verdict
       THEN /\ Deliver(Find(crlf_dash_boundary_) - 1)
            /\ buf' = From(Find(crlf_dash_boundary_) + Len(crlf_dash_boundary_))
            /\ state_' = 4
            /\ UNCHANGED <<message, input, pc, is_valid_, file_, refused, cuts>>
       ELSE Refuse

\* The delimiter is there: the body ends.
BodyEnd(verdict) ==
    /\ Turn(3)
    /\ Find(crlf_dash_boundary_) < Len(buf)
    /\ IF verdict
       THEN /\ Deliver(Find(crlf_dash_boundary_))
            /\ buf' = From(Find(crlf_dash_boundary_) + Len(crlf_dash_boundary_))
            /\ state_' = 4
            /\ UNCHANGED <<message, input, pc, is_valid_, file_, refused, cuts>>
       ELSE Refuse

\* Mutated form of BodyMore: a delimiter that is cut is taken for the body's.
BodyMoreShort(verdict) ==
    /\ Turn(3)
    /\ Len(crlf_dash_boundary_) <= Len(buf)
    /\ Find(crlf_dash_boundary_) = Len(buf)
    /\ IF verdict
       THEN /\ Deliver(Len(buf) - 2)
            /\ buf' = From(Len(buf) - 2)
            /\ pc' = "idle"
            /\ UNCHANGED <<message, input, state_, is_valid_, file_, refused, cuts>>
       ELSE Refuse

\* It is not: as much as cannot belong to it is handed on.
BodyMore(verdict) ==
    LET n == Len(buf) - Len(crlf_dash_boundary_)
    IN /\ Turn(3)
       /\ n > 0
       /\ Find(crlf_dash_boundary_) = Len(buf)
       /\ IF verdict
          THEN /\ Deliver(n)
               /\ buf' = From(n)
               /\ pc' = "idle"
               /\ UNCHANGED <<message, input, state_, is_valid_, file_, refused, cuts>>
          ELSE Refuse

\* The buffer is too short to hold the delimiter and a character of the body.
BodyWait ==
    /\ Turn(3)
    /\ Len(buf) <= Len(crlf_dash_boundary_)
    /\ buf # crlf_dash_boundary_
    /\ pc' = "idle"
    /\ UNCHANGED <<message, input, buf, state_, is_valid_, file_, parts, refused, cuts>>

\* Mutated form of Closed: the delimiter may not end the buffer.
ClosedLong == StartsWith(dash_crlf_) /\ Len(buf) > Len(dash_crlf_)

Closed == StartsWith(dash_crlf_)

\* The close delimiter: what follows it in the buffer is dropped.
BoundaryEnd ==
    /\ Turn(4)
    /\ Closed
    /\ buf' = <<>>
    /\ is_valid_' = TRUE
    /\ UNCHANGED <<message, input, pc, state_, file_, parts, refused, cuts>>

\* Another part follows.
BoundaryNext ==
    /\ Turn(4)
    /\ StartsWith(crlf_)
    /\ buf' = From(2)
    /\ state_' = 1
    /\ UNCHANGED <<message, input, pc, is_valid_, file_, parts, refused, cuts>>

\* Neither, or not yet.
BoundaryWait ==
    /\ Turn(4)
    /\ ~StartsWith(crlf_) /\ ~Closed
    /\ pc' = "idle"
    /\ UNCHANGED <<message, input, buf, state_, is_valid_, file_, parts, refused, cuts>>

Next ==
    \/ \E n \in 1 .. Len(input) : Feed(n)
    \/ ParseReturns \/ InitialBoundary \/ NewEntry
    \/ Headers \/ HeaderMissing \/ HeaderLine
    \/ \E verdict \in Verdicts : HeaderEnd(verdict) \/ BodyEnd(verdict) \/ BodyMore(verdict)
    \/ BodyWait \/ BoundaryEnd \/ BoundaryNext \/ BoundaryWait

Spec == Init /\ [][Next]_vars

-----------------------------------------------------------------------------
(* Safety. *)

\* The type invariant, with what each state of the parser rests on.
TypeOK ==
    /\ message \in Messages
    /\ IsSuffix(input, message.text)
    /\ pc \in {"idle", "loop", "headers", "failed"}
    /\ Len(buf) <= Len(message.text) - Len(input)
    /\ state_ \in 0 .. 4
    /\ is_valid_ \in BOOLEAN /\ refused \in BOOLEAN
    /\ cuts \subseteq {"start", "end"}
    /\ file_ \subseteq Fields
    /\ pc = "headers" => state_ = 2
    /\ state_ \in {3, 4} => parts # <<>>
    /\ is_valid_ /\ "end" \notin cuts => state_ = 4 /\ buf = <<>>

\* The parts taken are parts k + 1, k + 2, ... of the message, each with the
\* header that is its own, and of the last as much of the body as is known.
TakenFrom(k) ==
    /\ Len(parts) <= Len(message.parts) - k
    /\ \A i \in DOMAIN parts :
          /\ parts[i].header = message.parts[k + i].header
          /\ IF i < Len(parts) THEN parts[i].body = message.parts[k + i].body
             ELSE IsPrefix(parts[i].body, message.parts[k + i].body)

\* Wherever the chunks cut the parts of the message, the callbacks get them
\* in order, whole and from the first.
DeliveredInOrder == cuts = {} => TakenFrom(0)

\* Whichever way the input is cut, in the initial boundary or elsewhere, a
\* part that the callbacks get is one of the message, and of those that
\* follow it none is left out: only leading parts can be missed.
NoPartIsTorn == "end" \notin cuts => \E k \in 0 .. Len(message.parts) : TakenFrom(k)

\* What the callbacks have been given, at every turn of the parser, is a run
\* of parts of the message.
PartsInv == TypeOK /\ DeliveredInOrder /\ NoPartIsTorn

\* is_valid() means that the callbacks have had the whole message.
ValidMeansComplete ==
    is_valid_ /\ cuts = {} => message.stop # 0 /\ parts = message.parts

\* A message that is well formed and has been given to parse() has been
\* delivered: the parser holds nothing back that no further chunk will free.
NothingIsHeldBack ==
    input = <<>> /\ pc = "idle" /\ message.stop # 0 /\ cuts = {} => is_valid_

\* parse() returns false only if a callback does or the message is malformed.
FailsForACause ==
    pc = "failed" /\ "end" \notin cuts => refused \/ message.stop = 0

\* The two verdicts of the parser, is_valid() and the result of parse(), are
\* about the message: neither is given for what the chunks happen to be.
VerdictIsRight == ValidMeansComplete /\ FailsForACause
=============================================================================
