-------------------------- MODULE MCMultipartParser -------------------------
(***************************************************************************)
(* MultipartParser for TLC: messages put together from their parts, with   *)
(* bodies that look like delimiters, a preamble and an epilogue, and some  *)
(* that are malformed.                                                     *)
(***************************************************************************)
EXTENDS MultipartParser

CONSTANTS T, D, b, x

MCBoundary == <<b, b>>
MCFields == {T, D}

\* The lines of a header, and the empty line.
HeaderText(lines) ==
    FoldLeft(LAMBDA text, line : text \o <<line>> \o crlf_, <<>>, lines) \o crlf_

Part(lines, body) == [lines |-> lines, body |-> body]

\* What the callbacks are to get of the parts.
Meaning(ps) == [i \in DOMAIN ps |-> [header |-> ToSet(ps[i].lines), body |-> ps[i].body]]

PartText(part) == HeaderText(part.lines) \o part.body \o crlf_dash_boundary_

\* The place of a part whose header begins at head.
Place(part, head) ==
    [head |-> head, lines |-> Len(part.lines),
     to |-> head + Len(HeaderText(part.lines)) + Len(part.body)]

\* The parts behind an initial boundary, with a CRLF after all their
\* delimiters but the last.
Placed(preamble, ps) ==
    FoldLeft(LAMBDA all, p :
                 LET text == IF all.places = <<>> THEN all.text ELSE all.text \o crlf_
                 IN [text |-> text \o PartText(p),
                     places |-> Append(all.places, Place(p, Len(text)))],
             [text |-> preamble \o dash_boundary_crlf_, places |-> <<>>], ps)

Message(preamble, ps, epilogue) ==
    LET all == Placed(preamble, ps)
        whole == all.text \o dash_crlf_
    IN [text |-> whole \o epilogue, parts |-> Meaning(ps), places |-> all.places,
        start |-> all.places[1].head, stop |-> Len(whole)]

\* A text that ends, or goes wrong, behind the delimiter of its parts.
Malformed(ps, rest) ==
    LET all == Placed(<<>>, ps)
    IN [text |-> all.text \o rest, parts |-> Meaning(ps), places |-> all.places,
        start |-> all.places[1].head, stop |-> 0]

\* One that goes wrong in another header, behind its lines.
MalformedHeader(ps, lines, rest) ==
    LET all == Placed(<<>>, ps)
        text == IF ps = <<>> THEN all.text ELSE all.text \o crlf_
        open == [head |-> Len(text), lines |-> Len(lines), to |-> 0]
        places == Append(all.places, open)
    IN [text |-> text \o FoldLeft(LAMBDA t, line : t \o <<line>> \o crlf_, <<>>, lines) \o rest,
        parts |-> Meaning(ps), places |-> places, start |-> places[1].head, stop |-> 0]

\* One that ends in the body of its last part.
CutOff(ps, last) ==
    LET all == Placed(<<>>, Append(ps, last))
    IN [text |-> SubSeq(all.text, 1, Len(all.text) - Len(crlf_dash_boundary_)),
        parts |-> Meaning(Append(ps, last)), places |-> all.places,
        start |-> all.places[1].head, stop |-> 0]

NearMiss == <<x, CR, LF, Dash, Dash, b, x, CR>>
One == Part(<<T, D>>, NearMiss)
Two == Part(<<D>>, <<>>)
Three == Part(<<>>, <<CR, CR, LF, Dash, Dash>>)

MCMessages ==
    {Message(<<>>, <<Two>>, <<>>),
     Message(<<x>>, <<One, Two, Three>>, <<>>),
     Message(<<Dash>>, <<Three, One>>, crlf_ \o <<x>> \o crlf_),
     Message(<<>>, <<Two, Two>>, <<x>>),
     MalformedHeader(<<One, Two>>, <<T>>, <<x>> \o crlf_ \o crlf_),
     MalformedHeader(<<Three>>, <<>>, <<x, x, x, x, x>> \o crlf_),
     MalformedHeader(<<>>, <<D>>, <<T, CR>>),
     CutOff(<<Two>>, One),
     Malformed(<<One>>, <<x>> \o crlf_),
     Malformed(<<Two>>, <<>>)}
=============================================================================
