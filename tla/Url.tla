-------------------------------- MODULE Url ---------------------------------
(***************************************************************************)
(* url_parse() and url_parse_requri() (include/ccl2/url.h, src/url.cpp):   *)
(* from the text of a URL to its parts, with the path, the query and the   *)
(* fragment made canonical first.                                          *)
(*                                                                         *)
(* Texts are sequences of bytes, with two additions: Esc(b) is an escape   *)
(* "%XX" of byte b, in either case, and BadEsc a "%" that is not followed  *)
(* by two hexadecimal digits.                                              *)
(***************************************************************************)
EXTENDS Integers, Sequences, SequencesExt

CONSTANTS
    RawUrls,        \* texts given to url_parse()
    Targets,        \* texts given to url_parse_requri()
    UnixScheme,     \* the scheme "unix"
    DefaultPorts,   \* the port of each scheme that has one
    AnyPort,        \* what an int that was not initialised may hold
    MaxCalls        \* bound: calls of url_parse() on one url_t

Percent == 37
Hash    == 35
Star    == 42
Plus    == 43
Minus   == 45
Dot     == 46
Slash   == 47
Colon   == 58
Query   == 63
At      == 64
Open    == 91
Close   == 93
Digits  == 48 .. 57
Letters == (65 .. 90) \cup (97 .. 122)
Spaces  == (9 .. 13) \cup {32}

\* Where an authority ends.
Separators == {Slash, Query, Hash}

Esc(b) == 256 + b
BadEsc == 512

\* What stands in a text: no NUL, which would end it.
Bytes == 1 .. BadEsc

NotDigits == (0 .. BadEsc) \ Digits
NotSpaces == (0 .. BadEsc) \ Spaces

\* A URL that ends in "@" is left out: url_parse() reads behind its end.
ASSUME UrlAssumption ==
    /\ RawUrls \subseteq Seq(Bytes) /\ Targets \subseteq Seq(Bytes)
    /\ \A u \in RawUrls : u # <<>> => Last(u) # At
    /\ AnyPort # {} /\ AnyPort \subseteq Int
    /\ MaxCalls \in Nat

VARIABLES
    url,    \* the url_t
    ok,     \* what the last call returned
    asked,  \* history: the text given to the last call
    calls   \* calls of url_parse()

vars == <<url, ok, asked, calls>>

nport == -1

Init ==
    /\ \E p \in AnyPort :
          url = [scheme |-> <<>>, userinfo |-> <<>>, host |-> <<>>, hostname |-> <<>>,
                 port |-> p, requri |-> <<>>, path |-> <<>>, query |-> <<>>,
                 fragment |-> <<>>]
    /\ ok = TRUE
    /\ asked = <<>>
    /\ calls = 0

-----------------------------------------------------------------------------
(* Texts. *)

\* The position of the first of the bytes bs in t from i on, or behind t.
FirstOf(t, i, bs) == Min({j \in i .. Len(t) : t[j] \in bs} \cup {Len(t) + 1})

\* t without its first n elements.
From(t, n) == SubSeq(t, n + 1, Len(t))

-----------------------------------------------------------------------------
(* url_canonify_uri: four passes over a path with its query and fragment. *)

\* An escaped byte that may stand for itself, those of UTF-8 among them.
Safe(b) == b \in Letters \cup Digits \cup {Dot, 126, 95, 45} \/ b >= 128

\* First pass: what need not be escaped is not.
Unescape(t) ==
    [i \in DOMAIN t |-> IF t[i] \in 256 .. 511 /\ Safe(t[i] - 256) THEN t[i] - 256 ELSE t[i]]

\* The path ends at the query or the fragment.
PathEnd(t) == FirstOf(t, 1, {Query, Hash})

\* Mutated form of Redundant: of a run of slashes, only the second goes.
RedundantOnce(t, i) ==
    i \in 2 .. PathEnd(t) - 1 /\ t[i] = Slash /\ t[i - 1] = Slash /\ ~(i > 2 /\ t[i - 2] = Slash)

\* A slash of the path that follows another.
Redundant(t, i) == i \in 2 .. PathEnd(t) - 1 /\ t[i] = Slash /\ t[i - 1] = Slash

\* Second pass: a run of slashes in the path becomes one; what is left of the
\* first i bytes.
Collapsed(t) ==
    LET out[i \in 0 .. Len(t)] ==
            IF i = 0 THEN <<>>
            ELSE IF Redundant(t, i) THEN out[i - 1] ELSE Append(out[i - 1], t[i])
    IN out

Collapse(t) == Collapsed(t)[Len(t)]

\* The last element of a path, with its slash, is taken off.
Popped(out) ==
    SubSeq(out, 1, Max({i \in DOMAIN out : out[i] = Slash} \cup {1}) - 1)

\* Behind the slash at i in the path stands the element e, and nothing more.
Holds(t, i, e) ==
    /\ i < PathEnd(t) /\ t[i] = Slash
    /\ SubSeq(t, i + 1, FirstOf(t, i + 1, {Slash, Query, Hash}) - 1) = e

\* Third pass: "/.." takes the element before it along, "/." goes; what is
\* left of the first i bytes, and how many of the next are passed over.
Reduced(t) ==
    LET acc[i \in 0 .. Len(t)] ==
            IF i = 0 THEN [out |-> <<>>, skip |-> 0]
            ELSE LET was == acc[i - 1]
                 IN IF was.skip > 0 THEN [out |-> was.out, skip |-> was.skip - 1]
                    ELSE IF Holds(t, i, <<Dot, Dot>>) THEN [out |-> Popped(was.out), skip |-> 2]
                    ELSE IF Holds(t, i, <<Dot>>) THEN [out |-> was.out, skip |-> 1]
                    ELSE [out |-> Append(was.out, t[i]), skip |-> 0]
    IN acc

Resolve(t) == Reduced(t)[Len(t)].out

\* The byte that stands at position i of the text, or the NUL behind it.
ByteAt(t, i) == IF i > Len(t) THEN 0 ELSE IF t[i] > 255 THEN Percent ELSE t[i]

\* The bytes a UTF-8 sequence has behind the one it starts with.
Following(b) ==
    IF b < 128 THEN 0 ELSE IF b \in 192 .. 223 THEN 1
    ELSE IF b \in 224 .. 239 THEN 2 ELSE IF b \in 240 .. 247 THEN 3 ELSE -1

Least(n) == <<128, 2048, 65536>>[n]

\* The code point of the sequence at i, that has n bytes behind the first.  The
\* pointer moves on before the byte is added, so each of them gives way to its
\* successor.
CodePoint(t, i, n) ==
    LET lead == ByteAt(t, i) % <<32, 16, 8>>[n]
    IN FoldLeft(LAMBDA u, k : (u * 64) + (ByteAt(t, i + k + 1) % 64), lead, [k \in 1 .. n |-> k])

\* Last pass: url_utf8_validate.
Utf8Valid(t) ==
    LET valid[i \in 1 .. Len(t) + 1] ==
            IF i > Len(t) THEN TRUE
            ELSE LET n == Following(ByteAt(t, i))
                     v == CodePoint(t, i, n)
                 IN \/ n = 0 /\ valid[i + 1]
                    \/ /\ n > 0
                       /\ \A k \in 1 .. n : ByteAt(t, i + k) \in 128 .. 191
                       /\ v >= Least(n) /\ v \notin 55296 .. 57343 /\ v <= 1114111
                       /\ valid[i + n + 1]
    IN valid[1]

Canonical(t) == Resolve(Collapse(Unescape(t)))

\* url_canonify_uri returns 0.
Canonifies(t) == (\A i \in DOMAIN t : t[i] # BadEsc) /\ Utf8Valid(Canonical(t))

\* What is left in requri after a failure, which no caller reads.
HalfRewritten == <<BadEsc>>

-----------------------------------------------------------------------------
(* url_parse_requri, on the url_t u. *)

\* The parts that are there are set; the others stay as they are.
WithRequri(u, t) ==
    LET requri == Canonical(t)
        q == PathEnd(requri)
        f == FirstOf(requri, q, {Hash})
    IN IF ~Canonifies(t) THEN [u EXCEPT !.requri = HalfRewritten]
       ELSE [u EXCEPT !.requri   = requri,
                      !.path     = SubSeq(requri, 1, q - 1),
                      !.query    = IF q < f THEN SubSeq(requri, q + 1, f - 1) ELSE @,
                      !.fragment = IF f <= Len(requri) THEN From(requri, f) ELSE @]

-----------------------------------------------------------------------------
(* url_parse. *)

\* The authority, up to the path: where its host begins and ends, if that is
\* in the first i bytes.  A user that comes on top of one in u is an error, and
\* the byte behind an "@" is not looked at.
Scanned(u, rest) ==
    LET acc[i \in 0 .. Len(rest)] ==
            IF i = 0 THEN [begin |-> 1, end |-> 0, user |-> u.userinfo, failed |-> FALSE]
            ELSE LET was == acc[i - 1]
                 IN IF was.end # 0 \/ was.failed \/ (i = was.begin /\ i > 1) THEN was
                    ELSE IF rest[i] \in Separators THEN [was EXCEPT !.end = i]
                    ELSE IF rest[i] # At THEN was
                    ELSE IF was.user # <<>> THEN [was EXCEPT !.failed = TRUE]
                    ELSE [was EXCEPT !.user = SubSeq(rest, was.begin, i - 1), !.begin = i + 1]
    IN acc

Scan(u, rest) ==
    LET all == Scanned(u, rest)[Len(rest)]
    IN IF all.end = 0 THEN [all EXCEPT !.end = Len(rest) + 1] ELSE all

\* Mutated form of HostOf: a "*" is left out whatever follows it.
HostOfAny(authority, next) ==
    IF Len(authority) > 0 /\ authority[1] = Star THEN Tail(authority) ELSE authority

\* The host, without a "*" in front of a colon.  (A "*" alone stays: the
\* code looks for it behind the host, where a separator stands.)
HostOf(authority, next) ==
    IF \/ Len(authority) = 1 /\ next = Star
       \/ Len(authority) > 1 /\ SubSeq(authority, 1, 2) = <<Star, Colon>>
    THEN Tail(authority) ELSE authority

\* The number that digits make, and what an int holds.
Number(digits) == FoldLeft(LAMBDA v, b : (v * 10) + b - 48, 0, digits)

Ints == (-2147483647 - 1) .. 2147483647

\* The port at the end of a host, t.  Of a text behind a colon std::stoi takes
\* white space, a sign and digits, and ignores the rest; what is no number, or
\* none that an int holds, is no port, and neither is -1.
PortOf(scheme, t) ==
    LET a == FirstOf(t, 2, NotSpaces)
        b == IF ByteAt(t, a) \in {Plus, Minus} THEN a + 1 ELSE a
        n == FirstOf(t, b, NotDigits)
        digits == Number(SubSeq(t, b, n - 1))
        port == IF ByteAt(t, a) = Minus THEN -digits ELSE digits
    IN IF ByteAt(t, 1) = Colon
       THEN IF n > b /\ port \in Ints THEN port ELSE nport
       ELSE IF scheme \in DOMAIN DefaultPorts THEN DefaultPorts[scheme] ELSE nport

\* The host split into name and port, and whether that succeeds.
WithHostname(u) ==
    LET v6 == ByteAt(u.host, 1) = Open
        name == IF v6 THEN Tail(u.host) ELSE u.host
        end == FirstOf(name, 1, {IF v6 THEN Close ELSE Colon})
        behind == From(name, IF v6 THEN end ELSE end - 1)
        port == PortOf(u.scheme, behind)
    IN IF v6 /\ (end > Len(name) \/ ByteAt(behind, 1) \notin {Colon, 0})
       THEN [ok |-> FALSE, url |-> u]
       ELSE [ok |-> port # nport,
             url |-> [u EXCEPT !.hostname = SubSeq(name, 1, end - 1), !.port = port]]

\* The whole of url_parse: each part is assigned as soon as it is known.
Parsed(u, raw) ==
    LET s == FirstOf(raw, 1, {Colon})
        schemed == [u EXCEPT !.scheme = SubSeq(raw, 1, s - 1)]
        rest == From(raw, s + 2)
        scan == Scan(u, rest)
        authority == SubSeq(rest, scan.begin, scan.end - 1)
        target == From(rest, scan.end - 1)
        hosted == [schemed EXCEPT !.userinfo = scan.user,
                                  !.host = HostOf(authority, ByteAt(target, 1))]
    IN IF ~IsPrefix(<<Colon, Slash, Slash>>, From(raw, s - 1)) THEN [ok |-> FALSE, url |-> u]
       ELSE IF schemed.scheme = UnixScheme
       THEN [ok |-> TRUE, url |-> [schemed EXCEPT !.path = rest]]
       ELSE IF scan.failed
       THEN [ok |-> FALSE, url |-> [schemed EXCEPT !.userinfo = scan.user]]
       ELSE IF ~Canonifies(target) THEN [ok |-> FALSE, url |-> WithRequri(hosted, target)]
       ELSE WithHostname(WithRequri(hosted, target))

-----------------------------------------------------------------------------

\* A url_t may be used for one URL after the other, as in test_url.cpp.
Parse(raw) ==
    /\ calls < MaxCalls
    /\ asked = <<>> \/ calls > 0
    /\ LET p == Parsed(url, raw) IN url' = p.url /\ ok' = p.ok
    /\ asked' = raw
    /\ calls' = calls + 1

\* The router hands in a new url_t with every request.
ParseRequri(t) ==
    /\ asked = <<>> /\ calls = 0
    /\ url' = WithRequri(url, t)
    /\ ok' = Canonifies(t)
    /\ asked' = t
    /\ UNCHANGED calls

Next ==
    \/ \E raw \in RawUrls : Parse(raw)
    \/ \E t \in Targets : ParseRequri(t)

Spec == Init /\ [][Next]_vars

-----------------------------------------------------------------------------
(* What a path means: the places its elements lead through.                *)

\* The element that the slash at i begins.
ElementAt(path, i) == SubSeq(path, i, FirstOf(path, i + 1, {Slash}) - 1)

\* The places that the first i bytes of a path lead through, one below the
\* other, each with its whole name: what precedes the first slash is one, and
\* so is what an element leads to.  But "." and an empty element stay, except
\* an empty one at the end, and ".." goes back, if there is a way back.
Entered(path) ==
    LET first == SubSeq(path, 1, FirstOf(path, 1, {Slash}) - 1)
        places[i \in 0 .. Len(path)] ==
            IF i = 0 THEN IF first = <<>> THEN << <<>> >> ELSE << <<>>, first >>
            ELSE LET was == places[i - 1]
                     e == ElementAt(path, i)
                 IN IF \/ path[i] # Slash \/ e = <<Slash, Dot>>
                       \/ e = <<Slash>> /\ i < Len(path)
                    THEN was
                    ELSE IF e # <<Slash, Dot, Dot>> THEN Append(was, Last(was) \o e)
                    ELSE IF Len(was) > 1 THEN Front(was) ELSE was
    IN places

\* The place it leads to.
Normal(path) == Last(Entered(path)[Len(path)])

-----------------------------------------------------------------------------
(* Safety. *)

\* A canonical text is a fixed point: what the in-place passes leave has
\* nothing for any of them to do, so that parsing requri again, as a program
\* that passes a request on may do, changes nothing.
CanonicalIsFixed ==
    ok /\ url.scheme # UnixScheme =>
        WithRequri(url, url.requri) = url /\ Canonifies(url.requri)

\* The path of a request is the one a reader makes of its elements, however
\* slashes, dots and their escapes are mixed.  One that begins with a slash
\* never leads above the root.
PathIsResolved ==
    ok /\ calls = 0 =>
        url.path = Normal(SubSeq(Unescape(asked), 1, PathEnd(asked) - 1))

CanonicalForm == CanonicalIsFixed /\ PathIsResolved

\* What may stand in front of the host of u: nothing, or a user and "@", and
\* an "@" before that, as an empty user does not keep another from following.
\* Of a URL that has no user, the url_t keeps the one it had before.
Fronts(u, before) ==
    (IF u.userinfo = <<>> THEN {<<At>>}
     ELSE {u.userinfo \o <<At>>, <<At>> \o u.userinfo \o <<At>>})
        \cup (IF u.userinfo = before.userinfo THEN {<<>>} ELSE {})

\* The URL is a scheme, what may stand in front of a host, the host, and a
\* target; only a "*" before a colon is left out.  The host ends at the first
\* separator, but the byte behind an "@" may be one, or an "@".
Recomposes(raw, u, before) ==
    \E i \in 0 .. Len(raw), front \in Fronts(u, before), star \in {<<>>, <<Star>>} :
        /\ SubSeq(raw, 1, i) = u.scheme \o <<Colon, Slash, Slash>> \o (front \o star \o u.host)
        /\ \A j \in DOMAIN u.scheme : u.scheme[j] # Colon
        /\ star # <<>> => ByteAt(u.host, 1) = Colon
        /\ \A j \in DOMAIN u.host :
              u.host[j] \in Separators \cup {At} => j = 1 /\ front # <<>>
        /\ i < Len(raw) => raw[i + 1] \in Separators
        /\ u.requri = Canonical(From(raw, i))

\* The target is a path, a query behind "?" and a fragment behind "#".  Of a
\* target without one of these, the url_t keeps what it had before.
TargetRecomposes(u, before) ==
    \E query \in {<<>>, <<Query>> \o u.query}, fragment \in {<<>>, <<Hash>> \o u.fragment} :
        /\ u.requri = u.path \o query \o fragment
        /\ \A i \in DOMAIN u.path : u.path[i] \notin {Query, Hash}
        /\ IF query = <<>> THEN u.query = before.query
           ELSE \A i \in DOMAIN u.query : u.query[i] # Hash
        /\ fragment = <<>> => u.fragment = before.fragment

\* The text t is read as this number: behind white space and a sign stand all
\* of its digits.
ReadAs(t, number) ==
    \E a \in 0 .. Len(t), sign \in {<<>>, <<Plus>>, <<Minus>>}, n \in 1 .. Len(t) :
        LET b == a + Len(sign)
        IN /\ b < n
           /\ \A i \in 1 .. a : t[i] \in Spaces
           /\ SubSeq(t, a + 1, b) = sign
           /\ \A i \in b + 1 .. n : t[i] \in Digits
           /\ n < Len(t) => t[n + 1] \notin Digits
           /\ LET digits == Number(SubSeq(t, b + 1, n))
              IN number = IF sign = <<Minus>> THEN -digits ELSE digits

\* The host is the name, in brackets or not, alone or with the port.
HostRecomposes(u) ==
    LET v6 == ByteAt(u.host, 1) = Open
        name == IF v6 THEN <<Open>> \o u.hostname \o <<Close>> ELSE u.hostname
    IN /\ \A i \in DOMAIN u.hostname : u.hostname[i] # (IF v6 THEN Close ELSE Colon)
       /\ \/ /\ u.host = name
             /\ u.scheme \in DOMAIN DefaultPorts
             /\ u.port = DefaultPorts[u.scheme]
          \/ /\ IsPrefix(name \o <<Colon>>, u.host)
             /\ ReadAs(From(u.host, Len(name) + 1), u.port)
             /\ u.port \in Ints /\ u.port # nport

\* The parts give back the URL: nothing of it is lost between them, or ends
\* up in two of them, and the port is the number behind the host or that of
\* the scheme.  A url_t that is used again has the parts of the new URL, and
\* keeps its user, query or fragment only if the new one has none.
PartsRecompose ==
    [][ok' /\ calls' > calls =>
          IF url'.scheme = UnixScheme
          THEN asked' = url'.scheme \o <<Colon, Slash, Slash>> \o url'.path
          ELSE /\ Recomposes(asked', url', url)
               /\ TargetRecomposes(url', url)
               /\ HostRecomposes(url')]_vars
=============================================================================
