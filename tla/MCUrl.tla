------------------------------- MODULE MCUrl --------------------------------
(***************************************************************************)
(* Url for TLC: every target of up to MaxText elements over a small        *)
(* alphabet, alone and behind a slash, paths of up to four elements,       *)
(* targets with UTF-8 in them, and URLs put together from schemes, users,  *)
(* hosts and targets, well formed and not.                                 *)
(***************************************************************************)
EXTENDS Url

CONSTANT MaxText

\* Of a scheme one letter is enough: h for http, u for unix, x for any other.
Http == <<104>>   \* "h"
MCUnix == <<117>>
Other == <<120>>
MCPorts == [s \in {Http} |-> 80]
MCAnyPort == {nport, 0}

a == 97

\* "/", ".", "%2E", "a", "?" and "%2F"
Alphabet == {Slash, Dot, Esc(Dot), a, Query, Esc(Slash)}

\* "%C3", a byte C3, E2, 82, 80 and "a": sequences that are whole, cut, too
\* long or without a beginning.
HighBytes == {Esc(195), 195, 226, 130, 128, a}

Texts(bytes, n) == UNION {[1 .. k -> bytes] : k \in 0 .. n}

\* "/", "/a", "/.", "/.." and "/%2E."
PathElements == {<<Slash>>, <<Slash, a>>, <<Slash, Dot>>, <<Slash, Dot, Dot>>,
                 <<Slash, Esc(Dot), Dot>>}

MCTargets ==
    Texts(Alphabet, MaxText) \cup {<<Slash>> \o t : t \in Texts(Alphabet, MaxText)}
        \cup {FlattenSeq(t) : t \in Texts(PathElements, 4)}
        \cup {<<Slash>> \o t : t \in Texts(HighBytes, 3)}
        \cup {<<Slash, BadEsc>>, <<a, Hash, Slash, Query, Slash, Slash>>}

Users == {<<>>, <<a, At>>, <<At>>, <<a, At, a, At>>, <<At, a, At>>}

\* "", "a", "*", "*:8", ":80", "a:", "a:8", "a:a", "[:a]", "[a]:8", "[a" and "[a]a"
Hosts == {<<>>, <<a>>, <<Star>>, <<Star, Colon, 56>>, <<Colon, 56, 48>>, <<a, Colon>>,
          <<a, Colon, 56>>, <<a, Colon, a>>, <<Open, Colon, a, Close>>,
          <<Open, a, Close, Colon, 56>>, <<Open, a>>, <<Open, a, Close, a>>}

\* "a:-8", "a: 8", "a:+8a", "a:-1", "a: -", "a:8:" and "a:- 8"
OddPorts == {<<a, Colon, Minus, 56>>, <<a, Colon, 32, 56>>, <<a, Colon, Plus, 56, a>>,
             <<a, Colon, Minus, 49>>, <<a, Colon, 32, Minus>>, <<a, Colon, 56, Colon>>,
             <<a, Colon, Minus, 32, 56>>}

\* "", "/", "/.?a#a", "?#a" and "/%"
Rests == {<<>>, <<Slash>>, <<Slash, Dot, Query, a, Hash, a>>, <<Query, Hash, a>>,
          <<Slash, BadEsc>>}

MCRawUrls ==
    {u \in {Http \o <<Colon, Slash, Slash>> \o user \o host \o rest :
                user \in Users, host \in Hosts, rest \in Rests} : Last(u) # At}
        \cup {Http \o <<Colon, Slash, Slash>> \o host : host \in OddPorts}
        \cup {s \o <<Colon, Slash, Slash>> \o rest : s \in {MCUnix, Other}, rest \in Rests}
        \cup {<<a>>, <<a, Colon, Slash>>, Other \o <<Colon, Slash, Slash, a, Colon, 56>>}
=============================================================================
