------------------------------ MODULE MCRouter ------------------------------
(***************************************************************************)
(* Router for TLC: the targets are every path of up to MaxPath characters  *)
(* over a small alphabet, with a query and without, and some that have     *)
(* escapes, dots or a fragment in them.  The patterns have parameters that *)
(* stand alone, in a row, before a literal, with a repeated key, or        *)
(* without a name.                                                         *)
(***************************************************************************)
EXTENDS Router, TLC

CONSTANTS MaxPath, GET, POST

\* "/a", "/:a", "/:a/b", "/:a:b", "/:a/:a", "/." and "/:"
MCPatterns == {<<"/", "a">>, <<"/", ":", "a">>, <<"/", ":", "a", "/", "b">>,
               <<"/", ":", "a", ":", "b">>, <<"/", ":", "a", "/", ":", "a">>,
               <<"/", ".">>, <<"/", ":">>}

MCPrefixes == {<<"/", "b">>}

MCPaths == {<<"/">> \o s : s \in UNION {[1 .. n -> {"/", "a", "b"}] : n \in 0 .. MaxPath - 1}}

\* "", "?a=b", "?a=b&a=a", "?b=a&", "?a", "?a=", "?=b" and "?b=b&a"
MCQueries == {<<>>, <<"?", "a", "=", "b">>, <<"?", "a", "=", "b", "&", "a", "=", "a">>,
              <<"?", "b", "=", "a", "&">>, <<"?", "a">>, <<"?", "a", "=">>, <<"?", "=", "b">>,
              <<"?", "b", "=", "b", "&", "a">>}

\* "/b/../a/a", "/b/./a", "/%61/a", "/b/%2E./a/a", "/a%2Fa", "/a/..", "/a#b",
\* "a", and a target with a "%" that begins no escape.
Disguised == {<<"/", "b", "/", ".", ".", "/", "a", "/", "a">>, <<"/", "b", "/", ".", "/", "a">>,
              <<"/", "%61", "/", "a">>, <<"/", "b", "/", "%2E", ".", "/", "a", "/", "a">>,
              <<"/", "a", "%2F", "a">>, <<"/", "a", "/", ".", ".">>, <<"/", "a", "#", "b">>,
              <<"a">>, <<"/", "a", "/", "%">>}

PathsWith(queries) == {p \o q : p \in MCPaths, q \in queries}

RoutedTargets == PathsWith(MCQueries) \cup Disguised

-----------------------------------------------------------------------------
(* What url_parse_requri makes of a target, from module Url, whose texts   *)
(* are sequences of bytes.  "html", "HTML" and "index" stand for a letter. *)

U == INSTANCE Url WITH
    RawUrls <- {}, Targets <- {}, UnixScheme <- <<>>, DefaultPorts <- <<>>,
    AnyPort <- {0}, MaxCalls <- 0, url <- 0, ok <- 0, asked <- 0, calls <- 0

Byte == [c \in {"/", ".", "?", "#", "&", "=", "a", "b", "html", "HTML", "index",
                "%61", "%2E", "%2F", "%"} |->
    CASE c = "/" -> U!Slash  [] c = "." -> U!Dot  [] c = "?" -> U!Query  [] c = "#" -> U!Hash
      [] c = "&" -> 38       [] c = "=" -> 61     [] c = "a" -> 97       [] c = "b" -> 98
      [] c = "html" -> 104   [] c = "HTML" -> 72  [] c = "index" -> 105
      [] c = "%61" -> U!Esc(97) [] c = "%2E" -> U!Esc(U!Dot) [] c = "%2F" -> U!Esc(U!Slash)
      [] c = "%" -> U!BadEsc]

Bytes(text) == [i \in DOMAIN text |-> Byte[text[i]]]
Text(bytes) == [i \in DOMAIN bytes |-> CHOOSE c \in DOMAIN Byte : Byte[c] = bytes[i]]

NewUrl == [requri |-> <<>>, path |-> <<>>, query |-> <<>>, fragment |-> <<>>]

\* The table is made once; TLC evaluates anew what a .cfg file substitutes.
RequriTable ==
    [t \in Targets |->
        LET u == U!WithRequri(NewUrl, Bytes(t))
        IN [ok |-> U!Canonifies(Bytes(t)), path |-> Text(u.path), query |-> Text(u.query)]]
    @@ <<>>

MCRequri == RequriTable
=============================================================================
