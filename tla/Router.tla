------------------------------- MODULE Router -------------------------------
(***************************************************************************)
(* ccl2::Router (include/ccl2/http/router.h, src/http/router.cpp): an      *)
(* ordered list of routes, each a method and a pattern such as             *)
(* "/user/:id", and the dispatch of a request to the first that matches.   *)
(*                                                                         *)
(* Texts are sequences of characters.  A pattern becomes a regular         *)
(* expression; of std::regex the model keeps (\S+), which takes any        *)
(* non-empty text, "/" included, and as much of it as it can, and ".",     *)
(* which a pattern may contain and which matches any character.            *)
(***************************************************************************)
EXTENDS Integers, Sequences, FiniteSetsExt

CONSTANTS
    Methods,    \* request methods
    All,        \* method_type::unknown: the route of any method
    Patterns,   \* the patterns given to add_route()
    Prefixes,   \* the prefixes given to set_prefix()
    Targets,    \* request targets, as they are sent
    Requri,     \* what url_parse_requri, module Url, makes of each of them:
                \* whether it succeeds, and the canonical path and query
    MaxRoutes   \* bound: routes added

ASSUME RouterAssumption ==
    /\ All \notin Methods
    /\ MaxRoutes \in Nat
    /\ \A p \in Patterns : p # <<>>
    /\ Patterns \cup Prefixes \cup Targets \subseteq Seq(STRING)
    /\ Requri \in [Targets -> [ok : BOOLEAN, path : Seq(STRING), query : Seq(STRING)]]

VARIABLES
    prefix_,
    api_routes_,    \* the routes: method, rule and, for reference, pattern
    request,        \* the request handled last, and what came of it
    response

vars == <<prefix_, api_routes_, request, response>>

-----------------------------------------------------------------------------
(* http_router_path_parse: from a pattern to a rule. *)

\* The first position from i on that has one of the characters in cs.
Find(s, i, cs) == Min({j \in i .. Len(s) : s[j] \in cs} \cup {Len(s) + 1})

\* The parts of a pattern from each position on: a part is a literal
\* character, or a parameter with its key, which ends at the next ":" or "/".
Parts(pattern) ==
    LET parts[i \in 1 .. Len(pattern) + 1] ==
            IF i > Len(pattern) THEN <<>>
            ELSE IF pattern[i] = ":"
            THEN LET end == Find(pattern, i + 1, {":", "/"})
                 IN <<[param |-> TRUE, text |-> SubSeq(pattern, i + 1, end - 1)]>> \o parts[end]
            ELSE <<[param |-> FALSE, text |-> <<pattern[i]>>]>> \o parts[i + 1]
    IN parts

\* A rule is the sequence of all the parts.
Rule(pattern) == Parts(pattern)[1]

\* "Empty parameter name found in path" is thrown.
BadPattern(pattern) == \E i \in DOMAIN Rule(pattern) : Rule(pattern)[i].text = <<>>

-----------------------------------------------------------------------------
(* http_router_path_apply_rule: the captures of a path, or none. *)

Fits(literal, char) == literal = char \/ literal = "."

\* The regular expression from part i on against the path from position j
\* on: {} if it does not match, otherwise the captures it ends up with, each
\* with the key of its parameter.
Match(rule, path) ==
    LET match[i \in 1 .. Len(rule) + 1] ==
            [j \in 1 .. Len(path) + 1 |->
                IF i > Len(rule) THEN IF j > Len(path) THEN {<<>>} ELSE {}
                ELSE IF rule[i].param
                THEN LET ends == {k \in j .. Len(path) : match[i + 1][k + 1] # {}}
                     IN IF ends = {} THEN {}
                        ELSE {<<[key |-> rule[i].text,
                                 val |-> SubSeq(path, j, Max(ends))]>> \o c :
                                  c \in match[i + 1][Max(ends) + 1]}
                ELSE IF j <= Len(path) /\ Fits(rule[i].text[1], path[j])
                THEN match[i + 1][j + 1] ELSE {}]
    IN match

Captures(rule, path) == Match(rule, path)[1][1]

\* std::map::emplace of each pair in turn: the first value of a key stays.
PutAll(params, pairs) ==
    [k \in DOMAIN params \cup {pairs[i].key : i \in DOMAIN pairs} |->
        IF k \in DOMAIN params THEN params[k]
        ELSE pairs[Min({i \in DOMAIN pairs : pairs[i].key = k})].val]

PathParams(captures) == PutAll(<<>>, captures)

-----------------------------------------------------------------------------
(* http_router_query_parse. *)

\* The pairs up to the first malformed field, and whether there was none.  A
\* field is malformed if it has no "=" or nothing behind it.
QueryParse(query) ==
    LET parse[i \in 1 .. Len(query) + 2] ==
            IF i > Len(query) THEN [ok |-> TRUE, pairs |-> <<>>]
            ELSE LET end == Find(query, i, {"&"})
                     eq  == Min({Find(query, i, {"="}), end})
                     rest == parse[end + 1]
                 IN IF eq + 1 >= end THEN [ok |-> FALSE, pairs |-> <<>>]
                    ELSE [ok    |-> rest.ok,
                          pairs |-> <<[key |-> SubSeq(query, i, eq - 1),
                                       val |-> SubSeq(query, eq + 1, end - 1)]>>
                                    \o rest.pairs]
    IN parse[1]

-----------------------------------------------------------------------------
(* handle_request. *)

StartsWith(s, prefix) ==
    Len(prefix) <= Len(s) /\ SubSeq(s, 1, Len(prefix)) = prefix

NotFound   == [status |-> "not_found", route |-> 0, params |-> <<>>]
BadRequest == [status |-> "bad_request", route |-> 0, params |-> <<>>]

\* What the patterns are matched against.
Behind(path) == SubSeq(path, Len(prefix_) + 1, Len(path))

\* The routes that match a request whose path has the prefix.
Matching(req) ==
    {i \in DOMAIN api_routes_ :
        /\ api_routes_[i].method \in {All, req.method}
        /\ Captures(api_routes_[i].rule, Behind(req.path)) # {}}

\* The answer of route i, which matches.  A query that parses is refused,
\* and one that does not is passed on as far as it was parsed.
Answer(i, req) ==
    LET captures == CHOOSE c \in Captures(api_routes_[i].rule, Behind(req.path)) : TRUE
        query    == QueryParse(req.query)
    IN IF req.query # <<>> /\ query.ok THEN BadRequest
       ELSE [status |-> "handler", route |-> i,
             params |-> PutAll(PathParams(captures), query.pairs)]

\* Mutated form of Dispatch: the route added last wins.
DispatchLast(req) ==
    IF ~StartsWith(req.path, prefix_) \/ Matching(req) = {} THEN NotFound
    ELSE Answer(Max(Matching(req)), req)

\* The first matching route answers.
Dispatch(req) ==
    IF ~StartsWith(req.path, prefix_) \/ Matching(req) = {} THEN NotFound
    ELSE Answer(Min(Matching(req)), req)

-----------------------------------------------------------------------------

NoRequest == [method |-> All, target |-> <<>>, path |-> <<>>, query |-> <<>>]

Init ==
    /\ prefix_ = <<>>
    /\ api_routes_ = <<>>
    /\ request = NoRequest
    /\ response = NotFound

SetPrefix(p) ==
    /\ request = NoRequest
    /\ prefix_' = p
    /\ UNCHANGED <<api_routes_, request, response>>

\* A bad pattern is refused with an exception, and nothing is added.
AddRoute(method, pattern) ==
    /\ request = NoRequest
    /\ Len(api_routes_) < MaxRoutes
    /\ api_routes_' = IF BadPattern(pattern) THEN api_routes_
                      ELSE Append(api_routes_, [method |-> method, rule |-> Rule(pattern),
                                                pattern |-> pattern])
    /\ UNCHANGED <<prefix_, request, response>>

\* What the routes get to see of a request is its canonical path and query.
Canonical(method, target) ==
    [method |-> method, target |-> target,
     path |-> Requri[target].path, query |-> Requri[target].query]

\* Routes are set up before the server is launched.  A target that cannot be
\* made canonical is refused.
HandleRequest(method, target) ==
    /\ request = NoRequest
    /\ request' = Canonical(method, target)
    /\ response' = IF Requri[target].ok THEN Dispatch(Canonical(method, target))
                   ELSE BadRequest
    /\ UNCHANGED <<prefix_, api_routes_>>

Next ==
    \/ \E p \in Prefixes : SetPrefix(p)
    \/ \E m \in Methods \cup {All}, p \in Patterns : AddRoute(m, p)
    \/ \E m \in Methods, t \in Targets : HandleRequest(m, t)

Spec == Init /\ [][Next]_vars

-----------------------------------------------------------------------------
(* What a pattern means, without regular expressions: a path matches if it *)
(* can be cut into one text for each part.                                 *)

\* All ways to cut a path into n non-empty texts.
Cuts(path, n) ==
    {[i \in 1 .. n |-> SubSeq(path, ends[i] + 1, ends[i + 1])] :
        ends \in {e \in [1 .. n + 1 -> 0 .. Len(path)] :
                    /\ e[1] = 0 /\ e[n + 1] = Len(path)
                    /\ \A i \in 1 .. n : e[i] < e[i + 1]}}

\* The cuts that agree with the literal parts of a rule.
GoodCuts(rule, path) ==
    {cut \in Cuts(path, Len(rule)) :
        \A i \in DOMAIN rule :
            rule[i].param \/ (Len(cut[i]) = 1 /\ Fits(rule[i].text[1], cut[i][1]))}

\* Of two cuts, the one whose first text of another length is longer.
Greedier(cut, other) ==
    \E i \in DOMAIN cut :
        /\ Len(cut[i]) > Len(other[i])
        /\ \A j \in 1 .. i - 1 : Len(cut[j]) = Len(other[j])

Tried(i) == api_routes_[i].method \in {All, request.method}

Rest == Behind(request.path)

-----------------------------------------------------------------------------
(* Safety. *)

\* The type invariant: every parameter of an accepted route has a name, and
\* a handler runs only for a route there is, in answer to a request.
TypeOK ==
    /\ prefix_ \in Prefixes \cup {<<>>}
    /\ Len(api_routes_) <= MaxRoutes
    /\ \A i \in DOMAIN api_routes_ :
          /\ api_routes_[i].method \in Methods \cup {All}
          /\ api_routes_[i].pattern \in Patterns
          /\ \A j \in DOMAIN api_routes_[i].rule : api_routes_[i].rule[j].text # <<>>
    /\ \/ request = NoRequest
       \/ /\ request.method \in Methods /\ request.target \in Targets
          /\ request = Canonical(request.method, request.target)
    /\ response.status \in {"handler", "not_found", "bad_request"}
    /\ response.status = "handler" =>
          response.route \in DOMAIN api_routes_ /\ request # NoRequest

\* A request never gets past a route that matches it, nor to one that does
\* not: of the routes of its method, the handler that runs is that of the
\* first whose pattern fits the canonical path behind the prefix.
FirstMatchWins ==
    LET fits == {i \in DOMAIN api_routes_ :
                    Tried(i) /\ GoodCuts(api_routes_[i].rule, Rest) # {}}
    IN /\ response.status = "handler" =>
            StartsWith(request.path, prefix_) /\ fits # {} /\ response.route = Min(fits)
       /\ request # NoRequest /\ response.status = "not_found" =>
            ~StartsWith(request.path, prefix_) \/ fits = {}

\* The handler gets the greediest cut: a parameter that is followed by
\* another takes all it can, slashes included, and a key that occurs twice,
\* in the pattern or in the query, keeps its first value.
ParametersAreTheGreediestCut ==
    response.status = "handler" =>
        LET rule == api_routes_[response.route].rule
            good == GoodCuts(rule, Rest)
            best == CHOOSE cut \in good : \A other \in good : ~Greedier(other, cut)
        IN \A i \in DOMAIN rule :
             /\ rule[i].param
             /\ \A j \in 1 .. i - 1 : rule[j].param => rule[j].text # rule[i].text
             => rule[i].text \in DOMAIN response.params /\
                response.params[rule[i].text] = best[i]

\* Every pair of a query that consists of key=value fields reaches the
\* handler, beside the parameters of the path.
QueryReachesHandler ==
    /\ Matching(request) # {}
    /\ StartsWith(request.path, prefix_)
    /\ request.query # <<>>
    /\ QueryParse(request.query).ok
    => response.status = "handler"
=============================================================================
