----------------------------- MODULE StaticFiles -----------------------------
(***************************************************************************)
(* HttpServer::serve_static and the dispatch of a request in do_session    *)
(* (src/http/session.cpp): a request whose target lies under a directory   *)
(* mounted with serve_static() is answered with a file, every other one    *)
(* goes to the router, module Router.                                      *)
(*                                                                         *)
(* Texts are sequences of characters, as in Router.  A target goes to the  *)
(* file system as it was sent, the query and all; the file system is what  *)
(* the kernel makes of a name, with its files and directories given.       *)
(***************************************************************************)
EXTENDS Router

CONSTANTS
    Mounts,     \* the paths given to serve_static()
    Roots,      \* the directories given to it, none of them empty
    Order,      \* the characters in the order of their codes
    Lower,      \* tolower(), for the characters that it changes
    MimeMap,    \* mime_map: a content type for some extensions
    Files,      \* the files there are, each a sequence of names
    Dirs,       \* the directories
    HEAD,       \* the method that gets no body
    MaxSetup    \* bound: calls of serve_static() and add_route()

ASSUME StaticAssumption ==
    /\ Mounts \cup Roots \subseteq Seq(STRING)
    /\ \A r \in Roots : r # <<>> /\ r # <<"/">>

VARIABLES
    static_file_routes_,    \* from a mount to its directory
    calls,                  \* the calls of serve_static(), for reference
    served                  \* the request a mount answered, and how

svars == <<vars, static_file_routes_, calls, served>>

NotServed == [target |-> <<>>, mount |-> <<>>, answer |-> [status |-> "none"]]

-----------------------------------------------------------------------------
(* Which mount claims a target: find_if over a std::map. *)

Rank(c) == CHOOSE i \in DOMAIN Order : Order[i] = c

\* std::less<std::string>.
Less(s, t) ==
    LET differ == {i \in 1 .. Min({Len(s), Len(t)}) : s[i] # t[i]}
    IN IF differ = {} THEN Len(s) < Len(t)
       ELSE Rank(s[Min(differ)]) < Rank(t[Min(differ)])

MountPrefix(mount) == IF mount = <<"/">> THEN mount ELSE Append(mount, "/")

Claiming(target) ==
    {m \in DOMAIN static_file_routes_ : StartsWith(target, MountPrefix(m))}

\* The first of them in the order of the map.
Claimer(target) ==
    CHOOSE m \in Claiming(target) : \A n \in Claiming(target) \ {m} : Less(m, n)

-----------------------------------------------------------------------------
(* static_file_handler. *)

\* Mutated form of Illegal: only the first character is looked at.
IllegalFirst(path) == path # <<>> /\ path[1] # "/"

\* "Illegal request-target".
Illegal(path) ==
    /\ path # <<>>
    /\ \/ path[1] # "/"
       \/ \E i \in 1 .. Len(path) - 1 : path[i] = "." /\ path[i + 1] = "."

PathCat(base, path) ==
    (IF base[Len(base)] = "/" THEN SubSeq(base, 1, Len(base) - 1) ELSE base) \o path

\* The name that is opened; "index" stands for the five letters.
FileName(root, path) ==
    LET name == PathCat(root, path)
    IN IF name[Len(name)] = "/" THEN name \o <<"index", ".", "html">> ELSE name

Lowered(s) == [i \in DOMAIN s |-> IF s[i] \in DOMAIN Lower THEN Lower[s[i]] ELSE s[i]]

\* The keys of mime_map are a "." and what is behind it, and ci_less keeps
\* one of those that differ in case; tolower() neither takes nor gives a "."
\* or a "/".
ASSUME MimeAssumption ==
    /\ \A e \in DOMAIN MimeMap :
          /\ e \in Seq(STRING) /\ e # <<>> /\ e[1] = "."
          /\ \A i \in 2 .. Len(e) : e[i] \notin {".", "/"}
    /\ \A e, f \in DOMAIN MimeMap : Lowered(e) = Lowered(f) => e = f
    /\ \A c \in DOMAIN Lower : {c, Lower[c]} \cap {".", "/"} = {}

\* get_mime_type: a lookup that does not tell upper from lower case.
GetMimeType(extension) ==
    LET same == {e \in DOMAIN MimeMap : Lowered(e) = Lowered(extension)}
    IN IF same = {} THEN "application/text" ELSE MimeMap[CHOOSE e \in same : TRUE]

\* Mutated form of MimeType: the extension starts at the first ".".
MimeTypeFirst(name) ==
    LET dots == {i \in DOMAIN name : name[i] = "."}
    IN GetMimeType(IF dots = {} THEN <<>> ELSE SubSeq(name, Min(dots), Len(name)))

\* mime_type: the extension starts at the last "." of the name.
MimeType(name) ==
    LET dots == {i \in DOMAIN name : name[i] = "."}
    IN GetMimeType(IF dots = {} THEN <<>> ELSE SubSeq(name, Max(dots), Len(name)))

\* The element of a name is looked up: nothing and "." lead nowhere else, ".."
\* leads up, and from the root of all directories to itself.
Entered(at, element) ==
    IF element \in {<<>>, <<".">>} THEN at
    ELSE IF element = <<".", ".">> THEN SubSeq(at, 1, Len(at) - 1)
    ELSE Append(at, element)

\* The way along a name, character by character: the place reached so far,
\* and what there is of the element that follows.
Walk(name) ==
    LET walk[i \in 0 .. Len(name)] ==
            IF i = 0 THEN [at |-> IF name[1] = "/" THEN <<>> ELSE <<<<"cwd">>>>,
                           element |-> <<>>]
            ELSE LET was == walk[i - 1]
                 IN IF name[i] = "/"
                    THEN [at |-> Entered(was.at, was.element), element |-> <<>>]
                    ELSE [at |-> was.at, element |-> Append(was.element, name[i])]
    IN walk

\* Where a name leads, from the working directory.
Resolve(name) ==
    LET end == Walk(name)[Len(name)] IN Entered(end.at, end.element)

\* What body.open() finds: a directory can be opened, and a file that is
\* taken for a directory is an error of its own.
Opened(name) ==
    LET place == Resolve(name)
    IN IF place \in Files THEN "file"
       ELSE IF place \in Dirs THEN "directory"
       ELSE IF \E f \in Files : StartsWith(place, f) THEN "not_a_directory"
       ELSE "no_such_file"

\* The answer to a request for path under a root.  A directory gets as far
\* as the body, which cannot be read; do_session ends with that error.
StaticAnswer(method, root, path) ==
    LET name == FileName(root, path)
        found == Opened(name)
    IN IF Illegal(path) THEN [status |-> "bad_request"]
       ELSE IF found = "no_such_file" THEN [status |-> "not_found"]
       ELSE IF found = "not_a_directory" THEN [status |-> "server_error"]
       ELSE IF found = "directory" /\ method # HEAD
       THEN [status |-> "write_fails", name |-> name, type |-> MimeType(name)]
       ELSE [status |-> "ok", name |-> name, type |-> MimeType(name),
             body |-> method # HEAD]

-----------------------------------------------------------------------------

StaticInit ==
    /\ Init
    /\ static_file_routes_ = <<>>
    /\ calls = <<>>
    /\ served = NotServed

\* Everything is set up before the server is launched.
SettingUp ==
    /\ request = NoRequest /\ served = NotServed
    /\ Len(calls) + Len(api_routes_) < MaxSetup

\* Mutated form of Mount: a mount may be given another directory.
MountAgain(m, root) ==
    /\ SettingUp
    /\ static_file_routes_' = [n \in DOMAIN static_file_routes_ \cup {m} |->
                                  IF n = m THEN root ELSE static_file_routes_[n]]
    /\ calls' = Append(calls, [mount |-> m, root |-> root])
    /\ UNCHANGED <<vars, served>>

\* serve_static(): emplace leaves a mount that is there alone.
Mount(m, root) ==
    /\ SettingUp
    /\ static_file_routes_' =
          IF m \in DOMAIN static_file_routes_ THEN static_file_routes_
          ELSE [n \in DOMAIN static_file_routes_ \cup {m} |->
                   IF n = m THEN root ELSE static_file_routes_[n]]
    /\ calls' = Append(calls, [mount |-> m, root |-> root])
    /\ UNCHANGED <<vars, served>>

\* A request that a mount claims.
HandleStatic(method, target) ==
    /\ request = NoRequest /\ served = NotServed
    /\ Claiming(target) # {}
    /\ LET m == Claimer(target)
           path == SubSeq(target, Len(m) + 1, Len(target))
       IN served' = [target |-> target, mount |-> m,
                     answer |-> StaticAnswer(method, static_file_routes_[m], path)]
    /\ UNCHANGED <<vars, static_file_routes_, calls>>

\* A request that no mount claims.  The mounts see the target as it was sent,
\* the routes its canonical path.
HandleRouted(method, target) ==
    /\ served = NotServed
    /\ Claiming(target) = {}
    /\ HandleRequest(method, target)
    /\ UNCHANGED <<static_file_routes_, calls, served>>

SetUpRouter ==
    /\ SettingUp
    /\ \/ \E p \in Prefixes : SetPrefix(p)
       \/ \E m \in Methods \cup {All}, p \in Patterns : AddRoute(m, p)
    /\ UNCHANGED <<static_file_routes_, calls, served>>

StaticNext ==
    \/ \E m \in Mounts, root \in Roots : Mount(m, root)
    \/ SetUpRouter
    \/ \E m \in Methods, t \in Targets : HandleStatic(m, t) \/ HandleRouted(m, t)

StaticSpec == StaticInit /\ [][StaticNext]_svars

-----------------------------------------------------------------------------
(* Safety. *)

\* The type invariant of the two together.
StaticTypeOK ==
    /\ TypeOK
    /\ DOMAIN static_file_routes_ \subseteq Mounts
    /\ \A m \in DOMAIN static_file_routes_ : static_file_routes_[m] \in Roots
    /\ served # NotServed => served.mount \in DOMAIN static_file_routes_ /\ request = NoRequest

\* A request that no mount claims reaches the first route that fits, with the
\* parameters of the greediest cut of its path.
DispatchInv == StaticTypeOK /\ FirstMatchWins /\ ParametersAreTheGreediestCut

\* Nothing outside a mounted directory is opened, whatever "..", "//", "."
\* or "?" the target holds: what the file system makes of the name lies at or
\* below what it makes of the directory.
ServedUnderRoot ==
    served.answer.status \in {"ok", "write_fails"} =>
        StartsWith(Resolve(served.answer.name), Resolve(static_file_routes_[served.mount]))

\* A mount is tried before every route, on the target as it was sent: the
\* routes get only what no mount claims in that form, though its canonical path
\* may lie under one.  The outermost mount wins (a directory mounted inside
\* another is never reached), with the directory it was given first, and the
\* order of the calls does not matter otherwise.
OutermostMountAnswers ==
    LET claims(target) == {i \in DOMAIN calls : StartsWith(target, MountPrefix(calls[i].mount))}
    IN /\ request # NoRequest => claims(request.target) = {}
       /\ served # NotServed =>
            \A i \in claims(served.target) :
                /\ Len(served.mount) <= Len(calls[i].mount)
                /\ calls[i].mount = served.mount
                   /\ (\A j \in 1 .. i - 1 : calls[j].mount # served.mount)
                   => static_file_routes_[served.mount] = calls[i].root

\* The content type is that of the last element of the name, by what
\* follows its last "."; a "." in the name of a directory is not taken for
\* the start of an extension.
TypeOfLastElement ==
    served.answer.status \in {"ok", "write_fails"} =>
        LET element == SubSeq(served.answer.name,
                              Max({0} \cup {i \in DOMAIN served.answer.name : served.answer.name[i] = "/"}) + 1,
                              Len(served.answer.name))
            behind == {e \in DOMAIN MimeMap :
                         /\ Len(e) <= Len(element)
                         /\ Lowered(SubSeq(element, Len(element) - Len(e) + 1, Len(element)))
                              = Lowered(e)}
        IN IF behind = {} THEN served.answer.type = "application/text"
           ELSE \A e \in behind : served.answer.type = MimeMap[e]
=============================================================================
