---------------------------- MODULE MCStaticFiles ----------------------------
(***************************************************************************)
(* StaticFiles for TLC, with the routes of MCRouter beside mounts inside   *)
(* each other, and targets that lie under a mount, that do not, and that   *)
(* do only when they have been made canonical.                             *)
(***************************************************************************)
EXTENDS StaticFiles, MCRouter

CONSTANT MaxTarget

\* "", "?a=b", "?a", "?=b" and "?b=b&a"
FewQueries == {<<>>, <<"?", "a", "=", "b">>, <<"?", "a">>, <<"?", "=", "b">>,
               <<"?", "b", "=", "b", "&", "a">>}

\* "", "/", "/a" and "/a/b"; "r/" and "."
MCMounts == {<<>>, <<"/">>, <<"/", "a">>, <<"/", "a", "/", "b">>}
MCRoots  == {<<"r", "/">>, <<".">>}

Texts(chars, n) == UNION {[1 .. k -> chars] : k \in 0 .. n}

\* Every target of a few characters behind "/" or "/a/", and some longer.
ManyTargets ==
    PathsWith(FewQueries) \cup Disguised
    \cup {p \o s : p \in {<<"/">>, <<"/", "a", "/">>},
                   s \in Texts({"/", ".", "a", "html", "?"}, MaxTarget - 1)}
    \cup {<<"/", "a", "/">> \o s : s \in Texts({"/", ".", "a"}, MaxTarget)}
    \cup {<<"/", "a", "/", "a", ".", "html", ".", "a">>, <<"/", "a", "/", "a", ".", "HTML">>,
           <<"/", "a", "/", "b", "/", "a">>, <<"/", "a", "/", "b", "/", ".", ".", "/", "a">>}

MCTargets == ManyTargets

MCOrder == <<"#", "%", "%2E", "%2F", "%61", "&", ".", "/", "=", "?", "HTML", "a", "b",
             "html", "index", "r">>
MCLower == [c \in {"HTML"} |-> "html"]
MCMimeMap == [e \in {<<".", "HTML">>, <<".", "a">>} |->
                 IF e = <<".", "a">> THEN "application/octet-stream" ELSE "text/html"]

\* cwd/r has a file "a.html", a file "a.html.a", an index and a directory
\* "a" with an index and a file "a"; beside it lie a file "a" and one "html".
MCFiles == {<<<<"cwd">>, <<"r">>, <<"a", ".", "html">>>>,
            <<<<"cwd">>, <<"r">>, <<"a", ".", "a">>>>,
            <<<<"cwd">>, <<"r">>, <<"index", ".", "html">>>>,
            <<<<"cwd">>, <<"r">>, <<"a">>, <<"index", ".", "html">>>>,
            <<<<"cwd">>, <<"r">>, <<"a">>, <<"a">>>>,
            <<<<"cwd">>, <<"r">>, <<"a", ".", "html", ".", "a">>>>,
            <<<<"cwd">>, <<"a">>>>,
            <<<<"cwd">>, <<"html">>>>}
MCDirs  == {<<>>, <<<<"cwd">>>>, <<<<"cwd">>, <<"r">>>>, <<<<"cwd">>, <<"r">>, <<"a">>>>}
=============================================================================
