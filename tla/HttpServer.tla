----------------------------- MODULE HttpServer -----------------------------
(***************************************************************************)
(* ccl2::HttpServer (include/ccl2/http/session.h, src/http/session.cpp):   *)
(* do_listen accepts connections and starts a coroutine, do_session, for   *)
(* each.  A session reads a request header, then the body, has the request *)
(* handled, writes the response, and starts again unless the response      *)
(* closes the connection.  One deadline, set before the header is read,    *)
(* covers all of it.                                                       *)
(*                                                                         *)
(* Which handler a request reaches is for StaticFiles; here a request is   *)
(* Routed (a user's handler runs, and may suspend or throw) or answered at *)
(* once (a static file, an error page).  The socket and the HTTP parser    *)
(* are Boost's: a connection carries the headers and the bodies of the     *)
(* client's requests in order, whole.  The body of an upload is not read,  *)
(* and what is in it is taken for requests.                                *)
(***************************************************************************)
EXTENDS Integers, Sequences

CONSTANTS
    Conns,
    Requests,
    HasBody,        \* the requests that carry a body
    Uploads,        \* POST with content type multipart/form-data
    TooBig,         \* those whose body is over the limit
    Closing,        \* the requests that ask for Connection: close
    Routed,         \* the requests that a handler of the program answers
    Timeouts,       \* whether options_.timeout may be set (> 0)
    MaxRequests,    \* bound: requests sent on one connection
    MaxHidden       \* bound: requests read out of what is no request

ASSUME ServerAssumption ==
    /\ HasBody \subseteq Requests
    /\ Uploads \subseteq Requests
    /\ TooBig \subseteq HasBody
    /\ Closing \subseteq Requests
    /\ Routed \subseteq Requests
    /\ Timeouts \in (SUBSET BOOLEAN) \ {{}}
    /\ MaxRequests \in Nat
    /\ MaxHidden \in Nat

VARIABLES
    hasTimeout, \* options_.timeout > 0; otherwise the deadline is INT_MAX s
    launched,   \* do_launch() has been called
    listening,  \* do_listen is in its loop
    conn        \* the state of each connection

vars == <<hasTimeout, launched, listening, conn>>

Places == {"none", "backlog", "header", "body", "handle", "write", "over"}

\* How a session has ended: it shut the socket down in order, it returned
\* without a word, or it threw, which do_listen reports.
Outcomes == {"open", "shutdown", "ignored", "threw"}

NewConn ==
    [client  |-> "none",   \* the client: none, open, finished (FIN), gone (RST)
     asked   |-> <<>>,     \* the requests whose header it has sent
     owed    |-> FALSE,    \* it has still to send the body of the last one
     inbox   |-> <<>>,     \* what has arrived and has not been read
     pc      |-> "none",   \* where the session stands
     heads   |-> 0,        \* headers read: the number of the current request
     expired |-> FALSE,    \* the deadline has passed
     astray  |-> FALSE,    \* the body of an upload was left unread
     hidden  |-> <<>>,     \* the requests read since
     replied |-> <<>>,     \* the numbers of the requests answered, 0 if hidden
     keep    |-> TRUE,     \* msg->keep_alive()
     outcome |-> "open"]

Init ==
    /\ hasTimeout \in Timeouts
    /\ launched = FALSE
    /\ listening = FALSE
    /\ conn = [c \in Conns |-> NewConn]

-----------------------------------------------------------------------------
(* The clients. *)

Connect(c) ==
    /\ conn[c].client = "none"
    /\ listening
    /\ conn' = [conn EXCEPT ![c].client = "open", ![c].pc = "backlog"]
    /\ UNCHANGED <<hasTimeout, launched, listening>>

\* Requests may be pipelined: the client need not wait for a response.
SendHeader(c, q) ==
    /\ conn[c].client = "open"
    /\ ~conn[c].owed
    /\ Len(conn[c].asked) < MaxRequests
    /\ conn' = [conn EXCEPT ![c].asked = Append(@, q),
                            ![c].inbox = Append(@, "header"),
                            ![c].owed  = q \in HasBody]
    /\ UNCHANGED <<hasTimeout, launched, listening>>

SendBody(c) ==
    /\ conn[c].client = "open"
    /\ conn[c].owed
    /\ conn' = [conn EXCEPT ![c].inbox = Append(@, "body"), ![c].owed = FALSE]
    /\ UNCHANGED <<hasTimeout, launched, listening>>

\* The client ends its side of the connection, or drops the connection.
Leave(c, how) ==
    /\ conn[c].client \in {"open", "finished"} \ {how}
    /\ conn' = [conn EXCEPT ![c].client = how]
    /\ UNCHANGED <<hasTimeout, launched, listening>>

-----------------------------------------------------------------------------
(* do_launch() and do_listen(). *)

\* The acceptor is opened, or an exception (the address is in use) ends the
\* coroutine; `detached` drops it, and do_launch() has returned long since.
Launch ==
    /\ ~launched
    /\ launched' = TRUE
    /\ listening' \in BOOLEAN
    /\ UNCHANGED <<hasTimeout, conn>>

Accept(c) ==
    /\ listening
    /\ conn[c].pc = "backlog"
    /\ conn' = [conn EXCEPT ![c].pc = "header"]
    /\ UNCHANGED <<hasTimeout, launched, listening>>

\* async_accept throws (the process may be out of descriptors): the coroutine
\* ends, and `detached` drops the exception.
AcceptThrows ==
    /\ listening
    /\ \E c \in Conns : conn[c].pc = "backlog"
    /\ listening' = FALSE
    /\ UNCHANGED <<hasTimeout, launched, conn>>

-----------------------------------------------------------------------------
(* do_session(). *)

Current(c) ==
    IF conn[c].astray THEN conn[c].hidden[Len(conn[c].hidden)]
                      ELSE conn[c].asked[conn[c].heads]

\* The session is over, with the given outcome.
End(c, how) ==
    /\ conn' = [conn EXCEPT ![c].pc = "over", ![c].outcome = how]
    /\ UNCHANGED <<hasTimeout, launched, listening>>

Reading(c) ==
    \/ conn[c].pc = "header"
    \/ conn[c].pc = "body" /\ Current(c) \in HasBody

\* The uploads that lead a session astray: their bodies are left unread.
Straying == Uploads \cap HasBody

\* A request header is read; an upload is left there, its body unread, and
\* the session starts again with a new deadline.
ReadHeader(c) ==
    /\ conn[c].pc = "header"
    /\ ~conn[c].astray
    /\ conn[c].inbox # <<>> /\ Head(conn[c].inbox) = "header"
    /\ LET n == conn[c].heads + 1
           q == conn[c].asked[n]
           unread == q \in Uploads
       IN conn' = [conn EXCEPT
            ![c].inbox   = Tail(@),
            ![c].heads   = n,
            ![c].astray  = q \in Straying,
            ![c].expired = IF unread THEN FALSE ELSE @,
            ![c].pc      = IF unread THEN "header" ELSE "body"]
    /\ UNCHANGED <<hasTimeout, launched, listening>>

\* What may be left of s when its beginning has been read, perhaps only a
\* part of the first message.
Rests(s) == {SubSeq(s, i, Len(s)) : i \in 1 .. Len(s) + 1}

\* The parser takes what is left of an upload, and what follows it, for
\* requests, and the client has put a header there.
ReadHidden(c, q) ==
    /\ conn[c].pc = "header"
    /\ conn[c].astray
    /\ conn[c].inbox # <<>>
    /\ Len(conn[c].hidden) < MaxHidden
    /\ LET unread == q \in Uploads
       IN \E rest \in Rests(conn[c].inbox) :
            conn' = [conn EXCEPT
              ![c].inbox   = rest,
              ![c].hidden  = Append(@, q),
              ![c].expired = IF unread THEN FALSE ELSE @,
              ![c].pc      = IF unread THEN "header" ELSE "body"]
    /\ UNCHANGED <<hasTimeout, launched, listening>>

\* There is no header in it: the parser fails.
ReadGarbage(c) ==
    /\ conn[c].pc = "header"
    /\ conn[c].astray
    /\ conn[c].inbox # <<>>
    /\ End(c, "threw")

\* The header or the body that begins in it is not complete: the read goes on.
ReadPart(c) ==
    /\ conn[c].astray
    /\ conn[c].inbox # <<>>
    /\ Reading(c)
    /\ conn' = [conn EXCEPT ![c].inbox = <<>>]
    /\ UNCHANGED <<hasTimeout, launched, listening>>

\* Mutated form of ReadBody: the body is left unread, as that of an upload.
SkipBody(c) ==
    /\ conn[c].pc = "body"
    /\ conn' = [conn EXCEPT ![c].pc = "handle"]
    /\ UNCHANGED <<hasTimeout, launched, listening>>

\* async_read: nothing to read for a request without a body.  That of a hidden
\* request ends anywhere in what has come.
ReadBody(c) ==
    /\ conn[c].pc = "body"
    /\ Current(c) \notin TooBig
    /\ IF Current(c) \in HasBody
       THEN /\ conn[c].inbox # <<>>
            /\ \E rest \in Rests(conn[c].inbox) :
                 /\ conn[c].astray \/ rest = Tail(conn[c].inbox)
                 /\ conn' = [conn EXCEPT ![c].inbox = rest, ![c].pc = "handle"]
       ELSE conn' = [conn EXCEPT ![c].pc = "handle"]
    /\ UNCHANGED <<hasTimeout, launched, listening>>

\* The body is over options_.body_limit, or over Beast's own: the parser fails
\* before it reads it, and the client gets no answer.
BodyTooBig(c) ==
    /\ conn[c].pc = "body"
    /\ Current(c) \in TooBig
    /\ End(c, "threw")

\* Mutated form of Handle: the response is dropped.
HandleAndDrop(c, keep) ==
    /\ conn[c].pc = "handle"
    /\ Current(c) \in Routed \/ keep = (Current(c) \notin Closing)
    /\ conn' = [conn EXCEPT ![c].keep = keep, ![c].pc = "header"]
    /\ UNCHANGED <<hasTimeout, launched, listening>>

\* The handler returns a response; the program's own may set keep_alive as
\* it likes, all others copy it from the request.
Handle(c, keep) ==
    /\ conn[c].pc = "handle"
    /\ Current(c) \in Routed \/ keep = (Current(c) \notin Closing)
    /\ conn' = [conn EXCEPT ![c].keep = keep, ![c].pc = "write"]
    /\ UNCHANGED <<hasTimeout, launched, listening>>

\* The handler throws.  What it throws may be a system_error of some other
\* connection, as http_client_fetch throws: the session takes the code for
\* one of its own.
HandlerThrows(c, how) ==
    /\ conn[c].pc = "handle"
    /\ Current(c) \in Routed
    /\ how \in {"threw", "ignored", "shutdown"}
    /\ End(c, how)

\* The request that is answered.
Number(c) == IF conn[c].astray THEN 0 ELSE conn[c].heads

\* Mutated form of Write: the loop goes on whatever the response says.
WriteAndGoOn(c) ==
    /\ conn[c].pc = "write"
    /\ conn[c].client # "gone"
    /\ conn' = [conn EXCEPT
         ![c].replied = Append(@, Number(c)),
         ![c].expired = FALSE,
         ![c].pc      = "header"]
    /\ UNCHANGED <<hasTimeout, launched, listening>>

\* The response is written; the session goes on or shuts the socket down.
Write(c) ==
    /\ conn[c].pc = "write"
    /\ conn[c].client # "gone"
    /\ conn' = [conn EXCEPT
         ![c].replied = Append(@, Number(c)),
         ![c].expired = FALSE,
         ![c].pc      = IF conn[c].keep THEN "header" ELSE "over",
         ![c].outcome = IF conn[c].keep THEN "open" ELSE "shutdown"]
    /\ UNCHANGED <<hasTimeout, launched, listening>>

\* The body of a static file is read as it is written, and that may fail: what
\* was opened is a directory, or the file has become shorter.
FileFails(c) ==
    /\ conn[c].pc = "write"
    /\ Current(c) \notin Routed
    /\ End(c, "threw")

\* The client has finished: end_of_stream between two requests, which ends
\* the session in order, partial_message inside one.  A session that has gone
\* astray may be inside a header.
ReadEnd(c) ==
    /\ Reading(c)
    /\ conn[c].client = "finished"
    /\ conn[c].inbox = <<>>
    /\ \/ conn[c].pc = "header" /\ End(c, "shutdown")
       \/ (conn[c].pc = "body" \/ conn[c].astray) /\ End(c, "threw")

\* The client is gone: connection_reset is ignored, while a write may also
\* fail with broken_pipe, which is not.
PeerGone(c, how) ==
    /\ conn[c].client = "gone"
    /\ \/ Reading(c) /\ how = "ignored"
       \/ conn[c].pc = "write" /\ how \in {"ignored", "threw"}
    /\ End(c, how)

\* The deadline passes, whatever the session is doing.
Expire(c) ==
    /\ hasTimeout
    /\ ~conn[c].expired
    /\ conn[c].pc \in {"header", "body", "handle", "write"}
    /\ conn' = [conn EXCEPT ![c].expired = TRUE]
    /\ UNCHANGED <<hasTimeout, launched, listening>>

\* Mutated form of TimedOut: the deadline covers the write only.
TimedOutWriting(c) ==
    /\ conn[c].expired
    /\ conn[c].pc = "write"
    /\ End(c, "threw")

\* A read or a write under way when the deadline has passed fails with
\* beast::error::timeout, which is none of the codes that are ignored.
TimedOut(c) ==
    /\ conn[c].expired
    /\ Reading(c) \/ conn[c].pc = "write"
    /\ End(c, "threw")

-----------------------------------------------------------------------------

ClientNext(c) ==
    \/ Connect(c) \/ SendBody(c)
    \/ \E q \in Requests : SendHeader(c, q)
    \/ \E how \in {"finished", "gone"} : Leave(c, how)

SessionNext(c) ==
    \/ ReadHeader(c) \/ ReadGarbage(c) \/ ReadPart(c) \/ ReadBody(c) \/ BodyTooBig(c)
    \/ Write(c) \/ FileFails(c) \/ ReadEnd(c) \/ TimedOut(c)
    \/ \E q \in Requests : ReadHidden(c, q)
    \/ \E keep \in BOOLEAN : Handle(c, keep)
    \/ \E how \in Outcomes : HandlerThrows(c, how) \/ PeerGone(c, how)

Next ==
    \/ Launch \/ AcceptThrows
    \/ \E c \in Conns : ClientNext(c) \/ Accept(c) \/ SessionNext(c) \/ Expire(c)

Spec == Init /\ [][Next]_vars

-----------------------------------------------------------------------------
(* Safety. *)

\* Every field keeps to the values its C++ counterpart can take.
TypeOK ==
    /\ hasTimeout \in Timeouts
    /\ launched \in BOOLEAN
    /\ listening \in BOOLEAN
    /\ conn \in [Conns ->
         [client  : {"none", "open", "finished", "gone"},
          asked   : Seq(Requests),
          owed    : BOOLEAN,
          inbox   : Seq({"header", "body"}),
          pc      : Places,
          heads   : 0 .. MaxRequests,
          expired : BOOLEAN,
          astray  : BOOLEAN,
          hidden  : Seq(Requests),
          replied : Seq(0 .. MaxRequests),
          keep    : BOOLEAN,
          outcome : Outcomes]]

\* The session knows what it is reading, whatever the client has pipelined:
\* a body comes up exactly when the current request still has one to read.
\* Only an upload with a body that it has passed over puts the two out of step.
InStep ==
    \A c \in Conns :
        LET k == conn[c]
        IN /\ k.pc # "over"
           /\ k.inbox # <<>>
           /\ \A i \in 1 .. k.heads : k.asked[i] \notin Straying
           => Head(k.inbox) = "body" <=> k.pc = "body" /\ Current(c) \in HasBody

SessionInv == TypeOK /\ InStep

\* The last response written closes the connection.
ClosedByReply(c) == ~conn[c].keep /\ conn[c].pc # "write"

\* The abstract server.
Replies == INSTANCE RequestReply WITH
    Conn <- Conns, Request <- Requests, Unanswered <- Uploads, Leading <- Straying,
    asked   <- [c \in Conns |-> conn[c].asked],
    replied <- [c \in Conns |-> conn[c].replied],
    over    <- {c \in Conns : conn[c].pc = "over" \/ ClosedByReply(c)}

\* Requests are answered in order and at most once, none is skipped, nothing
\* but requests is answered unless an upload with a body came before, and
\* nothing follows a response that closes the connection.
ImplementsRequestReply == Replies!Spec

Answered(c, n) == \E i \in DOMAIN conn[c].replied : conn[c].replied[i] = n

-----------------------------------------------------------------------------
(* Liveness. *)

\* The coroutines are scheduled, handlers return, responses are written, and
\* time passes.  A client need not send anything.
Fairness ==
    \A c \in Conns :
        /\ WF_vars(Accept(c))
        /\ WF_vars(SessionNext(c))
        /\ WF_vars(Expire(c))

FairSpec == Spec /\ Fairness

\* With a timeout, a session does not stay for ever with a client that has
\* gone quiet.
SessionEnds ==
    \A c \in Conns : hasTimeout /\ conn[c].pc = "header" ~> conn[c].pc = "over"

\* Every request but an upload is answered, pipelined or not, if it is sent
\* whole and no upload with a body comes before it, unless the session or the
\* server ends.
EveryRequestAnswered ==
    \A c \in Conns, n \in 1 .. MaxRequests :
        /\ n <= Len(conn[c].asked)
        /\ conn[c].asked[n] \notin Uploads
        /\ \A i \in 1 .. n : conn[c].asked[i] \notin Straying
        ~> \/ Answered(c, n)
           \/ conn[c].pc = "over" \/ conn[c].owed \/ ~listening
=============================================================================
