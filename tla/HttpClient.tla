----------------------------- MODULE HttpClient -----------------------------
(***************************************************************************)
(* http_client_fetch() (include/ccl2/http/client.h,                        *)
(* src/http/client.cpp): a coroutine that takes a URL apart, resolves the  *)
(* host, connects, writes a request, reads the answer and shuts the socket *)
(* down, each stage awaited, with a deadline that is set before the        *)
(* connection and set anew before the request.                             *)
(*                                                                         *)
(* url_parse() is that of module Url, whose url_t is the coroutine's u;    *)
(* the other users of url.h stay beside it.  The resolver, the socket and  *)
(* the HTTP parser are Boost's, and the server may do anything: answer     *)
(* early, late, in part or never, finish, or drop the connection.  Time    *)
(* passes in ticks, and a deadline that has passed is acted on before more *)
(* time does.                                                              *)
(***************************************************************************)
EXTENDS Url

CONSTANTS
    Fetched,    \* the URLs that are fetched
    Methods,    \* request methods
    HEAD,       \* the one whose answer has no body, whatever its head says
    Timeouts,   \* values of options.timeout
    MaxBody,    \* bound: pieces of the body of an answer
    Never       \* no deadline

ASSUME ClientAssumption ==
    /\ Fetched \subseteq RawUrls
    /\ HEAD \in Methods
    /\ Timeouts \subseteq Nat
    /\ Never \notin Nat
    /\ MaxBody \in Nat

VARIABLES
    stage,      \* where the coroutine is suspended
    options,    \* FetchOptions
    left,       \* what is left of the stream's deadline, or Never
    elapsed,    \* history: time since the host was resolved
    server,     \* the server's end of the connection
    outcome     \* none, a result, or the exception

cvars == <<vars, stage, options, left, elapsed, server, outcome>>

client == <<stage, options, left, elapsed, server, outcome>>

Stages == {"idle", "resolve", "connect", "write", "read", "shutdown", "over"}

NoHead == [framing |-> "none", length |-> 0]

ServerInit ==
    [end  |-> "open",   \* open, finished (FIN) or reset (RST)
     head |-> NoHead,   \* the head it has sent
     sent |-> 0,        \* pieces of the body it has sent
     last |-> FALSE]    \* and whether it has sent the final chunk

NoOptions == [method |-> HEAD, timeout |-> 0]

FetchInit ==
    /\ Init
    /\ stage = "idle"
    /\ options = NoOptions
    /\ left = Never
    /\ elapsed = 0
    /\ server = ServerInit
    /\ outcome = [is |-> "none"]

-----------------------------------------------------------------------------
(* Time, and the server. *)

\* As a bound, time is not counted past three timeouts.
Tick ==
    /\ stage \in {"connect", "write", "read"}
    /\ left # 0
    /\ left' = IF left = Never THEN Never ELSE left - 1
    /\ elapsed' = Min({elapsed + 1, 3 * options.timeout + 1})
    /\ UNCHANGED <<vars, stage, options, server, outcome>>

Connected == stage \in {"write", "read"} /\ server.end = "open"

\* The head of an answer: its body has a length, comes in chunks, or ends
\* with the connection.
SendHead(framing, n) ==
    /\ Connected
    /\ server.head = NoHead
    /\ framing # "length" => n = 0
    /\ server' = [server EXCEPT !.head = [framing |-> framing, length |-> n]]
    /\ UNCHANGED <<vars, stage, options, left, elapsed, outcome>>

SendPiece ==
    /\ Connected
    /\ server.head # NoHead /\ ~server.last /\ options.method # HEAD
    /\ server.sent < IF server.head.framing = "length" THEN server.head.length ELSE MaxBody
    /\ server' = [server EXCEPT !.sent = @ + 1]
    /\ UNCHANGED <<vars, stage, options, left, elapsed, outcome>>

SendLastChunk ==
    /\ Connected
    /\ server.head.framing = "chunked" /\ ~server.last /\ options.method # HEAD
    /\ server' = [server EXCEPT !.last = TRUE]
    /\ UNCHANGED <<vars, stage, options, left, elapsed, outcome>>

\* The server ends its side, or drops the connection.
Hangup(how) ==
    /\ Connected
    /\ server' = [server EXCEPT !.end = how]
    /\ UNCHANGED <<vars, stage, options, left, elapsed, outcome>>

-----------------------------------------------------------------------------
(* http_client_fetch(url, options). *)

\* The coroutine is over.
Ends(how) ==
    /\ stage' = "over"
    /\ outcome' = how
    /\ UNCHANGED <<vars, options, left, elapsed, server>>

Fails(why) == Ends([is |-> why])

\* The URL is parsed into a new url_t; a URL that has no port, its own or
\* its scheme's, is refused.
Fetch(raw, opts) ==
    /\ stage = "idle" /\ calls = 0
    /\ Parse(raw)
    /\ options' = opts
    /\ IF ~ok' \/ url'.port = nport
       THEN stage' = "over" /\ outcome' = [is |-> "bad url"]
       ELSE stage' = "resolve" /\ UNCHANGED outcome
    /\ UNCHANGED <<left, elapsed, server>>

\* Mutated form of Resolved: the time to connect is not limited.
ResolvedNoDeadline ==
    /\ stage = "resolve"
    /\ stage' = "connect"
    /\ UNCHANGED <<vars, options, left, elapsed, server, outcome>>

\* async_resolve, which no deadline limits; then the deadline is set and
\* async_connect begins.
Resolved ==
    /\ stage = "resolve"
    /\ stage' = "connect"
    /\ left' = options.timeout
    /\ UNCHANGED <<vars, options, elapsed, server, outcome>>

ResolveFails == stage = "resolve" /\ Fails("error")

\* The request is put together, the deadline set anew, and async_write
\* begins.
ConnectDone ==
    /\ stage = "connect"
    /\ stage' = "write"
    /\ left' = options.timeout
    /\ UNCHANGED <<vars, options, elapsed, server, outcome>>

ConnectFails == stage = "connect" /\ Fails("error")

\* Mutated form of WriteDone: each stage has a deadline of its own.
WriteDoneReset ==
    /\ stage = "write"
    /\ stage' = "read"
    /\ left' = options.timeout
    /\ UNCHANGED <<vars, options, elapsed, server, outcome>>

\* The request is out, and async_read begins, under the same deadline.
WriteDone ==
    /\ stage = "write"
    /\ stage' = "read"
    /\ UNCHANGED <<vars, options, left, elapsed, server, outcome>>

WriteFails == stage = "write" /\ server.end = "reset" /\ Fails("error")

\* Mutated form of Arrived: a FIN ends every body.
ArrivedShort ==
    \/ server.head.framing = "length" /\ server.sent = server.head.length
    \/ server.head.framing = "chunked" /\ server.last
    \/ server.head # NoHead /\ server.end = "finished"

\* The parser has the whole message.  It does not know that the answer to a
\* HEAD request has no body, and waits for the one that its head announces.
Arrived ==
    \/ server.head.framing = "length" /\ server.sent = server.head.length
    \/ server.head.framing = "chunked" /\ server.last
    \/ server.head.framing = "close" /\ server.end = "finished"

ReadDone ==
    /\ stage = "read"
    /\ Arrived
    /\ stage' = "shutdown"
    /\ UNCHANGED <<vars, options, left, elapsed, server, outcome>>

\* The message is cut short, or the connection dropped.
ReadFails ==
    /\ stage = "read"
    /\ \/ server.end = "finished" /\ ~Arrived
       \/ server.end = "reset"
    /\ Fails("error")

\* The deadline passes while the stream is waited for.
TimesOut ==
    /\ stage \in {"connect", "write", "read"}
    /\ left = 0
    /\ Fails("timeout")

\* shutdown() succeeds or finds the socket not connected, and the body is
\* returned; any other error is thrown, and the body lost.
Shutdown ==
    /\ stage = "shutdown"
    /\ \/ Ends([is |-> "result", body |-> server.sent])
       \/ Fails("error")

\* Everybody else who uses url.h.
OtherUsers == stage = "idle" /\ Next /\ UNCHANGED client

ServerNext ==
    \/ \E f \in {"length", "chunked", "close"}, n \in 0 .. MaxBody : SendHead(f, n)
    \/ SendPiece
    \/ SendLastChunk
    \/ \E how \in {"finished", "reset"} : Hangup(how)

ClientNext ==
    \/ \E raw \in Fetched, m \in Methods, t \in Timeouts :
          Fetch(raw, [method |-> m, timeout |-> t])
    \/ Resolved \/ ResolveFails
    \/ ConnectDone \/ ConnectFails
    \/ WriteDone \/ WriteFails
    \/ ReadDone \/ ReadFails
    \/ TimesOut
    \/ Shutdown

FetchNext == OtherUsers \/ Tick \/ ServerNext \/ ClientNext

\* Time goes on, the resolver answers in the end, and a thread runs the
\* coroutine when what it waits for is there.  Of the server, and of the
\* network that takes the request, nothing is assumed.
Fairness ==
    /\ WF_cvars(Tick)
    /\ WF_cvars(Resolved \/ ResolveFails)
    /\ WF_cvars(TimesOut)
    /\ WF_cvars(Shutdown)

ClientSpec == FetchInit /\ [][FetchNext]_cvars /\ Fairness

-----------------------------------------------------------------------------
(* What is right about it. *)

\* The type invariant.
ClientTypeOK ==
    /\ stage \in Stages
    /\ options \in [method : Methods, timeout : Timeouts] \cup {NoOptions}
    /\ left \in {Never} \cup 0 .. options.timeout
    /\ elapsed \in 0 .. 3 * options.timeout + 1
    /\ server.sent \in 0 .. MaxBody
    /\ outcome.is \in {"none", "result", "bad url", "error", "timeout"}
    /\ (outcome.is = "none") = (stage # "over")

\* A result is the whole body of an answer, as the server framed it; what
\* was cut short, by the server or by the deadline, is an exception.  Only a
\* body without a length or chunks ends where the connection does.
OnlyWholeAnswers ==
    /\ ClientTypeOK
    /\ outcome.is = "result" =>
        /\ outcome.body = server.sent
        /\ server.head # NoHead
        /\ server.head.framing = "length" => outcome.body = server.head.length
        /\ server.head.framing = "chunked" => server.last
        /\ server.head.framing = "close" => server.end = "finished"

\* From the moment the host is resolved, a fetch takes at most twice the
\* timeout: once to connect, and once more for the request and the answer
\* together, however slowly the server drips.
AtMostTwiceTheTimeout == elapsed <= 2 * options.timeout

\* A fetch ends, whatever the server does.
FetchEnds == stage = "resolve" ~> stage = "over"
=============================================================================
