# A verification of ccl2

ccl2 is a C++20 library of helpers for asynchronous programs: a thread pool
around one `io_context`, an asynchronous queue, a publish/subscribe registry, a
service registry, an HTTP server with a router, an HTTP client, a URL parser, a
multipart parser and a mapping between JSON and C++ records. This directory
holds TLA+ models of its parts, the TLC runs that check them, and proofs that
TLAPS checks.

## 1. The system

| Part | State | Operations | Used by / uses | Hard behaviour | What makes it correct |
|---|---|---|---|---|---|
| `AsioPool` (`asio_pool.h`) | `io_context`, `stopped_`, `worker_count_`, `work_guard_`; static `kAsioPool` and its `once_flag` | `asio_pool_init/run/enqueue/shutdown`, `run`, `shutdown`, destructor | every coroutine of a program runs on it | racing initialisation, a constructor that throws, handlers that throw or shut the pool down, destruction at exit | tasks start once; `run()` stays until `shutdown()`; nobody is inside the pool when it is destroyed |
| `AsyncQueue` (`async_queue.h`) | a list under a mutex, a `steady_timer` used as an event, a strand | `push`, `pop`, `try_pop`, `size`, `wake` | runs on an `io_context`, usually the pool's | producers and consumers on several threads, `try_lock`, cancellation that reaches nobody | FIFO, exactly once; the timer is used by one thread at a time; no wakeup is lost |
| `Signal` (`signal.h`) | a multimap of handlers under a `shared_mutex` | `register_handler`, `emit`, `emit_on`, `remove` | handlers call back into it | handlers run while the mutex is held shared, nested emits, writers in between | an emit runs the handlers registered at one moment; calls return |
| `SignalStream` (`examples/src/coro/async_signal2.cpp`) | a queue with one owner, and a `weak_ptr` to it in a handler | construction, `async_wait`, destruction | joins `Signal` and `AsyncQueue` on the pool | the stream is dropped while emits are on their way | what is emitted is read; nothing touches a destroyed queue |
| `Service` (`service.h`) | a map of handlers under a `shared_mutex` | `register_handler`, `call` | as `Signal` | as `Signal`, and duplicate registrations | one registration wins; a call runs its handler |
| `HttpServer` (`http/session.*`) | acceptor, one coroutine per connection with its buffer and deadline, static routes | `serve_static`, `router`, `do_launch`, `do_listen`, `do_session` | calls `Router`; runs on the pool | pipelined requests, deadlines, dropped connections, handlers that suspend or throw; mounts inside each other, targets that lead upwards | responses answer the requests in order, once each; a session ends; no file outside a mounted directory is opened |
| `Router` (`http/router.*`) | prefix, ordered routes | `set_prefix`, `add_route`, `handle_request` | called by the sessions; uses `Url` | patterns that overlap, captures that span `/`, query strings | the first matching route gets the parameters |
| `HttpClient` (`http/client.*`) | one coroutine per request, with its socket and deadline | `http_client_fetch` | uses `Url` | two deadlines over five stages, servers that stop, drip or drop | a whole answer or an exception, in bounded time |
| `Url` (`url.*`) | none | `canonify`, `parse`, `parse_requri` | router, client | in-place canonification, escapes, optional parts | canonical form is stable; the parts recompose |
| Multipart parser (`http/multipart_parser.h`) | buffer, state, current header | `set_boundary`, `parse`, `is_valid` | nobody in the repository | input in arbitrary chunks | the result does not depend on the chunks |
| `Json` (`json.h`) | the document of a call | `parse` (two forms), `dump` | programs | missing and repeated keys, null, narrowing, pointers into the document | what is written is read back; nobody gets half a value; every document is freed once nobody uses it |
| `function`, `bind` (`function.h`), utilities, MIME table | a callable, none, constants | | everywhere | none of their own | |

### Hazards

`PROJECT.json` lists under `hazards` what is hard to test here, each at its
line. They fall into six groups:

* *signals that reach nobody*: `pop()` looks at the list and only then waits on
  a timer that remembers nothing (`async_queue.h:46`), and reads a failed
  `try_lock` as an empty list (`:57`);
* *locks held across user code*: `Signal::emit` and `Service::call` run handlers
  with a `shared_mutex` held, and handlers call back (`signal.h:47`,
  `service.h:63`);
* *start and end of a lifetime*: the pool is made on first use by whoever comes
  first, and destroyed by a static destructor (`asio_pool.h:86`, `:29`); the lambda
  of `wake()` has a bare `this` (`async_queue.h:72`); raw JSON values point into a
  document (`json.h:269`);
* *input in pieces*: the session's loop over pipelined requests
  (`session.cpp:215`), the client's answer (`client.cpp:66`), and the multipart
  parser's chunks (`multipart_parser.h:137`);
* *deadlines*: one for all that a session does with a request
  (`session.cpp:172`), two for a fetch (`client.cpp:54`);
* *texts and boundaries*: patterns and queries (`router.cpp:36`), file names
  (`session.cpp:110`), URLs (`url.cpp:60`, `:126`), keys and numbers in JSON (`json.h:80`,
  `:96`, `:158`).

## 2. Plan

The order is that of the importance to a program built on the library: what
every coroutine runs on and communicates through comes first.

| Module | Abstract specification | Composes with | State |
|---|---|---|---|
| `AsyncQueue` | `FifoChannel` | – | modelled, checked, proved |
| `AsioPool` | `TaskPool` | – | modelled, checked, proved |
| `SignalStream` | – | `AsyncQueue` (extends it) | modelled, checked, proved |
| `Signal` | `AtomicSignal` | – | modelled, checked, proved |
| `Service` | `AtomicService` | – | modelled, checked, proved |
| `HttpServer` | `RequestReply` | `Router` by what it distinguishes (`Routed`) | modelled, checked, proved |
| `Router` | the declarative cut of a path (`GoodCuts`) | – | modelled, checked, proved |
| `StaticFiles` | – | `Router` (extends it) | modelled, checked, proved |
| `MultipartParser` | the meaning of a message (`IsMessage`) | – | modelled, checked, proved |
| `Url` | the path its elements mean (`Normal`); the parts recompose | – | modelled, checked, proved |
| `HttpClient` | – | `Url` (extends it) | modelled, checked, proved |
| `Json` | the texts that fit a type (`Fits`), and decode after encode | – | modelled and checked |

A module that composes others is checked in one run with them: `dispatch` has
the properties of `Router` and `StaticFiles`, `client` those of `Url` and `HttpClient`.

What the plan has left: the trees of `Json`, and all liveness, stay with TLC (section 7
says why).

## 3. How the modules correspond to the code

Every module keeps the names of the source (`queue_`, `stopped_`, `registry_`,
`is_valid_`). A definition named in `PROJECT.json` under `map` translates the lines
given there. Definitions headed "Mutated form of ..." are not part of the
model: they are bugs the code could have had, used to see that a property would
catch them. The `MC*` modules only give the constants their values.

**`AsyncQueue`** (`async_queue.h`). Actors are producers and consumers that are
coroutines of the `io_context`, run by `Workers` threads, and producers and
observers on threads outside it. `queue_mtx_` and `strandOwner` say who is in
which critical section; `pc` is the position in `push`, `pop`, `try_pop` or `size`.
A step is what happens between two points at which another thread can come in:
taking the mutex, changing the list, giving it back, entering the strand,
cancelling, arming the timer. Moving the list out and clearing it are two steps
(`MoveOut`, `ClearAndUnlock`), so that a push in between would be seen. `pop` is
`TryPopLock` / `TryPopBusy`, `TryPopMove`, `TryPopReturn` or `TryPopEmpty`,
then `PopDispatchInline` / `PopDispatchQueued`, `PopRearm` (`expires_at`), `PopWait`
(`async_wait`), and, once cancelled, `Resume`, `PopLock`, `PopMove`, `PopReturn`.
`push` is `PushLock`, `PushAppend` and `wake`; `wake` is public and also called
alone (`WakeOnly`). The histories `pushed` and `taken` are compared with the
channel.

**`SignalStream`** (`async_signal2.cpp`). The producers of `AsyncQueue` emit and its
consumer is the stream's reader. `MakeStream` is the constructor, which registers
the handler, `DropStream` the destructor, at the end of the reader's
coroutine. An emit is a push if the handler's `weak_ptr` finds the queue (`Alive`),
and passes over it otherwise (`EmitMissed`). `QueueStep` is any step of the queue
that this allows. The queue lives while the stream or a producer in its handler
owns it (`Holders`).

**`AsioPool`** (`asio_pool.h`). `Runners` call `asio_pool_run()`, `Clients` only
`asio_pool_enqueue`; each spawned worker `<<m, i>>` is a thread too. The
`once_flag` and the construction are separate steps (`OnceEnter`,
`Construct`, `ConstructThrows`, `OnceDone`); `run` is `RunStopped` or
`RunStart`, then `SpawnWorker` one by one, `RunSelf`, `LeaveLoop` and `Join`;
`shutdown` is `ShutdownFirst`, `ShutdownStop`, `ShutdownReset`. `stack` has the
handlers a thread is inside, since `dispatch` nests them. The `relaxed` load of
`stopped_` at line 39 is taken as an atomic read: it orders nothing the code
relies on.

**`Signal`** and **`Service`** (`signal.h`, `service.h`). A thread has a stack of
`frames`, one for each `emit` or `call` it is inside, innermost first, and a set
(`waiting`, `wants`) with the write, or call, it is blocked on. The `shared_mutex`
is `writer` together with the frames, each of which holds it shared. `WriteLock`
and `WriteUnlock` enclose the change of `registry_`. In `Service` a handler may
leave out any of its own calls, and an exception ("expect svc") unwinds the whole
stack.

**`HttpServer`** (`session.cpp`). `Launch` is `do_launch` with the beginning of `do_listen`:
what fails there, such as `bind`, throws out of a detached coroutine, and nobody
hears of it. `conn[c]` has the client's side (what it has sent,
whether it has left), what has arrived and is unread, and the session's: `pc`,
the number of the request it is at, its deadline, the requests it has answered
and how it ended. One action per `co_await` of `do_session` (`ReadHeader`, `ReadBody`,
`Handle`, `Write`), one for each way out (`ReadGarbage`, `BodyTooBig`, `HandlerThrows`,
`FileFails`, `ReadEnd`, `PeerGone`, `TimedOut`), and `Accept` / `AcceptThrows` for
`do_listen`. An upload (`session.cpp:180-181`) leaves its body unread and
goes round the loop, which reads that body, and whatever follows it, for a request header:
the session is `astray` from there on. What lies there is the client's, so it may be
no header, which ends the session (`ReadGarbage`), the beginning of one or of its body
(`ReadPart`), or a whole one (`ReadHidden`), which is handled and answered as any
other. Where a hidden request ends need not be where a message of the client
does (`Rests`). `hidden` has these requests, at most `MaxHidden` of them, and their
replies bear the number 0.

**`Router`** (`router.cpp`). `Rule` is `http_router_path_parse`, `Captures` the
match of the regular expression the code builds, with its greedy, backtracking
`(\S+)`, `QueryParse` and `PutAll` the query and `emplace`, `Dispatch`
`handle_request`. Patterns and paths are sequences of characters, since what can
go wrong is where a parameter ends. A request comes with its target as it was sent; the
constant `Requri` has what `url_parse_requri` makes of each target, a canonical path with
a query or a failure, which is answered with 400. `MCRouter` computes that table with
module `Url`.

**`StaticFiles`** (`session.cpp`). `Mount` is `serve_static`; `Claimer` is the `find_if` over
the `std::map`, with the order of its keys; `StaticAnswer` is
`static_file_handler`, with its test of the characters (`Illegal`), `path_cat` and
`mime_type`. A name means what the kernel makes of it (`Resolve`, `Opened`), given the
files and directories. A request that no mount claims is `HandleRouted`, which is
`HandleRequest` of `Router`. The mounts are tested against the target as it was
sent, the routes against its canonical path.

**`MultipartParser`** (`multipart_parser.h`). One action per turn of the loop in
`parse`, and in state 2 one per header line. `Feed` gives `parse` the next chunk,
of any length. A header line is one character that says which field it sets. What a
message means is said apart from the parser (`IsMessage`): which parts it has, and
where in its text the header of each begins, its lines and its body end (`places`); how
it goes on behind a part (`Another`, `Closes`, `BreaksOff`); and that it
may end with a header that goes wrong (`GoesWrong`). The messages of
`MCMultipartParser` are put together from their parts, and TLC evaluates that they have
the meaning they are given (`MultipartAssumption`).

**`Url`** (`url.cpp`). Texts are sequences of bytes; `Esc(b)` stands for "%XX" and
`BadEsc` for a "%" without two hexadecimal digits. The passes of
`url_canonify_uri` are `Unescape`, `Collapse`, `Resolve` and `Utf8Valid`.
`WithRequri` is `url_parse_requri`, and `Parsed` is `url_parse`, which fills the
`url_t` part by part, so that a failure leaves it half filled and a second call finds
what the first left. The port of a new `url_t` is not initialised (`AnyPort`).
`Utf8Valid` reads the bytes the code reads, which are not those of the sequence.
What a path means is stated apart from the passes: its elements lead from one place
to the next, and ".." back to the place before (`Entered`, `Normal`).
The loops are recursive functions of the position (`Collapsed`, `Reduced`, `Scanned`): what
the first `i` bytes leave. A port is what `std::stoi` makes of the text behind the colon,
its white space and its sign included (`PortOf`). URLs that end in "@" are left out (`UrlAssumption`), since the
code reads past their end.

**`HttpClient`** (`client.cpp`). `stage` is the `co_await` at which the coroutine is
suspended. `Fetch` parses the URL with `Parse` of `Url`; then come `Resolved`,
`ConnectDone`, `WriteDone`, `ReadDone` and `Shutdown`, or the way each fails. `left` is
what is left of the stream's deadline, and `Tick` lets time pass. The server is
free: it sends a head with one of three framings, pieces of a body, a last
chunk, a FIN or a RST at any time (`SendHead`, `SendPiece`, `SendLastChunk`, `Hangup`).
`Arrived` is when the parser, which has not been told the method, takes
the message for complete.

**`Json`** (`json.h`). A text is the tree that yyjson reads, with its pairs in
order. `Decode` is `from_json`, for all specialisations, and gives how it ends
("ok", an exception, or the end of the process through `gsl::not_null`)
together with what the target has become by then; `Encode` is `to_json`. `Dump`,
`Write`, `Parse`, `Convert` and `Return` are the steps of `dump` and of both forms of
`parse`, with the documents they own (`docs`).

## 4. The runs

| Run | Instance | Shows |
|---|---|---|
| `queue_safety` | 1 producer in the pool, 1 outside, 2 consumers, 1 observer, 2 threads, 1 call each | nothing is lost, doubled or reordered (`ExactlyOnceInOrder`); the strand keeps the timer to one thread (`TimerExclusive`); the queue is a channel whose `pop` takes the whole backlog (`ImplementsChannel`); a consumer whose wait has ended takes what is queued (`WokenConsumerDrains`) |
| `stream` | 2 emitters, 2 emits each, 1 reader that may drop the stream, 1 thread, as in `async_signal2.cpp` | with one thread no wakeup is lost (`NoLostWakeup`); a queue is destroyed only when no push is in it and no `wake()` is left (`NoDanglingWake`); what is emitted is read (`EveryEmitIsTaken`), and then the reader sleeps (`ReaderComesToRest`) |
| `queue_lost_wakeup` | 1 producer, 1 consumer, 2 threads | **violated**: a lost wakeup |
| `pool` | 2 runners, 1 client, 1 task that may shut down, 1 that throws, sizes 1 to 3 | initialisation before use, main and its workers outside the pool at its destruction (`PoolUsable`), tasks start once and are not forgotten, `run` returns after `shutdown` and only then |
| `signal` | 2 threads, 3 handlers, 2 topics, 2 calls, both policies of the mutex | the range of an `emit` is stable (`EmitInv`), an `emit` is atomic, calls wait for ever only through nesting, calls and posted emits complete |
| `service` | 3 threads, 3 handlers (2 for one name), 3 calls, both policies | one registration wins, a call is atomic, deadlocks are the handlers' (`RegistryInv`), calls complete |
| `server` | 1 connection, 3 requests of 6 kinds (plain, closing, with a body, an upload with and one without a body, with a body over the limit), up to 2 more read out of what is none, with and without timeout | reads stay in step until an upload's body is left unread (`SessionInv`), replies in order and once, and what is answered behind such an upload is none of the requests asked (`ImplementsRequestReply`), a session with a timeout ends, every request is answered that has no such upload before it |
| `dispatch` | any 2 calls of `serve_static` (4 mounts inside each other, 2 directories) and `add_route` (7 patterns, 3 methods), 1 prefix or none; all paths of up to 4 characters of 3 with 5 queries, all texts of up to 2 characters of 5 behind "/" and "/a/", of up to 3 of 3 behind "/a/", 4 longer targets, and 9 that have another canonical path or none | no mount claims the target of what the router gets, the first fitting route runs, with the greediest cut (`DispatchInv`); the outermost mount answers before every route (`OutermostMountAnswers`), with nothing outside its directory (`ServedUnderRoot`) and the type of the last element (`TypeOfLastElement`) |
| `router_query` | 1 route of 21, 1 prefix or none, the same paths, 8 queries, the same 9 targets | **violated**: a well-formed query is refused |
| `multipart` | 10 messages, every way to cut them, callbacks that accept or refuse | parts are delivered in order and whole (`PartsInv`), `is_valid` is right and failures have a cause (`VerdictIsRight`), nothing is held back |
| `client` | all targets of up to 4 elements of 6, alone and behind a slash, paths of up to 4 path elements, UTF-8 sequences whole and broken, 316 URLs, two of them into one `url_t`; 7 URLs fetched with 2 methods, timeouts of 1 and 2, bodies of up to 2 pieces | a canonical text is a fixed point, a path is what its elements mean (`CanonicalForm`), the parts give back the URL and the port is the number in it (`PartsRecompose`); a result is a whole answer (`OnlyWholeAnswers`), a fetch ends, within twice the timeout once the host is resolved |
| `json` | 8 types with mandatory, optional, nested, raw, repeated and initialised members; 2000 texts, and all their values of a few | a caller gets a whole value, an exception, or (a mandatory member is missing) the end of the process, and no document is left or freed too early (`AllOrNothing`); what is written is read back (`RoundTrip`); a struct and a map take the same one of two equal keys |

*Why the bounds are enough.* Two producers and two consumers are needed for
pushes to race with each other and for consumers to end each other's waits, and
two threads for a push to come between two steps of `pop`; more repeat these
roles. A pool of three has two workers, so one may be inside a handler while
another leaves; two runners and a client are enough for two to wait for the
third's initialisation. A deadlock over the mutex needs a reader that nests and
a writer: two threads, and a third makes a second registration race with the
first. Three requests are the least with one before and one behind the request
in question; two hidden ones, with one that is answered and one behind it. Two routes show precedence; four characters are enough for
two parameters with a slash inside and a literal behind. The messages of
`multipart` have bodies that contain all but the last character of a delimiter,
and every cut of each is tried. Four elements of a target behind a slash have room for an
escaped dot and what it takes back, or a query behind, and four path elements for each
order of the passes' work. Two set-up calls are enough for two mounts, two
routes or one of each to compete; three characters behind "/a/" for "..", "//"
and an extension. Two emits of each of two coroutines allow one before the
stream is there, one while it is read and one after it has been dropped. A
timeout of two lets a stage take part of it, and two pieces of a body
let an answer stop in the middle; the history `elapsed` is counted up to three timeouts,
more than the property allows. Integers of three bits stand
for the narrow types: what matters is that some numbers do not fit. Two pairs of
an object give a key twice, three give it once more behind another.

*Where the code differs from what its comments say.*

* **Lost wakeup** (`queue_lost_wakeup`, `async_queue.h:46`). `pop` finds the
  list empty; `push` on another thread appends and cancels the timer, on which
  nobody waits; `pop` then waits, with the value queued, until the next push.
  It cannot happen with one pool thread and no thread outside, which is proved.
  The model shows two more ways to this state or the like, without a run of
  their own: `size()` on a thread outside makes `try_lock` fail, and `pop` takes
  the list for empty (`:57`); and two consumers that loop on `pop` end each
  other's waits through `expires_at` for ever (`:44`), which is why
  `ReaderComesToRest` is checked with one consumer.
* **A well-formed query is a bad request** (`router_query`, `router.cpp:166`). The
  parse function returns true for success, and the caller takes true for failure.

Others the models have, without a run of their own:

* *The epilogue is not always removed* (`multipart_parser.h:163-164`, "Remove
  epilogue"; `BoundaryNext`). It is only if it comes in one chunk with the close delimiter;
  in a chunk of its own it is parsed as another part.
* *The accept loop ends* (`session.cpp:87`, `AcceptThrows`). One exception of
  `async_accept` ends the coroutine.
* *The UTF-8 test reads the wrong bytes* (`url.cpp:60-62`, `Utf8Valid`). The pointer
  moves on before the byte is added, so that U+0800 is refused and surrogates pass,
  where the comment at line 23 promises the opposite.
* *A host "\*" alone is not skipped* (`url.cpp:315`, `HostOf`), though the comment
  says so: the code looks for the star behind the host.
* *A separator right behind "@" is taken into the host* (`url.cpp:303-311`, `Scan`),
  where the comment at line 294 lets it end the host.
* *An empty user does not keep another from following* (`url.cpp:304`, `Fronts`):
  "h://@a@h" is accepted with the user "a", and the "@" in front of it is in no part,
  where line 265 has `<scheme>://[user@]<hostname>[:port][/requri]`.
* *Parts of an earlier URL stay* (`url.cpp:253-259`, `304`, `Parsed`) in a `url_t` used
  again, where `url.h:11` has a part that is not specified be NULL. `PartsRecompose` says
  which: a user, a query or a fragment that the new URL does not have, and no other part.

Behaviour the models have about which no document says what is meant, and which
a user of the library would want to know:

* *Server.* The unread body of an upload is read for a request, and answered if it is one
  (`ReadHidden`, `session.cpp:175-188`). A target that lies under a mount only once
  it is canonical, such as "/x/../a/f" with a mount "/a", goes to the router, which
  sees "/a/f" (`session.cpp:192`, `router.cpp:147-149`). The exception of a connection a handler uses is taken for the
  session's own (`HandlerThrows`, `session.cpp:230`). A mount "/" takes the slash off the
  path, so that every file under it is a bad request and "/" opens the directory
  itself (`session.cpp:203`, `Illegal`). A mount inside another is never reached
  (`:194`). GET of a directory without its slash opens it, and fails only when
  the response is written, which ends the session (`:121`, `:215`; `write_fails`, `FileFails`).
* *Multipart.* A chunk that cuts the initial boundary loses the leading parts
  (`InitialBoundary`, `multipart_parser.h:69`; `NoPartIsTorn` says that no more than these
  are lost). Only the first header line of a call is held against the limit of a
  line's length (`:87`).
* *Router.* A malformed query is passed on as far as it was parsed (`router.cpp:73`, `166`, `Answer`).
* *Url.* A port may be negative, or have a sign or white space before it and anything behind it
  ("h://a:-5", "h://a: 8x"; `url.cpp:362`, `PortOf`); of the numbers an `int` holds only -1 is refused.
* *Client.* The body that the head of an answer to HEAD announces is waited for until the
  deadline (`client.cpp:66`, `Arrived`). `options.body` is not sent. The
  port of a "unix" URL is the uninitialised one (`client.cpp:86`). Resolving the
  host has no deadline (`:33`), so that `FetchEnds` rests on the resolver.
* *Json.* A missing mandatory member ends the process instead of throwing
  (`json.h:80`), at any depth. A member
  that is a vector with elements keeps them in front of the ones read (`:158`).
  An integer takes a real for 0 and wraps one that does not fit (`:96`, `:103`). An
  optional raw value that is null is read back as no value. `RoundTrip`
  leaves out the types that have the second or the last (`Faithful`).
* *Signal.* A handler that registers or removes locks a mutex its own thread
  holds shared (`signal.h:32`), and waits for itself. No handler in the repository does so, and
  the model's handlers only emit.
* *Stream.* `NoDanglingWake` holds because one thread runs the pool, where `wake()` runs its
  lambda before it returns. With several the lambda may be queued in the strand
  and find the queue gone (`async_queue.h:72`).

*Deadlock.* Every cfg says `CHECK_DEADLOCK FALSE`, since each of these systems
comes to rest: the producers have made their calls, main has returned, the
clients have left. Waiting for ever is instead the subject of
`NoLostWakeup`, `OnlyNestingDeadlocks`, `RegistryInv`, `NothingIsHeldBack`
and the liveness properties. No run uses symmetry.

## 5. Fairness

* Weak fairness for every step of a thread that is inside a call: the operating
  system schedules the threads.
* Strong fairness for `Resume` and `StrandInvoke`: a free thread of the pool may
  be taken by another handler again and again, but the `io_context`'s queue is
  FIFO.
* Strong fairness for the blocking locks (`PushLock`, `PopLock`, `WriteLock`,
  `Invoke`, `EmitNested`, `OnceEnter`): a lock that is free again and again is
  granted. `try_lock` has no such claim.
* `AsioPool`: main calls `asio_pool_run()` until it returns without an
  exception, as the examples' main functions do; clients need do nothing.
* `Signal`, `Service`: handlers return. No thread need make a call.
* `HttpServer`: handlers return, and time passes (`Expire`). A client need not
  send, read or leave.
* `SignalStream`: the queue's fairness; the reader's coroutine makes the stream
  (weak), and an emit that finds no queue goes on when its coroutine gets the thread
  (strong, as for `Resume`). Nobody need drop the stream.
* `HttpClient`: time passes (`Tick`), the resolver answers or fails, a deadline that has
  passed is acted on (`TimesOut`), and `shutdown()` returns. Nothing is
  assumed of the server, nor of the network that takes connection and request.
* `MultipartParser`, `Router`, `StaticFiles`, `Url` and `Json` have safety properties
  only: each is a sequential algorithm that its caller runs to the end.

`EveryCallReturns` of `Signal`, which also has every posted emit run, says nothing of
a mutex that prefers writers, under which the deadlock that `OnlyNestingDeadlocks`
describes is real; that of `Service` says nothing of handlers that register.

## 6. What is assumed of the libraries

* *Boost.Asio.* `dispatch` on a thread of the context, or inside the strand,
  runs the handler in place; otherwise it is queued, first in, first out. A
  strand runs one handler at a time. Cancelling a timer completes the waits that
  are pending and no others, and their coroutines resume outside the strand, on
  any thread. `run()` returns when the context is stopped or out of work, and
  throws what a handler throws.
* *Boost.Beast.* A `tcp_stream` with its deadline is atomic; a request is read
  whole or not at all; an operation that is under way when the deadline has
  passed may still complete. In `HttpClient` a deadline that has passed is acted on
  before more time passes. The parser of a response takes a message for complete
  by its length, by its last chunk or, without either, at the end of the connection.
* *yyjson* keeps the pairs of an object in order, finds the first of equal
  keys, and refuses to write strings that are not UTF-8 and reals that are not
  finite. Its integers are of 64 bits; the C++ conversion to a member's type is modulo its
  width.
* *The file system*: a name is walked element by element, "" and "." stay, ".." goes
  up, relative names start at the working directory; there are no symbolic
  links. A directory can be opened for reading, and its bytes cannot be read.
* *`std::shared_mutex`.* Whether a waiting writer holds up new readers is
  implementation defined, hence `Policies`; locking it shared twice on one thread
  is formally undefined, and the model has what the implementations do.
* *`std::call_once`* lets one caller through, and another after an exception.
* *`std::regex`* matches greedily, leftmost first.
* *`std::stoi`* skips white space, takes a sign and digits, ignores what follows, and throws
  without a digit or if the number is none that an `int` of 32 bits holds.

## 7. What is proved

The proofs hold for every value of the constants that satisfies the module's
named assumptions: any number of producers, consumers, observers, runners,
clients, threads, tasks, topics, handlers, connections, requests and calls, any
timeout, all mounts, routes, targets, URLs and messages. The assumptions say that sets which stand for different
things do not meet (`QueueAssumption`, `PoolAssumption`, `SignalAssumption`,
`ServiceAssumption`, `ServerAssumption`, `ClientAssumption`: "no deadline" is not a number), that texts are texts
(`StaticAssumption`, `RouterAssumption`, `UrlAssumption`), that a message has the meaning that comes with it and no header line
of it exceeds the limit (`MultipartAssumption`), and of the MIME table what `mime_types.h` has: a key is
a "." and what is behind it, and `ci_less` keeps one of those that differ in
case (`MimeAssumption`). TLC evaluates them in the runs of these modules. The inductive invariants
below (`IInv`, if no other name is given) were checked by TLC on the run's instance before they were
proved.

`AsyncQueueProofs`: `TypeCorrect`, `ExactlyOnce`, `TimerIsExclusive` and
`QueueImplementsChannel` follow from one inductive invariant, `IInv`. The
properties are not inductive: that no value is lost when a consumer clears the
list rests on the list still being what was moved out (`MoveInv`), which rests
on the mutex being held by exactly the actor that stands inside its section
(`MutexInv`); that two actors never touch the timer rests on the same
correspondence for the strand (`StrandInv`), which needs that an invocation is
posted only for an unlocked strand with handlers in it (`PostedInv`), that what
waits in the strand is suspended there (`SuspendedInv`) and what waits on the
timer stands in `pop` (`WaitInv`). `CallsInv` gives the value being pushed its
number.

`OneThreadNoLostWakeup` assumes one pool thread and nobody outside
(`OneThread`), the case in which `NoLostWakeup` holds. Its invariant adds that the
running handler is the only one that stands between two suspension points
(`RunningInv`), that the strand is never contended (`StrandIdle`), that the list is
empty between the look at it and the wait (`GapInv`), and that a wake is pending
whenever a value is queued and all wait (`PendingInv`).

`AsioPoolProofs`: `TypeCorrect`, `InitBeforeUse`, `SoleRunner` and
`PoolImplementsTaskPool` follow from `IInv`: there is a pool, of some size, once
the flag is set (`OnceInv`); a task is on its way with one caller at most
(`GoalInv`); the context is stopped, or its work guard gone, only after
`stopped_` (`StopInv`); what is queued has been submitted, occurs once and has
not started (`QueueInv`); a worker that is not out belongs to a runner that has
spawned it and not joined it (`WorkerInv`); a pool of one has spawned nobody
(`SoleInv`), from which `SoleRunner` follows: a handler that throws out of the `run`
of a pool of one leaves no joinable thread behind (no run checks this one).
`NoUseAfterDestroy` adds that a destroyed pool means that main has returned, and
`PoolIsUsable` joins it with `InitBeforeUse` to the property that the run `pool` checks.

The theorems about `SignalStream` are in `AsyncQueueProofs` too, and build on the
invariant of the queue. A step of a stream is
a step of the queue or gives up a turn without a call (`StreamStep`, `LeaveTurn`), which
keeps that invariant; hence `StreamIsAChannel`, on any number of threads.
On one thread (`OneThread`) it also keeps the invariant of `OneThreadNoLostWakeup`, hence
`StreamLosesNoWakeup`. `DroppedStreamIsLeftAlone` (`NoDanglingWake`) needs, besides, that
the reader that has dropped its stream is in none of its calls
(`DroppedInv`). That is so for the one coroutine which made the
stream (`OneReader`), as in the example; a second reader could still be
suspended on the timer of a queue that the first one destroys.

`SignalProofs`: an emit walks the handlers of its topic with the mutex held
shared, so that `RangesAreStable` (`EmitInv`) rests on nobody being inside an emit while
there is a writer (`WriterInv`); that a writer always has something to write, and a
thread waits for one write at most and only outside of all emits (`WaitInv`), makes it inductive, and
`DeadlockNeedsNesting` (`OnlyNestingDeadlocks`) follows: a thread that is blocked
otherwise waits for one that is not. `SignalIsAtomic` maps an emit to the abstract one at the
moment it returns: by then its frame has run all that is registered, since the
range has not changed.

`ServiceProofs`: a registered handler is never replaced (`RegisteredForGood`, an action property of its
own that no run checks), so that the handler of a call is still the registered one when the
call ends (`FramesInv`, with `NamesInv` for the name it was registered under), and
`ServiceIsAtomic` maps the call to the abstract one at that moment.
`OnlyHandlersBlock` (`RegistryInv`) needs only the types: it is about who can hold
the mutex that all wait for.

`HttpServerProofs`: the two theorems rest on an invariant of each connection.
For `SessionsStayInStep` (`SessionInv`), what is in the socket has to be what the requests asked for:
there is a numbering of the headers that wait (`Numbers`), from the number the
session has read to the number the client has sent, under which a body stands exactly
where the request before it has one (`StreamInv`, `BodyDue`, `BodyUnread`). That holds until the
session passes over the body of an upload, after which nothing relates what it
reads to what was asked; the property says so, and speaks of the sessions
that have read no such upload. For `ServerAnswersInOrder`, the requests between the last one
answered and the current one are all uploads (`TurnInv`), and a reply that closes the connection
is the last thing the session does. A session that has gone astray stands at an upload with
a body, the last request it knew, and has answered all those before it that are
to be answered (`AstrayInv`): what it answers from there on maps to `ReplyAstray` of
`RequestReply`, after which no request that was asked is answered any more.

`HttpClientProofs`: `TwiceTheTimeoutAtMost` needs to know at each stage how
much of the current deadline is left: time spent plus time left is at most one
timeout while connecting and two from then on (`ClockInv`). `OnlyWholeAnswersReturn`
needs that an answer which has arrived stays as it is once the client shuts the socket down
(`AnswerInv`).

The theorems about the `url_t` are there too, since `HttpClient` extends `Url`: `TargetsAreResolved`
(`CanonicalForm`, which is `CanonicalIsFixed`, a theorem of its own in `CanonicalStays`, with
`PathIsResolved`), `NoPartIsLost` (`PartsRecompose`) and `NothingLeadsUpwards`, which says of
the path what a caller who opens files relies on. They follow from one invariant, `UrlInv`:
the target is canonical and path, query and fragment are its pieces, or are those an
earlier URL has left (`Settled`), the path of a request is that of the canonical form of what
was asked for. That invariant speaks about all texts, so TLC has checked the properties instead of it.
`PartsRecompose` is about a step, since it compares the parts with those an earlier URL left. The
weight is on the canonical form. Each pass must leave what the
passes before it have made: after `Collapse` there are no two slashes in a row
(`CollapseIs`), and `Resolve`, which cuts pieces out, must not bring two slashes, or
a slash and a dot element, together again. `ResolveIs` follows it byte by byte: what
is left so far ends with what the text has just had, unless an element has just been taken off
(`Follows`), and is free of "." and ".." but for an element that has not ended yet
(`Undotted`, `Ended`). A text of which this holds is one that no pass
changes (`UnescapeFixed`, `CollapseFixed`, `ResolveFixed`).

That the path is the one its elements mean (`PathIsResolved`) is shown by following the code
and the reader side by side. `Resolve` throws away bytes it has already copied, where the reader
goes back to a place it remembers. At each byte the place the reader
is at is what `Resolve` has left, and the rest of the element it copies, or exactly what it has
left while it passes over dots (`EnteredSoFar`, `ResolvedPath`); that the
two go back to the same place is because each place the reader remembers is the next
one without its last element (`IsPlaces`). The reader skips empty elements and
`Collapse` removes them first: what it keeps has the same elements in the same order
(`KeptElement`), so both lead through the same places (`CollapseEnters`). No
escape that `Unescape` replaces is a separator (`UnescapePath`).

For `PartsRecompose` the same is done, part by part, for one call of `url_parse` on any `url_t`
(`ParsedApart`): the scan of the authority (`ScanIs`: the user found, if any, stands in front of the
host with its "@", or behind an empty one; the host runs to the first separator, `HostBytes`), the host and
its port (`HostIsTaken`; `NumberIsRead`: the sign and the digits that `PortOf` takes are all there are)
and the target (`TargetSplits`).

`StaticFilesProofs`: the mounts are those given to `serve_static`, each with its first directory
(`MountsInv`), and nothing is mounted once requests come. That `find_if` over a
`std::map` finds the outermost mount is a fact about the order: mounts that claim the
same target are prefixes of it, and of two prefixes the shorter one is less
(`ShorterIsLess`), hence `OutermostMountWins` (`OutermostMountAnswers`). That the router gets only what no mount claims
is said of the target as it was sent, which `request` keeps beside its canonical path.
`TypeIsOfLastElement` (`TypeOfLastElement`) is a lemma about names
(`TypeByExtension`): the text behind the last "." of a whole name is a key of
the table only if the last element of the name ends with it.

`NothingOutsideIsOpened` (`ServedUnderRoot`) follows the name that is opened from
directory to directory. The part of the name that is the directory leads to the directory
(`TrimmedIsSamePlace`). Behind it stands the target, which has
no ".." (`NameInv`), so that each further element either stays where it is or enters something
below (`EnteredBelow`, `WalkStaysBelow`). `FileIsUnderRoot` puts the two together, for any tree of
directories.

`FirstFittingRouteAnswers` and `DispatchIsRight` (`DispatchInv`) need of the state only
that the routes are those given to `add_route` and that the request is unanswered, has been refused for
its target, or has the answer of the first route that matches (`RouterInv`, `AnsweredOnce`). They hold
of whatever `Requri` makes of the targets. The
weight is on `MatchIsGreedy`: the match that is
put together from the last element of a rule to its first, each `(\S+)` trying its longest
piece first, gives the greediest cut of the path, if there is one. A cut is
compared by the places where its pieces end (`GoodCutsByEnds`), and the one whose pieces end further
is the greedier one (`FurtherIsGreedier`, `GreediestIsBest`). `SetPrefix` leaves the routes
alone, `StaticFiles` adds mounts and the steps of the router (`RoutedStep`).

The patterns, matches and walks are recursive functions. The library's theorems about
induction take an operator as a parameter, which the provers here cannot instantiate. Each
of these inductions is therefore made over a set of numbers: the least (or the greatest) number at which the
claim fails cannot be one (`Smallest`, `UpTo`, `DownTo`), and that such a function
satisfies its equation follows in the same way (`PartsEquation`, `MatchEquation`, `WalkEquation`).

`MultipartParserProofs`: `PartsComeWhole` (`PartsInv`), `VerdictsAreRight` (`VerdictIsRight`) and
`NothingWaits` (`NothingIsHeldBack`) follow from one invariant, for every message that has a meaning
(`IsMessage`) and every way to cut it into chunks. What the properties say is about what has been delivered; what
decides the next step is how the buffer and the rest of the input lie in the message.
`BufInv`: the buffer is the piece of the text that ends where the input begins. `PlaceInv`:
the parser stands at one of the places the message has in the state it is in. It has found
no boundary yet (`AtStart`), or is at the first header line of a part, behind some
of its header lines, in its body or behind its delimiter (`AtHead`, `InHeader`,
`InBody`, `AtDelimiter`), and has delivered the parts before this one, but for the first `k`: those go
by unseen while the initial boundary comes in pieces. `IdleInv`: `parse` has returned
because the buffer has too little to go on, or for good. `FailsForACause`: it has returned
false only if a callback did or the message is malformed. `PlaceInv` says nothing once the end of
the message has come in pieces, as the properties do not. With them, what `Find`
and `StartsWith` tell of the buffer are facts about the message (`FindIs`, `StartsWithIs`,
`LineIsFound`, `DelimiterIsFound`), and each step leads from one place to the
next. A body that holds the beginning of a delimiter is where this takes care: `BodyMore`
must not hand out what may yet become one (`DelimiterIsFound`, `BodyMoreStep`).

*Only model-checked:*

* All liveness (`WokenConsumerDrains`, `EveryEmitIsTaken`, `ReaderComesToRest`,
  `EveryTaskStarts`, `ShutdownEndsRun`, `SessionEnds`, `EveryRequestAnswered`,
  `EveryCallReturns`, `FetchEnds`): fairness and `ENABLED` are out of the prover's reach.
* `Json` (`AllOrNothing`, `RoundTrip`, `StructAndMapAgree`): its types and values are trees, and
  the operators over them are declared `RECURSIVE`, about which nothing can be proved here.
* The two properties that the code violates (`QueryReachesHandler`; `NoLostWakeup` on more than one thread),
  and `QueryParse`, which only the first is about.

## 8. What is not modelled

* The destruction of a server with live sessions: its lifetime is the caller's,
  and the example's server lives as long as the program. That of a queue is
  modelled where the repository has an owner that may go (`SignalStream`).
* A client thread's `shutdown()` that is still between `stop()` and `reset()`
  when main destroys the pool is in the model, but `PoolUsable` does not
  forbid it: nothing in the code keeps main waiting for a thread it does not own.
* `asio_pool_shutdown()` before any other call (it dereferences a null pointer),
  and the separate copies of the header's `static` pool in each translation unit.
* Malformed requests, but for what is read out of an upload's body: a session ends with an
  exception. Malformed answers, and those over Beast's body limit: a fetch ends as it does when the
  connection breaks off.
* Sizes: of a request only whether its body is over the limit (`TooBig`), of a file
  nothing. The headers of requests and responses, logging.
* `Service::async_call` and `HttpServer::serve_multipart`, which are declared and
  not defined.
* Two sessions at once: they share the routes, which nobody changes after the
  launch, and nothing else.
* `nni_url_decode`, which nobody calls.
* `function.h`: `function`, `bind` and `invoke` are resolved at compile time; what is
  left at run time is a call. The same holds of `SingletonProvider` (a
  function-local static), `Stopwatch`, the lock adapters and the type traits. The MIME
  table is a constant; `GetMimeType` models its lookup.
* `async_sleep` and `CCL2_ASIO_DEFINE_ASYNC_INIT` (`asio_helper.h`): the macro turns a
  function with a callback into an asynchronous operation, and moves the handler out on the first
  call. `signal_async_wait` of `examples/src/coro/async_signal.cpp` does the same by hand and
  leaves its handler registered, so that a second emit would invoke a moved-from
  handler (line 35); the example's comment at line 46 says that looping over it failed.
  What becomes of the second call is up to Boost.Asio.
* The other examples and the tests, which use the library and supply the configurations.
