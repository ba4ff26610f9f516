---------------------------- MODULE RequestReply ----------------------------
(***************************************************************************)
(* What HttpServer promises to a client, with no socket, no parser and no  *)
(* deadline: the requests of a connection are answered in order, each at   *)
(* most once, those the server does not answer (uploads) aside, and        *)
(* nothing is answered after a reply that closes the connection.  An       *)
(* upload with a body may lead the server astray: what it answers then is  *)
(* what it finds in that body and behind it.                               *)
(***************************************************************************)
EXTENDS Integers, Sequences

CONSTANTS
    Conn, Request,
    Unanswered, \* the requests that get no reply
    Leading     \* those of them that lead the server astray

VARIABLES
    asked,      \* per connection: the requests the client has sent
    replied,    \* per connection: the numbers of those answered, or 0
    over        \* connections on which no further reply comes

vars == <<asked, replied, over>>

Init ==
    /\ asked = [c \in Conn |-> <<>>]
    /\ replied = [c \in Conn |-> <<>>]
    /\ over = {}

Ask(c, q) ==
    /\ asked' = [asked EXCEPT ![c] = Append(@, q)]
    /\ UNCHANGED <<replied, over>>

\* The number of the last request answered.
LastReply(c) == IF replied[c] = <<>> THEN 0 ELSE replied[c][Len(replied[c])]

Astray(c) == replied[c] # <<>> /\ LastReply(c) = 0

\* Every request after the last one answered and before n gets no reply.
Reached(c, n) ==
    /\ n \in LastReply(c) + 1 .. Len(asked[c])
    /\ \A m \in LastReply(c) + 1 .. n - 1 : asked[c][m] \in Unanswered

Answer(c, n) ==
    /\ c \notin over
    /\ replied' = [replied EXCEPT ![c] = Append(@, n)]
    /\ over' \in {over, over \cup {c}}
    /\ UNCHANGED asked

\* Number n is answered: every earlier one has been, or never will be.
Reply(c, n) ==
    /\ ~Astray(c)
    /\ Reached(c, n)
    /\ asked[c][n] \notin Unanswered
    /\ Answer(c, n)

\* What is answered is none of the requests asked.
ReplyAstray(c) ==
    /\ Astray(c) \/ \E n \in DOMAIN asked[c] : Reached(c, n) /\ asked[c][n] \in Leading
    /\ Answer(c, 0)

Close(c) == over' = over \cup {c} /\ UNCHANGED <<asked, replied>>

Next ==
    \E c \in Conn :
        \/ \E q \in Request : Ask(c, q)
        \/ \E n \in DOMAIN asked[c] : Reply(c, n)
        \/ ReplyAstray(c)
        \/ Close(c)

Spec == Init /\ [][Next]_vars
=============================================================================
