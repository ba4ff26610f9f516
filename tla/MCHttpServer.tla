---------------------------- MODULE MCHttpServer ----------------------------
(***************************************************************************)
(* HttpServer for TLC: a GET, a GET with Connection: close, a POST that a  *)
(* handler of the program answers, an upload, one without a body, and a    *)
(* POST over the limit.                                                    *)
(***************************************************************************)
EXTENDS HttpServer

CONSTANTS get, last, post, upload, empty, big

MCRequests == {get, last, post, upload, empty, big}
=============================================================================
