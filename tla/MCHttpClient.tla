---------------------------- MODULE MCHttpClient ----------------------------
(***************************************************************************)
(* HttpClient for TLC, with the URLs of MCUrl.  Those that are fetched     *)
(* have a port, a scheme that has one, neither, or are refused.            *)
(***************************************************************************)
EXTENDS HttpClient, MCUrl

CONSTANT GET

Sep == <<Colon, Slash, Slash>>

\* "h://a", "h://a@[:a]/.?a#a", "h://a:8", "h://a:a", "x://a:8", "u://" and
\* "u:///"
MCFetched ==
    {Http \o Sep \o <<a>>, Http \o Sep \o <<a, At, Open, Colon, a, Close, Slash, Dot, Query, a, Hash, a>>,
     Http \o Sep \o <<a, Colon, 56>>, Http \o Sep \o <<a, Colon, a>>,
     Other \o Sep \o <<a, Colon, 56>>, MCUnix \o Sep, MCUnix \o Sep \o <<Slash>>}
=============================================================================
