---------------------------- MODULE MCHttpClient ----------------------------
(* Two requests, the remote's host and a second one that may be the LFS URL's *)
(* host or the target of a redirect; passwords change once.                   *)
EXTENDS HttpClient

CONSTANTS r1, r2, h1, h2

MCRequests == {r1, r2}
MCHosts == {h1, h2}

\* The endpoint, credentials in the URLs, the netrc entry, the helper, and the server.
Plain == [lfsurl |-> None, embedded |-> {}, urlpw |-> 1, netrc |-> None, askpass |-> FALSE,
          ssh |-> FALSE, offers |-> {"basic"}, kerberos |-> FALSE, stored |-> None]
MCConfigs ==
  {Plain, [Plain EXCEPT !.offers = {}], [Plain EXCEPT !.ssh = TRUE],
   [Plain EXCEPT !.askpass = TRUE], [Plain EXCEPT !.askpass = TRUE, !.stored = 0],
   [Plain EXCEPT !.netrc = 0, !.stored = 0], [Plain EXCEPT !.netrc = 1, !.askpass = TRUE],
   [Plain EXCEPT !.embedded = {"origin"}, !.netrc = 1],
   [Plain EXCEPT !.lfsurl = h2, !.embedded = {"origin"}],
   [Plain EXCEPT !.lfsurl = h2, !.embedded = {"lfsurl"}, !.urlpw = 0],
   [Plain EXCEPT !.offers = {"negotiate"}], [Plain EXCEPT !.offers = {"negotiate", "basic"}],
   [Plain EXCEPT !.offers = {"negotiate", "basic"}, !.kerberos = TRUE]}
=============================================================================
