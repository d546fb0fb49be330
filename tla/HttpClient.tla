----------------------------- MODULE HttpClient -----------------------------
(***************************************************************************)
(* Requests to the API with their authentication: which endpoint and which *)
(* credentials a request gets (lfsapi/endpoint_finder.go, auth.go), the    *)
(* chain of credential helpers with its cache (creds/creds.go, netrc.go),  *)
(* redirects (lfshttp/client.go) and the tokens of git-lfs-authenticate    *)
(* (lfshttp/ssh.go).                                                       *)
(*                                                                         *)
(* The requests of one process run concurrently and share the access mode, *)
(* the list of modes still to be tried, the cache of credentials and the   *)
(* netrc hosts to skip.  Servers, git credential, the askpass program and  *)
(* the user are external.  A credential is a host and a password number;   *)
(* the servers' passwords change, 0 is a password that is always wrong.    *)
(***************************************************************************)
EXTENDS Integers, Sequences, SequencesExt

CONSTANTS
  Requests,
  Hosts, Origin,     \* Origin is the host of remote.origin.url
  Configs,           \* configurations and servers to start from
  MaxPassword,       \* bound: passwords that a host ever has
  MaxRedirects,      \* bound: redirects that the servers answer with
  MaxFaults          \* bound: wrong entries by the user, network failures

None == -1
Passwords == 0..MaxPassword

ASSUME HttpClientAssumption ==
  /\ Origin \in Hosts /\ MaxPassword \in Nat \ {0} /\ MaxRedirects \in Nat /\ MaxFaults \in Nat
  /\ Configs \subseteq [lfsurl : Hosts \cup {None}, embedded : SUBSET {"lfsurl", "origin"},
                       urlpw : Passwords, netrc : Passwords \cup {None}, askpass : BOOLEAN,
                       ssh : BOOLEAN, offers : SUBSET {"negotiate", "basic"},
                       kerberos : BOOLEAN, stored : Passwords \cup {None}]

VARIABLES
  \* ---- the configuration and the world
  conf,        \* lfsurl, embedded, netrc, askpass, ssh, offers, kerberos and stored
  password,    \* the password that each host accepts
  stored,      \* what git credential has for each host: a password or None
  \* ---- shared by the requests
  access,      \* lfs.<url>.access
  modes,       \* Client.access: modes that were not tried yet
  cache,       \* credentialCacher
  netrcSkip,   \* hosts whose netrc entry was rejected
  token,       \* sshCache: "none", "valid" or "expired"
  \* ---- each request: the calls of doWithAuth that it is in, one for every redirect
  req,
  \* ---- bounds and history
  redirects, faults, accepted

world  == <<conf, password, stored>>
shared == <<access, modes, cache, netrcSkip, token>>
vars   == <<world, shared, req, redirects, faults, accepted>>

Null == [host |-> "nobody", pw |-> None, src |-> "none"]
NewCred(h, pw, src) == [host |-> h, pw |-> pw, src |-> src]
\* One call of doWithAuth: the request, and what the helpers gave for it.
NewCall(h, remote, auth) == [host |-> h, remote |-> remote, auth |-> auth, creds |-> Null]
NoReq == [phase |-> "new", calls |-> <<>>, mode |-> "none", newMode |-> "none", newModes |-> {},
          result |-> "none"]

\* AllAccessModes. The modes that are left keep this order.
AllModes == {"none", "negotiate", "basic"}

Init ==
  /\ conf \in Configs
  /\ password = [h \in Hosts |-> 1] /\ stored = [h \in Hosts |-> conf.stored]
  /\ access = "none" /\ modes = AllModes /\ cache = [h \in Hosts |-> None]
  /\ netrcSkip = {} /\ token = "none"
  /\ req = [r \in Requests |-> NoReq]
  /\ redirects = 0 /\ faults = 0 /\ accepted = Hosts \X {conf.stored}

Fault == faults < MaxFaults /\ faults' = faults + 1
At(r, phase) == req[r].phase = phase
Top(r) == Last(req[r].calls)
SetTop(q, call) == [q EXCEPT !.calls[Len(q.calls)] = call]
Set(r, q) == req' = [req EXCEPT ![r] = q]
Ends(r, result) == Set(r, [req[r] EXCEPT !.phase = "done", !.result = result])

-----------------------------------------------------------------------------
(* Endpoint and request *)

\* getEndpoint: lfs.url before the remote's URL.
Endpoint == IF conf.lfsurl # None THEN conf.lfsurl ELSE Origin

FirstCall(auth) == <<NewCall(Endpoint, TRUE, auth)>>

\* NewRequest and AccessFor.
Start(r) ==
  /\ At(r, "new") /\ ~conf.ssh
  /\ Set(r, [NoReq EXCEPT !.phase = "creds", !.calls = FirstCall(Null), !.mode = access])
  /\ UNCHANGED <<world, shared, redirects, faults, accepted>>

\* With SSH the request gets the token of git-lfs-authenticate, a cached one if it lasts
\* for five seconds more.
StartSsh(r) ==
  /\ At(r, "new") /\ conf.ssh
  /\ token' = "valid"
  /\ Set(r, [NoReq EXCEPT !.phase = "creds", !.mode = access,
                          !.calls = FirstCall(NewCred(Endpoint, password[Endpoint], "token"))])
  /\ UNCHANGED <<world, access, modes, cache, netrcSkip, redirects, faults, accepted>>

ResolveFails(r) ==
  /\ At(r, "new") /\ conf.ssh /\ Fault
  /\ Ends(r, "failed")
  /\ UNCHANGED <<world, shared, redirects, accepted>>

\* The token runs out, also for the requests that have it.
TokenExpires ==
  /\ token = "valid" /\ token' = "expired"
  /\ UNCHANGED <<world, access, modes, cache, netrcSkip, req, redirects, faults, accepted>>

-----------------------------------------------------------------------------
(* getCreds *)

\* Nothing is to be sent, Kerberos does it, or the request has a header already.
NoCredsNeeded(r) == req[r].mode \in {"negotiate", "none"} \/ Top(r).auth # Null

\* getCredURLForAPI: credentials in the URL of the endpoint, or in that of the remote if
\* it is on the endpoint's host; a redirected request has no remote.
UrlCreds(call) ==
  LET lfs    == conf.lfsurl # None /\ "lfsurl" \in conf.embedded
      remote == call.remote /\ Origin = Endpoint /\ "origin" \in conf.embedded IN
  IF call.host = Endpoint /\ (lfs \/ remote) THEN NewCred(call.host, conf.urlpw, "url") ELSE Null

SkipCreds(r) ==
  LET auth == IF NoCredsNeeded(r) THEN Top(r).auth ELSE UrlCreds(Top(r)) IN
  /\ At(r, "creds") /\ (NoCredsNeeded(r) \/ auth # Null)
  /\ Set(r, [SetTop(req[r], [Top(r) EXCEPT !.auth = auth]) EXCEPT !.phase = "send"])
  /\ UNCHANGED <<world, shared, redirects, faults, accepted>>

NeedsFill(r) == At(r, "creds") /\ ~NoCredsNeeded(r) /\ UrlCreds(Top(r)) = Null

Filled(r, c) == Set(r, [SetTop(req[r], [Top(r) EXCEPT !.auth = c, !.creds = c]) EXCEPT !.phase = "send"])

\* CredentialHelpers.Fill: netrc, the cache, askpass if there is one, git credential.
NetrcHas(h) == conf.netrc # None /\ h \notin netrcSkip

FillNetrc(r) ==
  LET h == Top(r).host IN
  /\ NeedsFill(r) /\ NetrcHas(h)
  /\ Filled(r, NewCred(h, conf.netrc, "netrc"))
  /\ UNCHANGED <<world, shared, redirects, faults, accepted>>

FillCached(r) ==
  LET h == Top(r).host IN
  /\ NeedsFill(r) /\ ~NetrcHas(h) /\ cache[h] # None
  /\ Filled(r, NewCred(h, cache[h], "cached"))
  /\ UNCHANGED <<world, shared, redirects, faults, accepted>>

AsksHelper(r) ==
  NeedsFill(r) /\ ~NetrcHas(Top(r).host) /\ cache[Top(r).host] = None

\* A helper that fails is skipped and the next one is asked.
AskpassFails(r) ==
  /\ AsksHelper(r) /\ conf.askpass /\ Fault
  /\ Set(r, [req[r] EXCEPT !.phase = "git"])
  /\ UNCHANGED <<world, shared, redirects, accepted>>

AsksGit(r) == At(r, "git") \/ (AsksHelper(r) /\ ~conf.askpass)

\* What git credential has stored.
FillStored(r) ==
  LET h == Top(r).host IN
  /\ AsksGit(r) /\ stored[h] # None
  /\ Filled(r, NewCred(h, stored[h], "helper"))
  /\ UNCHANGED <<world, shared, redirects, faults, accepted>>

\* The askpass program asks the user, or git credential does.
Prompted(r) == (AsksHelper(r) /\ conf.askpass) \/ (AsksGit(r) /\ stored[Top(r).host] = None)
Source(r) == IF AsksGit(r) THEN "helper" ELSE "askpass"

FillPrompt(r) ==
  LET h == Top(r).host IN
  /\ Prompted(r)
  /\ Filled(r, NewCred(h, password[h], Source(r)))
  /\ UNCHANGED <<world, shared, redirects, faults, accepted>>

FillWrong(r) ==
  LET h == Top(r).host IN
  /\ Prompted(r) /\ Fault
  /\ Filled(r, NewCred(h, 0, Source(r)))
  /\ UNCHANGED <<world, shared, redirects, accepted>>

\* git credential, the last helper, fails or has no answer.
FillRefused(r) ==
  /\ AsksGit(r) /\ Fault
  /\ Ends(r, "nocreds")
  /\ UNCHANGED <<world, shared, redirects, accepted>>

-----------------------------------------------------------------------------
(* The server's answer *)

Authorized(r) ==
  LET call == Top(r) IN
  \/ conf.offers = {}
  \/ req[r].mode = "negotiate" /\ "negotiate" \in conf.offers /\ conf.kerberos
  \/ /\ call.auth # Null /\ call.auth.host = call.host /\ call.auth.pw = password[call.host]
     /\ call.auth.src = "token" => token = "valid"

Answered(r) == accepted \cup {<<Top(r).creds.host, Top(r).creds.pw>>}

NetworkFails(r) ==
  /\ At(r, "send") /\ Fault
  /\ Ends(r, "failed")
  /\ UNCHANGED <<world, shared, redirects, accepted>>

Accept(r) ==
  /\ At(r, "send") /\ Authorized(r)
  /\ Set(r, [req[r] EXCEPT !.phase = "approve"])
  /\ accepted' = Answered(r)
  /\ UNCHANGED <<world, shared, redirects, faults>>

\* Mutant: the status is not looked at before credentials are approved.
RefuseApproves(r) ==
  /\ At(r, "send") /\ ~Authorized(r)
  /\ Set(r, [req[r] EXCEPT !.phase = IF Top(r).creds # Null THEN "approve" ELSE "refused"])
  /\ UNCHANGED <<world, shared, redirects, faults, accepted>>

Refuse(r) ==
  /\ At(r, "send") /\ ~Authorized(r)
  /\ Set(r, [req[r] EXCEPT !.phase = "refused"])
  /\ UNCHANGED <<world, shared, redirects, faults, accepted>>

\* getAuthAccess: the first mode that is left and that the server offers, else basic; a
\* failed Kerberos exchange has no response to look at.
OtherModes(mode) == modes \ {mode}
Offered(q) == IF q.mode = "negotiate" THEN {} ELSE conf.offers
FirstOffered(q) ==
  IF "negotiate" \in OtherModes(q.mode) \cap Offered(q) THEN "negotiate" ELSE "basic"

\* Every call of doWithAuth handles the 401, the innermost first. Client.access is read.
Unauthorized(r) ==
  LET q == req[r] IN
  /\ At(r, "refused")
  /\ Set(r, [q EXCEPT !.phase = "upgrade", !.newMode = FirstOffered(q),
                      !.newModes = OtherModes(q.mode)])
  /\ UNCHANGED <<world, shared, redirects, faults, accepted>>

\* Mutant: the header goes along to every host.
RedirectedAuthAnyHost(call, h) == call.auth

\* newRequestForRetry: the header goes along to the same host only.
RedirectedAuth(call, h) == IF h = call.host THEN call.auth ELSE Null

\* doWithCreds calls doWithAuth for the new request, without a remote; with Kerberos the
\* redirect is followed below it. The limit of three is never reached, as neither passes
\* on the list of requests.
Redirect(r, h) ==
  LET call == NewCall(h, FALSE, RedirectedAuth(Top(r), h)) IN
  /\ At(r, "send") /\ redirects < MaxRedirects /\ redirects' = redirects + 1
  /\ Set(r, IF req[r].mode = "negotiate" THEN SetTop(req[r], call)
            ELSE [req[r] EXCEPT !.phase = "creds", !.calls = Append(@, call)])
  /\ accepted' = Answered(r)
  /\ UNCHANGED <<world, shared, faults>>

\* A redirect from HTTPS to HTTP.
RedirectRefused(r) ==
  /\ At(r, "send") /\ redirects < MaxRedirects /\ redirects' = redirects + 1
  /\ Ends(r, "failed")
  /\ UNCHANGED <<world, shared, faults, accepted>>

-----------------------------------------------------------------------------
(* Approve and Reject *)

\* Mutant: the netrc helper leaves the rejection to the next one.
NetrcRejectIgnored(c) == netrcSkip

NetrcReject(c) == IF c.src = "netrc" THEN netrcSkip \cup {c.host} ELSE netrcSkip

\* Cached credentials are those of git credential; askpass, which comes before it, accepts and
\* rejects everything unless it was skipped.
Cacheable(c) == c.src \in {"helper", "cached"}
ReachesGit(c) == c.src = "helper" \/ (c.src = "cached" /\ ~conf.askpass)

\* The cache drops the host's entry whatever it holds; git credential erases what it has.
RejectCreds(c) ==
  /\ netrcSkip' = NetrcReject(c)
  /\ cache' = IF Cacheable(c) THEN [cache EXCEPT ![c.host] = None] ELSE cache
  /\ stored' = IF ReachesGit(c) THEN [stored EXCEPT ![c.host] = None] ELSE stored

\* Mutant: the header stays, so that the request is not sent again.
AfterRejectKeepsHeader(call) == call.auth

\* Credentials of a helper are taken out of the request.
AfterReject(call) == IF call.creds # Null THEN Null ELSE call.auth

\* SetAccess and Client.access are written; after the outermost call DoWithAuth sends the
\* request again if it has no header left.
SetAccess(r) ==
  LET q == req[r]
      upgraded == q.newMode # q.mode
      auth == AfterReject(Top(r)) IN
  /\ At(r, "upgrade")
  /\ access' = IF upgraded THEN q.newMode ELSE access
  /\ modes' = IF upgraded THEN q.newModes ELSE modes
  /\ IF Top(r).creds # Null THEN RejectCreds(Top(r).creds) ELSE UNCHANGED <<netrcSkip, cache, stored>>
  /\ Set(r, CASE Len(q.calls) > 1 -> [q EXCEPT !.phase = "refused", !.calls = Front(@)]
              [] Len(q.calls) = 1 /\ auth = Null ->
                   [NoReq EXCEPT !.phase = "creds", !.calls = FirstCall(Null), !.mode = access']
              [] OTHER -> [SetTop(q, [Top(r) EXCEPT !.auth = auth]) EXCEPT !.phase = "done",
                                                                        !.result = "unauthorized"])
  /\ UNCHANGED <<conf, password, token, redirects, faults, accepted>>

\* The calls return one by one; the first that fails to approve its credentials does not
\* keep the others from it.
CallReturns(r) ==
  Set(r, IF Len(req[r].calls) > 1 THEN [req[r] EXCEPT !.calls = Front(@)]
         ELSE [req[r] EXCEPT !.phase = "done", !.result = "ok"])

\* A key that is cached already ends Approve; credentials of askpass name no host, so
\* they are cached for none.
Approve(r) ==
  LET c == Top(r).creds
      new == Cacheable(c) /\ cache[c.host] = None IN
  /\ At(r, "approve")
  /\ netrcSkip' = IF c.src = "netrc" THEN netrcSkip \ {c.host} ELSE netrcSkip
  /\ cache' = IF new THEN [cache EXCEPT ![c.host] = c.pw] ELSE cache
  /\ stored' = IF new /\ ReachesGit(c) THEN [stored EXCEPT ![c.host] = c.pw] ELSE stored
  /\ CallReturns(r)
  /\ UNCHANGED <<conf, password, access, modes, token, redirects, faults, accepted>>

\* git credential approve fails: the cache is cleared again.
ApproveFails(r) ==
  LET c == Top(r).creds IN
  /\ At(r, "approve") /\ ReachesGit(c) /\ cache[c.host] = None /\ Fault
  /\ CallReturns(r)
  /\ UNCHANGED <<world, shared, redirects, accepted>>

\* The password of a host is changed.
ChangePassword(h) ==
  /\ password[h] < MaxPassword
  /\ password' = [password EXCEPT ![h] = @ + 1]
  /\ UNCHANGED <<conf, stored, shared, req, redirects, faults, accepted>>

-----------------------------------------------------------------------------
Step(r) ==
  \/ Start(r) \/ StartSsh(r) \/ SkipCreds(r) \/ FillNetrc(r) \/ FillCached(r) \/ FillStored(r)
  \/ FillPrompt(r) \/ Accept(r) \/ Refuse(r) \/ Unauthorized(r) \/ SetAccess(r) \/ Approve(r)

Next ==
  \/ \E r \in Requests : Step(r)
  \/ \E r \in Requests : ResolveFails(r)
  \/ \E r \in Requests : FillWrong(r)
  \/ \E r \in Requests : FillRefused(r)
  \/ \E r \in Requests : AskpassFails(r)
  \/ \E r \in Requests : NetworkFails(r)
  \/ \E r \in Requests, h \in Hosts : Redirect(r, h)
  \/ \E r \in Requests : RedirectRefused(r)
  \/ \E r \in Requests : ApproveFails(r)
  \/ TokenExpires
  \/ \E h \in Hosts : ChangePassword(h)

\* Servers, helpers and the user answer.
Spec == Init /\ [][Next]_vars /\ \A r \in Requests : WF_vars(Step(r))

-----------------------------------------------------------------------------
\* Credentials reach the host that they are for and no other: not through a redirect,
\* not from the URL of another remote, not from the cache (auth.go:185-224,
\* client.go:551-558).
CredsOnlyToTheirHost ==
  \A r \in Requests : At(r, "send") /\ Top(r).auth # Null => Top(r).auth.host = Top(r).host

\* What the cache and git credential keep was once sent to its host and not answered with
\* a 401: no wrong entry is ever saved, whatever requests overlap. A redirect counts as
\* an answer; the success of the redirected request approves the first one's credentials
\* too (auth.go:85-87, 113).
SavedCredsWereAccepted ==
  \A h \in Hosts : \A pw \in {cache[h], stored[h]} \ {None} : <<h, pw>> \in accepted

\* A request ends as unauthorized only with credentials that the helpers did not give: a
\* rejected netrc entry, cached or stored password leads to the next helper, and at last
\* to the user (auth.go:25-41, 78-81).
UnauthorizedOnlyAsGiven ==
  \A r \in Requests : req[r].result = "unauthorized" => Top(r).auth.src \in {"url", "token"}

\* Every request ends: the resubmissions after a 401 come to an end although requests
\* overwrite each other's access mode and list of modes (auth.go:70-83).
RequestEnds == \A r \in Requests : <>At(r, "done")
=============================================================================
