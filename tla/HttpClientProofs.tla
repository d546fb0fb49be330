-------------------------- MODULE HttpClientProofs --------------------------
(***************************************************************************)
(* What requests do with credentials, for any number of requests, hosts,   *)
(* passwords, redirects and failures: they go to their own host only, the  *)
(* cache and git credential keep only what a host has answered, and a      *)
(* request ends as unauthorized only with what was given with it.          *)
(*                                                                         *)
(* The three rest on one invariant of the stack of calls of doWithAuth     *)
(* that a request is in.  The calls below the top one were answered with a *)
(* redirect, so that the credentials they have are known to be accepted    *)
(* when the success of the innermost approves them all.  A call without    *)
(* credentials of a helper may still carry a header, the one that it was   *)
(* redirected with; but the outermost, which alone decides whether the     *)
(* request is sent again, has then a token or credentials of the URL.      *)
(***************************************************************************)
EXTENDS HttpClient, SequenceTheorems, TLAPS

Sources == {"none", "url", "token", "netrc", "cached", "helper", "askpass"}
Phases  == {"new", "creds", "git", "send", "refused", "upgrade", "approve", "done"}
Results == {"none", "ok", "failed", "nocreds", "unauthorized"}
Saved   == Passwords \cup {None}

Cred    == [host : Hosts \cup {"nobody"}, pw : Saved, src : Sources]
Call    == [host : Hosts, remote : BOOLEAN, auth : Cred, creds : Cred]
Request == [phase : Phases, calls : Seq(Call), mode : AllModes, newMode : AllModes,
            newModes : SUBSET AllModes, result : Results]

TypeOK ==
  /\ conf \in Configs
  /\ password \in [Hosts -> Passwords] /\ stored \in [Hosts -> Saved]
  /\ access \in AllModes /\ modes \subseteq AllModes /\ cache \in [Hosts -> Saved]
  /\ req \in [Requests -> Request]

\* The header of a call is for the call's host.
OwnHeader(call) == call.auth # Null => call.auth.host = call.host

\* Without a mode that asks the helpers, a call has a token or no header.
TokenOnly(call) == call.creds = Null /\ (call.auth = Null \/ call.auth.src = "token")

\* A header that no helper gave came with the request.
HeaderGiven(call) == call.creds = Null => call.auth = Null \/ call.auth.src \in {"url", "token"}

\* The credentials of a call were once sent and not refused.
Known(call, acc) == <<call.creds.host, call.creds.pw>> \in acc

\* What holds of the calls that a request is in.
Good(q, acc) ==
  /\ q.phase \notin {"new", "done"} => q.calls # <<>>
  /\ \A i \in 1..Len(q.calls) : OwnHeader(q.calls[i])
  /\ q.phase = "git" => q.mode = "basic"
  /\ q.mode # "basic" => \A i \in 1..Len(q.calls) : TokenOnly(q.calls[i])
  /\ q.calls # <<>> => HeaderGiven(q.calls[1])
  /\ \A i \in 1..Len(q.calls) : i < Len(q.calls) \/ q.phase = "approve" => Known(q.calls[i], acc)
  /\ q.result = "unauthorized" => /\ q.phase = "done" /\ q.calls # <<>>
                                  /\ Last(q.calls).auth.src \in {"url", "token"}

GoodRequests == \A r \in Requests : Good(req[r], accepted)

IInv == TypeOK /\ GoodRequests /\ SavedCredsWereAccepted

-----------------------------------------------------------------------------
(* The operators *)

\* Null is a credential, and the one that stands for none.
LEMMA NullCred == Null \in Cred
BY DEF Null, Cred, Saved, Sources

\* NewCred makes a credential.
LEMMA NewCredType == ASSUME NEW h \in Hosts, NEW pw \in Saved, NEW src \in Sources \ {"none"}
                     PROVE  /\ NewCred(h, pw, src) \in Cred /\ NewCred(h, pw, src) # Null
                            /\ NewCred(h, pw, src).host = h /\ NewCred(h, pw, src).src = src
BY DEF NewCred, Cred, Null, Sources

\* NewCall makes a call without credentials of a helper.
LEMMA NewCallType == ASSUME NEW h \in Hosts, NEW remote \in BOOLEAN, NEW auth \in Cred
                     PROVE  /\ NewCall(h, remote, auth) \in Call
                            /\ NewCall(h, remote, auth).host = h
                            /\ NewCall(h, remote, auth).auth = auth
                            /\ NewCall(h, remote, auth).creds = Null
BY NullCred DEF NewCall, Call

\* The configuration's parts, and the endpoint: a host.
LEMMA ConfTypes == ASSUME conf \in Configs
                   PROVE  /\ conf.urlpw \in Passwords /\ conf.netrc \in Saved /\ conf.stored \in Saved
                          /\ Endpoint \in Hosts
BY HttpClientAssumption DEF Endpoint, Saved

\* The fields of a call with another header.
LEMMA HeaderType == ASSUME NEW c \in Call, NEW auth \in Cred
                    PROVE  /\ [c EXCEPT !.auth = auth] \in Call
                           /\ [c EXCEPT !.auth = auth].host = c.host
                           /\ [c EXCEPT !.auth = auth].auth = auth
                           /\ [c EXCEPT !.auth = auth].creds = c.creds
BY DEF Call

\* The fields of a call with what a helper gave.
LEMMA FilledType == ASSUME NEW c \in Call, NEW auth \in Cred
                    PROVE  /\ [c EXCEPT !.auth = auth, !.creds = auth] \in Call
                           /\ [c EXCEPT !.auth = auth, !.creds = auth].host = c.host
                           /\ [c EXCEPT !.auth = auth, !.creds = auth].auth = auth
                           /\ [c EXCEPT !.auth = auth, !.creds = auth].creds = auth
BY DEF Call

\* The top of a request's calls.
LEMMA TopType == ASSUME NEW q \in Request, q.calls # <<>>
                 PROVE  /\ q.calls \in Seq(Call) /\ Len(q.calls) \in Nat \ {0}
                        /\ Last(q.calls) = q.calls[Len(q.calls)] /\ Last(q.calls) \in Call
<1>1. q.calls \in Seq(Call)
  BY DEF Request
<1>2. Len(q.calls) \in Nat \ {0}
  BY <1>1, EmptySeq
<1>3. q.calls[Len(q.calls)] \in Call
  BY <1>1, <1>2, ElementOfSeq
<1> QED
  BY <1>1, <1>2, <1>3 DEF Last

\* A request that changes in its phase, its result and the modes it found.
LEMMA MoveType ==
  ASSUME NEW q \in Request, NEW ph \in Phases
  PROVE  /\ [q EXCEPT !.phase = ph] \in Request
         /\ [q EXCEPT !.phase = ph].phase = ph
         /\ [q EXCEPT !.phase = ph].calls = q.calls
         /\ [q EXCEPT !.phase = ph].mode = q.mode
         /\ [q EXCEPT !.phase = ph].result = q.result
BY DEF Request

\* A request that ends.
LEMMA EndType ==
  ASSUME NEW q \in Request, NEW res \in Results
  PROVE  /\ [q EXCEPT !.phase = "done", !.result = res] \in Request
         /\ [q EXCEPT !.phase = "done", !.result = res].phase = "done"
         /\ [q EXCEPT !.phase = "done", !.result = res].calls = q.calls
         /\ [q EXCEPT !.phase = "done", !.result = res].mode = q.mode
         /\ [q EXCEPT !.phase = "done", !.result = res].result = res
BY DEF Request, Phases

\* SetTop replaces the last call.
LEMMA SetTopType ==
  ASSUME NEW q \in Request, q.calls # <<>>, NEW c \in Call
  PROVE  LET p == SetTop(q, c) IN
         /\ p \in Request /\ p.phase = q.phase /\ p.mode = q.mode /\ p.result = q.result
         /\ Len(p.calls) = Len(q.calls) /\ p.calls # <<>>
         /\ \A i \in 1..Len(q.calls) : p.calls[i] = IF i = Len(q.calls) THEN c ELSE q.calls[i]
<1> DEFINE s == [q.calls EXCEPT ![Len(q.calls)] = c]
<1>1. q.calls \in Seq(Call) /\ Len(q.calls) \in Nat \ {0}
  BY TopType
<1>2. /\ s \in Seq(Call) /\ Len(s) = Len(q.calls)
      /\ \A i \in 1..Len(q.calls) : s[i] = IF i = Len(q.calls) THEN c ELSE q.calls[i]
  BY <1>1, ExceptSeq
<1>3. s # <<>>
  BY <1>1, <1>2
<1>4. SetTop(q, c) = [q EXCEPT !.calls = s]
  BY DEF SetTop, Request
<1> HIDE DEF s
<1>5. /\ [q EXCEPT !.calls = s] \in Request /\ [q EXCEPT !.calls = s].phase = q.phase
      /\ [q EXCEPT !.calls = s].mode = q.mode /\ [q EXCEPT !.calls = s].result = q.result
      /\ [q EXCEPT !.calls = s].calls = s
  BY <1>2 DEF Request
<1> QED
  BY <1>2, <1>3, <1>4, <1>5

\* Front drops the last call.
LEMMA FrontType ==
  ASSUME NEW q \in Request, Len(q.calls) > 1
  PROVE  /\ Front(q.calls) \in Seq(Call) /\ Front(q.calls) # <<>>
         /\ Len(Front(q.calls)) = Len(q.calls) - 1
         /\ \A i \in 1..Len(q.calls) - 1 : Front(q.calls)[i] = q.calls[i]
<1>1. q.calls \in Seq(Call) /\ Len(q.calls) \in Nat
  BY LenProperties DEF Request
<1>2. \A i \in 1..Len(q.calls) - 1 : q.calls[i] \in Call
  BY <1>1, ElementOfSeq
<1>3. /\ Front(q.calls) \in Seq(Call) /\ Len(Front(q.calls)) = Len(q.calls) - 1
      /\ \A i \in 1..Len(q.calls) - 1 : Front(q.calls)[i] = q.calls[i]
  BY <1>1, <1>2, SubSeqProperties DEF Front
<1> QED
  BY <1>1, <1>3

-----------------------------------------------------------------------------
(* Good is kept by what an action does to a request *)

\* More answers are known.
LEMMA GoodGrows == ASSUME NEW q, NEW acc, NEW acc2, acc \subseteq acc2, Good(q, acc)
                   PROVE  Good(q, acc2)
BY DEF Good, Known

\* Only the phase and the result change.
LEMMA GoodMove ==
  ASSUME NEW q \in Request, NEW p \in Request, NEW acc, NEW acc2, acc \subseteq acc2,
         Good(q, acc), p.calls = q.calls, p.mode = q.mode,
         p.phase \notin {"new", "done"} => q.calls # <<>>,
         p.phase = "approve" => q.phase = "approve" \/ Known(Last(q.calls), acc2),
         p.result # "unauthorized", p.phase = "git" => p.mode = "basic"
  PROVE  Good(p, acc2)
<1>1. \A i \in 1..Len(q.calls) : i < Len(q.calls) => Known(q.calls[i], acc2)
  BY DEF Good, Known
<1>2. ASSUME p.phase = "approve", NEW i \in 1..Len(q.calls) PROVE Known(q.calls[i], acc2)
  <2>1. CASE q.phase = "approve"
    BY <2>1 DEF Good, Known
  <2>2. CASE Known(Last(q.calls), acc2)
    <3>1. Len(q.calls) \in Nat
      BY LenProperties DEF Request
    <3>2. i < Len(q.calls) \/ i = Len(q.calls)
      BY <3>1
    <3> QED
      BY <1>1, <2>2, <3>2 DEF Last
  <2> QED
    BY <1>2, <2>1, <2>2
<1> QED
  BY <1>1, <1>2 DEF Good

\* The top call is replaced, before its answer.
LEMMA GoodTop ==
  ASSUME NEW q \in Request, NEW p \in Request, NEW c \in Call, NEW acc, NEW acc2, acc \subseteq acc2,
         Good(q, acc), q.calls # <<>>, p.mode = q.mode, p.calls # <<>>,
         Len(p.calls) = Len(q.calls),
         \A i \in 1..Len(q.calls) : p.calls[i] = IF i = Len(q.calls) THEN c ELSE q.calls[i],
         OwnHeader(c), p.mode # "basic" => TokenOnly(c), Len(q.calls) = 1 => HeaderGiven(c),
         p.phase \notin {"git", "approve"},
         p.result = "unauthorized" => p.phase = "done" /\ c.auth.src \in {"url", "token"}
  PROVE  Good(p, acc2)
<1>1. Len(q.calls) \in Nat \ {0}
  BY TopType
<1>2. \A i \in 1..Len(p.calls) : OwnHeader(p.calls[i])
  BY <1>1 DEF Good
<1>3. p.mode # "basic" => \A i \in 1..Len(p.calls) : TokenOnly(p.calls[i])
  BY <1>1 DEF Good
<1>4. HeaderGiven(p.calls[1])
  <2>1. HeaderGiven(q.calls[1]) /\ 1 \in 1..Len(q.calls)
    BY <1>1 DEF Good
  <2>2. p.calls[1] = IF 1 = Len(q.calls) THEN c ELSE q.calls[1]
    BY <2>1
  <2> QED
    BY <2>1, <2>2
<1>5. \A i \in 1..Len(p.calls) : i < Len(p.calls) => Known(p.calls[i], acc2)
  BY <1>1 DEF Good, Known
<1>6. Last(p.calls) = c
  BY <1>1 DEF Last
<1> QED
  BY <1>2, <1>3, <1>4, <1>5, <1>6 DEF Good

\* A redirect adds a call; the one below it is answered.
LEMMA GoodAppend ==
  ASSUME NEW q \in Request, NEW p \in Request, NEW c \in Call, NEW acc, NEW acc2, acc \subseteq acc2,
         Good(q, acc), q.calls # <<>>, p.mode = q.mode, p.calls = Append(q.calls, c),
         Known(Last(q.calls), acc2), OwnHeader(c), p.mode # "basic" => TokenOnly(c),
         p.phase \notin {"git", "approve"}, p.result # "unauthorized"
  PROVE  Good(p, acc2)
<1>1. q.calls \in Seq(Call) /\ Len(q.calls) \in Nat \ {0} /\ Last(q.calls) = q.calls[Len(q.calls)]
  BY TopType
<1>2. /\ Len(p.calls) = Len(q.calls) + 1 /\ p.calls # <<>>
      /\ \A i \in 1..Len(q.calls) : p.calls[i] = q.calls[i]
      /\ p.calls[Len(q.calls) + 1] = c
  BY <1>1, AppendProperties
<1>3. \A i \in 1..Len(p.calls) : i \in 1..Len(q.calls) \/ i = Len(q.calls) + 1
  BY <1>1, <1>2
<1>4. \A i \in 1..Len(p.calls) : OwnHeader(p.calls[i])
  BY <1>2, <1>3 DEF Good
<1>5. p.mode # "basic" => \A i \in 1..Len(p.calls) : TokenOnly(p.calls[i])
  BY <1>2, <1>3 DEF Good
<1>6. HeaderGiven(p.calls[1])
  BY <1>1, <1>2 DEF Good
<1>7. \A i \in 1..Len(q.calls) : Known(q.calls[i], acc2)
  <2>1. \A i \in 1..Len(q.calls) : i < Len(q.calls) \/ i = Len(q.calls)
    BY <1>1
  <2> QED
    BY <1>1, <2>1 DEF Good, Known
<1>8. \A i \in 1..Len(p.calls) : i < Len(p.calls) => Known(p.calls[i], acc2)
  BY <1>1, <1>2, <1>7
<1> QED
  BY <1>2, <1>4, <1>5, <1>6, <1>8 DEF Good

\* A call returns to the one below it.
LEMMA GoodPop ==
  ASSUME NEW q \in Request, NEW p \in Request, NEW acc, Good(q, acc), Len(q.calls) > 1,
         p.mode = q.mode, p.calls = Front(q.calls), p.result # "unauthorized",
         p.phase # "git"
  PROVE  Good(p, acc)
<1>1. /\ Len(q.calls) \in Nat /\ p.calls # <<>> /\ Len(p.calls) = Len(q.calls) - 1
      /\ \A i \in 1..Len(p.calls) : p.calls[i] = q.calls[i]
  BY FrontType, LenProperties DEF Request
<1>2. \A i \in 1..Len(p.calls) : i \in 1..Len(q.calls) /\ i < Len(q.calls)
  BY <1>1
<1>3. \A i \in 1..Len(p.calls) : OwnHeader(p.calls[i]) /\ Known(p.calls[i], acc)
  BY <1>1, <1>2 DEF Good
<1>4. p.mode # "basic" => \A i \in 1..Len(p.calls) : TokenOnly(p.calls[i])
  BY <1>1, <1>2 DEF Good
<1>5. HeaderGiven(p.calls[1])
  <2>1. 1 \in 1..Len(p.calls) /\ q.calls # <<>>
    BY <1>1
  <2> QED
    BY <1>1, <2>1 DEF Good
<1> QED
  BY <1>1, <1>3, <1>4, <1>5 DEF Good

\* A request that is sent for the first time, or again.
LEMMA GoodFirst ==
  ASSUME conf \in Configs, NEW auth \in Cred, NEW m \in AllModes, NEW acc,
         auth = Null \/ (auth.src = "token" /\ auth.host = Endpoint)
  PROVE  LET p == [NoReq EXCEPT !.phase = "creds", !.calls = FirstCall(auth), !.mode = m] IN
         p \in Request /\ Good(p, acc)
<1> DEFINE c == NewCall(Endpoint, TRUE, auth)
           s == <<c>>
           p == [NoReq EXCEPT !.phase = "creds", !.calls = s, !.mode = m]
<1>1. c \in Call /\ c.host = Endpoint /\ c.auth = auth /\ c.creds = Null
  BY ConfTypes, NewCallType
<1> HIDE DEF c
<1>2. s \in Seq(Call) /\ Len(s) = 1 /\ s # <<>> /\ s[1] = c
  BY <1>1
<1> HIDE DEF s
<1>3. p \in Request /\ p.phase = "creds" /\ p.calls = s /\ p.result = "none"
  BY <1>2 DEF NoReq, Request, Phases, Results, AllModes
<1>4. OwnHeader(c) /\ TokenOnly(c) /\ HeaderGiven(c)
  BY <1>1 DEF OwnHeader, TokenOnly, HeaderGiven
<1> HIDE DEF p
<1>5. \A i \in 1..Len(p.calls) : i = 1 /\ p.calls[i] = c
  <2>1. Len(p.calls) = 1 /\ p.calls[1] = c
    BY <1>2, <1>3
  <2>2. \A i \in 1..1 : i = 1
    OBVIOUS
  <2> QED
    BY <2>1, <2>2
<1>6. Good(p, acc)
  BY <1>2, <1>3, <1>4, <1>5 DEF Good
<1> QED
  BY <1>3, <1>6 DEF p, s, c, FirstCall

-----------------------------------------------------------------------------
(* The actions *)

\* An action that sets one request to a good one.
LEMMA SetKeeps ==
  ASSUME NEW r \in Requests, NEW p \in Request, req \in [Requests -> Request], GoodRequests,
         Set(r, p), Good(p, accepted'), accepted \subseteq accepted'
  PROVE  req' \in [Requests -> Request] /\ GoodRequests'
<1>1. req' \in [Requests -> Request]
  BY DEF Set
<1>2. ASSUME NEW x \in Requests PROVE Good(req'[x], accepted')
  <2>1. CASE x = r
    BY <2>1 DEF Set
  <2>2. CASE x # r
    BY <2>2, GoodGrows DEF Set, GoodRequests
  <2> QED
    BY <2>1, <2>2
<1> QED
  BY <1>1, <1>2 DEF GoodRequests

\* A request in the middle of a call: its type, its top call, and what is known of both.
LEMMA InCall ==
  ASSUME TypeOK, GoodRequests, NEW r \in Requests, req[r].phase \notin {"new", "done"}
  PROVE  /\ req[r] \in Request /\ Good(req[r], accepted) /\ req[r].calls # <<>>
         /\ req[r].calls \in Seq(Call) /\ Len(req[r].calls) \in Nat \ {0}
         /\ Top(r) = req[r].calls[Len(req[r].calls)] /\ Top(r) \in Call
         /\ Top(r).host \in Hosts /\ Top(r).auth \in Cred /\ Top(r).creds \in Cred
         /\ OwnHeader(Top(r)) /\ (req[r].mode # "basic" => TokenOnly(Top(r)))
         /\ (Len(req[r].calls) = 1 => HeaderGiven(Top(r)))
         /\ req[r].result # "unauthorized"
<1>1. req[r] \in Request /\ Good(req[r], accepted)
  BY DEF TypeOK, GoodRequests
<1>2. req[r].calls # <<>> /\ req[r].result # "unauthorized"
  BY <1>1 DEF Good
<1>3. /\ req[r].calls \in Seq(Call) /\ Len(req[r].calls) \in Nat \ {0}
      /\ Top(r) = req[r].calls[Len(req[r].calls)] /\ Top(r) \in Call
  BY <1>1, <1>2, TopType DEF Top
<1>4. Top(r).host \in Hosts /\ Top(r).auth \in Cred /\ Top(r).creds \in Cred
  BY <1>3 DEF Call
<1>5. OwnHeader(Top(r)) /\ (req[r].mode # "basic" => TokenOnly(Top(r)))
  BY <1>1, <1>3 DEF Good
<1>6. Len(req[r].calls) = 1 => HeaderGiven(Top(r))
  BY <1>1, <1>2, <1>3 DEF Good
<1> QED
  BY <1>1, <1>2, <1>3, <1>4, <1>5, <1>6

\* Start and StartSsh.
LEMMA StartKeeps ==
  ASSUME TypeOK, GoodRequests, NEW r \in Requests, Start(r) \/ StartSsh(r)
  PROVE  req' \in [Requests -> Request] /\ GoodRequests'
<1>1. ASSUME NEW auth \in Cred, auth = Null \/ (auth.src = "token" /\ auth.host = Endpoint),
             Set(r, [NoReq EXCEPT !.phase = "creds", !.calls = FirstCall(auth), !.mode = access]),
             accepted' = accepted
      PROVE  req' \in [Requests -> Request] /\ GoodRequests'
  <2> DEFINE p == [NoReq EXCEPT !.phase = "creds", !.calls = FirstCall(auth), !.mode = access]
  <2>1. p \in Request /\ Good(p, accepted)
    BY <1>1, GoodFirst DEF TypeOK
  <2> HIDE DEF p
  <2> QED
    BY <1>1, <2>1, SetKeeps DEF TypeOK, p
<1>2. CASE Start(r)
  BY <1>1, <1>2, NullCred DEF Start
<1>3. CASE StartSsh(r)
  <2> DEFINE auth == NewCred(Endpoint, password[Endpoint], "token")
  <2>1. password[Endpoint] \in Saved /\ Endpoint \in Hosts
    BY ConfTypes DEF TypeOK, Saved
  <2>2. "token" \in Sources \ {"none"}
    BY DEF Sources
  <2>3. auth \in Cred /\ auth.src = "token" /\ auth.host = Endpoint
    BY <2>1, <2>2, NewCredType
  <2>4. /\ Set(r, [NoReq EXCEPT !.phase = "creds", !.mode = access, !.calls = FirstCall(auth)])
        /\ accepted' = accepted
    BY <1>3 DEF StartSsh
  <2> HIDE DEF auth
  <2>5. [NoReq EXCEPT !.phase = "creds", !.mode = access, !.calls = FirstCall(auth)]
          = [NoReq EXCEPT !.phase = "creds", !.calls = FirstCall(auth), !.mode = access]
    BY DEF NoReq
  <2> QED
    BY <1>1, <2>3, <2>4, <2>5
<1> QED
  BY <1>2, <1>3

\* ResolveFails, FillRefused, NetworkFails and RedirectRefused: the request ends.
LEMMA EndKeeps ==
  ASSUME TypeOK, GoodRequests, NEW r \in Requests, NEW res \in Results \ {"unauthorized"},
         Ends(r, res), accepted' = accepted
  PROVE  req' \in [Requests -> Request] /\ GoodRequests'
<1> DEFINE p == [req[r] EXCEPT !.phase = "done", !.result = res]
<1>1. req[r] \in Request /\ Good(req[r], accepted)
  BY DEF TypeOK, GoodRequests
<1>2. /\ p \in Request /\ p.phase = "done" /\ p.calls = req[r].calls /\ p.mode = req[r].mode
      /\ p.result = res
  BY <1>1, EndType
<1>3. Set(r, p)
  BY DEF Ends
<1> HIDE DEF p
<1>4. Good(p, accepted)
  BY <1>1, <1>2, GoodMove
<1> QED
  BY <1>2, <1>3, <1>4, SetKeeps DEF TypeOK

\* SkipCreds: the header stays, or is that of the URL.
LEMMA SkipKeeps ==
  ASSUME TypeOK, GoodRequests, NEW r \in Requests, SkipCreds(r)
  PROVE  req' \in [Requests -> Request] /\ GoodRequests'
<1> DEFINE auth == IF NoCredsNeeded(r) THEN Top(r).auth ELSE UrlCreds(Top(r))
           c == [Top(r) EXCEPT !.auth = auth]
           t == SetTop(req[r], c)
           p == [t EXCEPT !.phase = "send"]
<1>1. /\ req[r] \in Request /\ Good(req[r], accepted) /\ req[r].calls # <<>>
      /\ Top(r) \in Call /\ Top(r).host \in Hosts /\ Top(r).auth \in Cred
      /\ OwnHeader(Top(r)) /\ (req[r].mode # "basic" => TokenOnly(Top(r)))
      /\ (Len(req[r].calls) = 1 => HeaderGiven(Top(r))) /\ req[r].result # "unauthorized"
      /\ req[r].mode \in AllModes
  <2>1. req[r].phase = "creds"
    BY DEF SkipCreds, At
  <2> QED
    BY <2>1, InCall DEF Request
<1>2. Set(r, p) /\ accepted' = accepted
  BY DEF SkipCreds
<1>3. UrlCreds(Top(r)) \in Cred /\ UrlCreds(Top(r)) # Null =>
        UrlCreds(Top(r)).host = Top(r).host /\ UrlCreds(Top(r)).src = "url"
  <2>1. NewCred(Top(r).host, conf.urlpw, "url").host = Top(r).host
    BY DEF NewCred
  <2>2. NewCred(Top(r).host, conf.urlpw, "url").src = "url"
    BY DEF NewCred
  <2> QED
    BY <2>1, <2>2 DEF UrlCreds
<1>4. UrlCreds(Top(r)) \in Cred
  <2>1. conf.urlpw \in Saved /\ "url" \in Sources \ {"none"}
    BY ConfTypes DEF TypeOK, Saved, Sources
  <2>2. NewCred(Top(r).host, conf.urlpw, "url") \in Cred
    BY <1>1, <2>1, NewCredType
  <2> QED
    BY <2>2, NullCred DEF UrlCreds
<1>5. /\ auth \in Cred /\ (auth # Null => auth.host = Top(r).host)
      /\ auth = Top(r).auth \/ (req[r].mode = "basic" /\ (auth = Null \/ auth.src = "url"))
  <2>1. CASE NoCredsNeeded(r)
    <3>1. auth = Top(r).auth
      BY <2>1, Zenon
    <3> QED
      BY <1>1, <3>1 DEF OwnHeader
  <2>2. CASE ~NoCredsNeeded(r)
    <3>1. req[r].mode = "basic"
      BY <1>1, <2>2 DEF NoCredsNeeded, AllModes
    <3>2. auth = UrlCreds(Top(r))
      BY <2>2, Zenon
    <3> QED
      BY <1>3, <1>4, <3>1, <3>2
  <2> QED
    BY <2>1, <2>2
<1> HIDE DEF auth
<1>6. c \in Call /\ c.host = Top(r).host /\ c.auth = auth /\ c.creds = Top(r).creds
  BY <1>1, <1>5, HeaderType
<1> HIDE DEF c
<1>7. /\ OwnHeader(c) /\ (req[r].mode # "basic" => TokenOnly(c))
      /\ (Len(req[r].calls) = 1 => HeaderGiven(c))
  BY <1>1, <1>5, <1>6 DEF OwnHeader, TokenOnly, HeaderGiven
<1>8. /\ t \in Request /\ t.mode = req[r].mode /\ t.result = req[r].result
      /\ Len(t.calls) = Len(req[r].calls) /\ t.calls # <<>>
      /\ \A i \in 1..Len(req[r].calls) :
           t.calls[i] = IF i = Len(req[r].calls) THEN c ELSE req[r].calls[i]
  BY <1>1, <1>6, SetTopType
<1> HIDE DEF t
<1>9. p \in Request /\ p.phase = "send" /\ p.calls = t.calls /\ p.mode = t.mode /\ p.result = t.result
  BY <1>8, MoveType DEF Phases
<1> HIDE DEF p
<1>10. Good(p, accepted)
  BY <1>1, <1>6, <1>7, <1>8, <1>9, GoodTop
<1> QED
  BY <1>2, <1>9, <1>10, SetKeeps DEF TypeOK

\* The five ways to fill in credentials.
LEMMA FilledKeeps ==
  ASSUME TypeOK, GoodRequests, NEW r \in Requests, NEW pw \in Saved, NEW src \in Sources \ {"none"},
         NeedsFill(r) \/ At(r, "git"), Filled(r, NewCred(Top(r).host, pw, src)),
         accepted' = accepted
  PROVE  req' \in [Requests -> Request] /\ GoodRequests'
<1> DEFINE auth == NewCred(Top(r).host, pw, src)
           c == [Top(r) EXCEPT !.auth = auth, !.creds = auth]
           t == SetTop(req[r], c)
           p == [t EXCEPT !.phase = "send"]
<1>1. /\ req[r] \in Request /\ Good(req[r], accepted) /\ req[r].calls # <<>>
      /\ Top(r) \in Call /\ Top(r).host \in Hosts /\ req[r].result # "unauthorized"
      /\ req[r].mode \in AllModes
  <2>1. req[r].phase \in {"creds", "git"}
    BY DEF NeedsFill, At
  <2> QED
    BY <2>1, InCall DEF Request
<1>2. Set(r, p)
  BY DEF Filled
<1>3. auth \in Cred /\ auth # Null /\ auth.host = Top(r).host
  BY <1>1, NewCredType
<1>4. req[r].mode = "basic"
  BY <1>1 DEF NeedsFill, NoCredsNeeded, AllModes, Good, At
<1> HIDE DEF auth
<1>5. c \in Call /\ c.host = Top(r).host /\ c.auth = auth /\ c.creds = auth
  BY <1>1, <1>3, FilledType
<1> HIDE DEF c
<1>6. OwnHeader(c) /\ HeaderGiven(c)
  BY <1>3, <1>5 DEF OwnHeader, HeaderGiven
<1>7. /\ t \in Request /\ t.mode = req[r].mode /\ t.result = req[r].result
      /\ Len(t.calls) = Len(req[r].calls) /\ t.calls # <<>>
      /\ \A i \in 1..Len(req[r].calls) :
           t.calls[i] = IF i = Len(req[r].calls) THEN c ELSE req[r].calls[i]
  BY <1>1, <1>5, SetTopType
<1> HIDE DEF t
<1>8. p \in Request /\ p.phase = "send" /\ p.calls = t.calls /\ p.mode = t.mode /\ p.result = t.result
  BY <1>7, MoveType DEF Phases
<1> HIDE DEF p
<1>9. Good(p, accepted)
  BY <1>1, <1>4, <1>5, <1>6, <1>7, <1>8, GoodTop
<1> QED
  BY <1>2, <1>8, <1>9, SetKeeps DEF TypeOK

\* AskpassFails: git credential is asked, for a mode that needs credentials.
LEMMA AskpassKeeps ==
  ASSUME TypeOK, GoodRequests, NEW r \in Requests, AskpassFails(r)
  PROVE  req' \in [Requests -> Request] /\ GoodRequests'
<1> DEFINE p == [req[r] EXCEPT !.phase = "git"]
<1>1. req[r].phase = "creds" /\ ~NoCredsNeeded(r) /\ Set(r, p) /\ accepted' = accepted
  BY DEF AskpassFails, AsksHelper, NeedsFill, At
<1>2. /\ req[r] \in Request /\ Good(req[r], accepted) /\ req[r].calls # <<>>
      /\ req[r].result # "unauthorized" /\ req[r].mode \in AllModes
  BY <1>1, InCall DEF Request
<1>3. req[r].mode = "basic"
  BY <1>1, <1>2 DEF NoCredsNeeded, AllModes
<1>4. /\ p \in Request /\ p.phase = "git" /\ p.calls = req[r].calls /\ p.mode = req[r].mode
      /\ p.result = req[r].result
  BY <1>2, MoveType DEF Phases
<1> HIDE DEF p
<1>5. Good(p, accepted)
  BY <1>2, <1>3, <1>4, GoodMove
<1> QED
  BY <1>1, <1>4, <1>5, SetKeeps DEF TypeOK

\* Accept and Refuse, and Unauthorized, which reads the modes.
LEMMA AnswerKeeps ==
  ASSUME TypeOK, GoodRequests, NEW r \in Requests, Accept(r) \/ Refuse(r)
  PROVE  req' \in [Requests -> Request] /\ GoodRequests'
<1> DEFINE ph == IF Accept(r) THEN "approve" ELSE "refused"
           p == [req[r] EXCEPT !.phase = ph]
<1>1. /\ req[r] \in Request /\ Good(req[r], accepted) /\ req[r].calls # <<>>
      /\ req[r].result # "unauthorized" /\ Top(r) = Last(req[r].calls)
  <2>1. req[r].phase = "send"
    BY DEF Accept, Refuse, At
  <2> QED
    BY <2>1, InCall DEF Top
<1>2. Set(r, p) /\ accepted \subseteq accepted' /\ (ph = "approve" => Known(Top(r), accepted'))
  BY DEF Accept, Refuse, Answered, Known
<1>3. ph \in Phases \ {"new", "done", "git"}
  BY DEF Phases
<1> HIDE DEF ph
<1>4. /\ p \in Request /\ p.phase = ph /\ p.calls = req[r].calls /\ p.mode = req[r].mode
      /\ p.result = req[r].result
  BY <1>1, <1>3, MoveType
<1> HIDE DEF p
<1>5. Good(p, accepted')
  BY <1>1, <1>2, <1>3, <1>4, GoodMove
<1> QED
  BY <1>2, <1>4, <1>5, SetKeeps DEF TypeOK

\* Unauthorized reads the modes and goes on.
LEMMA UnauthorizedKeeps ==
  ASSUME TypeOK, GoodRequests, NEW r \in Requests, Unauthorized(r)
  PROVE  req' \in [Requests -> Request] /\ GoodRequests'
<1> DEFINE m == FirstOffered(req[r])
           ms == OtherModes(req[r].mode)
           p == [req[r] EXCEPT !.phase = "upgrade", !.newMode = m, !.newModes = ms]
<1>1. /\ req[r] \in Request /\ Good(req[r], accepted) /\ req[r].calls # <<>>
      /\ req[r].result # "unauthorized"
  <2>1. req[r].phase = "refused"
    BY DEF Unauthorized, At
  <2> QED
    BY <2>1, InCall
<1>2. Set(r, p) /\ accepted' = accepted
  BY DEF Unauthorized
<1>3. m \in AllModes /\ ms \in SUBSET AllModes
  BY DEF FirstOffered, OtherModes, AllModes, TypeOK
<1> HIDE DEF m, ms
<1>4. /\ p \in Request /\ p.phase = "upgrade" /\ p.calls = req[r].calls /\ p.mode = req[r].mode
      /\ p.result = req[r].result
  BY <1>1, <1>3 DEF Request, Phases
<1> HIDE DEF p
<1>5. Good(p, accepted)
  BY <1>1, <1>4, GoodMove
<1> QED
  BY <1>2, <1>4, <1>5, SetKeeps DEF TypeOK

\* Redirect: the header goes along to the same host only.
LEMMA RedirectKeeps ==
  ASSUME TypeOK, GoodRequests, NEW r \in Requests, NEW h \in Hosts, Redirect(r, h)
  PROVE  req' \in [Requests -> Request] /\ GoodRequests'
<1> DEFINE auth == RedirectedAuth(Top(r), h)
           c == NewCall(h, FALSE, auth)
           s == Append(req[r].calls, c)
           t == SetTop(req[r], c)
           p == [req[r] EXCEPT !.phase = "creds", !.calls = s]
<1>1. /\ req[r] \in Request /\ Good(req[r], accepted) /\ req[r].calls # <<>>
      /\ req[r].phase = "send" /\ req[r].calls \in Seq(Call)
      /\ Top(r).auth \in Cred /\ OwnHeader(Top(r)) /\ (req[r].mode # "basic" => TokenOnly(Top(r)))
      /\ (Len(req[r].calls) = 1 => HeaderGiven(Top(r)))
      /\ req[r].result # "unauthorized" /\ Top(r) = Last(req[r].calls)
  <2>1. req[r].phase = "send"
    BY DEF Redirect, At
  <2> QED
    BY <2>1, InCall DEF Top
<1>2. /\ Set(r, IF req[r].mode = "negotiate" THEN t ELSE p)
      /\ accepted \subseteq accepted' /\ Known(Top(r), accepted')
  <2>1. [req[r] EXCEPT !.phase = "creds", !.calls = Append(@, c)] = p
    BY <1>1 DEF Request
  <2> QED
    BY <2>1 DEF Redirect, Answered, Known
<1>3. auth \in Cred /\ (auth = Null \/ (auth = Top(r).auth /\ h = Top(r).host))
  <2>1. CASE h = Top(r).host
    BY <1>1, <2>1 DEF RedirectedAuth
  <2>2. CASE h # Top(r).host
    BY <2>2, NullCred DEF RedirectedAuth
  <2> QED
    BY <2>1, <2>2
<1> HIDE DEF auth
<1>4. c \in Call /\ c.host = h /\ c.auth = auth /\ c.creds = Null
  BY <1>3, NewCallType
<1> HIDE DEF c
<1>5. OwnHeader(c) /\ (req[r].mode # "basic" => TokenOnly(c))
  BY <1>1, <1>3, <1>4 DEF OwnHeader, TokenOnly
<1>6. CASE req[r].mode = "negotiate"
  <2>1. /\ t \in Request /\ t.mode = req[r].mode /\ t.result = req[r].result /\ t.phase = "send"
        /\ Len(t.calls) = Len(req[r].calls) /\ t.calls # <<>>
        /\ \A i \in 1..Len(req[r].calls) :
             t.calls[i] = IF i = Len(req[r].calls) THEN c ELSE req[r].calls[i]
    BY <1>1, <1>4, SetTopType
  <2>2. HeaderGiven(c)
    BY <1>5, <1>6 DEF TokenOnly, HeaderGiven
  <2>3. Set(r, t)
    BY <1>2, <1>6
  <2> HIDE DEF t
  <2>4. Good(t, accepted')
    BY <1>1, <1>2, <1>4, <1>5, <2>1, <2>2, GoodTop
  <2> QED
    BY <1>2, <2>1, <2>3, <2>4, SetKeeps DEF TypeOK
<1>7. CASE req[r].mode # "negotiate"
  <2>1. s \in Seq(Call)
    BY <1>1, <1>4, AppendProperties
  <2> HIDE DEF s
  <2>2. /\ p \in Request /\ p.phase = "creds" /\ p.calls = s /\ p.mode = req[r].mode
        /\ p.result = req[r].result
    BY <1>1, <2>1 DEF Request, Phases
  <2>3. Set(r, p)
    BY <1>2, <1>7
  <2> HIDE DEF p
  <2>4. Good(p, accepted')
    BY <1>1, <1>2, <1>4, <1>5, <2>2, GoodAppend DEF s
  <2> QED
    BY <1>2, <2>2, <2>3, <2>4, SetKeeps DEF TypeOK
<1> QED
  BY <1>6, <1>7

\* Approve and ApproveFails: a call returns.
LEMMA ReturnKeeps ==
  ASSUME TypeOK, GoodRequests, NEW r \in Requests, At(r, "approve"), CallReturns(r),
         accepted' = accepted
  PROVE  req' \in [Requests -> Request] /\ GoodRequests'
<1>1. /\ req[r] \in Request /\ Good(req[r], accepted) /\ req[r].calls # <<>>
      /\ req[r].result # "unauthorized" /\ Len(req[r].calls) \in Nat \ {0}
  BY InCall DEF At
<1>2. CASE Len(req[r].calls) > 1
  <2> DEFINE s == Front(req[r].calls)
             p == [req[r] EXCEPT !.calls = s]
  <2>1. s \in Seq(Call)
    BY <1>1, <1>2, FrontType
  <2>2. Set(r, p)
    <3>1. [req[r] EXCEPT !.calls = Front(@)] = p
      BY <1>1 DEF Request
    <3> QED
      BY <1>2, <3>1 DEF CallReturns
  <2> HIDE DEF s
  <2>3. /\ p \in Request /\ p.calls = s /\ p.mode = req[r].mode /\ p.result = req[r].result
        /\ p.phase # "git"
    BY <1>1, <2>1 DEF Request, At
  <2> HIDE DEF p
  <2>4. Good(p, accepted)
    BY <1>1, <1>2, <2>3, GoodPop DEF s
  <2> QED
    BY <2>2, <2>3, <2>4, SetKeeps DEF TypeOK
<1>3. CASE ~(Len(req[r].calls) > 1)
  <2>1. Ends(r, "ok") /\ "ok" \in Results \ {"unauthorized"}
    BY <1>3 DEF CallReturns, Ends, Results
  <2> QED
    BY <2>1, EndKeeps
<1> QED
  BY <1>2, <1>3

\* SetAccess: the 401 goes on to the call below, the request is sent again, or it ends.
LEMMA UpgradeKeeps ==
  ASSUME TypeOK, GoodRequests, NEW r \in Requests, SetAccess(r), access' \in AllModes
  PROVE  req' \in [Requests -> Request] /\ GoodRequests'
<1> DEFINE q == req[r]
           auth == AfterReject(Top(r))
<1>0. q.calls \in Seq(Call) /\ Len(q.calls) \in Nat \ {0}
  BY InCall DEF SetAccess, At
<1>1. /\ q \in Request /\ Good(q, accepted) /\ q.calls # <<>>
      /\ Top(r) \in Call /\ Top(r).auth \in Cred /\ OwnHeader(Top(r))
      /\ (q.mode # "basic" => TokenOnly(Top(r))) /\ (Len(q.calls) = 1 => HeaderGiven(Top(r)))
      /\ q.result # "unauthorized"
  <2>1. req[r].phase = "upgrade"
    BY DEF SetAccess, At
  <2> QED
    BY <2>1, InCall
<1>a. \A n \in Nat \ {0} : (n > 1 \/ n = 1) /\ (n > 1 => n # 1)
  OBVIOUS
<1>2. accepted' = accepted
  BY DEF SetAccess
<1>3. CASE Len(q.calls) > 1
  <2> DEFINE s == Front(q.calls)
             p == [q EXCEPT !.phase = "refused", !.calls = s]
  <2>1. s \in Seq(Call)
    BY <1>1, <1>3, FrontType
  <2>2. Set(r, p)
    <3>1. [q EXCEPT !.phase = "refused", !.calls = Front(@)] = p
      BY <1>1 DEF Request
    <3>2. ~(Len(q.calls) = 1)
      BY <1>0, <1>3, <1>a
    <3>3. Set(r, [q EXCEPT !.phase = "refused", !.calls = Front(@)])
      BY <1>3, <3>2 DEF SetAccess
    <3> QED
      BY <3>1, <3>3
  <2> HIDE DEF s
  <2>3. /\ p \in Request /\ p.calls = s /\ p.mode = q.mode /\ p.result = q.result
        /\ p.phase # "git"
    BY <1>1, <2>1 DEF Request, Phases
  <2> HIDE DEF p
  <2>4. Good(p, accepted)
    BY <1>1, <1>3, <2>3, GoodPop DEF s
  <2> QED
    BY <1>2, <2>2, <2>3, <2>4, SetKeeps DEF TypeOK
<1>4. CASE Len(q.calls) = 1 /\ auth = Null
  <2> DEFINE m == access'
             p == [NoReq EXCEPT !.phase = "creds", !.calls = FirstCall(Null), !.mode = m]
  <2>1. Set(r, p)
    <3>1. ~(Len(q.calls) > 1)
      BY <1>0, <1>4
    <3> QED
      BY <1>4, <3>1 DEF SetAccess
  <2>2. m \in AllModes /\ conf \in Configs
    BY DEF TypeOK
  <2> HIDE DEF m
  <2>3. p \in Request /\ Good(p, accepted)
    BY <2>2, NullCred, GoodFirst
  <2> HIDE DEF p
  <2> QED
    BY <1>2, <2>1, <2>3, SetKeeps DEF TypeOK
<1>5. CASE Len(q.calls) = 1 /\ auth # Null
  <2> DEFINE c == [Top(r) EXCEPT !.auth = auth]
             t == SetTop(q, c)
             p == [t EXCEPT !.phase = "done", !.result = "unauthorized"]
  <2>1. Set(r, p)
    <3>1. ~(Len(q.calls) > 1)
      BY <1>0, <1>5
    <3> QED
      BY <1>5, <3>1 DEF SetAccess
  <2>2. Top(r).creds = Null /\ auth = Top(r).auth
    BY <1>5 DEF AfterReject
  <2>3. c \in Call /\ c.host = Top(r).host /\ c.auth = auth /\ c.creds = Null
    BY <1>1, <2>2, HeaderType
  <2>4. auth.src \in {"url", "token"}
    BY <1>1, <1>5, <2>2 DEF HeaderGiven
  <2> HIDE DEF c
  <2>5. OwnHeader(c) /\ (q.mode # "basic" => TokenOnly(c)) /\ HeaderGiven(c)
    BY <1>1, <2>2, <2>3, <2>4 DEF OwnHeader, TokenOnly, HeaderGiven
  <2>6. /\ t \in Request /\ t.mode = q.mode /\ t.result = q.result
        /\ Len(t.calls) = Len(q.calls) /\ t.calls # <<>>
        /\ \A i \in 1..Len(q.calls) : t.calls[i] = IF i = Len(q.calls) THEN c ELSE q.calls[i]
    BY <1>1, <2>3, SetTopType
  <2> HIDE DEF t
  <2>7. /\ p \in Request /\ p.phase = "done" /\ p.calls = t.calls /\ p.mode = t.mode
        /\ p.result = "unauthorized"
    BY <2>6, EndType DEF Results
  <2> HIDE DEF p, auth, q
  <2>8. Good(p, accepted)
    BY <1>1, <2>3, <2>4, <2>5, <2>6, <2>7, GoodTop
  <2> QED
    BY <1>2, <2>1, <2>7, <2>8, SetKeeps DEF TypeOK
<1>6. Len(q.calls) > 1 \/ Len(q.calls) = 1
  BY <1>0, <1>a
<1> QED
  BY <1>3, <1>4, <1>5, <1>6

\* The access mode and the modes that are left are modes.
LEMMA UpgradeTypes ==
  ASSUME TypeOK, GoodRequests, NEW r \in Requests, SetAccess(r)
  PROVE  access' \in AllModes /\ modes' \subseteq AllModes
<1>1. req[r].newMode \in AllModes /\ req[r].newModes \subseteq AllModes
  BY DEF TypeOK, Request
<1> QED
  BY <1>1 DEF SetAccess, TypeOK

\* Types, calls and what is saved, at every step.
LEMMA RequestStep == IInv /\ [Next]_vars => IInv'
<1> SUFFICES ASSUME IInv, [Next]_vars PROVE IInv'
  OBVIOUS
<1>a. TypeOK /\ GoodRequests /\ SavedCredsWereAccepted
  BY DEF IInv
<1>b. ASSUME UNCHANGED <<conf, password, stored, access, modes, cache>>,
             req' \in [Requests -> Request], GoodRequests', accepted \subseteq accepted'
      PROVE  IInv'
  <2>1. TypeOK'
    BY <1>a, <1>b DEF TypeOK
  <2>2. SavedCredsWereAccepted'
    BY <1>a, <1>b DEF SavedCredsWereAccepted
  <2> QED
    BY <1>b, <2>1, <2>2 DEF IInv
<1>c. ASSUME UNCHANGED <<conf, stored, access, modes, cache, req, accepted>>,
             password' \in [Hosts -> Passwords]
      PROVE  IInv'
  BY <1>a, <1>c DEF IInv, TypeOK, GoodRequests, SavedCredsWereAccepted
<1>d. ASSUME NEW r \in Requests, NEW pw \in Saved, NEW src \in Sources \ {"none"},
             NeedsFill(r) \/ At(r, "git"), Filled(r, NewCred(Top(r).host, pw, src)),
             UNCHANGED <<world, shared, accepted>>
      PROVE  IInv'
  <2>2. req' \in [Requests -> Request] /\ GoodRequests'
    BY <1>a, <1>d, FilledKeeps
  <2> QED
    BY <1>b, <1>d, <2>2 DEF world, shared
<1>e. ASSUME NEW r \in Requests, NEW res \in {"failed", "nocreds"}, Ends(r, res),
             UNCHANGED <<world, shared, accepted>>
      PROVE  IInv'
  <2>1. res \in Results \ {"unauthorized"}
    BY DEF Results
  <2>2. req' \in [Requests -> Request] /\ GoodRequests'
    BY <1>a, <1>e, <2>1, EndKeeps
  <2> QED
    BY <1>b, <1>e, <2>2 DEF world, shared
<1>f. ASSUME NEW r \in Requests, req[r].phase \notin {"new", "done"}
      PROVE  Top(r).host \in Hosts /\ Top(r).creds \in Cred
  BY <1>a, <1>f, InCall
<1>1. ASSUME NEW r \in Requests, Start(r) PROVE IInv'
  BY <1>1, <1>a, <1>b, StartKeeps DEF Start, world, shared
<1>2. ASSUME NEW r \in Requests, StartSsh(r) PROVE IInv'
  BY <1>2, <1>a, <1>b, StartKeeps DEF StartSsh, world
<1>3. ASSUME NEW r \in Requests, SkipCreds(r) PROVE IInv'
  BY <1>3, <1>a, <1>b, SkipKeeps DEF SkipCreds, world, shared
<1>4. ASSUME NEW r \in Requests, FillNetrc(r) PROVE IInv'
  <2>1. conf.netrc \in Saved
    BY <1>a, ConfTypes DEF TypeOK
  <2> QED
    BY <1>4, <1>d, <2>1 DEF FillNetrc, Sources
<1>5. ASSUME NEW r \in Requests, FillCached(r) PROVE IInv'
  <2>1. cache[Top(r).host] \in Saved
    BY <1>5, <1>a, <1>f DEF FillCached, NeedsFill, At, TypeOK
  <2> QED
    BY <1>5, <1>d, <2>1 DEF FillCached, Sources
<1>6. ASSUME NEW r \in Requests, FillStored(r) PROVE IInv'
  <2>1. stored[Top(r).host] \in Saved
    BY <1>6, <1>a, <1>f DEF FillStored, AsksGit, AsksHelper, NeedsFill, At, TypeOK
  <2> QED
    BY <1>6, <1>d, <2>1 DEF FillStored, AsksGit, AsksHelper, Sources
<1>7. ASSUME NEW r \in Requests, FillPrompt(r) PROVE IInv'
  <2>1. password[Top(r).host] \in Saved
    BY <1>7, <1>a, <1>f DEF FillPrompt, Prompted, AsksGit, AsksHelper, NeedsFill, At, TypeOK, Saved
  <2>2. Source(r) \in Sources \ {"none"}
    BY DEF Source, Sources
  <2> QED
    BY <1>7, <1>d, <2>1, <2>2 DEF FillPrompt, Prompted, AsksGit, AsksHelper
<1>8. ASSUME NEW r \in Requests, FillWrong(r) PROVE IInv'
  <2>1. 0 \in Saved
    BY HttpClientAssumption DEF Saved, Passwords
  <2>2. Source(r) \in Sources \ {"none"}
    BY DEF Source, Sources
  <2> QED
    BY <1>8, <1>d, <2>1, <2>2 DEF FillWrong, Prompted, AsksGit, AsksHelper
<1>9. ASSUME NEW r \in Requests, Accept(r) \/ Refuse(r) PROVE IInv'
  <2>1. UNCHANGED <<world, shared>> /\ accepted \subseteq accepted'
    BY <1>9 DEF Accept, Refuse, Answered
  <2> QED
    BY <1>9, <1>a, <1>b, <2>1, AnswerKeeps DEF world, shared
<1>10. ASSUME NEW r \in Requests, Unauthorized(r) PROVE IInv'
  BY <1>10, <1>a, <1>b, UnauthorizedKeeps DEF Unauthorized, world, shared
<1>11. ASSUME NEW r \in Requests, NEW h \in Hosts, Redirect(r, h) PROVE IInv'
  <2>1. UNCHANGED <<world, shared>> /\ accepted \subseteq accepted'
    BY <1>11 DEF Redirect, Answered
  <2> QED
    BY <1>11, <1>a, <1>b, <2>1, RedirectKeeps DEF world, shared
<1>12. ASSUME NEW r \in Requests, SetAccess(r) PROVE IInv'
  <2>1. access' \in AllModes /\ modes' \subseteq AllModes
    BY <1>12, <1>a, UpgradeTypes
  <2>2. req' \in [Requests -> Request] /\ GoodRequests'
    BY <1>12, <1>a, <2>1, UpgradeKeeps
  <2>3. UNCHANGED <<conf, password, accepted>>
    BY <1>12 DEF SetAccess
  <2>4. /\ cache' = cache \/ cache' = [cache EXCEPT ![Top(r).creds.host] = None]
        /\ stored' = stored \/ stored' = [stored EXCEPT ![Top(r).creds.host] = None]
    BY <1>12 DEF SetAccess, RejectCreds
  <2>5. cache' \in [Hosts -> Saved] /\ stored' \in [Hosts -> Saved]
    BY <1>a, <2>4 DEF TypeOK, Saved
  <2>6. TypeOK'
    BY <1>a, <2>1, <2>2, <2>3, <2>5 DEF TypeOK
  <2>7. \A h \in Hosts : /\ cache'[h] = cache[h] \/ cache'[h] = None
                         /\ stored'[h] = stored[h] \/ stored'[h] = None
    BY <1>a, <2>4 DEF TypeOK
  <2>8. SavedCredsWereAccepted'
    <3>1. ASSUME NEW h \in Hosts, NEW pw, pw = cache'[h] \/ pw = stored'[h], pw # None
          PROVE  <<h, pw>> \in accepted'
      BY <1>a, <2>3, <2>7, <3>1 DEF SavedCredsWereAccepted
    <3> QED
      BY <3>1 DEF SavedCredsWereAccepted
  <2> QED
    BY <2>2, <2>6, <2>8 DEF IInv
<1>13. ASSUME NEW r \in Requests, Approve(r) PROVE IInv'
  <2> DEFINE c == Top(r).creds
  <2>1. /\ At(r, "approve") /\ CallReturns(r)
        /\ UNCHANGED <<conf, password, access, modes, accepted>>
    BY <1>13 DEF Approve
  <2>2. req' \in [Requests -> Request] /\ GoodRequests'
    BY <1>a, <2>1, ReturnKeeps
  <2>3. /\ cache' = cache \/ cache' = [cache EXCEPT ![c.host] = c.pw]
        /\ stored' = stored \/ stored' = [stored EXCEPT ![c.host] = c.pw]
    BY <1>13 DEF Approve
  <2>4. c.pw \in Saved /\ <<c.host, c.pw>> \in accepted
    <3>1. /\ Top(r) = req[r].calls[Len(req[r].calls)] /\ Len(req[r].calls) \in Nat \ {0}
          /\ Good(req[r], accepted) /\ c \in Cred
      BY <1>a, <2>1, InCall DEF At
    <3>2. Len(req[r].calls) \in 1..Len(req[r].calls)
      BY <3>1
    <3>3. Known(Top(r), accepted)
      BY <2>1, <3>1, <3>2 DEF Good, At
    <3> QED
      BY <3>1, <3>3 DEF Known, Cred
  <2> HIDE DEF c
  <2>5. cache' \in [Hosts -> Saved] /\ stored' \in [Hosts -> Saved]
    BY <1>a, <2>3, <2>4 DEF TypeOK
  <2>6. TypeOK'
    BY <1>a, <2>1, <2>2, <2>5 DEF TypeOK
  <2>7. \A h \in Hosts : /\ cache'[h] = cache[h] \/ (h = c.host /\ cache'[h] = c.pw)
                         /\ stored'[h] = stored[h] \/ (h = c.host /\ stored'[h] = c.pw)
    BY <1>a, <2>3 DEF TypeOK
  <2>8. SavedCredsWereAccepted'
    BY <1>a, <2>1, <2>4, <2>7 DEF SavedCredsWereAccepted
  <2> QED
    BY <2>2, <2>6, <2>8 DEF IInv
<1>14. ASSUME NEW r \in Requests, ApproveFails(r) PROVE IInv'
  BY <1>14, <1>a, <1>b, ReturnKeeps DEF ApproveFails, world, shared
<1>15. ASSUME NEW r \in Requests, ResolveFails(r) PROVE IInv'
  BY <1>15, <1>e DEF ResolveFails
<1>16. ASSUME NEW r \in Requests, FillRefused(r) PROVE IInv'
  BY <1>16, <1>e DEF FillRefused
<1>17. ASSUME NEW r \in Requests, NetworkFails(r) PROVE IInv'
  BY <1>17, <1>e DEF NetworkFails
<1>18. ASSUME NEW r \in Requests, RedirectRefused(r) PROVE IInv'
  BY <1>18, <1>e DEF RedirectRefused
<1>19. CASE TokenExpires
  BY <1>19, <1>a, <1>c DEF TokenExpires, world, TypeOK
<1>20. ASSUME NEW h \in Hosts, ChangePassword(h) PROVE IInv'
  <2>1. password' \in [Hosts -> Passwords]
    BY <1>20, <1>a, HttpClientAssumption DEF ChangePassword, TypeOK, Passwords
  <2> QED
    BY <1>20, <1>c, <2>1 DEF ChangePassword, shared
<1>22. ASSUME NEW r \in Requests, AskpassFails(r) PROVE IInv'
  BY <1>22, <1>a, <1>b, AskpassKeeps DEF AskpassFails, world, shared
<1>21. CASE UNCHANGED vars
  BY <1>21, <1>a, <1>c DEF vars, world, shared, TypeOK
<1> QED
  BY <1>1, <1>2, <1>3, <1>4, <1>5, <1>6, <1>7, <1>8, <1>9, <1>10, <1>11, <1>12, <1>13, <1>14,
     <1>15, <1>16, <1>17, <1>18, <1>19, <1>20, <1>21, <1>22 DEF Next, Step

-----------------------------------------------------------------------------
(* Theorems *)

\* The invariant holds at the start and is kept by every step.
LEMMA Inductive == Spec => []IInv
<1>1. Init => IInv
  <2> SUFFICES ASSUME Init PROVE IInv
    OBVIOUS
  <2>1. conf.stored \in Saved /\ None \in Saved /\ conf \in Configs
    BY ConfTypes DEF Init, Saved
  <2>2. NoReq \in Request /\ NoReq.phase = "new" /\ NoReq.calls = <<>> /\ NoReq.result = "none"
    BY DEF NoReq, Request, Phases, Results, AllModes
  <2>3. 1 \in Passwords
    BY HttpClientAssumption DEF Passwords
  <2>4. TypeOK
    BY <2>1, <2>2, <2>3 DEF Init, TypeOK, AllModes
  <2>5. Good(NoReq, accepted)
    BY <2>2 DEF Good
  <2>6. GoodRequests
    BY <2>5 DEF Init, GoodRequests
  <2>7. SavedCredsWereAccepted
    BY DEF Init, SavedCredsWereAccepted
  <2> QED
    BY <2>4, <2>6, <2>7 DEF IInv
<1> QED
  BY <1>1, RequestStep, PTL DEF Spec

\* Credentials reach the host that they are for and no other, whatever redirects, URLs of
\* remotes and caches there are.
THEOREM CredsStayAtHome == Spec => []CredsOnlyToTheirHost
<1>1. IInv => CredsOnlyToTheirHost
  BY InCall DEF IInv, CredsOnlyToTheirHost, At, OwnHeader
<1> QED
  BY <1>1, Inductive, PTL

\* What the cache and git credential keep was once sent to its host and not refused.
THEOREM SavedWasAccepted == Spec => []SavedCredsWereAccepted
BY Inductive, PTL DEF IInv

\* A request ends as unauthorized only with a token or credentials of the URL.
THEOREM HelpersAreAskedAgain == Spec => []UnauthorizedOnlyAsGiven
<1>1. IInv => UnauthorizedOnlyAsGiven
  BY DEF IInv, GoodRequests, Good, UnauthorizedOnlyAsGiven, Top
<1> QED
  BY <1>1, Inductive, PTL

=============================================================================
