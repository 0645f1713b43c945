--------------------------- MODULE RefreshCookie ---------------------------
(* The refresh token in a browser's cookie (httpapi/refresh_cookie.go, used by
   mountAuth): who keeps it, and for how long.  One browser, one session, time in
   days.  RefreshSessions has the sessions of the server in full; here a
   session is its latest token, how long that lives, and how long the family
   does. *)
EXTENDS Configuration

CONSTANTS
  Environments,  \* environments a process may be started with
  Tokens,        \* bound on tokens issued
  Days           \* bound on time

VARIABLES
  settings,
  day,
  session,  \* [revoked, first, token, expires, ends]: the latest family, its
            \* tokens first..token, how long the last one and the family live
  cookie,   \* [token, gone]: what the browser keeps, until when; token 0: nothing
  given     \* history: the latest token the browser was given

vars == <<settings, day, session, cookie, given>>

---------------------------------------------------------------------------
(* Not the configured lifetime of a token *)
refreshCookieMaxAge == 30

NoCookie == [token |-> 0, gone |-> 0]

(* idleExpiry, when a token of a family is issued today *)
IdleExpiry(ends) ==
  IF day + settings.RefreshIdleDays < ends THEN day + settings.RefreshIdleDays ELSE ends

Live == ~session.revoked /\ day < session.expires

(* issueTokens: the answer with the cookie may be lost *)
IssueTokens(token) ==
  \/ cookie' = [token |-> token, gone |-> day + refreshCookieMaxAge] /\ given' = token
  \/ UNCHANGED <<cookie, given>>

(* A browser logs in when it has no session to go on with. *)
Login ==
  LET ends == day + settings.RefreshAbsoluteDays IN
  /\ cookie = NoCookie \/ session.revoked
  /\ session.token < Tokens
  /\ session' = [revoked |-> FALSE, first |-> session.token + 1, token |-> session.token + 1,
                 expires |-> IdleExpiry(ends), ends |-> ends]
  /\ IssueTokens(session.token + 1)
  /\ UNCHANGED <<settings, day>>

(* refreshTokenFrom: a cookie counts with the header of a script.  Refresh then
   rotates the latest token of a live session; any other ends its family, which
   is an earlier one if the answer to a login was lost. *)
Refresh ==
  /\ cookie # NoCookie
  /\ IF Live /\ cookie.token = session.token
       THEN /\ session.token < Tokens
            /\ session' = [session EXCEPT !.token = @ + 1, !.expires = IdleExpiry(session.ends)]
            /\ IssueTokens(session.token + 1)
       ELSE /\ session' = [session EXCEPT !.revoked = @ \/ cookie.token >= session.first]
            /\ UNCHANGED <<cookie, given>>
  /\ UNCHANGED <<settings, day>>

(* The session ends; clearRefreshCookie, unless the answer is lost *)
Logout ==
  /\ cookie # NoCookie
  /\ session' = [session EXCEPT !.revoked = @ \/ cookie.token >= session.first]
  /\ cookie' \in {cookie, NoCookie}
  /\ UNCHANGED <<settings, day, given>>

(* The browser drops a cookie at its age. *)
NextDay ==
  /\ day < Days
  /\ day' = day + 1
  /\ cookie' = IF cookie.gone <= day + 1 THEN NoCookie ELSE cookie
  /\ UNCHANGED <<settings, session, given>>

Init ==
  /\ settings \in {Settings(env) : env \in {e \in Environments : Accepted(e, "")}}
  /\ settings.RefreshTransport = "cookie"
  /\ day = 0
  /\ session = [revoked |-> TRUE, first |-> 1, token |-> 0, expires |-> 0, ends |-> 0]
  /\ cookie = NoCookie
  /\ given = 0

Next == Login \/ Refresh \/ Logout \/ NextDay

Spec == Init /\ [][Next]_vars

---------------------------------------------------------------------------
(* Properties *)

\* "refreshCookieMaxAge matches the refresh token lifetime" (refresh_cookie.go:15):
\* a browser still has the token it was given last while the token is live.
CookieMatchesToken ==
  Live /\ given = session.token => cookie.token = session.token
=============================================================================
