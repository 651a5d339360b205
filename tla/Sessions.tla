------------------------------- MODULE Sessions -------------------------------
(***************************************************************************)
(* The session of one staff account: the refresh token whose hash          *)
(* auth.service.ts keeps in the account's row, and the admin console of    *)
(* one browser, whose tabs (api/client.ts) renew their access token when a *)
(* request is answered 401 and queue the requests that fail meanwhile.     *)
(*                                                                         *)
(* The tokens an account gets differ only in the second they are signed    *)
(* (the claim iat), so a token is that second, and 0 is none.  The console *)
(* talks to the backend itself (VITE_API_URL, as its .env.example has it): *)
(* the cookie's path then matches the refresh endpoint and no other.       *)
(***************************************************************************)
EXTENDS Naturals, FiniteSets

CONSTANTS
    Tabs,           \* tabs of the browser, with one cookie jar and localStorage
    Requests,       \* the calls of api that the pages make, each once
    TabOf,          \* the tab of each request
    Logouts,        \* those of them that are the sidebar's logout
    Changes,        \* the changes of status that staff ask for (active or not)
    NoTab,          \* no login is under way
    MaxNow          \* bound on the seconds

ASSUME SessionsAssumption ==
    /\ TabOf \in [Requests -> Tabs] /\ Logouts \subseteq Requests
    /\ NoTab \notin Tabs /\ Changes \subseteq BOOLEAN
    /\ MaxNow \in Nat \ {0}

VARIABLES
    now,            \* the second
    expired,        \* access tokens signed until then are expired
    active,         \* the account's status is active
    hash,           \* column refresh_token_hash: the token it is the hash of
    cookie,         \* refresh_token in the cookie jar
    stored,         \* admin_access_token in localStorage
    loggedIn,       \* the store of the tab has a token
    refreshing,     \* isRefreshing of the tab
    req,            \* the requests
    handler,        \* the server's half of each request's refresh
    update,         \* a change of the account's status under way
    login,          \* a login under way
    disturbed       \* history: the jar and the row may have parted, for a known reason

vars == <<now, expired, active, hash, cookie, stored, loggedIn, refreshing, req,
          handler, update, login, disturbed>>

server == <<now, expired, active, update>>

Tokens == 0..MaxNow

\* asking: the request runs the refresh of its tab and waits for the answer.
RequestSteps == {"new", "sent", "queued", "asking", "done"}

\* What refresh() has done, as far as its answer or the row depends on it.
HandlerSteps == {"none", "reading", "granted", "stored", "denied"}

NoHandler == [step |-> "none", token |-> 0]

\* setStatus(): the row it loaded, with the new status, and the columns in which
\* save() found it to differ.
NoUpdate == [step |-> "none", active |-> TRUE, hash |-> 0, columns |-> {}]

NoLogin == [from |-> NoTab, step |-> "signed", token |-> 0]

SessionsTypeOK ==
    /\ now \in 1..MaxNow /\ expired \in 0..(now - 1)
    /\ active \in BOOLEAN /\ disturbed \in BOOLEAN
    /\ hash \in Tokens /\ cookie \in Tokens /\ stored \in Tokens
    /\ loggedIn \in [Tabs -> BOOLEAN] /\ refreshing \in [Tabs -> BOOLEAN]
    /\ req \in [Requests -> [step : RequestSteps, tried : BOOLEAN, token : Tokens]]
    /\ handler \in [Requests -> [step : HandlerSteps, token : Tokens]]
    /\ update \in [step : {"none", "loaded", "seen"}, active : BOOLEAN, hash : Tokens,
                   columns : SUBSET {"active", "hash"}]
    /\ login \in [from : Tabs \cup {NoTab}, step : {"signed", "stored"},
                  token : Tokens]

\* JwtAuthGuard and JwtStrategy.validate(): refresh() does not ask for either.
Accepted(token) == token > expired /\ active

Of(t) == {r \in Requests : TabOf[r] = t}

\* The refreshes a tab waits for, and those the server is at or has answered.
RefreshesOf(t) == {r \in Of(t) : req[r].step = "asking"}

Refreshes == {r \in Requests : handler[r].step # "none"}

-----------------------------------------------------------------------------
(* The browser.                                                            *)

Send(r) ==
    /\ req[r].step = "new"
    /\ loggedIn[TabOf[r]]
    /\ req' = [req EXCEPT ![r].step = "sent", ![r].token = stored]
    /\ UNCHANGED <<server, handler, hash, cookie, stored, loggedIn, refreshing, login, disturbed>>

\* What a page does when its request is answered for good: handleLogout()
\* forgets the token whatever the answer was.
Settle(r) ==
    /\ req' = [req EXCEPT ![r].step = "done"]
    /\ IF r \in Logouts
       THEN stored' = 0 /\ loggedIn' = [loggedIn EXCEPT ![TabOf[r]] = FALSE]
       ELSE UNCHANGED <<stored, loggedIn>>

\* The guard lets the request pass.  logout() gets no cookie, so the hash
\* stays; its answer clears the cookie in the jar.
Served(r) ==
    /\ req[r].step = "sent"
    /\ Accepted(req[r].token)
    /\ Settle(r)
    /\ IF r \in Logouts THEN cookie' = 0 /\ disturbed' = TRUE
                        ELSE UNCHANGED <<cookie, disturbed>>
    /\ UNCHANGED <<server, handler, hash, refreshing, login>>

\* The network fails or the handler throws: the interceptor passes it on.
Failed(r) ==
    /\ req[r].step = "sent"
    /\ Settle(r)
    /\ UNCHANGED <<server, handler, hash, cookie, refreshing, login, disturbed>>

\* A second 401 of a request that was tried again is passed on.
Rejected(r) ==
    /\ req[r].step = "sent"
    /\ ~Accepted(req[r].token)
    /\ req[r].tried
    /\ Settle(r)
    /\ UNCHANGED <<server, handler, hash, cookie, refreshing, login, disturbed>>

Unauthorized(r) == req[r].step = "sent" /\ ~Accepted(req[r].token) /\ ~req[r].tried

Queue(r) ==
    /\ Unauthorized(r)
    /\ refreshing[TabOf[r]]
    /\ req' = [req EXCEPT ![r].step = "queued"]
    /\ UNCHANGED <<server, handler, hash, cookie, stored, loggedIn, refreshing, login, disturbed>>

\* Mutant: the request is not marked as tried.
RefreshUnmarked(r) ==
    /\ Unauthorized(r)
    /\ ~refreshing[TabOf[r]]
    /\ req' = [req EXCEPT ![r].step = "asking"]
    /\ handler' = [handler EXCEPT ![r] = [step |-> "reading", token |-> cookie]]
    /\ refreshing' = [refreshing EXCEPT ![TabOf[r]] = TRUE]
    /\ disturbed' = (disturbed \/ Refreshes # {})
    /\ UNCHANGED <<server, hash, cookie, stored, loggedIn, login>>

\* The first 401 refreshes, with the cookie the jar has now.  The tabs know
\* nothing of one another.
BeginRefresh(r) ==
    /\ Unauthorized(r)
    /\ ~refreshing[TabOf[r]]
    /\ req' = [req EXCEPT ![r].step = "asking", ![r].tried = TRUE]
    /\ handler' = [handler EXCEPT ![r] = [step |-> "reading", token |-> cookie]]
    /\ refreshing' = [refreshing EXCEPT ![TabOf[r]] = TRUE]
    /\ disturbed' = (disturbed \/ Refreshes # {})
    /\ UNCHANGED <<server, hash, cookie, stored, loggedIn, login>>

\* flushQueue(null, token), and the request itself: they are sent again.
Resumed(r, token) ==
    [s \in Requests |-> IF s = r \/ (s \in Of(TabOf[r]) /\ req[s].step = "queued")
                        THEN [req[s] EXCEPT !.step = "sent", !.token = token]
                        ELSE req[s]]

\* Mutant: the answer of a refresh does not set the cookie.
RefreshAnsweredBare(r) ==
    /\ req[r].step = "asking" /\ handler[r].step = "stored"
    /\ stored' = handler[r].token
    /\ loggedIn' = [loggedIn EXCEPT ![TabOf[r]] = TRUE]
    /\ req' = Resumed(r, handler[r].token)
    /\ handler' = [handler EXCEPT ![r] = NoHandler]
    /\ refreshing' = [refreshing EXCEPT ![TabOf[r]] = FALSE]
    /\ UNCHANGED <<server, hash, cookie, login, disturbed>>

\* The answer sets the cookie and the token, and the queue is resumed.
RefreshAnswered(r) ==
    /\ req[r].step = "asking" /\ handler[r].step = "stored"
    /\ cookie' = handler[r].token
    /\ stored' = handler[r].token
    /\ loggedIn' = [loggedIn EXCEPT ![TabOf[r]] = TRUE]
    /\ req' = Resumed(r, handler[r].token)
    /\ handler' = [handler EXCEPT ![r] = NoHandler]
    /\ refreshing' = [refreshing EXCEPT ![TabOf[r]] = FALSE]
    /\ UNCHANGED <<server, hash, login, disturbed>>

\* A 401, an error before anything was stored, or no answer, when the handler
\* may be at it still and go on alone: what it stores the jar does not get.
GiveUp(r) ==
    /\ req[r].step = "asking"
    /\ stored' = 0
    /\ loggedIn' = [loggedIn EXCEPT ![TabOf[r]] = FALSE]
    /\ refreshing' = [refreshing EXCEPT ![TabOf[r]] = FALSE]
    /\ \/ /\ handler' = [handler EXCEPT ![r] = NoHandler]
          /\ disturbed' = (disturbed \/ handler[r].step = "stored")
       \/ /\ handler[r].step \in {"reading", "granted"}
          /\ disturbed' = TRUE
          /\ UNCHANGED handler

\* Mutant: the queue is not flushed when the refresh fails.
RefreshFailsSilently(r) ==
    /\ GiveUp(r)
    /\ req' = [req EXCEPT ![r].step = "done"]
    /\ UNCHANGED <<server, hash, cookie, login>>

\* The queue is rejected, and doLogout() forgets the token and loads /login,
\* which ends whatever the tab was doing.
RefreshFails(r) ==
    /\ GiveUp(r)
    /\ req' = [s \in Requests |-> IF s \in Of(TabOf[r]) /\ req[s].step # "new"
                                  THEN [req[s] EXCEPT !.step = "done"] ELSE req[s]]
    /\ UNCHANGED <<server, hash, cookie, login>>

-----------------------------------------------------------------------------
(* The server.                                                             *)

\* _refreshUser(): the row is read and its hash compared, a new token signed.
CheckRefresh(r) ==
    /\ handler[r].step = "reading"
    /\ handler' = [handler EXCEPT ![r] =
                      IF @.token # 0 /\ @.token = hash
                      THEN [step |-> "granted", token |-> now]
                      ELSE IF req[r].step = "asking" THEN [step |-> "denied", token |-> 0]
                           ELSE NoHandler]
    /\ UNCHANGED <<server, hash, cookie, stored, loggedIn, refreshing, req, login, disturbed>>

\* _issueRefreshToken(): the hash is computed and then stored.
StoreRefresh(r) ==
    /\ handler[r].step = "granted"
    /\ hash' = handler[r].token
    /\ handler' = [handler EXCEPT ![r] =
                      IF req[r].step = "asking" THEN [@ EXCEPT !.step = "stored"] ELSE NoHandler]
    /\ UNCHANGED <<server, cookie, stored, loggedIn, refreshing, req, login, disturbed>>

\* login() with the right password; the status of the account is not asked for.
BeginLogin(t) ==
    /\ login = NoLogin
    /\ ~loggedIn[t]
    /\ login' = [from |-> t, step |-> "signed", token |-> now]
    /\ UNCHANGED <<server, handler, hash, cookie, stored, loggedIn, refreshing, req, disturbed>>

StoreLogin ==
    /\ login # NoLogin /\ login.step = "signed"
    /\ hash' = login.token
    /\ login' = [login EXCEPT !.step = "stored"]
    /\ disturbed' = TRUE
    /\ UNCHANGED <<server, handler, cookie, stored, loggedIn, refreshing, req>>

\* The browser's jar and row agree again unless the token was replaced meanwhile.
LoginAnswered ==
    /\ login.step = "stored"
    /\ cookie' = login.token
    /\ stored' = login.token
    /\ loggedIn' = [loggedIn EXCEPT ![login.from] = TRUE]
    /\ disturbed' = (hash # login.token \/ Refreshes # {})
    /\ login' = NoLogin
    /\ UNCHANGED <<server, handler, hash, refreshing, req>>

\* updateLastLogin() throws after the cookie was set on the response.
LoginFails ==
    /\ login.step = "stored"
    /\ cookie' = login.token
    /\ login' = NoLogin
    /\ UNCHANGED <<server, handler, hash, stored, loggedIn, refreshing, req, disturbed>>

\* The answer is lost.
LoginLost ==
    /\ login.step = "stored"
    /\ login' = NoLogin
    /\ UNCHANGED <<server, handler, hash, cookie, stored, loggedIn, refreshing, req, disturbed>>

\* A wrong password: 401 of /auth/login makes the client call doLogout().
LoginRefused(t) ==
    /\ ~loggedIn[t] /\ stored # 0
    /\ stored' = 0
    /\ UNCHANGED <<server, handler, hash, cookie, loggedIn, refreshing, req, login, disturbed>>

\* Another device logs in: of its steps only the store touches the row.
LoginElsewhere ==
    /\ hash' = now
    /\ disturbed' = TRUE
    /\ UNCHANGED <<server, handler, cookie, stored, loggedIn, refreshing, req, login>>

\* logout() by a client that does send the cookie.
LogoutElsewhere ==
    /\ hash # 0
    /\ hash' = 0
    /\ disturbed' = TRUE
    /\ UNCHANGED <<server, handler, cookie, stored, loggedIn, refreshing, req, login>>

\* setStatus() of the account: the whole row is loaded and its status set.
LoadUser(status) ==
    /\ update = NoUpdate
    /\ update' = [step |-> "loaded", active |-> status, hash |-> hash, columns |-> {}]
    /\ UNCHANGED <<now, expired, active, handler, hash, cookie, stored, loggedIn, refreshing,
                   req, login, disturbed>>

\* save() selects the row again to see which columns differ.
SeeUser ==
    /\ update.step = "loaded"
    /\ update' = [update EXCEPT !.step = "seen",
                     !.columns = {c \in {"active"} : update.active # active}
                                 \cup {c \in {"hash"} : update.hash # hash}]
    /\ UNCHANGED <<now, expired, active, handler, hash, cookie, stored, loggedIn, refreshing,
                   req, login, disturbed>>

\* Its UPDATE writes those: a token stored between the two reads is replaced by
\* the older one that was loaded.
SaveUser ==
    /\ update.step = "seen"
    /\ active' = IF "active" \in update.columns THEN update.active ELSE active
    /\ hash' = IF "hash" \in update.columns THEN update.hash ELSE hash
    /\ disturbed' = (disturbed \/ hash' # hash)
    /\ update' = NoUpdate
    /\ UNCHANGED <<now, expired, handler, cookie, stored, loggedIn, refreshing, req, login>>

\* Mutant: a token is expired in the second it is signed.
TimeFlies(e) ==
    /\ now < MaxNow
    /\ now' = now + 1
    /\ expired' = e + 1
    /\ UNCHANGED <<active, update, handler, hash, cookie, stored, loggedIn, refreshing, req, login, disturbed>>

\* Time passes, and access tokens signed until e may expire.
TimePasses(e) ==
    /\ now < MaxNow
    /\ now' = now + 1
    /\ expired' = e
    /\ UNCHANGED <<active, update, handler, hash, cookie, stored, loggedIn, refreshing, req, login, disturbed>>

-----------------------------------------------------------------------------
Init ==
    /\ now = 1 /\ expired = 0 /\ active = TRUE
    /\ hash = 0 /\ cookie = 0 /\ stored = 0
    /\ loggedIn = [t \in Tabs |-> FALSE] /\ refreshing = [t \in Tabs |-> FALSE]
    /\ req = [r \in Requests |-> [step |-> "new", tried |-> FALSE, token |-> 0]]
    /\ handler = [r \in Requests |-> NoHandler] /\ update = NoUpdate
    /\ login = NoLogin /\ disturbed = FALSE

Answer(r) == Served(r) \/ Failed(r) \/ Rejected(r) \/ Queue(r) \/ BeginRefresh(r)

RefreshEnds(r) == RefreshAnswered(r) \/ RefreshFails(r)

RefreshHandled(r) == CheckRefresh(r) \/ StoreRefresh(r)

Next ==
    \/ \E r \in Requests : Send(r) \/ Answer(r) \/ RefreshEnds(r) \/ RefreshHandled(r)
    \/ StoreLogin \/ LoginAnswered \/ LoginFails \/ LoginLost
    \/ \E t \in Tabs : BeginLogin(t) \/ LoginRefused(t)
    \/ LoginElsewhere \/ LogoutElsewhere
    \/ \E status \in Changes : LoadUser(status)
    \/ SeeUser \/ SaveUser
    \/ \E e \in expired..now : TimePasses(e)

\* A request that was sent is answered or fails, a refresh too; nothing is asked
\* of the server's half.
Spec == Init /\ [][Next]_vars /\ \A r \in Requests : WF_vars(Answer(r) \/ RefreshEnds(r))

-----------------------------------------------------------------------------
(* Properties.                                                             *)

\* A tab is refreshing exactly when one of its requests runs the refresh, and
\* never more than one; a queued request has a refresh to wait for.  The flag,
\* the queue and the call in flight are separate pieces of state.
QueueIsServed ==
    \A t \in Tabs :
        /\ Cardinality(RefreshesOf(t)) = IF refreshing[t] THEN 1 ELSE 0
        /\ \A r \in Of(t) : req[r].step = "queued" => refreshing[t]

\* Token rotation never locks the browser out by itself: the server refuses a
\* refresh only after a login, a logout, a refresh that the client gave up on
\* while the server was at it, refreshes that overlap, or a change of the
\* status that wrote an older token back has parted the cookie from the row.
RefusedOnlyIfDisturbed == (\E r \in Requests : handler[r].step = "denied") => disturbed

\* The requests of the pages come to an end, those of a disabled account too,
\* whose refreshes succeed and whose requests are refused all the same: no 401
\* loops, and no queued request is forgotten.
RequestsEnd == <>[](\A r \in Requests : req[r].step \in {"new", "done"})
=============================================================================
