---------------------------- MODULE SessionsProofs ----------------------------
(***************************************************************************)
(* Proofs about a session and its refreshes, for any numbers of tabs, of   *)
(* requests and of seconds.                                                *)
(***************************************************************************)
EXTENDS Sessions, TLAPS, FiniteSetTheorems

ReqRecords == [step : RequestSteps, tried : BOOLEAN, token : Tokens]

HandlerRecords == [step : HandlerSteps, token : Tokens]

UpdateRecords == [step : {"none", "loaded", "seen"}, active : BOOLEAN, hash : Tokens,
                  columns : SUBSET {"active", "hash"}]

LoginRecords == [from : Tabs \cup {NoTab}, step : {"signed", "stored"}, token : Tokens]

\* Seconds are tokens, and there is a first one.
LEMMA Seconds == ASSUME SessionsTypeOK PROVE now \in Tokens /\ now # 0
BY SessionsAssumption DEF SessionsTypeOK, Tokens

-----------------------------------------------------------------------------
(* Types.                                                                  *)

ClockOK == now \in 1..MaxNow /\ expired \in 0..(now - 1) /\ active \in BOOLEAN

JarOK == hash \in Tokens /\ cookie \in Tokens /\ stored \in Tokens /\ disturbed \in BOOLEAN

TabsOK == loggedIn \in [Tabs -> BOOLEAN] /\ refreshing \in [Tabs -> BOOLEAN]

CallsOK ==
    /\ req \in [Requests -> ReqRecords]
    /\ handler \in [Requests -> HandlerRecords]
    /\ update \in UpdateRecords
    /\ login \in LoginRecords

\* The parts of the type invariant.
LEMMA TypeParts == SessionsTypeOK <=> ClockOK /\ JarOK /\ TabsOK /\ CallsOK
BY DEF SessionsTypeOK, ClockOK, JarOK, TabsOK, CallsOK, ReqRecords, HandlerRecords,
       UpdateRecords, LoginRecords

\* They make it up after a step as well.
LEMMA TypePartsNext == ClockOK' /\ JarOK' /\ TabsOK' /\ CallsOK' => SessionsTypeOK'
BY DEF SessionsTypeOK, ClockOK, JarOK, TabsOK, CallsOK, ReqRecords, HandlerRecords,
       UpdateRecords, LoginRecords

\* A request that the browser sends or settles.
LEMMA AnswerTypes ==
  ASSUME SessionsTypeOK, NEW r \in Requests, Send(r) \/ Answer(r)
  PROVE  SessionsTypeOK'
<1>0. /\ ClockOK /\ JarOK /\ TabsOK /\ CallsOK
      /\ req[r] \in ReqRecords /\ TabOf[r] \in Tabs /\ 0 \in Tokens
  BY TypeParts, SessionsAssumption DEF Tokens, CallsOK
<1>1. UNCHANGED <<now, expired, active, update, login>>
  BY DEF Send, Answer, Served, Failed, Rejected, Queue, BeginRefresh, server
<1>2. JarOK' /\ TabsOK'
  BY <1>0 DEF Send, Answer, Served, Failed, Rejected, Queue, BeginRefresh, Settle, JarOK, TabsOK
<1>3. req' \in [Requests -> ReqRecords]
  <2>1. /\ [req[r] EXCEPT !.step = "sent", !.token = stored] \in ReqRecords
        /\ [req[r] EXCEPT !.step = "done"] \in ReqRecords
        /\ [req[r] EXCEPT !.step = "queued"] \in ReqRecords
        /\ [req[r] EXCEPT !.step = "asking", !.tried = TRUE] \in ReqRecords
    BY <1>0 DEF ReqRecords, RequestSteps, JarOK
  <2> QED BY <1>0, <2>1
       DEF CallsOK, Send, Answer, Served, Failed, Rejected, Queue, BeginRefresh, Settle
<1>4. handler' \in [Requests -> HandlerRecords]
  <2>1. [step |-> "reading", token |-> cookie] \in HandlerRecords
    BY <1>0 DEF HandlerRecords, HandlerSteps, JarOK
  <2> QED BY <1>0, <2>1
       DEF CallsOK, Send, Answer, Served, Failed, Rejected, Queue, BeginRefresh
<1>5. ClockOK' /\ CallsOK'
  BY <1>0, <1>1, <1>3, <1>4 DEF ClockOK, CallsOK
<1> QED BY <1>2, <1>5, TypePartsNext

\* A refresh.
LEMMA RefreshTypes ==
  ASSUME SessionsTypeOK, NEW r \in Requests, RefreshEnds(r) \/ RefreshHandled(r)
  PROVE  SessionsTypeOK'
<1>0. /\ ClockOK /\ JarOK /\ TabsOK /\ CallsOK
      /\ req \in [Requests -> ReqRecords] /\ handler \in [Requests -> HandlerRecords]
      /\ handler[r] \in HandlerRecords /\ handler[r].token \in Tokens /\ TabOf[r] \in Tabs
      /\ 0 \in Tokens /\ now \in Tokens
  BY TypeParts, Seconds, SessionsAssumption DEF Tokens, CallsOK, HandlerRecords
<1>1. UNCHANGED <<now, expired, active, update, login>>
  BY DEF RefreshEnds, RefreshHandled, CheckRefresh, StoreRefresh, RefreshAnswered, RefreshFails,
         server
<1>2. JarOK' /\ TabsOK'
  BY <1>0 DEF RefreshEnds, RefreshHandled, CheckRefresh, StoreRefresh, RefreshAnswered,
              RefreshFails, GiveUp, JarOK, TabsOK
<1>3. req' \in [Requests -> ReqRecords]
  <2>1. ASSUME NEW s \in Requests
        PROVE  /\ [req[s] EXCEPT !.step = "done"] \in ReqRecords
               /\ [req[s] EXCEPT !.step = "sent", !.token = handler[r].token] \in ReqRecords
    BY <1>0 DEF ReqRecords, RequestSteps
  <2>2. CASE RefreshHandled(r)
    BY <1>0, <2>2 DEF RefreshHandled, CheckRefresh, StoreRefresh
  <2>3. CASE RefreshAnswered(r)
    BY <1>0, <2>1, <2>3 DEF RefreshAnswered, Resumed
  <2>4. CASE RefreshFails(r)
    BY <1>0, <2>1, <2>4 DEF RefreshFails
  <2> QED BY <2>2, <2>3, <2>4 DEF RefreshEnds
<1>4. handler' \in [Requests -> HandlerRecords]
  <2>1. /\ NoHandler \in HandlerRecords
        /\ [step |-> "granted", token |-> now] \in HandlerRecords
        /\ [step |-> "denied", token |-> 0] \in HandlerRecords
        /\ [handler[r] EXCEPT !.step = "stored"] \in HandlerRecords
    BY <1>0 DEF NoHandler, HandlerRecords, HandlerSteps
  <2> QED BY <1>0, <2>1
       DEF RefreshEnds, RefreshHandled, CheckRefresh, StoreRefresh, RefreshAnswered, RefreshFails,
           GiveUp
<1>5. ClockOK' /\ CallsOK'
  BY <1>0, <1>1, <1>3, <1>4 DEF ClockOK, CallsOK
<1> QED BY <1>2, <1>5, TypePartsNext

Logins ==
    \/ StoreLogin \/ LoginAnswered \/ LoginFails \/ LoginLost
    \/ \E t \in Tabs : BeginLogin(t) \/ LoginRefused(t)
    \/ LoginElsewhere \/ LogoutElsewhere
    \/ \E e \in expired..now : TimePasses(e)

\* A change of the account's status by staff.
StaffSteps == (\E status \in Changes : LoadUser(status)) \/ SeeUser \/ SaveUser

\* Logins, other devices and time.
LEMMA LoginTypes == ASSUME SessionsTypeOK, Logins PROVE SessionsTypeOK'
<1>0. /\ ClockOK /\ JarOK /\ TabsOK /\ CallsOK /\ login \in LoginRecords
      /\ 0 \in Tokens /\ now \in Tokens /\ login.token \in Tokens
  BY TypeParts, Seconds, SessionsAssumption DEF Tokens, CallsOK, LoginRecords
<1>1. UNCHANGED <<req, handler, update, refreshing>>
  BY DEF Logins, StoreLogin, LoginAnswered, LoginFails, LoginLost, BeginLogin, LoginRefused,
         LoginElsewhere, LogoutElsewhere, TimePasses, server
<1>2. NoLogin \in LoginRecords /\ [login EXCEPT !.step = "stored"] \in LoginRecords
  BY <1>0 DEF NoLogin, LoginRecords
<1>3. \A t \in Tabs : [from |-> t, step |-> "signed", token |-> now] \in LoginRecords
  BY <1>0 DEF LoginRecords
<1>4. JarOK' /\ TabsOK' /\ login' \in LoginRecords
  BY <1>0, <1>1, <1>2, <1>3
     DEF Logins, StoreLogin, LoginAnswered, LoginFails, LoginLost, BeginLogin, LoginRefused,
         LoginElsewhere, LogoutElsewhere, TimePasses, JarOK, TabsOK
<1>5. ClockOK'
  <2>1. CASE \E e \in expired..now : TimePasses(e)
    BY <1>0, <2>1, SessionsAssumption DEF TimePasses, ClockOK
  <2>2. CASE UNCHANGED server
    BY <1>0, <2>2 DEF server, ClockOK
  <2> QED BY <2>1, <2>2
       DEF Logins, StoreLogin, LoginAnswered, LoginFails, LoginLost, BeginLogin, LoginRefused,
           LoginElsewhere, LogoutElsewhere
<1>6. CallsOK'
  BY <1>0, <1>1, <1>4 DEF CallsOK
<1> QED BY <1>4, <1>5, <1>6, TypePartsNext

\* setStatus().
LEMMA StaffTypes == ASSUME SessionsTypeOK, StaffSteps PROVE SessionsTypeOK'
<1>0. /\ ClockOK /\ JarOK /\ TabsOK /\ CallsOK /\ update \in UpdateRecords
      /\ 0 \in Tokens /\ Changes \subseteq BOOLEAN
  BY TypeParts, SessionsAssumption DEF Tokens, CallsOK
<1>1. UNCHANGED <<now, expired, req, handler, login, loggedIn, refreshing, cookie, stored>>
  BY DEF StaffSteps, LoadUser, SeeUser, SaveUser
<1>2. update' \in UpdateRecords
  <2>1. ASSUME NEW status \in Changes, LoadUser(status) PROVE update' \in UpdateRecords
    BY <1>0, <2>1 DEF LoadUser, JarOK, UpdateRecords
  <2>2. CASE SeeUser
    BY <1>0, <2>2 DEF SeeUser, UpdateRecords
  <2>3. CASE SaveUser
    BY <1>0, <2>3 DEF SaveUser, NoUpdate, UpdateRecords
  <2> QED BY <2>1, <2>2, <2>3 DEF StaffSteps
<1>3. hash' \in Tokens /\ active' \in BOOLEAN /\ disturbed' \in BOOLEAN
  BY <1>0 DEF StaffSteps, LoadUser, SeeUser, SaveUser, ClockOK, JarOK, UpdateRecords
<1>4. ClockOK' /\ JarOK' /\ TabsOK'
  BY <1>0, <1>1, <1>3 DEF ClockOK, JarOK, TabsOK
<1>5. CallsOK'
  BY <1>0, <1>1, <1>2 DEF CallsOK
<1> QED BY <1>4, <1>5, TypePartsNext

\* Every step is one of these.
LEMMA NextCases ==
  Next <=> \/ \E r \in Requests : Send(r) \/ Answer(r) \/ RefreshEnds(r) \/ RefreshHandled(r)
           \/ Logins
           \/ StaffSteps
BY DEF Next, Logins, StaffSteps

\* The types are kept, whatever overlaps (a token stays a second so far).
THEOREM SessionsTypeCorrect == Spec => []SessionsTypeOK
<1>1. Init => SessionsTypeOK
  <2> SUFFICES ASSUME Init PROVE SessionsTypeOK
    OBVIOUS
  <2>1. 0 \in Tokens /\ 1 \in 1..MaxNow
    BY SessionsAssumption DEF Tokens
  <2>2. JarOK /\ TabsOK
    BY <2>1 DEF Init, JarOK, TabsOK
  <2>2a. ClockOK
    BY <2>1, SessionsAssumption DEF Init, ClockOK
  <2>3. /\ [step |-> "new", tried |-> FALSE, token |-> 0] \in ReqRecords
        /\ NoHandler \in HandlerRecords /\ NoUpdate \in UpdateRecords /\ NoLogin \in LoginRecords
    BY <2>1 DEF ReqRecords, RequestSteps, NoHandler, HandlerRecords, HandlerSteps, NoUpdate,
                UpdateRecords, NoLogin, LoginRecords
  <2>4. CallsOK
    BY <2>3 DEF Init, CallsOK
  <2> QED BY <2>2, <2>2a, <2>4, TypeParts
<1>2. SessionsTypeOK /\ [Next]_vars => SessionsTypeOK'
  <2> SUFFICES ASSUME SessionsTypeOK, [Next]_vars PROVE SessionsTypeOK'
    OBVIOUS
  <2>1. CASE Next
    BY <2>1, NextCases, AnswerTypes, RefreshTypes, LoginTypes, StaffTypes
  <2>2. CASE UNCHANGED vars
    BY <2>2 DEF vars, server, SessionsTypeOK, Tokens
  <2> QED BY <2>1, <2>2
<1> QED BY <1>1, <1>2, PTL DEF Spec

-----------------------------------------------------------------------------
(* A tab's flag and its refresh.                                           *)

\* QueueIsServed without counting.
TabOK(t) ==
    /\ refreshing[t] => \E r \in Of(t) : RefreshesOf(t) = {r}
    /\ ~refreshing[t] => RefreshesOf(t) = {}
    /\ \A r \in Of(t) : req[r].step = "queued" => refreshing[t]

QueueInv == \A t \in Tabs : TabOK(t)

\* What a tab's part says depends on its flag and its requests' steps.
LEMMA TabStays ==
  ASSUME QueueInv, NEW t \in Tabs, refreshing'[t] = refreshing[t],
         \A s \in Of(t) : /\ req'[s].step = "asking" <=> req[s].step = "asking"
                          /\ req'[s].step = "queued" => req[s].step = "queued" \/ refreshing[t]
  PROVE  TabOK(t)'
<1>1. RefreshesOf(t)' = RefreshesOf(t) /\ Of(t)' = Of(t) /\ TabOK(t)
  BY DEF RefreshesOf, Of, QueueInv
<1> QED BY <1>1 DEF TabOK

\* Requests keep the flags and refreshes of their tabs together.
LEMMA QueueSteps == SessionsTypeOK /\ QueueInv /\ [Next]_vars => QueueInv'
<1> SUFFICES ASSUME SessionsTypeOK, QueueInv, [Next]_vars PROVE QueueInv'
  OBVIOUS
<1>0. /\ req \in [Requests -> ReqRecords] /\ refreshing \in [Tabs -> BOOLEAN]
      /\ TabOf \in [Requests -> Tabs]
  BY TypeParts, SessionsAssumption DEF TabsOK, CallsOK
<1>1. CASE UNCHANGED <<req, refreshing>>
  BY <1>1, TabStays DEF QueueInv
<1>2. ASSUME NEW r \in Requests, UNCHANGED refreshing, NEW to \in RequestSteps,
             \A s \in Requests : req'[s].step = IF s = r THEN to ELSE req[s].step,
             to = "asking" <=> req[r].step = "asking",
             to = "queued" => refreshing[TabOf[r]]
      PROVE  QueueInv'
  <2> SUFFICES ASSUME NEW t \in Tabs PROVE TabOK(t)'
    BY DEF QueueInv
  <2>1. \A s \in Of(t) : /\ req'[s].step = "asking" <=> req[s].step = "asking"
                         /\ req'[s].step = "queued" => req[s].step = "queued" \/ refreshing[t]
    BY <1>2 DEF Of
  <2> QED BY <1>2, <2>1, TabStays
<1>3. ASSUME NEW r \in Requests, Send(r) \/ Answer(r), ~BeginRefresh(r) PROVE QueueInv'
  <2>1. PICK to \in {"sent", "done", "queued"} :
            /\ \A s \in Requests : req'[s].step = IF s = r THEN to ELSE req[s].step
            /\ to = "queued" => refreshing[TabOf[r]]
    <3>1. CASE Send(r)
      BY <1>0, <3>1 DEF Send, ReqRecords
    <3>2. CASE Served(r) \/ Failed(r) \/ Rejected(r)
      BY <1>0, <3>2 DEF Served, Failed, Rejected, Settle, ReqRecords
    <3>3. CASE Queue(r)
      BY <1>0, <3>3 DEF Queue, ReqRecords
    <3> QED BY <1>3, <3>1, <3>2, <3>3 DEF Answer
  <2>2. UNCHANGED refreshing /\ req[r].step # "asking"
    BY <1>3 DEF Send, Answer, Served, Failed, Rejected, Queue, Unauthorized
  <2>3. to # "asking" /\ to \in RequestSteps
    BY DEF RequestSteps
  <2> QED BY <1>2, <2>1, <2>2, <2>3
<1>4. ASSUME NEW r \in Requests, BeginRefresh(r) PROVE QueueInv'
  <2> SUFFICES ASSUME NEW t \in Tabs PROVE TabOK(t)'
    BY DEF QueueInv
  <2>1. /\ \A s \in Requests : req'[s].step = IF s = r THEN "asking" ELSE req[s].step
        /\ refreshing' = [refreshing EXCEPT ![TabOf[r]] = TRUE] /\ ~refreshing[TabOf[r]]
        /\ req[r].step = "sent"
    BY <1>0, <1>4 DEF BeginRefresh, Unauthorized, ReqRecords
  <2>2. CASE t = TabOf[r]
    <3>1. RefreshesOf(t) = {}
      BY <2>1, <2>2 DEF QueueInv, TabOK
    <3>2. RefreshesOf(t)' = {r} /\ r \in Of(t)'
      BY <2>1, <2>2, <3>1 DEF RefreshesOf, Of
    <3>3. refreshing'[t]
      BY <1>0, <2>1, <2>2
    <3> QED BY <3>2, <3>3 DEF TabOK
  <2>3. CASE t # TabOf[r]
    <3>1. \A s \in Of(t) : s # r
      BY <2>3 DEF Of
    <3>2. \A s \in Of(t) : req'[s].step = req[s].step
      BY <2>1, <3>1 DEF Of
    <3> QED BY <1>0, <2>1, <2>3, <3>2, TabStays
  <2> QED BY <2>2, <2>3
<1>5. ASSUME NEW r \in Requests, RefreshHandled(r) PROVE QueueInv'
  BY <1>1, <1>5 DEF RefreshHandled, CheckRefresh, StoreRefresh
<1>6. ASSUME NEW r \in Requests, RefreshEnds(r) PROVE QueueInv'
  <2> SUFFICES ASSUME NEW t \in Tabs PROVE TabOK(t)'
    BY DEF QueueInv
  <2>1. /\ refreshing' = [refreshing EXCEPT ![TabOf[r]] = FALSE] /\ req[r].step = "asking"
        /\ \A s \in Requests : TabOf[s] # TabOf[r] => req'[s] = req[s]
    BY <1>6 DEF RefreshEnds, RefreshAnswered, RefreshFails, GiveUp, Resumed, Of
  <2>2. CASE t = TabOf[r]
    <3>1. r \in Of(t) /\ r \in RefreshesOf(t)
      BY <2>1, <2>2 DEF Of, RefreshesOf
    <3>2. RefreshesOf(t) = {r}
      BY <3>1, <2>2 DEF QueueInv, TabOK
    <3>3. \A s \in Of(t) : req'[s].step # "asking" /\ req'[s].step # "queued"
      <4> SUFFICES ASSUME NEW s \in Of(t)
                   PROVE  req'[s].step # "asking" /\ req'[s].step # "queued"
        OBVIOUS
      <4>0. s \in Requests /\ req[s] \in ReqRecords /\ TabOf[s] = t
        BY <1>0 DEF Of
      <4>1. s = r \/ req[s].step # "asking"
        BY <3>2, <4>0 DEF RefreshesOf
      <4>2. CASE RefreshAnswered(r)
        BY <2>2, <4>0, <4>1, <4>2 DEF RefreshAnswered, Resumed, ReqRecords, Of
      <4>3. CASE RefreshFails(r)
        BY <2>2, <4>0, <4>1, <4>3 DEF RefreshFails, ReqRecords, Of
      <4> QED BY <1>6, <4>2, <4>3 DEF RefreshEnds
    <3>4. RefreshesOf(t)' = {}
      BY <3>3 DEF RefreshesOf, Of
    <3>5. ~refreshing'[t]
      BY <1>0, <2>1, <2>2
    <3> QED BY <3>3, <3>4, <3>5 DEF TabOK, Of
  <2>3. CASE t # TabOf[r]
    <3>1. \A s \in Of(t) : req'[s].step = req[s].step
      BY <2>1, <2>3 DEF Of
    <3> QED BY <1>0, <2>1, <2>3, <3>1, TabStays
  <2> QED BY <2>2, <2>3
<1>7. CASE Logins
  BY <1>1, <1>7
     DEF Logins, StoreLogin, LoginAnswered, LoginFails, LoginLost, BeginLogin, LoginRefused,
         LoginElsewhere, LogoutElsewhere, TimePasses
<1>8. CASE StaffSteps
  BY <1>1, <1>8 DEF StaffSteps, LoadUser, SeeUser, SaveUser
<1>9. CASE UNCHANGED vars
  BY <1>1, <1>9 DEF vars
<1> QED BY <1>3, <1>4, <1>5, <1>6, <1>7, <1>8, <1>9, NextCases

\* The inductive invariant of the tabs.
LEMMA QueueInvariant == Spec => []QueueInv
<1>1. Init => QueueInv
  BY DEF Init, QueueInv, TabOK, RefreshesOf, Of
<1> QED BY <1>1, QueueSteps, SessionsTypeCorrect, PTL DEF Spec

\* A tab never runs two refreshes and never leaves its queue without one
\* (isRefreshing, refreshQueue and the call in flight).
THEOREM QueuesAreServed == Spec => []QueueIsServed
<1>1. QueueInv => QueueIsServed
  <2> SUFFICES ASSUME QueueInv, NEW t \in Tabs
               PROVE  /\ Cardinality(RefreshesOf(t)) = IF refreshing[t] THEN 1 ELSE 0
                      /\ \A r \in Of(t) : req[r].step = "queued" => refreshing[t]
    BY DEF QueueIsServed
  <2>1. TabOK(t)
    BY DEF QueueInv
  <2>2. CASE refreshing[t]
    <3>1. PICK r \in Of(t) : RefreshesOf(t) = {r}
      BY <2>1, <2>2 DEF TabOK
    <3> QED BY <2>1, <2>2, <3>1, FS_Singleton DEF TabOK
  <2>3. CASE ~refreshing[t]
    BY <2>1, <2>3, FS_EmptySet DEF TabOK
  <2> QED BY <2>2, <2>3
<1> QED BY <1>1, QueueInvariant, PTL

-----------------------------------------------------------------------------
(* The cookie and the row.                                                 *)

\* Until something parts them, the cookie is the row's token, except between
\* the store of a new one and its answer.
Agreed ==
    /\ \A r \in Requests : req[r].step = "asking" <=> r \in Refreshes
    /\ \A r, s \in Refreshes : r = s
    /\ \A r \in Refreshes :
          /\ handler[r].step # "denied"
          /\ handler[r].step \in {"reading", "stored"} => handler[r].token = hash
          /\ handler[r].step = "granted" => handler[r].token # 0
    /\ (\A r \in Refreshes : handler[r].step # "stored") => cookie = hash
    /\ hash = 0 => (\A t \in Tabs : ~loggedIn[t]) /\ (\A r \in Requests : req[r].step = "new")

LoginInv ==
    /\ login.step = "stored" => disturbed
    /\ login # NoLogin => login.token # 0

AgreedInv == LoginInv /\ (~disturbed => Agreed)

\* A refresh that is waited for has a handler, or its answer is on the way.
AskedInv == \A r \in Requests : req[r].step = "asking" => r \in Refreshes

\* The halves of a refresh end together, or the client's ends first.
LEMMA AskedSteps == SessionsTypeOK /\ AskedInv /\ [Next]_vars => AskedInv'
<1> SUFFICES ASSUME SessionsTypeOK, AskedInv, [Next]_vars, NEW s \in Requests,
                    req'[s].step = "asking"
             PROVE  s \in Refreshes'
  BY DEF AskedInv
<1>0. /\ req \in [Requests -> ReqRecords] /\ handler \in [Requests -> HandlerRecords]
      /\ req[s] \in ReqRecords /\ TabOf \in [Requests -> Tabs]
  BY TypeParts, SessionsAssumption DEF CallsOK
<1>1. CASE UNCHANGED <<req, handler>>
  BY <1>1 DEF AskedInv, Refreshes
<1>2. ASSUME NEW r \in Requests, Send(r) \/ Served(r) \/ Failed(r) \/ Rejected(r) \/ Queue(r)
      PROVE  s \in Refreshes'
  <2>1. UNCHANGED handler /\ req[s].step = "asking"
    BY <1>0, <1>2 DEF Send, Served, Failed, Rejected, Queue, Settle, ReqRecords
  <2> QED BY <2>1 DEF AskedInv, Refreshes
<1>3. ASSUME NEW r \in Requests, BeginRefresh(r) PROVE s \in Refreshes'
  <2>1. /\ handler' = [handler EXCEPT ![r] = [step |-> "reading", token |-> cookie]]
        /\ s = r \/ req[s].step = "asking"
    BY <1>0, <1>3 DEF BeginRefresh
  <2> QED BY <1>0, <2>1 DEF AskedInv, Refreshes
<1>4. ASSUME NEW r \in Requests, RefreshHandled(r) PROVE s \in Refreshes'
  <2>1. UNCHANGED req /\ s \in Refreshes
    BY <1>4 DEF RefreshHandled, CheckRefresh, StoreRefresh, AskedInv
  <2>2. handler'[s].step # "none"
    <3>1. handler[s] \in HandlerRecords /\ req[s].step = "asking"
      BY <1>0, <2>1
    <3> QED BY <1>0, <1>4, <2>1, <3>1
         DEF RefreshHandled, CheckRefresh, StoreRefresh, Refreshes, HandlerRecords
  <2> QED BY <2>2 DEF Refreshes
<1>5. ASSUME NEW r \in Requests, RefreshEnds(r) PROVE s \in Refreshes'
  <2>1. r \in Of(TabOf[r])
    BY DEF Of
  <2>2. s # r /\ req[s].step = "asking"
    <3>1. CASE RefreshAnswered(r)
      BY <1>0, <3>1 DEF RefreshAnswered, Resumed, ReqRecords
    <3>2. CASE RefreshFails(r)
      <4>1. req[r].step # "new"
        BY <3>2 DEF RefreshFails, GiveUp
      <4> QED BY <1>0, <2>1, <3>2, <4>1 DEF RefreshFails, ReqRecords
    <3> QED BY <1>5, <3>1, <3>2 DEF RefreshEnds
  <2>3. handler'[s] = handler[s]
    BY <1>0, <1>5, <2>2 DEF RefreshEnds, RefreshAnswered, RefreshFails, GiveUp
  <2> QED BY <2>2, <2>3 DEF AskedInv, Refreshes
<1>6. CASE Logins
  BY <1>1, <1>6
     DEF Logins, StoreLogin, LoginAnswered, LoginFails, LoginLost, BeginLogin, LoginRefused,
         LoginElsewhere, LogoutElsewhere, TimePasses
<1>7. CASE StaffSteps
  BY <1>1, <1>7 DEF StaffSteps, LoadUser, SeeUser, SaveUser
<1>8. CASE UNCHANGED vars
  BY <1>1, <1>8 DEF vars
<1> QED BY <1>2, <1>3, <1>4, <1>5, <1>6, <1>7, <1>8, NextCases DEF Answer

\* Requests may move outside the refreshes.
LEMMA AgreedStays ==
  ASSUME Agreed, UNCHANGED <<hash, cookie, handler>>,
         \A s \in Requests : /\ req'[s].step = "asking" <=> req[s].step = "asking"
                             /\ hash = 0 => req'[s].step = "new",
         hash = 0 => \A t \in Tabs : ~loggedIn'[t]
  PROVE  Agreed'
<1>1. Refreshes' = Refreshes
  BY DEF Refreshes
<1> QED BY <1>1 DEF Agreed

\* A login's steps part cookie and row, and join them again at the end.
LEMMA AgreedLogins ==
  ASSUME SessionsTypeOK, AskedInv, AgreedInv, Logins
  PROVE  AgreedInv'
<1>0. now # 0 /\ login \in LoginRecords
  BY Seconds, TypeParts DEF CallsOK
<1>1. UNCHANGED <<req, handler>>
  BY DEF Logins, StoreLogin, LoginAnswered, LoginFails, LoginLost, BeginLogin, LoginRefused,
         LoginElsewhere, LogoutElsewhere, TimePasses
<1>2. LoginInv'
  <2>1. CASE StoreLogin
    BY <1>0, <2>1 DEF StoreLogin, AgreedInv, LoginInv, LoginRecords, NoLogin
  <2>2. CASE LoginAnswered \/ LoginFails \/ LoginLost
    BY <2>2 DEF LoginAnswered, LoginFails, LoginLost, LoginInv, NoLogin
  <2>3. ASSUME NEW t \in Tabs, BeginLogin(t) PROVE LoginInv'
    BY <1>0, <2>3 DEF BeginLogin, LoginInv
  <2>4. CASE \/ \E t \in Tabs : LoginRefused(t)
             \/ LoginElsewhere \/ LogoutElsewhere
             \/ \E e \in expired..now : TimePasses(e)
    <3>1. UNCHANGED login /\ (disturbed => disturbed')
      BY <2>4 DEF LoginRefused, LoginElsewhere, LogoutElsewhere, TimePasses
    <3> QED BY <3>1 DEF AgreedInv, LoginInv
  <2> QED BY <2>1, <2>2, <2>3, <2>4 DEF Logins
<1>3. ASSUME ~disturbed' PROVE Agreed'
  <2>1. CASE LoginAnswered
    <3>0. hash = login.token /\ Refreshes = {}
      BY <1>3, <2>1 DEF LoginAnswered
    <3>1. /\ Refreshes = {} /\ cookie' = login.token /\ hash' = login.token
          /\ login # NoLogin
      BY <2>1, <3>0 DEF LoginAnswered, NoLogin
    <3>2. hash' # 0
      BY <3>1 DEF AgreedInv, LoginInv
    <3>3. Refreshes' = {}
      BY <1>1, <3>1 DEF Refreshes
    <3>4. \A r \in Requests : req'[r].step # "asking"
      BY <1>1, <3>1 DEF AskedInv
    <3> QED BY <3>1, <3>2, <3>3, <3>4 DEF Agreed
  <2>2. CASE ~LoginAnswered
    <3>1. ~disturbed /\ UNCHANGED <<hash, loggedIn>> /\ (LoginFails \/ UNCHANGED cookie)
      BY <1>3, <2>2
         DEF Logins, StoreLogin, LoginFails, LoginLost, BeginLogin, LoginRefused, LoginElsewhere,
             LogoutElsewhere, TimePasses
    <3>2. UNCHANGED cookie
      BY <3>1 DEF LoginFails, AgreedInv, LoginInv
    <3> QED BY <1>1, <3>1, <3>2, AgreedStays DEF AgreedInv, Agreed
  <2> QED BY <2>1, <2>2
<1> QED BY <1>2, <1>3 DEF AgreedInv

\* A change of the status leaves the token, or writes an older one back.
LEMMA AgreedStaff ==
  ASSUME SessionsTypeOK, AgreedInv, StaffSteps
  PROVE  AgreedInv'
<1>0. disturbed \in BOOLEAN
  BY TypeParts DEF JarOK
<1>1. UNCHANGED <<req, handler, cookie, loggedIn, login>> /\ (disturbed => disturbed')
  BY <1>0 DEF StaffSteps, LoadUser, SeeUser, SaveUser
<1>2. LoginInv'
  BY <1>1 DEF AgreedInv, LoginInv
<1>3. ASSUME ~disturbed' PROVE Agreed'
  <2>1. UNCHANGED hash /\ Agreed
    BY <1>0, <1>1, <1>3 DEF StaffSteps, LoadUser, SeeUser, SaveUser, AgreedInv
  <2> QED BY <1>1, <2>1, AgreedStays DEF Agreed
<1> QED BY <1>2, <1>3 DEF AgreedInv

\* What the browser sends and settles; the jar is read where a refresh begins.
LEMMA AgreedAnswers ==
  ASSUME SessionsTypeOK, AgreedInv, NEW r \in Requests, Send(r) \/ Answer(r)
  PROVE  AgreedInv'
<1>0. /\ req \in [Requests -> ReqRecords] /\ handler \in [Requests -> HandlerRecords]
      /\ disturbed \in BOOLEAN
  BY TypeParts DEF CallsOK, JarOK
<1>1. UNCHANGED <<hash, login>> /\ (disturbed => disturbed')
  BY <1>0 DEF Send, Answer, Served, Failed, Rejected, Queue, BeginRefresh
<1>2. LoginInv'
  BY <1>1 DEF AgreedInv, LoginInv
<1>3. ASSUME ~disturbed' PROVE Agreed'
  <2>0. Agreed
    BY <1>1, <1>3 DEF AgreedInv
  <2>1. hash # 0
    <3>1. TabOf[r] \in Tabs
      BY SessionsAssumption
    <3> QED BY <2>0, <3>1
         DEF Send, Answer, Served, Failed, Rejected, Queue, BeginRefresh, Unauthorized, Agreed
  <2>2. CASE BeginRefresh(r)
    <3>1. Refreshes = {}
      BY <1>3, <2>2 DEF BeginRefresh
    <3>2. /\ \A s \in Requests : req'[s].step = IF s = r THEN "asking" ELSE req[s].step
          /\ \A s \in Requests : handler'[s] = IF s = r THEN [step |-> "reading", token |-> cookie]
                                                       ELSE handler[s]
          /\ UNCHANGED cookie
      BY <1>0, <2>2 DEF BeginRefresh, ReqRecords
    <3>3. Refreshes' = {r} /\ handler'[r].step = "reading" /\ handler'[r].token = cookie
      BY <3>1, <3>2 DEF Refreshes
    <3>4. cookie = hash /\ \A s \in Requests : req[s].step # "asking"
      BY <2>0, <3>1 DEF Agreed
    <3> QED BY <1>1, <2>1, <3>2, <3>3, <3>4 DEF Agreed
  <2>3. CASE ~BeginRefresh(r)
    <3>1. UNCHANGED <<cookie, handler>>
      BY <1>3, <2>3 DEF Send, Answer, Served, Failed, Rejected, Queue
    <3>2. req'[r].step \in {"sent", "done", "queued"} /\ \A s \in Requests \ {r} : req'[s] = req[s]
      BY <1>0, <2>3 DEF Send, Answer, Served, Failed, Rejected, Queue, Settle, ReqRecords
    <3>3. req[r].step # "asking"
      BY <2>3 DEF Send, Answer, Served, Failed, Rejected, Queue, Unauthorized
    <3>4. \A s \in Requests : req'[s].step = "asking" <=> req[s].step = "asking"
      BY <3>2, <3>3
    <3> QED BY <1>1, <2>0, <2>1, <3>1, <3>4, AgreedStays
  <2> QED BY <2>2, <2>3
<1> QED BY <1>2, <1>3 DEF AgreedInv

\* The server's half of the one refresh under way.
LEMMA AgreedHandlers ==
  ASSUME SessionsTypeOK, AgreedInv, NEW r \in Requests, RefreshHandled(r)
  PROVE  AgreedInv'
<1>0. /\ handler \in [Requests -> HandlerRecords] /\ handler[r] \in HandlerRecords
      /\ now # 0
  BY TypeParts, Seconds DEF CallsOK
<1>1. UNCHANGED <<login, req, cookie, loggedIn, disturbed>> /\ r \in Refreshes
  BY DEF RefreshHandled, CheckRefresh, StoreRefresh, Refreshes
<1>2. LoginInv'
  BY <1>1 DEF AgreedInv, LoginInv
<1>3. ASSUME ~disturbed' PROVE Agreed'
  <2>0. Agreed /\ Refreshes = {r} /\ req[r].step = "asking" /\ hash # 0
    <3>1. Agreed
      BY <1>1, <1>3 DEF AgreedInv
    <3> QED BY <1>1, <3>1 DEF Agreed
  <2>1. CASE CheckRefresh(r)
    <3>1. handler[r].step = "reading" /\ handler[r].token = hash /\ cookie = hash
      BY <2>0, <2>1 DEF CheckRefresh, Agreed
    <3>2. /\ handler' = [handler EXCEPT ![r] = [step |-> "granted", token |-> now]]
          /\ UNCHANGED hash
      BY <1>0, <2>0, <2>1, <3>1 DEF CheckRefresh
    <3>3. Refreshes' = {r} /\ handler'[r].step = "granted" /\ handler'[r].token = now
      BY <1>0, <2>0, <3>2 DEF Refreshes
    <3> QED BY <1>0, <1>1, <2>0, <3>1, <3>2, <3>3 DEF Agreed
  <2>2. CASE StoreRefresh(r)
    <3>1. handler[r].step = "granted" /\ handler[r].token # 0 /\ hash' = handler[r].token
      BY <2>0, <2>2 DEF StoreRefresh, Agreed
    <3>2. handler' = [handler EXCEPT ![r] = [@ EXCEPT !.step = "stored"]]
      BY <1>0, <2>0, <2>2 DEF StoreRefresh
    <3>3. Refreshes' = {r} /\ handler'[r].step = "stored" /\ handler'[r].token = hash'
      BY <1>0, <2>0, <3>1, <3>2 DEF Refreshes, HandlerRecords
    <3> QED BY <1>1, <2>0, <3>1, <3>3 DEF Agreed
  <2> QED BY <2>1, <2>2 DEF RefreshHandled
<1> QED BY <1>2, <1>3 DEF AgreedInv

\* Its answer, or its failure.
LEMMA AgreedEnds ==
  ASSUME SessionsTypeOK, AgreedInv, NEW r \in Requests, RefreshEnds(r)
  PROVE  AgreedInv'
<1>0. /\ req \in [Requests -> ReqRecords] /\ handler \in [Requests -> HandlerRecords]
      /\ disturbed \in BOOLEAN
  BY TypeParts DEF CallsOK, JarOK
<1>1. /\ UNCHANGED <<login, hash>> /\ (disturbed => disturbed')
      /\ req[r].step = "asking"
  BY <1>0 DEF RefreshEnds, RefreshAnswered, RefreshFails, GiveUp
<1>2. LoginInv'
  BY <1>1 DEF AgreedInv, LoginInv
<1>3. ASSUME ~disturbed' PROVE Agreed'
  <2>0. Agreed /\ Refreshes = {r} /\ hash # 0
    <3>1. Agreed
      BY <1>1, <1>3 DEF AgreedInv
    <3> QED BY <1>1, <3>1 DEF Agreed
  <2>1. handler' = [handler EXCEPT ![r] = NoHandler]
    BY <1>3 DEF RefreshEnds, RefreshAnswered, RefreshFails, GiveUp
  <2>2. Refreshes' = {}
    BY <1>0, <2>0, <2>1 DEF Refreshes, NoHandler
  <2>3. ASSUME NEW s \in Requests PROVE req'[s].step # "asking"
    <3>1. s = r \/ req[s].step # "asking"
      BY <2>0 DEF Agreed
    <3>2. req[s] \in ReqRecords /\ req[r] \in ReqRecords
      BY <1>0
    <3>3. CASE RefreshAnswered(r)
      BY <3>1, <3>2, <3>3 DEF RefreshAnswered, Resumed, ReqRecords
    <3>4. CASE RefreshFails(r)
      <4>1. r \in Of(TabOf[r])
        BY DEF Of
      <4> QED BY <1>1, <3>1, <3>2, <3>4, <4>1 DEF RefreshFails, ReqRecords
    <3> QED BY <3>3, <3>4 DEF RefreshEnds
  <2>4. cookie' = hash
    <3>1. CASE RefreshAnswered(r)
      BY <2>0, <3>1 DEF RefreshAnswered, Agreed
    <3>2. CASE RefreshFails(r)
      <4>1. handler[r].step # "stored" /\ UNCHANGED cookie
        BY <1>3, <2>1, <3>2 DEF RefreshFails, GiveUp
      <4> QED BY <2>0, <4>1 DEF Agreed
    <3> QED BY <3>1, <3>2 DEF RefreshEnds
  <2> QED BY <1>1, <2>0, <2>2, <2>3, <2>4 DEF Agreed
<1> QED BY <1>2, <1>3 DEF AgreedInv

\* The server refuses a refresh (_refreshUser()) only when the cookie and the row
\* were parted: by a login, a logout, a refresh the client gave up on while the
\* server was at it, a second tab's, or an older token that setStatus() wrote
\* back.  Any numbers of tabs, requests and seconds, and any changes of status.
THEOREM RefusalsAreDisturbed == Spec => []RefusedOnlyIfDisturbed
<1>1. Init => AskedInv /\ AgreedInv
  BY DEF Init, AskedInv, AgreedInv, LoginInv, NoLogin, Agreed, Refreshes, NoHandler
<1>2. SessionsTypeOK /\ AskedInv /\ AgreedInv /\ [Next]_vars => AgreedInv'
  <2> SUFFICES ASSUME SessionsTypeOK, AskedInv, AgreedInv, [Next]_vars PROVE AgreedInv'
    OBVIOUS
  <2>1. CASE Next
    BY <2>1, NextCases, AgreedLogins, AgreedStaff, AgreedAnswers, AgreedHandlers, AgreedEnds
  <2>2. CASE UNCHANGED vars
    BY <2>2 DEF vars, AgreedInv, LoginInv, Agreed, Refreshes
  <2> QED BY <2>1, <2>2
<1>3. AgreedInv => RefusedOnlyIfDisturbed
  BY DEF AgreedInv, Agreed, Refreshes, RefusedOnlyIfDisturbed
<1> QED BY <1>1, <1>2, <1>3, AskedSteps, SessionsTypeCorrect, PTL DEF Spec
=============================================================================
