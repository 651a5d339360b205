----------------------------- MODULE LoginPromise -----------------------------
(***************************************************************************)
(* What the one-time codes promise about a customer's session: only a code *)
(* gives one, Limit times at most, each login takes the place of the last, *)
(* and what a logout has ended stays ended, unless an update by staff that *)
(* loaded the row earlier writes back a session that there has been.       *)
(***************************************************************************)
EXTENDS Naturals

CONSTANTS Codes, Limit, NoSession

VARIABLES
    logins,         \* logins[n]: sessions that code n has given
    session,        \* the code whose login the stored session is from
    restored        \* an update has written older columns back

vars == <<logins, session, restored>>

Init ==
    /\ logins = [n \in Codes |-> 0]
    /\ session = NoSession
    /\ restored = FALSE

Login(n) ==
    /\ logins[n] < Limit
    /\ logins' = [logins EXCEPT ![n] = @ + 1]
    /\ session' = n
    /\ UNCHANGED restored

Logout ==
    /\ session' = NoSession
    /\ UNCHANGED <<logins, restored>>

WriteBack ==
    /\ restored' = TRUE
    /\ session' \in {session, NoSession} \cup {n \in Codes : logins[n] > 0}
    /\ UNCHANGED logins

Next == (\E n \in Codes : Login(n)) \/ Logout \/ WriteBack

Safety == Init /\ [][Next]_vars
===============================================================================
