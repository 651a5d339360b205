---------------------------- MODULE MatchingPromise ----------------------------
(***************************************************************************)
(* What the matching engine promises a customer about a listing, however   *)
(* often its job is repeated: to be told again only while fewer than Limit *)
(* messages are noted or about to be.  A message whose note is lost does   *)
(* not count, so it may be sent again; a note that is made stays.          *)
(***************************************************************************)
EXTENDS FiniteSets, Naturals

CONSTANTS Customers, Listings, Messages, Limit

VARIABLES
    told,       \* told[<<c, l>>]: messages about l that reached c
    noted,      \* those of them the log holds as sent
    lost        \* those whose note is lost

vars == <<told, noted, lost>>

Nothing == [p \in Customers \X Listings |-> {}]

Init == told = Nothing /\ noted = Nothing /\ lost = Nothing

\* The answer to a message may be lost at once.
Tell(p, n) ==
    /\ n \notin told[p]
    /\ Cardinality(told[p] \ lost[p]) < Limit
    /\ told' = [told EXCEPT ![p] = @ \cup {n}]
    /\ lost' = lost \/ lost' = [lost EXCEPT ![p] = @ \cup {n}]
    /\ UNCHANGED noted

Note(p, n) ==
    /\ n \in told[p] \ (noted[p] \cup lost[p])
    /\ noted' = [noted EXCEPT ![p] = @ \cup {n}]
    /\ UNCHANGED <<told, lost>>

Lose(p, n) ==
    /\ n \in told[p] \ (noted[p] \cup lost[p])
    /\ lost' = [lost EXCEPT ![p] = @ \cup {n}]
    /\ UNCHANGED <<told, noted>>

Next ==
    \E p \in Customers \X Listings, n \in Messages :
        Tell(p, n) \/ Note(p, n) \/ Lose(p, n)

Safety == Init /\ [][Next]_vars
=============================================================================
