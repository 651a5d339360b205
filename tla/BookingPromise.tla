--------------------------- MODULE BookingPromise ---------------------------
(***************************************************************************)
(* What the payment flow promises about bookings: a booking is confirmed   *)
(* only after a gateway has charged the customer for it, stays confirmed,  *)
(* and is confirmed eventually once charged.                               *)
(***************************************************************************)
CONSTANT Bookings

VARIABLES charged, confirmed

vars == <<charged, confirmed>>

Init == charged = {} /\ confirmed = {}

Charge(b) ==
    /\ charged' = charged \cup {b}
    /\ UNCHANGED confirmed

Confirm(b) ==
    /\ b \in charged
    /\ confirmed' = confirmed \cup {b}
    /\ UNCHANGED charged

Next == \E b \in Bookings : Charge(b) \/ Confirm(b)

Safety == Init /\ [][Next]_vars

Spec == Safety /\ \A b \in Bookings : WF_vars(Confirm(b))
=============================================================================
