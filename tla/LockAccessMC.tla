---------------------------- MODULE LockAccessMC ----------------------------
(* Bookings for the model checker.  Endpoints are multiples of 3 so that the *)
(* capacity test's EPSILON falls strictly between two of them.               *)
EXTENDS LockAccess, TLC

\* Two overlapping bookings of code A, and B back to back with the first.
OverlapCodes == ("i1" :> "A") @@ ("i2" :> "A") @@ ("i3" :> "B")
OverlapLow   == ("i1" :> 3) @@ ("i2" :> 3) @@ ("i3" :> 6)
OverlapHigh  == ("i1" :> 6) @@ ("i2" :> 9) @@ ("i3" :> 9)

\* Three codes: two long stays and a short one strictly inside both.
NestedCodes == ("i1" :> "A") @@ ("i2" :> "B") @@ ("i3" :> "C")
NestedLow   == ("i1" :> 0) @@ ("i2" :> 0) @@ ("i3" :> 3)
NestedHigh  == ("i1" :> 9) @@ ("i2" :> 9) @@ ("i3" :> 6)

\* Two bookings of one code, the first ending inside the second.
SameCodes == ("i1" :> "A") @@ ("i2" :> "A")
SameLow   == ("i1" :> 0) @@ ("i2" :> 0)
SameHigh  == ("i1" :> 3) @@ ("i2" :> 6)

\* Two bookings of two codes, overlapping.
TwoCodes == ("i1" :> "A") @@ ("i2" :> "B")
TwoLow   == ("i1" :> 0) @@ ("i2" :> 0)
TwoHigh  == ("i1" :> 3) @@ ("i2" :> 6)
=============================================================================
