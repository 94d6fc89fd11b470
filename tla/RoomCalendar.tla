---------------------------- MODULE RoomCalendar ----------------------------
(***************************************************************************)
(* What the booking system promises about the rooms, with no transactions, *)
(* locks or handlers: every booking that holds a room holds it for a range *)
(* of nights, takes it in one indivisible step, and never takes a night    *)
(* that another booking of the same room holds.                            *)
(* The module Bookings is shown to implement this specification.           *)
(***************************************************************************)
EXTENDS Integers

CONSTANTS
  Rooms,       \* the rooms of the guest house
  Days,        \* the calendar days, numbered
  BookingIds,  \* the identities a booking may have
  NoClaim      \* what a booking that holds no room has instead of a stay

VARIABLE claim \* the stay each booking holds, or NoClaim

\* A stay is of one night at least.
Stay == {s \in [room: Rooms, checkIn: Days, checkOut: Days] :
           s.checkIn < s.checkOut}

\* The nights a stay occupies: the guest leaves on the morning of checkOut.
Nights(stay) == stay.checkIn .. (stay.checkOut - 1)

Conflict(s, t) == s.room = t.room /\ Nights(s) \cap Nights(t) # {}

Holders == {b \in BookingIds : claim[b] # NoClaim}

Init == claim = [b \in BookingIds |-> NoClaim]

\* A booking takes its nights when nobody holds one of them.
Take(b, stay) ==
  /\ b \notin Holders
  /\ \A other \in Holders : ~Conflict(claim[other], stay)
  /\ claim' = [claim EXCEPT ![b] = stay]

\* A booking that is rejected or cancelled gives its nights back.
GiveBack(b) ==
  /\ b \in Holders
  /\ claim' = [claim EXCEPT ![b] = NoClaim]

Next ==
  \E b \in BookingIds : GiveBack(b) \/ \E stay \in Stay : Take(b, stay)

Spec == Init /\ [][Next]_claim
=============================================================================
