----------------------------- MODULE MCBookings -----------------------------
(***************************************************************************)
(* Small instances of Bookings for TLC.                                    *)
(***************************************************************************)
EXTENDS Bookings, TLC

\* Rooms as an administrator may leave them: for one guest, at a price.
OpenAt(price) == [isActive |-> TRUE, status |-> "AVAILABLE",
                  maximumGuests |-> 1, pricePerNight |-> price]
OneOpenRoom == {OpenAt(1)}
TwoPrices == {OpenAt(1), OpenAt(2)}

\* Customers may ask for any days, in any order; or for the night of day 1.
AnyStay == [checkIn: Days, checkOut: Days]
OneNight == {[checkIn |-> 1, checkOut |-> 2]}

\* The first day is the last one of its year.
TurnOfYear == [d \in Days |-> IF d = 0 THEN 0 ELSE 1]
OneYear == [d \in Days |-> 0]

Interchangeable ==
  Permutations(Handlers) \cup Permutations(BookingIds) \cup Permutations(Rooms)
=============================================================================
