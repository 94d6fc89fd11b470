---------------------------- MODULE MCCatalogue ----------------------------
(***************************************************************************)
(* Small instances of Catalogue for TLC.                                   *)
(***************************************************************************)
EXTENDS Catalogue, TLC

CONSTANTS t1, t2, f1, r1, n1, n2

NoRoomChange == [number |-> None, type |-> None, price |-> None, status |-> None,
                 isActive |-> None, facilities |-> None]
NoOfferChange == [kind |-> None, value |-> None, start |-> None, end |-> None,
                  minimumNights |-> None, daysOfWeek |-> None, type |-> None,
                  room |-> None, isActive |-> None]

\* Every room starts with the same number and type.
SomeRooms == {[NoRoomChange EXCEPT !.number = n1, !.type = t1, !.price = 101]}

SomeRoomChanges ==
  {[NoRoomChange EXCEPT !.number = n2, !.type = t2],
   [NoRoomChange EXCEPT !.facilities = {f1}],
   [NoRoomChange EXCEPT !.facilities = {}]}

\* 200 off for rooms of a type, which an update turns into 200 percent, and
\* extends to a room or confines to it.
TwoHundredOff == [NoOfferChange EXCEPT
  !.kind = "FIXED_AMOUNT", !.value = 20000, !.start = 0, !.end = 1,
  !.daysOfWeek = {0, 1}, !.type = t1]

SomeOffers == {TwoHundredOff}

ForRoom == [NoOfferChange EXCEPT !.kind = "PERCENTAGE", !.room = r1]
SomeOfferChanges == {ForRoom, [ForRoom EXCEPT !.type = Null]}

OneStay == {[checkIn |-> 0, nights |-> 1]}

Interchangeable == Permutations(Handlers)
=============================================================================
