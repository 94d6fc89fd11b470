------------------------------ MODULE Bookings ------------------------------
(***************************************************************************)
(* BookingsService (src/src/bookings/bookings.service.ts) over PostgreSQL. *)
(*                                                                         *)
(* Each concurrent HTTP request is a handler.  A handler takes one step    *)
(* per database statement whose place in the interleaving matters, so what *)
(* it read in one step may be stale when a later step uses it.  What it    *)
(* has written is its own (in call) until Commit publishes it; a statement *)
(* reads the rows committed when it runs (READ COMMITTED); a row lock, or  *)
(* a unique-index entry, is kept to the end of the transaction; a timeout, *)
(* an error or a crash rolls the transaction back (Abort).                 *)
(***************************************************************************)
EXTENDS Integers, Sequences, FiniteSets

CONSTANTS
  Rooms,       \* ids of the rooms that exist
  EditedRooms, \* bound: the rooms administrators write to
  RoomRows,    \* contents an administrator may write to a room
  BookingIds,  \* ids the database may give a booking
  Handlers,    \* requests that may be in progress at the same time
  Users,       \* customers who book with an account, and may cancel
  Guests,      \* party sizes customers ask for
  Stays,       \* bound: the ranges of days customers ask for
  LastDay,     \* bound: the last day a stay may reach
  LastToday,   \* bound: the last day the clock may reach
  YearOf,      \* the calendar year of each day
  NoRow,       \* no booking has this id
  NoCall,      \* the handler serves no request
  NoHandler,   \* nobody holds the lock
  NoUser,      \* a booking made without an account
  NoNumber     \* the booking number is not computed yet

Days == 0 .. LastDay

RoomStatus == {"AVAILABLE", "MAINTENANCE", "INACTIVE"}
RoomRow == [isActive: BOOLEAN, status: RoomStatus,
            maximumGuests: Nat, pricePerNight: Nat]

\* The enum has COMPLETED too, and no statement of the code writes it.
BookingStatus == {"PENDING", "APPROVED", "REJECTED", "CANCELLED"}
BLOCKING_STATUSES == {"PENDING", "APPROVED"}
CANCELLABLE_STATUSES == {"PENDING", "APPROVED"}

BookingNumber == [year: Nat, seq: Nat]

\* createdIn is the year of createdAt, all of it that the code ever asks for.
BookingRow == [room: Rooms, checkIn: Days, checkOut: Days,
               userId: Users \cup {NoUser}, pricePerNight: Nat,
               number: BookingNumber \cup {NoNumber}, createdIn: Nat,
               status: BookingStatus]

Operations == {"create", "approve", "reject", "cancelOwn", "cancelAsAdmin"}

\* A request in progress: the booking it is about and, in row, the booking it
\* is putting together (create) or the row it read at its start (the others).
Call == [op: Operations, id: BookingIds, row: BookingRow]

\* The status a request that is not a create writes, whatever it then finds.
Target == [approve |-> "APPROVED", reject |-> "REJECTED",
           cancelOwn |-> "CANCELLED", cancelAsAdmin |-> "CANCELLED"]

ASSUME CalendarAssumption == LastDay \in Nat /\ LastToday \in Days
ASSUME StaysAssumption == Stays \subseteq [checkIn: Days, checkOut: Days]
ASSUME YearAssumption ==
  /\ YearOf \in [Days -> Nat]
  /\ \A d, e \in Days : d <= e => YearOf[d] <= YearOf[e]
ASSUME RoomsAssumption ==
  /\ RoomRows \subseteq RoomRow /\ RoomRows # {}
  /\ EditedRooms \subseteq Rooms
ASSUME NothingAssumption ==
  /\ NoRow \notin BookingRow
  /\ NoRow \notin [room: Rooms, checkIn: Days, checkOut: Days]
  /\ NoCall \notin Call
  /\ NoHandler \notin Handlers
  /\ NoUser \notin Users
  /\ NoNumber \notin BookingNumber
ASSUME FiniteAssumption == IsFiniteSet(BookingIds)

VARIABLES
  today,     \* the server's current UTC day
  roomRow,   \* table rooms
  booking,   \* table bookings: the committed row of each id, or NoRow
  history,   \* table booking_status_history: the statuses recorded per booking
  roomLock,  \* the handler that holds each room's FOR UPDATE lock
  pc,        \* the statement each handler runs next
  call       \* the request each handler serves

vars == <<today, roomRow, booking, history, roomLock, pc, call>>
tables == <<booking, history>>

Init ==
  /\ today = 0
  /\ roomRow \in [Rooms -> RoomRows]
  /\ booking = [b \in BookingIds |-> NoRow]
  /\ history = [b \in BookingIds |-> <<>>]
  /\ roomLock = [r \in Rooms |-> NoHandler]
  /\ pc = [h \in Handlers |-> "idle"]
  /\ call = [h \in Handlers |-> NoCall]

-----------------------------------------------------------------------------
Exists(b) == booking[b] # NoRow
Blocking(b) == Exists(b) /\ booking[b].status \in BLOCKING_STATUSES

\* AvailabilityService.hasOverlappingBooking.
Overlaps(row, checkIn, checkOut) ==
  row.checkIn < checkOut /\ row.checkOut > checkIn

\* Mutant: a request waiting for approval does not hold the room.
HasOverlappingBooking_ApprovedOnly(room, checkIn, checkOut, exclude) ==
  \E b \in BookingIds \ exclude :
    /\ Exists(b) /\ booking[b].status = "APPROVED"
    /\ booking[b].room = room
    /\ Overlaps(booking[b], checkIn, checkOut)

HasOverlappingBooking(room, checkIn, checkOut, exclude) ==
  \E b \in BookingIds \ exclude :
    /\ Blocking(b)
    /\ booking[b].room = room
    /\ Overlaps(booking[b], checkIn, checkOut)

\* generateBookingNumber: one more than the bookings created this year.
CreatedIn(year) == {b \in BookingIds : Exists(b) /\ booking[b].createdIn = year}
\* Mutant: rejected and cancelled bookings are not counted.
NextNumber_CountsBlocking ==
  [year |-> YearOf[today],
   seq |-> Cardinality({b \in CreatedIn(YearOf[today]) : Blocking(b)}) + 1]

NextNumber ==
  [year |-> YearOf[today], seq |-> Cardinality(CreatedIn(YearOf[today])) + 1]

Bookable(room, guests) ==
  /\ room.isActive
  /\ room.status \notin {"INACTIVE", "MAINTENANCE"}
  /\ guests <= room.maximumGuests

ValidDateRange(checkIn, checkOut) == checkIn < checkOut /\ today <= checkIn

\* Mutant: a stay that ends on the day another begins is in its way.
FindOverlappingRoomIds_Touching(rooms, checkIn, checkOut) ==
  {booking[b].room : b \in {b \in BookingIds :
     /\ Blocking(b) /\ booking[b].room \in rooms
     /\ booking[b].checkIn <= checkOut /\ booking[b].checkOut >= checkIn}}

FindOverlappingRoomIds(rooms, checkIn, checkOut) ==
  {booking[b].room : b \in {b \in BookingIds :
     /\ Blocking(b) /\ booking[b].room \in rooms
     /\ Overlaps(booking[b], checkIn, checkOut)}}

\* GET /availability, for a party and a range of days that passes the check.
SearchAvailableRooms(checkIn, checkOut, guests) ==
  LET candidates == {r \in Rooms : /\ roomRow[r].isActive
                                   /\ roomRow[r].status = "AVAILABLE"
                                   /\ guests <= roomRow[r].maximumGuests}
  IN  candidates \ FindOverlappingRoomIds(candidates, checkIn, checkOut)

\* GET /rooms/:id/availability, likewise.
IsRoomAvailable(r, checkIn, checkOut) ==
  /\ roomRow[r].isActive /\ roomRow[r].status = "AVAILABLE"
  /\ ~HasOverlappingBooking(r, checkIn, checkOut, {})

\* The id the database gives a new row is used by nothing else.
Fresh(b) ==
  /\ ~Exists(b)
  /\ \A h \in Handlers : call[h] # NoCall => call[h].id # b

\* Handler h has written booking b and not committed yet.
HasWritten(h, b) == pc[h] = "commit" /\ call[h].id = b

Serve(h, request, statement) ==
  /\ call' = [call EXCEPT ![h] = request]
  /\ pc' = [pc EXCEPT ![h] = statement]

GoTo(h, statement) == pc' = [pc EXCEPT ![h] = statement]

\* Mutants: the lock outlives the transaction; the request is not cleared.
Finish_KeepsLock(h) == Serve(h, NoCall, "idle") /\ UNCHANGED roomLock
Finish_KeepsCall(h) ==
  /\ roomLock' = [r \in Rooms |->
                    IF roomLock[r] = h THEN NoHandler ELSE roomLock[r]]
  /\ GoTo(h, "idle") /\ UNCHANGED call

\* The end of a transaction, and with it of its room lock and of the request.
Finish(h) ==
  /\ roomLock' = [r \in Rooms |->
                    IF roomLock[r] = h THEN NoHandler ELSE roomLock[r]]
  /\ Serve(h, NoCall, "idle")

RollBack(h) == Finish(h) /\ UNCHANGED <<today, roomRow, tables>>

-----------------------------------------------------------------------------
\* create, up to the unlocked read of the room: the request passes the date
\* check and finds the room open and large enough.  (A request that fails a
\* check of its first statement changes nothing and is no step.)
StartCreate(h, b, r, stay, user, guests) ==
  /\ pc[h] = "idle"
  /\ Fresh(b)
  /\ ValidDateRange(stay.checkIn, stay.checkOut)
  /\ Bookable(roomRow[r], guests)
  /\ Serve(h, [op |-> "create", id |-> b,
               row |-> [room |-> r, checkIn |-> stay.checkIn,
                        checkOut |-> stay.checkOut, userId |-> user,
                        pricePerNight |-> roomRow[r].pricePerNight,
                        number |-> NoNumber, createdIn |-> YearOf[today],
                        status |-> "PENDING"]], "lock")
  /\ UNCHANGED <<today, roomRow, tables, roomLock>>

\* The first statement of a request about an existing booking: what it reads
\* is kept in the request, and none of it is read again.
StartOn(h, b, op, statement) ==
  /\ pc[h] = "idle"
  /\ Serve(h, [op |-> op, id |-> b, row |-> booking[b]], statement)
  /\ UNCHANGED <<today, roomRow, tables, roomLock>>

\* Mutants: approve trusts the check made at creation; approve refuses only
\* what was rejected.
StartApprove_Unchecked(h, b) ==
  /\ Exists(b)
  /\ booking[b].status = "PENDING"
  /\ StartOn(h, b, "approve", "write")

StartApprove_AnyButRejected(h, b) ==
  /\ Exists(b)
  /\ booking[b].status # "REJECTED"
  /\ StartOn(h, b, "approve", "lock")

StartApprove(h, b) ==
  /\ Exists(b)
  /\ booking[b].status = "PENDING"
  /\ StartOn(h, b, "approve", "lock")

StartReject(h, b) ==
  /\ Exists(b)
  /\ booking[b].status = "PENDING"
  /\ StartOn(h, b, "reject", "write")

\* cancelOwn and assertCancellable.
StartCancelOwn(h, b, user) ==
  /\ Exists(b)
  /\ booking[b].userId = user
  /\ booking[b].status \in CANCELLABLE_STATUSES
  /\ booking[b].checkIn > today
  /\ StartOn(h, b, "cancelOwn", "write")

StartCancelAsAdmin(h, b) ==
  /\ Exists(b)
  /\ booking[b].status \in CANCELLABLE_STATUSES
  /\ StartOn(h, b, "cancelAsAdmin", "write")

\* Mutant: a SELECT without FOR UPDATE.
LockRoom_NoWait(h) ==
  /\ pc[h] = "lock"
  /\ roomLock' = [roomLock EXCEPT ![call[h].row.room] = h]
  /\ GoTo(h, "check")
  /\ UNCHANGED <<today, roomRow, tables, call>>

\* lockRoomForUpdate: waits until no other transaction holds the room.
LockRoom(h) ==
  /\ pc[h] = "lock"
  /\ roomLock[call[h].row.room] = NoHandler
  /\ roomLock' = [roomLock EXCEPT ![call[h].row.room] = h]
  /\ GoTo(h, "check")
  /\ UNCHANGED <<today, roomRow, tables, call>>

\* The overlap check of create and of approve, which leaves out the booking
\* it approves.
RoomTaken(h) ==
  LET row == call[h].row
  IN  HasOverlappingBooking(row.room, row.checkIn, row.checkOut,
                            IF call[h].op = "approve" THEN {call[h].id} ELSE {})

PassOverlapCheck(h) ==
  /\ pc[h] = "check"
  /\ ~RoomTaken(h)
  /\ GoTo(h, IF call[h].op = "create" THEN "number" ELSE "write")
  /\ UNCHANGED <<today, roomRow, tables, roomLock, call>>

FailOverlapCheck(h) ==
  /\ pc[h] = "check"
  /\ RoomTaken(h)
  /\ RollBack(h)

NumberBooking(h) ==
  /\ pc[h] = "number"
  /\ call' = [call EXCEPT ![h].row.number = NextNumber]
  /\ GoTo(h, "write")
  /\ UNCHANGED <<today, roomRow, tables, roomLock>>

NumberTaken(number) == \E b \in BookingIds : Exists(b) /\ booking[b].number = number

\* Mutant: the row is dated when the request starts.
InsertBooking_DatedAtStart(h) ==
  /\ pc[h] = "write"
  /\ call[h].op = "create"
  /\ ~NumberTaken(call[h].row.number)
  /\ \A other \in Handlers :
       pc[other] = "commit" /\ call[other].op = "create"
         => call[other].row.number # call[h].row.number
  /\ GoTo(h, "commit")
  /\ UNCHANGED <<today, roomRow, tables, roomLock, call>>

\* The INSERT of the booking and of its first history row.  While another
\* transaction has inserted the same number, the unique index makes it wait.
InsertBooking(h) ==
  /\ pc[h] = "write"
  /\ call[h].op = "create"
  /\ ~NumberTaken(call[h].row.number)
  /\ \A other \in Handlers :
       pc[other] = "commit" /\ call[other].op = "create"
         => call[other].row.number # call[h].row.number
  /\ call' = [call EXCEPT ![h].row.createdIn = YearOf[today]]
  /\ GoTo(h, "commit")
  /\ UNCHANGED <<today, roomRow, tables, roomLock>>

\* The unique index refuses the number (P2002): the transaction is over and
\* the client is answered 409.
InsertCollides(h) ==
  /\ pc[h] = "write"
  /\ call[h].op = "create"
  /\ NumberTaken(call[h].row.number)
  /\ RollBack(h)

\* The UPDATE of the status, whatever it is by now, and its history row.  It
\* waits for a transaction that has written the same booking.
UpdateBooking(h) ==
  /\ pc[h] = "write"
  /\ call[h].op # "create"
  /\ \A other \in Handlers : ~HasWritten(other, call[h].id)
  /\ GoTo(h, "commit")
  /\ UNCHANGED <<today, roomRow, tables, roomLock, call>>

\* The booking row that request c leaves behind.
Written(c) ==
  IF c.op = "create" THEN c.row
  ELSE [booking[c.id] EXCEPT !.status = Target[c.op]]

\* Mutant: a cancellation writes no history row.
Commit_SilentCancel(h) ==
  /\ pc[h] = "commit"
  /\ LET c == call[h]
     IN  /\ booking' = [booking EXCEPT ![c.id] = Written(c)]
         /\ history' = IF Written(c).status = "CANCELLED" THEN history
                       ELSE [history EXCEPT ![c.id] = Append(@, Written(c).status)]
  /\ Finish(h)
  /\ UNCHANGED <<today, roomRow>>

Commit(h) ==
  /\ pc[h] = "commit"
  /\ LET c == call[h]
     IN  /\ booking' = [booking EXCEPT ![c.id] = Written(c)]
         /\ history' = [history EXCEPT ![c.id] = Append(@, Written(c).status)]
  /\ Finish(h)
  /\ UNCHANGED <<today, roomRow>>

\* A transaction that times out, fails or dies with its process.
Abort(h) == pc[h] # "idle" /\ RollBack(h)

-----------------------------------------------------------------------------
\* RoomsService.update and remove: one UPDATE of the room's row, which waits
\* for the transaction that has it locked.
WriteRoom(r, row) ==
  /\ roomLock[r] = NoHandler
  /\ roomRow' = [roomRow EXCEPT ![r] = row]
  /\ UNCHANGED <<today, tables, roomLock, pc, call>>

UpdateRoom(r) == \E row \in RoomRows : WriteRoom(r, row)

RemoveRoom(r) ==
  WriteRoom(r, [roomRow[r] EXCEPT !.isActive = FALSE, !.status = "INACTIVE"])

NextDay ==
  /\ today < LastToday
  /\ today' = today + 1
  /\ UNCHANGED <<roomRow, tables, roomLock, pc, call>>

Start(h) ==
  \E b \in BookingIds :
    \/ \E r \in Rooms, stay \in Stays, user \in Users \cup {NoUser},
          guests \in Guests : StartCreate(h, b, r, stay, user, guests)
    \/ StartApprove(h, b)
    \/ StartReject(h, b)
    \/ \E user \in Users : StartCancelOwn(h, b, user)
    \/ StartCancelAsAdmin(h, b)

\* The steps a started request takes by itself.
Proceed(h) ==
  \/ LockRoom(h)
  \/ PassOverlapCheck(h) \/ FailOverlapCheck(h)
  \/ NumberBooking(h)
  \/ InsertBooking(h) \/ InsertCollides(h) \/ UpdateBooking(h)
  \/ Commit(h)

Next ==
  \/ \E h \in Handlers : Start(h) \/ Proceed(h) \/ Abort(h)
  \/ \E r \in EditedRooms : UpdateRoom(r) \/ RemoveRoom(r)
  \/ NextDay

Spec == Init /\ [][Next]_vars

\* A running process takes its next step, and PostgreSQL grants a waiting
\* statement its lock in turn: strong fairness, for the lock may be taken and
\* released any number of times meanwhile.  Nothing makes a request start, a
\* transaction fail, an administrator act or the day end.
Fairness == \A h \in Handlers : SF_vars(Proceed(h))
FairSpec == Spec /\ Fairness
-----------------------------------------------------------------------------
\* The tables, locks and requests hold what their columns and fields can hold,
\* and a handler is idle exactly when it serves no request.
TypeOK ==
  /\ today \in Days
  /\ roomRow \in [Rooms -> RoomRow]
  /\ booking \in [BookingIds -> BookingRow \cup {NoRow}]
  /\ history \in [BookingIds -> Seq(BookingStatus)]
  /\ roomLock \in [Rooms -> Handlers \cup {NoHandler}]
  /\ pc \in [Handlers -> {"idle", "lock", "check", "number", "write", "commit"}]
  /\ call \in [Handlers -> Call \cup {NoCall}]
  /\ \A h \in Handlers : pc[h] = "idle" <=> call[h] = NoCall

Nights(row) == row.checkIn .. (row.checkOut - 1)

\* No night of a room is promised to two bookings: whatever requests run at the
\* same time, the room lock and the overlap check of create and approve keep
\* every two PENDING or APPROVED bookings of a room apart.
NoDoubleBooking ==
  \A a, b \in BookingIds :
    a # b /\ Blocking(a) /\ Blocking(b) /\ booking[a].room = booking[b].room
      => Nights(booking[a]) \cap Nights(booking[b]) = {}

\* The search, the check of one room and create are three tests of one thing: a
\* party is shown exactly the rooms that a create of the same moment would find
\* open, large enough and free, and no other room is said to be available.
SearchAgreesWithCreate ==
  \A stay \in Stays, guests \in Guests, r \in Rooms :
    ValidDateRange(stay.checkIn, stay.checkOut) =>
      LET free == ~HasOverlappingBooking(r, stay.checkIn, stay.checkOut, {})
      IN  /\ r \in SearchAvailableRooms(stay.checkIn, stay.checkOut, guests)
               <=> Bookable(roomRow[r], guests) /\ free
          /\ IsRoomAvailable(r, stay.checkIn, stay.checkOut)
               <=> Bookable(roomRow[r], 0) /\ free

SameStay(s, t) ==
  s.room = t.room /\ s.checkIn = t.checkIn /\ s.checkOut = t.checkOut

\* Handler h wants to hold a room's nights, and has come to one of the steps.
ClaimsRoom(h, steps) ==
  /\ call[h] # NoCall /\ call[h].op \in {"create", "approve"}
  /\ pc[h] \in steps

StepFitsOperation(h) ==
  /\ pc[h] \in {"lock", "check"} => call[h].op \in {"create", "approve"}
  /\ pc[h] = "number" => call[h].op = "create"

\* From the lock to the end of its transaction a claimant holds its room.
ClaimantHoldsRoom(h) ==
  ClaimsRoom(h, {"check", "number", "write", "commit"})
    => roomLock[call[h].row.room] = h

\* What a request about a booking read of its stay is still so: only the
\* status of a booking ever changes.
StayReadIsCurrent(h) ==
  call[h] # NoCall /\ call[h].op # "create"
    => Exists(call[h].id) /\ SameStay(booking[call[h].id], call[h].row)

NewIdIsUnused(h) ==
  call[h] # NoCall /\ call[h].op = "create"
    => /\ ~Exists(call[h].id)
       /\ \A g \in Handlers \ {h} : call[g] # NoCall => call[g].id # call[h].id

\* A claimant that passed the overlap check would pass it again at any moment
\* up to its commit.
CheckStaysGood(h) ==
  ClaimsRoom(h, {"number", "write", "commit"})
    => ~HasOverlappingBooking(call[h].row.room, call[h].row.checkIn,
                              call[h].row.checkOut, {call[h].id})

RequestIsSound(h) ==
  /\ StepFitsOperation(h)
  /\ ClaimantHoldsRoom(h)
  /\ StayReadIsCurrent(h)
  /\ NewIdIsUnused(h)
  /\ CheckStaysGood(h)
  /\ call[h] # NoCall => call[h].row.checkIn < call[h].row.checkOut

\* NoDoubleBooking in the words of the code's own overlap test.
BookingsApart ==
  \A b \in BookingIds :
    Blocking(b) => ~HasOverlappingBooking(booking[b].room, booking[b].checkIn,
                                          booking[b].checkOut, {b})

\* Why no night is sold twice, as an invariant that every step preserves: the
\* outcome of the overlap check stays good from the check to the commit, for
\* whoever could spoil it needs the lock that the claimant holds.
CalendarInvariant ==
  /\ TypeOK
  /\ \A h \in Handlers : RequestIsSound(h)
  /\ \A b \in BookingIds : Exists(b) => booking[b].checkIn < booking[b].checkOut
  /\ BookingsApart

\* The number generateBookingNumber would compute now is not in use, at any
\* moment and over the turn of a year.  Otherwise every create would fail with
\* P2002, and none of them would change the count that makes them fail.
NextNumberFree == ~NumberTaken(NextNumber)

\* The history of a booking tells its life: it starts with one PENDING, no
\* later entry is PENDING, and the last one is the status the booking has.
AuditTrail ==
  \A b \in BookingIds :
    LET h == history[b] IN
      IF Exists(b)
      THEN /\ h # <<>>
           /\ \A i \in 1 .. Len(h) : h[i] = "PENDING" <=> i = 1
           /\ h[Len(h)] = booking[b].status
      ELSE h = <<>>

\* A number of its own year is among those that the count of that year covers,
\* and more is allowed for the booking that is being added.
NumberCounted(number, more) ==
  number.seq <= Cardinality(CreatedIn(number.year)) + more

\* A create writes PENDING; its number was the next one of a year when it was
\* computed, and its row may fall into a later year.
CreateIsSound(h) ==
  call[h] # NoCall /\ call[h].op = "create" =>
    LET row == call[h].row
    IN  /\ row.status = "PENDING"
        /\ pc[h] \in {"write", "commit"} =>
             /\ row.number \in BookingNumber /\ row.number.year <= YearOf[today]
             /\ NumberCounted(row.number, 1)
        /\ pc[h] = "commit" =>
             row.number.year <= row.createdIn /\ row.createdIn <= YearOf[today]

NumberIsSound(b) ==
  Exists(b) =>
    LET number == booking[b].number
    IN  /\ number \in BookingNumber
        /\ number.year <= booking[b].createdIn /\ booking[b].createdIn <= YearOf[today]
        /\ number.year = booking[b].createdIn => NumberCounted(number, 0)

\* Why the records are right, as an invariant that every step preserves, given
\* CalendarInvariant: counts never fall, and a row that is counted in a later year
\* than its number names is not in the way of the numbers to come.
RecordsInvariant ==
  /\ AuditTrail
  /\ \A h \in Handlers : CreateIsSound(h)
  /\ \A b \in BookingIds : NumberIsSound(b)

\* Nobody is working on booking b, and no status lets a request touch it.
Settled(b) ==
  /\ Exists(b)
  /\ booking[b].status \notin CANCELLABLE_STATUSES
  /\ \A h \in Handlers : call[h] # NoCall => call[h].id # b

\* A rejected or cancelled booking that the requests in progress have let go of
\* stays as it is for ever: no handler's first check lets a request back in.
SettledStays ==
  [][\A b \in BookingIds :
       Settled(b) => Settled(b)' /\ booking'[b] = booking[b]]_vars

\* The nights booking b holds, if any.
Claim(b) ==
  IF Blocking(b)
  THEN [room |-> booking[b].room, checkIn |-> booking[b].checkIn,
        checkOut |-> booking[b].checkOut]
  ELSE NoRow

\* Bookings implements RoomCalendar: taking and giving back the nights of a
\* room is indivisible, although create and approve take five statements.
Calendar == INSTANCE RoomCalendar WITH
  NoClaim <- NoRow, claim <- [b \in BookingIds |-> Claim(b)]
ImplementsCalendar == Calendar!Spec

\* Every request comes to an end without the help of a timeout: the room lock,
\* the row lock and the wait on the unique index are never waited for in a
\* circle.
RequestsFinish == \A h \in Handlers : pc[h] # "idle" ~> pc[h] = "idle"

\* "Statuses from which a booking can still be cancelled" are PENDING and
\* APPROVED, and only a PENDING booking can be approved or rejected; so a status
\* moves along these pairs only.  The code checks the status it read before it
\* waited for a lock, and writes over whatever another request has committed.
LegalMoves ==
  {<<"PENDING", "APPROVED">>, <<"PENDING", "REJECTED">>,
   <<"PENDING", "CANCELLED">>, <<"APPROVED", "CANCELLED">>}
StatusMovesLegally ==
  [][\A b \in BookingIds :
       Exists(b) /\ booking'[b] # booking[b]
         => <<booking[b].status, booking'[b].status>> \in LegalMoves]_vars

\* "subtotal = live room.pricePerNight x nights", in a transaction that "first
\* takes a row lock on the room": a booking is created open and at the price the
\* room has then.  The code reads the room before it waits for the lock.
BookedAtLivePrice ==
  [][\A b \in BookingIds :
       ~Exists(b) /\ Exists(b)'
         => booking'[b].pricePerNight = roomRow[booking'[b].room].pricePerNight]_vars
=============================================================================
