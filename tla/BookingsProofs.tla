--------------------------- MODULE BookingsProofs ---------------------------
(***************************************************************************)
(* Proofs about Bookings, for any rooms, bookings, handlers and calendar.  *)
(***************************************************************************)
EXTENDS Bookings, FiniteSetTheorems, TLAPS

LEMMA InitInvariant == Init => CalendarInvariant
  <1> SUFFICES ASSUME Init PROVE CalendarInvariant
    OBVIOUS
  <1> USE DEF Init
  <1>1. TypeOK
    BY CalendarAssumption, RoomsAssumption DEF TypeOK, Days
  <1>2. \A b \in BookingIds : ~Exists(b)
    BY DEF Exists
  <1>3. \A h \in Handlers : call[h] = NoCall /\ pc[h] = "idle"
    OBVIOUS
  <1> QED
    BY <1>1, <1>2, <1>3
    DEF CalendarInvariant, RequestIsSound, StepFitsOperation, ClaimantHoldsRoom,
        ClaimsRoom, StayReadIsCurrent, NewIdIsUnused, CheckStaysGood,
        BookingsApart, Blocking

\* The room write and the turn of the day touch nothing that the invariant,
\* beyond the types, speaks of.
LEMMA EnvironmentStep ==
  ASSUME CalendarInvariant,
         NextDay \/ \E r \in EditedRooms : UpdateRoom(r) \/ RemoveRoom(r)
  PROVE  CalendarInvariant'
  <1>1. UNCHANGED <<booking, history, roomLock, pc, call>>
    BY DEF NextDay, UpdateRoom, RemoveRoom, WriteRoom, tables
  <1>2. TypeOK'
    <2>1. today' \in Days
      <3>1. today \in Days /\ LastToday \in Days /\ LastDay \in Nat
        BY CalendarAssumption DEF CalendarInvariant, TypeOK
      <3>2. today' = today \/ (today < LastToday /\ today' = today + 1)
        BY DEF NextDay, UpdateRoom, RemoveRoom, WriteRoom
      <3> QED
        BY <3>1, <3>2 DEF Days
    <2>2. roomRow' \in [Rooms -> RoomRow]
      <3>1. CASE NextDay
        BY <3>1 DEF CalendarInvariant, TypeOK, NextDay
      <3>2. ASSUME NEW r \in EditedRooms, UpdateRoom(r)
            PROVE  roomRow' \in [Rooms -> RoomRow]
        BY <3>2, RoomsAssumption DEF CalendarInvariant, TypeOK, UpdateRoom, WriteRoom
      <3>3. ASSUME NEW r \in EditedRooms, RemoveRoom(r)
            PROVE  roomRow' \in [Rooms -> RoomRow]
        <4>1. roomRow[r] \in RoomRow
          BY RoomsAssumption DEF CalendarInvariant, TypeOK
        <4>2. [roomRow[r] EXCEPT !.isActive = FALSE, !.status = "INACTIVE"] \in RoomRow
          BY <4>1 DEF RoomRow, RoomStatus
        <4> QED
          BY <3>3, <4>2 DEF CalendarInvariant, TypeOK, RemoveRoom, WriteRoom
      <3> QED
        BY <3>1, <3>2, <3>3
    <2> QED
      BY <1>1, <2>1, <2>2 DEF CalendarInvariant, TypeOK
  <1> QED
    BY <1>1, <1>2
    DEF CalendarInvariant, RequestIsSound, StepFitsOperation, ClaimantHoldsRoom,
        ClaimsRoom, StayReadIsCurrent, NewIdIsUnused, CheckStaysGood,
        BookingsApart, Blocking, HasOverlappingBooking, Overlaps, Exists, SameStay

-----------------------------------------------------------------------------
\* A step of handler h that publishes nothing, takes no lock of another handler
\* and leaves the other requests alone keeps the invariant if what it makes of
\* h's own request is sound and, where it is a new create, has an id of its own.
LEMMA PrivateStep ==
  ASSUME CalendarInvariant, TypeOK', NEW h \in Handlers,
         UNCHANGED booking,
         \A g \in Handlers \ {h} : pc'[g] = pc[g] /\ call'[g] = call[g],
         \A g \in Handlers \ {h}, r \in Rooms : roomLock[r] = g => roomLock'[r] = g,
         RequestIsSound(h)',
         \A g \in Handlers \ {h} :
           call[g] # NoCall /\ call[g].op = "create" /\ call'[h] # NoCall
             => call'[h].id # call[g].id
  PROVE  CalendarInvariant'
  <1>1. ASSUME NEW g \in Handlers \ {h} PROVE RequestIsSound(g)'
    <2>1. RequestIsSound(g) /\ pc'[g] = pc[g] /\ call'[g] = call[g]
      BY DEF CalendarInvariant
    <2>2. StepFitsOperation(g)'
      BY <2>1 DEF RequestIsSound, StepFitsOperation
    <2>3. ClaimantHoldsRoom(g)'
      <3>1. call[g] # NoCall => call[g].row.room \in Rooms
        BY DEF CalendarInvariant, TypeOK, Call, BookingRow
      <3> QED
        BY <2>1, <3>1 DEF RequestIsSound, ClaimantHoldsRoom, ClaimsRoom
    <2>4. StayReadIsCurrent(g)'
      BY <2>1 DEF RequestIsSound, StayReadIsCurrent, Exists, SameStay
    <2>5. NewIdIsUnused(g)'
      BY <2>1 DEF RequestIsSound, NewIdIsUnused, Exists
    <2>6. CheckStaysGood(g)'
      BY <2>1 DEF RequestIsSound, CheckStaysGood, ClaimsRoom,
                  HasOverlappingBooking, Blocking, Exists, Overlaps
    <2> QED
      BY <2>1, <2>2, <2>3, <2>4, <2>5, <2>6 DEF RequestIsSound
  <1>2. \A g \in Handlers : RequestIsSound(g)'
    BY <1>1
  <1>3. BookingsApart'
    BY DEF CalendarInvariant, BookingsApart, HasOverlappingBooking, Blocking,
           Exists, Overlaps
  <1> QED
    BY <1>2, <1>3 DEF CalendarInvariant, Exists

\* The end of a request that publishes nothing.
LEMMA RollBackStep ==
  ASSUME CalendarInvariant, NEW h \in Handlers, RollBack(h)
  PROVE  CalendarInvariant'
  <1> USE DEF RollBack, Finish, Serve, tables
  <1>1. TypeOK'
    BY DEF CalendarInvariant, TypeOK
  <1>2. /\ call'[h] = NoCall /\ pc'[h] = "idle"
        /\ \A g \in Handlers \ {h} : pc'[g] = pc[g] /\ call'[g] = call[g]
        /\ \A g \in Handlers \ {h}, r \in Rooms : roomLock[r] = g => roomLock'[r] = g
    BY DEF CalendarInvariant, TypeOK
  <1>3. RequestIsSound(h)'
    BY <1>2 DEF RequestIsSound, StepFitsOperation, ClaimantHoldsRoom, ClaimsRoom,
                StayReadIsCurrent, NewIdIsUnused, CheckStaysGood
  <1> QED
    BY <1>1, <1>2, <1>3, PrivateStep

\* The steps of a request before its commit leave its operation, its booking
\* and its stay as they are.
LEMMA RequestStep ==
  ASSUME CalendarInvariant, TypeOK', NEW h \in Handlers, call[h] # NoCall,
         UNCHANGED booking,
         \A g \in Handlers \ {h} : pc'[g] = pc[g] /\ call'[g] = call[g],
         \A g \in Handlers \ {h}, r \in Rooms : roomLock[r] = g => roomLock'[r] = g,
         call'[h] # NoCall, call'[h].op = call[h].op, call'[h].id = call[h].id,
         SameStay(call'[h].row, call[h].row),
         StepFitsOperation(h)', ClaimantHoldsRoom(h)', CheckStaysGood(h)'
  PROVE  CalendarInvariant'
  <1>0. RequestIsSound(h)
    BY DEF CalendarInvariant
  <1>1. StayReadIsCurrent(h)'
    BY <1>0 DEF RequestIsSound, StayReadIsCurrent, Exists, SameStay
  <1>2. NewIdIsUnused(h)'
    BY <1>0 DEF RequestIsSound, NewIdIsUnused, Exists
  <1>3. call'[h].row.checkIn < call'[h].row.checkOut
    BY <1>0 DEF RequestIsSound, SameStay
  <1>4. RequestIsSound(h)'
    BY <1>1, <1>2, <1>3 DEF RequestIsSound
  <1>5. \A g \in Handlers \ {h} :
          call[g] # NoCall /\ call[g].op = "create" /\ call'[h] # NoCall
            => call'[h].id # call[g].id
    BY DEF CalendarInvariant, RequestIsSound, NewIdIsUnused
  <1> QED
    BY <1>4, <1>5, PrivateStep

LEMMA LockRoomStep ==
  ASSUME CalendarInvariant, NEW h \in Handlers, LockRoom(h)
  PROVE  CalendarInvariant'
  <1> USE DEF LockRoom, GoTo, tables
  <1>0. RequestIsSound(h) /\ TypeOK
    BY DEF CalendarInvariant
  <1>1. call[h] # NoCall /\ call[h] \in Call /\ call[h].row.room \in Rooms
    BY <1>0 DEF TypeOK, Call, BookingRow
  <1>2. TypeOK'
    BY <1>0, <1>1 DEF TypeOK
  <1>3. /\ UNCHANGED <<booking, call>> /\ pc'[h] = "check"
        /\ roomLock'[call[h].row.room] = h
        /\ \A g \in Handlers \ {h} : pc'[g] = pc[g]
    BY <1>0, <1>1 DEF TypeOK
  <1>4. \A g \in Handlers \ {h}, r \in Rooms : roomLock[r] = g => roomLock'[r] = g
    BY <1>0, <1>1, NothingAssumption DEF TypeOK
  <1>5. StepFitsOperation(h)'
    BY <1>0, <1>3 DEF RequestIsSound, StepFitsOperation
  <1>6. ClaimantHoldsRoom(h)' /\ CheckStaysGood(h)'
    BY <1>3 DEF ClaimantHoldsRoom, CheckStaysGood, ClaimsRoom
  <1> QED
    BY <1>1, <1>2, <1>3, <1>4, <1>5, <1>6, RequestStep DEF SameStay

LEMMA PassOverlapCheckStep ==
  ASSUME CalendarInvariant, NEW h \in Handlers, PassOverlapCheck(h)
  PROVE  CalendarInvariant'
  <1> USE DEF PassOverlapCheck, GoTo, tables
  <1>0. RequestIsSound(h) /\ TypeOK
    BY DEF CalendarInvariant
  <1>1. call[h] # NoCall /\ call[h] \in Call
    BY <1>0 DEF TypeOK
  <1>2. TypeOK'
    BY <1>0 DEF TypeOK
  <1>3. /\ UNCHANGED <<booking, call, roomLock>>
        /\ pc'[h] = IF call[h].op = "create" THEN "number" ELSE "write"
        /\ \A g \in Handlers \ {h} : pc'[g] = pc[g]
    BY <1>0 DEF TypeOK
  <1>4. StepFitsOperation(h)'
    BY <1>3 DEF StepFitsOperation
  <1>5. ClaimantHoldsRoom(h)'
    BY <1>0, <1>3 DEF RequestIsSound, ClaimantHoldsRoom, ClaimsRoom
  <1>6. CheckStaysGood(h)'
    <2>1. ~HasOverlappingBooking(call[h].row.room, call[h].row.checkIn,
                                 call[h].row.checkOut, {call[h].id})
      <3>1. CASE call[h].op = "approve"
        BY <3>1 DEF RoomTaken
      <3>2. CASE call[h].op = "create"
        BY <3>2 DEF RoomTaken, HasOverlappingBooking
      <3> QED
        BY <1>0, <3>1, <3>2 DEF RequestIsSound, StepFitsOperation
    <2> QED
      BY <1>3, <2>1 DEF CheckStaysGood, HasOverlappingBooking, Blocking, Exists, Overlaps
  <1> QED
    BY <1>1, <1>2, <1>3, <1>4, <1>5, <1>6, RequestStep DEF SameStay

\* Giving the request its number, and inserting the row: the stay is the same.
LEMMA InsertSteps ==
  ASSUME CalendarInvariant, NEW h \in Handlers, NumberBooking(h) \/ InsertBooking(h)
  PROVE  CalendarInvariant'
  <1> USE DEF NumberBooking, InsertBooking, GoTo, tables
  <1>0. RequestIsSound(h) /\ TypeOK
    BY DEF CalendarInvariant
  <1>1. call[h] # NoCall /\ call[h] \in Call
    BY <1>0 DEF TypeOK
  <1>2. call[h].op = "create" /\ pc[h] \in {"number", "write"}
    BY <1>0 DEF RequestIsSound, StepFitsOperation
  <1>3. YearOf[today] \in Nat /\ NextNumber \in BookingNumber
    <2>1. CreatedIn(YearOf[today]) \subseteq BookingIds
      BY DEF CreatedIn
    <2>2. Cardinality(CreatedIn(YearOf[today])) \in Nat
      BY <2>1, FiniteAssumption, FS_Subset, FS_CardinalityType
    <2> QED
      BY <1>0, <2>2, YearAssumption DEF TypeOK, NextNumber, BookingNumber
  <1>4. /\ call'[h] \in Call /\ call'[h].op = "create" /\ call'[h].id = call[h].id
        /\ SameStay(call'[h].row, call[h].row)
        /\ pc'[h] \in {"write", "commit"}
    <2>1. call[h].row \in BookingRow
      BY <1>1 DEF Call
    <2>2. CASE NumberBooking(h)
      <3>1. call'[h] = [call[h] EXCEPT !.row = [call[h].row EXCEPT !.number = NextNumber]]
        BY <1>0, <2>2 DEF TypeOK
      <3>2. [call[h].row EXCEPT !.number = NextNumber] \in BookingRow
        BY <1>3, <2>1 DEF BookingRow
      <3>3. SameStay([call[h].row EXCEPT !.number = NextNumber], call[h].row)
        BY <2>1 DEF BookingRow, SameStay
      <3> QED
        BY <1>0, <1>1, <1>2, <2>2, <3>1, <3>2, <3>3 DEF TypeOK, Call
    <2>3. CASE InsertBooking(h)
      <3>1. call'[h] = [call[h] EXCEPT !.row = [call[h].row EXCEPT !.createdIn = YearOf[today]]]
        BY <1>0, <2>3 DEF TypeOK
      <3>2. [call[h].row EXCEPT !.createdIn = YearOf[today]] \in BookingRow
        BY <1>3, <2>1 DEF BookingRow
      <3>3. SameStay([call[h].row EXCEPT !.createdIn = YearOf[today]], call[h].row)
        BY <2>1 DEF BookingRow, SameStay
      <3> QED
        BY <1>0, <1>1, <1>2, <2>3, <3>1, <3>2, <3>3 DEF TypeOK, Call
    <2> QED
      BY <2>2, <2>3
  <1>5. /\ \A g \in Handlers \ {h} : pc'[g] = pc[g] /\ call'[g] = call[g]
        /\ UNCHANGED <<booking, roomLock>>
    BY <1>0 DEF TypeOK
  <1>6. TypeOK'
    <2>1. /\ call' \in [Handlers -> Call \cup {NoCall}]
          /\ pc' \in [Handlers -> {"idle", "lock", "check", "number", "write", "commit"}]
      BY <1>0, <1>4, <1>5 DEF TypeOK
    <2>2. pc'[h] # "idle" /\ call'[h] # NoCall
      BY <1>4, NothingAssumption
    <2>3. UNCHANGED <<today, roomRow, booking, history, roomLock>>
      OBVIOUS
    <2> QED
      BY <1>0, <1>5, <2>1, <2>2, <2>3 DEF TypeOK
  <1>7. StepFitsOperation(h)'
    BY <1>4 DEF StepFitsOperation
  <1>8. ClaimantHoldsRoom(h)'
    BY <1>0, <1>1, <1>2, <1>4, <1>5
    DEF RequestIsSound, ClaimantHoldsRoom, ClaimsRoom, SameStay
  <1>9. CheckStaysGood(h)'
    <2>1. ~HasOverlappingBooking(call[h].row.room, call[h].row.checkIn,
                                 call[h].row.checkOut, {call[h].id})
      BY <1>0, <1>1, <1>2 DEF RequestIsSound, CheckStaysGood, ClaimsRoom
    <2> QED
      BY <1>4, <1>5, <2>1 DEF CheckStaysGood, HasOverlappingBooking, Blocking,
                              Exists, Overlaps, SameStay
  <1>10. call'[h] # NoCall
    BY <1>4, NothingAssumption
  <1> QED
    BY <1>1, <1>2, <1>4, <1>5, <1>6, <1>7, <1>8, <1>9, <1>10, RequestStep

LEMMA UpdateBookingStep ==
  ASSUME CalendarInvariant, NEW h \in Handlers, UpdateBooking(h)
  PROVE  CalendarInvariant'
  <1> USE DEF UpdateBooking, GoTo, tables
  <1>0. RequestIsSound(h) /\ TypeOK
    BY DEF CalendarInvariant
  <1>1. call[h] # NoCall
    BY <1>0 DEF TypeOK
  <1>2. TypeOK'
    BY <1>0 DEF TypeOK
  <1>3. /\ UNCHANGED <<booking, call, roomLock>> /\ pc'[h] = "commit"
        /\ \A g \in Handlers \ {h} : pc'[g] = pc[g]
    BY <1>0 DEF TypeOK
  <1>4. StepFitsOperation(h)'
    BY <1>3 DEF StepFitsOperation
  <1>5. ClaimantHoldsRoom(h)'
    BY <1>0, <1>3 DEF RequestIsSound, ClaimantHoldsRoom, ClaimsRoom
  <1>6. CheckStaysGood(h)'
    BY <1>0, <1>3 DEF RequestIsSound, CheckStaysGood, ClaimsRoom,
                      HasOverlappingBooking, Blocking, Exists, Overlaps
  <1> QED
    BY <1>1, <1>2, <1>3, <1>4, <1>5, <1>6, RequestStep DEF SameStay

-----------------------------------------------------------------------------
\* A request that starts: it claims nothing yet, what it read is current, and
\* if it creates a booking nothing else has the id of it.
LEMMA ServeStep ==
  ASSUME CalendarInvariant, NEW h \in Handlers, NEW request \in Call,
         NEW statement \in {"lock", "write"},
         Serve(h, request, statement),
         UNCHANGED <<today, roomRow, tables, roomLock>>,
         pc[h] = "idle",
         request.op \in {"create", "approve"} <=> statement = "lock",
         request.op # "create"
           => Exists(request.id) /\ SameStay(booking[request.id], request.row),
         request.op = "create" => Fresh(request.id),
         request.row.checkIn < request.row.checkOut
  PROVE  CalendarInvariant'
  <1> USE DEF Serve, tables
  <1>0. TypeOK /\ request # NoCall
    BY NothingAssumption DEF CalendarInvariant
  <1>1. /\ call'[h] = request /\ pc'[h] = statement /\ call[h] = NoCall
        /\ \A g \in Handlers \ {h} : pc'[g] = pc[g] /\ call'[g] = call[g]
        /\ UNCHANGED booking
    BY <1>0 DEF TypeOK
  <1>2. TypeOK'
    BY <1>0, <1>1 DEF TypeOK
  <1>3. RequestIsSound(h)'
    <2>1. StepFitsOperation(h)' /\ ClaimantHoldsRoom(h)' /\ CheckStaysGood(h)'
      BY <1>1 DEF StepFitsOperation, ClaimantHoldsRoom, CheckStaysGood, ClaimsRoom
    <2>2. StayReadIsCurrent(h)'
      BY <1>1 DEF StayReadIsCurrent, Exists, SameStay
    <2>3. NewIdIsUnused(h)'
      BY <1>1 DEF NewIdIsUnused, Fresh, Exists
    <2> QED
      BY <1>1, <2>1, <2>2, <2>3 DEF RequestIsSound
  <1>4. ASSUME NEW g \in Handlers \ {h}, call[g] # NoCall, call[g].op = "create"
        PROVE  request.id # call[g].id
    <2>1. ~Exists(call[g].id)
      BY <1>4 DEF CalendarInvariant, RequestIsSound, NewIdIsUnused
    <2>2. CASE request.op = "create"
      BY <1>4, <2>2 DEF Fresh
    <2>3. CASE request.op # "create"
      BY <2>1, <2>3
    <2> QED
      BY <2>2, <2>3
  <1> QED
    BY <1>1, <1>2, <1>3, <1>4, PrivateStep

LEMMA StartOnStep ==
  ASSUME CalendarInvariant, NEW h \in Handlers, NEW b \in BookingIds, Exists(b),
         NEW op \in Operations \ {"create"}, NEW statement \in {"lock", "write"},
         op = "approve" <=> statement = "lock",
         StartOn(h, b, op, statement)
  PROVE  CalendarInvariant'
  <1> DEFINE request == [op |-> op, id |-> b, row |-> booking[b]]
  <1>1. booking[b] \in BookingRow /\ booking[b].checkIn < booking[b].checkOut
    BY DEF CalendarInvariant, TypeOK, Exists
  <1>2. request \in Call
    BY <1>1 DEF Call
  <1>3. /\ Serve(h, request, statement) /\ pc[h] = "idle"
        /\ UNCHANGED <<today, roomRow, tables, roomLock>>
    BY DEF StartOn
  <1>4. /\ request.op # "create" /\ request.id = b /\ request.row = booking[b]
        /\ request.op \in {"create", "approve"} <=> statement = "lock"
    OBVIOUS
  <1> HIDE DEF request
  <1> QED
    BY <1>1, <1>2, <1>3, <1>4, ServeStep DEF SameStay

LEMMA StartStep ==
  ASSUME CalendarInvariant, NEW h \in Handlers, Start(h)
  PROVE  CalendarInvariant'
  <1>1. PICK b \in BookingIds :
          \/ \E r \in Rooms, stay \in Stays, user \in Users \cup {NoUser},
                guests \in Guests : StartCreate(h, b, r, stay, user, guests)
          \/ StartApprove(h, b)
          \/ StartReject(h, b)
          \/ \E user \in Users : StartCancelOwn(h, b, user)
          \/ StartCancelAsAdmin(h, b)
    BY DEF Start
  <1>2. ASSUME NEW r \in Rooms, NEW stay \in Stays,
               NEW user \in Users \cup {NoUser}, NEW guests \in Guests,
               StartCreate(h, b, r, stay, user, guests)
        PROVE  CalendarInvariant'
    <2> DEFINE row == [room |-> r, checkIn |-> stay.checkIn,
                       checkOut |-> stay.checkOut, userId |-> user,
                       pricePerNight |-> roomRow[r].pricePerNight,
                       number |-> NoNumber, createdIn |-> YearOf[today],
                       status |-> "PENDING"]
               request == [op |-> "create", id |-> b, row |-> row]
    <2>1. roomRow[r].pricePerNight \in Nat /\ YearOf[today] \in Nat
      BY YearAssumption DEF CalendarInvariant, TypeOK, RoomRow
    <2>2. row \in BookingRow
      BY <2>1, StaysAssumption DEF BookingRow, BookingStatus
    <2>3. request \in Call
      BY <2>2 DEF Call, Operations
    <2>4. /\ Serve(h, request, "lock") /\ pc[h] = "idle" /\ Fresh(b)
          /\ UNCHANGED <<today, roomRow, tables, roomLock>>
          /\ stay.checkIn < stay.checkOut
      BY <1>2 DEF StartCreate, ValidDateRange
    <2>5. /\ request.op = "create" /\ request.id = b
          /\ request.row.checkIn < request.row.checkOut
      BY <2>4
    <2> HIDE DEF request
    <2> QED
      BY <2>3, <2>4, <2>5, ServeStep
  <1>3. CASE StartApprove(h, b)
    BY <1>3, StartOnStep DEF StartApprove, Operations
  <1>4. CASE StartReject(h, b)
    BY <1>4, StartOnStep DEF StartReject, Operations
  <1>5. ASSUME NEW user \in Users, StartCancelOwn(h, b, user)
        PROVE  CalendarInvariant'
    BY <1>5, StartOnStep DEF StartCancelOwn, Operations
  <1>6. CASE StartCancelAsAdmin(h, b)
    BY <1>6, StartOnStep DEF StartCancelAsAdmin, Operations
  <1> QED
    BY <1>1, <1>2, <1>3, <1>4, <1>5, <1>6

-----------------------------------------------------------------------------
\* What a commit leaves behind.  A create adds a booking nobody else knows of,
\* the others change the status of a booking and nothing else.
LEMMA WrittenRow ==
  ASSUME CalendarInvariant, NEW h \in Handlers, pc[h] = "commit"
  PROVE  /\ call[h] \in Call /\ call[h] # NoCall
         /\ Written(call[h]) \in BookingRow
         /\ SameStay(Written(call[h]), call[h].row)
         /\ call[h].op # "create"
              => /\ Exists(call[h].id)
                 /\ SameStay(booking[call[h].id], call[h].row)
         /\ call[h].op \in {"reject", "cancelOwn", "cancelAsAdmin"}
              => Written(call[h]).status \notin BLOCKING_STATUSES
  <1>0. RequestIsSound(h) /\ TypeOK
    BY DEF CalendarInvariant
  <1>1. call[h] \in Call /\ call[h] # NoCall
    BY <1>0 DEF TypeOK
  <1>2. call[h].id \in BookingIds /\ call[h].row \in BookingRow /\ call[h].op \in Operations
    BY <1>1 DEF Call
  <1>3. CASE call[h].op = "create"
    BY <1>1, <1>2, <1>3 DEF Written, SameStay
  <1>4. CASE call[h].op # "create"
    <2>1. Exists(call[h].id) /\ SameStay(booking[call[h].id], call[h].row)
      BY <1>0, <1>1, <1>4 DEF RequestIsSound, StayReadIsCurrent
    <2>2. booking[call[h].id] \in BookingRow
      BY <1>0, <1>2, <2>1 DEF TypeOK, Exists
    <2>3. Target[call[h].op] \in BookingStatus
      BY <1>2, <1>4 DEF Target, BookingStatus, Operations
    <2>4. Written(call[h]) = [booking[call[h].id] EXCEPT !.status = Target[call[h].op]]
      BY <1>4 DEF Written
    <2>5. Written(call[h]) \in BookingRow /\ Written(call[h]).status = Target[call[h].op]
      BY <2>2, <2>3, <2>4 DEF BookingRow
    <2>6. SameStay(Written(call[h]), booking[call[h].id])
      BY <2>2, <2>4 DEF BookingRow, SameStay
    <2>7. call[h].op \in {"reject", "cancelOwn", "cancelAsAdmin"}
            => Target[call[h].op] \notin BLOCKING_STATUSES
      BY DEF Target, BLOCKING_STATUSES
    <2> QED
      BY <1>1, <2>1, <2>5, <2>6, <2>7 DEF SameStay
  <1> QED
    BY <1>3, <1>4

LEMMA CommitStep ==
  ASSUME CalendarInvariant, NEW h \in Handlers, Commit(h)
  PROVE  CalendarInvariant'
  <1>0. RequestIsSound(h) /\ TypeOK /\ pc[h] = "commit"
    BY DEF CalendarInvariant, Commit
  <1>a. PICK id : id = call[h].id
    OBVIOUS
  <1>b. PICK row : row = call[h].row
    OBVIOUS
  <1>c. PICK w : w = Written(call[h])
    OBVIOUS
  <1> USE <1>a, <1>b, <1>c
  <1>1. /\ call[h] \in Call /\ call[h] # NoCall
        /\ w \in BookingRow /\ w # NoRow
        /\ SameStay(w, row)
        /\ call[h].op # "create" => Exists(id) /\ SameStay(booking[id], row)
        /\ call[h].op \in {"reject", "cancelOwn", "cancelAsAdmin"}
             => w.status \notin BLOCKING_STATUSES
    BY <1>0, WrittenRow, NothingAssumption
  <1>2. id \in BookingIds /\ row \in BookingRow /\ row.room \in Rooms
        /\ call[h].op \in Operations
    BY <1>1 DEF Call, BookingRow
  <1>3. /\ booking' = [booking EXCEPT ![id] = w]
        /\ booking'[id] = w
        /\ \A b \in BookingIds \ {id} : booking'[b] = booking[b]
    BY <1>0, <1>2 DEF Commit, TypeOK
  <1>4. /\ call'[h] = NoCall /\ pc'[h] = "idle"
        /\ \A g \in Handlers \ {h} : pc'[g] = pc[g] /\ call'[g] = call[g]
        /\ \A g \in Handlers \ {h}, r \in Rooms : roomLock[r] = g => roomLock'[r] = g
    BY <1>0 DEF Commit, Finish, Serve, TypeOK
  <1>5. TypeOK'
    <2>1. booking' \in [BookingIds -> BookingRow \cup {NoRow}]
      BY <1>0, <1>1, <1>3 DEF TypeOK
    <2>2. history' \in [BookingIds -> Seq(BookingStatus)]
      <3>1. w.status \in BookingStatus
        BY <1>1 DEF BookingRow
      <3>2. Append(history[id], w.status) \in Seq(BookingStatus)
        BY <1>0, <1>2, <3>1 DEF TypeOK
      <3>3. history' = [history EXCEPT ![id] = Append(history[id], w.status)]
        BY DEF Commit
      <3> QED
        BY <1>0, <3>2, <3>3 DEF TypeOK
    <2>3. /\ UNCHANGED <<today, roomRow>>
          /\ roomLock' \in [Rooms -> Handlers \cup {NoHandler}]
          /\ pc' \in [Handlers -> {"idle", "lock", "check", "number", "write", "commit"}]
          /\ call' \in [Handlers -> Call \cup {NoCall}]
      BY <1>0 DEF Commit, Finish, Serve, TypeOK
    <2>4. \A g \in Handlers : pc'[g] = "idle" <=> call'[g] = NoCall
      BY <1>0, <1>4 DEF TypeOK
    <2> QED
      BY <1>0, <2>1, <2>2, <2>3, <2>4 DEF TypeOK
  \* The nights that booking id holds after the commit passed the check.
  <1>6. w.status \in BLOCKING_STATUSES
          => /\ ClaimsRoom(h, {"number", "write", "commit"})
             /\ roomLock[row.room] = h
             /\ ~HasOverlappingBooking(row.room, row.checkIn, row.checkOut, {id})
    <2>1. ASSUME w.status \in BLOCKING_STATUSES
          PROVE  ClaimsRoom(h, {"number", "write", "commit"})
      BY <1>0, <1>1, <1>2, <2>1 DEF ClaimsRoom, Operations
    <2>2. ClaimsRoom(h, {"number", "write", "commit"})
            => ClaimsRoom(h, {"check", "number", "write", "commit"})
      BY DEF ClaimsRoom
    <2> QED
      BY <1>0, <2>1, <2>2 DEF RequestIsSound, ClaimantHoldsRoom, CheckStaysGood
  <1>7. \A b \in BookingIds \ {id} : Blocking(b)' <=> Blocking(b)
    BY <1>3 DEF Blocking, Exists
  <1>8. Exists(id)' /\ (Blocking(id)' <=> w.status \in BLOCKING_STATUSES)
    BY <1>1, <1>3 DEF Blocking, Exists
  <1>9. ASSUME NEW g \in Handlers \ {h} PROVE RequestIsSound(g)'
    <2>1. RequestIsSound(g) /\ pc'[g] = pc[g] /\ call'[g] = call[g]
      BY <1>4 DEF CalendarInvariant
    <2>2. call[g] # NoCall => call[g].id \in BookingIds /\ call[g].row.room \in Rooms
      BY <1>0 DEF TypeOK, Call, BookingRow
    <2>3. call[g] # NoCall /\ call[g].op = "create" => call[g].id # id
      BY <1>1, <2>1 DEF RequestIsSound, NewIdIsUnused
    <2>4. StepFitsOperation(g)' /\ ClaimantHoldsRoom(g)'
      BY <1>4, <2>1, <2>2
      DEF RequestIsSound, StepFitsOperation, ClaimantHoldsRoom, ClaimsRoom
    <2>5. StayReadIsCurrent(g)'
      <3>1. ASSUME call[g] # NoCall, call[g].op # "create"
            PROVE  Exists(call[g].id)' /\ SameStay(booking'[call[g].id], call[g].row)
        <4>1. Exists(call[g].id) /\ SameStay(booking[call[g].id], call[g].row)
          BY <2>1, <3>1 DEF RequestIsSound, StayReadIsCurrent
        <4>2. CASE call[g].id # id
          BY <1>3, <2>1, <2>2, <3>1, <4>1, <4>2 DEF Exists
        <4>3. CASE call[g].id = id
          <5>1. call[h].op # "create"
            BY <1>0, <1>1, <4>1, <4>3 DEF RequestIsSound, NewIdIsUnused
          <5> QED
            BY <1>1, <1>3, <1>8, <2>1, <4>1, <4>3, <5>1 DEF SameStay, Exists
        <4> QED
          BY <4>2, <4>3
      <3> QED
        BY <2>1, <3>1 DEF StayReadIsCurrent
    <2>6. NewIdIsUnused(g)'
      BY <1>3, <1>4, <2>1, <2>2, <2>3 DEF RequestIsSound, NewIdIsUnused, Exists
    <2>7. CheckStaysGood(g)'
      <3>1. ASSUME ClaimsRoom(g, {"number", "write", "commit"}),
                   NEW b \in BookingIds \ {call[g].id}, Blocking(b)',
                   booking'[b].room = call[g].row.room
            PROVE  ~Overlaps(booking'[b], call[g].row.checkIn, call[g].row.checkOut)
        <4>1. ~HasOverlappingBooking(call[g].row.room, call[g].row.checkIn,
                                     call[g].row.checkOut, {call[g].id})
          BY <2>1, <3>1 DEF RequestIsSound, CheckStaysGood
        <4>2. roomLock[call[g].row.room] = g
          BY <2>1, <3>1 DEF RequestIsSound, ClaimantHoldsRoom, ClaimsRoom
        <4>3. CASE b # id
          BY <1>3, <1>7, <3>1, <4>1, <4>3 DEF HasOverlappingBooking
        <4>4. CASE b = id
          \* h holds the room of id, and g that of its own request.
          <5>1. roomLock[row.room] = h
            BY <1>6, <1>8, <3>1, <4>4
          <5>2. row.room = call[g].row.room
            BY <1>1, <1>3, <3>1, <4>4 DEF SameStay
          <5> QED
            BY <4>2, <5>1, <5>2
        <4> QED
          BY <4>3, <4>4
      <3> QED
        BY <2>1, <3>1 DEF CheckStaysGood, ClaimsRoom, HasOverlappingBooking
    <2> QED
      BY <2>1, <2>4, <2>5, <2>6, <2>7 DEF RequestIsSound
  <1>10. RequestIsSound(h)'
    BY <1>4 DEF RequestIsSound, StepFitsOperation, ClaimantHoldsRoom, ClaimsRoom,
                StayReadIsCurrent, NewIdIsUnused, CheckStaysGood
  <1>11. \A b \in BookingIds : Exists(b)' => booking'[b].checkIn < booking'[b].checkOut
    BY <1>0, <1>1, <1>3 DEF CalendarInvariant, RequestIsSound, SameStay, Exists
  <1>12. BookingsApart'
    <2>1. ASSUME NEW a \in BookingIds, NEW b \in BookingIds \ {a},
                 Blocking(a)', Blocking(b)', booking'[b].room = booking'[a].room
          PROVE  ~Overlaps(booking'[b], booking'[a].checkIn, booking'[a].checkOut)
      <3>1. CASE a # id /\ b # id
        BY <1>3, <1>7, <2>1, <3>1
        DEF CalendarInvariant, BookingsApart, HasOverlappingBooking
      <3>2. CASE a = id
        BY <1>1, <1>3, <1>6, <1>7, <1>8, <2>1, <3>2 DEF HasOverlappingBooking, SameStay
      <3>3. CASE b = id
        <4>1. ~Overlaps(booking[a], row.checkIn, row.checkOut)
          BY <1>1, <1>3, <1>6, <1>7, <1>8, <2>1, <3>3 DEF HasOverlappingBooking, SameStay
        <4> QED
          BY <1>1, <1>3, <2>1, <3>3, <4>1 DEF Overlaps, SameStay
      <3> QED
        BY <3>1, <3>2, <3>3
    <2> QED
      BY <2>1 DEF BookingsApart, HasOverlappingBooking
  <1> QED
    BY <1>5, <1>9, <1>10, <1>11, <1>12 DEF CalendarInvariant

-----------------------------------------------------------------------------
\* Every step preserves the invariant, one lemma per kind of step.
LEMMA NextInvariant == CalendarInvariant /\ [Next]_vars => CalendarInvariant'
  <1> SUFFICES ASSUME CalendarInvariant, [Next]_vars PROVE CalendarInvariant'
    OBVIOUS
  <1>1. CASE UNCHANGED vars
    BY <1>1
    DEF vars, tables, CalendarInvariant, TypeOK, RequestIsSound, StepFitsOperation,
        ClaimantHoldsRoom, ClaimsRoom, StayReadIsCurrent, NewIdIsUnused,
        CheckStaysGood, BookingsApart, Blocking, HasOverlappingBooking, Overlaps,
        Exists, SameStay
  <1>2. ASSUME NEW h \in Handlers, Start(h) PROVE CalendarInvariant'
    BY <1>2, StartStep
  <1>3. ASSUME NEW h \in Handlers, Proceed(h) PROVE CalendarInvariant'
    <2>1. CASE LockRoom(h)
      BY <2>1, LockRoomStep
    <2>2. CASE PassOverlapCheck(h)
      BY <2>2, PassOverlapCheckStep
    <2>3. CASE FailOverlapCheck(h) \/ InsertCollides(h)
      BY <2>3, RollBackStep DEF FailOverlapCheck, InsertCollides
    <2>4. CASE NumberBooking(h) \/ InsertBooking(h)
      BY <2>4, InsertSteps
    <2>5. CASE UpdateBooking(h)
      BY <2>5, UpdateBookingStep
    <2>6. CASE Commit(h)
      BY <2>6, CommitStep
    <2> QED
      BY <1>3, <2>1, <2>2, <2>3, <2>4, <2>5, <2>6 DEF Proceed
  <1>4. ASSUME NEW h \in Handlers, Abort(h) PROVE CalendarInvariant'
    BY <1>4, RollBackStep DEF Abort
  <1>5. CASE NextDay \/ \E r \in EditedRooms : UpdateRoom(r) \/ RemoveRoom(r)
    BY <1>5, EnvironmentStep
  <1> QED
    BY <1>1, <1>2, <1>3, <1>4, <1>5 DEF Next

\* In every reachable state the outcome of an overlap check is still good for
\* the request that relies on it, and the rooms' bookings are apart.
THEOREM CalendarInvariance == Spec => []CalendarInvariant
  BY InitInvariant, NextInvariant, PTL DEF Spec

\* The tables, locks and requests keep their types.
THEOREM TypeCorrectness == Spec => []TypeOK
  <1>1. CalendarInvariant => TypeOK
    BY DEF CalendarInvariant
  <1> QED
    BY <1>1, CalendarInvariance, PTL

\* No interleaving of requests, aborts and administrators promises a night of a
\* room to two bookings.
THEOREM NoNightSoldTwice == Spec => []NoDoubleBooking
  <1>1. CalendarInvariant => NoDoubleBooking
    <2> SUFFICES ASSUME CalendarInvariant, NEW a \in BookingIds, NEW b \in BookingIds,
                        a # b, Blocking(a), Blocking(b),
                        booking[a].room = booking[b].room,
                        NEW night \in Nights(booking[a]) \cap Nights(booking[b])
                 PROVE  FALSE
      BY DEF NoDoubleBooking
    <2>1. booking[a] \in BookingRow /\ booking[b] \in BookingRow
      BY DEF CalendarInvariant, TypeOK, Blocking, Exists
    <2>2. /\ booking[a].checkIn \in Int /\ booking[a].checkOut \in Int
          /\ booking[b].checkIn \in Int /\ booking[b].checkOut \in Int
      BY <2>1, CalendarAssumption DEF BookingRow, Days
    <2>3. ~Overlaps(booking[a], booking[b].checkIn, booking[b].checkOut)
      BY DEF CalendarInvariant, BookingsApart, HasOverlappingBooking
    <2>4. night \in Int /\ booking[a].checkIn <= night /\ night < booking[b].checkOut
          /\ booking[b].checkIn <= night /\ night < booking[a].checkOut
      BY <2>2 DEF Nights
    <2> QED
      BY <2>2, <2>3, <2>4 DEF Overlaps
  <1> QED
    BY <1>1, CalendarInvariance, PTL
-----------------------------------------------------------------------------
\* Bookings implements RoomCalendar.

\* A claim is what its booking says, and of a night at least.
LEMMA ClaimIsStay ==
  ASSUME CalendarInvariant, NEW b \in BookingIds, Blocking(b)
  PROVE  /\ Claim(b) \in Calendar!Stay
         /\ Claim(b) # NoRow
         /\ SameStay(Claim(b), booking[b])
  <1>1. booking[b] \in BookingRow /\ booking[b].checkIn < booking[b].checkOut
    BY DEF CalendarInvariant, TypeOK, Blocking, Exists
  <1>2. Claim(b) = [room |-> booking[b].room, checkIn |-> booking[b].checkIn,
                    checkOut |-> booking[b].checkOut]
    BY DEF Claim
  <1>3. Claim(b) \in [room: Rooms, checkIn: Days, checkOut: Days]
    BY <1>1, <1>2 DEF BookingRow
  <1>4. Claim(b).checkIn < Claim(b).checkOut /\ SameStay(Claim(b), booking[b])
    BY <1>1, <1>2 DEF SameStay
  <1> QED
    BY <1>3, <1>4, NothingAssumption DEF Calendar!Stay

\* Stays that share a night overlap in the code's sense.
LEMMA ConflictOverlaps ==
  ASSUME NEW s \in Calendar!Stay, NEW t \in Calendar!Stay, Calendar!Conflict(s, t)
  PROVE  s.room = t.room /\ Overlaps(s, t.checkIn, t.checkOut)
  <1>1. PICK night \in Calendar!Nights(s) : night \in Calendar!Nights(t)
    BY DEF Calendar!Conflict
  <1>2. /\ s.checkIn \in Int /\ s.checkOut \in Int
        /\ t.checkIn \in Int /\ t.checkOut \in Int
    BY CalendarAssumption DEF Calendar!Stay, Days
  <1>3. /\ night \in Int /\ s.checkIn <= night /\ night < s.checkOut
        /\ t.checkIn <= night /\ night < t.checkOut
    BY <1>1, <1>2 DEF Calendar!Nights
  <1> QED
    BY <1>2, <1>3 DEF Overlaps, Calendar!Conflict

LEMMA StutterStep ==
  ASSUME UNCHANGED booking
  PROVE  \A b \in BookingIds : Claim(b)' = Claim(b)
  BY DEF Claim, Blocking, Exists

\* A commit changes what one booking claims; a claim that changes is taken,
\* clear of the others, or given back.
LEMMA CommitTakesOrGivesBack ==
  ASSUME CalendarInvariant, CalendarInvariant', NEW h \in Handlers, Commit(h)
  PROVE  [Calendar!Next]_[b \in BookingIds |-> Claim(b)]
  <1>1. PICK id : id = call[h].id
    OBVIOUS
  <1>2. PICK w : w = Written(call[h])
    OBVIOUS
  <1>3. /\ call[h] \in Call /\ id \in BookingIds /\ w \in BookingRow
        /\ SameStay(w, call[h].row)
        /\ call[h].op # "create" => SameStay(booking[id], call[h].row)
        /\ call[h].op = "create" => ~Exists(id)
    <2>1. pc[h] = "commit" /\ RequestIsSound(h)
      BY DEF Commit, CalendarInvariant
    <2>2. call[h] \in Call /\ call[h] # NoCall
      BY <2>1, WrittenRow
    <2> QED
      BY <1>1, <1>2, <2>1, <2>2, WrittenRow DEF Call, RequestIsSound, NewIdIsUnused
  <1>4. /\ booking'[id] = w
        /\ \A b \in BookingIds \ {id} : booking'[b] = booking[b]
    BY <1>1, <1>2, <1>3 DEF Commit, CalendarInvariant, TypeOK
  <1>5. \A b \in BookingIds \ {id} : Claim(b)' = Claim(b)
    BY <1>4 DEF Claim, Blocking, Exists
  <1>6. \A b \in BookingIds : ~Blocking(b) => Claim(b) = NoRow
    BY DEF Claim
  <1>7. \A b \in BookingIds : Blocking(b) => Claim(b) # NoRow
    BY ClaimIsStay
  <1>8. CASE Blocking(id) /\ Blocking(id)'
    <2>1. call[h].op # "create"
      BY <1>3, <1>8 DEF Blocking
    <2>2. SameStay(booking'[id], booking[id])
      BY <1>3, <1>4, <2>1 DEF SameStay
    <2>3. Claim(id)' = Claim(id)
      BY <1>8, <2>2 DEF Claim, SameStay
    <2> QED
      BY <1>5, <2>3
  <1>9. CASE ~Blocking(id) /\ ~Blocking(id)'
    <2>1. Claim(id)' = Claim(id)
      BY <1>9 DEF Claim
    <2> QED
      BY <1>5, <2>1
  <1>10. CASE Blocking(id) /\ ~Blocking(id)'
    <2>1. Claim(id) # NoRow /\ Claim(id)' = NoRow
      BY <1>3, <1>7, <1>10 DEF Claim
    <2>2. id \in Calendar!Holders
      BY <1>3, <2>1 DEF Calendar!Holders
    <2>3. \A b \in BookingIds : Claim(b)' = IF b = id THEN NoRow ELSE Claim(b)
      BY <1>5, <2>1
    <2>4. Calendar!GiveBack(id)
      <3>1. [b \in BookingIds |-> Claim(b)]'
              = [b \in BookingIds |-> IF b = id THEN NoRow ELSE Claim(b)]
        BY <2>3
      <3>2. [[b \in BookingIds |-> Claim(b)] EXCEPT ![id] = NoRow]
              = [b \in BookingIds |-> IF b = id THEN NoRow ELSE Claim(b)]
        BY <1>3
      <3> QED
        BY <2>2, <3>1, <3>2 DEF Calendar!GiveBack
    <2> QED
      BY <1>3, <2>4 DEF Calendar!Next
  <1>11. CASE ~Blocking(id) /\ Blocking(id)'
    <2>1. PICK stay : stay = Claim(id)'
      OBVIOUS
    <2>2. Claim(id) = NoRow
      BY <1>3, <1>6, <1>11
    <2>3. /\ stay \in Calendar!Stay
          /\ SameStay(stay, booking'[id])
      <3>1. booking'[id] \in BookingRow /\ booking'[id].checkIn < booking'[id].checkOut
        BY <1>3, <1>11 DEF CalendarInvariant, TypeOK, Blocking, Exists
      <3>2. stay = [room |-> booking'[id].room, checkIn |-> booking'[id].checkIn,
                    checkOut |-> booking'[id].checkOut]
        BY <1>11, <2>1 DEF Claim
      <3>3. stay \in [room: Rooms, checkIn: Days, checkOut: Days]
        BY <3>1, <3>2 DEF BookingRow
      <3> QED
        BY <3>1, <3>2, <3>3 DEF Calendar!Stay, SameStay
    <2>4. ASSUME NEW other \in BookingIds, Claim(other) # NoRow
          PROVE  ~Calendar!Conflict(Claim(other), stay)
      <3>1. Blocking(other) /\ other # id
        BY <1>6, <2>2, <2>4
      <3>2. Claim(other) \in Calendar!Stay /\ SameStay(Claim(other), booking[other])
        BY <3>1, ClaimIsStay
      <3>3. booking'[other] = booking[other] /\ Blocking(other)'
        BY <1>4, <3>1 DEF Blocking, Exists
      <3>4. booking'[other].room = booking'[id].room
              => ~Overlaps(booking'[other], booking'[id].checkIn, booking'[id].checkOut)
        BY <1>3, <1>11, <3>1, <3>3
        DEF CalendarInvariant, BookingsApart, HasOverlappingBooking
      <3> QED
        BY <2>3, <3>2, <3>3, <3>4, ConflictOverlaps DEF SameStay, Overlaps
    <2>5. Calendar!Take(id, stay)
      BY <1>3, <1>5, <2>1, <2>2, <2>4 DEF Calendar!Take, Calendar!Holders
    <2> QED
      BY <1>3, <2>3, <2>5 DEF Calendar!Next
  <1> QED
    BY <1>8, <1>9, <1>10, <1>11

\* Every other step leaves the claims alone.
LEMMA OtherSteps ==
  ASSUME [Next]_vars, \A h \in Handlers : ~Commit(h)
  PROVE  UNCHANGED booking
  <1> USE DEF tables
  <1>1. CASE UNCHANGED vars
    BY <1>1 DEF vars
  <1>2. ASSUME NEW h \in Handlers, Start(h) PROVE UNCHANGED booking
    BY <1>2 DEF Start, StartCreate, StartApprove, StartReject, StartCancelOwn,
                StartCancelAsAdmin, StartOn
  <1>3. ASSUME NEW h \in Handlers, Proceed(h) PROVE UNCHANGED booking
    BY <1>3 DEF Proceed, LockRoom, PassOverlapCheck, FailOverlapCheck, NumberBooking,
                InsertBooking, InsertCollides, UpdateBooking, RollBack
  <1>4. ASSUME NEW h \in Handlers, Abort(h) PROVE UNCHANGED booking
    BY <1>4 DEF Abort, RollBack
  <1>5. CASE NextDay \/ \E r \in EditedRooms : UpdateRoom(r) \/ RemoveRoom(r)
    BY <1>5 DEF NextDay, UpdateRoom, RemoveRoom, WriteRoom
  <1> QED
    BY <1>1, <1>2, <1>3, <1>4, <1>5 DEF Next

\* The handlers, locks and aborts of Bookings do what RoomCalendar promises:
\* each booking takes its nights at one stroke, clear of the others, or gives
\* them back.
THEOREM CalendarImplemented == Spec => ImplementsCalendar
  <1>1. Init => Calendar!Init
    BY DEF Init, Calendar!Init, Claim, Blocking, Exists
  <1>2. CalendarInvariant /\ CalendarInvariant' /\ [Next]_vars
          => [Calendar!Next]_[b \in BookingIds |-> Claim(b)]
    <2> SUFFICES ASSUME CalendarInvariant, CalendarInvariant', [Next]_vars
                 PROVE  [Calendar!Next]_[b \in BookingIds |-> Claim(b)]
      OBVIOUS
    <2>1. CASE \E h \in Handlers : Commit(h)
      BY <2>1, CommitTakesOrGivesBack
    <2>2. CASE \A h \in Handlers : ~Commit(h)
      BY <2>2, OtherSteps, StutterStep
    <2> QED
      BY <2>1, <2>2
  <1> QED
    BY <1>1, <1>2, CalendarInvariance, PTL DEF Spec, ImplementsCalendar, Calendar!Spec
=============================================================================
