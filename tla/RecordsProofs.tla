--------------------------- MODULE RecordsProofs ---------------------------
(***************************************************************************)
(* Proofs about the records that Bookings keeps, the numbers and the       *)
(* histories of bookings, and about its queries; for any rooms, bookings,  *)
(* handlers and calendar.                                                  *)
(***************************************************************************)
EXTENDS BookingsProofs

\* The bookings of a year can be counted.
LEMMA CountType ==
  ASSUME NEW year
  PROVE  IsFiniteSet(CreatedIn(year)) /\ Cardinality(CreatedIn(year)) \in Nat
  <1>1. CreatedIn(year) \subseteq BookingIds
    BY DEF CreatedIn
  <1> QED
    BY <1>1, FiniteAssumption, FS_Subset, FS_CardinalityType

\* As long as no booking is deleted or moved to another year, counts do not fall.
LEMMA CountGrows ==
  ASSUME \A b \in BookingIds : Exists(b) =>
           Exists(b)' /\ booking'[b].createdIn = booking[b].createdIn,
         NEW year
  PROVE  /\ Cardinality(CreatedIn(year)) \in Nat
         /\ Cardinality(CreatedIn(year)') \in Nat
         /\ Cardinality(CreatedIn(year)) <= Cardinality(CreatedIn(year)')
  <1>1. CreatedIn(year) \subseteq CreatedIn(year)'
    BY DEF CreatedIn, Exists
  <1>2. CreatedIn(year)' \subseteq BookingIds
    BY DEF CreatedIn
  <1>3. IsFiniteSet(CreatedIn(year)')
    BY <1>2, FiniteAssumption, FS_Subset
  <1> QED
    BY <1>1, <1>3, FS_Subset, FS_CardinalityType

\* The booking that is added to a year makes it count one more.
LEMMA CountOneMore ==
  ASSUME NEW id \in BookingIds, NEW year, ~Exists(id), Exists(id)',
         booking'[id].createdIn = year,
         \A b \in BookingIds \ {id} : booking'[b] = booking[b]
  PROVE  /\ Cardinality(CreatedIn(year)) \in Nat
         /\ Cardinality(CreatedIn(year)') = Cardinality(CreatedIn(year)) + 1
  <1>1. CreatedIn(year)' = CreatedIn(year) \cup {id} /\ id \notin CreatedIn(year)
    BY DEF CreatedIn, Exists
  <1> QED
    BY <1>1, CountType, FS_AddElement

LEMMA InitRecords == Init => RecordsInvariant
  <1> SUFFICES ASSUME Init PROVE RecordsInvariant
    OBVIOUS
  <1>1. \A b \in BookingIds : ~Exists(b) /\ history[b] = <<>>
    BY DEF Init, Exists
  <1> QED
    BY <1>1 DEF Init, RecordsInvariant, AuditTrail, CreateIsSound, NumberIsSound

-----------------------------------------------------------------------------
\* A step that adds nothing to the tables, on the same day, keeps the invariant
\* if it leaves the request of the handler that takes it sound.
LEMMA SameRecords ==
  ASSUME RecordsInvariant, NEW h \in Handlers, UNCHANGED <<today, booking, history>>,
         \A g \in Handlers \ {h} : pc'[g] = pc[g] /\ call'[g] = call[g],
         CreateIsSound(h)'
  PROVE  RecordsInvariant'
  <1>1. \A g \in Handlers : CreateIsSound(g)'
    <2> SUFFICES ASSUME NEW g \in Handlers \ {h} PROVE CreateIsSound(g)'
      OBVIOUS
    <2>1. CreateIsSound(g) /\ pc'[g] = pc[g] /\ call'[g] = call[g]
      BY DEF RecordsInvariant
    <2>2. \A y : CreatedIn(y)' = CreatedIn(y)
      BY DEF CreatedIn, Exists
    <2> QED
      BY <2>1, <2>2 DEF CreateIsSound, NumberCounted
  <1>2. \A b \in BookingIds : NumberIsSound(b)'
    BY DEF RecordsInvariant, NumberIsSound, NumberCounted, CreatedIn, Exists
  <1>3. AuditTrail'
    BY DEF RecordsInvariant, AuditTrail, Exists
  <1> QED
    BY <1>1, <1>2, <1>3 DEF RecordsInvariant

LEMMA RollBackRecords ==
  ASSUME CalendarInvariant, RecordsInvariant, NEW h \in Handlers, RollBack(h)
  PROVE  RecordsInvariant'
  <1>1. /\ call'[h] = NoCall /\ UNCHANGED <<today, booking, history>>
        /\ \A g \in Handlers \ {h} : pc'[g] = pc[g] /\ call'[g] = call[g]
    BY DEF RollBack, Finish, Serve, tables, CalendarInvariant, TypeOK
  <1>2. CreateIsSound(h)'
    BY <1>1 DEF CreateIsSound
  <1> QED
    BY <1>1, <1>2, SameRecords

LEMMA StartRecords ==
  ASSUME CalendarInvariant, RecordsInvariant, NEW h \in Handlers, Start(h)
  PROVE  RecordsInvariant'
  <1>1. PICK request, statement :
          /\ Serve(h, request, statement) /\ UNCHANGED <<today, booking, history>>
          /\ request.op = "create" => request.row.status = "PENDING"
          /\ statement \in {"lock", "write"}
          /\ request.op = "create" => statement = "lock"
    <2>1. PICK b \in BookingIds :
            \/ \E r \in Rooms, stay \in Stays, user \in Users \cup {NoUser},
                  guests \in Guests : StartCreate(h, b, r, stay, user, guests)
            \/ StartApprove(h, b)
            \/ StartReject(h, b)
            \/ \E user \in Users : StartCancelOwn(h, b, user)
            \/ StartCancelAsAdmin(h, b)
      BY DEF Start
    <2>2. ASSUME NEW r \in Rooms, NEW stay \in Stays, NEW user \in Users \cup {NoUser},
                 NEW guests \in Guests, StartCreate(h, b, r, stay, user, guests)
          PROVE  \E request, statement :
                   /\ Serve(h, request, statement)
                   /\ UNCHANGED <<today, booking, history>>
                   /\ request.op = "create" => request.row.status = "PENDING"
                   /\ statement \in {"lock", "write"}
                   /\ request.op = "create" => statement = "lock"
      <3> DEFINE row == [room |-> r, checkIn |-> stay.checkIn,
                         checkOut |-> stay.checkOut, userId |-> user,
                         pricePerNight |-> roomRow[r].pricePerNight,
                         number |-> NoNumber, createdIn |-> YearOf[today],
                         status |-> "PENDING"]
                 request == [op |-> "create", id |-> b, row |-> row]
      <3>1. Serve(h, request, "lock") /\ UNCHANGED <<today, booking, history>>
        BY <2>2 DEF StartCreate, tables
      <3>2. request.row.status = "PENDING"
        OBVIOUS
      <3> HIDE DEF request
      <3> QED
        BY <3>1, <3>2
    <2>3. ASSUME NEW op, NEW statement \in {"lock", "write"}, op # "create",
                 StartOn(h, b, op, statement)
          PROVE  \E request :
                   /\ Serve(h, request, statement)
                   /\ UNCHANGED <<today, booking, history>>
                   /\ request.op # "create"
      <3> DEFINE request == [op |-> op, id |-> b, row |-> booking[b]]
      <3>1. Serve(h, request, statement) /\ UNCHANGED <<today, booking, history>>
        BY <2>3 DEF StartOn, tables
      <3>2. request.op # "create"
        BY <2>3
      <3> HIDE DEF request
      <3> QED
        BY <3>1, <3>2
    <2> QED
      BY <2>1, <2>2, <2>3
         DEF StartApprove, StartReject, StartCancelOwn, StartCancelAsAdmin
  <1>2. /\ call'[h] = request /\ pc'[h] = statement
        /\ \A g \in Handlers \ {h} : pc'[g] = pc[g] /\ call'[g] = call[g]
    BY <1>1 DEF Serve, CalendarInvariant, TypeOK
  <1>3. CreateIsSound(h)'
    BY <1>1, <1>2 DEF CreateIsSound
  <1> QED
    BY <1>1, <1>2, <1>3, SameRecords

\* The statements before a number is computed, and the UPDATE of a booking.
LEMMA WaitRecords ==
  ASSUME CalendarInvariant, RecordsInvariant, NEW h \in Handlers,
         LockRoom(h) \/ PassOverlapCheck(h) \/ UpdateBooking(h)
  PROVE  RecordsInvariant'
  <1>1. /\ UNCHANGED <<today, booking, history, call>>
        /\ \A g \in Handlers \ {h} : pc'[g] = pc[g] /\ call'[g] = call[g]
    BY DEF LockRoom, PassOverlapCheck, UpdateBooking, GoTo, tables,
           CalendarInvariant, TypeOK
  <1>2. call[h].op = "create" => pc'[h] \in {"check", "number"}
    BY DEF LockRoom, PassOverlapCheck, UpdateBooking, GoTo,
           CalendarInvariant, TypeOK
  <1>3. CreateIsSound(h)'
    BY <1>1, <1>2 DEF RecordsInvariant, CreateIsSound
  <1> QED
    BY <1>1, <1>3, SameRecords

\* The years are numbers, and no day of the future is in an earlier one.
LEMMA YearType ==
  ASSUME CalendarInvariant
  PROVE  /\ YearOf[today] \in Nat
         /\ NextNumber \in BookingNumber /\ NextNumber.year = YearOf[today]
         /\ NextNumber.seq = Cardinality(CreatedIn(YearOf[today])) + 1
         /\ Cardinality(CreatedIn(YearOf[today])) \in Nat
  <1>1. YearOf[today] \in Nat
    BY YearAssumption DEF CalendarInvariant, TypeOK
  <1> QED
    BY <1>1, CountType DEF NextNumber, BookingNumber

LEMMA NumberRecords ==
  ASSUME CalendarInvariant, RecordsInvariant, NEW h \in Handlers, NumberBooking(h)
  PROVE  RecordsInvariant'
  <1>0. TypeOK /\ RequestIsSound(h) /\ CreateIsSound(h) /\ pc[h] = "number"
    BY DEF CalendarInvariant, RecordsInvariant, NumberBooking
  <1>1. call[h] \in Call /\ call[h] # NoCall /\ call[h].op = "create"
    BY <1>0 DEF TypeOK, RequestIsSound, StepFitsOperation
  <1>2. /\ UNCHANGED <<today, booking, history>> /\ pc'[h] = "write"
        /\ \A g \in Handlers \ {h} : pc'[g] = pc[g] /\ call'[g] = call[g]
    BY <1>0 DEF NumberBooking, GoTo, tables, TypeOK
  <1>3. call'[h].row = [call[h].row EXCEPT !.number = NextNumber]
    <2>1. call'[h] = [call[h] EXCEPT !.row = [call[h].row EXCEPT !.number = NextNumber]]
      BY <1>0 DEF NumberBooking, TypeOK
    <2> QED
      BY <1>1, <2>1 DEF Call
  <1>4. call'[h].row.number = NextNumber /\ call'[h].row.status = call[h].row.status
    BY <1>1, <1>3 DEF Call, BookingRow
  <1>5. call'[h].row.status = "PENDING"
    BY <1>0, <1>1, <1>4 DEF CreateIsSound
  <1>6. CreatedIn(NextNumber.year)' = CreatedIn(NextNumber.year)
    BY <1>2 DEF CreatedIn, Exists, NextNumber
  <1>7. /\ NextNumber \in BookingNumber /\ NextNumber.year <= YearOf[today]
        /\ NextNumber.seq <= Cardinality(CreatedIn(NextNumber.year)) + 1
    BY YearType
  <1>8. CreateIsSound(h)'
    BY <1>2, <1>4, <1>5, <1>6, <1>7 DEF CreateIsSound, NumberCounted, CreatedIn, Exists
  <1> QED
    BY <1>2, <1>8, SameRecords

LEMMA InsertRecords ==
  ASSUME CalendarInvariant, RecordsInvariant, NEW h \in Handlers, InsertBooking(h)
  PROVE  RecordsInvariant'
  <1>0. TypeOK /\ CreateIsSound(h) /\ pc[h] = "write" /\ call[h].op = "create"
    BY DEF CalendarInvariant, RecordsInvariant, InsertBooking
  <1>1. call[h] \in Call /\ call[h] # NoCall
    BY <1>0 DEF TypeOK
  <1>2. /\ UNCHANGED <<today, booking, history>> /\ pc'[h] = "commit"
        /\ \A g \in Handlers \ {h} : pc'[g] = pc[g] /\ call'[g] = call[g]
    BY <1>0 DEF InsertBooking, GoTo, tables, TypeOK
  <1>3. call'[h].row = [call[h].row EXCEPT !.createdIn = YearOf[today]]
    <2>1. call'[h] = [call[h] EXCEPT !.row = [call[h].row EXCEPT !.createdIn = YearOf[today]]]
      BY <1>0 DEF InsertBooking, TypeOK
    <2> QED
      BY <1>1, <2>1 DEF Call
  <1>4. /\ call'[h].row.number = call[h].row.number
        /\ call'[h].row.status = call[h].row.status
        /\ call'[h].row.createdIn = YearOf[today]
    BY <1>1, <1>3 DEF Call, BookingRow
  <1>5. CreatedIn(call[h].row.number.year)' = CreatedIn(call[h].row.number.year)
    <2>1. PICK year : year = call[h].row.number.year
      OBVIOUS
    <2>2. call'[h].row.number.year = year
      BY <1>4, <2>1
    <2> QED
      BY <1>2, <2>1, <2>2 DEF CreatedIn, Exists
  <1>6. CreateIsSound(h)'
    BY <1>0, <1>1, <1>2, <1>4, <1>5, YearType DEF CreateIsSound, NumberCounted,
       CreatedIn, Exists
  <1> QED
    BY <1>2, <1>6, SameRecords

\* What a commit does to the tables: it adds the booking of a create with a
\* first history entry, or a status that is not PENDING to a booking it leaves
\* as it is otherwise.
LEMMA CommitWrites ==
  ASSUME CalendarInvariant, RecordsInvariant, NEW h \in Handlers, Commit(h),
         NEW id, id = call[h].id, NEW w, w = Written(call[h])
  PROVE  /\ id \in BookingIds /\ w \in BookingRow
         /\ booking'[id] = w /\ Exists(id)'
         /\ history'[id] = Append(history[id], w.status)
         /\ \A b \in BookingIds \ {id} :
              booking'[b] = booking[b] /\ history'[b] = history[b]
         /\ call[h].op = "create"
              => ~Exists(id) /\ w = call[h].row /\ w.status = "PENDING"
         /\ call[h].op # "create"
              => /\ Exists(id) /\ w.status # "PENDING"
                 /\ w.number = booking[id].number /\ w.createdIn = booking[id].createdIn
  <1>0. RequestIsSound(h) /\ CreateIsSound(h) /\ TypeOK /\ pc[h] = "commit"
    BY DEF CalendarInvariant, RecordsInvariant, Commit
  <1>1. /\ call[h] \in Call /\ call[h] # NoCall /\ w \in BookingRow
        /\ call[h].op # "create" => Exists(id)
    BY <1>0, WrittenRow
  <1>2. id \in BookingIds /\ call[h].op \in Operations
    BY <1>1 DEF Call
  <1>3. /\ booking' = [booking EXCEPT ![id] = w]
        /\ history' = [history EXCEPT ![id] = Append(history[id], w.status)]
    BY DEF Commit
  <1>4. /\ booking'[id] = w /\ history'[id] = Append(history[id], w.status)
        /\ \A b \in BookingIds \ {id} :
             booking'[b] = booking[b] /\ history'[b] = history[b]
    BY <1>0, <1>2, <1>3 DEF TypeOK
  <1>5. Exists(id)'
    <2>1. booking'[id] # NoRow
      BY <1>1, <1>4, NothingAssumption
    <2> QED
      BY <2>1 DEF Exists
  <1>6. CASE call[h].op = "create"
    <2>1. ~Exists(id) /\ w = call[h].row /\ w.status = "PENDING"
      BY <1>0, <1>1, <1>6
      DEF RequestIsSound, NewIdIsUnused, CreateIsSound, Written
    <2> QED
      BY <1>1, <1>2, <1>4, <1>5, <1>6, <2>1
  <1>7. CASE call[h].op # "create"
    <2>1. booking[id] \in BookingRow
      BY <1>0, <1>1, <1>2, <1>7 DEF TypeOK, Exists
    <2>2. w = [booking[id] EXCEPT !.status = Target[call[h].op]]
      BY <1>7 DEF Written
    <2>3. /\ w.status = Target[call[h].op]
          /\ w.number = booking[id].number /\ w.createdIn = booking[id].createdIn
      BY <2>1, <2>2 DEF BookingRow
    <2>4. Target[call[h].op] # "PENDING"
      BY <1>2, <1>7 DEF Target, Operations
    <2> QED
      BY <1>1, <1>2, <1>4, <1>5, <1>7, <2>3, <2>4
  <1> QED
    BY <1>6, <1>7

LEMMA CommitRecords ==
  ASSUME CalendarInvariant, RecordsInvariant, NEW h \in Handlers, Commit(h)
  PROVE  RecordsInvariant'
  <1>a. PICK id : id = call[h].id
    OBVIOUS
  <1>b. PICK w : w = Written(call[h])
    OBVIOUS
  <1>1. /\ id \in BookingIds /\ w \in BookingRow /\ booking'[id] = w /\ Exists(id)'
        /\ history'[id] = Append(history[id], w.status)
        /\ \A b \in BookingIds \ {id} :
             booking'[b] = booking[b] /\ history'[b] = history[b]
        /\ call[h].op = "create"
             => ~Exists(id) /\ w = call[h].row /\ w.status = "PENDING"
        /\ call[h].op # "create"
             => /\ Exists(id) /\ w.status # "PENDING"
                /\ w.number = booking[id].number /\ w.createdIn = booking[id].createdIn
    BY <1>a, <1>b, CommitWrites
  <1>2. /\ UNCHANGED today /\ call'[h] = NoCall
        /\ \A g \in Handlers \ {h} : pc'[g] = pc[g] /\ call'[g] = call[g]
    BY DEF Commit, Finish, Serve, CalendarInvariant, TypeOK
  <1>3. \A b \in BookingIds \ {id} : Exists(b)' <=> Exists(b)
    BY <1>1 DEF Exists
  <1>4. \A b \in BookingIds : Exists(b) =>
          Exists(b)' /\ booking'[b].createdIn = booking[b].createdIn
    BY <1>1, <1>3, <1>b
  <1>5. \A year : /\ Cardinality(CreatedIn(year)) \in Nat
                  /\ Cardinality(CreatedIn(year)') \in Nat
                  /\ Cardinality(CreatedIn(year)) <= Cardinality(CreatedIn(year)')
    BY <1>4, CountGrows
  <1>6. \A g \in Handlers : CreateIsSound(g)'
    <2> SUFFICES ASSUME NEW g \in Handlers \ {h}, call[g] # NoCall, call[g].op = "create"
                 PROVE  CreateIsSound(g)'
      BY <1>2 DEF CreateIsSound
    <2>1. CreateIsSound(g) /\ call'[g] = call[g] /\ pc'[g] = pc[g]
      BY <1>2 DEF RecordsInvariant
    <2>a. PICK number : number = call[g].row.number
      OBVIOUS
    <2>2. ASSUME number \in BookingNumber, NumberCounted(number, 1)
          PROVE  number.seq <= Cardinality(CreatedIn(number.year)') + 1
      <3>1. number.seq \in Nat
        BY <2>2 DEF BookingNumber
      <3> QED
        BY <1>5, <2>2, <3>1 DEF NumberCounted
    <2>3. pc[g] \in {"write", "commit"} =>
            number.seq <= Cardinality(CreatedIn(number.year)') + 1
      BY <2>1, <2>2, <2>a DEF CreateIsSound
    <2>4. pc'[g] \in {"write", "commit"} => NumberCounted(call[g].row.number, 1)'
      <3>1. call'[g].row.number = number
        BY <2>1, <2>a
      <3> QED
        BY <2>1, <2>3, <3>1 DEF NumberCounted, CreatedIn, Exists
    <2> QED
      BY <1>2, <2>1, <2>4 DEF CreateIsSound, NumberCounted, CreatedIn, Exists
  <1>7. ASSUME NEW b \in BookingIds, Exists(b)' PROVE NumberIsSound(b)'
    <2>a. PICK number : number = booking'[b].number
      OBVIOUS
    <2>b. PICK year : year = booking'[b].createdIn
      OBVIOUS
    <2> SUFFICES /\ number \in BookingNumber
                 /\ number.year <= year /\ year <= YearOf[today]
                 /\ number.year = year => number.seq <= Cardinality(CreatedIn(year)')
      <3>1. ASSUME number \in BookingNumber, number.year = year,
                   number.seq <= Cardinality(CreatedIn(year)')
            PROVE  number.seq <= Cardinality(CreatedIn(number.year)') + 0
        BY <1>5, <3>1 DEF BookingNumber
      <3>2. ASSUME number.seq <= Cardinality(CreatedIn(number.year)') + 0
            PROVE  NumberCounted(booking[b].number, 0)'
        BY <2>a, <3>2 DEF NumberCounted, CreatedIn, Exists
      <3> QED
        BY <1>2, <1>7, <2>a, <2>b, <3>1, <3>2 DEF NumberIsSound
    <2>1. CASE b = id /\ call[h].op = "create"
      <3>1. CreateIsSound(h) /\ pc[h] = "commit" /\ call[h] # NoCall
        BY DEF RecordsInvariant, Commit, CalendarInvariant, TypeOK
      <3>2. /\ number \in BookingNumber /\ number.seq <= Cardinality(CreatedIn(number.year)) + 1
            /\ number.year <= year /\ year <= YearOf[today]
        BY <1>1, <1>b, <2>1, <2>a, <2>b, <3>1 DEF CreateIsSound, NumberCounted
      <3>3. /\ Cardinality(CreatedIn(year)) \in Nat
            /\ Cardinality(CreatedIn(year)') = Cardinality(CreatedIn(year)) + 1
        BY <1>1, <2>1, <2>b, CountOneMore
      <3> QED
        BY <3>2, <3>3
    <2>2. CASE b # id \/ call[h].op # "create"
      <3>1. Exists(b) /\ number = booking[b].number /\ year = booking[b].createdIn
        BY <1>1, <1>3, <1>7, <1>b, <2>2, <2>a, <2>b
      <3>2. NumberIsSound(b)
        BY DEF RecordsInvariant
      <3>3. /\ number \in BookingNumber /\ number.year <= year /\ year <= YearOf[today]
            /\ number.year = year => number.seq <= Cardinality(CreatedIn(number.year)) + 0
        BY <3>1, <3>2 DEF NumberIsSound, NumberCounted
      <3>4. number.seq \in Nat
        BY <3>3 DEF BookingNumber
      <3> QED
        BY <1>5, <3>3, <3>4
    <2> QED
      BY <2>1, <2>2
  <1>8. AuditTrail'
    <2>1. history \in [BookingIds -> Seq(BookingStatus)]
      BY DEF CalendarInvariant, TypeOK
    <2>2. /\ Exists(id) => /\ history[id] # <<>>
                           /\ \A i \in 1 .. Len(history[id]) :
                                history[id][i] = "PENDING" <=> i = 1
          /\ ~Exists(id) => history[id] = <<>>
      BY <1>1 DEF RecordsInvariant, AuditTrail
    <2>3. history[id] \in Seq(BookingStatus) /\ w.status \in BookingStatus
      BY <1>1, <2>1 DEF BookingRow
    <2>4. /\ history'[id] # <<>>
          /\ \A i \in 1 .. Len(history'[id]) : history'[id][i] = "PENDING" <=> i = 1
          /\ history'[id][Len(history'[id])] = booking'[id].status
      <3>1. CASE ~Exists(id)
        BY <1>1, <1>b, <2>2, <2>3, <3>1
      <3>2. CASE Exists(id)
        <4>1. w.status # "PENDING" /\ Len(history[id]) >= 1
          BY <1>1, <2>2, <2>3, <3>2
        <4> QED
          BY <1>1, <1>b, <2>2, <2>3, <3>2, <4>1
      <3> QED
        BY <3>1, <3>2
    <2>5. ASSUME NEW b \in BookingIds \ {id}
          PROVE  history'[b] = history[b] /\ booking'[b] = booking[b]
                   /\ (Exists(b)' <=> Exists(b))
      BY <1>1, <1>3
    <2>6. ASSUME NEW b \in BookingIds
          PROVE  IF Exists(b)'
                 THEN /\ history'[b] # <<>>
                      /\ \A i \in 1 .. Len(history'[b]) : history'[b][i] = "PENDING" <=> i = 1
                      /\ history'[b][Len(history'[b])] = booking'[b].status
                 ELSE history'[b] = <<>>
      <3>1. CASE b = id
        BY <1>1, <2>4, <3>1
      <3>2. CASE b # id
        BY <2>5, <3>2 DEF RecordsInvariant, AuditTrail
      <3> QED
        BY <3>1, <3>2
    <2> QED
      BY <2>6 DEF AuditTrail
  <1> QED
    BY <1>6, <1>7, <1>8 DEF RecordsInvariant, NumberIsSound

\* A day may begin a new year, which is later than every year on record.
LEMMA EnvironmentRecords ==
  ASSUME CalendarInvariant, CalendarInvariant', RecordsInvariant,
         NextDay \/ \E r \in EditedRooms : UpdateRoom(r) \/ RemoveRoom(r)
  PROVE  RecordsInvariant'
  <1>1. UNCHANGED <<booking, history, pc, call>>
    BY DEF NextDay, UpdateRoom, RemoveRoom, WriteRoom, tables
  <1>a. PICK y : y = YearOf[today]
    OBVIOUS
  <1>b. PICK z : z = YearOf[today']
    OBVIOUS
  <1>2. y \in Nat /\ z \in Nat /\ y <= z
    <2>1. today \in Days /\ today' \in Days
      BY DEF CalendarInvariant, TypeOK
    <2>2. today' = today \/ today' = today + 1
      BY DEF NextDay, UpdateRoom, RemoveRoom, WriteRoom
    <2>3. today <= today'
      BY <2>1, <2>2, CalendarAssumption DEF Days
    <2> QED
      BY <2>1, <2>3, <1>a, <1>b, YearAssumption
  <1>3. \A year : CreatedIn(year)' = CreatedIn(year)
    BY <1>1 DEF CreatedIn, Exists
  <1>4. \A number, more : NumberCounted(number, more)' <=> NumberCounted(number, more)
    BY <1>3 DEF NumberCounted
  <1>5. ASSUME NEW h \in Handlers PROVE CreateIsSound(h)'
    <2> SUFFICES ASSUME call[h] # NoCall, call[h].op = "create" PROVE CreateIsSound(h)'
      BY <1>1 DEF CreateIsSound
    <2>1. CreateIsSound(h) /\ call[h].row.createdIn \in Nat
      BY DEF RecordsInvariant, CalendarInvariant, TypeOK, Call, BookingRow
    <2>2. ASSUME call[h].row.number \in BookingNumber
          PROVE  call[h].row.number.year \in Nat
      BY <2>2 DEF BookingNumber
    <2>3. /\ call[h].row.status = "PENDING"
          /\ pc[h] \in {"write", "commit"} =>
               /\ call[h].row.number \in BookingNumber
               /\ call[h].row.number.year <= z
               /\ NumberCounted(call[h].row.number, 1)
          /\ pc[h] = "commit" => /\ call[h].row.number.year <= call[h].row.createdIn
                                 /\ call[h].row.createdIn <= z
      <3>1. ASSUME pc[h] \in {"write", "commit"}
            PROVE  call[h].row.number \in BookingNumber /\ call[h].row.number.year <= y
                     /\ NumberCounted(call[h].row.number, 1)
        BY <2>1, <3>1, <1>a DEF CreateIsSound
      <3>2. ASSUME pc[h] = "commit"
            PROVE  call[h].row.number.year <= call[h].row.createdIn
                     /\ call[h].row.createdIn <= y
        BY <2>1, <3>2, <1>a DEF CreateIsSound
      <3>3. call[h].row.status = "PENDING"
        BY <2>1 DEF CreateIsSound
      <3> QED
        BY <1>2, <2>1, <2>2, <3>1, <3>2, <3>3
    <2> QED
      BY <1>1, <1>b, <2>3, <1>4 DEF CreateIsSound, NumberCounted, CreatedIn, Exists
  <1>6. ASSUME NEW b \in BookingIds PROVE NumberIsSound(b)'
    <2> SUFFICES ASSUME Exists(b) PROVE NumberIsSound(b)'
      BY <1>1 DEF NumberIsSound, Exists
    <2>1. NumberIsSound(b) /\ booking[b].createdIn \in Nat
      BY DEF RecordsInvariant, CalendarInvariant, TypeOK, BookingRow, Exists
    <2>2. booking[b].createdIn <= z
      BY <1>2, <1>a, <2>1 DEF NumberIsSound
    <2> QED
      BY <1>1, <1>b, <2>1, <2>2 DEF NumberIsSound, NumberCounted, CreatedIn, Exists
  <1>7. AuditTrail'
    BY <1>1 DEF RecordsInvariant, AuditTrail, Exists
  <1> QED
    BY <1>5, <1>6, <1>7 DEF RecordsInvariant

LEMMA NextRecords ==
  CalendarInvariant /\ RecordsInvariant /\ [Next]_vars => RecordsInvariant'
  <1> SUFFICES ASSUME CalendarInvariant, RecordsInvariant, [Next]_vars
               PROVE  RecordsInvariant'
    OBVIOUS
  <1>1. CASE UNCHANGED vars
    BY <1>1 DEF vars, tables, RecordsInvariant, AuditTrail, CreateIsSound,
                NumberIsSound, NumberCounted, CreatedIn, Exists
  <1>2. ASSUME NEW h \in Handlers, Start(h) PROVE RecordsInvariant'
    BY <1>2, StartRecords
  <1>3. ASSUME NEW h \in Handlers, Proceed(h) PROVE RecordsInvariant'
    <2>1. CASE LockRoom(h) \/ PassOverlapCheck(h) \/ UpdateBooking(h)
      BY <2>1, WaitRecords
    <2>2. CASE FailOverlapCheck(h) \/ InsertCollides(h)
      BY <2>2, RollBackRecords DEF FailOverlapCheck, InsertCollides
    <2>3. CASE NumberBooking(h)
      BY <2>3, NumberRecords
    <2>4. CASE InsertBooking(h)
      BY <2>4, InsertRecords
    <2>5. CASE Commit(h)
      BY <2>5, CommitRecords
    <2> QED
      BY <1>3, <2>1, <2>2, <2>3, <2>4, <2>5 DEF Proceed
  <1>4. ASSUME NEW h \in Handlers, Abort(h) PROVE RecordsInvariant'
    BY <1>4, RollBackRecords DEF Abort
  <1>5. CASE NextDay \/ \E r \in EditedRooms : UpdateRoom(r) \/ RemoveRoom(r)
    BY <1>5, NextInvariant, EnvironmentRecords
  <1> QED
    BY <1>1, <1>2, <1>3, <1>4, <1>5 DEF Next

\* In every reachable state the numbers given out are covered by the counts of
\* their years, those of the creates in progress among them.
THEOREM RecordsInvariance == Spec => []RecordsInvariant
  <1>1. Init /\ [][Next]_vars /\ []CalendarInvariant => []RecordsInvariant
    BY InitRecords, NextRecords, PTL
  <1> QED
    BY <1>1, CalendarInvariance, PTL DEF Spec

\* The history of every booking starts with its one PENDING and ends with the
\* status the booking has, however requests overtake each other.
THEOREM HistoriesTellTheTruth == Spec => []AuditTrail
  <1>1. RecordsInvariant => AuditTrail
    BY DEF RecordsInvariant
  <1> QED
    BY <1>1, RecordsInvariance, PTL

\* generateBookingNumber never comes to compute a number that a booking has:
\* the P2002 of a create is always another create's doing, never permanent.
THEOREM NumbersDoNotRunOut == Spec => []NextNumberFree
  <1>1. CalendarInvariant /\ RecordsInvariant => NextNumberFree
    <2> SUFFICES ASSUME CalendarInvariant, RecordsInvariant, NEW b \in BookingIds,
                        Exists(b), booking[b].number = NextNumber
                 PROVE  FALSE
      BY DEF NextNumberFree, NumberTaken
    <2>a. PICK year : year = YearOf[today]
      OBVIOUS
    <2>1. /\ year \in Nat /\ NextNumber.year = year
          /\ NextNumber.seq = Cardinality(CreatedIn(year)) + 1
          /\ Cardinality(CreatedIn(year)) \in Nat
      BY YearType, <2>a
    <2>2. /\ year <= booking[b].createdIn /\ booking[b].createdIn <= year
          /\ year = booking[b].createdIn => NumberCounted(booking[b].number, 0)
      BY <2>1, <2>a DEF RecordsInvariant, NumberIsSound
    <2>3. booking[b].createdIn \in Nat
      BY DEF CalendarInvariant, TypeOK, BookingRow, Exists
    <2>4. NumberCounted(NextNumber, 0)
      BY <2>1, <2>2, <2>3
    <2> QED
      BY <2>1, <2>4 DEF NumberCounted
  <1> QED
    BY <1>1, CalendarInvariance, RecordsInvariance, PTL

-----------------------------------------------------------------------------
\* A step of a handler that neither changes a settled booking nor turns to it
\* leaves the booking settled.
LEMMA SettledStep ==
  ASSUME NEW b \in BookingIds, Settled(b), NEW h \in Handlers,
         \A g \in Handlers \ {h} : call'[g] = call[g],
         call'[h] # NoCall => call'[h].id # b,
         booking'[b] = booking[b]
  PROVE  Settled(b)' /\ booking'[b] = booking[b]
  <1>1. \A g \in Handlers : call'[g] # NoCall => call'[g].id # b
    BY DEF Settled
  <1>2. Exists(b)' /\ booking'[b].status \notin CANCELLABLE_STATUSES
    BY DEF Settled, Exists
  <1> QED
    BY <1>1, <1>2 DEF Settled

\* The first check of every operation, made on the row it read, keeps it away
\* from a settled booking; a create has a booking of its own.
LEMMA StartSettled ==
  ASSUME CalendarInvariant, NEW b \in BookingIds, Settled(b),
         NEW h \in Handlers, Start(h)
  PROVE  Settled(b)' /\ booking'[b] = booking[b]
  <1>0. call \in [Handlers -> Call \cup {NoCall}]
    BY DEF CalendarInvariant, TypeOK
  <1>1. PICK id \in BookingIds :
          \/ \E r \in Rooms, stay \in Stays, user \in Users \cup {NoUser},
                guests \in Guests : StartCreate(h, id, r, stay, user, guests)
          \/ StartApprove(h, id)
          \/ StartReject(h, id)
          \/ \E user \in Users : StartCancelOwn(h, id, user)
          \/ StartCancelAsAdmin(h, id)
    BY DEF Start
  <1>2. ASSUME NEW r \in Rooms, NEW stay \in Stays, NEW user \in Users \cup {NoUser},
               NEW guests \in Guests, StartCreate(h, id, r, stay, user, guests)
        PROVE  Settled(b)' /\ booking'[b] = booking[b]
    <2> DEFINE row == [room |-> r, checkIn |-> stay.checkIn,
                       checkOut |-> stay.checkOut, userId |-> user,
                       pricePerNight |-> roomRow[r].pricePerNight,
                       number |-> NoNumber, createdIn |-> YearOf[today],
                       status |-> "PENDING"]
               request == [op |-> "create", id |-> id, row |-> row]
    <2>1. Serve(h, request, "lock") /\ UNCHANGED booking /\ id # b
      BY <1>2 DEF StartCreate, tables, Fresh, Settled
    <2>2. request.id # b
      BY <2>1
    <2> HIDE DEF request
    <2> QED
      BY <1>0, <2>1, <2>2, SettledStep DEF Serve
  <1>3. ASSUME NEW op, NEW statement, StartOn(h, id, op, statement),
               booking[id].status \in CANCELLABLE_STATUSES
        PROVE  Settled(b)' /\ booking'[b] = booking[b]
    <2> DEFINE request == [op |-> op, id |-> id, row |-> booking[id]]
    <2>1. Serve(h, request, statement) /\ UNCHANGED booking /\ id # b
      BY <1>3 DEF StartOn, tables, Settled
    <2>2. request.id # b
      BY <2>1
    <2> HIDE DEF request
    <2> QED
      BY <1>0, <2>1, <2>2, SettledStep DEF Serve
  <1> QED
    BY <1>1, <1>2, <1>3
    DEF StartApprove, StartReject, StartCancelOwn, StartCancelAsAdmin,
        CANCELLABLE_STATUSES

LEMMA ProceedSettled ==
  ASSUME CalendarInvariant, NEW b \in BookingIds, Settled(b),
         NEW h \in Handlers, Proceed(h) \/ Abort(h)
  PROVE  Settled(b)' /\ booking'[b] = booking[b]
  <1>0. /\ call \in [Handlers -> Call \cup {NoCall}]
        /\ pc[h] = "idle" <=> call[h] = NoCall
        /\ call[h] # NoCall => call[h].id # b
    BY DEF CalendarInvariant, TypeOK, Settled
  <1>1. CASE LockRoom(h) \/ PassOverlapCheck(h) \/ UpdateBooking(h)
    <2>1. UNCHANGED <<booking, call>>
      BY <1>1 DEF LockRoom, PassOverlapCheck, UpdateBooking, tables
    <2> QED
      BY <1>0, <2>1, SettledStep
  <1>2. CASE RollBack(h)
    BY <1>0, <1>2, SettledStep DEF RollBack, Finish, Serve, tables
  <1>3. CASE NumberBooking(h) \/ InsertBooking(h)
    <2>1. call[h] \in Call /\ UNCHANGED booking
      BY <1>0, <1>3 DEF NumberBooking, InsertBooking, tables
    <2>2. PICK row : call' = [call EXCEPT ![h] = [call[h] EXCEPT !.row = row]]
      <3>1. CASE NumberBooking(h)
        <4>1. call' = [call EXCEPT ![h] =
                         [call[h] EXCEPT !.row = [call[h].row EXCEPT !.number = NextNumber]]]
          BY <3>1 DEF NumberBooking
        <4> QED
          BY <4>1
      <3>2. CASE InsertBooking(h)
        <4>1. call' = [call EXCEPT ![h] =
                         [call[h] EXCEPT !.row = [call[h].row EXCEPT !.createdIn = YearOf[today]]]]
          BY <3>2 DEF InsertBooking
        <4> QED
          BY <4>1
      <3> QED
        BY <1>3, <3>1, <3>2
    <2>3. /\ \A g \in Handlers \ {h} : call'[g] = call[g]
          /\ call'[h].id = call[h].id
      BY <1>0, <2>1, <2>2 DEF Call
    <2> QED
      BY <1>0, <2>1, <2>3, NothingAssumption, SettledStep
  <1>4. CASE Commit(h)
    <2>1. call[h] # NoCall /\ booking' = [booking EXCEPT ![call[h].id] = Written(call[h])]
      BY <1>0, <1>4 DEF Commit
    <2>2. booking'[b] = booking[b]
      BY <1>0, <2>1 DEF CalendarInvariant, TypeOK
    <2> QED
      BY <1>0, <1>4, <2>2, SettledStep DEF Commit, Finish, Serve
  <1> QED
    BY <1>1, <1>2, <1>3, <1>4
    DEF Proceed, Abort, FailOverlapCheck, InsertCollides

\* A booking that was rejected or cancelled, and that no request in progress
\* has read before that, never changes again.
THEOREM SettledForEver == Spec => SettledStays
  <1>1. CalendarInvariant /\ [Next]_vars =>
          [\A b \in BookingIds :
             Settled(b) => Settled(b)' /\ booking'[b] = booking[b]]_vars
    <2> SUFFICES ASSUME CalendarInvariant, Next, NEW b \in BookingIds, Settled(b)
                 PROVE  Settled(b)' /\ booking'[b] = booking[b]
      OBVIOUS
    <2>1. ASSUME NEW h \in Handlers, Start(h) \/ Proceed(h) \/ Abort(h)
          PROVE  Settled(b)' /\ booking'[b] = booking[b]
      BY <2>1, StartSettled, ProceedSettled
    <2>2. ASSUME NextDay \/ \E r \in EditedRooms : UpdateRoom(r) \/ RemoveRoom(r)
          PROVE  Settled(b)' /\ booking'[b] = booking[b]
      <3>1. UNCHANGED <<booking, call>>
        BY <2>2 DEF NextDay, UpdateRoom, RemoveRoom, WriteRoom, tables
      <3> QED
        BY <3>1 DEF Settled, Exists
    <2> QED
      BY <2>1, <2>2 DEF Next
  <1> QED
    BY <1>1, CalendarInvariance, PTL DEF Spec, SettledStays

-----------------------------------------------------------------------------
\* findOverlappingRoomIds and hasOverlappingBooking agree, room by room.
LEMMA SameOverlap ==
  ASSUME NEW rooms, NEW r \in rooms, NEW checkIn, NEW checkOut
  PROVE  r \in FindOverlappingRoomIds(rooms, checkIn, checkOut)
           <=> HasOverlappingBooking(r, checkIn, checkOut, {})
  BY DEF FindOverlappingRoomIds, HasOverlappingBooking

\* The search shows exactly the rooms that a create of the same moment would
\* find bookable and free, whatever administrators and customers have done.
THEOREM SearchIsFaithful == Spec => []SearchAgreesWithCreate
  <1>1. TypeOK => SearchAgreesWithCreate
    <2> SUFFICES ASSUME TypeOK, NEW stay \in Stays, NEW guests \in Guests, NEW r \in Rooms
                 PROVE  LET free == ~HasOverlappingBooking(r, stay.checkIn, stay.checkOut, {})
                        IN  /\ r \in SearchAvailableRooms(stay.checkIn, stay.checkOut, guests)
                                 <=> Bookable(roomRow[r], guests) /\ free
                            /\ IsRoomAvailable(r, stay.checkIn, stay.checkOut)
                                 <=> Bookable(roomRow[r], 0) /\ free
      BY DEF SearchAgreesWithCreate
    <2>1. /\ roomRow[r].status \in RoomStatus /\ roomRow[r].isActive \in BOOLEAN
          /\ roomRow[r].maximumGuests \in Nat
      BY DEF TypeOK, RoomRow
    <2>a. PICK candidates :
            candidates = {s \in Rooms : /\ roomRow[s].isActive
                                        /\ roomRow[s].status = "AVAILABLE"
                                        /\ guests <= roomRow[s].maximumGuests}
      OBVIOUS
    <2>2. roomRow[r].status = "AVAILABLE"
            <=> roomRow[r].status \notin {"INACTIVE", "MAINTENANCE"}
      BY <2>1 DEF RoomStatus
    <2>3. r \in candidates <=> Bookable(roomRow[r], guests)
      BY <2>a, <2>2 DEF Bookable
    <2>4. r \in SearchAvailableRooms(stay.checkIn, stay.checkOut, guests)
            <=> /\ r \in candidates
                /\ r \notin FindOverlappingRoomIds(candidates, stay.checkIn, stay.checkOut)
      BY <2>a DEF SearchAvailableRooms
    <2>5. r \in candidates =>
            (r \in FindOverlappingRoomIds(candidates, stay.checkIn, stay.checkOut)
               <=> HasOverlappingBooking(r, stay.checkIn, stay.checkOut, {}))
      BY SameOverlap
    <2>6. IsRoomAvailable(r, stay.checkIn, stay.checkOut)
            <=> /\ Bookable(roomRow[r], 0)
                /\ ~HasOverlappingBooking(r, stay.checkIn, stay.checkOut, {})
      <3>1. 0 <= roomRow[r].maximumGuests
        BY <2>1
      <3> QED
        BY <2>2, <3>1 DEF IsRoomAvailable, Bookable
    <2> QED
      BY <2>3, <2>4, <2>5, <2>6
  <1> QED
    BY <1>1, TypeCorrectness, PTL
=============================================================================
