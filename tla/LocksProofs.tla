---------------------------- MODULE LocksProofs ----------------------------
(***************************************************************************)
(* Proofs about the waits of Server: in which order requests lock the rows *)
(* of a room, and so which of them can wait for each other; for any        *)
(* clients, accounts, rooms and connections.                               *)
(***************************************************************************)
EXTENDS ServerProofs

-----------------------------------------------------------------------------
\* What plans are made of: the statements of a route without a transaction,
\* those that lock no more than K, and with these the begin of a transaction.
Plain == {s \in Statement : s.on \in {"nothing", "own"}}
Calm(K) ==
  {s \in Statement : /\ s.on # "begin"
                     /\ s.on = "own" => s.locks = {}
                     /\ s.on = "tx" => s.locks \subseteq K}
Locking(name, p, K) == p \in Seq(Calm(K)) /\ Ordered(name, p)
Opened(name, p, K) == p \in Seq(Calm(K) \cup {Begin}) /\ Ordered(name, p)

LEMMA WiderSeq ==
  ASSUME NEW S, NEW T, S \subseteq T, NEW p \in Seq(S)
  PROVE  p \in Seq(T)
  OBVIOUS

LEMMA OrderedOf ==
  ASSUME NEW name, NEW S, NEW p \in Seq(S), \A s, t \in S : Precedes(name, s, t)
  PROVE  Ordered(name, p)
  <1>1. \A i \in 1 .. Len(p) : p[i] \in S
    OBVIOUS
  <1>2. \A i \in 1 .. Len(p) : \A j \in i + 1 .. Len(p) : j \in 1 .. Len(p)
    OBVIOUS
  <1> QED
    BY <1>1, <1>2, Zenon DEF Ordered

LEMMA OrderedJoin ==
  ASSUME NEW name, NEW S, NEW T, NEW p \in Seq(S), NEW q \in Seq(T),
         Ordered(name, p), Ordered(name, q),
         \A s \in S, t \in T : Precedes(name, s, t)
  PROVE  p \o q \in Seq(S \cup T) /\ Ordered(name, p \o q)
  <1>1. PICK r : r = p \o q
    OBVIOUS
  <1>2. PICK m \in Nat, n \in Nat : m = Len(p) /\ n = Len(q)
    BY LenProperties
  <1>3. p \in Seq(S \cup T) /\ q \in Seq(S \cup T)
    OBVIOUS
  <1>4. /\ r \in Seq(S \cup T) /\ Len(r) = m + n
        /\ \A i \in 1 .. m : r[i] = p[i] /\ p[i] \in S
        /\ \A i \in 1 .. m + n : i \notin 1 .. m => r[i] = q[i - m]
    BY <1>1, <1>2, <1>3, ConcatProperties
  <1>5. ASSUME NEW i \in 1 .. m + n, NEW j \in i + 1 .. m + n
        PROVE  Precedes(name, r[i], r[j])
    <2>1. CASE j \in 1 .. m
      <3>1. i \in 1 .. m /\ j \in i + 1 .. m
        BY <2>1
      <3>2. Precedes(name, p[i], p[j])
        BY <1>2, <3>1 DEF Ordered
      <3> QED
        BY <1>4, <2>1, <3>1, <3>2
    <2>2. CASE i \in 1 .. m /\ j \notin 1 .. m
      <3>1. j - m \in 1 .. n /\ j \in 1 .. m + n
        BY <2>2
      <3>2. q[j - m] \in T
        BY <1>2, <3>1
      <3> QED
        BY <1>4, <2>2, <3>1, <3>2
    <2>3. CASE i \notin 1 .. m
      <3>1. i - m \in 1 .. n /\ j - m \in (i - m) + 1 .. n
            /\ j \in 1 .. m + n /\ j \notin 1 .. m
        BY <2>3
      <3>2. Precedes(name, q[i - m], q[j - m])
        BY <1>2, <3>1 DEF Ordered
      <3> QED
        BY <1>4, <2>3, <3>1, <3>2
    <2> QED
      BY <2>1, <2>2, <2>3
  <1> QED
    BY <1>1, <1>4, <1>5 DEF Ordered

LEMMA PlainOrdered ==
  ASSUME NEW name, NEW p \in Seq(Plain)
  PROVE  Ordered(name, p)
  <1>1. \A s, t \in Plain : Precedes(name, s, t)
    BY DEF Plain, Precedes
  <1> QED
    BY <1>1, OrderedOf

LEMMA FreeLocking ==
  ASSUME NEW name, NEW p \in Seq(Calm({}))
  PROVE  Locking(name, p, {})
  <1>1. \A s, t \in Calm({}) : Precedes(name, s, t)
    BY DEF Calm, Precedes
  <1> QED
    BY <1>1, OrderedOf DEF Locking

\* One statement has no other behind it.
LEMMA Alone ==
  ASSUME NEW name, NEW s
  PROVE  Ordered(name, <<s>>)
  BY DEF Ordered

\* Parts of a plan whose locks are asked for in order make one.
LEMMA LockingJoin ==
  ASSUME NEW name, NEW K, NEW L, NEW p, NEW q,
         \A k \in K, l \in L : ComesAfter(name, k, l)
  PROVE  /\ Locking(name, p, K) /\ Locking(name, q, L) => Locking(name, p \o q, K \cup L)
         /\ Opened(name, p, K) /\ Locking(name, q, L) => Opened(name, p \o q, K \cup L)
  <1>1. Begin.on = "begin"
    BY BeginType
  <1>2. ASSUME NEW s \in Calm(K) \cup {Begin}, NEW t \in Calm(L)
        PROVE  Precedes(name, s, t)
    BY <1>1 DEF Calm, Precedes
  <1>3. Calm(K) \cup Calm(L) \subseteq Calm(K \cup L)
    BY DEF Calm
  <1>4. ASSUME Locking(name, p, K), Locking(name, q, L)
        PROVE  Locking(name, p \o q, K \cup L)
    <2>1. p \o q \in Seq(Calm(K) \cup Calm(L)) /\ Ordered(name, p \o q)
      BY <1>2, <1>4, OrderedJoin DEF Locking
    <2> QED
      BY <1>3, <2>1, WiderSeq, Zenon DEF Locking
  <1>5. ASSUME Opened(name, p, K), Locking(name, q, L)
        PROVE  Opened(name, p \o q, K \cup L)
    <2> DEFINE A == (Calm(K) \cup {Begin}) \cup Calm(L)
               B == Calm(K \cup L) \cup {Begin}
    <2>1. p \o q \in Seq(A) /\ Ordered(name, p \o q)
      BY <1>2, <1>5, OrderedJoin DEF Locking, Opened
    <2>2. A \subseteq B
      BY <1>3
    <2> HIDE DEF A, B
    <2>3. p \o q \in Seq(B)
      BY <2>1, <2>2, WiderSeq, Zenon
    <2> QED
      BY <2>1, <2>3 DEF B, Opened
  <1> QED
    BY <1>4, <1>5

LEMMA FreeFront ==
  ASSUME NEW name, NEW L, NEW p, NEW q, Locking(name, p, {}), Opened(name, q, L)
  PROVE  Opened(name, p \o q, L)
  <1>1. ASSUME NEW s \in Calm({}), NEW t \in Calm(L) \cup {Begin}
        PROVE  Precedes(name, s, t)
    BY BeginType DEF Calm, Precedes
  <1>2. p \o q \in Seq(Calm({}) \cup (Calm(L) \cup {Begin})) /\ Ordered(name, p \o q)
    BY <1>1, OrderedJoin DEF Locking, Opened
  <1>3. Calm({}) \cup (Calm(L) \cup {Begin}) \subseteq Calm(L) \cup {Begin}
    BY DEF Calm
  <1> QED
    BY <1>2, <1>3, WiderSeq, Zenon DEF Opened

-----------------------------------------------------------------------------
\* The services without a transaction.
Simple(p) == p \in Seq(Plain)
AllSimple(plans) == \A p \in plans : Simple(p)

LEMMA SimpleStatements ==
  ASSUME NEW errors \in SUBSET Errors
  PROVE  /\ Simple(<<Check(errors)>>) /\ Simple(<<Read(errors)>>)
         /\ Simple(<<Write(errors)>>)
         /\ \A row \in Row, mode \in Mode : Simple(<<WriteRow(row, mode, errors)>>)
  <1>1. /\ Check(errors) \in Plain /\ Read(errors) \in Plain /\ Write(errors) \in Plain
        /\ \A row \in Row, mode \in Mode : WriteRow(row, mode, errors) \in Plain
    BY CheckType, ReadType, WriteType, WriteRowType DEF Plain
  <1> QED
    BY <1>1 DEF Simple

LEMMA SimpleReads ==
  Simple(<<>>) /\ \A n \in Nat : Simple(Reads(n))
  <1>1. {} \in SUBSET Errors
    OBVIOUS
  <1>2. Read({}) \in Plain
    BY <1>1, ReadType DEF Plain
  <1> QED
    BY <1>2 DEF Simple, Reads

LEMMA SimpleJoin ==
  ASSUME NEW p, NEW q, Simple(p), Simple(q)
  PROVE  Simple(p \o q)
  BY ConcatProperties DEF Simple

LEMMA SimpleTuples ==
  ASSUME NEW r, NEW s, NEW t, NEW u, Simple(<<r>>), Simple(<<s>>)
  PROVE  /\ Simple(<<r, s>>)
         /\ Simple(<<t>>) /\ Simple(<<u>>) => Simple(<<r, s, t, u>>)
  <1>1. r \in Plain /\ s \in Plain
    BY DEF Simple
  <1>2. ASSUME Simple(<<t>>), Simple(<<u>>) PROVE t \in Plain /\ u \in Plain
    BY <1>2 DEF Simple
  <1> QED
    BY <1>1, <1>2 DEF Simple

LEMMA SimpleAuth ==
  /\ AllSimple(AuthService.register) /\ AllSimple(AuthService.login)
  /\ AllSimple(AuthService.refresh) /\ AllSimple(AuthService.logout)
  /\ AllSimple(AuthService.me)
  <1> DEFINE email == Read({"EMAIL_ALREADY_EXISTS"})
             phone == Read({"PHONE_ALREADY_EXISTS"})
             all == Read({})
             one == Write({})
             tokens == <<one>>
             known == <<Read({"INVALID_CREDENTIALS", "ACCOUNT_BLOCKED",
                              "ACCOUNT_INACTIVE"})>>
             valid == Check({"INVALID_REFRESH_TOKEN"})
             stored == Read({"INVALID_REFRESH_TOKEN"})
             me == <<Read({"USER_NOT_FOUND"})>>
             account == <<Write(Taken)>>
             revoke == Write(Gone)
  <1>1. /\ AuthService.register = {e \o account \o tokens : e \in
             {<<email>>, <<email, phone>>}}
        /\ AuthService.login = {known \o tokens}
        /\ AuthService.refresh = {<<valid, stored, stored, revoke>> \o tokens}
        /\ AuthService.logout = {tokens, <<all, one>>}
        /\ AuthService.me = {me}
    BY DEF AuthService
  <1>2. /\ {"EMAIL_ALREADY_EXISTS"} \in SUBSET Errors
        /\ {"PHONE_ALREADY_EXISTS"} \in SUBSET Errors
        /\ {"INVALID_CREDENTIALS", "ACCOUNT_BLOCKED", "ACCOUNT_INACTIVE"} \in SUBSET Errors
        /\ {"INVALID_REFRESH_TOKEN"} \in SUBSET Errors /\ {"USER_NOT_FOUND"} \in SUBSET Errors
        /\ {} \in SUBSET Errors /\ Taken \in SUBSET Errors /\ Gone \in SUBSET Errors
    BY DEF Taken, Gone, Errors, DomainStatus, PrismaErrors
  <1>3. Simple(<<email>>) /\ Simple(<<phone>>) /\ Simple(known) /\ Simple(<<valid>>)
    BY <1>2, SimpleStatements
  <1>4. /\ Simple(<<stored>>) /\ Simple(me) /\ Simple(tokens) /\ Simple(account)
        /\ Simple(<<revoke>>) /\ Simple(<<all>>)
    BY <1>2, SimpleStatements
  <1> HIDE DEF email, phone, all, one, known, valid, stored, me, account, revoke
  <1>5. /\ Simple(<<email, phone>>) /\ Simple(<<valid, stored, stored, revoke>>)
        /\ Simple(<<all, one>>)
    BY <1>3, <1>4, SimpleTuples
  <1> HIDE DEF tokens
  <1>6. \A e \in {<<email>>, <<email, phone>>} : Simple(e \o account \o tokens)
    BY <1>3, <1>4, <1>5, SimpleJoin
  <1>7. Simple(known \o tokens) /\ Simple(<<valid, stored, stored, revoke>> \o tokens)
    BY <1>3, <1>4, <1>5, SimpleJoin
  <1> QED
    BY <1>1, <1>4, <1>5, <1>6, <1>7 DEF AllSimple

LEMMA SimpleUsers ==
  /\ AllSimple(UsersService.findAll) /\ AllSimple(UsersService.findOne)
  /\ AllSimple(UsersService.updateStatus)
  <1> DEFINE found == <<Read({"USER_NOT_FOUND"})>>
             write == <<Write(Gone)>>
  <1>1. /\ UsersService.findAll = {Reads(2)} /\ UsersService.findOne = {found}
        /\ UsersService.updateStatus = {found \o write}
    BY DEF UsersService
  <1>2. {"USER_NOT_FOUND"} \in SUBSET Errors /\ Gone \in SUBSET Errors
    BY DEF Gone, Errors, DomainStatus, PrismaErrors
  <1>3. Simple(Reads(2)) /\ Simple(found) /\ Simple(write)
    BY <1>2, SimpleStatements, SimpleReads
  <1> HIDE DEF found, write
  <1>4. Simple(found \o write)
    BY <1>3, SimpleJoin
  <1> QED
    BY <1>1, <1>3, <1>4 DEF AllSimple

LEMMA SimpleRoomTypes ==
  /\ AllSimple(RoomTypesService.findAll) /\ AllSimple(RoomTypesService.findOne)
  /\ AllSimple(RoomTypesService.create) /\ AllSimple(RoomTypesService.update)
  /\ AllSimple(RoomTypesService.remove)
  <1> DEFINE found == <<Read({"ROOM_TYPE_NOT_FOUND"})>>
             insert == <<Write(Taken)>>
             write == <<Write(Gone \cup Taken)>>
             unused == Read({"ROOM_TYPE_IN_USE"})
             delete == Write(Gone \cup Dangling)
  <1>1. /\ RoomTypesService.findAll = {Reads(1)} /\ RoomTypesService.findOne = {found}
        /\ RoomTypesService.create = {insert}
        /\ RoomTypesService.update = {found \o write}
        /\ RoomTypesService.remove = {found \o <<unused, delete>>}
    BY DEF RoomTypesService
  <1>2. /\ {"ROOM_TYPE_NOT_FOUND"} \in SUBSET Errors /\ {"ROOM_TYPE_IN_USE"} \in SUBSET Errors
        /\ Taken \in SUBSET Errors /\ Gone \cup Taken \in SUBSET Errors
        /\ Gone \cup Dangling \in SUBSET Errors
    BY DEF Gone, Taken, Dangling, Errors, DomainStatus, PrismaErrors
  <1>3. Simple(Reads(1)) /\ Simple(found) /\ Simple(insert)
    BY <1>2, SimpleStatements, SimpleReads
  <1>4. Simple(write) /\ Simple(<<unused>>) /\ Simple(<<delete>>)
    BY <1>2, SimpleStatements
  <1> HIDE DEF found, insert, write, unused, delete
  <1>5. Simple(<<unused, delete>>)
    BY <1>4, SimpleTuples
  <1>6. Simple(found \o write) /\ Simple(found \o <<unused, delete>>)
    BY <1>3, <1>4, <1>5, SimpleJoin
  <1> QED
    BY <1>1, <1>3, <1>6 DEF AllSimple

LEMMA SimpleFacilities ==
  /\ AllSimple(FacilitiesService.findAll) /\ AllSimple(FacilitiesService.findOne)
  /\ AllSimple(FacilitiesService.create) /\ AllSimple(FacilitiesService.update)
  /\ AllSimple(FacilitiesService.remove)
  <1> DEFINE found == <<Read({"FACILITY_NOT_FOUND"})>>
             insert == <<Write(Taken)>>
             write == <<Write(Gone \cup Taken)>>
             delete == <<Write(Gone)>>
  <1>1. /\ FacilitiesService.findAll = {Reads(1)} /\ FacilitiesService.findOne = {found}
        /\ FacilitiesService.create = {insert}
        /\ FacilitiesService.update = {found \o write}
        /\ FacilitiesService.remove = {found \o delete}
    BY DEF FacilitiesService
  <1>2. /\ {"FACILITY_NOT_FOUND"} \in SUBSET Errors /\ Taken \in SUBSET Errors
        /\ Gone \in SUBSET Errors /\ Gone \cup Taken \in SUBSET Errors
    BY DEF Gone, Taken, Errors, DomainStatus, PrismaErrors
  <1>3. Simple(Reads(1)) /\ Simple(found) /\ Simple(insert)
    BY <1>2, SimpleStatements, SimpleReads
  <1>4. Simple(write) /\ Simple(delete)
    BY <1>2, SimpleStatements
  <1> HIDE DEF found, insert, write, delete
  <1>5. Simple(found \o write) /\ Simple(found \o delete)
    BY <1>3, <1>4, SimpleJoin
  <1> QED
    BY <1>1, <1>3, <1>5 DEF AllSimple

LEMMA SimpleAvailability ==
  /\ AllSimple(AvailabilityService.searchAvailableRooms)
  /\ AllSimple(AvailabilityService.isRoomAvailable)
  <1> DEFINE dates == Check({"INVALID_BOOKING_DATES"})
             found == Read({"ROOM_NOT_FOUND"})
  <1>1. /\ AvailabilityService.searchAvailableRooms = {<<dates>> \o Reads(n) : n \in 1 .. 2}
        /\ AvailabilityService.isRoomAvailable =
             {<<found, dates>> \o Reads(n) : n \in 0 .. 1}
    BY DEF AvailabilityService
  <1>2. {"INVALID_BOOKING_DATES"} \in SUBSET Errors /\ {"ROOM_NOT_FOUND"} \in SUBSET Errors
    BY DEF Errors, DomainStatus
  <1>3. Simple(<<dates>>) /\ Simple(<<found>>) /\ \A n \in Nat : Simple(Reads(n))
    BY <1>2, SimpleStatements, SimpleReads
  <1> HIDE DEF dates, found
  <1>4. Simple(<<found, dates>>)
    BY <1>3, SimpleTuples
  <1>5. /\ \A n \in 1 .. 2 : Simple(<<dates>> \o Reads(n))
        /\ \A n \in 0 .. 1 : Simple(<<found, dates>> \o Reads(n))
    BY <1>3, <1>4, SimpleJoin
  <1>6. ASSUME NEW p \in AvailabilityService.searchAvailableRooms PROVE Simple(p)
    BY <1>1, <1>5, Zenon
  <1>7. ASSUME NEW p \in AvailabilityService.isRoomAvailable PROVE Simple(p)
    BY <1>1, <1>5, Zenon
  <1> QED
    BY <1>6, <1>7 DEF AllSimple

LEMMA SimpleOffers ==
  /\ AllSimple(OffersService.findAllPublic) /\ AllSimple(OffersService.findAllAdmin)
  /\ AllSimple(OffersService.findOne) /\ AllSimple(OffersService.create)
  /\ AllSimple(OffersService.update) /\ AllSimple(OffersService.remove)
  <1> DEFINE found == <<Read({"OFFER_NOT_FOUND"})>>
             rules == <<Check({"BAD_REQUEST"})>>
             insert == Write(Dangling)
             insertFor == WriteRow("room", "share", Dangling)
             write == Write(Gone \cup Dangling)
             writeFor == WriteRow("room", "share", Gone \cup Dangling)
             delete == <<Write(Gone)>>
  <1>1. /\ OffersService.findAllPublic = {Reads(2)} /\ OffersService.findAllAdmin = {Reads(2)}
        /\ OffersService.findOne = {found}
        /\ OffersService.create = {rules \o <<w>> : w \in {insert, insertFor}}
        /\ OffersService.update = {found \o rules \o <<w>> : w \in {write, writeFor}}
        /\ OffersService.remove = {found \o delete}
    BY DEF OffersService
  <1>2. /\ {"OFFER_NOT_FOUND"} \in SUBSET Errors /\ {"BAD_REQUEST"} \in SUBSET Errors
        /\ Dangling \in SUBSET Errors /\ Gone \cup Dangling \in SUBSET Errors
        /\ Gone \in SUBSET Errors /\ "room" \in Row /\ "share" \in Mode
    BY DEF Gone, Dangling, Errors, DomainStatus, HttpStatus, PrismaErrors, Row, Mode
  <1>3. Simple(Reads(2)) /\ Simple(found) /\ Simple(rules) /\ Simple(delete)
    BY <1>2, SimpleStatements, SimpleReads
  <1>4. Simple(<<insert>>) /\ Simple(<<write>>) /\ Simple(<<insertFor>>) /\ Simple(<<writeFor>>)
    BY <1>2, SimpleStatements
  <1> HIDE DEF found, rules, insert, insertFor, write, writeFor, delete
  <1>5. \A w \in {insert, insertFor} : Simple(rules \o <<w>>)
    BY <1>3, <1>4, SimpleJoin
  <1>6. \A w \in {write, writeFor} : Simple(found \o rules \o <<w>>)
    BY <1>3, <1>4, SimpleJoin
  <1>7. Simple(found \o delete)
    BY <1>3, SimpleJoin
  <1> QED
    BY <1>1, <1>3, <1>5, <1>6, <1>7 DEF AllSimple

LEMMA SimpleOthers ==
  AllSimple(DashboardService.getStats) /\ AllSimple(UploadsService.readLocalFile)
  <1>1. {"NOT_FOUND"} \in SUBSET Errors
    BY DEF Errors, HttpStatus
  <1>2. Simple(Reads(9)) /\ Simple(<<Check({"NOT_FOUND"})>>)
    BY <1>1, SimpleStatements, SimpleReads
  <1> QED
    BY <1>2 DEF AllSimple, DashboardService, UploadsService

LEMMA SimpleRooms ==
  /\ AllSimple(RoomsService.findAll) /\ AllSimple(RoomsService.findOne)
  /\ AllSimple(RoomsService.create) /\ AllSimple(RoomsService.remove)
  /\ AllSimple(RoomsService.addImages) /\ AllSimple(RoomsService.removeImage)
  <1> DEFINE found == <<Read({"ROOM_NOT_FOUND"})>>
             roomType == <<Read({"ROOM_TYPE_NOT_FOUND"})>>
             number == <<Read({"ROOM_NUMBER_EXISTS"})>>
             image == <<Read({"ROOM_IMAGE_NOT_FOUND"})>>
             insert == <<Write(Taken \cup Dangling)>>
             disable == <<WriteRow("room", "nokey", Gone)>>
             uploaded == <<Check({"UPLOAD_FAILED"})>>
             insertImages == <<WriteRow("room", "share", {})>>
             delete == <<WriteRow("image1", "update", Gone)>>
             mark == <<WriteRow("image2", "nokey", Gone)>>
             again == Reads(1)
             two == Reads(2)
             Nexts == {<<>>, again, again \o mark}
  <1>1. /\ RoomsService.findAll = {two} /\ RoomsService.findOne = {found}
        /\ RoomsService.create = {roomType \o number \o insert}
        /\ RoomsService.remove = {found \o disable}
        /\ RoomsService.addImages = {found \o uploaded \o two \o insertImages \o again}
    BY DEF RoomsService
  <1>2. RoomsService.removeImage =
          {found \o image \o delete \o next \o again : next \in Nexts}
    BY DEF RoomsService
  <1>3. /\ {"ROOM_NOT_FOUND"} \in SUBSET Errors /\ {"ROOM_TYPE_NOT_FOUND"} \in SUBSET Errors
        /\ {"ROOM_NUMBER_EXISTS"} \in SUBSET Errors
        /\ {"ROOM_IMAGE_NOT_FOUND"} \in SUBSET Errors
        /\ {"UPLOAD_FAILED"} \in SUBSET Errors /\ {} \in SUBSET Errors
        /\ Taken \cup Dangling \in SUBSET Errors /\ Gone \in SUBSET Errors
    BY DEF Taken, Gone, Dangling, Errors, DomainStatus, PrismaErrors
  <1>4. /\ "room" \in Row /\ "image1" \in Row /\ "image2" \in Row
        /\ "share" \in Mode /\ "nokey" \in Mode /\ "update" \in Mode
    BY DEF Row, Mode
  <1>5. Simple(found) /\ Simple(roomType) /\ Simple(number) /\ Simple(image)
    BY <1>3, SimpleStatements
  <1>6. Simple(insert) /\ Simple(uploaded) /\ Simple(again) /\ Simple(two) /\ Simple(<<>>)
    BY <1>3, SimpleStatements, SimpleReads
  <1>7. Simple(disable) /\ Simple(insertImages) /\ Simple(delete) /\ Simple(mark)
    BY <1>3, <1>4, SimpleStatements
  <1> HIDE DEF found, roomType, number, image, insert, disable, uploaded, insertImages, delete,
               mark, again, two
  <1>8. Simple(roomType \o number \o insert) /\ Simple(found \o disable)
    BY <1>5, <1>6, <1>7, SimpleJoin
  <1>9. Simple(found \o uploaded \o two \o insertImages \o again)
    <2>1. Simple(found \o uploaded \o two)
      BY <1>5, <1>6, SimpleJoin
    <2> QED
      BY <1>6, <1>7, <2>1, SimpleJoin
  <1>10. Simple(found \o image \o delete)
    BY <1>5, <1>7, SimpleJoin
  <1>11. \A next \in Nexts : Simple(next)
    BY <1>6, <1>7, SimpleJoin
  <1> HIDE DEF Nexts
  <1>12. ASSUME NEW next \in Nexts PROVE Simple(found \o image \o delete \o next \o again)
    BY <1>6, <1>10, <1>11, SimpleJoin
  <1>13. AllSimple(RoomsService.removeImage)
    BY <1>2, <1>12 DEF AllSimple
  <1> QED
    BY <1>1, <1>5, <1>6, <1>8, <1>9, <1>13 DEF AllSimple

LEMMA SimpleBookings ==
  /\ AllSimple(BookingsService.findMyBookings) /\ AllSimple(BookingsService.findOne)
  /\ AllSimple(BookingsService.findAllAdmin) /\ AllSimple(BookingsService.findOneAdmin)
  <1> DEFINE booking == Read({"BOOKING_NOT_FOUND"})
             own == Check({"FORBIDDEN"})
             two == Reads(2)
  <1>1. /\ BookingsService.findMyBookings = {two}
        /\ BookingsService.findOne = {<<booking, own>>}
        /\ BookingsService.findAllAdmin = {two}
        /\ BookingsService.findOneAdmin = {<<booking>>}
    BY DEF BookingsService
  <1>2. {"BOOKING_NOT_FOUND"} \in SUBSET Errors /\ {"FORBIDDEN"} \in SUBSET Errors
    BY DEF Errors, DomainStatus
  <1>3. Simple(<<booking>>) /\ Simple(<<own>>) /\ Simple(two)
    BY <1>2, SimpleStatements, SimpleReads
  <1> HIDE DEF booking, own, two
  <1>4. Simple(<<booking, own>>)
    BY <1>3, SimpleTuples
  <1> QED
    BY <1>1, <1>3, <1>4 DEF AllSimple

-----------------------------------------------------------------------------
\* The parts of the plans with a transaction.
Free(p) == p \in Seq(Calm({}))

LEMMA FreeStatements ==
  ASSUME NEW errors \in SUBSET Errors
  PROVE  /\ Free(<<Check(errors)>>) /\ Free(<<Read(errors)>>) /\ Free(<<InTx(errors)>>)
         /\ Free(<<Commit>>)
  <1>1. /\ Check(errors) \in Calm({}) /\ Commit \in Calm({})
    BY CheckType, CommitType DEF Calm
  <1>2. /\ Read(errors).locks = {} /\ InTx(errors).locks = {}
    BY DoesType DEF Read, InTx
  <1>3. Read(errors) \in Calm({}) /\ InTx(errors) \in Calm({})
    BY <1>2, ReadType, InTxType DEF Calm
  <1> QED
    BY <1>1, <1>3 DEF Free

LEMMA FreeReads ==
  Free(<<>>) /\ \A n \in Nat : Free(Reads(n))
  <1>1. {} \in SUBSET Errors
    OBVIOUS
  <1>2. Free(<<Read({})>>)
    BY <1>1, FreeStatements
  <1>3. Read({}) \in Calm({})
    BY <1>2 DEF Free
  <1> QED
    BY <1>3 DEF Free, Reads

LEMMA FreeJoin ==
  ASSUME NEW p, NEW q, Free(p), Free(q)
  PROVE  Free(p \o q)
  BY ConcatProperties DEF Free

LEMMA FreeTuples ==
  ASSUME NEW r, NEW s, NEW t, NEW u, Free(<<r>>), Free(<<s>>), Free(<<t>>)
  PROVE  Free(<<r, s>>) /\ Free(<<r, s, t>>) /\ (Free(<<u>>) => Free(<<r, s, t, u>>))
  <1>1. r \in Calm({}) /\ s \in Calm({}) /\ t \in Calm({})
    BY DEF Free
  <1>2. ASSUME Free(<<u>>) PROVE u \in Calm({})
    BY <1>2 DEF Free
  <1> QED
    BY <1>1, <1>2 DEF Free

LEMMA LockingOne ==
  ASSUME NEW name, NEW errors \in SUBSET Errors, NEW row \in Row, NEW mode \in Mode
  PROVE  Locking(name, <<Lock(row, mode, errors)>>, {<<row, mode>>})
  <1> DEFINE K == {<<row, mode>>}
             s == Lock(row, mode, errors)
  <1>1. InTx(errors) \in Statement /\ K \in SUBSET (Row \X Mode)
    BY InTxType
  <1>2. s = [InTx(errors) EXCEPT !.locks = K]
    BY DEF Lock
  <1>3. s \in Statement /\ s.on = "tx"
    BY LockType
  <1> HIDE DEF K, s
  <1>4. s.locks = K
    BY <1>1, <1>2, LocksType
  <1>5. s \in Calm(K)
    BY <1>3, <1>4 DEF Calm
  <1>6. <<s>> \in Seq(Calm(K)) /\ Ordered(name, <<s>>)
    BY <1>5, Alone
  <1> QED
    BY <1>6 DEF Locking, K, s

LEMMA LockingWider ==
  ASSUME NEW name, NEW K, NEW L, NEW p, K \subseteq L, Locking(name, p, K)
  PROVE  Locking(name, p, L)
  <1>1. Calm(K) \subseteq Calm(L)
    BY DEF Calm
  <1> QED
    BY <1>1, WiderSeq, Zenon DEF Locking

\* A part that locks K, and one that locks nothing more behind it.
LEMMA LockingThenFree ==
  ASSUME NEW name, NEW K, NEW p, NEW q, Free(q)
  PROVE  /\ Locking(name, p, K) => Locking(name, p \o q, K)
         /\ Opened(name, p, K) => Opened(name, p \o q, K)
  <1>1. Locking(name, q, {})
    BY FreeLocking DEF Free
  <1> DEFINE no == {}
  <1>2. Locking(name, q, no) /\ K \cup no = K /\ \A k \in K, l \in no : ComesAfter(name, k, l)
    BY <1>1
  <1> HIDE DEF no
  <1>3. /\ Locking(name, p, K) => Locking(name, p \o q, K \cup no)
        /\ Opened(name, p, K) => Opened(name, p \o q, K \cup no)
    BY <1>2, LockingJoin
  <1> QED
    BY <1>2, <1>3

LEMMA FreeThenLocking ==
  ASSUME NEW name, NEW K, NEW p, NEW q, Free(p)
  PROVE  /\ Locking(name, q, K) => Locking(name, p \o q, K)
         /\ Opened(name, q, K) => Opened(name, p \o q, K)
  <1>1. Locking(name, p, {})
    BY FreeLocking DEF Free
  <1> DEFINE no == {}
  <1>2. Locking(name, p, no) /\ no \cup K = K /\ \A k \in no, l \in K : ComesAfter(name, k, l)
    BY <1>1
  <1> HIDE DEF no
  <1>3. Locking(name, q, K) => Locking(name, p \o q, no \cup K)
    BY <1>2, LockingJoin
  <1>4. Opened(name, q, K) => Opened(name, p \o q, K)
    BY <1>1, FreeFront
  <1> QED
    BY <1>2, <1>3, <1>4

LEMMA OpenedBegin ==
  ASSUME NEW name
  PROVE  Opened(name, <<Begin>>, {})
  BY Alone DEF Opened

\* One statement in front of others.
LEMMA OpenedFronts ==
  ASSUME NEW name, NEW K, NEW r, NEW s, NEW t, NEW u, Free(<<r>>)
  PROVE  /\ Opened(name, <<s>>, K) => Opened(name, <<r, s>>, K)
         /\ Opened(name, <<s, t>>, K) => Opened(name, <<r, s, t>>, K)
         /\ Opened(name, <<s, t, u>>, K) => Opened(name, <<r, s, t, u>>, K)
  <1>1. PICK p : p = <<r>>
    OBVIOUS
  <1>2. Free(p)
    BY <1>1
  <1>3. ASSUME Opened(name, <<s>>, K) PROVE Opened(name, <<r, s>>, K)
    <2>1. PICK q : q = <<s>>
      OBVIOUS
    <2>2. Opened(name, p \o q, K)
      BY <1>2, <1>3, <2>1, FreeThenLocking
    <2> QED
      BY <1>1, <2>1, <2>2, Tuples
  <1>4. ASSUME Opened(name, <<s, t>>, K) PROVE Opened(name, <<r, s, t>>, K)
    <2>1. PICK q : q = <<s, t>>
      OBVIOUS
    <2>2. Opened(name, p \o q, K)
      BY <1>2, <1>4, <2>1, FreeThenLocking
    <2>3. <<r, s, t>> = <<r>> \o <<s, t>>
      BY Tuples
    <2> QED
      BY <1>1, <2>1, <2>2, <2>3
  <1>5. ASSUME Opened(name, <<s, t, u>>, K) PROVE Opened(name, <<r, s, t, u>>, K)
    <2>1. PICK q : q = <<s, t, u>>
      OBVIOUS
    <2>2. Opened(name, p \o q, K)
      BY <1>2, <1>5, <2>1, FreeThenLocking
    <2>3. <<r, s, t, u>> = <<r>> \o <<s, t, u>>
      BY Tuples
    <2> QED
      BY <1>1, <2>1, <2>2, <2>3
  <1> QED
    BY <1>3, <1>4, <1>5

\* The rows that LockEach locks for an update.
LEMMA LockEachOf ==
  ASSUME NEW name, NEW r \in Row, NEW s \in Row,
         ComesAfter(name, <<r, "update">>, <<s, "update">>)
  PROVE  /\ Locking(name, LockEach(<<r>>), {<<r, "update">>})
         /\ Locking(name, LockEach(<<r, s>>), {<<r, "update">>, <<s, "update">>})
  <1> DEFINE p == <<Lock(r, "update", {})>>
             q == <<Lock(s, "update", {})>>
             K == {<<r, "update">>}
             L == {<<s, "update">>}
             both == {<<r, "update">>, <<s, "update">>}
  <1>1. "update" \in Mode /\ {} \in SUBSET Errors
    BY DEF Mode
  <1>2. Locking(name, p, K) /\ Locking(name, q, L)
    BY <1>1, LockingOne
  <1>3. LockEach(<<r>>) = p
    BY DEF LockEach
  <1>4. LockEach(<<r, s>>) = <<Lock(r, "update", {}), Lock(s, "update", {})>>
    BY DEF LockEach
  <1>5. LockEach(<<r, s>>) = p \o q
    BY <1>4, Tuples
  <1>6. \A k \in K, l \in L : ComesAfter(name, k, l)
    OBVIOUS
  <1>7. K \cup L = both
    OBVIOUS
  <1> HIDE DEF p, q, K, L, both
  <1>8. Locking(name, p \o q, K \cup L)
    BY <1>2, <1>6, LockingJoin
  <1>9. Locking(name, LockEach(<<r>>), K) /\ Locking(name, LockEach(<<r, s>>), both)
    BY <1>2, <1>3, <1>5, <1>7, <1>8
  <1> QED
    BY <1>9 DEF K, both

AllOrdered(name, plans) == \A p \in plans : Ordered(name, p)

\* The update of a room's row and its facilities.
LEMMA RoomsUpdateOrder ==
  AllOrdered(<<"rooms", "update">>, RoomsService.update)
  <1> DEFINE name == <<"rooms", "update">>
             found == <<Read({"ROOM_NOT_FOUND"})>>
             roomType == <<Read({"ROOM_TYPE_NOT_FOUND"})>>
             number == <<Read({"ROOM_NUMBER_EXISTS"})>>
             delete == <<InTx({})>>
             refer == <<Lock("room", "share", Taken \cup Dangling)>>
             Links == {<<"link1">>, <<"link2">>, <<"link1", "link2">>, <<"link2", "link1">>}
             facilities == {<<>>, delete} \cup
               {delete \o LockEach(links) \o refer : links \in Links}
             row(mode) == <<Lock("room", mode, Taken \cup Dangling), Commit>>
             begin == <<Begin>>
             Modes == {"nokey", "update"}
             sameNumber == {begin \o fs \o row("nokey") : fs \in facilities}
             newNumber == {number \o begin \o fs \o row(mode) :
                             fs \in facilities, mode \in Modes}
             rests == sameNumber \cup newNumber
             types == {<<>>, roomType}
             updates == {found \o type \o rest : type \in types, rest \in rests}
             L == {<<"link1", "update">>, <<"link2", "update">>}
             R == {<<"room", "share">>}
             M(mode) == {<<"room", mode>>}
  <1>1. RoomsService.update = updates
    BY DEF RoomsService
  <1>2. /\ {"ROOM_NOT_FOUND"} \in SUBSET Errors /\ {"ROOM_TYPE_NOT_FOUND"} \in SUBSET Errors
        /\ {"ROOM_NUMBER_EXISTS"} \in SUBSET Errors /\ {} \in SUBSET Errors
        /\ Taken \cup Dangling \in SUBSET Errors
    BY DEF Taken, Dangling, Errors, DomainStatus, PrismaErrors
  <1>3. /\ "room" \in Row /\ "link1" \in Row /\ "link2" \in Row
        /\ "share" \in Mode /\ "nokey" \in Mode /\ "update" \in Mode
    BY DEF Row, Mode
  <1>4. /\ Free(found) /\ Free(roomType) /\ Free(number) /\ Free(<<>>) /\ Free(delete)
        /\ Free(<<Commit>>)
    BY <1>2, FreeStatements, FreeReads
  <1>5. Locking(name, refer, R)
    BY <1>2, <1>3, LockingOne
  <1>6. ASSUME NEW mode \in Modes PROVE Locking(name, row(mode), M(mode))
    <2>1. PICK p, q : p = <<Lock("room", mode, Taken \cup Dangling)>> /\ q = <<Commit>>
      OBVIOUS
    <2>2. Locking(name, p, M(mode)) /\ Free(q)
      BY <1>2, <1>3, <1>4, <2>1, LockingOne
    <2>3. Locking(name, p \o q, M(mode))
      BY <2>2, LockingThenFree
    <2>4. row(mode) = p \o q
      BY <2>1, Tuples
    <2> QED
      BY <2>3, <2>4
  <1>7. ASSUME NEW links \in Links PROVE Locking(name, LockEach(links), L)
    <2>1. /\ ComesAfter(name, <<"link1", "update">>, <<"link2", "update">>)
          /\ ComesAfter(name, <<"link2", "update">>, <<"link1", "update">>)
      BY DEF ComesAfter, LinkRows
    <2> HIDE DEF name
    <2> DEFINE A == {<<"link1", "update">>}
               B == {<<"link2", "update">>}
               C == {<<"link2", "update">>, <<"link1", "update">>}
    <2>2. /\ Locking(name, LockEach(<<"link1">>), A)
          /\ Locking(name, LockEach(<<"link1", "link2">>), L)
      BY <1>3, <2>1, LockEachOf
    <2>3. /\ Locking(name, LockEach(<<"link2">>), B)
          /\ Locking(name, LockEach(<<"link2", "link1">>), C)
      BY <1>3, <2>1, LockEachOf
    <2>4. A \subseteq L /\ B \subseteq L /\ C = L
      OBVIOUS
    <2> HIDE DEF A, B, C, L
    <2>5. Locking(name, LockEach(<<"link1">>), L) /\ Locking(name, LockEach(<<"link2">>), L)
      BY <2>2, <2>3, <2>4, LockingWider
    <2>6. Locking(name, LockEach(<<"link2", "link1">>), L)
      BY <2>3, <2>4
    <2> QED
      BY <2>2, <2>5, <2>6
  <1>8. \A k \in L, l \in R : ComesAfter(name, k, l)
    BY DEF ComesAfter, LinkRows
  <1>9. \A mode \in Modes : \A k \in L \cup R, l \in M(mode) : ComesAfter(name, k, l)
    BY DEF ComesAfter, LinkRows
  <1> HIDE DEF name, found, roomType, number, delete, refer, begin, Links, row, L, R, M
  <1>10. \A fs \in facilities : Locking(name, fs, L \cup R)
    <2>1. ASSUME NEW links \in Links
          PROVE  Locking(name, delete \o LockEach(links) \o refer, L \cup R)
      <3>1. Locking(name, delete \o LockEach(links), L)
        BY <1>4, <1>7, FreeThenLocking
      <3> QED
        BY <1>5, <1>8, <3>1, LockingJoin
    <2>2. \A p : Free(p) => Locking(name, p, L \cup R)
      <3>1. \A p : Free(p) => Locking(name, p, {})
        BY FreeLocking DEF Free
      <3>2. {} \subseteq L \cup R
        OBVIOUS
      <3> QED
        BY <3>1, <3>2, LockingWider, Zenon
    <2>3. Locking(name, <<>>, L \cup R) /\ Locking(name, delete, L \cup R)
      BY <1>4, <2>2
    <2> QED
      BY <2>1, <2>3
  <1> HIDE DEF facilities
  <1>11. ASSUME NEW fs \in facilities, NEW mode \in Modes
         PROVE  /\ Opened(name, begin \o fs \o row(mode), (L \cup R) \cup M(mode))
                /\ Opened(name, number \o begin \o fs \o row(mode), (L \cup R) \cup M(mode))
    <2>1. Opened(name, begin, {})
      BY OpenedBegin DEF begin
    <2>2. Opened(name, number \o begin, {})
      BY <1>4, <2>1, FreeThenLocking
    <2>3. Locking(name, fs, L \cup R) /\ Locking(name, row(mode), M(mode))
      BY <1>6, <1>10
    <2> DEFINE no == {}
               K == L \cup R
    <2>4. /\ Opened(name, begin, no) /\ Opened(name, number \o begin, no)
          /\ \A k \in no, l \in K : ComesAfter(name, k, l)
          /\ no \cup K = K
      BY <2>1, <2>2
    <2>5. Locking(name, fs, K) /\ \A k \in K, l \in M(mode) : ComesAfter(name, k, l)
      BY <1>9, <2>3
    <2> HIDE DEF no, K
    <2>6. Opened(name, begin \o fs, no \cup K) /\ Opened(name, number \o begin \o fs, no \cup K)
      BY <2>4, <2>5, LockingJoin
    <2>7. Opened(name, begin \o fs, K) /\ Opened(name, number \o begin \o fs, K)
      BY <2>4, <2>6
    <2>8. /\ Opened(name, begin \o fs \o row(mode), K \cup M(mode))
          /\ Opened(name, number \o begin \o fs \o row(mode), K \cup M(mode))
      BY <2>3, <2>5, <2>7, LockingJoin
    <2> QED
      BY <2>8 DEF K
  <1> DEFINE InOrder(p) == \E K : Opened(name, p, K)
  <1>i. \A p, K : Opened(name, p, K) => InOrder(p)
    OBVIOUS
  <1> HIDE DEF InOrder
  <1>12. ASSUME NEW rest \in rests PROVE InOrder(rest)
    <2>1. "nokey" \in Modes
      OBVIOUS
    <2> HIDE DEF Modes
    <2>2. ASSUME NEW p \in sameNumber PROVE InOrder(p)
      <3>1. PICK fs \in facilities : p = begin \o fs \o row("nokey")
        OBVIOUS
      <3>2. Opened(name, p, (L \cup R) \cup M("nokey"))
        BY <1>11, <2>1, <3>1
      <3> QED
        BY <1>i, <3>2
    <2>3. ASSUME NEW p \in newNumber PROVE InOrder(p)
      <3>1. PICK fs \in facilities, mode \in Modes : p = number \o begin \o fs \o row(mode)
        OBVIOUS
      <3>2. Opened(name, p, (L \cup R) \cup M(mode))
        BY <1>11, <3>1
      <3> QED
        BY <1>i, <3>2
    <2> HIDE DEF sameNumber, newNumber
    <2> QED
      BY <2>2, <2>3
  <1> HIDE DEF rests
  <1>13. \A type \in types : Free(found \o type)
    BY <1>4, FreeJoin
  <1> HIDE DEF types
  <1>14. ASSUME NEW type \in types, NEW rest \in rests
         PROVE  Ordered(name, found \o type \o rest)
    <2>1. PICK K : Opened(name, rest, K)
      BY <1>12 DEF InOrder
    <2>2. Opened(name, found \o type \o rest, K)
      BY <1>13, <2>1, FreeThenLocking
    <2> QED
      BY <2>2 DEF Opened
  <1>15. ASSUME NEW p \in updates PROVE Ordered(name, p)
    <2>1. PICK type \in types, rest \in rests : p = found \o type \o rest
      OBVIOUS
    <2> QED
      BY <1>14, <2>1
  <1> HIDE DEF updates
  <1>16. AllOrdered(name, RoomsService.update)
    BY <1>1, <1>15 DEF AllOrdered
  <1> QED
    BY <1>16 DEF name

LEMMA OrderedOpened ==
  ASSUME NEW name, NEW K, NEW p, Opened(name, p, K)
  PROVE  Ordered(name, p)
  BY DEF Opened

\* The changes of a room's images.
LEMMA ImagesOrder ==
  /\ AllOrdered(<<"rooms", "setPrimaryImage">>, RoomsService.setPrimaryImage)
  /\ AllOrdered(<<"rooms", "reorderImages">>, RoomsService.reorderImages)
  <1> DEFINE Names == {<<"rooms", "setPrimaryImage">>, <<"rooms", "reorderImages">>}
             found == <<Read({"ROOM_NOT_FOUND"})>>
             image == <<Read({"ROOM_IMAGE_NOT_FOUND"})>>
             begin == <<Begin>>
             commit == <<Commit>>
             first == <<Lock("image1", "nokey", Gone)>>
             mark == <<Lock("image1", "nokey", Gone), Commit>>
             eachImage == {LockEach(<<"image1", "image2">>), LockEach(<<"image2", "image1">>)}
             again == Reads(1)
             I == {<<"image1", "update">>, <<"image2", "update">>}
             F == {<<"image1", "nokey">>}
  <1>1. /\ RoomsService.setPrimaryImage =
             {found \o image \o begin \o images \o mark \o again : images \in eachImage}
        /\ RoomsService.reorderImages =
             {found \o begin \o images \o commit \o again : images \in eachImage}
    BY DEF RoomsService
  <1>2. /\ {"ROOM_NOT_FOUND"} \in SUBSET Errors /\ {"ROOM_IMAGE_NOT_FOUND"} \in SUBSET Errors
        /\ {} \in SUBSET Errors /\ Gone \in SUBSET Errors
    BY DEF Gone, Errors, DomainStatus, PrismaErrors
  <1>3. "image1" \in Row /\ "image2" \in Row /\ "nokey" \in Mode
    BY DEF Row, Mode
  <1>4. Free(found) /\ Free(image) /\ Free(commit) /\ Free(again)
    BY <1>2, FreeStatements, FreeReads
  <1>5. mark = first \o commit
    BY Tuples
  <1>6. ASSUME NEW name \in Names
        PROVE  /\ ComesAfter(name, <<"image1", "update">>, <<"image2", "update">>)
               /\ ComesAfter(name, <<"image2", "update">>, <<"image1", "update">>)
               /\ \A k \in I, l \in F : ComesAfter(name, k, l)
    BY DEF ComesAfter, ImageRows
  <1>7. ASSUME NEW name \in Names, NEW images \in eachImage
        PROVE  Locking(name, images, I)
    <2> HIDE DEF Names
    <2>1. Locking(name, LockEach(<<"image1", "image2">>), I)
      BY <1>3, <1>6, LockEachOf
    <2> DEFINE J == {<<"image2", "update">>, <<"image1", "update">>}
    <2>2. Locking(name, LockEach(<<"image2", "image1">>), J)
      BY <1>3, <1>6, LockEachOf
    <2>3. J = I
      OBVIOUS
    <2> HIDE DEF I, J
    <2> QED
      BY <2>1, <2>2, <2>3
  <1>8. ASSUME NEW name PROVE Locking(name, first, F) /\ Opened(name, begin, {})
    BY <1>2, <1>3, LockingOne, OpenedBegin
  <1>9. <<"rooms", "setPrimaryImage">> \in Names /\ <<"rooms", "reorderImages">> \in Names
    OBVIOUS
  <1> HIDE DEF Names, found, image, begin, commit, first, mark, eachImage, again, I, F
  <1>10. ASSUME NEW name \in Names, NEW images \in eachImage
         PROVE  /\ Ordered(name, found \o image \o begin \o images \o mark \o again)
                /\ Ordered(name, found \o begin \o images \o commit \o again)
    <2> DEFINE no == {}
    <2>1. /\ Opened(name, begin, no) /\ no \cup I = I
          /\ \A k \in no, l \in I : ComesAfter(name, k, l)
      BY <1>8
    <2> HIDE DEF no
    <2>2. Free(found \o image)
      BY <1>4, FreeJoin
    <2>3. Opened(name, found \o image \o begin, no) /\ Opened(name, found \o begin, no)
      BY <1>4, <2>1, <2>2, FreeThenLocking
    <2>4. /\ Opened(name, found \o image \o begin \o images, no \cup I)
          /\ Opened(name, found \o begin \o images, no \cup I)
      BY <1>7, <2>1, <2>3, LockingJoin
    <2>5. /\ Opened(name, found \o image \o begin \o images, I)
          /\ Opened(name, found \o begin \o images, I)
      BY <2>1, <2>4
    <2>6. Locking(name, mark, F)
      BY <1>4, <1>5, <1>8, LockingThenFree
    <2>7. Opened(name, found \o image \o begin \o images \o mark, I \cup F)
      BY <1>6, <2>5, <2>6, LockingJoin
    <2>8. Opened(name, found \o begin \o images \o commit, I)
      BY <1>4, <2>5, LockingThenFree
    <2>9. /\ Opened(name, found \o image \o begin \o images \o mark \o again, I \cup F)
          /\ Opened(name, found \o begin \o images \o commit \o again, I)
      BY <1>4, <2>7, <2>8, LockingThenFree
    <2> QED
      BY <2>9, OrderedOpened
  <1>11. AllOrdered(<<"rooms", "setPrimaryImage">>, RoomsService.setPrimaryImage)
    BY <1>1, <1>9, <1>10 DEF AllOrdered
  <1>12. AllOrdered(<<"rooms", "reorderImages">>, RoomsService.reorderImages)
    BY <1>1, <1>9, <1>10 DEF AllOrdered
  <1> QED
    BY <1>11, <1>12

\* A booking's transactions lock the room alone, if any row.
LEMMA BookingsOrder ==
  ASSUME NEW name
  PROVE  /\ AllOrdered(name, BookingsService.create)
         /\ AllOrdered(name, BookingsService.cancelOwn)
         /\ AllOrdered(name, BookingsService.cancelAsAdmin)
         /\ AllOrdered(name, BookingsService.approve)
         /\ AllOrdered(name, BookingsService.reject)
  <1> DEFINE dates == Check({"INVALID_BOOKING_DATES"})
             begin == Begin
             room == InTx({"ROOM_NOT_FOUND", "ROOM_INACTIVE", "ROOM_UNDER_MAINTENANCE",
                           "ROOM_CAPACITY_EXCEEDED"})
             lock == <<Lock("room", "update", {})>>
             available == <<InTx({"ROOM_NOT_AVAILABLE"})>>
             offer == Reads(1)
             step == InTx({})
             insert == InTx(Taken \cup Dangling)
             commit == Commit
             pending == InTx({"BOOKING_NOT_FOUND", "BOOKING_ALREADY_PROCESSED"})
             booking == Read({"BOOKING_NOT_FOUND"})
             own == Check({"FORBIDDEN"})
             inTime == Check({"BOOKING_NOT_CANCELLABLE"})
             unprocessed == Read({"BOOKING_NOT_FOUND", "BOOKING_ALREADY_PROCESSED"})
             writing == <<step, step, commit>>
             stay == <<step, insert, step, commit>>
             locked == lock \o available
             no == {}
             K == {<<"room", "update">>}
  <1>1. /\ BookingsService.create = {<<dates, begin, room>> \o locked \o offer \o stay}
        /\ BookingsService.cancelOwn = {<<booking, own, inTime, begin>> \o writing}
        /\ BookingsService.cancelAsAdmin = {<<unprocessed, begin>> \o writing}
    BY DEF BookingsService, LockRoomForUpdate
  <1>2. /\ BookingsService.approve = {<<begin, pending>> \o locked \o writing}
        /\ BookingsService.reject = {<<begin, pending>> \o writing}
    BY DEF BookingsService, LockRoomForUpdate
  <1>3. /\ {"INVALID_BOOKING_DATES"} \in SUBSET Errors
        /\ {"ROOM_NOT_FOUND", "ROOM_INACTIVE", "ROOM_UNDER_MAINTENANCE",
            "ROOM_CAPACITY_EXCEEDED"} \in SUBSET Errors
        /\ {"ROOM_NOT_AVAILABLE"} \in SUBSET Errors /\ {} \in SUBSET Errors
        /\ Taken \cup Dangling \in SUBSET Errors
    BY DEF Taken, Dangling, Errors, DomainStatus, PrismaErrors
  <1>4. /\ {"BOOKING_NOT_FOUND", "BOOKING_ALREADY_PROCESSED"} \in SUBSET Errors
        /\ {"BOOKING_NOT_FOUND"} \in SUBSET Errors /\ {"FORBIDDEN"} \in SUBSET Errors
        /\ {"BOOKING_NOT_CANCELLABLE"} \in SUBSET Errors
    BY DEF Errors, DomainStatus
  <1>5. "room" \in Row /\ "update" \in Mode
    BY DEF Row, Mode
  <1>6. Free(<<dates>>) /\ Free(<<booking>>) /\ Free(<<own>>) /\ Free(<<inTime>>)
    BY <1>3, <1>4, FreeStatements
  <1>7. Free(<<unprocessed>>) /\ Free(<<room>>) /\ Free(available) /\ Free(<<step>>)
    BY <1>3, <1>4, FreeStatements
  <1>8. Free(<<insert>>) /\ Free(<<pending>>) /\ Free(<<commit>>) /\ Free(offer)
    BY <1>3, <1>4, FreeStatements, FreeReads
  <1>9. Locking(name, lock, K) /\ Opened(name, <<begin>>, no)
    BY <1>3, <1>5, LockingOne, OpenedBegin
  <1>10. no \cup K = K /\ \A k \in no, l \in K : ComesAfter(name, k, l)
    OBVIOUS
  <1> HIDE DEF dates, begin, room, lock, available, offer, step, insert, commit, pending, booking,
               own, inTime, unprocessed, no, K
  <1>11. Free(writing) /\ Free(stay)
    BY <1>7, <1>8, FreeTuples
  <1>12. Locking(name, locked, K)
    BY <1>7, <1>9, LockingThenFree
  <1>13. Opened(name, <<begin, room>>, no) /\ Opened(name, <<begin, pending>>, no)
    <2>1. /\ Opened(name, <<begin>> \o <<room>>, no)
          /\ Opened(name, <<begin>> \o <<pending>>, no)
      BY <1>7, <1>8, <1>9, LockingThenFree
    <2>2. <<begin, room>> = <<begin>> \o <<room>> /\ <<begin, pending>> = <<begin>> \o <<pending>>
      BY Tuples
    <2> QED
      BY <2>1, <2>2
  <1>14. Opened(name, <<dates, begin, room>>, no) /\ Opened(name, <<unprocessed, begin>>, no)
    BY <1>6, <1>7, <1>9, <1>13, OpenedFronts
  <1>15. Opened(name, <<booking, own, inTime, begin>>, no)
    <2>1. Opened(name, <<inTime, begin>>, no)
      BY <1>6, <1>9, OpenedFronts
    <2>2. Opened(name, <<own, inTime, begin>>, no)
      BY <1>6, <2>1, OpenedFronts
    <2> QED
      BY <1>6, <2>2, OpenedFronts
  <1> DEFINE arriving == <<dates, begin, room>>
             reading == <<begin, pending>>
             cancelling == <<booking, own, inTime, begin>>
             cancellingAny == <<unprocessed, begin>>
  <1>16. /\ Opened(name, arriving, no) /\ Opened(name, reading, no)
         /\ Opened(name, cancelling, no) /\ Opened(name, cancellingAny, no)
    BY <1>13, <1>14, <1>15
  <1>17. /\ BookingsService.create = {arriving \o locked \o offer \o stay}
         /\ BookingsService.cancelOwn = {cancelling \o writing}
         /\ BookingsService.cancelAsAdmin = {cancellingAny \o writing}
         /\ BookingsService.approve = {reading \o locked \o writing}
         /\ BookingsService.reject = {reading \o writing}
    BY <1>1, <1>2
  <1> HIDE DEF arriving, reading, cancelling, cancellingAny, locked, stay, writing
  <1>18. /\ Opened(name, arriving \o locked, K) /\ Opened(name, reading \o locked, K)
    <2>1. /\ Opened(name, arriving \o locked, no \cup K)
          /\ Opened(name, reading \o locked, no \cup K)
      BY <1>10, <1>12, <1>16, LockingJoin
    <2> QED
      BY <1>10, <2>1
  <1>19. Ordered(name, arriving \o locked \o offer \o stay)
    <2>1. Opened(name, arriving \o locked \o offer, K)
      BY <1>8, <1>18, LockingThenFree
    <2> QED
      BY <1>11, <2>1, LockingThenFree, OrderedOpened
  <1>20. Ordered(name, reading \o locked \o writing)
    BY <1>11, <1>18, LockingThenFree, OrderedOpened
  <1>21. /\ Ordered(name, cancelling \o writing) /\ Ordered(name, cancellingAny \o writing)
         /\ Ordered(name, reading \o writing)
    BY <1>11, <1>16, LockingThenFree, OrderedOpened
  <1> QED
    BY <1>17, <1>19, <1>20, <1>21 DEF AllOrdered

-----------------------------------------------------------------------------
\* The routes.
InOrder(name, route) == AllOrdered(name, route.plans)

LEMMA OrderedRoute ==
  ASSUME NEW name, NEW plans, AllOrdered(name, plans),
         NEW route \in {Public(plans), SignedIn(plans), Customer(plans), Admin(plans)}
  PROVE  InOrder(name, route)
  BY RouteFields DEF InOrder

LEMMA SimpleRoute ==
  ASSUME NEW name, NEW plans, AllSimple(plans),
         NEW route \in {Public(plans), SignedIn(plans), Customer(plans), Admin(plans)}
  PROVE  InOrder(name, route)
  <1>1. AllOrdered(name, plans)
    BY PlainOrdered DEF AllSimple, Simple, AllOrdered
  <1> QED
    BY <1>1, OrderedRoute

\* The controllers whose routes have no transaction.
LEMMA AuthInOrder ==
  \A h \in DOMAIN AuthController : InOrder(<<"auth", h>>, AuthController[h])
  <1> DEFINE K == AuthController
  <1>1. /\ K["register"] = Public(AuthService.register)
        /\ K["login"] = Public(AuthService.login)
        /\ K["refresh"] = Public(AuthService.refresh)
        /\ K["logout"] = SignedIn(AuthService.logout)
        /\ K["me"] = SignedIn(AuthService.me)
        /\ DOMAIN K = {"register", "login", "refresh", "logout", "me"}
    BY DEF AuthController
  <1> HIDE DEF K
  <1>2. ASSUME NEW h \in DOMAIN K PROVE InOrder(<<"auth", h>>, K[h])
    BY <1>1, SimpleAuth, SimpleRoute
  <1> QED
    BY <1>2 DEF K

LEMMA UsersInOrder ==
  \A h \in DOMAIN UsersController : InOrder(<<"users", h>>, UsersController[h])
  <1> DEFINE K == UsersController
  <1>1. /\ K["findAll"] = Admin(UsersService.findAll)
        /\ K["findOne"] = Admin(UsersService.findOne)
        /\ K["updateStatus"] = Admin(UsersService.updateStatus)
        /\ DOMAIN K = {"findAll", "findOne", "updateStatus"}
    BY DEF UsersController
  <1> HIDE DEF K
  <1>2. ASSUME NEW h \in DOMAIN K PROVE InOrder(<<"users", h>>, K[h])
    BY <1>1, SimpleUsers, SimpleRoute
  <1> QED
    BY <1>2 DEF K

LEMMA RoomTypesInOrder ==
  \A h \in DOMAIN RoomTypesController : InOrder(<<"roomTypes", h>>, RoomTypesController[h])
  <1> DEFINE K == RoomTypesController
  <1>1. /\ K["findAll"] = Public(RoomTypesService.findAll)
        /\ K["findOne"] = Public(RoomTypesService.findOne)
        /\ K["create"] = Admin(RoomTypesService.create)
        /\ K["update"] = Admin(RoomTypesService.update)
        /\ K["remove"] = Admin(RoomTypesService.remove)
        /\ DOMAIN K = {"findAll", "findOne", "create", "update", "remove"}
    BY DEF RoomTypesController
  <1> HIDE DEF K
  <1>2. ASSUME NEW h \in DOMAIN K PROVE InOrder(<<"roomTypes", h>>, K[h])
    BY <1>1, SimpleRoomTypes, SimpleRoute
  <1> QED
    BY <1>2 DEF K

LEMMA FacilitiesInOrder ==
  \A h \in DOMAIN FacilitiesController : InOrder(<<"facilities", h>>, FacilitiesController[h])
  <1> DEFINE K == FacilitiesController
  <1>1. /\ K["findAll"] = Public(FacilitiesService.findAll)
        /\ K["findOne"] = Public(FacilitiesService.findOne)
        /\ K["create"] = Admin(FacilitiesService.create)
        /\ K["update"] = Admin(FacilitiesService.update)
        /\ K["remove"] = Admin(FacilitiesService.remove)
        /\ DOMAIN K = {"findAll", "findOne", "create", "update", "remove"}
    BY DEF FacilitiesController
  <1> HIDE DEF K
  <1>2. ASSUME NEW h \in DOMAIN K PROVE InOrder(<<"facilities", h>>, K[h])
    BY <1>1, SimpleFacilities, SimpleRoute
  <1> QED
    BY <1>2 DEF K

LEMMA AvailabilityInOrder ==
  \A h \in DOMAIN AvailabilityController : InOrder(<<"availability", h>>, AvailabilityController[h])
  <1> DEFINE K == AvailabilityController
  <1>1. /\ K["search"] = Public(AvailabilityService.searchAvailableRooms)
        /\ DOMAIN K = {"search"}
    BY DEF AvailabilityController
  <1> HIDE DEF K
  <1>2. ASSUME NEW h \in DOMAIN K PROVE InOrder(<<"availability", h>>, K[h])
    BY <1>1, SimpleAvailability, SimpleRoute
  <1> QED
    BY <1>2 DEF K

LEMMA OffersInOrder ==
  \A h \in DOMAIN OffersController : InOrder(<<"offers", h>>, OffersController[h])
  <1> DEFINE K == OffersController
  <1>1. /\ K["findAll"] = Public(OffersService.findAllPublic)
        /\ K["findOne"] = Public(OffersService.findOne)
        /\ DOMAIN K = {"findAll", "findOne"}
    BY DEF OffersController
  <1> HIDE DEF K
  <1>2. ASSUME NEW h \in DOMAIN K PROVE InOrder(<<"offers", h>>, K[h])
    BY <1>1, SimpleOffers, SimpleRoute
  <1> QED
    BY <1>2 DEF K

LEMMA AdminOffersInOrder ==
  \A h \in DOMAIN AdminOffersController : InOrder(<<"adminOffers", h>>, AdminOffersController[h])
  <1> DEFINE K == AdminOffersController
  <1>1. /\ K["findAll"] = Admin(OffersService.findAllAdmin)
        /\ K["create"] = Admin(OffersService.create)
        /\ K["update"] = Admin(OffersService.update)
        /\ K["remove"] = Admin(OffersService.remove)
        /\ DOMAIN K = {"findAll", "create", "update", "remove"}
    BY DEF AdminOffersController
  <1> HIDE DEF K
  <1>2. ASSUME NEW h \in DOMAIN K PROVE InOrder(<<"adminOffers", h>>, K[h])
    BY <1>1, SimpleOffers, SimpleRoute
  <1> QED
    BY <1>2 DEF K

LEMMA DashboardInOrder ==
  \A h \in DOMAIN DashboardController : InOrder(<<"dashboard", h>>, DashboardController[h])
  <1> DEFINE K == DashboardController
  <1>1. /\ K["getStats"] = Admin(DashboardService.getStats)
        /\ DOMAIN K = {"getStats"}
    BY DEF DashboardController
  <1> HIDE DEF K
  <1>2. ASSUME NEW h \in DOMAIN K PROVE InOrder(<<"dashboard", h>>, K[h])
    BY <1>1, SimpleOthers, SimpleRoute
  <1> QED
    BY <1>2 DEF K

LEMMA UploadsInOrder ==
  \A h \in DOMAIN UploadsController : InOrder(<<"uploads", h>>, UploadsController[h])
  <1> DEFINE K == UploadsController
  <1>1. /\ K["serveImage"] = SignedIn(UploadsService.readLocalFile)
        /\ DOMAIN K = {"serveImage"}
    BY DEF UploadsController
  <1> HIDE DEF K
  <1>2. ASSUME NEW h \in DOMAIN K PROVE InOrder(<<"uploads", h>>, K[h])
    BY <1>1, SimpleOthers, SimpleRoute
  <1> QED
    BY <1>2 DEF K

\* Those with a transaction.
LEMMA RoomsInOrder ==
  \A h \in DOMAIN RoomsController : InOrder(<<"rooms", h>>, RoomsController[h])
  <1> DEFINE K == RoomsController
  <1>1. /\ K["findAll"] = Public(RoomsService.findAll)
        /\ K["findOne"] = Public(RoomsService.findOne)
        /\ K["create"] = Admin(RoomsService.create)
        /\ K["remove"] = Admin(RoomsService.remove)
        /\ K["addImages"] = Admin(RoomsService.addImages)
        /\ K["removeImage"] = Admin(RoomsService.removeImage)
        /\ K["checkAvailability"] = Public(AvailabilityService.isRoomAvailable)
        /\ K["update"] = Admin(RoomsService.update)
        /\ K["reorderImages"] = Admin(RoomsService.reorderImages)
        /\ K["setPrimaryImage"] = Admin(RoomsService.setPrimaryImage)
        /\ DOMAIN K = {"findAll", "findOne", "create", "remove", "addImages", "removeImage",
                       "checkAvailability", "update", "reorderImages", "setPrimaryImage"}
    BY DEF RoomsController
  <1> HIDE DEF K
  <1>2. ASSUME NEW h \in {"findAll", "findOne", "create"}
        PROVE  InOrder(<<"rooms", h>>, K[h])
    BY <1>1, SimpleRooms, SimpleRoute
  <1>3. ASSUME NEW h \in {"remove", "addImages", "removeImage"}
        PROVE  InOrder(<<"rooms", h>>, K[h])
    BY <1>1, SimpleRooms, SimpleRoute
  <1>4. ASSUME NEW h \in {"checkAvailability"}
        PROVE  InOrder(<<"rooms", h>>, K[h])
    BY <1>1, SimpleAvailability, SimpleRoute
  <1>5. ASSUME NEW h \in {"update"}
        PROVE  InOrder(<<"rooms", h>>, K[h])
    BY <1>1, RoomsUpdateOrder, OrderedRoute
  <1>6. ASSUME NEW h \in {"reorderImages", "setPrimaryImage"}
        PROVE  InOrder(<<"rooms", h>>, K[h])
    BY <1>1, ImagesOrder, OrderedRoute
  <1> QED
    BY <1>1, <1>2, <1>3, <1>4, <1>5, <1>6 DEF K

LEMMA BookingsInOrder ==
  \A h \in DOMAIN BookingsController : InOrder(<<"bookings", h>>, BookingsController[h])
  <1> DEFINE K == BookingsController
  <1>1. /\ K["create"] = Public(BookingsService.create)
        /\ K["cancel"] = Customer(BookingsService.cancelOwn)
        /\ K["findMine"] = Customer(BookingsService.findMyBookings)
        /\ K["findOne"] = SignedIn(BookingsService.findOne)
        /\ DOMAIN K = {"create", "cancel", "findMine", "findOne"}
    BY DEF BookingsController
  <1> HIDE DEF K
  <1>2. ASSUME NEW h \in {"create", "cancel"}
        PROVE  InOrder(<<"bookings", h>>, K[h])
    BY <1>1, BookingsOrder, OrderedRoute
  <1>3. ASSUME NEW h \in {"findMine", "findOne"}
        PROVE  InOrder(<<"bookings", h>>, K[h])
    BY <1>1, SimpleBookings, SimpleRoute
  <1> QED
    BY <1>1, <1>2, <1>3 DEF K

LEMMA AdminBookingsInOrder ==
  \A h \in DOMAIN AdminBookingsController : InOrder(<<"adminBookings", h>>, AdminBookingsController[h])
  <1> DEFINE K == AdminBookingsController
  <1>1. /\ K["findAll"] = Admin(BookingsService.findAllAdmin)
        /\ K["findOne"] = Admin(BookingsService.findOneAdmin)
        /\ K["approve"] = Admin(BookingsService.approve)
        /\ K["reject"] = Admin(BookingsService.reject)
        /\ K["cancel"] = Admin(BookingsService.cancelAsAdmin)
        /\ DOMAIN K = {"findAll", "findOne", "approve", "reject", "cancel"}
    BY DEF AdminBookingsController
  <1> HIDE DEF K
  <1>2. ASSUME NEW h \in {"findAll", "findOne"}
        PROVE  InOrder(<<"adminBookings", h>>, K[h])
    BY <1>1, SimpleBookings, SimpleRoute
  <1>3. ASSUME NEW h \in {"approve", "reject", "cancel"}
        PROVE  InOrder(<<"adminBookings", h>>, K[h])
    BY <1>1, BookingsOrder, OrderedRoute
  <1> QED
    BY <1>1, <1>2, <1>3 DEF K

\* Every plan of every route asks for its locks in order.
LEMMA EveryRouteInOrder ==
  \A name \in RouteNames : InOrder(name, RouteOf(name))
  <1> SUFFICES ASSUME NEW name \in RouteNames PROVE InOrder(name, RouteOf(name))
    OBVIOUS
  <1> DEFINE Cs == {"auth", "users", "roomTypes", "facilities", "availability", "offers",
                    "adminOffers", "rooms", "bookings", "adminBookings", "dashboard", "uploads"}
             K == Controllers
  <1>1. /\ DOMAIN K = Cs
        /\ K["auth"] = AuthController /\ K["users"] = UsersController
        /\ K["roomTypes"] = RoomTypesController /\ K["facilities"] = FacilitiesController
        /\ K["availability"] = AvailabilityController /\ K["offers"] = OffersController
        /\ K["adminOffers"] = AdminOffersController /\ K["rooms"] = RoomsController
        /\ K["bookings"] = BookingsController /\ K["adminBookings"] = AdminBookingsController
        /\ K["dashboard"] = DashboardController /\ K["uploads"] = UploadsController
    BY DEF Controllers
  <1>2. PICK c \in DOMAIN K : name \in {<<c, h>> : h \in DOMAIN K[c]}
    BY DEF RouteNames
  <1> HIDE DEF K
  <1>h. PICK h \in DOMAIN K[c] : name = <<c, h>>
    BY <1>2
  <1>3. ASSUME NEW k \in Cs, NEW g \in DOMAIN K[k] PROVE InOrder(<<k, g>>, K[k][g])
    BY <1>1, AuthInOrder, UsersInOrder, RoomTypesInOrder, FacilitiesInOrder,
       AvailabilityInOrder, OffersInOrder, AdminOffersInOrder, RoomsInOrder, BookingsInOrder,
       AdminBookingsInOrder, DashboardInOrder, UploadsInOrder
  <1>4. RouteOf(name) = K[c][h]
    BY <1>h DEF RouteOf, K
  <1> QED
    BY <1>1, <1>h, <1>3, <1>4

-----------------------------------------------------------------------------
\* The invariant, by the requests f of the clients: client c, with the request
\* q, holds nothing that conflicts with what the others hold.
Clear(f, c, q) ==
  \A d \in Clients \ {c} : f[d] # NoCall /\ f[d].room = q.room =>
    \A k \in q.held, l \in f[d].held : k[1] = l[1] => ~Conflicts(k[2], l[2])
LocksHeld(f) ==
  \A c \in Clients : f[c] # NoCall => Clear(f, c, f[c]) /\ AsksInOrder(f[c])

LEMMA LocksByClient ==
  LocksInvariant <=> LocksHeld(call)
  <1>1. LocksApart <=> \A c \in Clients : call[c] # NoCall => Clear(call, c, call[c])
    BY DEF LocksApart, Clear, Busy
  <1> QED
    BY <1>1 DEF LocksInvariant, LocksHeld, Busy

\* A step that changes one request.
LEMMA OneLocks ==
  ASSUME StateFits(call, owners), LocksHeld(call), NEW c \in Clients, NEW r \in Call,
         call' = [call EXCEPT ![c] = r], AsksInOrder(r), Clear(call, c, r)
  PROVE  LocksHeld(call')
  <1>1. PICK f : f = call
    OBVIOUS
  <1>2. PICK g : g = call'
    OBVIOUS
  <1>3. \A d \in Clients : f[d] # NoCall => Clear(f, d, f[d]) /\ AsksInOrder(f[d])
    BY <1>1 DEF LocksHeld
  <1>4. g[c] = r /\ \A d \in Clients \ {c} : g[d] = f[d]
    BY <1>1, <1>2 DEF StateFits
  <1>5. ASSUME NEW d \in Clients, g[d] # NoCall PROVE AsksInOrder(g[d])
    BY <1>3, <1>4, <1>5
  <1>6. Clear(g, c, g[c])
    BY <1>1, <1>4 DEF Clear
  <1>7. ASSUME NEW d \in Clients \ {c}, g[d] # NoCall PROVE Clear(g, d, g[d])
    <2>1. PICK q : q = f[d]
      OBVIOUS
    <2>2. q # NoCall /\ g[d] = q /\ Clear(f, d, q)
      BY <1>3, <1>4, <1>7, <2>1
    <2>3. q.room = r.room =>
            \A k \in r.held, l \in q.held : k[1] = l[1] => ~Conflicts(k[2], l[2])
      BY <1>1, <2>1, <2>2 DEF Clear
    <2>4. \A m, n : Conflicts(m, n) => Conflicts(n, m)
      <3>1. \A m, n : {m, n} = {n, m}
        OBVIOUS
      <3> QED
        BY <3>1, Zenon DEF Conflicts
    <2>5. ASSUME NEW e \in Clients \ {d}, g[e] # NoCall, g[e].room = q.room,
                 NEW k \in q.held, NEW l \in g[e].held, k[1] = l[1]
          PROVE  ~Conflicts(k[2], l[2])
      <3>1. CASE e = c
        BY <1>4, <2>3, <2>4, <2>5, <3>1
      <3>2. CASE e # c
        BY <1>4, <2>2, <2>5, <3>2 DEF Clear
      <3> QED
        BY <3>1, <3>2
    <2> QED
      BY <2>2, <2>5 DEF Clear
  <1> QED
    BY <1>2, <1>5, <1>6, <1>7 DEF LocksHeld

\* A request that holds no more than before.
LEMMA NoMoreHeld ==
  ASSUME LocksHeld(call), NEW c \in Clients, Busy(c), NEW r,
         r.room = call[c].room, r.held \subseteq call[c].held
  PROVE  Clear(call, c, r)
  BY DEF LocksHeld, Clear, Busy

\* What is behind a statement asks in order if what it was part of did.
LEMMA AsksBehind ==
  ASSUME NEW q \in Call, AsksInOrder(q), q.rest # <<>>,
         NEW r \in Call, r.name = q.name, r.rest = Tail(q.rest),
         r.inTx => q.inTx \/ Head(q.rest).on = "begin",
         \A k \in r.held : k \in q.held \/ (Head(q.rest).on = "tx" /\ k \in Head(q.rest).locks)
  PROVE  AsksInOrder(r)
  <1>1. PICK p, t, s : p = q.rest /\ t = r.rest /\ s = Head(p)
    OBVIOUS
  <1>2. p \in Seq(Statement) /\ p # <<>>
    BY <1>1, CallFields
  <1>3. /\ t \in Seq(Statement) /\ Len(p) \in Nat /\ Len(p) >= 1 /\ Len(t) = Len(p) - 1
        /\ s = p[1] /\ \A i \in 1 .. Len(t) : t[i] = p[i + 1]
    BY <1>1, <1>2, HeadTailProperties, EmptySeq, LenProperties
  <1>4. \A i \in 1 .. Len(p) : \A j \in i + 1 .. Len(p) : Precedes(q.name, p[i], p[j])
    BY <1>1 DEF AsksInOrder, Ordered
  <1>5. \A i \in 1 .. Len(t) : Precedes(q.name, s, t[i])
    <2>1. 1 \in 1 .. Len(p) /\ \A i \in 1 .. Len(t) : i + 1 \in 1 + 1 .. Len(p)
      BY <1>3
    <2> QED
      BY <1>3, <1>4, <2>1
  <1>6. Ordered(q.name, t)
    <2>1. ASSUME NEW i \in 1 .. Len(t), NEW j \in i + 1 .. Len(t)
          PROVE  Precedes(q.name, t[i], t[j])
      <3>1. /\ i + 1 \in 1 .. Len(p) /\ j + 1 \in (i + 1) + 1 .. Len(p)
            /\ j \in 1 .. Len(t)
        BY <1>3
      <3> QED
        BY <1>3, <1>4, <3>1
    <2> QED
      BY <2>1 DEF Ordered
  <1>7. ASSUME NEW i \in 1 .. Len(t)
        PROVE  /\ r.inTx => t[i].on # "begin"
               /\ t[i].on = "tx" =>
                    \A k \in r.held, l \in t[i].locks : ComesAfter(q.name, k, l)
    <2>1. i + 1 \in 1 .. Len(p) /\ t[i] = p[i + 1]
      BY <1>3
    <2>2. /\ q.inTx => t[i].on # "begin"
          /\ t[i].on = "tx" => \A k \in q.held, l \in t[i].locks : ComesAfter(q.name, k, l)
      BY <1>1, <2>1 DEF AsksInOrder
    <2>3. /\ s.on = "begin" => t[i].on # "begin"
          /\ s.on = "tx" /\ t[i].on = "tx" =>
               \A k \in s.locks, l \in t[i].locks : ComesAfter(q.name, k, l)
      BY <1>5 DEF Precedes
    <2> QED
      BY <1>1, <2>2, <2>3
  <1> QED
    BY <1>1, <1>6, <1>7 DEF AsksInOrder

LEMMA AsksNothing ==
  ASSUME NEW r, r.rest = <<>>
  PROVE  AsksInOrder(r)
  BY DEF AsksInOrder, Ordered

LEMMA AsksTheSame ==
  ASSUME NEW q, AsksInOrder(q), NEW r, r.name = q.name, r.rest = q.rest,
         r.held = q.held, r.inTx = q.inTx
  PROVE  AsksInOrder(r)
  BY DEF AsksInOrder

\* The steps.
LEMMA PassLocks ==
  ASSUME StateFits(call, owners), LocksHeld(call), NEW c \in Clients, Working(c),
         call[c].rest # <<>>, NEW p, p = Passed(c)
  PROVE  /\ Becomes(call[c], p, Tail(call[c].rest), FALSE, call[c].inTx, call[c].held,
                    (call[c].wrote \/ Head(call[c].rest).writes), 0)
         /\ AsksInOrder(call[c]) /\ call[c] \in Call /\ FitsCall(call[c]) /\ Busy(c)
  <1>1. PICK q : q = call[c]
    OBVIOUS
  <1>2. q \in Call /\ FitsCall(q) /\ q.status = 0 /\ Busy(c) /\ q.rest # <<>>
    BY <1>1, AtWork
  <1>3. p = [q EXCEPT !.rest = Tail(@), !.running = FALSE,
                      !.wrote = @ \/ Head(q.rest).writes]
    BY <1>1, Zenon DEF Passed
  <1>4. Becomes(q, p, Tail(q.rest), FALSE, q.inTx, q.held,
                (q.wrote \/ Head(q.rest).writes), 0)
    BY <1>1, <1>2, <1>3, PassedStep, Zenon
  <1>5. AsksInOrder(q)
    BY <1>1, <1>2 DEF LocksHeld, Busy
  <1> QED
    BY <1>1, <1>2, <1>4, <1>5, Zenon

LEMMA CheckLocks ==
  ASSUME StateFits(call, owners), LocksHeld(call), NEW c \in Clients,
         RunCheck(c) \/ RunOwn(c)
  PROVE  LocksHeld(call')
  <1>1. PICK q : q = call[c]
    OBVIOUS
  <1>2. PICK p : p = Passed(c)
    OBVIOUS
  <1>3. /\ Working(c) /\ q.rest # <<>> /\ call' = [call EXCEPT ![c] = p]
    BY <1>1, <1>2 DEF RunCheck, RunOwn, Runs
  <1>4. /\ Becomes(q, p, Tail(q.rest), FALSE, q.inTx, q.held,
                   (q.wrote \/ Head(q.rest).writes), 0)
        /\ AsksInOrder(q) /\ q \in Call /\ Busy(c)
    BY <1>1, <1>2, <1>3, PassLocks, ZenonT(60)
  <1>5. /\ p \in Call /\ p.name = q.name /\ p.room = q.room /\ p.rest = Tail(q.rest)
        /\ p.inTx = q.inTx /\ p.held = q.held
    BY <1>4, Zenon DEF Becomes, Same
  <1>6. AsksInOrder(p)
    BY <1>3, <1>4, <1>5, AsksBehind
  <1>7. Clear(call, c, p)
    BY <1>1, <1>4, <1>5, NoMoreHeld
  <1> QED
    BY <1>3, <1>5, <1>6, <1>7, OneLocks

LEMMA BeginLocks ==
  ASSUME StateFits(call, owners), LocksHeld(call), NEW c \in Clients, RunBegin(c)
  PROVE  LocksHeld(call')
  <1>1. PICK q : q = call[c]
    OBVIOUS
  <1>2. PICK p : p = Passed(c)
    OBVIOUS
  <1>3. PICK yes \in BOOLEAN : yes = TRUE
    OBVIOUS
  <1>4. PICK r : r = [p EXCEPT !.inTx = yes]
    OBVIOUS
  <1>5. /\ Working(c) /\ q.rest # <<>> /\ Head(q.rest).on = "begin"
        /\ call' = [call EXCEPT ![c] = r]
    <2>1. call' = [call EXCEPT ![c] = r]
      BY <1>2, <1>3, <1>4, Zenon DEF RunBegin
    <2> QED
      BY <1>1, <2>1 DEF RunBegin, Runs
  <1>6. /\ Becomes(q, p, Tail(q.rest), FALSE, q.inTx, q.held,
                   (q.wrote \/ Head(q.rest).writes), 0)
        /\ AsksInOrder(q) /\ q \in Call /\ Busy(c)
    BY <1>1, <1>2, <1>5, PassLocks, ZenonT(60)
  <1>7. /\ p \in Call /\ p.name = q.name /\ p.room = q.room /\ p.rest = Tail(q.rest)
        /\ p.held = q.held
    BY <1>6, Zenon DEF Becomes, Same
  <1>8. Becomes(p, r, p.rest, p.running, yes, p.held, p.wrote, p.status)
    BY <1>3, <1>4, <1>7, BegunFields, Zenon
  <1>9. /\ r \in Call /\ r.name = q.name /\ r.room = q.room /\ r.rest = Tail(q.rest)
        /\ r.held = q.held
    BY <1>7, <1>8, Zenon DEF Becomes, Same
  <1>10. AsksInOrder(r)
    BY <1>5, <1>6, <1>9, AsksBehind
  <1>11. Clear(call, c, r)
    BY <1>1, <1>6, <1>9, NoMoreHeld
  <1> QED
    BY <1>5, <1>9, <1>10, <1>11, OneLocks

LEMMA InTxLocks ==
  ASSUME StateFits(call, owners), LocksHeld(call), NEW c \in Clients, RunInTx(c)
  PROVE  LocksHeld(call')
  <1>1. PICK q : q = call[c]
    OBVIOUS
  <1>2. PICK p : p = Passed(c)
    OBVIOUS
  <1>3. Working(c) /\ q.rest # <<>> /\ Head(q.rest).on = "tx" /\ MayLock(c)
    BY <1>1 DEF RunInTx, Runs
  <1>4. /\ Becomes(q, p, Tail(q.rest), FALSE, q.inTx, q.held,
                   (q.wrote \/ Head(q.rest).writes), 0)
        /\ AsksInOrder(q) /\ q \in Call /\ FitsCall(q) /\ Busy(c)
    BY <1>1, <1>2, <1>3, PassLocks, ZenonT(60)
  <1>5. /\ p \in Call /\ p.name = q.name /\ p.room = q.room /\ p.rest = Tail(q.rest)
        /\ p.inTx = q.inTx /\ p.held = q.held
    BY <1>4, Zenon DEF Becomes, Same
  <1>6. PICK locks : locks = Head(q.rest).locks
    OBVIOUS
  <1>7. PICK held \in SUBSET (Row \X Mode) : held = p.held \cup locks
    <2>1. p.held \in SUBSET (Row \X Mode)
      BY <1>5, CallFields
    <2>2. locks \in SUBSET (Row \X Mode)
      BY <1>3, <1>4, <1>6, NextStatement DEF Statement
    <2> QED
      BY <2>1, <2>2
  <1>8. PICK r : r = [p EXCEPT !.held = held]
    OBVIOUS
  <1>9. call' = [call EXCEPT ![c] = r]
    BY <1>1, <1>2, <1>6, <1>7, <1>8, Zenon DEF RunInTx
  <1>10. Becomes(p, r, p.rest, p.running, p.inTx, held, p.wrote, p.status)
    BY <1>5, <1>7, <1>8, LockedFields, Zenon
  <1>11. /\ r \in Call /\ r.name = q.name /\ r.room = q.room /\ r.rest = Tail(q.rest)
         /\ r.inTx = q.inTx /\ r.held = q.held \cup locks
    BY <1>5, <1>7, <1>10, Zenon DEF Becomes, Same
  <1>12. AsksInOrder(r)
    BY <1>3, <1>4, <1>6, <1>11, AsksBehind
  <1>13. ASSUME NEW d \in Clients \ {c}, call[d] # NoCall, call[d].room = r.room,
                NEW k \in r.held, NEW l \in call[d].held, k[1] = l[1]
         PROVE  ~Conflicts(k[2], l[2])
    <2>1. CASE k \in q.held
      <3>1. Clear(call, c, q)
        BY <1>1, <1>4 DEF LocksHeld, Busy
      <3> QED
        BY <1>11, <1>13, <2>1, <3>1 DEF Clear
    <2>2. CASE k \in locks
      <3>1. ~Blocks(d, c)
        BY <1>3 DEF MayLock
      <3>2. ~Conflicts(l[2], k[2])
        BY <1>1, <1>4, <1>6, <1>11, <1>13, <2>2, <3>1 DEF Blocks, Busy
      <3>3. {k[2], l[2]} = {l[2], k[2]}
        OBVIOUS
      <3> QED
        BY <3>2, <3>3, Zenon DEF Conflicts
    <2> QED
      BY <1>11, <2>1, <2>2
  <1>14. Clear(call, c, r)
    BY <1>13 DEF Clear
  <1> QED
    BY <1>9, <1>11, <1>12, <1>14, OneLocks

LEMMA CommitLocks ==
  ASSUME StateFits(call, owners), LocksHeld(call), NEW c \in Clients, RunCommit(c)
  PROVE  LocksHeld(call')
  <1>1. PICK q : q = call[c]
    OBVIOUS
  <1>2. PICK p : p = Passed(c)
    OBVIOUS
  <1>3. PICK held \in SUBSET (Row \X Mode), no \in BOOLEAN : held = {} /\ no = FALSE
    OBVIOUS
  <1>4. PICK r : r = [p EXCEPT !.inTx = no, !.held = held]
    OBVIOUS
  <1>5. call' = [call EXCEPT ![c] = r]
    BY <1>2, <1>3, <1>4, Zenon DEF RunCommit
  <1>6. Working(c) /\ q.rest # <<>>
    BY <1>1 DEF RunCommit, Runs
  <1>7. /\ Becomes(q, p, Tail(q.rest), FALSE, q.inTx, q.held,
                   (q.wrote \/ Head(q.rest).writes), 0)
        /\ AsksInOrder(q) /\ q \in Call /\ Busy(c)
    BY <1>1, <1>2, <1>6, PassLocks, ZenonT(60)
  <1>8. p \in Call /\ p.name = q.name /\ p.room = q.room /\ p.rest = Tail(q.rest)
    BY <1>7, Zenon DEF Becomes, Same
  <1>9. Becomes(p, r, p.rest, p.running, no, held, p.wrote, p.status)
    BY <1>3, <1>4, <1>8, CommittedFields, Zenon
  <1>10. /\ r \in Call /\ r.name = q.name /\ r.room = q.room /\ r.rest = Tail(q.rest)
         /\ ~r.inTx /\ r.held = {}
    BY <1>3, <1>8, <1>9, Zenon DEF Becomes, Same
  <1>11. AsksInOrder(r)
    BY <1>6, <1>7, <1>10, AsksBehind
  <1>12. Clear(call, c, r)
    BY <1>10 DEF Clear
  <1> QED
    BY <1>5, <1>10, <1>11, <1>12, OneLocks

LEMMA ConnectLocks ==
  ASSUME StateFits(call, owners), LocksHeld(call), NEW c \in Clients, Connect(c)
  PROVE  LocksHeld(call')
  <1>1. PICK q : q = call[c]
    OBVIOUS
  <1>2. PICK yes \in BOOLEAN : yes = TRUE
    OBVIOUS
  <1>3. PICK r : r = [q EXCEPT !.running = yes]
    OBVIOUS
  <1>4. call' = [call EXCEPT ![c] = r]
    BY <1>1, <1>2, <1>3, Zenon DEF Connect
  <1>5. Busy(c) /\ q \in Call
    BY <1>1, AtWork DEF Connect, Runs
  <1>6. Becomes(q, r, q.rest, yes, q.inTx, q.held, q.wrote, q.status)
    BY <1>3, <1>5, ConnectedFields, Zenon
  <1>7. /\ r \in Call /\ r.name = q.name /\ r.room = q.room /\ r.rest = q.rest
        /\ r.inTx = q.inTx /\ r.held = q.held
    BY <1>6, Zenon DEF Becomes, Same
  <1>8. AsksInOrder(q)
    BY <1>1, <1>5 DEF LocksHeld, Busy
  <1>9. AsksInOrder(r)
    BY <1>7, <1>8, AsksTheSame, Zenon
  <1>10. Clear(call, c, r)
    BY <1>1, <1>5, <1>7, NoMoreHeld
  <1> QED
    BY <1>4, <1>7, <1>9, <1>10, OneLocks

LEMMA AnswerLocks ==
  ASSUME StateFits(call, owners), LocksHeld(call), NEW c \in Clients, Working(c),
         NEW e, AnswerError(c, e)
  PROVE  LocksHeld(call')
  <1>1. PICK q : q = call[c]
    OBVIOUS
  <1>2. q \in Call
    BY <1>1, AtWork
  <1>3. PICK status : status = StatusOf(e)
    OBVIOUS
  <1>4. StatusOf(e) \in 400 .. 500
    BY StatusRange
  <1>5. status \in 400 .. 500
    BY <1>3, <1>4
  <1>6. PICK no \in BOOLEAN : no = FALSE
    OBVIOUS
  <1>a. {} \in SUBSET (Row \X Mode) /\ <<>> \in Seq(Statement)
    OBVIOUS
  <1>7. PICK none \in SUBSET (Row \X Mode) : none = {}
    BY <1>a, Zenon
  <1>8. PICK rest \in Seq(Statement) : rest = <<>>
    BY <1>a, Zenon
  <1>9. PICK r : r = [q EXCEPT !.status = status, !.rest = rest, !.running = no,
                              !.inTx = no, !.held = none]
    OBVIOUS
  <1>10. call' = [call EXCEPT ![c] = r]
    BY <1>1, <1>3, <1>6, <1>7, <1>8, <1>9, Zenon DEF AnswerError
  <1>11. Becomes(q, r, rest, no, no, none, q.wrote, status)
    <2>1. /\ q \in Call /\ status \in 400 .. 500 /\ rest \in Seq(Statement)
          /\ no \in BOOLEAN /\ none \in SUBSET (Row \X Mode)
      BY <1>2, <1>5, <1>6, <1>7, <1>8, Zenon
    <2> QED
      BY <2>1, <1>9, AnswerFields, ZenonT(60)
  <1>12. r \in Call /\ r.rest = <<>> /\ r.held = {}
    BY <1>7, <1>8, <1>11, Zenon DEF Becomes
  <1>13. AsksInOrder(r) /\ Clear(call, c, r)
    BY <1>12, AsksNothing DEF Clear
  <1> QED
    BY <1>10, <1>12, <1>13, OneLocks

LEMMA FinishLocks ==
  ASSUME StateFits(call, owners), LocksHeld(call), NEW c \in Clients, Finish(c)
  PROVE  LocksHeld(call')
  <1>1. PICK q : q = call[c]
    OBVIOUS
  <1>2. PICK r : r = [q EXCEPT !.status = 200]
    OBVIOUS
  <1>3. call' = [call EXCEPT ![c] = r]
    BY <1>1, <1>2, Zenon DEF Finish
  <1>4. Busy(c) /\ q \in Call
    BY <1>1, AtWork DEF Finish
  <1>5. Becomes(q, r, q.rest, q.running, q.inTx, q.held, q.wrote, 200)
    BY <1>2, <1>4, FinishedFields, Zenon
  <1>6. /\ r \in Call /\ r.name = q.name /\ r.room = q.room /\ r.rest = q.rest
        /\ r.inTx = q.inTx /\ r.held = q.held
    BY <1>5, Zenon DEF Becomes, Same
  <1>7. AsksInOrder(q)
    BY <1>1, <1>4 DEF LocksHeld, Busy
  <1>8. AsksInOrder(r)
    BY <1>6, <1>7, AsksTheSame, Zenon
  <1>9. Clear(call, c, r)
    BY <1>1, <1>4, <1>6, NoMoreHeld
  <1> QED
    BY <1>3, <1>6, <1>8, <1>9, OneLocks

LEMMA ArriveLocks ==
  ASSUME StateFits(call, owners), LocksHeld(call), NEW c \in Clients,
         NEW name \in RouteNames, NEW user \in Accounts \cup {Nobody},
         NEW plan \in RouteOf(name).plans, NEW room \in Rooms,
         Arrive(c, name, user, plan, room)
  PROVE  LocksHeld(call')
  <1>1. PICK no \in BOOLEAN : no = FALSE
    OBVIOUS
  <1>2. PICK u : u = Attached(RouteOf(name), user)
    OBVIOUS
  <1>3. Admits(RouteOf(name), user)
    BY DEF Arrive, MaySend
  <1>4. plan \in Seq(Statement) /\ u \in Accounts \cup {Nobody}
    BY <1>1, <1>2, <1>3, ArriveFits
  <1>5. PICK r : r = [name |-> name, user |-> u, room |-> room, rest |-> plan, running |-> no,
                      inTx |-> no, held |-> {}, wrote |-> no, status |-> 0]
    OBVIOUS
  <1>6. call' = [call EXCEPT ![c] = r]
    BY <1>1, <1>2, <1>5, Zenon DEF Arrive
  <1>7. r \in Call /\ r.name = name /\ r.rest = plan /\ r.inTx = no /\ r.held = {}
    BY <1>4, <1>5, NewFields
  <1>8. Ordered(name, plan)
    BY EveryRouteInOrder DEF InOrder, AllOrdered
  <1>9. ~r.inTx
    BY <1>1, <1>7, Zenon
  <1>10. AsksInOrder(r)
    BY <1>7, <1>8, <1>9 DEF AsksInOrder
  <1>11. Clear(call, c, r)
    BY <1>7 DEF Clear
  <1> QED
    BY <1>6, <1>7, <1>10, <1>11, OneLocks

\* Requests that end.
LEMMA EndLocks ==
  ASSUME StateFits(call, owners), LocksHeld(call), (\E c \in Clients : Reply(c)) \/ Crash
  PROVE  LocksHeld(call')
  <1>1. PICK f, g : f = call /\ g = call'
    OBVIOUS
  <1>2. \A d \in Clients : g[d] # NoCall => g[d] = f[d]
    BY <1>1 DEF Crash, Reply, StateFits
  <1>3. \A d \in Clients : f[d] # NoCall => Clear(f, d, f[d]) /\ AsksInOrder(f[d])
    BY <1>1 DEF LocksHeld
  <1>4. ASSUME NEW d \in Clients, g[d] # NoCall
        PROVE  Clear(g, d, g[d]) /\ AsksInOrder(g[d])
    <2>1. g[d] = f[d] /\ Clear(f, d, g[d]) /\ AsksInOrder(g[d])
      BY <1>2, <1>3, <1>4
    <2>2. Clear(g, d, g[d])
      BY <1>2, <2>1 DEF Clear
    <2> QED
      BY <2>1, <2>2
  <1> QED
    BY <1>1, <1>4 DEF LocksHeld

LEMMA NextLocks ==
  ASSUME StateFits(call, owners), LocksHeld(call), [Next]_vars
  PROVE  LocksHeld(call')
  <1>1. ASSUME NEW c \in Clients, Request(c) PROVE LocksHeld(call')
    <2>1. PICK q \in Requested, user \in Accounts \cup {Nobody}, room \in Rooms :
            Arrive(c, q[1], user, q[2], room)
      BY <1>1 DEF Request
    <2>2. PICK name, plan : name = q[1] /\ plan = q[2]
      OBVIOUS
    <2>3. name \in RouteNames /\ plan \in RouteOf(name).plans
      BY <2>2, RequestedAssumption
    <2> QED
      BY <2>1, <2>2, <2>3, ArriveLocks, Zenon
  <1>2. ASSUME NEW c \in Clients, Proceed(c) PROVE LocksHeld(call')
    <2>1. CASE RunCheck(c) \/ RunOwn(c)
      BY <2>1, CheckLocks
    <2>2. CASE Connect(c)
      BY <2>2, ConnectLocks
    <2>3. CASE RunBegin(c)
      BY <2>3, BeginLocks
    <2>4. CASE RunInTx(c)
      BY <2>4, InTxLocks
    <2>5. CASE RunCommit(c)
      BY <2>5, CommitLocks
    <2>6. CASE Refuse(c)
      <3>1. PICK e : AnswerError(c, e)
        BY <2>6 DEF Refuse
      <3> QED
        BY <2>6, <3>1, AnswerLocks DEF Refuse
    <2>7. CASE Finish(c)
      BY <2>7, FinishLocks
    <2>8. CASE Reply(c)
      BY <2>8, EndLocks
    <2> QED
      BY <1>2, <2>1, <2>2, <2>3, <2>4, <2>5, <2>6, <2>7, <2>8 DEF Proceed
  <1>3. ASSUME NEW c \in Clients, TimeOut(c) PROVE LocksHeld(call')
    <2>1. Working(c) /\ \E e : AnswerError(c, e)
      BY <1>3 DEF TimeOut, Waits, Runs
    <2> QED
      BY <2>1, AnswerLocks
  <1>4. ASSUME NEW c \in Clients, Fault(c) PROVE LocksHeld(call')
    BY <1>4, AnswerLocks DEF Fault
  <1>5. CASE Crash
    BY <1>5, EndLocks
  <1>6. CASE UNCHANGED vars
    BY <1>6 DEF vars
  <1> QED
    BY <1>1, <1>2, <1>3, <1>4, <1>5, <1>6 DEF Next

\* The rows that requests lock, from lockRoomForUpdate to the updates of a room
\* and of its images (Api's plans): no two requests hold rows in modes that
\* conflict, and only three routes ever ask for a row while they hold one.
THEOREM LocksInvariance == Spec => []LocksInvariant
  <1> DEFINE Inv == StateFits(call, owners) /\ LocksHeld(call)
  <1>1. Init => Inv
    <2>1. Init => LocksHeld(call)
      BY DEF Init, LocksHeld
    <2> QED
      BY <2>1, FirstState
  <1>2. Inv /\ [Next]_vars => Inv'
    BY NextStep, NextLocks
  <1>3. Inv => LocksInvariant
    BY LocksByClient
  <1> QED
    BY <1>1, <1>2, <1>3, PTL DEF Spec

-----------------------------------------------------------------------------
\* Who waits for whom: c's next statement wants l, and d's transaction holds k.
WaitsFor(c, l, d, k) ==
  /\ c \in Clients /\ d \in Clients /\ c # d /\ Busy(c) /\ Busy(d)
  /\ call[c].room = call[d].room
  /\ l \in Head(call[c].rest).locks /\ l \in Row \X Mode
  /\ k \in call[d].held /\ k[1] = l[1] /\ Conflicts(k[2], l[2])

\* What KnownCirclesOnly allows of rows.
TwoRivals ==
  \E c, d \in Clients :
    Blocks(c, d) /\ Blocks(d, c)
      /\ \E rivals \in Rivals : {call[c].name, call[d].name} \subseteq rivals

\* The state in question.
Circle == /\ StateFits(call, owners) /\ LocksHeld(call)
          /\ Stuck /\ ~Exhausted

LEMMA ModesConflict ==
  /\ \A m : Conflicts("update", m) /\ Conflicts(m, "update")
  /\ \A m \in Mode : Conflicts("share", m) => m = "update"
  BY DEF Conflicts, Mode

LEMMA OfTheTwo ==
  ASSUME NEW c, NEW l, NEW d, NEW k, WaitsFor(c, l, d, k),
         NEW m, NEW h, WaitsFor(d, m, c, h),
         NEW rivals \in Rivals, call[c].name \in rivals, call[d].name \in rivals
  PROVE  TwoRivals
  <1>1. Blocks(d, c) /\ Blocks(c, d)
    BY DEF WaitsFor, Blocks
  <1>2. {call[c].name, call[d].name} \subseteq rivals
    OBVIOUS
  <1>3. c \in Clients /\ d \in Clients
    BY DEF WaitsFor
  <1> QED
    BY <1>1, <1>2, <1>3 DEF TwoRivals

\* Two that hold the same row do not conflict.
LEMMA BothHold ==
  ASSUME LocksHeld(call), NEW c \in Clients, NEW d \in Clients, c # d, Busy(c), Busy(d),
         call[c].room = call[d].room, NEW k \in call[c].held, NEW l \in call[d].held,
         k[1] = l[1]
  PROVE  ~Conflicts(k[2], l[2])
  BY DEF LocksHeld, Clear, Busy

\* The statement that a request at work stands before.
LEMMA AtHead ==
  ASSUME StateFits(call, owners), LocksHeld(call), NEW c \in Clients, Busy(c),
         call[c].rest # <<>>, NEW s, s = Head(call[c].rest)
  PROVE  /\ s \in Statement /\ call[c] \in Call
         /\ call[c].inTx => s.on # "begin"
         /\ call[c].inTx /\ s.on = "own" => s.locks = {}
         /\ s.on = "tx" => \A k \in call[c].held, l \in s.locks : ComesAfter(call[c].name, k, l)
  <1>1. PICK q, p : q = call[c] /\ p = q.rest
    OBVIOUS
  <1>2. q \in Call /\ FitsCall(q) /\ AsksInOrder(q)
    BY <1>1, AtWork DEF LocksHeld, Busy
  <1>3. p \in Seq(Statement) /\ p # <<>>
    BY <1>1, <1>2, CallFields
  <1>4. s = p[1] /\ s \in Statement /\ Len(p) \in Nat /\ Len(p) >= 1 /\ 1 \in 1 .. Len(p)
        /\ DOMAIN p = 1 .. Len(p)
    BY <1>1, <1>3, HeadTailProperties, EmptySeq, LenProperties
  <1>5. /\ q.inTx => s.on # "begin"
        /\ s.on = "tx" => \A k \in q.held, l \in s.locks : ComesAfter(q.name, k, l)
    BY <1>1, <1>2, <1>4 DEF AsksInOrder
  <1>6. ASSUME q.inTx, s.on = "own" PROVE s.locks = {}
    <2>1. PICK i \in 1 .. Len(p) : p[i].on = "commit"
      BY <1>1, <1>2, <1>4, <1>6 DEF FitsCall, Fits, FitsPlan
    <2>2. i \in 1 + 1 .. Len(p)
      <3>1. i # 1
        BY <1>4, <1>6, <2>1
      <3> QED
        BY <1>4, <3>1
    <2>3. Precedes(q.name, p[1], p[i])
      BY <1>1, <1>2, <1>4, <2>2 DEF AsksInOrder, Ordered
    <2> QED
      BY <1>4, <1>6, <2>1, <2>3 DEF Precedes
  <1> QED
    BY <1>1, <1>2, <1>4, <1>5, <1>6

\* In a circle that the pool is not part of, a transaction waits for a row.
LEMMA InTxWaits ==
  ASSUME Circle, NEW d \in Clients, Busy(d), call[d].inTx
  PROVE  \E l, e, h : /\ WaitsFor(d, l, e, h)
                      /\ \A k \in call[d].held : ComesAfter(call[d].name, k, l)
  <1>1. Waits(d) /\ StateFits(call, owners) /\ LocksHeld(call)
    BY DEF Circle, Stuck
  <1>2. PICK s : s = Head(call[d].rest)
    OBVIOUS
  <1>3. call[d].rest # <<>>
    BY <1>1 DEF Waits, Runs
  <1>4. /\ s \in Statement /\ s.on # "begin" /\ (s.on = "own" => s.locks = {})
        /\ s.on = "tx" => \A k \in call[d].held, l \in s.locks : ComesAfter(call[d].name, k, l)
    BY <1>1, <1>2, <1>3, AtHead
  <1>5. Spare \/ ~Runs(d, "own")
    <2>1. InUse <= Connections
      BY <1>1, InvariantByFields DEF ServerInvariant, TypeOK
    <2>2. InUse \in Int
      <3>1. PICK f, g : f = call /\ g = call
        OBVIOUS
      <3>2. Cardinality(InTxOf(f)) \in Nat /\ Cardinality(RunningOf(f)) \in Nat
        BY <3>1, Count
      <3>3. InUse = Cardinality(InTxOf(call)) + Cardinality(RunningOf(call))
        BY DEF InUse, InTxOf, RunningOf, Busy
      <3> QED
        BY <3>1, <3>2, <3>3
    <2>3. ~Spare => InUse = Connections
      BY <2>1, <2>2, PoolAssumption DEF Spare
    <2> QED
      BY <2>3 DEF Circle, Exhausted
  <1>6. ~Runs(d, "begin")
    BY <1>2, <1>4 DEF Runs
  <1>7. ~MayLock(d)
    BY <1>1, <1>5, <1>6 DEF Waits
  <1>8. PICK e \in Clients : Blocks(e, d)
    BY <1>7 DEF MayLock
  <1>9. PICK h \in call[e].held, l \in s.locks : h[1] = l[1] /\ Conflicts(h[2], l[2])
    BY <1>2, <1>8 DEF Blocks
  <1>10. s.on = "tx"
    <2>1. Runs(d, "tx") \/ Runs(d, "own")
      BY <1>1, <1>5, <1>6 DEF Waits
    <2> QED
      BY <1>2, <1>4, <1>9, <2>1 DEF Runs
  <1>11. l \in Row \X Mode
    BY <1>4, <1>9 DEF Statement
  <1>12. WaitsFor(d, l, e, h)
    BY <1>2, <1>8, <1>9, <1>11 DEF WaitsFor, Blocks
  <1> QED
    BY <1>4, <1>9, <1>10, <1>12

LEMMA HolderWaits ==
  ASSUME Circle, NEW c, NEW m, NEW d, NEW g, WaitsFor(c, m, d, g)
  PROVE  \E l, e, h : /\ WaitsFor(d, l, e, h)
                      /\ \A k \in call[d].held : ComesAfter(call[d].name, k, l)
  <1>1. d \in Clients /\ Busy(d) /\ call[d].held # {}
    BY DEF WaitsFor
  <1>2. call[d].inTx
    BY <1>1, AtWork DEF Circle, FitsCall, Fits, FitsPlan
  <1> QED
    BY <1>1, <1>2, InTxWaits

LEMMA HolderAsks ==
  ASSUME Circle, NEW c, NEW m, NEW d, NEW k, WaitsFor(c, m, d, k)
  PROVE  \E l, e, h : WaitsFor(d, l, e, h) /\ ComesAfter(call[d].name, k, l)
  <1>1. k \in call[d].held
    BY DEF WaitsFor
  <1> QED
    BY <1>1, HolderWaits, Zenon

\* Somebody waits for a row: if all waited for the pool, those who have its
\* connections did.
LEMMA SomebodyWaits ==
  ASSUME Circle
  PROVE  \E c, l, d, k : WaitsFor(c, l, d, k)
  <1> SUFFICES ASSUME \A c, l, d, k : ~WaitsFor(c, l, d, k)
               PROVE  FALSE
    OBVIOUS
  <1>1. StateFits(call, owners) /\ LocksHeld(call)
    BY DEF Circle
  <1>2. ASSUME NEW d \in Clients, Busy(d) PROVE ~call[d].inTx
    BY <1>2, InTxWaits
  <1>3. ASSUME NEW d \in Clients, Busy(d), ~MayLock(d), call[d].rest # <<>> PROVE FALSE
    <2>1. PICK s : s = Head(call[d].rest)
      OBVIOUS
    <2>2. s \in Statement
      BY <1>1, <1>3, <2>1, AtHead
    <2>3. PICK e \in Clients : Blocks(e, d)
      BY <1>3 DEF MayLock
    <2>4. PICK h \in call[e].held, l \in s.locks : h[1] = l[1] /\ Conflicts(h[2], l[2])
      BY <2>1, <2>3 DEF Blocks
    <2>5. l \in Row \X Mode
      BY <2>2, <2>4 DEF Statement
    <2> QED
      BY <2>1, <2>3, <2>4, <2>5 DEF WaitsFor, Blocks
  <1>4. ASSUME NEW d \in Clients, Busy(d) PROVE ~Spare /\ ~call[d].running
    <2>1. Waits(d)
      BY <1>4 DEF Circle, Stuck
    <2>2. call[d].rest # <<>>
      BY <2>1 DEF Waits, Runs
    <2>3. MayLock(d)
      BY <1>3, <1>4, <2>2
    <2>4. ~Spare /\ ((Runs(d, "own") /\ ~call[d].running) \/ Runs(d, "begin"))
      BY <2>1, <2>3 DEF Waits
    <2>5. call[d].running => Head(call[d].rest).on = "own"
      BY <1>1, <1>4, AtWork DEF FitsCall, Fits, FitsPlan
    <2> QED
      BY <2>4, <2>5 DEF Runs
  <1>5. InTxOf(call) = {} /\ RunningOf(call) = {}
    BY <1>2, <1>4 DEF InTxOf, RunningOf, Busy
  <1>6. InUse = 0
    <2>1. InUse = Cardinality(InTxOf(call)) + Cardinality(RunningOf(call))
      BY DEF InUse, InTxOf, RunningOf, Busy
    <2> QED
      BY <1>5, <2>1, FS_EmptySet
  <1>7. Spare
    BY <1>6, PoolAssumption DEF Spare
  <1> QED
    BY <1>4, <1>7 DEF Circle, Stuck

OfImages == {<<"rooms", "reorderImages">>, <<"rooms", "setPrimaryImage">>}
OfRow == {<<"rooms", "update">>}

\* What is asked for behind a row, by the row.
LEMMA WhatFollows ==
  ASSUME NEW name, NEW k, NEW l, ComesAfter(name, k, l)
  PROVE  /\ k[1] \in LinkRows \cup ImageRows \cup {"room"}
         /\ k[1] = "room" => name \in OfRow /\ k[2] = "share" /\ l[1] = "room"
         /\ k[1] \in LinkRows => /\ name \in OfRow /\ k[2] = "update"
                                 /\ l[1] \in (LinkRows \cup {"room"}) \ {k[1]}
         /\ k[1] \in ImageRows =>
              name \in OfImages /\ k[2] = "update" /\ l[1] \in ImageRows
  BY DEF ComesAfter, LinkRows, ImageRows, OfRow, OfImages

\* Who waits for the room's row waits for one who holds it for a foreign key and
\* wants it for an update, and who so waits for another such one.
LEMMA AtTheRoom ==
  ASSUME Circle, NEW c, NEW l, NEW d, NEW k, WaitsFor(c, l, d, k), l[1] = "room"
  PROVE  TwoRivals
  <1>1. PICK m, e, h : WaitsFor(d, m, e, h) /\ ComesAfter(call[d].name, k, m)
    BY HolderAsks, Zenon
  <1>2. k[1] = "room" /\ k[2] = "share" /\ m[1] = "room" /\ call[d].name \in OfRow
    BY <1>1, WhatFollows DEF WaitsFor
  <1>3. PICK n, f, g : WaitsFor(e, n, f, g) /\ ComesAfter(call[e].name, h, n)
    BY <1>1, HolderAsks, Zenon
  <1>4. h[1] = "room" /\ h[2] = "share" /\ n[1] = "room" /\ call[e].name \in OfRow
    BY <1>1, <1>2, <1>3, WhatFollows DEF WaitsFor
  <1>5. PICK o, i, j : WaitsFor(f, o, i, j) /\ ComesAfter(call[f].name, g, o)
    BY <1>3, HolderAsks, Zenon
  <1>6. g[2] = "share"
    BY <1>3, <1>4, <1>5, WhatFollows DEF WaitsFor
  <1>7. n[2] = "update"
    BY <1>3, <1>6, ModesConflict DEF WaitsFor
  <1>8. Conflicts(k[2], n[2])
    BY <1>7, ModesConflict
  <1>9. WaitsFor(e, n, d, k)
    BY <1>1, <1>2, <1>3, <1>4, <1>8 DEF WaitsFor
  <1>10. OfRow \in Rivals
    BY DEF OfRow, Rivals
  <1> QED
    BY <1>1, <1>2, <1>4, <1>9, <1>10, OfTheTwo

\* Who holds a link and waits for another, waits for one who holds that one and
\* wants the first, or the room.
LEMMA AtTheLinks ==
  ASSUME Circle, NEW d, NEW m, NEW e, NEW h, WaitsFor(d, m, e, h),
         NEW k \in call[d].held, ComesAfter(call[d].name, k, m), k[1] \in LinkRows
  PROVE  TwoRivals
  <1>1. /\ call[d].name \in OfRow /\ k[2] = "update"
        /\ m[1] \in (LinkRows \cup {"room"}) \ {k[1]}
    BY WhatFollows
  <1>2. CASE m[1] = "room"
    BY <1>2, AtTheRoom
  <1>3. CASE m[1] \in LinkRows
    <2>1. PICK n, f, g : WaitsFor(e, n, f, g) /\ ComesAfter(call[e].name, h, n)
      BY HolderAsks, Zenon
    <2>2. h[1] = m[1] /\ h[1] \in LinkRows /\ h[1] # k[1]
      BY <1>1, <1>3 DEF WaitsFor
    <2>3. call[e].name \in OfRow /\ n[1] \in (LinkRows \cup {"room"}) \ {h[1]}
      BY <2>1, <2>2, WhatFollows
    <2>4. n[1] = "room" \/ n[1] = k[1]
      BY <1>1, <2>2, <2>3 DEF LinkRows
    <2>5. CASE n[1] = "room"
      BY <2>1, <2>5, AtTheRoom
    <2>6. CASE n[1] = k[1]
      <3>1. Conflicts(k[2], n[2])
        BY <1>1, ModesConflict
      <3>2. WaitsFor(e, n, d, k)
        BY <2>1, <2>6, <3>1 DEF WaitsFor
      <3>3. OfRow \in Rivals
        BY DEF OfRow, Rivals
      <3> QED
        BY <1>1, <2>3, <3>2, <3>3, OfTheTwo
    <2> QED
      BY <2>4, <2>5, <2>6
  <1> QED
    BY <1>1, <1>2, <1>3

\* Who holds an image waits for one who holds the other, and wants the first.
LEMMA AtTheImages ==
  ASSUME Circle, NEW d, NEW m, NEW e, NEW h, WaitsFor(d, m, e, h),
         NEW k \in call[d].held, ComesAfter(call[d].name, k, m), k[1] \in ImageRows
  PROVE  TwoRivals
  <1>1. call[d].name \in OfImages /\ k[2] = "update" /\ m[1] \in ImageRows
    BY WhatFollows
  <1>2. PICK n, f, g : WaitsFor(e, n, f, g) /\ ComesAfter(call[e].name, h, n)
    BY HolderAsks, Zenon
  <1>3. h[1] \in ImageRows
    BY <1>1 DEF WaitsFor
  <1>4. call[e].name \in OfImages /\ h[2] = "update" /\ n[1] \in ImageRows
    BY <1>2, <1>3, WhatFollows
  <1>5. LocksHeld(call)
    BY DEF Circle
  <1>6. h[1] # k[1]
    <2> SUFFICES ASSUME h[1] = k[1] PROVE FALSE
      OBVIOUS
    <2>1. ~Conflicts(k[2], h[2])
      BY <1>5, BothHold DEF WaitsFor
    <2> QED
      BY <1>1, <2>1, ModesConflict
  <1>7. n[1] # h[1]
    <2> SUFFICES ASSUME n[1] = h[1] PROVE FALSE
      OBVIOUS
    <2>1. ~Conflicts(h[2], g[2])
      BY <1>2, <1>5, BothHold DEF WaitsFor
    <2> QED
      BY <1>4, <2>1, ModesConflict
  <1>8. n[1] = k[1]
    <2>1. k[1] \in ImageRows
      OBVIOUS
    <2> QED
      BY <1>3, <1>4, <1>6, <1>7, <2>1 DEF ImageRows
  <1>9. Conflicts(k[2], n[2])
    BY <1>1, ModesConflict
  <1>10. WaitsFor(e, n, d, k)
    BY <1>2, <1>8, <1>9 DEF WaitsFor
  <1>11. OfImages \in Rivals
    BY DEF OfImages, Rivals
  <1> QED
    BY <1>1, <1>4, <1>10, <1>11, OfTheTwo

\* So, from one who waits for a row: the one who holds it waits behind it.
LEMMA CircleOfRivals ==
  ASSUME Circle
  PROVE  TwoRivals
  <1>1. PICK c, l, d, k : WaitsFor(c, l, d, k)
    BY SomebodyWaits
  <1>2. PICK m, e, h : WaitsFor(d, m, e, h) /\ ComesAfter(call[d].name, k, m)
    BY <1>1, HolderAsks, Zenon
  <1>3. k \in call[d].held
    BY <1>1 DEF WaitsFor
  <1>4. CASE k[1] = "room"
    BY <1>2, <1>4, WhatFollows, AtTheRoom
  <1>5. CASE k[1] \in LinkRows
    BY <1>2, <1>3, <1>5, AtTheLinks
  <1>6. CASE k[1] \in ImageRows
    BY <1>2, <1>3, <1>6, AtTheImages
  <1> QED
    BY <1>2, <1>4, <1>5, <1>6, WhatFollows

\* Which requests can wait for each other for ever, were there no timers: those
\* of an exhausted pool (create's findApplicableOffer asks for a second
\* connection in the transaction), or two that change one room's row, or its
\* images, in opposite orders.  No booking, approval or cancellation is ever in a
\* circle of rows.
THEOREM CirclesAreKnown == Spec => []KnownCirclesOnly
  <1>1. ServerInvariant /\ LocksInvariant => KnownCirclesOnly
    <2> SUFFICES ASSUME ServerInvariant, LocksInvariant, Stuck, ~Exhausted
                 PROVE  TwoRivals
      BY DEF KnownCirclesOnly, TwoRivals
    <2>1. Circle
      BY InvariantByFields, LocksByClient DEF Circle
    <2> QED
      BY <2>1, CircleOfRivals
  <1> QED
    BY <1>1, ServerInvariance, LocksInvariance, PTL
=============================================================================
