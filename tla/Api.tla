-------------------------------- MODULE Api --------------------------------
(***************************************************************************)
(* The HTTP interface: what each route of each controller asks of the      *)
(* caller, which statements its service then runs in which order, and how  *)
(* an error is answered.  No state: Server runs these plans.               *)
(*                                                                         *)
(* A service operation is a set of plans, one for each way it may go when  *)
(* nothing is wrong.  A plan is a sequence of statements; a statement may  *)
(* end the request by one of the errors it throws.                         *)
(***************************************************************************)
EXTENDS Integers, Sequences

Role == {"ADMIN", "CUSTOMER"} \* schema.prisma

-----------------------------------------------------------------------------
\* The errors of the services, and the status each one is answered with.
DomainStatus ==
  [INVALID_CREDENTIALS |-> 401, EMAIL_ALREADY_EXISTS |-> 409,
   PHONE_ALREADY_EXISTS |-> 409, INVALID_REFRESH_TOKEN |-> 401,
   ACCOUNT_BLOCKED |-> 403, ACCOUNT_INACTIVE |-> 403, USER_NOT_FOUND |-> 404,
   ROOM_NOT_FOUND |-> 404, ROOM_NOT_AVAILABLE |-> 409, ROOM_INACTIVE |-> 400,
   ROOM_UNDER_MAINTENANCE |-> 400, ROOM_CAPACITY_EXCEEDED |-> 400,
   ROOM_NUMBER_EXISTS |-> 409, ROOM_IMAGE_NOT_FOUND |-> 404,
   ROOM_TYPE_NOT_FOUND |-> 404, ROOM_TYPE_IN_USE |-> 409, FACILITY_NOT_FOUND |-> 404,
   BOOKING_NOT_FOUND |-> 404, BOOKING_ALREADY_PROCESSED |-> 409,
   BOOKING_NOT_CANCELLABLE |-> 400, INVALID_BOOKING_DATES |-> 400,
   OFFER_NOT_FOUND |-> 404, UPLOAD_FAILED |-> 400, INVALID_FILE_TYPE |-> 400,
   FORBIDDEN |-> 403, UNAUTHORIZED |-> 401]

\* mapPrismaError.  P2024 (no connection in time), P2028 (a transaction that
\* could not start, or took too long) and P2034 (a deadlock) are among its other
\* errors.
PrismaStatus(e) ==
  CASE e = "P2002" -> 409
    [] e = "P2025" -> 404
    [] e = "P2003" -> 400
    [] OTHER -> 500

PrismaErrors == {"P2002", "P2025", "P2003", "P2024", "P2028", "P2034"}

\* AllExceptionsFilter: a DomainException, another HttpException, a PrismaError,
\* or anything else.
HttpStatus == [BAD_REQUEST |-> 400, NOT_FOUND |-> 404]

\* What a statement may throw when nothing is wrong with the server.
Errors == DOMAIN DomainStatus \cup DOMAIN HttpStatus \cup PrismaErrors
StatusOf(e) ==
  IF e \in DOMAIN DomainStatus THEN DomainStatus[e]
  ELSE IF e \in DOMAIN HttpStatus THEN HttpStatus[e]
  ELSE IF e \in PrismaErrors THEN PrismaStatus(e)
  ELSE 500

-----------------------------------------------------------------------------
\* Rows that requests about one room lock.  Two images, and the links to two
\* facilities, stand for any number.
Row == {"room", "image1", "image2", "link1", "link2"}

\* How PostgreSQL locks a row: for a foreign key ("share"), for an UPDATE that
\* leaves its unique columns alone ("nokey"), or for itself.
Mode == {"share", "nokey", "update"}
Conflicts(m, n) == {m, n} \notin {{"share"}, {"share", "nokey"}}

\* Statements.  on: what it runs on, a connection of its own ("own"), that of
\* the transaction ("tx"), or none; "begin" takes the connection that "tx" and
\* "commit" use.  locks: the rows it waits for; on "tx" it keeps them.
\* writes: it changes the database.
Statement ==
  [on: {"nothing", "own", "begin", "tx", "commit"}, locks: SUBSET (Row \X Mode),
   writes: BOOLEAN, throws: SUBSET Errors]

Does(on, errors) == [on |-> on, locks |-> {}, writes |-> FALSE, throws |-> errors]

Check(errors) == Does("nothing", errors)
Read(errors) == Does("own", errors)
Reads(n) == [i \in 1 .. n |-> Read({})]
Write(errors) == [Read(errors) EXCEPT !.writes = TRUE]
WriteRow(row, mode, errors) == [Write(errors) EXCEPT !.locks = {<<row, mode>>}]

\* Mutant: the service's own client is used inside the transaction.
InTx_OwnClient(errors) == Write(errors)

Begin == Does("begin", {})
InTx(errors) == Does("tx", errors)
Lock(row, mode, errors) == [InTx(errors) EXCEPT !.locks = {<<row, mode>>}]
Commit == [Does("commit", {}) EXCEPT !.writes = TRUE]

\* The rows are locked one after the other, as the statement meets them.
LockEach(rows) == [i \in DOMAIN rows |-> Lock(rows[i], "update", {})]

\* A write of a row read before, which may be gone; of a row with a unique
\* column; of a row that refers to others.
Gone == {"P2025"}
Taken == {"P2002"}
Dangling == {"P2003"}

-----------------------------------------------------------------------------
\* The services.  logout: revoking one token may fail, with nothing written, and
\* then all are revoked.
AuthService ==
  LET issueTokens == <<Write({})>>
  IN  [register |-> {e \o <<Write(Taken)>> \o issueTokens : e \in
         {<<Read({"EMAIL_ALREADY_EXISTS"})>>,
          <<Read({"EMAIL_ALREADY_EXISTS"}), Read({"PHONE_ALREADY_EXISTS"})>>}},
       login |-> {<<Read({"INVALID_CREDENTIALS", "ACCOUNT_BLOCKED", "ACCOUNT_INACTIVE"})>>
                  \o issueTokens},
       refresh |-> {<<Check({"INVALID_REFRESH_TOKEN"}), Read({"INVALID_REFRESH_TOKEN"}),
                      Read({"INVALID_REFRESH_TOKEN"}), Write(Gone)>> \o issueTokens},
       logout |-> {<<Write({})>>, <<Read({}), Write({})>>},
       me |-> {<<Read({"USER_NOT_FOUND"})>>}]

UsersService ==
  LET findOne == <<Read({"USER_NOT_FOUND"})>>
  IN  [findAll |-> {Reads(2)},
       findOne |-> {findOne},
       updateStatus |-> {findOne \o <<Write(Gone)>>}]

RoomTypesService ==
  LET findOne == <<Read({"ROOM_TYPE_NOT_FOUND"})>>
  IN  [findAll |-> {Reads(1)},
       findOne |-> {findOne},
       create |-> {<<Write(Taken)>>},
       update |-> {findOne \o <<Write(Gone \cup Taken)>>},
       remove |-> {findOne \o <<Read({"ROOM_TYPE_IN_USE"}), Write(Gone \cup Dangling)>>}]

FacilitiesService ==
  LET findOne == <<Read({"FACILITY_NOT_FOUND"})>>
  IN  [findAll |-> {Reads(1)},
       findOne |-> {findOne},
       create |-> {<<Write(Taken)>>},
       update |-> {findOne \o <<Write(Gone \cup Taken)>>},
       remove |-> {findOne \o <<Write(Gone)>>}]

AvailabilityService ==
  [searchAvailableRooms |-> {<<Check({"INVALID_BOOKING_DATES"})>> \o Reads(n) : n \in 1 .. 2},
   isRoomAvailable |-> {<<Read({"ROOM_NOT_FOUND"}), Check({"INVALID_BOOKING_DATES"})>>
                        \o Reads(n) : n \in 0 .. 1}]

\* An offer that names a room refers to it, and so waits for it.
OffersService ==
  LET ensureExists == <<Read({"OFFER_NOT_FOUND"})>>
      validateBusinessRules == <<Check({"BAD_REQUEST"})>>
  IN  [findAllPublic |-> {Reads(2)},
       findAllAdmin |-> {Reads(2)},
       findOne |-> {ensureExists},
       create |-> {validateBusinessRules \o <<w>> : w \in
                     {Write(Dangling), WriteRow("room", "share", Dangling)}},
       update |-> {ensureExists \o validateBusinessRules \o <<w>> : w \in
                     {Write(Gone \cup Dangling),
                      WriteRow("room", "share", Gone \cup Dangling)}},
       remove |-> {ensureExists \o <<Write(Gone)>>}]

\* again: findOne, of a room that was there before; no room is ever deleted.
\* facilities: deleteMany finds no link, else it makes the updates of one room
\* follow each other; createMany inserts the links, then checks what they refer
\* to.  row: the UPDATE, which locks the room for itself to change its number.
RoomsService ==
  LET findOne == <<Read({"ROOM_NOT_FOUND"})>>
      again == Reads(1)
      roomType == <<Read({"ROOM_TYPE_NOT_FOUND"})>>
      number == <<Read({"ROOM_NUMBER_EXISTS"})>>
      image == <<Read({"ROOM_IMAGE_NOT_FOUND"})>>
      facilities ==
        {<<>>, <<InTx({})>>}
        \cup {<<InTx({})>> \o LockEach(links)
                \o <<Lock("room", "share", Taken \cup Dangling)>> : links \in
                {<<"link1">>, <<"link2">>, <<"link1", "link2">>, <<"link2", "link1">>}}
      row(mode) == <<Lock("room", mode, Taken \cup Dangling), Commit>>
      eachImage == {LockEach(<<"image1", "image2">>), LockEach(<<"image2", "image1">>)}
  IN  [findAll |-> {Reads(2)},
       findOne |-> {findOne},
       create |-> {roomType \o number \o <<Write(Taken \cup Dangling)>>},
       update |-> {findOne \o type \o rest : type \in {<<>>, roomType}, rest \in
                     {<<Begin>> \o fs \o row("nokey") : fs \in facilities}
                     \cup {number \o <<Begin>> \o fs \o row(mode) :
                            fs \in facilities, mode \in {"nokey", "update"}}},
       remove |-> {findOne \o <<WriteRow("room", "nokey", Gone)>>},
       addImages |-> {findOne \o <<Check({"UPLOAD_FAILED"})>> \o Reads(2)
                      \o <<WriteRow("room", "share", {})>> \o again},
       removeImage |-> {findOne \o image \o <<WriteRow("image1", "update", Gone)>>
                        \o next \o again : next \in
                          {<<>>, Reads(1),
                           Reads(1) \o <<WriteRow("image2", "nokey", Gone)>>}},
       setPrimaryImage |-> {findOne \o image \o <<Begin>> \o images
                            \o <<Lock("image1", "nokey", Gone), Commit>> \o again :
                              images \in eachImage},
       reorderImages |-> {findOne \o <<Begin>> \o images \o <<Commit>> \o again :
                            images \in eachImage}]

\* Mutant: the row is read with a shared lock first.
LockRoomForUpdate_SharedFirst == <<Lock("room", "share", {}), Lock("room", "update", {})>>

LockRoomForUpdate == <<Lock("room", "update", {})>>

\* create asks OffersService for an offer on a connection of its own, with the
\* transaction open and the room locked.  FORBIDDEN: the booking is another's.
BookingsService ==
  LET reading == <<Begin, InTx({"BOOKING_NOT_FOUND", "BOOKING_ALREADY_PROCESSED"})>>
      writing == <<InTx({}), InTx({}), Commit>>
      lockedCheck == LockRoomForUpdate \o <<InTx({"ROOM_NOT_AVAILABLE"})>>
  IN  [create |-> {<<Check({"INVALID_BOOKING_DATES"}), Begin,
                     InTx({"ROOM_NOT_FOUND", "ROOM_INACTIVE",
                           "ROOM_UNDER_MAINTENANCE", "ROOM_CAPACITY_EXCEEDED"})>>
                   \o lockedCheck \o Reads(1)
                   \o <<InTx({}), InTx(Taken \cup Dangling), InTx({}), Commit>>},
       findMyBookings |-> {Reads(2)},
       findOne |-> {<<Read({"BOOKING_NOT_FOUND"}), Check({"FORBIDDEN"})>>},
       cancelOwn |-> {<<Read({"BOOKING_NOT_FOUND"}), Check({"FORBIDDEN"}),
                        Check({"BOOKING_NOT_CANCELLABLE"}), Begin>> \o writing},
       cancelAsAdmin |-> {<<Read({"BOOKING_NOT_FOUND", "BOOKING_ALREADY_PROCESSED"}),
                            Begin>> \o writing},
       findAllAdmin |-> {Reads(2)},
       findOneAdmin |-> {<<Read({"BOOKING_NOT_FOUND"})>>},
       approve |-> {reading \o lockedCheck \o writing},
       reject |-> {reading \o writing}]

DashboardService == [getStats |-> {Reads(9)}]

\* readLocalFile asks the storage alone.
UploadsService == [readLocalFile |-> {<<Check({"NOT_FOUND"})>>}]

-----------------------------------------------------------------------------
\* The controllers.  A route is public (@Public), or needs a valid access
\* token, and then one of its roles if it has any (@Roles with RolesGuard).
Route(public, roles, plans) == [public |-> public, roles |-> roles, plans |-> plans]
Public(plans) == Route(TRUE, {}, plans)
SignedIn(plans) == Route(FALSE, {}, plans)
Customer(plans) == Route(FALSE, {"CUSTOMER"}, plans)
Admin(plans) == Route(FALSE, {"ADMIN"}, plans)

AuthController ==
  [register |-> Public(AuthService.register), login |-> Public(AuthService.login),
   refresh |-> Public(AuthService.refresh), logout |-> SignedIn(AuthService.logout),
   me |-> SignedIn(AuthService.me)]

UsersController ==
  [findAll |-> Admin(UsersService.findAll), findOne |-> Admin(UsersService.findOne),
   updateStatus |-> Admin(UsersService.updateStatus)]

RoomTypesController ==
  [findAll |-> Public(RoomTypesService.findAll), findOne |-> Public(RoomTypesService.findOne),
   create |-> Admin(RoomTypesService.create), update |-> Admin(RoomTypesService.update),
   remove |-> Admin(RoomTypesService.remove)]

FacilitiesController ==
  [findAll |-> Public(FacilitiesService.findAll),
   findOne |-> Public(FacilitiesService.findOne),
   create |-> Admin(FacilitiesService.create), update |-> Admin(FacilitiesService.update),
   remove |-> Admin(FacilitiesService.remove)]

AvailabilityController ==
  [search |-> Public(AvailabilityService.searchAvailableRooms)]

OffersController ==
  [findAll |-> Public(OffersService.findAllPublic), findOne |-> Public(OffersService.findOne)]

AdminOffersController ==
  [findAll |-> Admin(OffersService.findAllAdmin), create |-> Admin(OffersService.create),
   update |-> Admin(OffersService.update), remove |-> Admin(OffersService.remove)]

RoomsController ==
  [findAll |-> Public(RoomsService.findAll), findOne |-> Public(RoomsService.findOne),
   checkAvailability |-> Public(AvailabilityService.isRoomAvailable),
   create |-> Admin(RoomsService.create), update |-> Admin(RoomsService.update),
   remove |-> Admin(RoomsService.remove), addImages |-> Admin(RoomsService.addImages),
   reorderImages |-> Admin(RoomsService.reorderImages),
   setPrimaryImage |-> Admin(RoomsService.setPrimaryImage),
   removeImage |-> Admin(RoomsService.removeImage)]

BookingsController ==
  [create |-> Public(BookingsService.create),
   findMine |-> Customer(BookingsService.findMyBookings),
   findOne |-> SignedIn(BookingsService.findOne),
   cancel |-> Customer(BookingsService.cancelOwn)]

AdminBookingsController ==
  [findAll |-> Admin(BookingsService.findAllAdmin),
   findOne |-> Admin(BookingsService.findOneAdmin),
   approve |-> Admin(BookingsService.approve), reject |-> Admin(BookingsService.reject),
   cancel |-> Admin(BookingsService.cancelAsAdmin)]

DashboardController == [getStats |-> Admin(DashboardService.getStats)]

UploadsController == [serveImage |-> SignedIn(UploadsService.readLocalFile)]

Controllers ==
  [auth |-> AuthController, users |-> UsersController,
   roomTypes |-> RoomTypesController, facilities |-> FacilitiesController,
   availability |-> AvailabilityController, offers |-> OffersController,
   adminOffers |-> AdminOffersController, rooms |-> RoomsController,
   bookings |-> BookingsController, adminBookings |-> AdminBookingsController,
   dashboard |-> DashboardController, uploads |-> UploadsController]

\* A route's name: its controller and its handler.
RouteNames ==
  UNION {{<<c, h>> : h \in DOMAIN Controllers[c]} : c \in DOMAIN Controllers}
RouteOf(name) == Controllers[name[1]][name[2]]

-----------------------------------------------------------------------------
\* What plans have in common.  A part of a plan that starts inside a transaction
\* (before) or not, and ends inside one (after) or not: a transaction begins
\* before its statements, and commits behind them.
Within(plan, first, last, on) == \E i \in first .. last : plan[i].on = on

Frames(plan, before, after) ==
  /\ plan \in Seq(Statement)
  /\ before => after \/ Within(plan, 1, Len(plan), "commit")
  /\ after => before \/ Within(plan, 1, Len(plan), "begin")
  /\ \A i \in 1 .. Len(plan) :
       /\ plan[i].on = "begin" => after \/ Within(plan, i + 1, Len(plan), "commit")
       /\ plan[i].on = "tx" => before \/ Within(plan, 1, i - 1, "begin")
       /\ plan[i].on = "commit" =>
            /\ after => Within(plan, i + 1, Len(plan), "begin")
            /\ \A j \in i + 1 .. Len(plan) :
                 plan[j].on = "tx" => Within(plan, i + 1, j - 1, "begin")

WritesLast(plan) == \A i \in 1 .. Len(plan) : plan[i].writes => i = Len(plan)
NoErrorAfterWrite(plan) ==
  \A i, j \in 1 .. Len(plan) : i < j /\ plan[i].writes => plan[j].throws = {}

\* The locks that the transactions of a route ask for while they hold another:
\* they meet links and images of a room in any order, the links before the room,
\* and the room first for a foreign key, then for its own UPDATE.
LinkRows == {"link1", "link2"}
ImageRows == {"image1", "image2"}
ComesAfter(name, k, l) ==
  \/ /\ name = <<"rooms", "update">>
     /\ \/ k[1] \in LinkRows /\ k[2] = "update" /\ l[1] \in (LinkRows \cup {"room"}) \ {k[1]}
        \/ k = <<"room", "share">> /\ l[1] = "room"
  \/ /\ name \in {<<"rooms", "reorderImages">>, <<"rooms", "setPrimaryImage">>}
     /\ k[1] \in ImageRows /\ k[2] = "update" /\ l[1] \in ImageRows
     /\ l[1] = k[1] => l[2] = "nokey"

\* What the statement s allows behind it: no second transaction; none at all if
\* it waits for a row outside of one; and in its own, locks in order.
Precedes(name, s, t) ==
  /\ s.on = "begin" => t.on # "begin"
  /\ s.on = "own" /\ t.on = "commit" => s.locks = {}
  /\ s.on = "tx" /\ t.on = "tx" =>
       \A k \in s.locks, l \in t.locks : ComesAfter(name, k, l)
Ordered(name, plan) ==
  \A i \in 1 .. Len(plan) : \A j \in i + 1 .. Len(plan) : Precedes(name, plan[i], plan[j])
=============================================================================
