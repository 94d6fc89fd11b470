# Verification of the guest-house backend

TLA+ models, TLC runs and TLAPS proofs for the NestJS backend of a guest house
(sources under `src/`; paths below are relative to the repository).

## 1. The system

One NestJS process (or several) over one PostgreSQL database, reached through
Prisma 5. Every request is an async function; between two `await`s of one request
any number of steps of the others may run. The only coordination is the database:
transactions, row locks, unique indexes and foreign keys.

| Component | State | Operations | Interacts with | What makes it correct |
| --- | --- | --- | --- | --- |
| Booking lifecycle (`bookings/bookings.service.ts`) | tables `bookings`, `booking_status_history` | create, approve, reject, cancelOwn, cancelAsAdmin; four queries | rooms (price, lock), availability, offers, numbers | no night sold twice; status moves only where it may; history agrees with status; every request ends |
| Availability (`availability/availability.service.ts`) | none | overlap check, room lock; searches | bookings, rooms | the same overlap rule on every path |
| Booking numbers (`common/utils/booking-number.util.ts`) | none (a count of `bookings`) | next number of the year | bookings, clock | unique, and never stuck on a number in use |
| Dates (`common/utils/date.util.ts`) | none | UTC day, range check, nights, overlap | all of the above | total order of days, no shift by a day |
| Rooms catalogue (`rooms/rooms.service.ts`) | `rooms`, `room_facilities` | create, update, remove (soft) | bookings read it and lock it | a removed room stays removed |
| Room images, uploads (`rooms`, `uploads`) | `room_images`, files in Cloudinary or on disk | add, remove, set primary, reorder | storage, which fails on its own | one primary image per room with images; no row without a file |
| Offers (`offers/offers.service.ts`) | `offers` | create, update, remove, best offer | bookings, room types (ON DELETE SET NULL) | the largest applicable discount, never above the subtotal; an offer keeps its scope |
| Authentication (`auth/auth.service.ts`) | `users`, `refresh_tokens` | register, login, refresh, logout | users (status) | a refresh token is used once; logout and blocking end a session |
| Guards, controllers | none | who reaches which operation | all services | customers act on their own bookings only |
| Connection pool (Prisma) | connections in use | take, give back, time out | a transaction keeps one, a query outside it takes another | nobody waits for ever |
| Room types, facilities, users, dashboard | their tables | CRUD, counts | foreign keys | references stay valid |
| Errors, responses, bootstrap, seed | none | formatting, wiring | | |

Hard behaviours: requests that check in one statement and write in a later one;
locks waited for while what was read grows old; transactions that time out (15 s
for create) or die with the process; two statements that must both happen or
neither; a count used as a sequence; storage outside the transaction; a second
connection needed while one is held. `PROJECT.json` lists each such place with its
line and the properties that guard it.

## 2. Modules

| Module | Models |
| --- | --- |
| `RoomCalendar` | the promise: each booking takes its nights of a room in one step, clear of the others, or gives them back |
| `Bookings` | the five state-changing operations as handlers, one step per statement; states the properties |
| `MCBookings` | constants and symmetry for TLC |
| `BookingsProofs` | inductive invariant, types, no night sold twice, and `Bookings` implements `RoomCalendar` |
| `RecordsProofs` | numbers, histories, settled bookings, and the agreement of search and create |
| `Auth` | registration, login, refresh, logout and the status of accounts, one step per statement, no transactions |
| `MCAuth` | symmetry for TLC |
| `AuthProofs` | inductive invariant of the sessions and what follows from it |
| `RoomImages` | the images of rooms: rows, files in the storage, and the requests that change both |
| `MCRoomImages` | symmetry for TLC |
| `RoomImagesProofs` | no image without its file, no file forgotten |
| `PrimaryProofs` | one primary image for each room whose requests did not overlap |
| `Catalogue` | room types, facilities, rooms and offers as administrators keep them, and the price a booking takes from them |
| `MCCatalogue` | the rooms, offers and changes that TLC tries |
| `CatalogueProofs` | inductive invariant of the tables and what follows from it, two action properties among them |
| `Api` | every route: what it asks of the caller, the statements of its service in order, the status of its errors; no state |
| `Server` | the plans of `Api` run by concurrent requests over one connection pool and the row locks of rooms |
| `MCServer` | the requests that TLC tries |
| `ServerProofs` | inductive invariant of requests in progress, from lemmas about every plan and every route of `Api` |
| `LocksProofs` | the order in which every route asks for locks, and which circles of waiting requests there are |

The table `rooms` is in three modules, each with the columns its properties need:
`Bookings` (price, status, capacity, and the lock), `Catalogue` (number, type, status,
`isActive`, facilities, offers) and `RoomImages` (the id only, for no room is deleted).
`Server` composes all services: what they compute is abstracted to the statements they
run, and what is added is who runs them, what they wait for and what an answer tells.

### How `Bookings` corresponds to the code

State: `roomRow`, `booking` and `history` are the committed tables; `today` is the
server's UTC day; `roomLock` holds the `FOR UPDATE` locks; `pc` and `call` are the
local state of the requests in progress. `call[h].row` is the row that `create`
puts together, or the row (`existing`, `booking`) the other operations read.

| Step of a request | Code |
| --- | --- |
| `StartCreate` | date check and the unlocked `room.findUnique` with its four refusals (lines 59-74) |
| `StartApprove`, `StartReject` | `findUnique` and the test for `PENDING`, inside the transaction |
| `StartCancelOwn`, `StartCancelAsAdmin` | `findUnique` and tests, before any transaction |
| `LockRoom` | `lockRoomForUpdate` |
| `PassOverlapCheck`, `FailOverlapCheck` | `hasOverlappingBooking`; a refusal rolls back |
| `NumberBooking` | `generateBookingNumber` |
| `InsertBooking`, `InsertCollides` | `booking.create` and the first history row; `P2002` |
| `UpdateBooking` | `booking.update` and its history row |
| `Commit`, `Abort` | end of the transaction; `Abort` is a timeout, an error or a crash |
| `UpdateRoom`, `RemoveRoom` | `RoomsService.update`, `remove`: the one `UPDATE` of the room |

A request refused by its first statement changes nothing and is no step. The search
for the best offer, between the overlap check and the number, decides the discount
only: that is in `Catalogue`. `SearchAvailableRooms`, `FindOverlappingRoomIds` and
`IsRoomAvailable` are the two availability queries, as functions of the tables.

Assumptions about the environment, each from PostgreSQL's documented behaviour at
its default isolation, READ COMMITTED, which the code does not change:

- a statement reads the rows committed when it runs. `NoDoubleBooking` depends on
  it: under a snapshot taken at the first statement the overlap check would not see
  what the former holder of the lock committed;
- `SELECT ... FOR UPDATE` makes an `UPDATE` of that row, and another `FOR UPDATE`,
  wait; a plain read does not wait;
- an `INSERT` of a unique value waits for a transaction that inserted the same
  value and has not ended;
- the end of a transaction releases all it holds;
- `createdAt` is stamped when the `INSERT` runs. A stamp taken at the start of the
  transaction could fall in the year before its number's.

`BookingsController.create` is a public route, so its caller's account is always
undefined; the service accepts an owner, and rows made with one remain in the
table. `Users` is therefore a parameter: empty in two of the instances, one customer
in the others, so that `cancelOwn` has something to cancel.

Nothing in the code writes `COMPLETED`, deletes a booking, or lets a `PENDING`
booking lapse, so neither does the model.

### How `Auth` corresponds to the code

State: `account` and `token` are the committed tables `users` (the status) and
`refresh_tokens` (owner, `revokedAt`); `expired` stands for the clock (one flag per
token for the expiry inside the JWT and the one in its row, which lie less than a
second apart); `answered` is what clients have received; `pc` and `call` as above.
`over`, `source`, `loggedOut` and `barred` are history variables: no guard reads
them, except to compute histories.

| Step of a request | Code |
| --- | --- |
| `StartRegister`, `CreateUser`, `CreateUserCollides` | free e-mail and phone; the `INSERT`, or `P2002` |
| `StartLogin` | `findUnique`, password, status of that row |
| `StartRefresh` | signature and expiry of the token presented |
| `FindToken`, `TokenUnusable` | the stored row: `revokedAt`, `expiresAt`, hash |
| `FindOwner`, `OwnerBarred` | status of the account |
| `Rotate` | `revokedAt` set by id, live or not |
| `IssueTokens`, `Answer` | `issueTokens`: the new row; the response |
| `Fail` | an error, a crash or a lost connection: what was written stays |
| `LogoutOne`, `LogoutAll` | the two `updateMany`, one statement each |
| `UpdateStatus` | `UsersService.updateStatus` |

Clients present only tokens they were given, at any time and any number of times.
Access tokens are checked by signature and time alone, so a blocked account goes on
using one until it expires; the model lets such accounts log out, as the code does.

### How `RoomImages` corresponds to the code

An upload gets a file name of its own, so a name stands for the file and for the row
that will name it: `row[i]` is the row, `i \in stored` says that the file is there.

| Step of a request | Code |
| --- | --- |
| `StartAdd`, `StoreFile`, `UploadFails` | `uploadImages`: a `Promise.all`, so files are stored in any order, and those still on their way when one fails are stored or not |
| `CountImages`, `CountPrimaries`, `InsertRows` | the two counts and `createMany` (lines 148-161) |
| `StartRemove`, `DeleteRow`, `DeleteFile`, `DeleteFileFails` | `removeImage` up to line 172; a storage that refuses is logged only |
| `FindNext`, `FindNone`, `Promote` | lines 174-185; `ImageGone` is `P2025` |
| `StartSetPrimary`, `SwapPrimary` | the check, then the two updates in one transaction |
| `Reorder` | one transaction of `updateMany` that each name room and image |
| `Fail` | an error or a crash: what was written stays |

`raced` and `mishap` are history variables. `raced` collects the rooms on which two
requests overlapped, or a removal stopped between the row of a primary image and the
promotion of the next; `setPrimaryImage`, when it runs alone, takes its room out
again. `OnePrimary` says that this is the only way to lose or double a primary image.

### How `Catalogue` corresponds to the code

A service method that tests in one statement and relies on it in a later one is two or
more steps of a handler (`removeType`, `createRoom`, `updateRoom`, `book`); any other
is one action. The constraints of the schema are part of the statement that meets them
(`RoomAllowed`, `OfferAllowed`, the guard of `DeleteType`), and the request then ends
by `GiveUp`. `ON DELETE SET NULL` and `CASCADE` are part of the deletion.

The DTOs are forms in which a field may be left out (`None`); an update of an offer may
also give its type or room as `null` (`Null`), which empties the column (`Restriction`). `WithDefaults` and
`WithOfferDefaults` are the initializers of `CreateRoomDto` and `CreateOfferDto`, which
`PartialType` hands on to the update DTOs. `Merged` leaves other absent fields alone.
`RulesHold` is `validateBusinessRules`, which sees the form and not the stored offer.

`StartBook`, `ChooseOffer`, `InsertBooking` are `BookingsService.create` as far as the
charge goes: `subtotal` from the room as first read, the offer from a query outside the
transaction, the `INSERT` that refers to it. `calculateDiscount` rounds to the cent.
`asked` and `alone` are history.

### How `Api` and `Server` correspond to the code

`Api` has one record per service, whose fields are the operations, and one per
controller, whose fields are the routes with their decorators. An operation is the set
of statement sequences it may run when nothing goes wrong; each statement says on what
connection it runs, which rows it waits for, whether it writes, and by which errors it may
end the request.

| Step of a request | Code |
| --- | --- |
| `Arrive` | `JwtAuthGuard` (global), then `RolesGuard` where a controller names it (`Attached`: on a public route the token is not read; `Admits`) |
| `RunCheck`, `RunOwn`, `RunInTx` | a check, a query of the service's client, a query of the transaction's client |
| `Connect`, `RunBegin` | a connection is taken from the pool |
| `RunCommit` | the commit: connection and locks are given back |
| `Refuse`, `Fault`, `TimeOut` | `AllExceptionsFilter` answers, with the status `StatusOf`; an open transaction is rolled back |
| `Finish`, `Reply` | the answer |
| `Crash` | the process dies |

A `Promise.all` of reads is modelled as reads in a row: it would take several
connections at once, but each read gives its own back without waiting for the others.
`logout` of one token whose update fails goes on to revoke all tokens, so it may be one
write or a failed statement and a write. A lost answer to a commit is a `Crash` before
`Reply`. `owners` is the set of owners of the bookings there are. Locks are those on rows of one room:
the room itself, with PostgreSQL's modes (a foreign key shares the row, an update of
its number does not), two images and two links to facilities. The rows of bookings and the
unique number are in `Bookings` (`progress`). Of `rooms.update` the plan is that of a
room without facilities; when it has some, `deleteMany` makes two updates follow each
other.

## 3. Runs

| Run | Instance | Shows |
| --- | --- | --- |
| `calendar` | 1 room, 2 ids, 2 handlers, every stay over days 0-3, clock fixed | `TypeOK`, `NoDoubleBooking`, `CalendarInvariant`, `SearchAgreesWithCreate`, `ImplementsCalendar` |
| `records` | 2 rooms, 2 ids, 2 handlers, a customer, one night to ask for, the clock passing from one year to the next | `NextNumberFree`, `AuditTrail`, `RecordsInvariant`, `SettledStays` |
| `progress` | 2 rooms (one edited), 2 ids, 2 handlers, one night to ask for, fair | `RequestsFinish` |
| `lifecycle` | as `records` | violates `StatusMovesLegally` |
| `price` | as `records`, two prices | violates `BookedAtLivePrice` |
| `sessions` | 1 account, 3 tokens, 2 handlers | `TypeOK`, `SessionInvariant`, `LateUseRefused`, `NeverBothLive`, `LogoutEndsSessions`, `BarredGetNoToken` |
| `logout` | as `sessions` | violates `LogoutRevokesAll` |
| `images` | 2 rooms, 3 images, 2 handlers, uploads of 1 or 2 files, positions 0 and 1 | `TypeOK`, `NoBrokenImage`, `NoOrphanFile`, `OnePrimary`, `FilesInvariant`, `PrimaryInvariant` |
| `catalogue` | 2 types, 1 facility, 2 rooms, 1 offer, 1 booking, 2 handlers; the forms of `MCCatalogue` | `TypeOK`, `ReferencesHold`, `ChargesBounded`, `ListedOffersApply`, `CatalogueInvariant`, `RestrictionKept`, `FacilitiesAsAsked` |
| `reopened` | as `catalogue` | violates `RemovedStaysOff` |
| `server` | 2 clients, an administrator and a customer, 1 room, 2 connections, a booking of the customer made before, fair; the requests of `MCServer` | `TypeOK`, `ErrorsAreClean`, `WritesAreEntitled`, `KnownCirclesOnly`, `ServerInvariant`, `LocksInvariant`, `RequestsAnswered` |
| `bookers` | as `server`, the requests to create, read and cancel a booking | violates `BookingsHaveCustomers` |

Bounds. A double booking concerns two bookings of one room, so one room and two ids
suffice to meet it, and in `calendar` the stays over four days take every relative
position (equal, touching, overlapping, contained, apart); the other instances ask
whether requests meet on a night or not, for which one night is enough. Handlers are used again and again, so two
of them already interleave any pair of operations. For two creates to compute one number,
and one of them to wait for the other's INSERT and fail, there must be two
rooms: creates of one room follow each other. A clock that passes once from the last day of
a year to the next lets requests of the old year finish in the new one. `LastDay`,
`LastToday`, `Stays` and `EditedRooms` are the named bounds; the theorems hold for all values of them and of the other
constants. Symmetry of handlers, ids and rooms is used for the safety runs only.
Parties of one or two guests meet rooms for one, so that the capacity check refuses.
Accounts share nothing but the ids of tokens, so one account is enough; three tokens
are the least for which one token is exchanged by two overlapping refreshes. `Tokens`
bounds how many are issued: when all are, requests end by `Fail`.

What the properties of the other modules say:

- `SearchAgreesWithCreate`: whatever rooms and bookings there are, a room is in the
  search result exactly when its own availability query and the checks of create let
  the stay pass, though the three are written with different queries.
- `NoBrokenImage` holds whatever overlaps or fails. `NoOrphanFile` holds while nothing
  has failed: failures do leave files that no row names, and nothing collects them.
- `ReferencesHold`: every service tests and then writes; foreign keys and unique indexes make up for it.
- `ChargesBounded` holds although two valid partial updates reach an offer of 200 percent.
- `RestrictionKept`: an offer reaches no booking outside its room or type, except that
  deleting the type of an offer widens it to every room.
- `ListedOffersApply`: an offer on the public list is one a guest can get. (The converse
  fails on the last day: `endDate` is its midnight.)
- `FacilitiesAsAsked`: an update that no other overlapped leaves the facilities it named.
- `ErrorsAreClean`: an error answer means that nothing was written, but for the six
  routes of `MayBeHalfDone`; of these, only `removeImage` can answer with a refusal
  (404) after it has written, and the others with a failure of the server.
- `WritesAreEntitled`: every route that writes has the guard it should have; without an
  account only registration, login and refresh write. The creation of bookings is left
  out: what the repository says of its guard does not hold, as `bookers` shows.
- `BookingsHaveCustomers` is violated: `POST /bookings` is public, so anybody books, an
  administrator or a client without a token too; and the guard then skips the token, so
  that a customer's booking has no owner either. She can list, read or cancel none of
  them. Bookings that had an owner before (`EarlierOwners`) can be read and cancelled by her.
- `KnownCirclesOnly`: requests wait for each other in a circle when as many creates hold
  a connection as there are and one asks for a second; or when two administrators update
  one room, or two reorder its images, in different orders. Creates, approvals and
  cancellations are in no circle of locks.
- `LocksInvariant`: conflicting locks of one room's rows are never held at once, and
  each route asks for the locks it needs in an order that can be written down
  (`ComesAfter`): a transaction that holds the room's row asks for nothing else, but
  that `RoomsService.update` raises its shared lock on it.
- `RequestsAnswered`: each circle is broken by a timer, and every request is answered.

In `images` two rooms tell an image of another room from one of this; three names
allow an upload of two while one image is there; positions 0 and 1 make ties. In
`catalogue` every room starts with the same number and type, so that two creations
collide; an update moves a room to another type and number; the one offer starts as an
amount for a type and is updated to a percentage for a room, which is added to the type
or, with a type of `null`, takes its place. Two days (`LastDay` = 1)
make a first, a last and a day outside the offer's weekdays or range. In `server` the
pool has as many connections as there are clients: the least that lets each of them
begin and none of them ask for a second. `SomeRequests` names a route of each kind of
plan; those left out differ in names or in the number of plain reads.

Fairness. `RequestsAnswered` assumes that a request goes on if it can do so again and
again, as below, and that a timer ends a wait that lasts (weak fairness of `TimeOut`):
Prisma's `pool_timeout`, the `maxWait` and `timeout` of transactions, and PostgreSQL's
deadlock detector. Without timers it fails, by `KnownCirclesOnly`. `RequestsFinish` assumes that a request in progress takes its next step
if it can do so again and again (strong fairness of `Proceed`): the event loop runs
every callback, and PostgreSQL grants a lock in the order it was asked for. Nothing
is assumed of timeouts, so a circle of waiting requests would be found. The run
edits one of the two rooms: a room write is one atomic statement that holds nothing,
and one room is enough for it to wait and to change what creates read.

Findings (details and quotations in `PROJECT.json`):

1. `StatusMovesLegally`: approve, reject and both cancellations test the status and
   then write it by id alone. Two requests that read `PENDING` both succeed; a
   rejected booking becomes cancelled, a cancelled one approved. (An approval that
   comes back this way still takes its nights properly: `NoDoubleBooking` holds.)
2. `BookedAtLivePrice`: create reads the room before it locks it.
3. `RemovedStaysOff`: the update DTO of rooms inherits `status = AVAILABLE` and
   `isActive = true`, so that an update of any other field undoes a removal.
4. `LogoutRevokesAll`: a refresh that overlaps a logout of all sessions inserts a live
   token after it. For the same reason two overlapping refreshes with one token both
   succeed; what remains true is `LateUseRefused`.
5. `BookingsHaveCustomers`: bookings can be made without a customer's account, contrary to
   line 155 of the repository's `README.md` and `test/rbac.e2e-spec.ts:101-124`.
6. `BookingsHaveCustomers` again: a booking made with a customer's token is not hers,
   contrary to `test/bookings.e2e-spec.ts:186-223` and `:347-356`.

Read in the code, and not the subject of a run: `booking-number.util.ts:11-12` asks callers
to retry when two creates compute one number, and `create`, the only caller, does not;
the second create ends with 409. And `uploads.controller.ts` declares `@Get('*path')` so that
"nested sub-paths are supported"; whether such a pattern matches a nested path depends
on the router, which is outside `src/` (in Express 4 with path-to-regexp 0.1 it matches
what ends in the word "path").

## 4. Proofs

`CalendarInvariance` proves `Spec => []CalendarInvariant` for any sets of rooms,
bookings and handlers and any calendar, from the assumptions named in `Bookings`
(finitely many ids, days `0 .. LastDay`, null values distinct from rows).
`NoDoubleBooking` is not inductive: whether a commit is safe depends on an overlap
check made some steps earlier. The invariant says, for each request, that

- a claimant (create or approve) holds its room from the lock to its end,
- the stay it read of an existing booking is still that booking's stay,
- the id of a new booking is used by nothing else,
- the overlap check it passed would pass now (`CheckStaysGood`),

and that blocking bookings of one room are apart. The step that matters is
`CommitStep`: a commit that adds a claim on a room is made by the holder of its
lock, so no other request that has passed its check on that room exists to be
disappointed. `PrivateStep` and `RequestStep` carry the steps that publish nothing.

From it follow `TypeCorrectness`, `NoNightSoldTwice` and `CalendarImplemented` (`Spec => Calendar!Spec`): a commit that changes what its
booking claims is a `Take` or a `GiveBack`, and every other step is a stutter.

`SessionInvariance` proves `Spec => []SessionInvariant` of `Auth` for any sets of
accounts, tokens and handlers, assuming only that the null values are none of them.
The properties speak of what clients know and of requests that overlap or do not; the
invariant ties that to the tables: what a client knows to be over is revoked,
revoking is never undone (`RevokedTokens`), a request that is past the search for its
token did not start late, and the requests of an account that was logged out or
barred at rest have come no further than the check that will refuse them. From it
follow `TablesKept`, `ReplayRefused`, `RotationExclusive`, `LogoutFinal` and the action property
`BarredExcluded`: only `IssueTokens` adds a token, and `IssueAllowed` says for whom.

`FilesInvariance` proves `Spec => []FilesInvariant` of `RoomImages` for any rooms,
images and handlers, from the assumptions that the images are finitely many and the
null values none of them. `NoBrokenImage` alone is not inductive: that the rows of an
upload may be written depends on what its storage calls did some steps earlier. The
invariant says what a request is answerable for between its steps:

- what an upload has stored is in the storage, and none of its names is in a row,
- two requests never hold one name: the names of an upload are those of no other
  upload and of no removal,
- a removal reaches the file only when the row is gone.

`StepKeepsFiles` shows that a step preserves it that adds rows for its handler's own
uploads only and deletes its own file only; `EndStep`, `QuietEnd` and `QuietMove`
specialise it, and each action is a case of one of them. Only `StartAdd`, which takes
new names, is proved apart, from `Fresh`. From it follow `ImagesTyped`, `NoneBroken`
and `NoneForgotten`.

`RecordsInvariance` proves `Spec => []RecordsInvariant` of `Bookings`, on top of
`CalendarInvariant` and from the same assumptions. `NextNumberFree` is not inductive: the
next number of a year is its count and one, so every number given out must be within the
count, and a number that a create has computed is not in the table yet. The invariant
says that the number of a create in progress exceeds the count of its year by one at
most, that of a stored booking not at all, and that a booking whose row falls into a
later year than its number names (the clock passed New Year in between) is not counted
against either. `CountGrows` and `CountOneMore` are the two facts about counts: no step
removes a booking from a year, and the one that adds makes it one more. From the
invariant follow `NumbersDoNotRunOut` and `HistoriesTellTheTruth`; `SettledForEver`
proves the action property `SettledStays`, for which the first check of each operation
(`StartSettled`) keeps requests off a booking that was rejected or cancelled.
`SearchIsFaithful` shows that the two queries of overlap, written differently, agree.

`PrimaryInvariance` proves `Spec => []PrimaryInvariant` of `RoomImages`, on top of
`FilesInvariant`. The property is about rooms whose requests never overlapped (those not
in `raced`); the invariant says that such a room is served by one request at most, that
it has its primary image when it is served by none, and, between the steps of a request,
that what the request read is so still and that only the removal of a primary image
leaves the room without one, until the promotion. From it follows `OnePrimaryEach`.

`CatalogueInvariance` proves `Spec => []CatalogueInvariant` of `Catalogue` for any tables,
forms and handlers, from the assumptions that forms have the fields of their DTOs and
null values are distinct from rows. `ReferencesHold` depends on the tests made by the
services only where the database does not repeat them; the invariant adds what handlers
carry from one statement to the next: a create's id is nobody else's, an update's room is
still there, what an update that nobody overlapped has cleared was all there was, a
discount is bounded before it is stored (`ChargesBounded`), and an offer's restriction is
the one asked for unless its type was deleted (`RestrictionTraced`). From it follow
`CatalogueTypes`, `ReferencesAlwaysHold`, `TotalsNotNegative`, `ListIsHonest` and the
action properties `RestrictionIsKept` and `FacilitiesArrive`.

`ServerInvariance` proves `Spec => []ServerInvariant` of `Server` for any clients,
accounts, roles, rooms, pool size and choice of requests, from the assumptions named in
`Server`: finitely many clients, a pool that is not empty, requests that are plans of
routes, earlier bookings that belong to accounts or to nobody. It has two halves.

- Static: every plan of every route is well formed (`EveryRoute`). A plan's transactions
  are whole (`Frames`); a route outside `MayBeHalfDone` writes in its last statement only
  (`Done`), one inside it can end in none of its own errors after a write (`Half`, all but
  `removeImage`); and a route that writes has the guard of `Entitled`. Plans are built by
  concatenation, and `FramesJoin` and its companions say what joins keep, so that the
  lemma of a plan is about its pieces and their order; how many locks or images a plan
  has does not matter. The lemmas of routes read the guards off the controllers.
- Dynamic: `PlanIsWhole` and `ErrorsComeFirst` say for the statements that are left of a
  request what the static half says of the whole plan. `ErrorsAreClean` is not inductive
  without them: that an error answer means nothing was written holds because the commit,
  or the one write, was the last statement of the plan.
  `InvariantByFields` restates the invariant as one predicate of each request's record
  (`StateFits`), and `OneChanges` counts connections: a step of one client takes at most
  one, and only when one is spare. Each action is a lemma (`CheckStep` ... `EndStep`).

From it follow `ServerTypes` and `ErrorsTellTheTruth`; `EntitledWrites` follows from
`EveryRoute` alone.

`LocksInvariance` proves `Spec => []LocksInvariant` of `Server`, on top of
`ServerInvariant` and from the same assumptions.

- Static: every plan of every route asks for locks in order (`EveryRouteInOrder`).
  `Ordered` compares each statement of a plan with each behind it; `OrderedJoin` and its
  companions say when the join of two ordered plans is ordered, so that the lemma of a
  route is about its pieces (`Locking`, `Opened`), however many rows it locks.
- Dynamic: no conflicting locks are held, because a step that takes locks (`RunInTx`) is
  taken only when nobody's lock is in its way (`OneLocks`), and what a statement took is
  before all that the rest of its plan asks for (`AsksBehind`).

`CirclesAreKnown` proves `Spec => []KnownCirclesOnly` from the two invariants. When every
request waits and the pool is not exhausted, somebody waits for a row (`SomebodyWaits`):
if all waited for connections, the connections would be held by transactions, and a
transaction without a lock to wait for waits only for a second connection. Whoever is
waited for waits for a row itself (`InTxWaits`), and by `AsksInOrder` that is one its
route asks for after those it holds (`HolderAsks`). No route but the update of a room
waits for more while it holds a row of `rooms` or of the links to facilities
(`AtTheRoom`, `AtTheLinks`), and none but the two changes to images while it holds a row
of an image (`AtTheImages`); with two rows of each kind such a holder and the one it waits
for wait for each other (`CircleOfRivals`). The clients and connections are any number,
but the links of a room and its images are two in the model: with three, three
administrators could wait in a circle without any two of them blocking each other.

Only model-checked: `RequestsFinish` and `RequestsAnswered` (liveness under fairness is
outside the prover). Properties that
the code violates have counterexamples, not proofs. That the plans of
`Api` are the statements the services run is not proved but read (`map`).

## 5. Plan

Done: all modules above, and a proof of every safety property and every action property
that a run shows to hold. Left: liveness, which stays with TLC on small instances, and
more than two links or images for each room in `Api`, with circles of more than two.

## 6. Not modelled

- Access tokens after they are issued, password hashing, and the throttler.
- Validation of bodies (class-validator): the models start from bodies that pass it.
- The parsing of ISO dates, page numbers and totals: pure functions of one request.
- The wording of answers, the envelope, mappers, configuration and environment
  validation, bootstrap, and the seed script, which runs apart from the server.
- Paths and formats of stored files, and the route pattern that serves them: a file is
  its name, and `ReadLocalFile` asks whether it is stored.
- Several server processes: the tables are shared by handlers in the same way, but
  `Server` has one pool.
