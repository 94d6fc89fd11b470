----------------------------- MODULE Catalogue -----------------------------
(***************************************************************************)
(* What administrators keep: room types, facilities, rooms and offers      *)
(* (RoomTypesService, FacilitiesService, RoomsService, OffersService under *)
(* src/src), and the price that BookingsService.create takes from them.    *)
(*                                                                         *)
(* A request that tests something in one statement and relies on it in a   *)
(* later one is served by a handler, one step per such statement; any      *)
(* other request is one action.  The database refuses a statement that     *)
(* would break a foreign key or a unique index (schema.prisma): the        *)
(* request then ends, with nothing written (GiveUp).                       *)
(*                                                                         *)
(* Amounts are in cents, percentages in hundredths of a percent.  A room   *)
(* has one price here: the one for the AC option that the guest chose.     *)
(***************************************************************************)
EXTENDS Integers, FiniteSets

CONSTANTS
  Types, Facilities, Rooms, Offers, Bookings, \* ids the database may give
  Numbers,      \* room numbers
  Handlers,     \* requests that may be in progress at the same time
  RoomForms,    \* bound: rooms as administrators enter them
  RoomChanges,  \* bound: partial updates of rooms
  OfferForms,   \* bound: offers as administrators enter them
  OfferChanges, \* bound: partial updates of offers
  Stays,        \* bound: check-in days and nights customers ask for
  LastDay,      \* bound: the last day of the calendar
  NoRow,        \* the id is not in use
  NoCall,       \* the handler serves no request
  None,         \* null in a column, or a field a form leaves out
  Null          \* null in a form, which empties the column

OrNone(S) == {None} \cup S

Days == 0 .. LastDay
Weekdays == 0 .. 6
RoomStatus == {"AVAILABLE", "MAINTENANCE", "INACTIVE"}

RoomRow == [number: Numbers, type: Types, price: Nat, status: RoomStatus,
            isActive: BOOLEAN]
RoomForm ==
  [number: OrNone(Numbers), type: OrNone(Types), price: OrNone(Nat),
   status: OrNone(RoomStatus), isActive: OrNone(BOOLEAN),
   facilities: OrNone(SUBSET Facilities)]
CompleteRoom == {f \in RoomForm : None \notin {f.number, f.type, f.price}}

\* daysOfWeek = {}: every day.  type and room restrict the offer, if not null.
OfferRow ==
  [kind: {"PERCENTAGE", "FIXED_AMOUNT"}, value: Nat, start: Days, end: Days,
   minimumNights: Nat, daysOfWeek: SUBSET Weekdays, type: OrNone(Types),
   room: OrNone(Rooms), isActive: BOOLEAN]
OfferForm ==
  [kind: {"PERCENTAGE", "FIXED_AMOUNT", None}, value: OrNone(Nat),
   start: OrNone(Days), end: OrNone(Days), minimumNights: OrNone(Nat),
   daysOfWeek: OrNone(SUBSET Weekdays), type: {Null} \cup OrNone(Types),
   room: {Null} \cup OrNone(Rooms), isActive: OrNone(BOOLEAN)]
\* Of a new offer, null and a field left out say the same.
CompleteOffer ==
  {f \in OfferForm : /\ None \notin {f.kind, f.value, f.start, f.end}
                     /\ Null \notin {f.type, f.room}}

BookingRow == [room: Rooms, offer: OrNone(Offers), subtotal: Nat, discount: Nat]

\* createRoom and updateRoom carry the form; removeType its type; book the
\* stay and what it has read and computed so far.  seen: the links that an
\* update has deleted in its transaction; alone: no other update of the same
\* room's facilities overlapped it (history).
RoomCall == [op: {"createRoom", "updateRoom"}, room: Rooms, form: RoomForm,
             seen: SUBSET Facilities, alone: BOOLEAN]
TypeCall == [op: {"removeType"}, type: Types]
BookCall == [op: {"book"}, booking: Bookings, room: Rooms, type: Types,
             checkIn: Days, nights: Nat, subtotal: Nat,
             offer: OrNone(Offers), discount: Nat]

ASSUME FormsAssumption ==
  /\ LastDay \in Nat
  /\ RoomForms \subseteq CompleteRoom /\ RoomChanges \subseteq RoomForm
  /\ OfferForms \subseteq CompleteOffer /\ OfferChanges \subseteq OfferForm
  /\ Stays \subseteq [checkIn: Days, nights: Nat]
ASSUME NothingAssumption ==
  /\ NoRow \notin RoomRow \cup OfferRow \cup BookingRow
  /\ NoCall \notin RoomCall \cup TypeCall \cup BookCall
  /\ None \notin Nat /\ None \notin BOOLEAN /\ None \notin RoomStatus
  /\ None \notin Numbers /\ None \notin Types
  /\ Null \notin Types \cup Rooms \cup {None}
  /\ \A fs \in SUBSET Facilities : fs # None
  /\ \A ws \in SUBSET Weekdays : ws # None
  /\ None \notin Rooms /\ None \notin Offers
  /\ None \notin {"PERCENTAGE", "FIXED_AMOUNT"}

VARIABLES
  types,      \* table room_types: "new", "live" or "gone" (an id is used once)
  facilities, \* table facilities: the ids in use
  room,       \* table rooms: the row of each id, or NoRow
  links,      \* table room_facilities: pairs of a room and a facility
  offer,      \* table offers: the row of each id, or NoRow
  booking,    \* table bookings: what each id costs, or NoRow
  asked,      \* history: the restriction last asked for, for each offer
  pc,         \* the statement each handler runs next
  call        \* the request each handler serves

handlers == <<pc, call>>
vars == <<types, facilities, room, links, offer, booking, asked, handlers>>

Unrestricted == [type |-> None, room |-> None]

Init ==
  /\ types = [t \in Types |-> "new"]
  /\ facilities = {}
  /\ room = [r \in Rooms |-> NoRow]
  /\ links = {}
  /\ offer = [o \in Offers |-> NoRow]
  /\ booking = [b \in Bookings |-> NoRow]
  /\ asked = [o \in Offers |-> Unrestricted]
  /\ pc = [h \in Handlers |-> "idle"]
  /\ call = [h \in Handlers |-> NoCall]

-----------------------------------------------------------------------------
HasRoom(r) == room[r] # NoRow
HasOffer(o) == offer[o] # NoRow
HasBooking(b) == booking[b] # NoRow
Live(t) == types[t] = "live"
FacilitiesOf(r) == {f \in Facilities : <<r, f>> \in links}
RoomsOfType(t) == {r \in Rooms : HasRoom(r) /\ room[r].type = t}

Start(h, request, statement) ==
  /\ pc[h] = "idle"
  /\ call' = [call EXCEPT ![h] = request]
  /\ pc' = [pc EXCEPT ![h] = statement]

Step(h, from, to) == pc[h] = from /\ pc' = [pc EXCEPT ![h] = to]

End(h) ==
  /\ pc' = [pc EXCEPT ![h] = "idle"]
  /\ call' = [call EXCEPT ![h] = NoCall]

\* Mutant: the handler does not forget the request.
GiveUp_KeepsCall(h) ==
  /\ pc[h] # "idle"
  /\ pc' = [pc EXCEPT ![h] = "idle"]
  /\ UNCHANGED <<types, facilities, room, links, offer, booking, asked, call>>

\* A request ends with nothing written: a check refuses it, a constraint of
\* the database, an error or a crash.
GiveUp(h) ==
  /\ pc[h] # "idle"
  /\ End(h)
  /\ UNCHANGED <<types, facilities, room, links, offer, booking, asked>>

-----------------------------------------------------------------------------
\* RoomTypesService and FacilitiesService.
CreateType(t) ==
  /\ types[t] = "new"
  /\ types' = [types EXCEPT ![t] = "live"]
  /\ UNCHANGED <<facilities, room, links, offer, booking, asked, handlers>>

\* remove: the type exists and has no rooms.
StartRemoveType(h, t) ==
  /\ Live(t) /\ RoomsOfType(t) = {}
  /\ Start(h, [op |-> "removeType", type |-> t], "delete")
  /\ UNCHANGED <<types, facilities, room, links, offer, booking, asked>>

\* Mutant: the database does not look for rooms again.
DeleteType_Unchecked(h) ==
  /\ pc[h] = "delete"
  /\ LET t == call[h].type
     IN  /\ Live(t)
         /\ types' = [types EXCEPT ![t] = "gone"]
         /\ offer' = [o \in Offers |->
                        IF HasOffer(o) /\ offer[o].type = t
                        THEN [offer[o] EXCEPT !.type = None] ELSE offer[o]]
  /\ End(h)
  /\ UNCHANGED <<facilities, room, links, booking, asked>>

\* The DELETE: refused while a room has the type (a room may have come since
\* the count), and offers restricted to the type lose the restriction.
DeleteType(h) ==
  /\ pc[h] = "delete"
  /\ LET t == call[h].type
     IN  /\ Live(t) /\ RoomsOfType(t) = {}
         /\ types' = [types EXCEPT ![t] = "gone"]
         /\ offer' = [o \in Offers |->
                        IF HasOffer(o) /\ offer[o].type = t
                        THEN [offer[o] EXCEPT !.type = None] ELSE offer[o]]
  /\ End(h)
  /\ UNCHANGED <<facilities, room, links, booking, asked>>

CreateFacility(f) ==
  /\ f \notin facilities
  /\ facilities' = facilities \cup {f}
  /\ UNCHANGED <<types, room, links, offer, booking, asked, handlers>>

\* remove, and the cascade to the rooms that had the facility.
RemoveFacility(f) ==
  /\ f \in facilities
  /\ facilities' = facilities \ {f}
  /\ links' = links \ (Rooms \X {f})
  /\ UNCHANGED <<types, room, offer, booking, asked, handlers>>

-----------------------------------------------------------------------------
Given(field, otherwise) == IF field = None THEN otherwise ELSE field

\* CreateRoomDto gives status and isActive a value when the request has none;
\* UpdateRoomDto is made from it and inherits that: a partial update always
\* carries both.
WithDefaults(form) ==
  [form EXCEPT !.status = Given(@, "AVAILABLE"), !.isActive = Given(@, TRUE)]

Merged(row, form) ==
  [number |-> Given(form.number, row.number), type |-> Given(form.type, row.type),
   price |-> Given(form.price, row.price), status |-> Given(form.status, row.status),
   isActive |-> Given(form.isActive, row.isActive)]

NumberFree(n, r) == \A s \in Rooms \ {r} : HasRoom(s) => room[s].number # n

\* Another update of room r's facilities is in progress.
Contenders(r) ==
  {h \in Handlers : call[h] # NoCall /\ call[h].op = "updateRoom"
                    /\ call[h].room = r /\ call[h].form.facilities # None}

\* create: the room type is there; then, the number is free.
StartCreateRoom(h, r, form) ==
  /\ ~HasRoom(r)
  /\ \A g \in Handlers : call[g] # NoCall /\ call[g].op = "createRoom"
       => call[g].room # r
  /\ Live(form.type)
  /\ Start(h, [op |-> "createRoom", room |-> r, form |-> form,
               seen |-> {}, alone |-> TRUE], "number")
  /\ UNCHANGED <<types, facilities, room, links, offer, booking, asked>>

\* update: the room is there, and its new type if it gets one.
StartUpdateRoom(h, r, form) ==
  /\ HasRoom(r)
  /\ form.type = None \/ (form.type \in Types /\ Live(form.type))
  /\ pc[h] = "idle"
  /\ pc' = [pc EXCEPT ![h] = "number"]
  /\ LET rivals == IF form.facilities = None THEN {} ELSE Contenders(r)
     IN  call' = [g \in Handlers |->
                    IF g = h
                    THEN [op |-> "updateRoom", room |-> r, form |-> form,
                          seen |-> {}, alone |-> rivals = {}]
                    ELSE IF g \in rivals THEN [call[g] EXCEPT !.alone = FALSE]
                    ELSE call[g]]
  /\ UNCHANGED <<types, facilities, room, links, offer, booking, asked>>

CheckNumber(h) ==
  /\ pc[h] = "number"
  /\ call[h].form.number = None \/ NumberFree(call[h].form.number, call[h].room)
  /\ pc' = [pc EXCEPT ![h] =
              IF call[h].op = "createRoom" THEN "insert"
              ELSE IF call[h].form.facilities = None THEN "save" ELSE "clear"]
  /\ UNCHANGED <<types, facilities, room, links, offer, booking, asked, call>>

\* What the constraints of the database ask of a row of rooms and its links.
RoomAllowed(r, row, fs) ==
  Live(row.type) /\ NumberFree(row.number, r) /\ fs \subseteq facilities

InsertRoom(h) ==
  /\ pc[h] = "insert"
  /\ LET r == call[h].room
         form == WithDefaults(call[h].form)
         row == [number |-> form.number, type |-> form.type, price |-> form.price,
                 status |-> form.status, isActive |-> form.isActive]
         fs == Given(form.facilities, {})
     IN  /\ RoomAllowed(r, row, fs)
         /\ room' = [room EXCEPT ![r] = row]
         /\ links' = links \cup ({r} \X fs)
  /\ End(h)
  /\ UNCHANGED <<types, facilities, offer, booking, asked>>

\* Mutant: the old links are kept.
ClearLinks_None(h) ==
  /\ Step(h, "clear", "save")
  /\ UNCHANGED <<types, facilities, room, links, offer, booking, asked, call>>

\* deleteMany of the links, in the transaction: they are gone for the others
\* when it commits.  It waits for another update that has deleted one of them.
ClearLinks(h) ==
  /\ Step(h, "clear", "save")
  /\ \A g \in Contenders(call[h].room) :
       pc[g] = "save" => call[g].seen \cap FacilitiesOf(call[h].room) = {}
  /\ call' = [call EXCEPT ![h].seen = FacilitiesOf(call[h].room)]
  /\ UNCHANGED <<types, facilities, room, links, offer, booking, asked>>

\* createMany, the update of the row and the commit.  A link that another
\* update has inserted meanwhile is refused by the primary key.
SaveRoom(h) ==
  /\ pc[h] = "save"
  /\ LET r == call[h].room
         form == WithDefaults(call[h].form)
         row == Merged(room[r], form)
         kept == FacilitiesOf(r) \ call[h].seen
         fs == Given(form.facilities, {})
     IN  /\ RoomAllowed(r, row, fs)
         /\ kept \cap fs = {}
         /\ room' = [room EXCEPT ![r] = row]
         /\ links' = (links \ ({r} \X call[h].seen)) \cup ({r} \X fs)
  /\ End(h)
  /\ UNCHANGED <<types, facilities, offer, booking, asked>>

\* remove: the room stays, off offer.
RemoveRoom(r) ==
  /\ HasRoom(r)
  /\ room' = [room EXCEPT ![r].isActive = FALSE, ![r].status = "INACTIVE"]
  /\ UNCHANGED <<types, facilities, links, offer, booking, asked, handlers>>
-----------------------------------------------------------------------------
\* validateBusinessRules: of what the form says, not of what is stored.
RulesHold(form) ==
  /\ form.kind = "PERCENTAGE" /\ form.value # None => form.value <= 10000
  /\ form.start # None /\ form.end # None => form.start <= form.end

\* CreateOfferDto and UpdateOfferDto, as for rooms.
WithOfferDefaults(form) ==
  [form EXCEPT !.minimumNights = Given(@, 1), !.isActive = Given(@, TRUE)]

OfferAllowed(row) ==
  /\ row.type = None \/ (row.type \in Types /\ Live(row.type))
  /\ row.room = None \/ (row.room \in Rooms /\ HasRoom(row.room))

WriteOffer(o, row) ==
  /\ OfferAllowed(row)
  /\ offer' = [offer EXCEPT ![o] = row]
  /\ UNCHANGED <<types, facilities, room, links, booking, handlers>>

CreateOffer(o, form) ==
  /\ ~HasOffer(o)
  /\ \A b \in Bookings : HasBooking(b) => booking[b].offer # o
  /\ \A h \in Handlers : call[h] # NoCall /\ call[h].op = "book" => call[h].offer # o
  /\ RulesHold(form)
  /\ asked' = [asked EXCEPT ![o] = [type |-> form.type, room |-> form.room]]
  /\ WriteOffer(o, [WithOfferDefaults(form) EXCEPT !.daysOfWeek = Given(@, {})])

\* Only the restriction of an offer may be null.
Restriction(field, old) == IF field = Null THEN None ELSE Given(field, old)

\* Mutant: an update that names no type takes the restriction away.
MergedOffer_TypeDropped(old, form) ==
  [kind |-> Given(form.kind, old.kind), value |-> Given(form.value, old.value),
   start |-> Given(form.start, old.start), end |-> Given(form.end, old.end),
   minimumNights |-> form.minimumNights,
   daysOfWeek |-> Given(form.daysOfWeek, old.daysOfWeek),
   type |-> Restriction(form.type, None), room |-> Restriction(form.room, old.room),
   isActive |-> form.isActive]

MergedOffer(old, form) ==
  [kind |-> Given(form.kind, old.kind), value |-> Given(form.value, old.value),
   start |-> Given(form.start, old.start), end |-> Given(form.end, old.end),
   minimumNights |-> form.minimumNights,
   daysOfWeek |-> Given(form.daysOfWeek, old.daysOfWeek),
   type |-> Restriction(form.type, old.type),
   room |-> Restriction(form.room, old.room),
   isActive |-> form.isActive]

UpdateOffer(o, change) ==
  /\ HasOffer(o)
  /\ RulesHold(change)
  /\ LET form == WithOfferDefaults(change)
     IN  /\ asked' = [asked EXCEPT ![o] = [type |-> Restriction(form.type, @.type),
                                           room |-> Restriction(form.room, @.room)]]
         /\ WriteOffer(o, MergedOffer(offer[o], form))

\* remove: a booking keeps its discount and forgets the offer.
RemoveOffer(o) ==
  /\ HasOffer(o)
  /\ offer' = [offer EXCEPT ![o] = NoRow]
  /\ booking' = [b \in Bookings |->
                   IF HasBooking(b) /\ booking[b].offer = o
                   THEN [booking[b] EXCEPT !.offer = None] ELSE booking[b]]
  /\ asked' = [asked EXCEPT ![o] = Unrestricted]
  /\ UNCHANGED <<types, facilities, room, links, handlers>>

-----------------------------------------------------------------------------
\* dayOfWeekOf: day 0 is a Sunday.
DayOfWeekOf(day) == day % 7

\* Mutant: an offer whose room is null applies to every room.
AppliesTo_AnyRoom(row, r, type) ==
  row.room = r \/ row.type = type \/ row.room = None

AppliesTo(row, r, type) ==
  row.room = r \/ row.type = type \/ (row.room = None /\ row.type = None)

\* Mutant: an offer ends with the day before its last one.
Candidates_LastDayOut(r, type, checkIn, nights) ==
  {o \in Offers :
     /\ HasOffer(o) /\ offer[o].isActive
     /\ offer[o].start <= checkIn /\ checkIn < offer[o].end
     /\ offer[o].minimumNights <= nights
     /\ AppliesTo(offer[o], r, type)
     /\ offer[o].daysOfWeek = {} \/ DayOfWeekOf(checkIn) \in offer[o].daysOfWeek}

\* The candidates of findBestApplicableOffer.
Candidates(r, type, checkIn, nights) ==
  {o \in Offers :
     /\ HasOffer(o) /\ offer[o].isActive
     /\ offer[o].start <= checkIn /\ checkIn <= offer[o].end
     /\ offer[o].minimumNights <= nights
     /\ AppliesTo(offer[o], r, type)
     /\ offer[o].daysOfWeek = {} \/ DayOfWeekOf(checkIn) \in offer[o].daysOfWeek}

\* Mutant: the subtotal does not bound the discount.
CalculateDiscount_Unbounded(row, subtotal) ==
  IF row.kind = "PERCENTAGE" THEN (subtotal * row.value + 5000) \div 10000
  ELSE row.value

\* calculateDiscount, rounded to the cent.
CalculateDiscount(row, subtotal) ==
  LET raw == IF row.kind = "PERCENTAGE"
             THEN (subtotal * row.value + 5000) \div 10000 ELSE row.value
  IN  IF raw < subtotal THEN raw ELSE subtotal

\* findAllPublic on a day, at midnight or later in the day.
PublicOffers(day, midnight) ==
  {o \in Offers :
     /\ HasOffer(o) /\ offer[o].isActive
     /\ offer[o].start <= day
     /\ day < offer[o].end \/ (midnight /\ day = offer[o].end)}

\* BookingsService.create, as far as the price goes: the room is read first.
StartBook(h, b, r, stay) ==
  /\ ~HasBooking(b)
  /\ \A g \in Handlers : call[g] # NoCall /\ call[g].op = "book" => call[g].booking # b
  /\ HasRoom(r) /\ room[r].isActive /\ room[r].status = "AVAILABLE"
  /\ Start(h, [op |-> "book", booking |-> b, room |-> r, type |-> room[r].type,
               checkIn |-> stay.checkIn, nights |-> stay.nights,
               subtotal |-> room[r].price * stay.nights, offer |-> None,
               discount |-> 0], "offer")
  /\ UNCHANGED <<types, facilities, room, links, offer, booking, asked>>

OffersFor(c) == Candidates(c.room, c.type, c.checkIn, c.nights)

\* The largest discount wins; among equals, the order of the rows.
ChooseOffer(h, o) ==
  /\ Step(h, "offer", "charge")
  /\ LET c == call[h]
         discount == CalculateDiscount(offer[o], c.subtotal)
     IN  /\ o \in OffersFor(c)
         /\ \A p \in OffersFor(c) : CalculateDiscount(offer[p], c.subtotal) <= discount
         /\ call' = [call EXCEPT ![h].offer = o, ![h].discount = discount]
  /\ UNCHANGED <<types, facilities, room, links, offer, booking, asked>>

ChooseNoOffer(h) ==
  /\ Step(h, "offer", "charge")
  /\ OffersFor(call[h]) = {}
  /\ UNCHANGED <<types, facilities, room, links, offer, booking, asked, call>>

\* The INSERT: an offer removed since it was chosen is refused.
InsertBooking(h) ==
  /\ pc[h] = "charge"
  /\ LET c == call[h]
     IN  /\ c.offer = None \/ (c.offer \in Offers /\ HasOffer(c.offer))
         /\ booking' = [booking EXCEPT ![c.booking] =
              [room |-> c.room, offer |-> c.offer, subtotal |-> c.subtotal,
               discount |-> c.discount]]
  /\ End(h)
  /\ UNCHANGED <<types, facilities, room, links, offer, asked>>

-----------------------------------------------------------------------------
Begin(h) ==
  \/ \E t \in Types : StartRemoveType(h, t)
  \/ \E r \in Rooms :
       \/ \E form \in RoomForms : StartCreateRoom(h, r, form)
       \/ \E change \in RoomChanges : StartUpdateRoom(h, r, change)
       \/ \E b \in Bookings, stay \in Stays : StartBook(h, b, r, stay)

Proceed(h) ==
  \/ CheckNumber(h) \/ InsertRoom(h) \/ ClearLinks(h) \/ SaveRoom(h)
  \/ DeleteType(h)
  \/ \E o \in Offers : ChooseOffer(h, o)
  \/ ChooseNoOffer(h) \/ InsertBooking(h)

Administrate ==
  \/ \E t \in Types : CreateType(t)
  \/ \E f \in Facilities : CreateFacility(f) \/ RemoveFacility(f)
  \/ \E r \in Rooms : RemoveRoom(r)
  \/ \E o \in Offers :
       \/ \E form \in OfferForms : CreateOffer(o, form)
       \/ \E change \in OfferChanges : UpdateOffer(o, change)
       \/ RemoveOffer(o)

Next == Administrate \/ \E h \in Handlers : Begin(h) \/ Proceed(h) \/ GiveUp(h)

Spec == Init /\ [][Next]_vars
-----------------------------------------------------------------------------
\* The tables and requests hold what their columns and fields can hold, and a
\* handler is idle exactly when it serves no request.
TypeOK ==
  /\ types \in [Types -> {"new", "live", "gone"}]
  /\ facilities \subseteq Facilities
  /\ room \in [Rooms -> RoomRow \cup {NoRow}]
  /\ links \subseteq Rooms \X Facilities
  /\ offer \in [Offers -> OfferRow \cup {NoRow}]
  /\ booking \in [Bookings -> BookingRow \cup {NoRow}]
  /\ asked \in [Offers -> [type: OrNone(Types), room: OrNone(Rooms)]]
  /\ pc \in [Handlers -> {"idle", "number", "insert", "clear", "save", "delete",
                          "offer", "charge"}]
  /\ call \in [Handlers -> RoomCall \cup TypeCall \cup BookCall \cup {NoCall}]
  /\ \A h \in Handlers : pc[h] = "idle" <=> call[h] = NoCall

\* What one table says of another stays true, although every service tests it
\* in one statement and writes in a later one: a room has a type that exists, a
\* facility of a room exists, an offer's room and type exist, a booking's offer
\* does, and no two rooms have one number.
ReferencesHold ==
  /\ \A r \in Rooms : HasRoom(r) => Live(room[r].type) /\ NumberFree(room[r].number, r)
  /\ \A l \in links : HasRoom(l[1]) /\ l[2] \in facilities
  /\ \A o \in Offers : HasOffer(o) => OfferAllowed(offer[o])
  /\ \A b \in Bookings :
       HasBooking(b) => booking[b].offer = None \/ HasOffer(booking[b].offer)

\* "total cannot go negative": no booking has a discount above its subtotal,
\* not even by a percentage above 100, which two partial updates can reach
\* although each was validated.
ChargesBounded ==
  \A b \in Bookings : HasBooking(b) => booking[b].discount <= booking[b].subtotal

\* What the public list of offers shows on a day, a guest who books enough
\* nights from that day in a room of the offer's scope is a candidate for.
ListedOffersApply ==
  \A day \in Days, midnight \in BOOLEAN : \A o \in PublicOffers(day, midnight) :
    \A r \in Rooms :
      /\ HasRoom(r) /\ AppliesTo(offer[o], r, room[r].type)
      /\ offer[o].daysOfWeek = {} \/ DayOfWeekOf(day) \in offer[o].daysOfWeek
      => o \in Candidates(r, room[r].type, day, offer[o].minimumNights)

StatementsOf == [createRoom |-> {"number", "insert"},
                 updateRoom |-> {"number", "clear", "save"},
                 removeType |-> {"delete"}, book |-> {"offer", "charge"}]

\* The room of a create is nobody's yet and that of an update is there; what an
\* update that named facilities has deleted, if no other overlapped it, is all
\* that the room had; and a discount is bounded before it is stored.
RequestIsSound(h) ==
  call[h] # NoCall =>
    LET c == call[h]
    IN  /\ pc[h] \in StatementsOf[c.op]
        /\ c.op = "createRoom" =>
             /\ ~HasRoom(c.room) /\ c.form \in CompleteRoom
             /\ \A g \in Handlers \ {h} : call[g] # NoCall /\ call[g].op = "createRoom"
                  => call[g].room # c.room
        /\ c.op = "updateRoom" => HasRoom(c.room)
        /\ c.op = "updateRoom" /\ c.alone /\ c.form.facilities # None =>
             /\ Contenders(c.room) = {h}
             /\ pc[h] = "save" => FacilitiesOf(c.room) \subseteq c.seen
        /\ c.op = "book" =>
             c.discount <= c.subtotal /\ (pc[h] = "offer" => c.offer = None)

\* An offer has the restriction asked for, or had one to a type that was deleted.
RestrictionTraced(o) ==
  HasOffer(o) =>
    /\ offer[o].room = asked[o].room
    /\ \/ offer[o].type = asked[o].type
       \/ /\ offer[o].type = None /\ asked[o].type # None
          /\ types[asked[o].type] = "gone"

\* Why the tables stay right, as an invariant that every step preserves.
CatalogueInvariant ==
  /\ TypeOK
  /\ ReferencesHold
  /\ ChargesBounded
  /\ \A h \in Handlers : RequestIsSound(h)
  /\ \A o \in Offers : RestrictionTraced(o)

\* An offer that was restricted to a room, a type or either is given to no other
\* booking; unless its type was deleted, which leaves it without restriction.
RestrictionKept ==
  [][\A h \in Handlers :
       pc[h] = "offer" /\ pc'[h] = "charge" /\ call'[h].offer # None
         => LET limit == asked[call'[h].offer]
            IN  \/ limit = Unrestricted
                \/ limit.room = call[h].room \/ limit.type = call[h].type
                \/ limit.type # None /\ types[limit.type] = "gone"]_vars

\* After an update that named facilities, and that no other one overlapped, the
\* room has these facilities and no others.
FacilitiesAsAsked ==
  [][\A h \in Handlers, r \in Rooms :
       SaveRoom(h) /\ r = call[h].room /\ call[h].alone
         /\ call[h].form.facilities # None
       => FacilitiesOf(r)' = call[h].form.facilities]_vars

\* A room that was taken off offer ("Soft delete") comes back only by an update
\* that gives isActive.  The code breaks it: every update carries isActive.
RemovedStaysOff ==
  [][\A h \in Handlers, r \in Rooms :
       SaveRoom(h) /\ r = call[h].room /\ call[h].form.isActive = None
         /\ ~room[r].isActive
       => ~room'[r].isActive]_vars
=============================================================================
