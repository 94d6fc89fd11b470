-------------------------- MODULE CatalogueProofs --------------------------
(***************************************************************************)
(* Proofs about Catalogue, for any types, facilities, rooms, offers,       *)
(* bookings, handlers and forms.                                           *)
(***************************************************************************)
EXTENDS Catalogue, TLAPS

LEMMA InitCatalogue == Init => CatalogueInvariant
  <1> SUFFICES ASSUME Init PROVE CatalogueInvariant
    OBVIOUS
  <1>1. TypeOK
    BY DEF Init, TypeOK, Unrestricted, OrNone
  <1>2. /\ \A r \in Rooms : ~HasRoom(r)
        /\ \A o \in Offers : ~HasOffer(o)
        /\ \A b \in Bookings : ~HasBooking(b)
        /\ \A h \in Handlers : call[h] = NoCall
    BY DEF Init, HasRoom, HasOffer, HasBooking
  <1>3. ReferencesHold
    BY <1>2 DEF Init, ReferencesHold
  <1> QED
    BY <1>1, <1>2, <1>3
    DEF CatalogueInvariant, ChargesBounded, RequestIsSound, RestrictionTraced

-----------------------------------------------------------------------------
\* What a form leaves out is taken from elsewhere.
LEMMA GivenType ==
  ASSUME NEW S, NEW field \in OrNone(S), NEW otherwise \in S
  PROVE  Given(field, otherwise) \in S
  BY DEF Given, OrNone

\* The form of a create or an update after the DTO's defaults.
LEMMA DefaultsType ==
  ASSUME NEW form \in RoomForm
  PROVE  LET full == WithDefaults(form)
         IN  /\ full.number = form.number /\ full.type = form.type
             /\ full.price = form.price /\ full.facilities = form.facilities
             /\ full.status \in RoomStatus /\ full.isActive \in BOOLEAN
  <1> DEFINE status == Given(form.status, "AVAILABLE")
             isActive == Given(form.isActive, TRUE)
             full == [form EXCEPT !.status = status, !.isActive = isActive]
  <1>1. status \in RoomStatus /\ isActive \in BOOLEAN
    BY GivenType DEF RoomForm, RoomStatus
  <1>2. WithDefaults(form) = full
    BY DEF WithDefaults
  <1> HIDE DEF status, isActive
  <1>3. /\ full.number = form.number /\ full.type = form.type
        /\ full.price = form.price /\ full.facilities = form.facilities
        /\ full.status = status
    BY DEF RoomForm
  <1>4. full.isActive = isActive
    BY Zenon DEF RoomForm
  <1> QED
    BY <1>1, <1>2, <1>3, <1>4

\* The row that a create inserts, and the one that an update leaves behind.
LEMMA NewRoomType ==
  ASSUME NEW form \in CompleteRoom
  PROVE  LET full == WithDefaults(form)
         IN  [number |-> full.number, type |-> full.type, price |-> full.price,
              status |-> full.status, isActive |-> full.isActive] \in RoomRow
  <1>a. PICK full : full = WithDefaults(form)
    OBVIOUS
  <1>1. /\ full.number = form.number /\ full.type = form.type
        /\ full.price = form.price
        /\ full.status \in RoomStatus /\ full.isActive \in BOOLEAN
    BY <1>a, DefaultsType DEF CompleteRoom
  <1>2. form.number \in Numbers /\ form.type \in Types /\ form.price \in Nat
    BY DEF CompleteRoom, RoomForm, OrNone
  <1> DEFINE b == full.isActive
  <1>3. b \in BOOLEAN
    BY <1>1
  <1> HIDE DEF b
  <1>4. [number |-> full.number, type |-> full.type, price |-> full.price,
         status |-> full.status, isActive |-> b] \in RoomRow
    BY <1>1, <1>2, <1>3 DEF RoomRow
  <1> QED
    BY <1>4, <1>a DEF b

LEMMA MergedType ==
  ASSUME NEW row \in RoomRow, NEW form \in RoomForm
  PROVE  Merged(row, WithDefaults(form)) \in RoomRow
  <1>a. PICK full : full = WithDefaults(form)
    OBVIOUS
  <1>1. /\ full.number = form.number /\ full.type = form.type
        /\ full.price = form.price
        /\ full.status \in RoomStatus /\ full.isActive \in BOOLEAN
    BY <1>a, DefaultsType
  <1>2. /\ form.number \in OrNone(Numbers) /\ form.type \in OrNone(Types)
        /\ form.price \in OrNone(Nat)
        /\ row.number \in Numbers /\ row.type \in Types /\ row.price \in Nat
    BY DEF RoomForm, RoomRow
  <1> DEFINE number == Given(full.number, row.number)
             type == Given(full.type, row.type)
             price == Given(full.price, row.price)
             status == Given(full.status, row.status)
             isActive == Given(full.isActive, row.isActive)
  <1>3. number \in Numbers /\ type \in Types /\ price \in Nat
    BY <1>1, <1>2, GivenType
  <1>4. status \in RoomStatus /\ isActive \in BOOLEAN
    BY <1>1, NothingAssumption DEF Given
  <1>5. Merged(row, full) = [number |-> number, type |-> type, price |-> price,
                             status |-> status, isActive |-> isActive]
    BY DEF Merged
  <1> HIDE DEF number, type, price, status, isActive
  <1>6. Merged(row, full) \in RoomRow
    BY <1>3, <1>4, <1>5 DEF RoomRow
  <1> QED
    BY <1>6, <1>a

\* The same for offers.
LEMMA OfferDefaultsType ==
  ASSUME NEW form \in OfferForm
  PROVE  LET full == WithOfferDefaults(form)
         IN  /\ full.kind = form.kind /\ full.value = form.value
             /\ full.start = form.start /\ full.end = form.end
             /\ full.daysOfWeek = form.daysOfWeek
             /\ full.type = form.type /\ full.room = form.room
             /\ full.minimumNights \in Nat /\ full.isActive \in BOOLEAN
  <1> DEFINE nights == Given(form.minimumNights, 1)
             isActive == Given(form.isActive, TRUE)
             full == [form EXCEPT !.minimumNights = nights, !.isActive = isActive]
  <1>a. form.minimumNights \in OrNone(Nat) /\ form.isActive \in OrNone(BOOLEAN)
    BY DEF OfferForm
  <1>b. nights \in Nat
    BY <1>a, GivenType
  <1>c. isActive \in BOOLEAN
    BY <1>a, Zenon DEF Given, OrNone
  <1>1. nights \in Nat /\ isActive \in BOOLEAN
    BY <1>b, <1>c
  <1>2. WithOfferDefaults(form) = full
    BY DEF WithOfferDefaults
  <1> HIDE DEF nights, isActive
  <1>3. /\ full.kind = form.kind /\ full.value = form.value
        /\ full.start = form.start /\ full.end = form.end
        /\ full.daysOfWeek = form.daysOfWeek
        /\ full.type = form.type /\ full.room = form.room
        /\ full.minimumNights = nights
    BY DEF OfferForm
  <1>4. full.isActive = isActive
    BY Zenon DEF OfferForm
  <1> QED
    BY <1>1, <1>2, <1>3, <1>4

LEMMA OfferRowType ==
  ASSUME NEW kind \in {"PERCENTAGE", "FIXED_AMOUNT"}, NEW value \in Nat,
         NEW start \in Days, NEW end \in Days, NEW nights \in Nat,
         NEW days \in SUBSET Weekdays, NEW type \in OrNone(Types),
         NEW place \in OrNone(Rooms), NEW isActive \in BOOLEAN,
         NEW row, row = [kind |-> kind, value |-> value, start |-> start, end |-> end,
                         minimumNights |-> nights, daysOfWeek |-> days,
                         type |-> type, room |-> place, isActive |-> isActive]
  PROVE  row \in OfferRow /\ row.type = type /\ row.room = place
  BY DEF OfferRow

\* CreateOffer's row is the merge of its form with nothing, which is complete.
LEMMA NewOfferType ==
  ASSUME NEW form \in CompleteOffer
  PROVE  LET row == [WithOfferDefaults(form) EXCEPT !.daysOfWeek = Given(@, {})]
         IN  /\ row \in OfferRow
             /\ row.type = form.type /\ row.room = form.room
  <1> DEFINE nights == Given(form.minimumNights, 1)
             isActive == Given(form.isActive, TRUE)
             days == Given(form.daysOfWeek, {})
  <1>1. form \in OfferForm
    BY DEF CompleteOffer
  <1>2. nights \in Nat /\ isActive \in BOOLEAN /\ days \in SUBSET Weekdays
    <2>1. nights \in Nat /\ isActive \in BOOLEAN
      <3>1. form.minimumNights \in OrNone(Nat) /\ form.isActive \in OrNone(BOOLEAN)
        BY <1>1 DEF OfferForm
      <3>2. nights \in Nat
        BY <3>1, GivenType
      <3>3. isActive \in BOOLEAN
        BY <3>1, GivenType, Zenon
      <3> QED
        BY <3>2, <3>3
    <2>2. form.daysOfWeek \in OrNone(SUBSET Weekdays)
      BY <1>1 DEF OfferForm
    <2>3. {} \in SUBSET Weekdays
      OBVIOUS
    <2> HIDE DEF nights, isActive
    <2>4. days \in SUBSET Weekdays
      BY <2>2, <2>3, GivenType, Zenon
    <2> QED
      BY <2>1, <2>4
  <1>a. PICK row : row = [WithOfferDefaults(form) EXCEPT !.daysOfWeek = Given(@, {})]
    OBVIOUS
  <1>3. row = [form EXCEPT !.minimumNights = nights, !.isActive = isActive,
                           !.daysOfWeek = days]
    <2>1. WithOfferDefaults(form).daysOfWeek = form.daysOfWeek
      BY <1>1, OfferDefaultsType
    <2> QED
      BY <1>a, <2>1 DEF WithOfferDefaults
  <1> DEFINE kind == form.kind
             value == form.value
             start == form.start
             end == form.end
             type == form.type
             place == form.room
  <1> HIDE DEF nights, isActive, days
  <1>4. row = [kind |-> kind, value |-> value, start |-> start, end |-> end,
               minimumNights |-> nights, daysOfWeek |-> days,
               type |-> type, room |-> place, isActive |-> isActive]
    BY <1>1, <1>2, <1>3 DEF OfferForm
  <1>5. /\ kind \in {"PERCENTAGE", "FIXED_AMOUNT"} /\ value \in Nat
        /\ start \in Days /\ end \in Days
        /\ type \in OrNone(Types) /\ place \in OrNone(Rooms)
    BY DEF CompleteOffer, OfferForm, OrNone
  <1> HIDE DEF kind, value, start, end, type, place
  <1>6. row \in OfferRow /\ row.type = type /\ row.room = place
    BY <1>2, <1>4, <1>5, OfferRowType
  <1> QED
    BY <1>6, <1>a DEF type, place

LEMMA MergedOfferType ==
  ASSUME NEW old \in OfferRow, NEW form \in OfferForm,
         NEW row, row = MergedOffer(old, WithOfferDefaults(form))
  PROVE  /\ row \in OfferRow
         /\ row.type = Restriction(form.type, old.type)
         /\ row.room = Restriction(form.room, old.room)
  <1>a. PICK full : full = WithOfferDefaults(form)
    OBVIOUS
  <1>1. /\ full.kind = form.kind /\ full.value = form.value
        /\ full.start = form.start /\ full.end = form.end
        /\ full.daysOfWeek = form.daysOfWeek
        /\ full.type = form.type /\ full.room = form.room
        /\ full.minimumNights \in Nat /\ full.isActive \in BOOLEAN
    BY <1>a, OfferDefaultsType
  <1> DEFINE kind == Given(form.kind, old.kind)
             value == Given(form.value, old.value)
             start == Given(form.start, old.start)
             end == Given(form.end, old.end)
             days == Given(form.daysOfWeek, old.daysOfWeek)
             type == Restriction(form.type, old.type)
             place == Restriction(form.room, old.room)
             isActive == full.isActive
  <1>2. /\ kind \in {"PERCENTAGE", "FIXED_AMOUNT"} /\ value \in Nat
        /\ start \in Days /\ end \in Days /\ days \in SUBSET Weekdays
    BY GivenType DEF OfferForm, OfferRow, OrNone
  <1>3. type \in OrNone(Types) /\ place \in OrNone(Rooms)
    BY DEF OfferForm, OfferRow, OrNone, Given, Restriction
  <1>4. isActive \in BOOLEAN
    BY <1>1
  <1>5. row = [kind |-> kind, value |-> value, start |-> start, end |-> end,
               minimumNights |-> full.minimumNights, daysOfWeek |-> days,
               type |-> type, room |-> place, isActive |-> isActive]
    BY <1>1, <1>a DEF MergedOffer
  <1> HIDE DEF kind, value, start, end, days, type, place, isActive
  <1>6. row \in OfferRow /\ row.type = type /\ row.room = place
    BY <1>1, <1>2, <1>3, <1>4, <1>5, OfferRowType
  <1> QED
    BY <1>6 DEF type, place

\* A discount is an amount, and never above the subtotal.
LEMMA DiscountBounded ==
  ASSUME NEW row \in OfferRow, NEW subtotal \in Nat
  PROVE  /\ CalculateDiscount(row, subtotal) \in Nat
         /\ CalculateDiscount(row, subtotal) <= subtotal
  <1> DEFINE raw == IF row.kind = "PERCENTAGE"
                    THEN (subtotal * row.value + 5000) \div 10000 ELSE row.value
  <1>1. row.value \in Nat
    BY DEF OfferRow
  <1>2. subtotal * row.value \in Nat
    BY <1>1
  <1>3. \A n \in Nat : (n + 5000) \div 10000 \in Nat
    OBVIOUS
  <1>4. raw \in Nat
    BY <1>1, <1>2, <1>3
  <1>5. CalculateDiscount(row, subtotal) = IF raw < subtotal THEN raw ELSE subtotal
    BY DEF CalculateDiscount
  <1> HIDE DEF raw
  <1> QED
    BY <1>4, <1>5

-----------------------------------------------------------------------------
\* Which request a handler serves tells what it carries, and the statement that
\* it runs next tells which request that is.
LEMMA CallKinds ==
  ASSUME TypeOK, NEW h \in Handlers, call[h] # NoCall
  PROVE  /\ pc[h] # "idle"
         /\ call[h].op \in {"createRoom", "updateRoom", "removeType", "book"}
         /\ call[h].op \in {"createRoom", "updateRoom"} => call[h] \in RoomCall
         /\ call[h].op = "removeType" => call[h] \in TypeCall
         /\ call[h].op = "book" => call[h] \in BookCall
  <1>1. call[h] \in RoomCall \cup TypeCall \cup BookCall /\ pc[h] # "idle"
    BY DEF TypeOK
  <1>2. \A c \in RoomCall : c.op \in {"createRoom", "updateRoom"}
    BY DEF RoomCall
  <1>3. \A c \in TypeCall : c.op = "removeType"
    BY DEF TypeCall
  <1>4. \A c \in BookCall : c.op = "book"
    BY DEF BookCall
  <1> QED
    BY <1>1, <1>2, <1>3, <1>4

LEMMA StatementTells ==
  ASSUME TypeOK, NEW h \in Handlers, RequestIsSound(h), pc[h] # "idle"
  PROVE  /\ call[h] # NoCall
         /\ pc[h] = "number" => call[h].op \in {"createRoom", "updateRoom"}
         /\ pc[h] = "insert" => call[h].op = "createRoom"
         /\ pc[h] \in {"clear", "save"} => call[h].op = "updateRoom"
         /\ pc[h] = "delete" => call[h].op = "removeType"
         /\ pc[h] \in {"offer", "charge"} => call[h].op = "book"
  <1>1. call[h] # NoCall
    BY DEF TypeOK
  <1>2. call[h].op \in {"createRoom", "updateRoom", "removeType", "book"}
    BY <1>1, CallKinds
  <1>3. pc[h] \in StatementsOf[call[h].op]
    BY <1>1 DEF RequestIsSound
  <1>4. /\ call[h].op = "createRoom" => pc[h] \in {"number", "insert"}
        /\ call[h].op = "updateRoom" => pc[h] \in {"number", "clear", "save"}
        /\ call[h].op = "removeType" => pc[h] = "delete"
        /\ call[h].op = "book" => pc[h] \in {"offer", "charge"}
    BY <1>3 DEF StatementsOf
  <1> QED
    BY <1>1, <1>2, <1>4

\* A request that takes no step stays sound, if no step takes the room of a
\* create, no other update of the room's facilities begins, and none of the
\* room's links is added.
LEMMA OtherSound ==
  ASSUME TypeOK, NEW g \in Handlers, RequestIsSound(g),
         call'[g] = call[g], pc'[g] = pc[g],
         \A r \in Rooms : HasRoom(r) => HasRoom(r)',
         NEW r, r = call[g].room,
         call[g] # NoCall /\ call[g].op = "createRoom" =>
           /\ ~HasRoom(r)'
           /\ \A k \in Handlers \ {g} :
                call'[k] # NoCall /\ call'[k].op = "createRoom" => call'[k].room # r,
         /\ call[g] # NoCall /\ call[g].op = "updateRoom" /\ call[g].alone
         /\ call[g].form.facilities # None
         => Contenders(r)' \subseteq {g} /\ FacilitiesOf(r)' \subseteq FacilitiesOf(r)
  PROVE  RequestIsSound(g)'
  <1> SUFFICES ASSUME call[g] # NoCall
               PROVE  RequestIsSound(g)'
    BY DEF RequestIsSound
  <1>a. PICK c : c = call[g]
    OBVIOUS
  <1>b. c = call'[g] /\ r = c.room
    BY <1>a
  <1>1. pc'[g] \in StatementsOf[c.op]
    BY <1>a DEF RequestIsSound
  <1>2. ASSUME c.op = "createRoom"
        PROVE  /\ ~HasRoom(r)' /\ c.form \in CompleteRoom
               /\ \A k \in Handlers \ {g} :
                    call'[k] # NoCall /\ call'[k].op = "createRoom" => call'[k].room # r
    BY <1>a, <1>2 DEF RequestIsSound
  <1>3. ASSUME c.op = "updateRoom" PROVE HasRoom(r)'
    <2>1. HasRoom(r) /\ r \in Rooms
      BY <1>a, <1>3, CallKinds DEF RequestIsSound, RoomCall
    <2> QED
      BY <2>1
  <1>4. ASSUME c.op = "updateRoom", c.alone, c.form.facilities # None
        PROVE  /\ Contenders(r)' = {g}
               /\ pc'[g] = "save" => FacilitiesOf(r)' \subseteq c.seen
    <2>1. /\ Contenders(r)' \subseteq {g} /\ FacilitiesOf(r)' \subseteq FacilitiesOf(r)
          /\ pc[g] = "save" => FacilitiesOf(r) \subseteq c.seen
      BY <1>a, <1>4 DEF RequestIsSound
    <2>2. g \in Contenders(r)'
      BY <1>4, <1>b DEF Contenders
    <2> QED
      BY <2>1, <2>2
  <1>5. ASSUME c.op = "book"
        PROVE  c.discount <= c.subtotal /\ (pc'[g] = "offer" => c.offer = None)
    BY <1>a, <1>5 DEF RequestIsSound
  <1> QED
    BY <1>b, <1>1, <1>2, <1>3, <1>4, <1>5 DEF RequestIsSound, HasRoom, Contenders,
       FacilitiesOf

\* A step of handler h: the others' requests stay sound.
LEMMA OneHandler ==
  ASSUME TypeOK, \A g \in Handlers : RequestIsSound(g), NEW h \in Handlers,
         \A g \in Handlers : g # h => call'[g] = call[g] /\ pc'[g] = pc[g],
         \A r \in Rooms : HasRoom(r) => HasRoom(r)',
         \A r \in Rooms : HasRoom(r)' /\ ~HasRoom(r) =>
           call[h] # NoCall /\ call[h].op = "createRoom" /\ call[h].room = r,
         call'[h] # NoCall /\ call'[h].op = "createRoom" =>
           \A g \in Handlers \ {h} :
             call[g] # NoCall /\ call[g].op = "createRoom"
               => call[g].room # call'[h].room,
         \A r \in Rooms : h \in Contenders(r)' => h \in Contenders(r),
         \A r \in Rooms :
           \/ FacilitiesOf(r)' \subseteq FacilitiesOf(r)
           \/ ~HasRoom(r) \/ h \in Contenders(r)
  PROVE  \A g \in Handlers \ {h} : RequestIsSound(g)'
  <1> SUFFICES ASSUME NEW g \in Handlers \ {h} PROVE RequestIsSound(g)'
    OBVIOUS
  <1>a. PICK r : r = call[g].room
    OBVIOUS
  <1>1. call'[g] = call[g] /\ pc'[g] = pc[g] /\ RequestIsSound(g)
    OBVIOUS
  <1>2. call[g] # NoCall /\ call[g].op \in {"createRoom", "updateRoom"} => r \in Rooms
    BY <1>a, CallKinds DEF RoomCall
  <1>3. ASSUME call[g] # NoCall, call[g].op = "createRoom"
        PROVE  /\ ~HasRoom(r)'
               /\ \A k \in Handlers \ {g} :
                    call'[k] # NoCall /\ call'[k].op = "createRoom" => call'[k].room # r
    <2>1. /\ ~HasRoom(r) /\ r \in Rooms
          /\ \A k \in Handlers \ {g} :
               call[k] # NoCall /\ call[k].op = "createRoom" => call[k].room # r
      BY <1>a, <1>1, <1>2, <1>3 DEF RequestIsSound
    <2>2. ~HasRoom(r)'
      BY <2>1
    <2>3. ASSUME NEW k \in Handlers \ {g}, call'[k] # NoCall, call'[k].op = "createRoom"
          PROVE  call'[k].room # r
      <3>1. CASE k = h
        BY <1>a, <1>3, <2>3, <3>1
      <3>2. CASE k # h
        BY <2>1, <2>3, <3>2
      <3> QED
        BY <3>1, <3>2
    <2> QED
      BY <2>2, <2>3
  <1>4. ASSUME call[g] # NoCall, call[g].op = "updateRoom", call[g].alone,
               call[g].form.facilities # None
        PROVE  Contenders(r)' \subseteq {g} /\ FacilitiesOf(r)' \subseteq FacilitiesOf(r)
    <2>1. Contenders(r) = {g} /\ HasRoom(r) /\ r \in Rooms
      BY <1>a, <1>1, <1>2, <1>4 DEF RequestIsSound
    <2>2. ASSUME NEW k \in Contenders(r)' PROVE k = g
      <3>1. k # h
        BY <2>1, <2>2
      <3>2. k \in Contenders(r)
        BY <2>2, <3>1 DEF Contenders
      <3> QED
        BY <2>1, <3>2
    <2> QED
      BY <2>1, <2>2
  <1> QED
    BY <1>a, <1>1, <1>3, <1>4, OtherSound

\* A step that writes no table.
LEMMA SameTables ==
  ASSUME CatalogueInvariant,
         UNCHANGED <<types, facilities, room, links, offer, booking, asked>>
  PROVE  /\ ReferencesHold' /\ ChargesBounded'
         /\ \A o \in Offers : RestrictionTraced(o)'
         /\ \A r \in Rooms : /\ HasRoom(r)' = HasRoom(r)
                             /\ FacilitiesOf(r)' = FacilitiesOf(r)
  BY DEF CatalogueInvariant, ReferencesHold, ChargesBounded, RestrictionTraced,
         HasRoom, HasOffer, HasBooking, OfferAllowed, Live, NumberFree, FacilitiesOf

Requests == RoomCall \cup TypeCall \cup BookCall \cup {NoCall}
Statements == {"idle", "number", "insert", "clear", "save", "delete", "offer", "charge"}

\* The handlers after a step of one of them.
LEMMA HandlersType ==
  ASSUME TypeOK, NEW h \in Handlers, NEW c \in Requests, NEW p \in Statements,
         p = "idle" <=> c = NoCall,
         call' = [call EXCEPT ![h] = c], pc' = [pc EXCEPT ![h] = p]
  PROVE  /\ pc' \in [Handlers -> Statements] /\ call' \in [Handlers -> Requests]
         /\ \A g \in Handlers : pc'[g] = "idle" <=> call'[g] = NoCall
         /\ \A g \in Handlers : g # h => call'[g] = call[g] /\ pc'[g] = pc[g]
         /\ call'[h] = c /\ pc'[h] = p
  <1>1. pc \in [Handlers -> Statements] /\ call \in [Handlers -> Requests]
    BY DEF TypeOK, Statements, Requests
  <1>2. pc' \in [Handlers -> Statements] /\ call' \in [Handlers -> Requests]
    BY <1>1
  <1>3. /\ \A g \in Handlers : g # h => call'[g] = call[g] /\ pc'[g] = pc[g]
        /\ call'[h] = c /\ pc'[h] = p
    BY <1>1
  <1>4. \A g \in Handlers : pc'[g] = "idle" <=> call'[g] = NoCall
    BY <1>3 DEF TypeOK
  <1> QED
    BY <1>2, <1>3, <1>4

\* A step of a handler that writes no table.
LEMMA QuietMove ==
  ASSUME CatalogueInvariant, NEW h \in Handlers, NEW c \in Requests,
         NEW p \in Statements, p = "idle" <=> c = NoCall,
         call' = [call EXCEPT ![h] = c], pc' = [pc EXCEPT ![h] = p],
         UNCHANGED <<types, facilities, room, links, offer, booking, asked>>,
         c # NoCall /\ c.op = "createRoom" =>
           \A g \in Handlers \ {h} :
             call[g] # NoCall /\ call[g].op = "createRoom" => call[g].room # c.room,
         c # NoCall /\ c.op = "updateRoom" /\ c.form.facilities # None
           => h \in Contenders(c.room),
         RequestIsSound(h)'
  PROVE  CatalogueInvariant'
  <1>1. TypeOK /\ \A g \in Handlers : RequestIsSound(g)
    BY DEF CatalogueInvariant
  <1>2. /\ pc' \in [Handlers -> Statements] /\ call' \in [Handlers -> Requests]
        /\ \A g \in Handlers : pc'[g] = "idle" <=> call'[g] = NoCall
        /\ \A g \in Handlers : g # h => call'[g] = call[g] /\ pc'[g] = pc[g]
        /\ call'[h] = c /\ pc'[h] = p
    BY <1>1, HandlersType
  <1>3. TypeOK'
    BY <1>1, <1>2 DEF TypeOK, Requests, Statements
  <1>4. /\ ReferencesHold' /\ ChargesBounded'
        /\ \A o \in Offers : RestrictionTraced(o)'
        /\ \A r \in Rooms : /\ HasRoom(r)' = HasRoom(r)
                            /\ FacilitiesOf(r)' = FacilitiesOf(r)
    BY SameTables
  <1>5. \A r \in Rooms : h \in Contenders(r)' => h \in Contenders(r)
    BY <1>2 DEF Contenders
  <1>6. \A g \in Handlers \ {h} : RequestIsSound(g)'
    BY <1>1, <1>2, <1>4, <1>5, OneHandler
  <1> QED
    BY <1>3, <1>4, <1>6 DEF CatalogueInvariant

\* A step that ends a request and writes tables.
LEMMA EndMove ==
  ASSUME CatalogueInvariant, NEW h \in Handlers, End(h), pc[h] # "idle",
         types' \in [Types -> {"new", "live", "gone"}],
         facilities' \subseteq Facilities,
         room' \in [Rooms -> RoomRow \cup {NoRow}],
         links' \subseteq Rooms \X Facilities,
         offer' \in [Offers -> OfferRow \cup {NoRow}],
         booking' \in [Bookings -> BookingRow \cup {NoRow}],
         asked' = asked,
         ReferencesHold', ChargesBounded', \A o \in Offers : RestrictionTraced(o)',
         \A r \in Rooms : HasRoom(r) => HasRoom(r)',
         \A r \in Rooms : HasRoom(r)' /\ ~HasRoom(r) =>
           call[h] # NoCall /\ call[h].op = "createRoom" /\ call[h].room = r,
         \A r \in Rooms :
           \/ FacilitiesOf(r)' \subseteq FacilitiesOf(r)
           \/ ~HasRoom(r) \/ h \in Contenders(r)
  PROVE  CatalogueInvariant'
  <1>1. TypeOK /\ \A g \in Handlers : RequestIsSound(g)
    BY DEF CatalogueInvariant
  <1>2. /\ pc' \in [Handlers -> Statements] /\ call' \in [Handlers -> Requests]
        /\ \A g \in Handlers : pc'[g] = "idle" <=> call'[g] = NoCall
        /\ \A g \in Handlers : g # h => call'[g] = call[g] /\ pc'[g] = pc[g]
        /\ call'[h] = NoCall /\ pc'[h] = "idle"
    <2>1. NoCall \in Requests /\ "idle" \in Statements
      BY DEF Requests, Statements
    <2>2. call' = [call EXCEPT ![h] = NoCall] /\ pc' = [pc EXCEPT ![h] = "idle"]
      BY DEF End
    <2> QED
      BY <1>1, <2>1, <2>2, HandlersType
  <1>3. TypeOK'
    BY <1>1, <1>2 DEF TypeOK, Requests, Statements
  <1>4. \A r \in Rooms : h \notin Contenders(r)'
    BY <1>2 DEF Contenders
  <1>5. \A g \in Handlers \ {h} : RequestIsSound(g)'
    BY <1>1, <1>2, <1>4, OneHandler
  <1>6. RequestIsSound(h)'
    BY <1>2 DEF RequestIsSound
  <1> QED
    BY <1>3, <1>5, <1>6 DEF CatalogueInvariant

\* A step of no handler.
LEMMA TablesStep ==
  ASSUME CatalogueInvariant, UNCHANGED handlers,
         types' \in [Types -> {"new", "live", "gone"}],
         facilities' \subseteq Facilities,
         room' \in [Rooms -> RoomRow \cup {NoRow}],
         links' \subseteq Rooms \X Facilities,
         offer' \in [Offers -> OfferRow \cup {NoRow}],
         booking' \in [Bookings -> BookingRow \cup {NoRow}],
         asked' \in [Offers -> [type: OrNone(Types), room: OrNone(Rooms)]],
         ReferencesHold', ChargesBounded', \A o \in Offers : RestrictionTraced(o)',
         \A r \in Rooms : HasRoom(r)' = HasRoom(r),
         \A r \in Rooms : FacilitiesOf(r)' \subseteq FacilitiesOf(r)
  PROVE  CatalogueInvariant'
  <1>1. TypeOK /\ \A g \in Handlers : RequestIsSound(g)
    BY DEF CatalogueInvariant
  <1>2. call' = call /\ pc' = pc
    BY DEF handlers
  <1>3. TypeOK'
    BY <1>1, <1>2 DEF TypeOK
  <1>4. ASSUME NEW g \in Handlers PROVE RequestIsSound(g)'
    <2>a. PICK r : r = call[g].room
      OBVIOUS
    <2>1. call[g] # NoCall /\ call[g].op \in {"createRoom", "updateRoom"} => r \in Rooms
      BY <1>1, <2>a, CallKinds DEF RoomCall
    <2>2. \A q \in Rooms : Contenders(q)' = Contenders(q)
      BY <1>2 DEF Contenders
    <2>3. call[g] # NoCall /\ call[g].op = "createRoom" =>
            /\ ~HasRoom(r)'
            /\ \A k \in Handlers \ {g} :
                 call'[k] # NoCall /\ call'[k].op = "createRoom" => call'[k].room # r
      BY <1>1, <1>2, <2>a, <2>1 DEF RequestIsSound
    <2>4. /\ call[g] # NoCall /\ call[g].op = "updateRoom" /\ call[g].alone
          /\ call[g].form.facilities # None
          => Contenders(r)' \subseteq {g} /\ FacilitiesOf(r)' \subseteq FacilitiesOf(r)
      BY <1>1, <2>a, <2>1, <2>2 DEF RequestIsSound
    <2> QED
      BY <1>1, <1>2, <2>a, <2>3, <2>4, OtherSound
  <1> QED
    BY <1>3, <1>4 DEF CatalogueInvariant

-----------------------------------------------------------------------------
\* Room types and facilities.
LEMMA CreateTypeSound ==
  ASSUME CatalogueInvariant, NEW t \in Types, CreateType(t)
  PROVE  CatalogueInvariant'
  <1>1. /\ UNCHANGED <<facilities, room, links, offer, booking, asked, handlers>>
        /\ types[t] = "new" /\ types' = [types EXCEPT ![t] = "live"]
    BY DEF CreateType
  <1>2. TypeOK /\ ReferencesHold /\ ChargesBounded
    BY DEF CatalogueInvariant
  <1>3. types' \in [Types -> {"new", "live", "gone"}]
    BY <1>1, <1>2 DEF TypeOK
  <1>4. \A s \in Types : /\ Live(s) => Live(s)'
                         /\ types[s] = "gone" => types'[s] = "gone"
    BY <1>1, <1>2 DEF TypeOK, Live
  <1>5. /\ \A r \in Rooms : /\ HasRoom(r)' = HasRoom(r)
                            /\ FacilitiesOf(r)' = FacilitiesOf(r)
        /\ \A o \in Offers : HasOffer(o)' = HasOffer(o)
        /\ \A b \in Bookings : HasBooking(b)' = HasBooking(b)
    BY <1>1 DEF HasRoom, FacilitiesOf, HasOffer, HasBooking
  <1>6. ReferencesHold'
    <2>1. ASSUME NEW r \in Rooms, HasRoom(r)'
          PROVE  Live(room[r].type)' /\ NumberFree(room[r].number, r)'
      <3>1. room[r].type \in Types /\ Live(room[r].type) /\ NumberFree(room[r].number, r)
        BY <1>2, <1>5, <2>1 DEF ReferencesHold, TypeOK, HasRoom, RoomRow
      <3> QED
        BY <1>1, <1>4, <3>1 DEF NumberFree, HasRoom, Live
    <2>2. ASSUME NEW o \in Offers, HasOffer(o)' PROVE OfferAllowed(offer[o])'
      BY <1>1, <1>2, <1>4, <1>5, <2>2 DEF ReferencesHold, OfferAllowed, Live, HasRoom
    <2>3. \A l \in links' : HasRoom(l[1])' /\ l[2] \in facilities'
      BY <1>1, <1>2 DEF ReferencesHold, HasRoom
    <2>4. \A b \in Bookings :
            HasBooking(b)' => booking'[b].offer = None \/ HasOffer(booking[b].offer)'
      BY <1>1, <1>2 DEF ReferencesHold, HasBooking, HasOffer
    <2> QED
      BY <2>1, <2>2, <2>3, <2>4, <1>1 DEF ReferencesHold
  <1>7. ChargesBounded'
    BY <1>1, <1>2 DEF ChargesBounded, HasBooking
  <1>8. \A o \in Offers : RestrictionTraced(o)'
    BY <1>1, <1>2, <1>4 DEF CatalogueInvariant, RestrictionTraced, TypeOK, OrNone,
       HasOffer
  <1> QED
    BY <1>1, <1>2, <1>3, <1>5, <1>6, <1>7, <1>8, TablesStep DEF TypeOK

LEMMA CreateFacilitySound ==
  ASSUME CatalogueInvariant, NEW f \in Facilities, CreateFacility(f)
  PROVE  CatalogueInvariant'
  <1>1. /\ UNCHANGED <<types, room, links, offer, booking, asked, handlers>>
        /\ facilities' = facilities \cup {f}
    BY DEF CreateFacility
  <1>2. TypeOK /\ ReferencesHold /\ ChargesBounded
    BY DEF CatalogueInvariant
  <1>3. ReferencesHold'
    BY <1>1, <1>2 DEF ReferencesHold, HasRoom, HasOffer, HasBooking, Live, NumberFree,
       OfferAllowed
  <1>4. ChargesBounded' /\ \A o \in Offers : RestrictionTraced(o)'
    BY <1>1, <1>2
    DEF CatalogueInvariant, ChargesBounded, RestrictionTraced, HasOffer, HasBooking
  <1>5. \A r \in Rooms : HasRoom(r)' = HasRoom(r) /\ FacilitiesOf(r)' = FacilitiesOf(r)
    BY <1>1 DEF HasRoom, FacilitiesOf
  <1> QED
    BY <1>1, <1>2, <1>3, <1>4, <1>5, TablesStep DEF TypeOK

LEMMA RemoveFacilitySound ==
  ASSUME CatalogueInvariant, NEW f \in Facilities, RemoveFacility(f)
  PROVE  CatalogueInvariant'
  <1>1. /\ UNCHANGED <<types, room, offer, booking, asked, handlers>>
        /\ facilities' = facilities \ {f} /\ links' = links \ (Rooms \X {f})
    BY DEF RemoveFacility
  <1>2. TypeOK /\ ReferencesHold /\ ChargesBounded
    BY DEF CatalogueInvariant
  <1>3. \A l \in links' : HasRoom(l[1])' /\ l[2] \in facilities'
    <2> SUFFICES ASSUME NEW l \in links' PROVE HasRoom(l[1])' /\ l[2] \in facilities'
      OBVIOUS
    <2>1. l \in links /\ l \in Rooms \X Facilities /\ l \notin Rooms \X {f}
      BY <1>1, <1>2 DEF TypeOK
    <2>2. HasRoom(l[1]) /\ l[2] \in facilities
      BY <1>2, <2>1 DEF ReferencesHold
    <2>3. l[2] # f
      BY <2>1
    <2> QED
      BY <1>1, <2>2, <2>3 DEF HasRoom
  <1>4. ReferencesHold'
    BY <1>1, <1>2, <1>3 DEF ReferencesHold, HasRoom, HasOffer, HasBooking, Live,
       NumberFree, OfferAllowed
  <1>5. ChargesBounded' /\ \A o \in Offers : RestrictionTraced(o)'
    BY <1>1, <1>2
    DEF CatalogueInvariant, ChargesBounded, RestrictionTraced, HasOffer, HasBooking
  <1>6. \A r \in Rooms :
          HasRoom(r)' = HasRoom(r) /\ FacilitiesOf(r)' \subseteq FacilitiesOf(r)
    BY <1>1 DEF HasRoom, FacilitiesOf
  <1> QED
    BY <1>1, <1>2, <1>4, <1>5, <1>6, TablesStep DEF TypeOK

LEMMA StartRemoveTypeSound ==
  ASSUME CatalogueInvariant, NEW h \in Handlers, NEW t \in Types, StartRemoveType(h, t)
  PROVE  CatalogueInvariant'
  <1> DEFINE c == [op |-> "removeType", type |-> t]
  <1>1. /\ call' = [call EXCEPT ![h] = c] /\ pc' = [pc EXCEPT ![h] = "delete"]
        /\ UNCHANGED <<types, facilities, room, links, offer, booking, asked>>
    BY DEF StartRemoveType, Start
  <1>2. c \in TypeCall /\ c.op = "removeType"
    BY DEF TypeCall
  <1> HIDE DEF c
  <1>3. c \in Requests /\ c # NoCall /\ "delete" \in Statements
    BY <1>2, NothingAssumption DEF Requests, Statements
  <1>4. call'[h] = c /\ pc'[h] = "delete"
    BY <1>1 DEF CatalogueInvariant, TypeOK
  <1>5. RequestIsSound(h)'
    BY <1>2, <1>4 DEF RequestIsSound, StatementsOf
  <1> QED
    BY <1>1, <1>2, <1>3, <1>5, QuietMove

\* The deleted type was the type of no room; the offers that were restricted to
\* it are the ones that lose a restriction.
LEMMA DeleteTypeSound ==
  ASSUME CatalogueInvariant, NEW h \in Handlers, DeleteType(h)
  PROVE  CatalogueInvariant'
  <1>1. /\ UNCHANGED <<facilities, room, links, booking, asked>>
        /\ End(h) /\ pc[h] = "delete"
    BY DEF DeleteType
  <1>2. TypeOK /\ ReferencesHold /\ ChargesBounded /\ RequestIsSound(h)
    BY DEF CatalogueInvariant
  <1>3. PICK t \in Types : t = call[h].type
    BY <1>1, <1>2, StatementTells, CallKinds DEF TypeCall
  <1>4. /\ Live(t) /\ RoomsOfType(t) = {} /\ types' = [types EXCEPT ![t] = "gone"]
        /\ offer' = [o \in Offers |-> IF HasOffer(o) /\ offer[o].type = t
                                      THEN [offer[o] EXCEPT !.type = None] ELSE offer[o]]
    BY <1>3 DEF DeleteType
  <1>5. /\ types' \in [Types -> {"new", "live", "gone"}] /\ types'[t] = "gone"
        /\ \A s \in Types \ {t} : types'[s] = types[s]
    BY <1>2, <1>4 DEF TypeOK
  <1>6. ASSUME NEW o \in Offers, HasOffer(o)
        PROVE  /\ HasOffer(o)' /\ offer'[o] \in OfferRow
               /\ offer'[o].room = offer[o].room
               /\ \/ offer[o].type # t /\ offer'[o].type = offer[o].type
                  \/ offer[o].type = t /\ offer'[o].type = None
    <2>1. offer[o] \in OfferRow
      BY <1>2, <1>6 DEF TypeOK, HasOffer
    <2>2. CASE offer[o].type = t
      <3>1. offer'[o] = [offer[o] EXCEPT !.type = None]
        BY <1>4, <1>6, <2>2
      <3>2. offer'[o] \in OfferRow
        BY <2>1, <3>1 DEF OfferRow, OrNone
      <3>3. HasOffer(o)'
        BY <3>2, NothingAssumption DEF HasOffer
      <3> QED
        BY <2>1, <2>2, <3>1, <3>2, <3>3 DEF OfferRow
    <2>3. CASE offer[o].type # t
      BY <1>4, <1>6, <2>1, <2>3 DEF HasOffer
    <2> QED
      BY <2>2, <2>3
  <1>7. \A o \in Offers : ~HasOffer(o) => ~HasOffer(o)' /\ offer'[o] = NoRow
    BY <1>4 DEF HasOffer
  <1>8. offer' \in [Offers -> OfferRow \cup {NoRow}]
    BY <1>4, <1>6, <1>7
  <1>9. \A r \in Rooms : HasRoom(r)' = HasRoom(r) /\ FacilitiesOf(r)' = FacilitiesOf(r)
    BY <1>1 DEF HasRoom, FacilitiesOf
  <1>10. ReferencesHold'
    <2>1. ASSUME NEW r \in Rooms, HasRoom(r)'
          PROVE  Live(room[r].type)' /\ NumberFree(room[r].number, r)'
      <3>1. /\ room[r].type \in Types /\ room[r].type # t
            /\ Live(room[r].type) /\ NumberFree(room[r].number, r)
        BY <1>2, <1>4, <1>9, <2>1
        DEF ReferencesHold, TypeOK, HasRoom, RoomRow, RoomsOfType
      <3> QED
        BY <1>1, <1>5, <3>1 DEF NumberFree, HasRoom, Live
    <2>2. ASSUME NEW o \in Offers, HasOffer(o)' PROVE OfferAllowed(offer[o])'
      <3>1. OfferAllowed(offer[o]) /\ HasOffer(o)
        BY <1>2, <1>7, <2>2 DEF ReferencesHold
      <3> QED
        BY <1>1, <1>5, <1>6, <3>1 DEF OfferAllowed, Live, HasRoom
    <2>3. \A l \in links' : HasRoom(l[1])' /\ l[2] \in facilities'
      BY <1>1, <1>2 DEF ReferencesHold, HasRoom
    <2>4. ASSUME NEW b \in Bookings, HasBooking(b)', booking'[b].offer # None
          PROVE  HasOffer(booking[b].offer)'
      <3>1. booking[b].offer \in Offers /\ HasOffer(booking[b].offer)
        BY <1>1, <1>2, <2>4
        DEF ReferencesHold, HasBooking, TypeOK, BookingRow, OrNone
      <3>2. PICK o \in Offers : o = booking[b].offer
        BY <3>1
      <3>3. HasOffer(o)'
        BY <1>6, <3>1, <3>2
      <3> QED
        BY <1>1, <3>2, <3>3 DEF HasOffer
    <2> QED
      BY <2>1, <2>2, <2>3, <2>4 DEF ReferencesHold
  <1>11. ChargesBounded'
    BY <1>1, <1>2 DEF ChargesBounded, HasBooking
  <1>12. ASSUME NEW o \in Offers PROVE RestrictionTraced(o)'
    <2> SUFFICES ASSUME HasOffer(o)
                 PROVE  /\ offer'[o].room = asked'[o].room
                        /\ \/ offer'[o].type = asked'[o].type
                           \/ /\ offer'[o].type = None /\ asked'[o].type # None
                              /\ types'[asked'[o].type] = "gone"
      BY <1>7 DEF RestrictionTraced
    <2>1. /\ offer[o].room = asked[o].room
          /\ \/ offer[o].type = asked[o].type
             \/ /\ offer[o].type = None /\ asked[o].type # None
                /\ types[asked[o].type] = "gone"
      BY DEF CatalogueInvariant, RestrictionTraced
    <2>2. asked[o].type \in OrNone(Types) /\ asked'[o] = asked[o]
      BY <1>1, <1>2 DEF TypeOK
    <2> QED
      BY <1>5, <1>6, <2>1, <2>2, NothingAssumption DEF OrNone
  <1> QED
    BY <1>1, <1>2, <1>5, <1>8, <1>9, <1>10, <1>11, <1>12, EndMove DEF TypeOK

-----------------------------------------------------------------------------
\* Rooms.
LEMMA StartCreateRoomSound ==
  ASSUME CatalogueInvariant, NEW h \in Handlers, NEW r \in Rooms,
         NEW form \in RoomForms, StartCreateRoom(h, r, form)
  PROVE  CatalogueInvariant'
  <1> DEFINE c == [op |-> "createRoom", room |-> r, form |-> form,
                   seen |-> {}, alone |-> TRUE]
  <1>1. /\ call' = [call EXCEPT ![h] = c] /\ pc' = [pc EXCEPT ![h] = "number"]
        /\ UNCHANGED <<types, facilities, room, links, offer, booking, asked>>
        /\ ~HasRoom(r) /\ pc[h] = "idle"
        /\ \A g \in Handlers : call[g] # NoCall /\ call[g].op = "createRoom"
             => call[g].room # r
    BY DEF StartCreateRoom, Start
  <1>2. c \in RoomCall /\ c.op = "createRoom" /\ c.room = r /\ c.form = form
    BY FormsAssumption DEF RoomCall, CompleteRoom
  <1> HIDE DEF c
  <1>3. c \in Requests /\ c # NoCall /\ "number" \in Statements
    BY <1>2, NothingAssumption DEF Requests, Statements
  <1>4. /\ call'[h] = c /\ pc'[h] = "number"
        /\ \A g \in Handlers \ {h} : call'[g] = call[g]
    BY <1>1 DEF CatalogueInvariant, TypeOK
  <1>5. ~HasRoom(r)' /\ form \in CompleteRoom
    BY <1>1, FormsAssumption DEF HasRoom
  <1>6. RequestIsSound(h)'
    BY <1>1, <1>2, <1>4, <1>5 DEF RequestIsSound, StatementsOf, HasRoom
  <1> QED
    BY <1>1, <1>2, <1>3, <1>6, QuietMove

\* An update that names facilities is no longer alone, and neither are those
\* that it overlaps.
LEMMA StartUpdateRoomSound ==
  ASSUME CatalogueInvariant, NEW h \in Handlers, NEW r \in Rooms,
         NEW form \in RoomChanges, StartUpdateRoom(h, r, form)
  PROVE  CatalogueInvariant'
  <1> DEFINE rivals == IF form.facilities = None THEN {} ELSE Contenders(r)
             single == rivals = {}
             c == [op |-> "updateRoom", room |-> r, form |-> form,
                   seen |-> {}, alone |-> single]
  <1>1. /\ UNCHANGED <<types, facilities, room, links, offer, booking, asked>>
        /\ HasRoom(r) /\ pc[h] = "idle" /\ pc' = [pc EXCEPT ![h] = "number"]
        /\ call' = [g \in Handlers |->
                      IF g = h THEN c
                      ELSE IF g \in rivals THEN [call[g] EXCEPT !.alone = FALSE]
                      ELSE call[g]]
    BY DEF StartUpdateRoom
  <1>2. TypeOK /\ \A g \in Handlers : RequestIsSound(g)
    BY DEF CatalogueInvariant
  <1>3. /\ c \in RoomCall /\ c.op = "updateRoom" /\ c.room = r /\ c.form = form
        /\ (c.alone <=> single) /\ single \in BOOLEAN
    <2>1. single \in BOOLEAN
      OBVIOUS
    <2> HIDE DEF single
    <2>2. c \in RoomCall /\ c.op = "updateRoom" /\ c.room = r /\ c.form = form
      BY <2>1, FormsAssumption DEF RoomCall
    <2>3. c.alone <=> single
      BY Zenon
    <2> QED
      BY <2>1, <2>2, <2>3
  <1>4. \A g \in rivals : call[g] \in RoomCall /\ call[g].op = "updateRoom"
                          /\ call[g].room = r
    BY <1>2, CallKinds DEF Contenders
  <1> HIDE DEF c
  <1>5. call'[h] = c /\ c # NoCall /\ pc'[h] = "number"
        /\ \A g \in Handlers \ {h} : pc'[g] = pc[g]
    BY <1>1, <1>2, <1>3, NothingAssumption DEF TypeOK
  <1>6. ASSUME NEW g \in Handlers \ {h}
        PROVE  /\ call'[g] \in Requests /\ (call'[g] = NoCall <=> call[g] = NoCall)
               /\ g \notin rivals => call'[g] = call[g]
               /\ g \in rivals =>
                    /\ call'[g] \in RoomCall /\ ~call'[g].alone
                    /\ call'[g].op = "updateRoom" /\ call'[g].room = r
                    /\ call'[g].form = call[g].form
    <2>1. CASE g \notin rivals
      <3>1. call'[g] = call[g]
        BY <1>1, <2>1
      <3> QED
        BY <1>2, <2>1, <3>1 DEF TypeOK, Requests
    <2>2. CASE g \in rivals
      <3> DEFINE b == FALSE
      <3>1. call'[g] = [call[g] EXCEPT !.alone = b] /\ b \in BOOLEAN
        BY <1>1, <2>2
      <3> HIDE DEF b
      <3>2. /\ call'[g] \in RoomCall /\ call'[g].op = "updateRoom"
            /\ call'[g].room = r /\ call'[g].form = call[g].form
        BY <1>4, <2>2, <3>1 DEF RoomCall
      <3>3. call'[g].alone = b
        BY <1>4, <2>2, <3>1, Zenon DEF RoomCall
      <3>4. ~call'[g].alone
        BY <3>3 DEF b
      <3>5. call'[g] \in Requests /\ call'[g] # NoCall /\ call[g] # NoCall
        BY <1>4, <2>2, <3>2, NothingAssumption DEF Requests
      <3> QED
        BY <2>2, <3>2, <3>4, <3>5
    <2> QED
      BY <2>1, <2>2
  <1>7. TypeOK'
    <2>1. call' \in [Handlers -> Requests]
      <3>1. c \in Requests
        BY <1>3 DEF Requests
      <3>2. \A g \in Handlers : call'[g] \in Requests
        BY <1>5, <1>6, <3>1
      <3>3. call' = [g \in Handlers |-> call'[g]]
        BY <1>1
      <3> HIDE DEF rivals, single
      <3> QED
        BY <3>2, <3>3
    <2>2. pc' \in [Handlers -> Statements]
      BY <1>1, <1>2 DEF TypeOK, Statements
    <2>3. \A g \in Handlers : pc'[g] = "idle" <=> call'[g] = NoCall
      BY <1>2, <1>5, <1>6 DEF TypeOK
    <2> QED
      BY <1>1, <1>2, <2>1, <2>2, <2>3 DEF TypeOK, Requests, Statements
  <1>8. /\ ReferencesHold' /\ ChargesBounded'
        /\ \A o \in Offers : RestrictionTraced(o)'
        /\ \A q \in Rooms : /\ HasRoom(q)' = HasRoom(q)
                            /\ FacilitiesOf(q)' = FacilitiesOf(q)
    BY <1>1, SameTables
  <1>9. RequestIsSound(h)'
    <2>1. c.alone /\ form.facilities # None => Contenders(r)' = {h}
      <3> SUFFICES ASSUME c.alone, form.facilities # None PROVE Contenders(r)' = {h}
        OBVIOUS
      <3>1. Contenders(r) = {}
        BY <1>3
      <3>2. h \in Contenders(r)'
        BY <1>3, <1>5 DEF Contenders
      <3>3. ASSUME NEW g \in Contenders(r)', g # h PROVE FALSE
        <4>1. call'[g] = call[g]
          BY <1>6, <3>1, <3>3 DEF Contenders
        <4> QED
          BY <3>1, <3>3, <4>1 DEF Contenders
      <3> QED
        BY <3>2, <3>3
    <2>2. HasRoom(r)'
      BY <1>1, <1>8
    <2> QED
      BY <1>3, <1>5, <2>1, <2>2 DEF RequestIsSound, StatementsOf, HasRoom, Contenders
  <1>10. ASSUME NEW g \in Handlers \ {h}, g \notin rivals PROVE RequestIsSound(g)'
    <2>a. PICK q : q = call[g].room
      OBVIOUS
    <2>1. call'[g] = call[g] /\ pc'[g] = pc[g] /\ RequestIsSound(g)
      BY <1>2, <1>5, <1>6, <1>10
    <2>2. call[g] # NoCall /\ call[g].op \in {"createRoom", "updateRoom"} => q \in Rooms
      BY <1>2, <2>a, CallKinds DEF RoomCall
    <2>3. ASSUME call[g] # NoCall, call[g].op = "createRoom"
          PROVE  /\ ~HasRoom(q)'
                 /\ \A k \in Handlers \ {g} :
                      call'[k] # NoCall /\ call'[k].op = "createRoom" => call'[k].room # q
      <3>1. /\ ~HasRoom(q)
            /\ \A k \in Handlers \ {g} :
                 call[k] # NoCall /\ call[k].op = "createRoom" => call[k].room # q
        BY <2>a, <2>1, <2>3 DEF RequestIsSound
      <3>2. ~HasRoom(q)'
        BY <1>8, <2>2, <2>3, <3>1
      <3>3. ASSUME NEW k \in Handlers \ {g}, call'[k] # NoCall,
                   call'[k].op = "createRoom"
            PROVE  call'[k].room # q
        <4>1. k # h /\ k \notin rivals
          BY <1>3, <1>5, <1>6, <3>3
        <4> QED
          BY <1>6, <3>1, <3>3, <4>1
      <3> QED
        BY <3>2, <3>3
    <2>4. ASSUME call[g] # NoCall, call[g].op = "updateRoom", call[g].alone,
                 call[g].form.facilities # None
          PROVE  Contenders(q)' \subseteq {g} /\ FacilitiesOf(q)' \subseteq FacilitiesOf(q)
      <3>1. Contenders(q) = {g} /\ q \in Rooms
        BY <2>a, <2>1, <2>2, <2>4 DEF RequestIsSound
      <3>2. q = r => form.facilities = None
        BY <1>10, <3>1
      <3>3. ASSUME NEW k \in Contenders(q)', k # g PROVE FALSE
        <4>1. k # h
          BY <1>3, <1>5, <3>2, <3>3 DEF Contenders
        <4>2. k \in rivals => q = r
          BY <1>6, <3>3, <4>1 DEF Contenders
        <4>3. k \notin rivals
          BY <3>1, <3>3, <4>2
        <4>4. call'[k] = call[k]
          BY <1>6, <3>3, <4>1, <4>3 DEF Contenders
        <4> QED
          BY <3>1, <3>3, <4>4 DEF Contenders
      <3> QED
        BY <1>8, <3>1, <3>3
    <2> QED
      BY <1>2, <1>8, <2>a, <2>1, <2>3, <2>4, OtherSound
  <1>11. ASSUME NEW g \in Handlers \ {h}, g \in rivals PROVE RequestIsSound(g)'
    <2>1. /\ call[g] # NoCall /\ RequestIsSound(g) /\ pc'[g] = pc[g]
          /\ call[g].op = "updateRoom"
      BY <1>2, <1>4, <1>5, <1>11, NothingAssumption
    <2>2. pc'[g] \in StatementsOf["updateRoom"]
      BY <2>1 DEF RequestIsSound
    <2>3. call'[g].op = "updateRoom" /\ call'[g].room = r /\ ~call'[g].alone
      BY <1>6, <1>11
    <2>4. HasRoom(r)'
      BY <1>1, <1>8
    <2> QED
      BY <2>2, <2>3, <2>4 DEF RequestIsSound, HasRoom
  <1> QED
    BY <1>7, <1>8, <1>9, <1>10, <1>11 DEF CatalogueInvariant

LEMMA GiveUpSound ==
  ASSUME CatalogueInvariant, NEW h \in Handlers, GiveUp(h)
  PROVE  CatalogueInvariant'
  <1>1. /\ UNCHANGED <<types, facilities, room, links, offer, booking, asked>>
        /\ End(h) /\ pc[h] # "idle"
    BY DEF GiveUp
  <1>2. /\ call' = [call EXCEPT ![h] = NoCall] /\ pc' = [pc EXCEPT ![h] = "idle"]
    BY <1>1 DEF End
  <1>3. NoCall \in Requests /\ "idle" \in Statements
    BY DEF Requests, Statements
  <1>4. call'[h] = NoCall
    BY <1>2 DEF CatalogueInvariant, TypeOK
  <1>5. RequestIsSound(h)'
    BY <1>4 DEF RequestIsSound
  <1> QED
    BY <1>1, <1>2, <1>3, <1>5, QuietMove

\* A request that goes on to its next statement, with what it carries in seen,
\* offer and discount.
LEMMA NextStatement ==
  ASSUME CatalogueInvariant, NEW h \in Handlers, NEW c \in Requests,
         NEW p \in Statements, p # "idle", c # NoCall, call[h] # NoCall,
         c.op = call[h].op, c.op # "book" => c.room = call[h].room,
         c.op \in {"createRoom", "updateRoom"} => c.form = call[h].form,
         call' = [call EXCEPT ![h] = c], pc' = [pc EXCEPT ![h] = p],
         UNCHANGED <<types, facilities, room, links, offer, booking, asked>>,
         p \in StatementsOf[c.op],
         c.op = "updateRoom" /\ c.alone /\ c.form.facilities # None =>
           call[h].alone /\ (p = "save" => FacilitiesOf(c.room) \subseteq c.seen),
         c.op = "book" =>
           c.discount <= c.subtotal /\ (p = "offer" => c.offer = None)
  PROVE  CatalogueInvariant'
  <1>1. TypeOK /\ RequestIsSound(h)
    BY DEF CatalogueInvariant
  <1>2. /\ call'[h] = c /\ pc'[h] = p
        /\ \A g \in Handlers : g # h => call'[g] = call[g]
    BY <1>1 DEF TypeOK
  <1>3. c.op \in {"createRoom", "updateRoom"} => c.room \in Rooms
    BY <1>1, CallKinds DEF RoomCall
  <1>4. /\ \A r \in Rooms : /\ HasRoom(r)' = HasRoom(r)
                            /\ FacilitiesOf(r)' = FacilitiesOf(r)
    BY SameTables
  <1>a. PICK r : r = c.room
    OBVIOUS
  <1>5. ASSUME c.op = "createRoom"
        PROVE  /\ ~HasRoom(r)' /\ c.form \in CompleteRoom
               /\ \A g \in Handlers \ {h} :
                    call[g] # NoCall /\ call[g].op = "createRoom" => call[g].room # r
    BY <1>a, <1>1, <1>3, <1>4, <1>5 DEF RequestIsSound
  <1>6. ASSUME c.op = "updateRoom" PROVE HasRoom(r)'
    BY <1>a, <1>1, <1>3, <1>4, <1>6 DEF RequestIsSound
  <1>7. ASSUME c.op = "updateRoom", c.alone, c.form.facilities # None
        PROVE  /\ Contenders(r)' = {h}
               /\ p = "save" => FacilitiesOf(r)' \subseteq c.seen
    <2>1. Contenders(r) = {h}
      BY <1>a, <1>1, <1>7 DEF RequestIsSound
    <2>2. h \in Contenders(r)'
      BY <1>2, <1>7, <1>a DEF Contenders
    <2>3. ASSUME NEW g \in Contenders(r)', g # h PROVE FALSE
      BY <1>2, <2>1, <2>3 DEF Contenders
    <2>4. p = "save" => FacilitiesOf(r)' \subseteq c.seen
      BY <1>a, <1>3, <1>4, <1>7
    <2> QED
      BY <2>2, <2>3, <2>4
  <1>8. RequestIsSound(h)'
    BY <1>a, <1>2, <1>5, <1>6, <1>7
    DEF RequestIsSound, HasRoom, Contenders, FacilitiesOf
  <1>9. c.op = "updateRoom" /\ c.form.facilities # None => h \in Contenders(c.room)
    BY DEF Contenders
  <1> QED
    BY <1>a, <1>5, <1>8, <1>9, QuietMove

LEMMA CheckNumberSound ==
  ASSUME CatalogueInvariant, NEW h \in Handlers, CheckNumber(h)
  PROVE  CatalogueInvariant'
  <1> DEFINE p == IF call[h].op = "createRoom" THEN "insert"
                  ELSE IF call[h].form.facilities = None THEN "save" ELSE "clear"
  <1>1. /\ UNCHANGED <<types, facilities, room, links, offer, booking, asked, call>>
        /\ pc[h] = "number" /\ pc' = [pc EXCEPT ![h] = p]
    BY DEF CheckNumber
  <1>2. TypeOK /\ RequestIsSound(h)
    BY DEF CatalogueInvariant
  <1>3. call[h] # NoCall /\ call[h].op \in {"createRoom", "updateRoom"}
    BY <1>1, <1>2, StatementTells
  <1>4. /\ p \in StatementsOf[call[h].op] /\ p \in Statements /\ p # "idle"
        /\ p = "save" => call[h].form.facilities = None
    BY <1>3 DEF StatementsOf, Statements
  <1>5. call' = [call EXCEPT ![h] = call[h]] /\ call[h] \in Requests
    BY <1>1, <1>2 DEF TypeOK, Requests
  <1> HIDE DEF p
  <1> QED
    BY <1>1, <1>3, <1>4, <1>5, NextStatement

LEMMA ClearLinksSound ==
  ASSUME CatalogueInvariant, NEW h \in Handlers, ClearLinks(h)
  PROVE  CatalogueInvariant'
  <1> DEFINE fs == FacilitiesOf(call[h].room)
             c == [call[h] EXCEPT !.seen = fs]
  <1>1. /\ UNCHANGED <<types, facilities, room, links, offer, booking, asked>>
        /\ pc[h] = "clear" /\ pc' = [pc EXCEPT ![h] = "save"]
        /\ call' = [call EXCEPT ![h] = c]
    BY DEF ClearLinks, Step
  <1>2. TypeOK /\ RequestIsSound(h)
    BY DEF CatalogueInvariant
  <1>3. call[h] # NoCall /\ call[h].op = "updateRoom" /\ call[h] \in RoomCall
    BY <1>1, <1>2, StatementTells, CallKinds
  <1>4. fs \in SUBSET Facilities
    BY DEF FacilitiesOf
  <1> HIDE DEF fs
  <1>5. /\ c \in RoomCall /\ c.op = "updateRoom" /\ c.room = call[h].room
        /\ c.form = call[h].form /\ c.seen = fs
    BY <1>3, <1>4 DEF RoomCall
  <1>6. c.alone => call[h].alone
    BY <1>3, Zenon DEF RoomCall
  <1>7. fs = FacilitiesOf(c.room)
    BY <1>5 DEF fs
  <1> HIDE DEF c
  <1>8. c \in Requests /\ c # NoCall
    BY <1>5, NothingAssumption DEF Requests
  <1>9. "save" \in Statements /\ "save" \in StatementsOf["updateRoom"]
    BY DEF Statements, StatementsOf
  <1> QED
    BY <1>1, <1>3, <1>5, <1>6, <1>7, <1>8, <1>9, NextStatement

\* The row of a room and its links are written as the database allows.
LEMMA RoomWrite ==
  ASSUME CatalogueInvariant, NEW h \in Handlers, End(h), pc[h] # "idle",
         NEW r \in Rooms, NEW row \in RoomRow, NEW fs \in SUBSET Facilities,
         RoomAllowed(r, row, fs), room' = [room EXCEPT ![r] = row],
         links' \subseteq links \cup ({r} \X fs),
         UNCHANGED <<types, facilities, offer, booking, asked>>,
         call[h] # NoCall, call[h].room = r,
         \/ call[h].op = "createRoom" /\ ~HasRoom(r)
         \/ HasRoom(r) /\ (h \in Contenders(r) \/ fs = {})
  PROVE  CatalogueInvariant'
  <1>1. TypeOK /\ ReferencesHold /\ ChargesBounded
    BY DEF CatalogueInvariant
  <1>2. /\ room' \in [Rooms -> RoomRow \cup {NoRow}]
        /\ room'[r] = row /\ row # NoRow /\ HasRoom(r)'
        /\ \A q \in Rooms \ {r} : room'[q] = room[q] /\ HasRoom(q)' = HasRoom(q)
    BY <1>1, NothingAssumption DEF TypeOK, HasRoom
  <1>3. links' \subseteq Rooms \X Facilities
    BY <1>1 DEF TypeOK
  <1>4. ReferencesHold'
    <2>1. ASSUME NEW q \in Rooms, HasRoom(q)' PROVE Live(room[q].type)'
      <3>1. Live(room'[q].type)
        BY <1>1, <1>2, <2>1 DEF RoomAllowed, ReferencesHold
      <3> QED
        BY <3>1 DEF Live
    <2>2. ASSUME NEW q \in Rooms, HasRoom(q)', NEW s \in Rooms \ {q}, HasRoom(s)'
          PROVE  room'[s].number # room'[q].number
      <3>1. CASE q = r
        BY <1>2, <2>2, <3>1 DEF RoomAllowed, NumberFree
      <3>2. CASE s = r
        BY <1>2, <2>2, <3>2 DEF RoomAllowed, NumberFree
      <3>3. CASE q # r /\ s # r
        BY <1>1, <1>2, <2>2, <3>3 DEF ReferencesHold, NumberFree
      <3> QED
        BY <3>1, <3>2, <3>3
    <2>3. ASSUME NEW l \in links' PROVE HasRoom(l[1])' /\ l[2] \in facilities'
      <3>1. l \in Rooms \X Facilities
        BY <1>3, <2>3
      <3>2. CASE l \in links
        BY <1>1, <1>2, <3>1, <3>2 DEF ReferencesHold
      <3>3. CASE l \in {r} \X fs
        BY <1>2, <3>3 DEF RoomAllowed
      <3> QED
        BY <2>3, <3>2, <3>3
    <2>4. ASSUME NEW o \in Offers, HasOffer(o)' PROVE OfferAllowed(offer[o])'
      <3>1. OfferAllowed(offer[o]) /\ offer' = offer
        BY <1>1, <2>4 DEF ReferencesHold, HasOffer
      <3>2. PICK limit : limit = offer[o]
        OBVIOUS
      <3>3. OfferAllowed(limit)'
        BY <1>2, <3>1, <3>2 DEF OfferAllowed, Live
      <3> QED
        BY <3>1, <3>2, <3>3 DEF OfferAllowed, Live, HasRoom
    <2>5. \A b \in Bookings :
            HasBooking(b)' => booking'[b].offer = None \/ HasOffer(booking[b].offer)'
      BY <1>1 DEF ReferencesHold, HasBooking, HasOffer
    <2> QED
      BY <2>1, <2>2, <2>3, <2>4, <2>5 DEF ReferencesHold, NumberFree, HasRoom
  <1>5. ChargesBounded' /\ \A o \in Offers : RestrictionTraced(o)'
    BY <1>1
    DEF CatalogueInvariant, ChargesBounded, RestrictionTraced, HasBooking, HasOffer
  <1>6. ASSUME NEW q \in Rooms
        PROVE  \/ FacilitiesOf(q)' \subseteq FacilitiesOf(q)
               \/ ~HasRoom(q) \/ h \in Contenders(q)
    <2>1. CASE q # r
      BY <2>1 DEF FacilitiesOf
    <2>2. CASE q = r
      BY <2>2 DEF FacilitiesOf
    <2> QED
      BY <2>1, <2>2
  <1>7. /\ \A q \in Rooms : HasRoom(q) => HasRoom(q)'
        /\ \A q \in Rooms : HasRoom(q)' /\ ~HasRoom(q) =>
             call[h] # NoCall /\ call[h].op = "createRoom" /\ call[h].room = q
    BY <1>2
  <1> QED
    BY <1>1, <1>2, <1>3, <1>4, <1>5, <1>6, <1>7, EndMove DEF TypeOK

\* What a form names of the facilities.
LEMMA NamedFacilities ==
  ASSUME NEW form \in RoomForm
  PROVE  /\ Given(form.facilities, {}) \in SUBSET Facilities
         /\ form.facilities = None => Given(form.facilities, {}) = {}
         /\ form.facilities # None => Given(form.facilities, {}) = form.facilities
  <1>1. form.facilities \in OrNone(SUBSET Facilities)
    BY DEF RoomForm
  <1> QED
    BY <1>1 DEF Given, OrNone

LEMMA InsertRoomSound ==
  ASSUME CatalogueInvariant, NEW h \in Handlers, InsertRoom(h)
  PROVE  CatalogueInvariant'
  <1>1. /\ UNCHANGED <<types, facilities, offer, booking, asked>>
        /\ pc[h] = "insert" /\ End(h)
    BY DEF InsertRoom
  <1>2. TypeOK /\ RequestIsSound(h)
    BY DEF CatalogueInvariant
  <1>3. call[h] # NoCall /\ call[h].op = "createRoom" /\ call[h] \in RoomCall
    BY <1>1, <1>2, StatementTells, CallKinds
  <1>4. PICK r \in Rooms : r = call[h].room
    BY <1>3 DEF RoomCall
  <1>5. PICK form \in CompleteRoom : form = call[h].form
    BY <1>2, <1>3 DEF RequestIsSound
  <1>6. PICK full : full = WithDefaults(form)
    OBVIOUS
  <1>7. PICK row \in RoomRow :
          row = [number |-> full.number, type |-> full.type, price |-> full.price,
                 status |-> full.status, isActive |-> full.isActive]
    BY <1>6, NewRoomType
  <1>8. PICK fs \in SUBSET Facilities : fs = Given(full.facilities, {})
    BY <1>6, DefaultsType, NamedFacilities DEF CompleteRoom
  <1>9. /\ RoomAllowed(r, row, fs) /\ room' = [room EXCEPT ![r] = row]
        /\ links' = links \cup ({r} \X fs)
    BY <1>4, <1>5, <1>6, <1>7, <1>8 DEF InsertRoom
  <1>10. ~HasRoom(r)
    BY <1>2, <1>3, <1>4 DEF RequestIsSound
  <1> QED
    BY <1>1, <1>3, <1>4, <1>9, <1>10, RoomWrite

LEMMA SaveRoomSound ==
  ASSUME CatalogueInvariant, NEW h \in Handlers, SaveRoom(h)
  PROVE  CatalogueInvariant'
  <1>1. /\ UNCHANGED <<types, facilities, offer, booking, asked>>
        /\ pc[h] = "save" /\ End(h)
    BY DEF SaveRoom
  <1>2. TypeOK /\ RequestIsSound(h)
    BY DEF CatalogueInvariant
  <1>3. call[h] # NoCall /\ call[h].op = "updateRoom" /\ call[h] \in RoomCall
    BY <1>1, <1>2, StatementTells, CallKinds
  <1>4. PICK r \in Rooms : r = call[h].room
    BY <1>3 DEF RoomCall
  <1>5. PICK form \in RoomForm : form = call[h].form
    BY <1>3 DEF RoomCall
  <1>6. PICK full : full = WithDefaults(form)
    OBVIOUS
  <1>7. HasRoom(r) /\ room[r] \in RoomRow
    BY <1>2, <1>3, <1>4 DEF RequestIsSound, TypeOK, HasRoom
  <1>8. PICK row \in RoomRow : row = Merged(room[r], full)
    BY <1>6, <1>7, MergedType
  <1>9. full.facilities = form.facilities
    BY <1>6, DefaultsType
  <1>10. PICK fs \in SUBSET Facilities : fs = Given(full.facilities, {})
    BY <1>9, NamedFacilities
  <1>11. /\ RoomAllowed(r, row, fs) /\ room' = [room EXCEPT ![r] = row]
         /\ links' = (links \ ({r} \X call[h].seen)) \cup ({r} \X fs)
    BY <1>4, <1>5, <1>6, <1>8, <1>10 DEF SaveRoom
  <1>12. h \in Contenders(r) \/ fs = {}
    BY <1>3, <1>4, <1>5, <1>9, <1>10, NamedFacilities DEF Contenders
  <1>13. links' \subseteq links \cup ({r} \X fs)
    BY <1>11
  <1> QED
    BY <1>1, <1>3, <1>4, <1>7, <1>11, <1>12, <1>13, RoomWrite

LEMMA RemoveRoomSound ==
  ASSUME CatalogueInvariant, NEW r \in Rooms, RemoveRoom(r)
  PROVE  CatalogueInvariant'
  <1> DEFINE b == FALSE
             row == [room[r] EXCEPT !.isActive = b, !.status = "INACTIVE"]
  <1>1. /\ UNCHANGED <<types, facilities, links, offer, booking, asked, handlers>>
        /\ HasRoom(r) /\ room' = [room EXCEPT ![r] = row]
    <2>1. room' = [room EXCEPT ![r].isActive = FALSE, ![r].status = "INACTIVE"]
      BY DEF RemoveRoom
    <2>2. r \in DOMAIN room
      BY DEF CatalogueInvariant, TypeOK
    <2> QED
      BY <2>1, <2>2 DEF RemoveRoom
  <1>2. TypeOK /\ ReferencesHold /\ ChargesBounded
    BY DEF CatalogueInvariant
  <1>3. row \in RoomRow /\ row.type = room[r].type /\ row.number = room[r].number
    <2>1. room[r] \in RoomRow
      BY <1>1, <1>2 DEF TypeOK, HasRoom
    <2>2. b \in BOOLEAN
      OBVIOUS
    <2> HIDE DEF b
    <2> QED
      BY <2>1, <2>2 DEF RoomRow, RoomStatus
  <1> HIDE DEF row
  <1>4. /\ room' \in [Rooms -> RoomRow \cup {NoRow}]
        /\ \A q \in Rooms : HasRoom(q)' = HasRoom(q)
        /\ \A q \in Rooms : HasRoom(q) =>
             room'[q].type = room[q].type /\ room'[q].number = room[q].number
    <2>1. row # NoRow
      BY <1>3, NothingAssumption
    <2> QED
      BY <1>1, <1>2, <1>3, <2>1 DEF TypeOK, HasRoom
  <1>5. ReferencesHold'
    <2>1. ASSUME NEW q \in Rooms, HasRoom(q)'
          PROVE  Live(room[q].type)' /\ NumberFree(room[q].number, q)'
      <3>1. Live(room[q].type) /\ NumberFree(room[q].number, q)
        BY <1>2, <1>4, <2>1 DEF ReferencesHold
      <3>2. PICK n : n = room[q].number
        OBVIOUS
      <3>3. n = room'[q].number
        BY <1>4, <2>1, <3>2
      <3>4. \A s \in Rooms \ {q} : HasRoom(s)' => room'[s].number # n
        BY <1>4, <3>1, <3>2 DEF NumberFree
      <3> QED
        BY <1>1, <1>4, <2>1, <3>1, <3>3, <3>4 DEF NumberFree, Live, HasRoom
    <2>2. \A l \in links' : HasRoom(l[1])' /\ l[2] \in facilities'
      BY <1>1, <1>2, <1>4 DEF ReferencesHold, TypeOK
    <2>3. ASSUME NEW o \in Offers, HasOffer(o)' PROVE OfferAllowed(offer[o])'
      <3>1. OfferAllowed(offer[o]) /\ offer' = offer
        BY <1>1, <1>2, <2>3 DEF ReferencesHold, HasOffer
      <3>2. PICK limit : limit = offer[o]
        OBVIOUS
      <3>3. OfferAllowed(limit)'
        BY <1>1, <1>4, <3>1, <3>2 DEF OfferAllowed, Live
      <3> QED
        BY <3>1, <3>2, <3>3 DEF OfferAllowed, Live, HasRoom
    <2>4. \A p \in Bookings :
            HasBooking(p)' => booking'[p].offer = None \/ HasOffer(booking[p].offer)'
      BY <1>1, <1>2 DEF ReferencesHold, HasBooking, HasOffer
    <2> QED
      BY <2>1, <2>2, <2>3, <2>4 DEF ReferencesHold
  <1>6. ChargesBounded' /\ \A o \in Offers : RestrictionTraced(o)'
    BY <1>1, <1>2
    DEF CatalogueInvariant, ChargesBounded, RestrictionTraced, HasBooking, HasOffer
  <1>7. \A q \in Rooms : FacilitiesOf(q)' \subseteq FacilitiesOf(q)
    BY <1>1 DEF FacilitiesOf
  <1> QED
    BY <1>1, <1>2, <1>4, <1>5, <1>6, <1>7, TablesStep DEF TypeOK

-----------------------------------------------------------------------------
\* Offers.  A row is written for an offer, and what it is restricted to is what
\* was last asked for or a type that is gone.
LEMMA OfferWrite ==
  ASSUME CatalogueInvariant, NEW o \in Offers, NEW row \in OfferRow,
         WriteOffer(o, row), NEW limit \in [type: OrNone(Types), room: OrNone(Rooms)],
         asked' = [asked EXCEPT ![o] = limit], row.room = limit.room,
         \/ row.type = limit.type
         \/ row.type = None /\ limit.type # None /\ types[limit.type] = "gone"
  PROVE  CatalogueInvariant'
  <1>1. /\ UNCHANGED <<types, facilities, room, links, booking, handlers>>
        /\ OfferAllowed(row) /\ offer' = [offer EXCEPT ![o] = row]
    BY DEF WriteOffer
  <1>2. TypeOK /\ ReferencesHold /\ ChargesBounded
    BY DEF CatalogueInvariant
  <1>3. /\ offer' \in [Offers -> OfferRow \cup {NoRow}]
        /\ asked' \in [Offers -> [type: OrNone(Types), room: OrNone(Rooms)]]
        /\ offer'[o] = row /\ asked'[o] = limit /\ HasOffer(o)'
        /\ \A p \in Offers \ {o} : offer'[p] = offer[p] /\ asked'[p] = asked[p]
        /\ \A p \in Offers : HasOffer(p) => HasOffer(p)'
    BY <1>1, <1>2, NothingAssumption DEF TypeOK, HasOffer
  <1>4. ReferencesHold'
    <2>1. ASSUME NEW p \in Offers, HasOffer(p)' PROVE OfferAllowed(offer[p])'
      <3>1. PICK new : new = offer'[p]
        OBVIOUS
      <3>2. OfferAllowed(new)
        BY <1>1, <1>2, <1>3, <2>1, <3>1 DEF ReferencesHold, HasOffer
      <3> QED
        BY <1>1, <3>1, <3>2 DEF OfferAllowed, Live, HasRoom
    <2>2. \A b \in Bookings :
            HasBooking(b)' => booking'[b].offer = None \/ HasOffer(booking[b].offer)'
      <3> SUFFICES ASSUME NEW b \in Bookings, HasBooking(b)', booking'[b].offer # None
                   PROVE  HasOffer(booking[b].offer)'
        OBVIOUS
      <3>1. PICK p : p = booking[b].offer
        OBVIOUS
      <3>2. booking' = booking /\ HasOffer(p) /\ p \in Offers
        BY <1>1, <1>2, <3>1
        DEF ReferencesHold, HasBooking, TypeOK, BookingRow, OrNone
      <3> QED
        BY <1>3, <3>1, <3>2 DEF HasOffer
    <2> QED
      BY <1>1, <1>2, <2>1, <2>2 DEF ReferencesHold, HasRoom, Live, NumberFree
  <1>5. ChargesBounded'
    BY <1>1, <1>2 DEF ChargesBounded, HasBooking
  <1>6. \A p \in Offers : RestrictionTraced(p)'
    BY <1>1, <1>3 DEF CatalogueInvariant, RestrictionTraced, HasOffer
  <1>7. \A r \in Rooms : HasRoom(r)' = HasRoom(r) /\ FacilitiesOf(r)' = FacilitiesOf(r)
    BY <1>1 DEF HasRoom, FacilitiesOf
  <1> QED
    BY <1>1, <1>2, <1>3, <1>4, <1>5, <1>6, <1>7, TablesStep DEF TypeOK

LEMMA CreateOfferSound ==
  ASSUME CatalogueInvariant, NEW o \in Offers, NEW form \in OfferForms,
         CreateOffer(o, form)
  PROVE  CatalogueInvariant'
  <1>1. form \in CompleteOffer
    BY FormsAssumption
  <1>2. PICK row \in OfferRow :
          /\ row = [WithOfferDefaults(form) EXCEPT !.daysOfWeek = Given(@, {})]
          /\ row.type = form.type /\ row.room = form.room
    BY <1>1, NewOfferType
  <1>3. WriteOffer(o, row)
        /\ asked' = [asked EXCEPT ![o] = [type |-> form.type, room |-> form.room]]
    BY <1>2 DEF CreateOffer
  <1>4. [type |-> form.type, room |-> form.room]
          \in [type: OrNone(Types), room: OrNone(Rooms)]
    BY <1>1 DEF CompleteOffer, OfferForm
  <1> QED
    BY <1>2, <1>3, <1>4, OfferWrite

\* A change does the same to the restriction as to what was asked.
LEMMA UpdateOfferSound ==
  ASSUME CatalogueInvariant, NEW o \in Offers, NEW change \in OfferChanges,
         UpdateOffer(o, change)
  PROVE  CatalogueInvariant'
  <1>1. change \in OfferForm /\ HasOffer(o)
    BY FormsAssumption DEF UpdateOffer
  <1>2. TypeOK
    BY DEF CatalogueInvariant
  <1>3. PICK form : form = WithOfferDefaults(change)
    OBVIOUS
  <1>4. form.type = change.type /\ form.room = change.room
    BY <1>1, <1>3, OfferDefaultsType
  <1>5. PICK old \in OfferRow : old = offer[o]
    BY <1>1, <1>2 DEF TypeOK, HasOffer
  <1>6. PICK row : row = MergedOffer(old, WithOfferDefaults(change))
    OBVIOUS
  <1>7. /\ row \in OfferRow /\ row.type = Restriction(change.type, old.type)
        /\ row.room = Restriction(change.room, old.room)
    BY <1>1, <1>6, MergedOfferType
  <1> DEFINE type == Restriction(form.type, asked[o].type)
             place == Restriction(form.room, asked[o].room)
             limit == [type |-> type, room |-> place]
  <1>8. WriteOffer(o, row) /\ asked' = [asked EXCEPT ![o] = limit]
    BY <1>2, <1>3, <1>5, <1>6 DEF UpdateOffer, TypeOK
  <1>9. /\ asked[o].type \in OrNone(Types) /\ asked[o].room \in OrNone(Rooms)
        /\ change.type \in {Null} \cup OrNone(Types)
        /\ change.room \in {Null} \cup OrNone(Rooms)
    BY <1>1, <1>2 DEF TypeOK, OfferForm
  <1>10. type \in OrNone(Types) /\ place \in OrNone(Rooms)
    BY <1>4, <1>9 DEF Given, Restriction, OrNone
  <1>11. /\ old.room = asked[o].room
         /\ \/ old.type = asked[o].type
            \/ old.type = None /\ asked[o].type # None /\ types[asked[o].type] = "gone"
    BY <1>1, <1>5 DEF CatalogueInvariant, RestrictionTraced
  <1>12. /\ row.room = place
         /\ row.type = type \/ (row.type = None /\ type # None /\ types[type] = "gone")
    BY <1>4, <1>7, <1>11 DEF Given, Restriction
  <1> HIDE DEF type, place
  <1>13. limit \in [type: OrNone(Types), room: OrNone(Rooms)]
         /\ limit.type = type /\ limit.room = place
    BY <1>10
  <1> HIDE DEF limit
  <1> QED
    BY <1>7, <1>8, <1>12, <1>13, OfferWrite

\* The bookings that had the offer are the ones that forget it.
LEMMA RemoveOfferSound ==
  ASSUME CatalogueInvariant, NEW o \in Offers, RemoveOffer(o)
  PROVE  CatalogueInvariant'
  <1>1. /\ UNCHANGED <<types, facilities, room, links, handlers>>
        /\ offer' = [offer EXCEPT ![o] = NoRow]
        /\ asked' = [asked EXCEPT ![o] = Unrestricted]
        /\ booking' = [b \in Bookings |->
                         IF HasBooking(b) /\ booking[b].offer = o
                         THEN [booking[b] EXCEPT !.offer = None] ELSE booking[b]]
    BY DEF RemoveOffer
  <1>2. TypeOK /\ ReferencesHold /\ ChargesBounded
    BY DEF CatalogueInvariant
  <1>3. /\ offer' \in [Offers -> OfferRow \cup {NoRow}]
        /\ asked' \in [Offers -> [type: OrNone(Types), room: OrNone(Rooms)]]
        /\ ~HasOffer(o)'
        /\ \A p \in Offers \ {o} : /\ offer'[p] = offer[p] /\ asked'[p] = asked[p]
                                   /\ HasOffer(p)' = HasOffer(p)
    BY <1>1, <1>2 DEF TypeOK, HasOffer, Unrestricted, OrNone
  <1>4. ASSUME NEW b \in Bookings, HasBooking(b)
        PROVE  /\ booking'[b] \in BookingRow
               /\ booking'[b].subtotal = booking[b].subtotal
               /\ booking'[b].discount = booking[b].discount
               /\ \/ booking'[b].offer = None
                  \/ /\ booking'[b].offer = booking[b].offer
                     /\ booking[b].offer \in Offers \ {o}
    <2>1. booking[b] \in BookingRow
      BY <1>2, <1>4 DEF TypeOK, HasBooking
    <2>2. CASE booking[b].offer = o
      <3>1. booking'[b] = [booking[b] EXCEPT !.offer = None]
        BY <1>1, <1>4, <2>2
      <3> QED
        BY <2>1, <3>1 DEF BookingRow, OrNone
    <2>3. CASE booking[b].offer # o
      <3>1. booking'[b] = booking[b]
        BY <1>1, <2>3
      <3> QED
        BY <2>1, <2>3, <3>1 DEF BookingRow, OrNone
    <2> QED
      BY <2>2, <2>3
  <1>5. /\ \A b \in Bookings : ~HasBooking(b) => booking'[b] = NoRow
        /\ booking' \in [Bookings -> BookingRow \cup {NoRow}]
        /\ \A b \in Bookings : HasBooking(b)' => HasBooking(b)
    <2>1. \A b \in Bookings : ~HasBooking(b) => booking'[b] = NoRow
      BY <1>1 DEF HasBooking
    <2> QED
      BY <1>1, <1>4, <2>1 DEF HasBooking
  <1>6. ReferencesHold'
    <2>1. ASSUME NEW p \in Offers, HasOffer(p)' PROVE OfferAllowed(offer[p])'
      <3>1. offer'[p] = offer[p] /\ OfferAllowed(offer[p])
        BY <1>2, <1>3, <2>1 DEF ReferencesHold
      <3> QED
        BY <1>1, <3>1 DEF OfferAllowed, Live, HasRoom
    <2>2. ASSUME NEW b \in Bookings, HasBooking(b)', booking'[b].offer # None
          PROVE  HasOffer(booking[b].offer)'
      <3>1. PICK p : p = booking[b].offer
        OBVIOUS
      <3>2. p = booking'[b].offer /\ p \in Offers \ {o} /\ HasOffer(p)
        BY <1>2, <1>4, <1>5, <2>2, <3>1 DEF ReferencesHold
      <3> QED
        BY <1>3, <3>2 DEF HasOffer
    <2> QED
      BY <1>1, <1>2, <2>1, <2>2 DEF ReferencesHold, HasRoom, Live, NumberFree
  <1>7. ChargesBounded'
    <2> SUFFICES ASSUME NEW b \in Bookings, HasBooking(b)'
                 PROVE  booking'[b].discount <= booking'[b].subtotal
      BY DEF ChargesBounded
    <2> QED
      BY <1>2, <1>4, <1>5 DEF ChargesBounded
  <1>8. ASSUME NEW p \in Offers PROVE RestrictionTraced(p)'
    BY <1>1, <1>3 DEF CatalogueInvariant, RestrictionTraced
  <1>9. \A r \in Rooms : HasRoom(r)' = HasRoom(r) /\ FacilitiesOf(r)' = FacilitiesOf(r)
    BY <1>1 DEF HasRoom, FacilitiesOf
  <1> QED
    BY <1>1, <1>2, <1>3, <1>5, <1>6, <1>7, <1>8, <1>9, TablesStep DEF TypeOK

-----------------------------------------------------------------------------
\* The price of a booking.
LEMMA StartBookSound ==
  ASSUME CatalogueInvariant, NEW h \in Handlers, NEW b \in Bookings,
         NEW r \in Rooms, NEW stay \in Stays, StartBook(h, b, r, stay)
  PROVE  CatalogueInvariant'
  <1> DEFINE subtotal == room[r].price * stay.nights
             c == [op |-> "book", booking |-> b, room |-> r, type |-> room[r].type,
                   checkIn |-> stay.checkIn, nights |-> stay.nights,
                   subtotal |-> subtotal, offer |-> None, discount |-> 0]
  <1>1. /\ call' = [call EXCEPT ![h] = c] /\ pc' = [pc EXCEPT ![h] = "offer"]
        /\ UNCHANGED <<types, facilities, room, links, offer, booking, asked>>
        /\ HasRoom(r)
    BY DEF StartBook, Start
  <1>2. /\ room[r].type \in Types /\ room[r].price \in Nat
        /\ stay.checkIn \in Days /\ stay.nights \in Nat
    BY <1>1, FormsAssumption DEF CatalogueInvariant, TypeOK, HasRoom, RoomRow
  <1>3. subtotal \in Nat
    BY <1>2
  <1> HIDE DEF subtotal
  <1>4. /\ c \in BookCall /\ c.op = "book" /\ c.offer = None
        /\ c.discount <= c.subtotal
    BY <1>2, <1>3 DEF BookCall, OrNone
  <1> HIDE DEF c
  <1>5. c \in Requests /\ c # NoCall /\ "offer" \in Statements
    BY <1>4, NothingAssumption DEF Requests, Statements
  <1>6. call'[h] = c /\ pc'[h] = "offer"
    BY <1>1 DEF CatalogueInvariant, TypeOK
  <1>7. RequestIsSound(h)'
    BY <1>4, <1>6 DEF RequestIsSound, StatementsOf
  <1> QED
    BY <1>1, <1>4, <1>5, <1>7, QuietMove

LEMMA ChooseOfferSound ==
  ASSUME CatalogueInvariant, NEW h \in Handlers, NEW o \in Offers, ChooseOffer(h, o)
  PROVE  CatalogueInvariant'
  <1> DEFINE discount == CalculateDiscount(offer[o], call[h].subtotal)
             c == [call[h] EXCEPT !.offer = o, !.discount = discount]
  <1>1. TypeOK /\ RequestIsSound(h)
    BY DEF CatalogueInvariant
  <1>2. /\ UNCHANGED <<types, facilities, room, links, offer, booking, asked>>
        /\ pc[h] = "offer" /\ pc' = [pc EXCEPT ![h] = "charge"]
        /\ call' = [call EXCEPT ![h] = c] /\ HasOffer(o)
    <2>1. call' = [call EXCEPT ![h].offer = o, ![h].discount = discount]
      BY DEF ChooseOffer
    <2>2. call' = [call EXCEPT ![h] = c]
      BY <1>1, <2>1 DEF TypeOK
    <2> QED
      BY <2>2 DEF ChooseOffer, Step, OffersFor, Candidates
  <1>3. call[h] # NoCall /\ call[h].op = "book" /\ call[h] \in BookCall
    BY <1>1, <1>2, StatementTells, CallKinds
  <1>4. call[h].subtotal \in Nat /\ offer[o] \in OfferRow
    BY <1>1, <1>2, <1>3 DEF BookCall, TypeOK, HasOffer
  <1>5. discount \in Nat /\ discount <= call[h].subtotal
    BY <1>4, DiscountBounded
  <1> HIDE DEF discount
  <1>6. c \in BookCall /\ c.op = "book" /\ c.discount <= c.subtotal
    BY <1>3, <1>5 DEF BookCall, OrNone
  <1> HIDE DEF c
  <1>7. c \in Requests /\ c # NoCall /\ "charge" \in Statements
        /\ "charge" \in StatementsOf["book"]
    BY <1>6, NothingAssumption DEF Requests, Statements, StatementsOf
  <1> QED
    BY <1>2, <1>3, <1>6, <1>7, NextStatement

LEMMA ChooseNoOfferSound ==
  ASSUME CatalogueInvariant, NEW h \in Handlers, ChooseNoOffer(h)
  PROVE  CatalogueInvariant'
  <1>1. /\ UNCHANGED <<types, facilities, room, links, offer, booking, asked, call>>
        /\ pc[h] = "offer" /\ pc' = [pc EXCEPT ![h] = "charge"]
    BY DEF ChooseNoOffer, Step
  <1>2. TypeOK /\ RequestIsSound(h)
    BY DEF CatalogueInvariant
  <1>3. call[h] # NoCall /\ call[h].op = "book"
    BY <1>1, <1>2, StatementTells
  <1>4. call' = [call EXCEPT ![h] = call[h]] /\ call[h] \in Requests
    BY <1>1, <1>2 DEF TypeOK, Requests
  <1>5. call[h].discount <= call[h].subtotal
    BY <1>2, <1>3 DEF RequestIsSound
  <1>6. "charge" \in Statements /\ "charge" \in StatementsOf["book"]
    BY DEF Statements, StatementsOf
  <1> QED
    BY <1>1, <1>3, <1>4, <1>5, <1>6, NextStatement

LEMMA InsertBookingSound ==
  ASSUME CatalogueInvariant, NEW h \in Handlers, InsertBooking(h)
  PROVE  CatalogueInvariant'
  <1>1. /\ UNCHANGED <<types, facilities, room, links, offer, asked>>
        /\ pc[h] = "charge" /\ End(h)
    BY DEF InsertBooking
  <1>2. TypeOK /\ ReferencesHold /\ ChargesBounded /\ RequestIsSound(h)
    BY DEF CatalogueInvariant
  <1>3. PICK c \in BookCall : c = call[h] /\ c.op = "book" /\ c # NoCall
    BY <1>1, <1>2, StatementTells, CallKinds
  <1> DEFINE row == [room |-> c.room, offer |-> c.offer, subtotal |-> c.subtotal,
                     discount |-> c.discount]
  <1>4. /\ c.offer = None \/ (c.offer \in Offers /\ HasOffer(c.offer))
        /\ booking' = [booking EXCEPT ![c.booking] = row]
    BY <1>3 DEF InsertBooking
  <1>5. /\ row \in BookingRow /\ c.booking \in Bookings
        /\ row.offer = c.offer /\ row.discount <= row.subtotal
    BY <1>2, <1>3 DEF RequestIsSound, BookCall, BookingRow
  <1> HIDE DEF row
  <1>6. /\ booking' \in [Bookings -> BookingRow \cup {NoRow}]
        /\ booking'[c.booking] = row
        /\ \A b \in Bookings : b # c.booking => booking'[b] = booking[b]
    BY <1>2, <1>4, <1>5 DEF TypeOK
  <1>7. ReferencesHold'
    <2>1. ASSUME NEW b \in Bookings, HasBooking(b)', booking'[b].offer # None
          PROVE  HasOffer(booking[b].offer)'
      <3>1. PICK p : p = booking'[b].offer
        OBVIOUS
      <3>2. HasOffer(p)
        BY <1>2, <1>4, <1>5, <1>6, <2>1, <3>1 DEF ReferencesHold, HasBooking
      <3> QED
        BY <1>1, <3>1, <3>2 DEF HasOffer
    <2>2. /\ \A r \in Rooms :
               HasRoom(r)' => Live(room[r].type)' /\ NumberFree(room[r].number, r)'
          /\ \A l \in links' : HasRoom(l[1])' /\ l[2] \in facilities'
          /\ \A o \in Offers : HasOffer(o)' => OfferAllowed(offer[o])'
      BY <1>1, <1>2
      DEF ReferencesHold, HasRoom, HasOffer, Live, NumberFree, OfferAllowed
    <2> QED
      BY <2>1, <2>2 DEF ReferencesHold
  <1>8. ChargesBounded'
    BY <1>2, <1>5, <1>6 DEF ChargesBounded, HasBooking
  <1>9. \A o \in Offers : RestrictionTraced(o)'
    BY <1>1 DEF CatalogueInvariant, RestrictionTraced, HasOffer
  <1>10. \A r \in Rooms : HasRoom(r)' = HasRoom(r) /\ FacilitiesOf(r)' = FacilitiesOf(r)
    BY <1>1 DEF HasRoom, FacilitiesOf
  <1> QED
    BY <1>1, <1>2, <1>6, <1>7, <1>8, <1>9, <1>10, EndMove DEF TypeOK

-----------------------------------------------------------------------------
LEMMA NextCatalogue == CatalogueInvariant /\ [Next]_vars => CatalogueInvariant'
  <1> SUFFICES ASSUME CatalogueInvariant, [Next]_vars PROVE CatalogueInvariant'
    OBVIOUS
  <1>1. CASE Administrate
    BY <1>1, CreateTypeSound, CreateFacilitySound, RemoveFacilitySound,
       RemoveRoomSound, CreateOfferSound, UpdateOfferSound, RemoveOfferSound
    DEF Administrate
  <1>2. ASSUME NEW h \in Handlers, Begin(h) PROVE CatalogueInvariant'
    BY <1>2, StartRemoveTypeSound, StartCreateRoomSound, StartUpdateRoomSound,
       StartBookSound
    DEF Begin
  <1>3. ASSUME NEW h \in Handlers, Proceed(h) PROVE CatalogueInvariant'
    BY <1>3, CheckNumberSound, InsertRoomSound, ClearLinksSound, SaveRoomSound,
       DeleteTypeSound, ChooseOfferSound, ChooseNoOfferSound, InsertBookingSound
    DEF Proceed
  <1>4. ASSUME NEW h \in Handlers, GiveUp(h) PROVE CatalogueInvariant'
    BY <1>4, GiveUpSound
  <1>5. CASE UNCHANGED vars
    <2>1. /\ UNCHANGED <<types, facilities, room, links, offer, booking, asked>>
          /\ UNCHANGED handlers
      BY <1>5 DEF vars
    <2>2. TypeOK
      BY DEF CatalogueInvariant
    <2>3. /\ ReferencesHold' /\ ChargesBounded'
          /\ \A o \in Offers : RestrictionTraced(o)'
          /\ \A r \in Rooms : /\ HasRoom(r)' = HasRoom(r)
                              /\ FacilitiesOf(r)' = FacilitiesOf(r)
      BY <2>1, SameTables
    <2> QED
      BY <2>1, <2>2, <2>3, TablesStep DEF TypeOK
  <1> QED
    BY <1>1, <1>2, <1>3, <1>4, <1>5 DEF Next

\* Every step of the catalogue preserves what keeps its tables right, whatever
\* the forms, the handlers and the order of their statements.
THEOREM CatalogueInvariance == Spec => []CatalogueInvariant
  BY InitCatalogue, NextCatalogue, PTL DEF Spec

\* The tables and requests hold what their columns and fields can hold.
THEOREM CatalogueTypes == Spec => []TypeOK
  <1>1. CatalogueInvariant => TypeOK
    BY DEF CatalogueInvariant
  <1> QED
    BY <1>1, CatalogueInvariance, PTL

\* Rooms, links, offers and bookings refer to what exists, although services
\* test it in one statement and write in a later one; and numbers are unique.
THEOREM ReferencesAlwaysHold == Spec => []ReferencesHold
  <1>1. CatalogueInvariant => ReferencesHold
    BY DEF CatalogueInvariant
  <1> QED
    BY <1>1, CatalogueInvariance, PTL

\* "total cannot go negative", for every price, length of stay and value.
THEOREM TotalsNotNegative == Spec => []ChargesBounded
  <1>1. CatalogueInvariant => ChargesBounded
    BY DEF CatalogueInvariant
  <1> QED
    BY <1>1, CatalogueInvariance, PTL

\* What the public list of offers shows, a guest in a room of the offer's scope
\* is a candidate for: the two queries agree on the days they compare.
THEOREM ListIsHonest == Spec => []ListedOffersApply
  <1>1. ASSUME TypeOK, NEW day \in Days, NEW midnight \in BOOLEAN,
               NEW o \in PublicOffers(day, midnight), NEW r \in Rooms,
               HasRoom(r), AppliesTo(offer[o], r, room[r].type),
               offer[o].daysOfWeek = {} \/ DayOfWeekOf(day) \in offer[o].daysOfWeek
        PROVE  o \in Candidates(r, room[r].type, day, offer[o].minimumNights)
    <2>1. /\ o \in Offers /\ HasOffer(o) /\ offer[o].isActive /\ offer[o].start <= day
          /\ day < offer[o].end \/ day = offer[o].end
      BY <1>1 DEF PublicOffers
    <2>2. /\ offer[o].end \in Days /\ offer[o].minimumNights \in Nat /\ LastDay \in Nat
      BY <1>1, <2>1, FormsAssumption DEF TypeOK, HasOffer, OfferRow
    <2>3. day <= offer[o].end /\ offer[o].minimumNights <= offer[o].minimumNights
      BY <2>1, <2>2 DEF Days
    <2> QED
      BY <1>1, <2>1, <2>3 DEF Candidates
  <1>2. CatalogueInvariant => ListedOffersApply
    BY <1>1 DEF CatalogueInvariant, ListedOffersApply
  <1> QED
    BY <1>2, CatalogueInvariance, PTL

\* The steps that settle the offer of a booking in progress.
LEMMA ChargeStep ==
  ASSUME CatalogueInvariant, [Next]_vars, NEW h \in Handlers,
         pc[h] = "offer", pc'[h] = "charge"
  PROVE  ChooseNoOffer(h) \/ \E o \in Offers : ChooseOffer(h, o)
  <1>1. pc \in [Handlers -> {"idle", "number", "insert", "clear", "save", "delete",
                             "offer", "charge"}]
    BY DEF CatalogueInvariant, TypeOK
  <1>2. pc' # pc
    OBVIOUS
  <1>3. ~Administrate /\ ~UNCHANGED vars
    BY <1>2 DEF Administrate, CreateType, CreateFacility, RemoveFacility, RemoveRoom,
       CreateOffer, UpdateOffer, RemoveOffer, WriteOffer, vars, handlers
  <1>4. PICK g \in Handlers : Begin(g) \/ Proceed(g) \/ GiveUp(g)
    BY <1>3 DEF Next
  <1>5. ASSUME NEW p, p # "charge", pc' = [pc EXCEPT ![g] = p] PROVE FALSE
    <2>1. CASE g = h
      BY <1>1, <1>5, <2>1
    <2>2. CASE g # h
      BY <1>1, <1>5, <2>2
    <2> QED
      BY <2>1, <2>2
  <1>6. ~Begin(g)
    BY <1>5 DEF Begin, StartRemoveType, StartCreateRoom, StartUpdateRoom, StartBook, Start
  <1>7. ~GiveUp(g) /\ ~InsertRoom(g) /\ ~SaveRoom(g) /\ ~DeleteType(g)
        /\ ~InsertBooking(g) /\ ~ClearLinks(g)
    BY <1>5 DEF GiveUp, InsertRoom, SaveRoom, DeleteType, InsertBooking, End,
       ClearLinks, Step
  <1>8. ~CheckNumber(g)
    <2> SUFFICES ASSUME CheckNumber(g) PROVE FALSE
      OBVIOUS
    <2>1. PICK p : /\ pc' = [pc EXCEPT ![g] = p]
                   /\ p = IF call[g].op = "createRoom" THEN "insert"
                          ELSE IF call[g].form.facilities = None THEN "save" ELSE "clear"
      BY DEF CheckNumber
    <2>2. p # "charge"
      BY <2>1
    <2> QED
      BY <1>5, <2>1, <2>2
  <1>9. ChooseNoOffer(g) \/ \E o \in Offers : ChooseOffer(g, o)
    BY <1>4, <1>6, <1>7, <1>8 DEF Proceed
  <1>10. g = h
    <2>1. pc' = [pc EXCEPT ![g] = "charge"]
      BY <1>9 DEF ChooseNoOffer, ChooseOffer, Step
    <2> QED
      BY <1>1, <2>1
  <1> QED
    BY <1>9, <1>10

\* An offer restricted to a room or a type is given to no booking outside both,
\* unless the type was deleted, although offers change while bookings are made.
THEOREM RestrictionIsKept == Spec => RestrictionKept
  <1>1. ASSUME CatalogueInvariant, [Next]_vars, NEW h \in Handlers,
               pc[h] = "offer", pc'[h] = "charge", call'[h].offer # None,
               NEW limit, limit = asked[call'[h].offer]
        PROVE  \/ limit = Unrestricted
               \/ limit.room = call[h].room \/ limit.type = call[h].type
               \/ limit.type # None /\ types[limit.type] = "gone"
    <2>1. TypeOK /\ RequestIsSound(h)
      BY <1>1 DEF CatalogueInvariant
    <2>2. call[h] # NoCall /\ call[h].op = "book" /\ call[h] \in BookCall
      BY <1>1, <2>1, StatementTells, CallKinds
    <2>3. ~ChooseNoOffer(h)
      BY <1>1, <2>1, <2>2 DEF ChooseNoOffer, RequestIsSound
    <2>4. PICK o \in Offers : ChooseOffer(h, o)
      BY <1>1, <2>3, ChargeStep
    <2>5. call'[h].offer = o
      <3> DEFINE discount == CalculateDiscount(offer[o], call[h].subtotal)
      <3>1. call' = [call EXCEPT ![h].offer = o, ![h].discount = discount]
        BY <2>4 DEF ChooseOffer
      <3> HIDE DEF discount
      <3>2. call'[h] = [call[h] EXCEPT !.offer = o, !.discount = discount]
        BY <2>1, <3>1 DEF TypeOK
      <3> QED
        BY <2>2, <3>2 DEF BookCall
    <2>6. HasOffer(o) /\ AppliesTo(offer[o], call[h].room, call[h].type)
      BY <2>4 DEF ChooseOffer, OffersFor, Candidates
    <2>7. /\ offer[o].room = limit.room
          /\ \/ offer[o].type = limit.type
             \/ /\ offer[o].type = None /\ limit.type # None
                /\ types[limit.type] = "gone"
      BY <1>1, <2>5, <2>6 DEF CatalogueInvariant, RestrictionTraced
    <2>8. limit \in [type: OrNone(Types), room: OrNone(Rooms)]
      BY <1>1, <2>1, <2>5 DEF TypeOK
    <2>9. limit.type = None /\ limit.room = None => limit = Unrestricted
      BY <2>8 DEF Unrestricted
    <2>10. call[h].type \in Types /\ call[h].type # None
      BY <2>2, NothingAssumption DEF BookCall
    <2> QED
      BY <2>6, <2>7, <2>9, <2>10 DEF AppliesTo
  <1>2. CatalogueInvariant /\ [Next]_vars =>
          [\A h \in Handlers :
             pc[h] = "offer" /\ pc'[h] = "charge" /\ call'[h].offer # None
               => LET limit == asked[call'[h].offer]
                  IN  \/ limit = Unrestricted
                      \/ limit.room = call[h].room \/ limit.type = call[h].type
                      \/ limit.type # None /\ types[limit.type] = "gone"]_vars
    BY <1>1
  <1> QED
    BY <1>2, CatalogueInvariance, PTL DEF Spec, RestrictionKept

\* Updates of a room's facilities that no other one overlaps leave the room with
\* the facilities they name, whoever creates and removes facilities meanwhile.
THEOREM FacilitiesArrive == Spec => FacilitiesAsAsked
  <1>1. ASSUME CatalogueInvariant, NEW h \in Handlers, NEW r \in Rooms, SaveRoom(h),
               r = call[h].room, call[h].alone, call[h].form.facilities # None
        PROVE  FacilitiesOf(r)' = call[h].form.facilities
    <2>1. TypeOK /\ RequestIsSound(h) /\ pc[h] = "save"
      BY <1>1 DEF CatalogueInvariant, SaveRoom
    <2>2. call[h] # NoCall /\ call[h].op = "updateRoom" /\ call[h] \in RoomCall
      BY <2>1, StatementTells, CallKinds
    <2>3. PICK form \in RoomForm : form = call[h].form
      BY <2>2 DEF RoomCall
    <2>4. PICK fs : fs = form.facilities
      OBVIOUS
    <2>5. PICK seen : seen = call[h].seen
      OBVIOUS
    <2>6. /\ WithDefaults(form).facilities = fs
          /\ Given(fs, {}) = fs /\ fs \in SUBSET Facilities
      BY <1>1, <2>3, <2>4, DefaultsType, NamedFacilities
    <2>7. links' = (links \ ({r} \X seen)) \cup ({r} \X fs)
      BY <1>1, <2>3, <2>5, <2>6 DEF SaveRoom
    <2>8. FacilitiesOf(r) \subseteq seen
      BY <1>1, <2>1, <2>2, <2>5 DEF RequestIsSound
    <2>9. \A f \in Facilities : <<r, f>> \in links' <=> f \in fs
      <3> SUFFICES ASSUME NEW f \in Facilities PROVE <<r, f>> \in links' <=> f \in fs
        OBVIOUS
      <3>1. <<r, f>> \in links => f \in seen
        BY <2>8 DEF FacilitiesOf
      <3> QED
        BY <2>7, <3>1
    <2>10. FacilitiesOf(r)' = fs
      BY <2>6, <2>9 DEF FacilitiesOf
    <2> QED
      BY <2>3, <2>4, <2>10
  <1>2. CatalogueInvariant /\ [Next]_vars =>
          [\A h \in Handlers, r \in Rooms :
             SaveRoom(h) /\ r = call[h].room /\ call[h].alone
               /\ call[h].form.facilities # None
             => FacilitiesOf(r)' = call[h].form.facilities]_vars
    BY <1>1
  <1> QED
    BY <1>2, CatalogueInvariance, PTL DEF Spec, FacilitiesAsAsked
=============================================================================
