SPECIFICATION Spec
CONSTANTS
  t1 = t1
  t2 = t2
  f1 = f1
  r1 = r1
  n1 = n1
  n2 = n2
  Types = {t1, t2}
  Facilities = {f1}
  Rooms = {r1, r2}
  Offers = {o1}
  Bookings = {b1}
  Numbers = {n1, n2}
  Handlers = {h1, h2}
  RoomForms <- SomeRooms
  RoomChanges <- SomeRoomChanges
  OfferForms <- SomeOffers
  OfferChanges <- SomeOfferChanges
  Stays <- OneStay
  LastDay = 1
  NoRow = NoRow
  NoCall = NoCall
  None = None
  Null = Null
SYMMETRY Interchangeable
INVARIANTS
  TypeOK
  ReferencesHold
  ChargesBounded
  ListedOffersApply
  CatalogueInvariant
PROPERTIES
  RestrictionKept
  FacilitiesAsAsked
