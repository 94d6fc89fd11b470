SPECIFICATION Spec
CONSTANTS
  Rooms = {r1}
  EditedRooms = {r1}
  RoomRows <- OneOpenRoom
  BookingIds = {b1, b2}
  Handlers = {h1, h2}
  Users = {}
  Guests = {1, 2}
  Stays <- AnyStay
  LastDay = 3
  LastToday = 0
  YearOf <- OneYear
  NoRow = NoRow
  NoCall = NoCall
  NoHandler = NoHandler
  NoUser = NoUser
  NoNumber = NoNumber
SYMMETRY Interchangeable
INVARIANTS
  TypeOK
  NoDoubleBooking
  SearchAgreesWithCreate
  CalendarInvariant
PROPERTIES
  ImplementsCalendar
