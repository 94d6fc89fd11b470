SPECIFICATION Spec
CONSTANTS
  Rooms = {r1, r2}
  EditedRooms = {r1, r2}
  RoomRows <- OneOpenRoom
  BookingIds = {b1, b2}
  Handlers = {h1, h2}
  Users = {u1}
  Guests = {1, 2}
  Stays <- OneNight
  LastDay = 2
  LastToday = 1
  YearOf <- TurnOfYear
  NoRow = NoRow
  NoCall = NoCall
  NoHandler = NoHandler
  NoUser = NoUser
  NoNumber = NoNumber
SYMMETRY Interchangeable
INVARIANTS
  NextNumberFree
  AuditTrail
  RecordsInvariant
PROPERTIES
  SettledStays
