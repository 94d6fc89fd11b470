SPECIFICATION FairSpec
CONSTANTS
  Rooms = {r1, r2}
  EditedRooms = {r1}
  RoomRows <- OneOpenRoom
  BookingIds = {b1, b2}
  Handlers = {h1, h2}
  Users = {}
  Guests = {1, 2}
  Stays <- OneNight
  LastDay = 2
  LastToday = 0
  YearOf <- TurnOfYear
  NoRow = NoRow
  NoCall = NoCall
  NoHandler = NoHandler
  NoUser = NoUser
  NoNumber = NoNumber
PROPERTIES
 RequestsFinish
