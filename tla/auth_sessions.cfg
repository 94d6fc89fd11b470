SPECIFICATION Spec
CONSTANTS
  Accounts = {u1}
  Tokens = {t1, t2, t3}
  Handlers = {h1, h2}
  NoRow = NoRow
  NoToken = NoToken
  NoCall = NoCall
SYMMETRY Interchangeable
INVARIANTS
  TypeOK
  LateUseRefused
  NeverBothLive
  LogoutEndsSessions
  SessionInvariant
PROPERTIES
  BarredGetNoToken
