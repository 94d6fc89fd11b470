SPECIFICATION Spec
CONSTANTS
  admin = admin
  customer = customer
  Clients = {c1, c2}
  Accounts = {admin, customer}
  RoleOf <- OneOfEach
  Rooms = {r1}
  EarlierOwners = {customer}
  Connections = 2
  Requested <- CustomersRequests
  Nobody = Nobody
  NoCall = NoCall
INVARIANT
  BookingsHaveCustomers
