------------------------------ MODULE MCServer ------------------------------
(***************************************************************************)
(* Small instances of Server for TLC.                                      *)
(***************************************************************************)
EXTENDS Server, TLC

CONSTANTS admin, customer

OneOfEach == admin :> "ADMIN" @@ customer :> "CUSTOMER"

\* A route of each kind of plan.
SomeRoutes ==
  {<<"auth", "register">>, <<"auth", "refresh">>, <<"roomTypes", "remove">>,
   <<"rooms", "addImages">>, <<"rooms", "removeImage">>,
   <<"rooms", "setPrimaryImage">>, <<"rooms", "reorderImages">>,
   <<"bookings", "create">>, <<"bookings", "findOne">>, <<"bookings", "cancel">>,
   <<"adminBookings", "approve">>}

\* Of the plans of an update, those that set no room type, and change the number
\* of a room or give it two facilities.
SomeUpdates ==
  {p \in RouteOf(<<"rooms", "update">>).plans :
     /\ \A i \in DOMAIN p : "ROOM_TYPE_NOT_FOUND" \notin p[i].throws
     /\ LET locks == UNION {p[i].locks : i \in DOMAIN p}
        IN  \/ <<"room", "update">> \in locks /\ Cardinality(locks) = 3
            \/ Len(p) = 8 /\ Cardinality(locks) = 4}

SomeRequests ==
  UNION {{name} \X RouteOf(name).plans : name \in SomeRoutes}
  \cup {<<"rooms", "update">>} \X SomeUpdates

\* Customers who book, look at their booking and cancel it.
CustomersRequests ==
  UNION {{name} \X RouteOf(name).plans : name \in
    {<<"bookings", "create">>, <<"bookings", "findOne">>, <<"bookings", "cancel">>}}
=============================================================================
