------------------------------- MODULE Server -------------------------------
(***************************************************************************)
(* The server process: requests pass the guards (src/src/common/guards),   *)
(* then run the plan of their route (Api) over one pool of database        *)
(* connections and the row locks of the rooms, and are answered.  What the *)
(* statements compute is in Bookings, Catalogue, RoomImages and Auth; here *)
(* it is who may run them, what they wait for, and what an answer tells.   *)
(*                                                                         *)
(* A request that the guards or the validation of its body refuse changes  *)
(* nothing and is no step.                                                 *)
(***************************************************************************)
EXTENDS Api, FiniteSets

CONSTANTS
  Clients,     \* those who send requests, each at most one at a time
  Accounts,    \* those who have a valid access token
  RoleOf,      \* the role in it
  Rooms,       \* ids of rooms
  EarlierOwners, \* the users of the bookings that are there at the start
  Connections, \* how many connections the pool has
  Requested,   \* bound: the routes that clients call, each with a plan of it
  Nobody,      \* the request has no user
  NoCall       \* the client waits for no answer

ASSUME RoleAssumption == RoleOf \in [Accounts -> Role]
ASSUME PoolAssumption == Connections \in Nat \ {0}
ASSUME RequestedAssumption ==
  \A q \in Requested : q[1] \in RouteNames /\ q[2] \in RouteOf(q[1]).plans
ASSUME PlansAssumption ==
  \A name \in RouteNames : \A plan \in RouteOf(name).plans :
    \A i \in DOMAIN plan : plan[i] \in Statement
ASSUME NobodyAssumption == Nobody \notin Accounts
ASSUME OwnersAssumption == EarlierOwners \subseteq Accounts \cup {Nobody}

Call == [name: RouteNames, user: Accounts \cup {Nobody}, room: Rooms,
         rest: Seq(Statement), running: BOOLEAN, inTx: BOOLEAN,
         held: SUBSET (Row \X Mode), wrote: BOOLEAN, status: {0, 200} \cup 400 .. 500]

ASSUME ClientsAssumption == IsFiniteSet(Clients) /\ NoCall \notin Call

\* rest: the statements still to run.  running: the first of them has its own
\* connection.  inTx: the transaction has one.  held: the rows of the room that
\* it has locked.  wrote: something is committed.  status: of the answer, 0
\* before there is one.
VARIABLES
  call,  \* the request each client waits for
  owners \* the users that the bookings belong to

vars == <<call, owners>>

Init ==
  /\ call = [c \in Clients |-> NoCall]
  /\ owners = EarlierOwners

-----------------------------------------------------------------------------
Busy(c) == call[c] # NoCall
Working(c) == Busy(c) /\ call[c].status = 0

\* The connections that requests hold.
InUse ==
  Cardinality({c \in Clients : Busy(c) /\ call[c].inTx})
  + Cardinality({c \in Clients : Busy(c) /\ call[c].running})
Spare == InUse < Connections

\* JwtAuthGuard: on a public route a token is not looked at, so the request has
\* no user, whoever sends it.
Attached(route, user) == IF route.public THEN Nobody ELSE user

\* Mutant: RolesGuard is not there.
Admits_AnyRole(route, user) == route.public \/ user \in Accounts

\* JwtAuthGuard, then RolesGuard.
Admits(route, user) ==
  /\ route.public \/ user \in Accounts
  /\ route.roles # {} =>
       Attached(route, user) \in Accounts /\ RoleOf[Attached(route, user)] \in route.roles

MaySend(c, name, user) == ~Busy(c) /\ Admits(RouteOf(name), user)

\* user: whose valid access token the request carries, or Nobody.
Arrive(c, name, user, plan, r) ==
  /\ MaySend(c, name, user)
  /\ call' = [call EXCEPT ![c] =
       [name |-> name, user |-> Attached(RouteOf(name), user), room |-> r, rest |-> plan,
        running |-> FALSE, inTx |-> FALSE, held |-> {}, wrote |-> FALSE, status |-> 0]]
  /\ UNCHANGED owners

-----------------------------------------------------------------------------
\* The statement that client c's request runs next.
Runs(c, on) == Working(c) /\ call[c].rest # <<>> /\ Head(call[c].rest).on = on

\* d's transaction has locked what c's next statement wants.
Blocks(d, c) ==
  /\ Busy(c) /\ Busy(d) /\ d # c /\ call[d].room = call[c].room
  /\ \E k \in call[d].held, l \in Head(call[c].rest).locks :
       k[1] = l[1] /\ Conflicts(k[2], l[2])
MayLock(c) == \A d \in Clients : ~Blocks(d, c)

\* BookingsService, findOne and cancelOwn: FORBIDDEN lets nobody pass but with a
\* booking of hers; to look at one, an administrator too.
MayPass(c) ==
  "FORBIDDEN" \in Head(call[c].rest).throws =>
    \/ call[c].user \in owners
    \/ call[c].name = <<"bookings", "findOne">> /\ RoleOf[call[c].user] = "ADMIN"

\* The request c goes on behind the statement it has run.
Passed(c) ==
  [call[c] EXCEPT !.rest = Tail(@), !.running = FALSE,
                  !.wrote = @ \/ Head(call[c].rest).writes]

RunCheck(c) ==
  /\ Runs(c, "nothing") /\ MayPass(c)
  /\ call' = [call EXCEPT ![c] = Passed(c)]
  /\ UNCHANGED owners

\* A statement outside of a transaction first takes a connection.
Connect(c) ==
  /\ Runs(c, "own") /\ ~call[c].running /\ Spare
  /\ call' = [call EXCEPT ![c].running = TRUE]
  /\ UNCHANGED owners

\* Mutant: a statement whose answer is lost is run again.
RunOwn_Repeats(c) ==
  /\ Runs(c, "own") /\ call[c].running /\ MayLock(c)
  /\ \E rest \in {call[c].rest, Passed(c).rest} :
       call' = [call EXCEPT ![c] = [Passed(c) EXCEPT !.rest = rest]]
  /\ UNCHANGED owners

RunOwn(c) ==
  /\ Runs(c, "own") /\ call[c].running /\ MayLock(c)
  /\ call' = [call EXCEPT ![c] = Passed(c)]
  /\ UNCHANGED owners

RunBegin(c) ==
  /\ Runs(c, "begin") /\ Spare
  /\ call' = [call EXCEPT ![c] = [Passed(c) EXCEPT !.inTx = TRUE]]
  /\ UNCHANGED owners

RunInTx(c) ==
  /\ Runs(c, "tx") /\ MayLock(c)
  /\ call' = [call EXCEPT ![c] =
       [Passed(c) EXCEPT !.held = @ \cup Head(call[c].rest).locks]]
  /\ UNCHANGED owners

\* Mutant: the locks outlive the transaction.
RunCommit_KeepsLock(c) ==
  /\ Runs(c, "commit")
  /\ call' = [call EXCEPT ![c] = [Passed(c) EXCEPT !.inTx = FALSE]]
  /\ owners' = IF call[c].name = <<"bookings", "create">>
               THEN owners \cup {call[c].user} ELSE owners

RunCommit(c) ==
  /\ Runs(c, "commit")
  /\ call' = [call EXCEPT ![c] = [Passed(c) EXCEPT !.inTx = FALSE, !.held = {}]]
  /\ owners' = IF call[c].name = <<"bookings", "create">>
               THEN owners \cup {call[c].user} ELSE owners

-----------------------------------------------------------------------------
\* AllExceptionsFilter answers.  An error inside a transaction rolls it back.
AnswerError(c, e) ==
  /\ call' = [call EXCEPT ![c] =
       [@ EXCEPT !.status = StatusOf(e), !.rest = <<>>, !.running = FALSE, !.inTx = FALSE,
                 !.held = {}]]
  /\ UNCHANGED owners

\* The statement ends the request by one of its errors.
Refuse(c) ==
  /\ Working(c) /\ call[c].rest # <<>>
  /\ LET s == Head(call[c].rest)
     IN  /\ s.on = "own" => call[c].running
         /\ s.on = "own" => MayLock(c)
         /\ \E e \in s.throws : AnswerError(c, e)

Waits(c) ==
  \/ Runs(c, "own") /\ ~call[c].running /\ ~Spare
  \/ Runs(c, "begin") /\ ~Spare
  \/ (Runs(c, "tx") \/ (Runs(c, "own") /\ call[c].running)) /\ ~MayLock(c)

\* Mutant: nothing but the start of a transaction is limited.
TimeOut_BeginOnly(c) ==
  /\ Waits(c) /\ Runs(c, "begin")
  /\ AnswerError(c, "P2028")

\* The wait for a connection or a lock has lasted too long: pool_timeout, maxWait
\* and timeout of the transaction, or PostgreSQL has found a deadlock (P2034,
\* answered as the others are).
TimeOut(c) ==
  /\ Waits(c)
  /\ AnswerError(c, IF Runs(c, "own") THEN "P2024" ELSE "P2028")

\* The statement fails for any other reason, with nothing done.
Fault(c) ==
  /\ Working(c) /\ call[c].rest # <<>>
  /\ AnswerError(c, "Error")

\* The controller returns.
Finish(c) ==
  /\ Working(c) /\ call[c].rest = <<>>
  /\ call' = [call EXCEPT ![c].status = 200]
  /\ UNCHANGED owners

\* The answer reaches the client.
Reply(c) ==
  /\ Busy(c) /\ ~Working(c)
  /\ call' = [call EXCEPT ![c] = NoCall]
  /\ UNCHANGED owners

\* The process dies: PostgreSQL rolls back what is open, and nobody is answered.
Crash ==
  /\ call' = [c \in Clients |-> NoCall]
  /\ UNCHANGED owners

-----------------------------------------------------------------------------
Proceed(c) ==
  \/ RunCheck(c) \/ Connect(c) \/ RunOwn(c) \/ RunBegin(c) \/ RunInTx(c)
  \/ RunCommit(c) \/ Refuse(c) \/ Finish(c) \/ Reply(c)

Request(c) ==
  \E q \in Requested, user \in Accounts \cup {Nobody}, r \in Rooms :
    Arrive(c, q[1], user, q[2], r)

Next ==
  \/ \E c \in Clients : Request(c) \/ Proceed(c) \/ TimeOut(c) \/ Fault(c)
  \/ Crash

\* The pool and PostgreSQL serve those who wait in turn: strong fairness, for
\* what is waited for may come and go any number of times meanwhile.  A timer
\* ends the wait for what never comes.
Fairness == \A c \in Clients : SF_vars(Proceed(c)) /\ WF_vars(TimeOut(c))
Spec == Init /\ [][Next]_vars /\ Fairness
-----------------------------------------------------------------------------
\* A request has what its fields can hold, it holds a connection as long as its
\* plan has it, and only a transaction holds a lock.
TypeOK ==
  /\ call \in [Clients -> Call \cup {NoCall}]
  /\ \A c \in Clients : Busy(c) =>
       /\ call[c].running => Runs(c, "own")
       /\ call[c].inTx => \E i \in DOMAIN call[c].rest : call[c].rest[i].on = "commit"
       /\ call[c].held # {} => call[c].inTx
  /\ InUse <= Connections
  /\ owners \subseteq Accounts \cup {Nobody}

\* What a request with an error answer may have left behind: registrations and
\* refreshes are several writes, and so is the removal of an image; what reads
\* its answer after writing may fail with the answer.
MayBeHalfDone ==
  {<<"auth", "register">>, <<"auth", "refresh">>, <<"rooms", "addImages">>,
   <<"rooms", "removeImage">>, <<"rooms", "setPrimaryImage">>,
   <<"rooms", "reorderImages">>}

\* A client that is answered with an error may send the request again: nothing
\* was written, whichever statement failed and for whatever reason.  Of the
\* other six routes a refusal (4xx) tells so, but for removeImage.
ErrorsAreClean ==
  \A c \in Clients : Busy(c) /\ call[c].wrote /\ call[c].status >= 400 =>
    /\ call[c].name \in MayBeHalfDone
    /\ call[c].status < 500 => call[c].name = <<"rooms", "removeImage">>

Writes(name) == \E plan \in RouteOf(name).plans :
                  \E i \in DOMAIN plan : plan[i].writes

\* No controller forgets a guard, but for the one that takes bookings
\* (BookingsHaveCustomers): whoever else writes without an account registers,
\* logs in or refreshes, and with a customer's logs out or cancels a booking.
WritesAreEntitled ==
  \A c \in Clients, user \in Accounts \cup {Nobody},
     name \in RouteNames \ {<<"bookings", "create">>} :
    Writes(name) /\ MaySend(c, name, user) =>
      \/ name \in {<<"auth", "register">>, <<"auth", "login">>, <<"auth", "refresh">>}
      \/ /\ user \in Accounts
         /\ \/ RoleOf[user] = "ADMIN"
            \/ name \in {<<"auth", "logout">>, <<"bookings", "cancel">>}

\* "this API requires an authenticated CUSTOMER to create a booking", who then
\* lists, reads and cancels "their own booking": so every booking belongs to one.
\* The route is public, and there the guard attaches nobody to the request.
BookingsHaveCustomers ==
  owners \subseteq {user \in Accounts : RoleOf[user] = "CUSTOMER"}

\* What is left of a request's plan has its transactions whole.
PlanIsWhole(q) == Frames(q.rest, q.inTx, FALSE) /\ (q.status # 0 => q.rest = <<>>)

\* A request has written nothing unless its plan ends there, or can then end in
\* no error but those of the server.
ErrorsComeFirst(q) ==
  /\ q.name \notin MayBeHalfDone =>
       WritesLast(q.rest) /\ (q.wrote => q.rest = <<>> /\ q.status \in {0, 200})
  /\ q.name \in MayBeHalfDone \ {<<"rooms", "removeImage">>} =>
       /\ NoErrorAfterWrite(q.rest)
       /\ q.wrote => /\ \A i \in 1 .. Len(q.rest) : q.rest[i].throws = {}
                     /\ q.status \in {0, 200, 500}

GoesAsPlanned(c) ==
  Busy(c) => PlanIsWhole(call[c]) /\ ErrorsComeFirst(call[c])

\* Why answers tell the truth, as an invariant that every step preserves.
ServerInvariant ==
  TypeOK /\ ErrorsAreClean /\ \A c \in Clients : GoesAsPlanned(c)

Stuck ==
  /\ \E c \in Clients : Busy(c)
  /\ \A c \in Clients : Busy(c) => Waits(c)

\* The connections are all taken, and a transaction asks for a second one.
Exhausted ==
  InUse = Connections /\ \E c \in Clients : Busy(c) /\ call[c].inTx /\ Runs(c, "own")

\* Transactions that lock rows of one room, each in an order of its own.
Rivals == {{<<"rooms", "update">>},
           {<<"rooms", "reorderImages">>, <<"rooms", "setPrimaryImage">>}}

\* Requests wait for each other in a circle in two ways only: the pool is
\* exhausted, or two administrators change one room's row or its images at the
\* same time.  A booking, its approval or cancellation is never in a deadlock of
\* rows.
KnownCirclesOnly ==
  Stuck => Exhausted \/ \E c, d \in Clients :
    Blocks(c, d) /\ Blocks(d, c)
      /\ \E rivals \in Rivals : {call[c].name, call[d].name} \subseteq rivals

\* Requests about one room never hold locks that conflict.
LocksApart ==
  \A c, d \in Clients : c # d /\ Busy(c) /\ Busy(d) /\ call[c].room = call[d].room =>
    \A k \in call[c].held, l \in call[d].held : k[1] = l[1] => ~Conflicts(k[2], l[2])

\* What is left of a request's plan asks for locks in order, behind those held.
AsksInOrder(q) ==
  /\ Ordered(q.name, q.rest)
  /\ \A i \in 1 .. Len(q.rest) :
       /\ q.inTx => q.rest[i].on # "begin"
       /\ q.rest[i].on = "tx" =>
            \A k \in q.held, l \in q.rest[i].locks : ComesAfter(q.name, k, l)

\* Why there are no other circles, as an invariant that every step preserves,
\* given ServerInvariant.
LocksInvariant ==
  /\ LocksApart
  /\ \A c \in Clients : Busy(c) => AsksInOrder(call[c])

\* Every request is answered, or the process dies: timers resolve what is stuck.
RequestsAnswered == \A c \in Clients : Busy(c) ~> ~Busy(c)
=============================================================================
