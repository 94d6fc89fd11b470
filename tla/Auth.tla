-------------------------------- MODULE Auth --------------------------------
(***************************************************************************)
(* AuthService (src/src/auth/auth.service.ts): accounts and their refresh  *)
(* tokens.                                                                 *)
(*                                                                         *)
(* No operation here uses a transaction.  A handler serves one request and *)
(* takes one step per statement; what a step has written is there for all, *)
(* and stays when the request fails after it (Fail).  Access tokens are    *)
(* not modelled: they are checked by their signature alone.                *)
(***************************************************************************)
EXTENDS FiniteSets

CONSTANTS
  Accounts, \* the people who have, or may open, an account (one e-mail each)
  Tokens,   \* ids (jti) a refresh token may be given
  Handlers, \* requests that may be in progress at the same time
  NoRow,    \* no refresh token has this id
  NoToken,  \* the request presents no refresh token, or has none to hand out
  NoCall    \* the handler serves no request

UserStatus == {"ACTIVE", "INACTIVE", "BLOCKED"}

\* Who the token is of, and whether its column revokedAt is set.
TokenRow == [user: Accounts, revoked: BOOLEAN]

\* token is what a refresh was given, fresh what an answer will hand out.
\* late is a history field: the client already knew that token to be over.
Call == [op: {"register", "login", "refresh"}, user: Accounts,
         token: Tokens \cup {NoToken}, fresh: Tokens \cup {NoToken},
         late: BOOLEAN]

ASSUME NothingAssumption ==
  NoRow \notin TokenRow /\ NoToken \notin Tokens /\ NoCall \notin Call

VARIABLES
  account,   \* table users: the status of each account, or "NONE"
  token,     \* table refresh_tokens: the row of each id, or NoRow
  expired,   \* the tokens whose time is over
  pc,        \* the statement each handler runs next
  call,      \* the request each handler serves
  answered,  \* the refresh tokens that clients have received
  over,      \* history: tokens whose end a client has been told of
  source,    \* history: the token each token was exchanged for, or NoToken
  loggedOut, \* history: each account's last logout of all sessions
  barred     \* history: accounts barred while none of their requests ran

tables == <<account, token>>
clients == <<expired, answered>>
histories == <<over, source, loggedOut, barred>>
vars == <<tables, clients, pc, call, histories>>

Init ==
  /\ account \in [Accounts -> {"NONE", "ACTIVE"}]
  /\ token = [t \in Tokens |-> NoRow]
  /\ expired = {}
  /\ pc = [h \in Handlers |-> "idle"]
  /\ call = [h \in Handlers |-> NoCall]
  /\ answered = {}
  /\ over = {}
  /\ source = [t \in Tokens |-> NoToken]
  /\ loggedOut = [u \in Accounts |-> "no"]
  /\ barred = [u \in Accounts |-> FALSE]

-----------------------------------------------------------------------------
Exists(t) == token[t] # NoRow
Live(t) == Exists(t) /\ ~token[t].revoked
TokensOf(u) == {t \in Tokens : Exists(t) /\ token[t].user = u}

\* The handlers that serve a request of account u.
Serving(u) == {h \in Handlers : call[h] # NoCall /\ call[h].user = u}

Request(op, u, t, late) ==
  [op |-> op, user |-> u, token |-> t, fresh |-> NoToken, late |-> late]

Start(h, request, statement) ==
  /\ pc[h] = "idle"
  /\ call' = [call EXCEPT ![h] = request]
  /\ pc' = [pc EXCEPT ![h] = statement]

Step(h, from, to) == pc[h] = from /\ pc' = [pc EXCEPT ![h] = to]

\* Mutant: the request is not cleared.
End_KeepsCall(h) == pc' = [pc EXCEPT ![h] = "idle"] /\ UNCHANGED call

End(h) ==
  /\ pc' = [pc EXCEPT ![h] = "idle"]
  /\ call' = [call EXCEPT ![h] = NoCall]

Refuse(h) == End(h) /\ UNCHANGED <<tables, clients, histories>>

\* A request that can give the account a token without presenting one.
Reopens(u) == loggedOut' = [loggedOut EXCEPT ![u] = "no"]

-----------------------------------------------------------------------------
\* register: the e-mail (or phone) is free; the password is hashed; the user is
\* inserted, unless the unique index finds that another request was first.
StartRegister(h, u) ==
  /\ account[u] = "NONE"
  /\ Start(h, Request("register", u, NoToken, FALSE), "create")
  /\ Reopens(u)
  /\ UNCHANGED <<tables, clients, over, source, barred>>

CreateUser(h) ==
  /\ Step(h, "create", "issue")
  /\ account[call[h].user] = "NONE"
  /\ account' = [account EXCEPT ![call[h].user] = "ACTIVE"]
  /\ UNCHANGED <<token, clients, call, histories>>

CreateUserCollides(h) ==
  /\ pc[h] = "create"
  /\ account[call[h].user] # "NONE"
  /\ Refuse(h)

\* Mutant: only a blocked account is kept out.
StartLogin_Inactive(h, u) ==
  /\ account[u] \in {"ACTIVE", "INACTIVE"}
  /\ Start(h, Request("login", u, NoToken, FALSE), "issue")
  /\ Reopens(u)
  /\ UNCHANGED <<tables, clients, over, source, barred>>

\* login, with the right password: the status is that of the row read first.
StartLogin(h, u) ==
  /\ account[u] = "ACTIVE"
  /\ Start(h, Request("login", u, NoToken, FALSE), "issue")
  /\ Reopens(u)
  /\ UNCHANGED <<tables, clients, over, source, barred>>

\* refresh: a client presents a token it has received, in its time.
StartRefresh(h, t) ==
  /\ t \in answered \ expired
  /\ Start(h, Request("refresh", token[t].user, t, t \in over), "find")
  /\ UNCHANGED <<tables, clients, histories>>

\* Mutant: the row's existence is enough.
FindToken_Any(h) ==
  /\ Step(h, "find", "owner")
  /\ call[h].token \notin expired
  /\ UNCHANGED <<tables, clients, call, histories>>

FindToken(h) ==
  /\ Step(h, "find", "owner")
  /\ Live(call[h].token) /\ call[h].token \notin expired
  /\ UNCHANGED <<tables, clients, call, histories>>

TokenUnusable(h) ==
  /\ pc[h] = "find"
  /\ ~Live(call[h].token) \/ call[h].token \in expired
  /\ Refuse(h)

FindOwner(h) ==
  /\ Step(h, "owner", "rotate")
  /\ account[call[h].user] = "ACTIVE"
  /\ UNCHANGED <<tables, clients, call, histories>>

OwnerBarred(h) ==
  /\ pc[h] = "owner"
  /\ account[call[h].user] # "ACTIVE"
  /\ Refuse(h)

Revoked(ts) == [t \in Tokens |-> IF t \in ts /\ Exists(t)
                                 THEN [token[t] EXCEPT !.revoked = TRUE]
                                 ELSE token[t]]

\* Mutant: the token that was used is left as it is.
Rotate_KeepsOld(h) ==
  /\ Step(h, "rotate", "issue")
  /\ UNCHANGED <<tables, clients, call, histories>>

\* The used token is revoked by its id, whether or not it still is live.
Rotate(h) ==
  /\ Step(h, "rotate", "issue")
  /\ token' = Revoked({call[h].token})
  /\ UNCHANGED <<account, clients, call, histories>>

\* issueTokens: a new id, signed, hashed and inserted.
IssueTokens(h, t) ==
  /\ Step(h, "issue", "answer")
  /\ ~Exists(t)
  /\ token' = [token EXCEPT ![t] = [user |-> call[h].user, revoked |-> FALSE]]
  /\ call' = [call EXCEPT ![h].fresh = t]
  /\ source' = [source EXCEPT ![t] = call[h].token]
  /\ UNCHANGED <<account, clients, over, loggedOut, barred>>

Answer(h) ==
  /\ pc[h] = "answer"
  /\ End(h)
  /\ answered' = answered \cup {call[h].fresh}
  /\ over' = over \cup ({call[h].token} \ {NoToken})
  /\ UNCHANGED <<tables, expired, source, loggedOut, barred>>

\* An error, a crash or a lost connection ends a request where it stands.
Fail(h) == pc[h] # "idle" /\ Refuse(h)

-----------------------------------------------------------------------------
\* An access token comes with a refresh token, and can log its account out.
HasAccessToken(u) == answered \cap TokensOf(u) # {}

\* What the history makes of a logout of all sessions of u.
Logout(u) ==
  IF loggedOut[u] = "clear" \/ Serving(u) = {} THEN "clear"
  ELSE IF \E h \in Serving(u) : call[h].op # "refresh" THEN "no" ELSE "overlapped"

\* logout with a refresh token that can be verified: one UPDATE, of that token
\* if it is the caller's own.
LogoutOne(u, t) ==
  /\ HasAccessToken(u)
  /\ t \in answered \ expired
  /\ token' = Revoked({t} \cap TokensOf(u))
  /\ over' = over \cup ({t} \cap TokensOf(u))
  /\ UNCHANGED <<account, clients, pc, call, source, loggedOut, barred>>

\* logout without one, or with one that is expired: one UPDATE of all.
LogoutAll(u) ==
  /\ HasAccessToken(u)
  /\ token' = Revoked(TokensOf(u))
  /\ over' = over \cup TokensOf(u)
  /\ loggedOut' = [loggedOut EXCEPT ![u] = Logout(u)]
  /\ UNCHANGED <<account, clients, pc, call, source, barred>>

\* UsersService.updateStatus: an account that exists gets any status; its
\* tokens are left alone.
UpdateStatus(u, status) ==
  /\ account[u] # "NONE"
  /\ account' = [account EXCEPT ![u] = status]
  /\ barred' = [barred EXCEPT
       ![u] = status # "ACTIVE" /\ (barred[u] \/ Serving(u) = {})]
  /\ UNCHANGED <<token, clients, pc, call, over, source, loggedOut>>

Expire(t) ==
  /\ Exists(t) /\ t \notin expired
  /\ expired' = expired \cup {t}
  /\ UNCHANGED <<tables, answered, pc, call, histories>>

Proceed(h) ==
  \/ CreateUser(h) \/ CreateUserCollides(h)
  \/ FindToken(h) \/ TokenUnusable(h)
  \/ FindOwner(h) \/ OwnerBarred(h)
  \/ Rotate(h)
  \/ \E t \in Tokens : IssueTokens(h, t)
  \/ Answer(h)

Next ==
  \/ \E h \in Handlers, u \in Accounts : StartRegister(h, u) \/ StartLogin(h, u)
  \/ \E h \in Handlers, t \in Tokens : StartRefresh(h, t)
  \/ \E h \in Handlers : Proceed(h) \/ Fail(h)
  \/ \E u \in Accounts, t \in Tokens : LogoutOne(u, t)
  \/ \E u \in Accounts : LogoutAll(u)
  \/ \E u \in Accounts, status \in UserStatus : UpdateStatus(u, status)
  \/ \E t \in Tokens : Expire(t)

Spec == Init /\ [][Next]_vars
-----------------------------------------------------------------------------
Statements == {"idle", "create", "find", "owner", "rotate", "issue", "answer"}

\* The tables, the requests and the histories hold what they can hold, and a
\* handler is idle exactly when it serves no request.
TypeOK ==
  /\ account \in [Accounts -> UserStatus \cup {"NONE"}]
  /\ token \in [Tokens -> TokenRow \cup {NoRow}]
  /\ expired \subseteq Tokens
  /\ pc \in [Handlers -> Statements]
  /\ call \in [Handlers -> Call \cup {NoCall}]
  /\ answered \subseteq Tokens
  /\ over \subseteq Tokens
  /\ source \in [Tokens -> Tokens \cup {NoToken}]
  /\ loggedOut \in [Accounts -> {"no", "overlapped", "clear"}]
  /\ barred \in [Accounts -> BOOLEAN]
  /\ \A h \in Handlers : pc[h] = "idle" <=> call[h] = NoCall

\* A client that has been told that a token is over, because its exchange was
\* answered or a logout covered it, never exchanges it again: such a request
\* gets no further than the search for the token.  (Requests that overlap the
\* first exchange may succeed: the code reads, and revokes two steps later.)
LateUseRefused ==
  \A h \in Handlers : call[h] # NoCall /\ call[h].late => pc[h] = "find"

\* A refresh token is never live together with the token it was exchanged for,
\* at no moment and whatever request failed half-way: revoking comes first.
NeverBothLive ==
  \A t \in Tokens : source[t] # NoToken => ~Live(source[t])

\* A logout of all sessions that none of the account's requests overlaps leaves
\* the account without a live token until somebody logs in again, though old
\* tokens are presented at any time.
LogoutEndsSessions ==
  \A t \in Tokens : Live(t) => loggedOut[token[t].user] # "clear"

\* An account that was blocked or deactivated while none of its requests was
\* running is given no token before it is made active again.
BarredGetNoToken ==
  [][\A t \in Tokens : ~Exists(t) /\ Exists(t)' => ~barred[token'[t].user]]_vars

\* The steps a request of each kind comes to, and what it carries.
RequestIsSound(h) ==
  LET c == call[h] IN
  c # NoCall =>
    /\ c.op = "register" => pc[h] \in {"create", "issue", "answer"}
    /\ c.op = "login" => pc[h] \in {"issue", "answer"}
    /\ c.op = "refresh" => /\ pc[h] # "create"
                          /\ c.token \in TokensOf(c.user)
    /\ c.op # "refresh" => c.token = NoToken /\ ~c.late
    /\ c.late => c.token \in over
    /\ c.op = "refresh" /\ pc[h] \in {"issue", "answer"} => ~Live(c.token)
    /\ pc[h] = "answer" => c.fresh \in Tokens /\ Exists(c.fresh)

\* An account logged out for good: what its requests hold is dead.
LoggedOutIsClear(u) ==
  loggedOut[u] = "clear" =>
    /\ \A t \in TokensOf(u) : ~Live(t)
    /\ \A h \in Serving(u) : pc[h] = "find"

BarredIsOut(u) ==
  barred[u] =>
    /\ account[u] \in {"INACTIVE", "BLOCKED"}
    /\ \A h \in Serving(u) : pc[h] \in {"find", "owner"}

\* Why the properties hold, as an invariant that every step preserves: what a
\* client knows to be over is revoked, and revoked is revoked for ever.
SessionInvariant ==
  /\ TypeOK
  /\ LateUseRefused
  /\ \A h \in Handlers : RequestIsSound(h)
  /\ \A t \in answered : Exists(t)
  /\ \A t \in over : Exists(t) /\ ~Live(t)
  /\ \A t \in Tokens :
       source[t] # NoToken => Exists(source[t]) /\ ~Live(source[t])
  /\ \A u \in Accounts : LoggedOutIsClear(u) /\ BarredIsOut(u)

\* "Refresh token to revoke. If omitted, all sessions are revoked.": the same
\* of a logout that overlaps a refresh.  The refresh has found its token live,
\* and inserts a new one when the logout is over.
LogoutRevokesAll ==
  \A t \in Tokens : Live(t) => loggedOut[token[t].user] = "no"
=============================================================================
