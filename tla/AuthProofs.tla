----------------------------- MODULE AuthProofs -----------------------------
(***************************************************************************)
(* Proofs about Auth, for any accounts, tokens and handlers.               *)
(***************************************************************************)
EXTENDS Auth, TLAPS

LEMMA InitInvariant == Init => SessionInvariant
  <1> SUFFICES ASSUME Init PROVE SessionInvariant
    OBVIOUS
  <1>1. TypeOK
    BY DEF Init, TypeOK, UserStatus, Statements
  <1> QED
    BY <1>1 DEF Init, SessionInvariant, LateUseRefused, RequestIsSound,
                LoggedOutIsClear, BarredIsOut, TokensOf, Serving, Live, Exists

\* Revoking adds and removes no token, gives none to somebody else, makes none
\* live and ends those it is asked to end.
LEMMA RevokedTokens ==
  ASSUME TypeOK, NEW ts \in SUBSET Tokens, token' = Revoked(ts)
  PROVE  /\ token' \in [Tokens -> TokenRow \cup {NoRow}]
         /\ \A t \in Tokens :
              /\ Exists(t)' <=> Exists(t)
              /\ Exists(t) => token'[t].user = token[t].user
              /\ Live(t)' => Live(t)
              /\ t \in ts => ~Live(t)'
  <1> SUFFICES ASSUME NEW t \in Tokens
               PROVE  /\ token'[t] \in TokenRow \cup {NoRow}
                      /\ Exists(t)' <=> Exists(t)
                      /\ Exists(t) => token'[t].user = token[t].user
                      /\ Live(t)' => Live(t)
                      /\ t \in ts => ~Live(t)'
    BY DEF Revoked
  <1>1. token'[t] = IF t \in ts /\ Exists(t)
                    THEN [token[t] EXCEPT !.revoked = TRUE] ELSE token[t]
    BY DEF Revoked
  <1>2. token[t] \in TokenRow \cup {NoRow}
    BY DEF TypeOK
  <1>3. CASE t \in ts /\ Exists(t)
    <2>1. token[t] \in TokenRow
      BY <1>2, <1>3 DEF Exists
    <2>2. /\ token'[t] \in TokenRow
          /\ token'[t].user = token[t].user
          /\ token'[t].revoked = TRUE
      BY <1>1, <1>3, <2>1 DEF TokenRow
    <2> QED
      BY <1>3, <2>2, NothingAssumption DEF Exists, Live
  <1>4. CASE ~(t \in ts /\ Exists(t))
    BY <1>1, <1>2, <1>4 DEF Exists, Live
  <1> QED
    BY <1>3, <1>4

-----------------------------------------------------------------------------
\* The steps that leave the tokens and their clients alone, and move only the
\* request of one handler.
LEMMA RequestStep ==
  ASSUME SessionInvariant, TypeOK', NEW h \in Handlers,
         UNCHANGED <<token, answered, over, source>>,
         \A g \in Handlers \ {h} : pc'[g] = pc[g] /\ call'[g] = call[g],
         call'[h] # NoCall /\ call'[h].late => pc'[h] = "find",
         RequestIsSound(h)',
         \A u \in Accounts : LoggedOutIsClear(u)' /\ BarredIsOut(u)'
  PROVE  SessionInvariant'
  <1>1. LateUseRefused'
    BY DEF SessionInvariant, LateUseRefused
  <1>2. ASSUME NEW g \in Handlers PROVE RequestIsSound(g)'
    <2>1. CASE g = h
      BY <2>1
    <2>2. CASE g # h
      <3>1. RequestIsSound(g) /\ pc'[g] = pc[g] /\ call'[g] = call[g]
        BY <2>2 DEF SessionInvariant
      <3> QED
        BY <3>1 DEF RequestIsSound, TokensOf, Live, Exists
    <2> QED
      BY <2>1, <2>2
  <1> QED
    BY <1>1, <1>2 DEF SessionInvariant, Live, Exists

\* A request that ends, and changes nothing else.
LEMMA RefuseStep ==
  ASSUME SessionInvariant, NEW h \in Handlers, Refuse(h)
  PROVE  SessionInvariant'
  <1> USE DEF Refuse, End, tables, clients, histories
  <1>1. TypeOK'
    BY DEF SessionInvariant, TypeOK, Statements
  <1>2. /\ call'[h] = NoCall
        /\ \A g \in Handlers \ {h} : pc'[g] = pc[g] /\ call'[g] = call[g]
    BY DEF SessionInvariant, TypeOK
  <1>3. RequestIsSound(h)'
    BY <1>2 DEF RequestIsSound
  <1>4. \A u \in Accounts : LoggedOutIsClear(u)' /\ BarredIsOut(u)'
    BY <1>2 DEF SessionInvariant, LoggedOutIsClear, BarredIsOut, TokensOf,
                Serving, Live, Exists
  <1> QED
    BY <1>1, <1>2, <1>3, <1>4, RequestStep

LEMMA StartStep ==
  ASSUME SessionInvariant, NEW h \in Handlers,
         \/ \E u \in Accounts : StartRegister(h, u) \/ StartLogin(h, u)
         \/ \E t \in Tokens : StartRefresh(h, t)
  PROVE  SessionInvariant'
  <1> USE DEF tables, clients, histories
  <1>1. ASSUME NEW u \in Accounts, StartRegister(h, u) \/ StartLogin(h, u)
        PROVE  SessionInvariant'
    <2>1. PICK op \in {"register", "login"} :
            /\ call' = [call EXCEPT ![h] = Request(op, u, NoToken, FALSE)]
            /\ pc' = [pc EXCEPT
                 ![h] = IF op = "register" THEN "create" ELSE "issue"]
      BY <1>1 DEF StartRegister, StartLogin, Start
    <2>2. Request(op, u, NoToken, FALSE) \in Call
      BY DEF Request, Call
    <2>3. TypeOK'
      BY <1>1, <2>1, <2>2, NothingAssumption
      DEF SessionInvariant, TypeOK, Statements, StartRegister, StartLogin, Reopens
    <2>4. /\ call'[h] = Request(op, u, NoToken, FALSE)
          /\ pc'[h] = IF op = "register" THEN "create" ELSE "issue"
          /\ \A g \in Handlers \ {h} : pc'[g] = pc[g] /\ call'[g] = call[g]
      BY <2>1 DEF SessionInvariant, TypeOK
    <2>5. RequestIsSound(h)'
      BY <2>4 DEF RequestIsSound, Request
    <2>6. loggedOut'[u] = "no" /\ ~barred'[u]
      BY <1>1 DEF SessionInvariant, TypeOK, StartRegister, StartLogin, Reopens,
                  BarredIsOut
    <2>7. \A w \in Accounts : LoggedOutIsClear(w)' /\ BarredIsOut(w)'
      BY <1>1, <2>4, <2>6
      DEF SessionInvariant, TypeOK, LoggedOutIsClear, BarredIsOut, TokensOf,
          Serving, Live, Exists, StartRegister, StartLogin, Reopens, Request
    <2> QED
      BY <1>1, <2>3, <2>4, <2>5, <2>7, RequestStep
      DEF StartRegister, StartLogin, Request
  <1>2. ASSUME NEW t \in Tokens, StartRefresh(h, t)
        PROVE  SessionInvariant'
    <2> DEFINE late == t \in over
               request == Request("refresh", token[t].user, t, late)
    <2>0. /\ late \in BOOLEAN /\ (late => t \in over)
          /\ Start(h, request, "find")
      BY <1>2 DEF StartRefresh
    <2> HIDE DEF late
    <2>1. Exists(t) /\ token[t] \in TokenRow
      BY <1>2 DEF SessionInvariant, TypeOK, StartRefresh, Exists
    <2>2. request \in Call
      BY <2>0, <2>1 DEF Request, Call, TokenRow
    <2>3. TypeOK'
      BY <1>2, <2>0, <2>2, NothingAssumption
      DEF SessionInvariant, TypeOK, Statements, StartRefresh, Start
    <2>4. /\ call'[h] = request /\ pc'[h] = "find"
          /\ \A g \in Handlers \ {h} : pc'[g] = pc[g] /\ call'[g] = call[g]
      BY <2>0 DEF SessionInvariant, TypeOK, Start
    <2>5. RequestIsSound(h)'
      <3>1. /\ call'[h].op = "refresh" /\ call'[h].user = token[t].user
            /\ call'[h].token = t /\ (call'[h].late => t \in over)
        BY <2>0, <2>4 DEF Request
      <3>2. UNCHANGED <<token, over>>
        BY <1>2 DEF StartRefresh
      <3> QED
        BY <2>1, <2>4, <3>1, <3>2 DEF RequestIsSound, TokensOf, Exists
    <2>6. \A u \in Accounts : LoggedOutIsClear(u)' /\ BarredIsOut(u)'
      BY <1>2, <2>4 DEF SessionInvariant, LoggedOutIsClear, BarredIsOut,
                        TokensOf, Serving, Live, Exists, StartRefresh
    <2> QED
      BY <1>2, <2>3, <2>4, <2>5, <2>6, RequestStep DEF StartRefresh
  <1> QED
    BY <1>1, <1>2

\* The steps of a request that leave the tokens alone.
LEMMA ReadStep ==
  ASSUME SessionInvariant, NEW h \in Handlers,
         CreateUser(h) \/ FindToken(h) \/ FindOwner(h)
  PROVE  SessionInvariant'
  <1> USE DEF tables, clients, histories, Step
  <1> DEFINE c == call[h]
  <1>0. c \in Call /\ RequestIsSound(h)
    BY DEF SessionInvariant, TypeOK, CreateUser, FindToken, FindOwner
  <1>1. TypeOK'
    BY <1>0 DEF SessionInvariant, TypeOK, Statements, UserStatus, CreateUser,
                FindToken, FindOwner
  <1>2. /\ UNCHANGED <<token, answered, over, source, call>>
        /\ \A g \in Handlers \ {h} : pc'[g] = pc[g]
        /\ c # NoCall
        /\ <<pc[h], pc'[h]>> \in {<<"create", "issue">>, <<"find", "owner">>,
                                <<"owner", "rotate">>}
    BY NothingAssumption, <1>0 DEF SessionInvariant, TypeOK, CreateUser, FindToken, FindOwner
  <1>3. ~c.late
    <2>1. CASE FindToken(h)
      BY <1>0, <1>2, <2>1 DEF FindToken, SessionInvariant, RequestIsSound
    <2>2. CASE CreateUser(h) \/ FindOwner(h)
      BY <1>2, <2>2 DEF CreateUser, FindOwner, SessionInvariant, LateUseRefused
    <2> QED
      BY <2>1, <2>2
  <1>4. RequestIsSound(h)'
    BY <1>0, <1>2, <1>3 DEF RequestIsSound, TokensOf, Exists, Call
  <1>5. ASSUME NEW u \in Accounts PROVE LoggedOutIsClear(u)' /\ BarredIsOut(u)'
    <2>1. LoggedOutIsClear(u) /\ BarredIsOut(u) /\ UNCHANGED <<loggedOut, barred>>
      BY DEF SessionInvariant, CreateUser, FindToken, FindOwner
    <2>2. CASE c.user = u
      <3>1. h \in Serving(u)
        BY <1>2, <2>2 DEF Serving
      <3>2. loggedOut[u] # "clear"
        BY <1>0, <1>2, <2>1, <2>2, <3>1
        DEF LoggedOutIsClear, RequestIsSound, CreateUser, FindToken, FindOwner, Call
      <3>3. barred[u] => FindToken(h)
        BY <2>1, <2>2, <3>1, <1>2 DEF BarredIsOut, CreateUser, FindOwner
      <3>4. BarredIsOut(u)'
        BY <1>2, <2>1, <3>3 DEF BarredIsOut, Serving, FindToken
      <3> QED
        BY <2>1, <3>2, <3>4 DEF LoggedOutIsClear
    <2>3. CASE c.user # u
      <3>1. account'[u] = account[u]
        BY <1>0, <2>3 DEF SessionInvariant, TypeOK, CreateUser, FindToken, FindOwner
      <3> QED
        BY <1>2, <2>1, <2>3, <3>1
        DEF LoggedOutIsClear, BarredIsOut, Serving, TokensOf, Live, Exists
    <2> QED
      BY <2>2, <2>3
  <1> QED
    BY <1>1, <1>2, <1>3, <1>4, <1>5, RequestStep

-----------------------------------------------------------------------------
\* The steps that revoke tokens: a rotation and the two logouts.
LEMMA RevokeStep ==
  ASSUME SessionInvariant, TypeOK', NEW ts \in SUBSET Tokens,
         token' = Revoked(ts), UNCHANGED <<call, answered, source>>,
         over \subseteq over',
         \A t \in over' \ over : t \in ts /\ Exists(t),
         \A g \in Handlers :
           pc'[g] # pc[g] =>
             pc[g] = "rotate" /\ pc'[g] = "issue" /\ call[g].token \in ts,
         \A u \in Accounts : LoggedOutIsClear(u)' /\ BarredIsOut(u)'
  PROVE  SessionInvariant'
  <1>0. /\ TypeOK
        /\ \A t \in Tokens : /\ Exists(t)' <=> Exists(t)
                             /\ Exists(t) => token'[t].user = token[t].user
                             /\ Live(t)' => Live(t)
                             /\ t \in ts => ~Live(t)'
    BY RevokedTokens DEF SessionInvariant
  <1>1. LateUseRefused'
    BY DEF SessionInvariant, LateUseRefused
  <1>2. ASSUME NEW g \in Handlers PROVE RequestIsSound(g)'
    <2>1. CASE call[g] = NoCall
      BY <2>1 DEF RequestIsSound
    <2>2. CASE call[g] # NoCall
      <3>1. call[g] \in Call /\ call'[g] = call[g] /\ RequestIsSound(g)
        BY <2>2 DEF SessionInvariant, TypeOK
      <3>2. /\ call[g].token \in Tokens => (Exists(call[g].token)' <=> Exists(call[g].token))
            /\ call[g].fresh \in Tokens => (Exists(call[g].fresh)' <=> Exists(call[g].fresh))
        BY <1>0
      <3>3. call[g].op = "refresh" => call[g].token \in TokensOf(call[g].user)'
        BY <1>0, <2>2, <3>1 DEF RequestIsSound, TokensOf
      <3>4. call[g].op = "refresh" /\ pc'[g] \in {"issue", "answer"}
              => ~Live(call[g].token)'
        BY <1>0, <2>2, <3>1 DEF RequestIsSound, TokensOf
      <3>5. pc'[g] = pc[g] \/ (pc[g] = "rotate" /\ pc'[g] = "issue")
        OBVIOUS
      <3>6. pc'[g] = "answer" => call[g].fresh \in Tokens /\ Exists(call[g].fresh)'
        BY <1>0, <2>2, <3>1, <3>5 DEF RequestIsSound
      <3>7. call[g].late => call[g].token \in over'
        BY <2>2, <3>1 DEF RequestIsSound
      <3> QED
        BY <2>2, <3>1, <3>3, <3>4, <3>5, <3>6, <3>7 DEF RequestIsSound, Call
    <2> QED
      BY <2>1, <2>2
  <1>3. \A t \in answered' : Exists(t)'
    BY <1>0 DEF SessionInvariant, TypeOK
  <1>4. \A t \in over' : Exists(t)' /\ ~Live(t)'
    BY <1>0 DEF SessionInvariant, TypeOK
  <1>5. (\A t \in Tokens :
           source[t] # NoToken => Exists(source[t]) /\ ~Live(source[t]))'
    <2> SUFFICES ASSUME NEW t \in Tokens, source[t] # NoToken
                 PROVE  (Exists(source[t]) /\ ~Live(source[t]))'
      BY DEF Exists, Live
    <2>1. PICK s : s = source[t]
      OBVIOUS
    <2>2. s \in Tokens
      BY <1>0, <2>1 DEF TypeOK
    <2>3. Exists(s)' /\ ~Live(s)'
      BY <1>0, <2>1, <2>2 DEF SessionInvariant
    <2> QED
      BY <2>1, <2>3 DEF Exists, Live
  <1> QED
    BY <1>1, <1>2, <1>3, <1>4, <1>5 DEF SessionInvariant

LEMMA RotateStep ==
  ASSUME SessionInvariant, NEW h \in Handlers, Rotate(h)
  PROVE  SessionInvariant'
  <1> USE DEF clients, histories, Rotate, Step
  <1> DEFINE c == call[h]
  <1>1. /\ c \in Call /\ c # NoCall /\ c.op = "refresh"
        /\ c.token \in Tokens /\ c.token \in TokensOf(c.user)
    <2>1. c \in Call /\ c # NoCall /\ RequestIsSound(h)
      BY DEF SessionInvariant, TypeOK
    <2> QED
      BY <2>1 DEF RequestIsSound, TokensOf, Call
  <1>2. /\ token' \in [Tokens -> TokenRow \cup {NoRow}]
        /\ \A t \in Tokens : /\ Exists(t)' <=> Exists(t)
                             /\ Exists(t) => token'[t].user = token[t].user
                             /\ Live(t)' => Live(t)
    BY <1>1, RevokedTokens DEF SessionInvariant
  <1>3. TypeOK'
    BY <1>1, <1>2 DEF SessionInvariant, TypeOK, Statements
  <1>4. \A g \in Handlers : pc'[g] # pc[g] => g = h
    BY DEF SessionInvariant, TypeOK
  <1>5. pc[h] = "rotate" /\ pc'[h] = "issue"
    BY DEF SessionInvariant, TypeOK
  <1>6. ASSUME NEW u \in Accounts PROVE LoggedOutIsClear(u)' /\ BarredIsOut(u)'
    <2>1. LoggedOutIsClear(u) /\ BarredIsOut(u) /\ UNCHANGED <<loggedOut, barred, call, account>>
      BY DEF SessionInvariant
    <2>2. c.user = u => loggedOut[u] # "clear" /\ ~barred[u]
      BY <1>1, <1>5, <2>1 DEF LoggedOutIsClear, BarredIsOut, Serving
    <2>3. TokensOf(u)' = TokensOf(u)
      BY <1>2 DEF TokensOf
    <2>4. Serving(u)' = Serving(u)
      BY <2>1 DEF Serving
    <2> QED
      BY <1>2, <1>4, <2>1, <2>2, <2>3, <2>4
      DEF LoggedOutIsClear, BarredIsOut, Serving, TokensOf
  <1> QED
    BY <1>1, <1>3, <1>4, <1>5, <1>6, RevokeStep

LEMMA LogoutStep ==
  ASSUME SessionInvariant, NEW u \in Accounts,
         LogoutAll(u) \/ \E t \in Tokens : LogoutOne(u, t)
  PROVE  SessionInvariant'
  <1> USE DEF clients
  <1>1. PICK ts \in SUBSET TokensOf(u) :
          /\ token' = Revoked(ts)
          /\ over' = over \cup ts
          /\ LogoutAll(u) => ts = TokensOf(u)
    <2>1. CASE LogoutAll(u)
      BY <2>1 DEF LogoutAll
    <2>2. ASSUME NEW t \in Tokens, LogoutOne(u, t), ~LogoutAll(u)
          PROVE  \E ts \in SUBSET TokensOf(u) :
                   token' = Revoked(ts) /\ over' = over \cup ts
      BY <2>2 DEF LogoutOne
    <2> QED
      BY <2>1, <2>2
  <1>2. ts \subseteq Tokens /\ \A t \in ts : Exists(t)
    BY DEF TokensOf
  <1>3. /\ token' \in [Tokens -> TokenRow \cup {NoRow}]
        /\ \A t \in Tokens : /\ Exists(t)' <=> Exists(t)
                             /\ Exists(t) => token'[t].user = token[t].user
                             /\ Live(t)' => Live(t)
                             /\ t \in ts => ~Live(t)'
    BY <1>1, <1>2, RevokedTokens DEF SessionInvariant
  <1>4. /\ UNCHANGED <<account, expired, answered, pc, call, source, barred>>
        /\ \/ UNCHANGED loggedOut
           \/ /\ LogoutAll(u)
              /\ loggedOut' = [loggedOut EXCEPT ![u] = Logout(u)]
    BY DEF LogoutAll, LogoutOne
  <1>5. Logout(u) \in {"no", "overlapped", "clear"}
    BY DEF Logout
  <1>6. TypeOK'
    BY <1>1, <1>2, <1>3, <1>4, <1>5 DEF SessionInvariant, TypeOK
  <1>7. ASSUME NEW w \in Accounts PROVE LoggedOutIsClear(w)' /\ BarredIsOut(w)'
    <2>1. /\ LoggedOutIsClear(w) /\ BarredIsOut(w)
          /\ TokensOf(w)' = TokensOf(w) /\ Serving(w)' = Serving(w)
      BY <1>3, <1>4 DEF SessionInvariant, TokensOf, Serving
    <2>2. BarredIsOut(w)'
      BY <1>4, <2>1 DEF BarredIsOut
    <2>3. CASE loggedOut'[w] = loggedOut[w]
      BY <1>3, <1>4, <2>1, <2>2, <2>3 DEF LoggedOutIsClear, TokensOf
    <2>4. CASE loggedOut'[w] # loggedOut[w]
      <3>1. w = u /\ LogoutAll(u) /\ loggedOut'[u] = Logout(u)
        BY <1>4, <2>4 DEF SessionInvariant, TypeOK
      <3>2. loggedOut'[u] = "clear" => \A h \in Serving(u) : pc[h] = "find"
        BY <2>1, <3>1 DEF Logout, LoggedOutIsClear
      <3>3. \A t \in TokensOf(u) : ~Live(t)'
        BY <1>1, <1>3, <3>1 DEF TokensOf
      <3> QED
        BY <1>4, <2>1, <2>2, <3>1, <3>2, <3>3 DEF LoggedOutIsClear
    <2> QED
      BY <2>3, <2>4
  <1> QED
    BY <1>1, <1>2, <1>4, <1>6, <1>7, RevokeStep

-----------------------------------------------------------------------------
\* A new token is of an account that is neither logged out nor barred: its
\* request was let through before.
LEMMA IssueAllowed ==
  ASSUME SessionInvariant, NEW h \in Handlers, pc[h] = "issue"
  PROVE  /\ call[h] \in Call /\ ~call[h].late
         /\ loggedOut[call[h].user] # "clear"
         /\ barred[call[h].user] = FALSE
  <1>1. call[h] \in Call /\ call[h] # NoCall
    BY DEF SessionInvariant, TypeOK
  <1>2. PICK u \in Accounts : u = call[h].user
    BY <1>1 DEF Call
  <1>3. h \in Serving(u) /\ LoggedOutIsClear(u) /\ BarredIsOut(u)
    BY <1>1, <1>2 DEF SessionInvariant, Serving
  <1> QED
    BY <1>1, <1>2, <1>3
    DEF SessionInvariant, TypeOK, LateUseRefused, LoggedOutIsClear, BarredIsOut

LEMMA IssueStep ==
  ASSUME SessionInvariant, NEW h \in Handlers, NEW t \in Tokens, IssueTokens(h, t)
  PROVE  SessionInvariant'
  <1> USE DEF clients, IssueTokens, Step
  <1> DEFINE c == call[h]
             row == [user |-> c.user, revoked |-> FALSE]
  <1>1. /\ c \in Call /\ ~c.late /\ c # NoCall /\ RequestIsSound(h)
        /\ loggedOut[c.user] # "clear" /\ barred[c.user] = FALSE
    BY IssueAllowed DEF SessionInvariant, TypeOK
  <1>2. row \in TokenRow /\ [c EXCEPT !.fresh = t] \in Call
    BY <1>1 DEF TokenRow, Call
  <1>3. /\ token'[t] = row /\ ~Exists(t)
        /\ \A s \in Tokens \ {t} : token'[s] = token[s]
        /\ call'[h] = [c EXCEPT !.fresh = t] /\ pc'[h] = "answer" /\ pc[h] = "issue"
        /\ \A g \in Handlers \ {h} : pc'[g] = pc[g] /\ call'[g] = call[g]
        /\ source'[t] = c.token
        /\ \A s \in Tokens \ {t} : source'[s] = source[s]
    BY DEF SessionInvariant, TypeOK
  <1>4. TypeOK'
    BY <1>1, <1>2, <1>3, NothingAssumption DEF SessionInvariant, TypeOK, Statements, Call
  <1>5. \A s \in Tokens : Exists(s) =>
          Exists(s)' /\ token'[s] = token[s] /\ (Live(s)' <=> Live(s))
    BY <1>3 DEF Exists, Live
  <1>6. Exists(t)'
    BY <1>2, <1>3, NothingAssumption DEF Exists
  <1>7. call'[h] # NoCall /\ ~call'[h].late /\ call'[h].user = c.user
    BY <1>1, <1>2, <1>3, NothingAssumption DEF Call
  <1>8. LateUseRefused'
    BY <1>3, <1>7 DEF SessionInvariant, LateUseRefused
  <1>9. ASSUME NEW g \in Handlers PROVE RequestIsSound(g)'
    <2>1. CASE g = h
      <3>1. /\ call'[h].op = c.op /\ call'[h].token = c.token
            /\ call'[h].fresh = t
        BY <1>1, <1>3 DEF Call
      <3>2. c.op = "refresh" =>
              c.token \in Tokens /\ c.token \in TokensOf(c.user) /\ ~Live(c.token)
        BY <1>1, <1>3 DEF RequestIsSound, TokensOf
      <3>3. c.op = "refresh" => c.token \in TokensOf(c.user)' /\ ~Live(c.token)'
        BY <1>5, <3>2 DEF TokensOf
      <3>4. c.op # "refresh" => c.token = NoToken
        BY <1>1 DEF RequestIsSound
      <3> QED
        BY <1>3, <1>6, <1>7, <2>1, <3>1, <3>3, <3>4 DEF RequestIsSound, Live, Exists, TokensOf
    <2>2. CASE g # h /\ call[g] # NoCall
      <3>1. RequestIsSound(g) /\ pc'[g] = pc[g] /\ call'[g] = call[g] /\ call[g] \in Call
        BY <1>3, <2>2 DEF SessionInvariant, TypeOK
      <3>2. PICK s, f : s = call[g].token /\ f = call[g].fresh
        OBVIOUS
      <3>3. call[g].op = "refresh" => s \in TokensOf(call[g].user)' /\ s \in Tokens
        BY <1>5, <2>2, <3>1, <3>2 DEF RequestIsSound, TokensOf
      <3>4. call[g].op = "refresh" /\ pc[g] \in {"issue", "answer"} => ~Live(s)'
        BY <1>5, <2>2, <3>1, <3>2 DEF RequestIsSound, TokensOf
      <3>5. pc[g] = "answer" => f \in Tokens /\ Exists(f)'
        BY <1>5, <2>2, <3>1, <3>2 DEF RequestIsSound
      <3> QED
        BY <2>2, <3>1, <3>2, <3>3, <3>4, <3>5
        DEF RequestIsSound, Live, Exists, TokensOf
    <2>3. CASE g # h /\ call[g] = NoCall
      BY <1>3, <2>3 DEF RequestIsSound
    <2> QED
      BY <2>1, <2>2, <2>3
  <1>10. \A s \in answered' : Exists(s)'
    BY <1>5 DEF SessionInvariant, TypeOK
  <1>11. \A s \in over' : Exists(s)' /\ ~Live(s)'
    BY <1>5 DEF SessionInvariant, TypeOK
  <1>12. (\A s \in Tokens :
           source[s] # NoToken => Exists(source[s]) /\ ~Live(source[s]))'
    <2> SUFFICES ASSUME NEW s \in Tokens, source'[s] # NoToken
                 PROVE  (Exists(source[s]) /\ ~Live(source[s]))'
      BY DEF Exists, Live
    <2>1. PICK x : x = source'[s]
      OBVIOUS
    <2>2. x \in Tokens /\ Exists(x) /\ ~Live(x)
      <3>1. CASE s = t
        BY <1>1, <1>3, <2>1, <3>1 DEF RequestIsSound, TokensOf, Call
      <3>2. CASE s # t
        <4>1. x = source[s] /\ x \in Tokens
          BY <1>3, <2>1, <3>2 DEF SessionInvariant, TypeOK
        <4> QED
          BY <2>1, <4>1 DEF SessionInvariant
      <3> QED
        BY <3>1, <3>2
    <2> QED
      BY <1>5, <2>1, <2>2 DEF Exists, Live
  <1>13. ASSUME NEW u \in Accounts PROVE LoggedOutIsClear(u)' /\ BarredIsOut(u)'
    <2>1. /\ LoggedOutIsClear(u) /\ BarredIsOut(u)
          /\ UNCHANGED <<account, loggedOut, barred>>
      BY DEF SessionInvariant
    <2>2. CASE u = c.user
      BY <1>1, <2>1, <2>2 DEF LoggedOutIsClear, BarredIsOut
    <2>3. CASE u # c.user
      <3>1. TokensOf(u)' = TokensOf(u)
        BY <1>3, <1>5, <2>3 DEF TokensOf, Exists
      <3>2. Serving(u)' = Serving(u)
        BY <1>3, <1>7, <2>3 DEF Serving
      <3>3. h \notin Serving(u)
        BY <2>3 DEF Serving
      <3> QED
        BY <1>3, <1>5, <2>1, <3>1, <3>2, <3>3
        DEF LoggedOutIsClear, BarredIsOut, Serving, TokensOf
    <2> QED
      BY <2>2, <2>3
  <1> QED
    BY <1>4, <1>8, <1>9, <1>10, <1>11, <1>12, <1>13 DEF SessionInvariant

\* The answer tells the client of the new token, and of the end of the old one.
LEMMA AnswerStep ==
  ASSUME SessionInvariant, NEW h \in Handlers, Answer(h)
  PROVE  SessionInvariant'
  <1> USE DEF Answer, End, tables
  <1> DEFINE c == call[h]
  <1>1. c \in Call /\ c # NoCall /\ RequestIsSound(h) /\ ~c.late
    BY DEF SessionInvariant, TypeOK, LateUseRefused
  <1>2. c.fresh \in Tokens /\ Exists(c.fresh)
    BY <1>1 DEF RequestIsSound
  <1>3. c.token # NoToken => c.token \in Tokens /\ Exists(c.token) /\ ~Live(c.token)
    BY <1>1 DEF RequestIsSound, TokensOf, Call
  <1>4. TypeOK'
    BY <1>2, <1>3 DEF SessionInvariant, TypeOK, Statements
  <1>5. /\ call'[h] = NoCall
        /\ \A g \in Handlers \ {h} : pc'[g] = pc[g] /\ call'[g] = call[g]
    BY DEF SessionInvariant, TypeOK
  <1>6. LateUseRefused'
    BY <1>5 DEF SessionInvariant, LateUseRefused
  <1>7. \A g \in Handlers : RequestIsSound(g)'
    BY <1>5 DEF SessionInvariant, RequestIsSound, TokensOf, Live, Exists
  <1>8. (\A t \in answered : Exists(t))' /\ (\A t \in over : Exists(t) /\ ~Live(t))'
    BY <1>2, <1>3 DEF SessionInvariant, Live, Exists
  <1>9. \A u \in Accounts : LoggedOutIsClear(u)' /\ BarredIsOut(u)'
    BY <1>5 DEF SessionInvariant, LoggedOutIsClear, BarredIsOut, TokensOf,
                Serving, Live, Exists
  <1> QED
    BY <1>4, <1>6, <1>7, <1>8, <1>9 DEF SessionInvariant, Live, Exists

\* Time passes for a token, or an administrator changes an account.
LEMMA EnvironmentStep ==
  ASSUME SessionInvariant,
         \/ \E t \in Tokens : Expire(t)
         \/ \E u \in Accounts, status \in UserStatus : UpdateStatus(u, status)
  PROVE  SessionInvariant'
  <1>0. ASSUME NEW u \in Accounts, NEW status \in UserStatus, UpdateStatus(u, status)
        PROVE  \E b \in BOOLEAN :
                 /\ barred' = [barred EXCEPT ![u] = b]
                 /\ b => status # "ACTIVE" /\ (barred[u] \/ Serving(u) = {})
    <2> DEFINE b == status # "ACTIVE" /\ (barred[u] \/ Serving(u) = {})
    <2>1. /\ b \in BOOLEAN /\ barred' = [barred EXCEPT ![u] = b]
          /\ b => status # "ACTIVE" /\ (barred[u] \/ Serving(u) = {})
      BY <1>0 DEF UpdateStatus
    <2> HIDE DEF b
    <2> QED
      BY <2>1
  <1>1. TypeOK'
    <2>1. CASE \E t \in Tokens : Expire(t)
      BY <2>1 DEF SessionInvariant, TypeOK, Expire, tables, histories
    <2>2. ASSUME NEW u \in Accounts, NEW status \in UserStatus, UpdateStatus(u, status)
          PROVE  TypeOK'
      BY <1>0, <2>2 DEF SessionInvariant, TypeOK, UpdateStatus, clients
    <2> QED
      BY <2>1, <2>2
  <1>2. UNCHANGED <<token, answered, pc, call, over, source, loggedOut>>
    BY DEF Expire, UpdateStatus, tables, clients, histories
  <1>3. ASSUME NEW u \in Accounts PROVE BarredIsOut(u)'
    <2>1. BarredIsOut(u) /\ Serving(u)' = Serving(u)
      BY <1>2 DEF SessionInvariant, Serving
    <2>2. CASE account'[u] = account[u] /\ barred'[u] = barred[u]
      BY <1>2, <2>1, <2>2 DEF BarredIsOut
    <2>3. ASSUME NEW status \in UserStatus, UpdateStatus(u, status)
          PROVE  BarredIsOut(u)'
      <3>1. PICK b \in BOOLEAN :
              /\ barred' = [barred EXCEPT ![u] = b]
              /\ b => status # "ACTIVE" /\ (barred[u] \/ Serving(u) = {})
        BY <1>0, <2>3
      <3>2. barred'[u] = b /\ account'[u] = status
        BY <2>3, <3>1 DEF SessionInvariant, TypeOK, UpdateStatus
      <3> QED
        BY <1>2, <2>1, <3>1, <3>2 DEF BarredIsOut, UserStatus
    <2>4. (account'[u] = account[u] /\ barred'[u] = barred[u])
            \/ \E status \in UserStatus : UpdateStatus(u, status)
      BY DEF SessionInvariant, TypeOK, Expire, UpdateStatus, tables, histories
    <2> QED
      BY <2>2, <2>3, <2>4
  <1> QED
    BY <1>1, <1>2, <1>3
    DEF SessionInvariant, LateUseRefused, RequestIsSound, LoggedOutIsClear,
        TokensOf, Serving, Live, Exists

-----------------------------------------------------------------------------
LEMMA InvariantStep == SessionInvariant /\ [Next]_vars => SessionInvariant'
  <1> SUFFICES ASSUME SessionInvariant, [Next]_vars PROVE SessionInvariant'
    OBVIOUS
  <1>1. CASE UNCHANGED vars
    BY <1>1 DEF vars, tables, clients, histories, SessionInvariant, TypeOK,
                LateUseRefused, RequestIsSound, LoggedOutIsClear, BarredIsOut,
                TokensOf, Serving, Live, Exists
  <1>2. ASSUME NEW h \in Handlers,
               \/ \E u \in Accounts : StartRegister(h, u) \/ StartLogin(h, u)
               \/ \E t \in Tokens : StartRefresh(h, t)
        PROVE  SessionInvariant'
    BY <1>2, StartStep
  <1>3. ASSUME NEW h \in Handlers, Proceed(h) \/ Fail(h) PROVE SessionInvariant'
    <2>1. CASE CreateUserCollides(h) \/ TokenUnusable(h) \/ OwnerBarred(h) \/ Fail(h)
      BY <2>1, RefuseStep DEF CreateUserCollides, TokenUnusable, OwnerBarred, Fail
    <2>2. CASE CreateUser(h) \/ FindToken(h) \/ FindOwner(h)
      BY <2>2, ReadStep
    <2>3. CASE Rotate(h)
      BY <2>3, RotateStep
    <2>4. CASE \E t \in Tokens : IssueTokens(h, t)
      BY <2>4, IssueStep
    <2>5. CASE Answer(h)
      BY <2>5, AnswerStep
    <2> QED
      BY <1>3, <2>1, <2>2, <2>3, <2>4, <2>5 DEF Proceed
  <1>4. ASSUME NEW u \in Accounts,
               LogoutAll(u) \/ \E t \in Tokens : LogoutOne(u, t)
        PROVE  SessionInvariant'
    BY <1>4, LogoutStep
  <1>5. CASE \/ \E t \in Tokens : Expire(t)
             \/ \E u \in Accounts, status \in UserStatus : UpdateStatus(u, status)
    BY <1>5, EnvironmentStep
  <1> QED
    BY <1>1, <1>2, <1>3, <1>4, <1>5 DEF Next

\* However requests interleave, fail half-way or overlap a logout, the accounts,
\* the tokens and the requests stay within the invariant.
THEOREM SessionInvariance == Spec => []SessionInvariant
  BY InitInvariant, InvariantStep, PTL DEF Spec

\* The tables and the requests hold what they can hold.
THEOREM TablesKept == Spec => []TypeOK
  <1>1. SessionInvariant => TypeOK
    BY DEF SessionInvariant
  <1> QED
    BY <1>1, SessionInvariance, PTL

\* A token that a client knows to be used or logged out is refused.
THEOREM ReplayRefused == Spec => []LateUseRefused
  <1>1. SessionInvariant => LateUseRefused
    BY DEF SessionInvariant
  <1> QED
    BY <1>1, SessionInvariance, PTL

\* A token and the one it was exchanged for are never both good.
THEOREM RotationExclusive == Spec => []NeverBothLive
  <1>1. SessionInvariant => NeverBothLive
    BY DEF SessionInvariant, NeverBothLive
  <1> QED
    BY <1>1, SessionInvariance, PTL

\* A logout of all sessions that overlaps no request of the account ends them.
THEOREM LogoutFinal == Spec => []LogoutEndsSessions
  <1>1. SessionInvariant => LogoutEndsSessions
    <2> SUFFICES ASSUME SessionInvariant, NEW t \in Tokens, Live(t)
                 PROVE  loggedOut[token[t].user] # "clear"
      BY DEF LogoutEndsSessions
    <2>1. PICK u \in Accounts : u = token[t].user
      BY DEF SessionInvariant, TypeOK, TokenRow, Live, Exists
    <2> QED
      BY <2>1 DEF SessionInvariant, LoggedOutIsClear, TokensOf, Live
  <1> QED
    BY <1>1, SessionInvariance, PTL

\* An account barred at rest is given no token before it is made active again.
THEOREM BarredExcluded == Spec => BarredGetNoToken
  <1> DEFINE Barring ==
        \A t \in Tokens : ~Exists(t) /\ Exists(t)' => ~barred[token'[t].user]
  <1>1. SessionInvariant /\ [Next]_vars => [Barring]_vars
    <2> SUFFICES ASSUME SessionInvariant, Next,
                        NEW t \in Tokens, ~Exists(t), Exists(t)'
                 PROVE  ~barred[token'[t].user]
      OBVIOUS
    <2>1. ASSUME NEW ts, token' = Revoked(ts) PROVE FALSE
      BY <2>1 DEF Revoked, Exists
    <2>2. token' # token
      BY DEF Exists
    <2>3. ASSUME NEW h \in Handlers, NEW s \in Tokens, IssueTokens(h, s)
          PROVE  ~barred[token'[t].user]
      <3>1. token'[t] = [user |-> call[h].user, revoked |-> FALSE]
        BY <2>3 DEF IssueTokens, Exists, SessionInvariant, TypeOK
      <3>2. barred[call[h].user] = FALSE
        BY <2>3, IssueAllowed DEF IssueTokens, Step
      <3> QED
        BY <3>1, <3>2
    <2>4. \E h \in Handlers, s \in Tokens : IssueTokens(h, s)
      BY <2>1, <2>2
      DEF Next, Proceed, StartRegister, StartLogin, StartRefresh, CreateUser,
          CreateUserCollides, FindToken, TokenUnusable, FindOwner, OwnerBarred,
          Rotate, Answer, Fail, Refuse, LogoutOne, LogoutAll, UpdateStatus,
          Expire, tables
    <2> QED
      BY <2>3, <2>4
  <1> QED
    BY <1>1, SessionInvariance, PTL DEF Spec, BarredGetNoToken
=============================================================================
