--------------------------- MODULE SessionsProofs ---------------------------
(***************************************************************************)
(* Proofs about Sessions, for any users, tokens and requests: a session    *)
(* never has two tokens, and none after it was logged out; only a refresh  *)
(* that a login came before gives its user two; and Sessions implements    *)
(* AbstractSession.                                                        *)
(*                                                                         *)
(* A session is held by the stored token that goes back to it, or by the   *)
(* refresh between its two statements, or by the login about to store its  *)
(* first token.  SessionInv says that it is held once, and not when it has *)
(* been closed.                                                            *)
(***************************************************************************)
EXTENDS Sessions, TLAPS

LoggingIn(h)  == pc[h] \in {"lock", "delete", "commit"}
Refreshing(h) == pc[h] = "store"

(* Every token in use has been drawn.  One not drawn stands for no session.*)
Drawn ==
    /\ Stored \subseteq made
    /\ \A h \in Handlers : pc[h] # "idle" => token[h] \in made
    /\ \A t \in made : session[t] \in made
    /\ \A t \in Tokens \ made : session[t] = t
    /\ closed \subseteq made

(* A login's token is the only one of its session, which is its own.       *)
LoginsFresh ==
    \A h \in Handlers : LoggingIn(h) =>
        /\ token[h] \notin closed
        /\ \A t \in Stored : session[t] # token[h]
        /\ \A g \in Handlers : Refreshing(g) => session[token[g]] # token[h]
        /\ \A g \in Handlers : LoggingIn(g) /\ token[g] = token[h] => g = h
        /\ session[token[h]] = token[h]

(* Two stored tokens, two refreshes, or one of each are of two sessions.   *)
HeldOnce ==
    /\ \A s, t \in Stored : session[s] = session[t] => s = t
    /\ \A g, h \in Handlers :
          Refreshing(g) /\ Refreshing(h) /\ session[token[g]] = session[token[h]]
              => g = h
    /\ \A h \in Handlers, t \in Stored :
          Refreshing(h) => session[token[h]] # session[t]

(* A closed session is held by neither.                                    *)
ClosedUnheld ==
    /\ \A t \in Stored : session[t] \notin closed
    /\ \A h \in Handlers : Refreshing(h) => session[token[h]] \notin closed

Held == LoginsFresh /\ HeldOnce /\ ClosedUnheld

SessionInv == TypeOK /\ Drawn /\ Held
-----------------------------------------------------------------------------
(* Every step of a request leaves each variable in its type.               *)
LEMMA StepTypeOK ==
    ASSUME TypeOK, [Next]_vars
    PROVE  TypeOK'
<1> USE SessionAssumption DEF TypeOK, Goto, Leave, Stored
<1>1. ASSUME NEW h \in Handlers, NEW u \in Users, BeginLogin(h, u)
      PROVE  TypeOK'
  BY <1>1 DEF BeginLogin
<1>2. ASSUME NEW h \in Handlers, LockUser(h) PROVE TypeOK'
  BY <1>2 DEF LockUser
<1>3. ASSUME NEW h \in Handlers, DeleteAll(h) PROVE TypeOK'
  BY <1>3 DEF DeleteAll
<1>4. ASSUME NEW h \in Handlers, CommitLogin(h) PROVE TypeOK'
  <2>1. user[h] \in Users /\ token[h] \in Tokens
    BY <1>4 DEF CommitLogin
  <2>2. BetweenTokens(user[h]) \subseteq Tokens
    BY DEF BetweenTokens
  <2>. QED BY <1>4, <2>1, <2>2 DEF CommitLogin
<1>5. ASSUME NEW h \in Handlers, NEW t \in Tokens, Consume(h, t) PROVE TypeOK'
  BY <1>5 DEF Consume
<1>6. ASSUME NEW h \in Handlers, Store(h) PROVE TypeOK'
  BY <1>6 DEF Store
<1>7. ASSUME NEW h \in Handlers, Die(h) PROVE TypeOK'
  BY <1>7 DEF Die
<1>8. ASSUME NEW t \in Tokens, ConsumeExpired(t) PROVE TypeOK'
  BY <1>8 DEF ConsumeExpired
<1>9. ASSUME NEW t \in Tokens, Logout(t) PROVE TypeOK'
  BY <1>9 DEF Logout
<1>10. ASSUME NEW t \in Tokens, Expire(t) PROVE TypeOK'
  BY <1>10 DEF Expire
<1>11. CASE UNCHANGED vars
  BY <1>11 DEF vars
<1>. QED
  BY <1>1, <1>2, <1>3, <1>4, <1>5, <1>6, <1>7, <1>8, <1>9, <1>10, <1>11
  DEF Next

(* What holds of all holders still holds when some of them let go.         *)
LEMMA FewerHolders ==
    ASSUME SessionInv, TypeOK',
           Stored' \subseteq Stored,
           UNCHANGED <<session, made, closed>>,
           \A h \in Handlers :
              \/ pc'[h] = "idle"
              \/ /\ token'[h] = token[h]
                 /\ LoggingIn(h)' <=> LoggingIn(h)
                 /\ Refreshing(h)' <=> Refreshing(h)
    PROVE  SessionInv'
<1>1. \A h \in Handlers : LoggingIn(h)' => LoggingIn(h) /\ token'[h] = token[h]
  BY DEF LoggingIn
<1>2. \A h \in Handlers : Refreshing(h)' => Refreshing(h) /\ token'[h] = token[h]
  BY DEF Refreshing
<1>3. \A h \in Handlers : pc'[h] # "idle" => pc[h] # "idle" /\ token'[h] = token[h]
  <2>1. \A h \in Handlers :
           pc'[h] # "idle" => LoggingIn(h)' \/ Refreshing(h)'
    BY DEF SessionInv, TypeOK, LoggingIn, Refreshing
  <2>. QED BY <1>1, <1>2, <2>1 DEF LoggingIn, Refreshing
<1>4. Drawn'
  BY <1>3 DEF SessionInv, Drawn
<1>5. LoginsFresh'
  BY <1>1, <1>2 DEF SessionInv, Held, LoginsFresh, LoggingIn, Refreshing
<1>6. HeldOnce'
  BY <1>2 DEF SessionInv, Held, HeldOnce, Refreshing
<1>7. ClosedUnheld'
  BY <1>2 DEF SessionInv, Held, ClosedUnheld, Refreshing
<1>. QED BY <1>4, <1>5, <1>6, <1>7 DEF SessionInv, Held

(* A login draws a token nothing goes back to.                             *)
LEMMA BeginLoginHeld ==
    ASSUME SessionInv, NEW h \in Handlers, NEW u \in Users, BeginLogin(h, u)
    PROVE  Drawn' /\ Held'
<1>1. PICK t \in Tokens \ made : /\ made' = made \cup {t}
                                 /\ token' = [token EXCEPT ![h] = t]
  BY DEF BeginLogin
<1>2. /\ pc' = [pc EXCEPT ![h] = "lock"]
      /\ UNCHANGED <<owner, session, closed>>
      /\ Stored' = Stored
  BY DEF BeginLogin, Goto, Stored
<1>3. /\ LoggingIn(h)' /\ ~Refreshing(h)' /\ token'[h] = t
      /\ \A g \in Handlers \ {h} : /\ LoggingIn(g)' <=> LoggingIn(g)
                                   /\ Refreshing(g)' <=> Refreshing(g)
                                   /\ token'[g] = token[g]
                                   /\ pc'[g] = pc[g]
  BY <1>1, <1>2 DEF SessionInv, TypeOK, LoggingIn, Refreshing
<1>4. /\ session[t] = t /\ t \notin closed
      /\ \A s \in Stored : session[s] # t
      /\ \A g \in Handlers : /\ Refreshing(g) => session[token[g]] # t
                             /\ LoggingIn(g) => token[g] # t
  BY <1>1 DEF SessionInv, Drawn, LoggingIn, Refreshing
<1>5. Drawn'
  BY <1>1, <1>2, <1>3, <1>4 DEF SessionInv, Drawn
<1>6. LoginsFresh'
  <2>1. SUFFICES ASSUME NEW e \in Handlers, LoggingIn(e)'
                 PROVE  /\ token'[e] \notin closed
                        /\ \A s \in Stored : session[s] # token'[e]
                        /\ \A g \in Handlers :
                              Refreshing(g)' => session[token'[g]] # token'[e]
                        /\ \A g \in Handlers :
                              LoggingIn(g)' /\ token'[g] = token'[e] => g = e
                        /\ session[token'[e]] = token'[e]
    BY <1>2 DEF LoginsFresh, LoggingIn, Refreshing
  <2>2. CASE e = h
    BY <2>1, <2>2, <1>3, <1>4 DEF LoggingIn, Refreshing
  <2>3. CASE e # h
    BY <2>1, <2>3, <1>3, <1>4 DEF SessionInv, Held, LoginsFresh, LoggingIn, Refreshing
  <2>. QED BY <2>2, <2>3
<1>7. HeldOnce'
  BY <1>2, <1>3 DEF SessionInv, Held, HeldOnce, Refreshing
<1>8. ClosedUnheld'
  BY <1>2, <1>3 DEF SessionInv, Held, ClosedUnheld, Refreshing
<1>. QED BY <1>5, <1>6, <1>7, <1>8 DEF Held

(* A login hands its session from the request to the table.                *)
LEMMA CommitLoginHeld ==
    ASSUME SessionInv, NEW h \in Handlers, CommitLogin(h)
    PROVE  Drawn' /\ Held'
<1> DEFINE t == token[h]
<1>1. t \in Tokens /\ t \in made /\ user[h] \in Users /\ LoggingIn(h)
  BY DEF SessionInv, TypeOK, Drawn, CommitLogin, LoggingIn
<1>2. Stored' \subseteq Stored \cup {t} /\ UNCHANGED <<session, made, closed>>
  BY DEF CommitLogin, Stored
<1>3. /\ ~LoggingIn(h)' /\ ~Refreshing(h)' /\ pc'[h] = "idle"
      /\ \A g \in Handlers \ {h} : /\ LoggingIn(g)' <=> LoggingIn(g)
                                   /\ Refreshing(g)' <=> Refreshing(g)
                                   /\ token'[g] = token[g]
                                   /\ pc'[g] = pc[g]
  BY DEF SessionInv, TypeOK, CommitLogin, Leave, Goto, LoggingIn, Refreshing
<1>4. /\ session[t] = t /\ t \notin closed
      /\ \A s \in Stored : session[s] # t
      /\ \A g \in Handlers : /\ Refreshing(g) => session[token[g]] # t
                             /\ LoggingIn(g) /\ g # h => token[g] # t
  BY <1>1 DEF SessionInv, Held, LoginsFresh, LoggingIn, Refreshing
<1>5. Drawn'
  BY <1>1, <1>2, <1>3 DEF SessionInv, Drawn
<1>6. LoginsFresh'
  <2>1. SUFFICES ASSUME NEW e \in Handlers, e # h, LoggingIn(e)'
                 PROVE  /\ token[e] \notin closed
                        /\ \A s \in Stored \cup {t} : session[s] # token[e]
                        /\ \A g \in Handlers \ {h} :
                              Refreshing(g) => session[token[g]] # token[e]
                        /\ \A g \in Handlers \ {h} :
                              LoggingIn(g) /\ token[g] = token[e] => g = e
                        /\ session[token[e]] = token[e]
    BY <1>2, <1>3 DEF LoginsFresh, LoggingIn, Refreshing
  <2>2. LoggingIn(e) /\ token[e] # t
    BY <2>1, <1>3, <1>4 DEF LoggingIn
  <2>. QED BY <2>2, <1>4 DEF SessionInv, Held, LoginsFresh, LoggingIn, Refreshing
<1>7. HeldOnce'
  BY <1>2, <1>3, <1>4 DEF SessionInv, Held, HeldOnce, Refreshing
<1>8. ClosedUnheld'
  BY <1>2, <1>3, <1>4 DEF SessionInv, Held, ClosedUnheld, Refreshing
<1>. QED BY <1>5, <1>6, <1>7, <1>8 DEF Held

(* A refresh takes the session of the token it consumes.                   *)
LEMMA ConsumeHeld ==
    ASSUME SessionInv, NEW h \in Handlers, NEW t \in Tokens, Consume(h, t)
    PROVE  Drawn' /\ Held'
<1>1. /\ t \in Stored /\ Stored' = Stored \ {t}
      /\ UNCHANGED <<session, made, closed>>
  BY SessionAssumption DEF SessionInv, TypeOK, Consume, Stored
<1>2. /\ ~LoggingIn(h)' /\ Refreshing(h)' /\ token'[h] = t
      /\ \A g \in Handlers \ {h} : /\ LoggingIn(g)' <=> LoggingIn(g)
                                   /\ Refreshing(g)' <=> Refreshing(g)
                                   /\ token'[g] = token[g]
                                   /\ pc'[g] = pc[g]
  BY DEF SessionInv, TypeOK, Consume, Goto, LoggingIn, Refreshing
<1>3. /\ session[t] \notin closed
      /\ \A s \in Stored \ {t} : session[s] # session[t]
      /\ \A g \in Handlers : /\ Refreshing(g) => session[token[g]] # session[t]
                             /\ LoggingIn(g) => token[g] # session[t]
  BY <1>1 DEF SessionInv, Held, LoginsFresh, HeldOnce, ClosedUnheld,
              LoggingIn, Refreshing
<1>4. Drawn'
  BY <1>1, <1>2 DEF SessionInv, Drawn
<1>5. LoginsFresh'
  BY <1>1, <1>2, <1>3
  DEF SessionInv, Held, LoginsFresh, LoggingIn, Refreshing
<1>6. HeldOnce'
  BY <1>1, <1>2, <1>3 DEF SessionInv, Held, HeldOnce, Refreshing
<1>7. ClosedUnheld'
  BY <1>1, <1>2, <1>3 DEF SessionInv, Held, ClosedUnheld, Refreshing
<1>. QED BY <1>4, <1>5, <1>6, <1>7 DEF Held

(* A refresh hands its session on to the token it stores.                  *)
LEMMA StoreHeld ==
    ASSUME SessionInv, NEW h \in Handlers, Store(h)
    PROVE  Drawn' /\ Held'
<1>1. PICK t \in Tokens \ made :
          /\ made' = made \cup {t}
          /\ owner' = [owner EXCEPT ![t] = user[h]]
          /\ session' = [session EXCEPT ![t] = session[token[h]]]
  BY DEF Store
<1>2. /\ Stored' \subseteq Stored \cup {t} /\ closed' = closed
      /\ session'[t] = session[token[h]]
      /\ \A s \in made : s # t /\ session'[s] = session[s]
      /\ \A s \in Tokens \ {t} : session'[s] = session[s]
  BY <1>1 DEF SessionInv, TypeOK, Store, Stored
<1>3. /\ ~LoggingIn(h)' /\ ~Refreshing(h)' /\ pc'[h] = "idle"
      /\ \A g \in Handlers \ {h} : /\ LoggingIn(g)' <=> LoggingIn(g)
                                   /\ Refreshing(g)' <=> Refreshing(g)
                                   /\ token'[g] = token[g]
                                   /\ pc'[g] = pc[g]
  BY DEF SessionInv, TypeOK, Store, Leave, Goto, LoggingIn, Refreshing
<1>4. /\ Refreshing(h) /\ token[h] \in made /\ Stored \subseteq made
      /\ \A g \in Handlers :
            (LoggingIn(g) \/ Refreshing(g)) => token[g] \in made
  BY DEF SessionInv, Drawn, Store, LoggingIn, Refreshing
<1>5. /\ session[token[h]] \notin closed
      /\ \A s \in Stored : session[s] # session[token[h]]
      /\ \A g \in Handlers \ {h} :
            /\ Refreshing(g) => session[token[g]] # session[token[h]]
            /\ LoggingIn(g) => token[g] # session[token[h]]
  BY <1>4 DEF SessionInv, Held, LoginsFresh, HeldOnce, ClosedUnheld,
              LoggingIn, Refreshing
<1>6. Drawn'
  BY <1>1, <1>2, <1>3, <1>4 DEF SessionInv, Drawn
<1>7. LoginsFresh'
  <2>1. SUFFICES ASSUME NEW e \in Handlers \ {h}, LoggingIn(e)
                 PROVE  /\ token[e] \notin closed
                        /\ \A s \in Stored \cup {t} : session'[s] # token[e]
                        /\ \A g \in Handlers \ {h} :
                              Refreshing(g) => session'[token[g]] # token[e]
                        /\ \A g \in Handlers \ {h} :
                              LoggingIn(g) /\ token[g] = token[e] => g = e
                        /\ session'[token[e]] = token[e]
    BY <1>2, <1>3 DEF LoginsFresh, LoggingIn, Refreshing
  <2>. QED BY <2>1, <1>2, <1>4, <1>5
           DEF SessionInv, Held, LoginsFresh, LoggingIn, Refreshing
<1>8. HeldOnce'
  BY <1>2, <1>3, <1>4, <1>5 DEF SessionInv, Held, HeldOnce, Refreshing
<1>9. ClosedUnheld'
  BY <1>2, <1>3, <1>4, <1>5 DEF SessionInv, Held, ClosedUnheld, Refreshing
<1>. QED BY <1>6, <1>7, <1>8, <1>9 DEF Held

(* A logout closes the session of the token it deletes, and nobody else    *)
(* holds that session.                                                     *)
LEMMA LogoutHeld ==
    ASSUME SessionInv, TypeOK', NEW t \in Tokens, Logout(t)
    PROVE  SessionInv'
<1>1. CASE t \notin Stored
  <2>1. Stored' \subseteq Stored /\ UNCHANGED <<session, made, closed, pc, token>>
    BY <1>1 DEF SessionInv, TypeOK, Logout, Stored
  <2>2. \A h \in Handlers : /\ token'[h] = token[h]
                            /\ LoggingIn(h)' <=> LoggingIn(h)
                            /\ Refreshing(h)' <=> Refreshing(h)
    BY <2>1 DEF LoggingIn, Refreshing
  <2>. QED BY <2>1, <2>2, FewerHolders
<1>2. CASE t \in Stored
  <2>1. /\ Stored' = Stored \ {t} /\ closed' = closed \cup {session[t]}
        /\ UNCHANGED <<session, made, pc, token>>
    BY <1>2, SessionAssumption DEF SessionInv, TypeOK, Logout, Stored
  <2>2. /\ \A s \in Stored \ {t} : session[s] # session[t]
        /\ \A g \in Handlers :
              /\ Refreshing(g) => session[token[g]] # session[t]
              /\ LoggingIn(g) => token[g] # session[t]
    BY <1>2 DEF SessionInv, Held, LoginsFresh, HeldOnce, LoggingIn, Refreshing
  <2>3. Drawn'
    BY <1>2, <2>1 DEF SessionInv, Drawn
  <2>4. LoginsFresh'
    BY <2>1, <2>2 DEF SessionInv, Held, LoginsFresh, LoggingIn, Refreshing
  <2>5. HeldOnce'
    BY <2>1 DEF SessionInv, Held, HeldOnce, Refreshing
  <2>6. ClosedUnheld'
    BY <2>1, <2>2 DEF SessionInv, Held, ClosedUnheld, Refreshing
  <2>. QED BY <2>3, <2>4, <2>5, <2>6 DEF SessionInv, Held
<1>. QED BY <1>1, <1>2

(* Every step keeps the sessions apart.                                    *)
LEMMA StepSessionInv ==
    ASSUME SessionInv, [Next]_vars
    PROVE  SessionInv'
<1>1. TypeOK'
  BY StepTypeOK DEF SessionInv
<1>2. ASSUME NEW h \in Handlers, NEW u \in Users, BeginLogin(h, u)
      PROVE  SessionInv'
  BY <1>1, <1>2, BeginLoginHeld DEF SessionInv
<1>3. ASSUME NEW h \in Handlers, LockUser(h) PROVE SessionInv'
  <2>1. Stored' = Stored /\ UNCHANGED <<session, made, closed, token>>
    BY <1>3 DEF LockUser, Stored
  <2>2. \A g \in Handlers : /\ LoggingIn(g)' <=> LoggingIn(g)
                            /\ Refreshing(g)' <=> Refreshing(g)
    BY <1>3 DEF SessionInv, TypeOK, LockUser, Goto, LoggingIn, Refreshing
  <2>. QED BY <1>1, <2>1, <2>2, FewerHolders
<1>4. ASSUME NEW h \in Handlers, DeleteAll(h) PROVE SessionInv'
  <2>1. Stored' = Stored /\ UNCHANGED <<session, made, closed, token>>
    BY <1>4 DEF DeleteAll, Stored
  <2>2. \A g \in Handlers : /\ LoggingIn(g)' <=> LoggingIn(g)
                            /\ Refreshing(g)' <=> Refreshing(g)
    BY <1>4 DEF SessionInv, TypeOK, DeleteAll, Goto, LoggingIn, Refreshing
  <2>. QED BY <1>1, <2>1, <2>2, FewerHolders
<1>5. ASSUME NEW h \in Handlers, CommitLogin(h) PROVE SessionInv'
  BY <1>1, <1>5, CommitLoginHeld DEF SessionInv
<1>6. ASSUME NEW h \in Handlers, NEW t \in Tokens, Consume(h, t)
      PROVE  SessionInv'
  BY <1>1, <1>6, ConsumeHeld DEF SessionInv
<1>7. ASSUME NEW h \in Handlers, Store(h) PROVE SessionInv'
  BY <1>1, <1>7, StoreHeld DEF SessionInv
<1>8. ASSUME NEW h \in Handlers, Die(h) PROVE SessionInv'
  <2>1. Stored' = Stored /\ UNCHANGED <<session, made, closed>>
    BY <1>8 DEF Die, Stored
  <2>2. /\ pc'[h] = "idle"
        /\ \A g \in Handlers \ {h} : /\ token'[g] = token[g]
                                     /\ LoggingIn(g)' <=> LoggingIn(g)
                                     /\ Refreshing(g)' <=> Refreshing(g)
    BY <1>8 DEF SessionInv, TypeOK, Die, Leave, Goto, LoggingIn, Refreshing
  <2>. QED BY <1>1, <2>1, <2>2, FewerHolders
<1>9. ASSUME NEW t \in Tokens, ConsumeExpired(t) PROVE SessionInv'
  <2>1. Stored' \subseteq Stored /\ UNCHANGED <<session, made, closed, token, pc>>
    BY <1>9 DEF SessionInv, TypeOK, ConsumeExpired, Stored
  <2>2. \A g \in Handlers : /\ LoggingIn(g)' <=> LoggingIn(g)
                            /\ Refreshing(g)' <=> Refreshing(g)
    BY <2>1 DEF LoggingIn, Refreshing
  <2>. QED BY <1>1, <2>1, <2>2, FewerHolders
<1>10. ASSUME NEW t \in Tokens, Logout(t) PROVE SessionInv'
  BY <1>1, <1>10, LogoutHeld
<1>11. ASSUME Stored' = Stored, UNCHANGED <<session, made, closed, token, pc>>
       PROVE  SessionInv'
  <2>1. \A g \in Handlers : /\ LoggingIn(g)' <=> LoggingIn(g)
                            /\ Refreshing(g)' <=> Refreshing(g)
    BY <1>11 DEF LoggingIn, Refreshing
  <2>. QED BY <1>1, <1>11, <2>1, FewerHolders
<1>12. ASSUME NEW t \in Tokens, Expire(t) PROVE SessionInv'
  BY <1>11, <1>12 DEF Expire, Stored
<1>13. CASE UNCHANGED vars
  BY <1>11, <1>13 DEF vars, Stored
<1>. QED
  BY <1>2, <1>3, <1>4, <1>5, <1>6, <1>7, <1>8, <1>9, <1>10, <1>12, <1>13
  DEF Next

(* At first there is no token at all.                                      *)
LEMMA InitSessionInv == Init => SessionInv
BY SessionAssumption
DEF Init, SessionInv, TypeOK, Drawn, Held, LoginsFresh, HeldOnce,
    ClosedUnheld, Stored, LoggingIn, Refreshing

(* SessionInv holds at all times.                                          *)
LEMMA SessionInvariant == Spec => []SessionInv
<1>1. SessionInv /\ [Next]_vars => SessionInv'
  BY StepSessionInv
<1>. QED BY <1>1, InitSessionInv, PTL DEF Spec

(* However often a token is presented at once, by clients of any number    *)
(* and whatever dies in between, consumeValidToken lets one refresh have   *)
(* its session: no session is ever held twice.                             *)
THEOREM SessionsNeverSplit == Spec => []OneTokenPerSession
<1>1. ASSUME SessionInv PROVE OneTokenPerSession
  <2>1. SUFFICES ASSUME NEW s \in Tokens,
                        NEW x \in Holders(s), NEW y \in Holders(s)
                 PROVE  x = y
    BY DEF OneTokenPerSession
  <2>2. CASE x.by = NoHandler /\ y.by = NoHandler
    BY <2>2, <1>1, SessionAssumption
    DEF Holders, SessionInv, Held, HeldOnce
  <2>3. CASE x.by \in Handlers /\ y.by \in Handlers
    BY <2>3, <1>1, SessionAssumption
    DEF Holders, SessionInv, Held, HeldOnce, Refreshing
  <2>4. CASE x.by = NoHandler /\ y.by \in Handlers
    BY <2>4, <1>1, SessionAssumption
    DEF Holders, SessionInv, Held, HeldOnce, Refreshing
  <2>5. CASE x.by \in Handlers /\ y.by = NoHandler
    BY <2>5, <1>1, SessionAssumption
    DEF Holders, SessionInv, Held, HeldOnce, Refreshing
  <2>. QED BY <2>2, <2>3, <2>4, <2>5 DEF Holders
<1>. QED BY <1>1, SessionInvariant, PTL

(* No refresh that races with a logout brings the session back: once the   *)
(* logout has deleted the stored token, none of that session is stored.    *)
THEOREM LogoutIsFinal == Spec => []ClosedForGood
<1>1. SessionInv => ClosedForGood
  BY DEF SessionInv, Held, ClosedUnheld, ClosedForGood
<1>. QED BY <1>1, SessionInvariant, PTL

(* Each variable of Sessions keeps its type.                               *)
THEOREM SessionsTypeCorrect == Spec => []TypeOK
<1>1. SessionInv => TypeOK
  BY DEF SessionInv
<1>. QED BY <1>1, SessionInvariant, PTL
-----------------------------------------------------------------------------
(* From its DELETE to its commit a login has locked its user's row.        *)
RowOfUserHeld ==
    \A h \in Handlers : pc[h] \in {"delete", "commit"} =>
                            lockedBy[user[h]] = h

(* No token of that user is stored after the DELETE but those it deletes.  *)
NothingEscapes ==
    \A h \in Handlers : pc[h] = "commit" =>
        \A t \in Stored : owner[t] = user[h] => t \in deleting[h]

(* A session a token or a refresh of a user goes back to is that of the    *)
(* latest login, unless it is overtaken.                                   *)
LatestOr(u, s) == s = latest[u] \/ s \in overtaken

Ruled ==
    /\ \A t \in Stored : LatestOr(owner[t], session[t])
    /\ \A h \in Handlers : Refreshing(h) =>
                            LatestOr(user[h], session[token[h]])

LoginInv == RowOfUserHeld /\ NothingEscapes /\ Ruled

(* Every step keeps LoginInv: a refresh cannot store a token between the   *)
(* DELETE and the commit, as the new row waits for the user's.             *)
LEMMA StepLoginInv == SessionInv /\ LoginInv /\ [Next]_vars => LoginInv'
<1> SUFFICES ASSUME SessionInv, LoginInv, [Next]_vars PROVE LoginInv'
  OBVIOUS
<1> USE SessionAssumption
    DEF SessionInv, TypeOK, LoginInv, Goto, Leave, Stored, Refreshing, LatestOr
<1>1. ASSUME NEW h \in Handlers, NEW u \in Users, BeginLogin(h, u)
      PROVE  LoginInv'
  BY <1>1 DEF BeginLogin, RowOfUserHeld, NothingEscapes, Ruled
<1>2. ASSUME NEW h \in Handlers, LockUser(h) PROVE LoginInv'
  BY <1>2 DEF LockUser, RowOfUserHeld, NothingEscapes, Ruled
<1>3. ASSUME NEW h \in Handlers, DeleteAll(h) PROVE LoginInv'
  BY <1>3 DEF DeleteAll, RowOfUserHeld, NothingEscapes, Ruled
<1>4. ASSUME NEW h \in Handlers, CommitLogin(h) PROVE LoginInv'
  <2>1. RowOfUserHeld'
    BY <1>4 DEF CommitLogin, RowOfUserHeld
  <2>2. NothingEscapes'
    <3>1. SUFFICES ASSUME NEW g \in Handlers, pc'[g] = "commit",
                          NEW t \in Stored', owner'[t] = user'[g]
                   PROVE  t \in deleting'[g]
      BY DEF NothingEscapes
    <3>2. g # h /\ pc[g] = "commit" /\ user'[g] = user[g] /\ deleting'[g] = deleting[g]
      BY <1>4, <3>1 DEF CommitLogin
    <3>3. user[g] # user[h]
      BY <1>4, <3>2 DEF CommitLogin, RowOfUserHeld
    <3>4. t # token[h] /\ owner[t] = user[g] /\ t \in Stored
      BY <1>4, <3>1, <3>2, <3>3 DEF CommitLogin
    <3>. QED BY <3>2, <3>4 DEF NothingEscapes
  <2>3. ASSUME NEW t \in Stored' PROVE LatestOr(owner[t], session[t])'
    <3>1. CASE t = token[h]
      <4>1. session[t] = t
        BY <1>4, <3>1 DEF CommitLogin, Held, LoginsFresh, LoggingIn
      <4>. QED BY <1>4, <3>1, <4>1 DEF CommitLogin
    <3>2. CASE t # token[h]
      <4>1. t \in Stored /\ t \notin deleting[h] /\ owner'[t] = owner[t]
        BY <1>4, <2>3, <3>2 DEF CommitLogin
      <4>2. owner[t] # user[h]
        BY <1>4, <4>1 DEF CommitLogin, NothingEscapes
      <4>. QED BY <1>4, <4>1, <4>2 DEF CommitLogin, Ruled
    <3>. QED BY <3>1, <3>2
  <2>4. ASSUME NEW g \in Handlers, Refreshing(g)'
        PROVE  LatestOr(user[g], session[token[g]])'
    <3>1. g # h /\ Refreshing(g) /\ user'[g] = user[g] /\ token'[g] = token[g]
      BY <1>4, <2>4 DEF CommitLogin
    <3>2. CASE user[g] = user[h]
      BY <1>4, <3>1, <3>2 DEF CommitLogin, BetweenTokens
    <3>3. CASE user[g] # user[h]
      BY <1>4, <3>1, <3>3 DEF CommitLogin, Ruled
    <3>. QED BY <3>2, <3>3
  <2>. QED BY <2>1, <2>2, <2>3, <2>4 DEF Ruled
<1>5. ASSUME NEW h \in Handlers, NEW t \in Tokens, Consume(h, t)
      PROVE  LoginInv'
  BY <1>5 DEF Consume, RowOfUserHeld, NothingEscapes, Ruled
<1>6. ASSUME NEW h \in Handlers, Store(h) PROVE LoginInv'
  <2>1. PICK t \in Tokens \ made :
            /\ owner' = [owner EXCEPT ![t] = user[h]]
            /\ session' = [session EXCEPT ![t] = session[token[h]]]
    BY <1>6 DEF Store
  <2>2. /\ \A s \in Stored : s # t
        /\ \A g \in Handlers : pc[g] # "idle" => token[g] # t
    BY <2>1 DEF Drawn
  <2>3. RowOfUserHeld'
    BY <1>6 DEF Store, RowOfUserHeld
  <2>4. NothingEscapes'
    BY <1>6, <2>1 DEF Store, NothingEscapes, RowOfUserHeld
  <2>5. Ruled'
    BY <1>6, <2>1, <2>2 DEF Store, Ruled
  <2>. QED BY <2>3, <2>4, <2>5
<1>7. ASSUME NEW h \in Handlers, Die(h) PROVE LoginInv'
  BY <1>7 DEF Die, RowOfUserHeld, NothingEscapes, Ruled
<1>8. ASSUME NEW t \in Tokens, ConsumeExpired(t) PROVE LoginInv'
  BY <1>8 DEF ConsumeExpired, RowOfUserHeld, NothingEscapes, Ruled
<1>9. ASSUME NEW t \in Tokens, Logout(t) PROVE LoginInv'
  BY <1>9 DEF Logout, RowOfUserHeld, NothingEscapes, Ruled
<1>10. ASSUME NEW t \in Tokens, Expire(t) PROVE LoginInv'
  BY <1>10 DEF Expire, RowOfUserHeld, NothingEscapes, Ruled
<1>11. CASE UNCHANGED vars
  BY <1>11 DEF vars, RowOfUserHeld, NothingEscapes, Ruled
<1>. QED
  BY <1>1, <1>2, <1>3, <1>4, <1>5, <1>6, <1>7, <1>8, <1>9, <1>10, <1>11
  DEF Next

LEMMA AlwaysLogin == Spec => []LoginInv
<1>1. Init => LoginInv
  BY SessionAssumption
  DEF Init, LoginInv, RowOfUserHeld, NothingEscapes, Ruled, Stored, Refreshing
<1>. QED BY <1>1, StepLoginInv, SessionInvariant, PTL DEF Spec

(* A login ends the sessions before it, but for those of refreshes that    *)
(* are between their two statements when it commits.                       *)
THEOREM LoginsRule == Spec => []LatestLoginRules
<1>1. LoginInv => LatestLoginRules
  BY DEF LoginInv, Ruled, LatestOr, LatestLoginRules
<1>. QED BY <1>1, AlwaysLogin, PTL

(* No refresh stores its token after a login of the user has committed in  *)
(* between its two statements.                                             *)
NoneStoredLate ==
    [][\A h \in Handlers : Store(h) => session[token[h]] \notin overtaken]_vars

LatestOnly == \A t \in Stored : session[t] = latest[owner[t]]

LEMMA StepLatestOnly ==
    ASSUME SessionInv, LoginInv, LatestOnly, [Next]_vars,
           \A h \in Handlers : Store(h) => session[token[h]] \notin overtaken
    PROVE  LatestOnly'
<1> USE SessionAssumption DEF SessionInv, TypeOK, Goto, Leave, Stored
<1>1. ASSUME NEW h \in Handlers, CommitLogin(h), NEW t \in Stored'
      PROVE  (session[t] = latest[owner[t]])'
  <2>1. CASE t = token[h]
    <3>1. session[t] = t
      BY <1>1, <2>1 DEF CommitLogin, Held, LoginsFresh, LoggingIn
    <3>. QED BY <1>1, <2>1, <3>1 DEF CommitLogin
  <2>2. CASE t # token[h]
    <3>1. t \in Stored /\ t \notin deleting[h] /\ owner'[t] = owner[t]
      BY <1>1, <2>2 DEF CommitLogin
    <3>2. owner[t] # user[h]
      BY <1>1, <3>1 DEF CommitLogin, LoginInv, NothingEscapes
    <3>. QED BY <1>1, <3>1, <3>2 DEF CommitLogin, LatestOnly
  <2>. QED BY <2>1, <2>2
<1>2. ASSUME NEW h \in Handlers, Store(h), NEW s \in Stored'
      PROVE  (session[s] = latest[owner[s]])'
  <2>1. PICK t \in Tokens \ made :
            /\ owner' = [owner EXCEPT ![t] = user[h]]
            /\ session' = [session EXCEPT ![t] = session[token[h]]]
    BY <1>2 DEF Store
  <2>2. t \notin Stored /\ latest' = latest
    BY <1>2, <2>1 DEF Drawn, Store
  <2>3. session[token[h]] = latest[user[h]]
    BY <1>2 DEF Store, LoginInv, Ruled, LatestOr, Refreshing
  <2>. QED BY <1>2, <2>1, <2>2, <2>3 DEF LatestOnly, Store
<1>3. ASSUME \A t \in Stored' : t \in Stored /\ owner'[t] = owner[t],
             session' = session, latest' = latest
      PROVE  LatestOnly'
  BY <1>3 DEF LatestOnly
<1>4. ASSUME NEW h \in Handlers,
             \/ \E u \in Users : BeginLogin(h, u)
             \/ LockUser(h) \/ DeleteAll(h) \/ Die(h)
      PROVE  LatestOnly'
  BY <1>3, <1>4 DEF BeginLogin, LockUser, DeleteAll, Die
<1>5. ASSUME NEW t \in Tokens,
             \/ \E h \in Handlers : Consume(h, t)
             \/ ConsumeExpired(t) \/ Logout(t) \/ Expire(t)
      PROVE  LatestOnly'
  BY <1>3, <1>5 DEF Consume, ConsumeExpired, Logout, Expire
<1>6. CASE UNCHANGED vars
  BY <1>3, <1>6 DEF vars
<1>. QED
  BY <1>1, <1>2, <1>4, <1>5, <1>6 DEF Next, LatestOnly

(* Sessions.AtMostOneToken: a refresh token stored late is all that keeps  *)
(* a user from having one token at most.  If both statements of a refresh  *)
(* held the lock on the user's row that a login takes, there would be none.*)
THEOREM OneTokenUnlessStoredLate == Spec /\ NoneStoredLate => []AtMostOneToken
<1>1. Init => LatestOnly
  BY SessionAssumption DEF Init, LatestOnly, Stored
<1>2. SessionInv /\ LoginInv /\ LatestOnly /\ [Next]_vars
        /\ [\A h \in Handlers : Store(h) => session[token[h]] \notin overtaken]_vars
        => LatestOnly'
  <2>1. CASE UNCHANGED vars
    BY <2>1 DEF LatestOnly, Stored, vars
  <2>. QED BY <2>1, StepLatestOnly
<1>3. SessionInv /\ LatestOnly => AtMostOneToken
  <2> SUFFICES ASSUME SessionInv, LatestOnly, NEW t1 \in Stored,
                      NEW t2 \in Stored, owner[t1] = owner[t2]
               PROVE  t1 = t2
    BY DEF AtMostOneToken
  <2>1. session[t1] = session[t2]
    BY DEF LatestOnly
  <2>. QED BY <2>1 DEF SessionInv, Held, HeldOnce
<1>. QED
  BY <1>1, <1>2, <1>3, SessionInvariant, AlwaysLogin, PTL
     DEF Spec, NoneStoredLate
-----------------------------------------------------------------------------
(* Every session goes back to a login, which is its own, and a login       *)
(* deletes tokens of its user only.                                        *)
Rooted == \A t \in Tokens : session[session[t]] = session[t]

DeletingOwn ==
    \A h \in Handlers : /\ deleting[h] # {} => pc[h] = "commit"
                        /\ \A t \in deleting[h] : owner[t] = user[h]

PromiseInv == Rooted /\ DeletingOwn

LEMMA StepPromiseInv ==
    SessionInv /\ LoginInv /\ PromiseInv /\ [Next]_vars => PromiseInv'
<1> SUFFICES ASSUME SessionInv, LoginInv, PromiseInv, [Next]_vars
             PROVE  PromiseInv'
  OBVIOUS
<1> USE SessionAssumption DEF SessionInv, TypeOK, PromiseInv, Goto, Leave, Stored
<1>1. ASSUME NEW h \in Handlers, NEW u \in Users, BeginLogin(h, u)
      PROVE  PromiseInv'
  BY <1>1 DEF BeginLogin, Rooted, DeletingOwn
<1>2. ASSUME NEW h \in Handlers, LockUser(h) PROVE PromiseInv'
  BY <1>2 DEF LockUser, Rooted, DeletingOwn
<1>3. ASSUME NEW h \in Handlers, DeleteAll(h) PROVE PromiseInv'
  BY <1>3 DEF DeleteAll, Rooted, DeletingOwn
<1>4. ASSUME NEW h \in Handlers, CommitLogin(h) PROVE PromiseInv'
  <2>1. Rooted'
    BY <1>4 DEF CommitLogin, Rooted
  <2>2. ASSUME NEW g \in Handlers, g # h, NEW t \in deleting[g]
        PROVE  owner'[t] = user[g]
    <3>1. pc[g] = "commit" /\ owner[t] = user[g] /\ t \in Stored
      BY <2>2 DEF DeletingOwn
    <3>2. user[g] # user[h]
      BY <1>4, <2>2, <3>1 DEF CommitLogin, LoginInv, RowOfUserHeld
    <3>3. t \notin deleting[h] /\ t # token[h]
      BY <1>4, <3>1, <3>2
      DEF CommitLogin, DeletingOwn, Held, LoginsFresh, LoggingIn
    <3>. QED BY <1>4, <3>1, <3>3 DEF CommitLogin
  <2>3. DeletingOwn'
    BY <1>4, <2>2 DEF CommitLogin, DeletingOwn
  <2>. QED BY <2>1, <2>3
<1>5. ASSUME NEW h \in Handlers, NEW t \in Tokens, Consume(h, t)
      PROVE  PromiseInv'
  BY <1>5 DEF Consume, RowLocked, Rooted, DeletingOwn
<1>6. ASSUME NEW h \in Handlers, Store(h) PROVE PromiseInv'
  <2>1. PICK t \in Tokens \ made :
            /\ owner' = [owner EXCEPT ![t] = user[h]]
            /\ session' = [session EXCEPT ![t] = session[token[h]]]
    BY <1>6 DEF Store
  <2>2. /\ session[token[h]] \in made /\ token[h] \in made
        /\ \A s \in Tokens : s # t => session[s] # t
    BY <1>6, <2>1 DEF Store, Drawn
  <2>3. Rooted'
    BY <2>1, <2>2 DEF Rooted
  <2>4. \A g \in Handlers : t \notin deleting[g]
    BY <2>1 DEF DeletingOwn, Drawn
  <2>5. DeletingOwn'
    BY <1>6, <2>1, <2>4 DEF Store, DeletingOwn
  <2>. QED BY <2>3, <2>5
<1>7. ASSUME NEW h \in Handlers, Die(h) PROVE PromiseInv'
  BY <1>7 DEF Die, Rooted, DeletingOwn
<1>8. ASSUME NEW t \in Tokens, ConsumeExpired(t) PROVE PromiseInv'
  BY <1>8 DEF ConsumeExpired, RowLocked, Rooted, DeletingOwn
<1>9. ASSUME NEW t \in Tokens, Logout(t) PROVE PromiseInv'
  BY <1>9 DEF Logout, RowLocked, Rooted, DeletingOwn
<1>10. ASSUME NEW t \in Tokens, Expire(t) PROVE PromiseInv'
  BY <1>10 DEF Expire, Rooted, DeletingOwn
<1>11. CASE UNCHANGED vars
  BY <1>11 DEF vars, Rooted, DeletingOwn
<1>. QED
  BY <1>1, <1>2, <1>3, <1>4, <1>5, <1>6, <1>7, <1>8, <1>9, <1>10, <1>11
  DEF Next

(* The abstract state, and how the tokens and requests of a session give   *)
(* its stage, now and after a step.                                        *)
Stages  == [s \in Tokens |-> Stage(s)]
Holding == [s \in Tokens |-> HeldBy(s)]
Begun(s) == s \in made /\ session[s] = s /\ ~BeingMade(s)

StageClear(s) ==
    /\ \A t : HoldingTokens(s) = {t} /\ Exchanging(s) = {} =>
          Stage(s) = "held" /\ HeldBy(s) = {owner[t]}
    /\ \A h : HoldingTokens(s) = {} /\ Exchanging(s) = {h} =>
          Stage(s) = "exchanging" /\ HeldBy(s) = {user[h]}
    /\ HoldingTokens(s) = {} /\ Exchanging(s) = {} =>
          /\ Stage(s) = IF Begun(s) THEN "over" ELSE "new"
          /\ HeldBy(s) = {}

LEMMA StageClearNow == \A s \in Tokens : StageClear(s)
<1> SUFFICES ASSUME NEW s \in Tokens PROVE StageClear(s)
  OBVIOUS
<1>1. ASSUME NEW t, HoldingTokens(s) = {t}, Exchanging(s) = {}
      PROVE  Stage(s) = "held" /\ HeldBy(s) = {owner[t]}
  BY <1>1 DEF Stage, HeldBy
<1>2. ASSUME NEW h, HoldingTokens(s) = {}, Exchanging(s) = {h}
      PROVE  Stage(s) = "exchanging" /\ HeldBy(s) = {user[h]}
  BY <1>2 DEF Stage, HeldBy
<1>3. ASSUME HoldingTokens(s) = {}, Exchanging(s) = {}
      PROVE  /\ Stage(s) = IF Begun(s) THEN "over" ELSE "new"
             /\ HeldBy(s) = {}
  BY <1>3 DEF Stage, HeldBy, Begun
<1>. QED BY <1>1, <1>2, <1>3 DEF StageClear

LEMMA StageClearNext == (\A s \in Tokens : StageClear(s))'
BY StageClearNow, PTL

LEMMA StageNext ==
    ASSUME NEW s \in Tokens
    PROVE  /\ \A t : HoldingTokens(s)' = {t} /\ Exchanging(s)' = {} =>
                 Stage(s)' = "held" /\ HeldBy(s)' = {owner'[t]}
           /\ \A h : HoldingTokens(s)' = {} /\ Exchanging(s)' = {h} =>
                 Stage(s)' = "exchanging" /\ HeldBy(s)' = {user'[h]}
           /\ HoldingTokens(s)' = {} /\ Exchanging(s)' = {} /\ Begun(s)' =>
                 Stage(s)' = "over" /\ HeldBy(s)' = {}
BY StageClearNext DEF StageClear

(* What SessionInv says of it: a session that is held has one token, and   *)
(* is not being exchanged or made.                                         *)
LEMMA StageOf ==
    ASSUME SessionInv, PromiseInv, NEW s \in Tokens
    PROVE  /\ \A t \in HoldingTokens(s) :
                 /\ HoldingTokens(s) = {t} /\ Exchanging(s) = {} /\ Begun(s)
                 /\ Stage(s) = "held" /\ HeldBy(s) = {owner[t]}
           /\ \A h \in Exchanging(s) :
                 /\ HoldingTokens(s) = {} /\ Exchanging(s) = {h} /\ Begun(s)
                 /\ Stage(s) = "exchanging" /\ HeldBy(s) = {user[h]}
           /\ HoldingTokens(s) = {} /\ Exchanging(s) = {} =>
                 /\ Stage(s) = IF Begun(s) THEN "over" ELSE "new"
                 /\ HeldBy(s) = {}
<1>1. ASSUME NEW t \in HoldingTokens(s)
      PROVE  HoldingTokens(s) = {t} /\ Exchanging(s) = {} /\ Begun(s)
  <2>1. /\ HoldingTokens(s) = {t} /\ Exchanging(s) = {} /\ ~BeingMade(s)
    BY <1>1 DEF SessionInv, Held, HeldOnce, LoginsFresh, HoldingTokens,
                Exchanging, BeingMade, Refreshing, LoggingIn
  <2>2. s \in made /\ session[s] = s
    BY <1>1 DEF SessionInv, Drawn, PromiseInv, Rooted, HoldingTokens, Stored
  <2>. QED BY <2>1, <2>2 DEF Begun
<1>2. ASSUME NEW h \in Exchanging(s)
      PROVE  HoldingTokens(s) = {} /\ Exchanging(s) = {h} /\ Begun(s)
  <2>1. /\ HoldingTokens(s) = {} /\ Exchanging(s) = {h} /\ ~BeingMade(s)
    BY <1>2 DEF SessionInv, Held, HeldOnce, LoginsFresh, HoldingTokens,
                Exchanging, BeingMade, Refreshing, LoggingIn
  <2>2. s \in made /\ session[s] = s
    BY <1>2 DEF SessionInv, TypeOK, Drawn, PromiseInv, Rooted, Exchanging
  <2>. QED BY <2>1, <2>2 DEF Begun
<1>3. StageClear(s)
  BY StageClearNow
<1>. QED BY <1>1, <1>2, <1>3 DEF StageClear

(* What a step leaves of a session alone.                                  *)
Untouched(s) ==
    /\ HoldingTokens(s)' = HoldingTokens(s) /\ Exchanging(s)' = Exchanging(s)
    /\ \A t \in HoldingTokens(s) : owner'[t] = owner[t]
    /\ \A h \in Exchanging(s) : user'[h] = user[h]
    /\ Begun(s)' = Begun(s)

LEMMA UntouchedSame ==
    ASSUME NEW s, Untouched(s)
    PROVE  Stage(s)' = Stage(s) /\ HeldBy(s)' = HeldBy(s)
BY DEF Untouched, Stage, HeldBy, Begun

LEMMA AllUntouched ==
    ASSUME \A s \in Tokens : Untouched(s)
    PROVE  UNCHANGED Promise!vars
<1>1. Stages' = Stages /\ Holding' = Holding
  BY UntouchedSame DEF Stages, Holding
<1>. QED BY <1>1 DEF Promise!vars, Stages, Holding

(* A change of one session's stage.                                        *)
LEMMA OneMoves ==
    ASSUME NEW s \in Tokens, \A r \in Tokens : r # s => Untouched(r)
    PROVE  /\ Promise!Move(s, Stage(s), Stage(s)')
           /\ HeldBy(s)' = HeldBy(s) => UNCHANGED Holding
           /\ HeldBy(s)' = {} => Holding' = [Holding EXCEPT ![s] = {}]
<1>1. \A r \in Tokens : r # s => Stage(r)' = Stage(r) /\ HeldBy(r)' = HeldBy(r)
  BY UntouchedSame
<1>2. Stages' = [Stages EXCEPT ![s] = Stage(s)'] /\ Stages[s] = Stage(s)
  BY <1>1 DEF Stages
<1>3. /\ HeldBy(s)' = HeldBy(s) => Holding' = Holding
      /\ HeldBy(s)' = {} => Holding' = [Holding EXCEPT ![s] = {}]
  BY <1>1 DEF Holding
<1>. QED BY <1>2, <1>3 DEF Promise!Move, Stages

LEMMA OneEnds ==
    ASSUME NEW s \in Tokens, \A r \in Tokens : r # s => Untouched(r),
           Stage(s) \in {"new", "held", "exchanging"}, Stage(s)' = "over",
           HeldBy(s)' = {}
    PROVE  Promise!Next
<1>1. Promise!Move(s, Stage(s), "over")
  BY OneMoves
<1>2. Holding' = [Holding EXCEPT ![s] = {}]
  BY OneMoves
<1>. QED BY <1>1, <1>2 DEF Promise!Next, Promise!End, Holding

(* The sessions a user holds: a login of the user ends them.               *)
EndedBy(u) == {r \in Tokens : Stage(r) = "held" /\ HeldBy(r) = {u}}

LEMMA OneBegins ==
    ASSUME NEW s \in Tokens, NEW u \in Users,
           Stage(s) = "new", Stage(s)' = "held", HeldBy(s)' = {u},
           \A r \in Tokens \ {s} :
              /\ r \in EndedBy(u) => Stage(r)' = "over" /\ HeldBy(r)' = {}
              /\ r \notin EndedBy(u) =>
                    Stage(r)' = Stage(r) /\ HeldBy(r)' = HeldBy(r)
    PROVE  Promise!Next
<1>1. Promise!Ended(u) = EndedBy(u)
  BY DEF Promise!Ended, EndedBy
<1>2. Stages[s] = "new"
  BY DEF Stages
<1>3. Stages' = [r \in Tokens |-> CASE r = s -> "held"
                                    [] r \in EndedBy(u) -> "over"
                                    [] OTHER -> Stages[r]]
  BY DEF Stages, EndedBy
<1>4. Holding' = [r \in Tokens |-> CASE r = s -> {u}
                                     [] r \in EndedBy(u) -> {}
                                     [] OTHER -> Holding[r]]
  BY DEF Holding, EndedBy
<1>5. Promise!Begin(s, u)
  BY <1>1, <1>2, <1>3, <1>4 DEF Promise!Begin, Stages, Holding
<1>. QED BY <1>5 DEF Promise!Next

LEMMA BeginLoginPromise ==
    ASSUME SessionInv, NEW h \in Handlers, NEW u \in Users, BeginLogin(h, u)
    PROVE  UNCHANGED Promise!vars
<1> SUFFICES ASSUME NEW s \in Tokens PROVE Untouched(s)
  BY AllUntouched
<1> USE DEF SessionInv, TypeOK, Goto
<1>1. PICK t \in Tokens \ made : /\ made' = made \cup {t}
                                 /\ token' = [token EXCEPT ![h] = t]
  BY DEF BeginLogin
<1>2. HoldingTokens(s)' = HoldingTokens(s) /\ Exchanging(s)' = Exchanging(s)
  BY <1>1 DEF BeginLogin, HoldingTokens, Exchanging, Stored
<1>3. BeingMade(s)' = (BeingMade(s) \/ s = t)
  BY <1>1 DEF BeginLogin, BeingMade
<1>4. Begun(s)' = Begun(s)
  BY <1>1, <1>3 DEF Begun, BeginLogin
<1>5. \A g \in Exchanging(s) : user'[g] = user[g]
  BY DEF BeginLogin, Exchanging
<1>. QED BY <1>2, <1>4, <1>5 DEF Untouched, BeginLogin

LEMMA LockDeletePromise ==
    ASSUME SessionInv, NEW h \in Handlers, LockUser(h) \/ DeleteAll(h)
    PROVE  UNCHANGED Promise!vars
<1> SUFFICES ASSUME NEW s \in Tokens PROVE Untouched(s)
  BY AllUntouched
<1>1. /\ UNCHANGED <<owner, user, token, made, session>>
      /\ \A g \in Handlers :
            /\ pc'[g] = "store" <=> pc[g] = "store"
            /\ pc'[g] \in {"lock", "delete", "commit"}
                  <=> pc[g] \in {"lock", "delete", "commit"}
  BY DEF LockUser, DeleteAll, Goto, SessionInv, TypeOK
<1>2. HoldingTokens(s)' = HoldingTokens(s)
  BY <1>1 DEF HoldingTokens, Stored
<1>3. Exchanging(s)' = Exchanging(s)
  BY <1>1 DEF Exchanging
<1>4. Begun(s)' = Begun(s)
  BY <1>1 DEF Begun, BeingMade
<1>. QED BY <1>1, <1>2, <1>3, <1>4 DEF Untouched

(* A commit begins the session of the token it stores: the user's other    *)
(* tokens are the ones deleted, for the user's row is locked.              *)
LEMMA CommitLoginPromise ==
    ASSUME SessionInv, LoginInv, PromiseInv, NEW h \in Handlers, CommitLogin(h)
    PROVE  Promise!Next
<1> PICK s \in Tokens : s = token[h]
  BY DEF CommitLogin, SessionInv, TypeOK
<1> PICK u \in Users : u = user[h]
  BY DEF CommitLogin, SessionInv, TypeOK
<1>1. /\ pc[h] = "commit" /\ s \in made /\ session[s] = s /\ BeingMade(s)
      /\ HoldingTokens(s) = {} /\ Exchanging(s) = {} /\ s \notin Stored
      /\ \A g \in Handlers : pc[g] \in {"lock", "delete", "commit"}
                               /\ token[g] = s => g = h
  BY DEF CommitLogin, SessionInv, Drawn, Held, LoginsFresh, LoggingIn,
         Refreshing, HoldingTokens, Exchanging, BeingMade
<1>2. /\ \A t \in Tokens : owner'[t] = IF t = s THEN u
                                       ELSE IF t \in deleting[h] THEN NoUser
                                       ELSE owner[t]
      /\ UNCHANGED <<made, session>>
  BY DEF CommitLogin
<1>3. /\ \A g \in Handlers \ {h} : /\ pc'[g] = pc[g] /\ user'[g] = user[g]
                                   /\ token'[g] = token[g]
      /\ pc'[h] = "idle"
  BY DEF CommitLogin, Leave, Goto, SessionInv, TypeOK
<1>4. \A t \in Stored : t \in deleting[h] <=> owner[t] = u
  BY DEF CommitLogin, LoginInv, NothingEscapes, PromiseInv, DeletingOwn
<1>5. Stage(s) = "new"
  BY <1>1, StageOf DEF Begun
<1>6. Stage(s)' = "held" /\ HeldBy(s)' = {u}
  <2>1. HoldingTokens(s)' = {s}
    BY <1>1, <1>2, SessionAssumption
    DEF HoldingTokens, Stored, SessionInv, TypeOK
  <2>2. Exchanging(s)' = {}
    BY <1>1, <1>2, <1>3 DEF Exchanging
  <2>. QED BY <1>2, <2>1, <2>2, StageNext
<1>7. ASSUME NEW r \in Tokens, r # s
      PROVE  /\ HoldingTokens(r)' = HoldingTokens(r) \ deleting[h]
             /\ Exchanging(r)' = Exchanging(r)
             /\ \A g \in Exchanging(r) : user'[g] = user[g]
             /\ Begun(r)' = Begun(r)
             /\ \A t \in HoldingTokens(r) \ deleting[h] : owner'[t] = owner[t]
  <2>1. HoldingTokens(r)' = HoldingTokens(r) \ deleting[h]
    BY <1>1, <1>2, <1>7, SessionAssumption DEF HoldingTokens, Stored
  <2>2. /\ Exchanging(r)' = Exchanging(r)
        /\ \A g \in Exchanging(r) : user'[g] = user[g]
    BY <1>1, <1>2, <1>3 DEF Exchanging
  <2>3. BeingMade(r)' = BeingMade(r)
    BY <1>1, <1>3, <1>7 DEF BeingMade
  <2>4. Begun(r)' = Begun(r)
    BY <1>2, <2>3 DEF Begun
  <2>5. \A t \in HoldingTokens(r) \ deleting[h] : owner'[t] = owner[t]
    BY <1>1, <1>2 DEF HoldingTokens, Stored
  <2>. QED BY <2>1, <2>2, <2>4, <2>5
<1>8. ASSUME NEW r \in Tokens, r # s, r \in EndedBy(u)
      PROVE  Stage(r)' = "over" /\ HeldBy(r)' = {}
  <2>1. PICK t \in HoldingTokens(r) : TRUE
    BY <1>8, StageOf DEF EndedBy
  <2>2. /\ HoldingTokens(r) = {t} /\ Exchanging(r) = {} /\ Begun(r)
        /\ owner[t] = u
    BY <1>8, <2>1, StageOf DEF EndedBy
  <2>3. t \in deleting[h]
    BY <1>4, <2>2 DEF HoldingTokens
  <2>4. HoldingTokens(r)' = {} /\ Exchanging(r)' = {} /\ Begun(r)'
    BY <1>7, <1>8, <2>2, <2>3
  <2>. QED BY <2>4, StageNext
<1>9. ASSUME NEW r \in Tokens, r # s, r \notin EndedBy(u)
      PROVE  Stage(r)' = Stage(r) /\ HeldBy(r)' = HeldBy(r)
  <2>1. ASSUME NEW t \in HoldingTokens(r) PROVE t \notin deleting[h]
    <3>1. Stage(r) = "held" /\ HeldBy(r) = {owner[t]}
      BY <2>1, StageOf
    <3>2. owner[t] # u
      BY <1>9, <3>1 DEF EndedBy
    <3>. QED BY <1>4, <2>1, <3>2 DEF HoldingTokens
  <2>2. Untouched(r)
    BY <1>7, <1>9, <2>1 DEF Untouched
  <2>. QED BY <2>2, UntouchedSame
<1>. QED BY <1>5, <1>6, <1>8, <1>9, OneBegins

LEMMA ConsumePromise ==
    ASSUME SessionInv, PromiseInv, NEW h \in Handlers, NEW t \in Tokens,
           Consume(h, t)
    PROVE  Promise!Next
<1> PICK s \in Tokens : s = session[t]
  BY DEF SessionInv, TypeOK
<1>1. /\ t \in Stored /\ owner' = [owner EXCEPT ![t] = NoUser]
      /\ pc[h] = "idle" /\ pc'[h] = "store" /\ token'[h] = t
      /\ user'[h] = owner[t] /\ UNCHANGED <<made, session>>
      /\ \A g \in Handlers \ {h} : /\ pc'[g] = pc[g] /\ user'[g] = user[g]
                                   /\ token'[g] = token[g]
  BY DEF Consume, Goto, SessionInv, TypeOK
<1>2. /\ HoldingTokens(s) = {t} /\ Exchanging(s) = {} /\ Stage(s) = "held"
      /\ HeldBy(s) = {owner[t]}
  <2>1. t \in HoldingTokens(s)
    BY <1>1 DEF HoldingTokens
  <2>. QED BY <2>1, StageOf
<1>3. HoldingTokens(s)' = {} /\ Exchanging(s)' = {h}
  <2>1. HoldingTokens(s)' = {}
    BY <1>1, <1>2, SessionAssumption
    DEF HoldingTokens, Stored, SessionInv, TypeOK
  <2>2. Exchanging(s)' = {h}
    BY <1>1, <1>2 DEF Exchanging
  <2>. QED BY <2>1, <2>2
<1>4. Stage(s)' = "exchanging" /\ HeldBy(s)' = HeldBy(s)
  BY <1>1, <1>2, <1>3, StageNext
<1>5. ASSUME NEW r \in Tokens, r # s PROVE Untouched(r)
  <2>1. /\ HoldingTokens(r)' = HoldingTokens(r)
        /\ \A x \in HoldingTokens(r) : owner'[x] = owner[x]
    BY <1>1, <1>5, SessionAssumption
    DEF HoldingTokens, Stored, SessionInv, TypeOK
  <2>2. /\ Exchanging(r)' = Exchanging(r)
        /\ \A g \in Exchanging(r) : user'[g] = user[g]
    BY <1>1, <1>5 DEF Exchanging
  <2>3. BeingMade(r)' = BeingMade(r)
    BY <1>1 DEF BeingMade
  <2>4. Begun(r)' = Begun(r)
    BY <1>1, <2>3 DEF Begun
  <2>. QED BY <2>1, <2>2, <2>4 DEF Untouched
<1>6. Promise!Move(s, "held", "exchanging") /\ UNCHANGED Holding
  BY <1>2, <1>4, <1>5, OneMoves
<1>. QED BY <1>6 DEF Promise!Next, Promise!Present, Holding

LEMMA StorePromise ==
    ASSUME SessionInv, PromiseInv, NEW h \in Handlers, Store(h)
    PROVE  Promise!Next
<1> PICK s \in Tokens : s = session[token[h]]
  BY DEF Store, SessionInv, TypeOK
<1> PICK t \in Tokens \ made :
            /\ made' = made \cup {t}
            /\ owner' = [owner EXCEPT ![t] = user[h]]
            /\ session' = [session EXCEPT ![t] = session[token[h]]]
  BY DEF Store
<1>1. /\ pc[h] = "store" /\ pc'[h] = "idle" /\ user[h] \in Users
      /\ \A g \in Handlers \ {h} : /\ pc'[g] = pc[g] /\ user'[g] = user[g]
                                   /\ token'[g] = token[g]
  BY DEF Store, Leave, Goto, SessionInv, TypeOK
<1>2. /\ HoldingTokens(s) = {} /\ Exchanging(s) = {h}
      /\ Stage(s) = "exchanging" /\ HeldBy(s) = {user[h]}
  <2>1. h \in Exchanging(s)
    BY <1>1 DEF Exchanging
  <2>. QED BY <2>1, StageOf
<1>3. /\ t \notin Stored /\ s \in made /\ s # t /\ session[t] = t
      /\ \A g \in Handlers : pc[g] # "idle" => token[g] \in made
  BY <1>1 DEF SessionInv, Drawn
<1>4. /\ owner'[t] = user[h] /\ session'[t] = s
      /\ \A x \in Tokens \ {t} : owner'[x] = owner[x] /\ session'[x] = session[x]
  BY DEF SessionInv, TypeOK
<1>5. HoldingTokens(s)' = {t} /\ Exchanging(s)' = {}
  <2>1. HoldingTokens(s)' = {t}
    BY <1>1, <1>2, <1>4, SessionAssumption DEF HoldingTokens, Stored
  <2>2. Exchanging(s)' = {}
    BY <1>1, <1>2, <1>3, <1>4 DEF Exchanging, SessionInv, TypeOK
  <2>. QED BY <2>1, <2>2
<1>6. Stage(s)' = "held" /\ HeldBy(s)' = HeldBy(s)
  BY <1>2, <1>4, <1>5, StageNext
<1>7. ASSUME NEW r \in Tokens, r # s PROVE Untouched(r)
  <2>1. /\ HoldingTokens(r)' = HoldingTokens(r)
        /\ \A x \in HoldingTokens(r) : owner'[x] = owner[x]
    BY <1>1, <1>3, <1>4, <1>7, SessionAssumption DEF HoldingTokens, Stored
  <2>2. /\ Exchanging(r)' = Exchanging(r)
        /\ \A g \in Exchanging(r) : user'[g] = user[g]
    BY <1>1, <1>3, <1>4, <1>7 DEF Exchanging, SessionInv, TypeOK
  <2>3. BeingMade(r)' = BeingMade(r)
    BY <1>1 DEF BeingMade
  <2>4. CASE r = t
    <3>1. Begun(r) = FALSE /\ Begun(r)' = FALSE
      BY <1>3, <1>4, <2>4 DEF Begun
    <3>. QED BY <2>1, <2>2, <3>1 DEF Untouched
  <2>5. CASE r # t
    <3>1. Begun(r)' = Begun(r)
      BY <1>4, <2>3, <2>5 DEF Begun
    <3>. QED BY <2>1, <2>2, <3>1 DEF Untouched
  <2>. QED BY <2>4, <2>5
<1>8. Promise!Move(s, "exchanging", "held") /\ UNCHANGED Holding
  BY <1>2, <1>6, <1>7, OneMoves
<1>. QED BY <1>8 DEF Promise!Next, Promise!Replace, Holding

(* A stored token deleted, and not replaced, ends its session.             *)
LEMMA DeletedPromise ==
    ASSUME SessionInv, PromiseInv, NEW t \in Stored,
           owner' = [owner EXCEPT ![t] = NoUser],
           UNCHANGED <<pc, user, token, made, session>>
    PROVE  Promise!Next
<1> PICK s \in Tokens : s = session[t]
  BY DEF SessionInv, TypeOK, Stored
<1>1. /\ HoldingTokens(s) = {t} /\ Exchanging(s) = {} /\ Stage(s) = "held"
      /\ Begun(s)
  <2>1. t \in HoldingTokens(s)
    BY DEF HoldingTokens
  <2>. QED BY <2>1, StageOf
<1>2. \A r \in Tokens : /\ Exchanging(r)' = Exchanging(r)
                        /\ \A g \in Exchanging(r) : user'[g] = user[g]
  BY DEF Exchanging
<1>3. \A r \in Tokens : Begun(r)' = Begun(r)
  BY DEF Begun, BeingMade
<1>4. HoldingTokens(s)' = {}
  BY <1>1, SessionAssumption DEF HoldingTokens, Stored, SessionInv, TypeOK
<1>5. Stage(s)' = "over" /\ HeldBy(s)' = {}
  BY <1>1, <1>2, <1>3, <1>4, StageNext
<1>6. ASSUME NEW r \in Tokens, r # s PROVE Untouched(r)
  <2>1. /\ HoldingTokens(r)' = HoldingTokens(r)
        /\ \A x \in HoldingTokens(r) : owner'[x] = owner[x]
    BY <1>6, SessionAssumption DEF HoldingTokens, Stored, SessionInv, TypeOK
  <2>. QED BY <1>2, <1>3, <2>1 DEF Untouched
<1>. QED BY <1>1, <1>5, <1>6, OneEnds

LEMMA UnreadPromise ==
    ASSUME UNCHANGED <<owner, pc, user, token, made, session>>
    PROVE  UNCHANGED Promise!vars
<1> SUFFICES ASSUME NEW s \in Tokens PROVE Untouched(s)
  BY AllUntouched
<1>1. /\ HoldingTokens(s)' = HoldingTokens(s)
      /\ \A x \in HoldingTokens(s) : owner'[x] = owner[x]
  BY DEF HoldingTokens, Stored
<1>2. /\ Exchanging(s)' = Exchanging(s)
      /\ \A g \in Exchanging(s) : user'[g] = user[g]
  BY DEF Exchanging
<1>3. Begun(s)' = Begun(s)
  BY DEF Begun, BeingMade
<1>. QED BY <1>1, <1>2, <1>3 DEF Untouched

(* A login that dies ends the session it was beginning, a refresh between  *)
(* its two statements the one it was exchanging.                           *)
LEMMA DiePromise ==
    ASSUME SessionInv, PromiseInv, NEW h \in Handlers, Die(h)
    PROVE  Promise!Next
<1>1. /\ pc[h] \in {"lock", "delete", "commit", "store"} /\ pc'[h] = "idle"
      /\ token[h] \in Tokens /\ UNCHANGED <<owner, made, session>>
      /\ \A g \in Handlers \ {h} : /\ pc'[g] = pc[g] /\ user'[g] = user[g]
                                   /\ token'[g] = token[g]
  BY DEF Die, Leave, Goto, SessionInv, TypeOK
<1>2. \A r \in Tokens : /\ HoldingTokens(r)' = HoldingTokens(r)
                        /\ \A x \in HoldingTokens(r) : owner'[x] = owner[x]
  BY <1>1 DEF HoldingTokens, Stored
<1>3. CASE pc[h] = "store"
  <2> PICK s \in Tokens : s = session[token[h]]
    BY <1>1 DEF SessionInv, TypeOK
  <2>1. /\ HoldingTokens(s) = {} /\ Exchanging(s) = {h} /\ Begun(s)
        /\ Stage(s) = "exchanging"
    <3>1. h \in Exchanging(s)
      BY <1>3 DEF Exchanging
    <3>. QED BY <3>1, StageOf
  <2>2. \A r \in Tokens : BeingMade(r)' = BeingMade(r)
    BY <1>1, <1>3 DEF BeingMade
  <2>3. \A r \in Tokens : Begun(r)' = Begun(r)
    BY <1>1, <2>2 DEF Begun
  <2>4. Exchanging(s)' = {}
    BY <1>1, <2>1 DEF Exchanging
  <2>5. Stage(s)' = "over" /\ HeldBy(s)' = {}
    BY <1>2, <2>1, <2>3, <2>4, StageNext
  <2>6. ASSUME NEW r \in Tokens, r # s PROVE Untouched(r)
    <3>1. /\ Exchanging(r)' = Exchanging(r)
          /\ \A g \in Exchanging(r) : user'[g] = user[g]
      BY <1>1, <2>6 DEF Exchanging
    <3>. QED BY <1>2, <2>3, <3>1 DEF Untouched
  <2>. QED BY <2>1, <2>5, <2>6, OneEnds
<1>4. CASE pc[h] # "store"
  <2> PICK s \in Tokens : s = token[h]
    BY <1>1
  <2>1. /\ s \in made /\ session[s] = s /\ BeingMade(s)
        /\ HoldingTokens(s) = {} /\ Exchanging(s) = {}
        /\ \A g \in Handlers : pc[g] \in {"lock", "delete", "commit"}
                                 /\ token[g] = s => g = h
    BY <1>1, <1>4 DEF SessionInv, Drawn, Held, LoginsFresh, LoggingIn,
                      Refreshing, HoldingTokens, Exchanging, BeingMade
  <2>2. Stage(s) = "new"
    BY <2>1, StageOf DEF Begun
  <2>3. \A r \in Tokens : /\ Exchanging(r)' = Exchanging(r)
                          /\ \A g \in Exchanging(r) : user'[g] = user[g]
    BY <1>1, <1>4 DEF Exchanging
  <2>4. ~BeingMade(s)'
    BY <1>1, <2>1 DEF BeingMade
  <2>5. Begun(s)'
    BY <1>1, <2>1, <2>4 DEF Begun
  <2>6. Stage(s)' = "over" /\ HeldBy(s)' = {}
    BY <1>2, <2>1, <2>3, <2>5, StageNext
  <2>7. ASSUME NEW r \in Tokens, r # s PROVE Untouched(r)
    <3>1. BeingMade(r)' = BeingMade(r)
      BY <1>1, <2>7 DEF BeingMade
    <3>2. Begun(r)' = Begun(r)
      BY <1>1, <3>1 DEF Begun
    <3>. QED BY <1>2, <2>3, <3>2 DEF Untouched
  <2>. QED BY <2>2, <2>6, <2>7, OneEnds
<1>. QED BY <1>3, <1>4

(* Every step is one the promise allows, or changes nothing of it.         *)
LEMMA StepPromise ==
    SessionInv /\ LoginInv /\ PromiseInv /\ [Next]_vars
        => [Promise!Next]_(Promise!vars)
<1> SUFFICES ASSUME SessionInv, LoginInv, PromiseInv, [Next]_vars
             PROVE  Promise!Next \/ UNCHANGED Promise!vars
  OBVIOUS
<1>1. ASSUME NEW h \in Handlers, NEW u \in Users, BeginLogin(h, u)
      PROVE  UNCHANGED Promise!vars
  BY <1>1, BeginLoginPromise
<1>2. ASSUME NEW h \in Handlers, LockUser(h) \/ DeleteAll(h)
      PROVE  UNCHANGED Promise!vars
  BY <1>2, LockDeletePromise
<1>3. ASSUME NEW h \in Handlers, CommitLogin(h) PROVE Promise!Next
  BY <1>3, CommitLoginPromise
<1>4. ASSUME NEW h \in Handlers, NEW t \in Tokens, Consume(h, t)
      PROVE  Promise!Next
  BY <1>4, ConsumePromise
<1>5. ASSUME NEW h \in Handlers, Store(h) PROVE Promise!Next
  BY <1>5, StorePromise
<1>6. ASSUME NEW h \in Handlers, Die(h) PROVE Promise!Next
  BY <1>6, DiePromise
<1>7. ASSUME NEW t \in Tokens, ConsumeExpired(t) PROVE Promise!Next
  BY <1>7, DeletedPromise DEF ConsumeExpired
<1>8. ASSUME NEW t \in Tokens, Logout(t)
      PROVE  Promise!Next \/ UNCHANGED Promise!vars
  <2>1. CASE t \in Stored
    BY <1>8, <2>1, DeletedPromise DEF Logout
  <2>2. CASE t \notin Stored
    <3>1. owner' = owner
      BY <1>8, <2>2 DEF Logout, Stored, SessionInv, TypeOK
    <3>. QED BY <1>8, <3>1, UnreadPromise DEF Logout
  <2>. QED BY <2>1, <2>2
<1>9. ASSUME NEW t \in Tokens, Expire(t) PROVE UNCHANGED Promise!vars
  BY <1>9, UnreadPromise DEF Expire
<1>10. CASE UNCHANGED vars
  BY <1>10, UnreadPromise DEF vars
<1>. QED
  BY <1>1, <1>2, <1>3, <1>4, <1>5, <1>6, <1>7, <1>8, <1>9, <1>10 DEF Next

LEMMA InitPromise == Init => PromiseInv /\ Promise!Init
<1> SUFFICES ASSUME Init PROVE PromiseInv /\ Promise!Init
  OBVIOUS
<1>1. PromiseInv
  BY DEF Init, PromiseInv, Rooted, DeletingOwn
<1>2. ASSUME NEW s \in Tokens PROVE Stage(s) = "new" /\ HeldBy(s) = {}
  <2>1. HoldingTokens(s) = {} /\ Exchanging(s) = {} /\ ~Begun(s)
    BY DEF Init, HoldingTokens, Exchanging, Begun, Stored
  <2>. QED BY <2>1, StageClearNow DEF StageClear
<1>. QED BY <1>1, <1>2 DEF Promise!Init

LEMMA AlwaysPromiseInv == Spec => []PromiseInv
<1>1. Init => PromiseInv
  BY InitPromise
<1>. QED
  BY <1>1, SessionInvariant, AlwaysLogin, StepPromiseInv, PTL DEF Spec

(* However logins, refreshes and logouts of a user interleave, and         *)
(* wherever they die, a session passes from token to token of one user,    *)
(* ends for good, and ends when the user logs in again unless it is        *)
(* between two tokens: Sessions implements AbstractSession.                *)
THEOREM SessionsKeepPromise == Spec => ImplementsSession
<1>1. Init => Promise!Init
  BY InitPromise
<1>2. Spec => Promise!Spec
  BY <1>1, SessionInvariant, AlwaysLogin, AlwaysPromiseInv, StepPromise, PTL
  DEF Spec, Promise!Spec
<1>. QED BY <1>2 DEF ImplementsSession
=============================================================================
