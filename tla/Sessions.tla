------------------------------ MODULE Sessions ------------------------------
(***************************************************************************)
(* Refresh tokens: login, refresh and logout requests on one database.     *)
(*                                                                         *)
(* A login replaces all tokens of its user in one database transaction     *)
(* that locks the user's row first.  A refresh deletes the token it was    *)
(* given in one statement and stores the new one in another: the process   *)
(* may die in between, and other requests may come in between.  A logout   *)
(* deletes its token and writes the audit entry in one database            *)
(* transaction, a single step here.  Requests that change nothing (wrong   *)
(* password, a token that is not stored) are left out, as are the signed   *)
(* access tokens, which no table holds.                                    *)
(***************************************************************************)
EXTENDS Naturals

CONSTANTS Users,
          Tokens,           \* the random tokens there are to draw: a bound
          Handlers,         \* the HTTP requests being handled
          NoUser, NoHandler, NoToken

ASSUME SessionAssumption ==
    NoUser \notin Users /\ NoHandler \notin Handlers /\ NoToken \notin Tokens

VARIABLES
    owner,      \* the RefreshToken table: the user of each stored token
    expired,    \* the tokens whose time is over
    lockedBy,   \* the login whose transaction has locked the user's row
    deleting,   \* the rows a login has deleted and not yet committed
    pc, user, token,
    made,       \* the tokens drawn so far
    session,    \* history: the login each token goes back to
    latest,     \* history: the last login of each user to commit
    overtaken,  \* history: the sessions a login committed in the middle of
    closed      \* history: the sessions whose stored token was logged out

vars == <<owner, expired, lockedBy, deleting, pc, user, token, made, session,
          latest, overtaken, closed>>

Stored == {t \in Tokens : owner[t] # NoUser}

(* A statement on a row another transaction has deleted waits for it.      *)
RowLocked(t) == \E h \in Handlers : t \in deleting[h]
-----------------------------------------------------------------------------
Init ==
    /\ owner = [t \in Tokens |-> NoUser]
    /\ expired = {}
    /\ lockedBy = [u \in Users |-> NoHandler]
    /\ deleting = [h \in Handlers |-> {}]
    /\ pc = [h \in Handlers |-> "idle"]
    /\ user = [h \in Handlers |-> NoUser]
    /\ token = [h \in Handlers |-> NoToken]
    /\ made = {}
    /\ session = [t \in Tokens |-> t]
    /\ latest = [u \in Users |-> NoToken]
    /\ overtaken = {}
    /\ closed = {}

Goto(h, where) == pc' = [pc EXCEPT ![h] = where]

(* The token is drawn before the transaction opens.                        *)
BeginLogin(h, u) ==
    /\ pc[h] = "idle"
    /\ \E t \in Tokens \ made :
          /\ made' = made \cup {t}
          /\ token' = [token EXCEPT ![h] = t]
    /\ user' = [user EXCEPT ![h] = u]
    /\ Goto(h, "lock")
    /\ UNCHANGED <<owner, expired, lockedBy, deleting, session, latest,
                   overtaken, closed>>

LockNothing(h) ==                   \* mutant: the user's row is not locked
    /\ pc[h] = "lock"
    /\ Goto(h, "delete")
    /\ UNCHANGED <<owner, expired, lockedBy, deleting, user, token, made,
                   session, latest, overtaken, closed>>

LockUser(h) ==
    /\ pc[h] = "lock"
    /\ lockedBy[user[h]] = NoHandler
    /\ lockedBy' = [lockedBy EXCEPT ![user[h]] = h]
    /\ Goto(h, "delete")
    /\ UNCHANGED <<owner, expired, deleting, user, token, made, session,
                   latest, overtaken, closed>>

DeleteAll(h) ==
    /\ pc[h] = "delete"
    /\ deleting' = [deleting EXCEPT ![h] =
                        {t \in Tokens : owner[t] = user[h]}]
    /\ Goto(h, "commit")
    /\ UNCHANGED <<owner, expired, lockedBy, user, token, made, session,
                   latest, overtaken, closed>>

(* The request is over, and with it whatever transaction it had open.      *)
Leave(h) ==
    /\ Goto(h, "idle")
    /\ lockedBy' = [u \in Users |->
                        IF lockedBy[u] = h THEN NoHandler ELSE lockedBy[u]]
    /\ deleting' = [deleting EXCEPT ![h] = {}]
    /\ user' = [user EXCEPT ![h] = NoUser]
    /\ token' = [token EXCEPT ![h] = NoToken]

(* The sessions of a user whose token is consumed and not replaced yet.    *)
BetweenTokens(u) ==
    {session[token[g]] : g \in {g \in Handlers : pc[g] = "store"
                                                 /\ user[g] = u}}

(* The new row, the audit entry and the commit.                            *)
CommitLogin(h) ==
    /\ pc[h] = "commit"
    /\ owner' = [t \in Tokens |-> IF t = token[h] THEN user[h]
                                  ELSE IF t \in deleting[h] THEN NoUser
                                  ELSE owner[t]]
    /\ latest' = [latest EXCEPT ![user[h]] = token[h]]
    /\ overtaken' = overtaken \cup BetweenTokens(user[h])
    /\ Leave(h)
    /\ UNCHANGED <<expired, made, session, closed>>

ConsumeUnstored(h, t) ==            \* mutant: an empty result is accepted
    /\ pc[h] = "idle"
    /\ t \in made \ expired
    /\ ~RowLocked(t)
    /\ owner' = [owner EXCEPT ![t] = NoUser]
    /\ user' = [user EXCEPT ![h] = owner[t]]
    /\ token' = [token EXCEPT ![h] = t]
    /\ Goto(h, "store")
    /\ UNCHANGED <<expired, lockedBy, deleting, made, session, latest,
                   overtaken, closed>>

ConsumeReading(h, t) ==             \* mutant: the token is read, not deleted
    /\ pc[h] = "idle"
    /\ t \in Stored \ expired
    /\ user' = [user EXCEPT ![h] = owner[t]]
    /\ token' = [token EXCEPT ![h] = t]
    /\ Goto(h, "store")
    /\ UNCHANGED <<owner, expired, lockedBy, deleting, made, session, latest,
                   overtaken, closed>>

(* DELETE ... RETURNING, committed at once.                                *)
Consume(h, t) ==
    /\ pc[h] = "idle"
    /\ t \in Stored \ expired
    /\ ~RowLocked(t)
    /\ owner' = [owner EXCEPT ![t] = NoUser]
    /\ user' = [user EXCEPT ![h] = owner[t]]
    /\ token' = [token EXCEPT ![h] = t]
    /\ Goto(h, "store")
    /\ UNCHANGED <<expired, lockedBy, deleting, made, session, latest,
                   overtaken, closed>>

(* The same statement deletes an expired token, which is then refused.     *)
ConsumeExpired(t) ==
    /\ t \in Stored \cap expired
    /\ ~RowLocked(t)
    /\ owner' = [owner EXCEPT ![t] = NoUser]
    /\ UNCHANGED <<expired, lockedBy, deleting, pc, user, token, made,
                   session, latest, overtaken, closed>>

(* The foreign key of the new row waits for the lock on the user's row.    *)
Store(h) ==
    /\ pc[h] = "store"
    /\ lockedBy[user[h]] = NoHandler
    /\ \E t \in Tokens \ made :
          /\ made' = made \cup {t}
          /\ owner' = [owner EXCEPT ![t] = user[h]]
          /\ session' = [session EXCEPT ![t] = session[token[h]]]
    /\ Leave(h)
    /\ UNCHANGED <<expired, latest, overtaken, closed>>

(* deleteMany by token: the token need not be stored.                      *)
Logout(t) ==
    /\ ~RowLocked(t)
    /\ owner' = [owner EXCEPT ![t] = NoUser]
    /\ closed' = IF t \in Stored THEN closed \cup {session[t]} ELSE closed
    /\ UNCHANGED <<expired, lockedBy, deleting, pc, user, token, made,
                   session, latest, overtaken>>

Expire(t) ==
    /\ t \in Stored
    /\ expired' = expired \cup {t}
    /\ UNCHANGED <<owner, lockedBy, deleting, pc, user, token, made, session,
                   latest, overtaken, closed>>

(* The process dies, or a statement fails: the transaction is rolled back, *)
(* but a token that was consumed stays consumed.                           *)
Die(h) ==
    /\ pc[h] # "idle"
    /\ Leave(h)
    /\ UNCHANGED <<owner, expired, made, session, latest, overtaken, closed>>

Next ==
    \/ \E h \in Handlers :
          \/ \E u \in Users : BeginLogin(h, u)
          \/ LockUser(h) \/ DeleteAll(h) \/ CommitLogin(h)
          \/ \E t \in Tokens : Consume(h, t)
          \/ Store(h)
          \/ Die(h)
    \/ \E t \in Tokens : ConsumeExpired(t) \/ Logout(t) \/ Expire(t)

Spec == Init /\ [][Next]_vars
-----------------------------------------------------------------------------
(* Each variable holds what it is meant to.                                *)
TypeOK ==
    /\ owner \in [Tokens -> Users \cup {NoUser}]
    /\ expired \subseteq Tokens
    /\ lockedBy \in [Users -> Handlers \cup {NoHandler}]
    /\ deleting \in [Handlers -> SUBSET Tokens]
    /\ pc \in [Handlers -> {"idle", "lock", "delete", "commit", "store"}]
    /\ user \in [Handlers -> Users \cup {NoUser}]
    /\ token \in [Handlers -> Tokens \cup {NoToken}]
    /\ made \subseteq Tokens
    /\ session \in [Tokens -> Tokens]
    /\ \A h \in Handlers : pc[h] # "idle" =>
          user[h] \in Users /\ token[h] \in Tokens
    /\ latest \in [Users -> Tokens \cup {NoToken}]
    /\ overtaken \subseteq Tokens
    /\ closed \subseteq Tokens

Holders(s) ==
    [stored : {t \in Stored : session[t] = s}, by : {NoHandler}] \cup
    [stored : {NoToken}, by : {h \in Handlers : pc[h] = "store"
                                               /\ session[token[h]] = s}]

(* A session never splits: however often a token is presented at the same  *)
(* time, one successor of it is stored or about to be, and no more.        *)
OneTokenPerSession ==
    \A s \in Tokens : \A x, y \in Holders(s) : x = y

(* A login ends the sessions before it: a stored token goes back to the    *)
(* latest login of its user, or to a session that was between two tokens   *)
(* when a later login committed.                                           *)
LatestLoginRules ==
    \A t \in Stored : \/ session[t] = latest[owner[t]]
                      \/ session[t] \in overtaken

(* A session whose stored token was logged out has no token ever again:    *)
(* no refresh that raced with the logout brings it back.                   *)
ClosedForGood == \A t \in Stored : session[t] \notin closed

(* At most one refresh token ever exists for a user.                       *)
AtMostOneToken ==
    \A t1, t2 \in Stored : owner[t1] = owner[t2] => t1 = t2

(* A session is known by the token of its login.                           *)
HoldingTokens(s)  == {t \in Stored : session[t] = s}
Exchanging(s)     == {h \in Handlers : pc[h] = "store" /\ session[token[h]] = s}
BeingMade(s)      == \E h \in Handlers : /\ pc[h] \in {"lock", "delete", "commit"}
                                         /\ token[h] = s

Stage(s) == CASE HoldingTokens(s) # {} -> "held"
              [] HoldingTokens(s) = {} /\ Exchanging(s) # {} -> "exchanging"
              [] OTHER -> IF s \in made /\ session[s] = s /\ ~BeingMade(s)
                          THEN "over" ELSE "new"

HeldBy(s) == {owner[t] : t \in HoldingTokens(s)} \cup {user[h] : h \in Exchanging(s)}

Promise == INSTANCE AbstractSession
               WITH Sessions <- Tokens,
                    stage <- [s \in Tokens |-> Stage(s)],
                    holders <- [s \in Tokens |-> HeldBy(s)]

(* However logins, refreshes and logouts of a user interleave, and         *)
(* wherever they die, a session passes from token to token of one user,    *)
(* ends for good, and ends when the user logs in again unless it is        *)
(* between two tokens.                                                     *)
ImplementsSession == Promise!Spec
=============================================================================
