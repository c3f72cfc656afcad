------------------------------ MODULE Accounts ------------------------------
(***************************************************************************)
(* The requests about a user's account, and the audit entries they write:  *)
(* POST /identity/register, POST /identity/login and                       *)
(* GET /identity/profile/bvn/reveal.                                       *)
(* The e-mail is unique: a registration looks it up first, but what counts *)
(* is the constraint, on which an insert waits while another transaction   *)
(* holds an uncommitted row of the same e-mail.  The tokens that a login   *)
(* issues are in module Sessions.                                          *)
(***************************************************************************)
EXTENDS AuditLog

CONSTANTS Handlers,     \* requests; what one of them creates has its id
          Spellings,    \* e-mails as they are typed
          Normal,       \* and normalised
          Existing,     \* the users there are at first
          Profiled,     \* the ids of those with a profile
          NoEntry

Users == [id : Ids, email : Emails]

ASSUME AccountAssumption ==
    /\ Handlers \subseteq Ids
    /\ Normal \in [Spellings -> Emails]
    /\ Existing \subseteq Users /\ IsFiniteSet(Existing)
    /\ \A u \in Existing : u.id \notin Handlers
    /\ \A u, v \in Existing : u.email = v.email \/ u.id = v.id => u = v
    /\ Profiled \subseteq {u.id : u \in Existing}
    /\ NoEntry \notin Entries
    /\ NoActor \notin Ids /\ NoEmail \notin Emails

VARIABLES
    users,      \* the committed users
    pc,         \* how far each request is, or how it was answered
    email,      \* the normalised e-mail it is about
    entry       \* the audit entry it has recorded and not committed

accountVars == <<users, pc, email, entry>>
vars == <<logVars, accountVars>>

Open     == {"insert", "registering", "writing"}
Answers  == {"registered", "taken", "loggedIn", "invalid", "revealed",
             "notFound"}

Taken(e) == \E u \in users : u.email = e

Registered(u) == [id |-> u.id, actor |-> u.id, email |-> u.email,
                  action |-> "USER_REGISTERED", at |-> 0]

Init ==
    /\ LogInit({Registered(u) : u \in Existing})
    /\ users = Existing
    /\ pc = [h \in Handlers |-> "idle"]
    /\ email = [h \in Handlers |-> NoEmail]
    /\ entry = [h \in Handlers |-> NoEntry]

Goto(h, where) == pc' = [pc EXCEPT ![h] = where]

(* AuditLog.record, on the way to the repository.                          *)
Stamp(h, actor, e, action) ==
    entry' = [entry EXCEPT ![h] = Record(h, actor, e, action)]

(* The lookup of a registration; the password is hashed after it.          *)
Register(h, spelling) ==
    /\ pc[h] = "idle"
    /\ email' = [email EXCEPT ![h] = Normal[spelling]]
    /\ Goto(h, IF Taken(Normal[spelling]) THEN "taken" ELSE "insert")
    /\ UNCHANGED <<logVars, users, entry>>

InsertAnyway(h) ==                  \* mutant: the e-mail is not unique
    /\ pc[h] = "insert"
    /\ Stamp(h, h, email[h], "USER_REGISTERED")
    /\ Goto(h, "registering")
    /\ UNCHANGED <<logVars, users, email>>

(* The user is inserted and the entry recorded, uncommitted both.          *)
InsertUser(h) ==
    /\ pc[h] = "insert"
    /\ ~Taken(email[h])
    /\ \A g \in Handlers : pc[g] = "registering" => email[g] # email[h]
    /\ Stamp(h, h, email[h], "USER_REGISTERED")
    /\ Goto(h, "registering")
    /\ UNCHANGED <<logVars, users, email>>

RefuseAtOnce(h) ==                  \* mutant: it does not wait for the other
    /\ pc[h] = "insert"
    /\ \/ Taken(email[h])
       \/ \E g \in Handlers : pc[g] = "registering" /\ email[g] = email[h]
    /\ Goto(h, "taken")
    /\ UNCHANGED <<logVars, users, email, entry>>

RetryInsert(h) ==                   \* mutant: the error is not let through
    pc[h] = "insert" /\ Taken(email[h]) /\ UNCHANGED vars

(* P2002: another registration has committed the e-mail meanwhile.         *)
RefuseInsert(h) ==
    /\ pc[h] = "insert"
    /\ Taken(email[h])
    /\ Goto(h, "taken")
    /\ UNCHANGED <<logVars, users, email, entry>>

(* The user and the entry become visible together.                         *)
CommitRegistration(h) ==
    /\ pc[h] = "registering"
    /\ users' = users \cup {[id |-> h, email |-> email[h]]}
    /\ Create(entry[h])
    /\ Goto(h, "registered")
    /\ UNCHANGED <<now, walkVars, email, entry>>

(* A login is audited whether it is refused, for an e-mail nobody has or   *)
(* for the password, or succeeds.                                          *)
LoginUnknown(h, spelling) ==
    /\ pc[h] = "idle"
    /\ ~Taken(Normal[spelling])
    /\ email' = [email EXCEPT ![h] = Normal[spelling]]
    /\ Stamp(h, NoActor, Normal[spelling], "USER_LOGIN_FAILED")
    /\ Goto(h, "writing")
    /\ UNCHANGED <<logVars, users>>

Login(h, spelling, action) ==
    /\ pc[h] = "idle"
    /\ email' = [email EXCEPT ![h] = Normal[spelling]]
    /\ \E u \in users :
          /\ u.email = Normal[spelling]
          /\ Stamp(h, u.id, u.email, action)
    /\ Goto(h, "writing")
    /\ UNCHANGED <<logVars, users>>

Reveal(h, id) ==
    /\ pc[h] = "idle"
    /\ IF id \in Profiled
       THEN /\ Stamp(h, id, NoEmail, "BVN_REVEALED")
            /\ Goto(h, "writing")
       ELSE /\ Goto(h, "notFound")
            /\ UNCHANGED entry
    /\ UNCHANGED <<logVars, users, email>>

AnswerSwapped(action) ==            \* mutant: the action is the answer
    IF action = "USER_LOGGED_IN" THEN action ELSE "invalid"

AnswerOf(action) == CASE action = "USER_LOGGED_IN" -> "loggedIn"
                      [] action = "USER_LOGIN_FAILED" -> "invalid"
                      [] action = "BVN_REVEALED" -> "revealed"

AnswerFirst(h) ==                   \* mutant: the entry is not waited for
    /\ pc[h] = "writing"
    /\ Goto(h, AnswerOf(entry[h].action))
    /\ UNCHANGED <<logVars, users, email, entry>>

(* The entry is stored, then the request answered.                         *)
WriteEntry(h) ==
    /\ pc[h] = "writing"
    /\ Create(entry[h])
    /\ Goto(h, AnswerOf(entry[h].action))
    /\ UNCHANGED <<now, walkVars, users, email, entry>>

(* The process dies, or the database refuses the entry.                    *)
Die(h) ==
    /\ pc[h] \in Open
    /\ Goto(h, "dead")
    /\ email' = [email EXCEPT ![h] = NoEmail]
    /\ entry' = [entry EXCEPT ![h] = NoEntry]
    /\ UNCHANGED <<logVars, users>>

HandlerStep(h) ==
    InsertUser(h) \/ RefuseInsert(h) \/ CommitRegistration(h) \/ WriteEntry(h)

AccountStep ==
    \E h \in Handlers :
        \/ \E s \in Spellings :
              \/ Register(h, s)
              \/ LoginUnknown(h, s)
              \/ Login(h, s, "USER_LOGIN_FAILED")
              \/ Login(h, s, "USER_LOGGED_IN")
        \/ \E u \in users : Reveal(h, u.id)
        \/ HandlerStep(h)
        \/ Die(h)

Next == AccountStep \/ (LogStep /\ UNCHANGED accountVars)

Spec == Init /\ [][Next]_vars

(* A request goes on unless it is killed.                                  *)
FairSpec == Spec /\ \A h \in Handlers : WF_vars(HandlerStep(h))
-----------------------------------------------------------------------------
(* Each variable holds what it is meant to.                                *)
TypeOK ==
    /\ LogTypeOK
    /\ users \subseteq Users
    /\ pc \in [Handlers -> {"idle", "dead"} \cup Open \cup Answers]
    /\ email \in [Handlers -> Emails \cup {NoEmail}]
    /\ entry \in [Handlers -> Entries \cup {NoEntry}]

(* However registrations of one e-mail race, in whatever spelling, one     *)
(* user has it; each user has one entry that says so, and no entry speaks  *)
(* of a user there is not.                                                 *)
RegisteredOnce ==
    /\ \A u, v \in users : u.email = v.email => u = v
    /\ \A u \in users : \E x \in log :
          /\ x.action = "USER_REGISTERED" /\ x.actor = u.id
          /\ \A y \in log : y.action = "USER_REGISTERED" /\ y.actor = u.id
                                => y = x
    /\ \A x \in log : x.action = "USER_REGISTERED" =>
          [id |-> x.actor, email |-> x.email] \in users

Logged(h, actor, e, action) ==
    \E x \in log : /\ x.id = h /\ x.actor = actor
                   /\ x.email = e /\ x.action = action

AnswerIsTrue(h) ==
    /\ pc[h] = "registered" =>
          /\ [id |-> h, email |-> email[h]] \in users
          /\ Logged(h, h, email[h], "USER_REGISTERED")
    /\ pc[h] = "taken" => Taken(email[h])
    /\ pc[h] = "loggedIn" =>
          \E u \in users : /\ u.email = email[h]
                           /\ Logged(h, u.id, email[h], "USER_LOGGED_IN")
    /\ pc[h] = "invalid" =>
          \E a \in Ids \cup {NoActor} :
              Logged(h, a, email[h], "USER_LOGIN_FAILED")
    /\ pc[h] = "revealed" =>
          \E id \in Profiled : Logged(h, id, NoEmail, "BVN_REVEALED")

(* An answer is given only once its entry is in the log for good, and it   *)
(* says what is so: whoever is told that the e-mail is taken could log in, *)
(* if they had the password, at once.                                      *)
AnswersAreAudited == \A h \in Handlers : AnswerIsTrue(h)

(* A registration that waits for another of the same e-mail ends, whether  *)
(* the other commits or dies.                                              *)
EveryRequestEnds ==
    \A h \in Handlers : pc[h] \in Open ~> pc[h] \notin Open
=============================================================================
