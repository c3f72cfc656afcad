---------------------------- MODULE AuditProofs ----------------------------
(***************************************************************************)
(* Proofs about Accounts and AuditLog, for any requests, users, filters    *)
(* and page sizes: an e-mail is registered once, every answer has its      *)
(* entry, and a walk through the pages misses no entry.                    *)
(***************************************************************************)
EXTENDS Accounts, FiniteSetTheorems, TLAPS

(* What a request holds on its way.                                        *)
Prepared ==
    \A h \in Handlers :
        /\ pc[h] \in {"insert", "registering"} => email[h] \in Emails
        /\ pc[h] = "registering" =>
              /\ entry[h] \in Entries
              /\ entry[h].id = h /\ entry[h].actor = h
              /\ entry[h].email = email[h]
              /\ entry[h].action = "USER_REGISTERED"
        /\ pc[h] = "writing" =>
              /\ entry[h] \in Entries
              /\ entry[h].id = h
              /\ \/ /\ entry[h].action = "USER_LOGGED_IN"
                    /\ entry[h].email = email[h]
                    /\ \E u \in users : /\ u.email = email[h]
                                        /\ u.id = entry[h].actor
                 \/ /\ entry[h].action = "USER_LOGIN_FAILED"
                    /\ entry[h].email = email[h]
                 \/ /\ entry[h].action = "BVN_REVEALED"
                    /\ entry[h].email = NoEmail
                    /\ entry[h].actor \in Profiled

(* An uncommitted row has its e-mail to itself, and an id nobody has.      *)
RowsApart ==
    /\ \A h \in Handlers : pc[h] = "registering" => ~Taken(email[h])
    /\ \A g, h \in Handlers :
          /\ pc[g] = "registering" /\ pc[h] = "registering"
          /\ email[g] = email[h]
          => g = h
    /\ \A h \in Handlers : pc[h] # "registered" =>
          \A u \in users : u.id # h

AccountInv == TypeOK /\ Prepared /\ RowsApart
-----------------------------------------------------------------------------
(* Every step leaves each variable in its type.                            *)
LEMMA StepTypeOK ==
    ASSUME AccountInv, [Next]_vars
    PROVE  TypeOK'
<1> USE AccountAssumption, LogAssumption
        DEF AccountInv, TypeOK, Prepared, LogTypeOK, Goto, Open, Answers
<1>1. ASSUME NEW h \in Handlers, NEW s \in Spellings, Register(h, s)
      PROVE  TypeOK'
  BY <1>1 DEF Register, logVars, walkVars
<1>2. ASSUME NEW h \in Handlers, NEW s \in Spellings, LoginUnknown(h, s)
      PROVE  TypeOK'
  <2>1. Record(h, NoActor, Normal[s], "USER_LOGIN_FAILED") \in Entries
    BY DEF Record, Entries, Actions
  <2> QED
    BY <1>2, <2>1 DEF LoginUnknown, Stamp, logVars, walkVars
<1>3. ASSUME NEW h \in Handlers, NEW s \in Spellings,
             NEW a \in {"USER_LOGIN_FAILED", "USER_LOGGED_IN"}, Login(h, s, a)
      PROVE  TypeOK'
  <2>1. \A u \in users : Record(h, u.id, u.email, a) \in Entries
    BY DEF Record, Entries, Actions, Users
  <2> QED
    BY <1>3, <2>1 DEF Login, Stamp, logVars, walkVars
<1>4. ASSUME NEW h \in Handlers, NEW u \in users, Reveal(h, u.id)
      PROVE  TypeOK'
  <2>1. Record(h, u.id, NoEmail, "BVN_REVEALED") \in Entries
    BY DEF Record, Entries, Actions, Users
  <2> QED
    BY <1>4, <2>1 DEF Reveal, Stamp, logVars, walkVars
<1>5. ASSUME NEW h \in Handlers, InsertUser(h) PROVE TypeOK'
  <2>1. Record(h, h, email[h], "USER_REGISTERED") \in Entries
    BY <1>5 DEF Record, Entries, Actions, InsertUser
  <2> QED
    BY <1>5, <2>1 DEF InsertUser, Stamp, logVars, walkVars
<1>6. ASSUME NEW h \in Handlers, RefuseInsert(h) PROVE TypeOK'
  BY <1>6 DEF RefuseInsert, logVars, walkVars
<1>7. ASSUME NEW h \in Handlers, CommitRegistration(h) PROVE TypeOK'
  <2>1. users' \subseteq Users
    BY <1>7 DEF CommitRegistration, Users
  <2> QED
    BY <1>7, <2>1 DEF CommitRegistration, Create, walkVars
<1>8. ASSUME NEW h \in Handlers, WriteEntry(h) PROVE TypeOK'
  BY <1>8 DEF WriteEntry, Create, AnswerOf, walkVars
<1>9. ASSUME NEW h \in Handlers, Die(h) PROVE TypeOK'
  BY <1>9 DEF Die, logVars, walkVars
<1>10. ASSUME LogStep, UNCHANGED accountVars PROVE TypeOK'
  <2> USE <1>10 DEF accountVars, walkVars
  <2>1. CASE Tick
    BY <2>1 DEF Tick, Times
  <2>2. CASE StartWalk
    BY <2>2 DEF StartWalk, Matching
  <2>3. CASE FindMany
    BY <2>3 DEF FindMany, Matching
  <2>4. CASE Count
    BY <2>4 DEF Count
  <2>5. CASE Leave
    BY <2>5 DEF Leave
  <2> QED
    BY <2>1, <2>2, <2>3, <2>4, <2>5 DEF LogStep
<1>11. CASE UNCHANGED vars
  BY <1>11 DEF vars, accountVars, logVars, walkVars
<1> QED
  BY <1>1, <1>2, <1>3, <1>4, <1>5, <1>6, <1>7, <1>8, <1>9, <1>10, <1>11
     DEF Next, AccountStep, HandlerStep

(* What the requests hold stays in order.                                  *)
LEMMA StepPrepared ==
    ASSUME AccountInv, [Next]_vars
    PROVE  Prepared' /\ RowsApart'
<1> USE AccountAssumption
        DEF AccountInv, TypeOK, Prepared, RowsApart, Goto, Open, Answers, Taken
<1>1. ASSUME NEW h \in Handlers, NEW s \in Spellings, Register(h, s)
      PROVE  Prepared' /\ RowsApart'
  BY <1>1 DEF Register
<1>2. ASSUME NEW h \in Handlers, NEW s \in Spellings, LoginUnknown(h, s)
      PROVE  Prepared' /\ RowsApart'
  <2>1. Record(h, NoActor, Normal[s], "USER_LOGIN_FAILED") \in Entries
    BY DEF Record, Entries, Actions, LogTypeOK
  <2> QED
    BY <1>2, <2>1 DEF LoginUnknown, Stamp, Record
<1>3. ASSUME NEW h \in Handlers, NEW s \in Spellings,
             NEW a \in {"USER_LOGIN_FAILED", "USER_LOGGED_IN"}, Login(h, s, a)
      PROVE  Prepared' /\ RowsApart'
  <2>1. \A u \in users : Record(h, u.id, u.email, a) \in Entries
    BY DEF Record, Entries, Actions, Users, LogTypeOK
  <2> QED
    BY <1>3, <2>1 DEF Login, Stamp, Record
<1>4. ASSUME NEW h \in Handlers, NEW u \in users, Reveal(h, u.id)
      PROVE  Prepared' /\ RowsApart'
  <2>1. Record(h, u.id, NoEmail, "BVN_REVEALED") \in Entries
    BY DEF Record, Entries, Actions, Users, LogTypeOK
  <2> QED
    BY <1>4, <2>1 DEF Reveal, Stamp, Record
<1>5. ASSUME NEW h \in Handlers, InsertUser(h) PROVE Prepared' /\ RowsApart'
  <2>1. Record(h, h, email[h], "USER_REGISTERED") \in Entries
    BY <1>5 DEF Record, Entries, Actions, InsertUser, LogTypeOK
  <2> QED
    BY <1>5, <2>1 DEF InsertUser, Stamp, Record
<1>6. ASSUME NEW h \in Handlers, RefuseInsert(h) PROVE Prepared' /\ RowsApart'
  BY <1>6 DEF RefuseInsert
<1>7. ASSUME NEW h \in Handlers, CommitRegistration(h)
      PROVE  Prepared' /\ RowsApart'
  BY <1>7 DEF CommitRegistration
<1>8. ASSUME NEW h \in Handlers, WriteEntry(h) PROVE Prepared' /\ RowsApart'
  BY <1>8 DEF WriteEntry, AnswerOf
<1>9. ASSUME NEW h \in Handlers, Die(h) PROVE Prepared' /\ RowsApart'
  BY <1>9 DEF Die
<1>10. ASSUME UNCHANGED accountVars PROVE Prepared' /\ RowsApart'
  BY <1>10 DEF accountVars
<1> QED
  BY <1>1, <1>2, <1>3, <1>4, <1>5, <1>6, <1>7, <1>8, <1>9, <1>10
     DEF Next, AccountStep, HandlerStep, vars

(* Reading the log leaves it, and the requests, as they are.               *)
LEMMA ReadingStep ==
    ASSUME LogStep, UNCHANGED accountVars
    PROVE  log' = log /\ users' = users /\ pc' = pc /\ email' = email
  BY DEF LogStep, Tick, StartWalk, FindMany, Count, Leave, accountVars

(* Only two steps write, and each adds the entry of its request.           *)
LEMMA WritingStep ==
    ASSUME [Next]_vars
    PROVE  \/ log' = log /\ users' = users
           \/ \E h \in Handlers : CommitRegistration(h) \/ WriteEntry(h)
<1>1. CASE AccountStep
  <2> USE DEF AccountStep, HandlerStep, logVars
  <2>1. ASSUME NEW h \in Handlers, NEW s \in Spellings,
               NEW a \in {"USER_LOGIN_FAILED", "USER_LOGGED_IN"},
               \/ Register(h, s) \/ LoginUnknown(h, s) \/ Login(h, s, a)
        PROVE  log' = log /\ users' = users
    BY <2>1 DEF Register, LoginUnknown, Login
  <2>2. ASSUME NEW h \in Handlers, NEW u \in users,
               \/ Reveal(h, u.id) \/ InsertUser(h) \/ RefuseInsert(h)
               \/ Die(h)
        PROVE  log' = log /\ users' = users
    BY <2>2 DEF Reveal, InsertUser, RefuseInsert, Die
  <2>3. ASSUME NEW h \in Handlers, InsertUser(h) \/ RefuseInsert(h) \/ Die(h)
        PROVE  log' = log /\ users' = users
    BY <2>3 DEF InsertUser, RefuseInsert, Die
  <2> QED
    BY <1>1, <2>1, <2>2, <2>3
<1>2. CASE LogStep /\ UNCHANGED accountVars
  BY <1>2, ReadingStep
<1>3. CASE UNCHANGED vars
  BY <1>3 DEF vars, logVars, accountVars
<1> QED
  BY <1>1, <1>2, <1>3 DEF Next

(* A user and its entry appear together, and no other entry is like it.    *)
LEMMA StepRegisteredOnce ==
    ASSUME AccountInv, RegisteredOnce, [Next]_vars
    PROVE  RegisteredOnce'
<1>1. CASE log' = log /\ users' = users
  BY <1>1 DEF RegisteredOnce
<1>2. ASSUME NEW h \in Handlers, WriteEntry(h) PROVE RegisteredOnce'
  <2>1. /\ log' = log \cup {entry[h]} /\ users' = users
        /\ entry[h].action # "USER_REGISTERED"
    BY <1>2 DEF WriteEntry, Create, AccountInv, Prepared
  <2> QED
    BY <2>1 DEF RegisteredOnce
<1>3. ASSUME NEW h \in Handlers, CommitRegistration(h) PROVE RegisteredOnce'
  <2> DEFINE new == [id |-> h, email |-> email[h]]
  <2>1. /\ log' = log \cup {entry[h]} /\ users' = users \cup {new}
        /\ pc[h] = "registering"
    BY <1>3 DEF CommitRegistration, Create
  <2>2. /\ entry[h].action = "USER_REGISTERED"
        /\ entry[h].actor = h /\ entry[h].email = email[h]
    BY <2>1 DEF AccountInv, Prepared
  <2>3. \A u \in users : u.email # email[h] /\ u.id # h
    BY <2>1 DEF AccountInv, RowsApart, Taken
  <2>4. \A x \in log : x.action = "USER_REGISTERED" => x.actor # h
    BY <2>3 DEF RegisteredOnce
  <2>5. new.id = h /\ new.email = email[h]
    OBVIOUS
  <2> HIDE DEF new
  <2>6. \A u, v \in users' : u.email = v.email => u = v
    BY <2>1, <2>3, <2>5 DEF RegisteredOnce
  <2>7. \A x \in log' : x.action = "USER_REGISTERED" =>
            [id |-> x.actor, email |-> x.email] \in users'
    BY <2>1, <2>2 DEF RegisteredOnce, new
  <2>8. ASSUME NEW u \in users'
        PROVE  \E x \in log' :
                  /\ x.action = "USER_REGISTERED" /\ x.actor = u.id
                  /\ \A y \in log' :
                        y.action = "USER_REGISTERED" /\ y.actor = u.id => y = x
    <3>1. CASE u \in users
      <4>1. PICK x \in log :
                /\ x.action = "USER_REGISTERED" /\ x.actor = u.id
                /\ \A y \in log :
                      y.action = "USER_REGISTERED" /\ y.actor = u.id => y = x
        BY <3>1 DEF RegisteredOnce
      <4> QED
        BY <3>1, <4>1, <2>1, <2>2, <2>3
    <3>2. CASE u = new
      BY <3>2, <2>1, <2>2, <2>4, <2>5
    <3> QED
      BY <2>1, <3>1, <3>2
  <2> QED
    BY <2>6, <2>7, <2>8 DEF RegisteredOnce
<1> QED
  BY <1>1, <1>2, <1>3, WritingStep

(* An entry stays in the log, a user in the table and an answer given.     *)
LEMMA StepAnswers ==
    ASSUME AccountInv, AnswersAreAudited, [Next]_vars
    PROVE  AnswersAreAudited'
<1> USE AccountAssumption DEF AccountInv, TypeOK, Goto, Open, Answers
<1>1. log \subseteq log' /\ users \subseteq users'
  BY WritingStep DEF CommitRegistration, WriteEntry, Create
<1>2. ASSUME NEW h \in Handlers, pc'[h] = pc[h], email'[h] = email[h]
      PROVE  AnswerIsTrue(h)'
  BY <1>1, <1>2 DEF AnswersAreAudited, AnswerIsTrue, Logged, Taken
<1>3. ASSUME NEW h \in Handlers, pc'[h] \in {"insert", "registering", "writing",
                                           "notFound", "dead"}
      PROVE  AnswerIsTrue(h)'
  BY <1>3 DEF AnswerIsTrue
<1> DEFINE Others(h) ==
        \A g \in Handlers \ {h} : pc'[g] = pc[g] /\ email'[g] = email[g]
<1>4. ASSUME NEW h \in Handlers, Others(h), AnswerIsTrue(h)'
      PROVE  AnswersAreAudited'
  BY <1>2, <1>4 DEF AnswersAreAudited
<1>5. ASSUME NEW h \in Handlers, NEW s \in Spellings, Register(h, s)
      PROVE  AnswersAreAudited'
  <2>1. Others(h)
    BY <1>5 DEF Register
  <2>2. AnswerIsTrue(h)'
    BY <1>5 DEF Register, AnswerIsTrue, Taken
  <2> QED
    BY <1>4, <2>1, <2>2
<1>6. ASSUME NEW h \in Handlers, NEW s \in Spellings,
             NEW a \in {"USER_LOGIN_FAILED", "USER_LOGGED_IN"},
             LoginUnknown(h, s) \/ Login(h, s, a)
      PROVE  AnswersAreAudited'
  <2>1. Others(h) /\ pc'[h] = "writing"
    BY <1>6 DEF LoginUnknown, Login
  <2> QED
    BY <1>3, <1>4, <2>1
<1>7. ASSUME NEW h \in Handlers, NEW u \in users,
             Reveal(h, u.id) \/ InsertUser(h) \/ Die(h)
      PROVE  AnswersAreAudited'
  <2>1. Others(h) /\ pc'[h] \in {"writing", "registering", "notFound", "dead"}
    BY <1>7 DEF Reveal, InsertUser, Die
  <2> QED
    BY <1>3, <1>4, <2>1
<1>8. ASSUME NEW h \in Handlers, InsertUser(h) \/ Die(h)
      PROVE  AnswersAreAudited'
  <2>1. Others(h) /\ pc'[h] \in {"registering", "dead"}
    BY <1>8 DEF InsertUser, Die
  <2> QED
    BY <1>3, <1>4, <2>1
<1>9. ASSUME NEW h \in Handlers, RefuseInsert(h) PROVE AnswersAreAudited'
  <2>1. Others(h) /\ AnswerIsTrue(h)'
    BY <1>9 DEF RefuseInsert, AnswerIsTrue, Taken
  <2> QED
    BY <1>4, <2>1
<1>10. ASSUME NEW h \in Handlers, CommitRegistration(h)
       PROVE  AnswersAreAudited'
  <2>1. Others(h) /\ AnswerIsTrue(h)'
    BY <1>10 DEF CommitRegistration, Create, AnswerIsTrue, Logged, Prepared
  <2> QED
    BY <1>4, <2>1
<1>11. ASSUME NEW h \in Handlers, WriteEntry(h) PROVE AnswersAreAudited'
  <2>1. Others(h)
    BY <1>11 DEF WriteEntry
  <2>2. /\ entry[h] \in log' /\ email' = email /\ users' = users
        /\ pc'[h] = AnswerOf(entry[h].action)
        /\ pc[h] = "writing" /\ entry[h].id = h /\ entry[h] \in Entries
    BY <1>11 DEF WriteEntry, Create, Prepared
  <2>3. ASSUME entry[h].action = "USER_LOGGED_IN" PROVE AnswerIsTrue(h)'
    <3>1. pc'[h] = "loggedIn"
      BY <2>2, <2>3 DEF AnswerOf
    <3>2. /\ entry[h].email = email[h]
          /\ \E u \in users : u.email = email[h] /\ u.id = entry[h].actor
      BY <2>2, <2>3 DEF Prepared
    <3> QED
      BY <2>2, <2>3, <3>1, <3>2 DEF AnswerIsTrue, Logged
  <2>4. ASSUME entry[h].action = "USER_LOGIN_FAILED" PROVE AnswerIsTrue(h)'
    <3>1. pc'[h] = "invalid"
      BY <2>2, <2>4 DEF AnswerOf
    <3>2. entry[h].email = email[h] /\ entry[h].actor \in Ids \cup {NoActor}
      BY <2>2, <2>4 DEF Prepared, Entries
    <3> QED
      BY <2>2, <2>4, <3>1, <3>2 DEF AnswerIsTrue, Logged
  <2>5. ASSUME entry[h].action = "BVN_REVEALED" PROVE AnswerIsTrue(h)'
    <3>1. pc'[h] = "revealed"
      BY <2>2, <2>5 DEF AnswerOf
    <3>2. entry[h].email = NoEmail /\ entry[h].actor \in Profiled
      BY <2>2, <2>5 DEF Prepared
    <3> QED
      BY <2>2, <2>5, <3>1, <3>2 DEF AnswerIsTrue, Logged
  <2>6. AnswerIsTrue(h)'
    BY <2>2, <2>3, <2>4, <2>5 DEF Prepared
  <2> QED
    BY <1>4, <2>1, <2>6
<1>12. CASE pc' = pc /\ email' = email
  BY <1>2, <1>12 DEF AnswersAreAudited
<1> QED
  BY <1>5, <1>6, <1>7, <1>8, <1>9, <1>10, <1>11, <1>12, ReadingStep
     DEF Next, AccountStep, HandlerStep, vars, accountVars

(* At first there are the users of old, with their entries.                *)
LEMMA InitAccounts ==
    ASSUME Init
    PROVE  AccountInv /\ RegisteredOnce /\ AnswersAreAudited
<1> USE AccountAssumption, LogAssumption DEF Init, LogInit
<1>1. \A u \in Existing : Registered(u) \in Entries
  BY DEF Registered, Entries, Users, Actions, Times
<1>2. TypeOK
  BY <1>1 DEF TypeOK, LogTypeOK, Times, Queries
<1>3. Prepared /\ RowsApart
  BY DEF Prepared, RowsApart
<1>4. RegisteredOnce
  <2>1. \A u \in Existing : /\ Registered(u).action = "USER_REGISTERED"
                            /\ Registered(u).actor = u.id
                            /\ Registered(u).email = u.email
                            /\ u = [id |-> u.id, email |-> u.email]
    BY DEF Registered, Users
  <2> QED
    BY <2>1 DEF RegisteredOnce
<1>5. AnswersAreAudited
  BY DEF AnswersAreAudited, AnswerIsTrue
<1> QED
  BY <1>2, <1>3, <1>4, <1>5 DEF AccountInv

AuditInv == AccountInv /\ RegisteredOnce /\ AnswersAreAudited

LEMMA AuditInvariant == Spec => []AuditInv
<1>1. Init => AuditInv
  BY InitAccounts DEF AuditInv
<1>2. AuditInv /\ [Next]_vars => AuditInv'
  BY StepTypeOK, StepPrepared, StepRegisteredOnce, StepAnswers
     DEF AuditInv, AccountInv
<1> QED
  BY <1>1, <1>2, PTL DEF Spec

(* Each variable holds what it is meant to.                                *)
THEOREM TypeCorrect == Spec => []TypeOK
  BY AuditInvariant, PTL DEF AuditInv, AccountInv

(* However registrations race, one user has the e-mail, and one entry says *)
(* so: for any number of requests in any spelling.                         *)
THEOREM EmailRegisteredOnce == Spec => []RegisteredOnce
  BY AuditInvariant, PTL DEF AuditInv

(* No answer is given before its entry is in the log.                      *)
THEOREM AnswersInLog == Spec => []AnswersAreAudited
  BY AuditInvariant, PTL DEF AuditInv
-----------------------------------------------------------------------------
(* An entry that comes after those skipped and is not on the page comes    *)
(* after those on the page as well.                                        *)
LEMMA PageMisses ==
    ASSUME NEW S, IsFiniteSet(S), \A x \in S : x.at \in Int,
           NEW skip \in Nat, NEW limit \in Nat,
           NEW P, IsPage(P, S, skip, limit),
           NEW e \in S \ P, \A x \in S : x.at = e.at => x = e,
           Cardinality({x \in S : x.at > e.at}) >= skip
    PROVE  Cardinality({x \in S : x.at > e.at}) >= skip + limit
<1> DEFINE N == {x \in S : x.at > e.at}
<1>1. PICK skipped \in SUBSET S :
          LET rest == S \ skipped
          IN  /\ Cardinality(skipped) = skip \/ (Cardinality(S) < skip /\ rest = {})
              /\ Older(rest, skipped)
              /\ P \subseteq rest
              /\ Cardinality(P) = limit
                 \/ (Cardinality(rest) < limit /\ P = rest)
              /\ Older(rest \ P, P)
  BY DEF IsPage
<1>2. /\ N \in SUBSET S /\ IsFiniteSet(N) /\ Cardinality(N) \in Nat
      /\ Cardinality(N) <= Cardinality(S) /\ Cardinality(S) \in Nat
  BY FS_Subset, FS_CardinalityType
<1>3. /\ IsFiniteSet(skipped) /\ Cardinality(skipped) \in Nat
      /\ IsFiniteSet(P) /\ Cardinality(P) \in Nat
  BY <1>1, FS_Subset, FS_CardinalityType
<1>4. e \notin skipped
  <2> SUFFICES ASSUME e \in skipped PROVE FALSE
    OBVIOUS
  <2>1. N \in SUBSET (skipped \ {e})
    BY <1>1 DEF Older
  <2>2. /\ IsFiniteSet(skipped \ {e})
        /\ Cardinality(skipped \ {e}) = Cardinality(skipped) - 1
    BY <1>3, FS_RemoveElement
  <2>3. Cardinality(N) <= Cardinality(skipped) - 1
    BY <2>1, <2>2, FS_Subset
  <2> QED
    BY <1>1, <1>2, <1>3, <2>3
<1>5. Cardinality(skipped) = skip /\ Cardinality(P) = limit
  BY <1>1, <1>4
<1>6. skipped \cup P \in SUBSET N
  BY <1>1, <1>4 DEF Older
<1>7. Cardinality(skipped \cup P) = skip + limit
  <2>1. Cardinality(skipped \cap P) = 0
    <3>1. skipped \cap P = {}
      BY <1>1
    <3> QED
      BY <3>1, FS_EmptySet
  <2>2. Cardinality(skipped \cup P) =
            Cardinality(skipped) + Cardinality(P) - Cardinality(skipped \cap P)
    BY <1>3, FS_Union
  <2> QED
    BY <1>5, <2>1, <2>2, skip \in Nat, limit \in Nat
<1> QED
  BY <1>2, <1>6, <1>7, FS_Subset

Newer(e) == {x \in Matching(query.filter) : x.at > e.at}
Missed   == {e \in start : Alone(e) /\ e \notin shown}

(* What the walk has not shown yet is below the pages it has turned.       *)
WalkInv ==
    /\ IsFiniteSet(log)
    /\ wpc # "idle" => page \in Nat \ {0} /\ start \subseteq Matching(query.filter)
    /\ wpc = "find" =>
          \A e \in Missed : Cardinality(Newer(e)) >= Skip(page, query.limit)
    /\ wpc = "count" =>
          \A e \in Missed : Cardinality(Newer(e)) >= page * query.limit
    /\ wpc = "ended" => Missed = {}

LEMMA QueryLimit == \A q \in Queries : q.limit \in Nat \ {0}
<1>1. Limits \subseteq Nat \ {0}
  BY LogAssumption
<1>2. \A q \in Queries : q.limit \in Limits
  BY DEF Queries
<1> QED
  BY <1>1, <1>2

LEMMA WalkNumbers ==
    ASSUME LogTypeOK, WalkInv
    PROVE  /\ query.limit \in Nat \ {0}
           /\ page * query.limit \in Int
           /\ wpc = "find" => /\ Skip(page, query.limit) \in Nat
                              /\ Skip(page, query.limit) + query.limit
                                    = page * query.limit
<1>1. query.limit \in Nat \ {0} /\ page \in Nat
  BY QueryLimit DEF LogTypeOK
<1>2. wpc = "find" => page >= 1
  BY DEF WalkInv
<1>3. ASSUME NEW p \in Nat, NEW n \in Nat
      PROVE  /\ p * n \in Int /\ (p - 1) * n \in Int
             /\ (p - 1) * n + n = p * n
             /\ p >= 1 => (p - 1) * n >= 0
  OBVIOUS
<1> QED
  BY <1>1, <1>2, <1>3 DEF Skip

LEMMA FiniteMatches ==
    ASSUME WalkInv
    PROVE  /\ IsFiniteSet(Matching(query.filter))
           /\ Cardinality(Matching(query.filter)) \in Nat
           /\ \A e : /\ IsFiniteSet(Newer(e))
                    /\ Cardinality(Newer(e)) \in Nat
  <1>1. Matching(query.filter) \in SUBSET log
    BY DEF Matching
  <1>2. \A e : Newer(e) \in SUBSET log
    BY DEF Newer, Matching
  <1> QED
    BY <1>1, <1>2, FS_Subset, FS_CardinalityType DEF WalkInv

(* New entries push what is missed further down, or have its time.         *)
LEMMA LogGrows ==
    ASSUME LogTypeOK, WalkInv, log \subseteq log', IsFiniteSet(log'), UNCHANGED walkVars
    PROVE  WalkInv'
<1> USE DEF walkVars
<1>1. Matching(query.filter) \subseteq Matching(query.filter)'
  BY DEF Matching
<1>2. Missed' \subseteq Missed
  BY <1>1 DEF Missed, Alone
<1>3. ASSUME NEW e PROVE Cardinality(Newer(e)') >= Cardinality(Newer(e))
  <2>1. Newer(e) \in SUBSET Newer(e)' /\ Newer(e)' \in SUBSET (log')
    BY <1>1 DEF Newer, Matching
  <2>2. IsFiniteSet(Newer(e)')
    BY <2>1, FS_Subset
  <2> QED
    BY <2>1, <2>2, FS_Subset, FS_CardinalityType
<1>4. \A e : /\ Cardinality(Newer(e)) \in Nat /\ Cardinality(Newer(e)') \in Nat
  <2>1. \A e : Newer(e)' \in SUBSET (log')
    BY DEF Newer, Matching
  <2> QED
    BY <2>1, FiniteMatches, FS_Subset, FS_CardinalityType
<1>5. ASSUME NEW n \in Int, \A e \in Missed : Cardinality(Newer(e)) >= n
      PROVE  \A e \in Missed' : Cardinality(Newer(e)') >= n
  BY <1>2, <1>3, <1>4, <1>5
<1>6. wpc = "find" =>
          \A e \in Missed' : Cardinality(Newer(e)') >= Skip(page, query.limit)
  BY <1>5, WalkNumbers DEF WalkInv
<1>7. wpc = "count" =>
          \A e \in Missed' : Cardinality(Newer(e)') >= page * query.limit
  BY <1>5, WalkNumbers DEF WalkInv
<1> QED
  BY <1>1, <1>2, <1>6, <1>7 DEF WalkInv, Skip

(* Every step keeps what is missed below the pages turned.                 *)
LEMMA StepWalk ==
    ASSUME AccountInv, WalkInv, [Next]_vars
    PROVE  WalkInv'
<1> USE DEF AccountInv, TypeOK
<1>1. CASE UNCHANGED walkVars
  <2>1. log \subseteq log' /\ IsFiniteSet(log')
    <3>1. \/ log' = log
          \/ \E h \in Handlers : log' = log \cup {entry[h]}
      BY WritingStep DEF CommitRegistration, WriteEntry, Create
    <3> QED
      BY <3>1, FS_AddElement DEF WalkInv
  <2> QED
    BY <1>1, <2>1, LogGrows
<1>2. CASE StartWalk
  <2>1. /\ log' = log /\ wpc' = "find" /\ page' = 1 /\ query' \in Queries
        /\ start' = Matching(query'.filter)
    BY <1>2 DEF StartWalk
  <2>2. start' = Matching(query.filter)'
    BY <2>1 DEF Matching
  <2>3. \A e : Cardinality(Newer(e)') \in Nat
    <3>1. \A e : Newer(e)' \in SUBSET log
      BY <2>1 DEF Newer, Matching
    <3> QED
      BY <3>1, FS_Subset, FS_CardinalityType DEF WalkInv
  <2>4. Skip(page', query'.limit) = 0
    <3>1. \A q \in Queries : q.limit \in Int
      BY QueryLimit
    <3>2. query'.limit \in Int
      BY <2>1, <3>1
    <3> QED
      BY <2>1, <3>2 DEF Skip
  <2> QED
    BY <2>1, <2>2, <2>3, <2>4 DEF WalkInv
<1>3. CASE FindMany
  <2> DEFINE S == Matching(query.filter)
             limit == query.limit
             skip == Skip(page, query.limit)
  <2>1. PICK P \in SUBSET S : IsPage(P, S, skip, limit) /\ shown' = shown \cup P
    BY <1>3 DEF FindMany
  <2>2. /\ wpc = "find" /\ wpc' = "count" /\ page' = page
        /\ query' = query /\ start' = start /\ log' = log
    BY <1>3 DEF FindMany
  <2>3. /\ IsFiniteSet(S) /\ \A x \in S : x.at \in Int
        /\ skip \in Nat /\ limit \in Nat /\ skip + limit = page * limit
    BY <2>2, FiniteMatches, WalkNumbers
       DEF LogTypeOK, Entries, Times, Matching
  <2>4. ASSUME NEW e \in Missed'
        PROVE  Cardinality(Newer(e)') >= page * limit
    <3>1. /\ e \in start /\ e \in Missed /\ e \in S \ P
          /\ \A x \in S : x.at = e.at => x = e
      BY <2>1, <2>2 DEF Missed, Alone, WalkInv, Matching
    <3>2. Cardinality({x \in S : x.at > e.at}) >= skip
      BY <2>2, <3>1 DEF WalkInv, Newer
    <3> HIDE DEF S, limit, skip
    <3>3. Cardinality({x \in S : x.at > e.at}) >= skip + limit
      BY <2>1, <2>3, <3>1, <3>2, PageMisses
    <3>4. Newer(e)' = {x \in S : x.at > e.at}
      BY <2>2 DEF Newer, Matching, S
    <3> QED
      BY <2>3, <3>3, <3>4
  <2> QED
    BY <2>2, <2>4 DEF WalkInv, Matching
<1>4. CASE Count
  <2>1. /\ wpc = "count" /\ log' = log /\ query' = query
        /\ shown' = shown /\ start' = start
    BY <1>4 DEF Count
  <2>2. /\ Missed' = Missed /\ Matching(query.filter)' = Matching(query.filter)
        /\ \A e : Newer(e)' = Newer(e)
    BY <2>1 DEF Missed, Alone, Matching, Newer
  <2>3. CASE page * query.limit >= Cardinality(Matching(query.filter))
    <3>1. ASSUME NEW e \in Missed PROVE FALSE
      <4>1. e \in Matching(query.filter) /\ Cardinality(Newer(e)) >= page * query.limit
        BY <2>1 DEF WalkInv, Missed
      <4>2. Newer(e) \in SUBSET Matching(query.filter)
        BY DEF Newer
      <4>3. e.at \in Int
        BY <4>1 DEF LogTypeOK, Entries, Times, Matching
      <4>4. e \notin Newer(e)
        BY <4>3 DEF Newer
      <4>5. /\ Cardinality(Newer(e)) <= Cardinality(Matching(query.filter))
            /\ Cardinality(Newer(e)) # Cardinality(Matching(query.filter))
        BY <4>1, <4>2, <4>4, FiniteMatches, FS_Subset
      <4> QED
        BY <2>3, <4>1, <4>5, FiniteMatches, WalkNumbers
    <3>2. wpc' = "ended" /\ page' = page
      BY <1>4, <2>3 DEF Count
    <3> QED
      BY <2>1, <2>2, <3>1, <3>2 DEF WalkInv
  <2>4. CASE ~(page * query.limit >= Cardinality(Matching(query.filter)))
    <3>1. wpc' = "find" /\ page' = page + 1 /\ page \in Nat \ {0}
      BY <1>4, <2>1, <2>4 DEF Count, WalkInv
    <3>2. Skip(page + 1, query.limit) = page * query.limit
      BY <3>1 DEF Skip
    <3>3. \A e \in Missed : Cardinality(Newer(e)) >= Skip(page + 1, query.limit)
      BY <2>1, <3>2 DEF WalkInv
    <3> QED
      BY <2>1, <2>2, <3>1, <3>3 DEF WalkInv, Skip
  <2> QED
    BY <2>3, <2>4
<1>5. CASE Leave
  BY <1>5 DEF Leave, WalkInv
<1>6. UNCHANGED walkVars \/ StartWalk \/ FindMany \/ Count \/ Leave
  <2>1. CASE AccountStep
    BY <2>1 DEF AccountStep, HandlerStep, Register, LoginUnknown, Login,
                Reveal, InsertUser, RefuseInsert, CommitRegistration,
                WriteEntry, Die, logVars
  <2>2. CASE LogStep
    BY <2>2 DEF LogStep, Tick
  <2> QED
    BY <2>1, <2>2 DEF Next, vars, logVars
<1> QED
  BY <1>1, <1>2, <1>3, <1>4, <1>5, <1>6

LEMMA InitWalk ==
    ASSUME Init
    PROVE  WalkInv
<1>1. log = {Registered(u) : u \in Existing} /\ wpc = "idle"
  BY DEF Init, LogInit
<1>2. IsFiniteSet(log)
  <2> DEFINE f == [u \in Existing |-> Registered(u)]
  <2>1. f \in Surjection(Existing, log)
    BY <1>1 DEF Surjection
  <2> HIDE DEF f
  <2> QED
    BY <2>1, AccountAssumption, FS_Surjection
<1> QED
  BY <1>1, <1>2 DEF WalkInv

(* A walk through the pages shows every entry that was there at its start, *)
(* for any page size, filter and log, whatever is written meanwhile.       *)
THEOREM WalkMissesNothing == Spec => []WalkShowsAll
<1>1. Init => WalkInv
  BY InitWalk
<1>2. AuditInv /\ WalkInv /\ [Next]_vars => WalkInv'
  BY StepWalk DEF AuditInv
<1>3. WalkInv => WalkShowsAll
  BY DEF WalkInv, WalkShowsAll, Missed
<1> QED
  BY <1>1, <1>2, <1>3, AuditInvariant, PTL DEF Spec
=============================================================================
