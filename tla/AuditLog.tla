------------------------------ MODULE AuditLog ------------------------------
(***************************************************************************)
(* The audit log and its listing, GET /audit/logs.  An entry is stamped    *)
(* with the time at which it is recorded and becomes visible when its      *)
(* database transaction commits, so that entries may appear out of order   *)
(* in the log.  An administrator walks the pages of a listing, newest      *)
(* first, each page a query of its own, while entries go on appearing.     *)
(* What writes the entries is in the modules that extend this one.         *)
(***************************************************************************)
EXTENDS Integers, FiniteSets

CONSTANTS Ids,          \* generated ids: of entries and of users
          Emails,
          NoActor, NoEmail,
          Any,          \* a filter that is left out
          Filters,      \* what the administrator may filter by
          Limits,       \* page sizes
          MaxTime       \* bound: the clock stops here

Actions == {"USER_REGISTERED", "USER_LOGGED_IN", "USER_LOGIN_FAILED",
            "BVN_REVEALED"}
Times   == 0 .. MaxTime
Entries == [id : Ids, actor : Ids \cup {NoActor},
            email : Emails \cup {NoEmail}, action : Actions, at : Times]

ASSUME LogAssumption ==
    /\ MaxTime \in Nat
    /\ Limits \subseteq Nat \ {0}
    /\ Filters \subseteq [actor : Ids \cup {Any}, action : Actions \cup {Any},
                          from : Times, to : Times]

Queries == [filter : Filters, limit : Limits]

VARIABLES
    now,        \* the clock
    log,        \* the committed entries
    wpc,        \* how far the walk through the pages is
    query,      \* its filter and page size
    page,       \* the page it is at
    shown,      \* the entries it has been shown
    start       \* the entries there were when it began

walkVars == <<wpc, query, page, shown, start>>
logVars  == <<now, log, walkVars>>

(* AuditLog.record                                                         *)
Record(id, actor, email, action) ==
    [id |-> id, actor |-> actor, email |-> email, action |-> action,
     at |-> now]

(* AuditLogRepository.create, and the commit of its transaction.           *)
Create(entry) == log' = log \cup {entry}

Matches(entry, f) ==
    /\ f.actor \in {Any, entry.actor}
    /\ f.action \in {Any, entry.action}
    /\ f.from <= entry.at /\ entry.at <= f.to

Matching(f) == {entry \in log : Matches(entry, f)}

SkipOneMore(p, limit) == p * limit      \* mutant: pages counted from zero

(* Pages are counted from one.                                             *)
Skip(p, limit) == (p - 1) * limit

Older(S, T) == \A x \in S, y \in T : x.at <= y.at

(* ORDER BY createdAt DESC: entries of one time come in any order, and not *)
(* in the same one the next time.                                          *)
IsPage(P, S, skip, limit) ==
    \E skipped \in SUBSET S :
        LET rest == S \ skipped
        IN  /\ Cardinality(skipped) = skip \/ (Cardinality(S) < skip /\ rest = {})
            /\ Older(rest, skipped)
            /\ P \subseteq rest
            /\ Cardinality(P) = limit \/ (Cardinality(rest) < limit /\ P = rest)
            /\ Older(rest \ P, P)

LogInit(entries) ==
    /\ now = 0
    /\ log = entries
    /\ wpc = "idle"
    /\ query \in Queries
    /\ page = 0
    /\ shown = {}
    /\ start = {}

Tick ==
    /\ now < MaxTime
    /\ now' = now + 1
    /\ UNCHANGED <<log, walkVars>>

StartWalk ==
    /\ wpc = "idle"
    /\ query' \in Queries
    /\ page' = 1
    /\ shown' = {}
    /\ start' = Matching(query'.filter)
    /\ wpc' = "find"
    /\ UNCHANGED <<now, log>>

(* findMany and count are two statements of one transaction, each of which *)
(* sees what is committed when it runs.                                    *)
FindMany ==
    /\ wpc = "find"
    /\ \E P \in SUBSET Matching(query.filter) :
          /\ IsPage(P, Matching(query.filter), Skip(page, query.limit),
                    query.limit)
          /\ shown' = shown \cup P
    /\ wpc' = "count"
    /\ UNCHANGED <<now, log, query, page, start>>

(* The administrator turns the page as long as the total says there is     *)
(* another.                                                                *)
Count ==
    /\ wpc = "count"
    /\ IF page * query.limit >= Cardinality(Matching(query.filter))
       THEN wpc' = "ended" /\ UNCHANGED page
       ELSE wpc' = "find" /\ page' = page + 1
    /\ UNCHANGED <<now, log, query, shown, start>>

Leave ==
    /\ wpc = "ended"
    /\ wpc' = "idle"
    /\ page' = 0
    /\ shown' = {}
    /\ start' = {}
    /\ UNCHANGED <<now, log, query>>

LogStep == Tick \/ StartWalk \/ FindMany \/ Count \/ Leave
-----------------------------------------------------------------------------
(* Each variable holds what it is meant to.                                *)
LogTypeOK ==
    /\ now \in Times
    /\ log \subseteq Entries
    /\ wpc \in {"idle", "find", "count", "ended"}
    /\ query \in Queries
    /\ page \in Nat
    /\ shown \subseteq log
    /\ start \subseteq log

Alone(entry) ==
    \A other \in Matching(query.filter) : other.at = entry.at => other = entry

(* Whoever walks through all pages is shown every entry that was there at  *)
(* the start, though entries written meanwhile move the others from page   *)
(* to page, and those stamped early and committed late move them in the    *)
(* middle: every entry that is alone at its time, as those of one time     *)
(* have no order to rely on.                                               *)
WalkShowsAll ==
    wpc = "ended" => \A entry \in start : Alone(entry) => entry \in shown
=============================================================================
