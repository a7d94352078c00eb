------------------------------ MODULE Listing ------------------------------
(***************************************************************************)
(* Lists read page by page while rows come and go.  A row is stamped when  *)
(* its transaction begins and seen when it commits; its id is random.  A   *)
(* client reads on from the last row of a page for as long as there is     *)
(* more.  Filters and who may read are left out.                           *)
(***************************************************************************)
EXTENDS Naturals, Sequences, FiniteSets
LOCAL INSTANCE SequencesExt

CONSTANTS
    Ids,            \* a set of numbers
    Limit,          \* rows of a page
    MaxTime,        \* bound: instants rows may be stamped with
    MaxRemovals,    \* bound
    None

\* Assumed by the modules that instantiate this one.
Assumptions == Ids \subseteq Nat /\ Limit \in Nat \ {0} /\ {MaxTime, MaxRemovals} \subseteq Nat

Tables == {"messages", "reactions", "notifications", "search", "audit", "users", "emojis"}

VARIABLES
    table,      \* the table this behaviour is about
    clock,
    rows,       \* committed
    pending,    \* inserted by transactions that are open
    scan,       \* the client: "at" and the query of its next page
    got,        \* rows it has, in the order it got them
    wanted,     \* history: rows the scan should list, as long as they are there
    gone        \* ids of rows that were removed; an id is never used again

vars == <<table, clock, rows, pending, scan, got, wanted, gone>>

Row == [at : 1 .. MaxTime, id : Ids]
Query == [asc : BOOLEAN, since : 1 .. MaxTime \cup {None}, last : Ids \cup {None}]

TypeOK ==
    /\ table \in Tables /\ clock \in 1 .. MaxTime
    /\ rows \subseteq Row /\ pending \subseteq Row /\ wanted \subseteq rows
    /\ scan \in [at : {"new", "reading", "done"}, query : Query]
    /\ got \in Seq(Row) /\ gone \subseteq Ids

Init ==
    /\ table \in Tables /\ clock = 1 /\ rows = {} /\ pending = {}
    /\ scan = [at |-> "new", query |-> [asc |-> FALSE, since |-> None, last |-> None]]
    /\ got = <<>> /\ wanted = {} /\ gone = {}

(***************************************************************************)
(* Rows.                                                                   *)
(***************************************************************************)
Tick == clock < MaxTime /\ clock' = clock + 1
        /\ UNCHANGED <<table, rows, pending, scan, got, wanted, gone>>

InsertRow(i) ==
    /\ i \notin gone \cup {r.id : r \in rows \cup pending}
    /\ pending' = pending \cup {[at |-> clock, id |-> i]}
    /\ UNCHANGED <<table, clock, rows, scan, got, wanted, gone>>

Commit(r) ==
    /\ r \in pending
    /\ pending' = pending \ {r} /\ rows' = rows \cup {r}
    /\ UNCHANGED <<table, clock, scan, got, wanted, gone>>

Vanish(r) ==
    /\ Cardinality(gone) < MaxRemovals
    /\ rows' = rows \ {r} /\ wanted' = wanted \ {r} /\ gone' = gone \cup {r.id}
    /\ UNCHANGED <<table, clock, pending, scan, got>>

\* Users stay, audit logs only go when they are old.
DeleteRow(r) == table \notin {"users", "audit"} /\ r \in rows /\ Vanish(r)

\* The oldest logs before the cutoff, batch by batch.
PurgeAuditLogsBatch(cutoff) ==
    /\ table = "audit"
    /\ \E r \in {x \in rows : x.at < cutoff} :
          (\A x \in rows : r.at <= x.at) /\ Vanish(r)

(***************************************************************************)
(* Queries.                                                                *)
(***************************************************************************)
Before(r, x) == r.at < x.at \/ (r.at = x.at /\ r.id < x.id)

\* Variant: rows of the same instant are skipped.
BeyondTime(r, q) == IF q.asc THEN r.at > q.since ELSE r.at < q.since

\* In the order of the list the row comes after the cursor (created_at, id).
Beyond(r, q) ==
    LET c == [at |-> q.since, id |-> q.last]
    IN IF q.asc THEN Before(c, r) ELSE Before(r, c)

\* One row more than the page has is read.
Fetch(S, asc) ==
    LET sorted == SetToSortSeq(S, LAMBDA r, x : IF asc THEN Before(r, x) ELSE Before(x, r))
    IN SubSeq(sorted, 1, IF Len(sorted) > Limit THEN Limit + 1 ELSE Len(sorted))

\* Alone, since asks for what came later, in either order.
Later(r, q) == IF q.last # None THEN Beyond(r, q) ELSE q.since # None => r.at > q.since

\* Alone, since asks for what the order has beyond it.
Onward(r, q) ==
    CASE q.last # None -> Beyond(r, q)
      [] q.last = None /\ q.since # None -> IF q.asc THEN r.at > q.since ELSE r.at < q.since
      [] q.since = None -> TRUE

ListMessagesWithAttachmentsByChannel(q) == Fetch({r \in rows : Later(r, q)}, q.asc)
ListReactionsByMessage(q) == Fetch({r \in rows : Later(r, q)}, q.asc)
ListUserNotificationRows(q) == Fetch({r \in rows : Later(r, q)}, q.asc)
SearchMessageRows(q) == Fetch({r \in rows : q.since # None => Beyond(r, q)}, q.asc)
ListUserRows(q) == Fetch({r \in rows : Onward(r, q)}, q.asc)
ListEmojiRows(q) == Fetch({r \in rows : Onward(r, q)}, q.asc)

\* The cursor is an id; without its row the list is empty.
ListAuditLogRows(q) ==
    IF q.last = None THEN Fetch(rows, q.asc)
    ELSE LET cursor == {r \in rows : r.id = q.last}
         IN IF cursor = {} THEN <<>>
            ELSE Fetch({r \in rows : \E c \in cursor : Beyond(r, [q EXCEPT !.since = c.at])}, q.asc)

Page(found) == [rows |-> SubSeq(found, 1, IF Len(found) > Limit THEN Limit ELSE Len(found)),
                more |-> Len(found) > Limit]

ListMessages(q) == Page(ListMessagesWithAttachmentsByChannel(q))
ListMessageReactions(q) == Page(ListReactionsByMessage(q))
ListUserNotifications(q) == Page(ListUserNotificationRows(q))
SearchMessages(q) == Page(SearchMessageRows(q))
ListAuditLogs(q) == Page(ListAuditLogRows(q))
ListUsers(q) == Page(ListUserRows(q))
ListEmojis(q) == Page(ListEmojiRows(q))

Answer(q) ==
    CASE table = "messages" -> ListMessages(q)
      [] table = "reactions" -> ListMessageReactions(q)
      [] table = "notifications" -> ListUserNotifications(q)
      [] table = "search" -> SearchMessages(q)
      [] table = "audit" -> ListAuditLogs(q)
      [] table = "users" -> ListUsers(q)
      [] table = "emojis" -> ListEmojis(q)

\* What a first query asks for, of the rows there are.
Asked(q) ==
    {r \in rows : IF table \in {"users", "emojis"} THEN Onward(r, q) ELSE Later(r, q)}

(***************************************************************************)
(* The client.                                                             *)
(***************************************************************************)
\* A search takes since and last_id together or not at all.
SearchHandler(q) == q.since = None <=> q.last = None

\* An instant is only a filter here.  Old logs may go before an ascending scan
\* has passed them (see the README), so logs are read newest first.
ListAuditLogsHandler(q) == q.since = None /\ ~q.asc

ReadFirst(asc, since) ==
    /\ scan.at = "new"
    /\ LET q == [asc |-> asc, since |-> since, last |-> None]
       IN /\ table = "search" => SearchHandler(q)
          /\ table = "audit" => ListAuditLogsHandler(q)
          /\ scan' = [at |-> "reading", query |-> q] /\ wanted' = Asked(q)
    /\ UNCHANGED <<table, clock, rows, pending, got, gone>>

ReadPage ==
    /\ scan.at = "reading"
    /\ LET page == Answer(scan.query)
       IN /\ got' = got \o page.rows
          /\ scan' = IF page.more
                     THEN [scan EXCEPT !.query.since = page.rows[Len(page.rows)].at,
                                       !.query.last = page.rows[Len(page.rows)].id]
                     ELSE [scan EXCEPT !.at = "done"]
    /\ UNCHANGED <<table, clock, rows, pending, wanted, gone>>

Next ==
    \/ Tick \/ ReadPage
    \/ \E i \in Ids : InsertRow(i)
    \/ \E r \in pending : Commit(r)
    \/ \E r \in rows : DeleteRow(r)
    \/ \E t \in 1 .. clock : PurgeAuditLogsBatch(t)
    \/ \E asc \in BOOLEAN, since \in 1 .. MaxTime \cup {None} : ReadFirst(asc, since)

Spec == Init /\ [][Next]_vars

(***************************************************************************)
(* Properties.                                                             *)
(***************************************************************************)
\* Page by page the rows come in the order of the list and none comes twice,
\* whatever is inserted and deleted meanwhile.
ScansAreOrdered ==
    \A i \in 1 .. Len(got) - 1 :
        IF scan.query.asc THEN Before(got[i], got[i + 1]) ELSE Before(got[i + 1], got[i])

\* A scan misses no row that was there from its beginning to its end, also not
\* where rows of one instant fall on different pages.  Of the audit log it may
\* miss rows of an instant that a purge has begun to remove.
ScansAreComplete ==
    scan.at = "done" =>
        \A r \in wanted :
            r \in {got[i] : i \in 1 .. Len(got)} \/ (table = "audit" /\ gone # {} /\ r.at < clock)
=============================================================================
