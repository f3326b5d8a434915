--------------------------------- MODULE Feed ---------------------------------
(***************************************************************************)
(* The transaction feed: TransactionsService.list merges three tables by   *)
(* time of creation, and TransactionFeed in the browser asks for page      *)
(* after page while rows are written.  The rows are those of one filter.   *)
(***************************************************************************)
EXTENDS Naturals, Sequences, FiniteSets, FiniteSetsExt

CONSTANTS Rows,
          Tables,
          TableOf,     \* TableOf[r]: the table the row is written to
          PageSize,
          LastTime,    \* (bound)
          MaxFailures    \* requests that fail (bound)

ASSUME FeedAssumption ==
  /\ IsFiniteSet(Rows) /\ TableOf \in [Rows -> Tables]
  /\ PageSize \in Nat \ {0} /\ LastTime \in Nat \ {0} /\ MaxFailures \in Nat

VARIABLES
  now,
  createdAt, \* createdAt[r], 0 before the row is written
  visible,   \* rows that are committed and pass the filter
  asking,    \* a request for a page is under way
  unread,    \* tables it has still to read
  fetched,   \* rows it has read
  cursor,    \* the cursor it was sent with, 0 for none
  pages,     \* the pages the browser holds
  hasMore,   \* what the last of them says
  failures,
  \* History:
  known,     \* rows that were visible when the first page was asked for
  left       \* rows that passed the filter and no longer do

rows == <<now, createdAt, visible, left>>
request == <<asking, unread, fetched, cursor>>
feed == <<pages, hasMore, known>>
feedVars == <<rows, request, feed, failures>>

Shown == UNION {pages[i] : i \in DOMAIN pages}

-----------------------------------------------------------------------------
Clock ==
  /\ now < LastTime /\ now' = now + 1
  /\ UNCHANGED <<createdAt, visible, left, request, feed, failures>>

\* The time is that of the statement; the row appears when its transaction commits.
Write(r) ==
  /\ createdAt[r] = 0
  /\ createdAt' = [createdAt EXCEPT ![r] = now]
  /\ UNCHANGED <<now, visible, left, request, feed, failures>>

Commit(r) ==
  /\ createdAt[r] # 0 /\ r \notin visible \cup left
  /\ visible' = visible \cup {r}
  /\ UNCHANGED <<now, createdAt, left, request, feed, failures>>

\* A row gets another status than the one the filter asks for.
Leaves(r) ==
  /\ r \in visible
  /\ visible' = visible \ {r} /\ left' = left \cup {r}
  /\ UNCHANGED <<now, createdAt, request, feed, failures>>

-----------------------------------------------------------------------------
Ask(c) == asking' = TRUE /\ unread' = Tables /\ fetched' = {} /\ cursor' = c

\* The feed is opened, or fetched again from its first page.
Open ==
  /\ Ask(0)
  /\ pages' = <<>> /\ hasMore' = FALSE /\ known' = visible
  /\ UNCHANGED <<rows, failures>>

\* The cursor is the time of the last row of the page before.
LoadMore ==
  /\ ~asking /\ hasMore
  /\ Ask(Min({createdAt[r] : r \in pages[Len(pages)]}))
  /\ UNCHANGED <<rows, feed, failures>>

\* A request that failed is sent again.
RequestFails ==
  /\ asking
  /\ failures < MaxFailures /\ failures' = failures + 1
  /\ Ask(cursor)
  /\ UNCHANGED <<rows, feed>>

-----------------------------------------------------------------------------
NotAfter(r) == cursor = 0 \/ createdAt[r] <= cursor             \* mutant

Before(r) == cursor = 0 \/ createdAt[r] < cursor

\* The n newest of the rows R, in any order if their times are the same.
Newest(n, R) ==
  {P \in SUBSET R : /\ Cardinality(P) = IF Cardinality(R) < n THEN Cardinality(R) ELSE n
                    /\ \A p \in P, q \in R \ P : createdAt[p] >= createdAt[q]}

OnePage == PageSize                                             \* mutant

FetchSize == 2 * PageSize

\* The tables are read by statements of their own, which see what is committed by then.
ReadTable(t) ==
  /\ t \in unread
  /\ \E P \in Newest(FetchSize, {r \in visible : TableOf[r] = t /\ Before(r)}) :
       fetched' = fetched \cup P
  /\ unread' = unread \ {t}
  /\ UNCHANGED <<rows, asking, cursor, feed, failures>>

FullPage == Cardinality(fetched) >= PageSize                    \* mutant

HasMore == Cardinality(fetched) > PageSize

Answer ==
  /\ asking /\ unread = {}
  /\ \E P \in Newest(PageSize, fetched) : pages' = Append(pages, P)
  /\ hasMore' = HasMore
  /\ asking' = FALSE /\ fetched' = {} /\ cursor' = 0
  /\ UNCHANGED <<rows, unread, known, failures>>

-----------------------------------------------------------------------------
FeedInit ==
  /\ now = 1 /\ createdAt = [r \in Rows |-> 0] /\ visible = {} /\ left = {}
  /\ asking = FALSE /\ unread = {} /\ fetched = {} /\ cursor = 0
  /\ pages = <<>> /\ hasMore = FALSE /\ known = {}
  /\ failures = 0

FeedNext ==
  \/ Clock
  \/ \E r \in Rows : Write(r) \/ Commit(r) \/ Leaves(r)
  \/ Open \/ LoadMore \/ RequestFails \/ Answer
  \/ \E t \in Tables : ReadTable(t)

FeedSpec == FeedInit /\ [][FeedNext]_feedVars

-----------------------------------------------------------------------------
FeedTypeOK ==
  /\ now \in 1..LastTime /\ createdAt \in [Rows -> 0..LastTime]
  /\ visible \subseteq Rows /\ left \subseteq Rows
  /\ asking \in BOOLEAN /\ unread \subseteq Tables /\ fetched \subseteq Rows
  /\ cursor \in 0..LastTime
  /\ pages \in Seq(SUBSET Rows) /\ hasMore \in BOOLEAN
  /\ known \subseteq Rows
  /\ failures \in 0..MaxFailures

\* Rows written in one millisecond.
Tied(r) == \E q \in Rows \ {r} : createdAt[q] = createdAt[r]

\* Whatever is written while somebody reads on, no row is repeated and the pages run from the
\* newest to the oldest ("would silently skip or repeat rows").
PagesInOrder ==
  \A i, j \in DOMAIN pages : i < j =>
    \A p \in pages[i], q \in pages[j] : createdAt[p] > createdAt[q]

\* When the feed says "That's everything", it shows every row that was there when it was opened,
\* except a row of the same millisecond as another and one that no longer passes the filter.
EverythingShown ==
  (~asking /\ pages # <<>> /\ ~hasMore) =>
    \A r \in known \cap visible : Tied(r) \/ r \in Shown

\* A page is only announced if there is one: none but the first is empty (same exceptions).
NoEmptyPage ==
  (left = {} /\ ~\E r \in Rows : createdAt[r] # 0 /\ Tied(r)) =>
    \A i \in DOMAIN pages : i > 1 => pages[i] # {}
=============================================================================
