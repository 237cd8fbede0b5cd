---------------------------------- MODULE Feed --------------------------------
(****************************************************************************)
(* Listings (platform/paging, database.KeysetCursor and the list queries of *)
(* the repositories): a client walks a listing page by page while rows are  *)
(* added, hidden and removed.  Public listings continue below the key of    *)
(* the last row they returned; those of the administrator count rows and    *)
(* skip by offset.                                                          *)
(*                                                                          *)
(* A row has the instant its transaction began, which may be earlier than   *)
(* that of a row inserted before it, and an id that breaks ties.            *)
(****************************************************************************)
EXTENDS Integers, FiniteSets

CONSTANTS
  RowIds,     \* ids, compared by ORDER BY
  PageLimit,  \* limit of a page
  MaxTime     \* bound on the instants

ASSUME FeedAssumption ==
  RowIds \subseteq Nat /\ IsFiniteSet(RowIds) /\ PageLimit \in Nat \ {0} /\ MaxTime \in Nat \ {0}

VARIABLES
  listing,  \* which list is walked
  rowState, \* of each row
  created,  \* created_at
  clock,
  cursor,   \* the key of the last row returned, none for the first page
  returned, \* history: the rows returned
  stayed,   \* history: the rows that were listed all the time
  finished  \* the last page said there is no more

feedVars == <<listing, rowState, created, clock, cursor, returned, stayed, finished>>

Listings == {"products", "reviews", "orders", "wishlist", "notifications"}

Present == {r \in RowIds : rowState[r] # "absent"}
Shown   == {r \in RowIds : rowState[r] = "shown"}

(****************************************************************************)
(* What each list shows, of the rows of one user, product or category.      *)
(****************************************************************************)
\* Published and not deleted.
ListPublished == Shown
\* Published.
ListReviews == Shown
\* The user's, whatever their state.
ListOrders == Present
ListWishlist == Present
ListNotifications == Present

Listed ==
  CASE listing = "products" -> ListPublished
    [] listing = "reviews"  -> ListReviews
    [] listing = "orders"   -> ListOrders
    [] listing = "wishlist" -> ListWishlist
    [] listing = "notifications" -> ListNotifications

(****************************************************************************)
(* The page: PageLimit + 1 rows below the cursor, newest first.             *)
(****************************************************************************)
Key(r) == <<created[r], r>>
Newer(k, l) == k[1] > l[1] \/ (k[1] = l[1] /\ k[2] > l[2])

\* KeysetCursor: (created_at, id) < the cursor.
BelowCursor_ByTime == {r \in Listed : \A k \in cursor : created[r] < k[1]}
BelowCursor == {r \in Listed : \A k \in cursor : Newer(k, Key(r))}

Newest(S, n) == {r \in S : Cardinality({q \in S : Newer(Key(q), Key(r))}) < n}
Oldest(S) == CHOOSE r \in S : \A q \in S : ~Newer(Key(r), Key(q))

Fetched == Newest(BelowCursor, PageLimit + 1)
HasMore == Cardinality(Fetched) > PageLimit
PageRows == Newest(Fetched, PageLimit)

\* CursorPage.
NextCursor == IF HasMore THEN {Key(Oldest(PageRows))} ELSE {}

NextPage ==
  /\ ~finished
  /\ returned' = returned \cup PageRows
  /\ cursor' = IF HasMore THEN NextCursor ELSE cursor
  /\ finished' = ~HasMore
  /\ UNCHANGED <<listing, rowState, created, clock, stayed>>

(****************************************************************************)
(* The rows, meanwhile.                                                     *)
(****************************************************************************)
\* stayed is what was listed at the first page and since.
Stay == stayed' = stayed \cap Listed'

\* An insert: its transaction began now or an instant ago; a wishlist item that is
\* added again is a new row, begun after the old one.
InsertRow(r, t) ==
  /\ rowState[r] = "absent" /\ t \in {clock - 1, clock} /\ t > created[r]
  /\ rowState' = [rowState EXCEPT ![r] = "shown"]
  /\ created' = [created EXCEPT ![r] = t]
  /\ UNCHANGED <<listing, clock, cursor, returned, finished>>
  /\ Stay

\* review.Delete, wishlist.Remove.
RemoveRow(r) ==
  /\ listing \in {"reviews", "wishlist"} /\ rowState[r] # "absent"
  /\ rowState' = [rowState EXCEPT ![r] = "absent"]
  /\ UNCHANGED <<listing, created, clock, cursor, returned, finished>>
  /\ Stay

\* product.Update publishes and withdraws, product.Delete withdraws.
ToggleRow(r) ==
  /\ listing = "products" /\ rowState[r] # "absent"
  /\ rowState' = [rowState EXCEPT ![r] = IF @ = "shown" THEN "hidden" ELSE "shown"]
  /\ UNCHANGED <<listing, created, clock, cursor, returned, finished>>
  /\ Stay

PassTime ==
  /\ clock < MaxTime /\ clock' = clock + 1
  /\ UNCHANGED <<listing, rowState, created, cursor, returned, stayed, finished>>

FeedInit ==
  /\ listing \in Listings
  /\ rowState \in [RowIds -> {"absent", "shown"}]
  /\ created \in [RowIds -> 0..1]
  /\ \A r \in RowIds : rowState[r] = "absent" => created[r] = 0
  /\ clock = 1
  /\ cursor = {} /\ returned = {} /\ finished = FALSE
  /\ stayed = Listed

FeedNext ==
  \/ NextPage \/ PassTime
  \/ \E r \in RowIds : RemoveRow(r) \/ ToggleRow(r) \/ \E t \in 0..MaxTime : InsertRow(r, t)

FeedSpec == FeedInit /\ [][FeedNext]_feedVars

(****************************************************************************)
(* Offset pages: what ListAdmin of products and orders shows of them.       *)
(****************************************************************************)
Offset(page, size) == (page - 1) * size
TotalPages(total, size) == (total \div size) + (IF total % size > 0 THEN 1 ELSE 0)
HasNext(page, size, total) == page < TotalPages(total, size)

Rank(S, r) == Cardinality({q \in S : created[q] > created[r]})
OffsetPage(S, page, size) == {r \in S : Rank(S, r) >= Offset(page, size) /\ Rank(S, r) < Offset(page, size) + size}

-----------------------------------------------------------------------------
FeedTypeOK ==
  /\ listing \in Listings
  /\ rowState \in [RowIds -> {"absent", "shown", "hidden"}]
  /\ created \in [RowIds -> 0..MaxTime] /\ clock \in 0..MaxTime
  /\ cursor \in SUBSET ((0..MaxTime) \X RowIds) /\ Cardinality(cursor) <= 1
  /\ returned \subseteq RowIds /\ stayed \subseteq RowIds /\ finished \in BOOLEAN

\* A client that follows the cursor to the end is given every row that was listed
\* all the while, those with equal instants included, and no row twice, whatever is
\* inserted, withdrawn or removed between two pages (KeysetCursor, CursorPage).
EachRowOnce ==
  /\ \A r \in stayed \ BelowCursor : cursor # {} => r \in returned
  /\ finished => stayed \subseteq returned
  /\ ~finished => BelowCursor \cap returned = {}

\* The pages of a list that does not change meanwhile, and whose rows have distinct
\* instants, are the whole list, each row on one page, and the count says when to
\* stop (NewOffsetPageResult, OffsetPage.Offset).
OffsetPagesCover ==
  \A size \in 1..Cardinality(RowIds) :
    LET total == Cardinality(Present)  pages == 1..TotalPages(total, size) IN
    (\A q, r \in Present : created[q] = created[r] => q = r) =>
      /\ UNION {OffsetPage(Present, n, size) : n \in pages} = Present
      /\ \A n \in pages : HasNext(n, size, total) <=> OffsetPage(Present, n + 1, size) # {}

\* Who walks a list to its end has seen it all, by cursors or by offsets.
PagesComplete == EachRowOnce /\ OffsetPagesCover
===============================================================================
