---------------------------- MODULE OffsetPaging ----------------------------
(***************************************************************************)
(* Offset paging: the stored messages, the webhook deliveries (both newest *)
(* first), routes, subaccounts, mailing lists, members and v1 tags         *)
(* (sorted).  A handler counts the rows in one statement and reads a page  *)
(* of them in another; the client goes on while offset + limit < total.    *)
(***************************************************************************)
EXTENDS Paging

CONSTANT DefaultLimit   \* rows to a page of messages when the request names no limit

ASSUME OffsetAssumption == DefaultLimit \in Nat \ {0}

VARIABLES
  offset,     \* where the page asked for starts
  size,       \* the limit of the page asked for
  total,      \* the count of the request under way, or NotCounted
  newest,     \* the last key given to a row of a listing that is newest first
  disturbed   \* history: what happened to the table during the walk

offsetVars == <<offset, size, total, newest, disturbed>>

NotCounted  == -1
OffsetWalks == {"messages", "deliveries", "sorted"}

ListMessagesBug(ascending) ==
  LET items == Take(rows, offset + size, ascending) \ Take(rows, offset, ascending) IN
  [items   |-> items,
   upwards |-> ascending,
   cursor  |-> IF offset + size < total THEN offset + size ELSE None,
   hasMore |-> offset + size < total - 1]

\* LIMIT size OFFSET offset; the link to the next page depends on the count.
ListMessages(ascending) ==
  LET items == Take(rows, offset + size, ascending) \ Take(rows, offset, ascending) IN
  [items   |-> items,
   upwards |-> ascending,
   cursor  |-> IF offset + size < total THEN offset + size ELSE None,
   hasMore |-> offset + size < total]
ListDeliveries(ascending) == ListMessages(ascending)

\* No links: the client computes the next offset from the total it is told.
ListRoutes(ascending)        == ListMessages(ascending)
ListSubaccounts(ascending)   == ListMessages(ascending)
ListListsLegacy(ascending)   == ListMessages(ascending)
ListMembersLegacy(ascending) == ListMessages(ascending)
V1ListTags(ascending)        == ListMessages(ascending)

ListOffset(listing) ==
  CASE listing = "messages"   -> {ListMessages(FALSE)}
    [] listing = "deliveries" -> {ListDeliveries(FALSE)}
    [] listing = "sorted"     ->
       {ListRoutes(TRUE), ListSubaccounts(TRUE), ListListsLegacy(TRUE),
        ListMembersLegacy(TRUE), V1ListTags(TRUE)}

OffsetInit ==
  /\ PagingInit
  /\ offset = 0 /\ size = Limit /\ total = NotCounted /\ disturbed = {}
  /\ newest = IF rows = {} THEN 0 ELSE CHOOSE k \in rows : \A j \in rows : j <= k

StartOffsetWalk ==
  /\ total = NotCounted
  /\ walk' \in OffsetWalks
  /\ offset' = 0 /\ size' = Limit /\ total' = Cardinality(rows)
  /\ stayed' = rows /\ times' = [k \in Keys |-> 0] /\ disturbed' = {}
  /\ UNCHANGED <<rows, answer, newest>>

\* The link to the next messages names the page and not the limit.
FollowOffset ==
  /\ walk \in OffsetWalks /\ total = NotCounted /\ answer.hasMore
  /\ offset' = answer.cursor /\ total' = Cardinality(rows)
  /\ size' = IF walk = "messages" THEN DefaultLimit ELSE Limit
  /\ UNCHANGED <<rows, walk, answer, stayed, times, newest, disturbed>>

ReadPage ==
  /\ total # NotCounted
  /\ answer' \in ListOffset(walk)
  /\ times' = Shown(times, answer'.items)
  /\ total' = NotCounted
  /\ UNCHANGED <<rows, walk, stayed, offset, size, newest, disturbed>>

\* A new row of a listing that is newest first goes before all others.
AddRow ==
  /\ \E k \in Keys \ rows :
       /\ walk \in {"messages", "deliveries"} => k > newest
       /\ rows' = rows \cup {k}
       /\ newest' = IF k > newest THEN k ELSE newest
  /\ disturbed' = disturbed \cup {"insert"}
                            \cup (IF total # NotCounted THEN {"insert after count"} ELSE {})
  /\ UNCHANGED <<walk, answer, stayed, times, offset, size, total>>

RemoveRow ==
  /\ DeleteRow
  /\ disturbed' = disturbed \cup {"delete"}
  /\ UNCHANGED <<offset, size, total, newest>>

OffsetNext == StartOffsetWalk \/ FollowOffset \/ ReadPage \/ AddRow \/ RemoveRow

----------------------------------------------------------------------------
\* A client that walks by offset is shown a row twice only if rows were added
\* meanwhile, and misses a row that stayed only if rows were deleted meanwhile, or
\* one was added between the count and the reading of a page (messages.go:251, :255,
\* webhook/handlers.go:616, :633), which hides the link to the rest.
OffsetWalkSeesAll ==
  walk \in OffsetWalks /\ total = NotCounted =>
    /\ "insert" \notin disturbed => \A k \in Keys : times[k] <= 1
    /\ ~answer.hasMore /\ disturbed \cap {"delete", "insert after count"} = {}
         => \A k \in stayed : times[k] >= 1
=============================================================================
