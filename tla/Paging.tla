------------------------------- MODULE Paging -------------------------------
(***************************************************************************)
(* Cursor paging (internal/pagination and the listings that use it): a     *)
(* client follows the links of each answer while rows come and go.  A row  *)
(* is its sort key: an address, a tag, a name, an event's <<timestamp, id>>.*)
(*                                                                         *)
(* Nine listings (bounces, complaints, unsubscribes, allowlist, mailing    *)
(* lists, their members, tags, templates, versions) share one algorithm,   *)
(* here "keys"; the events have their own, newest first or ascending.      *)
(***************************************************************************)
EXTENDS Integers, FiniteSets

CONSTANTS N,        \* the sort keys are 1..N
          Limit,    \* rows to a page
          Walks     \* the listings walked, among AllWalks

Keys     == 1..N
AllWalks == {"keys", "events", "events ascending"}

ASSUME PagingAssumption == /\ N \in Nat /\ Limit \in Nat \ {0}
                           /\ Walks \subseteq AllWalks

VARIABLES
  rows,     \* the rows of the table
  walk,     \* the listing the client walks, "off" once it left the forward path
  answer,   \* the last answer: its items, its last item, and whether there are more
  stayed,   \* history: the rows that were there when the walk began and still are
  times     \* history: how often the walk was shown each row

pagingVars == <<rows, walk, answer, stayed, times>>

None == 0   \* no cursor; there is no row 0

----------------------------------------------------------------------------
(* One page.                                                               *)

Precedes(j, k, ascending) == IF ascending THEN j < k ELSE k < j

\* ORDER BY and LIMIT n over the rows of a window.
Take(window, n, ascending) ==
  {k \in window : Cardinality({j \in window : Precedes(j, k, ascending)}) < n}

\* The item that ends a page read in this order.
LastOf(items, ascending) ==
  IF items = {} THEN None
  ELSE CHOOSE k \in items : \A j \in items : j = k \/ Precedes(j, k, ascending)

\* Limit + 1 rows are fetched to tell whether there are more than Limit.  The
\* answer's cursor is its last item, after a `reversed' page was turned round.
Page(window, ascending, reversed) ==
  LET items == Take(window, Limit, ascending) IN
  [items   |-> items,
   upwards |-> ascending # reversed,
   cursor  |-> LastOf(items, ascending # reversed),
   hasMore |-> Cardinality(window) > Limit]

ListBouncesBug(page, pivot) ==
  Page({k \in rows : /\ page = "next" /\ pivot # None => k >= pivot
                     /\ page = "prev" /\ pivot # None => k < pivot},
       page # "last", page \in {"prev", "last"})

\* "last" reads downwards and reverses.  "prev" is reversed too, but it was read
\* upwards: it starts from the first row of all and comes out descending.
ListBounces(page, pivot) ==
  Page({k \in rows : /\ page = "next" /\ pivot # None => k > pivot
                     /\ page = "prev" /\ pivot # None => k < pivot},
       page # "last", page \in {"prev", "last"})

\* The same code over other tables.
ListComplaints(page, pivot)   == ListBounces(page, pivot)
ListUnsubscribes(page, pivot) == ListBounces(page, pivot)
ListAllowlist(page, pivot)    == ListBounces(page, pivot)
ListLists(page, pivot)        == ListBounces(page, pivot)   \* pivot: or ?address=
ListMembers(page, pivot)      == ListBounces(page, pivot)
ListTags(page, pivot)         == ListBounces(page, pivot)
ListTemplates(page, pivot)    == ListBounces(page, pivot)
ListVersions(page, pivot)     == ListBounces(page, pivot)

ListKeys(page, pivot) ==
  {ListBounces(page, pivot), ListComplaints(page, pivot), ListUnsubscribes(page, pivot),
   ListAllowlist(page, pivot), ListLists(page, pivot), ListMembers(page, pivot),
   ListTags(page, pivot), ListTemplates(page, pivot), ListVersions(page, pivot)}

\* The direction is that of the query, whatever the link is called.
ListEvents(page, pivot, ascending) ==
  Page({k \in rows : page # "first" /\ pivot # None => Precedes(pivot, k, ascending)},
       ascending, FALSE)

FirstPage(listing) ==
  IF listing = "keys" THEN ListKeys("first", None)
                      ELSE {ListEvents("first", None, listing = "events ascending")}

\* A link carries the page, the limit and the pivot, and no other parameter of the
\* query: every page of events a client is linked to is newest first.
GeneratePagingURLs(listing, page, pivot) ==
  IF listing = "keys" THEN ListKeys(page, pivot) ELSE {ListEvents(page, pivot, FALSE)}

NextLink == answer.hasMore /\ answer.cursor # None
PrevLink == answer.cursor # None

----------------------------------------------------------------------------
(* The client and the other writers.                                       *)

PagingInit ==
  /\ rows \in SUBSET Keys
  /\ walk = "off"
  /\ answer = [items |-> {}, upwards |-> TRUE, cursor |-> None, hasMore |-> FALSE]
  /\ stayed = {} /\ times = [k \in Keys |-> 0]

Shown(seen, items) == [k \in Keys |-> IF k \in items THEN seen[k] + 1 ELSE seen[k]]

StartWalk == \E listing \in Walks :
  /\ walk' = listing
  /\ answer' \in FirstPage(listing)
  /\ stayed' = rows
  /\ times' = Shown([k \in Keys |-> 0], answer'.items)
  /\ UNCHANGED rows

FollowNext ==
  /\ walk # "off" /\ NextLink
  /\ answer' \in GeneratePagingURLs(walk, "next", answer.cursor)
  /\ times' = Shown(times, answer'.items)
  /\ UNCHANGED <<rows, walk, stayed>>

\* The links back, to the last page, and on from there.
TurnAside ==
  /\ walk # "off"
  /\ \/ PrevLink /\ answer' \in GeneratePagingURLs(walk, "prev", answer.cursor)
     \/ answer' \in GeneratePagingURLs(walk, "last", None)
  /\ walk' = "off" /\ stayed' = {} /\ times' = [k \in Keys |-> 0]
  /\ UNCHANGED rows

InsertRow == \E k \in Keys \ rows :
  rows' = rows \cup {k} /\ UNCHANGED <<walk, answer, stayed, times>>
DeleteRow == \E k \in rows :
  rows' = rows \ {k} /\ stayed' = stayed \ {k} /\ UNCHANGED <<walk, answer, times>>

PagingNext == StartWalk \/ FollowNext \/ TurnAside \/ InsertRow \/ DeleteRow

PagingSpec == PagingInit /\ [][PagingNext]_pagingVars

----------------------------------------------------------------------------
(* Properties.                                                             *)

WalkIsComplete ==
  /\ \A k \in Keys : times[k] <= 1
  /\ ~NextLink => \A k \in stayed : times[k] = 1

\* However the table changes meanwhile, a client that follows `next' is shown no
\* row twice, and when there is no `next' any more it was shown every row that was
\* there throughout.  Not so for events asked in ascending order (event.go:298).
WalkSeesAll == walk \in {"keys", "events"} => WalkIsComplete

\* events-and-logs.md:547: the page token encodes the sort direction, so that the
\* same holds of the walk a polling client makes.
AscendingWalkSeesAll == walk = "events ascending" => WalkIsComplete

PagingTypeOK ==
  /\ rows \subseteq Keys /\ stayed \subseteq rows
  /\ walk \in Walks \cup {"off"}
  /\ answer.items \subseteq Keys /\ answer.cursor \in Keys \cup {None}
  /\ answer.cursor # None => answer.cursor \in answer.items
  /\ answer.hasMore \in BOOLEAN /\ answer.upwards \in BOOLEAN
  /\ times \in [Keys -> Nat]
=============================================================================
