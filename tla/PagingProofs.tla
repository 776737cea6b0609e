---------------------------- MODULE PagingProofs ----------------------------
(***************************************************************************)
(* What clients that walk through a listing see, for any number of rows    *)
(* and any page size.  Along the `next' links every row that stays is      *)
(* shown exactly once: WalkSeesAll.  By offset it may be shown again or    *)
(* missed, but only as OffsetWalkSeesAll says.                             *)
(***************************************************************************)
EXTENDS OffsetPaging, FiniteSetTheorems, WellFoundedInduction, TLAPS

USE PagingAssumption DEF PagingAssumption

----------------------------------------------------------------------------
(* Rows in order.                                                          *)

\* A nonempty set of natural numbers has a least element.
LEMMA LeastNat ==
  ASSUME NEW T, T \subseteq Nat, T # {}
  PROVE  \E x \in T : \A y \in T : x <= y
<1> DEFINE R == OpToRel(<, Nat)
<1>1. \A x, y \in Nat : y < x => <<y, x>> \in R
  BY DEF OpToRel
<1>2. IsWellFoundedOn(R, Nat)
  BY NatLessThanWellFounded
<1> HIDE DEF R
<1>3. PICK x \in T : \A y \in T : ~ (<<y, x>> \in R)
  BY <1>2, WFMin
<1>4. ASSUME NEW y \in T PROVE x <= y
  <2>1. ~ (y < x)
    BY <1>1, <1>3
  <2>2. x \in Nat /\ y \in Nat
    OBVIOUS
  <2>3. QED
    BY <2>1, <2>2
<1>5. QED
  BY <1>4

\* The two directions are strict total orders.
LEMMA PrecedesIsOrder ==
  ASSUME NEW i \in Keys, NEW j \in Keys, NEW k \in Keys, NEW up \in BOOLEAN
  PROVE  /\ ~Precedes(i, i, up)
         /\ Precedes(i, j, up) /\ Precedes(j, k, up) => Precedes(i, k, up)
         /\ i = j \/ Precedes(i, j, up) \/ Precedes(j, i, up)
         /\ Precedes(i, j, ~up) <=> Precedes(j, i, up)
<1>1. CASE up
  BY <1>1 DEF Precedes, Keys
<1>2. CASE ~up
  BY <1>2 DEF Precedes, Keys
<1>3. QED
  BY <1>1, <1>2

\* A nonempty set of keys has a last element in either direction.
LEMMA LastExists ==
  ASSUME NEW S, S \subseteq Keys, S # {}, NEW up \in BOOLEAN
  PROVE  \E k \in S : \A j \in S : j = k \/ Precedes(j, k, up)
<1>1. CASE up
  <2> DEFINE T == {N - k : k \in S}
  <2>1. T \subseteq Nat /\ T # {}
    BY DEF Keys
  <2>2. PICK x \in T : \A y \in T : x <= y
    BY <2>1, LeastNat
  <2>3. PICK k \in S : x = N - k
    BY <2>2
  <2>4. ASSUME NEW j \in S PROVE j = k \/ j < k
    <3>1. N - k <= N - j
      BY <2>2, <2>3
    <3>2. QED
      BY <3>1, SMT DEF Keys
  <2>5. QED
    BY <1>1, <2>4 DEF Precedes
<1>2. CASE ~up
  <2>0. S \subseteq Nat
    BY DEF Keys
  <2>1. PICK k \in S : \A j \in S : k <= j
    BY <2>0, LeastNat
  <2>2. ASSUME NEW j \in S PROVE j = k \/ k < j
    BY <2>1 DEF Keys
  <2>3. QED
    BY <1>2, <2>2 DEF Precedes
<1>3. QED
  BY <1>1, <1>2

\* ... and a first one.
LEMMA FirstExists ==
  ASSUME NEW S, S \subseteq Keys, S # {}, NEW up \in BOOLEAN
  PROVE  \E k \in S : \A j \in S : ~Precedes(j, k, up)
<1>1. PICK k \in S : \A j \in S : j = k \/ Precedes(j, k, ~up)
  BY LastExists
<1>2. ASSUME NEW j \in S PROVE ~Precedes(j, k, up)
  BY <1>1, PrecedesIsOrder, j \in Keys, k \in Keys
<1>3. QED
  BY <1>2

LEMMA KeysAreFinite ==
  ASSUME NEW S, S \subseteq Keys
  PROVE  IsFiniteSet(S) /\ Cardinality(S) \in Nat
<1>1. IsFiniteSet(1..N)
  BY FS_Interval
<1>2. QED
  BY <1>1, FS_Subset, FS_CardinalityType DEF Keys

----------------------------------------------------------------------------
(* What LIMIT n takes from a window.                                       *)

\* Something, if there is something.
LEMMA TakeSome ==
  ASSUME NEW W, W \subseteq Keys, W # {}, NEW n \in Nat \ {0}, NEW up \in BOOLEAN
  PROVE  Take(W, n, up) # {}
<1>1. PICK k \in W : \A j \in W : ~Precedes(j, k, up)
  BY FirstExists
<1>2. {j \in W : Precedes(j, k, up)} = {}
  BY <1>1
<1>3. Cardinality({j \in W : Precedes(j, k, up)}) = 0
  BY <1>2, FS_EmptySet
<1>4. QED
  BY <1>3 DEF Take

\* Everything, if there is no more than that.
LEMMA TakeAll ==
  ASSUME NEW W, W \subseteq Keys, NEW n \in Nat, Cardinality(W) <= n, NEW up \in BOOLEAN
  PROVE  Take(W, n, up) = W
<1>1. SUFFICES ASSUME NEW k \in W PROVE Cardinality({j \in W : Precedes(j, k, up)}) < n
  BY DEF Take
<1> DEFINE B == {j \in W : Precedes(j, k, up)}
<1>2. B \subseteq W \ {k}
  BY PrecedesIsOrder, k \in Keys
<1>3. /\ IsFiniteSet(W \ {k})
      /\ Cardinality(W \ {k}) = Cardinality(W) - 1
  BY KeysAreFinite, FS_RemoveElement
<1>4. Cardinality(B) <= Cardinality(W \ {k})
  BY <1>2, <1>3, FS_Subset
<1>5. Cardinality(B) \in Nat /\ Cardinality(W) \in Nat
  BY KeysAreFinite
<1>6. QED
  BY <1>3, <1>4, <1>5

\* No row without those before it.
LEMMA TakeIsPrefix ==
  ASSUME NEW W, W \subseteq Keys, NEW n \in Nat, NEW up \in BOOLEAN,
         NEW m \in Take(W, n, up), NEW k \in W, Precedes(k, m, up)
  PROVE  k \in Take(W, n, up)
<1> DEFINE B(x) == {j \in W : Precedes(j, x, up)}
<1>1. m \in W /\ Cardinality(B(m)) < n
  BY DEF Take
<1>2. ASSUME NEW j \in B(k) PROVE j \in B(m)
  BY <1>1, PrecedesIsOrder, j \in Keys, k \in Keys, m \in Keys
<1>3. Cardinality(B(k)) <= Cardinality(B(m))
  BY <1>2, KeysAreFinite, FS_Subset
<1>4. Cardinality(B(k)) \in Nat /\ Cardinality(B(m)) \in Nat
  BY KeysAreFinite
<1>5. QED
  BY <1>1, <1>3, <1>4 DEF Take

----------------------------------------------------------------------------
(* Pages.                                                                  *)

\* The last item of a page is one of them, and none comes after it.
LEMMA LastOfIsLast ==
  ASSUME NEW S, S \subseteq Keys, NEW up \in BOOLEAN
  PROVE  /\ S = {} => LastOf(S, up) = None
         /\ S # {} => /\ LastOf(S, up) \in S
                      /\ \A j \in S : j = LastOf(S, up) \/ Precedes(j, LastOf(S, up), up)
<1>1. CASE S = {}
  BY <1>1 DEF LastOf
<1>2. CASE S # {}
  <2>1. \E k \in S : \A j \in S : j = k \/ Precedes(j, k, up)
    BY <1>2, LastExists
  <2>2. LastOf(S, up) = CHOOSE k \in S : \A j \in S : j = k \/ Precedes(j, k, up)
    BY <1>2 DEF LastOf
  <2>3. QED
    BY <1>2, <2>1, <2>2
<1>3. QED
  BY <1>1, <1>2

\* The shape of every answer.
IsAnswer(a) ==
  /\ a.items \subseteq Keys /\ a.cursor \in Keys \cup {None}
  /\ a.cursor # None => a.cursor \in a.items
  /\ a.hasMore \in BOOLEAN /\ a.upwards \in BOOLEAN

LEMMA PageIsAnswer ==
  ASSUME NEW W, W \subseteq Keys, NEW up \in BOOLEAN, NEW rev \in BOOLEAN
  PROVE  IsAnswer(Page(W, up, rev))
<1> DEFINE items == Take(W, Limit, up)
<1>1. items \subseteq W
  BY DEF Take
<1>2. (up # rev) \in BOOLEAN
  OBVIOUS
<1>3. /\ items = {} => LastOf(items, up # rev) = None
      /\ items # {} => LastOf(items, up # rev) \in items
  <2>1. items \subseteq Keys
    BY <1>1
  <2> HIDE DEF items
  <2>2. QED
    BY <1>2, <2>1, LastOfIsLast
<1>4. (Cardinality(W) > Limit) \in BOOLEAN
  BY KeysAreFinite
<1>5. QED
  BY <1>1, <1>2, <1>3, <1>4 DEF Page, IsAnswer

\* A page read forwards is the part of its window up to its last item, and all of
\* the window when there are no more rows.
IsForwardPage(p, W, up) ==
  /\ p.items \subseteq W
  /\ p.hasMore => p.cursor # None
  /\ p.cursor # None => /\ p.cursor \in W
                        /\ \A j \in p.items : ~Precedes(p.cursor, j, up)
                        /\ \A k \in W : Precedes(p.cursor, k, up) \/ k \in p.items
  /\ ~p.hasMore => p.items = W

LEMMA ForwardPage ==
  ASSUME NEW W, W \subseteq Keys, NEW up \in BOOLEAN
  PROVE  IsForwardPage(Page(W, up, FALSE), W, up)
<1> DEFINE items == Take(W, Limit, up)
           last  == LastOf(items, up)
<1>1. items \subseteq W
  BY DEF Take
<1> DEFINE p == Page(W, up, FALSE)
<1>2. p.items = items /\ p.cursor = last /\ p.hasMore = (Cardinality(W) > Limit)
  <2>1. (up # FALSE) = up
    OBVIOUS
  <2>2. QED
    BY <2>1 DEF Page
<1>3. /\ items = {} => last = None
      /\ items # {} => last \in items /\ \A j \in items : j = last \/ Precedes(j, last, up)
  <2>1. items \subseteq Keys
    BY <1>1
  <2> HIDE DEF items
  <2>2. QED
    BY <2>1, LastOfIsLast
<1>4. ASSUME Cardinality(W) > Limit PROVE last # None
  <2>1. W # {}
    BY <1>4, FS_EmptySet
  <2>2. items # {}
    BY <2>1, TakeSome
  <2>3. last \in Keys
    BY <1>1, <1>3, <2>2
  <2>4. QED
    BY <2>3 DEF Keys, None
<1>5. ASSUME ~(Cardinality(W) > Limit) PROVE items = W
  <2>1. Cardinality(W) <= Limit
    BY <1>5, KeysAreFinite
  <2>2. QED
    BY <2>1, TakeAll
<1>6. ASSUME last # None
      PROVE  /\ last \in W
             /\ \A j \in items : ~Precedes(last, j, up)
             /\ \A k \in W : Precedes(last, k, up) \/ k \in items
  <2>1. last \in items /\ \A j \in items : j = last \/ Precedes(j, last, up)
    BY <1>3, <1>6
  <2>2. last \in W /\ last \in Keys
    BY <1>1, <2>1
  <2>3. ASSUME NEW j \in items PROVE ~Precedes(last, j, up)
    <3>1. j \in Keys
      BY <1>1
    <3>2. j = last \/ Precedes(j, last, up)
      BY <2>1
    <3> HIDE DEF last
    <3>3. QED
      BY <2>2, <3>1, <3>2, PrecedesIsOrder
  <2>4. ASSUME NEW k \in W, ~Precedes(last, k, up) PROVE k \in items
    <3>1. k \in Keys
      OBVIOUS
    <3>2. k = last \/ Precedes(k, last, up)
      <4> HIDE DEF last
      <4>1. QED
        BY <2>2, <2>4, <3>1, PrecedesIsOrder
    <3>3. CASE k = last
      BY <2>1, <3>3
    <3>4. CASE Precedes(k, last, up)
      BY <2>1, <3>4, TakeIsPrefix
    <3>5. QED
      BY <3>2, <3>3, <3>4
  <2>5. QED
    BY <2>2, <2>3, <2>4
<1>7. QED
  <2> HIDE DEF items, last, p
  <2>1. IsForwardPage(p, W, up)
    BY <1>1, <1>2, <1>4, <1>5, <1>6 DEF IsForwardPage
  <2>2. QED
    BY <2>1 DEF p

\* Whatever page a client asks for, it is an answer.
LEMMA AnswersAreAnswers ==
  ASSUME NEW listing, NEW page, NEW pivot, rows \subseteq Keys
  PROVE  /\ \A a \in FirstPage(listing) : IsAnswer(a)
         /\ \A a \in GeneratePagingURLs(listing, page, pivot) : IsAnswer(a)
<1>1. ASSUME NEW pg, NEW pv PROVE \A a \in ListKeys(pg, pv) : IsAnswer(a)
  <2> DEFINE W == {k \in rows : /\ pg = "next" /\ pv # None => k > pv
                                /\ pg = "prev" /\ pv # None => k < pv}
  <2>1. IsAnswer(Page(W, pg # "last", pg \in {"prev", "last"}))
    <3>1. W \subseteq Keys /\ (pg # "last") \in BOOLEAN /\ (pg \in {"prev", "last"}) \in BOOLEAN
      OBVIOUS
    <3> HIDE DEF W
    <3>2. QED
      BY <3>1, PageIsAnswer
  <2>2. QED
    BY <2>1 DEF ListKeys, ListBounces, ListComplaints, ListUnsubscribes, ListAllowlist,
                ListLists, ListMembers, ListTags, ListTemplates, ListVersions
<1>2. ASSUME NEW pg, NEW pv, NEW up \in BOOLEAN PROVE IsAnswer(ListEvents(pg, pv, up))
  <2> DEFINE W == {k \in rows : pg # "first" /\ pv # None => Precedes(pv, k, up)}
  <2>1. W \subseteq Keys
    OBVIOUS
  <2> HIDE DEF W
  <2>2. IsAnswer(Page(W, up, FALSE))
    BY <2>1, PageIsAnswer
  <2>3. QED
    BY <2>2 DEF ListEvents, W
<1>3. IsAnswer(ListEvents("first", None, listing = "events ascending"))
  BY <1>2
<1>4. IsAnswer(ListEvents(page, pivot, FALSE))
  BY <1>2
<1>5. QED
  BY <1>1, <1>3, <1>4 DEF FirstPage, GeneratePagingURLs

Upwards(listing) == listing = "keys"

LEMMA ListKeysIsListBounces ==
  ASSUME NEW page, NEW pivot
  PROVE  ListKeys(page, pivot) = {ListBounces(page, pivot)}
BY DEF ListKeys, ListComplaints, ListUnsubscribes, ListAllowlist,
       ListLists, ListMembers, ListTags, ListTemplates, ListVersions

\* The forward pages of the two walks that keep their direction.
LEMMA ForwardStarts ==
  ASSUME NEW listing \in {"keys", "events"}
  PROVE  FirstPage(listing) = {Page(rows, Upwards(listing), FALSE)}
<1>1. ListBounces("first", None) = Page(rows, TRUE, FALSE)
  <2> DEFINE W == {k \in rows : /\ "first" = "next" /\ None # None => k > None
                                /\ "first" = "prev" /\ None # None => k < None}
  <2>1. W = rows
    OBVIOUS
  <2>2. ("first" # "last") = TRUE /\ ("first" \in {"prev", "last"}) = FALSE
    OBVIOUS
  <2>3. ListBounces("first", None)
          = Page(W, "first" # "last", "first" \in {"prev", "last"})
    BY Zenon DEF ListBounces
  <2> HIDE DEF W
  <2>4. QED
    BY <2>1, <2>2, <2>3
<1>2. ListEvents("first", None, FALSE) = Page(rows, FALSE, FALSE)
  BY DEF ListEvents
<1>3. CASE listing = "keys"
  BY <1>1, <1>3, ListKeysIsListBounces DEF FirstPage, Upwards
<1>4. CASE listing = "events"
  BY <1>2, <1>4 DEF FirstPage, Upwards
<1>5. QED
  BY <1>3, <1>4

LEMMA ForwardPages ==
  ASSUME NEW listing \in {"keys", "events"}, NEW c \in Keys, rows \subseteq Keys
  PROVE  GeneratePagingURLs(listing, "next", c) =
           {Page({k \in rows : Precedes(c, k, Upwards(listing))}, Upwards(listing), FALSE)}
<1>1. c # None
  BY DEF Keys, None
<1>2. ListBounces("next", c) = Page({k \in rows : Precedes(c, k, TRUE)}, TRUE, FALSE)
  <2> DEFINE W == {k \in rows : /\ "next" = "next" /\ c # None => k > c
                                /\ "next" = "prev" /\ c # None => k < c}
  <2>1. W = {k \in rows : Precedes(c, k, TRUE)}
    BY <1>1 DEF Precedes, Keys
  <2>2. ("next" # "last") = TRUE /\ ("next" \in {"prev", "last"}) = FALSE
    OBVIOUS
  <2>3. ListBounces("next", c)
          = Page(W, "next" # "last", "next" \in {"prev", "last"})
    BY Zenon DEF ListBounces
  <2> HIDE DEF W
  <2>4. QED
    BY <2>1, <2>2, <2>3
<1>3. ListEvents("next", c, FALSE) = Page({k \in rows : Precedes(c, k, FALSE)}, FALSE, FALSE)
  BY <1>1 DEF ListEvents
<1>4. CASE listing = "keys"
  BY <1>2, <1>4, ListKeysIsListBounces DEF GeneratePagingURLs, Upwards
<1>5. CASE listing = "events"
  BY <1>3, <1>5 DEF GeneratePagingURLs, Upwards
<1>6. QED
  BY <1>4, <1>5

----------------------------------------------------------------------------
(* The walk.                                                               *)

\* A walk that keeps its direction was shown no row twice; the rows it was shown are
\* not beyond its cursor; and a row that stayed was shown unless it is beyond it.
WalkInv ==
  walk \in {"keys", "events"} =>
    /\ \A k \in Keys : times[k] <= 1
    /\ NextLink => \A k \in Keys :
         times[k] = 1 => ~Precedes(answer.cursor, k, Upwards(walk))
    /\ \A k \in stayed :
         times[k] = 1 \/ (NextLink /\ Precedes(answer.cursor, k, Upwards(walk)))

PagingInv == PagingTypeOK /\ WalkInv

LEMMA ShownTimes ==
  ASSUME NEW seen \in [Keys -> Nat], NEW S
  PROVE  /\ Shown(seen, S) \in [Keys -> Nat]
         /\ \A k \in Keys : Shown(seen, S)[k] = IF k \in S THEN seen[k] + 1 ELSE seen[k]
BY DEF Shown

LEMMA StartWalkSound == PagingInv /\ StartWalk => PagingInv'
<1> SUFFICES ASSUME PagingInv, StartWalk PROVE PagingInv'
  OBVIOUS
<1>1. PICK listing \in Walks :
        /\ walk' = listing
        /\ answer' \in FirstPage(listing)
        /\ stayed' = rows
        /\ times' = Shown([k \in Keys |-> 0], answer'.items)
        /\ UNCHANGED rows
  BY DEF StartWalk
<1>2. rows \subseteq Keys
  BY DEF PagingInv, PagingTypeOK
<1>3. IsAnswer(answer')
  BY <1>1, <1>2, AnswersAreAnswers
<1>4. /\ times' \in [Keys -> Nat]
      /\ \A k \in Keys : times'[k] = IF k \in answer'.items THEN 1 ELSE 0
  BY <1>1, ShownTimes
<1>5. PagingTypeOK'
  BY <1>1, <1>2, <1>3, <1>4 DEF PagingTypeOK, IsAnswer
<1>6. WalkInv'
  <2> SUFFICES ASSUME listing \in {"keys", "events"} PROVE WalkInv'
    BY <1>1 DEF WalkInv
  <2> DEFINE up == Upwards(listing)
  <2>1. up \in BOOLEAN
    BY DEF Upwards
  <2>2. answer' = Page(rows, up, FALSE)
    BY <1>1, ForwardStarts
  <2>3. IsForwardPage(answer', rows, up)
    <3> HIDE DEF up
    <3>1. QED
      BY <1>2, <2>1, <2>2, ForwardPage
  <2>4. QED
    BY <1>1, <1>2, <1>4, <2>3 DEF WalkInv, NextLink, IsForwardPage
<1>7. QED
  BY <1>5, <1>6 DEF PagingInv

LEMMA FollowNextSound == PagingInv /\ FollowNext => PagingInv'
<1> SUFFICES ASSUME PagingInv, FollowNext PROVE PagingInv'
  OBVIOUS
<1> DEFINE c == answer.cursor
           up == Upwards(walk)
           W  == {k \in rows : Precedes(c, k, up)}
<1>1. /\ walk # "off" /\ NextLink
      /\ answer' \in GeneratePagingURLs(walk, "next", c)
      /\ times' = Shown(times, answer'.items)
      /\ UNCHANGED <<rows, walk, stayed>>
  BY DEF FollowNext
<1>2. /\ rows \subseteq Keys /\ stayed \subseteq rows /\ times \in [Keys -> Nat]
      /\ walk \in Walks \cup {"off"} /\ c \in Keys
  BY <1>1 DEF PagingInv, PagingTypeOK, NextLink
<1>3. IsAnswer(answer')
  BY <1>1, <1>2, AnswersAreAnswers
<1>4. /\ times' \in [Keys -> Nat]
      /\ \A k \in Keys : times'[k] = IF k \in answer'.items THEN times[k] + 1 ELSE times[k]
  BY <1>1, <1>2, ShownTimes
<1>5. PagingTypeOK'
  BY <1>1, <1>2, <1>3, <1>4 DEF PagingTypeOK, IsAnswer
<1>6. WalkInv'
  <2> SUFFICES ASSUME walk \in {"keys", "events"} PROVE WalkInv'
    BY <1>1 DEF WalkInv
  <2>1. up \in BOOLEAN /\ W \subseteq Keys
    BY <1>2 DEF Upwards
  <2>2. answer' = Page(W, up, FALSE)
    BY <1>1, <1>2, ForwardPages
  <2>3. IsForwardPage(answer', W, up)
    <3> HIDE DEF up, W
    <3>1. QED
      BY <2>1, <2>2, ForwardPage
  <2>4. /\ \A k \in Keys : times[k] <= 1
        /\ \A k \in Keys : times[k] = 1 => ~Precedes(c, k, up)
        /\ \A k \in stayed : times[k] = 1 \/ Precedes(c, k, up)
    BY <1>1 DEF PagingInv, WalkInv
  <2>5. ASSUME NEW k \in answer'.items PROVE k \in Keys /\ times[k] = 0 /\ times'[k] = 1
    <3>1. k \in Keys /\ Precedes(c, k, up)
      BY <1>2, <2>3 DEF IsForwardPage
    <3>2. times[k] \in Nat
      BY <1>2, <3>1
    <3>3. times[k] = 0
      BY <2>4, <3>1, <3>2
    <3>4. QED
      BY <1>4, <3>1, <3>3
  <2>6. ASSUME NEW k \in Keys, k \notin answer'.items PROVE times'[k] = times[k]
    BY <1>4, <2>6
  <2>7. ASSUME NEW k \in Keys PROVE times'[k] <= 1
    BY <2>4, <2>5, <2>6
  <2>8. ASSUME NextLink', NEW k \in Keys, times'[k] = 1
        PROVE  ~Precedes(answer'.cursor, k, up)
    <3>1. answer'.cursor # None /\ answer'.cursor \in W
      BY <2>3, <2>8 DEF NextLink, IsForwardPage
    <3>2. CASE k \in answer'.items
      BY <2>3, <3>1, <3>2 DEF IsForwardPage
    <3>3. CASE k \notin answer'.items
      <4>1. ~Precedes(c, k, up)
        BY <2>4, <2>6, <2>8, <3>3
      <4>2. Precedes(c, answer'.cursor, up) /\ answer'.cursor \in Keys
        BY <1>2, <3>1
      <4> HIDE DEF up, c
      <4>3. QED
        BY <1>2, <2>1, <4>1, <4>2, PrecedesIsOrder
    <3>4. QED
      BY <3>2, <3>3
  <2>9. ASSUME NEW k \in stayed
        PROVE  times'[k] = 1 \/ (NextLink' /\ Precedes(answer'.cursor, k, up))
    <3>1. k \in Keys /\ k \in rows
      BY <1>2
    <3>2. CASE k \in answer'.items
      BY <2>5, <3>2
    <3>3. CASE k \notin answer'.items /\ ~Precedes(c, k, up)
      BY <2>4, <2>6, <3>1, <3>3
    <3>4. CASE k \notin answer'.items /\ Precedes(c, k, up)
      <4>1. k \in W
        BY <3>1, <3>4
      <4>2. answer'.hasMore /\ answer'.cursor # None
        BY <1>3, <2>3, <3>4, <4>1 DEF IsAnswer, IsForwardPage
      <4>3. QED
        BY <2>3, <3>4, <4>1, <4>2 DEF NextLink, IsForwardPage
    <3>5. QED
      BY <3>2, <3>3, <3>4
  <2>10. QED
    BY <1>1, <2>7, <2>8, <2>9 DEF WalkInv
<1>7. QED
  BY <1>5, <1>6 DEF PagingInv

LEMMA TurnAsideSound == PagingInv /\ TurnAside => PagingInv'
<1> SUFFICES ASSUME PagingInv, TurnAside PROVE PagingInv'
  OBVIOUS
<1>1. rows \subseteq Keys
  BY DEF PagingInv, PagingTypeOK
<1>2. IsAnswer(answer')
  BY <1>1, AnswersAreAnswers DEF TurnAside
<1>3. walk' = "off" /\ rows' = rows /\ stayed' = {} /\ times' = [k \in Keys |-> 0]
  BY DEF TurnAside
<1>4. PagingTypeOK'
  BY <1>1, <1>2, <1>3 DEF PagingTypeOK, IsAnswer
<1>5. QED
  BY <1>3, <1>4 DEF PagingInv, WalkInv

LEMMA OtherWritersSound == PagingInv /\ (InsertRow \/ DeleteRow) => PagingInv'
<1> SUFFICES ASSUME PagingInv, InsertRow \/ DeleteRow PROVE PagingInv'
  OBVIOUS
<1>1. /\ UNCHANGED <<walk, answer, times>>
      /\ stayed' \subseteq stayed /\ stayed' \subseteq rows' /\ rows' \subseteq Keys
  BY DEF InsertRow, DeleteRow, PagingInv, PagingTypeOK
<1>2. PagingTypeOK'
  BY <1>1 DEF PagingInv, PagingTypeOK
<1>3. WalkInv'
  BY <1>1 DEF PagingInv, WalkInv, NextLink
<1>4. QED
  BY <1>2, <1>3 DEF PagingInv

LEMMA PagingStart == PagingInit => PagingInv
BY DEF PagingInit, PagingInv, PagingTypeOK, WalkInv

LEMMA PagingStep == PagingInv /\ [PagingNext]_pagingVars => PagingInv'
<1> SUFFICES ASSUME PagingInv, [PagingNext]_pagingVars PROVE PagingInv'
  OBVIOUS
<1>1. CASE StartWalk
  BY <1>1, StartWalkSound
<1>2. CASE FollowNext
  BY <1>2, FollowNextSound
<1>3. CASE TurnAside
  BY <1>3, TurnAsideSound
<1>4. CASE InsertRow \/ DeleteRow
  BY <1>4, OtherWritersSound
<1>5. CASE UNCHANGED pagingVars
  BY <1>5 DEF pagingVars, PagingInv, PagingTypeOK, WalkInv, NextLink
<1>6. QED
  BY <1>1, <1>2, <1>3, <1>4, <1>5 DEF PagingNext

LEMMA PagingInvariant == PagingSpec => []PagingInv
<1>1. QED
  BY PagingStart, PagingStep, PTL DEF PagingSpec

LEMMA PagingInvImplies == PagingInv => WalkSeesAll
<1> SUFFICES ASSUME PagingInv, walk \in {"keys", "events"} PROVE WalkIsComplete
  BY DEF WalkSeesAll
<1>1. QED
  BY DEF PagingInv, WalkInv, WalkIsComplete

\* Every answer is a part of the table as it can be, and no row that is gone counts
\* as one that stayed (the page algorithm of ListBounces and ListEvents).
THEOREM PagingTypeCorrect == PagingSpec => []PagingTypeOK
<1>1. PagingInv => PagingTypeOK
  BY DEF PagingInv
<1>2. QED
  BY <1>1, PagingInvariant, PTL

\* However many rows there are, whatever the page size, and whichever rows come and
\* go between the requests, a walk along the `next' links of the key listings or of
\* the events newest first shows no row twice and misses none that stayed.
THEOREM WalksAreComplete == PagingSpec => []WalkSeesAll
<1>1. QED
  BY PagingInvariant, PagingInvImplies, PTL

----------------------------------------------------------------------------
(* Walks by offset.  A row's place is its rank, the number of rows before  *)
(* it: deletions only lower it, insertions only raise it, and a page is    *)
(* the rows whose rank lies in its range.                                  *)

OffsetSpec == OffsetInit /\ [][OffsetNext]_<<pagingVars, offsetVars>>

Ascending == walk = "sorted"
RankIn(S, k, up) == Cardinality({j \in S : Precedes(j, k, up)})
Rank(k) == RankIn(rows, k, Ascending)

\* The walk has passed the rows whose rank is below this.
Frontier == IF total = NotCounted THEN offset + size ELSE offset

OffsetTypes ==
  /\ rows \subseteq Keys /\ stayed \subseteq rows
  /\ walk \in OffsetWalks \cup {"off"}
  /\ times \in [Keys -> Nat]
  /\ offset \in Nat /\ size \in Nat \ {0} /\ total \in Nat \cup {NotCounted}
  /\ walk = "off" => total = NotCounted

\* After a page the client goes on exactly where it ended, if it goes on.
Continues ==
  walk \in OffsetWalks /\ total = NotCounted /\ answer.hasMore =>
    answer.cursor = offset + size

\* Without insertions the rows that were shown are those passed.
ShownOnce ==
  walk \in OffsetWalks /\ "insert" \notin disturbed =>
    \A k \in Keys : /\ times[k] <= 1
                    /\ times[k] = 1 /\ k \in rows => Rank(k) < Frontier

\* Without deletions no row that stayed was passed unseen.
NonePassedUnseen ==
  walk \in OffsetWalks /\ "delete" \notin disturbed =>
    \A k \in stayed : times[k] >= 1 \/ Rank(k) >= Frontier

\* The count is exact, and when it said there is no more there was no more.
CountHolds ==
  walk \in OffsetWalks /\ disturbed \cap {"delete", "insert after count"} = {} =>
    IF total = NotCounted THEN ~answer.hasMore => \A k \in stayed : times[k] >= 1
                          ELSE total = Cardinality(rows)

OffsetInv == OffsetTypes /\ Continues /\ ShownOnce /\ NonePassedUnseen /\ CountHolds

----------------------------------------------------------------------------
(* Ranks.                                                                  *)

LEMMA RankIsNat ==
  ASSUME NEW S, S \subseteq Keys, NEW k, NEW up
  PROVE  RankIn(S, k, up) \in Nat
<1>1. {j \in S : Precedes(j, k, up)} \subseteq Keys
  OBVIOUS
<1>2. QED
  BY <1>1, KeysAreFinite DEF RankIn

LEMMA RankBelowCount ==
  ASSUME rows \subseteq Keys, NEW k \in rows
  PROVE  Rank(k) < Cardinality(rows)
<1> DEFINE B == {j \in rows : Precedes(j, k, Ascending)}
<1>1. Ascending \in BOOLEAN /\ k \in Keys
  BY DEF Ascending
<1>2. B \subseteq rows \ {k}
  BY <1>1, PrecedesIsOrder
<1>3. /\ IsFiniteSet(rows \ {k})
      /\ Cardinality(rows \ {k}) = Cardinality(rows) - 1
  BY KeysAreFinite, FS_RemoveElement
<1>4. Cardinality(B) <= Cardinality(rows \ {k})
  BY <1>2, <1>3, FS_Subset
<1>5. Cardinality(B) \in Nat /\ Cardinality(rows) \in Nat
  BY KeysAreFinite
<1>6. QED
  BY <1>3, <1>4, <1>5 DEF Rank, RankIn

\* The rank of a row grows and shrinks with the table.
LEMMA RankIsMonotone ==
  ASSUME NEW S, NEW U, S \subseteq U, U \subseteq Keys, NEW k, NEW up
  PROVE  RankIn(S, k, up) <= RankIn(U, k, up)
<1>1. {j \in S : Precedes(j, k, up)} \subseteq {j \in U : Precedes(j, k, up)}
  OBVIOUS
<1>2. IsFiniteSet({j \in U : Precedes(j, k, up)})
  BY KeysAreFinite
<1>3. QED
  BY <1>1, <1>2, FS_Subset DEF RankIn

\* A page is the rows whose rank lies in its range.
LEMMA OffsetPage ==
  ASSUME OffsetTypes, walk \in OffsetWalks, NEW a \in ListOffset(walk)
  PROVE  /\ a.items = {k \in rows : offset <= Rank(k) /\ Rank(k) < offset + size}
         /\ a.hasMore <=> offset + size < total
         /\ a.hasMore => a.cursor = offset + size
<1>1. a = ListMessages(Ascending)
  <2>1. CASE walk = "sorted"
    BY <2>1 DEF ListOffset, ListRoutes, ListSubaccounts, ListListsLegacy, ListMembersLegacy,
                V1ListTags, Ascending
  <2>2. CASE walk \in {"messages", "deliveries"}
    BY <2>2 DEF ListOffset, ListDeliveries, Ascending
  <2>3. QED
    BY <2>1, <2>2 DEF OffsetWalks
<1>2. \A k : Rank(k) \in Nat
  BY RankIsNat DEF OffsetTypes, Rank
<1>3. Take(rows, offset + size, Ascending) \ Take(rows, offset, Ascending)
        = {k \in rows : offset <= Rank(k) /\ Rank(k) < offset + size}
  <2>1. \A n : Take(rows, n, Ascending) = {k \in rows : Rank(k) < n}
    BY DEF Take, Rank, RankIn
  <2>2. ASSUME NEW k \in rows PROVE ~(Rank(k) < offset) <=> offset <= Rank(k)
    BY <1>2 DEF OffsetTypes
  <2> HIDE DEF Rank
  <2>3. QED
    BY <2>1, <2>2
<1>4. QED
  BY <1>1, <1>3 DEF ListMessages

----------------------------------------------------------------------------
(* Steps.                                                                  *)

LEMMA StartOffsetWalkSound == OffsetInv /\ StartOffsetWalk => OffsetInv'
<1> SUFFICES ASSUME OffsetInv, StartOffsetWalk PROVE OffsetInv'
  OBVIOUS
<1>1. /\ walk' \in OffsetWalks /\ walk' # "off"
      /\ offset' = 0 /\ size' \in Nat \ {0} /\ total' = Cardinality(rows)
      /\ stayed' = rows /\ times' = [k \in Keys |-> 0] /\ disturbed' = {} /\ rows' = rows
  BY DEF StartOffsetWalk, OffsetWalks
<1>2. rows \subseteq Keys /\ Cardinality(rows) \in Nat /\ Cardinality(rows) # NotCounted
  BY KeysAreFinite DEF OffsetInv, OffsetTypes, NotCounted
<1>3. ASSUME NEW k PROVE Rank(k)' \in Nat
  BY <1>1, <1>2, RankIsNat DEF Rank
<1>4. OffsetTypes' /\ Continues' /\ CountHolds'
  BY <1>1, <1>2 DEF OffsetTypes, Continues, CountHolds
<1>5. ShownOnce'
  BY <1>1 DEF ShownOnce
<1>6. NonePassedUnseen'
  <2>1. Frontier' = 0
    BY <1>1, <1>2 DEF Frontier
  <2>2. QED
    BY <1>3, <2>1 DEF NonePassedUnseen
<1>7. QED
  BY <1>4, <1>5, <1>6 DEF OffsetInv

LEMMA FollowOffsetSound == OffsetInv /\ FollowOffset => OffsetInv'
<1> SUFFICES ASSUME OffsetInv, FollowOffset PROVE OffsetInv'
  OBVIOUS
<1>1. /\ walk \in OffsetWalks /\ walk # "off" /\ total = NotCounted /\ answer.hasMore
      /\ offset' = answer.cursor /\ size' \in Nat \ {0} /\ total' = Cardinality(rows)
      /\ UNCHANGED <<rows, walk, answer, stayed, times, disturbed>>
  BY OffsetAssumption DEF FollowOffset, OffsetWalks, OffsetAssumption
<1>2. rows \subseteq Keys /\ Cardinality(rows) \in Nat /\ Cardinality(rows) # NotCounted
  BY KeysAreFinite DEF OffsetInv, OffsetTypes, NotCounted
<1>3. offset \in Nat /\ offset' = offset + size /\ offset' \in Nat
  BY <1>1 DEF OffsetInv, OffsetTypes, Continues
<1>4. Frontier' = Frontier
  BY <1>1, <1>2, <1>3 DEF Frontier
<1>5. \A k : Rank(k)' = Rank(k)
  BY <1>1 DEF Rank, Ascending
<1>6. OffsetTypes' /\ Continues' /\ CountHolds'
  BY <1>1, <1>2, <1>3 DEF OffsetInv, OffsetTypes, Continues, CountHolds
<1>7. ShownOnce' /\ NonePassedUnseen'
  BY <1>1, <1>4, <1>5 DEF OffsetInv, ShownOnce, NonePassedUnseen
<1>8. QED
  BY <1>6, <1>7 DEF OffsetInv

\* A row counted in the total is not behind the page that says there is no more.
LEMMA LastPage ==
  ASSUME NEW r \in Nat, NEW o \in Nat, NEW t \in Nat, NEW n \in Nat, r < t, ~(o + n < t)
  PROVE  ~(r >= o + n)
OBVIOUS

LEMMA ReadPageSound == OffsetInv /\ ReadPage => OffsetInv'
<1> SUFFICES ASSUME OffsetInv, ReadPage PROVE OffsetInv'
  OBVIOUS
<1> DEFINE items == {k \in rows : offset <= Rank(k) /\ Rank(k) < offset + size}
<1>1. /\ total # NotCounted /\ total' = NotCounted
      /\ answer' \in ListOffset(walk)
      /\ times' = Shown(times, answer'.items)
      /\ UNCHANGED <<rows, walk, stayed, offset, size, disturbed>>
  BY DEF ReadPage
<1>2. /\ OffsetTypes
      /\ rows \subseteq Keys /\ stayed \subseteq rows /\ walk \in OffsetWalks
      /\ times \in [Keys -> Nat] /\ offset \in Nat /\ size \in Nat \ {0} /\ total \in Nat
  BY <1>1 DEF OffsetInv, OffsetTypes
<1>3. /\ answer'.items = items
      /\ answer'.hasMore <=> offset + size < total
      /\ answer'.hasMore => answer'.cursor = offset + size
  BY <1>1, <1>2, OffsetPage
<1>4. /\ times' \in [Keys -> Nat]
      /\ \A k \in Keys : times'[k] = IF k \in items THEN times[k] + 1 ELSE times[k]
  BY <1>1, <1>2, <1>3, ShownTimes
<1>5. \A k : Rank(k)' = Rank(k) /\ Rank(k) \in Nat
  BY <1>1, <1>2, RankIsNat DEF Rank, Ascending
<1>6. Frontier = offset /\ Frontier' = offset + size
  BY <1>1, <1>2 DEF Frontier
<1>7. OffsetTypes' /\ Continues'
  BY <1>1, <1>2, <1>3, <1>4 DEF OffsetTypes, Continues
<1>8. ShownOnce'
  <2> SUFFICES ASSUME "insert" \notin disturbed, NEW k \in Keys
               PROVE  /\ times'[k] <= 1
                      /\ times'[k] = 1 /\ k \in rows => Rank(k) < offset + size
    BY <1>1, <1>5, <1>6 DEF ShownOnce
  <2>1. times[k] <= 1 /\ (times[k] = 1 /\ k \in rows => Rank(k) < offset)
    BY <1>2, <1>6 DEF OffsetInv, ShownOnce
  <2>2. times[k] \in Nat /\ Rank(k) \in Nat
    BY <1>2, <1>5
  <2>3. QED
    BY <1>2, <1>4, <2>1, <2>2
<1>9. NonePassedUnseen'
  <2> SUFFICES ASSUME "delete" \notin disturbed, NEW k \in stayed
               PROVE  times'[k] >= 1 \/ Rank(k) >= offset + size
    BY <1>1, <1>5, <1>6 DEF NonePassedUnseen
  <2>1. times[k] >= 1 \/ Rank(k) >= offset
    BY <1>2, <1>6 DEF OffsetInv, NonePassedUnseen
  <2>2. k \in Keys /\ k \in rows /\ times[k] \in Nat /\ Rank(k) \in Nat
    BY <1>2, <1>5
  <2>3. QED
    BY <1>2, <1>4, <2>1, <2>2
<1>10. CountHolds'
  <2> SUFFICES ASSUME disturbed \cap {"delete", "insert after count"} = {},
                      ~answer'.hasMore, NEW k \in stayed
               PROVE  times'[k] >= 1
    BY <1>1 DEF CountHolds
  <2>1. total = Cardinality(rows)
    BY <1>1, <1>2 DEF OffsetInv, CountHolds
  <2>2. Rank(k) < Cardinality(rows) /\ Rank(k) \in Nat
    BY <1>2, <1>5, RankBelowCount
  <2>3. offset \in Nat /\ size \in Nat /\ total \in Nat
    BY <1>2
  <2>4. ~(offset + size < total)
    BY <1>3
  <2>5. Rank(k) \in Nat /\ Rank(k) < total
    BY <2>1, <2>2
  <2>6. times'[k] >= 1 \/ Rank(k) >= offset + size
    BY <1>1, <1>5, <1>6, <1>9, <1>2 DEF NonePassedUnseen
  <2>7. ~(Rank(k) >= offset + size)
    BY <2>3, <2>4, <2>5, LastPage
  <2>8. QED
    BY <2>6, <2>7
<1>11. QED
  BY <1>7, <1>8, <1>9, <1>10 DEF OffsetInv

LEMMA AddRowSound == OffsetInv /\ AddRow => OffsetInv'
<1> SUFFICES ASSUME OffsetInv, AddRow PROVE OffsetInv'
  OBVIOUS
<1>1. /\ \E k \in Keys \ rows : rows' = rows \cup {k}
      /\ disturbed' = disturbed \cup {"insert"}
                                \cup (IF total # NotCounted THEN {"insert after count"} ELSE {})
      /\ UNCHANGED <<walk, answer, stayed, times, offset, size, total>>
  BY DEF AddRow
<1>2. /\ rows \subseteq rows' /\ rows' \subseteq Keys /\ stayed \subseteq rows
      /\ rows \subseteq Keys /\ offset \in Nat /\ size \in Nat
  BY <1>1 DEF OffsetInv, OffsetTypes
<1>3. ASSUME NEW k PROVE Rank(k)' >= Rank(k) /\ Rank(k) \in Nat /\ Rank(k)' \in Nat
  <2>1. Rank(k)' = RankIn(rows', k, Ascending)
    BY <1>1 DEF Rank, Ascending
  <2>2. Rank(k) <= RankIn(rows', k, Ascending)
    BY <1>2, RankIsMonotone DEF Rank
  <2>3. QED
    BY <1>2, <2>1, <2>2, RankIsNat DEF Rank
<1>4. Frontier' = Frontier /\ Frontier \in Nat
  <2>1. UNCHANGED <<offset, size, total>>
    BY <1>1
  <2>2. offset + size \in Nat
    BY <1>2
  <2>3. QED
    BY <1>2, <2>1, <2>2 DEF Frontier
<1>5. OffsetTypes' /\ Continues' /\ ShownOnce'
  BY <1>1, <1>2 DEF OffsetInv, OffsetTypes, Continues, ShownOnce
<1>6. NonePassedUnseen'
  <2> SUFFICES ASSUME walk \in OffsetWalks, "delete" \notin disturbed, NEW k \in stayed
               PROVE  times[k] >= 1 \/ Rank(k)' >= Frontier
    BY <1>1, <1>4 DEF NonePassedUnseen
  <2>1. times[k] >= 1 \/ Rank(k) >= Frontier
    BY DEF OffsetInv, NonePassedUnseen
  <2>2. QED
    BY <1>3, <1>4, <2>1
<1>7. CountHolds'
  BY <1>1 DEF OffsetInv, CountHolds
<1>8. QED
  BY <1>5, <1>6, <1>7 DEF OffsetInv

LEMMA RemoveRowSound == OffsetInv /\ RemoveRow => OffsetInv'
<1> SUFFICES ASSUME OffsetInv, RemoveRow PROVE OffsetInv'
  OBVIOUS
<1>1. /\ rows' \subseteq rows /\ stayed' \subseteq rows'
      /\ disturbed' = disturbed \cup {"delete"}
      /\ UNCHANGED <<walk, answer, times, offset, size, total>>
  BY DEF RemoveRow, DeleteRow, OffsetInv, OffsetTypes
<1>2. rows \subseteq Keys /\ offset \in Nat /\ Frontier' = Frontier /\ Frontier \in Nat
  BY <1>1 DEF OffsetInv, OffsetTypes, Frontier
<1>3. ASSUME NEW k PROVE Rank(k)' <= Rank(k) /\ Rank(k) \in Nat /\ Rank(k)' \in Nat
  <2>1. Rank(k)' = RankIn(rows', k, Ascending)
    BY <1>1 DEF Rank, Ascending
  <2>2. rows' \subseteq Keys
    BY <1>1, <1>2
  <2>3. RankIn(rows', k, Ascending) <= Rank(k)
    BY <1>1, <1>2, RankIsMonotone DEF Rank
  <2>4. QED
    BY <1>2, <2>1, <2>2, <2>3, RankIsNat DEF Rank
<1>4. OffsetTypes' /\ Continues' /\ NonePassedUnseen' /\ CountHolds'
  BY <1>1, <1>2 DEF OffsetInv, OffsetTypes, Continues, NonePassedUnseen, CountHolds
<1>5. ShownOnce'
  <2> SUFFICES ASSUME walk \in OffsetWalks, "insert" \notin disturbed, NEW k \in Keys
               PROVE  /\ times[k] <= 1
                      /\ times[k] = 1 /\ k \in rows' => Rank(k)' < Frontier
    BY <1>1, <1>2 DEF ShownOnce
  <2>1. times[k] <= 1 /\ (times[k] = 1 /\ k \in rows => Rank(k) < Frontier)
    BY DEF OffsetInv, ShownOnce
  <2>2. QED
    BY <1>1, <1>2, <1>3, <2>1
<1>6. QED
  BY <1>4, <1>5 DEF OffsetInv

LEMMA OffsetStep == OffsetInv /\ [OffsetNext]_<<pagingVars, offsetVars>> => OffsetInv'
<1> SUFFICES ASSUME OffsetInv, [OffsetNext]_<<pagingVars, offsetVars>> PROVE OffsetInv'
  OBVIOUS
<1>1. CASE UNCHANGED <<pagingVars, offsetVars>>
  BY <1>1 DEF pagingVars, offsetVars, OffsetInv, OffsetTypes, Continues, ShownOnce,
              NonePassedUnseen, CountHolds, Frontier, Rank, Ascending
<1>2. QED
  BY <1>1, StartOffsetWalkSound, FollowOffsetSound, ReadPageSound, AddRowSound, RemoveRowSound
     DEF OffsetNext

LEMMA OffsetStart == OffsetInit => OffsetInv
BY DEF OffsetInit, PagingInit, OffsetInv, OffsetTypes, Continues, ShownOnce,
       NonePassedUnseen, CountHolds, OffsetWalks, NotCounted

LEMMA OffsetInvImplies == OffsetInv => OffsetWalkSeesAll
BY DEF OffsetInv, ShownOnce, CountHolds, OffsetWalkSeesAll

\* However the table changes while a client walks by offset, it is shown a row twice
\* only if rows were added, and misses a row that stayed only if rows were deleted, or
\* one was added between a count and the reading of its page.
THEOREM OffsetWalksAreComplete == OffsetSpec => []OffsetWalkSeesAll
<1>1. QED
  BY OffsetStart, OffsetStep, OffsetInvImplies, PTL DEF OffsetSpec

=============================================================================
