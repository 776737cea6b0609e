------------------------- MODULE MailingListsProofs -------------------------
(***************************************************************************)
(* What the handlers of the mailing lists guarantee for any number of      *)
(* requests, lists and people, however the requests overlap.               *)
(***************************************************************************)
EXTENDS MailingLists, SequenceTheorems, FiniteSetTheorems, TLAPS

USE DEF rowVars

Walks    == {"AddMember", "BulkAddMembers"}
OfLists  == {"UpdateList", "DeleteList"}
ListRows == [id : Requests, addr : Lists, count : Int]
MemberRows == [id : Requests \X Nat, list : Lists, addr : People, sub : BOOLEAN]
Queries  == [kind : AllKinds \cup {"none"}, list : Lists \cup {"none"}, todo : Seq(People),
             to : Lists \cup People \cup {"none"}, sub : Subs, upsert : BOOLEAN]

Shape == /\ pc \in [Requests -> Pcs] /\ rq \in [Requests -> Queries]
         /\ seen = [r \in Requests |-> seen[r]]
         /\ pos \in [Requests -> Nat] /\ added \in [Requests -> Int]

\* The unique indexes.
ListsOK   == /\ lists \subseteq ListRows
             /\ \A l, k \in lists : l.id = k.id \/ l.addr = k.addr => l = k
MembersOK == /\ members \subseteq MemberRows
             /\ \A m, k \in members : m.id = k.id \/ (m.list = k.list /\ m.addr = k.addr) => m = k

\* What a request carries fits the statement it is at.
Own(r) ==
  /\ pc[r] = "idle" => pos[r] = 1
  /\ pc[r] # "idle" => rq[r].list \in Lists
  /\ pc[r] \in {"member", "insert", "optout"} => rq[r].kind \in Walks
  /\ pc[r] \in {"save", "reinsert"} => rq[r].kind \in Walks \cup {"UpdateList", "UpdateMember"}
  /\ pc[r] = "members" => rq[r].kind = "DeleteList"
  /\ pc[r] = "row" => rq[r].kind \in {"DeleteList", "DeleteMember"}
  /\ pc[r] = "count" => rq[r].kind \in Walks \cup {"DeleteMember"}
  /\ rq[r].kind = "UpdateList" => rq[r].to \in Lists
  /\ rq[r].kind = "UpdateMember" => rq[r].to \in People
  /\ pc[r] \in {"member", "insert", "optout", "save", "reinsert"} /\ rq[r].kind \in Walks
       => pos[r] \in 1 .. Len(rq[r].todo)

\* The requests that hold a row they read, and the kind of row.
HoldsList(r)   == pc[r] \in {"save", "reinsert", "members", "row"} /\ rq[r].kind \in OfLists
HoldsMember(r) == pc[r] \in {"save", "reinsert"} /\ rq[r].kind \notin OfLists

\* A row's id was given to it by the request that created it.
Given(i) == \/ i[2] < pos[i[1]]
            \/ i[2] = pos[i[1]] /\ pc[i[1]] \in {"optout", "count", "answered"}

HeldOK ==
  /\ \A r \in Requests : HoldsList(r) => seen[r] \in ListRows /\ pc[seen[r].id] # "idle"
  /\ \A r \in Requests : HoldsMember(r) => /\ seen[r] \in MemberRows /\ Given(seen[r].id)
                                           /\ seen[r].list = rq[r].list
  /\ \A l \in lists : pc[l.id] # "idle"
  /\ \A m \in members : Given(m.id)

HistoryOK == /\ clashed \subseteq Lists /\ renamed \subseteq Lists
             /\ out \in [Requests -> SUBSET (Lists \X People)]

RowsInv == /\ Shape /\ ListsOK /\ MembersOK /\ HeldOK /\ HistoryOK
           /\ \A r \in Requests : Own(r)

-----------------------------------------------------------------------------
(* One request moves, the others stay.                                     *)

Still(q) == pc'[q] = pc[q] /\ rq'[q] = rq[q] /\ seen'[q] = seen[q] /\ pos'[q] = pos[q]

Late == {"optout", "count", "answered"}

\* A request goes on, and takes no id back.
Onward(r) == /\ pc'[r] # "idle"
             /\ \/ pos'[r] > pos[r]
                \/ pos'[r] = pos[r] /\ (pc[r] \in Late => pc'[r] \in Late)
             /\ \A q \in Requests \ {r} : Still(q)

LEMMA BeginMoves ==
  ASSUME Shape, NEW r \in Requests, Own(r), NEW q \in Queries, NEW row, NEW at \in Pcs,
         Begin(r, q, row, at)
  PROVE  /\ Shape' /\ (at # "idle" => Onward(r)) /\ pc[r] = "idle" /\ pos'[r] = 1
         /\ rq'[r] = q /\ seen'[r] = row /\ pc'[r] = at
BY DEF Begin, Shape, Own, Onward, Still, Late

LEMMA GotoMoves ==
  ASSUME Shape, NEW r \in Requests, NEW at \in Pcs \ {"idle"}, Goto(r, at) \/ (Refuse(r) /\ at = "answered"),
         pc[r] \in Late => at \in Late
  PROVE  /\ Shape' /\ Onward(r) /\ pc'[r] = at
         /\ rq'[r] = rq[r] /\ seen'[r] = seen[r] /\ pos'[r] = pos[r]
BY DEF Goto, Refuse, Shape, Onward, Still, Late

LEMMA NextMemberMoves ==
  ASSUME Shape, NEW r \in Requests, Own(r), NEW n \in Int, NextMember(r, n),
         rq[r].kind \in Walks, pc[r] \in {"member", "insert", "optout", "save", "reinsert"}
  PROVE  /\ Shape' /\ Onward(r) /\ Own(r)' /\ pc'[r] \in {"member", "count"}
         /\ rq'[r] = rq[r] /\ seen'[r] = seen[r] /\ UNCHANGED <<clashed, renamed, out>>
<1>1. /\ rq[r].todo \in Seq(People) /\ Len(rq[r].todo) \in Nat
      /\ pos[r] \in 1 .. Len(rq[r].todo) /\ pos[r] \in Nat /\ added[r] \in Int
  BY LenProperties DEF Shape, Queries, Own
<1>2. UNCHANGED <<rq, seen, clashed, renamed, out>>
  BY DEF NextMember
<1>3. CASE Bulk(r)
  <2>1. /\ pos' = [pos EXCEPT ![r] = pos[r] + 1] /\ added' = [added EXCEPT ![r] = added[r] + n]
        /\ pc' = [pc EXCEPT ![r] = IF pos[r] < Len(rq[r].todo) THEN "member" ELSE "count"]
    BY <1>3 DEF NextMember
  <2>2. pos[r] + 1 \in Nat /\ pos[r] + 1 > pos[r] /\ added[r] + n \in Int
        /\ (pos[r] < Len(rq[r].todo) => pos[r] + 1 \in 1 .. Len(rq[r].todo))
    BY <1>1
  <2>3. Shape'
    BY <1>2, <2>1, <2>2 DEF Shape, Pcs
  <2>4. Onward(r)
    BY <1>2, <2>1, <2>2 DEF Onward, Still, Shape
  <2>5. QED
    BY <1>2, <2>1, <2>2, <2>3, <2>4 DEF Own, Shape, Walks
<1>4. CASE ~Bulk(r)
  <2>1. /\ pos' = pos /\ added' = [added EXCEPT ![r] = n]
        /\ pc' = [pc EXCEPT ![r] = "count"]
    BY <1>4 DEF NextMember
  <2>2. QED
    BY <1>2, <2>1 DEF Shape, Pcs, Onward, Still, Late, Own, Walks
<1>5. QED
  BY <1>3, <1>4

\* An id once given stays given, and a request that began stays begun.
LEMMA GivenStays ==
  ASSUME Shape, Shape', NEW r \in Requests, Onward(r)
  PROVE  /\ \A i \in Requests \X Nat : Given(i) => Given(i)'
         /\ \A q \in Requests : pc[q] # "idle" => pc'[q] # "idle"
<1>1. ASSUME NEW i \in Requests \X Nat, Given(i) PROVE Given(i)'
  <2>1. i[1] \in Requests /\ i[2] \in Nat /\ pos[i[1]] \in Nat /\ pos'[i[1]] \in Nat
    BY DEF Shape
  <2>2. CASE i[1] = r
    BY <1>1, <2>1, <2>2 DEF Given, Onward, Late
  <2>3. CASE i[1] # r
    BY <1>1, <2>1, <2>3 DEF Given, Onward, Still
  <2>4. QED
    BY <2>2, <2>3
<1>2. QED
  BY <1>1 DEF Onward, Still

-----------------------------------------------------------------------------
(* What a step writes.                                                     *)

LEMMA PutList ==
  ASSUME ListsOK, NEW row \in ListRows,
         Named(row.addr) \subseteq {l \in lists : l.id = row.id},
         lists' = (lists \ {l \in lists : l.id = row.id}) \cup {row}
  PROVE  ListsOK'
BY DEF ListsOK, Named

LEMMA PutOneMember ==
  ASSUME MembersOK, NEW row \in MemberRows, PutMember(row)
  PROVE  MembersOK' /\ members' \subseteq members \cup {row}
<1>1. CASE At(row.list, row.addr) \subseteq {m \in members : m.id = row.id}
  <2>1. members' = (members \ {m \in members : m.id = row.id}) \cup {row}
    BY <1>1 DEF PutMember
  <2>2. \A m \in members' \ {row} : m \in members /\ m.id # row.id
    BY <2>1
  <2>3. \A m \in members' \ {row} : ~(m.list = row.list /\ m.addr = row.addr)
    BY <1>1, <2>2 DEF At, In
  <2>4. QED
    BY <2>1, <2>2, <2>3 DEF MembersOK
<1>2. CASE ~(At(row.list, row.addr) \subseteq {m \in members : m.id = row.id})
  BY <1>2 DEF PutMember, MembersOK
<1>3. QED
  BY <1>1, <1>2

\* Where the row in a request's hand comes from.
Held(r) ==
  /\ HoldsList(r)' => \/ HoldsList(r) /\ seen'[r] = seen[r]
                      \/ seen'[r] \in lists
  /\ HoldsMember(r)' => \/ HoldsMember(r) /\ seen'[r] = seen[r] /\ rq'[r] = rq[r]
                        \/ seen'[r] \in members /\ seen'[r].list = rq'[r].list

\* A step of r that is right about r.
Good(r) == Shape' /\ Onward(r) /\ Own(r)' /\ Held(r)

Rows(r) == /\ ListsOK' /\ \A l \in lists' : pc'[l.id] # "idle"
           /\ MembersOK' /\ \A m \in members' : Given(m.id)'
           /\ HistoryOK'

\* What is typed in a query, and what it says of the history.
LEMMA BeginHistory ==
  ASSUME HistoryOK, Shape, NEW r \in Requests, NEW q \in Queries, q.list \in Lists,
         q.kind = "UpdateList" => q.to \in Lists,
         NEW row, NEW at, Begin(r, q, row, at)
  PROVE  HistoryOK'
<1>1. \A i \in DOMAIN q.todo : q.todo[i] \in People
  BY ElementOfSeq, LenProperties DEF Queries
<1>2. Persons(q) \subseteq Lists \X People
  BY <1>1 DEF Persons
<1>3. OptsOut(q) \subseteq Lists \X People
  BY <1>2 DEF OptsOut
<1>4. out' \in [Requests -> SUBSET (Lists \X People)]
  <2>1. /\ out \in [Requests -> SUBSET (Lists \X People)]
        /\ out' = [s \in Requests |->
                IF s = r THEN OptsOut(q) \ UNION {OptsIn(rq[a]) : a \in Active}
                         ELSE out[s] \ OptsIn(q)]
    BY DEF Begin, HistoryOK
  <2>2. QED
    BY <1>3, <2>1
<1>5. clashed' \subseteq Lists /\ renamed' \subseteq Lists
  BY DEF Begin, HistoryOK, Renames
<1>6. QED
  BY <1>4, <1>5 DEF HistoryOK

\* A row untouched stays right.
LEMMA RowsStay ==
  ASSUME RowsInv, NEW r \in Requests, Shape', Onward(r)
  PROVE  /\ lists' \subseteq lists => ListsOK' /\ \A l \in lists' : pc'[l.id] # "idle"
         /\ members' \subseteq members => MembersOK' /\ \A m \in members' : Given(m.id)'
<1>1. /\ \A i \in Requests \X Nat : Given(i) => Given(i)'
      /\ \A q \in Requests : pc[q] # "idle" => pc'[q] # "idle"
  BY GivenStays DEF RowsInv
<1>2. /\ \A l \in lists : l.id \in Requests
      /\ \A m \in members : m.id \in Requests \X Nat
  BY DEF RowsInv, ListsOK, MembersOK, ListRows, MemberRows
<1>3. ASSUME lists' \subseteq lists PROVE ListsOK' /\ \A l \in lists' : pc'[l.id] # "idle"
  BY <1>1, <1>2, <1>3 DEF RowsInv, ListsOK, HeldOK
<1>4. ASSUME members' \subseteq members PROVE MembersOK' /\ \A m \in members' : Given(m.id)'
  BY <1>1, <1>2, <1>4 DEF RowsInv, MembersOK, HeldOK
<1>5. QED
  BY <1>3, <1>4

LEMMA Settled ==
  ASSUME RowsInv, NEW r \in Requests, Good(r), Rows(r)
  PROVE  RowsInv'
<1>1. \A q \in Requests \ {r} : Still(q)
  BY DEF Good, Onward
<1>2. \A q \in Requests : Own(q)'
  BY <1>1 DEF RowsInv, Good, Own, Still
<1>3. /\ \A i \in Requests \X Nat : Given(i) => Given(i)'
      /\ \A q \in Requests : pc[q] # "idle" => pc'[q] # "idle"
  BY GivenStays DEF RowsInv, Good
<1>4. ASSUME NEW q \in Requests, HoldsList(q)' PROVE seen'[q] \in ListRows /\ pc'[seen'[q].id] # "idle"
  <2>1. \/ HoldsList(q) /\ seen'[q] = seen[q]
        \/ seen'[q] \in lists
    BY <1>1, <1>4 DEF Good, Held, Still, HoldsList
  <2>2. seen'[q] \in ListRows /\ pc[seen'[q].id] # "idle"
    BY <2>1 DEF RowsInv, HeldOK, ListsOK
  <2>3. QED
    BY <1>3, <2>2 DEF ListRows
<1>5. ASSUME NEW q \in Requests, HoldsMember(q)'
      PROVE  seen'[q] \in MemberRows /\ Given(seen[q].id)' /\ seen'[q].list = rq'[q].list
  <2>1. \/ HoldsMember(q) /\ seen'[q] = seen[q] /\ rq'[q] = rq[q]
        \/ seen'[q] \in members /\ seen'[q].list = rq'[q].list
    BY <1>1, <1>5 DEF Good, Held, Still, HoldsMember
  <2>2. seen'[q] \in MemberRows /\ Given(seen'[q].id) /\ seen'[q].list = rq'[q].list
    BY <2>1 DEF RowsInv, HeldOK, MembersOK
  <2>3. Given(seen[q].id)'
    BY <1>3, <2>2 DEF MemberRows, Given
  <2>4. QED
    BY <2>2, <2>3
<1>6. QED
  BY <1>2, <1>4, <1>5 DEF RowsInv, Good, Rows, HeldOK

-----------------------------------------------------------------------------
(* The requests about lists.                                               *)

\* The first step of a request that writes nothing yet.
LEMMA Begins ==
  ASSUME RowsInv, NEW r \in Requests, NEW q \in Queries, q.list \in Lists, NEW row,
         NEW at \in Pcs \ {"idle"}, Begin(r, q, row, at),
         at = "member" => q.kind \in Walks /\ q.todo # << >>,
         at = "save" => q.kind \in {"UpdateList", "UpdateMember"},
         at = "members" => q.kind = "DeleteList",
         at = "row" => q.kind \in {"DeleteList", "DeleteMember"},
         at \in {"member", "save", "members", "row", "answered"},
         q.kind = "UpdateList" => q.to \in Lists,
         q.kind = "UpdateMember" => q.to \in People,
         q.kind \in OfLists => row \in lists,
         q.kind = "UpdateMember" => row \in members /\ row.list = q.list
  PROVE  Good(r) /\ HistoryOK'
<1>1. /\ Shape' /\ Onward(r) /\ pos'[r] = 1 /\ rq'[r] = q /\ seen'[r] = row /\ pc'[r] = at
  BY BeginMoves DEF RowsInv
<1>2. q.todo # << >> => 1 \in 1 .. Len(q.todo)
  <2>1. q.todo \in Seq(People)
    BY DEF Queries
  <2>2. q.todo # << >> => Len(q.todo) \in Nat \ {0}
    BY <2>1, EmptySeq
  <2>3. QED
    BY <2>2
<1>3. Own(r)'
  BY <1>1, <1>2 DEF Own, Walks
<1>4. Held(r)
  BY <1>1 DEF Held, HoldsList, HoldsMember, OfLists, Walks
<1>5. HistoryOK'
  BY BeginHistory DEF RowsInv
<1>6. QED
  BY <1>1, <1>3, <1>4, <1>5 DEF Good

\* A step on to the next statement, or to the answer.
LEMMA GoesOn ==
  ASSUME RowsInv, NEW r \in Requests, NEW at \in Pcs \ {"idle"},
         Goto(r, at) \/ (Refuse(r) /\ at = "answered"),
         pc[r] \notin {"idle", "count", "answered"}, pc[r] = "optout" => at = "count",
         at = "insert" => pc[r] = "member",
         at = "optout" => pc[r] = "insert",
         at = "reinsert" => pc[r] = "save",
         at = "row" => pc[r] = "members",
         at \notin {"member", "save", "members", "count"}
  PROVE  Good(r) /\ HistoryOK'
<1>1. /\ Shape' /\ Onward(r) /\ pc'[r] = at
      /\ rq'[r] = rq[r] /\ seen'[r] = seen[r] /\ pos'[r] = pos[r]
  BY GotoMoves DEF RowsInv, Late
<1>2. Own(r)'
  BY <1>1 DEF Own, RowsInv
<1>3. Held(r)
  BY <1>1 DEF Held, HoldsList, HoldsMember
<1>4. HistoryOK'
  BY DEF Goto, Refuse, RowsInv, HistoryOK
<1>5. QED
  BY <1>1, <1>2, <1>3, <1>4 DEF Good

\* The answer to a request that counted its members.
LEMMA AnswersCount ==
  ASSUME RowsInv, NEW r \in Requests, Answer(r), pc[r] # "idle"
  PROVE  Good(r) /\ HistoryOK'
<1>1. /\ Shape' /\ Onward(r) /\ pc'[r] = "answered"
      /\ rq'[r] = rq[r] /\ seen'[r] = seen[r] /\ pos'[r] = pos[r]
  BY GotoMoves DEF RowsInv, Late, Answer, Pcs
<1>2. Own(r)'
  BY <1>1 DEF Own, RowsInv
<1>3. Held(r)
  BY <1>1 DEF Held, HoldsList, HoldsMember
<1>4. HistoryOK'
  BY DEF Goto, Answer, RowsInv, HistoryOK
<1>5. QED
  BY <1>1, <1>2, <1>3, <1>4 DEF Good

LEMMA GoesToNext ==
  ASSUME RowsInv, NEW r \in Requests, NEW n \in Int, NextMember(r, n),
         rq[r].kind \in Walks, pc[r] \in {"member", "insert", "optout", "save", "reinsert"}
  PROVE  Good(r) /\ HistoryOK'
<1>1. /\ Shape' /\ Onward(r) /\ Own(r)' /\ pc'[r] \in {"member", "count"}
      /\ UNCHANGED <<clashed, renamed, out>>
  BY NextMemberMoves DEF RowsInv
<1>2. Held(r)
  BY <1>1 DEF Held, HoldsList, HoldsMember
<1>3. QED
  BY <1>1, <1>2 DEF Good, RowsInv, HistoryOK

\* A step that leaves the rows, or removes some.
LEMMA NothingAdded ==
  ASSUME RowsInv, NEW r \in Requests, Good(r), HistoryOK',
         lists' \subseteq lists, members' \subseteq members
  PROVE  RowsInv'
<1>1. Shape' /\ Onward(r)
  BY DEF Good
<1>2. Rows(r)
  BY <1>1, RowsStay DEF Rows
<1>3. QED
  BY <1>2, Settled

\* A step that writes list rows and leaves the members.
LEMMA ListWritten ==
  ASSUME RowsInv, NEW r \in Requests, Good(r), HistoryOK', UNCHANGED members,
         ListsOK', \A l \in lists' : pc'[l.id] # "idle"
  PROVE  RowsInv'
<1>1. Shape' /\ Onward(r)
  BY DEF Good
<1>2. Rows(r)
  BY <1>1, RowsStay DEF Rows
<1>3. QED
  BY <1>2, Settled

LEMMA MemberWritten ==
  ASSUME RowsInv, NEW r \in Requests, Good(r), HistoryOK', UNCHANGED lists,
         MembersOK', \A m \in members' : Given(m.id)'
  PROVE  RowsInv'
<1>1. Shape' /\ Onward(r)
  BY DEF Good
<1>2. Rows(r)
  BY <1>1, RowsStay DEF Rows
<1>3. QED
  BY <1>2, Settled

LEMMA CreateListRows ==
  ASSUME RowsInv, NEW r \in Requests, CreateList(r)
  PROVE  RowsInv'
<1>1. PICK a \in Lists :
        /\ Named(a) = {} /\ UNCHANGED members
        /\ Begin(r, Ask("CreateList", a, << >>, "none", "same", FALSE), NoRow, "answered")
        /\ lists' = lists \cup {[id |-> r, addr |-> a, count |-> 0]}
  BY DEF CreateList
<1> DEFINE q == Ask("CreateList", a, << >>, "none", "same", FALSE)
<1>2. q \in Queries /\ q.list = a /\ q.kind = "CreateList"
  <2>1. << >> \in Seq(People) /\ "CreateList" \in AllKinds /\ "same" \in Subs
    BY EmptySeq DEF AllKinds, Subs
  <2>2. QED
    BY <2>1 DEF Ask, Queries
<1> HIDE DEF q
<1>3. Good(r) /\ HistoryOK'
  BY <1>1, <1>2, Begins DEF Pcs, OfLists, q
<1>4. pc[r] = "idle" /\ pc'[r] = "answered"
  BY <1>1 DEF Begin, RowsInv, Shape
<1>5. ListsOK'
  <2>1. [id |-> r, addr |-> a, count |-> 0] \in ListRows
    BY DEF ListRows
  <2>2. \A l \in lists : l.id # r /\ l.addr # a
    BY <1>1, <1>4 DEF Named, RowsInv, HeldOK
  <2>3. QED
    BY <1>1, <2>1, <2>2 DEF RowsInv, ListsOK
<1>6. \A l \in lists' : pc'[l.id] # "idle"
  <2>1. \A x \in Requests : pc[x] # "idle" => pc'[x] # "idle"
    BY <1>3, GivenStays DEF Good, RowsInv
  <2>2. \A l \in lists : l.id \in Requests
    BY DEF RowsInv, ListsOK, ListRows
  <2>3. QED
    BY <1>1, <1>4, <2>1, <2>2 DEF RowsInv, HeldOK
<1>7. QED
  BY <1>1, <1>3, <1>5, <1>6, ListWritten

LEMMA UpdateListRows ==
  ASSUME RowsInv, NEW r \in Requests, UpdateList(r) \/ DeleteList(r)
  PROVE  RowsInv'
<1>0. /\ << >> \in Seq(People) /\ "UpdateList" \in AllKinds /\ "DeleteList" \in AllKinds
      /\ "same" \in Subs /\ lists \subseteq ListRows
  BY EmptySeq DEF AllKinds, Subs, RowsInv, ListsOK
<1>1. CASE UpdateList(r)
  <2>1. PICK l \in lists, a \in Lists :
          /\ Begin(r, Ask("UpdateList", l.addr, << >>, a, "same", FALSE), l, "save")
          /\ UNCHANGED <<lists, members>>
    BY <1>1 DEF UpdateList
  <2> DEFINE q == Ask("UpdateList", l.addr, << >>, a, "same", FALSE)
  <2>2. q \in Queries /\ q.list = l.addr /\ q.kind = "UpdateList" /\ q.to = a /\ l.addr \in Lists
    BY <1>0, SMTT(20) DEF ListRows, Ask, Queries
  <2> HIDE DEF q
  <2>3. Good(r) /\ HistoryOK'
    BY <2>1, <2>2, Begins DEF Pcs, OfLists, q
  <2>4. QED
    BY <2>1, <2>3, NothingAdded
<1>2. CASE DeleteList(r)
  <2>1. PICK l \in lists :
          /\ Begin(r, Ask("DeleteList", l.addr, << >>, "none", "same", FALSE), l, "members")
          /\ UNCHANGED <<lists, members>>
    BY <1>2 DEF DeleteList
  <2> DEFINE q == Ask("DeleteList", l.addr, << >>, "none", "same", FALSE)
  <2>2. q \in Queries /\ q.list = l.addr /\ q.kind = "DeleteList" /\ l.addr \in Lists
    BY <1>0, SMTT(20) DEF ListRows, Ask, Queries
  <2> HIDE DEF q
  <2>3. Good(r) /\ HistoryOK'
    BY <2>1, <2>2, Begins DEF Pcs, OfLists, q
  <2>4. QED
    BY <2>1, <2>3, NothingAdded
<1>3. QED
  BY <1>1, <1>2

\* The row an UpdateList writes.
LEMMA ListSaved ==
  ASSUME RowsInv, NEW r \in Requests, SaveList(r) \/ ReinsertList(r)
  PROVE  RowsInv'
<1> DEFINE row == [seen[r] EXCEPT !.addr = rq[r].to]
<1>1. /\ pc[r] \in {"save", "reinsert"} /\ rq[r].kind = "UpdateList" /\ UNCHANGED members
      /\ Answer(r) \/ (pc[r] = "save" /\ Goto(r, "reinsert"))
      /\ \/ UNCHANGED lists
         \/ /\ Named(row.addr) \subseteq {l \in lists : l.id = row.id}
            /\ lists' = (lists \ {l \in lists : l.id = row.id}) \cup {row}
  BY DEF SaveList, ReinsertList
<1>2. Good(r) /\ HistoryOK'
  BY <1>1, GoesOn DEF Answer, Pcs
<1>3. row \in ListRows /\ pc[row.id] # "idle" /\ row.id \in Requests
  <2>1. seen[r] \in ListRows /\ pc[seen[r].id] # "idle" /\ rq[r].to \in Lists
    BY <1>1 DEF RowsInv, HeldOK, HoldsList, OfLists, Own
  <2>2. QED
    BY <2>1 DEF ListRows
<1> HIDE DEF row
<1>4. CASE UNCHANGED lists
  BY <1>1, <1>2, <1>4, NothingAdded
<1>5. CASE /\ Named(row.addr) \subseteq {l \in lists : l.id = row.id}
           /\ lists' = (lists \ {l \in lists : l.id = row.id}) \cup {row}
  <2>1. ListsOK'
    BY <1>3, <1>5, PutList DEF RowsInv
  <2>2. \A x \in Requests : pc[x] # "idle" => pc'[x] # "idle"
    BY <1>2, GivenStays DEF Good, RowsInv
  <2>3. \A l \in lists : l.id \in Requests /\ pc[l.id] # "idle"
    BY DEF RowsInv, ListsOK, HeldOK, ListRows
  <2>4. \A l \in lists' : pc'[l.id] # "idle"
    BY <1>3, <1>5, <2>2, <2>3
  <2>5. QED
    BY <1>1, <1>2, <2>1, <2>4, ListWritten
<1>6. QED
  BY <1>1, <1>4, <1>5

LEMMA ListDeleted ==
  ASSUME RowsInv, NEW r \in Requests, DeleteMembersOfList(r) \/ DeleteListRow(r)
  PROVE  RowsInv'
<1>1. CASE DeleteMembersOfList(r)
  <2>1. Good(r) /\ HistoryOK'
    BY <1>1, GoesOn DEF DeleteMembersOfList, Pcs
  <2>2. QED
    BY <1>1, <2>1, NothingAdded DEF DeleteMembersOfList
<1>2. CASE DeleteListRow(r)
  <2>1. Good(r) /\ HistoryOK'
    BY <1>2, GoesOn DEF DeleteListRow, Answer, Pcs
  <2>2. QED
    BY <1>2, <2>1, NothingAdded DEF DeleteListRow
<1>3. QED
  BY <1>1, <1>2

-----------------------------------------------------------------------------
(* The requests about members.                                             *)

LEMMA MemberAsked ==
  ASSUME RowsInv, NEW r \in Requests, AddMember(r) \/ BulkAddMembers(r)
  PROVE  RowsInv'
<1>1. ASSUME NEW q \in Queries, q.list \in Lists, q.kind \in Walks, q.todo # << >>,
             Begin(r, q, NoRow, "member"), UNCHANGED <<lists, members>>
      PROVE  RowsInv'
  <2>1. Good(r) /\ HistoryOK'
    BY <1>1, Begins DEF Pcs, OfLists, Walks
  <2>2. QED
    BY <1>1, <2>1, NothingAdded
<1>2. CASE AddMember(r)
  <2>1. PICK l \in lists, p \in People, s \in {"yes", "no"}, upsert \in BOOLEAN :
          /\ Begin(r, Ask("AddMember", l.addr, <<p>>, "none", s, upsert), NoRow, "member")
          /\ UNCHANGED <<lists, members>>
    BY <1>2 DEF AddMember
  <2> DEFINE q == Ask("AddMember", l.addr, <<p>>, "none", s, upsert)
  <2>2. l.addr \in Lists /\ <<p>> \in Seq(People) /\ <<p>> # << >>
    BY DEF RowsInv, ListsOK, ListRows
  <2>3. q \in Queries /\ q.list \in Lists /\ q.kind \in Walks /\ q.todo # << >>
    BY <2>2 DEF Ask, Queries, AllKinds, Walks, Subs
  <2> HIDE DEF q
  <2>4. QED
    BY <1>1, <2>1, <2>3 DEF q
<1>3. CASE BulkAddMembers(r)
  <2>1. PICK l \in lists, ps \in Bulks, s \in {"yes", "no"}, upsert \in BOOLEAN :
          /\ Begin(r, Ask("BulkAddMembers", l.addr, ps, "none", s, upsert), NoRow, "member")
          /\ UNCHANGED <<lists, members>>
    BY <1>3 DEF BulkAddMembers
  <2> DEFINE q == Ask("BulkAddMembers", l.addr, ps, "none", s, upsert)
  <2>2. l.addr \in Lists /\ ps \in Seq(People) /\ ps # << >>
    BY MailingListsAssumption DEF RowsInv, ListsOK, ListRows
  <2>3. q \in Queries /\ q.list \in Lists /\ q.kind \in Walks /\ q.todo # << >>
    BY <2>2 DEF Ask, Queries, AllKinds, Walks, Subs
  <2> HIDE DEF q
  <2>4. QED
    BY <1>1, <2>1, <2>3 DEF q
<1>4. QED
  BY <1>2, <1>3

LEMMA MemberFound ==
  ASSUME RowsInv, NEW r \in Requests, UpdateMember(r) \/ DeleteMember(r)
  PROVE  RowsInv'
<1>1. CASE UpdateMember(r)
  <2>1. PICK m \in members, p \in People, s \in Subs :
          /\ Begin(r, Ask("UpdateMember", m.list, <<m.addr>>, p, s, FALSE), m, "save")
          /\ UNCHANGED <<lists, members>>
    BY <1>1 DEF UpdateMember
  <2> DEFINE q == Ask("UpdateMember", m.list, <<m.addr>>, p, s, FALSE)
  <2>2. m.list \in Lists /\ <<m.addr>> \in Seq(People)
    BY DEF RowsInv, MembersOK, MemberRows
  <2>3. q \in Queries /\ q.list = m.list /\ q.kind = "UpdateMember" /\ q.to = p
    BY <2>2 DEF Ask, Queries, AllKinds
  <2> HIDE DEF q
  <2>4. Good(r) /\ HistoryOK'
    BY <2>1, <2>2, <2>3, Begins DEF Pcs, OfLists, q
  <2>5. QED
    BY <2>1, <2>4, NothingAdded
<1>2. CASE DeleteMember(r)
  <2>1. PICK m \in members :
          /\ Begin(r, Ask("DeleteMember", m.list, <<m.addr>>, "none", "same", FALSE), m, "row")
          /\ UNCHANGED <<lists, members>>
    BY <1>2 DEF DeleteMember
  <2> DEFINE q == Ask("DeleteMember", m.list, <<m.addr>>, "none", "same", FALSE)
  <2>2. m.list \in Lists /\ <<m.addr>> \in Seq(People)
    BY DEF RowsInv, MembersOK, MemberRows
  <2>3. q \in Queries /\ q.list = m.list /\ q.kind = "DeleteMember"
    BY <2>2 DEF Ask, Queries, AllKinds, Subs
  <2> HIDE DEF q
  <2>4. Good(r) /\ HistoryOK'
    BY <2>1, <2>2, <2>3, Begins DEF Pcs, OfLists, q
  <2>5. QED
    BY <2>1, <2>4, NothingAdded
<1>3. QED
  BY <1>1, <1>2

LEMMA MemberRead ==
  ASSUME RowsInv, NEW r \in Requests, ReadMember(r)
  PROVE  RowsInv'
<1>1. pc[r] = "member" /\ UNCHANGED <<lists, members>> /\ rq[r].kind \in Walks
  BY DEF ReadMember, RowsInv, Own
<1>2. CASE Goto(r, "insert")
  BY <1>1, <1>2, GoesOn, NothingAdded DEF Pcs
<1>3. CASE Refuse(r)
  BY <1>1, <1>3, GoesOn, NothingAdded DEF Pcs
<1>4. CASE NextMember(r, 0)
  BY <1>1, <1>4, GoesToNext, NothingAdded
<1>5. CASE /\ \E m \in Found(r) : seen' = [seen EXCEPT ![r] = m]
           /\ pc' = [pc EXCEPT ![r] = "save"]
           /\ UNCHANGED <<rq, pos, added, clashed, renamed, out>>
  <2>1. PICK m \in Found(r) : seen' = [seen EXCEPT ![r] = m]
    BY <1>5
  <2>2. m \in members /\ m.list = rq[r].list
    BY DEF Found, At, In
  <2>3. Shape' /\ Onward(r)
    BY <1>1, <1>5, <2>1 DEF RowsInv, Shape, Pcs, Onward, Still, Late
  <2>4. Own(r)' /\ Held(r)
    BY <1>1, <1>5, <2>1, <2>2 DEF RowsInv, Shape, Own, Held, HoldsList, HoldsMember, Walks, OfLists
  <2>5. HistoryOK'
    BY <1>5 DEF RowsInv, HistoryOK
  <2>6. QED
    BY <1>1, <2>3, <2>4, <2>5, NothingAdded DEF Good
<1>6. QED
  BY <1>2, <1>3, <1>4, <1>5 DEF ReadMember

LEMMA MemberInserted ==
  ASSUME RowsInv, NEW r \in Requests, InsertMember(r)
  PROVE  RowsInv'
<1>1. pc[r] = "insert" /\ UNCHANGED lists /\ rq[r].kind \in Walks
  BY DEF InsertMember, RowsInv, Own
<1>2. CASE UNCHANGED members /\ (NextMember(r, 1) \/ Refuse(r))
  <2>1. Good(r) /\ HistoryOK'
    BY <1>1, <1>2, GoesOn, GoesToNext DEF Pcs
  <2>2. QED
    BY <1>1, <1>2, <2>1, NothingAdded
<1>3. CASE /\ Found(r) = {}
           /\ members' = members \cup {[id |-> <<r, pos[r]>>, list |-> rq[r].list,
                                        addr |-> Person(r), sub |-> TRUE]}
           /\ Goto(r, "optout") \/ NextMember(r, 1)
  <2> DEFINE row == [id |-> <<r, pos[r]>>, list |-> rq[r].list, addr |-> Person(r), sub |-> TRUE]
  <2>1. Good(r) /\ HistoryOK'
    BY <1>1, <1>3, GoesOn, GoesToNext DEF Pcs
  <2>2. pos[r] \in Nat /\ rq[r].list \in Lists /\ Person(r) \in People
    <3>1. rq[r].todo \in Seq(People) /\ pos[r] \in 1 .. Len(rq[r].todo) /\ rq[r].list \in Lists
      BY <1>1 DEF RowsInv, Shape, Own, Queries
    <3>2. QED
      BY <3>1, ElementOfSeq DEF Person, RowsInv, Shape
  <2>3. row \in MemberRows /\ row.id = <<r, pos[r]>> /\ row.list = rq[r].list /\ row.addr = Person(r)
    BY <2>2 DEF MemberRows
  <2>4. \A m \in members : m.id # <<r, pos[r]>>
    <3>1. ~Given(<<r, pos[r]>>)
      BY <1>1, <2>2 DEF Given
    <3>2. QED
      BY <3>1 DEF RowsInv, HeldOK
  <2>5. \A m \in members : ~(m.list = rq[r].list /\ m.addr = Person(r))
    BY <1>3 DEF Found, At, In
  <2> HIDE DEF row
  <2>6. MembersOK'
    <3>1. members' = members \cup {row}
      BY <1>3 DEF row
    <3>2. QED
      BY <2>3, <2>4, <2>5, <3>1 DEF RowsInv, MembersOK
  <2>7. \A m \in members' : Given(m.id)'
    <3>1. \A i \in Requests \X Nat : Given(i) => Given(i)'
      BY <2>1, GivenStays DEF Good, RowsInv
    <3>2. \A m \in members : m.id \in Requests \X Nat /\ Given(m.id)
      BY DEF RowsInv, MembersOK, MemberRows, HeldOK
    <3>3. pos'[r] \in Nat /\ pos'[r] >= pos[r] /\ pc'[r] \in {"optout", "member", "count"}
          /\ (pc'[r] = "member" => pos'[r] = pos[r] + 1)
      <4>1. CASE Goto(r, "optout")
        BY <2>2, <4>1 DEF Goto, RowsInv, Shape
      <4>2. CASE NextMember(r, 1)
        BY <2>2, <4>2 DEF NextMember, RowsInv, Shape
      <4>3. QED
        BY <1>3, <4>1, <4>2
    <3>4. pos[r] < pos'[r] \/ (pos[r] = pos'[r] /\ pc'[r] \in {"optout", "count", "answered"})
      BY <2>2, <3>3
    <3>5. ASSUME NEW m \in members' PROVE Given(m.id)'
      <4>1. CASE m \in members
        BY <3>1, <3>2, <4>1
      <4>2. CASE m.id = <<r, pos[r]>>
        BY <3>4, <4>2 DEF Given
      <4>3. QED
        BY <1>3, <2>3, <4>1, <4>2 DEF row
    <3>6. QED
      BY <3>5
  <2>8. QED
    BY <1>1, <2>1, <2>6, <2>7, MemberWritten
<1>4. QED
  BY <1>2, <1>3 DEF InsertMember

LEMMA MemberExcluded ==
  ASSUME RowsInv, NEW r \in Requests, ExcludeMember(r)
  PROVE  RowsInv'
<1> DEFINE Excluded(m) == IF m.id = <<r, pos[r]>> THEN [m EXCEPT !.sub = FALSE] ELSE m
<1>1. /\ pc[r] = "optout" /\ UNCHANGED lists /\ NextMember(r, 1)
      /\ members' = {Excluded(m) : m \in members} /\ rq[r].kind \in Walks
  BY DEF ExcludeMember, RowsInv, Own
<1>2. Good(r) /\ HistoryOK'
  BY <1>1, GoesToNext
<1>3. members \subseteq MemberRows
  BY DEF RowsInv, MembersOK
<1>4. \A m \in members : /\ Excluded(m) \in MemberRows /\ Excluded(m).id = m.id
                         /\ Excluded(m).list = m.list /\ Excluded(m).addr = m.addr
  BY <1>3 DEF MemberRows
<1> HIDE DEF Excluded
<1>5. MembersOK'
  BY <1>1, <1>4 DEF RowsInv, MembersOK
<1>6. \A m \in members' : Given(m.id)'
  <2>1. \A i \in Requests \X Nat : Given(i) => Given(i)'
    BY <1>2, GivenStays DEF Good, RowsInv
  <2>2. \A m \in members : m.id \in Requests \X Nat /\ Given(m.id)
    BY <1>3 DEF RowsInv, MemberRows, HeldOK
  <2>3. QED
    BY <1>1, <1>4, <2>1, <2>2
<1>7. QED
  BY <1>1, <1>2, <1>5, <1>6, MemberWritten

LEMMA MembersCounted ==
  ASSUME RowsInv, NEW r \in Requests, CountMembers(r)
  PROVE  RowsInv'
<1> DEFINE Counted(l) == IF l.addr = rq[r].list THEN [l EXCEPT !.count = @ + added[r]] ELSE l
<1>1. /\ pc[r] = "count" /\ UNCHANGED members /\ Answer(r)
      /\ lists' = {Counted(l) : l \in lists}
  BY DEF CountMembers
<1>2. Good(r) /\ HistoryOK'
  BY <1>1, AnswersCount
<1>3. lists \subseteq ListRows /\ added[r] \in Int
  BY DEF RowsInv, ListsOK, Shape
<1>4. \A l \in lists : /\ Counted(l) \in ListRows /\ Counted(l).id = l.id
                       /\ Counted(l).addr = l.addr
  BY <1>3 DEF ListRows
<1> HIDE DEF Counted
<1>5. ListsOK'
  BY <1>1, <1>4 DEF RowsInv, ListsOK
<1>6. \A l \in lists' : pc'[l.id] # "idle"
  <2>1. \A q \in Requests : pc[q] # "idle" => pc'[q] # "idle"
    BY <1>2, GivenStays DEF Good, RowsInv
  <2>2. \A l \in lists : l.id \in Requests /\ pc[l.id] # "idle"
    BY <1>3 DEF RowsInv, ListRows, HeldOK
  <2>3. QED
    BY <1>1, <1>4, <2>1, <2>2
<1>7. QED
  BY <1>1, <1>2, <1>5, <1>6, ListWritten

\* The row Save writes back is of the list the request is about.
LEMMA WrittenTyped ==
  ASSUME RowsInv, NEW r \in Requests, HoldsMember(r)
  PROVE  /\ Written(r) \in MemberRows /\ Written(r).id = seen[r].id
         /\ Written(r).list = rq[r].list
         /\ [Written(r) EXCEPT !.sub = TRUE] \in MemberRows
         /\ [Written(r) EXCEPT !.sub = TRUE].id = seen[r].id
         /\ [Written(r) EXCEPT !.sub = TRUE].list = rq[r].list
         /\ Given(seen[r].id)
<1>1. /\ seen[r] \in MemberRows /\ Given(seen[r].id) /\ seen[r].list = rq[r].list
      /\ rq[r].kind = "UpdateMember" => rq[r].to \in People
  BY DEF RowsInv, HeldOK, Own
<1>2. Written(r) \in MemberRows /\ Written(r).id = seen[r].id /\ Written(r).list = rq[r].list
  BY <1>1 DEF Written, MemberRows
<1>3. QED
  BY <1>1, <1>2 DEF MemberRows

LEMMA MemberPut ==
  ASSUME RowsInv, NEW r \in Requests, NEW row \in MemberRows, PutMember(row),
         row.id = seen[r].id, Given(seen[r].id), Good(r), HistoryOK', UNCHANGED lists
  PROVE  RowsInv'
<1>1. MembersOK' /\ members' \subseteq members \cup {row}
  BY PutOneMember DEF RowsInv
<1>2. \A m \in members' : m.id \in Requests \X Nat /\ Given(m.id)
  BY <1>1 DEF RowsInv, MembersOK, MemberRows, HeldOK
<1>3. \A m \in members' : Given(m.id)'
  BY <1>2, GivenStays DEF Good, RowsInv
<1>4. QED
  BY <1>1, <1>3, MemberWritten

LEMMA MemberSaved ==
  ASSUME RowsInv, NEW r \in Requests, SaveMember(r) \/ ReinsertMember(r)
  PROVE  RowsInv'
<1>1. /\ pc[r] \in {"save", "reinsert"} /\ rq[r].kind \in Walks \cup {"UpdateMember"}
      /\ UNCHANGED lists /\ HoldsMember(r)
  BY DEF SaveMember, ReinsertMember, RowsInv, Own, HoldsMember, OfLists, Walks
<1>2. ASSUME AfterUpsert(r) PROVE Good(r) /\ HistoryOK'
  <2>1. CASE Bulk(r)
    BY <1>1, <1>2, <2>1, GoesToNext DEF AfterUpsert, Bulk, Walks
  <2>2. CASE ~Bulk(r)
    BY <1>1, <1>2, <2>2, GoesOn DEF AfterUpsert, Answer, Pcs
  <2>3. QED
    BY <2>1, <2>2
<1>3. CASE Goto(r, "reinsert") /\ UNCHANGED members /\ pc[r] = "save"
  BY <1>1, <1>3, GoesOn, NothingAdded DEF Pcs
<1>4. CASE PutMember(Written(r)) /\ AfterUpsert(r)
  BY <1>1, <1>2, <1>4, WrittenTyped, MemberPut
<1>5. CASE PutMember([Written(r) EXCEPT !.sub = TRUE]) /\ AfterUpsert(r)
  BY <1>1, <1>2, <1>5, WrittenTyped, MemberPut
<1>6. QED
  BY <1>3, <1>4, <1>5 DEF SaveMember, ReinsertMember

LEMMA MemberDeleted ==
  ASSUME RowsInv, NEW r \in Requests, DeleteMemberRow(r)
  PROVE  RowsInv'
<1>1. /\ pc[r] = "row" /\ rq[r].kind = "DeleteMember" /\ members' \subseteq members
      /\ added' = [added EXCEPT ![r] = -1] /\ pc' = [pc EXCEPT ![r] = "count"]
      /\ UNCHANGED <<lists, rq, seen, pos, clashed, renamed, out>>
  BY DEF DeleteMemberRow
<1>2. Shape' /\ Onward(r)
  BY <1>1 DEF RowsInv, Shape, Pcs, Onward, Still, Late
<1>3. Own(r)' /\ Held(r) /\ HistoryOK'
  BY <1>1 DEF RowsInv, Shape, Own, Held, HoldsList, HoldsMember, HistoryOK, Walks
<1>4. QED
  BY <1>1, <1>2, <1>3, NothingAdded DEF Good

-----------------------------------------------------------------------------
LEMMA RowsInit == Init => RowsInv
<1> SUFFICES ASSUME Init PROVE RowsInv
  OBVIOUS
<1>1. NoRequest \in Queries
  BY EmptySeq DEF NoRequest, Queries, Subs
<1>2. Shape
  BY <1>1 DEF Init, Shape, Pcs
<1>3. \A r \in Requests : Own(r)
  BY DEF Init, Own, NoRequest
<1>4. ListsOK /\ MembersOK /\ HeldOK /\ HistoryOK
  BY DEF Init, ListsOK, MembersOK, HeldOK, HoldsList, HoldsMember, HistoryOK
<1>5. QED
  BY <1>2, <1>3, <1>4 DEF RowsInv

LEMMA RowsStep == RowsInv /\ [Next]_vars => RowsInv'
<1> SUFFICES ASSUME RowsInv, [Next]_vars PROVE RowsInv'
  OBVIOUS
<1>1. CASE UNCHANGED vars
  BY <1>1 DEF vars, RowsInv, Shape, ListsOK, MembersOK, HeldOK, HistoryOK, Own, HoldsList,
              HoldsMember, Given
<1>2. CASE Next
  BY <1>2, CreateListRows, UpdateListRows, ListSaved, ListDeleted, MemberAsked, MemberFound,
     MemberRead, MemberInserted, MemberExcluded, MembersCounted, MemberSaved, MemberDeleted
     DEF Next
<1>3. QED
  BY <1>1, <1>2

LEMMA RowsInvariant == Spec => []RowsInv
  BY RowsInit, RowsStep, PTL DEF Spec

\* Whatever requests overlap, whichever stale rows Save writes back and however
\* often a deleted row is inserted again: an address names one list, a person
\* is at most once on it, and no id is given twice.
THEOREM RowsAreUnique == Spec => []TypeOK
<1>1. RowsInv => TypeOK
  BY DEF RowsInv, Shape, ListsOK, MembersOK, HistoryOK, Queries, ListRows, MemberRows, TypeOK
<1>2. QED
  BY <1>1, RowsInvariant, PTL

HIDE DEF rowVars

-----------------------------------------------------------------------------
(* The count, the members and the opt-outs of a mailing list: what         *)
(* MailingLists claims of the lists at which no requests clashed and that  *)
(* were not renamed ("clean" lists here).                                  *)
(*                                                                         *)
(* The argument has five layers, each an invariant that uses those before: *)
(* what requests carry; whose a row is, so that a request only touches its *)
(* own list; what holds at a clean list while requests are under way; the  *)
(* members counted against the requests that owe a count; and the opt-outs.*)

Clean(a) == a \in Lists \ (clashed \cup renamed)
Here(a)  == {r \in Active : rq[r].list = a}

\* Layer 1.  What a request was asked, and how far it is.
Carries(r) ==
  /\ rq[r].kind \in Walks => rq[r].sub # "same"
  /\ rq[r].kind \in {"AddMember", "UpdateMember", "DeleteMember"} => Len(rq[r].todo) = 1
  /\ rq[r].kind \in {"none", "CreateList", "UpdateList", "DeleteList"} => rq[r].todo = << >>
  /\ rq[r].kind # "BulkAddMembers" => pos[r] = 1
  /\ rq[r].kind = "BulkAddMembers" /\ pc[r] \in {"count", "answered"} => pos[r] = Len(rq[r].todo) + 1
  /\ rq[r].kind # "DeleteMember" => added[r] \in Nat
  /\ rq[r].kind \notin {"DeleteMember", "BulkAddMembers"} /\ pc[r] \notin {"count", "answered"}
       => added[r] = 0
  /\ rq[r].kind = "DeleteMember" /\ pc[r] = "count" => added[r] = -1
  /\ Renames(rq[r]) \subseteq renamed
  /\ pc[r] = "idle" => rq[r] = NoRequest /\ out[r] = {} /\ added[r] = 0
  /\ pc[r] = "save" /\ rq[r].kind \in Walks => rq[r].upsert
  /\ out[r] \subseteq OptsOut(rq[r])
  /\ \A s \in Active : out[r] \cap OptsIn(rq[s]) = {}

Apart == \A r, s \in Active : r # s /\ rq[r].list = rq[s].list /\ Clean(rq[r].list)
                                => ~Clash(rq[r], rq[s])

ControlInv == Apart /\ \A r \in Requests : Carries(r)


\* The first step of a request, and all others.
Opens(r) == \/ CreateList(r) \/ UpdateList(r) \/ DeleteList(r) \/ AddMember(r)
            \/ BulkAddMembers(r) \/ UpdateMember(r) \/ DeleteMember(r)
Works(r) == \/ SaveList(r) \/ ReinsertList(r) \/ DeleteMembersOfList(r) \/ DeleteListRow(r)
            \/ ReadMember(r) \/ InsertMember(r) \/ ExcludeMember(r) \/ CountMembers(r)
            \/ SaveMember(r) \/ ReinsertMember(r) \/ DeleteMemberRow(r)

Asked(q, at) ==
  /\ q \in Queries /\ q.list \in Lists /\ q.kind \in AllKinds
  /\ q.kind \in Walks => q.sub # "same" /\ at = "member"
  /\ q.kind \in {"AddMember", "UpdateMember", "DeleteMember"} => Len(q.todo) = 1
  /\ q.kind \in {"CreateList", "UpdateList", "DeleteList"} => q.todo = << >>
  /\ q.kind = "DeleteMember" => at = "row"
  /\ at \in {"answered", "save", "members", "member", "row"}

\* What its first query found.
Took(r, q, row, at) ==
  /\ members' = members
  /\ q.kind # "CreateList" => lists' = lists
  /\ q.kind = "CreateList" => /\ Named(q.list) = {} /\ at = "answered"
                              /\ lists' = lists \cup {[id |-> r, addr |-> q.list, count |-> 0]}
  /\ q.kind = "UpdateList" => row \in Named(q.list) /\ at = "save"
  /\ q.kind = "DeleteList" => row \in Named(q.list) /\ at = "members"
  /\ q.kind \in Walks => Named(q.list) # {} /\ at = "member"
  /\ q.kind = "UpdateMember" => row \in At(q.list, q.todo[1]) /\ at = "save"
  /\ q.kind = "DeleteMember" => row \in At(q.list, q.todo[1]) /\ at = "row"

LEMMA OpensBegin ==
  ASSUME RowsInv, NEW r \in Requests, Opens(r)
  PROVE  \E q, row, at : Asked(q, at) /\ Begin(r, q, row, at) /\ Took(r, q, row, at)
<1>0. /\ lists \subseteq ListRows /\ members \subseteq MemberRows
      /\ << >> \in Seq(People) /\ \A p \in People : <<p>> \in Seq(People) /\ Len(<<p>>) = 1
  BY EmptySeq DEF RowsInv, ListsOK, MembersOK
<1>1. CASE CreateList(r)
  <2>1. PICK a \in Lists :
          /\ Begin(r, Ask("CreateList", a, << >>, "none", "same", FALSE), NoRow, "answered")
          /\ Named(a) = {} /\ members' = members
          /\ lists' = lists \cup {[id |-> r, addr |-> a, count |-> 0]}
    BY <1>1 DEF CreateList
  <2> DEFINE q == Ask("CreateList", a, << >>, "none", "same", FALSE)
  <2>2. Asked(q, "answered")
    BY <1>0 DEF Asked, Ask, Queries, AllKinds, Walks, Subs
  <2>3. Took(r, q, NoRow, "answered")
    BY <2>1 DEF Took, Ask, Walks
  <2>4. QED
    BY <2>1, <2>2, <2>3
<1>2. CASE UpdateList(r)
  <2>1. PICK l \in lists, a \in Lists :
          /\ Begin(r, Ask("UpdateList", l.addr, << >>, a, "same", FALSE), l, "save")
          /\ lists' = lists /\ members' = members
    BY <1>2 DEF UpdateList, rowVars
  <2> DEFINE q == Ask("UpdateList", l.addr, << >>, a, "same", FALSE)
  <2>2. Asked(q, "save")
    BY <1>0 DEF Asked, Ask, Queries, AllKinds, Walks, Subs, ListRows
  <2>3. Took(r, q, l, "save")
    <3>1. q.kind = "UpdateList" /\ q.list = l.addr /\ q.todo = << >>
      BY DEF Ask
    <3>2. l \in Named(l.addr)
      BY DEF Named, At, In
    <3> HIDE DEF q
    <3>3. QED
      BY <2>1, <3>1, <3>2 DEF Took, Walks
  <2>4. QED
    BY <2>1, <2>2, <2>3
<1>3. CASE DeleteList(r)
  <2>1. PICK l \in lists :
          /\ Begin(r, Ask("DeleteList", l.addr, << >>, "none", "same", FALSE), l, "members")
          /\ lists' = lists /\ members' = members
    BY <1>3 DEF DeleteList, rowVars
  <2> DEFINE q == Ask("DeleteList", l.addr, << >>, "none", "same", FALSE)
  <2>2. Asked(q, "members")
    BY <1>0 DEF Asked, Ask, Queries, AllKinds, Walks, Subs, ListRows
  <2>3. Took(r, q, l, "members")
    <3>1. q.kind = "DeleteList" /\ q.list = l.addr /\ q.todo = << >>
      BY DEF Ask
    <3>2. l \in Named(l.addr)
      BY DEF Named, At, In
    <3> HIDE DEF q
    <3>3. QED
      BY <2>1, <3>1, <3>2 DEF Took, Walks
  <2>4. QED
    BY <2>1, <2>2, <2>3
<1>4. CASE AddMember(r)
  <2>1. PICK l \in lists, p \in People, s \in {"yes", "no"}, upsert \in BOOLEAN :
          /\ Begin(r, Ask("AddMember", l.addr, <<p>>, "none", s, upsert), NoRow, "member")
          /\ lists' = lists /\ members' = members
    BY <1>4 DEF AddMember, rowVars
  <2> DEFINE q == Ask("AddMember", l.addr, <<p>>, "none", s, upsert)
  <2>2. Asked(q, "member")
    BY <1>0 DEF Asked, Ask, Queries, AllKinds, Walks, Subs, ListRows
  <2>3. Took(r, q, NoRow, "member")
    <3>1. q.kind = "AddMember" /\ q.list = l.addr /\ q.todo = <<p>>
      BY DEF Ask
    <3>2. l \in Named(l.addr)
      BY DEF Named, At, In
    <3> HIDE DEF q
    <3>3. QED
      BY <2>1, <3>1, <3>2 DEF Took, Walks
  <2>4. QED
    BY <2>1, <2>2, <2>3
<1>5. CASE BulkAddMembers(r)
  <2>1. PICK l \in lists, ps \in Bulks, s \in {"yes", "no"}, upsert \in BOOLEAN :
          /\ Begin(r, Ask("BulkAddMembers", l.addr, ps, "none", s, upsert), NoRow, "member")
          /\ lists' = lists /\ members' = members
    BY <1>5 DEF BulkAddMembers, rowVars
  <2> DEFINE q == Ask("BulkAddMembers", l.addr, ps, "none", s, upsert)
  <2>2. ps \in Seq(People)
    BY MailingListsAssumption
  <2>3. Asked(q, "member")
    BY <1>0, <2>2 DEF Asked, Ask, Queries, AllKinds, Walks, Subs, ListRows
  <2>4. Took(r, q, NoRow, "member")
    <3>1. q.kind = "BulkAddMembers" /\ q.list = l.addr /\ q.todo = ps
      BY DEF Ask
    <3>2. l \in Named(l.addr)
      BY DEF Named, At, In
    <3> HIDE DEF q
    <3>3. QED
      BY <2>1, <3>1, <3>2 DEF Took, Walks
  <2>5. QED
    BY <2>1, <2>3, <2>4
<1>6. CASE UpdateMember(r)
  <2>1. PICK m \in members, p \in People, s \in Subs :
          /\ Begin(r, Ask("UpdateMember", m.list, <<m.addr>>, p, s, FALSE), m, "save")
          /\ lists' = lists /\ members' = members
    BY <1>6 DEF UpdateMember, rowVars
  <2> DEFINE q == Ask("UpdateMember", m.list, <<m.addr>>, p, s, FALSE)
  <2>2. m.list \in Lists /\ m.addr \in People
    BY <1>0 DEF MemberRows
  <2>3. Asked(q, "save")
    BY <1>0, <2>2 DEF Asked, Ask, Queries, AllKinds, Walks
  <2>4. Took(r, q, m, "save")
    <3>1. q.kind = "UpdateMember" /\ q.list = m.list /\ q.todo = <<m.addr>>
      BY DEF Ask
    <3>2. m \in At(m.list, m.addr) /\ <<m.addr>>[1] = m.addr
      BY DEF Named, At, In
    <3> HIDE DEF q
    <3>3. QED
      BY <2>1, <3>1, <3>2 DEF Took, Walks
  <2>5. QED
    BY <2>1, <2>3, <2>4
<1>7. CASE DeleteMember(r)
  <2>1. PICK m \in members :
          /\ Begin(r, Ask("DeleteMember", m.list, <<m.addr>>, "none", "same", FALSE), m, "row")
          /\ lists' = lists /\ members' = members
    BY <1>7 DEF DeleteMember, rowVars
  <2> DEFINE q == Ask("DeleteMember", m.list, <<m.addr>>, "none", "same", FALSE)
  <2>2. m.list \in Lists /\ m.addr \in People
    BY <1>0 DEF MemberRows
  <2>3. Asked(q, "row")
    BY <1>0, <2>2 DEF Asked, Ask, Queries, AllKinds, Walks, Subs
  <2>4. Took(r, q, m, "row")
    <3>1. q.kind = "DeleteMember" /\ q.list = m.list /\ q.todo = <<m.addr>>
      BY DEF Ask
    <3>2. m \in At(m.list, m.addr) /\ <<m.addr>>[1] = m.addr
      BY DEF Named, At, In
    <3> HIDE DEF q
    <3>3. QED
      BY <2>1, <3>1, <3>2 DEF Took, Walks
  <2>5. QED
    BY <2>1, <2>3, <2>4
<1>8. QED
  BY <1>1, <1>2, <1>3, <1>4, <1>5, <1>6, <1>7 DEF Opens

\* A later step of r, as the other requests and the history see it.
Later(r) ==
  /\ r \in Active /\ pc'[r] # "idle" /\ UNCHANGED <<rq, clashed, renamed>>
  /\ \A s \in Requests : out'[s] \subseteq out[s]
  /\ \A s \in Requests \ {r} : /\ pc'[s] = pc[s] /\ seen'[s] = seen[s] /\ pos'[s] = pos[s]
                               /\ added'[s] = added[s] /\ out'[s] = out[s]
  /\ Active' \subseteq Active

LEMMA WorksLater ==
  ASSUME RowsInv, NEW r \in Requests, Works(r)
  PROVE  Later(r)
<1>0. Shape /\ HistoryOK
  BY DEF RowsInv
<1> DEFINE Stepped == \/ \E at \in Pcs \ {"idle"} : Goto(r, at)
                    \/ Refuse(r)
                    \/ \E n \in Int : NextMember(r, n)
                    \/ /\ \E x : seen' = [seen EXCEPT ![r] = x]
                       /\ pc' = [pc EXCEPT ![r] = "save"]
                       /\ UNCHANGED <<rq, pos, added, clashed, renamed, out>>
                    \/ DeleteMemberRow(r)
<1>1. Stepped /\ r \in Active
  BY <1>0 DEF Works, SaveList, ReinsertList, DeleteMembersOfList, DeleteListRow, ReadMember, InsertMember,
              ExcludeMember, CountMembers, SaveMember, ReinsertMember, DeleteMemberRow, AfterUpsert, Answer,
              Active, Pcs
<1>2. ASSUME NEW at \in Pcs \ {"idle"}, Goto(r, at) PROVE Later(r)
  BY <1>0, <1>1, <1>2 DEF Later, Goto, Active, Shape, HistoryOK
<1>3. CASE Refuse(r)
  BY <1>0, <1>1, <1>3 DEF Later, Refuse, Active, Shape, HistoryOK
<1>4. ASSUME NEW n \in Int, NextMember(r, n) PROVE Later(r)
  BY <1>0, <1>1, <1>4 DEF Later, NextMember, Active, Shape, HistoryOK
<1>5. ASSUME NEW x, seen' = [seen EXCEPT ![r] = x], pc' = [pc EXCEPT ![r] = "save"],
             UNCHANGED <<rq, pos, added, clashed, renamed, out>>
      PROVE Later(r)
  BY <1>0, <1>1, <1>5 DEF Later, Active, Shape, HistoryOK
<1>6. CASE DeleteMemberRow(r)
  BY <1>0, <1>1, <1>6 DEF Later, DeleteMemberRow, Active, Shape, HistoryOK
<1>7. QED
  BY <1>1, <1>2, <1>3, <1>4, <1>5, <1>6

LEMMA ClashBothWays == \A q, k : Clash(q, k) <=> Clash(k, q)
<1>1. \A a, b : {a, b} = {b, a}
  OBVIOUS
<1>2. QED
  BY <1>1 DEF Clash

LEMMA NeverBoth == \A q : OptsOut(q) \subseteq Persons(q) /\ OptsOut(q) \cap OptsIn(q) = {}
BY DEF OptsOut, OptsIn

\* How far r is, as its own steps change it.
Far(r) ==
  /\ rq[r].kind # "BulkAddMembers" => pos[r] = 1
  /\ rq[r].kind = "BulkAddMembers" /\ pc[r] \in {"count", "answered"} => pos[r] = Len(rq[r].todo) + 1
  /\ rq[r].kind # "DeleteMember" => added[r] \in Nat
  /\ rq[r].kind \notin {"DeleteMember", "BulkAddMembers"} /\ pc[r] \notin {"count", "answered"}
       => added[r] = 0
  /\ rq[r].kind = "DeleteMember" /\ pc[r] = "count" => added[r] = -1
  /\ pc[r] = "save" /\ rq[r].kind \in Walks => rq[r].upsert

LEMMA BeginControls ==
  ASSUME RowsInv, ControlInv, NEW r \in Requests, NEW q, NEW row, NEW at, Asked(q, at),
         Begin(r, q, row, at)
  PROVE  ControlInv'
<1>0. Shape /\ HistoryOK /\ Own(r) /\ Carries(r)
  BY DEF RowsInv, ControlInv
<1>1. /\ pc[r] = "idle" /\ rq' = [rq EXCEPT ![r] = q] /\ pc' = [pc EXCEPT ![r] = at]
      /\ renamed' = renamed \cup Renames(q) /\ UNCHANGED <<pos, added>>
      /\ clashed' = clashed
           \cup {q.list : s \in {a \in Active : rq[a].list = q.list /\ Clash(rq[a], q)}}
      /\ out' = [s \in Requests |->
                   IF s = r THEN OptsOut(q) \ UNION {OptsIn(rq[a]) : a \in Active}
                            ELSE out[s] \ OptsIn(q)]
  BY DEF Begin
<1>2. rq'[r] = q /\ pc'[r] = at /\ pos'[r] = 1 /\ added'[r] = 0 /\ r \notin Active /\ at # "idle"
  BY <1>0, <1>1 DEF Shape, Own, Carries, Active, Asked
<1>3. \A s \in Requests \ {r} : /\ rq'[s] = rq[s] /\ pc'[s] = pc[s] /\ pos'[s] = pos[s]
                                /\ added'[s] = added[s]
  BY <1>0, <1>1 DEF Shape
<1>4. Active' \subseteq Active \cup {r} /\ r \in Requests
  BY <1>3 DEF Active
<1>5. Apart'
  <2> SUFFICES ASSUME NEW x \in Active', NEW y \in Active', x # y, rq'[x].list = rq'[y].list,
                      Clean(rq[x].list)'
               PROVE  ~Clash(rq'[x], rq'[y])
    BY DEF Apart, Clash
  <2>1. x \in Requests /\ y \in Requests
    BY DEF Active
  <2>2. CASE x # r /\ y # r
    <3>1. x \in Active /\ y \in Active /\ Clean(rq[x].list)
      BY <1>1, <1>3, <1>4, <2>1, <2>2 DEF Clean
    <3>2. QED
      BY <1>3, <2>1, <2>2, <3>1 DEF ControlInv, Apart
  <2>3. ASSUME NEW z \in Active, rq[z].list = q.list, Clean(q.list)' PROVE ~Clash(rq[z], q)
    BY <1>1, <2>3 DEF Clean
  <2>4. CASE x = r
    <3>1. y \in Active /\ rq'[y] = rq[y]
      BY <1>3, <1>4, <2>1, <2>4
    <3>2. ~Clash(rq[y], q)
      BY <1>2, <2>3, <2>4, <3>1 DEF Clean
    <3>3. QED
      BY <1>2, <2>4, <3>1, <3>2, ClashBothWays
  <2>5. CASE y = r
    <3>1. x \in Active /\ rq'[x] = rq[x]
      BY <1>3, <1>4, <2>1, <2>5
    <3>2. ~Clash(rq[x], q)
      BY <1>2, <2>3, <2>5, <3>1 DEF Clean
    <3>3. QED
      BY <1>2, <2>5, <3>1, <3>2
  <2>6. QED
    BY <2>2, <2>4, <2>5
<1>6. out'[r] \subseteq OptsOut(q) /\ \A s \in Active : out'[r] \cap OptsIn(rq[s]) = {}
  BY <1>1
<1>7. \A s \in Requests \ {r} : out'[s] = out[s] \ OptsIn(q)
  BY <1>1
<1>8. Carries(r)'
  <2>1. \A s \in Active' : out'[r] \cap OptsIn(rq'[s]) = {}
    <3>1. out'[r] \cap OptsIn(q) = {}
      BY <1>6, NeverBoth
    <3>2. \A s \in Active' : s = r \/ (s \in Active /\ rq'[s] = rq[s])
      BY <1>3, <1>4 DEF Active
    <3>3. QED
      BY <1>2, <1>6, <3>1, <3>2
  <2>2. Renames(q) \subseteq renamed'
    BY <1>1
  <2>3. QED
    BY <1>2, <1>6, <2>1, <2>2 DEF Carries, Asked, Walks, AllKinds
<1>9. ASSUME NEW s \in Requests \ {r} PROVE Carries(s)'
  <2>1. Carries(s)
    BY DEF ControlInv
  <2>2. \A x \in Active' : out'[s] \cap OptsIn(rq'[x]) = {}
    <3>1. \A x \in Active' : x = r \/ (x \in Active /\ rq'[x] = rq[x])
      BY <1>3, <1>4 DEF Active
    <3>2. QED
      BY <1>2, <1>7, <2>1, <3>1 DEF Carries
  <2>3. out'[s] \subseteq out[s] /\ renamed \subseteq renamed'
    BY <1>1, <1>7
  <2>4. QED
    BY <1>3, <2>1, <2>2, <2>3 DEF Carries
<1>10. QED
  BY <1>5, <1>8, <1>9 DEF ControlInv

LEMMA LaterControls ==
  ASSUME RowsInv, ControlInv, NEW r \in Requests, Later(r), Far(r)'
  PROVE  ControlInv'
<1>1. rq' = rq /\ clashed' = clashed /\ renamed' = renamed /\ Active' \subseteq Active
      /\ r \in Active /\ pc[r] # "idle" /\ pc'[r] # "idle"
  BY DEF Later, Active
<1>2. Apart'
  BY <1>1 DEF ControlInv, Apart, Clean, Clash
<1>3. ASSUME NEW s \in Requests PROVE Carries(s)'
  <2>1. Carries(s) /\ out'[s] \subseteq out[s]
    BY DEF ControlInv, Later
  <2>2. \A x \in Active' : out'[s] \cap OptsIn(rq'[x]) = {}
    BY <1>1, <2>1 DEF Carries
  <2>3. out'[s] \subseteq OptsOut(rq'[s]) /\ Renames(rq'[s]) \subseteq renamed'
    BY <1>1, <2>1 DEF Carries
  <2>4. CASE s = r
    BY <1>1, <2>1, <2>2, <2>3, <2>4 DEF Carries, Far
  <2>5. CASE s # r
    <3>1. pc'[s] = pc[s] /\ pos'[s] = pos[s] /\ added'[s] = added[s] /\ out'[s] = out[s]
      BY <2>5 DEF Later
    <3>2. QED
      BY <1>1, <2>1, <2>2, <2>3, <3>1 DEF Carries
  <2>6. QED
    BY <2>4, <2>5
<1>4. QED
  BY <1>2, <1>3 DEF ControlInv

LEMMA GotoFar ==
  ASSUME RowsInv, ControlInv, NEW r \in Requests,
         NEW at \in Pcs \ {"idle"}, Goto(r, at) \/ (Refuse(r) /\ at = "answered"),
         at \notin {"save", "count"}, pc[r] \in {"count", "answered"} => at = "answered",
         rq[r].kind \in Walks /\ at = "answered" => ~Bulk(r) \/ pc[r] = "count"
  PROVE  Far(r)'
<1>1. Carries(r) /\ pc'[r] = at /\ rq' = rq /\ pos' = pos /\ added' = added
  BY DEF ControlInv, RowsInv, Shape, Goto, Refuse
<1>2. QED
  BY <1>1 DEF Carries, Far, Walks, Bulk

LEMMA NextFar ==
  ASSUME RowsInv, ControlInv, NEW r \in Requests, NEW n \in {0, 1}, NextMember(r, n),
         rq[r].kind \in Walks, pc[r] \in {"member", "insert", "optout", "save", "reinsert"}
  PROVE  Far(r)'
<1>1. Carries(r) /\ Own(r) /\ Shape
  BY DEF ControlInv, RowsInv
<1>2. PICK len \in Nat : len = Len(rq[r].todo)
  BY <1>1, LenProperties DEF Shape, Queries
<1>3. pos[r] \in 1 .. len /\ pos[r] \in Nat /\ rq' = rq /\ added[r] \in Nat
  BY <1>1, <1>2 DEF Own, Carries, NextMember, Walks, Shape
<1>4. CASE Bulk(r)
  <2>1. /\ pos'[r] = pos[r] + 1 /\ added'[r] = added[r] + n
        /\ pc'[r] = IF pos[r] < len THEN "member" ELSE "count"
    BY <1>1, <1>2, <1>4 DEF NextMember, Shape
  <2>2. QED
    BY <1>1, <1>2, <1>3, <1>4, <2>1 DEF Far, Bulk
<1>5. CASE ~Bulk(r)
  <2>1. /\ pos'[r] = pos[r] /\ added'[r] = n /\ pc'[r] = "count"
    BY <1>1, <1>5 DEF NextMember, Shape
  <2>2. QED
    BY <1>1, <1>3, <1>5, <2>1 DEF Far, Bulk, Carries, Walks
<1>6. QED
  BY <1>4, <1>5

LEMMA WorksControls ==
  ASSUME RowsInv, ControlInv, NEW r \in Requests, Works(r)
  PROVE  ControlInv'
<1>0. Later(r)
  BY WorksLater
<1>1. Carries(r) /\ Own(r) /\ Shape
  BY DEF ControlInv, RowsInv
<1>2. CASE SaveList(r) \/ ReinsertList(r) \/ DeleteMembersOfList(r) \/ DeleteListRow(r)
  <2>1. rq[r].kind \in OfLists /\ pc[r] \notin {"count", "answered"}
    BY <1>1, <1>2 DEF SaveList, ReinsertList, DeleteMembersOfList, DeleteListRow, Own, OfLists
  <2>2. \E at \in {"reinsert", "row", "answered"} : Goto(r, at)
    BY <1>2 DEF SaveList, ReinsertList, DeleteMembersOfList, DeleteListRow, Answer
  <2>3. Far(r)'
    BY <2>1, <2>2, GotoFar DEF Pcs, OfLists, Walks
  <2>4. QED
    BY <1>0, <2>3, LaterControls
<1>3. CASE ReadMember(r)
  <2>1. rq[r].kind \in Walks /\ pc[r] = "member"
    BY <1>1, <1>3 DEF ReadMember, Own
  <2>2. CASE Goto(r, "insert")
    BY <1>0, <2>1, <2>2, GotoFar, LaterControls DEF Pcs
  <2>3. CASE NextMember(r, 0)
    BY <1>0, <2>1, <2>3, NextFar, LaterControls
  <2>4. CASE Refuse(r) /\ ~Bulk(r)
    BY <1>0, <2>1, <2>4, GotoFar, LaterControls DEF Pcs
  <2>5. CASE rq[r].upsert /\ pc' = [pc EXCEPT ![r] = "save"] /\ UNCHANGED <<rq, pos, added>>
    <3>1. Far(r)'
      BY <1>1, <2>1, <2>5 DEF Far, Carries, Shape, Walks
    <3>2. QED
      BY <1>0, <3>1, LaterControls
  <2>6. QED
    BY <1>3, <2>2, <2>3, <2>4, <2>5 DEF ReadMember
<1>4. CASE InsertMember(r) \/ ExcludeMember(r)
  <2>1. rq[r].kind \in Walks /\ pc[r] \in {"insert", "optout"}
    BY <1>1, <1>4 DEF InsertMember, ExcludeMember, Own
  <2>2. CASE Goto(r, "optout")
    BY <1>0, <2>1, <2>2, GotoFar, LaterControls DEF Pcs
  <2>3. CASE NextMember(r, 1)
    BY <1>0, <2>1, <2>3, NextFar, LaterControls
  <2>4. CASE Refuse(r) /\ ~Bulk(r)
    BY <1>0, <2>1, <2>4, GotoFar, LaterControls DEF Pcs
  <2>5. QED
    BY <1>4, <2>2, <2>3, <2>4 DEF InsertMember, ExcludeMember
<1>5. CASE CountMembers(r)
  <2>1. pc[r] = "count" /\ Goto(r, "answered")
    BY <1>5 DEF CountMembers, Answer
  <2>2. QED
    BY <1>0, <2>1, GotoFar, LaterControls DEF Pcs
<1>6. CASE SaveMember(r) \/ ReinsertMember(r)
  <2>1. rq[r].kind \in Walks \cup {"UpdateMember"} /\ pc[r] \in {"save", "reinsert"}
    BY <1>1, <1>6 DEF SaveMember, ReinsertMember, Own
  <2>2. CASE Goto(r, "reinsert")
    BY <1>0, <2>1, <2>2, GotoFar, LaterControls DEF Pcs
  <2>3. CASE Bulk(r) /\ NextMember(r, 0)
    BY <1>0, <2>1, <2>3, NextFar, LaterControls DEF Bulk, Walks
  <2>4. CASE ~Bulk(r) /\ Answer(r)
    BY <1>0, <2>1, <2>4, GotoFar, LaterControls DEF Pcs, Answer
  <2>5. QED
    BY <1>6, <2>2, <2>3, <2>4 DEF SaveMember, ReinsertMember, AfterUpsert
<1>7. CASE DeleteMemberRow(r)
  <2>1. /\ rq[r].kind = "DeleteMember" /\ pc'[r] = "count" /\ added'[r] = -1
        /\ UNCHANGED <<rq, pos>>
    BY <1>1, <1>7 DEF DeleteMemberRow, Shape
  <2>2. Far(r)'
    BY <1>1, <2>1 DEF Far, Carries
  <2>3. QED
    BY <1>0, <2>2, LaterControls
<1>8. QED
  BY <1>2, <1>3, <1>4, <1>5, <1>6, <1>7 DEF Works

LEMMA NextIs == Next => \E r \in Requests : Opens(r) \/ Works(r)
BY DEF Next, Opens, Works

LEMMA ControlInvariant == Spec => []ControlInv
<1>1. Init => ControlInv
  <2> SUFFICES ASSUME Init PROVE ControlInv
    OBVIOUS
  <2>1. Active = {}
    BY DEF Init, Active
  <2>2. ASSUME NEW r \in Requests PROVE Carries(r)
    BY <2>1 DEF Init, Carries, NoRequest, Renames, Walks
  <2>3. QED
    BY <2>1, <2>2 DEF ControlInv, Apart
<1>2. RowsInv /\ ControlInv /\ [Next]_vars => ControlInv'
  <2> SUFFICES ASSUME RowsInv, ControlInv, [Next]_vars PROVE ControlInv'
    OBVIOUS
  <2>1. CASE UNCHANGED vars
    <3>1. Active' = Active /\ Apart'
      BY <2>1 DEF vars, ControlInv, Apart, Clean, Active, Clash
    <3>2. ASSUME NEW r \in Requests PROVE Carries(r)'
      BY <2>1, <3>1 DEF vars, ControlInv, Carries
    <3>3. QED
      BY <3>1, <3>2 DEF ControlInv
  <2>2. ASSUME NEW r \in Requests, Opens(r) PROVE ControlInv'
    BY <2>2, OpensBegin, BeginControls
  <2>3. ASSUME NEW r \in Requests, Works(r) PROVE ControlInv'
    BY <2>3, WorksControls
  <2>4. QED
    BY <2>1, <2>2, <2>3, NextIs
<1>3. QED
  BY <1>1, <1>2, RowsInvariant, PTL DEF Spec

-----------------------------------------------------------------------------
\* Layer 2.  Requests that hold the row of one list were asked about one
\* address, unless the list was renamed, so no request writes another's list.
Alike(a, b, names) == a = b \/ {a, b} \subseteq names

WhoseInv ==
  \A r \in Requests : HoldsList(r) =>
    /\ \A l \in lists : l.id = seen[r].id => Alike(l.addr, rq[r].list, renamed)
    /\ \A s \in Requests : HoldsList(s) /\ seen[s].id = seen[r].id
                             => Alike(rq[s].list, rq[r].list, renamed)

\* Which list rows a later step of r writes, and which it may remove.
LEMMA WorksLists ==
  ASSUME RowsInv, NEW r \in Requests, Works(r)
  PROVE  /\ \A l \in lists' : \/ \E k \in lists : k.id = l.id /\ k.addr = l.addr
                              \/ /\ HoldsList(r) /\ rq[r].kind = "UpdateList"
                                 /\ l.id = seen[r].id /\ l.addr = rq[r].to
         /\ \A k \in lists : \/ \E l \in lists' : l.id = k.id /\ l.addr = k.addr
                             \/ /\ HoldsList(r) /\ k.id = seen[r].id
                                /\ \/ DeleteListRow(r)
                                   \/ rq[r].kind = "UpdateList" /\ \E l \in lists' : l.addr = rq[r].to
<1>1. CASE lists' = lists
  BY <1>1
<1>2. CASE CountMembers(r)
  <2> DEFINE Counted(l) == IF l.addr = rq[r].list THEN [l EXCEPT !.count = @ + added[r]] ELSE l
  <2>1. lists' = {Counted(l) : l \in lists}
    BY <1>2 DEF CountMembers
  <2>2. \A l \in lists : Counted(l).id = l.id /\ Counted(l).addr = l.addr
    BY DEF RowsInv, ListsOK, ListRows
  <2> HIDE DEF Counted
  <2>3. QED
    BY <2>1, <2>2
<1>3. CASE SaveList(r) \/ ReinsertList(r)
  <2> DEFINE row == [seen[r] EXCEPT !.addr = rq[r].to]
             old == {l \in lists : l.id = row.id}
  <2>1. HoldsList(r) /\ rq[r].kind = "UpdateList"
    BY <1>3 DEF SaveList, ReinsertList, HoldsList, OfLists
  <2>2. row.id = seen[r].id /\ row.addr = rq[r].to
    BY <2>1 DEF RowsInv, HeldOK, ListRows
  <2>3. lists' = lists \/ lists' = (lists \ old) \cup {row}
    BY <1>3 DEF SaveList, ReinsertList, rowVars
  <2> HIDE DEF row
  <2>4. QED
    BY <1>1, <2>1, <2>2, <2>3
<1>4. CASE DeleteListRow(r)
  <2>1. pc[r] = "row" /\ rq[r].kind = "DeleteList" /\ lists' = {l \in lists : l.id # seen[r].id}
    BY <1>4 DEF DeleteListRow
  <2>2. QED
    BY <1>4, <2>1 DEF HoldsList, OfLists
<1>5. QED
  BY <1>1, <1>2, <1>3, <1>4 DEF Works, DeleteMembersOfList, ReadMember, InsertMember, ExcludeMember,
     SaveMember, ReinsertMember, DeleteMemberRow, rowVars

\* A request that holds a list's row later held it before.
LEMMA WorksHolds ==
  ASSUME RowsInv, NEW r \in Requests, Works(r), HoldsList(r)'
  PROVE  HoldsList(r) /\ seen'[r] = seen[r]
<1>0. Shape /\ Own(r) /\ rq' = rq
  BY WorksLater DEF RowsInv, Later
<1>1. rq[r].kind \in OfLists /\ pc'[r] \in {"save", "reinsert", "members", "row"}
  BY <1>0 DEF HoldsList
<1>2. SaveList(r) \/ ReinsertList(r) \/ DeleteMembersOfList(r) \/ DeleteListRow(r) \/ CountMembers(r)
  BY <1>0, <1>1 DEF Works, ReadMember, InsertMember, ExcludeMember, SaveMember, ReinsertMember,
     DeleteMemberRow, Own, OfLists, Walks
<1>3. pc[r] \in {"save", "reinsert", "members", "row", "count"} /\ \E at : Goto(r, at)
  BY <1>2 DEF SaveList, ReinsertList, DeleteMembersOfList, DeleteListRow, CountMembers, Answer
<1>4. QED
  BY <1>0, <1>1, <1>3 DEF HoldsList, Own, Goto, OfLists, Walks

LEMMA WhoseStep ==
  ASSUME RowsInv, ControlInv, WhoseInv, [Next]_vars
  PROVE  WhoseInv'
<1>1. CASE UNCHANGED vars
  BY <1>1 DEF vars, rowVars, WhoseInv, HoldsList, Alike
<1>2. ASSUME NEW r \in Requests, Opens(r) PROVE WhoseInv'
  <2>1. PICK q, row, at : Asked(q, at) /\ Begin(r, q, row, at) /\ Took(r, q, row, at)
    BY <1>2, OpensBegin
  <2>2. /\ rq'[r] = q /\ pc'[r] = at /\ seen'[r] = row /\ renamed \subseteq renamed'
        /\ \A s \in Requests \ {r} : rq'[s] = rq[s] /\ pc'[s] = pc[s] /\ seen'[s] = seen[s]
        /\ pc[r] = "idle"
    BY <2>1 DEF Begin, RowsInv, Shape
  <2>3. HoldsList(r)' => row \in lists /\ row.addr = q.list /\ lists' = lists
    BY <2>1, <2>2 DEF HoldsList, OfLists, Took, Named
  <2>4. \A s \in Requests \ {r} : HoldsList(s)' <=> HoldsList(s)
    BY <2>2 DEF HoldsList
  <2>5. \A s \in Requests : HoldsList(s) => seen[s].id \in Requests /\ seen[s].id # r
    BY <2>2 DEF RowsInv, HeldOK, ListRows
  <2>6. \A l \in lists' : l \in lists \/ l.id = r
    BY <2>1 DEF Took
  <2>7. \A a, b : Alike(a, b, renamed) => Alike(a, b, renamed')
    BY <2>2 DEF Alike
  <2>8. ASSUME NEW s \in Requests, HoldsList(s)'
        PROVE  \A l \in lists' : l.id = seen'[s].id => Alike(l.addr, rq'[s].list, renamed')
    <3>1. CASE s = r
      BY <2>2, <2>3, <2>8, <3>1 DEF Alike, RowsInv, ListsOK
    <3>2. CASE s # r
      BY <2>2, <2>4, <2>5, <2>6, <2>7, <2>8, <3>2 DEF WhoseInv
    <3>3. QED
      BY <3>1, <3>2
  <2>9. ASSUME NEW s \in Requests, NEW x \in Requests, HoldsList(s)', HoldsList(x)',
               seen'[x].id = seen'[s].id
        PROVE  Alike(rq'[x].list, rq'[s].list, renamed')
    <3>1. CASE s = r /\ x = r
      BY <3>1 DEF Alike
    <3>2. CASE s = r /\ x # r
      <4>1. HoldsList(x) /\ seen[x].id = row.id /\ row \in lists /\ row.addr = rq'[s].list
        BY <2>2, <2>3, <2>4, <2>9, <3>2
      <4>2. Alike(row.addr, rq[x].list, renamed)
        BY <4>1 DEF WhoseInv
      <4>3. QED
        BY <2>2, <4>1, <4>2, <3>2 DEF Alike
    <3>3. CASE s # r /\ x = r
      <4>1. HoldsList(s) /\ seen[s].id = row.id /\ row \in lists /\ row.addr = rq'[x].list
        BY <2>2, <2>3, <2>4, <2>9, <3>3
      <4>2. Alike(row.addr, rq[s].list, renamed)
        BY <4>1 DEF WhoseInv
      <4>3. QED
        BY <2>2, <4>1, <4>2, <3>3 DEF Alike
    <3>4. CASE s # r /\ x # r
      BY <2>2, <2>4, <2>7, <2>9, <3>4 DEF WhoseInv
    <3>5. QED
      BY <3>1, <3>2, <3>3, <3>4
  <2>10. QED
    BY <2>8, <2>9 DEF WhoseInv
<1>3. ASSUME NEW r \in Requests, Works(r) PROVE WhoseInv'
  <2>1. Later(r)
    BY <1>3, WorksLater
  <2>2. rq' = rq /\ renamed' = renamed
    BY <2>1 DEF Later
  <2>3. \A s \in Requests : HoldsList(s)' => HoldsList(s) /\ seen'[s] = seen[s]
    <3>1. \A s \in Requests \ {r} : HoldsList(s)' => HoldsList(s) /\ seen'[s] = seen[s]
      BY <2>1 DEF Later, HoldsList
    <3>2. QED
      BY <1>3, <3>1, WorksHolds
  <2>4. ASSUME NEW s \in Requests, HoldsList(s)', NEW l \in lists', l.id = seen'[s].id
        PROVE  Alike(l.addr, rq[s].list, renamed)
    <3>1. HoldsList(s) /\ l.id = seen[s].id
      BY <2>3, <2>4
    <3>2. CASE \E k \in lists : k.id = l.id /\ k.addr = l.addr
      BY <3>1, <3>2 DEF WhoseInv
    <3>3. CASE HoldsList(r) /\ rq[r].kind = "UpdateList" /\ l.id = seen[r].id /\ l.addr = rq[r].to
      <4>1. Alike(rq[r].list, rq[s].list, renamed)
        BY <3>1, <3>3 DEF WhoseInv
      <4>2. rq[r].to = rq[r].list \/ {rq[r].list, rq[r].to} \subseteq renamed
        BY <3>3 DEF ControlInv, Carries, Renames
      <4>3. QED
        BY <3>3, <4>1, <4>2 DEF Alike
    <3>4. QED
      BY <1>3, <3>2, <3>3, WorksLists
  <2>5. QED
    BY <2>2, <2>3, <2>4 DEF WhoseInv, Alike
<1>4. QED
  BY <1>1, <1>2, <1>3, NextIs

LEMMA WhoseInvariant == Spec => []WhoseInv
<1>1. Init => WhoseInv
  BY DEF Init, WhoseInv, HoldsList
<1>2. QED
  BY <1>1, WhoseStep, RowsInvariant, ControlInvariant, PTL DEF Spec

\* A list that is clean keeps its row, but for the request that deletes it.
LEMMA NamesStay ==
  ASSUME RowsInv, ControlInv, WhoseInv, NEW r \in Requests, Works(r),
         NEW a, Clean(a), Named(a) # {}
  PROVE  Named(a)' # {} \/ (DeleteListRow(r) /\ rq[r].list = a)
<1>1. PICK k \in lists : k.addr = a
  BY DEF Named
<1>2. CASE \E l \in lists' : l.addr = a
  BY <1>2 DEF Named
<1>3. CASE /\ HoldsList(r) /\ k.id = seen[r].id
           /\ \/ DeleteListRow(r)
              \/ rq[r].kind = "UpdateList" /\ \E l \in lists' : l.addr = rq[r].to
  <2>1. a = rq[r].list
    BY <1>1, <1>3 DEF WhoseInv, Alike, Clean
  <2>2. rq[r].kind = "UpdateList" => rq[r].to = rq[r].list
    BY <2>1 DEF ControlInv, Carries, Renames, Clean
  <2>3. QED
    BY <1>2, <1>3, <2>1, <2>2
<1>4. QED
  BY <1>1, <1>2, <1>3, WorksLists

\* Which member rows a later step of r writes.
LEMMA WorksMembers ==
  ASSUME RowsInv, NEW r \in Requests, Works(r)
  PROVE  \A m \in members' :
           \/ \E k \in members : k.id = m.id /\ k.list = m.list
           \/ /\ m.list = rq[r].list
              /\ \/ pc[r] = "insert" /\ m.id = <<r, pos[r]>>
                 \/ HoldsMember(r) /\ m.id = seen[r].id
<1>1. CASE members' \subseteq members
  BY <1>1
<1>2. CASE InsertMember(r)
  <2> DEFINE row == [id |-> <<r, pos[r]>>, list |-> rq[r].list, addr |-> Person(r), sub |-> TRUE]
  <2>1. pc[r] = "insert" /\ members' \subseteq members \cup {row}
    BY <1>2 DEF InsertMember
  <2>2. row.list = rq[r].list /\ row.id = <<r, pos[r]>>
    OBVIOUS
  <2> HIDE DEF row
  <2>3. QED
    BY <2>1, <2>2
<1>3. CASE ExcludeMember(r)
  <2> DEFINE Excluded(m) == IF m.id = <<r, pos[r]>> THEN [m EXCEPT !.sub = FALSE] ELSE m
  <2>1. members' = {Excluded(m) : m \in members}
    BY <1>3 DEF ExcludeMember
  <2>2. \A m \in members : Excluded(m).id = m.id /\ Excluded(m).list = m.list
    BY DEF RowsInv, MembersOK, MemberRows
  <2> HIDE DEF Excluded
  <2>3. QED
    BY <2>1, <2>2
<1>4. ASSUME SaveMember(r) \/ ReinsertMember(r), NEW row \in MemberRows, PutMember(row),
             row.id = seen[r].id, row.list = rq[r].list, HoldsMember(r)
      PROVE  \A m \in members' : m \in members \/ (m.list = rq[r].list /\ HoldsMember(r) /\ m.id = seen[r].id)
  <2>1. members' \subseteq members \cup {row}
    BY <1>4, PutOneMember DEF RowsInv
  <2>2. QED
    BY <1>4, <2>1
<1>5. CASE SaveMember(r) \/ ReinsertMember(r)
  <2>1. HoldsMember(r)
    BY <1>5 DEF SaveMember, ReinsertMember, HoldsMember, OfLists, RowsInv, Own, Walks
  <2>2. members' = members \/ PutMember(Written(r)) \/ PutMember([Written(r) EXCEPT !.sub = TRUE])
    BY <1>5 DEF SaveMember, ReinsertMember
  <2>3. CASE PutMember(Written(r))
    BY <1>4, <1>5, <2>1, <2>3, WrittenTyped
  <2>4. CASE PutMember([Written(r) EXCEPT !.sub = TRUE])
    BY <1>4, <1>5, <2>1, <2>4, WrittenTyped
  <2>5. QED
    BY <1>1, <2>2, <2>3, <2>4
<1>6. QED
  BY <1>1, <1>2, <1>3, <1>5 DEF Works, SaveList, ReinsertList, DeleteMembersOfList, DeleteListRow,
     ReadMember, CountMembers, DeleteMemberRow, rowVars

-----------------------------------------------------------------------------
\* Layer 3.  A clean list with members, or with a request under way, has a row;
\* and it has no members between the two statements of DeleteList.
Hosted(r) ==
  /\ Named(rq[r].list) # {}
  /\ pc[r] = "row" /\ rq[r].kind = "DeleteList" => In(rq[r].list) = {}

StrayInv ==
  /\ \A a \in Lists : Clean(a) /\ In(a) # {} => Named(a) # {}
  /\ \A r \in Active : Clean(rq[r].list) => Hosted(r)

LEMMA StrayBegin ==
  ASSUME RowsInv, StrayInv, NEW r \in Requests, Opens(r)
  PROVE  StrayInv'
<1>1. PICK q, row, at : Asked(q, at) /\ Begin(r, q, row, at) /\ Took(r, q, row, at)
  BY OpensBegin
<1>2. /\ rq'[r] = q /\ pc'[r] = at /\ pc[r] = "idle" /\ members' = members
      /\ clashed \subseteq clashed' /\ renamed \subseteq renamed' /\ lists \subseteq lists'
      /\ \A s \in Requests \ {r} : rq'[s] = rq[s] /\ pc'[s] = pc[s]
  BY <1>1 DEF Begin, RowsInv, Shape, Took
<1>3. \A a \in Lists : /\ Clean(a)' => Clean(a)
                       /\ In(a)' = In(a)
                       /\ Named(a) # {} => Named(a)' # {}
  BY <1>2 DEF Clean, In, Named
<1>4. \A a \in Lists : Clean(a)' /\ In(a)' # {} => Named(a)' # {}
  BY <1>3 DEF StrayInv
<1>5. ASSUME NEW s \in Active', Clean(rq[s].list)' PROVE Hosted(s)'
  <2>0. s \in Requests
    BY DEF Active
  <2>1. CASE s = r
    <3>1. /\ q.list \in Lists /\ q.kind \in AllKinds \ {"CreateList"}
          /\ at = "row" => q.kind # "DeleteList"
      <4>1. at # "answered"
        BY <1>2, <2>1 DEF Active
      <4>2. QED
        BY <1>1, <4>1 DEF Asked, Took
    <3>2. q.kind \in Walks \cup OfLists \cup {"UpdateMember", "DeleteMember"}
      BY <3>1 DEF AllKinds, Walks, OfLists
    <3>3. Named(q.list) # {} \/ In(q.list) # {}
      BY <1>1, <3>2 DEF Took, At, OfLists, Walks
    <3>4. Named(q.list) # {}
      BY <1>2, <1>3, <1>5, <2>1, <3>1, <3>3 DEF StrayInv
    <3>5. Named(q.list)' # {}
      BY <1>3, <3>1, <3>4
    <3>6. QED
      BY <1>2, <2>1, <3>1, <3>5 DEF Hosted, Named
  <2>2. CASE s # r
    <3>1. s \in Active /\ rq'[s] = rq[s] /\ pc'[s] = pc[s] /\ rq[s].list \in Lists
      BY <1>2, <2>0, <2>2 DEF Active, RowsInv, Own
    <3>2. Clean(rq[s].list) /\ Hosted(s)
      BY <1>2, <1>5, <3>1 DEF Clean, StrayInv
    <3>3. QED
      BY <1>2, <3>1, <3>2 DEF Hosted, Named, In
  <2>3. QED
    BY <2>1, <2>2
<1>6. QED
  BY <1>4, <1>5 DEF StrayInv

\* A request that deletes a clean list has no company there.
LEMMA DeletesAlone ==
  ASSUME ControlInv, NEW r \in Active, NEW s \in Active, r # s, rq[r].kind = "DeleteList",
         Clean(rq[r].list)
  PROVE  rq[s].list # rq[r].list
<1>1. Clash(rq[r], rq[s])
  BY DEF Clash, Harmless
<1>2. QED
  BY <1>1 DEF ControlInv, Apart

LEMMA StrayWork ==
  ASSUME RowsInv, ControlInv, WhoseInv, StrayInv, NEW r \in Requests, Works(r)
  PROVE  StrayInv'
<1>1. Later(r)
  BY WorksLater
<1>2. r \in Active /\ rq' = rq /\ Active' \subseteq Active /\ \A a : Clean(a)' <=> Clean(a)
  BY <1>1 DEF Later, Clean
<1>3. ASSUME NEW a \in Lists, Clean(a), In(a)' # {} PROVE Named(a)' # {}
  <2>1. PICK m \in members' : m.list = a
    BY <1>3 DEF In
  <2>2. CASE \E k \in members : k.list = a
    <3>1. In(a) # {} /\ Named(a) # {}
      BY <1>3, <2>2 DEF StrayInv, In
    <3>2. CASE DeleteListRow(r) /\ rq[r].list = a
      <4>1. Hosted(r) /\ pc[r] = "row" /\ rq[r].kind = "DeleteList"
        BY <1>2, <1>3, <3>2 DEF StrayInv, DeleteListRow
      <4>2. QED
        BY <3>1, <3>2, <4>1 DEF Hosted
    <3>3. QED
      BY <1>3, <3>1, <3>2, NamesStay
  <2>3. CASE rq[r].list = a /\ (pc[r] = "insert" \/ HoldsMember(r))
    <3>1. Named(a) # {} /\ ~DeleteListRow(r)
      BY <1>2, <1>3, <2>3 DEF StrayInv, Hosted, HoldsMember, DeleteListRow
    <3>2. QED
      BY <1>3, <3>1, NamesStay
  <2>4. QED
    BY <2>1, <2>2, <2>3, WorksMembers
<1>4. ASSUME NEW s \in Active', Clean(rq[s].list) PROVE Hosted(s)'
  <2>1. s \in Active /\ s \in Requests /\ Hosted(s)
    BY <1>2, <1>4 DEF StrayInv, Active
  <2>2. Named(rq[s].list)' # {}
    <3>1. CASE DeleteListRow(r) /\ rq[r].list = rq[s].list
      <4>1. s # r
        BY <3>1 DEF DeleteListRow, Answer, Goto, Active, RowsInv, Shape
      <4>2. QED
        BY <1>2, <1>4, <2>1, <3>1, <4>1, DeletesAlone DEF DeleteListRow
    <3>2. CASE ~(DeleteListRow(r) /\ rq[r].list = rq[s].list)
      <4>1. PICK a \in Lists : a = rq[s].list
        BY <1>4 DEF Clean
      <4>2. Named(a)' # {}
        BY <1>4, <2>1, <3>2, <4>1, NamesStay DEF Hosted
      <4>3. QED
        BY <1>2, <4>1, <4>2 DEF Named
    <3>3. QED
      BY <3>1, <3>2
  <2>3. ASSUME pc'[s] = "row", rq[s].kind = "DeleteList" PROVE In(rq[s].list)' = {}
    <3>1. CASE s = r
      <4>1. DeleteMembersOfList(r)
        <5>1. DeleteMembersOfList(r) \/ DeleteListRow(r)
          BY <2>3, <3>1 DEF Works, SaveList, ReinsertList, ReadMember, InsertMember, ExcludeMember,
             CountMembers, SaveMember, ReinsertMember, DeleteMemberRow, RowsInv, Own, Walks
        <5>2. DeleteListRow(r) => pc'[r] = "answered"
          BY DEF DeleteListRow, Answer, Goto, RowsInv, Shape
        <5>3. QED
          BY <2>3, <3>1, <5>1, <5>2
      <4>2. QED
        BY <1>2, <3>1, <4>1 DEF DeleteMembersOfList, In
    <3>2. CASE s # r
      <4>1. pc[s] = "row" /\ In(rq[s].list) = {}
        BY <1>1, <2>1, <2>3, <3>2 DEF Later, Hosted
      <4>2. rq[r].list # rq[s].list
        BY <1>2, <1>4, <2>1, <2>3, <3>2, DeletesAlone
      <4>3. QED
        BY <1>2, <4>1, <4>2, WorksMembers DEF In
    <3>3. QED
      BY <3>1, <3>2
  <2>4. QED
    BY <1>2, <2>2, <2>3 DEF Hosted, Named, In
<1>5. QED
  BY <1>2, <1>3, <1>4 DEF StrayInv, Clean

LEMMA StrayInvariant == Spec => []StrayInv
<1>1. Init => StrayInv
  BY DEF Init, StrayInv, In, Active
<1>2. RowsInv /\ ControlInv /\ WhoseInv /\ StrayInv /\ [Next]_vars => StrayInv'
  <2>1. UNCHANGED vars /\ StrayInv => StrayInv'
    BY DEF vars, rowVars, StrayInv, Clean, In, Named, Active, Hosted
  <2>2. QED
    BY <2>1, StrayBegin, StrayWork, NextIs
<1>3. QED
  BY <1>1, <1>2, RowsInvariant, ControlInvariant, WhoseInvariant, PTL DEF Spec

\* DeleteList (297-315) deletes the members first and the row then, in two
\* statements; whatever overlaps without clashing, no member is left behind.
THEOREM DeletedListsAreEmpty == Spec => []NoStrayMembers
<1>1. StrayInv => NoStrayMembers
  BY DEF StrayInv, NoStrayMembers, Undisturbed, Clean
<1>2. QED
  BY <1>1, StrayInvariant, PTL

-----------------------------------------------------------------------------
\* An id carries the request that inserted the row, and so the row's list.
DeletesMember(r) == pc[r] = "row" /\ rq[r].kind = "DeleteMember"

Of(i, a) == i \in Requests \X Nat /\ pc[i[1]] # "idle" /\ rq[i[1]].list = a

MineInv ==
  /\ \A m \in members : Of(m.id, m.list)
  /\ \A r \in Requests : HoldsMember(r) \/ DeletesMember(r) => Of(seen[r].id, rq[r].list)

\* The member row a request holds later is the one it held, or has just found.
LEMMA WorksHoldsMember ==
  ASSUME RowsInv, NEW r \in Requests, Works(r)
  PROVE  /\ HoldsMember(r)' => \/ HoldsMember(r) /\ seen'[r] = seen[r]
                               \/ ReadMember(r) /\ seen'[r] \in Found(r) /\ pc'[r] = "save" /\ pos'[r] = pos[r]
         /\ ~DeletesMember(r)'
<1>0. Shape /\ Own(r)
  BY DEF RowsInv
<1> USE DEF HoldsMember, DeletesMember, OfLists, Walks
<1>1. CASE SaveList(r) \/ ReinsertList(r) \/ DeleteMembersOfList(r) \/ DeleteListRow(r)
  <2>1. rq[r].kind \in OfLists /\ pc[r] \in {"save", "reinsert", "members", "row"}
    BY <1>0, <1>1 DEF SaveList, ReinsertList, DeleteMembersOfList, DeleteListRow, Own
  <2>2. \E at : Goto(r, at)
    BY <1>1 DEF SaveList, ReinsertList, DeleteMembersOfList, DeleteListRow, Answer
  <2>3. QED
    BY <1>0, <2>1, <2>2 DEF Goto
<1>2. CASE ReadMember(r)
  <2>1. rq[r].kind \in Walks
    BY <1>0, <1>2 DEF ReadMember, Own
  <2>2. CASE \E m \in Found(r) : /\ seen' = [seen EXCEPT ![r] = m] /\ pc' = [pc EXCEPT ![r] = "save"]
                                 /\ rq' = rq /\ pos' = pos
    BY <1>0, <1>2, <2>1, <2>2 DEF Shape
  <2>3. CASE Goto(r, "insert")
    BY <1>0, <2>1, <2>3 DEF Goto, Shape
  <2>4. CASE Refuse(r) \/ NextMember(r, 0)
    BY <1>0, <2>1, <2>4 DEF Refuse, NextMember, Shape
  <2>5. QED
    BY <1>2, <2>2, <2>3, <2>4 DEF ReadMember
<1>3. CASE InsertMember(r) \/ ExcludeMember(r) \/ CountMembers(r) \/ DeleteMemberRow(r)
  <2>1. Goto(r, "optout") \/ Answer(r) \/ Refuse(r) \/ NextMember(r, 1)
        \/ (pc' = [pc EXCEPT ![r] = "count"] /\ UNCHANGED rq)
    BY <1>3 DEF InsertMember, ExcludeMember, CountMembers, DeleteMemberRow
  <2>2. QED
    BY <1>0, <2>1 DEF Goto, Answer, Refuse, NextMember, Shape
<1>4. CASE SaveMember(r) \/ ReinsertMember(r)
  <2>1. HoldsMember(r) /\ rq[r].kind # "DeleteMember"
    BY <1>0, <1>4 DEF SaveMember, ReinsertMember, Own
  <2>2. Goto(r, "reinsert") \/ Answer(r) \/ NextMember(r, 0)
    BY <1>4 DEF SaveMember, ReinsertMember, AfterUpsert
  <2>3. QED
    BY <1>0, <2>1, <2>2 DEF Goto, Answer, NextMember, Shape
<1>5. QED
  BY <1>1, <1>2, <1>3, <1>4 DEF Works

LEMMA MineStep ==
  ASSUME RowsInv, MineInv, [Next]_vars
  PROVE  MineInv'
<1>1. CASE UNCHANGED vars
  BY <1>1 DEF vars, rowVars, MineInv, HoldsMember, DeletesMember, Of
<1>2. ASSUME NEW r \in Requests, Opens(r) PROVE MineInv'
  <2>1. PICK q, row, at : Asked(q, at) /\ Begin(r, q, row, at) /\ Took(r, q, row, at)
    BY <1>2, OpensBegin
  <2>2. /\ rq'[r] = q /\ pc'[r] = at /\ seen'[r] = row /\ pc[r] = "idle" /\ members' = members
        /\ \A s \in Requests \ {r} : rq'[s] = rq[s] /\ pc'[s] = pc[s] /\ seen'[s] = seen[s]
    BY <2>1 DEF Begin, RowsInv, Shape, Took
  <2>3. ASSUME NEW i, NEW a, Of(i, a)
        PROVE  i \in Requests \X Nat /\ pc'[i[1]] # "idle" /\ rq'[i[1]].list = a
    BY <2>2, <2>3 DEF Of
  <2>4. ASSUME NEW s \in Requests, (HoldsMember(s) \/ DeletesMember(s))'
        PROVE  \E a : Of(seen'[s].id, a) /\ rq'[s].list = a
    <3>1. CASE s = r
      <4>1. row \in members /\ row.list = q.list
        BY <2>1, <2>2, <2>4, <3>1 DEF HoldsMember, DeletesMember, Took, Asked, AllKinds, OfLists, Walks, At, In
      <4>2. QED
        BY <2>2, <3>1, <4>1 DEF MineInv
    <3>2. CASE s # r
      BY <2>2, <2>4, <3>2 DEF HoldsMember, DeletesMember, MineInv
    <3>3. QED
      BY <3>1, <3>2
  <2>5. \A m \in members' : Of(m.id, m.list)
    BY <2>2 DEF MineInv
  <2>6. QED
    BY <2>3, <2>4, <2>5 DEF MineInv, Of
<1>3. ASSUME NEW r \in Requests, Works(r) PROVE MineInv'
  <2>1. Later(r)
    BY <1>3, WorksLater
  <2>2. rq' = rq /\ \A s \in Requests : pc[s] # "idle" => pc'[s] # "idle"
    BY <2>1 DEF Later
  <2>3. ASSUME NEW i, NEW a, Of(i, a)
        PROVE  i \in Requests \X Nat /\ pc'[i[1]] # "idle" /\ rq'[i[1]].list = a
    BY <2>2, <2>3 DEF Of
  <2>4. \A m \in members' : Of(m.id, m.list)
    <3>1. Of(<<r, pos[r]>>, rq[r].list)
      BY <2>1 DEF Of, Later, Active, RowsInv, Shape
    <3>2. QED
      BY <1>3, <3>1, WorksMembers DEF MineInv
  <2>5. ASSUME NEW s \in Requests, (HoldsMember(s) \/ DeletesMember(s))'
        PROVE  Of(seen'[s].id, rq[s].list)
    <3>1. CASE s = r
      <4>1. \/ HoldsMember(r) /\ seen'[r] = seen[r]
            \/ seen'[r] \in Found(r)
        BY <1>3, <2>5, <3>1, WorksHoldsMember
      <4>2. QED
        BY <3>1, <4>1 DEF MineInv, Found, At, In
    <3>2. CASE s # r
      BY <2>1, <2>2, <2>5, <3>2 DEF Later, HoldsMember, DeletesMember, MineInv
    <3>3. QED
      BY <3>1, <3>2
  <2>6. QED
    BY <2>2, <2>3, <2>4, <2>5 DEF MineInv, Of
<1>4. QED
  BY <1>1, <1>2, <1>3, NextIs

LEMMA MineInvariant == Spec => []MineInv
<1>1. Init => MineInv
  BY DEF Init, MineInv, HoldsMember, DeletesMember
<1>2. QED
  BY <1>1, MineStep, RowsInvariant, PTL DEF Spec

\* A later step of r touches no clean list but its own.
LEMMA Elsewhere ==
  ASSUME RowsInv, ControlInv, WhoseInv, MineInv, NEW r \in Requests, Works(r),
         NEW a, Clean(a), a # rq[r].list
  PROVE  In(a)' = In(a) /\ Named(a)' = Named(a)
<1>1. In(a)' = In(a)
  <2>1. CASE members' = members
    BY <2>1 DEF In
  <2>2. CASE DeleteMembersOfList(r)
    BY <2>2 DEF DeleteMembersOfList, In
  <2>3. CASE InsertMember(r)
    BY <2>3 DEF InsertMember, In
  <2>4. CASE ExcludeMember(r)
    <3> DEFINE Excluded(m) == IF m.id = <<r, pos[r]>> THEN [m EXCEPT !.sub = FALSE] ELSE m
    <3>1. members' = {Excluded(m) : m \in members}
      BY <2>4 DEF ExcludeMember
    <3>2. \A m \in members : Excluded(m).list = m.list
      BY DEF RowsInv, MembersOK, MemberRows
    <3>3. \A m \in members : m.list = a => Excluded(m) = m
      BY DEF MineInv, Of
    <3> HIDE DEF Excluded
    <3>4. QED
      BY <3>1, <3>2, <3>3 DEF In
  <2>5. CASE SaveMember(r) \/ ReinsertMember(r)
    <3>1. HoldsMember(r)
      BY <2>5 DEF SaveMember, ReinsertMember, HoldsMember, OfLists, RowsInv, Own, Walks
    <3>2. \A m \in members : m.id = seen[r].id => m.list # a
      BY <3>1 DEF MineInv, Of
    <3>3. ASSUME NEW row, row.id = seen[r].id, row.list = rq[r].list, PutMember(row) PROVE In(a)' = In(a)
      BY <3>2, <3>3 DEF PutMember, In
    <3>4. QED
      BY <2>1, <2>5, <3>1, <3>3, WrittenTyped DEF SaveMember, ReinsertMember
  <2>6. CASE DeleteMemberRow(r)
    BY <2>6 DEF DeleteMemberRow, DeletesMember, MineInv, Of, In
  <2>7. QED
    BY <2>1, <2>2, <2>3, <2>4, <2>5, <2>6 DEF Works, SaveList, ReinsertList, DeleteListRow, ReadMember,
       CountMembers, rowVars
<1>2. Named(a)' = Named(a)
  <2>1. CASE lists' = lists
    BY <2>1 DEF Named
  <2>2. CASE CountMembers(r)
    <3> DEFINE Counted(l) == IF l.addr = rq[r].list THEN [l EXCEPT !.count = @ + added[r]] ELSE l
    <3>1. lists' = {Counted(l) : l \in lists}
      BY <2>2 DEF CountMembers
    <3>2. \A l \in lists : Counted(l).addr = l.addr /\ (l.addr = a => Counted(l) = l)
      BY DEF RowsInv, ListsOK, ListRows
    <3> HIDE DEF Counted
    <3>3. QED
      BY <3>1, <3>2 DEF Named
  <2>3. ASSUME HoldsList(r) PROVE \A l \in lists : l.id = seen[r].id => l.addr # a
    BY <2>3 DEF WhoseInv, Alike, Clean
  <2>4. CASE SaveList(r) \/ ReinsertList(r)
    <3> DEFINE row == [seen[r] EXCEPT !.addr = rq[r].to]
               old == {l \in lists : l.id = row.id}
    <3>1. HoldsList(r) /\ rq[r].kind = "UpdateList"
      BY <2>4 DEF SaveList, ReinsertList, HoldsList, OfLists
    <3>2. row.id = seen[r].id /\ row.addr = rq[r].to
      BY <3>1 DEF RowsInv, HeldOK, ListRows
    <3>3. rq[r].to # a
      BY <3>1 DEF ControlInv, Carries, Renames, Clean
    <3>4. lists' = lists \/ lists' = (lists \ old) \cup {row}
      BY <2>4 DEF SaveList, ReinsertList, rowVars
    <3> HIDE DEF row
    <3>5. QED
      BY <2>1, <2>3, <3>1, <3>2, <3>3, <3>4 DEF Named
  <2>5. CASE DeleteListRow(r)
    <3>1. HoldsList(r)
      BY <2>5 DEF DeleteListRow, HoldsList, OfLists
    <3>2. QED
      BY <2>3, <2>5, <3>1 DEF DeleteListRow, Named
  <2>6. QED
    BY <2>1, <2>2, <2>4, <2>5 DEF Works, DeleteMembersOfList, ReadMember, InsertMember, ExcludeMember,
       SaveMember, ReinsertMember, DeleteMemberRow, rowVars
<1>3. QED
  BY <1>1, <1>2

\* Who may be under way together at a clean list.
LEMMA Together ==
  ASSUME ControlInv, NEW r \in Active, NEW s \in Active, r # s, rq[r].list = rq[s].list,
         Clean(rq[r].list)
  PROVE  /\ rq[r].kind \in Walks \cup {"DeleteMember"} /\ ~rq[r].upsert
         /\ rq[s].kind \in Walks \cup {"DeleteMember"} /\ ~rq[s].upsert
         /\ rq[s].kind = "BulkAddMembers" => rq[r].kind = "DeleteMember"
         /\ rq[r].kind = "DeleteMember" /\ rq[s].kind = "DeleteMember" => rq[r].todo # rq[s].todo
<1>1. ~Clash(rq[r], rq[s])
  BY DEF ControlInv, Apart
<1> DEFINE a == rq[r].kind
           b == rq[s].kind
<1>2. {a, b} = {"AddMember"} \/ {a, b} = {"AddMember", "DeleteMember"}
      \/ {a, b} = {"BulkAddMembers", "DeleteMember"} \/ {a, b} = {"DeleteMember"}
  BY <1>1 DEF Clash, Harmless
<1>3. a \in {a, b} /\ b \in {a, b}
  OBVIOUS
<1>4. a \in Walks \cup {"DeleteMember"} /\ b \in Walks \cup {"DeleteMember"}
  BY <1>2, <1>3 DEF Walks
<1>5. b = "BulkAddMembers" => a = "DeleteMember"
  BY <1>2
<1>6. QED
  BY <1>1, <1>4, <1>5 DEF Clash

\* What a request at a clean list relies on while it is under way.
Stands(r) ==
  /\ HoldsList(r) => pc[r] # "reinsert" /\ seen[r] \in Named(rq[r].list)
  /\ HoldsMember(r) => pc[r] = "save" /\ seen[r] \in Found(r)
  /\ DeletesMember(r) => \E m \in Found(r) : m.id = seen[r].id
  /\ pc[r] = "insert" /\ Bulk(r) => Found(r) = {}

StandingInv == \A r \in Active : Clean(rq[r].list) => Stands(r)

LEMMA StandsBegin ==
  ASSUME RowsInv, StandingInv, NEW r \in Requests, Opens(r)
  PROVE  StandingInv'
<1>1. PICK q, row, at : Asked(q, at) /\ Begin(r, q, row, at) /\ Took(r, q, row, at)
  BY OpensBegin
<1>2. /\ rq'[r] = q /\ pc'[r] = at /\ seen'[r] = row /\ pos' = pos /\ pos[r] = 1
      /\ clashed \subseteq clashed' /\ renamed \subseteq renamed'
      /\ \A s \in Requests \ {r} : rq'[s] = rq[s] /\ pc'[s] = pc[s] /\ seen'[s] = seen[s]
  BY <1>1 DEF Begin, RowsInv, Shape, Own
<1>3. members' = members /\ lists \subseteq lists' /\ (q.kind # "CreateList" => lists' = lists)
  BY <1>1 DEF Took
<1>4. ASSUME NEW s \in Active', Clean(rq[s].list)' PROVE Stands(s)'
  <2>1. CASE s = r
    <3>1. HoldsList(r)' => at # "reinsert" /\ row \in Named(q.list)
      BY <1>1, <1>2 DEF HoldsList, OfLists, Asked, Took
    <3>2. HoldsMember(r)' => at = "save" /\ row \in At(q.list, q.todo[1])
      BY <1>1, <1>2 DEF HoldsMember, OfLists, Asked, Took, AllKinds, Walks
    <3>3. DeletesMember(r)' => row \in At(q.list, q.todo[1])
      BY <1>1, <1>2 DEF DeletesMember, Took
    <3>4. at # "insert"
      BY <1>1 DEF Asked
    <3>5. QED
      BY <1>2, <1>3, <2>1, <3>1, <3>2, <3>3, <3>4 DEF Stands, Named, Found, Person, At, In
  <2>2. CASE s # r
    <3>1. s \in Active /\ s \in Requests
      BY <1>2, <2>2 DEF Active
    <3>2. rq'[s] = rq[s] /\ pc'[s] = pc[s] /\ seen'[s] = seen[s]
      BY <1>2, <2>2, <3>1
    <3>3. Clean(rq[s].list) /\ Stands(s)
      BY <1>2, <1>4, <3>1, <3>2 DEF Clean, StandingInv
    <3>4. Found(s)' = Found(s) /\ Named(rq[s].list) \subseteq Named(rq[s].list)'
      BY <1>2, <1>3, <3>2 DEF Found, Person, At, In, Named
    <3>5. QED
      BY <3>2, <3>3, <3>4 DEF Stands, HoldsList, HoldsMember, DeletesMember, Bulk
  <2>3. QED
    BY <2>1, <2>2
<1>5. QED
  BY <1>4 DEF StandingInv

\* The request that steps.
LEMMA StandsSelf ==
  ASSUME RowsInv, NEW r \in Requests, Works(r), Stands(r)
  PROVE  Stands(r)'
<1>0. Shape /\ Own(r) /\ rq' = rq
  BY WorksLater DEF RowsInv, Later
<1>1. HoldsList(r)' => pc'[r] # "reinsert" /\ seen'[r] \in Named(rq[r].list)'
  <2> SUFFICES ASSUME HoldsList(r)' PROVE pc'[r] # "reinsert" /\ seen'[r] \in Named(rq[r].list)'
    OBVIOUS
  <2>1. HoldsList(r) /\ seen'[r] = seen[r] /\ pc[r] # "reinsert" /\ seen[r] \in Named(rq[r].list)
    BY WorksHolds DEF Stands
  <2>2. SaveList(r) \/ DeleteMembersOfList(r) \/ DeleteListRow(r)
    BY <1>0, <2>1 DEF HoldsList, Works, ReinsertList, ReadMember, InsertMember, ExcludeMember,
       CountMembers, SaveMember, ReinsertMember, DeleteMemberRow, OfLists, Own, Walks
  <2>3. ~SaveList(r) /\ ~DeleteListRow(r)
    <3>1. DeleteListRow(r) => pc'[r] = "answered"
      BY <1>0 DEF DeleteListRow, Answer, Goto, Shape
    <3>2. SaveList(r) => pc'[r] = "answered"
      <4>1. seen[r] \in {l \in lists : l.id = [seen[r] EXCEPT !.addr = rq[r].to].id}
        BY <2>1 DEF Named, RowsInv, ListsOK, ListRows
      <4>2. SaveList(r) => Answer(r)
        BY <4>1 DEF SaveList
      <4>3. QED
        BY <1>0, <4>2 DEF Answer, Goto, Shape
    <3>3. QED
      BY <3>1, <3>2 DEF HoldsList
  <2>4. DeleteMembersOfList(r)
    BY <2>2, <2>3
  <2>5. lists' = lists /\ pc'[r] = "row"
    BY <1>0, <2>4 DEF DeleteMembersOfList, Goto, Shape
  <2>6. QED
    BY <1>0, <2>1, <2>5 DEF Named
<1>2. HoldsMember(r)' => pc'[r] = "save" /\ seen'[r] \in Found(r)'
  <2> SUFFICES ASSUME HoldsMember(r)' PROVE pc'[r] = "save" /\ seen'[r] \in Found(r)'
    OBVIOUS
  <2>1. CASE ReadMember(r) /\ seen'[r] \in Found(r) /\ pc'[r] = "save" /\ pos'[r] = pos[r]
    BY <1>0, <2>1 DEF ReadMember, Found, Person, At, In, rowVars
  <2>2. CASE HoldsMember(r) /\ seen'[r] = seen[r]
    <3>1. pc[r] = "save" /\ seen[r] \in members
      BY <2>2 DEF Stands, Found, At, In
    <3>2. SaveMember(r)
      BY <1>0, <2>2, <3>1 DEF HoldsMember, Works, SaveList, ReinsertList, DeleteMembersOfList, DeleteListRow,
         ReadMember, InsertMember, ExcludeMember, CountMembers, ReinsertMember, DeleteMemberRow, OfLists
    <3>3. AfterUpsert(r)
      BY <3>1, <3>2 DEF SaveMember
    <3>4. pc'[r] \in {"member", "count", "answered"}
      BY <1>0, <3>3 DEF AfterUpsert, NextMember, Answer, Goto, Shape
    <3>5. QED
      BY <3>4 DEF HoldsMember
  <2>3. QED
    BY <2>1, <2>2, WorksHoldsMember
<1>3. ~DeletesMember(r)'
  BY WorksHoldsMember
<1>4. pc'[r] = "insert" => Found(r)' = {}
  <2> SUFFICES ASSUME pc'[r] = "insert" PROVE Found(r)' = {}
    OBVIOUS
  <2>1. ReadMember(r)
    <3>1. \/ ReadMember(r) \/ Refuse(r) \/ NextMember(r, 0) \/ NextMember(r, 1) \/ DeleteMemberRow(r)
          \/ \E at \in {"reinsert", "row", "optout", "answered"} : Goto(r, at)
      BY DEF Works, SaveList, ReinsertList, DeleteMembersOfList, DeleteListRow, InsertMember, ExcludeMember,
         CountMembers, SaveMember, ReinsertMember, AfterUpsert, Answer
    <3>2. Refuse(r) \/ DeleteMemberRow(r) => pc'[r] # "insert"
      BY <1>0 DEF Refuse, DeleteMemberRow, Shape
    <3>3. NextMember(r, 0) \/ NextMember(r, 1) => pc'[r] # "insert"
      BY <1>0 DEF NextMember, Shape
    <3>4. \A at : Goto(r, at) => pc'[r] = at
      BY <1>0 DEF Goto, Shape
    <3>5. QED
      BY <3>1, <3>2, <3>3, <3>4
  <2>2. Found(r) = {} /\ pos' = pos /\ members' = members
    BY <1>0, <2>1 DEF ReadMember, NextMember, Refuse, Goto, Shape, rowVars
  <2>3. QED
    BY <1>0, <2>2 DEF Found, Person, At, In
<1>5. QED
  BY <1>0, <1>1, <1>2, <1>3, <1>4 DEF Stands

\* A request beside the one that steps, at the same list.
LEMMA StandsBeside ==
  ASSUME RowsInv, ControlInv, NEW r \in Active, Works(r), Stands(r),
         NEW s \in Active, s # r, rq[s].list = rq[r].list, Clean(rq[s].list), Stands(s)
  PROVE  Stands(s)'
<1>0. /\ rq' = rq /\ pc'[s] = pc[s] /\ seen'[s] = seen[s] /\ pos'[s] = pos[s]
      /\ r \in Requests /\ s \in Requests
  BY WorksLater DEF Later, Active
<1>1. /\ rq[r].kind \in Walks \cup {"DeleteMember"} /\ ~rq[r].upsert
      /\ rq[s].kind \in Walks \cup {"DeleteMember"} /\ ~rq[s].upsert
      /\ rq[s].kind = "BulkAddMembers" => rq[r].kind = "DeleteMember"
      /\ rq[r].kind = "DeleteMember" /\ rq[s].kind = "DeleteMember" => rq[r].todo # rq[s].todo
  BY Together
<1>2. Carries(r) /\ Carries(s) /\ Own(r) /\ Own(s)
  BY <1>0 DEF ControlInv, RowsInv
<1>3. ~HoldsList(s) /\ ~HoldsMember(s) /\ ~HoldsMember(r)
  BY <1>1, <1>2 DEF HoldsList, HoldsMember, OfLists, Walks, Carries, Own, Stands
<1>4. Found(s)' = {m \in members' : m.list = rq[s].list /\ m.addr = Person(s)}
  BY <1>0 DEF Found, At, In, Person
<1>5. \/ members' = members \/ InsertMember(r) \/ ExcludeMember(r) \/ DeleteMemberRow(r)
  BY <1>1, <1>2, <1>3 DEF Works, SaveList, ReinsertList, DeleteMembersOfList, DeleteListRow, ReadMember,
     CountMembers, SaveMember, ReinsertMember, HoldsMember, OfLists, Walks, Own, rowVars
<1>6. DeletesMember(s) => \E m \in Found(s)' : m.id = seen[s].id
  <2> SUFFICES ASSUME DeletesMember(s) PROVE \E m \in Found(s)' : m.id = seen[s].id
    OBVIOUS
  <2>1. PICK m \in members : m.id = seen[s].id /\ m.list = rq[s].list /\ m.addr = Person(s)
    BY DEF Stands, Found, At, In
  <2>2. CASE members \subseteq members'
    BY <1>4, <2>1, <2>2
  <2>3. CASE ExcludeMember(r)
    <3> DEFINE Excluded(x) == IF x.id = <<r, pos[r]>> THEN [x EXCEPT !.sub = FALSE] ELSE x
    <3>1. members' = {Excluded(x) : x \in members}
      BY <2>3 DEF ExcludeMember
    <3>2. /\ Excluded(m).id = m.id /\ Excluded(m).list = m.list /\ Excluded(m).addr = m.addr
      BY DEF RowsInv, MembersOK, MemberRows
    <3> HIDE DEF Excluded
    <3>3. QED
      BY <1>4, <2>1, <3>1, <3>2
  <2>4. CASE DeleteMemberRow(r)
    <3>1. DeletesMember(r) /\ members' = {x \in members : x.id # seen[r].id}
      BY <2>4 DEF DeleteMemberRow, DeletesMember
    <3>2. PICK k \in members : k.id = seen[r].id /\ k.addr = Person(r)
      BY <3>1 DEF Stands, Found, At, In
    <3>3. Person(r) # Person(s)
      <4>1. rq[r].kind = "DeleteMember" /\ rq[s].kind = "DeleteMember"
        BY <3>1 DEF DeletesMember
      <4>2. pos[r] = 1 /\ pos[s] = 1 /\ Len(rq[r].todo) = 1 /\ Len(rq[s].todo) = 1
        BY <1>2, <4>1 DEF Carries
      <4>3. rq[r].todo \in Seq(People) /\ rq[s].todo \in Seq(People)
        BY <1>0 DEF RowsInv, Shape, Queries
      <4>4. QED
        BY <1>1, <4>1, <4>2, <4>3, SeqEqual DEF Person
    <3>4. k.id # m.id
      BY <2>1, <3>2, <3>3 DEF RowsInv, MembersOK
    <3>5. QED
      BY <1>4, <2>1, <3>1, <3>2, <3>4
  <2>5. QED
    BY <1>5, <2>2, <2>3, <2>4 DEF InsertMember
<1>7. pc[s] = "insert" /\ Bulk(s) => Found(s)' = {}
  <2> SUFFICES ASSUME pc[s] = "insert", Bulk(s) PROVE Found(s)' = {}
    OBVIOUS
  <2>1. members' \subseteq members
    <3>1. rq[r].kind = "DeleteMember"
      BY <1>1 DEF Bulk
    <3>2. ~InsertMember(r) /\ ~ExcludeMember(r)
      BY <1>2, <3>1 DEF InsertMember, ExcludeMember, Own, Walks
    <3>3. QED
      BY <1>5, <3>2 DEF DeleteMemberRow
  <2>2. Found(s) = {}
    BY DEF Stands
  <2>3. QED
    BY <1>4, <2>1, <2>2 DEF Found, At, In
<1>8. QED
  BY <1>0, <1>3, <1>6, <1>7 DEF Stands, HoldsList, HoldsMember, DeletesMember, Bulk

LEMMA StandsWork ==
  ASSUME RowsInv, ControlInv, WhoseInv, MineInv, StandingInv, NEW r \in Requests, Works(r)
  PROVE  StandingInv'
<1>1. Later(r)
  BY WorksLater
<1>2. ASSUME NEW s \in Active', Clean(rq[s].list)' PROVE Stands(s)'
  <2>1. /\ s \in Active /\ s \in Requests /\ Clean(rq[s].list) /\ r \in Active /\ rq' = rq
        /\ rq[s].list \in Lists
    BY <1>1, <1>2 DEF Later, Clean, Active
  <2>2. Stands(s)
    BY <2>1 DEF StandingInv
  <2>3. CASE s = r
    BY <2>2, <2>3, StandsSelf
  <2>4. CASE s # r /\ rq[s].list = rq[r].list
    <3>1. Stands(r)
      BY <2>1, <2>4 DEF StandingInv
    <3>2. QED
      BY <2>1, <2>2, <2>4, <3>1, StandsBeside
  <2>5. CASE s # r /\ rq[s].list # rq[r].list
    <3>1. PICK a \in Lists : a = rq[s].list
      BY <2>1
    <3>2. In(a)' = In(a) /\ Named(a)' = Named(a)
      BY <2>1, <2>5, <3>1, Elsewhere
    <3>3. pc'[s] = pc[s] /\ seen'[s] = seen[s] /\ pos'[s] = pos[s] /\ rq'[s] = rq[s]
      BY <1>1, <2>1, <2>5 DEF Later
    <3>4. Found(s)' = Found(s)
      BY <3>1, <3>2, <3>3 DEF Found, At, Person, In
    <3>5. Named(rq[s].list)' = Named(rq[s].list)
      BY <3>1, <3>2, <3>3 DEF Named
    <3>6. QED
      BY <2>2, <3>3, <3>4, <3>5 DEF Stands, HoldsList, HoldsMember, DeletesMember, Bulk
  <2>6. QED
    BY <2>3, <2>4, <2>5
<1>3. QED
  BY <1>2 DEF StandingInv

LEMMA StandingInvariant == Spec => []StandingInv
<1>1. Init => StandingInv
  BY DEF Init, StandingInv, Active
<1>2. RowsInv /\ ControlInv /\ WhoseInv /\ MineInv /\ StandingInv /\ [Next]_vars => StandingInv'
  <2>1. UNCHANGED vars /\ StandingInv => StandingInv'
    BY DEF vars, rowVars, StandingInv, Clean, In, Named, Active, Stands, HoldsList, HoldsMember, DeletesMember,
       Found, At, Person, Bulk
  <2>2. QED
    BY <2>1, StandsBegin, StandsWork, NextIs
<1>3. QED
  BY <1>1, <1>2, RowsInvariant, ControlInvariant, WhoseInvariant, MineInvariant, PTL DEF Spec

-----------------------------------------------------------------------------
\* Layer 4.  The inserted rows that are not counted yet, as so many tokens of
\* the requests that inserted them, and the deleted rows that still are.
Owes(r) == IF pc[r] = "optout" THEN added[r] + 1 ELSE added[r]
Counts(r, a) == r \in Here(a) /\ rq[r].kind \in Walks
Owed(a) == {t \in Requests \X Nat : Counts(t[1], a) /\ 1 <= t[2] /\ t[2] <= Owes(t[1])}
Lost(a) == {r \in Here(a) : rq[r].kind = "DeleteMember" /\ pc[r] = "count"}

Emptying(a) == \E r \in Here(a) : rq[r].kind = "DeleteList" /\ pc[r] = "row"

Balanced(a) ==
  /\ IsFiniteSet(In(a)) /\ IsFiniteSet(Owed(a)) /\ IsFiniteSet(Lost(a))
  /\ \A l \in Named(a) : ~Emptying(a) =>
       l.count + Cardinality(Owed(a)) = Cardinality(In(a)) + Cardinality(Lost(a))

BalanceInv == \A a \in Lists : Clean(a) => Balanced(a)

\* What r adds to the two sets.
Due(r, a)      == IF Counts(r, a) THEN Owes(r) ELSE 0
Slack(r, a)    == IF r \in Lost(a) THEN 1 ELSE 0
OwedElse(r, a) == {t \in Owed(a) : t[1] # r}

OwedSplits ==
  \A r \in Requests, a \in Lists :
    /\ Due(r, a) \in Nat
    /\ IsFiniteSet(OwedElse(r, a)) =>
         /\ IsFiniteSet(Owed(a))
         /\ Cardinality(Owed(a)) \in Nat /\ Cardinality(OwedElse(r, a)) \in Nat
         /\ Cardinality(Owed(a)) = Cardinality(OwedElse(r, a)) + Due(r, a)

LEMMA Tokens ==
  ASSUME NEW r, NEW n \in Nat
  PROVE  IsFiniteSet({r} \X (1 .. n)) /\ Cardinality({r} \X (1 .. n)) = n
<1>1. IsFiniteSet({r}) /\ Cardinality({r}) = 1
  BY FS_Singleton
<1>2. IsFiniteSet(1 .. n) /\ Cardinality(1 .. n) = n
  BY FS_Interval
<1>3. /\ IsFiniteSet({r} \X (1 .. n))
      /\ Cardinality({r} \X (1 .. n)) = Cardinality({r}) * Cardinality(1 .. n)
  BY <1>1, <1>2, FS_Product
<1>4. QED
  BY <1>1, <1>2, <1>3

LEMMA OwedSplitting == RowsInv /\ ControlInv => OwedSplits
<1> SUFFICES ASSUME RowsInv, ControlInv, NEW r \in Requests, NEW a \in Lists
             PROVE  /\ Due(r, a) \in Nat
                    /\ IsFiniteSet(OwedElse(r, a)) =>
                         /\ IsFiniteSet(Owed(a))
                         /\ Cardinality(Owed(a)) \in Nat /\ Cardinality(OwedElse(r, a)) \in Nat
                         /\ Cardinality(Owed(a)) = Cardinality(OwedElse(r, a)) + Due(r, a)
  BY DEF OwedSplits
<1>1. Due(r, a) \in Nat
  BY DEF Due, Counts, Owes, ControlInv, Carries, Walks
<1>2. PICK n \in Nat : n = Due(r, a)
  BY <1>1
<1>3. Owed(a) = OwedElse(r, a) \cup ({r} \X (1 .. n))
  <2>1. ASSUME NEW t \in Owed(a), t[1] = r PROVE t \in {r} \X (1 .. n)
    BY <1>2, <2>1 DEF Owed, Due
  <2>2. ASSUME NEW i \in 1 .. n PROVE <<r, i>> \in Owed(a)
    BY <1>2, <2>2 DEF Owed, Due
  <2>3. QED
    BY <2>1, <2>2 DEF OwedElse
<1>4. OwedElse(r, a) \cap ({r} \X (1 .. n)) = {}
  BY DEF OwedElse
<1>5. IsFiniteSet({r} \X (1 .. n)) /\ Cardinality({r} \X (1 .. n)) = n
  BY Tokens
<1>6. ASSUME IsFiniteSet(OwedElse(r, a))
      PROVE  /\ IsFiniteSet(Owed(a))
             /\ Cardinality(Owed(a)) \in Nat /\ Cardinality(OwedElse(r, a)) \in Nat
             /\ Cardinality(Owed(a)) = Cardinality(OwedElse(r, a)) + n
  <2>1. /\ IsFiniteSet(Owed(a))
        /\ Cardinality(Owed(a)) = Cardinality(OwedElse(r, a)) + n - Cardinality({})
    BY <1>3, <1>4, <1>5, <1>6, FS_Union
  <2>2. Cardinality(Owed(a)) \in Nat /\ Cardinality(OwedElse(r, a)) \in Nat
    BY <1>6, <2>1, FS_CardinalityType
  <2>3. QED
    BY <2>1, <2>2, FS_EmptySet
<1>7. QED
  BY <1>1, <1>2, <1>6

\* A step of r keeps the balance when it keeps r's part of it.
LEMMA Weighs ==
  ASSUME RowsInv, ControlInv, RowsInv', ControlInv', NEW r \in Requests, NEW a \in Lists,
         \A s \in Requests \ {r} : pc'[s] = pc[s] /\ rq'[s] = rq[s] /\ added'[s] = added[s],
         Balanced(a), IsFiniteSet(In(a)'),
         ~Emptying(a)' => \A l \in Named(a)' :
           /\ ~Emptying(a)
           /\ \E k \in Named(a) :
                l.count + Due(r, a)' + Cardinality(In(a)) + Slack(r, a)
                  = k.count + Due(r, a) + Cardinality(In(a)') + Slack(r, a)'
  PROVE  Balanced(a)'
<1>1. OwedSplits /\ OwedSplits'
  <2>1. (RowsInv /\ ControlInv => OwedSplits)'
    BY OwedSplitting, PTL
  <2>2. QED
    BY <2>1, OwedSplitting
<1>2. OwedElse(r, a)' = OwedElse(r, a) /\ Lost(a)' \ {r} = Lost(a) \ {r}
  BY DEF OwedElse, Owed, Counts, Owes, Lost, Here, Active
<1>3. IsFiniteSet(OwedElse(r, a))
  BY FS_Subset DEF Balanced, OwedElse
<1>4. PICK o \in Nat, d \in Nat, e \in Nat :
         /\ o = Cardinality(OwedElse(r, a)) /\ d = Due(r, a) /\ e = Due(r, a)'
         /\ Cardinality(Owed(a)) = o + d /\ Cardinality(Owed(a)') = o + e
         /\ IsFiniteSet(Owed(a)')
  BY <1>1, <1>2, <1>3 DEF OwedSplits
<1>5. IsFiniteSet(Lost(a)) /\ IsFiniteSet(Lost(a)')
  <2>1. Lost(a)' \subseteq Lost(a) \cup {r}
    BY <1>2
  <2>2. QED
    BY <2>1, FS_AddElement, FS_Subset DEF Balanced
<1>6. PICK x \in Nat, y \in {0, 1}, z \in {0, 1} :
         /\ x = Cardinality(Lost(a) \ {r}) /\ y = Slack(r, a) /\ z = Slack(r, a)'
         /\ Cardinality(Lost(a)) = x + y /\ Cardinality(Lost(a)') = x + z
  <2>1. /\ Cardinality(Lost(a)) \in Nat /\ Cardinality(Lost(a)') \in Nat
        /\ Cardinality(Lost(a) \ {r}) = Cardinality(Lost(a)) - Slack(r, a)
        /\ Cardinality(Lost(a)' \ {r}) = Cardinality(Lost(a)') - Slack(r, a)'
        /\ Cardinality(Lost(a) \ {r}) \in Nat
    <3>1. IsFiniteSet(Lost(a) \ {r})
      BY <1>5, FS_RemoveElement
    <3>2. QED
      BY <1>5, <3>1, FS_RemoveElement, FS_CardinalityType DEF Slack
  <2>2. Slack(r, a) \in {0, 1} /\ Slack(r, a)' \in {0, 1}
    BY DEF Slack
  <2>3. PICK x \in Nat, y \in {0, 1}, z \in {0, 1}, m \in Nat, n \in Nat :
          /\ x = Cardinality(Lost(a) \ {r}) /\ y = Slack(r, a) /\ z = Slack(r, a)'
          /\ m = Cardinality(Lost(a)) /\ n = Cardinality(Lost(a)')
    BY <2>1, <2>2
  <2>4. x = m - y /\ x = n - z
    BY <1>2, <2>1, <2>3
  <2>5. m = x + y /\ n = x + z
    BY <2>4
  <2>6. QED
    BY <2>3, <2>5
<1>7. PICK i \in Nat, j \in Nat : i = Cardinality(In(a)) /\ j = Cardinality(In(a)')
  BY FS_CardinalityType DEF Balanced
<1>8. ASSUME NEW l \in Named(a)', ~Emptying(a)'
      PROVE  l.count + Cardinality(Owed(a)') = Cardinality(In(a)') + Cardinality(Lost(a)')
  <2>1. PICK k \in Named(a) : ~Emptying(a) /\ l.count + e + i + y = k.count + d + j + z
    BY <1>4, <1>6, <1>7, <1>8
  <2>2. k.count + (o + d) = i + (x + y)
    BY <1>4, <1>6, <1>7, <2>1 DEF Balanced
  <2>3. k.count \in Int /\ l.count \in Int
    BY <1>8 DEF Named, RowsInv, ListsOK, ListRows
  <2>4. l.count + (o + e) = j + (x + z)
    BY <2>1, <2>2, <2>3
  <2>5. QED
    BY <1>4, <1>6, <1>7, <2>4
<1>9. QED
  BY <1>4, <1>5, <1>8 DEF Balanced

LEMMA BalanceBegin ==
  ASSUME RowsInv, ControlInv, RowsInv', ControlInv', StrayInv, BalanceInv,
         NEW r \in Requests, Opens(r)
  PROVE  BalanceInv'
<1>1. PICK q, row, at : Asked(q, at) /\ Begin(r, q, row, at) /\ Took(r, q, row, at)
  BY OpensBegin
<1>2. /\ rq'[r] = q /\ pc'[r] = at /\ pc[r] = "idle" /\ added' = added /\ added[r] = 0
      /\ clashed \subseteq clashed' /\ renamed \subseteq renamed' /\ members' = members
      /\ \A s \in Requests \ {r} : rq'[s] = rq[s] /\ pc'[s] = pc[s]
  BY <1>1 DEF Begin, RowsInv, Shape, Took, ControlInv, Carries
<1>3. ASSUME NEW a \in Lists, Clean(a)' PROVE Balanced(a)'
  <2>1. Balanced(a) /\ Clean(a) /\ In(a)' = In(a)
    BY <1>2, <1>3 DEF BalanceInv, Clean, In
  <2>2. Due(r, a) = 0 /\ Due(r, a)' = 0 /\ Slack(r, a) = 0 /\ Slack(r, a)' = 0
    <3>1. r \notin Active /\ at # "optout" /\ at # "count"
      BY <1>1, <1>2 DEF Active, Asked
    <3>2. QED
      BY <1>2, <3>1 DEF Due, Slack, Counts, Owes, Lost, Here
  <2>3. Emptying(a) => Emptying(a)'
    BY <1>2 DEF Emptying, Here, Active
  <2>4. CASE Named(a)' = Named(a)
    <3>1. \A l \in Named(a)' : l.count \in Int
      BY DEF Named, RowsInv, ListsOK, ListRows
    <3>2. Cardinality(In(a)) \in Nat
      BY <2>1, FS_CardinalityType DEF Balanced
    <3>3. \A l \in Named(a)' : l.count + Due(r, a)' + Cardinality(In(a)) + Slack(r, a)
                                 = l.count + Due(r, a) + Cardinality(In(a)') + Slack(r, a)'
      BY <2>1, <2>2, <3>1, <3>2
    <3>4. IsFiniteSet(In(a)')
      BY <2>1 DEF Balanced
    <3>5. QED
      BY <1>2, <2>1, <2>3, <2>4, <3>3, <3>4, Weighs
  <2>5. CASE q.kind = "CreateList" /\ q.list = a
    <3>1. Named(a) = {} /\ at = "answered" /\ lists' = lists \cup {[id |-> r, addr |-> a, count |-> 0]}
      BY <1>1, <2>5 DEF Took
    <3>2. In(a) = {}
      BY <2>1, <3>1 DEF StrayInv
    <3>3. Here(a) = {}
      BY <2>1, <3>1 DEF StrayInv, Hosted, Here
    <3>4. Here(a)' = {}
      BY <1>2, <3>1, <3>3 DEF Here, Active
    <3>5. Owed(a)' = {} /\ Lost(a)' = {}
      BY <3>4 DEF Owed, Lost, Counts
    <3>6. \A l \in Named(a)' : l.count = 0
      BY <3>1 DEF Named
    <3>7. QED
      BY <2>1, <3>2, <3>5, <3>6, FS_EmptySet DEF Balanced
  <2>6. Named(a)' = Named(a) \/ (q.kind = "CreateList" /\ q.list = a)
    BY <1>1 DEF Took, Named
  <2>7. QED
    BY <2>4, <2>5, <2>6
<1>4. QED
  BY <1>3 DEF BalanceInv

LEMMA Swap ==
  ASSUME NEW S, IsFiniteSet(S), NEW x \in S, NEW y, y \notin S \ {x}
  PROVE  IsFiniteSet((S \ {x}) \cup {y}) /\ Cardinality((S \ {x}) \cup {y}) = Cardinality(S)
<1>1. IsFiniteSet(S \ {x}) /\ Cardinality(S \ {x}) = Cardinality(S) - 1 /\ Cardinality(S) \in Nat
  BY FS_RemoveElement, FS_CardinalityType
<1>2. /\ IsFiniteSet((S \ {x}) \cup {y})
      /\ Cardinality((S \ {x}) \cup {y}) = Cardinality(S \ {x}) + 1
  BY <1>1, FS_AddElement
<1>3. QED
  BY <1>1, <1>2

\* What each later step does to the number of members of the request's list.
LEMMA NumberIn ==
  ASSUME RowsInv, MineInv, NEW r \in Requests, Works(r), Stands(r), NEW a, a = rq[r].list,
         IsFiniteSet(In(a)), ~DeleteMembersOfList(r)
  PROVE  /\ IsFiniteSet(In(a)')
         /\ Cardinality(In(a)') = Cardinality(In(a)) +
              (IF InsertMember(r) /\ Found(r) = {} THEN 1 ELSE IF DeleteMemberRow(r) THEN -1 ELSE 0)
<1>0. PICK n \in Nat : n = Cardinality(In(a))
  BY FS_CardinalityType
<1>1. CASE InsertMember(r) /\ Found(r) = {}
  <2> DEFINE row == [id |-> <<r, pos[r]>>, list |-> rq[r].list, addr |-> Person(r), sub |-> TRUE]
  <2>1. members' = members \cup {row} /\ row.list = a /\ row.addr = Person(r)
    BY <1>1 DEF InsertMember
  <2>2. row \notin In(a)
    BY <1>1, <2>1 DEF Found, At, In
  <2> HIDE DEF row
  <2>3. In(a)' = In(a) \cup {row}
    BY <2>1 DEF In
  <2>4. QED
    BY <1>0, <1>1, <2>2, <2>3, FS_AddElement
<1>2. CASE DeleteMemberRow(r)
  <2>1. DeletesMember(r) /\ members' = {m \in members : m.id # seen[r].id} /\ pc[r] = "row"
    BY <1>2 DEF DeleteMemberRow, DeletesMember
  <2>2. PICK m \in In(a) : m.id = seen[r].id
    BY <2>1 DEF Stands, Found, At
  <2>3. In(a)' = In(a) \ {m}
    BY <2>1, <2>2 DEF In, RowsInv, MembersOK
  <2>4. Cardinality(In(a) \ {m}) = n - 1 /\ IsFiniteSet(In(a) \ {m})
    BY <1>0, <2>2, FS_RemoveElement
  <2>5. ~InsertMember(r)
    BY <2>1 DEF InsertMember
  <2>6. QED
    BY <1>0, <1>2, <2>3, <2>4, <2>5
<1>3. ASSUME NEW x \in In(a), NEW y, y.list = a, y.id = x.id, members' = (members \ {x}) \cup {y},
             ~(InsertMember(r) /\ Found(r) = {}), ~DeleteMemberRow(r)
      PROVE  IsFiniteSet(In(a)') /\ Cardinality(In(a)') = n
  <2>1. In(a)' = (In(a) \ {x}) \cup {y}
    BY <1>3 DEF In
  <2>2. y \notin In(a) \ {x}
    BY <1>3 DEF In, RowsInv, MembersOK
  <2>3. QED
    BY <1>0, <2>1, <2>2, Swap
<1>4. CASE members' = members
  <2>1. In(a)' = In(a)
    BY <1>4 DEF In
  <2>2. CASE ~(InsertMember(r) /\ Found(r) = {}) /\ ~DeleteMemberRow(r)
    BY <1>0, <2>1, <2>2
  <2>3. QED
    BY <1>1, <1>2, <2>2
<1>5. CASE ExcludeMember(r)
  <2> DEFINE Excluded(m) == IF m.id = <<r, pos[r]>> THEN [m EXCEPT !.sub = FALSE] ELSE m
  <2>1. members' = {Excluded(m) : m \in members} /\ pc[r] = "optout"
    BY <1>5 DEF ExcludeMember
  <2>2. ~InsertMember(r) /\ ~DeleteMemberRow(r)
    BY <2>1 DEF InsertMember, DeleteMemberRow
  <2>3. CASE \E x \in members : x.id = <<r, pos[r]>>
    <3>1. PICK x \in members : x.id = <<r, pos[r]>>
      BY <2>3
    <3>2. x \in In(a)
      BY <3>1 DEF MineInv, Of, In
    <3>3. PICK y : y = Excluded(x)
      OBVIOUS
    <3>4. y.id = x.id /\ y.list = a
      BY <3>2, <3>3 DEF RowsInv, MembersOK, MemberRows, In
    <3>5. \A m \in members \ {x} : Excluded(m) = m
      BY <3>1 DEF RowsInv, MembersOK
    <3> HIDE DEF Excluded
    <3>6. members' = (members \ {x}) \cup {y}
      BY <2>1, <3>1, <3>3, <3>5
    <3>7. QED
      BY <1>0, <1>3, <2>2, <3>2, <3>4, <3>6
  <2>4. CASE ~\E x \in members : x.id = <<r, pos[r]>>
    <3>1. members' = members
      BY <2>1, <2>4
    <3>2. QED
      BY <1>4, <3>1
  <2>5. QED
    BY <2>3, <2>4
<1>6. CASE SaveMember(r) \/ ReinsertMember(r)
  <2>1. HoldsMember(r)
    BY <1>6 DEF SaveMember, ReinsertMember, HoldsMember, OfLists, RowsInv, Own, Walks
  <2>2. pc[r] = "save" /\ seen[r] \in In(a)
    BY <2>1 DEF Stands, Found, At
  <2>3. ~InsertMember(r) /\ ~DeleteMemberRow(r)
    BY <2>2 DEF InsertMember, DeleteMemberRow
  <2>4. PutMember(Written(r))
    BY <1>6, <2>2 DEF SaveMember, ReinsertMember, In
  <2>5. PICK y : y = Written(r)
    OBVIOUS
  <2>6. y.id = seen[r].id /\ y.list = a
    BY <2>1, <2>5, WrittenTyped
  <2>7. {m \in members : m.id = y.id} = {seen[r]}
    BY <2>2, <2>6 DEF In, RowsInv, MembersOK
  <2>8. members' = members \/ members' = (members \ {seen[r]}) \cup {y}
    BY <2>4, <2>5, <2>7 DEF PutMember
  <2>9. QED
    BY <1>0, <1>3, <1>4, <2>2, <2>3, <2>6, <2>8
<1>7. QED
  BY <1>1, <1>2, <1>4, <1>5, <1>6 DEF Works, SaveList, ReinsertList, DeleteListRow, ReadMember, CountMembers,
     InsertMember, rowVars

\* What each later step does to what the request owes.
LEMMA NumberOwed ==
  ASSUME RowsInv, ControlInv, NEW r \in Requests, Works(r), Stands(r), NEW a, a = rq[r].list
  PROVE  Due(r, a)' + Slack(r, a) = Due(r, a) + Slack(r, a)' +
           (IF InsertMember(r) /\ Found(r) = {} THEN 1 ELSE
            IF DeleteMemberRow(r) THEN -1 ELSE IF CountMembers(r) THEN -added[r] ELSE 0)
<1> DEFINE kind == rq[r].kind
           Step == IF InsertMember(r) /\ Found(r) = {} THEN 1 ELSE
                   IF DeleteMemberRow(r) THEN -1 ELSE IF CountMembers(r) THEN -added[r] ELSE 0
<1>0. Shape /\ Own(r) /\ Carries(r) /\ rq' = rq /\ r \in Active /\ pc'[r] # "idle"
  BY WorksLater DEF RowsInv, ControlInv, Later
<1>1. /\ Due(r, a) = IF kind \in Walks THEN Owes(r) ELSE 0
      /\ Due(r, a)' = IF kind \in Walks /\ pc'[r] # "answered" THEN Owes(r)' ELSE 0
      /\ Slack(r, a) = IF kind = "DeleteMember" /\ pc[r] = "count" THEN 1 ELSE 0
      /\ Slack(r, a)' = IF kind = "DeleteMember" /\ pc'[r] = "count" THEN 1 ELSE 0
  BY <1>0 DEF Due, Slack, Counts, Lost, Here, Active
<1>2. kind \in Walks => added[r] \in Nat /\ (~Bulk(r) /\ pc[r] # "count" => added[r] = 0)
  BY <1>0, <1>0 DEF Carries, Walks, Bulk, Active
<1>3. ASSUME NEW n \in {0, 1}, NextMember(r, n), kind \in Walks, pc[r] # "count"
      PROVE  Due(r, a)' = added[r] + n /\ Slack(r, a)' = 0
  <2>1. pc'[r] \in {"member", "count"} /\ added'[r] = added[r] + n
    <3>1. CASE Bulk(r)
      BY <1>0, <1>3, <3>1 DEF NextMember, Shape
    <3>2. CASE ~Bulk(r)
      BY <1>0, <1>2, <1>3, <3>2 DEF NextMember, Shape
    <3>3. QED
      BY <3>1, <3>2
  <2>2. QED
    BY <1>1, <1>3, <2>1 DEF Owes, Walks
<1>4. CASE SaveList(r) \/ ReinsertList(r) \/ DeleteMembersOfList(r) \/ DeleteListRow(r)
  <2>1. kind \in OfLists /\ pc[r] \in {"save", "reinsert", "members", "row"}
    BY <1>0, <1>4 DEF SaveList, ReinsertList, DeleteMembersOfList, DeleteListRow, Own, OfLists
  <2>2. ~InsertMember(r) /\ ~DeleteMemberRow(r) /\ ~CountMembers(r)
    BY <2>1 DEF InsertMember, DeleteMemberRow, CountMembers, OfLists
  <2>3. Due(r, a) = 0 /\ Due(r, a)' = 0 /\ Slack(r, a) = 0 /\ Slack(r, a)' = 0
    BY <1>1, <2>1 DEF OfLists, Walks
  <2>4. QED
    BY <2>2, <2>3
<1>5. CASE ReadMember(r)
  <2>1. kind \in Walks /\ pc[r] = "member"
    BY <1>0, <1>5 DEF ReadMember, Own
  <2>2. ~InsertMember(r) /\ ~DeleteMemberRow(r) /\ ~CountMembers(r)
    BY <2>1 DEF InsertMember, DeleteMemberRow, CountMembers
  <2>3. Due(r, a) = added[r] /\ Slack(r, a) = 0
    BY <1>1, <2>1 DEF Owes, Walks
  <2>4. CASE NextMember(r, 0)
    BY <1>2, <1>3, <2>1, <2>2, <2>3, <2>4
  <2>5. CASE Refuse(r) /\ ~Bulk(r)
    <3>1. pc'[r] = "answered" /\ added[r] = 0
      BY <1>0, <1>2, <2>1, <2>5 DEF Refuse, Shape
    <3>2. QED
      BY <1>1, <2>2, <2>3, <3>1
  <2>6. CASE pc'[r] \in {"insert", "save"} /\ added'[r] = added[r]
    <3>1. Due(r, a)' = added[r] /\ Slack(r, a)' = 0
      BY <1>1, <2>1, <2>6 DEF Owes, Walks
    <3>2. QED
      BY <1>2, <2>1, <2>2, <2>3, <3>1
  <2>7. QED
    BY <1>0, <1>5, <2>4, <2>5, <2>6 DEF ReadMember, Goto, Shape
<1>6. CASE InsertMember(r)
  <2>1. kind \in Walks /\ pc[r] = "insert"
    BY <1>0, <1>6 DEF InsertMember, Own
  <2>2. ~DeleteMemberRow(r) /\ ~CountMembers(r)
    BY <2>1 DEF DeleteMemberRow, CountMembers
  <2>3. Due(r, a) = added[r] /\ Slack(r, a) = 0
    BY <1>1, <2>1 DEF Owes, Walks
  <2>4. CASE Found(r) = {}
    <3>1. Due(r, a)' = added[r] + 1 /\ Slack(r, a)' = 0
      <4>1. CASE NextMember(r, 1)
        BY <1>3, <2>1, <4>1
      <4>2. CASE Goto(r, "optout")
        BY <1>0, <1>1, <2>1, <4>2 DEF Goto, Shape, Owes, Walks
      <4>3. QED
        BY <1>6, <2>4, <4>1, <4>2 DEF InsertMember
    <3>2. QED
      BY <1>2, <1>6, <2>1, <2>2, <2>3, <2>4, <3>1
  <2>5. CASE Found(r) # {}
    <3>1. ~Bulk(r) /\ Refuse(r)
      BY <1>6, <2>1, <2>5 DEF InsertMember, Stands
    <3>2. pc'[r] = "answered" /\ added[r] = 0
      BY <1>0, <1>2, <2>1, <3>1 DEF Refuse, Shape
    <3>3. QED
      BY <1>1, <2>2, <2>3, <2>5, <3>2
  <2>6. QED
    BY <2>4, <2>5
<1>7. CASE ExcludeMember(r)
  <2>1. kind \in Walks /\ pc[r] = "optout" /\ NextMember(r, 1)
    BY <1>0, <1>7 DEF ExcludeMember, Own
  <2>2. ~InsertMember(r) /\ ~DeleteMemberRow(r) /\ ~CountMembers(r)
    BY <2>1 DEF InsertMember, DeleteMemberRow, CountMembers
  <2>3. Due(r, a) = added[r] + 1 /\ Slack(r, a) = 0
    BY <1>1, <2>1 DEF Owes, Walks
  <2>4. QED
    BY <1>2, <1>3, <2>1, <2>2, <2>3
<1>8. CASE CountMembers(r)
  <2>1. pc[r] = "count" /\ pc'[r] = "answered"
    BY <1>0, <1>8 DEF CountMembers, Answer, Goto, Shape
  <2>2. ~InsertMember(r) /\ ~DeleteMemberRow(r)
    BY <2>1 DEF InsertMember, DeleteMemberRow
  <2>3. Due(r, a)' = 0 /\ Slack(r, a)' = 0
    BY <1>1, <2>1
  <2>4. CASE kind \in Walks
    <3>1. Due(r, a) = added[r] /\ Slack(r, a) = 0 /\ added[r] \in Nat
      BY <1>1, <1>2, <2>1, <2>4 DEF Owes, Walks
    <3>2. QED
      BY <1>8, <2>2, <2>3, <3>1
  <2>5. CASE kind = "DeleteMember"
    <3>1. added[r] = -1 /\ Due(r, a) = 0 /\ Slack(r, a) = 1
      BY <1>0, <1>1, <2>1, <2>5 DEF Carries, Walks
    <3>2. PICK x \in Int : x = added[r]
      BY <3>1
    <3>3. Step = -x
      BY <1>8, <2>2, <3>2
    <3>4. x = -1
      BY <3>1, <3>2
    <3>5. Step = 1
      BY <3>3, <3>4
    <3> HIDE DEF Step
    <3>6. Due(r, a)' + Slack(r, a) = Due(r, a) + Slack(r, a)' + Step
      BY <2>3, <3>1, <3>5
    <3>7. QED
      BY <3>6 DEF Step
  <2>6. QED
    BY <1>0, <2>1, <2>4, <2>5 DEF Own
<1>9. CASE SaveMember(r) \/ ReinsertMember(r)
  <2>1. kind \in Walks \cup {"UpdateMember"} /\ pc[r] \in {"save", "reinsert"}
    BY <1>0, <1>9 DEF SaveMember, ReinsertMember, Own
  <2>2. ~InsertMember(r) /\ ~DeleteMemberRow(r) /\ ~CountMembers(r)
    BY <2>1 DEF InsertMember, DeleteMemberRow, CountMembers
  <2>3. Slack(r, a) = 0 /\ Slack(r, a)' = 0
    BY <1>1, <2>1 DEF Walks
  <2>4. CASE kind \notin Walks
    BY <1>1, <2>2, <2>3, <2>4
  <2>5. CASE kind \in Walks
    <3>1. Due(r, a) = added[r]
      BY <1>1, <2>1, <2>5 DEF Owes
    <3>2. CASE NextMember(r, 0)
      BY <1>2, <1>3, <2>1, <2>2, <2>3, <2>5, <3>1, <3>2
    <3>3. CASE Answer(r) /\ ~Bulk(r)
      <4>1. pc'[r] = "answered" /\ added[r] = 0
        BY <1>0, <1>2, <2>1, <2>5, <3>3 DEF Answer, Goto, Shape
      <4>2. QED
        BY <1>1, <2>2, <2>3, <3>1, <4>1
    <3>4. CASE Goto(r, "reinsert")
      <4>1. pc'[r] = "reinsert" /\ added'[r] = added[r]
        BY <1>0, <3>4 DEF Goto, Shape
      <4>2. Due(r, a)' = added[r]
        BY <1>1, <2>5, <4>1 DEF Owes
      <4>3. QED
        BY <1>2, <2>2, <2>3, <2>5, <3>1, <4>2
    <3>5. QED
      BY <1>9, <3>2, <3>3, <3>4 DEF SaveMember, ReinsertMember, AfterUpsert
  <2>6. QED
    BY <2>4, <2>5
<1>10. CASE DeleteMemberRow(r)
  <2>1. kind = "DeleteMember" /\ pc[r] = "row" /\ pc'[r] = "count"
    BY <1>0, <1>10 DEF DeleteMemberRow, Shape
  <2>2. ~InsertMember(r)
    BY <2>1 DEF InsertMember
  <2>3. Due(r, a) = 0 /\ Due(r, a)' = 0 /\ Slack(r, a) = 0 /\ Slack(r, a)' = 1
    BY <1>1, <2>1 DEF Walks
  <2>4. QED
    BY <1>10, <2>2, <2>3
<1>11. QED
  BY <1>4, <1>5, <1>6, <1>7, <1>8, <1>9, <1>10 DEF Works

LEMMA BalanceOwn ==
  ASSUME RowsInv, ControlInv, RowsInv', ControlInv', MineInv, NEW r \in Requests, Works(r), Stands(r),
         NEW a \in Lists, a = rq[r].list, Clean(a), Balanced(a)
  PROVE  Balanced(a)'
<1>1. /\ \A s \in Requests \ {r} : pc'[s] = pc[s] /\ rq'[s] = rq[s] /\ added'[s] = added[s]
      /\ r \in Active /\ pc'[r] # "idle" /\ rq' = rq
  BY WorksLater DEF Later
<1>2. CASE DeleteMembersOfList(r)
  <2>1. In(a)' = {}
    BY <1>2 DEF DeleteMembersOfList, In
  <2>2. IsFiniteSet(In(a)')
    BY <2>1, FS_EmptySet
  <2>3. Emptying(a)'
    <3>1. pc'[r] = "row" /\ rq'[r].kind = "DeleteList" /\ rq'[r].list = a
      BY <1>1, <1>2 DEF DeleteMembersOfList, Goto, RowsInv, Shape, Own
    <3>2. QED
      BY <3>1 DEF Emptying, Here, Active
  <2>4. QED
    BY <1>1, <2>2, <2>3, Weighs
<1>3. IsFiniteSet(In(a))
  BY DEF Balanced
<1>4. CASE DeleteListRow(r)
  <2>1. ~DeleteMembersOfList(r) /\ HoldsList(r)
    BY <1>4 DEF DeleteListRow, DeleteMembersOfList, HoldsList, OfLists
  <2>2. seen[r] \in lists /\ seen[r].addr = a
    BY <2>1 DEF Stands, Named
  <2>3. Named(a)' = {}
    BY <1>4, <2>2 DEF DeleteListRow, Named, RowsInv, ListsOK
  <2>4. IsFiniteSet(In(a)')
    BY <1>3, <2>1, NumberIn
  <2>5. QED
    BY <1>1, <2>3, <2>4, Weighs
<1>5. CASE ~DeleteMembersOfList(r) /\ ~DeleteListRow(r)
  <2>1. PICK d \in Nat, e \in Nat, y \in {0, 1}, z \in {0, 1} :
          d = Due(r, a) /\ e = Due(r, a)' /\ y = Slack(r, a) /\ z = Slack(r, a)'
    <3>1. (RowsInv /\ ControlInv => OwedSplits)'
      BY OwedSplitting, PTL
    <3>2. OwedSplits /\ OwedSplits'
      BY <3>1, OwedSplitting
    <3>3. Due(r, a) \in Nat /\ Due(r, a)' \in Nat
      BY <3>2 DEF OwedSplits
    <3>4. Slack(r, a) \in {0, 1} /\ Slack(r, a)' \in {0, 1}
      BY DEF Slack
    <3>5. QED
      BY <3>3, <3>4
  <2>2. PICK i \in Nat : i = Cardinality(In(a))
    BY <1>3, FS_CardinalityType
  <2>3. IsFiniteSet(In(a)')
    BY <1>3, <1>5, NumberIn
  <2>4. PICK j \in Nat : j = Cardinality(In(a)')
    BY <2>3, FS_CardinalityType
  <2>5. j = i + (IF InsertMember(r) /\ Found(r) = {} THEN 1 ELSE IF DeleteMemberRow(r) THEN -1 ELSE 0)
    BY <1>3, <1>5, <2>2, <2>4, NumberIn
  <2>6. e + y = d + z +
           (IF InsertMember(r) /\ Found(r) = {} THEN 1 ELSE
            IF DeleteMemberRow(r) THEN -1 ELSE IF CountMembers(r) THEN -added[r] ELSE 0)
    BY <2>1, NumberOwed
  <2>7. ~Emptying(a)' => ~Emptying(a)
    <3>1. ASSUME NEW s \in Here(a), rq[s].kind = "DeleteList", pc[s] = "row" PROVE Emptying(a)'
      <4>1. s # r
        BY <1>5, <3>1 DEF Works, SaveList, ReinsertList, ReadMember, InsertMember, ExcludeMember, CountMembers,
           SaveMember, ReinsertMember, DeleteMemberRow
      <4>2. QED
        BY <1>1, <3>1, <4>1 DEF Emptying, Here, Active
    <3>2. QED
      BY <3>1 DEF Emptying
  <2>8. ASSUME NEW l \in Named(a)', NEW k \in Named(a), NEW c \in Int, l.count = k.count + c,
               c = IF CountMembers(r) THEN added[r] ELSE 0
        PROVE  l.count + e + i + y = k.count + d + j + z
    <3>1. k.count \in Int
      BY DEF Named, RowsInv, ListsOK, ListRows
    <3>2. CASE CountMembers(r)
      <4>1. ~InsertMember(r) /\ ~DeleteMemberRow(r)
        BY <3>2 DEF CountMembers, InsertMember, DeleteMemberRow
      <4>2. j = i /\ e + y = d + z + (-c)
        BY <2>5, <2>6, <2>8, <3>2, <4>1
      <4>3. QED
        BY <2>8, <3>1, <4>2
    <3>3. CASE ~CountMembers(r)
      <4>1. l.count = k.count
        BY <2>8, <3>1, <3>3
      <4>2. CASE InsertMember(r) /\ Found(r) = {}
        BY <2>5, <2>6, <3>1, <4>1, <4>2
      <4>3. CASE ~(InsertMember(r) /\ Found(r) = {}) /\ DeleteMemberRow(r)
        <5>1. j = i - 1 /\ e + y = d + z - 1
          BY <2>5, <2>6, <4>3
        <5>2. QED
          BY <3>1, <4>1, <5>1
      <4>4. CASE ~(InsertMember(r) /\ Found(r) = {}) /\ ~DeleteMemberRow(r)
        <5>1. j = i /\ e + y = d + z
          BY <2>5, <2>6, <3>3, <4>4
        <5>2. QED
          BY <3>1, <4>1, <5>1
      <4>5. QED
        BY <4>2, <4>3, <4>4
    <3>4. QED
      BY <3>2, <3>3
  <2>9. ASSUME NEW l \in Named(a)'
        PROVE  \E k \in Named(a) : l.count + e + i + y = k.count + d + j + z
    <3>1. CASE CountMembers(r)
      <4>1. added[r] \in Int
        BY DEF RowsInv, Shape
      <4>2. PICK k \in lists : l = IF k.addr = rq[r].list THEN [k EXCEPT !.count = @ + added[r]] ELSE k
        BY <3>1 DEF CountMembers, Named
      <4>3. k \in ListRows
        BY DEF RowsInv, ListsOK
      <4>4. k.addr = l.addr /\ l.addr = a
        BY <4>2, <4>3 DEF ListRows, Named
      <4>5. k \in Named(a) /\ l.count = k.count + added[r]
        BY <4>2, <4>3, <4>4 DEF ListRows, Named
      <4>6. QED
        BY <2>8, <3>1, <4>1, <4>5
    <3>2. CASE lists' = lists /\ ~CountMembers(r)
      <4>1. l \in Named(a) /\ l.count = l.count + 0
        BY <3>2 DEF Named, RowsInv, ListsOK, ListRows
      <4>2. QED
        BY <2>8, <3>2, <4>1
    <3>3. CASE SaveList(r)
      <4>1. HoldsList(r) /\ rq[r].kind = "UpdateList" /\ pc[r] = "save"
        BY <3>3 DEF SaveList, HoldsList, OfLists
      <4>2. seen[r] \in lists /\ seen[r].addr = a /\ rq[r].to = a /\ seen[r] \in ListRows
        BY <4>1 DEF Stands, Named, ControlInv, Carries, Renames, Clean, RowsInv, ListsOK
      <4>3. [seen[r] EXCEPT !.addr = rq[r].to] = seen[r]
        BY <4>2 DEF ListRows
      <4>4. {x \in lists : x.id = seen[r].id} = {seen[r]}
        BY <4>2 DEF RowsInv, ListsOK
      <4>5. lists' = lists
        BY <3>3, <4>2, <4>3, <4>4 DEF SaveList, rowVars
      <4>6. QED
        BY <3>2, <4>1, <4>5 DEF CountMembers
    <3>4. CASE ReinsertList(r)
      BY <3>4 DEF ReinsertList, Stands, HoldsList, OfLists
    <3>5. lists' = lists \/ CountMembers(r) \/ SaveList(r) \/ ReinsertList(r)
      BY <1>5 DEF Works, ReadMember, InsertMember, ExcludeMember, SaveMember, ReinsertMember, DeleteMemberRow,
         rowVars
    <3>6. QED
      BY <3>1, <3>2, <3>3, <3>4, <3>5
  <2>10. \A l \in Named(a)' : \E k \in Named(a) :
           l.count + Due(r, a)' + Cardinality(In(a)) + Slack(r, a)
             = k.count + Due(r, a) + Cardinality(In(a)') + Slack(r, a)'
    BY <2>1, <2>2, <2>4, <2>9
  <2>11. QED
    BY <1>1, <2>3, <2>7, <2>10, Weighs
<1>6. QED
  BY <1>2, <1>4, <1>5

LEMMA BalanceWork ==
  ASSUME RowsInv, ControlInv, RowsInv', ControlInv', WhoseInv, MineInv, StandingInv, BalanceInv,
         NEW r \in Requests, Works(r)
  PROVE  BalanceInv'
<1>1. Later(r)
  BY WorksLater
<1>2. ASSUME NEW a \in Lists, Clean(a)' PROVE Balanced(a)'
  <2>1. Clean(a) /\ Balanced(a) /\ r \in Active
    BY <1>1, <1>2 DEF Later, Clean, BalanceInv
  <2>2. CASE a = rq[r].list
    <3>1. Stands(r)
      BY <2>1, <2>2 DEF StandingInv
    <3>2. QED
      BY <2>1, <2>2, <3>1, BalanceOwn
  <2>3. CASE a # rq[r].list
    <3>1. In(a)' = In(a) /\ Named(a)' = Named(a)
      BY <2>1, <2>3, Elsewhere
    <3>2. Due(r, a) = 0 /\ Due(r, a)' = 0 /\ Slack(r, a) = 0 /\ Slack(r, a)' = 0
      BY <1>1, <2>3 DEF Later, Due, Slack, Counts, Lost, Here
    <3>3. \A s \in Requests \ {r} : pc'[s] = pc[s] /\ rq'[s] = rq[s] /\ added'[s] = added[s]
      BY <1>1 DEF Later
    <3>4. Emptying(a) => Emptying(a)'
      BY <1>1, <2>3, <3>3 DEF Later, Emptying, Here, Active
    <3>5. IsFiniteSet(In(a)')
      BY <2>1, <3>1 DEF Balanced
    <3>6. \A l \in Named(a)' : l.count \in Int
      BY DEF Named, RowsInv, ListsOK, ListRows
    <3>7. Cardinality(In(a)) \in Nat
      BY <2>1, FS_CardinalityType DEF Balanced
    <3>8. \A l \in Named(a)' : l.count + Due(r, a)' + Cardinality(In(a)) + Slack(r, a)
                                 = l.count + Due(r, a) + Cardinality(In(a)') + Slack(r, a)'
      BY <3>1, <3>2, <3>6, <3>7
    <3>9. QED
      BY <2>1, <3>1, <3>3, <3>4, <3>5, <3>8, Weighs
  <2>4. QED
    BY <2>2, <2>3
<1>3. QED
  BY <1>2 DEF BalanceInv

LEMMA BalanceInvariant == Spec => []BalanceInv
<1>1. Init => BalanceInv
  <2> SUFFICES ASSUME Init, NEW a \in Lists PROVE Balanced(a)
    BY DEF BalanceInv
  <2>1. In(a) = {} /\ Here(a) = {} /\ Named(a) = {}
    BY DEF Init, In, Here, Active, Named
  <2>2. Owed(a) = {} /\ Lost(a) = {}
    BY <2>1 DEF Owed, Lost, Counts
  <2>3. QED
    BY <2>1, <2>2, FS_EmptySet DEF Balanced
<1>2. /\ RowsInv /\ ControlInv /\ RowsInv' /\ ControlInv' /\ WhoseInv /\ MineInv /\ StrayInv
      /\ StandingInv /\ BalanceInv /\ [Next]_vars
      => BalanceInv'
  <2>1. ASSUME UNCHANGED vars, BalanceInv PROVE BalanceInv'
    <3>1. ASSUME NEW a \in Lists
          PROVE  /\ In(a)' = In(a) /\ Named(a)' = Named(a) /\ Owed(a)' = Owed(a) /\ Lost(a)' = Lost(a)
                 /\ Emptying(a)' <=> Emptying(a)
      BY <2>1 DEF vars, rowVars, In, Named, Active, Here, Owed, Lost, Counts, Owes, Emptying
    <3>2. ASSUME NEW a \in Lists, Clean(a)' PROVE Balanced(a)'
      <4>1. Balanced(a)
        BY <2>1, <3>2 DEF vars, Clean, BalanceInv
      <4>2. QED
        BY <3>1, <4>1 DEF Balanced
    <3>3. QED
      BY <3>2 DEF BalanceInv
  <2>2. QED
    BY <2>1, BalanceBegin, BalanceWork, NextIs
<1>3. QED
  BY <1>1, <1>2, RowsInvariant, ControlInvariant, WhoseInvariant, MineInvariant, StrayInvariant,
     StandingInvariant, PTL DEF Spec

\* The members are inserted and deleted by statements of their own (498-511,
\* 584-588, 787-821) and counted by later ones: when all are done, the count
\* of a list is the number of its members.
THEOREM CountsAgree == Spec => []CountIsExact
<1>1. BalanceInv /\ RowsInv => CountIsExact
  <2> SUFFICES ASSUME BalanceInv, RowsInv, NEW l \in lists, Undisturbed(l.addr), l.addr \notin renamed
               PROVE  l.count = Cardinality(In(l.addr))
    BY DEF CountIsExact
  <2>1. PICK a \in Lists : a = l.addr
    BY DEF RowsInv, ListsOK, ListRows
  <2>2. Clean(a) /\ Here(a) = {} /\ l \in Named(a)
    BY <2>1 DEF Clean, Undisturbed, Quiet, Here, Named
  <2>3. Owed(a) = {} /\ Lost(a) = {} /\ ~Emptying(a)
    BY <2>2 DEF Owed, Lost, Counts, Emptying
  <2>4. /\ IsFiniteSet(In(a)) /\ l.count \in Int
        /\ l.count + Cardinality(Owed(a)) = Cardinality(In(a)) + Cardinality(Lost(a))
    BY <2>2, <2>3 DEF BalanceInv, Balanced, RowsInv, ListsOK, ListRows
  <2>5. Cardinality(In(a)) \in Nat /\ Cardinality({}) = 0
    BY <2>4, FS_CardinalityType, FS_EmptySet
  <2>6. QED
    BY <2>1, <2>3, <2>4, <2>5
<1>2. QED
  BY <1>1, BalanceInvariant, RowsInvariant, PTL

-----------------------------------------------------------------------------
\* Layer 5.  Nobody on the list under this address is subscribed, except by a
\* row just inserted that its request is about to correct.
Pending(i) == \E x \in Requests : pc[x] = "optout" /\ i = <<x, pos[x]>>
Out(a, p)  == \A m \in At(a, p) : m.sub => Pending(m.id)

OptOutInv ==
  \A r \in Requests : Clean(rq[r].list) =>
    \A i \in DOMAIN rq[r].todo :
      Given(<<r, i>>) /\ <<rq[r].list, rq[r].todo[i]>> \in out[r] => Out(rq[r].list, rq[r].todo[i])

\* The row a request at a clean list saves is the one it found, as it was asked.
LEMMA SaveInPlace ==
  ASSUME RowsInv, ControlInv, NEW s \in Requests, SaveMember(s) \/ ReinsertMember(s), Stands(s),
         NEW a, a = rq[s].list
  PROVE  /\ pc[s] = "save" /\ seen[s] \in members /\ seen[s].list = a /\ seen[s].addr = Person(s)
         /\ \E w \in MemberRows :
              /\ w.id = seen[s].id /\ w.list = a
              /\ w.addr = IF rq[s].kind = "UpdateMember" THEN rq[s].to ELSE Person(s)
              /\ w.sub = IF rq[s].sub = "same" THEN seen[s].sub ELSE rq[s].sub = "yes"
              /\ \/ members' = (members \ {seen[s]}) \cup {w}
                 \/ members' = members /\ w.addr # Person(s)
<1>1. HoldsMember(s)
  BY DEF SaveMember, ReinsertMember, HoldsMember, OfLists, RowsInv, Own, Walks
<1>2. /\ pc[s] = "save" /\ seen[s] \in members /\ seen[s].list = a /\ seen[s].addr = Person(s)
      /\ seen[s] \in MemberRows
  BY <1>1 DEF Stands, Found, At, In, RowsInv, MembersOK
<1>3. PutMember(Written(s))
  BY <1>2 DEF SaveMember, ReinsertMember
<1>4. PICK w \in MemberRows : w = Written(s)
  BY <1>1, WrittenTyped
<1>5. /\ w.id = seen[s].id /\ w.list = a
      /\ w.addr = IF rq[s].kind = "UpdateMember" THEN rq[s].to ELSE Person(s)
      /\ w.sub = IF rq[s].sub = "same" THEN seen[s].sub ELSE rq[s].sub = "yes"
  BY <1>2, <1>4 DEF Written, MemberRows
<1>6. {m \in members : m.id = w.id} = {seen[s]}
  BY <1>2, <1>5 DEF RowsInv, MembersOK
<1>7. w.addr = Person(s) => At(w.list, w.addr) \subseteq {seen[s]}
  BY <1>2, <1>5 DEF At, In, RowsInv, MembersOK
<1>8. \/ members' = (members \ {seen[s]}) \cup {w}
      \/ members' = members /\ w.addr # Person(s)
  BY <1>3, <1>4, <1>6, <1>7 DEF PutMember
<1>9. QED
  BY <1>2, <1>5, <1>8

\* Who is out stays out, but for the requests that opt it in.
LEMMA OutStays ==
  ASSUME RowsInv, ControlInv, MineInv, NEW s \in Active, Works(s), Stands(s),
         NEW a, a = rq[s].list, NEW p \in People, <<a, p>> \notin OptsIn(rq[s]), Out(a, p)
  PROVE  Out(a, p)'
<1>0. /\ Shape /\ Own(s) /\ Carries(s) /\ s \in Requests
      /\ \A x \in Requests \ {s} : pc'[x] = pc[x] /\ pos'[x] = pos[x]
  BY WorksLater DEF RowsInv, ControlInv, Later, Active
<1>1. ASSUME NEW i, Pending(i), i # <<s, pos[s]>> \/ pc[s] # "optout" PROVE Pending(i)'
  <2>1. PICK x \in Requests : pc[x] = "optout" /\ i = <<x, pos[x]>>
    BY <1>1 DEF Pending
  <2>2. x # s
    BY <1>1, <2>1
  <2>3. QED
    BY <1>0, <2>1, <2>2 DEF Pending
<1>2. CASE members' \subseteq members /\ pc[s] # "optout"
  BY <1>1, <1>2 DEF Out, At, In
<1>3. CASE InsertMember(s) /\ Found(s) = {}
  <2> DEFINE row == [id |-> <<s, pos[s]>>, list |-> rq[s].list, addr |-> Person(s), sub |-> TRUE]
  <2>0. PICK n \in Nat : n = pos[s]
    BY <1>0 DEF Shape
  <2>1. members' = members \cup {row} /\ pc[s] = "insert" /\ rq[s].kind \in Walks
    BY <1>0, <1>3 DEF InsertMember, Own
  <2>2. Person(s) = p => Pending(<<s, n>>)'
    <3>1. ASSUME Person(s) = p PROVE rq[s].sub = "no"
      <4>1. pos[s] \in DOMAIN rq[s].todo
        BY <1>0, <2>1, LenProperties DEF Own, Shape, Queries
      <4>2. <<a, p>> \in Persons(rq[s])
        BY <3>1, <4>1 DEF Persons, Person
      <4>3. rq[s].sub # "yes" /\ rq[s].sub \in {"yes", "no"}
        BY <1>0, <2>1, <4>2 DEF OptsIn, Carries, Shape, Queries, Subs
      <4>4. QED
        BY <4>3
    <3>2. ASSUME rq[s].sub = "no" PROVE pc'[s] = "optout" /\ pos'[s] = pos[s]
      BY <1>0, <1>3, <3>2 DEF InsertMember, Goto, Shape
    <3>3. QED
      BY <1>0, <2>0, <3>1, <3>2 DEF Pending
  <2>3. row.addr = Person(s) /\ row.id = <<s, n>>
    BY <2>0
  <2> HIDE DEF row
  <2>4. ASSUME NEW k \in members', k.list = a, k.addr = p, k.sub PROVE Pending(k.id)'
    <3>1. CASE k = row
      <4>1. Person(s) = p /\ k.id = <<s, n>>
        BY <2>3, <2>4, <3>1
      <4>2. QED
        BY <2>2, <4>1
    <3>2. CASE k \in members
      <4>1. Pending(k.id)
        BY <2>4, <3>2 DEF Out, At, In
      <4>2. QED
        BY <1>1, <2>1, <4>1
    <3>3. QED
      BY <2>1, <3>1, <3>2
  <2>5. QED
    BY <2>4 DEF Out, At, In
<1>4. CASE ExcludeMember(s)
  <2> DEFINE Excluded(m) == IF m.id = <<s, pos[s]>> THEN [m EXCEPT !.sub = FALSE] ELSE m
  <2>1. members' = {Excluded(m) : m \in members}
    BY <1>4 DEF ExcludeMember
  <2>2. \A m \in members : /\ Excluded(m).id = m.id /\ Excluded(m).list = m.list /\ Excluded(m).addr = m.addr
                           /\ m.id = <<s, pos[s]>> => ~Excluded(m).sub
                           /\ m.id # <<s, pos[s]>> => Excluded(m).sub = m.sub
    BY DEF RowsInv, MembersOK, MemberRows
  <2> HIDE DEF Excluded
  <2>3. ASSUME NEW k \in members', k.list = a, k.addr = p, k.sub PROVE Pending(k.id)'
    <3>1. PICK m \in members : k = Excluded(m)
      BY <2>1
    <3>2. m.id = k.id /\ m \in At(a, p) /\ m.sub /\ m.id # <<s, pos[s]>>
      BY <2>2, <2>3, <3>1 DEF At, In
    <3>3. QED
      BY <1>1, <3>2 DEF Out
  <2>4. QED
    BY <2>3 DEF Out, At, In
<1>5. CASE SaveMember(s) \/ ReinsertMember(s)
  <2>1. PICK w \in MemberRows :
          /\ w.id = seen[s].id /\ w.list = a
          /\ w.addr = IF rq[s].kind = "UpdateMember" THEN rq[s].to ELSE Person(s)
          /\ w.sub = IF rq[s].sub = "same" THEN seen[s].sub ELSE rq[s].sub = "yes"
          /\ members' \subseteq members \cup {w}
    BY <1>0, <1>5, SaveInPlace
  <2>2. pc[s] = "save" /\ seen[s] \in members /\ seen[s].list = a /\ seen[s].addr = Person(s)
    BY <1>0, <1>5, SaveInPlace
  <2>3. rq[s].kind \in Walks \cup {"UpdateMember"}
    BY <1>0, <1>5, <2>2 DEF SaveMember, ReinsertMember, Own
  <2>4. ASSUME w.addr = p, w.sub PROVE Pending(w.id)
    <3>1. pos[s] \in DOMAIN rq[s].todo
      <4>1. CASE rq[s].kind \in Walks
        BY <1>0, <2>2, <4>1, LenProperties DEF Own, Shape, Queries
      <4>2. CASE rq[s].kind = "UpdateMember"
        <5>1. pos[s] = 1 /\ Len(rq[s].todo) = 1 /\ rq[s].todo \in Seq(People)
          BY <1>0, <4>2 DEF Carries, Shape, Queries
        <5>2. QED
          BY <5>1, LenProperties
      <4>3. QED
        BY <2>3, <4>1, <4>2
    <3>2. <<a, Person(s)>> \in Persons(rq[s])
      BY <3>1 DEF Persons, Person
    <3>3. CASE rq[s].kind \in Walks
      <4>1. Person(s) = p
        BY <2>1, <2>4, <3>3 DEF Walks
      <4>2. rq[s].sub = "yes"
        BY <1>0, <2>1, <2>4, <3>3 DEF Carries, Shape, Queries, Subs
      <4>3. QED
        BY <3>2, <4>1, <4>2 DEF OptsIn
    <3>4. CASE rq[s].kind = "UpdateMember"
      <4>1. rq[s].to = p /\ <<a, p>> \in Moved(rq[s])
        BY <2>1, <2>4, <3>4 DEF Moved
      <4>2. rq[s].sub # "yes" /\ <<a, p>> \in Persons(rq[s])
        BY <4>1 DEF OptsIn
      <4>3. rq[s].sub = "same" /\ seen[s].sub
        BY <1>0, <2>1, <2>4, <4>2 DEF Shape, Queries, Subs
      <4>4. Person(s) = p
        <5>1. rq[s].todo \in Seq(People) /\ Len(rq[s].todo) = 1 /\ pos[s] = 1
          BY <1>0, <3>4 DEF Carries, Shape, Queries
        <5>2. DOMAIN rq[s].todo = {1}
          BY <5>1, LenProperties
        <5>3. QED
          BY <4>2, <5>1, <5>2 DEF Persons, Person
      <4>5. QED
        BY <2>1, <2>2, <4>3, <4>4 DEF Out, At, In
    <3>5. QED
      BY <2>3, <3>3, <3>4
  <2>5. ASSUME NEW k \in members', k.list = a, k.addr = p, k.sub PROVE Pending(k.id)'
    <3>1. Pending(k.id)
      BY <2>1, <2>4, <2>5 DEF Out, At, In
    <3>2. QED
      BY <1>1, <2>2, <3>1
  <2>6. QED
    BY <2>5 DEF Out, At, In
<1>6. CASE members' \subseteq members /\ pc[s] = "optout"
  <2>1. ExcludeMember(s)
    BY <1>0, <1>6 DEF Works, SaveList, ReinsertList, DeleteMembersOfList, DeleteListRow, ReadMember, InsertMember,
       CountMembers, SaveMember, ReinsertMember, DeleteMemberRow
  <2>2. QED
    BY <1>4, <2>1
<1>7. QED
  BY <1>2, <1>3, <1>4, <1>5, <1>6 DEF Works, SaveList, ReinsertList, DeleteMembersOfList, DeleteListRow, ReadMember,
     CountMembers, InsertMember, DeleteMemberRow, rowVars

\* The step that deals with a person opts the person out.
LEMMA OutMade ==
  ASSUME RowsInv, ControlInv, NEW r \in Active, Works(r), Stands(r),
         NEW a, a = rq[r].list, NEW p \in People, p = Person(r), <<a, p>> \in out'[r],
         NEW n \in Nat, n = pos[r], ~Given(<<r, n>>), Given(<<r, n>>)'
  PROVE  Out(a, p)'
<1>0. /\ Shape /\ Own(r) /\ Carries(r) /\ r \in Requests /\ HistoryOK
      /\ <<a, p>> \in OptsOut(rq[r]) /\ rq' = rq
  <2>1. Later(r) /\ r \in Requests /\ Carries(r)
    BY WorksLater DEF ControlInv, Active
  <2>2. QED
    BY <2>1 DEF RowsInv, Later, Carries
<1>1. pc[r] \notin Late /\ (pos'[r] = n => pc'[r] \in Late)
  BY DEF Given, Late
<1>2. /\ rq[r].sub = "no" /\ (rq[r].kind = "UpdateMember" => rq[r].to = p)
      /\ rq[r].kind = "BulkAddMembers" => rq[r].upsert
      /\ rq[r].todo # << >>
  BY <1>0 DEF OptsOut, Persons
<1>3. CASE SaveList(r) \/ ReinsertList(r) \/ DeleteMembersOfList(r) \/ DeleteListRow(r)
  <2>1. rq[r].kind \in OfLists
    BY <1>0, <1>3 DEF SaveList, ReinsertList, DeleteMembersOfList, DeleteListRow, Own, OfLists
  <2>2. QED
    BY <1>0, <1>2, <2>1 DEF Carries, OfLists
<1>4. CASE ReadMember(r)
  <2>1. CASE Refuse(r)
    BY <1>0, <2>1 DEF Refuse, HistoryOK
  <2>2. CASE Bulk(r) /\ ~rq[r].upsert
    BY <1>2, <2>2 DEF Bulk
  <2>3. CASE pos' = pos /\ pc'[r] \in {"insert", "save"}
    BY <1>1, <2>3 DEF Late
  <2>4. QED
    BY <1>0, <1>4, <2>1, <2>2, <2>3 DEF ReadMember, Goto, Shape
<1>5. CASE InsertMember(r)
  <2>1. CASE Found(r) # {}
    <3>1. Refuse(r)
      BY <1>5, <2>1 DEF InsertMember, Stands
    <3>2. QED
      BY <1>0, <3>1 DEF Refuse, HistoryOK
  <2>2. CASE Found(r) = {}
    <3> DEFINE row == [id |-> <<r, pos[r]>>, list |-> rq[r].list, addr |-> Person(r), sub |-> TRUE]
    <3>1. members' = members \cup {row} /\ Goto(r, "optout")
      BY <1>2, <1>5, <2>2 DEF InsertMember
    <3>2. row.id = <<r, n>>
      OBVIOUS
    <3> HIDE DEF row
    <3>3. Pending(<<r, n>>)'
      BY <1>0, <3>1 DEF Goto, Shape, Pending
    <3>4. ASSUME NEW k \in members', k.list = a, k.addr = p PROVE Pending(k.id)'
      <4>1. k = row
        BY <2>2, <3>1, <3>4 DEF Found, At, In
      <4>2. QED
        BY <3>2, <3>3, <4>1
    <3>5. QED
      BY <3>4 DEF Out, At, In
  <2>3. QED
    BY <2>1, <2>2
<1>6. CASE ExcludeMember(r) \/ CountMembers(r)
  BY <1>1, <1>6 DEF ExcludeMember, CountMembers, Late
<1>7. CASE SaveMember(r) \/ ReinsertMember(r)
  <2>1. PICK w \in MemberRows :
          /\ w.id = seen[r].id /\ w.list = a
          /\ w.addr = IF rq[r].kind = "UpdateMember" THEN rq[r].to ELSE Person(r)
          /\ w.sub = IF rq[r].sub = "same" THEN seen[r].sub ELSE rq[r].sub = "yes"
          /\ \/ members' = (members \ {seen[r]}) \cup {w}
             \/ members' = members /\ w.addr # Person(r)
    BY <1>0, <1>7, SaveInPlace
  <2>2. seen[r] \in members /\ seen[r].list = a /\ seen[r].addr = p
    BY <1>0, <1>7, SaveInPlace
  <2>3. ~w.sub /\ members' = (members \ {seen[r]}) \cup {w}
    BY <1>2, <2>1
  <2>4. ASSUME NEW k \in members', k.list = a, k.addr = p PROVE k = w
    BY <2>2, <2>3, <2>4 DEF RowsInv, MembersOK
  <2>5. QED
    BY <2>3, <2>4 DEF Out, At, In
<1>8. CASE DeleteMemberRow(r)
  <2>1. DeletesMember(r) /\ members' = {m \in members : m.id # seen[r].id}
    BY <1>8 DEF DeleteMemberRow, DeletesMember
  <2>2. PICK m \in members : m.id = seen[r].id /\ m.list = a /\ m.addr = p
    BY <2>1 DEF Stands, Found, At, In
  <2>3. \A k \in members' : ~(k.list = a /\ k.addr = p)
    BY <2>1, <2>2 DEF RowsInv, MembersOK
  <2>4. QED
    BY <2>3 DEF Out, At, In
<1>9. QED
  BY <1>3, <1>4, <1>5, <1>6, <1>7, <1>8 DEF Works

\* A step gives at most the id its request is at.
LEMMA GivesOne ==
  ASSUME RowsInv, ControlInv, ControlInv', NEW r \in Requests, Works(r), NEW i \in DOMAIN rq[r].todo,
         ~Given(<<r, i>>), Given(<<r, i>>)'
  PROVE  i = pos[r]
<1>1. /\ Shape /\ Own(r) /\ rq' = rq /\ r \in Active
  BY WorksLater DEF RowsInv, Later
<1>2. PICK len \in Nat : len = Len(rq[r].todo) /\ i \in 1 .. len
  BY <1>1, LenProperties DEF Shape, Queries
<1>3. pos[r] \in Nat /\ pos'[r] \in Nat
  <2>1. \A n \in Int : NextMember(r, n) => pos'[r] \in Nat
    BY <1>1 DEF NextMember, Shape
  <2>2. \A at : Goto(r, at) => pos' = pos
    BY DEF Goto
  <2>3. QED
    BY <1>1, <2>1, <2>2 DEF Shape, Works, SaveList, ReinsertList, DeleteMembersOfList, DeleteListRow, ReadMember,
       InsertMember, ExcludeMember, CountMembers, SaveMember, ReinsertMember, DeleteMemberRow, AfterUpsert, Answer,
       Refuse
<1>4. \/ pos'[r] = pos[r]
      \/ pos'[r] = pos[r] + 1 /\ pc'[r] \in {"member", "count"} /\ Bulk(r)
  <2>1. \A n \in Int : NextMember(r, n) => \/ pos'[r] = pos[r]
                                           \/ pos'[r] = pos[r] + 1 /\ pc'[r] \in {"member", "count"} /\ Bulk(r)
    BY <1>1 DEF NextMember, Shape
  <2>2. \A at : Goto(r, at) => pos' = pos
    BY DEF Goto
  <2>3. QED
    BY <2>1, <2>2 DEF Works, SaveList, ReinsertList, DeleteMembersOfList, DeleteListRow, ReadMember,
       InsertMember, ExcludeMember, CountMembers, SaveMember, ReinsertMember, DeleteMemberRow, AfterUpsert, Answer,
       Refuse
<1>5. pos[r] <= i /\ (i < pos'[r] \/ (i = pos'[r] /\ pc'[r] \in Late))
  BY <1>2, <1>3 DEF Given, Late
<1>6. CASE pos'[r] = pos[r]
  BY <1>2, <1>3, <1>5, <1>6
<1>7. CASE pos'[r] = pos[r] + 1 /\ pc'[r] \in {"member", "count"} /\ Bulk(r)
  <2>1. pc'[r] = "count" => pos'[r] = len + 1
    BY <1>1, <1>2, <1>7 DEF ControlInv, Carries, Bulk
  <2>2. i # pos'[r]
    BY <1>2, <1>3, <1>5, <1>7, <2>1 DEF Late
  <2>3. QED
    BY <1>2, <1>3, <1>5, <1>7, <2>2
<1>8. QED
  BY <1>4, <1>6, <1>7

LEMMA OptOutBegin ==
  ASSUME RowsInv, ControlInv, OptOutInv, NEW s \in Requests, Opens(s)
  PROVE  OptOutInv'
<1>1. PICK q, row, at : Asked(q, at) /\ Begin(s, q, row, at) /\ Took(s, q, row, at)
  BY OpensBegin
<1>2. /\ rq'[s] = q /\ pc'[s] = at /\ pc[s] = "idle" /\ pos[s] = 1 /\ pos' = pos /\ members' = members
      /\ clashed \subseteq clashed' /\ renamed \subseteq renamed' /\ at # "optout"
      /\ \A x \in Requests \ {s} : rq'[x] = rq[x] /\ pc'[x] = pc[x] /\ out'[x] \subseteq out[x]
  BY <1>1 DEF Begin, RowsInv, Shape, Own, Took, Asked
<1>3. ASSUME NEW r \in Requests, Clean(rq[r].list)', NEW i \in DOMAIN rq'[r].todo, Given(<<r, i>>)',
             <<rq'[r].list, rq'[r].todo[i]>> \in out'[r]
      PROVE  Out(rq[r].list, rq[r].todo[i])'
  <2>1. CASE r = s
    <3>1. q.todo \in Seq(People)
      BY <1>1 DEF Asked, Queries
    <3>2. i \in Nat \ {0}
      BY <1>2, <1>3, <2>1, <3>1, LenProperties
    <3>3. at = "answered"
      BY <1>1, <1>2, <1>3, <2>1, <3>2 DEF Given, Asked
    <3>4. q.todo = << >>
      BY <1>1, <3>3 DEF Asked, Took, AllKinds, Walks
    <3>5. QED
      BY <1>2, <1>3, <2>1, <3>4
  <2>2. CASE r # s
    <3>1. rq'[r] = rq[r] /\ pc'[r] = pc[r] /\ out'[r] \subseteq out[r]
      BY <1>2, <2>2
    <3>2. Clean(rq[r].list) /\ Given(<<r, i>>)
      BY <1>2, <1>3, <3>1 DEF Clean, Given
    <3>3. Out(rq[r].list, rq[r].todo[i])
      BY <1>3, <3>1, <3>2 DEF OptOutInv
    <3>4. \A j : Pending(j) => Pending(j)'
      BY <1>2 DEF Pending
    <3>5. QED
      BY <1>2, <3>1, <3>3, <3>4 DEF Out, At, In
  <2>3. QED
    BY <2>1, <2>2
<1>4. QED
  BY <1>3 DEF OptOutInv

LEMMA OptOutWork ==
  ASSUME RowsInv, ControlInv, ControlInv', WhoseInv, MineInv, StandingInv, OptOutInv,
         NEW s \in Requests, Works(s)
  PROVE  OptOutInv'
<1>1. Later(s)
  BY WorksLater
<1>2. rq' = rq /\ s \in Active
  BY <1>1 DEF Later
<1>3. ASSUME NEW r \in Requests, Clean(rq[r].list)', NEW i \in DOMAIN rq[r].todo, Given(<<r, i>>)',
             <<rq[r].list, rq[r].todo[i]>> \in out'[r]
      PROVE  Out(rq[r].list, rq[r].todo[i])'
  <2>1. Clean(rq[r].list) /\ <<rq[r].list, rq[r].todo[i]>> \in out[r]
    BY <1>1, <1>2, <1>3 DEF Later, Clean
  <2>2. PICK a \in Lists, p \in People : a = rq[r].list /\ p = rq[r].todo[i]
    BY <2>1 DEF RowsInv, HistoryOK
  <2>3. CASE Given(<<r, i>>)
    <3>1. Out(a, p)
      BY <2>1, <2>2, <2>3 DEF OptOutInv
    <3>2. CASE a = rq[s].list
      <4>1. Stands(s)
        BY <1>2, <2>1, <2>2, <3>2 DEF StandingInv
      <4>2. <<a, p>> \notin OptsIn(rq[s])
        BY <1>2, <2>1, <2>2 DEF ControlInv, Carries
      <4>3. Out(a, p)'
        BY <1>2, <3>1, <3>2, <4>1, <4>2, OutStays
      <4>4. QED
        BY <1>2, <2>2, <4>3
    <3>3. CASE a # rq[s].list
      <4>1. In(a)' = In(a)
        BY <2>1, <2>2, <3>3, Elsewhere
      <4>2. ASSUME NEW m \in In(a), Pending(m.id) PROVE Pending(m.id)'
        <5>1. PICK x \in Requests : pc[x] = "optout" /\ m.id = <<x, pos[x]>>
          BY <4>2 DEF Pending
        <5>2. x # s
          BY <3>3, <5>1 DEF In, MineInv, Of
        <5>3. QED
          BY <1>1, <5>1, <5>2 DEF Later, Pending
      <4>3. Out(a, p)'
        BY <3>1, <4>1, <4>2 DEF Out, At
      <4>4. QED
        BY <1>2, <2>2, <4>3
    <3>4. QED
      BY <3>2, <3>3
  <2>4. CASE ~Given(<<r, i>>)
    <3>1. r = s
      BY <1>1, <1>3, <2>4 DEF Later, Given
    <3>2. i = pos[r] /\ i \in Nat
      BY <1>3, <2>4, <3>1, GivesOne DEF RowsInv, Shape
    <3>3. Stands(s) /\ p = Person(s)
      BY <1>2, <2>1, <2>2, <3>1, <3>2 DEF StandingInv, Person
    <3>4. Out(a, p)'
      BY <1>2, <1>3, <2>2, <2>4, <3>1, <3>2, <3>3, OutMade
    <3>5. QED
      BY <1>2, <2>2, <3>4
  <2>5. QED
    BY <2>3, <2>4
<1>4. QED
  BY <1>2, <1>3 DEF OptOutInv

LEMMA OptOutInvariant == Spec => []OptOutInv
<1>1. Init => OptOutInv
  BY DEF Init, OptOutInv, NoRequest
<1>2. /\ RowsInv /\ ControlInv /\ ControlInv' /\ WhoseInv /\ MineInv /\ StandingInv
      /\ OptOutInv /\ [Next]_vars
      => OptOutInv'
  <2>1. UNCHANGED vars /\ OptOutInv => OptOutInv'
    BY DEF vars, rowVars, OptOutInv, Clean, Given, Out, Pending, At, In
  <2>2. QED
    BY <2>1, OptOutBegin, OptOutWork, NextIs
<1>3. QED
  BY <1>1, <1>2, RowsInvariant, ControlInvariant, WhoseInvariant, MineInvariant, StandingInvariant,
     PTL DEF Spec

\* The INSERT of a member writes TRUE and a second statement corrects it
\* (498-506), and Save writes back what was read before: still nobody whose
\* opt-out was answered is subscribed, until a request opts the person in.
THEOREM OptOutsStand == Spec => []OptOutStands
<1>1. RowsInv /\ ControlInv /\ MineInv /\ OptOutInv => OptOutStands
  <2> SUFFICES ASSUME RowsInv, ControlInv, MineInv, OptOutInv,
                      NEW m \in members, Undisturbed(m.list), m.list \notin renamed,
                      NEW r \in Requests \ Active, <<m.list, m.addr>> \in out[r]
               PROVE  ~m.sub
    BY DEF OptOutStands
  <2>1. Shape /\ Carries(r) /\ m.list \in Lists
    BY DEF RowsInv, ControlInv, MembersOK, MemberRows
  <2>2. <<m.list, m.addr>> \in Persons(rq[r])
    BY <2>1 DEF Carries, OptsOut
  <2>3. PICK i \in DOMAIN rq[r].todo : m.list = rq[r].list /\ m.addr = rq[r].todo[i]
    BY <2>2 DEF Persons
  <2>4. pc[r] = "answered"
    BY <2>1 DEF Carries, Active
  <2>5. Given(<<r, i>>)
    <3>1. PICK len \in Nat : len = Len(rq[r].todo) /\ i \in 1 .. len
      BY <2>1, <2>3, LenProperties DEF Shape, Queries
    <3>2. CASE rq[r].kind = "BulkAddMembers"
      BY <2>1, <2>4, <3>1, <3>2 DEF Carries, Given
    <3>3. CASE rq[r].kind \in {"AddMember", "UpdateMember", "DeleteMember"}
      BY <2>1, <2>4, <3>1, <3>3 DEF Carries, Given
    <3>4. CASE rq[r].kind \in {"none", "CreateList", "UpdateList", "DeleteList"}
      BY <2>1, <2>3, <3>4 DEF Carries
    <3>5. rq[r].kind \in AllKinds \cup {"none"}
      BY <2>1 DEF Shape, Queries
    <3>6. QED
      BY <3>2, <3>3, <3>4, <3>5 DEF AllKinds
  <2>6. Out(m.list, m.addr)
    BY <2>1, <2>3, <2>5 DEF OptOutInv, Clean, Undisturbed
  <2>7. ~Pending(m.id)
    <3> SUFFICES ASSUME NEW x \in Requests, pc[x] = "optout", m.id = <<x, pos[x]>> PROVE FALSE
      BY DEF Pending
    <3>1. x \in Active /\ rq[x].list = m.list
      BY DEF Active, MineInv, Of
    <3>2. QED
      BY <3>1 DEF Undisturbed, Quiet
  <2>8. QED
    BY <2>6, <2>7 DEF Out, At, In
<1>2. QED
  BY <1>1, RowsInvariant, ControlInvariant, MineInvariant, OptOutInvariant, PTL
=============================================================================
