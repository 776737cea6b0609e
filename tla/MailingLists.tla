---------------------------- MODULE MailingLists ----------------------------
(***************************************************************************)
(* internal/mailinglist/handlers.go: mailing lists, their members, and the *)
(* members_count column that is kept by hand beside them.                  *)
(*                                                                         *)
(* A request is a goroutine that executes SQL statements one at a time; a  *)
(* row it creates is named after it.  gorm's Save writes back every column *)
(* of the row read before, and when its UPDATE finds no such row any more  *)
(* it INSERTs it.  Members join lists by the list's address, not its id.   *)
(* Names, descriptions, access levels and vars are left out: nothing       *)
(* depends on them.  A refused request changes nothing and is no step.     *)
(***************************************************************************)
EXTENDS Integers, Sequences, FiniteSets

CONSTANTS Requests,   \* the requests, each sent once
          Lists,      \* list addresses
          People,     \* member addresses
          Bulks,      \* the address sequences bulk requests carry (an empty one does nothing)
          Kinds       \* the endpoints used

AllKinds == {"CreateList", "UpdateList", "DeleteList",
             "AddMember", "BulkAddMembers", "UpdateMember", "DeleteMember"}

ASSUME MailingListsAssumption == /\ Kinds \subseteq AllKinds
                                 /\ Bulks \subseteq Seq(People) \ {<< >>}

VARIABLES
  lists,    \* mailing_lists: rows [id, addr, count]
  members,  \* mailing_list_members: rows [id, list, addr, sub]
  pc,       \* the statement each request executes next
  rq,       \* what it was asked
  seen,     \* the row its first query found
  pos,      \* the member a request is at
  added,    \* what it will add to members_count
  clashed,  \* history: lists two requests that get in each other's way met at
  renamed,  \* history: the old and the new addresses of renamed lists
  out       \* history: <<list, person>> a request opts out and none has opted in since it began

rowVars == <<lists, members>>
vars == <<rowVars, pc, rq, seen, pos, added, clashed, renamed, out>>

Pcs == {"idle", "member", "insert", "optout", "count", "save", "reinsert",
        "members", "row", "answered"}
Subs == {"yes", "no", "same"}

NoRequest == [kind |-> "none", list |-> "none", todo |-> << >>, to |-> "none",
              sub |-> "same", upsert |-> FALSE]
NoRow     == [id |-> "none"]

Named(addr)  == {l \in lists : l.addr = addr}
In(list)     == {m \in members : m.list = list}
At(list, p)  == {m \in In(list) : m.addr = p}

TypeOK ==
  /\ \A l \in lists : l.id \in Requests /\ l.addr \in Lists /\ l.count \in Int
  /\ \A m \in members : /\ m.id \in Requests \X Nat /\ m.list \in Lists
                        /\ m.addr \in People /\ m.sub \in BOOLEAN
  /\ \A l, k \in lists : l.id = k.id \/ l.addr = k.addr => l = k
  /\ \A m, k \in members : m.id = k.id \/ (m.list = k.list /\ m.addr = k.addr) => m = k
  /\ pc \in [Requests -> Pcs]
  /\ \A r \in Requests : rq[r].kind \in AllKinds \cup {"none"} /\ rq[r].sub \in Subs
  /\ pos \in [Requests -> Nat] /\ added \in [Requests -> Int]
  /\ clashed \subseteq Lists /\ renamed \subseteq Lists
  /\ out \in [Requests -> SUBSET (Lists \X People)]

Init ==
  /\ lists = {} /\ members = {}
  /\ pc = [r \in Requests |-> "idle"]
  /\ rq = [r \in Requests |-> NoRequest]
  /\ seen = [r \in Requests |-> NoRow]
  /\ pos = [r \in Requests |-> 1] /\ added = [r \in Requests |-> 0]
  /\ clashed = {} /\ renamed = {} /\ out = [r \in Requests |-> {}]

-----------------------------------------------------------------------------
(* History, kept when a request begins and when it is answered.            *)

Active == {r \in Requests : pc[r] \notin {"idle", "answered"}}

\* The kinds of request that may overlap at one list and do no harm.
Harmless == { {"AddMember"}, {"AddMember", "DeleteMember"},
              {"BulkAddMembers", "DeleteMember"} }

Clash(q, k) == \/ {q.kind, k.kind} \notin Harmless /\ {q.kind, k.kind} # {"DeleteMember"}
               \/ {q.kind, k.kind} = {"DeleteMember"} /\ q.todo = k.todo
               \/ q.upsert \/ k.upsert

\* A renamed list takes its count along and leaves its members behind.
Renames(q) == IF q.kind = "UpdateList" /\ q.to # q.list THEN {q.list, q.to} ELSE {}

\* Whom a request may subscribe, and whom it unsubscribes.
Persons(q) == {q.list} \X {q.todo[i] : i \in DOMAIN q.todo}
Moved(q)   == {q.list} \X ({q.to} \cap People)
OptsIn(q)  == IF q.sub = "yes" THEN Persons(q) \cup Moved(q) ELSE Moved(q) \ Persons(q)
OptsOut(q) == {x \in Persons(q) : /\ q.sub = "no"
                                  /\ q.kind = "UpdateMember" => x[2] = q.to
                                  /\ q.kind = "BulkAddMembers" => q.upsert}

\* The request's first query has found what it needs; it goes on at "at".
Begin(r, q, row, at) ==
  /\ pc[r] = "idle"
  /\ q.kind \in Kinds
  /\ rq' = [rq EXCEPT ![r] = q]
  /\ seen' = [seen EXCEPT ![r] = row]
  /\ pc' = [pc EXCEPT ![r] = at]
  /\ renamed' = renamed \cup Renames(q)
  /\ clashed' = clashed
       \cup {q.list : s \in {a \in Active : rq[a].list = q.list /\ Clash(rq[a], q)}}
  /\ out' = [s \in Requests |->
                IF s = r THEN OptsOut(q) \ UNION {OptsIn(rq[a]) : a \in Active}
                         ELSE out[s] \ OptsIn(q)]
  /\ UNCHANGED <<pos, added>>

Goto(r, at) == pc' = [pc EXCEPT ![r] = at] /\ UNCHANGED <<rq, seen, pos, added, clashed, renamed, out>>

Answer(r) == Goto(r, "answered")

\* The answer is that nothing was done.
Refuse(r) ==
  /\ pc' = [pc EXCEPT ![r] = "answered"]
  /\ out' = [out EXCEPT ![r] = {}]
  /\ UNCHANGED <<rq, seen, pos, added, clashed, renamed>>

Ask(kind, list, todo, to, sub, upsert) ==
  [kind |-> kind, list |-> list, todo |-> todo, to |-> to, sub |-> sub, upsert |-> upsert]

-----------------------------------------------------------------------------
(* Lists.  The operators named ...Bug, here and below, are plausible       *)
(* mistakes in the definition that follows them; no action uses them.      *)

CreateList(r) ==
  \E a \in Lists :
    /\ Named(a) = {}
    /\ Begin(r, Ask("CreateList", a, << >>, "none", "same", FALSE), NoRow, "answered")
    /\ lists' = lists \cup {[id |-> r, addr |-> a, count |-> 0]}
    /\ UNCHANGED members

UpdateList(r) ==
  \E l \in lists, a \in Lists :
    /\ Begin(r, Ask("UpdateList", l.addr, << >>, a, "same", FALSE), l, "save")
    /\ UNCHANGED rowVars

\* UPDATE ... WHERE id = ?; an address that is taken is an error.
SaveList(r) ==
  LET row == [seen[r] EXCEPT !.addr = rq[r].to]
      old == {l \in lists : l.id = row.id}
  IN /\ pc[r] = "save" /\ rq[r].kind = "UpdateList"
     /\ IF old = {} THEN Goto(r, "reinsert") /\ UNCHANGED rowVars
        ELSE /\ IF Named(row.addr) \subseteq old
                THEN lists' = (lists \ old) \cup {row} ELSE UNCHANGED lists
             /\ Answer(r)
             /\ UNCHANGED members

ReinsertList(r) ==
  LET row == [seen[r] EXCEPT !.addr = rq[r].to]
      old == {l \in lists : l.id = row.id}
  IN /\ pc[r] = "reinsert" /\ rq[r].kind = "UpdateList"
     /\ IF Named(row.addr) \subseteq old
        THEN lists' = (lists \ old) \cup {row} ELSE UNCHANGED lists
     /\ Answer(r)
     /\ UNCHANGED members

DeleteList(r) ==
  \E l \in lists :
    /\ Begin(r, Ask("DeleteList", l.addr, << >>, "none", "same", FALSE), l, "members")
    /\ UNCHANGED rowVars

DropsListOnlyBug(r) ==
  /\ pc[r] = "members"
  /\ Goto(r, "row")
  /\ UNCHANGED rowVars

DeleteMembersOfList(r) ==
  /\ pc[r] = "members"
  /\ members' = members \ In(rq[r].list)
  /\ Goto(r, "row")
  /\ UNCHANGED lists

DeleteListRow(r) ==
  /\ pc[r] = "row" /\ rq[r].kind = "DeleteList"
  /\ lists' = {l \in lists : l.id # seen[r].id}
  /\ Answer(r)
  /\ UNCHANGED members

-----------------------------------------------------------------------------
(* Members, one at a time and in bulk (JSON and CSV).                      *)

AddMember(r) ==
  \E l \in lists, p \in People, s \in {"yes", "no"}, upsert \in BOOLEAN :
    /\ Begin(r, Ask("AddMember", l.addr, <<p>>, "none", s, upsert), NoRow, "member")
    /\ UNCHANGED rowVars

BulkAddMembers(r) ==
  \E l \in lists, ps \in Bulks, s \in {"yes", "no"}, upsert \in BOOLEAN :
    /\ Begin(r, Ask("BulkAddMembers", l.addr, ps, "none", s, upsert), NoRow, "member")
    /\ UNCHANGED rowVars

Bulk(r)   == rq[r].kind = "BulkAddMembers"
Person(r) == rq[r].todo[pos[r]]
Found(r)  == At(rq[r].list, Person(r))

\* What follows a member that needs, or needs no, INSERT.
NextMember(r, inserted) ==
  /\ IF Bulk(r) THEN /\ pos' = [pos EXCEPT ![r] = @ + 1]
                     /\ added' = [added EXCEPT ![r] = @ + inserted]
                     /\ pc' = [pc EXCEPT ![r] = IF pos[r] < Len(rq[r].todo) THEN "member" ELSE "count"]
                ELSE /\ pc' = [pc EXCEPT ![r] = "count"]
                     /\ added' = [added EXCEPT ![r] = inserted]
                     /\ UNCHANGED pos
  /\ UNCHANGED <<rq, seen, clashed, renamed, out>>

AfterUpsert(r) == IF Bulk(r) THEN NextMember(r, 0) ELSE Answer(r)

\* First: is the address a member already?
ReadMember(r) ==
  /\ pc[r] = "member"
  /\ UNCHANGED rowVars
  /\ \/ Found(r) = {} /\ Goto(r, "insert")
     \/ /\ Found(r) # {} /\ rq[r].upsert
        /\ \E m \in Found(r) : seen' = [seen EXCEPT ![r] = m]
        /\ pc' = [pc EXCEPT ![r] = "save"]
        /\ UNCHANGED <<rq, pos, added, clashed, renamed, out>>
     \/ /\ Found(r) # {} /\ ~rq[r].upsert
        /\ IF Bulk(r) THEN NextMember(r, 0) ELSE Refuse(r)

InsertUncheckedBug(r) ==
  /\ pc[r] = "insert"
  /\ UNCHANGED lists
  /\ IF Found(r) = {}
     THEN /\ members' = members \cup {[id |-> <<r, pos[r]>>, list |-> rq[r].list,
                                        addr |-> Person(r), sub |-> TRUE]}
          /\ IF rq[r].sub = "no" THEN Goto(r, "optout") ELSE NextMember(r, 1)
     ELSE UNCHANGED members /\ NextMember(r, 1)

InsertKeepsDefaultBug(r) ==
  /\ pc[r] = "insert"
  /\ UNCHANGED lists
  /\ IF Found(r) = {}
     THEN /\ members' = members \cup {[id |-> <<r, pos[r]>>, list |-> rq[r].list,
                                        addr |-> Person(r), sub |-> TRUE]}
          /\ NextMember(r, 1)
     ELSE /\ UNCHANGED members
          /\ IF Bulk(r) THEN NextMember(r, 1) ELSE Refuse(r)

\* INSERT: gorm writes the column default TRUE for subscribed = FALSE.  Only
\* AddMember looks whether it succeeded.
InsertMember(r) ==
  /\ pc[r] = "insert"
  /\ UNCHANGED lists
  /\ IF Found(r) = {}
     THEN /\ members' = members \cup {[id |-> <<r, pos[r]>>, list |-> rq[r].list,
                                        addr |-> Person(r), sub |-> TRUE]}
          /\ IF rq[r].sub = "no" THEN Goto(r, "optout") ELSE NextMember(r, 1)
     ELSE /\ UNCHANGED members
          /\ IF Bulk(r) THEN NextMember(r, 1) ELSE Refuse(r)

\* UPDATE ... SET subscribed = FALSE WHERE id = ?
ExcludeMember(r) ==
  /\ pc[r] = "optout"
  /\ members' = {IF m.id = <<r, pos[r]>> THEN [m EXCEPT !.sub = FALSE] ELSE m : m \in members}
  /\ NextMember(r, 1)
  /\ UNCHANGED lists

\* UPDATE mailing_lists SET members_count = members_count + ? WHERE address = ?
CountMembers(r) ==
  /\ pc[r] = "count"
  /\ lists' = {IF l.addr = rq[r].list THEN [l EXCEPT !.count = @ + added[r]] ELSE l : l \in lists}
  /\ Answer(r)
  /\ UNCHANGED members

UpdateMember(r) ==
  \E m \in members, p \in People, s \in Subs :
    /\ Begin(r, Ask("UpdateMember", m.list, <<m.addr>>, p, s, FALSE), m, "save")
    /\ UNCHANGED rowVars

\* The row Save writes: what was read, with the fields that were given.
Written(r) ==
  [seen[r] EXCEPT !.addr = IF rq[r].kind = "UpdateMember" THEN rq[r].to ELSE @,
                  !.sub = IF rq[r].sub = "same" THEN @ ELSE rq[r].sub = "yes"]

PutBesideBug(row) == members' = {m \in members : m.id # row.id} \cup {row}

\* An address that is taken is an error, and nobody looks at it.
PutMember(row) ==
  LET old == {m \in members : m.id = row.id}
  IN IF At(row.list, row.addr) \subseteq old THEN members' = (members \ old) \cup {row}
                                             ELSE UNCHANGED members

SaveMember(r) ==
  /\ pc[r] = "save" /\ rq[r].kind # "UpdateList"
  /\ UNCHANGED lists
  /\ IF \E m \in members : m.id = seen[r].id
     THEN PutMember(Written(r)) /\ AfterUpsert(r)
     ELSE Goto(r, "reinsert") /\ UNCHANGED members

\* INSERT ... ON CONFLICT (id) DO UPDATE, with the column default again.
ReinsertMember(r) ==
  /\ pc[r] = "reinsert" /\ rq[r].kind # "UpdateList"
  /\ PutMember([Written(r) EXCEPT !.sub = TRUE])
  /\ AfterUpsert(r)
  /\ UNCHANGED lists

DeleteMember(r) ==
  \E m \in members :
    /\ Begin(r, Ask("DeleteMember", m.list, <<m.addr>>, "none", "same", FALSE), m, "row")
    /\ UNCHANGED rowVars

DeleteMemberRow(r) ==
  /\ pc[r] = "row" /\ rq[r].kind = "DeleteMember"
  /\ members' = {m \in members : m.id # seen[r].id}
  /\ added' = [added EXCEPT ![r] = -1]
  /\ pc' = [pc EXCEPT ![r] = "count"]
  /\ UNCHANGED <<lists, rq, seen, pos, clashed, renamed, out>>

-----------------------------------------------------------------------------
Next ==
  \E r \in Requests :
    \/ CreateList(r) \/ UpdateList(r) \/ SaveList(r) \/ ReinsertList(r)
    \/ DeleteList(r) \/ DeleteMembersOfList(r) \/ DeleteListRow(r)
    \/ AddMember(r) \/ BulkAddMembers(r)
    \/ ReadMember(r) \/ InsertMember(r) \/ ExcludeMember(r) \/ CountMembers(r)
    \/ UpdateMember(r) \/ SaveMember(r) \/ ReinsertMember(r)
    \/ DeleteMember(r) \/ DeleteMemberRow(r)

Spec == Init /\ [][Next]_vars

-----------------------------------------------------------------------------
Quiet(a) == \A r \in Active : rq[r].list # a

\* Lists no two clashing requests have met at, and with no request under way.
Undisturbed(a) == Quiet(a) /\ a \notin clashed

\* Unless clashing requests met at the list, or it was renamed, members_count
\* is the number of its members whenever nothing is under way: the statements
\* that write rows and count (498-511, 584-588, 787-821) interleave without harm.
CountIsExact ==
  \A l \in lists : Undisturbed(l.addr) /\ l.addr \notin renamed
                     => l.count = Cardinality(In(l.addr))

\* Under the same condition DeleteList (297-315) leaves no member behind, and
\* a list created again under the address starts empty.
NoStrayMembers ==
  \A a \in Lists \ renamed : Undisturbed(a) /\ Named(a) = {} => In(a) = {}

\* A person whose opt-out was answered is not subscribed until a request
\* subscribes it again, although every INSERT writes TRUE first (498-506).
OptOutStands ==
  \A m \in members :
    /\ Undisturbed(m.list) /\ m.list \notin renamed
    /\ \E r \in Requests \ Active : <<m.list, m.addr>> \in out[r]
    => ~m.sub

\* implementation_plan/mailing-lists.md:72, members_count is the "Number of
\* members in the list.": of every list, whatever met or happened at it or at an
\* earlier list of its address, once no request to it is under way.
CountIsMembers ==
  \A l \in lists : Quiet(l.addr) => l.count = Cardinality(In(l.addr))
=============================================================================
