------------------------------ MODULE Database ------------------------------
(***************************************************************************)
(* The SQL database as the record-keeping handlers use it through gorm.    *)
(* A request is a goroutine with a program: the statements it has still to *)
(* execute.  One statement is atomic, a handler is not (only the creation  *)
(* of a domain is a transaction), so concurrent requests interleave.       *)
(*                                                                         *)
(* The lookups a handler begins with are taken at one moment (they yield   *)
(* rows and ids; a refusal changes nothing and is no step); what it does   *)
(* afterwards rests on what it saw then.  A row is named after the request *)
(* that inserts it; `dead' is its deleted_at column.                       *)
(***************************************************************************)
EXTENDS Integers, FiniteSets, SequencesExt

CONSTANT Requests   \* the requests, each sent once

\* The rows that are there from the start are named after none of them.
ASSUME DatabaseAssumption == "seed" \notin Requests

VARIABLES
  db,       \* each table's rows
  todo,     \* the statements each request has still to execute
  asked,    \* history: what each request was asked
  failed,   \* history: the requests that were answered 500 half-way
  before    \* history: <<r, s>> when r was answered before s began

dbVars == <<db, todo, asked, failed, before>>

----------------------------------------------------------------------------
(* Tables.  The unique indexes of the schema; they see deleted rows too.   *)

UniqueIndex ==
  [templates         |-> {{"name"}},
   template_versions |-> {{"template", "tag"}},
   domain_webhooks   |-> {{"event", "url"}},
   account_webhooks  |-> {},
   webhook_deliveries |-> {},
   domains           |-> {{"name"}},
   dns_records       |-> {},
   smtp_credentials  |-> {{"domain", "login"}},
   tags              |-> {{"tag"}},
   routes            |-> {},
   api_keys          |-> {},
   managed_api_keys  |-> {{"value"}},
   ip_allowlist_entries |-> {{"address"}},
   ips               |-> {{"ip"}},
   ip_pools          |-> {},
   ip_pool_ips       |-> {{"pool", "ip"}},
   domain_ips        |-> {{"domain", "ip"}},
   domain_pools      |-> {{"domain"}},
   subaccounts       |-> {},
   sending_limits    |-> {{"subaccount"}},
   config            |-> {}]            \* not a table: the struct in memory

Tables == DOMAIN UniqueIndex

\* A row with some of its columns set.
With(row, set) == [c \in DOMAIN row \cup DOMAIN set |-> IF c \in DOMAIN set THEN set[c] ELSE row[c]]

\* A fresh server: no rows, and the default configuration in memory.
DefaultConfig == [verify |-> TRUE, key |-> "default"]
Config        == With([id |-> "config", dead |-> FALSE], DefaultConfig)
NoRows        == [t \in Tables |-> IF t = "config" THEN {Config} ELSE {}]

Indexed(rows, t) ==
  \A x, y \in rows : \A key \in UniqueIndex[t] :
     (\A column \in key : x[column] = y[column]) => x = y

All == << >>                                      \* no WHERE clause
Fits(x, where) == \A column \in DOMAIN where : x[column] = where[column]
by(x) == x.id[1]                                  \* the request that inserted row x
Live(t)          == {x \in db[t] : ~x.dead}
Select(t, where) == {x \in Live(t) : Fits(x, where)}

----------------------------------------------------------------------------
(* Statements.  An INSERT that a unique index refuses ends the request     *)
(* with 500 where the handler looks at the error, and is ignored where it  *)
(* does not.  gorm's Save writes every column of a row read before; when   *)
(* its UPDATE finds no live row of that id it goes on to an INSERT ... ON  *)
(* CONFLICT (id) DO UPDATE, which brings a deleted row back.               *)

Insert(t, row)         == [do |-> "put", table |-> t, row |-> row, strict |-> TRUE]
TryInsert(t, row)      == [do |-> "put", table |-> t, row |-> row, strict |-> FALSE]
Save(t, row)           == [do |-> "save", table |-> t, row |-> row, strict |-> FALSE]
SaveOrFail(t, row)     == [do |-> "save", table |-> t, row |-> row, strict |-> TRUE]
Update(t, where, set)  == [do |-> "update", table |-> t, where |-> where, row |-> set]
SoftDelete(t, where)   == [do |-> "update", table |-> t, where |-> where,
                           row |-> [dead |-> TRUE]]
Purge(t, where)        == [do |-> "purge", table |-> t, where |-> where]
IfAny(t, where, yes, no) ==
  [do |-> "test", table |-> t, where |-> where, yes |-> yes, no |-> no]
Transaction(a, b)      == [do |-> "commit", parts |-> <<a, b>>, strict |-> TRUE]

\* One statement for each of a set of rows, in whatever order a query returned them.
ForEach(rows, Statement(_)) ==
  {[i \in DOMAIN order |-> Statement(order[i])] : order \in SetToSeqs(rows)}

PutBesideBug(rows, row) == rows \cup {row}
Put(rows, row) == {x \in rows : x.id # row.id} \cup {row}

\* The rows d[t] after statement s.
Effect(d, s) ==
  LET rows == d[s.table] IN
  [d EXCEPT ![s.table] =
     CASE s.do \in {"put", "save"} -> Put(rows, s.row)
       [] s.do = "update" -> {IF ~x.dead /\ Fits(x, s.where) THEN With(x, s.row) ELSE x : x \in rows}
       [] s.do = "purge"  -> {x \in rows : ~Fits(x, s.where)}]

Result(s) == IF s.do = "commit" THEN Effect(Effect(db, s.parts[1]), s.parts[2])
                                ELSE Effect(db, s)
Writes(s) == IF s.do = "commit" THEN {s.parts[1].table, s.parts[2].table} ELSE {s.table}

Finds(s) == \E x \in Live(s.table) : x.id = s.row.id

----------------------------------------------------------------------------
(* Requests.                                                               *)

\* What a request was asked: its endpoint, the object it is on, and (for the
\* properties) the rows it saves, the columns it sets in them and the rows it deletes.
Ask(kind, on) == [kind |-> kind, on |-> on, saves |-> {}, sets |-> All, gone |-> {}]
AskSave(kind, on, t, x, set) ==
  [Ask(kind, on) EXCEPT !.saves = {<<t, x.id>>}, !.sets = set]
AskDelete(kind, on, t, rows) == [Ask(kind, on) EXCEPT !.gone = {<<t, x.id>> : x \in rows}]

NotAsked == Ask("none", "none")
Answered(r) == asked[r] # NotAsked /\ todo[r] = << >>
AskedFor(r, kinds) == asked[r].kind \in kinds

Preceded(r, s) == <<r, s>> \in before
Overlap(r, s) == /\ r # s /\ asked[r] # NotAsked /\ asked[s] # NotAsked
                 /\ ~Preceded(r, s) /\ ~Preceded(s, r)

\* An overlapping pair of requests of these kinds was made on this object.
Clash(kinds, others, on) ==
  \E r, s \in Requests : /\ Overlap(r, s)
                         /\ AskedFor(r, kinds) /\ AskedFor(s, others)
                         /\ {asked[r].on, asked[s].on} \subseteq {on, "all"}

\* A reset overlapped a request of these kinds.
ResetClash(kinds) ==
  \E r, s \in Requests : /\ Overlap(r, s)
                         /\ AskedFor(r, {"ResetAll"}) /\ AskedFor(s, kinds)

Resetting == \E r \in Requests : AskedFor(r, {"ResetAll"}) /\ todo[r] # << >>

DatabaseInit(rows) ==
  /\ db = rows
  /\ todo = [r \in Requests |-> << >>]
  /\ asked = [r \in Requests |-> NotAsked]
  /\ failed = {} /\ before = {}

\* Request r passes its checks, having read what its program says.
Begin(r, what, program) ==
  /\ asked[r] = NotAsked
  /\ asked' = [asked EXCEPT ![r] = what]
  /\ todo' = [todo EXCEPT ![r] = program]
  /\ before' = before \cup {<<s, r>> : s \in {s \in Requests : Answered(s)}}
  /\ UNCHANGED <<db, failed>>

Write(r) ==
  /\ todo[r] # << >>
  /\ LET s == Head(todo[r]) IN
       /\ s.do \in {"put", "save", "update", "purge", "commit"}
       /\ s.do = "save" => Finds(s)
       /\ IF \A t \in Writes(s) : Indexed(Result(s)[t], t)
            THEN /\ db' = Result(s)
                 /\ todo' = [todo EXCEPT ![r] = Tail(@)]
                 /\ failed' = failed
            ELSE /\ db' = db
                 /\ todo' = [todo EXCEPT ![r] = IF s.strict THEN << >> ELSE Tail(@)]
                 /\ failed' = IF s.strict THEN failed \cup {r} ELSE failed
  /\ UNCHANGED <<asked, before>>

\* Save's UPDATE affected no row: it will insert.
SaveMisses(r) ==
  /\ todo[r] # << >>
  /\ LET s == Head(todo[r]) IN
       /\ s.do = "save" /\ ~Finds(s)
       /\ todo' = [todo EXCEPT ![r] = <<[s EXCEPT !.do = "put"]>> \o Tail(@)]
  /\ UNCHANGED <<db, asked, failed, before>>

\* A query in mid-handler decides how the handler goes on.
Test(r) ==
  /\ todo[r] # << >>
  /\ LET s == Head(todo[r]) IN
       /\ s.do = "test"
       /\ todo' = [todo EXCEPT ![r] =
            (IF Select(s.table, s.where) # {} THEN s.yes ELSE s.no) \o Tail(@)]
  /\ UNCHANGED <<db, asked, failed, before>>

Execute(r) == Write(r) \/ SaveMisses(r) \/ Test(r)

----------------------------------------------------------------------------
(* Properties of every handler.                                            *)

DatabaseTypeOK ==
  /\ DOMAIN db = Tables
  /\ \A t \in Tables : /\ \A x, y \in db[t] : x.id = y.id => x = y
                       /\ Indexed(db[t], t)
  /\ failed \subseteq Requests
  /\ \A r \in Requests : todo[r] # << >> => asked[r] # NotAsked /\ r \notin failed
  /\ \A p \in before : Answered(p[1]) /\ asked[p[2]] # NotAsked

\* A row whose deletion (or the reset) was answered is gone for good, unless the
\* deletion overlapped a request that had read the row before and then saved it
\* whole: Save re-inserts a row it does not find, and revives a deleted one.
NothingComesBack ==
  \A r \in Requests : \A g \in asked[r].gone :
    Answered(r) /\ r \notin failed /\ (\E x \in Live(g[1]) : x.id = g[2]) =>
      \E s \in Requests : Overlap(r, s) /\ g \in asked[s].saves

\* What an answered update set in a row is what the row says, unless a request
\* that was not over before it set the same column, or one that overlapped it
\* saved the whole row from an older reading.
LastUpdateStands ==
  \A r \in Requests : \A g \in asked[r].saves : \A x \in db[g[1]] :
    Answered(r) /\ r \notin failed /\ x.id = g[2] /\ ~Fits(x, asked[r].sets) =>
      \E s \in Requests :
        /\ s # r /\ g \in asked[s].saves /\ ~Preceded(s, r)
        /\ \/ Overlap(s, r)
           \/ DOMAIN asked[s].sets \cap DOMAIN asked[r].sets # {}
=============================================================================
