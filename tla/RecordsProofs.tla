--------------------------- MODULE RecordsProofs ---------------------------
(***************************************************************************)
(* What every handler over the database keeps, for any number of requests  *)
(* of every component, whatever their statements' order.                   *)
(***************************************************************************)
EXTENDS Service, SequenceTheorems, FiniteSetTheorems, TLAPS

----------------------------------------------------------------------------
(* The columns of each table: those no statement ever changes, those a     *)
(* whole-row Save sets, and those that UPDATE statements set.              *)

Schema ==
  [templates         |-> [fixed |-> {"name"}, saved |-> {}, marked |-> {}],
   template_versions |-> [fixed |-> {"template", "tag"}, saved |-> {}, marked |-> {"active"}],
   domain_webhooks   |-> [fixed |-> {"event", "url"}, saved |-> {}, marked |-> {}],
   account_webhooks  |-> [fixed |-> {}, saved |-> {"url", "events"}, marked |-> {}],
   webhook_deliveries |-> [fixed |-> {"trigger", "url", "key"}, saved |-> {}, marked |-> {}],
   domains           |-> [fixed |-> {"name"},
                          saved |-> {"verified", "spam", "tls", "dkim", "tracking"},
                          marked |-> {}],
   dns_records       |-> [fixed |-> {"domain"}, saved |-> {}, marked |-> {"valid"}],
   smtp_credentials  |-> [fixed |-> {"domain", "login"}, saved |-> {"password"}, marked |-> {}],
   tags              |-> [fixed |-> {"tag"}, saved |-> {}, marked |-> {"lastSeen", "description"}],
   routes            |-> [fixed |-> {"at"}, saved |-> {"priority", "expression", "stop"},
                          marked |-> {}],
   api_keys          |-> [fixed |-> {}, saved |-> {"secret"}, marked |-> {}],
   managed_api_keys  |-> [fixed |-> {"value"}, saved |-> {}, marked |-> {}],
   ip_allowlist_entries |-> [fixed |-> {"address"}, saved |-> {"description"}, marked |-> {}],
   ips               |-> [fixed |-> {"ip"}, saved |-> {}, marked |-> {}],
   ip_pools          |-> [fixed |-> {}, saved |-> {"name"}, marked |-> {}],
   ip_pool_ips       |-> [fixed |-> {"pool", "ip"}, saved |-> {}, marked |-> {}],
   domain_ips        |-> [fixed |-> {"domain", "ip"}, saved |-> {}, marked |-> {}],
   domain_pools      |-> [fixed |-> {"domain", "pool"}, saved |-> {}, marked |-> {}],
   subaccounts       |-> [fixed |-> {}, saved |-> {"status", "features"}, marked |-> {}],
   sending_limits    |-> [fixed |-> {"subaccount"}, saved |-> {"limit"}, marked |-> {}],
   config            |-> [fixed |-> {}, saved |-> {"verify", "key"}, marked |-> {}]]

Fixed(t)   == {"id"} \cup Schema[t].fixed
Saved(t)   == Schema[t].saved
Marked(t)  == {"dead"} \cup Schema[t].marked
Columns(t) == Fixed(t) \cup Saved(t) \cup Marked(t)

----------------------------------------------------------------------------
(* Programs.  A primitive is a statement on one table, whatever is done    *)
(* about its failure; a statement leads to primitives, at once or after a  *)
(* query.                                                                  *)

Elements(q)   == {q[i] : i \in DOMAIN q}
IsSequence(q) == q \in Seq(Elements(q))

Simple  == {"put", "save", "update", "purge"}
Special == {"test", "ensure", "issue", "collect", "deliver"}

Store(t, row) == [do |-> "put", table |-> t, row |-> row]
Prim(s)       == IF s.do \in {"put", "save"} THEN Store(s.table, s.row) ELSE s

Prims(r, s) ==
  IF s.do \in Simple THEN {Prim(s)}
  ELSE IF s.do = "commit" THEN {Prim(s.parts[1]), Prim(s.parts[2])}
  ELSE IF s.do = "ensure"
         THEN {Store("tags", s.row), Update("tags", [tag |-> s.row.tag], [lastSeen |-> r])}
  ELSE IF s.do = "issue"
         THEN {Store("managed_api_keys", ManagedAPIKey(<<r, 1>>, v)) : v \in {s.value} \cup KeyValues}
  ELSE {}

Branches(s) == IF s.do = "test" THEN Elements(s.yes) \cup Elements(s.no) ELSE {s}
Leads(r, s) == UNION {Prims(r, b) : b \in Branches(s)}
WillOf(r, q) == UNION {Leads(r, s) : s \in Elements(q)}
Will(r)      == WillOf(r, todo[r])

\* The row x of table t.
Key(t, x) == <<t, x.id>>

\* The rows a statement of r may insert.
Ids(r, s) ==
  IF s.do \in {"collect", "deliver"} THEN {"webhook_deliveries"} \X ({r} \X Nat)
  ELSE {<<p.table, p.row.id>> : p \in {p \in Leads(r, s) : p.do = "put" /\ by(p.row) = r}}
IdsOf(r, q) == UNION {Ids(r, s) : s \in Elements(q)}

Statement(r, s) ==
  \/ s.do \in Simple /\ (s.do = "save" => {"do", "table", "row"} \subseteq DOMAIN s)
  \/ /\ s.do = "commit" /\ s.strict
     /\ s.parts[1].do \in Simple /\ s.parts[2].do \in Simple
     /\ s.parts[1].table # s.parts[2].table
  \/ s.do = "ensure" /\ s.row.id[1] = r /\ s.row.lastSeen = r
  \/ s.do = "issue"
  \/ s.do \in {"collect", "deliver"} /\ IsFiniteSet(s.urls)
  \/ s = Invalid

Apart(r, q)    == \A i, j \in DOMAIN q : i # j => Ids(r, q[i]) \cap Ids(r, q[j]) = {}
Sequel(r, q)   == IsSequence(q) /\ Apart(r, q)
Branch(r, q)   == Sequel(r, q) /\ \A s \in Elements(q) : s.do \in Simple \cup {"commit"} /\ Statement(r, s)
Piece(r, s)    == \/ Statement(r, s)
                  \/ s.do = "test" /\ s.table \in Tables /\ Branch(r, s.yes) /\ Branch(r, s.no)
Program(r, q)  == Sequel(r, q) /\ \A s \in Elements(q) : Piece(r, s)

Deletes(p, g) == /\ p.table = g[1]
                 /\ p.do = "purge" \/ (p.do = "update" /\ "dead" \in DOMAIN p.row)
SetsColumn(p, g, c) ==
  /\ p.table = g[1]
  /\ \/ p.do = "put" /\ p.row.id = g[2]
     \/ p.do = "update" /\ c \in DOMAIN p.row

\* What r, having been asked a, may do to one table.
Stores(r, a, p) ==
  /\ p.table # "config" /\ DOMAIN p.row = Columns(p.table) /\ ~p.row.dead
  /\ by(p.row) # r => /\ <<p.table, p.row.id>> \in a.saves
                      /\ \A c \in DOMAIN a.sets : p.row[c] = a.sets[c]
Configures(a, p) ==
  /\ p.where = All /\ a.saves = {<<"config", "config">>}
  /\ DOMAIN p.row \subseteq Saved("config")
  /\ \A c \in DOMAIN p.row : c \in DOMAIN a.sets /\ p.row[c] = a.sets[c]
Marks(p) ==
  DOMAIN p.row \subseteq Marked(p.table) /\ ("dead" \in DOMAIN p.row => p.row.dead)
Meant(r, a, p) ==
  /\ p.table \in Tables
  /\ \/ p.do = "put" /\ Stores(r, a, p)
     \/ p.do = "update" /\ p.table = "config" /\ Configures(a, p)
     \/ p.do = "update" /\ p.table # "config" /\ Marks(p)
     \/ p.do = "purge" /\ p.table # "config"
  /\ \A g \in a.gone : Deletes(p, g) => DOMAIN p.where \subseteq Fixed(p.table)

----------------------------------------------------------------------------
Began(q) == q \in Requests /\ asked[q] # NotAsked
Known(q) == q = "seed" \/ Began(q)

\* The rows r read and will save.
Held(r, t) == {p.row : p \in {p \in Will(r) : p.do = "put" /\ p.table = t /\ by(p.row) # r}}
Copies(t)  == db[t] \cup UNION {Held(r, t) : r \in Requests}

Shapes ==
  /\ DOMAIN todo = Requests /\ DOMAIN asked = Requests /\ before \subseteq Requests \X Requests
  /\ \A q \in failed : asked[q] # NotAsked
  /\ \A t \in Tables : IsFiniteSet(db[t]) /\ \A x \in db[t] : DOMAIN x = Columns(t)
  /\ \A r \in Requests : Program(r, todo[r]) /\ \A p \in Will(r) : Meant(r, asked[r], p)
  /\ \A r \in Requests : \A s \in Elements(todo[r]) :
       s.do \in Special => asked[r].saves = {} /\ asked[r].gone = {}

\* What was asked of existing rows.
Targets(a) ==
  /\ \A g \in a.saves \cup a.gone : g = <<g[1], g[2]>> /\ g[1] \in Tables
  /\ \A g \in a.saves : DOMAIN a.sets \subseteq Saved(g[1]) /\ (g[1] = "config" => g[2] = "config")
  /\ \A g \in a.gone : g[1] # "config" /\ g \notin a.saves

Origins ==
  /\ \A r \in Requests : Targets(asked[r])
  /\ \A t \in Tables \ {"config"} : \A x \in db[t] : Known(by(x))
  /\ \A r \in Requests : \A g \in asked[r].saves \cup asked[r].gone : g[1] # "config" => Known(g[2][1])
  /\ db["config"] # {} /\ \A x \in db["config"] : x.id = "config" /\ ~x.dead

Unborn ==
  \A r \in Requests :
     /\ \A t \in Tables : \A x \in db[t] : <<t, x.id>> \notin IdsOf(r, todo[r])
     /\ \A q \in Requests : \A g \in asked[q].saves \cup asked[q].gone : g \notin IdsOf(r, todo[r])

Alike ==
  \A t \in Tables : \A x, y \in Copies(t) : x.id = y.id => \A c \in Fixed(t) : x[c] = y[c]

RecordsInv == DatabaseTypeOK /\ Shapes /\ Origins /\ Unborn /\ Alike

\* A row that is being deleted: every deletion still to come hits it, and it is
\* gone once there is none, with all who had read it before to save it.
Hits(r, g) ==
  \A p \in Will(r) : Deletes(p, g) => \A x \in Copies(g[1]) : x.id = g[2] => Fits(x, p.where)
Rescued(r, g) == \E s \in Requests : Overlap(r, s) /\ g \in asked[s].saves
Gone(r, g) == /\ \A x \in Live(g[1]) : x.id # g[2]
              /\ \A s \in Requests : g \in asked[s].saves => Preceded(s, r)
Doomed ==
  \A r \in Requests : \A g \in asked[r].gone :
     /\ Hits(r, g)
     /\ r \in failed \/ (\E p \in Will(r) : Deletes(p, g)) \/ Rescued(r, g) \/ Gone(r, g)

\* A column that is being set: it is set once there is nothing more to set it, in
\* the row and in the copies of all who will save it.
Excused(r, g, c) ==
  \E s \in Requests : /\ s # r /\ g \in asked[s].saves /\ ~Preceded(s, r)
                      /\ Overlap(s, r) \/ c \in DOMAIN asked[s].sets
Set(r, g, c) ==
  /\ \A x \in db[g[1]] : x.id = g[2] => x[c] = asked[r].sets[c]
  /\ \A s \in Requests \ {r} : \A x \in Held(s, g[1]) : x.id = g[2] => x[c] = asked[r].sets[c]
Standing ==
  \A r \in Requests : \A g \in asked[r].saves : \A c \in DOMAIN asked[r].sets :
     r \in failed \/ Excused(r, g, c) \/ (\E p \in Will(r) : SetsColumn(p, g, c)) \/ Set(r, g, c)


----------------------------------------------------------------------------
(* The tables and their columns.                                           *)

LEMMA TheTables ==
  Tables = {"templates", "template_versions", "domain_webhooks", "account_webhooks",
            "webhook_deliveries", "domains", "dns_records", "smtp_credentials", "tags", "routes",
            "api_keys", "managed_api_keys", "ip_allowlist_entries", "ips", "ip_pools",
            "ip_pool_ips", "domain_ips", "domain_pools", "subaccounts", "sending_limits", "config"}
BY DEF Tables, UniqueIndex

\* A table's columns are of three kinds, and a unique index is over fixed ones.
LEMMA TheColumns ==
  ASSUME NEW t \in Tables
  PROVE  /\ "id" \in Fixed(t) /\ "dead" \in Marked(t)
         /\ Fixed(t) \cap Saved(t) = {} /\ Fixed(t) \cap Marked(t) = {} /\ Saved(t) \cap Marked(t) = {}
         /\ \A key \in UniqueIndex[t] : key \subseteq Fixed(t)
BY TheTables DEF Fixed, Marked, Saved, Schema, UniqueIndex

LEMMA NothingFits == ASSUME NEW x PROVE Fits(x, All)
BY DEF Fits, All

LEMMA WithColumn ==
  ASSUME NEW x, NEW set
  PROVE  /\ DOMAIN With(x, set) = DOMAIN x \cup DOMAIN set
         /\ \A c \in DOMAIN set : With(x, set)[c] = set[c]
         /\ \A c \in DOMAIN x \ DOMAIN set : With(x, set)[c] = x[c]
BY DEF With

LEMMA WithSet ==
  ASSUME NEW x, NEW set, NEW c \in DOMAIN set
  PROVE  With(x, set)[c] = set[c]
BY DEF With

LEMMA DeadWith ==
  ASSUME NEW x, NEW set, "dead" \in DOMAIN set, set.dead
  PROVE  With(x, set).dead
<1>1. /\ DOMAIN With(x, set) = DOMAIN x \cup DOMAIN set
      /\ \A c \in DOMAIN set : With(x, set)[c] = set[c]
      /\ \A c \in DOMAIN x \ DOMAIN set : With(x, set)[c] = x[c]
  BY WithColumn
<1>2. With(x, set).dead = set.dead
  BY <1>1
<1>3. QED
  BY <1>2, Zenon

----------------------------------------------------------------------------
(* Sequences.                                                              *)

LEMMA ElementsOfTuples ==
  ASSUME NEW a, NEW b
  PROVE  /\ Elements(<< >>) = {} /\ IsSequence(<< >>)
         /\ Elements(<<a>>) = {a} /\ IsSequence(<<a>>)
         /\ Elements(<<a, b>>) = {a, b} /\ IsSequence(<<a, b>>)
<1>1. Elements(<< >>) = {} /\ Elements(<<a>>) = {a} /\ Elements(<<a, b>>) = {a, b}
  BY DEF Elements
<1>2. << >> \in Seq({}) /\ <<a>> \in Seq({a}) /\ <<a, b>> \in Seq({a, b})
  OBVIOUS
<1>3. QED
  BY <1>1, <1>2 DEF IsSequence

LEMMA ElementsOf ==
  ASSUME NEW q, IsSequence(q)
  PROVE  /\ Len(q) \in Nat /\ DOMAIN q = 1..Len(q)
         /\ \A x \in Elements(q) : \E i \in DOMAIN q : x = q[i]
         /\ \A i \in DOMAIN q : q[i] \in Elements(q)
         /\ q # << >> => 1 \in DOMAIN q /\ Head(q) = q[1]
BY DEF IsSequence, Elements

LEMMA TailOf ==
  ASSUME NEW q, IsSequence(q), q # << >>
  PROVE  /\ IsSequence(Tail(q)) /\ DOMAIN Tail(q) = 1..(Len(q) - 1)
         /\ \A i \in DOMAIN Tail(q) : i + 1 \in DOMAIN q /\ Tail(q)[i] = q[i + 1]
         /\ Elements(q) = {Head(q)} \cup Elements(Tail(q))
<1>1. /\ q \in Seq(Elements(q)) /\ Len(q) \in Nat \ {0} /\ DOMAIN q = 1..Len(q)
      /\ Tail(q) \in Seq(Elements(q)) /\ Len(Tail(q)) = Len(q) - 1
      /\ \A i \in 1..Len(Tail(q)) : Tail(q)[i] = q[i + 1]
  BY HeadTailProperties, ElementsOf DEF IsSequence
<1>2. DOMAIN Tail(q) = 1..(Len(q) - 1)
  BY <1>1
<1>3. \A i \in DOMAIN Tail(q) : i + 1 \in DOMAIN q /\ Tail(q)[i] = q[i + 1]
  BY <1>1, <1>2
<1>4. IsSequence(Tail(q))
  <2>1. \A i \in DOMAIN Tail(q) : Tail(q)[i] \in Elements(Tail(q))
    BY DEF Elements
  <2> DEFINE n == Len(Tail(q))
             T == Elements(Tail(q))
  <2>2. n \in Nat /\ Tail(q) \in [1..n -> Elements(q)]
    BY <1>1, LenProperties
  <2>3. Tail(q) \in [1..n -> T]
    BY <1>1, <1>2, <2>1, <2>2
  <2> HIDE DEF n, T
  <2>4. Tail(q) \in Seq(T)
    BY <2>2, <2>3, SeqDef
  <2>5. QED
    BY <2>4 DEF T, IsSequence
<1>5. ASSUME NEW x \in Elements(q) PROVE x = Head(q) \/ x \in Elements(Tail(q))
  <2>1. PICK i \in 1..Len(q) : x = q[i]
    BY <1>1 DEF Elements
  <2>2. CASE i = 1
    BY <2>1, <2>2, ElementsOf
  <2>3. CASE i # 1
    <3>1. i - 1 \in DOMAIN Tail(q) /\ Tail(q)[i - 1] = q[i]
      BY <1>1, <1>2, <2>3
    <3>2. QED
      BY <2>1, <3>1 DEF Elements
  <2>4. QED
    BY <2>2, <2>3
<1>6. Head(q) \in Elements(q) /\ \A x \in Elements(Tail(q)) : x \in Elements(q)
  BY <1>3, ElementsOf DEF Elements
<1>7. QED
  BY <1>2, <1>3, <1>4, <1>5, <1>6

LEMMA ConcatOf ==
  ASSUME NEW p, NEW q, IsSequence(p), IsSequence(q)
  PROVE  /\ IsSequence(p \o q) /\ Elements(p \o q) = Elements(p) \cup Elements(q)
         /\ DOMAIN (p \o q) = 1..(Len(p) + Len(q)) /\ Len(p) \in Nat /\ Len(q) \in Nat
         /\ \A i \in DOMAIN (p \o q) :
               (p \o q)[i] = IF i <= Len(p) THEN p[i] ELSE q[i - Len(p)]
<1> DEFINE S == Elements(p) \cup Elements(q)
<1>1. p \in Seq(S) /\ q \in Seq(S)
  BY SeqMonotonic, Elements(p) \subseteq S, Elements(q) \subseteq S DEF IsSequence
<1>2. /\ p \o q \in Seq(S) /\ Len(p \o q) = Len(p) + Len(q)
      /\ \A i \in 1..(Len(p) + Len(q)) :
           (p \o q)[i] = IF i <= Len(p) THEN p[i] ELSE q[i - Len(p)]
  BY <1>1, ConcatProperties
<1>3. Len(p) \in Nat /\ Len(q) \in Nat /\ DOMAIN p = 1..Len(p) /\ DOMAIN q = 1..Len(q)
  BY ElementsOf
<1>4. DOMAIN (p \o q) = 1..(Len(p) + Len(q))
  BY <1>1, <1>2
<1>5. \A x \in Elements(p) : x \in Elements(p \o q)
  <2> SUFFICES ASSUME NEW i \in 1..Len(p) PROVE p[i] \in Elements(p \o q)
    BY <1>3 DEF Elements
  <2>1. i \in DOMAIN (p \o q) /\ (p \o q)[i] = p[i]
    BY <1>2, <1>3, <1>4
  <2>2. QED
    BY <2>1 DEF Elements
<1>6. \A x \in Elements(q) : x \in Elements(p \o q)
  <2> SUFFICES ASSUME NEW i \in 1..Len(q) PROVE q[i] \in Elements(p \o q)
    BY <1>3 DEF Elements
  <2>1. i + Len(p) \in DOMAIN (p \o q) /\ (p \o q)[i + Len(p)] = q[i]
    BY <1>2, <1>3, <1>4
  <2>2. QED
    BY <2>1 DEF Elements
<1>7. Elements(p \o q) = S
  <2>1. \A x \in Elements(p \o q) : x \in S
    BY <1>2, <1>3, <1>4 DEF Elements
  <2>2. QED
    BY <1>5, <1>6, <2>1
<1>8. QED
  BY <1>2, <1>3, <1>4, <1>7 DEF IsSequence

----------------------------------------------------------------------------
(* What a primitive does to the rows of its table.                         *)

Apply(p, R) ==
  IF p.do = "put" THEN Put(R, p.row)
  ELSE IF p.do = "update"
         THEN {IF ~x.dead /\ Fits(x, p.where) THEN With(x, p.row) ELSE x : x \in R}
  ELSE {x \in R : ~Fits(x, p.where)}

\* What is meant whatever was asked.
Sane(p) ==
  /\ p.table \in Tables /\ p.do \in {"put", "update", "purge"}
  /\ p.do = "put" => DOMAIN p.row = Columns(p.table) /\ ~p.row.dead
  /\ p.do = "update" => /\ DOMAIN p.row \subseteq Saved(p.table) \cup Marked(p.table)
                        /\ "dead" \in DOMAIN p.row => p.row.dead

RowsOf(t, R) == /\ \A x \in R : DOMAIN x = Columns(t)
                /\ \A x, y \in R : x.id = y.id => x = y

LEMMA EffectIsApply ==
  ASSUME NEW d, NEW s, DOMAIN d = Tables, s.table \in Tables, s.do \in Simple
  PROVE  /\ Prim(s).table = s.table
         /\ DOMAIN Effect(d, s) = Tables
         /\ Effect(d, s)[s.table] = Apply(Prim(s), d[s.table])
         /\ \A t \in Tables \ {s.table} : Effect(d, s)[t] = d[t]
<1>1. CASE s.do \in {"put", "save"}
  BY <1>1 DEF Effect, Apply, Prim, Store
<1>2. CASE s.do = "update"
  BY <1>2 DEF Effect, Apply, Prim
<1>3. CASE s.do = "purge"
  BY <1>3 DEF Effect, Apply, Prim
<1>4. QED
  BY <1>1, <1>2, <1>3 DEF Simple

\* An UPDATE of a row.
LEMMA Updated ==
  ASSUME NEW p, Sane(p), p.do = "update", NEW x, DOMAIN x = Columns(p.table)
  PROVE  /\ DOMAIN With(x, p.row) = Columns(p.table)
         /\ \A c \in Fixed(p.table) : With(x, p.row)[c] = x[c]
         /\ With(x, p.row).id = x.id
         /\ \A c \in Columns(p.table) \ DOMAIN p.row : With(x, p.row)[c] = x[c]
         /\ ~With(x, p.row).dead => ~x.dead
<1>1. p.table \in Tables
  BY DEF Sane
<1>2. /\ DOMAIN p.row \subseteq Columns(p.table) /\ Fixed(p.table) \cap DOMAIN p.row = {}
      /\ Fixed(p.table) \subseteq Columns(p.table) /\ "id" \in Fixed(p.table)
      /\ "dead" \in Columns(p.table)
  BY <1>1, TheColumns DEF Sane, Columns
<1>0. /\ DOMAIN With(x, p.row) = DOMAIN x \cup DOMAIN p.row
      /\ \A c \in DOMAIN p.row : With(x, p.row)[c] = p.row[c]
      /\ \A c \in DOMAIN x \ DOMAIN p.row : With(x, p.row)[c] = x[c]
  BY WithColumn
<1>3. \A c \in Columns(p.table) \ DOMAIN p.row : With(x, p.row)[c] = x[c]
  BY <1>0
<1>4. ~With(x, p.row).dead => ~x.dead
  <2>1. CASE "dead" \in DOMAIN p.row
    <3>1. With(x, p.row).dead = p.row.dead
      BY <2>1, <1>0
    <3>2. p.row.dead
      BY <2>1 DEF Sane
    <3>3. QED
      BY <3>1, <3>2, Zenon
  <2>2. CASE "dead" \notin DOMAIN p.row
    <3>1. With(x, p.row).dead = x.dead
      BY <1>2, <1>3, <2>2
    <3>2. QED
      BY <3>1, Zenon
  <2>3. QED
    BY <2>1, <2>2
<1>5. With(x, p.row).id = x.id
  BY <1>2, <1>3
<1>6. QED
  BY <1>2, <1>3, <1>4, <1>5, <1>0

\* Where the rows come from, and where they go.
LEMMA RowsAfter ==
  ASSUME NEW p, Sane(p), NEW R, RowsOf(p.table, R)
  PROVE  /\ RowsOf(p.table, Apply(p, R))
         /\ \A x \in Apply(p, R) :
              \/ p.do = "put" /\ x = p.row
              \/ x \in R /\ ~(p.do = "purge" /\ Fits(x, p.where))
                            /\ ~(p.do = "update" /\ ~x.dead /\ Fits(x, p.where))
                            /\ ~(p.do = "put" /\ x.id = p.row.id)
              \/ p.do = "update" /\ \E y \in R : ~y.dead /\ Fits(y, p.where) /\ x = With(y, p.row)
         /\ \A x \in R :
              \/ x \in Apply(p, R)
              \/ p.do = "put" /\ x.id = p.row.id
              \/ p.do = "purge" /\ Fits(x, p.where)
              \/ p.do = "update" /\ ~x.dead /\ Fits(x, p.where) /\ With(x, p.row) \in Apply(p, R)
         /\ p.do = "put" => p.row \in Apply(p, R)
<1>1. CASE p.do = "put"
  BY <1>1 DEF Apply, Put, RowsOf, Sane
<1>2. CASE p.do = "update"
  <2>1. Apply(p, R) = {IF ~x.dead /\ Fits(x, p.where) THEN With(x, p.row) ELSE x : x \in R}
    BY <1>2 DEF Apply
  <2>2. \A x \in R : DOMAIN With(x, p.row) = Columns(p.table) /\ With(x, p.row).id = x.id
    BY <1>2, Updated DEF RowsOf
  <2>3. RowsOf(p.table, Apply(p, R))
    BY <2>1, <2>2 DEF RowsOf
  <2>4. QED
    BY <1>2, <2>1, <2>3
<1>3. CASE p.do = "purge"
  BY <1>3 DEF Apply, RowsOf
<1>4. QED
  BY <1>1, <1>2, <1>3 DEF Sane, Simple

\* A unique index refuses only the INSERT of a row that was not there.
LEMMA NeverRefused ==
  ASSUME NEW p, Sane(p), NEW R, RowsOf(p.table, R), Indexed(R, p.table),
         p.do = "put" => \E x \in R : x.id = p.row.id /\ \A c \in Fixed(p.table) : x[c] = p.row[c]
  PROVE  Indexed(Apply(p, R), p.table)
<1>1. p.table \in Tables /\ \A key \in UniqueIndex[p.table] : key \subseteq Fixed(p.table)
  BY TheColumns DEF Sane
<1>2. \A x \in Apply(p, R) : \E y \in R :
         x.id = y.id /\ \A c \in Fixed(p.table) : x[c] = y[c]
  <2>1. \A y \in R : p.do = "update" => /\ With(y, p.row).id = y.id
                                           /\ \A c \in Fixed(p.table) : With(y, p.row)[c] = y[c]
    BY Updated DEF RowsOf
  <2>2. QED
    BY <2>1, RowsAfter
<1>3. \A x, y \in Apply(p, R) : x.id = y.id => x = y
  BY RowsAfter DEF RowsOf
<1>4. SUFFICES ASSUME NEW x \in Apply(p, R), NEW y \in Apply(p, R),
                      NEW key \in UniqueIndex[p.table], \A column \in key : x[column] = y[column]
               PROVE  x = y
  BY DEF Indexed
<1>5. PICK u \in R : x.id = u.id /\ \A c \in Fixed(p.table) : x[c] = u[c]
  BY <1>2
<1>6. PICK v \in R : y.id = v.id /\ \A c \in Fixed(p.table) : y[c] = v[c]
  BY <1>2
<1>7. \A column \in key : u[column] = v[column]
  BY <1>1, <1>4, <1>5, <1>6
<1>8. u = v
  BY <1>7 DEF Indexed
<1>9. QED
  BY <1>3, <1>5, <1>6, <1>8

----------------------------------------------------------------------------
(* Programs, statement by statement.                                       *)

LEMMA MeantIsSane ==
  ASSUME NEW r, NEW a, NEW p, Meant(r, a, p)
  PROVE  Sane(p)
<1>1. CASE p.do = "put" /\ Stores(r, a, p)
  BY <1>1 DEF Meant, Sane, Stores
<1>2. CASE p.do = "update" /\ p.table = "config" /\ Configures(a, p)
  <2>1. DOMAIN p.row \subseteq Saved(p.table) \cup Marked(p.table) /\ "dead" \notin DOMAIN p.row
    BY <1>2, TheColumns DEF Configures, Meant
  <2>2. QED
    BY <1>2, <2>1 DEF Meant, Sane
<1>3. CASE p.do = "update" /\ p.table # "config" /\ Marks(p)
  BY <1>3 DEF Meant, Sane, Marks
<1>4. CASE p.do = "purge" /\ p.table # "config"
  BY <1>4 DEF Meant, Sane
<1>5. QED
  BY <1>1, <1>2, <1>3, <1>4 DEF Meant

LEMMA NoStatement ==
  ASSUME NEW r
  PROVE  Program(r, << >>) /\ WillOf(r, << >>) = {} /\ IdsOf(r, << >>) = {}
<1>1. Elements(<< >>) = {} /\ IsSequence(<< >>)
  BY ElementsOfTuples
<1>2. DOMAIN << >> = {}
  OBVIOUS
<1>3. QED
  BY <1>1, <1>2 DEF Program, Sequel, Apart, WillOf, IdsOf

LEMMA OneStatement ==
  ASSUME NEW r, NEW s, Piece(r, s)
  PROVE  /\ Program(r, <<s>>) /\ Elements(<<s>>) = {s}
         /\ WillOf(r, <<s>>) = Leads(r, s) /\ IdsOf(r, <<s>>) = Ids(r, s)
<1>1. Elements(<<s>>) = {s} /\ IsSequence(<<s>>)
  BY ElementsOfTuples
<1>2. DOMAIN <<s>> = {1}
  OBVIOUS
<1>3. QED
  BY <1>1, <1>2 DEF Program, Sequel, Apart, WillOf, IdsOf

LEMMA ProgramParts ==
  ASSUME NEW r, NEW q, Program(r, q), q # << >>
  PROVE  /\ Program(r, Tail(q)) /\ Piece(r, Head(q))
         /\ Elements(q) = {Head(q)} \cup Elements(Tail(q))
         /\ WillOf(r, q) = Leads(r, Head(q)) \cup WillOf(r, Tail(q))
         /\ IdsOf(r, q) = Ids(r, Head(q)) \cup IdsOf(r, Tail(q))
         /\ Ids(r, Head(q)) \cap IdsOf(r, Tail(q)) = {}
<1>1. IsSequence(q) /\ Apart(r, q)
  BY DEF Program, Sequel
<1>2. /\ IsSequence(Tail(q)) /\ DOMAIN Tail(q) = 1..(Len(q) - 1)
      /\ \A i \in DOMAIN Tail(q) : i + 1 \in DOMAIN q /\ Tail(q)[i] = q[i + 1]
      /\ Elements(q) = {Head(q)} \cup Elements(Tail(q))
  BY <1>1, TailOf
<1>3. 1 \in DOMAIN q /\ Head(q) = q[1] /\ Len(q) \in Nat
  BY <1>1, ElementsOf
<1>4. Apart(r, Tail(q))
  <2> SUFFICES ASSUME NEW i \in DOMAIN Tail(q), NEW j \in DOMAIN Tail(q), i # j
               PROVE  Ids(r, Tail(q)[i]) \cap Ids(r, Tail(q)[j]) = {}
    BY DEF Apart
  <2>1. i \in Int /\ j \in Int /\ i + 1 # j + 1
    BY <1>2, <1>3
  <2>2. Ids(r, q[i + 1]) \cap Ids(r, q[j + 1]) = {}
    BY <1>1, <1>2, <2>1 DEF Apart
  <2>3. QED
    BY <1>2, <2>2
<1>5. Program(r, Tail(q)) /\ Piece(r, Head(q))
  BY <1>2, <1>4 DEF Program, Sequel
<1>6. ASSUME NEW s \in Elements(Tail(q)) PROVE Ids(r, Head(q)) \cap Ids(r, s) = {}
  <2>1. PICK i \in DOMAIN Tail(q) : s = Tail(q)[i]
    BY DEF Elements
  <2>2. i + 1 \in DOMAIN q /\ s = q[i + 1] /\ i + 1 # 1
    BY <1>2, <1>3, <2>1
  <2>3. QED
    BY <1>1, <1>3, <2>2 DEF Apart
<1>7. QED
  BY <1>2, <1>5, <1>6 DEF WillOf, IdsOf

LEMMA ProgramJoined ==
  ASSUME NEW r, NEW b, NEW q, Program(r, b), Program(r, q), IdsOf(r, b) \cap IdsOf(r, q) = {}
  PROVE  /\ Program(r, b \o q) /\ Elements(b \o q) = Elements(b) \cup Elements(q)
         /\ WillOf(r, b \o q) = WillOf(r, b) \cup WillOf(r, q)
         /\ IdsOf(r, b \o q) = IdsOf(r, b) \cup IdsOf(r, q)
<1>1. IsSequence(b) /\ Apart(r, b) /\ IsSequence(q) /\ Apart(r, q)
  BY DEF Program, Sequel
<1>2. /\ IsSequence(b \o q) /\ Elements(b \o q) = Elements(b) \cup Elements(q)
      /\ DOMAIN (b \o q) = 1..(Len(b) + Len(q)) /\ Len(b) \in Nat /\ Len(q) \in Nat
      /\ \A i \in DOMAIN (b \o q) :
           (b \o q)[i] = IF i <= Len(b) THEN b[i] ELSE q[i - Len(b)]
  BY <1>1, ConcatOf
<1>3. DOMAIN b = 1..Len(b) /\ DOMAIN q = 1..Len(q)
  BY <1>1, ElementsOf
<1>4. \A i \in DOMAIN b : Ids(r, b[i]) \subseteq IdsOf(r, b)
  BY DEF IdsOf, Elements
<1>5. \A i \in DOMAIN q : Ids(r, q[i]) \subseteq IdsOf(r, q)
  BY DEF IdsOf, Elements
<1>6. ASSUME NEW i \in DOMAIN (b \o q), NEW j \in DOMAIN (b \o q), i # j
      PROVE  Ids(r, (b \o q)[i]) \cap Ids(r, (b \o q)[j]) = {}
  <2>1. CASE i <= Len(b) /\ j <= Len(b)
    <3>1. i \in DOMAIN b /\ j \in DOMAIN b /\ (b \o q)[i] = b[i] /\ (b \o q)[j] = b[j]
      BY <1>2, <1>3, <2>1
    <3>2. QED
      BY <1>1, <1>6, <3>1 DEF Apart
  <2>2. CASE i > Len(b) /\ j > Len(b)
    <3>1. /\ i - Len(b) \in DOMAIN q /\ j - Len(b) \in DOMAIN q /\ i - Len(b) # j - Len(b)
          /\ (b \o q)[i] = q[i - Len(b)] /\ (b \o q)[j] = q[j - Len(b)]
      BY <1>2, <1>3, <1>6, <2>2
    <3>2. QED
      BY <1>1, <3>1 DEF Apart
  <2>3. CASE i <= Len(b) /\ j > Len(b)
    <3>1. /\ i \in DOMAIN b /\ (b \o q)[i] = b[i]
          /\ j - Len(b) \in DOMAIN q /\ (b \o q)[j] = q[j - Len(b)]
      BY <1>2, <1>3, <2>3
    <3>2. QED
      BY <1>4, <1>5, <3>1
  <2>4. CASE i > Len(b) /\ j <= Len(b)
    <3>1. /\ j \in DOMAIN b /\ (b \o q)[j] = b[j]
          /\ i - Len(b) \in DOMAIN q /\ (b \o q)[i] = q[i - Len(b)]
      BY <1>2, <1>3, <2>4
    <3>2. QED
      BY <1>4, <1>5, <3>1
  <2>5. i \in Int /\ j \in Int
    BY <1>2
  <2>6. (i <= Len(b) \/ i > Len(b)) /\ (j <= Len(b) \/ j > Len(b))
    BY <1>2, <2>5
  <2>7. QED
    BY <2>1, <2>2, <2>3, <2>4, <2>6
<1>7. Program(r, b \o q)
  BY <1>2, <1>6 DEF Program, Sequel, Apart
<1>8. QED
  BY <1>2, <1>7 DEF WillOf, IdsOf

\* A function on 1..n is a sequence.
IsList(f, n) == n \in Nat /\ f = [i \in 1..n |-> f[i]]

LEMMA Listed ==
  ASSUME NEW n, NEW f, IsList(f, n)
  PROVE  IsSequence(f)
<1> DEFINE E == Elements(f)
<1>1. n \in Nat /\ f \in [1..n -> E]
  BY DEF Elements, IsList
<1> HIDE DEF E
<1>2. f \in Seq(E)
  BY <1>1, SeqDef
<1>3. QED
  BY <1>2 DEF E, IsSequence

----------------------------------------------------------------------------
(* What a request's next step does.                                        *)

\* p is carried out on table t.
Ran(r, p, t) == /\ p.table = t /\ db'[t] = Apply(p, db[t])
                /\ p.do = "put" /\ by(p.row) = r => <<t, p.row.id>> \notin IdsOf(r, todo'[r])

\* What becomes of a primitive r had still to do.
Followed(r, p) ==
  \/ p \in WillOf(r, todo'[r])
  \/ r \in failed'
  \/ db'[p.table] = Apply(p, db[p.table])
  \/ /\ p.do = "put" /\ db'[p.table] = db[p.table]
     /\ ~Indexed(Apply(p, db[p.table]), p.table)

\* The only primitives that are not there from the start.
Records(r, p) ==
  /\ Deliver(r) /\ p.do = "put" /\ p.table = "webhook_deliveries"
  /\ p.row.trigger = r /\ p.row.key \in SigningKey
  /\ DOMAIN p.row = Columns("webhook_deliveries") /\ ~p.row.dead /\ by(p.row) = r

TablesAfter(r) ==
  /\ DOMAIN db' = Tables
  /\ \A t \in Tables : /\ Indexed(db'[t], t)
                       /\ db'[t] = db[t] \/ \E p \in Will(r) : Ran(r, p, t)

ProgramAfter(r) ==
  /\ Program(r, todo'[r])
  /\ IdsOf(r, todo'[r]) \subseteq IdsOf(r, todo[r])
  /\ \A p \in WillOf(r, todo'[r]) : p \in Will(r) \/ Records(r, p)
  /\ \A s \in Elements(todo'[r]) : s.do \in Special => \E s0 \in Elements(todo[r]) : s0.do \in Special

Outcome(r) ==
  /\ r \in Requests /\ todo[r] # << >>
  /\ asked' = asked /\ before' = before
  /\ DOMAIN todo' = Requests /\ \A q \in Requests \ {r} : todo'[q] = todo[q]
  /\ \/ failed' = failed
     \/ failed' = failed \cup {r} /\ todo'[r] = << >>
  /\ TablesAfter(r)
  /\ ProgramAfter(r)
  /\ \/ \E s \in Elements(todo[r]) : s.do \in Special
     \/ \A p \in Will(r) : Followed(r, p)

LEMMA Situation ==
  ASSUME RecordsInv, NEW r \in Requests, todo[r] # << >>
  PROVE  /\ DOMAIN todo = Requests /\ DOMAIN db = Tables
         /\ Program(r, todo[r]) /\ Program(r, Tail(todo[r])) /\ Piece(r, Head(todo[r]))
         /\ Elements(todo[r]) = {Head(todo[r])} \cup Elements(Tail(todo[r]))
         /\ Will(r) = Leads(r, Head(todo[r])) \cup WillOf(r, Tail(todo[r]))
         /\ IdsOf(r, todo[r]) = Ids(r, Head(todo[r])) \cup IdsOf(r, Tail(todo[r]))
         /\ Ids(r, Head(todo[r])) \cap IdsOf(r, Tail(todo[r])) = {}
         /\ \A p \in Will(r) : Meant(r, asked[r], p) /\ Sane(p)
         /\ \A t \in Tables : RowsOf(t, db[t]) /\ Indexed(db[t], t)
<1>1. Program(r, todo[r]) /\ \A p \in Will(r) : Meant(r, asked[r], p)
  BY DEF RecordsInv, Shapes
<1>2. \A t \in Tables : RowsOf(t, db[t]) /\ Indexed(db[t], t)
  BY DEF RecordsInv, Shapes, DatabaseTypeOK, RowsOf
<1>3. DOMAIN todo = Requests /\ DOMAIN db = Tables
  BY DEF RecordsInv, Shapes, DatabaseTypeOK
<1>4. QED
  BY <1>1, <1>2, <1>3, ProgramParts, MeantIsSane DEF Will

LEMMA AfterTail ==
  ASSUME RecordsInv, NEW r \in Requests, todo[r] # << >>, todo'[r] \in {Tail(todo[r]), << >>}
  PROVE  ProgramAfter(r)
<1>1. CASE todo'[r] = Tail(todo[r])
  BY <1>1, Situation DEF ProgramAfter
<1>2. CASE todo'[r] = << >>
  BY <1>2, NoStatement, ElementsOfTuples DEF ProgramAfter
<1>3. QED
  BY <1>1, <1>2

LEMMA LeadsOfSimple ==
  ASSUME NEW r, NEW s
  PROVE  /\ s.do \in Simple => Leads(r, s) = {Prim(s)} /\ s.do \notin Special
         /\ s.do = "commit" => Leads(r, s) = {Prim(s.parts[1]), Prim(s.parts[2])}
         /\ \A p \in Leads(r, s) : s.do \notin {"collect", "deliver"} /\ p.do = "put" /\ by(p.row) = r =>
              <<p.table, p.row.id>> \in Ids(r, s)
BY DEF Leads, Branches, Prims, Simple, Special, Ids

LEMMA PrimOf ==
  ASSUME NEW s, s.do \in Simple
  PROVE  Prim(s).table = s.table /\ (s.do \in {"put", "save"} <=> Prim(s).do = "put")
         /\ (s.do \in {"put", "save"} => Prim(s).row = s.row)
BY DEF Prim, Store, Simple

LEMMA WriteSimple ==
  ASSUME RecordsInv, NEW r \in Requests, Write(r), Head(todo[r]).do \in Simple
  PROVE  Outcome(r)
<1> DEFINE h == Head(todo[r])
           p == Prim(h)
<1>1. todo[r] # << >>
  BY DEF Write
<1>2. p \in Will(r) /\ Sane(p) /\ p.table = h.table /\ h.table \in Tables
  BY <1>1, Situation, LeadsOfSimple, PrimOf DEF Sane
<1>3. /\ DOMAIN Result(h) = Tables /\ Result(h)[h.table] = Apply(p, db[h.table])
      /\ \A t \in Tables \ {h.table} : Result(h)[t] = db[t]
  BY <1>1, <1>2, Situation, EffectIsApply DEF Result, Simple
<1>4. Writes(h) = {h.table}
  BY DEF Writes, Simple
<1>5. /\ asked' = asked /\ before' = before /\ DOMAIN todo' = Requests
      /\ \A q \in Requests \ {r} : todo'[q] = todo[q]
  BY Situation, <1>1 DEF Write
<1>6. \A q \in Will(r) : q = p \/ q \in WillOf(r, Tail(todo[r]))
  BY <1>1, Situation, LeadsOfSimple
<1>7. CASE Indexed(Result(h)[h.table], h.table)
  <2>1. db' = Result(h) /\ todo'[r] = Tail(todo[r]) /\ failed' = failed
    BY <1>1, <1>4, <1>7, Situation DEF Write
  <2>2. ProgramAfter(r)
    BY <1>1, <2>1, AfterTail
  <2>3. p.do = "put" /\ by(p.row) = r => <<p.table, p.row.id>> \notin IdsOf(r, todo'[r])
    BY <1>1, <2>1, Situation, LeadsOfSimple DEF Simple
  <2>4. TablesAfter(r)
    <3>1. Ran(r, p, h.table)
      BY <1>2, <1>3, <2>1, <2>3 DEF Ran
    <3>2. QED
      BY <1>1, <1>2, <1>3, <1>7, <2>1, <3>1, Situation DEF TablesAfter
  <2>5. \A q \in Will(r) : Followed(r, q)
    BY <1>2, <1>3, <1>6, <2>1 DEF Followed
  <2>6. QED
    BY <1>1, <1>5, <2>1, <2>2, <2>4, <2>5 DEF Outcome
<1>8. CASE ~Indexed(Result(h)[h.table], h.table)
  <2>1. /\ db' = db
        /\ \/ failed' = failed \cup {r} /\ todo'[r] = << >>
           \/ failed' = failed /\ todo'[r] = Tail(todo[r])
    BY <1>1, <1>4, <1>8, Situation DEF Write
  <2>2. ProgramAfter(r) /\ TablesAfter(r)
    BY <1>1, <2>1, AfterTail, Situation DEF TablesAfter
  <2>3. p.do = "put"
    BY <1>1, <1>2, <1>3, <1>8, NeverRefused, Situation
  <2>4. \A q \in Will(r) : Followed(r, q)
    BY <1>2, <1>3, <1>6, <1>8, <2>1, <2>3 DEF Followed
  <2>5. QED
    BY <1>1, <1>5, <2>1, <2>2, <2>4 DEF Outcome
<1>9. QED
  BY <1>7, <1>8

LEMMA WriteCommit ==
  ASSUME RecordsInv, NEW r \in Requests, Write(r), Head(todo[r]).do = "commit"
  PROVE  Outcome(r)
<1> DEFINE h == Head(todo[r])
           a == h.parts[1]
           b == h.parts[2]
<1>1. todo[r] # << >>
  BY DEF Write
<1>2. /\ a.do \in Simple /\ b.do \in Simple /\ a.table # b.table /\ h.strict
  BY <1>1, Situation DEF Piece, Statement, Simple, Invalid
<1>3. /\ Prim(a) \in Will(r) /\ Prim(b) \in Will(r) /\ Sane(Prim(a)) /\ Sane(Prim(b))
      /\ Prim(a).table = a.table /\ Prim(b).table = b.table /\ a.table \in Tables /\ b.table \in Tables
  <2>1. Leads(r, h) = {Prim(a), Prim(b)}
    BY LeadsOfSimple
  <2>2. Prim(a) \in Will(r) /\ Prim(b) \in Will(r) /\ Sane(Prim(a)) /\ Sane(Prim(b))
    BY <1>1, <2>1, Situation
  <2>3. Prim(a).table = a.table /\ Prim(b).table = b.table
    BY <1>2, PrimOf
  <2>4. QED
    BY <2>2, <2>3 DEF Sane
<1>4. /\ DOMAIN Result(h) = Tables
      /\ Result(h)[a.table] = Apply(Prim(a), db[a.table])
      /\ Result(h)[b.table] = Apply(Prim(b), db[b.table])
      /\ \A t \in Tables \ {a.table, b.table} : Result(h)[t] = db[t]
  <2> DEFINE d == Effect(db, a)
  <2>1. /\ DOMAIN d = Tables /\ d[a.table] = Apply(Prim(a), db[a.table])
        /\ \A t \in Tables \ {a.table} : d[t] = db[t]
    BY <1>1, <1>2, <1>3, Situation, EffectIsApply
  <2> HIDE DEF d, a, b
  <2>2. /\ Prim(b).table = b.table
        /\ DOMAIN Effect(d, b) = Tables
        /\ Effect(d, b)[b.table] = Apply(Prim(b), d[b.table])
        /\ \A t \in Tables \ {b.table} : Effect(d, b)[t] = d[t]
    BY <1>2, <1>3, <2>1, EffectIsApply
  <2>3. Result(h) = Effect(d, b)
    BY DEF Result, a, b, d
  <2>4. QED
    BY <1>2, <1>3, <2>1, <2>2, <2>3
<1>5. /\ asked' = asked /\ before' = before /\ DOMAIN todo' = Requests
      /\ \A q \in Requests \ {r} : todo'[q] = todo[q]
  BY Situation, <1>1 DEF Write
<1>6. \A q \in Will(r) : q = Prim(a) \/ q = Prim(b) \/ q \in WillOf(r, Tail(todo[r]))
  BY <1>1, Situation, LeadsOfSimple
<1>7. Writes(h) = {a.table, b.table}
  BY DEF Writes
<1>8. CASE \A t \in Writes(h) : Indexed(Result(h)[t], t)
  <2>1. db' = Result(h) /\ todo'[r] = Tail(todo[r]) /\ failed' = failed
    BY <1>1, <1>8, Situation DEF Write
  <2>2. ProgramAfter(r)
    BY <1>1, <2>1, AfterTail
  <2>3. \A p \in {Prim(a), Prim(b)} :
          p.do = "put" /\ by(p.row) = r => <<p.table, p.row.id>> \notin IdsOf(r, todo'[r])
    BY <1>1, <2>1, Situation, LeadsOfSimple
  <2>4. Ran(r, Prim(a), a.table) /\ Ran(r, Prim(b), b.table)
    BY <1>3, <1>4, <2>1, <2>3 DEF Ran
  <2>5. TablesAfter(r)
    <3> SUFFICES ASSUME NEW t \in Tables
                 PROVE  Indexed(db'[t], t) /\ (db'[t] = db[t] \/ \E p \in Will(r) : Ran(r, p, t))
      BY <1>4, <2>1 DEF TablesAfter
    <3>1. CASE t \in {a.table, b.table}
      BY <1>3, <1>7, <1>8, <2>1, <2>4, <3>1
    <3>2. CASE t \notin {a.table, b.table}
      BY <1>1, <1>4, <2>1, <3>2, Situation
    <3>3. QED
      BY <3>1, <3>2
  <2>6. \A q \in Will(r) : Followed(r, q)
    BY <1>3, <1>4, <1>6, <2>1 DEF Followed
  <2>7. QED
    BY <1>1, <1>5, <2>1, <2>2, <2>5, <2>6 DEF Outcome
<1>9. CASE ~\A t \in Writes(h) : Indexed(Result(h)[t], t)
  <2>1. db' = db /\ failed' = failed \cup {r} /\ todo'[r] = << >>
    BY <1>1, <1>2, <1>9, Situation DEF Write
  <2>2. ProgramAfter(r) /\ TablesAfter(r)
    BY <1>1, <2>1, AfterTail, Situation DEF TablesAfter
  <2>3. \A q \in Will(r) : Followed(r, q)
    BY <2>1 DEF Followed
  <2>4. QED
    BY <1>1, <1>5, <2>1, <2>2, <2>3 DEF Outcome
<1>10. QED
  BY <1>8, <1>9

LEMMA IdsOfPut ==
  ASSUME NEW r, NEW s, s.do \in {"put", "save"}
  PROVE  /\ Leads(r, s) = {Store(s.table, s.row)}
         /\ Ids(r, s) = IF by(s.row) = r THEN {<<s.table, s.row.id>>} ELSE {}
<1> DEFINE p == Store(s.table, s.row)
<1>1. Leads(r, s) = {p}
  BY LeadsOfSimple DEF Simple, Prim
<1>2. p.do = "put" /\ p.table = s.table /\ p.row = s.row /\ s.do \notin {"collect", "deliver"}
  BY DEF Store
<1> HIDE DEF p
<1>3. Ids(r, s) = {<<x.table, x.row.id>> : x \in {x \in {p} : x.do = "put" /\ by(x.row) = r}}
  BY <1>1, <1>2 DEF Ids
<1>4. Ids(r, s) = IF by(s.row) = r THEN {<<s.table, s.row.id>>} ELSE {}
  BY <1>2, <1>3
<1>5. QED
  BY <1>1, <1>4 DEF p

LEMMA OutcomeOfSaveMisses ==
  ASSUME RecordsInv, NEW r \in Requests, SaveMisses(r)
  PROVE  Outcome(r)
<1> DEFINE h == Head(todo[r])
           s == [h EXCEPT !.do = "put"]
<1>1. todo[r] # << >> /\ h.do = "save" /\ todo'[r] = <<s>> \o Tail(todo[r])
  BY Situation DEF SaveMisses
<1>2. Statement(r, h) /\ {"do", "table", "row"} \subseteq DOMAIN h
  BY <1>1, Situation DEF Piece, Statement, Simple, Invalid
<1>3. s.do = "put" /\ s.table = h.table /\ s.row = h.row
  BY <1>2
<1> HIDE DEF s, h
<1>0. s.do \in {"put", "save"} /\ h.do \in {"put", "save"}
  BY <1>1, <1>3
<1>4. Leads(r, s) = Leads(r, h)
  <2>1. Leads(r, s) = {Store(s.table, s.row)}
    BY <1>0, IdsOfPut
  <2>2. Leads(r, h) = {Store(h.table, h.row)}
    BY <1>0, IdsOfPut
  <2>3. QED
    BY <1>3, <2>1, <2>2
<1>5. Ids(r, s) = Ids(r, h)
  <2>1. Ids(r, s) = IF by(s.row) = r THEN {<<s.table, s.row.id>>} ELSE {}
    BY <1>0, IdsOfPut
  <2>2. Ids(r, h) = IF by(h.row) = r THEN {<<h.table, h.row.id>>} ELSE {}
    BY <1>0, IdsOfPut
  <2>3. QED
    BY <1>3, <2>1, <2>2
<1>6. /\ Program(r, <<s>>) /\ Elements(<<s>>) = {s}
      /\ WillOf(r, <<s>>) = Leads(r, s) /\ IdsOf(r, <<s>>) = Ids(r, s)
  BY <1>3, OneStatement DEF Piece, Statement, Simple
<1>7. /\ Program(r, todo'[r]) /\ Elements(todo'[r]) = {s} \cup Elements(Tail(todo[r]))
      /\ WillOf(r, todo'[r]) = Leads(r, h) \cup WillOf(r, Tail(todo[r]))
      /\ IdsOf(r, todo'[r]) = Ids(r, h) \cup IdsOf(r, Tail(todo[r]))
  BY <1>1, <1>4, <1>5, <1>6, Situation, ProgramJoined DEF h
<1>8. WillOf(r, todo'[r]) = Will(r) /\ IdsOf(r, todo'[r]) = IdsOf(r, todo[r])
  BY <1>1, <1>7, Situation DEF h
<1>9. ProgramAfter(r)
  BY <1>1, <1>3, <1>7, <1>8, Situation DEF ProgramAfter, Special
<1>10. TablesAfter(r)
  BY <1>1, Situation DEF TablesAfter, SaveMisses
<1>11. \A p \in Will(r) : Followed(r, p)
  BY <1>8 DEF Followed
<1>12. QED
  BY <1>1, <1>9, <1>10, <1>11, Situation DEF Outcome, SaveMisses, h

LEMMA OutcomeOfTest ==
  ASSUME RecordsInv, NEW r \in Requests, Test(r)
  PROVE  Outcome(r)
<1> DEFINE h == Head(todo[r])
<1>1. todo[r] # << >> /\ h.do = "test"
  BY DEF Test
<1>2. PICK b \in {h.yes, h.no} : todo'[r] = b \o Tail(todo[r])
  BY <1>1, Situation DEF Test
<1>3. Branch(r, b)
  BY <1>1, <1>2, Situation DEF Piece, Statement, Simple, Invalid
<1>4. Program(r, b) /\ \A c \in Elements(b) : c.do \in Simple \cup {"commit"}
  BY <1>3 DEF Branch, Program, Piece
<1>5. \A c \in Elements(b) : Leads(r, c) = Prims(r, c) /\ Leads(r, c) \subseteq Leads(r, h)
  BY <1>1, <1>4 DEF Leads, Branches, Simple
<1>6. \A c \in Elements(b) : Ids(r, c) \subseteq Ids(r, h)
  BY <1>1, <1>4, <1>5 DEF Ids, Simple
<1>7. WillOf(r, b) \subseteq Leads(r, h) /\ IdsOf(r, b) \subseteq Ids(r, h)
  BY <1>5, <1>6 DEF WillOf, IdsOf
<1>8. /\ Program(r, todo'[r]) /\ Elements(todo'[r]) = Elements(b) \cup Elements(Tail(todo[r]))
      /\ WillOf(r, todo'[r]) = WillOf(r, b) \cup WillOf(r, Tail(todo[r]))
      /\ IdsOf(r, todo'[r]) = IdsOf(r, b) \cup IdsOf(r, Tail(todo[r]))
  <2>1. Program(r, Tail(todo[r])) /\ IdsOf(r, b) \cap IdsOf(r, Tail(todo[r])) = {}
    BY <1>1, <1>7, Situation
  <2>2. /\ Program(r, b \o Tail(todo[r]))
        /\ Elements(b \o Tail(todo[r])) = Elements(b) \cup Elements(Tail(todo[r]))
        /\ WillOf(r, b \o Tail(todo[r])) = WillOf(r, b) \cup WillOf(r, Tail(todo[r]))
        /\ IdsOf(r, b \o Tail(todo[r])) = IdsOf(r, b) \cup IdsOf(r, Tail(todo[r]))
    BY <1>4, <2>1, ProgramJoined
  <2>3. QED
    BY <1>2, <2>2
<1>9. ProgramAfter(r)
  <2>1. WillOf(r, todo'[r]) \subseteq Will(r) /\ IdsOf(r, todo'[r]) \subseteq IdsOf(r, todo[r])
    BY <1>1, <1>7, <1>8, Situation
  <2>2. \A c \in Elements(todo'[r]) : c.do \in Special => c \in Elements(todo[r])
    BY <1>1, <1>4, <1>8, Situation DEF Special, Simple
  <2>3. QED
    BY <1>8, <2>1, <2>2 DEF ProgramAfter
<1>10. TablesAfter(r)
  BY <1>1, Situation DEF TablesAfter, Test
<1>11. \E s \in Elements(todo[r]) : s.do \in Special
  BY <1>1, Situation DEF Special
<1>12. QED
  BY <1>1, <1>9, <1>10, <1>11, Situation DEF Outcome, Test

\* Inserts of as many different rows.
ArePuts(r, f, n) == /\ IsList(f, n)
                    /\ \A i \in 1..n : f[i].do = "put" /\ by(f[i].row) = r
                    /\ \A i, j \in 1..n : i # j => f[i].row.id # f[j].row.id

LEMMA ManyPuts ==
  ASSUME NEW r, NEW n, NEW f, ArePuts(r, f, n)
  PROVE  /\ Program(r, f) /\ \A s \in Elements(f) : s.do = "put"
         /\ \A p \in WillOf(r, f) : \E i \in 1..n : p = Store(f[i].table, f[i].row)
         /\ IdsOf(r, f) = {Key(f[i].table, f[i].row) : i \in 1..n}
<1>1. DOMAIN f = 1..n
  BY DEF ArePuts, IsList
<1>2. \A i \in 1..n : /\ Leads(r, f[i]) = {Store(f[i].table, f[i].row)}
                      /\ Ids(r, f[i]) = {Key(f[i].table, f[i].row)}
  BY IdsOfPut DEF ArePuts, Key
<1>3. Apart(r, f)
  BY <1>1, <1>2 DEF Apart, ArePuts, Key
<1>4. \A s \in Elements(f) : s.do = "put" /\ Piece(r, s)
  BY <1>1 DEF ArePuts, Elements, Piece, Statement, Simple
<1>5. Program(r, f)
  BY <1>3, <1>4, Listed DEF ArePuts, Program, Sequel
<1>6. QED
  BY <1>1, <1>2, <1>4, <1>5 DEF WillOf, IdsOf, Elements

LEMMA OneByOne ==
  ASSUME NEW S, IsFiniteSet(S), NEW f \in SetToSeqs(S)
  PROVE  /\ Cardinality(S) \in Nat /\ f \in [1..Cardinality(S) -> S] /\ DOMAIN f = 1..Cardinality(S)
         /\ \A i, j \in 1..Cardinality(S) : i # j => f[i] # f[j]
BY FS_CardinalityType DEF SetToSeqs

LEMMA FiniteImage ==
  ASSUME NEW S, IsFiniteSet(S), NEW f
  PROVE  IsFiniteSet({f[x] : x \in S})
<1> DEFINE T == {f[x] : x \in S}
           g == [x \in S |-> f[x]]
<1>1. g \in Surjection(S, T)
  BY DEF Surjection
<1> HIDE DEF g, T
<1>2. IsFiniteSet(T)
  BY <1>1, FS_Surjection
<1>3. QED
  BY <1>2 DEF T

LEMMA OutcomeOfCollect ==
  ASSUME RecordsInv, NEW r \in Requests, Collect(r)
  PROVE  Outcome(r)
<1> DEFINE h == Head(todo[r])
           S == h.urls \cup AccountURLs(h.event)
           s == [do |-> "deliver", urls |-> S]
<1>1. todo[r] # << >> /\ h.do = "collect" /\ todo' = [todo EXCEPT ![r] = <<s>>]
  BY DEF Collect
<1>2. IsFiniteSet(h.urls)
  BY <1>1, Situation DEF Piece, Statement, Simple, Invalid
<1>3. IsFiniteSet(AccountURLs(h.event))
  <2> DEFINE A == {a \in Live("account_webhooks") : h.event \in a.events}
             url == [a \in A |-> a.url]
  <2>1. IsFiniteSet(db["account_webhooks"])
    BY TheTables DEF RecordsInv, Shapes
  <2>2. A \subseteq db["account_webhooks"]
    BY DEF Live
  <2>3. IsFiniteSet(A)
    BY <2>1, <2>2, FS_Subset
  <2>4. AccountURLs(h.event) = {url[a] : a \in A}
    BY DEF AccountURLs
  <2> HIDE DEF A, url
  <2>5. QED
    BY <2>3, <2>4, FiniteImage
<1>4. IsFiniteSet(S)
  BY <1>2, <1>3, FS_Union
<1>5. s.do = "deliver" /\ s.urls = S
  OBVIOUS
<1>6. todo'[r] = <<s>> /\ DOMAIN todo' = Requests /\ \A q \in Requests \ {r} : todo'[q] = todo[q]
  BY <1>1, Situation
<1> HIDE DEF S, s
<1>7. Piece(r, s) /\ Leads(r, s) = {} /\ Ids(r, s) = {"webhook_deliveries"} \X ({r} \X Nat)
  BY <1>4, <1>5 DEF Piece, Statement, Leads, Branches, Prims, Simple, Ids
<1>8. Ids(r, h) = {"webhook_deliveries"} \X ({r} \X Nat)
  BY <1>1 DEF Ids
<1>9. /\ Program(r, <<s>>) /\ Elements(<<s>>) = {s}
      /\ WillOf(r, <<s>>) = {} /\ IdsOf(r, <<s>>) = Ids(r, s)
  BY <1>7, ElementsOfTuples, OneStatement
<1>10. ProgramAfter(r)
  BY <1>1, <1>6, <1>7, <1>8, <1>9, Situation DEF ProgramAfter, Special
<1>11. TablesAfter(r)
  BY <1>1, Situation DEF TablesAfter, Collect
<1>12. \E e \in Elements(todo[r]) : e.do \in Special
  BY <1>1, Situation DEF Special
<1>13. QED
  BY <1>1, <1>6, <1>10, <1>11, <1>12 DEF Outcome, Collect

LEMMA OutcomeOfDeliver ==
  ASSUME RecordsInv, NEW r \in Requests, Deliver(r)
  PROVE  Outcome(r)
<1> DEFINE h == Head(todo[r])
           S == h.urls
           n == Cardinality(S)
<1>1. todo[r] # << >> /\ h.do = "deliver"
  BY DEF Deliver
<1>4. IsFiniteSet(S)
  BY <1>1, Situation DEF Piece, Statement, Simple, Invalid
<1>5. PICK urls \in SetToSeqs(S) : Record(r, urls)
  BY DEF Deliver
<1>6. n \in Nat /\ DOMAIN urls = 1..n
  BY <1>4, <1>5, OneByOne
<1>7. PICK key \in SigningKey :
        todo' = [todo EXCEPT ![r] =
         [i \in DOMAIN urls |->
            TryInsert("webhook_deliveries", WebhookDelivery(<<r, i>>, r, urls[i], key))]]
  BY <1>5 DEF Record
<1> DEFINE f == [i \in 1..n |->
                   TryInsert("webhook_deliveries", WebhookDelivery(<<r, i>>, r, urls[i], key))]
<1>8. todo'[r] = f /\ DOMAIN todo' = Requests /\ \A q \in Requests \ {r} : todo'[q] = todo[q]
  BY <1>1, <1>6, <1>7, Situation
<1>9. \A i \in 1..n : /\ f[i].do = "put" /\ f[i].table = "webhook_deliveries"
                      /\ f[i].row = WebhookDelivery(<<r, i>>, r, urls[i], key)
                      /\ f[i].row.id = <<r, i>> /\ by(f[i].row) = r
  BY DEF TryInsert, WebhookDelivery, by
<1>10. IsList(f, n)
  BY <1>6 DEF IsList
<1> HIDE DEF S, n, f, h
<1>11. /\ Program(r, f) /\ \A s \in Elements(f) : s.do = "put"
       /\ \A p \in WillOf(r, f) : \E i \in 1..n : p = Store(f[i].table, f[i].row)
       /\ IdsOf(r, f) = {Key(f[i].table, f[i].row) : i \in 1..n}
  <2>1. ASSUME NEW i \in 1..n, NEW j \in 1..n, i # j PROVE f[i].row.id # f[j].row.id
    <3>1. f[i].row.id = <<r, i>> /\ f[j].row.id = <<r, j>>
      BY <1>9
    <3>2. QED
      BY <2>1, <3>1
  <2>2. n \in Nat /\ \A i \in 1..n : f[i].do = "put" /\ by(f[i].row) = r
    BY <1>6, <1>9
  <2>3. \A i, j \in 1..n : i # j => f[i].row.id # f[j].row.id
    BY <2>1
  <2>4. ArePuts(r, f, n)
    BY <1>10, <2>2, <2>3 DEF ArePuts
  <2>5. QED
    BY <2>4, ManyPuts
<1>12. \A p \in WillOf(r, f) : Records(r, p)
  <2> SUFFICES ASSUME NEW p \in WillOf(r, f) PROVE Records(r, p)
    OBVIOUS
  <2>1. PICK i \in 1..n : p = Store(f[i].table, f[i].row)
    BY <1>11
  <2>2. p.do = "put" /\ p.table = "webhook_deliveries" /\ p.row = WebhookDelivery(<<r, i>>, r, urls[i], key)
    BY <1>9, <2>1 DEF Store
  <2>3. /\ DOMAIN p.row = {"id", "dead", "trigger", "url", "key"} /\ ~p.row.dead /\ by(p.row) = r
        /\ p.row.trigger = r /\ p.row.key \in SigningKey
    BY <2>2 DEF WebhookDelivery, by
  <2>4. Columns("webhook_deliveries") = {"id", "dead", "trigger", "url", "key"}
    BY DEF Columns, Fixed, Saved, Marked, Schema
  <2>5. QED
    BY <2>2, <2>3, <2>4 DEF Records
<1>13. IdsOf(r, f) \subseteq IdsOf(r, todo[r])
  <2>1. Ids(r, h) = {"webhook_deliveries"} \X ({r} \X Nat)
    BY <1>1 DEF Ids
  <2>2. IdsOf(r, f) \subseteq Ids(r, h)
    <3> SUFFICES ASSUME NEW g \in IdsOf(r, f) PROVE g \in Ids(r, h)
      OBVIOUS
    <3>1. PICK i \in 1..n : g = <<f[i].table, f[i].row.id>>
      BY <1>11 DEF Key
    <3>2. g = <<"webhook_deliveries", <<r, i>>>>
      BY <1>9, <3>1
    <3>4. i \in Nat
      BY <1>6
    <3>3. QED
      BY <2>1, <3>2, <3>4
  <2>3. QED
    BY <1>1, <2>2, Situation DEF h
<1>14. ProgramAfter(r)
  BY <1>8, <1>11, <1>12, <1>13 DEF ProgramAfter, Special
<1>15. TablesAfter(r)
  BY <1>1, <1>5, Situation DEF TablesAfter, Record
<1>16. \E s \in Elements(todo[r]) : s.do \in Special
  BY <1>1, Situation DEF Special, h
<1>17. QED
  BY <1>1, <1>5, <1>8, <1>14, <1>15, <1>16 DEF Outcome, Record

\* A row that r is the first to insert.
LEMMA Newborn ==
  ASSUME RecordsInv, NEW r \in Requests, NEW t \in Tables, NEW row, <<t, row.id>> \in IdsOf(r, todo[r])
  PROVE  Put(db[t], row) = db[t] \cup {row}
BY DEF RecordsInv, Unborn, Put

LEMMA OutcomeOfIssue ==
  ASSUME RecordsInv, NEW r \in Requests, Issue(r)
  PROVE  Outcome(r)
<1> DEFINE h == Head(todo[r])
           t == "managed_api_keys"
           key == ManagedAPIKey(<<r, 1>>, h.value)
           taken == \E k \in db["managed_api_keys"] : k.value = key.value
<1>1. todo[r] # << >> /\ h.do = "issue" /\ asked' = asked /\ before' = before
  BY DEF Issue
<1>2. t \in Tables
  BY TheTables
<1>3. \A s : s.do = "issue" => Leads(r, s) = {Store(t, ManagedAPIKey(<<r, 1>>, v)) : v \in {s.value} \cup KeyValues}
  BY DEF Leads, Branches, Prims, Simple
<1>4. \A v : /\ Store(t, ManagedAPIKey(<<r, 1>>, v)).do = "put"
             /\ Store(t, ManagedAPIKey(<<r, 1>>, v)).table = t
             /\ Store(t, ManagedAPIKey(<<r, 1>>, v)).row = ManagedAPIKey(<<r, 1>>, v)
             /\ ManagedAPIKey(<<r, 1>>, v).id = <<r, 1>> /\ by(ManagedAPIKey(<<r, 1>>, v)) = r
  BY DEF Store, ManagedAPIKey, by
<1>5. ASSUME NEW s, s.do = "issue" PROVE Ids(r, s) = {<<t, <<r, 1>>>>}
  <2>1. Ids(r, s) = {<<p.table, p.row.id>> : p \in {p \in Leads(r, s) : p.do = "put" /\ by(p.row) = r}}
    BY <1>5 DEF Ids
  <2>2. \A p \in Leads(r, s) : p.do = "put" /\ p.table = t /\ p.row.id = <<r, 1>> /\ by(p.row) = r
    BY <1>3, <1>4, <1>5
  <2>3. Store(t, ManagedAPIKey(<<r, 1>>, s.value)) \in Leads(r, s)
    BY <1>3, <1>5
  <2>4. QED
    BY <2>1, <2>2, <2>3
<1>6. <<t, <<r, 1>>>> \in IdsOf(r, todo[r])
  BY <1>1, <1>5, Situation
<1>7. \E s \in Elements(todo[r]) : s.do \in Special
  BY <1>1, Situation DEF Special
<1> HIDE DEF t, key
<1>8. CASE ~taken /\ db' = [db EXCEPT !.managed_api_keys = @ \cup {key}]
           /\ todo' = [todo EXCEPT ![r] = << >>] /\ failed' = failed
  <2>1. todo'[r] = << >> /\ DOMAIN todo' = Requests /\ \A q \in Requests \ {r} : todo'[q] = todo[q]
    BY <1>1, <1>8, Situation
  <2>2. ProgramAfter(r)
    BY <1>1, <2>1, AfterTail
  <2>3. Store(t, key) \in Will(r) /\ key.id = <<r, 1>>
    BY <1>1, <1>3, <1>4, Situation DEF key
  <2>4. Put(db[t], key) = db[t] \cup {key}
    BY <1>2, <1>6, <2>3, Newborn
  <2>5. db' = [db EXCEPT ![t] = Apply(Store(t, key), db[t])]
    BY <1>8, <2>4 DEF Apply, Store, t
  <2>6. IdsOf(r, todo'[r]) = {}
    BY <2>1, NoStatement
  <2>7. Ran(r, Store(t, key), t)
    BY <1>1, <1>2, <2>5, <2>6, Situation DEF Ran, Store
  <2>8. Indexed(db'[t], t)
    <3>1. db'[t] = db[t] \cup {key} /\ UniqueIndex[t] = {{"value"}}
      BY <1>1, <1>2, <2>4, <2>5, Situation DEF Apply, Store, t, UniqueIndex
    <3>2. Indexed(db[t], t)
      BY <1>1, <1>2, Situation
    <3>3. \A k \in db[t] : k["value"] # key["value"]
      BY <1>8 DEF t
    <3>4. QED
      BY <3>1, <3>2, <3>3 DEF Indexed
  <2>9. TablesAfter(r)
    BY <1>1, <1>2, <2>3, <2>5, <2>7, <2>8, Situation DEF TablesAfter
  <2>10. QED
    BY <1>1, <1>7, <1>8, <2>1, <2>2, <2>9 DEF Outcome
<1>9. ASSUME NEW value \in KeyValues, UNCHANGED <<db, failed>>,
             todo' = [todo EXCEPT ![r] = <<[do |-> "issue", value |-> value, retry |-> FALSE]>>]
      PROVE  Outcome(r)
  <2> DEFINE s == [do |-> "issue", value |-> value, retry |-> FALSE]
  <2>1. todo'[r] = <<s>> /\ DOMAIN todo' = Requests /\ \A q \in Requests \ {r} : todo'[q] = todo[q]
    BY <1>1, <1>9, Situation
  <2>2. s.do = "issue" /\ s.value \in KeyValues
    OBVIOUS
  <2> HIDE DEF s
  <2>3. /\ Program(r, <<s>>) /\ Elements(<<s>>) = {s}
        /\ WillOf(r, <<s>>) = Leads(r, s) /\ IdsOf(r, <<s>>) = Ids(r, s)
    BY <2>2, OneStatement DEF Piece, Statement
  <2>4. Leads(r, s) \subseteq Leads(r, h)
    BY <1>1, <1>3, <2>2
  <2>5. Leads(r, h) \subseteq Will(r)
    BY <1>1, Situation
  <2>6. IdsOf(r, todo'[r]) \subseteq IdsOf(r, todo[r])
    BY <1>5, <1>6, <2>1, <2>2, <2>3
  <2>7. ProgramAfter(r)
    BY <1>7, <2>1, <2>3, <2>4, <2>5, <2>6 DEF ProgramAfter
  <2>8. TablesAfter(r)
    BY <1>1, <1>9, Situation DEF TablesAfter
  <2>9. QED
    BY <1>1, <1>7, <1>9, <2>1, <2>7, <2>8 DEF Outcome
<1>10. CASE todo' = [todo EXCEPT ![r] = << >>] /\ failed' = failed \cup {r} /\ UNCHANGED db
  <2>1. todo'[r] = << >> /\ DOMAIN todo' = Requests /\ \A q \in Requests \ {r} : todo'[q] = todo[q]
    BY <1>1, <1>10, Situation
  <2>2. ProgramAfter(r) /\ TablesAfter(r)
    BY <1>1, <1>10, <2>1, AfterTail, Situation DEF TablesAfter
  <2>3. QED
    BY <1>1, <1>7, <1>10, <2>1, <2>2 DEF Outcome
<1>11. QED
  BY <1>8, <1>9, <1>10 DEF Issue, key, t

LEMMA OutcomeOfEnsureTag ==
  ASSUME RecordsInv, NEW r \in Requests, EnsureTag(r)
  PROVE  Outcome(r)
<1> DEFINE h == Head(todo[r])
           u == Update("tags", [tag |-> h.row.tag], [lastSeen |-> r])
<1>1. todo[r] # << >> /\ h.do = "ensure" /\ asked' = asked /\ before' = before /\ failed' = failed
  BY DEF EnsureTag
<1>2. "tags" \in Tables
  BY TheTables
<1>3. Leads(r, h) = {Store("tags", h.row), u}
  BY <1>1 DEF Leads, Branches, Prims, Simple
<1>4. by(h.row) = r
  BY <1>1, Situation DEF Piece, Statement, Simple, Invalid, by
<1>5. <<"tags", h.row.id>> \in Ids(r, h)
  <2>1. /\ Store("tags", h.row) \in Leads(r, h) /\ Store("tags", h.row).do = "put"
        /\ Store("tags", h.row).table = "tags" /\ Store("tags", h.row).row = h.row
    BY <1>3 DEF Store
  <2>2. QED
    BY <1>1, <1>4, <2>1 DEF Ids
<1>6. \E s \in Elements(todo[r]) : s.do \in Special
  BY <1>1, Situation DEF Special
<1> DEFINE row == h.row
<1>7. DOMAIN todo' = Requests /\ \A q \in Requests \ {r} : todo'[q] = todo[q]
  BY <1>1, Situation DEF EnsureTag
<1> HIDE DEF u
<1>8. CASE Indexed(db["tags"] \cup {row}, "tags")
  <2>1. db' = [db EXCEPT !["tags"] = @ \cup {row}] /\ todo'[r] = Tail(todo[r])
    BY <1>1, <1>8, Situation DEF EnsureTag
  <2>2. ProgramAfter(r)
    BY <1>1, <2>1, AfterTail
  <2>3. Put(db["tags"], row) = db["tags"] \cup {row}
    BY <1>1, <1>2, <1>5, Newborn, Situation
  <2>4. db' = [db EXCEPT !["tags"] = Apply(Store("tags", row), db["tags"])]
    BY <2>1, <2>3 DEF Apply, Store
  <2>5. <<"tags", row.id>> \notin IdsOf(r, todo'[r])
    BY <1>1, <1>5, <2>1, Situation
  <2>6. Ran(r, Store("tags", row), "tags")
    BY <1>1, <1>2, <2>4, <2>5, Situation DEF Ran, Store
  <2>7. Store("tags", row) \in Will(r)
    BY <1>1, <1>3, Situation
  <2>8. db'["tags"] = db["tags"] \cup {row} /\ DOMAIN db' = Tables
        /\ \A t \in Tables \ {"tags"} : db'[t] = db[t]
    BY <1>1, <1>2, <2>1, Situation
  <2>9. TablesAfter(r)
    BY <1>1, <1>8, <2>6, <2>7, <2>8, Situation DEF TablesAfter
  <2>10. QED
    BY <1>1, <1>6, <1>7, <2>2, <2>9 DEF Outcome
<1>9. CASE ~Indexed(db["tags"] \cup {row}, "tags")
  <2>1. db' = db /\ todo'[r] = <<u>> \o Tail(todo[r])
    BY <1>1, <1>9, Situation DEF EnsureTag, u
  <2>2. u.do = "update"
    BY DEF u, Update
  <2>3. Leads(r, u) = {u} /\ Ids(r, u) = {} /\ Piece(r, u)
    <3>1. Leads(r, u) = {u}
      BY <2>2, LeadsOfSimple DEF Prim, Simple
    <3>2. Ids(r, u) = {}
      BY <2>2, <3>1 DEF Ids
    <3>3. QED
      BY <2>2, <3>1, <3>2 DEF Piece, Statement, Simple
  <2>4. /\ Program(r, <<u>>) /\ Elements(<<u>>) = {u}
        /\ WillOf(r, <<u>>) = Leads(r, u) /\ IdsOf(r, <<u>>) = Ids(r, u)
    BY <2>3, OneStatement
  <2>5. /\ Program(r, <<u>> \o Tail(todo[r]))
        /\ Elements(<<u>> \o Tail(todo[r])) = Elements(<<u>>) \cup Elements(Tail(todo[r]))
        /\ WillOf(r, <<u>> \o Tail(todo[r])) = WillOf(r, <<u>>) \cup WillOf(r, Tail(todo[r]))
        /\ IdsOf(r, <<u>> \o Tail(todo[r])) = IdsOf(r, <<u>>) \cup IdsOf(r, Tail(todo[r]))
    <3>1. Program(r, Tail(todo[r])) /\ IdsOf(r, <<u>>) \cap IdsOf(r, Tail(todo[r])) = {}
      BY <1>1, <2>3, <2>4, Situation
    <3>2. QED
      BY <2>4, <3>1, ProgramJoined
  <2>6. IdsOf(r, todo'[r]) \subseteq IdsOf(r, todo[r]) /\ WillOf(r, todo'[r]) \subseteq Will(r)
    BY <1>1, <1>3, <2>1, <2>3, <2>4, <2>5, Situation
  <2>7. ProgramAfter(r)
    BY <1>6, <2>1, <2>5, <2>6 DEF ProgramAfter
  <2>8. TablesAfter(r)
    BY <1>1, <2>1, Situation DEF TablesAfter
  <2>9. QED
    BY <1>1, <1>6, <1>7, <2>7, <2>8 DEF Outcome
<1>10. QED
  BY <1>8, <1>9

LEMMA OutcomeOfRefuseSection ==
  ASSUME RecordsInv, NEW r \in Requests, RefuseSection(r)
  PROVE  Outcome(r)
<1>1. /\ todo[r] # << >> /\ asked' = asked /\ before' = before /\ db' = db
      /\ todo' = [todo EXCEPT ![r] = << >>] /\ failed' = failed \cup {r}
  BY DEF RefuseSection
<1>2. todo'[r] = << >> /\ DOMAIN todo' = Requests /\ \A q \in Requests \ {r} : todo'[q] = todo[q]
  BY <1>1, Situation
<1>3. ProgramAfter(r) /\ TablesAfter(r)
  BY <1>1, <1>2, AfterTail, Situation DEF TablesAfter
<1>4. \A p \in Will(r) : Followed(r, p)
  BY <1>1 DEF Followed
<1>5. QED
  BY <1>1, <1>2, <1>3, <1>4 DEF Outcome

LEMMA OutcomeOfContinue ==
  ASSUME RecordsInv, NEW r \in Requests, Continue(r)
  PROVE  Outcome(r)
<1>1. CASE Write(r)
  <2>1. Head(todo[r]).do \in Simple \/ Head(todo[r]).do = "commit"
    BY <1>1 DEF Write, Simple
  <2>2. QED
    BY <1>1, <2>1, WriteSimple, WriteCommit
<1>2. QED
  BY <1>1, OutcomeOfSaveMisses, OutcomeOfTest, OutcomeOfCollect, OutcomeOfDeliver, OutcomeOfIssue,
     OutcomeOfEnsureTag, OutcomeOfRefuseSection DEF Continue, Execute

----------------------------------------------------------------------------
(* What a request's steps keep.                                            *)

LEMMA IdsAreMine ==
  ASSUME NEW r, NEW q, NEW g \in IdsOf(r, q)
  PROVE  g[2][1] = r
<1>1. PICK s \in Elements(q) : g \in Ids(r, s)
  BY DEF IdsOf
<1>2. CASE s.do \in {"collect", "deliver"}
  <2>1. Ids(r, s) = {"webhook_deliveries"} \X ({r} \X Nat)
    BY <1>2 DEF Ids
  <2>2. QED
    BY <1>1, <2>1
<1>3. CASE s.do \notin {"collect", "deliver"}
  <2>1. Ids(r, s) = {<<p.table, p.row.id>> : p \in {p \in Leads(r, s) : p.do = "put" /\ by(p.row) = r}}
    BY <1>3 DEF Ids
  <2>2. QED
    BY <1>1, <2>1 DEF by
<1>4. QED
  BY <1>2, <1>3

LEMMA MineIsUnborn ==
  ASSUME NEW r, NEW q, NEW p \in WillOf(r, q), p.do = "put", by(p.row) = r
  PROVE  Key(p.table, p.row) \in IdsOf(r, q)
<1>1. PICK s \in Elements(q) : p \in Leads(r, s)
  BY DEF WillOf
<1>2. s.do \notin {"collect", "deliver"}
  BY <1>1 DEF Leads, Branches, Prims, Simple
<1>3. Key(p.table, p.row) \in Ids(r, s)
  BY <1>1, <1>2 DEF Ids, Key
<1>4. QED
  BY <1>3 DEF IdsOf

LEMMA TheirsIsSaved ==
  ASSUME RecordsInv, NEW r \in Requests, NEW p \in Will(r), p.do = "put", by(p.row) # r
  PROVE  Key(p.table, p.row) \in asked[r].saves /\ \A c \in DOMAIN asked[r].sets : p.row[c] = asked[r].sets[c]
BY DEF RecordsInv, Shapes, Meant, Stores, Key

LEMMA HeldIsSaved ==
  ASSUME RecordsInv, NEW r \in Requests, NEW t, NEW x \in Held(r, t)
  PROVE  /\ Key(t, x) \in asked[r].saves
         /\ \A c \in DOMAIN asked[r].sets : x[c] = asked[r].sets[c]
<1>1. PICK p \in Will(r) : p.do = "put" /\ p.table = t /\ by(p.row) # r /\ x = p.row
  BY DEF Held
<1>2. QED
  BY <1>1, TheirsIsSaved

LEMMA NothingLeft ==
  ASSUME NEW r, todo[r] = << >>
  PROVE  Will(r) = {} /\ IdsOf(r, todo[r]) = {}
BY NoStatement DEF Will

\* Where a row comes from.
Kept(t, x)      == x \in db[t]
Stored(r, t, x) == \E p \in Will(r) : p.do = "put" /\ p.table = t /\ x = p.row /\ Ran(r, p, t)
Changed(r, t, x) ==
  \E p \in Will(r), y \in db[t] : /\ p.do = "update" /\ p.table = t /\ Ran(r, p, t)
                                  /\ ~y.dead /\ Fits(y, p.where) /\ x = With(y, p.row)

LEMMA NewRows ==
  ASSUME RecordsInv, NEW r, Outcome(r), NEW t \in Tables, NEW x \in db'[t]
  PROVE  Kept(t, x) \/ Stored(r, t, x) \/ Changed(r, t, x)
<1>1. CASE db'[t] = db[t]
  BY <1>1 DEF Kept
<1>2. CASE \E p \in Will(r) : Ran(r, p, t)
  <2>1. PICK p \in Will(r) : Ran(r, p, t)
    BY <1>2
  <2>2. Sane(p) /\ p.table = t /\ RowsOf(t, db[t]) /\ x \in Apply(p, db[t])
    BY <2>1, Situation DEF Outcome, Ran
  <2>3. \/ p.do = "put" /\ x = p.row
        \/ x \in db[t]
        \/ p.do = "update" /\ \E y \in db[t] : ~y.dead /\ Fits(y, p.where) /\ x = With(y, p.row)
    BY <2>2, RowsAfter
  <2>4. QED
    BY <2>1, <2>2, <2>3 DEF Kept, Stored, Changed
<1>3. QED
  BY <1>1, <1>2 DEF Outcome, TablesAfter

\* A row has been there, or has been read, or is born in this step.
Ancestor(t, x, y) == y.id = x.id /\ \A c \in Fixed(t) : y[c] = x[c]
Born(r, t, x) == /\ x \in db'[t] /\ by(x) = r
                 /\ Key(t, x) \in IdsOf(r, todo[r]) /\ Key(t, x) \notin IdsOf(r, todo'[r])

LEMMA ChangedFrom ==
  ASSUME RecordsInv, NEW r, Outcome(r), NEW t \in Tables, NEW p \in Will(r), NEW y \in db[t],
         p.do = "update", p.table = t
  PROVE  /\ DOMAIN With(y, p.row) = Columns(t)
         /\ Ancestor(t, With(y, p.row), y)
         /\ \A c \in Columns(t) \ DOMAIN p.row : With(y, p.row)[c] = y[c]
         /\ ~With(y, p.row).dead => ~y.dead
<1>1. Sane(p) /\ DOMAIN y = Columns(t)
  BY Situation DEF Outcome, RowsOf
<1>2. QED
  BY <1>1, Updated DEF Ancestor

LEMMA Ancestry ==
  ASSUME RecordsInv, NEW r, Outcome(r), NEW t \in Tables, NEW x \in db'[t]
  PROVE  (\E y \in Copies(t) : Ancestor(t, x, y)) \/ Born(r, t, x)
<1>1. r \in Requests
  BY DEF Outcome
<1>2. CASE Kept(t, x)
  BY <1>2 DEF Kept, Copies, Ancestor
<1>3. CASE Stored(r, t, x)
  <2>1. PICK p \in Will(r) : p.do = "put" /\ p.table = t /\ x = p.row /\ Ran(r, p, t)
    BY <1>3 DEF Stored
  <2>2. CASE by(x) = r
    BY <2>1, <2>2, MineIsUnborn DEF Born, Will, Ran, Key
  <2>3. CASE by(x) # r
    <3>1. x \in Held(r, t)
      BY <2>1, <2>3 DEF Held
    <3>2. QED
      BY <1>1, <3>1 DEF Copies, Ancestor
  <2>4. QED
    BY <2>2, <2>3
<1>4. CASE Changed(r, t, x)
  BY <1>4, ChangedFrom DEF Changed, Copies
<1>5. QED
  BY <1>2, <1>3, <1>4, NewRows

LEMMA HeldOn ==
  ASSUME RecordsInv, NEW r, Outcome(r), NEW q \in Requests, NEW t
  PROVE  Held(q, t)' \subseteq Held(q, t)
<1>1. CASE q # r
  <2>1. todo'[q] = todo[q]
    BY <1>1 DEF Outcome
  <2>2. QED
    BY <2>1 DEF Held, Will, WillOf
<1>2. CASE q = r
  BY <1>2 DEF Outcome, ProgramAfter, Held, Records, Will
<1>3. QED
  BY <1>1, <1>2

LEMMA CopiesOn ==
  ASSUME RecordsInv, NEW r, Outcome(r), NEW t \in Tables, NEW x \in Copies(t)'
  PROVE  (\E y \in Copies(t) : Ancestor(t, x, y)) \/ Born(r, t, x)
<1>1. CASE x \in db'[t]
  BY <1>1, Ancestry
<1>2. CASE \E q \in Requests : x \in Held(q, t)'
  BY <1>2, HeldOn DEF Copies, Ancestor
<1>3. QED
  BY <1>1, <1>2 DEF Copies

\* A row that is born has not been seen.
LEMMA BornUnseen ==
  ASSUME RecordsInv, NEW r \in Requests, NEW t \in Tables, NEW x, Key(t, x) \in IdsOf(r, todo[r])
  PROVE  /\ \A y \in Copies(t) : y.id # x.id
         /\ \A q \in Requests : Key(t, x) \notin asked[q].saves \cup asked[q].gone
<1>1. \A q \in Requests : Key(t, x) \notin asked[q].saves \cup asked[q].gone
  BY DEF RecordsInv, Unborn
<1>2. \A y \in db[t] : y.id # x.id
  BY DEF RecordsInv, Unborn, Key
<1>3. \A q \in Requests : \A y \in Held(q, t) : y.id # x.id
  BY <1>1, HeldIsSaved DEF Key
<1>4. QED
  BY <1>1, <1>2, <1>3 DEF Copies

LEMMA ContinueAlike ==
  ASSUME RecordsInv, NEW r, Outcome(r)
  PROVE  Alike'
<1>1. SUFFICES ASSUME NEW t \in Tables, NEW x \in Copies(t)', NEW y \in Copies(t)', x.id = y.id
               PROVE  \A c \in Fixed(t) : x[c] = y[c]
  BY DEF Alike
<1>2. r \in Requests
  BY DEF Outcome
<1>3. CASE Born(r, t, x) /\ Born(r, t, y)
  <2>1. RowsOf(t, db'[t])
    <3>1. CASE db'[t] = db[t]
      BY <3>1, Situation DEF Outcome
    <3>2. CASE \E p \in Will(r) : Ran(r, p, t)
      BY <3>2, RowsAfter, Situation DEF Outcome, Ran
    <3>3. QED
      BY <3>1, <3>2 DEF Outcome, TablesAfter
  <2>2. x = y
    BY <1>1, <1>3, <2>1 DEF RowsOf, Born
  <2>3. QED
    BY <2>2
<1>4. CASE ~Born(r, t, x) /\ ~Born(r, t, y)
  <2>1. PICK u \in Copies(t) : Ancestor(t, x, u)
    BY <1>1, <1>4, CopiesOn
  <2>2. PICK v \in Copies(t) : Ancestor(t, y, v)
    BY <1>1, <1>4, CopiesOn
  <2>3. u.id = v.id
    BY <1>1, <2>1, <2>2 DEF Ancestor
  <2>4. \A c \in Fixed(t) : u[c] = v[c]
    BY <2>3 DEF RecordsInv, Alike
  <2>5. QED
    BY <2>1, <2>2, <2>4 DEF Ancestor
<1>5. ASSUME NEW a \in Copies(t)', NEW b \in Copies(t)', a.id = b.id, Born(r, t, a), ~Born(r, t, b)
      PROVE  FALSE
  <2>1. PICK v \in Copies(t) : Ancestor(t, b, v)
    BY <1>5, CopiesOn
  <2>2. v.id # a.id
    BY <1>2, <1>5, BornUnseen DEF Born
  <2>3. QED
    BY <1>5, <2>1, <2>2 DEF Ancestor
<1>6. QED
  BY <1>1, <1>3, <1>4, <1>5

LEMMA ApplyFinite ==
  ASSUME NEW p, NEW R, IsFiniteSet(R)
  PROVE  IsFiniteSet(Apply(p, R))
<1>1. CASE p.do = "put"
  <2>1. IsFiniteSet({x \in R : x.id # p.row.id})
    BY FS_Subset
  <2>2. Apply(p, R) = {x \in R : x.id # p.row.id} \cup {p.row}
    BY <1>1 DEF Apply, Put
  <2>3. QED
    BY <2>1, <2>2, FS_AddElement
<1>2. CASE p.do = "update"
  <2> DEFINE f == [x \in R |-> IF ~x.dead /\ Fits(x, p.where) THEN With(x, p.row) ELSE x]
  <2>1. Apply(p, R) = {f[x] : x \in R}
    BY <1>2 DEF Apply
  <2> HIDE DEF f
  <2>2. QED
    BY <2>1, FiniteImage
<1>3. CASE p.do \notin {"put", "update"}
  <2>1. Apply(p, R) \subseteq R
    BY <1>3 DEF Apply
  <2>2. QED
    BY <2>1, FS_Subset
<1>4. QED
  BY <1>1, <1>2, <1>3

LEMMA RowsStay ==
  ASSUME RecordsInv, NEW r, Outcome(r), NEW t \in Tables
  PROVE  RowsOf(t, db'[t]) /\ IsFiniteSet(db'[t])
<1>0. RowsOf(t, db[t]) /\ IsFiniteSet(db[t])
  BY Situation DEF Outcome, RecordsInv, Shapes
<1>1. CASE db'[t] = db[t]
  BY <1>0, <1>1
<1>2. CASE \E p \in Will(r) : Ran(r, p, t)
  <2>1. PICK p \in Will(r) : Ran(r, p, t)
    BY <1>2
  <2>2. Sane(p) /\ p.table = t /\ db'[t] = Apply(p, db[t])
    BY <2>1, Situation DEF Outcome, Ran
  <2>3. QED
    BY <1>0, <2>2, RowsAfter, ApplyFinite
<1>3. QED
  BY <1>1, <1>2 DEF Outcome, TablesAfter

LEMMA ContinueTypes ==
  ASSUME RecordsInv, NEW r, Outcome(r)
  PROVE  DatabaseTypeOK'
<1>1. DOMAIN db' = Tables /\ \A t \in Tables : (\A x, y \in db'[t] : x.id = y.id => x = y) /\ Indexed(db'[t], t)
  BY RowsStay DEF Outcome, TablesAfter, RowsOf
<1>2. /\ r \in Requests /\ todo[r] # << >> /\ asked' = asked /\ before' = before
      /\ \A q \in Requests \ {r} : todo'[q] = todo[q]
      /\ \/ failed' = failed
         \/ failed' = failed \cup {r} /\ todo'[r] = << >>
  BY DEF Outcome
<1>3. /\ failed \subseteq Requests /\ before \subseteq Requests \X Requests
      /\ \A q \in Requests : todo[q] # << >> => asked[q] # NotAsked /\ q \notin failed
      /\ \A p \in before : Answered(p[1]) /\ asked[p[2]] # NotAsked
  BY DEF RecordsInv, DatabaseTypeOK, Shapes
<1>4. failed' \subseteq Requests
  BY <1>2, <1>3
<1>5. \A q \in Requests : todo'[q] # << >> => asked'[q] # NotAsked /\ q \notin failed'
  BY <1>2, <1>3
<1>6. ASSUME NEW p \in before' PROVE Answered(p[1])' /\ asked'[p[2]] # NotAsked
  <2>1. p \in before /\ p[1] \in Requests /\ Answered(p[1]) /\ asked[p[2]] # NotAsked
    BY <1>2, <1>3
  <2>2. p[1] # r
    BY <1>2, <2>1 DEF Answered
  <2>3. QED
    BY <1>2, <2>1, <2>2 DEF Answered
<1>8. QED
  BY <1>1, <1>4, <1>5, <1>6 DEF DatabaseTypeOK, Indexed

LEMMA ContinueShapes ==
  ASSUME RecordsInv, NEW r, Outcome(r)
  PROVE  Shapes'
<1>1. /\ r \in Requests /\ asked' = asked /\ before' = before /\ DOMAIN todo' = Requests
      /\ \A q \in Requests \ {r} : todo'[q] = todo[q]
  BY DEF Outcome
<1>2. \A t \in Tables : IsFiniteSet(db'[t]) /\ \A x \in db'[t] : DOMAIN x = Columns(t)
  BY RowsStay DEF RowsOf
<1>3. ASSUME NEW q \in Requests PROVE Program(q, todo'[q]) /\ \A p \in WillOf(q, todo'[q]) : Meant(q, asked[q], p)
  <2>1. CASE q # r
    BY <1>1, <2>1 DEF RecordsInv, Shapes, Will
  <2>2. CASE q = r
    <3>1. \A p \in Will(r) : Meant(r, asked[r], p)
      BY <1>1 DEF RecordsInv, Shapes
    <3>2. \A p : Records(r, p) => Meant(r, asked[r], p)
      BY TheTables DEF Records, Meant, Stores, Deletes
    <3>3. QED
      BY <2>2, <3>1, <3>2 DEF Outcome, ProgramAfter
  <2>3. QED
    BY <2>1, <2>2
<1>4. ASSUME NEW q \in Requests, NEW s \in Elements(todo'[q]), s.do \in Special
      PROVE  asked[q].saves = {} /\ asked[q].gone = {}
  <2>1. \E s0 \in Elements(todo[q]) : s0.do \in Special
    BY <1>1, <1>4 DEF Outcome, ProgramAfter
  <2>2. QED
    BY <2>1 DEF RecordsInv, Shapes
<1>5. /\ DOMAIN asked = Requests /\ before \subseteq Requests \X Requests
      /\ \A q \in failed : asked[q] # NotAsked
  BY DEF RecordsInv, Shapes
<1>6. \A q \in failed' : asked[q] # NotAsked
  BY <1>1, <1>5 DEF Outcome, RecordsInv, DatabaseTypeOK
<1>7. QED
  BY <1>1, <1>2, <1>3, <1>4, <1>5, <1>6 DEF Shapes, Will

LEMMA ConfigStays ==
  ASSUME RecordsInv, NEW r, Outcome(r)
  PROVE  db'["config"] # {} /\ \A x \in db'["config"] : x.id = "config" /\ ~x.dead
<1>1. "config" \in Tables /\ r \in Requests
  BY TheTables DEF Outcome
<1>2. db["config"] # {} /\ \A x \in db["config"] : x.id = "config" /\ ~x.dead
  BY DEF RecordsInv, Origins
<1>3. CASE db'["config"] = db["config"]
  BY <1>2, <1>3
<1>4. ASSUME NEW p \in Will(r), Ran(r, p, "config")
      PROVE  db'["config"] # {} /\ \A x \in db'["config"] : x.id = "config" /\ ~x.dead
  <2>1. p.table = "config" /\ db'["config"] = Apply(p, db["config"])
    BY <1>4 DEF Ran
  <2>2. Meant(r, asked[r], p)
    BY <1>1 DEF RecordsInv, Shapes
  <2>3. p.do = "update" /\ DOMAIN p.row \subseteq Saved("config")
    BY <2>1, <2>2 DEF Meant, Stores, Configures
  <2>4. Apply(p, db["config"]) =
          {IF ~x.dead /\ Fits(x, p.where) THEN With(x, p.row) ELSE x : x \in db["config"]}
    BY <2>3 DEF Apply
  <2>5. "id" \notin DOMAIN p.row /\ "dead" \notin DOMAIN p.row
    BY <1>1, <2>3, TheColumns
  <2>6. ASSUME NEW x \in db["config"] PROVE With(x, p.row).id = x.id /\ With(x, p.row).dead = x.dead
    <3>1. DOMAIN x = Columns("config")
      BY <1>1 DEF RecordsInv, Shapes
    <3>2. "id" \in DOMAIN x /\ "dead" \in DOMAIN x
      BY <1>1, <3>1, TheColumns DEF Columns
    <3>3. \A c \in DOMAIN x \ DOMAIN p.row : With(x, p.row)[c] = x[c]
      BY WithColumn
    <3>4. QED
      BY <2>5, <3>2, <3>3
  <2>7. db'["config"] # {}
    BY <1>2, <2>1, <2>4
  <2>8. ASSUME NEW x \in db'["config"] PROVE x.id = "config" /\ ~x.dead
    <3>1. PICK y \in db["config"] : x = With(y, p.row) \/ x = y
      BY <2>1, <2>4
    <3>2. x.id = y.id /\ x.dead = y.dead
      BY <2>6, <3>1
    <3>3. y.id = "config" /\ ~y.dead
      BY <1>2
    <3>4. QED
      BY <3>2, <3>3, Zenon
  <2>9. QED
    BY <2>7, <2>8
<1>5. QED
  BY <1>1, <1>3, <1>4 DEF Outcome, TablesAfter

LEMMA ContinueOrigins ==
  ASSUME RecordsInv, NEW r, Outcome(r)
  PROVE  Origins'
<1>1. r \in Requests /\ asked' = asked /\ todo[r] # << >>
  BY DEF Outcome
<1>2. \A q : Known(q) => Known(q)'
  BY <1>1 DEF Known, Began
<1>3. Known(r)
  BY <1>1 DEF Known, Began, RecordsInv, DatabaseTypeOK
<1>4. ASSUME NEW t \in Tables \ {"config"}, NEW x \in db'[t] PROVE Known(by(x))
  <2>1. CASE Born(r, t, x)
    BY <1>3, <2>1 DEF Born
  <2>2. ASSUME NEW y \in Copies(t), Ancestor(t, x, y) PROVE Known(by(x))
    <3>1. by(x) = by(y)
      BY <2>2 DEF Ancestor, by
    <3>2. CASE y \in db[t]
      BY <3>1, <3>2 DEF RecordsInv, Origins
    <3>3. ASSUME NEW q \in Requests, y \in Held(q, t) PROVE Known(by(x))
      <4>1. Key(t, y) \in asked[q].saves
        BY <3>3, HeldIsSaved
      <4>2. Known(Key(t, y)[2][1])
        BY <4>1 DEF RecordsInv, Origins, Key
      <4>3. QED
        BY <3>1, <4>2 DEF Key, by
    <3>4. QED
      BY <3>2, <3>3 DEF Copies
  <2>3. QED
    BY <2>1, <2>2, Ancestry
<1>5. \A t \in Tables \ {"config"} : \A x \in db'[t] : Known(by(x))'
  BY <1>2, <1>4
<1>6. /\ \A q \in Requests : Targets(asked[q])
      /\ \A q \in Requests : \A g \in asked[q].saves \cup asked[q].gone : g[1] # "config" => Known(g[2][1])
  BY DEF RecordsInv, Origins
<1>7. QED
  BY <1>1, <1>2, <1>5, <1>6, ConfigStays DEF Origins

LEMMA ContinueUnborn ==
  ASSUME RecordsInv, NEW r, Outcome(r)
  PROVE  Unborn'
<1>1. r \in Requests /\ asked' = asked
  BY DEF Outcome
<1>2. \A q \in Requests : IdsOf(q, todo'[q]) \subseteq IdsOf(q, todo[q])
  BY DEF Outcome, ProgramAfter
<1>3. ASSUME NEW q \in Requests, NEW t \in Tables, NEW x \in db'[t]
      PROVE  Key(t, x) \notin IdsOf(q, todo'[q])
  <2>1. CASE Born(r, t, x)
    <3>1. CASE q = r
      BY <2>1, <3>1 DEF Born
    <3>2. CASE q # r
      <4>1. Key(t, x)[2][1] = r
        BY <2>1 DEF Born, Key, by
      <4>2. QED
        BY <3>2, <4>1, IdsAreMine
    <3>3. QED
      BY <3>1, <3>2
  <2>2. ASSUME NEW y \in Copies(t), Ancestor(t, x, y) PROVE Key(t, x) \notin IdsOf(q, todo'[q])
    <3>1. Key(t, x) = Key(t, y)
      BY <2>2 DEF Ancestor, Key
    <3>2. Key(t, y) \notin IdsOf(q, todo[q])
      BY BornUnseen
    <3>3. QED
      BY <1>2, <3>1, <3>2
  <2>3. QED
    BY <2>1, <2>2, Ancestry
<1>4. \A q \in Requests : \A s \in Requests : \A g \in asked[s].saves \cup asked[s].gone : g \notin IdsOf(q, todo'[q])
  BY <1>2 DEF RecordsInv, Unborn
<1>5. QED
  BY <1>1, <1>3, <1>4 DEF Unborn, Key

LEMMA ContinueRecords ==
  ASSUME RecordsInv, NEW r, Outcome(r)
  PROVE  RecordsInv'
BY ContinueTypes, ContinueShapes, ContinueOrigins, ContinueUnborn, ContinueAlike DEF RecordsInv

----------------------------------------------------------------------------
(* A row that is being deleted, while requests go on.                      *)

\* A request with something left to do is over before no other.
LEMMA Active ==
  ASSUME RecordsInv, NEW r \in Requests, todo[r] # << >>
  PROVE  asked[r] # NotAsked /\ \A q : ~Preceded(r, q)
<1>1. asked[r] # NotAsked /\ \A p \in before : Answered(p[1])
  BY DEF RecordsInv, DatabaseTypeOK
<1>2. ASSUME NEW q, Preceded(r, q) PROVE FALSE
  <2>1. Answered(<<r, q>>[1])
    BY <1>1, <1>2 DEF Preceded
  <2>2. QED
    BY <2>1 DEF Answered
<1>3. QED
  BY <1>1, <1>2

LEMMA AskedOf ==
  ASSUME NEW q \in Requests, asked[q].saves \cup asked[q].gone # {}
  PROVE  asked[q] # NotAsked
BY DEF NotAsked, Ask

LEMMA SameAnswers ==
  ASSUME NEW r, Outcome(r), NEW q
  PROVE  /\ \A g : Rescued(q, g)' <=> Rescued(q, g)
         /\ \A s : Preceded(s, q)' <=> Preceded(s, q)
         /\ \A g, c : Excused(q, g, c)' <=> Excused(q, g, c)
<1>1. asked' = asked /\ before' = before
  BY DEF Outcome
<1>2. QED
  BY <1>1 DEF Rescued, Overlap, Preceded, Excused

LEMMA FitsAlike ==
  ASSUME NEW t, NEW x, NEW y, Ancestor(t, x, y), NEW w, DOMAIN w \subseteq Fixed(t), Fits(y, w)
  PROVE  Fits(x, w)
BY DEF Ancestor, Fits

LEMMA ContinueHits ==
  ASSUME RecordsInv, Doomed, NEW r, Outcome(r), NEW q \in Requests, NEW g \in asked[q].gone
  PROVE  Hits(q, g)'
<1>1. r \in Requests /\ \A s \in Requests \ {r} : todo'[s] = todo[s]
  BY DEF Outcome
<1>2. g = <<g[1], g[2]>> /\ g[1] \in Tables
  BY DEF RecordsInv, Origins, Targets
<1>3. SUFFICES ASSUME NEW p \in WillOf(q, todo'[q]), Deletes(p, g), NEW x \in Copies(g[1])', x.id = g[2]
               PROVE  Fits(x, p.where)
  BY DEF Hits, Will
<1>4. p \in Will(q)
  <2>1. CASE q = r
    BY <1>3, <2>1 DEF Outcome, ProgramAfter, Records, Deletes
  <2>2. CASE q # r
    BY <1>1, <1>3, <2>2 DEF Will
  <2>3. QED
    BY <2>1, <2>2
<1>5. ~Born(r, g[1], x)
  <2>1. SUFFICES ASSUME Born(r, g[1], x) PROVE FALSE
    OBVIOUS
  <2>2. Key(g[1], x) \notin asked[q].gone
    BY <1>1, <1>2, <2>1, BornUnseen DEF Born
  <2>3. Key(g[1], x) = g
    BY <1>2, <1>3 DEF Key
  <2>4. QED
    BY <2>2, <2>3
<1>6. PICK y \in Copies(g[1]) : Ancestor(g[1], x, y)
  BY <1>2, <1>3, <1>5, CopiesOn
<1>7. Fits(y, p.where)
  BY <1>3, <1>4, <1>6 DEF Doomed, Hits, Ancestor
<1>8. DOMAIN p.where \subseteq Fixed(g[1])
  BY <1>3, <1>4 DEF RecordsInv, Shapes, Meant, Deletes
<1>9. QED
  BY <1>6, <1>7, <1>8, FitsAlike

LEMMA ContinueGone ==
  ASSUME RecordsInv, NEW r, Outcome(r), NEW q \in Requests, NEW g \in asked[q].gone, Gone(q, g)
  PROVE  Gone(q, g)'
<1>1. r \in Requests /\ todo[r] # << >> /\ asked' = asked
  BY DEF Outcome
<1>2. g = <<g[1], g[2]>> /\ g[1] \in Tables
  BY DEF RecordsInv, Origins, Targets
<1>3. ASSUME NEW x \in db'[g[1]], ~x.dead, x.id = g[2] PROVE FALSE
  <2>1. Key(g[1], x) = g
    BY <1>2, <1>3 DEF Key
  <2>2. CASE Kept(g[1], x)
    BY <1>3, <2>2 DEF Kept, Gone, Live
  <2>3. CASE Stored(r, g[1], x)
    <3>1. PICK p \in Will(r) : p.do = "put" /\ p.table = g[1] /\ x = p.row
      BY <2>3 DEF Stored
    <3>2. CASE by(p.row) = r
      <4>1. g \in IdsOf(r, todo[r])
        BY <2>1, <3>1, <3>2, MineIsUnborn DEF Will
      <4>2. QED
        BY <1>1, <4>1 DEF RecordsInv, Unborn
    <3>3. CASE by(p.row) # r
      <4>1. g \in asked[r].saves
        BY <1>1, <2>1, <3>1, <3>3, TheirsIsSaved
      <4>2. QED
        BY <1>1, <4>1, Active DEF Gone
    <3>4. QED
      BY <3>2, <3>3
  <2>4. CASE Changed(r, g[1], x)
    <3>1. PICK p \in Will(r), y \in db[g[1]] :
            p.do = "update" /\ p.table = g[1] /\ ~y.dead /\ x = With(y, p.row)
      BY <2>4 DEF Changed
    <3>2. y.id = g[2]
      BY <1>2, <1>3, <3>1, ChangedFrom DEF Ancestor
    <3>3. QED
      BY <3>1, <3>2 DEF Gone, Live
  <2>5. QED
    BY <1>2, <1>3, <2>2, <2>3, <2>4, NewRows
<1>4. \A s \in Requests : g \in asked[s].saves => Preceded(s, q)'
  BY SameAnswers DEF Gone
<1>5. QED
  BY <1>1, <1>3, <1>4 DEF Gone, Live

\* The deletion itself.
LEMMA DeletionDeletes ==
  ASSUME RecordsInv, Doomed, NEW r, Outcome(r), NEW g \in asked[r].gone,
         NEW p \in Will(r), Deletes(p, g), p \notin WillOf(r, todo'[r]), r \notin failed'
  PROVE  Rescued(r, g) \/ Gone(r, g)'
<1>1. r \in Requests /\ todo[r] # << >> /\ asked' = asked
  BY DEF Outcome
<1>2. g[1] \in Tables /\ g \notin asked[r].saves /\ p.table = g[1]
  BY <1>1 DEF RecordsInv, Origins, Targets, Deletes
<1>3. ~\E s \in Elements(todo[r]) : s.do \in Special
  BY <1>1 DEF RecordsInv, Shapes
<1>4. Followed(r, p)
  BY <1>3 DEF Outcome
<1>5. db'[g[1]] = Apply(p, db[g[1]])
  BY <1>2, <1>4 DEF Followed, Deletes
<1>6. Sane(p) /\ RowsOf(p.table, db[p.table])
  BY <1>1, <1>2, Situation
<1>7. \A x \in db[g[1]] : x.id = g[2] => Fits(x, p.where)
  BY <1>1 DEF Doomed, Hits, Copies
<1>8. ASSUME NEW x \in db'[g[1]], ~x.dead, x.id = g[2] PROVE FALSE
  <2>1. \/ x \in db[g[1]] /\ ~(p.do = "purge" /\ Fits(x, p.where))
                          /\ ~(p.do = "update" /\ ~x.dead /\ Fits(x, p.where))
        \/ p.do = "update" /\ \E y \in db[g[1]] : ~y.dead /\ Fits(y, p.where) /\ x = With(y, p.row)
    BY <1>2, <1>5, <1>6, <1>8, RowsAfter DEF Deletes
  <2>2. CASE x \in db[g[1]] /\ ~(p.do = "purge" /\ Fits(x, p.where))
                            /\ ~(p.do = "update" /\ ~x.dead /\ Fits(x, p.where))
    BY <1>7, <1>8, <2>2 DEF Deletes
  <2>3. ASSUME p.do = "update", NEW y, x = With(y, p.row) PROVE FALSE
    <3>1. "dead" \in DOMAIN p.row
      BY <2>3 DEF Deletes
    <3>3. p.row.dead
      BY <1>6, <2>3, <3>1 DEF Sane
    <3>4. With(y, p.row).dead
      BY <3>1, <3>3, DeadWith
    <3>5. QED
      BY <1>8, <2>3, <3>4, Zenon
  <2>4. QED
    BY <2>1, <2>2, <2>3
<1>9. CASE \E s \in Requests : g \in asked[s].saves /\ ~Preceded(s, r)
  <2>1. PICK s \in Requests : g \in asked[s].saves /\ ~Preceded(s, r)
    BY <1>9
  <2>2. s # r /\ asked[s] # NotAsked /\ asked[r] # NotAsked /\ ~Preceded(r, s)
    BY <1>1, <1>2, <2>1, AskedOf, Active
  <2>3. QED
    BY <2>1, <2>2 DEF Rescued, Overlap
<1>10. CASE ~\E s \in Requests : g \in asked[s].saves /\ ~Preceded(s, r)
  <2>1. \A s \in Requests : g \in asked[s].saves => Preceded(s, r)'
    BY <1>10, SameAnswers
  <2>2. QED
    BY <1>1, <1>8, <2>1 DEF Gone, Live
<1>11. QED
  BY <1>9, <1>10

LEMMA ContinueDoomed ==
  ASSUME RecordsInv, Doomed, NEW r, Outcome(r)
  PROVE  Doomed'
<1>1. /\ r \in Requests /\ asked' = asked /\ \A s \in Requests \ {r} : todo'[s] = todo[s]
      /\ failed \subseteq failed'
  BY DEF Outcome
<1>2. SUFFICES ASSUME NEW q \in Requests, NEW g \in asked[q].gone
               PROVE  q \in failed' \/ (\E p \in WillOf(q, todo'[q]) : Deletes(p, g))
                      \/ Rescued(q, g)' \/ Gone(q, g)'
  BY <1>1, ContinueHits DEF Doomed, Will
<1>3. CASE q \in failed
  BY <1>1, <1>3
<1>4. CASE Rescued(q, g)
  BY <1>4, SameAnswers
<1>5. CASE Gone(q, g)
  BY <1>5, ContinueGone
<1>6. ASSUME NEW p \in Will(q), Deletes(p, g)
      PROVE  q \in failed' \/ (\E d \in WillOf(q, todo'[q]) : Deletes(d, g))
             \/ Rescued(q, g)' \/ Gone(q, g)'
  <2>1. CASE q # r
    BY <1>1, <1>6, <2>1 DEF Will
  <2>2. CASE q = r
    BY <1>6, <2>2, DeletionDeletes, SameAnswers
  <2>3. QED
    BY <2>1, <2>2
<1>7. QED
  BY <1>3, <1>4, <1>5, <1>6 DEF Doomed

\* Only the configuration has a column that is both saved and set by an UPDATE.
LEMMA SavedBySave ==
  ASSUME RecordsInv, NEW r \in Requests, NEW p \in Will(r), p.do = "update",
         NEW g, p.table = g[1], NEW c \in Saved(g[1]), c \in DOMAIN p.row
  PROVE  /\ g[1] = "config" /\ p.where = All /\ asked[r].saves = {<<"config", "config">>}
         /\ c \in DOMAIN asked[r].sets /\ p.row[c] = asked[r].sets[c]
<1>1. Meant(r, asked[r], p)
  BY DEF RecordsInv, Shapes
<1>2. CASE p.table = "config" /\ Configures(asked[r], p)
  BY <1>2 DEF Configures
<1>3. CASE Marks(p)
  BY <1>1, <1>3, TheColumns DEF Meant, Marks
<1>4. QED
  BY <1>1, <1>2, <1>3 DEF Meant

LEMMA SetStays ==
  ASSUME RecordsInv, NEW r, Outcome(r), NEW q \in Requests, NEW g \in asked[q].saves,
         NEW c \in DOMAIN asked[q].sets, Set(q, g, c)
  PROVE  Excused(q, g, c) \/ Set(q, g, c)'
<1>1. r \in Requests /\ todo[r] # << >> /\ asked' = asked
  BY DEF Outcome
<1>2. /\ g = <<g[1], g[2]>> /\ g[1] \in Tables /\ c \in Saved(g[1])
      /\ g[1] = "config" => g[2] = "config"
  BY DEF RecordsInv, Origins, Targets
<1>3. SUFFICES ASSUME ~Excused(q, g, c), NEW x \in db'[g[1]], x.id = g[2]
               PROVE  x[c] = asked[q].sets[c]
  BY <1>1, HeldOn DEF Set
<1>4. Key(g[1], x) = g
  BY <1>2, <1>3 DEF Key
<1>5. CASE Kept(g[1], x)
  BY <1>3, <1>5 DEF Set, Kept
<1>6. CASE Stored(r, g[1], x)
  <2>1. PICK p \in Will(r) : p.do = "put" /\ p.table = g[1] /\ x = p.row
    BY <1>6 DEF Stored
  <2>2. by(p.row) # r
    <3>1. SUFFICES ASSUME by(p.row) = r PROVE FALSE
      OBVIOUS
    <3>2. Key(p.table, p.row) \in IdsOf(r, todo[r])
      BY <2>1, <3>1, MineIsUnborn DEF Will
    <3>3. QED
      BY <1>1, <1>4, <2>1, <3>2 DEF RecordsInv, Unborn
  <2>3. CASE q = r
    BY <1>1, <2>1, <2>2, <2>3, TheirsIsSaved
  <2>4. CASE q # r
    <3>1. x \in Held(r, g[1])
      BY <2>1, <2>2 DEF Held
    <3>2. QED
      BY <1>1, <1>3, <2>4, <3>1 DEF Set
  <2>5. QED
    BY <2>3, <2>4
<1>7. CASE Changed(r, g[1], x)
  <2>1. PICK p \in Will(r), y \in db[g[1]] :
          p.do = "update" /\ p.table = g[1] /\ x = With(y, p.row)
    BY <1>7 DEF Changed
  <2>2. y.id = g[2] /\ \A d \in Columns(g[1]) \ DOMAIN p.row : x[d] = y[d]
    BY <1>2, <1>3, <2>1, ChangedFrom DEF Ancestor
  <2>3. CASE c \notin DOMAIN p.row
    BY <1>2, <2>2, <2>3 DEF Set, Columns
  <2>4. CASE c \in DOMAIN p.row
    <3>1. /\ g[1] = "config" /\ asked[r].saves = {<<"config", "config">>}
          /\ c \in DOMAIN asked[r].sets /\ p.row[c] = asked[r].sets[c]
      BY <1>1, <1>2, <2>1, <2>4, SavedBySave
    <3>2. r = q
      BY <1>1, <1>2, <1>3, <3>1, Active DEF Excused
    <3>3. With(y, p.row)[c] = p.row[c]
      BY <2>4, WithSet
    <3>4. QED
      BY <2>1, <3>1, <3>2, <3>3
  <2>5. QED
    BY <2>3, <2>4
<1>8. QED
  BY <1>2, <1>3, <1>5, <1>6, <1>7, NewRows

\* The update itself.
LEMMA UpdateUpdates ==
  ASSUME RecordsInv, NEW r, Outcome(r), NEW g \in asked[r].saves, NEW c \in DOMAIN asked[r].sets,
         NEW p \in Will(r), SetsColumn(p, g, c), p \notin WillOf(r, todo'[r]), r \notin failed'
  PROVE  Excused(r, g, c) \/ Set(r, g, c)'
<1>1. r \in Requests /\ todo[r] # << >> /\ asked' = asked
  BY DEF Outcome
<1>2. /\ g = <<g[1], g[2]>> /\ g[1] \in Tables /\ c \in Saved(g[1]) /\ p.table = g[1]
      /\ g[1] = "config" => g[2] = "config"
  BY <1>1 DEF RecordsInv, Origins, Targets, SetsColumn
<1>3. ~\E s \in Elements(todo[r]) : s.do \in Special
  BY <1>1 DEF RecordsInv, Shapes
<1>4. Followed(r, p)
  BY <1>3 DEF Outcome
<1>5. SUFFICES ASSUME ~Excused(r, g, c) PROVE Set(r, g, c)'
  OBVIOUS
<1>6. Sane(p) /\ RowsOf(g[1], db[g[1]]) /\ Indexed(db[g[1]], g[1])
  BY <1>1, <1>2, Situation
<1>7. ASSUME NEW s \in Requests \ {r}, NEW x \in Held(s, g[1])', x.id = g[2] PROVE FALSE
  <2>1. x \in Held(s, g[1])
    BY <1>7, HeldOn
  <2>2. Key(g[1], x) = g
    BY <1>2, <1>7 DEF Key
  <2>3. g \in asked[s].saves
    BY <1>2, <1>7, <2>1, <2>2, HeldIsSaved
  <2>4. todo[s] # << >>
    BY <2>1, NothingLeft DEF Held
  <2>5. asked[s] # NotAsked /\ asked[r] # NotAsked /\ ~Preceded(s, r) /\ ~Preceded(r, s)
    BY <1>1, <1>7, <2>4, Active
  <2>6. QED
    BY <1>5, <1>7, <2>3, <2>5 DEF Excused, Overlap
<1>8. ASSUME NEW x \in db'[g[1]], x.id = g[2] PROVE x[c] = asked[r].sets[c]
  <2>1. CASE p.do = "put"
    <3>1. Key(p.table, p.row) = g
      BY <1>2, <2>1 DEF SetsColumn, Key, Sane
    <3>2. by(p.row) # r
      <4>1. SUFFICES ASSUME by(p.row) = r PROVE FALSE
        OBVIOUS
      <4>2. Key(p.table, p.row) \in IdsOf(r, todo[r])
        BY <2>1, <4>1, MineIsUnborn DEF Will
      <4>3. QED
        BY <1>1, <3>1, <4>2 DEF RecordsInv, Unborn
    <3>3. p.row[c] = asked[r].sets[c] /\ p.row.id = g[2]
      BY <1>1, <1>2, <2>1, <3>1, <3>2, TheirsIsSaved DEF Key
    <3>4. CASE db'[g[1]] = Apply(p, db[g[1]])
      <4>1. x = p.row \/ x.id # p.row.id
        BY <1>2, <1>6, <1>8, <2>1, <3>4, RowsAfter
      <4>2. QED
        BY <1>8, <3>3, <4>1
    <3>5. CASE db'[g[1]] = db[g[1]] /\ ~Indexed(Apply(p, db[g[1]]), g[1])
      <4>1. p.row \in Copies(g[1]) /\ x \in Copies(g[1])
        BY <1>1, <1>2, <1>8, <2>1, <3>2, <3>5 DEF Copies, Held
      <4>2. \A d \in Fixed(g[1]) : x[d] = p.row[d]
        BY <1>2, <1>8, <3>3, <4>1 DEF RecordsInv, Alike
      <4>3. Indexed(Apply(p, db[g[1]]), g[1])
        BY <1>2, <1>6, <1>8, <3>3, <3>5, <4>2, NeverRefused
      <4>4. QED
        BY <3>5, <4>3
    <3>6. QED
      BY <1>2, <1>4, <3>4, <3>5 DEF Followed
  <2>2. CASE p.do # "put"
    <3>1. p.do = "update" /\ c \in DOMAIN p.row
      BY <2>2 DEF SetsColumn
    <3>2. g[1] = "config" /\ p.where = All /\ p.row[c] = asked[r].sets[c]
      BY <1>1, <1>2, <3>1, SavedBySave
    <3>3. db'[g[1]] = Apply(p, db[g[1]])
      BY <1>2, <1>4, <3>1 DEF Followed
    <3>4. \A y \in db[g[1]] : ~y.dead /\ Fits(y, p.where)
      BY <3>2, NothingFits DEF RecordsInv, Origins
    <3>5. \/ x \in db[g[1]] /\ ~(p.do = "update" /\ ~x.dead /\ Fits(x, p.where))
          \/ \E y \in db[g[1]] : ~y.dead /\ Fits(y, p.where) /\ x = With(y, p.row)
      BY <1>2, <1>6, <1>8, <2>2, <3>3, RowsAfter
    <3>6. PICK y \in db[g[1]] : x = With(y, p.row)
      BY <3>1, <3>4, <3>5
    <3>7. With(y, p.row)[c] = p.row[c]
      BY <3>1, WithSet
    <3>8. QED
      BY <3>2, <3>6, <3>7
  <2>3. QED
    BY <2>1, <2>2
<1>9. QED
  BY <1>1, <1>7, <1>8 DEF Set

LEMMA ContinueStanding ==
  ASSUME RecordsInv, Standing, NEW r, Outcome(r)
  PROVE  Standing'
<1>1. /\ r \in Requests /\ asked' = asked /\ \A s \in Requests \ {r} : todo'[s] = todo[s]
      /\ failed \subseteq failed'
  BY DEF Outcome
<1>2. SUFFICES ASSUME NEW q \in Requests, NEW g \in asked[q].saves, NEW c \in DOMAIN asked[q].sets
               PROVE  \/ q \in failed' \/ Excused(q, g, c)'
                      \/ \E p \in WillOf(q, todo'[q]) : SetsColumn(p, g, c)
                      \/ Set(q, g, c)'
  BY <1>1 DEF Standing, Will
<1>3. CASE q \in failed
  BY <1>1, <1>3
<1>4. CASE Excused(q, g, c)
  BY <1>4, SameAnswers
<1>5. CASE Set(q, g, c)
  BY <1>5, SetStays, SameAnswers
<1>6. ASSUME NEW p \in Will(q), SetsColumn(p, g, c)
      PROVE  \/ q \in failed' \/ Excused(q, g, c)'
             \/ \E d \in WillOf(q, todo'[q]) : SetsColumn(d, g, c)
             \/ Set(q, g, c)'
  <2>1. CASE q # r
    BY <1>1, <1>6, <2>1 DEF Will
  <2>2. CASE q = r
    BY <1>6, <2>2, UpdateUpdates, SameAnswers
  <2>3. QED
    BY <2>1, <2>2
<1>7. QED
  BY <1>3, <1>4, <1>5, <1>6 DEF Standing

----------------------------------------------------------------------------
(* A request that begins.                                                  *)

\* A program and what it is for.
Purposeful(r, a, q) ==
  /\ Program(r, q) /\ \A p \in WillOf(r, q) : Meant(r, a, p)
  /\ \A s \in Elements(q) : s.do \in Special => a.saves = {} /\ a.gone = {}

\* The row a whole-row save was made from.
Revision(t, a, x, row) ==
  /\ row.id = x.id
  /\ \A c \in Fixed(t) \cup (Saved(t) \ DOMAIN a.sets) : row[c] = x[c]

\* What it was asked for is what it will do, to rows that are there.
Sound(r, a, q) ==
  /\ r \in Requests /\ a # NotAsked
  /\ Purposeful(r, a, q)
  /\ Targets(a)
  /\ \A g \in a.saves : \E x \in Live(g[1]) : x.id = g[2]
  /\ \A g \in a.gone : \E x \in db[g[1]] : x.id = g[2]
  /\ \A p \in WillOf(r, q) : p.do = "put" /\ by(p.row) # r =>
       \E x \in Live(p.table) : Revision(p.table, a, x, p.row)
  /\ \A g \in a.saves : \A c \in DOMAIN a.sets : \E p \in WillOf(r, q) : SetsColumn(p, g, c)
  /\ \A g \in a.gone : \E p \in WillOf(r, q) : Deletes(p, g)
  /\ \A g \in a.gone : \A p \in WillOf(r, q) : Deletes(p, g) =>
       \A x \in db[g[1]] : x.id = g[2] => Fits(x, p.where)

Starts(r, a, q) == Sound(r, a, q) /\ Begin(r, a, q)

LEMMA Starting ==
  ASSUME RecordsInv, NEW r, NEW a, NEW q, Starts(r, a, q)
  PROVE  /\ r \in Requests /\ asked[r] = NotAsked /\ todo[r] = << >> /\ r \notin failed
         /\ db' = db /\ failed' = failed
         /\ DOMAIN asked' = Requests /\ asked'[r] = a /\ \A s \in Requests \ {r} : asked'[s] = asked[s]
         /\ DOMAIN todo' = Requests /\ todo'[r] = q /\ \A s \in Requests \ {r} : todo'[s] = todo[s]
         /\ WillOf(r, todo'[r]) = WillOf(r, q) /\ \A s \in Requests \ {r} : WillOf(s, todo'[s]) = Will(s)
         /\ before' = before \cup {<<s, r>> : s \in {s \in Requests : Answered(s)}}
         /\ \A s : ~Preceded(r, s) /\ ~Preceded(s, r) /\ ~Preceded(r, s)'
         /\ asked[r].saves = {} /\ asked[r].gone = {}
<1>1. /\ r \in Requests /\ asked[r] = NotAsked /\ db' = db /\ failed' = failed
      /\ asked' = [asked EXCEPT ![r] = a] /\ todo' = [todo EXCEPT ![r] = q]
      /\ before' = before \cup {<<s, r>> : s \in {s \in Requests : Answered(s)}}
  BY DEF Starts, Sound, Begin
<1>2. DOMAIN asked = Requests /\ DOMAIN todo = Requests /\ r \notin failed
  BY <1>1 DEF RecordsInv, Shapes
<1>3. todo[r] = << >>
  BY <1>1 DEF RecordsInv, DatabaseTypeOK
<1>4. \A p \in before : Answered(p[1]) /\ asked[p[2]] # NotAsked
  BY DEF RecordsInv, DatabaseTypeOK
<1>5. ASSUME NEW s, <<r, s>> \in before \/ <<s, r>> \in before PROVE FALSE
  BY <1>1, <1>4, <1>5 DEF Answered
<1>6. ASSUME NEW s, <<r, s>> \in before' PROVE FALSE
  <2>1. Answered(r)
    BY <1>1, <1>5, <1>6
  <2>2. QED
    BY <1>1, <2>1 DEF Answered
<1>7. asked[r].saves = {} /\ asked[r].gone = {}
  BY <1>1 DEF NotAsked, Ask
<1>8. QED
  BY <1>1, <1>2, <1>3, <1>5, <1>6, <1>7 DEF Preceded, Will

\* What is relative to other requests stays for them.
LEMMA StartingAnswers ==
  ASSUME RecordsInv, NEW r, NEW a, NEW q, Starts(r, a, q), NEW s \in Requests \ {r}
  PROVE  /\ \A u : Preceded(u, s)' <=> Preceded(u, s)
         /\ \A g : Rescued(s, g) => Rescued(s, g)'
         /\ \A g, c : Excused(s, g, c) => Excused(s, g, c)'
<1>1. \A u : Preceded(u, s)' <=> Preceded(u, s)
  BY Starting DEF Preceded
<1>2. ASSUME NEW u \in Requests, Overlap(s, u) PROVE u # r /\ Overlap(s, u)'
  BY <1>1, <1>2, Starting DEF Overlap, Preceded
<1>3. ASSUME NEW g, Rescued(s, g) PROVE Rescued(s, g)'
  BY <1>2, <1>3, Starting DEF Rescued
<1>4. ASSUME NEW g, NEW c, Excused(s, g, c) PROVE Excused(s, g, c)'
  <2>1. PICK u \in Requests : /\ u # s /\ g \in asked[u].saves /\ ~Preceded(u, s)
                              /\ Overlap(u, s) \/ c \in DOMAIN asked[u].sets
    BY <1>4 DEF Excused
  <2>2. u # r
    BY <2>1, Starting
  <2>3. Overlap(u, s) => Overlap(u, s)'
    BY <1>1, <2>2, Starting DEF Overlap, Preceded
  <2>4. QED
    BY <1>1, <2>1, <2>2, <2>3, Starting DEF Excused
<1>5. QED
  BY <1>1, <1>3, <1>4

\* No row is this request's yet.
LEMMA StartingNew ==
  ASSUME RecordsInv, NEW r, NEW a, NEW q, Starts(r, a, q)
  PROVE  /\ \A t \in Tables \ {"config"} : \A x \in db[t] : by(x) # r
         /\ \A s \in Requests : \A g \in asked[s].saves \cup asked[s].gone : g[1] # "config" => g[2][1] # r
         /\ \A g \in IdsOf(r, q) : g[1] # "config"
<1>1. r \in Requests /\ ~Known(r)
  BY Starting, DatabaseAssumption DEF Known, Began
<1>2. ASSUME NEW g \in IdsOf(r, q) PROVE g[1] # "config"
  <2>1. PICK s \in Elements(q) : g \in Ids(r, s)
    BY <1>2 DEF IdsOf
  <2>2. CASE s.do \in {"collect", "deliver"}
    BY <2>1, <2>2 DEF Ids
  <2>3. CASE s.do \notin {"collect", "deliver"}
    <3>1. PICK p \in Leads(r, s) : p.do = "put" /\ g = <<p.table, p.row.id>>
      BY <2>1, <2>3 DEF Ids
    <3>2. Meant(r, a, p)
      BY <2>1, <3>1 DEF Starts, Sound, Purposeful, WillOf
    <3>3. QED
      BY <3>1, <3>2 DEF Meant, Stores
  <2>4. QED
    BY <2>2, <2>3
<1>3. QED
  BY <1>1, <1>2 DEF RecordsInv, Origins

\* The copies that are new are revisions of rows.
LEMMA StartingCopies ==
  ASSUME RecordsInv, NEW r, NEW a, NEW q, Starts(r, a, q), NEW t \in Tables
  PROVE  /\ \A s \in Requests \ {r} : Held(s, t)' = Held(s, t)
         /\ Held(r, t) = {}
         /\ \A x \in Held(r, t)' : /\ Key(t, x) \in a.saves
                                   /\ \A c \in DOMAIN a.sets : x[c] = a.sets[c]
                                   /\ \E y \in Live(t) : Revision(t, a, y, x)
         /\ \A x \in Copies(t)' : \E y \in Copies(t) : Ancestor(t, x, y)
<1>1. /\ \A s \in Requests \ {r} : WillOf(s, todo'[s]) = Will(s)
      /\ Will(r) = {} /\ WillOf(r, todo'[r]) = WillOf(r, q) /\ db' = db
  BY Starting, NothingLeft
<1>2. (\A s \in Requests \ {r} : Held(s, t)' = Held(s, t)) /\ Held(r, t) = {}
  BY <1>1 DEF Held, Will
<1>3. ASSUME NEW x \in Held(r, t)'
      PROVE  /\ Key(t, x) \in a.saves /\ \A c \in DOMAIN a.sets : x[c] = a.sets[c]
             /\ \E y \in Live(t) : Revision(t, a, y, x)
  <2>1. PICK p \in WillOf(r, q) : p.do = "put" /\ p.table = t /\ by(p.row) # r /\ x = p.row
    BY <1>1, <1>3 DEF Held, Will, by
  <2>2. Meant(r, a, p) /\ \E y \in Live(p.table) : Revision(p.table, a, y, p.row)
    BY <2>1 DEF Starts, Sound, Purposeful
  <2>3. Stores(r, a, p)
    BY <2>1, <2>2 DEF Meant
  <2>4. QED
    BY <2>1, <2>2, <2>3 DEF Stores, Key
<1>4. ASSUME NEW x \in Copies(t)' PROVE \E y \in Copies(t) : Ancestor(t, x, y)
  <2>1. CASE x \in Held(r, t)'
    BY <1>3, <2>1 DEF Revision, Ancestor, Copies, Live
  <2>2. CASE x \notin Held(r, t)'
    BY <1>1, <1>2, <1>4, <2>2 DEF Copies, Ancestor
  <2>3. QED
    BY <2>1, <2>2
<1>5. QED
  BY <1>2, <1>3, <1>4

LEMMA StartingTypes ==
  ASSUME RecordsInv, NEW r, NEW a, NEW q, Starts(r, a, q)
  PROVE  DatabaseTypeOK'
<1>1. /\ DOMAIN db = Tables /\ failed \subseteq Requests
      /\ \A t \in Tables : (\A x, y \in db[t] : x.id = y.id => x = y) /\ Indexed(db[t], t)
      /\ \A s \in Requests : todo[s] # << >> => asked[s] # NotAsked /\ s \notin failed
      /\ \A p \in before : Answered(p[1]) /\ asked[p[2]] # NotAsked
  BY DEF RecordsInv, DatabaseTypeOK
<1>2. a # NotAsked
  BY DEF Starts, Sound
<1>3. \A s \in Requests : todo'[s] # << >> => asked'[s] # NotAsked /\ s \notin failed
  BY <1>1, <1>2, Starting
<1>4. ASSUME NEW s \in Requests, Answered(s) PROVE Answered(s)'
  <2>1. s # r
    BY <1>4, Starting DEF Answered
  <2>2. QED
    BY <1>4, <2>1, Starting DEF Answered
<1>5. ASSUME NEW p \in before' PROVE Answered(p[1])' /\ asked'[p[2]] # NotAsked
  <2>1. CASE p \in before
    <3>1. p[1] \in Requests /\ p[2] \in Requests
      BY <2>1 DEF RecordsInv, Shapes
    <3>2. QED
      BY <1>1, <1>2, <1>4, <2>1, <3>1, Starting
  <2>2. CASE p \notin before
    <3>1. PICK s \in Requests : Answered(s) /\ p = <<s, r>>
      BY <1>5, <2>2, Starting
    <3>2. p[1] = s /\ p[2] = r
      BY <3>1
    <3>3. QED
      BY <1>2, <1>4, <3>1, <3>2, Starting
  <2>3. QED
    BY <2>1, <2>2
<1>6. DOMAIN db' = Tables /\ failed' \subseteq Requests
  BY <1>1, Starting
<1>7. \A t \in Tables : (\A x, y \in db'[t] : x.id = y.id => x = y) /\ Indexed(db'[t], t)
  BY <1>1, Starting
<1>8. QED
  BY <1>1, <1>3, <1>5, <1>6, <1>7, Starting DEF DatabaseTypeOK

LEMMA StartingShapes ==
  ASSUME RecordsInv, NEW r, NEW a, NEW q, Starts(r, a, q)
  PROVE  Shapes'
<1>1. /\ DOMAIN todo' = Requests /\ DOMAIN asked' = Requests /\ failed' = failed /\ db' = db
  BY Starting
<1>2. before' \subseteq Requests \X Requests
  BY Starting DEF RecordsInv, Shapes
<1>3. \A s \in failed : asked'[s] # NotAsked
  BY Starting DEF RecordsInv, Shapes, DatabaseTypeOK
<1>4. \A t \in Tables : IsFiniteSet(db[t]) /\ \A x \in db[t] : DOMAIN x = Columns(t)
  BY DEF RecordsInv, Shapes
<1>5. ASSUME NEW s \in Requests
      PROVE  /\ Program(s, todo'[s]) /\ \A p \in WillOf(s, todo'[s]) : Meant(s, asked'[s], p)
             /\ \A e \in Elements(todo'[s]) : e.do \in Special => asked'[s].saves = {} /\ asked'[s].gone = {}
  <2>1. CASE s = r
    BY <2>1, Starting DEF Starts, Sound, Purposeful
  <2>2. CASE s # r
    BY <2>2, Starting DEF RecordsInv, Shapes, Will
  <2>3. QED
    BY <2>1, <2>2
<1>6. QED
  BY <1>1, <1>2, <1>3, <1>4, <1>5 DEF Shapes, Will

LEMMA StartingOrigins ==
  ASSUME RecordsInv, NEW r, NEW a, NEW q, Starts(r, a, q)
  PROVE  Origins'
<1>1. \A s : Known(s) => Known(s)'
  BY Starting DEF Known, Began, Starts, Sound
<1>2. \A s \in Requests : Targets(asked'[s])
  BY Starting DEF RecordsInv, Origins, Starts, Sound
<1>3. \A t \in Tables \ {"config"} : \A x \in db'[t] : Known(by(x))'
  BY <1>1, Starting DEF RecordsInv, Origins, by
<1>4. ASSUME NEW s \in Requests, NEW g \in asked'[s].saves \cup asked'[s].gone, g[1] # "config"
      PROVE  Known(g[2][1])'
  <2>1. CASE s = r
    <3>1. PICK x \in db[g[1]] : x.id = g[2]
      BY <1>4, <2>1, Starting DEF Starts, Sound, Live
    <3>2. g[1] \in Tables \ {"config"}
      BY <1>4, <2>1, Starting DEF Starts, Sound, Targets
    <3>3. Known(by(x))
      BY <3>1, <3>2 DEF RecordsInv, Origins
    <3>4. QED
      BY <1>1, <3>1, <3>3 DEF by
  <2>2. CASE s # r
    BY <1>1, <1>4, <2>2, Starting DEF RecordsInv, Origins
  <2>3. QED
    BY <2>1, <2>2
<1>5. db'["config"] # {} /\ \A x \in db'["config"] : x.id = "config" /\ ~x.dead
  BY Starting DEF RecordsInv, Origins
<1>6. QED
  BY <1>2, <1>3, <1>4, <1>5 DEF Origins

LEMMA StartingUnborn ==
  ASSUME RecordsInv, NEW r, NEW a, NEW q, Starts(r, a, q)
  PROVE  Unborn'
<1>1. \A g \in a.saves \cup a.gone :
        g = <<g[1], g[2]>> /\ g[1] \in Tables /\ \E x \in db[g[1]] : x.id = g[2]
  BY DEF Starts, Sound, Targets, Live
<1>2. SUFFICES ASSUME NEW s \in Requests
               PROVE  /\ \A t \in Tables : \A x \in db[t] : <<t, x.id>> \notin IdsOf(s, todo'[s])
                      /\ \A u \in Requests : \A g \in asked'[u].saves \cup asked'[u].gone :
                           g \notin IdsOf(s, todo'[s])
  BY Starting DEF Unborn
<1>3. CASE s # r
  <2>1. IdsOf(s, todo'[s]) = IdsOf(s, todo[s])
    BY <1>3, Starting
  <2>2. \A t \in Tables : \A x \in db[t] : <<t, x.id>> \notin IdsOf(s, todo[s])
    BY DEF RecordsInv, Unborn
  <2>3. \A g \in a.saves \cup a.gone : g \notin IdsOf(s, todo[s])
    BY <1>1, <2>2
  <2>4. \A u \in Requests \ {r} : \A g \in asked'[u].saves \cup asked'[u].gone : g \notin IdsOf(s, todo[s])
    BY Starting DEF RecordsInv, Unborn
  <2>5. QED
    BY <2>1, <2>2, <2>3, <2>4, Starting
<1>4. CASE s = r
  <2>1. \A g \in IdsOf(r, todo'[r]) : g[2][1] = r /\ g[1] # "config"
    BY Starting, StartingNew, IdsAreMine
  <2>2. ASSUME NEW t \in Tables, NEW x \in db[t], <<t, x.id>> \in IdsOf(r, todo'[r]) PROVE FALSE
    <3>1. x.id[1] = r /\ t # "config"
      BY <2>1, <2>2
    <3>2. QED
      BY <3>1, StartingNew DEF by
  <2>3. ASSUME NEW u \in Requests, NEW g \in asked'[u].saves \cup asked'[u].gone, g \in IdsOf(r, todo'[r])
        PROVE  FALSE
    <3>1. CASE u = r
      <4>1. PICK x \in db[g[1]] : g = <<g[1], x.id>> /\ g[1] \in Tables
        BY <1>1, <2>3, <3>1, Starting
      <4>2. QED
        BY <2>2, <2>3, <4>1
    <3>2. CASE u # r
      BY <2>1, <2>3, <3>2, Starting, StartingNew
    <3>3. QED
      BY <3>1, <3>2
  <2>4. QED
    BY <1>4, <2>2, <2>3
<1>5. QED
  BY <1>3, <1>4

LEMMA StartingRecords ==
  ASSUME RecordsInv, NEW r, NEW a, NEW q, Starts(r, a, q)
  PROVE  RecordsInv'
<1>1. ASSUME NEW t \in Tables, NEW x \in Copies(t)', NEW y \in Copies(t)', x.id = y.id, NEW c \in Fixed(t)
      PROVE  x[c] = y[c]
  <2>1. PICK u \in Copies(t), v \in Copies(t) : Ancestor(t, x, u) /\ Ancestor(t, y, v)
    BY <1>1, StartingCopies
  <2>2. QED
    BY <1>1, <2>1 DEF Ancestor, RecordsInv, Alike
<1>2. Alike'
  BY <1>1 DEF Alike
<1>3. QED
  BY <1>2, StartingTypes, StartingShapes, StartingOrigins, StartingUnborn DEF RecordsInv

LEMMA StartingDoomed ==
  ASSUME RecordsInv, Doomed, NEW r, NEW a, NEW q, Starts(r, a, q)
  PROVE  Doomed'
<1>1. RecordsInv'
  BY StartingRecords
<1>2. SUFFICES ASSUME NEW s \in Requests, NEW g \in asked'[s].gone
               PROVE  /\ Hits(s, g)'
                      /\ \/ s \in failed \/ (\E p \in WillOf(s, todo'[s]) : Deletes(p, g))
                         \/ Rescued(s, g)' \/ Gone(s, g)'
  BY Starting DEF Doomed, Will
<1>3. g = <<g[1], g[2]>> /\ g[1] \in Tables
  BY <1>1 DEF RecordsInv, Origins, Targets
<1>4. Hits(s, g)'
  <2>1. SUFFICES ASSUME NEW p \in WillOf(s, todo'[s]), Deletes(p, g), NEW x \in Copies(g[1])', x.id = g[2]
                 PROVE  Fits(x, p.where)
    BY DEF Hits, Will
  <2>2. DOMAIN p.where \subseteq Fixed(g[1])
    BY <1>1, <2>1 DEF RecordsInv, Shapes, Meant, Deletes, Will
  <2>3. CASE s # r
    <3>1. p \in Will(s) /\ g \in asked[s].gone
      BY <1>2, <2>1, <2>3, Starting
    <3>2. PICK y \in Copies(g[1]) : Ancestor(g[1], x, y)
      BY <1>3, <2>1, StartingCopies
    <3>3. Fits(y, p.where)
      BY <2>1, <3>1, <3>2 DEF Doomed, Hits, Ancestor
    <3>4. QED
      BY <2>2, <3>2, <3>3, FitsAlike
  <2>4. CASE s = r
    <3>1. PICK y \in db[g[1]] : y.id = g[2]
      BY <1>2, <2>4, Starting DEF Starts, Sound
    <3>2. Fits(y, p.where)
      BY <1>2, <2>1, <2>4, <3>1, Starting DEF Starts, Sound
    <3>3. y \in Copies(g[1])'
      BY <3>1, Starting DEF Copies
    <3>4. Ancestor(g[1], x, y)
      BY <1>1, <1>3, <2>1, <3>1, <3>3 DEF RecordsInv, Alike, Ancestor
    <3>5. QED
      BY <2>2, <3>2, <3>4, FitsAlike
  <2>5. QED
    BY <2>3, <2>4
<1>5. CASE s # r
  <2>1. g \in asked[s].gone
    BY <1>2, <1>5, Starting
  <2>2. s \in failed \/ (\E p \in Will(s) : Deletes(p, g)) \/ Rescued(s, g) \/ Gone(s, g)
    BY <2>1 DEF Doomed
  <2>3. ASSUME Gone(s, g) PROVE Gone(s, g)'
    <3>1. (\A x \in Live(g[1])' : x.id # g[2]) /\ \A x \in Live(g[1]) : x.id # g[2]
      BY <2>3, Starting DEF Gone, Live
    <3>2. g \notin a.saves
      BY <3>1 DEF Starts, Sound
    <3>3. \A u \in Requests : g \in asked'[u].saves => Preceded(u, s)'
      BY <1>5, <2>3, <3>2, Starting, StartingAnswers DEF Gone
    <3>4. QED
      BY <3>1, <3>3 DEF Gone
  <2>4. WillOf(s, todo'[s]) = Will(s)
    BY <1>5, Starting
  <2>5. QED
    BY <1>4, <1>5, <2>2, <2>3, <2>4, StartingAnswers
<1>6. CASE s = r
  BY <1>2, <1>4, <1>6, Starting DEF Starts, Sound
<1>7. QED
  BY <1>5, <1>6

LEMMA StartingStanding ==
  ASSUME RecordsInv, Standing, NEW r, NEW a, NEW q, Starts(r, a, q)
  PROVE  Standing'
<1>1. SUFFICES ASSUME NEW s \in Requests, NEW g \in asked'[s].saves, NEW c \in DOMAIN asked'[s].sets
               PROVE  \/ s \in failed \/ Excused(s, g, c)'
                      \/ \E p \in WillOf(s, todo'[s]) : SetsColumn(p, g, c)
                      \/ Set(s, g, c)'
  BY Starting DEF Standing, Will
<1>2. CASE s = r
  BY <1>1, <1>2, Starting DEF Starts, Sound
<1>3. CASE s # r
  <2>1. g \in asked[s].saves /\ c \in DOMAIN asked[s].sets /\ asked'[s] = asked[s]
    BY <1>1, <1>3, Starting
  <2>2. \/ s \in failed \/ Excused(s, g, c)
        \/ (\E p \in Will(s) : SetsColumn(p, g, c)) \/ Set(s, g, c)
    BY <2>1 DEF Standing
  <2>3. /\ g = <<g[1], g[2]>> /\ g[1] \in Tables /\ c \in Saved(g[1])
    BY <2>1 DEF RecordsInv, Origins, Targets
  <2>4. ASSUME Set(s, g, c), ~Excused(s, g, c)' PROVE Set(s, g, c)'
    <3>1. \A x \in db'[g[1]] : x.id = g[2] => x[c] = asked'[s].sets[c]
      BY <2>1, <2>4, Starting DEF Set
    <3>2. ASSUME NEW u \in Requests \ {s, r}, NEW x \in Held(u, g[1])', x.id = g[2]
          PROVE  x[c] = asked'[s].sets[c]
      BY <2>1, <2>3, <2>4, <3>2, StartingCopies DEF Set
    <3>3. ASSUME NEW x \in Held(r, g[1])', x.id = g[2]
          PROVE  x[c] = asked'[s].sets[c]
      <4>1. Key(g[1], x) \in a.saves /\ \E y \in Live(g[1]) : Revision(g[1], a, y, x)
        BY <2>3, <3>3, StartingCopies
      <4>2. g \in a.saves
        BY <2>3, <3>3, <4>1 DEF Key
      <4>3. c \notin DOMAIN a.sets
        BY <1>3, <2>4, <4>2, Starting DEF Excused
      <4>4. PICK y \in Live(g[1]) : Revision(g[1], a, y, x)
        BY <4>1
      <4>5. x[c] = y[c] /\ y.id = g[2] /\ y \in db[g[1]]
        BY <2>3, <3>3, <4>3, <4>4 DEF Revision, Live
      <4>6. QED
        BY <2>1, <2>4, <4>5 DEF Set
    <3>4. QED
      BY <3>1, <3>2, <3>3 DEF Set
  <2>5. WillOf(s, todo'[s]) = Will(s)
    BY <1>3, Starting
  <2>6. QED
    BY <1>3, <2>2, <2>4, <2>5, StartingAnswers
<1>4. QED
  BY <1>2, <1>3

----------------------------------------------------------------------------
(* The programs of the handlers.                                           *)

Started(r) == \E a, q : Starts(r, a, q)

\* The three kinds of request.
Plain(a)            == a # NotAsked /\ a.saves = {} /\ a.gone = {}
AskedToSave(a, t, x, set) ==
  a # NotAsked /\ a.saves = {<<t, x.id>>} /\ a.gone = {} /\ a.sets = set
AskedToDelete(a, t, S) ==
  a # NotAsked /\ a.saves = {} /\ a.gone = {Key(t, x) : x \in S} /\ DOMAIN a.sets = {}

LEMMA AskIs ==
  ASSUME NEW kind, kind # "none", NEW on
  PROVE  Plain(Ask(kind, on))
<1>1. Ask(kind, on).kind = kind /\ NotAsked.kind = "none"
  BY DEF Ask, NotAsked
<1>2. QED
  BY <1>1 DEF Ask, Plain

LEMMA AskSaveIs ==
  ASSUME NEW kind, kind # "none", NEW on, NEW t, NEW x, NEW set
  PROVE  AskedToSave(AskSave(kind, on, t, x, set), t, x, set)
<1>1. AskSave(kind, on, t, x, set).kind = kind /\ NotAsked.kind = "none"
  BY DEF AskSave, Ask, NotAsked
<1>2. QED
  BY <1>1 DEF AskSave, Ask, AskedToSave

LEMMA AskDeleteIs ==
  ASSUME NEW kind, kind # "none", NEW on, NEW t, NEW S
  PROVE  AskedToDelete(AskDelete(kind, on, t, S), t, S)
<1>1. AskDelete(kind, on, t, S).kind = kind /\ NotAsked.kind = "none"
  BY DEF AskDelete, Ask, NotAsked
<1>2. DOMAIN All = {}
  BY DEF All
<1>3. QED
  BY <1>1, <1>2 DEF AskDelete, Ask, Key, AskedToDelete

\* INSERTs and Saves.
Inserts(s, t, row) == s \in {Insert(t, row), TryInsert(t, row)}
Saves(s, t, row)   == s \in {Save(t, row), SaveOrFail(t, row)}
Updates(s, t, w)   == (\E set : s = Update(t, w, set)) \/ s = Purge(t, w)

LEMMA InsertLeads ==
  ASSUME NEW r, NEW t, NEW row, NEW s, Inserts(s, t, row) \/ Saves(s, t, row)
  PROVE  /\ Piece(r, s) /\ s.do \notin Special /\ Leads(r, s) = {Store(t, row)}
         /\ Ids(r, s) = IF by(row) = r THEN {Key(t, row)} ELSE {}
<1>1. /\ s.do \in {"put", "save"} /\ s.table = t /\ s.row = row
      /\ {"do", "table", "row"} \subseteq DOMAIN s
  BY DEF Inserts, Saves, Insert, TryInsert, Save, SaveOrFail
<1>2. Piece(r, s) /\ s.do \notin Special
  BY <1>1 DEF Piece, Statement, Simple, Special
<1>3. Leads(r, s) = {Store(t, row)} /\ Ids(r, s) = IF by(row) = r THEN {<<t, row.id>>} ELSE {}
  BY <1>1, IdsOfPut
<1>4. QED
  BY <1>2, <1>3 DEF Key

\* UPDATEs and DELETEs.
LEMMA UpdateLeads ==
  ASSUME NEW r, NEW t, NEW w, NEW s, Updates(s, t, w)
  PROVE  /\ Piece(r, s) /\ s.do \notin Special /\ Leads(r, s) = {s} /\ Ids(r, s) = {}
         /\ s.table = t /\ s.where = w /\ s.do \in {"update", "purge"}
<1>1. /\ s.do \in {"update", "purge"} /\ s.table = t /\ s.where = w
  BY DEF Updates, Update, Purge
<1>2. Piece(r, s) /\ s.do \notin Special
  BY <1>1 DEF Piece, Statement, Simple, Special
<1>3. Leads(r, s) = {s}
  BY <1>1, LeadsOfSimple DEF Simple, Prim
<1>4. Ids(r, s) = {}
  BY <1>1, <1>3 DEF Ids
<1>5. QED
  BY <1>1, <1>2, <1>3, <1>4

LEMMA StoreIs ==
  ASSUME NEW t, NEW row
  PROVE  /\ Store(t, row).do = "put" /\ Store(t, row).table = t /\ Store(t, row).row = row
         /\ \A g : ~Deletes(Store(t, row), g)
BY DEF Store, Deletes

\* A row the request inserts, a row it has read, with its columns set.
Fresh(r, t, row) ==
  t \in Tables \ {"config"} /\ DOMAIN row = Columns(t) /\ ~row.dead /\ by(row) = r
Revised(t, x, set, row) ==
  /\ t \in Tables \ {"config"} /\ x \in Live(t)
  /\ DOMAIN row = Columns(t) /\ row.id = x.id /\ ~row.dead
  /\ \A c \in Fixed(t) \cup (Saved(t) \ DOMAIN set) : row[c] = x[c]
  /\ \A c \in DOMAIN set : row[c] = set[c]
  /\ DOMAIN set \subseteq Saved(t)

RevisedFor(a, t, x, row) == Revised(t, x, a.sets, row) /\ <<t, x.id>> \in a.saves

LEMMA MeantFresh ==
  ASSUME NEW r, NEW a, NEW t, NEW row, Fresh(r, t, row)
  PROVE  Meant(r, a, Store(t, row))
<1>1. Stores(r, a, Store(t, row))
  BY StoreIs DEF Fresh, Stores
<1>2. QED
  BY <1>1, StoreIs DEF Fresh, Meant

LEMMA MeantRevised ==
  ASSUME NEW r, NEW a, NEW t, NEW row, NEW x, RevisedFor(a, t, x, row)
  PROVE  Meant(r, a, Store(t, row))
<1>1. Stores(r, a, Store(t, row))
  BY StoreIs DEF RevisedFor, Revised, Stores
<1>2. QED
  BY <1>1, StoreIs DEF RevisedFor, Revised, Meant

LEMMA MeantMark ==
  ASSUME NEW r, NEW a, NEW t \in Tables \ {"config"}, NEW w, NEW set, DOMAIN set \subseteq Marked(t),
         "dead" \in DOMAIN set => set.dead, (DOMAIN w \subseteq Fixed(t)) \/ "dead" \notin DOMAIN set
  PROVE  Meant(r, a, Update(t, w, set))
<1> DEFINE p == Update(t, w, set)
<1>1. p.do = "update" /\ p.table = t /\ p.where = w /\ p.row = set
  BY DEF Update
<1> HIDE DEF p
<1>2. Marks(p)
  BY <1>1 DEF Marks
<1>3. \A g : Deletes(p, g) => DOMAIN p.where \subseteq Fixed(p.table)
  BY <1>1 DEF Deletes
<1>4. Meant(r, a, p)
  BY <1>1, <1>2, <1>3 DEF Meant
<1>5. QED
  BY <1>4 DEF p

LEMMA MeantPurge ==
  ASSUME NEW r, NEW a, NEW t \in Tables \ {"config"}, NEW w, DOMAIN w \subseteq Fixed(t) \/ a.gone = {}
  PROVE  Meant(r, a, Purge(t, w))
<1> DEFINE p == Purge(t, w)
<1>1. p.do = "purge" /\ p.table = t /\ p.where = w
  BY DEF Purge
<1> HIDE DEF p
<1>2. Meant(r, a, p)
  BY <1>1 DEF Meant
<1>3. QED
  BY <1>2 DEF p

LEMMA PurposefulOne ==
  ASSUME NEW r, NEW a, NEW s, Piece(r, s), \A p \in Leads(r, s) : Meant(r, a, p),
         s.do \in Special => a.saves = {} /\ a.gone = {}
  PROVE  Purposeful(r, a, <<s>>) /\ WillOf(r, <<s>>) = Leads(r, s) /\ IdsOf(r, <<s>>) = Ids(r, s)
BY OneStatement DEF Purposeful

LEMMA PurposefulJoin ==
  ASSUME NEW r, NEW a, NEW b, NEW q, Purposeful(r, a, b), Purposeful(r, a, q),
         IdsOf(r, b) \cap IdsOf(r, q) = {}
  PROVE  /\ Purposeful(r, a, b \o q) /\ WillOf(r, b \o q) = WillOf(r, b) \cup WillOf(r, q)
         /\ IdsOf(r, b \o q) = IdsOf(r, b) \cup IdsOf(r, q)
<1>1. /\ Program(r, b \o q) /\ Elements(b \o q) = Elements(b) \cup Elements(q)
      /\ WillOf(r, b \o q) = WillOf(r, b) \cup WillOf(r, q)
      /\ IdsOf(r, b \o q) = IdsOf(r, b) \cup IdsOf(r, q)
  BY ProgramJoined DEF Purposeful
<1>2. QED
  BY <1>1 DEF Purposeful

LEMMA Pair ==
  ASSUME NEW s, NEW u
  PROVE  <<s, u>> = <<s>> \o <<u>>
<1> DEFINE S == {s, u}
<1>1. <<s>> \in Seq(S) /\ <<u>> \in Seq(S) /\ <<s, u>> \in Seq(S)
  OBVIOUS
<1>2. /\ <<s>> \o <<u>> \in Seq(S) /\ Len(<<s>> \o <<u>>) = 2
      /\ \A i \in 1..2 : (<<s>> \o <<u>>)[i] = <<s, u>>[i]
  BY <1>1, ConcatProperties
<1>3. Len(<<s, u>>) = 2
  OBVIOUS
<1> HIDE DEF S
<1>4. QED
  BY <1>1, <1>2, <1>3, SeqEqual

LEMMA PurposefulNothing ==
  ASSUME NEW r, NEW a
  PROVE  Purposeful(r, a, << >>) /\ WillOf(r, << >>) = {} /\ IdsOf(r, << >>) = {}
BY NoStatement, ElementsOfTuples DEF Purposeful

\* A list of statements, each of which inserts no row but the one of its number.
Numbered(r, a, f, n) ==
  /\ IsList(f, n)
  /\ \A i \in 1..n : Piece(r, f[i]) /\ \A g \in Ids(r, f[i]) : g[2][2] = i
  /\ \A i \in 1..n : \A p \in Leads(r, f[i]) : Meant(r, a, p)
  /\ \A i \in 1..n : f[i].do \in Special => a.saves = {} /\ a.gone = {}

LEMMA PurposefulList ==
  ASSUME NEW r, NEW a, NEW n, NEW f, Numbered(r, a, f, n)
  PROVE  /\ Purposeful(r, a, f)
         /\ \A p : p \in WillOf(r, f) <=> \E i \in 1..n : p \in Leads(r, f[i])
         /\ \A g : g \in IdsOf(r, f) <=> \E i \in 1..n : g \in Ids(r, f[i])
<1>1. IsSequence(f) /\ DOMAIN f = 1..n
  BY Listed DEF Numbered, IsList
<1>2. Elements(f) = {f[i] : i \in 1..n}
  BY <1>1 DEF Elements
<1>3. Apart(r, f)
  BY <1>1 DEF Apart, Numbered
<1>4. Program(r, f)
  BY <1>1, <1>2, <1>3 DEF Program, Sequel, Numbered
<1>5. \A p : p \in WillOf(r, f) <=> \E i \in 1..n : p \in Leads(r, f[i])
  BY <1>2 DEF WillOf
<1>6. \A g : g \in IdsOf(r, f) <=> \E i \in 1..n : g \in Ids(r, f[i])
  BY <1>2 DEF IdsOf
<1>7. QED
  BY <1>2, <1>4, <1>5, <1>6 DEF Purposeful, Numbered

LEMMA SoundPlain ==
  ASSUME NEW r \in Requests, NEW a, Plain(a), NEW q, Purposeful(r, a, q)
  PROVE  Sound(r, a, q)
<1>1. Targets(a)
  BY DEF Targets, Plain
<1>2. \A p \in WillOf(r, q) : p.do = "put" => by(p.row) = r
  BY DEF Purposeful, Plain, Meant, Stores
<1>3. QED
  BY <1>1, <1>2 DEF Sound, Plain

LEMMA SoundSave ==
  ASSUME NEW r \in Requests, NEW a, NEW q, NEW t, NEW x, NEW row, NEW set, Revised(t, x, set, row),
         AskedToSave(a, t, x, set),
         Purposeful(r, a, q), Store(t, row) \in WillOf(r, q),
         \A p \in WillOf(r, q) : p.do = "put" => by(p.row) = r \/ p = Store(t, row)
  PROVE  Sound(r, a, q)
<1>1. /\ t \in Tables \ {"config"} /\ x \in Live(t) /\ row.id = x.id
      /\ a # NotAsked /\ a.saves = {<<t, x.id>>} /\ a.gone = {} /\ a.sets = set
  BY DEF Revised, AskedToSave
<1>2. Targets(a)
  BY <1>1 DEF Targets, Revised
<1>3. Revision(t, a, x, row)
  BY <1>1 DEF Revision, Revised
<1>4. \A p \in WillOf(r, q) : p.do = "put" /\ by(p.row) # r =>
        \E y \in Live(p.table) : Revision(p.table, a, y, p.row)
  BY <1>1, <1>3, StoreIs
<1>5. \A g \in a.saves : \A c \in DOMAIN a.sets : \E p \in WillOf(r, q) : SetsColumn(p, g, c)
  BY <1>1, StoreIs DEF SetsColumn
<1>6. \A g \in a.saves : \E y \in Live(g[1]) : y.id = g[2]
  BY <1>1
<1>7. QED
  BY <1>1, <1>2, <1>4, <1>5, <1>6 DEF Sound

LEMMA SoundDelete ==
  ASSUME RecordsInv, NEW r \in Requests, NEW a, NEW q, NEW t \in Tables \ {"config"}, NEW S \in SUBSET db[t],
         AskedToDelete(a, t, S), Purposeful(r, a, q),
         \A x \in S : \E p \in WillOf(r, q) : Deletes(p, Key(t, x)),
         \A x \in S : \A p \in WillOf(r, q) : Deletes(p, Key(t, x)) => Fits(x, p.where)
  PROVE  Sound(r, a, q)
<1>0. a # NotAsked /\ a.saves = {} /\ a.gone = {Key(t, x) : x \in S}
  BY DEF AskedToDelete
<1>1. \A x \in S : x \in db[t] /\ Key(t, x)[1] = t /\ Key(t, x)[2] = x.id /\ Key(t, x) = <<t, x.id>>
  BY DEF Key
<1>2. \A g \in a.gone : g = <<g[1], g[2]>> /\ g[1] = t /\ \E x \in S : g = Key(t, x) /\ g[2] = x.id
  BY <1>0, <1>1
<1>3. Targets(a)
  BY <1>0, <1>2 DEF Targets
<1>4. \A p \in WillOf(r, q) : p.do = "put" => by(p.row) = r
  BY <1>0 DEF Purposeful, Meant, Stores
<1>5. ASSUME NEW g \in a.gone, NEW p \in WillOf(r, q), Deletes(p, g), NEW y \in db[g[1]], y.id = g[2]
      PROVE  Fits(y, p.where)
  <2>1. PICK x \in S : g = Key(t, x) /\ x.id = g[2] /\ g[1] = t
    BY <1>2
  <2>2. x = y
    BY <1>5, <2>1 DEF RecordsInv, DatabaseTypeOK
  <2>3. QED
    BY <1>5, <2>1, <2>2
<1>6. \A g \in a.gone : \E x \in db[g[1]] : x.id = g[2]
  BY <1>2
<1>7. QED
  BY <1>0, <1>2, <1>3, <1>4, <1>5, <1>6 DEF Sound

\* Program q of a request asked a leads to these primitives and inserts these rows.
Does(r, a, q, will, ids) == Purposeful(r, a, q) /\ WillOf(r, q) = will /\ IdsOf(r, q) = ids

LEMMA DoesInsert ==
  ASSUME NEW r, NEW a, NEW t, NEW row, Fresh(r, t, row), NEW s, Inserts(s, t, row)
  PROVE  Does(r, a, <<s>>, {Store(t, row)}, {Key(t, row)})
<1>1. /\ Piece(r, s) /\ s.do \notin Special /\ Leads(r, s) = {Store(t, row)}
      /\ Ids(r, s) = {Key(t, row)}
  BY InsertLeads DEF Fresh
<1>2. QED
  BY <1>1, MeantFresh, PurposefulOne DEF Does

LEMMA DoesSave ==
  ASSUME NEW r, NEW a, NEW t, NEW x, NEW set, NEW row, Revised(t, x, set, row), AskedToSave(a, t, x, set),
         NEW s, Saves(s, t, row)
  PROVE  Does(r, a, <<s>>, {Store(t, row)}, IF by(row) = r THEN {Key(t, row)} ELSE {})
<1>1. /\ Piece(r, s) /\ s.do \notin Special /\ Leads(r, s) = {Store(t, row)}
      /\ Ids(r, s) = IF by(row) = r THEN {Key(t, row)} ELSE {}
  BY InsertLeads
<1>2. RevisedFor(a, t, x, row)
  BY DEF RevisedFor, AskedToSave
<1>3. QED
  BY <1>1, <1>2, MeantRevised, PurposefulOne DEF Does

LEMMA DoesUpdate ==
  ASSUME NEW r, NEW a, NEW t, NEW w, NEW s, Updates(s, t, w), Meant(r, a, s)
  PROVE  Does(r, a, <<s>>, {s}, {})
<1>1. /\ Piece(r, s) /\ s.do \notin Special /\ Leads(r, s) = {s} /\ Ids(r, s) = {}
      /\ s.table = t /\ s.where = w /\ s.do \in {"update", "purge"}
  BY UpdateLeads
<1>2. QED
  BY <1>1, PurposefulOne DEF Does

LEMMA DoesMark ==
  ASSUME NEW r, NEW a, NEW t \in Tables \ {"config"}, NEW w, NEW set, DOMAIN set \subseteq Marked(t) \ {"dead"}
  PROVE  Does(r, a, <<Update(t, w, set)>>, {Update(t, w, set)}, {})
<1>1. Meant(r, a, Update(t, w, set)) /\ Updates(Update(t, w, set), t, w)
  BY MeantMark DEF Updates
<1>2. QED
  BY <1>1, DoesUpdate

LEMMA DoesPurge ==
  ASSUME NEW r, NEW a, NEW t \in Tables \ {"config"}, NEW w, DOMAIN w \subseteq Fixed(t) \/ a.gone = {}
  PROVE  Does(r, a, <<Purge(t, w)>>, {Purge(t, w)}, {})
<1>1. Meant(r, a, Purge(t, w)) /\ Updates(Purge(t, w), t, w)
  BY MeantPurge DEF Updates
<1>2. QED
  BY <1>1, DoesUpdate

LEMMA MeantSoftDelete ==
  ASSUME NEW r, NEW a, NEW t \in Tables \ {"config"}, NEW w, DOMAIN w \subseteq Fixed(t)
  PROVE  Meant(r, a, SoftDelete(t, w))
<1> DEFINE dead == [dead |-> TRUE]
<1>1. DOMAIN dead \subseteq Marked(t) /\ "dead" \in DOMAIN dead /\ dead.dead
  BY TheColumns
<1>2. SoftDelete(t, w) = Update(t, w, dead)
  BY DEF SoftDelete, Update
<1> HIDE DEF dead
<1>3. QED
  BY <1>1, <1>2, MeantMark

LEMMA DoesSoftDelete ==
  ASSUME NEW r, NEW a, NEW t \in Tables \ {"config"}, NEW w, DOMAIN w \subseteq Fixed(t)
  PROVE  Does(r, a, <<SoftDelete(t, w)>>, {SoftDelete(t, w)}, {})
<1>1. Meant(r, a, SoftDelete(t, w)) /\ Updates(SoftDelete(t, w), t, w)
  BY MeantSoftDelete DEF Updates, SoftDelete, Update
<1>2. QED
  BY <1>1, DoesUpdate

LEMMA DoesNothing ==
  ASSUME NEW r, NEW a
  PROVE  Does(r, a, << >>, {}, {})
BY PurposefulNothing DEF Does

LEMMA DoesBoth ==
  ASSUME NEW r, NEW a, NEW b, NEW q, NEW W, NEW V, NEW I, NEW J, Does(r, a, b, W, I), Does(r, a, q, V, J),
         I \cap J = {}
  PROVE  Does(r, a, b \o q, W \cup V, I \cup J)
<1>0. WillOf(r, b) = W /\ WillOf(r, q) = V /\ IdsOf(r, b) = I /\ IdsOf(r, q) = J
  BY DEF Does
<1>1. Purposeful(r, a, b) /\ Purposeful(r, a, q) /\ IdsOf(r, b) \cap IdsOf(r, q) = {}
  BY DEF Does
<1>2. /\ Purposeful(r, a, b \o q) /\ WillOf(r, b \o q) = WillOf(r, b) \cup WillOf(r, q)
      /\ IdsOf(r, b \o q) = IdsOf(r, b) \cup IdsOf(r, q)
  BY <1>1, PurposefulJoin
<1>3. QED
  BY <1>0, <1>2 DEF Does

LEMMA DoesTwo ==
  ASSUME NEW r, NEW a, NEW s, NEW u, NEW W, NEW V, NEW I, NEW J, Does(r, a, <<s>>, W, I),
         Does(r, a, <<u>>, V, J), I \cap J = {}
  PROVE  Does(r, a, <<s, u>>, W \cup V, I \cup J)
<1> DEFINE b == <<s>>
           q == <<u>>
<1>1. Does(r, a, b, W, I) /\ Does(r, a, q, V, J) /\ <<s, u>> = b \o q
  BY Pair
<1> HIDE DEF b, q
<1>2. Does(r, a, b \o q, W \cup V, I \cup J)
  BY <1>1, DoesBoth
<1>3. QED
  BY <1>1, <1>2

\* What deletes the rows of key g, and only where it fits.
Deleting(p, t, w) ==
  /\ p.table = t /\ p.where = w /\ \A g : g[1] = t => Deletes(p, g)

LEMMA DeletingIs ==
  ASSUME NEW t, NEW w
  PROVE  Deleting(SoftDelete(t, w), t, w) /\ Deleting(Purge(t, w), t, w)
BY DEF Deleting, Deletes, SoftDelete, Purge

\* Handlers of one statement, and of others.
LEMMA StartsPlain ==
  ASSUME NEW r \in Requests, NEW a, Plain(a), NEW q, NEW W, NEW I, Does(r, a, q, W, I), Begin(r, a, q)
  PROVE  Started(r)
BY SoundPlain DEF Started, Starts, Does

LEMMA StartsSaving ==
  ASSUME NEW r \in Requests, NEW a, NEW q, NEW t, NEW x, NEW set, NEW row, Revised(t, x, set, row),
         AskedToSave(a, t, x, set), NEW W, NEW I, Does(r, a, q, W, I), Store(t, row) \in W,
         \A p \in W : p.do = "put" => by(p.row) = r \/ p = Store(t, row), Begin(r, a, q)
  PROVE  Started(r)
BY SoundSave DEF Started, Starts, Does

LEMMA StartsDeleting ==
  ASSUME RecordsInv, NEW r \in Requests, NEW a, NEW q, NEW t \in Tables \ {"config"}, NEW S \in SUBSET db[t],
         AskedToDelete(a, t, S), NEW W, NEW I, Does(r, a, q, W, I),
         NEW w, \A x \in S : Fits(x, w), \E p \in W : Deleting(p, t, w),
         \A p \in W : p.table = t => Deleting(p, t, w), Begin(r, a, q)
  PROVE  Started(r)
<1>1. \A x \in S : \E p \in W : Deletes(p, Key(t, x))
  BY DEF Deleting, Key
<1>2. \A x \in S : \A p \in W : Deletes(p, Key(t, x)) => Fits(x, p.where)
  BY DEF Deleting, Deletes, Key
<1>3. Purposeful(r, a, q) /\ WillOf(r, q) = W
  BY DEF Does
<1>4. Sound(r, a, q)
  BY <1>1, <1>2, <1>3, SoundDelete
<1>5. QED
  BY <1>4 DEF Started, Starts

LEMMA OneInsert ==
  ASSUME NEW r \in Requests, NEW kind, kind # "none", NEW on, NEW t, NEW row, Fresh(r, t, row),
         NEW s, Inserts(s, t, row), Begin(r, Ask(kind, on), <<s>>)
  PROVE  Started(r)
<1>1. Plain(Ask(kind, on)) /\ Does(r, Ask(kind, on), <<s>>, {Store(t, row)}, {Key(t, row)})
  BY AskIs, DoesInsert
<1>2. QED
  BY <1>1, StartsPlain

LEMMA OneSave ==
  ASSUME NEW r \in Requests, NEW kind, kind # "none", NEW on, NEW t, NEW x, NEW set, NEW row,
         Revised(t, x, set, row), NEW s, Saves(s, t, row), Begin(r, AskSave(kind, on, t, x, set), <<s>>)
  PROVE  Started(r)
<1> DEFINE a == AskSave(kind, on, t, x, set)
           W == {Store(t, row)}
           I == IF by(row) = r THEN {Key(t, row)} ELSE {}
<1>1. AskedToSave(a, t, x, set) /\ Begin(r, a, <<s>>)
  BY AskSaveIs
<1> HIDE DEF a
<1>2. Does(r, a, <<s>>, W, I)
  BY <1>1, DoesSave
<1>3. Store(t, row) \in W /\ \A p \in W : p.do = "put" => by(p.row) = r \/ p = Store(t, row)
  OBVIOUS
<1> HIDE DEF W, I
<1>4. QED
  BY <1>1, <1>2, <1>3, StartsSaving

LEMMA OneDelete ==
  ASSUME RecordsInv, NEW r \in Requests, NEW kind, kind # "none", NEW on,
         NEW t \in Tables \ {"config"}, NEW S \in SUBSET db[t], NEW w, DOMAIN w \subseteq Fixed(t),
         \A x \in S : Fits(x, w), NEW s, s = SoftDelete(t, w) \/ s = Purge(t, w),
         Begin(r, AskDelete(kind, on, t, S), <<s>>)
  PROVE  Started(r)
<1> DEFINE a == AskDelete(kind, on, t, S)
           W == {s}
<1>1. AskedToDelete(a, t, S) /\ Begin(r, a, <<s>>)
  BY AskDeleteIs
<1> HIDE DEF a
<1>2. Does(r, a, <<s>>, W, {}) /\ Deleting(s, t, w)
  BY DoesPurge, DoesSoftDelete, DeletingIs
<1>3. (\E p \in W : Deleting(p, t, w)) /\ \A p \in W : p.table = t => Deleting(p, t, w)
  BY <1>2
<1> HIDE DEF W
<1>4. QED
  BY <1>1, <1>2, <1>3, StartsDeleting

LEMMA OneMark ==
  ASSUME NEW r \in Requests, NEW kind, kind # "none", NEW on, NEW t \in Tables \ {"config"}, NEW w,
         NEW set, DOMAIN set \subseteq Marked(t) \ {"dead"}, Begin(r, Ask(kind, on), <<Update(t, w, set)>>)
  PROVE  Started(r)
<1>1. /\ Plain(Ask(kind, on))
      /\ Does(r, Ask(kind, on), <<Update(t, w, set)>>, {Update(t, w, set)}, {})
  BY AskIs, DoesMark
<1>2. QED
  BY <1>1, StartsPlain

\* What a handler saves.
LEMMA RowOf ==
  ASSUME RecordsInv, NEW t \in Tables, NEW x \in Live(t)
  PROVE  x \in db[t] /\ ~x.dead /\ DOMAIN x = Columns(t)
BY DEF RecordsInv, Shapes, Live

LEMMA RevisedSame ==
  ASSUME RecordsInv, NEW t \in Tables \ {"config"}, NEW x \in Live(t)
  PROVE  Revised(t, x, All, x)
<1>1. DOMAIN All = {}
  BY DEF All
<1>2. ~x.dead /\ DOMAIN x = Columns(t)
  BY RowOf
<1>3. QED
  BY <1>1, <1>2 DEF Revised

LEMMA RevisedWith ==
  ASSUME RecordsInv, NEW t \in Tables \ {"config"}, NEW x \in Live(t), NEW set, DOMAIN set \subseteq Saved(t)
  PROVE  Revised(t, x, set, With(x, set))
<1> DEFINE row == With(x, set)
<1>1. /\ DOMAIN row = DOMAIN x \cup DOMAIN set
      /\ \A c \in DOMAIN set : row[c] = set[c]
      /\ \A c \in DOMAIN x \ DOMAIN set : row[c] = x[c]
  BY WithColumn
<1>2. ~x.dead /\ DOMAIN x = Columns(t)
  BY RowOf
<1>3. /\ "id" \in Fixed(t) /\ "dead" \in Marked(t) /\ Fixed(t) \cap Saved(t) = {} /\ Saved(t) \cap Marked(t) = {}
  BY TheColumns
<1> HIDE DEF row
<1>4. DOMAIN row = Columns(t) /\ \A c \in Fixed(t) \cup (Saved(t) \ DOMAIN set) : row[c] = x[c]
  BY <1>1, <1>2, <1>3 DEF Columns
<1>5. row.id = x.id
  BY <1>3, <1>4
<1>6. row.dead = x.dead
  BY <1>1, <1>2, <1>3 DEF Columns
<1>7. ~row.dead
  BY <1>2, <1>6, Zenon
<1>8. Revised(t, x, set, row)
  BY <1>1, <1>4, <1>5, <1>7 DEF Revised
<1>9. QED
  BY <1>8 DEF row

\* One column is set, and the request says so if Save is what sets it.
LEMMA RevisedOne ==
  ASSUME RecordsInv, NEW t \in Tables \ {"config"}, NEW x \in Live(t), NEW set, NEW row,
         NEW c \in (Saved(t) \cup Marked(t)) \ {"dead"}, DOMAIN row = DOMAIN x,
         \A d \in DOMAIN x \ {c} : row[d] = x[d], DOMAIN set = {c} \cap Saved(t),
         c \in Saved(t) => row[c] = set[c]
  PROVE  Revised(t, x, set, row)
<1>1. ~x.dead /\ DOMAIN x = Columns(t)
  BY RowOf
<1>2. /\ "id" \in Fixed(t) /\ "dead" \in Marked(t) /\ Fixed(t) \cap Saved(t) = {} /\ Fixed(t) \cap Marked(t) = {}
      /\ Saved(t) \cap Marked(t) = {}
  BY TheColumns
<1>3. \A d \in Fixed(t) \cup (Saved(t) \ DOMAIN set) : row[d] = x[d]
  BY <1>1, <1>2 DEF Columns
<1>4. row.id = x.id
  BY <1>2, <1>3
<1>5. row.dead = x.dead
  BY <1>1, <1>2 DEF Columns
<1>6. ~row.dead
  BY <1>1, <1>5, Zenon
<1>7. QED
  BY <1>1, <1>3, <1>4, <1>6 DEF Revised

\* A query and what it decides between.
LEMMA TestLeads ==
  ASSUME NEW r, NEW a, NEW t \in Tables, NEW w, NEW yes, NEW no, Purposeful(r, a, yes), Purposeful(r, a, no),
         \A s \in Elements(yes) \cup Elements(no) : s.do \in Simple \cup {"commit"}
  PROVE  /\ Piece(r, IfAny(t, w, yes, no)) /\ IfAny(t, w, yes, no).do \notin Special \ {"test"}
         /\ Leads(r, IfAny(t, w, yes, no)) = WillOf(r, yes) \cup WillOf(r, no)
         /\ Ids(r, IfAny(t, w, yes, no)) = IdsOf(r, yes) \cup IdsOf(r, no)
<1> DEFINE s == IfAny(t, w, yes, no)
<1>1. s.do = "test" /\ s.table = t /\ s.yes = yes /\ s.no = no
  BY DEF IfAny
<1> HIDE DEF s
<1>2. \A e \in Elements(yes) \cup Elements(no) : /\ Statement(r, e) /\ Leads(r, e) = Prims(r, e)
                                                 /\ e.do \notin {"collect", "deliver"}
  <2>1. \A e \in Elements(yes) \cup Elements(no) : Piece(r, e) /\ e.do # "test" /\ e.do \notin {"collect", "deliver"}
    BY DEF Purposeful, Program, Simple
  <2>2. \A e : e.do # "test" => Leads(r, e) = Prims(r, e)
    BY DEF Leads, Branches
  <2>3. QED
    BY <2>1, <2>2 DEF Piece
<1>3. Branch(r, yes) /\ Branch(r, no)
  BY <1>2 DEF Branch, Purposeful, Program
<1>4. Piece(r, s)
  BY <1>1, <1>3 DEF Piece
<1>5. Leads(r, s) = WillOf(r, yes) \cup WillOf(r, no)
  <2>1. Leads(r, s) = UNION {Prims(r, b) : b \in Elements(yes) \cup Elements(no)}
    BY <1>1 DEF Leads, Branches
  <2>2. QED
    BY <1>2, <2>1 DEF WillOf
<1>6. Ids(r, s) = IdsOf(r, yes) \cup IdsOf(r, no)
  <2>1. \A e \in Elements(yes) \cup Elements(no) :
          Ids(r, e) = {<<p.table, p.row.id>> : p \in {p \in Leads(r, e) : p.do = "put" /\ by(p.row) = r}}
    BY <1>2 DEF Ids
  <2>2. Ids(r, s) = {<<p.table, p.row.id>> : p \in {p \in Leads(r, s) : p.do = "put" /\ by(p.row) = r}}
    BY <1>1 DEF Ids
  <2>3. \A g : g \in Ids(r, s) <=> \E e \in Elements(yes) \cup Elements(no) : g \in Ids(r, e)
    BY <1>5, <2>1, <2>2 DEF WillOf
  <2>4. \A g : g \in IdsOf(r, yes) \cup IdsOf(r, no)
                 <=> \E e \in Elements(yes) \cup Elements(no) : g \in Ids(r, e)
    BY DEF IdsOf
  <2>5. QED
    BY <2>3, <2>4
<1>7. s.do \notin Special \ {"test"}
  BY <1>1
<1>8. QED
  BY <1>4, <1>5, <1>6, <1>7 DEF s

Brief(q) == \A s \in Elements(q) : s.do \in Simple \cup {"commit"}

LEMMA DoesTest ==
  ASSUME NEW r, NEW a, Plain(a), NEW t \in Tables, NEW w, NEW yes, NEW no, NEW W, NEW V, NEW I, NEW J,
         Does(r, a, yes, W, I), Does(r, a, no, V, J), Brief(yes), Brief(no)
  PROVE  Does(r, a, <<IfAny(t, w, yes, no)>>, W \cup V, I \cup J)
<1> DEFINE s == IfAny(t, w, yes, no)
<1>1. /\ Piece(r, s) /\ s.do \notin Special \ {"test"}
      /\ Leads(r, s) = WillOf(r, yes) \cup WillOf(r, no)
      /\ Ids(r, s) = IdsOf(r, yes) \cup IdsOf(r, no)
  BY TestLeads DEF Does, Brief
<1>2. WillOf(r, yes) = W /\ WillOf(r, no) = V /\ IdsOf(r, yes) = I /\ IdsOf(r, no) = J
  BY DEF Does
<1>3. \A p \in Leads(r, s) : Meant(r, a, p)
  BY <1>1 DEF Does, Purposeful
<1> HIDE DEF s
<1>4. Purposeful(r, a, <<s>>) /\ WillOf(r, <<s>>) = Leads(r, s) /\ IdsOf(r, <<s>>) = Ids(r, s)
  BY <1>1, <1>3, PurposefulOne DEF Plain
<1>5. Does(r, a, <<s>>, W \cup V, I \cup J)
  BY <1>1, <1>2, <1>4 DEF Does
<1>6. QED
  BY <1>5 DEF s

\* The most common deletion.
LEMMA OneDeleteById ==
  ASSUME RecordsInv, NEW r \in Requests, NEW kind, kind # "none", NEW on,
         NEW t \in Tables \ {"config"}, NEW x \in Live(t),
         NEW s, s = SoftDelete(t, [id |-> x.id]) \/ s = Purge(t, [id |-> x.id]),
         Begin(r, AskDelete(kind, on, t, {x}), <<s>>)
  PROVE  Started(r)
<1> DEFINE w == [id |-> x.id]
           S == {x}
<1>1. /\ DOMAIN w \subseteq Fixed(t) /\ (\A y \in S : Fits(y, w)) /\ S \in SUBSET db[t]
      /\ s = SoftDelete(t, w) \/ s = Purge(t, w)
      /\ Begin(r, AskDelete(kind, on, t, S), <<s>>)
  BY TheColumns DEF Fits, Live
<1> HIDE DEF w, S
<1>2. QED
  BY <1>1, OneDelete

----------------------------------------------------------------------------
(* Templates.                                                              *)

LEMMA FreshTemplate ==
  ASSUME NEW r, NEW n, NEW name
  PROVE  Fresh(r, "templates", Template(<<r, n>>, name))
BY TheTables DEF Fresh, Template, Columns, Fixed, Saved, Marked, Schema, by

LEMMA FreshVersion ==
  ASSUME NEW r, NEW n, NEW t, NEW tag, NEW active
  PROVE  Fresh(r, "template_versions", Version(<<r, n>>, t, tag, active))
BY TheTables DEF Fresh, Version, Columns, Fixed, Saved, Marked, Schema, by

LEMMA TemplateColumns ==
  /\ "templates" \in Tables \ {"config"} /\ "template_versions" \in Tables \ {"config"}
  /\ "active" \in Marked("template_versions") /\ Saved("template_versions") = {}
  /\ {"id", "template"} \subseteq Fixed("template_versions") /\ "id" \in Fixed("templates")
BY TheTables DEF Fixed, Saved, Marked, Schema

LEMMA StartedCreateTemplate ==
  ASSUME RecordsInv, NEW r \in Requests, CreateTemplate(r)
  PROVE  Started(r)
<1>1. PICK name \in TemplateNames, tag \in VersionTags \cup {"none"} :
        Begin(r, Ask("CreateTemplate", name),
          <<Insert("templates", Template(<<r, 1>>, name))>> \o
          (IF tag = "none" THEN << >>
           ELSE <<Insert("template_versions", Version(<<r, 2>>, <<r, 1>>, tag, TRUE))>>))
  BY DEF CreateTemplate
<1> DEFINE a == Ask("CreateTemplate", name)
           x == Template(<<r, 1>>, name)
           v == Version(<<r, 2>>, <<r, 1>>, tag, TRUE)
           s == Insert("templates", x)
           u == Insert("template_versions", v)
           rest == IF tag = "none" THEN << >> ELSE <<u>>
<1>2. /\ Inserts(s, "templates", x) /\ Inserts(u, "template_versions", v)
      /\ Fresh(r, "templates", x) /\ Fresh(r, "template_versions", v)
  BY FreshTemplate, FreshVersion DEF Inserts
<1>3. Begin(r, a, <<s>> \o rest) /\ Plain(a)
  BY <1>1, AskIs
<1>4. Key("templates", x) # Key("template_versions", v)
  BY DEF Key
<1> HIDE DEF a, s, u, x, v
<1>5. /\ Does(r, a, <<s>>, {Store("templates", x)}, {Key("templates", x)})
      /\ Does(r, a, <<u>>, {Store("template_versions", v)}, {Key("template_versions", v)})
      /\ Does(r, a, << >>, {}, {})
  BY <1>2, DoesInsert, DoesNothing
<1>6. PICK V, J : Does(r, a, rest, V, J) /\ {Key("templates", x)} \cap J = {}
  BY <1>4, <1>5
<1> HIDE DEF rest
<1>7. \E W, I : Does(r, a, <<s>> \o rest, W, I)
  BY <1>5, <1>6, DoesBoth
<1>8. QED
  BY <1>3, <1>7, StartsPlain

LEMMA StartedUpdateTemplate ==
  ASSUME RecordsInv, NEW r \in Requests, UpdateTemplate(r)
  PROVE  Started(r)
<1>1. PICK name \in TemplateNames, t \in Live("templates") :
        Begin(r, AskSave("UpdateTemplate", name, "templates", t, All), <<Save("templates", t)>>)
  BY DEF UpdateTemplate, findTemplate, Select
<1>2. Revised("templates", t, All, t) /\ Saves(Save("templates", t), "templates", t)
  BY TemplateColumns, RevisedSame DEF Saves
<1>3. QED
  BY <1>1, <1>2, OneSave

LEMMA StartedDeleteTemplate ==
  ASSUME RecordsInv, NEW r \in Requests, DeleteTemplate(r)
  PROVE  Started(r)
<1>1. PICK name \in TemplateNames, t \in Live("templates") :
        Begin(r, AskDelete("DeleteTemplate", name, "templates", {t}),
              <<SoftDelete("template_versions", [template |-> t.id]),
                SoftDelete("templates", [id |-> t.id])>>)
  BY DEF DeleteTemplate, findTemplate, Select
<1> DEFINE a == AskDelete("DeleteTemplate", name, "templates", {t})
           S == {t}
           w == [template |-> t.id]
           v == [id |-> t.id]
           s == SoftDelete("template_versions", w)
           u == SoftDelete("templates", v)
<1>2. AskedToDelete(a, "templates", S) /\ Begin(r, a, <<s, u>>) /\ S \in SUBSET db["templates"]
  BY <1>1, AskDeleteIs DEF Live
<1>3. /\ Deleting(s, "template_versions", w) /\ Deleting(u, "templates", v)
      /\ DOMAIN w \subseteq Fixed("template_versions") /\ DOMAIN v \subseteq Fixed("templates")
      /\ \A x \in S : Fits(x, v)
  BY TemplateColumns, DeletingIs DEF Fits
<1> HIDE DEF a, w, v, S
<1>4. Does(r, a, <<s>>, {s}, {}) /\ Does(r, a, <<u>>, {u}, {})
  BY <1>3, TemplateColumns, DoesSoftDelete
<1> HIDE DEF s, u
<1>5. Does(r, a, <<s, u>>, {s} \cup {u}, {} \cup {})
  BY <1>4, DoesTwo
<1> DEFINE W == {s} \cup {u}
<1>6. (\E p \in W : Deleting(p, "templates", v)) /\ \A p \in W : p.table = "templates" => Deleting(p, "templates", v)
  BY <1>3 DEF Deleting
<1>7. Does(r, a, <<s, u>>, W, {})
  BY <1>5
<1> HIDE DEF W
<1>8. QED
  BY <1>2, <1>3, <1>6, <1>7, TemplateColumns, StartsDeleting

\* A list of UPDATEs and DELETEs.
AreUpdates(r, a, f, n) ==
  IsList(f, n) /\ \A i \in 1..n : Meant(r, a, f[i]) /\ \E t, w : Updates(f[i], t, w)

LEMMA DoesUpdates ==
  ASSUME NEW r, NEW a, NEW f, NEW n, AreUpdates(r, a, f, n)
  PROVE  Does(r, a, f, {f[i] : i \in 1..n}, {})
<1>1. \A i \in 1..n : Piece(r, f[i]) /\ f[i].do \notin Special /\ Leads(r, f[i]) = {f[i]} /\ Ids(r, f[i]) = {}
  <2>1. SUFFICES ASSUME NEW i \in 1..n
                 PROVE  /\ Piece(r, f[i]) /\ f[i].do \notin Special /\ Leads(r, f[i]) = {f[i]}
                        /\ Ids(r, f[i]) = {}
    OBVIOUS
  <2>2. PICK t, w : Updates(f[i], t, w)
    BY DEF AreUpdates
  <2>3. /\ Piece(r, f[i]) /\ f[i].do \notin Special /\ Leads(r, f[i]) = {f[i]} /\ Ids(r, f[i]) = {}
        /\ f[i].table = t /\ f[i].where = w /\ f[i].do \in {"update", "purge"}
    BY <2>2, UpdateLeads
  <2>4. QED
    BY <2>3
<1>2. Numbered(r, a, f, n)
  BY <1>1 DEF Numbered, AreUpdates
<1>3. /\ Purposeful(r, a, f)
      /\ \A p : p \in WillOf(r, f) <=> \E i \in 1..n : p \in Leads(r, f[i])
      /\ \A g : g \in IdsOf(r, f) <=> \E i \in 1..n : g \in Ids(r, f[i])
  BY <1>2, PurposefulList
<1>4. WillOf(r, f) = {f[i] : i \in 1..n}
  <2>1. \A p : p \in WillOf(r, f) <=> \E i \in 1..n : p = f[i]
    BY <1>1, <1>3
  <2>2. QED
    BY <2>1
<1>5. IdsOf(r, f) = {}
  BY <1>1, <1>3
<1>6. QED
  BY <1>3, <1>4, <1>5 DEF Does

LEMMA StartedDeleteAllTemplates ==
  ASSUME RecordsInv, NEW r \in Requests, DeleteAllTemplates(r)
  PROVE  Started(r)
<1> DEFINE a == AskDelete("DeleteTemplate", "all", "templates", Live("templates"))
           u == SoftDelete("templates", All)
           S == Live("templates")
<1>1. PICK order \in SetToSeqs(Select("templates", All)) :
        Begin(r, a, [i \in DOMAIN order |-> SoftDelete("template_versions", [template |-> order[i].id])] \o <<u>>)
  BY DEF DeleteAllTemplates, ForEach
<1> DEFINE n == Cardinality(Select("templates", All))
           f == [i \in 1..n |-> SoftDelete("template_versions", [template |-> order[i].id])]
<1>2. IsFiniteSet(Select("templates", All))
  <2>1. IsFiniteSet(db["templates"]) /\ Select("templates", All) \subseteq db["templates"]
    BY TemplateColumns DEF RecordsInv, Shapes, Select, Live
  <2>2. QED
    BY <2>1, FS_Subset
<1>3. n \in Nat /\ DOMAIN order = 1..n
  BY <1>2, OneByOne
<1>4. AskedToDelete(a, "templates", S) /\ Begin(r, a, f \o <<u>>) /\ S \in SUBSET db["templates"]
  BY <1>1, <1>3, AskDeleteIs DEF Live
<1>5. AreUpdates(r, a, f, n)
  <2>1. IsList(f, n)
    BY <1>3 DEF IsList
  <2>2. ASSUME NEW x
        PROVE  Meant(r, a, SoftDelete("template_versions", [template |-> x]))
               /\ \E t, w : Updates(SoftDelete("template_versions", [template |-> x]), t, w)
    <3> DEFINE w == [template |-> x]
    <3>1. DOMAIN w \subseteq Fixed("template_versions")
      BY TemplateColumns
    <3> HIDE DEF w
    <3>2. Meant(r, a, SoftDelete("template_versions", w))
      BY <3>1, TemplateColumns, MeantSoftDelete
    <3>3. Updates(SoftDelete("template_versions", w), "template_versions", w)
      BY DEF Updates, SoftDelete, Update
    <3>4. QED
      BY <3>2, <3>3 DEF w
  <2>3. QED
    BY <2>1, <2>2 DEF AreUpdates
<1>9. \A i \in 1..n : f[i].table = "template_versions"
  BY DEF SoftDelete
<1> HIDE DEF a, f
<1>6. Does(r, a, f, {f[i] : i \in 1..n}, {})
  BY <1>5, DoesUpdates
<1>7. DOMAIN All \subseteq Fixed("templates") /\ \A x \in S : Fits(x, All)
  BY NothingFits DEF All
<1>8. Does(r, a, <<u>>, {u}, {}) /\ Deleting(u, "templates", All)
  BY <1>7, TemplateColumns, DoesSoftDelete, DeletingIs
<1> DEFINE W == {f[i] : i \in 1..n} \cup {u}
<1>10. (\E p \in W : Deleting(p, "templates", All)) /\ \A p \in W : p.table = "templates" => Deleting(p, "templates", All)
  BY <1>8, <1>9
<1> DEFINE V == {f[i] : i \in 1..n}
<1> HIDE DEF u, V
<1>11. Does(r, a, f \o <<u>>, V \cup {u}, {} \cup {})
  BY <1>6, <1>8, DoesBoth DEF V
<1>12. Does(r, a, f \o <<u>>, W, {})
  BY <1>11 DEF V
<1> HIDE DEF W, S
<1>13. QED
  BY <1>4, <1>7, <1>10, <1>12, TemplateColumns, StartsDeleting

LEMMA StartedCreateVersion ==
  ASSUME RecordsInv, NEW r \in Requests, CreateVersion(r)
  PROVE  Started(r)
<1>1. PICK name \in TemplateNames, tag \in VersionTags, active \in BOOLEAN, t \in Live("templates") :
        Begin(r, Ask("CreateVersion", name),
         <<IfAny("template_versions", [template |-> t.id],
                 IF active THEN <<deactivateAll(t), Insert("template_versions", Version(<<r, 1>>, t.id, tag, TRUE))>>
                           ELSE <<Insert("template_versions", Version(<<r, 1>>, t.id, tag, FALSE))>>,
                 <<deactivateAll(t), Insert("template_versions", Version(<<r, 1>>, t.id, tag, TRUE))>>)>>)
  BY DEF CreateVersion, findTemplate, Select
<1> DEFINE a == Ask("CreateVersion", name)
           x == Version(<<r, 1>>, t.id, tag, TRUE)
           y == Version(<<r, 1>>, t.id, tag, FALSE)
           d == deactivateAll(t)
           s == Insert("template_versions", x)
           u == Insert("template_versions", y)
           yes == IF active THEN <<d, s>> ELSE <<u>>
           w == [template |-> t.id]
<1>2. Plain(a) /\ Begin(r, a, <<IfAny("template_versions", w, yes, <<d, s>>)>>)
  BY <1>1, AskIs
<1>3. /\ Inserts(s, "template_versions", x) /\ Inserts(u, "template_versions", y)
      /\ Fresh(r, "template_versions", x) /\ Fresh(r, "template_versions", y)
  BY FreshVersion DEF Inserts
<1>4. Does(r, a, <<d>>, {d}, {})
  <2> DEFINE set == [active |-> FALSE]
             w0  == [template |-> t.id, active |-> TRUE]
  <2>1. DOMAIN set \subseteq Marked("template_versions") \ {"dead"}
    BY TemplateColumns
  <2>2. d = Update("template_versions", w0, set)
    BY DEF deactivateAll
  <2> HIDE DEF set, w0, d, a
  <2>3. QED
    BY <2>1, <2>2, TemplateColumns, DoesMark
<1>5. d.do \in Simple /\ s.do \in Simple /\ u.do \in Simple
  BY DEF deactivateAll, Update, Insert, Simple
<1> HIDE DEF a, x, y, d, s, u, w
<1>6. /\ Does(r, a, <<s>>, {Store("template_versions", x)}, {Key("template_versions", x)})
      /\ Does(r, a, <<u>>, {Store("template_versions", y)}, {Key("template_versions", y)})
  BY <1>3, DoesInsert
<1> DEFINE V == {d} \cup {Store("template_versions", x)}
           J == {} \cup {Key("template_versions", x)}
<1>7. Does(r, a, <<d, s>>, V, J)
  BY <1>4, <1>6, DoesTwo
<1> HIDE DEF V, J
<1>8. Brief(<<d, s>>) /\ Brief(<<u>>)
  <2>1. Elements(<<d, s>>) = {d, s} /\ Elements(<<u>>) = {u}
    BY DEF Elements
  <2>2. QED
    BY <1>5, <2>1 DEF Brief
<1>9. PICK W, I : Does(r, a, yes, W, I) /\ Brief(yes)
  BY <1>6, <1>7, <1>8
<1> HIDE DEF yes
<1>10. Does(r, a, <<IfAny("template_versions", w, yes, <<d, s>>)>>, W \cup V, I \cup J)
  BY <1>2, <1>7, <1>8, <1>9, TemplateColumns, DoesTest
<1>11. QED
  BY <1>2, <1>10, StartsPlain

LEMMA StartedUpdateVersion ==
  ASSUME RecordsInv, NEW r \in Requests, UpdateVersion(r)
  PROVE  Started(r)
<1>1. PICK name \in TemplateNames, active \in BOOLEAN, t \in Live("templates"), v \in Live("template_versions") :
        Begin(r, AskSave("UpdateVersion", name, "template_versions", v, All),
              IF active THEN <<deactivateAll(t), Save("template_versions", [v EXCEPT !.active = TRUE])>>
                        ELSE <<Save("template_versions", v)>>)
  BY DEF UpdateVersion, findTemplate, findVersion, Select
<1> DEFINE x == [v EXCEPT !.active = TRUE]
<1>2. Revised("template_versions", v, All, v) /\ Saves(Save("template_versions", v), "template_versions", v)
  BY TemplateColumns, RevisedSame DEF Saves
<1>3. Revised("template_versions", v, All, x) /\ Saves(Save("template_versions", x), "template_versions", x)
  <2>1. DOMAIN x = DOMAIN v /\ \A c \in DOMAIN v \ {"active"} : x[c] = v[c]
    OBVIOUS
  <2>2. DOMAIN All = {}
    BY DEF All
  <2> HIDE DEF x
  <2>3. DOMAIN All = {"active"} \cap Saved("template_versions") /\ "active" # "dead"
        /\ "active" \in (Saved("template_versions") \cup Marked("template_versions")) \ {"dead"}
        /\ "active" \notin Saved("template_versions")
    BY <2>2, TemplateColumns
  <2>4. Revised("template_versions", v, All, x)
    BY <2>1, <2>3, TemplateColumns, RevisedOne
  <2>5. QED
    BY <2>4 DEF Saves
<1> DEFINE a == AskSave("UpdateVersion", name, "template_versions", v, All)
           d == deactivateAll(t)
           s == Save("template_versions", x)
           I == IF by(x) = r THEN {Key("template_versions", x)} ELSE {}
<1>4. CASE ~active
  BY <1>1, <1>2, <1>4, OneSave
<1>5. CASE active
  <2>1. Begin(r, a, <<d, s>>) /\ AskedToSave(a, "template_versions", v, All)
    BY <1>1, <1>5, AskSaveIs
  <2>2. Does(r, a, <<d>>, {d}, {}) /\ d.do # "put"
    <3> DEFINE set == [active |-> FALSE]
               w0  == [template |-> t.id, active |-> TRUE]
    <3>1. DOMAIN set \subseteq Marked("template_versions") \ {"dead"}
      BY TemplateColumns
    <3>2. d = Update("template_versions", w0, set)
      BY DEF deactivateAll
    <3>3. d.do # "put"
      BY DEF deactivateAll, Update
    <3> HIDE DEF set, w0, d, a
    <3>4. QED
      BY <3>1, <3>2, <3>3, TemplateColumns, DoesMark
  <2> HIDE DEF a, d
  <2>3. Does(r, a, <<s>>, {Store("template_versions", x)}, I)
    <3> HIDE DEF x
    <3>1. QED
      BY <1>3, <2>1, DoesSave
  <2> DEFINE W == {d} \cup {Store("template_versions", x)}
  <2> HIDE DEF s, x, I
  <2>4. Does(r, a, <<d, s>>, W, {} \cup I)
    BY <2>2, <2>3, DoesTwo
  <2>5. Store("template_versions", x) \in W
        /\ \A p \in W : p.do = "put" => by(p.row) = r \/ p = Store("template_versions", x)
    BY <2>2
  <2> HIDE DEF W
  <2>6. QED
    BY <1>3, <2>1, <2>4, <2>5, StartsSaving
<1>6. QED
  BY <1>4, <1>5

LEMMA StartedDeleteVersion ==
  ASSUME RecordsInv, NEW r \in Requests, DeleteVersion(r)
  PROVE  Started(r)
<1>1. PICK name \in TemplateNames, v \in Live("template_versions") :
        Begin(r, AskDelete("DeleteVersion", name, "template_versions", {v}),
              <<SoftDelete("template_versions", [id |-> v.id])>>)
  BY DEF DeleteVersion, findVersion, Select
<1>2. QED
  BY <1>1, TemplateColumns, OneDeleteById

LEMMA StartedCopyVersion ==
  ASSUME RecordsInv, NEW r \in Requests, CopyVersion(r)
  PROVE  Started(r)
<1>1. PICK name \in TemplateNames, newTag \in VersionTags, t \in Live("templates") :
    \/ \E target \in Live("template_versions") :
         Begin(r, AskSave("CopyVersion", name, "template_versions", target, All),
               <<Save("template_versions", [target EXCEPT !.active = FALSE])>>)
    \/ Begin(r, Ask("CopyVersion", name),
             <<Insert("template_versions", Version(<<r, 1>>, t.id, newTag, FALSE))>>)
  BY DEF CopyVersion, findTemplate, findVersion, Select
<1>2. ASSUME NEW v \in Live("template_versions"),
             Begin(r, AskSave("CopyVersion", name, "template_versions", v, All),
               <<Save("template_versions", [v EXCEPT !.active = FALSE])>>)
      PROVE  Started(r)
  <2> DEFINE x == [v EXCEPT !.active = FALSE]
  <2>1. DOMAIN x = DOMAIN v /\ \A c \in DOMAIN v \ {"active"} : x[c] = v[c]
    OBVIOUS
  <2>2. DOMAIN All = {}
    BY DEF All
  <2>3. Begin(r, AskSave("CopyVersion", name, "template_versions", v, All), <<Save("template_versions", x)>>)
    BY <1>2
  <2> HIDE DEF x
  <2>4. DOMAIN All = {"active"} \cap Saved("template_versions") /\ "active" # "dead"
        /\ "active" \in (Saved("template_versions") \cup Marked("template_versions")) \ {"dead"}
        /\ "active" \notin Saved("template_versions")
    BY <2>2, TemplateColumns
  <2>5. Revised("template_versions", v, All, x)
    BY <2>1, <2>4, TemplateColumns, RevisedOne
  <2>6. Saves(Save("template_versions", x), "template_versions", x)
    BY DEF Saves
  <2>7. QED
    BY <2>3, <2>5, <2>6, OneSave
<1>3. ASSUME Begin(r, Ask("CopyVersion", name),
               <<Insert("template_versions", Version(<<r, 1>>, t.id, newTag, FALSE))>>)
      PROVE  Started(r)
  <2>1. Fresh(r, "template_versions", Version(<<r, 1>>, t.id, newTag, FALSE))
    BY FreshVersion
  <2>2. Inserts(Insert("template_versions", Version(<<r, 1>>, t.id, newTag, FALSE)),
                "template_versions", Version(<<r, 1>>, t.id, newTag, FALSE))
    BY DEF Inserts
  <2>3. QED
    BY <1>3, <2>1, <2>2, OneInsert
<1>4. QED
  BY <1>1, <1>2, <1>3

LEMMA StartedTemplates ==
  ASSUME RecordsInv, NEW r \in Requests, TemplateHandlers(r)
  PROVE  Started(r)
BY StartedCreateTemplate, StartedUpdateTemplate, StartedDeleteTemplate, StartedDeleteAllTemplates,
   StartedCreateVersion, StartedUpdateVersion, StartedDeleteVersion, StartedCopyVersion
   DEF TemplateHandlers

----------------------------------------------------------------------------
(* Webhooks.                                                               *)

\* A list of INSERTs, each of the row of its number.
AreInserts(r, t, f, n) ==
  IsList(f, n) /\ \A i \in 1..n : \E row : Inserts(f[i], t, row) /\ Fresh(r, t, row) /\ row.id = <<r, i>>

LEMMA PurposefulDoes ==
  ASSUME NEW r, NEW a, NEW q, Purposeful(r, a, q)
  PROVE  Does(r, a, q, WillOf(r, q), IdsOf(r, q))
BY DEF Does

LEMMA DoesInserts ==
  ASSUME NEW r, NEW a, NEW t, NEW f, NEW n, AreInserts(r, t, f, n)
  PROVE  Does(r, a, f, WillOf(r, f), IdsOf(r, f))
<1>1. ASSUME NEW i \in 1..n
      PROVE  /\ Piece(r, f[i]) /\ \A g \in Ids(r, f[i]) : g[2][2] = i
             /\ \A p \in Leads(r, f[i]) : Meant(r, a, p)
             /\ f[i].do \notin Special
  <2>1. PICK row : Inserts(f[i], t, row) /\ Fresh(r, t, row) /\ row.id = <<r, i>>
    BY DEF AreInserts
  <2>2. /\ Piece(r, f[i]) /\ f[i].do \notin Special /\ Leads(r, f[i]) = {Store(t, row)}
        /\ Ids(r, f[i]) = {Key(t, row)}
    BY <2>1, InsertLeads DEF Fresh
  <2>3. Meant(r, a, Store(t, row))
    BY <2>1, MeantFresh
  <2>4. Key(t, row)[2][2] = i
    BY <2>1 DEF Key
  <2>5. QED
    BY <2>2, <2>3, <2>4
<1>2. Numbered(r, a, f, n)
  BY <1>1 DEF Numbered, AreInserts
<1>3. QED
  BY <1>2, PurposefulList, PurposefulDoes

LEMMA FreshDomainWebhook ==
  ASSUME NEW r, NEW n, NEW event, NEW url
  PROVE  Fresh(r, "domain_webhooks", DomainWebhook(<<r, n>>, event, url))
         /\ DomainWebhook(<<r, n>>, event, url).id = <<r, n>>
BY TheTables DEF Fresh, DomainWebhook, Columns, Fixed, Saved, Marked, Schema, by

LEMMA WebhookColumns ==
  /\ "domain_webhooks" \in Tables \ {"config"} /\ "account_webhooks" \in Tables \ {"config"}
  /\ {"event", "url"} \subseteq Fixed("domain_webhooks")
  /\ Saved("account_webhooks") = {"url", "events"} /\ Saved("config") = {"verify", "key"}
BY TheTables DEF Fixed, Saved, Marked, Schema

LEMMA AskUrlsIs ==
  ASSUME NEW kind, kind # "none", NEW on, NEW urls
  PROVE  Plain(With(Ask(kind, on), [urls |-> urls]))
<1> DEFINE a == Ask(kind, on)
           set == [urls |-> urls]
<1>1. a.kind = kind /\ NotAsked.kind = "none" /\ a.saves = {} /\ a.gone = {}
      /\ {"kind", "saves", "gone"} \subseteq DOMAIN a \ DOMAIN set
  BY DEF Ask, NotAsked
<1> HIDE DEF a, set
<1>2. /\ DOMAIN With(a, set) = DOMAIN a \cup DOMAIN set
      /\ \A c \in DOMAIN set : With(a, set)[c] = set[c]
      /\ \A c \in DOMAIN a \ DOMAIN set : With(a, set)[c] = a[c]
  BY WithColumn
<1>3. With(a, set).kind = kind /\ With(a, set).saves = {} /\ With(a, set).gone = {}
  BY <1>1, <1>2
<1>4. Plain(With(a, set))
  BY <1>1, <1>3 DEF Plain
<1>5. QED
  BY <1>4 DEF a, set

LEMMA WebhookInserts ==
  ASSUME NEW r, NEW n \in Nat, NEW event, NEW url,
         NEW f, f = [i \in 1..n |-> Insert("domain_webhooks", DomainWebhook(<<r, i>>, event[i], url[i]))]
                \/ f = [i \in 1..n |-> TryInsert("domain_webhooks", DomainWebhook(<<r, i>>, event[i], url[i]))]
  PROVE  AreInserts(r, "domain_webhooks", f, n)
<1>1. IsList(f, n)
  BY DEF IsList
<1>2. ASSUME NEW i \in 1..n
      PROVE  \E row : Inserts(f[i], "domain_webhooks", row) /\ Fresh(r, "domain_webhooks", row) /\ row.id = <<r, i>>
  <2> DEFINE row == DomainWebhook(<<r, i>>, event[i], url[i])
  <2>1. Inserts(f[i], "domain_webhooks", row)
    BY DEF Inserts
  <2>2. Fresh(r, "domain_webhooks", row) /\ row.id = <<r, i>>
    BY FreshDomainWebhook
  <2>3. QED
    BY <2>1, <2>2
<1>3. QED
  BY <1>1, <1>2 DEF AreInserts

\* The lists of a form.
LEMMA UrlListOf ==
  /\ \A urls \in UrlLists : Len(urls) \in Nat /\ DOMAIN urls = 1..Len(urls)
  /\ \A events \in EventLists : Len(events) \in Nat /\ DOMAIN events = 1..Len(events)
BY WebhooksAssumption

\* The v3 endpoints, with a DELETE before the INSERTs or without.
LEMMA StartedCreateWebhook ==
  ASSUME RecordsInv, NEW r \in Requests, CreateWebhook(r)
  PROVE  Started(r)
<1>1. PICK event \in EventTypes, urls \in UrlLists :
        Begin(r, AskUrls("CreateWebhook", event, urls), ForUrls(Insert, r, event, urls))
  BY DEF CreateWebhook
<1> DEFINE a == With(Ask("CreateWebhook", event), [urls |-> urls])
           n == Len(urls)
           events == [i \in 1..n |-> event]
           f == [i \in 1..n |-> Insert("domain_webhooks", DomainWebhook(<<r, i>>, events[i], urls[i]))]
<1>2. n \in Nat /\ DOMAIN urls = 1..n
  BY UrlListOf
<1>3. ForUrls(Insert, r, event, urls) = f
  BY <1>2 DEF ForUrls
<1>4. Begin(r, a, f) /\ Plain(a)
  BY <1>1, <1>3, AskUrlsIs DEF AskUrls
<1>5. f = [i \in 1..n |-> Insert("domain_webhooks", DomainWebhook(<<r, i>>, events[i], urls[i]))]
  OBVIOUS
<1> HIDE DEF a, n, events, f
<1>6. AreInserts(r, "domain_webhooks", f, n)
  BY <1>2, <1>5, WebhookInserts
<1>7. Does(r, a, f, WillOf(r, f), IdsOf(r, f))
  BY <1>6, DoesInserts
<1>8. QED
  BY <1>4, <1>7, StartsPlain

LEMMA DoesPurgeFirst ==
  ASSUME NEW r, NEW a, NEW t \in Tables \ {"config"}, NEW w, DOMAIN w \subseteq Fixed(t), NEW f, NEW W, NEW I,
         Does(r, a, f, W, I)
  PROVE  Does(r, a, <<Purge(t, w)>> \o f, {Purge(t, w)} \cup W, {} \cup I)
<1>1. Does(r, a, <<Purge(t, w)>>, {Purge(t, w)}, {})
  BY DoesPurge
<1>2. {} \cap I = {}
  OBVIOUS
<1>3. QED
  BY <1>1, <1>2, DoesBoth

LEMMA StartedUpdateWebhook ==
  ASSUME RecordsInv, NEW r \in Requests, UpdateWebhook(r)
  PROVE  Started(r)
<1>1. PICK event \in EventTypes, urls \in UrlLists :
        Begin(r, AskUrls("UpdateWebhook", event, urls),
              <<Purge("domain_webhooks", [event |-> event])>> \o ForUrls(Insert, r, event, urls))
  BY DEF UpdateWebhook
<1> DEFINE a == With(Ask("UpdateWebhook", event), [urls |-> urls])
           n == Len(urls)
           w == [event |-> event]
           events == [i \in 1..n |-> event]
           f == [i \in 1..n |-> Insert("domain_webhooks", DomainWebhook(<<r, i>>, events[i], urls[i]))]
<1>2. n \in Nat /\ DOMAIN urls = 1..n
  BY UrlListOf
<1>3. ForUrls(Insert, r, event, urls) = f
  BY <1>2 DEF ForUrls
<1>4. Begin(r, a, <<Purge("domain_webhooks", w)>> \o f) /\ Plain(a)
  BY <1>1, <1>3, AskUrlsIs DEF AskUrls
<1>5. f = [i \in 1..n |-> Insert("domain_webhooks", DomainWebhook(<<r, i>>, events[i], urls[i]))]
  OBVIOUS
<1>6. DOMAIN w \subseteq Fixed("domain_webhooks")
  BY WebhookColumns
<1> HIDE DEF a, n, events, f, w
<1>7. AreInserts(r, "domain_webhooks", f, n)
  BY <1>2, <1>5, WebhookInserts
<1>8. Does(r, a, f, WillOf(r, f), IdsOf(r, f))
  BY <1>7, DoesInserts
<1>9. QED
  BY <1>4, <1>6, <1>8, WebhookColumns, DoesPurgeFirst, StartsPlain

LEMMA StartedDeleteWebhook ==
  ASSUME RecordsInv, NEW r \in Requests, DeleteWebhook(r)
  PROVE  Started(r)
<1>1. PICK event \in EventTypes : Begin(r, AskUrls("DeleteWebhook", event, << >>),
                                        <<Purge("domain_webhooks", [event |-> event])>>)
  BY DEF DeleteWebhook
<1> DEFINE a == With(Ask("DeleteWebhook", event), [urls |-> << >>])
           w == [event |-> event]
<1>2. Begin(r, a, <<Purge("domain_webhooks", w)>>) /\ Plain(a) /\ DOMAIN w \subseteq Fixed("domain_webhooks")
  BY <1>1, AskUrlsIs, WebhookColumns DEF AskUrls
<1> HIDE DEF a, w
<1>3. QED
  BY <1>2, WebhookColumns, DoesPurge, StartsPlain

LEMMA StartedV4UpdateWebhook ==
  ASSUME RecordsInv, NEW r \in Requests, V4UpdateWebhook(r)
  PROVE  Started(r)
<1>1. PICK url \in Urls, events \in EventLists :
        Begin(r, AskUrls("V4UpdateWebhook", url, events),
              <<Purge("domain_webhooks", [url |-> url])>> \o
              [i \in DOMAIN events |-> TryInsert("domain_webhooks", DomainWebhook(<<r, i>>, events[i], url))])
  BY DEF V4UpdateWebhook
<1> DEFINE a == With(Ask("V4UpdateWebhook", url), [urls |-> events])
           n == Len(events)
           w == [url |-> url]
           urls == [i \in 1..n |-> url]
           f == [i \in 1..n |-> TryInsert("domain_webhooks", DomainWebhook(<<r, i>>, events[i], urls[i]))]
<1>2. n \in Nat /\ DOMAIN events = 1..n
  BY UrlListOf
<1>3. [i \in DOMAIN events |-> TryInsert("domain_webhooks", DomainWebhook(<<r, i>>, events[i], url))] = f
  BY <1>2
<1>4. Begin(r, a, <<Purge("domain_webhooks", w)>> \o f) /\ Plain(a)
  BY <1>1, <1>3, AskUrlsIs DEF AskUrls
<1>5. f = [i \in 1..n |-> TryInsert("domain_webhooks", DomainWebhook(<<r, i>>, events[i], urls[i]))]
  OBVIOUS
<1>6. DOMAIN w \subseteq Fixed("domain_webhooks")
  BY WebhookColumns
<1> HIDE DEF a, n, urls, f, w
<1>7. AreInserts(r, "domain_webhooks", f, n)
  BY <1>2, <1>5, WebhookInserts
<1>8. Does(r, a, f, WillOf(r, f), IdsOf(r, f))
  BY <1>7, DoesInserts
<1>9. QED
  BY <1>4, <1>6, <1>8, WebhookColumns, DoesPurgeFirst, StartsPlain

\* FirstOrCreate.
LEMMA FirstOrCreate ==
  ASSUME NEW r, NEW a, NEW t \in Tables, NEW w, NEW row, Fresh(r, t, row), NEW s, Inserts(s, t, row)
  PROVE  /\ Piece(r, IfAny(t, w, << >>, <<s>>)) /\ Meant(r, a, Store(t, row))
         /\ Leads(r, IfAny(t, w, << >>, <<s>>)) = {Store(t, row)}
         /\ Ids(r, IfAny(t, w, << >>, <<s>>)) = {Key(t, row)}
<1> DEFINE no == <<s>>
           yes == << >>
<1>1. Does(r, a, no, {Store(t, row)}, {Key(t, row)}) /\ Does(r, a, yes, {}, {})
  BY DoesInsert, DoesNothing
<1>2. \A e \in Elements(yes) \cup Elements(no) : e.do \in Simple \cup {"commit"}
  BY DEF Elements, Inserts, Insert, TryInsert, Simple
<1> HIDE DEF yes, no
<1>3. /\ Piece(r, IfAny(t, w, yes, no))
      /\ Leads(r, IfAny(t, w, yes, no)) = WillOf(r, yes) \cup WillOf(r, no)
      /\ Ids(r, IfAny(t, w, yes, no)) = IdsOf(r, yes) \cup IdsOf(r, no)
  BY <1>1, <1>2, TestLeads DEF Does
<1>4. /\ WillOf(r, yes) \cup WillOf(r, no) = {Store(t, row)}
      /\ IdsOf(r, yes) \cup IdsOf(r, no) = {Key(t, row)}
  BY <1>1 DEF Does
<1>5. Meant(r, a, Store(t, row))
  BY MeantFresh
<1>6. QED
  BY <1>3, <1>4, <1>5 DEF yes, no

LEMMA StartedV4CreateWebhook ==
  ASSUME RecordsInv, NEW r \in Requests, V4CreateWebhook(r)
  PROVE  Started(r)
<1>1. PICK url \in Urls, events \in EventLists :
        Begin(r, AskUrls("V4CreateWebhook", url, events),
          [i \in DOMAIN events |->
            IfAny("domain_webhooks", [event |-> events[i], url |-> url], << >>,
                  <<TryInsert("domain_webhooks", DomainWebhook(<<r, i>>, events[i], url))>>)])
  BY DEF V4CreateWebhook
<1> DEFINE a == With(Ask("V4CreateWebhook", url), [urls |-> events])
           n == Len(events)
           w(i) == [event |-> events[i], url |-> url]
           row(i) == DomainWebhook(<<r, i>>, events[i], url)
           s(i) == TryInsert("domain_webhooks", row(i))
           f == [i \in 1..n |-> IfAny("domain_webhooks", w(i), << >>, <<s(i)>>)]
<1>2. n \in Nat /\ DOMAIN events = 1..n
  BY UrlListOf
<1>3. Begin(r, a, f) /\ Plain(a)
  BY <1>1, <1>2, AskUrlsIs DEF AskUrls
<1>4. ASSUME NEW i \in 1..n
      PROVE  /\ Piece(r, f[i]) /\ \A g \in Ids(r, f[i]) : g[2][2] = i
             /\ \A p \in Leads(r, f[i]) : Meant(r, a, p)
  <2> DEFINE v == w(i)
             x == row(i)
             e == s(i)
  <2>1. f[i] = IfAny("domain_webhooks", v, << >>, <<e>>)
    OBVIOUS
  <2>2. Fresh(r, "domain_webhooks", x) /\ x.id = <<r, i>>
    BY FreshDomainWebhook
  <2>3. Inserts(e, "domain_webhooks", x)
    BY DEF Inserts
  <2>4. Key("domain_webhooks", x)[2][2] = i
    BY <2>2 DEF Key
  <2> HIDE DEF v, x, e, f, a
  <2>5. /\ Piece(r, IfAny("domain_webhooks", v, << >>, <<e>>)) /\ Meant(r, a, Store("domain_webhooks", x))
        /\ Leads(r, IfAny("domain_webhooks", v, << >>, <<e>>)) = {Store("domain_webhooks", x)}
        /\ Ids(r, IfAny("domain_webhooks", v, << >>, <<e>>)) = {Key("domain_webhooks", x)}
    BY <2>2, <2>3, WebhookColumns, FirstOrCreate
  <2>6. QED
    BY <2>1, <2>4, <2>5
<1>5. IsList(f, n)
  BY <1>2 DEF IsList
<1> HIDE DEF a, f, n
<1>6. Numbered(r, a, f, n)
  BY <1>3, <1>4, <1>5 DEF Numbered, Plain
<1>7. Does(r, a, f, WillOf(r, f), IdsOf(r, f))
  BY <1>6, PurposefulList, PurposefulDoes
<1>8. QED
  BY <1>3, <1>7, StartsPlain

LEMMA StartedV4DeleteWebhook ==
  ASSUME RecordsInv, NEW r \in Requests, V4DeleteWebhook(r)
  PROVE  Started(r)
<1>1. PICK urls \in UrlLists :
        Begin(r, AskUrls("V4DeleteWebhook", "all", urls),
              [i \in DOMAIN urls |-> Purge("domain_webhooks", [url |-> urls[i]])])
  BY DEF V4DeleteWebhook
<1> DEFINE a == With(Ask("V4DeleteWebhook", "all"), [urls |-> urls])
           n == Len(urls)
           w(i) == [url |-> urls[i]]
           f == [i \in 1..n |-> Purge("domain_webhooks", w(i))]
<1>2. n \in Nat /\ DOMAIN urls = 1..n
  BY UrlListOf
<1>3. Begin(r, a, f) /\ Plain(a)
  BY <1>1, <1>2, AskUrlsIs DEF AskUrls
<1>4. IsList(f, n)
  BY <1>2 DEF IsList
<1>5. ASSUME NEW i \in 1..n PROVE Meant(r, a, f[i]) /\ \E t, v : Updates(f[i], t, v)
  <2>1. f[i] = Purge("domain_webhooks", w(i)) /\ DOMAIN w(i) \subseteq Fixed("domain_webhooks")
    BY WebhookColumns
  <2> HIDE DEF w, f, a
  <2>2. Meant(r, a, Purge("domain_webhooks", w(i)))
    BY <2>1, WebhookColumns, MeantPurge
  <2>3. Updates(Purge("domain_webhooks", w(i)), "domain_webhooks", w(i))
    BY DEF Updates
  <2>4. QED
    BY <2>1, <2>2, <2>3
<1> HIDE DEF a, f, n
<1>6. AreUpdates(r, a, f, n)
  BY <1>4, <1>5 DEF AreUpdates
<1> DEFINE W == {f[i] : i \in 1..n}
<1>7. Does(r, a, f, W, {})
  BY <1>6, DoesUpdates
<1> HIDE DEF W
<1>8. QED
  BY <1>3, <1>7, StartsPlain

LEMMA StartedAccountWebhooks ==
  ASSUME RecordsInv, NEW r \in Requests,
         CreateAccountWebhook(r) \/ UpdateAccountWebhook(r) \/ DeleteAccountWebhook(r) \/ BulkDeleteAccountWebhooks(r)
  PROVE  Started(r)
<1>1. CASE CreateAccountWebhook(r)
  <2>1. PICK url \in Urls, events \in EventLists :
          Begin(r, Ask("CreateAccountWebhook", url),
                <<Insert("account_webhooks", AccountWebhook(<<r, 1>>, url, ToSet(events)))>>)
    BY <1>1 DEF CreateAccountWebhook
  <2> DEFINE row == AccountWebhook(<<r, 1>>, url, ToSet(events))
             s == Insert("account_webhooks", row)
  <2>2. Fresh(r, "account_webhooks", row)
    BY TheTables DEF Fresh, AccountWebhook, Columns, Fixed, Saved, Marked, Schema, by
  <2>3. Inserts(s, "account_webhooks", row) /\ Begin(r, Ask("CreateAccountWebhook", url), <<s>>)
    BY <2>1 DEF Inserts
  <2> HIDE DEF row, s
  <2>4. QED
    BY <2>2, <2>3, OneInsert
<1>2. CASE UpdateAccountWebhook(r)
  <2>1. PICK x \in Live("account_webhooks"), set \in
             {[url |-> url] : url \in Urls} \cup {[events |-> ToSet(events)] : events \in EventLists} :
          Begin(r, AskSave("UpdateAccountWebhook", by(x), "account_webhooks", x, set),
                <<Save("account_webhooks", With(x, set))>>)
    BY <1>2 DEF UpdateAccountWebhook
  <2>2. DOMAIN set \subseteq Saved("account_webhooks")
    BY WebhookColumns
  <2>3. Revised("account_webhooks", x, set, With(x, set))
    BY <2>2, WebhookColumns, RevisedWith
  <2>4. Saves(Save("account_webhooks", With(x, set)), "account_webhooks", With(x, set))
    BY DEF Saves
  <2>5. QED
    BY <2>1, <2>3, <2>4, OneSave
<1>3. CASE DeleteAccountWebhook(r)
  <2>1. PICK x \in Live("account_webhooks") :
          Begin(r, AskDelete("DeleteAccountWebhook", by(x), "account_webhooks", {x}),
                <<Purge("account_webhooks", [id |-> x.id])>>)
    BY <1>3 DEF DeleteAccountWebhook
  <2>2. QED
    BY <2>1, WebhookColumns, OneDeleteById
<1>4. CASE BulkDeleteAccountWebhooks(r)
  <2>1. Begin(r, AskDelete("BulkDeleteAccountWebhooks", "all", "account_webhooks", Live("account_webhooks")),
              <<Purge("account_webhooks", All)>>)
    BY <1>4 DEF BulkDeleteAccountWebhooks
  <2> DEFINE S == Live("account_webhooks")
  <2>2. S \in SUBSET db["account_webhooks"] /\ DOMAIN All \subseteq Fixed("account_webhooks")
        /\ \A x \in S : Fits(x, All)
    BY NothingFits DEF Live, All
  <2> HIDE DEF S
  <2>3. QED
    BY <2>1, <2>2, WebhookColumns, OneDelete DEF S
<1>5. QED
  BY <1>1, <1>2, <1>3, <1>4

\* The trigger reads the URLs of the domain.
LEMMA StartedTriggerWebhook ==
  ASSUME RecordsInv, NEW r \in Requests, TriggerWebhook(r)
  PROVE  Started(r)
<1>1. PICK event \in EventTypes :
        Begin(r, Ask("TriggerWebhook", event), <<[do |-> "collect", event |-> event, urls |-> URLs(event)]>>)
  BY DEF TriggerWebhook
<1> DEFINE a == Ask("TriggerWebhook", event)
           s == [do |-> "collect", event |-> event, urls |-> URLs(event)]
<1>2. IsFiniteSet(URLs(event))
  <2> DEFINE w == [event |-> event]
             S == Select("domain_webhooks", w)
             f == [x \in S |-> x.url]
  <2>1. IsFiniteSet(db["domain_webhooks"]) /\ S \subseteq db["domain_webhooks"]
    BY WebhookColumns DEF RecordsInv, Shapes, Select, Live
  <2>2. IsFiniteSet(S)
    BY <2>1, FS_Subset
  <2>3. URLs(event) = {f[x] : x \in S}
    BY DEF URLs
  <2> HIDE DEF f, S
  <2>4. QED
    BY <2>2, <2>3, FiniteImage
<1>3. s.do = "collect" /\ s.urls = URLs(event) /\ Plain(a) /\ Begin(r, a, <<s>>)
  BY <1>1, AskIs
<1> HIDE DEF a, s
<1>4. Piece(r, s)
  BY <1>2, <1>3 DEF Piece, Statement
<1>5. Leads(r, s) = {}
  BY <1>3 DEF Leads, Branches, Prims, Simple
<1>6. Purposeful(r, a, <<s>>)
  BY <1>3, <1>4, <1>5, PurposefulOne DEF Plain
<1>7. QED
  BY <1>3, <1>6, PurposefulDoes, StartsPlain

----------------------------------------------------------------------------
(* The configuration.                                                      *)

SavesConfig(a) ==
  /\ a # NotAsked /\ a.saves = {<<"config", "config">>} /\ DOMAIN a.sets \subseteq Saved("config")
  /\ \A g \in a.gone : g = <<g[1], g[2]>> /\ g[1] \in Tables \ {"config"}

\* Some of the settings.
PartOf(set, a) == \A c \in DOMAIN set : c \in DOMAIN a.sets /\ set[c] = a.sets[c]

LEMMA DoesConfig ==
  ASSUME NEW r, NEW a, SavesConfig(a), NEW set, PartOf(set, a)
  PROVE  Does(r, a, <<SetConfig(set)>>, {SetConfig(set)}, {})
<1> DEFINE p == SetConfig(set)
<1>1. p.do = "update" /\ p.table = "config" /\ p.where = All /\ p.row = set /\ Updates(p, "config", All)
  BY DEF SetConfig, Update, Updates
<1> HIDE DEF p
<1>2. Configures(a, p) /\ p.table \in Tables
  BY <1>1, TheTables DEF Configures, SavesConfig, PartOf
<1>3. \A g \in a.gone : ~Deletes(p, g)
  BY <1>1 DEF SavesConfig, Deletes
<1>4. Meant(r, a, p)
  BY <1>1, <1>2, <1>3 DEF Meant
<1>5. Does(r, a, <<p>>, {p}, {})
  BY <1>1, <1>4, DoesUpdate
<1>6. QED
  BY <1>5 DEF p

\* The 400 at a section that does not parse.
LEMMA DoesInvalid ==
  ASSUME NEW r, NEW a
  PROVE  Does(r, a, <<Invalid>>, {}, {})
<1>1. Invalid.do = "invalid"
  BY DEF Invalid
<1>2. Piece(r, Invalid) /\ Leads(r, Invalid) = {} /\ Ids(r, Invalid) = {} /\ Invalid.do \notin Special
  BY <1>1 DEF Piece, Statement, Leads, Branches, Prims, Simple, Special, Ids
<1>3. QED
  BY <1>2, PurposefulOne DEF Does

\* A program that sets the settings it was asked to, and deletes only all of a table.
Settles(a, W) ==
  /\ \A p \in W : p.do # "put" /\ (p.table # "config" => p.where = All)
  /\ \A c \in DOMAIN a.sets : \E p \in W : p.do = "update" /\ p.table = "config" /\ c \in DOMAIN p.row
  /\ \A g \in a.gone : \E p \in W : Deletes(p, g)

LEMMA StartsConfig ==
  ASSUME RecordsInv, NEW r \in Requests, NEW a, SavesConfig(a), NEW q, NEW W, NEW I, Does(r, a, q, W, I),
         Settles(a, W), \A g \in a.gone : \E x \in db[g[1]] : x.id = g[2], Begin(r, a, q)
  PROVE  Started(r)
<1>1. Purposeful(r, a, q) /\ WillOf(r, q) = W
  BY DEF Does
<1>2. \A g \in a.saves : g = <<"config", "config">> /\ g[1] = "config" /\ g[2] = "config"
  BY DEF SavesConfig
<1>3. Targets(a)
  BY <1>2, TheTables DEF Targets, SavesConfig
<1>4. \A g \in a.saves : \E x \in Live(g[1]) : x.id = g[2]
  BY <1>2 DEF RecordsInv, Origins, Live
<1>5. \A g \in a.saves : \A c \in DOMAIN a.sets : \E p \in W : SetsColumn(p, g, c)
  BY <1>2 DEF Settles, SetsColumn
<1>6. ASSUME NEW g \in a.gone, NEW p \in W, Deletes(p, g), NEW x \in db[g[1]], x.id = g[2]
      PROVE  Fits(x, p.where)
  <2>1. p.where = All
    BY <1>6 DEF Deletes, SavesConfig, Settles
  <2>2. QED
    BY <2>1, NothingFits
<1>7. Sound(r, a, q)
  BY <1>1, <1>3, <1>4, <1>5, <1>6 DEF Sound, Settles, SavesConfig
<1>8. QED
  BY <1>7 DEF Started, Starts

LEMMA AskSaveConfigIs ==
  ASSUME NEW kind, kind # "none", NEW on, NEW x, x.id = "config", NEW set, DOMAIN set \subseteq Saved("config")
  PROVE  /\ SavesConfig(AskSave(kind, on, "config", x, set))
         /\ AskSave(kind, on, "config", x, set).sets = set /\ AskSave(kind, on, "config", x, set).gone = {}
<1>1. AskSave(kind, on, "config", x, set).kind = kind /\ NotAsked.kind = "none"
  BY DEF AskSave, Ask, NotAsked
<1>2. QED
  BY <1>1 DEF AskSave, Ask, SavesConfig

LEMMA StartedRegenerateSigningKey ==
  ASSUME RecordsInv, NEW r \in Requests, RegenerateSigningKey(r)
  PROVE  Started(r)
<1> DEFINE x == [id |-> "config"]
           set == [key |-> r]
           a == AskSave("RegenerateSigningKey", "all", "config", x, set)
           p == SetConfig(set)
<1>1. Begin(r, a, <<p>>)
  BY DEF RegenerateSigningKey, SetConfig
<1>2. x.id = "config" /\ DOMAIN set \subseteq Saved("config")
  BY WebhookColumns
<1>3. p.do = "update" /\ p.table = "config" /\ p.row = set
  BY DEF SetConfig, Update
<1> HIDE DEF x, set
<1>4. SavesConfig(a) /\ a.sets = set /\ a.gone = {}
  BY <1>2, AskSaveConfigIs
<1> HIDE DEF a
<1>5. Does(r, a, <<p>>, {p}, {})
  BY <1>4, DoesConfig DEF PartOf
<1> DEFINE W == {p}
<1> HIDE DEF p
<1>6. Settles(a, W)
  BY <1>3, <1>4 DEF Settles
<1>7. Does(r, a, <<p>>, W, {})
  BY <1>5
<1> HIDE DEF W
<1>8. QED
  BY <1>1, <1>4, <1>6, <1>7, StartsConfig

LEMMA StartedWebhooks ==
  ASSUME RecordsInv, NEW r \in Requests, WebhookHandlers(r)
  PROVE  Started(r)
BY StartedCreateWebhook, StartedUpdateWebhook, StartedDeleteWebhook, StartedV4CreateWebhook,
   StartedV4UpdateWebhook, StartedV4DeleteWebhook, StartedAccountWebhooks,
   StartedRegenerateSigningKey, StartedTriggerWebhook
   DEF WebhookHandlers

\* The sections are merged in turn.
Refusals == {<< >>, <<Invalid>>}

LEMMA MergeIs ==
  ASSUME NEW set
  PROVE  IsSequence(Merge(set)) /\ Elements(Merge(set)) = IF set = All THEN {} ELSE {SetConfig(set)}
<1> DEFINE s == SetConfig(set)
<1>1. Merge(set) = IF set = All THEN << >> ELSE <<s>>
  BY DEF Merge
<1> HIDE DEF s
<1>2. IsSequence(Merge(set)) /\ Elements(Merge(set)) = IF set = All THEN {} ELSE {s}
  BY <1>1, ElementsOfTuples
<1>3. QED
  BY <1>2 DEF s

LEMMA ConfigStatements ==
  ASSUME NEW b, NEW k, NEW e \in Refusals
  PROVE  \A s \in Elements(Merge(b) \o Merge(k) \o e) :
            s = Invalid \/ (b # All /\ s = SetConfig(b)) \/ (k # All /\ s = SetConfig(k))
<1>1. IsSequence(e) /\ Elements(e) \subseteq {Invalid}
  BY ElementsOfTuples DEF Refusals
<1> DEFINE p == Merge(b) \o Merge(k)
<1>2. IsSequence(Merge(b)) /\ IsSequence(Merge(k))
  BY MergeIs
<1>3. IsSequence(p) /\ Elements(p) = Elements(Merge(b)) \cup Elements(Merge(k))
  BY <1>2, ConcatOf
<1>4. \A s \in Elements(p) : (b # All /\ s = SetConfig(b)) \/ (k # All /\ s = SetConfig(k))
  BY <1>3, MergeIs
<1> HIDE DEF p
<1>5. Elements(p \o e) = Elements(p) \cup Elements(e)
  BY <1>1, <1>3, ConcatOf
<1>6. QED
  BY <1>1, <1>4, <1>5 DEF p

LEMMA DoesMerge ==
  ASSUME NEW r, NEW a, SavesConfig(a), NEW set, PartOf(set, a)
  PROVE  Does(r, a, Merge(set), IF set = All THEN {} ELSE {SetConfig(set)}, {})
BY DoesNothing, DoesConfig DEF Merge

LEMMA StartedUpdateConfig ==
  ASSUME RecordsInv, NEW r \in Requests, UpdateConfig(r)
  PROVE  Started(r)
<1> DEFINE verify == [verify |-> FALSE]
           newkey == [key |-> r]
           x == [id |-> "config"]
<1>1. PICK behavior \in {All, verify}, key \in {All, newkey}, e \in Refusals :
        Begin(r, AskSave("UpdateConfig", "all", "config", x, With(behavior, key)),
              Merge(behavior) \o Merge(key) \o e)
  BY DEF UpdateConfig, Refusals
<1> DEFINE set == With(behavior, key)
           a == AskSave("UpdateConfig", "all", "config", x, set)
           p == SetConfig(behavior)
           u == SetConfig(key)
           b == Merge(behavior)
           q == Merge(key)
           W == IF behavior = All THEN {} ELSE {p}
           V == IF key = All THEN {} ELSE {u}
<1>2. Begin(r, a, (b \o q) \o e)
  BY <1>1
<1>3. /\ DOMAIN All = {} /\ DOMAIN verify = {"verify"} /\ DOMAIN newkey = {"key"}
      /\ "verify" \notin DOMAIN newkey
  BY DEF All
<1>4. /\ behavior = All \/ DOMAIN behavior = {"verify"}
      /\ key = All \/ DOMAIN key = {"key"}
  BY <1>3
<1>5. /\ DOMAIN set = DOMAIN behavior \cup DOMAIN key
      /\ \A c \in DOMAIN key : set[c] = key[c]
      /\ \A c \in DOMAIN behavior \ DOMAIN key : set[c] = behavior[c]
  BY WithColumn
<1>6. x.id = "config"
  OBVIOUS
<1>7. /\ p.do = "update" /\ p.table = "config" /\ p.row = behavior
      /\ u.do = "update" /\ u.table = "config" /\ u.row = key
  BY DEF SetConfig, Update
<1> HIDE DEF set, x, verify, newkey
<1>8. DOMAIN set \subseteq Saved("config")
  BY <1>3, <1>4, <1>5, WebhookColumns
<1>9. SavesConfig(a) /\ a.sets = set /\ a.gone = {}
  BY <1>6, <1>8, AskSaveConfigIs
<1> HIDE DEF a
<1>10. PartOf(behavior, a) /\ PartOf(key, a)
  BY <1>3, <1>4, <1>5, <1>9 DEF PartOf
<1>11. Does(r, a, b, W, {}) /\ Does(r, a, q, V, {})
  BY <1>9, <1>10, DoesMerge
<1>12. Settles(a, W \cup V)
  <2>1. \A c \in DOMAIN set : \E v \in W \cup V : v.do = "update" /\ v.table = "config" /\ c \in DOMAIN v.row
    BY <1>3, <1>4, <1>5, <1>7
  <2>2. \A v \in W \cup V : v.do = "update" /\ v.table = "config"
    BY <1>7
  <2>3. QED
    BY <1>9, <2>1, <2>2 DEF Settles
<1>13. Does(r, a, e, {}, {})
  BY DoesInvalid, DoesNothing DEF Refusals
<1> DEFINE U == W \cup V
           o == b \o q
<1> HIDE DEF b, q, W, V
<1>14. Does(r, a, o, U, {})
  <2>1. Does(r, a, b \o q, W \cup V, {} \cup {})
    BY <1>11, DoesBoth
  <2>2. QED
    BY <2>1
<1>15. Settles(a, U) /\ Begin(r, a, o \o e)
  BY <1>2, <1>12
<1> HIDE DEF o, U
<1>16. Does(r, a, o \o e, U, {})
  <2>1. Does(r, a, o \o e, U \cup {}, {} \cup {})
    BY <1>13, <1>14, DoesBoth
  <2>2. QED
    BY <2>1
<1>17. \A g \in a.gone : \E y \in db[g[1]] : y.id = g[2]
  BY <1>9
<1>18. QED
  BY <1>9, <1>15, <1>16, <1>17, StartsConfig

\* The tables that the reset empties.
LEMMA ResetTablesAre ==
  ASSUME NEW c \in DOMAIN resetTables
  PROVE  resetTables[c] \in Seq(Tables \ {"config"})
<1>1. DOMAIN resetTables = {"templates", "webhooks", "triggers", "domains", "ips", "subaccounts",
                            "keys", "tags", "routes"}
  BY DEF resetTables
<1>2. c = "templates" => resetTables[c] = <<"template_versions", "templates">>
  BY DEF resetTables
<1>3. c = "webhooks" => resetTables[c] = <<"domain_webhooks", "account_webhooks">>
  BY DEF resetTables
<1>4. c = "triggers" => resetTables[c] = <<"webhook_deliveries", "account_webhooks">>
  BY DEF resetTables
<1>5. c = "domains" => resetTables[c] = <<"dns_records", "smtp_credentials", "domains">>
  BY DEF resetTables
<1>6. c = "ips" => resetTables[c] = <<"ip_pool_ips", "domain_ips", "domain_pools", "ips", "ip_pools">>
  BY DEF resetTables
<1>7. c = "subaccounts" => resetTables[c] = <<"sending_limits", "subaccounts">>
  BY DEF resetTables
<1>8. c = "keys" => resetTables[c] = <<"api_keys", "managed_api_keys", "ip_allowlist_entries">>
  BY DEF resetTables
<1>9. c = "tags" => resetTables[c] = <<"tags">>
  BY DEF resetTables
<1>10. c = "routes" => resetTables[c] = <<"routes">>
  BY DEF resetTables
<1> DEFINE T == Tables \ {"config"}
<1>11. /\ "template_versions" \in T /\ "templates" \in T /\ "domain_webhooks" \in T /\ "account_webhooks" \in T
       /\ "webhook_deliveries" \in T /\ "dns_records" \in T /\ "smtp_credentials" \in T /\ "domains" \in T
       /\ "ip_pool_ips" \in T /\ "domain_ips" \in T /\ "domain_pools" \in T /\ "ips" \in T
       /\ "ip_pools" \in T /\ "sending_limits" \in T /\ "subaccounts" \in T /\ "api_keys" \in T
       /\ "managed_api_keys" \in T /\ "ip_allowlist_entries" \in T /\ "tags" \in T /\ "routes" \in T
  BY TheTables
<1> HIDE DEF T
<1>12. /\ <<"template_versions", "templates">> \in Seq(T) /\ <<"domain_webhooks", "account_webhooks">> \in Seq(T)
       /\ <<"webhook_deliveries", "account_webhooks">> \in Seq(T)
       /\ <<"dns_records", "smtp_credentials", "domains">> \in Seq(T)
       /\ <<"ip_pool_ips", "domain_ips", "domain_pools", "ips", "ip_pools">> \in Seq(T)
       /\ <<"sending_limits", "subaccounts">> \in Seq(T)
       /\ <<"api_keys", "managed_api_keys", "ip_allowlist_entries">> \in Seq(T)
       /\ <<"tags">> \in Seq(T) /\ <<"routes">> \in Seq(T)
  BY <1>11
<1>13. resetTables[c] \in Seq(T)
  BY <1>1, <1>2, <1>3, <1>4, <1>5, <1>6, <1>7, <1>8, <1>9, <1>10, <1>12
<1>14. QED
  BY <1>13 DEF T

LEMMA StartedResetAll ==
  ASSUME RecordsInv, NEW r \in Requests, NEW tables \in Seq(Tables \ {"config"}), ResetAll(r, tables)
  PROVE  Started(r)
<1> DEFINE gone == UNION {{<<t, x.id>> : x \in db[t]} : t \in ToSet(tables)}
           b == AskSave("ResetAll", "all", "config", Config, DefaultConfig)
           a == [b EXCEPT !.gone = gone]
           n == Len(tables)
           f == [i \in 1..n |-> Purge(tables[i], All)]
           u == SetConfig(DefaultConfig)
           V == {f[i] : i \in 1..n}
           W == V \cup {u}
<1>1. n \in Nat /\ DOMAIN tables = 1..n /\ \A i \in 1..n : tables[i] \in Tables \ {"config"}
  OBVIOUS
<1>2. Begin(r, a, f \o <<u>>)
  BY <1>1 DEF ResetAll
<1>3. DOMAIN DefaultConfig = {"verify", "key"}
  BY DEF DefaultConfig
<1>4. Config.id = "config"
  <2> DEFINE x == [id |-> "config", dead |-> FALSE]
  <2>1. x.id = "config" /\ DOMAIN x = {"id", "dead"}
    OBVIOUS
  <2>2. Config = With(x, DefaultConfig)
    BY DEF Config
  <2> HIDE DEF x
  <2>3. QED
    BY <1>3, <2>1, <2>2, WithColumn
<1>5. SavesConfig(b) /\ b.sets = DefaultConfig
  <2>1. DOMAIN DefaultConfig \subseteq Saved("config") /\ "ResetAll" # "none"
    BY <1>3, WebhookColumns
  <2>2. /\ SavesConfig(AskSave("ResetAll", "all", "config", Config, DefaultConfig))
        /\ AskSave("ResetAll", "all", "config", Config, DefaultConfig).sets = DefaultConfig
        /\ AskSave("ResetAll", "all", "config", Config, DefaultConfig).gone = {}
    BY <1>4, <2>1, AskSaveConfigIs
  <2>3. QED
    BY <2>2
<1>6. \A g \in gone : \E i \in 1..n : \E x \in db[tables[i]] : g = <<tables[i], x.id>>
  BY <1>1 DEF ToSet
<1>7. SavesConfig(a) /\ a.sets = DefaultConfig /\ a.gone = gone
  <2>1. /\ DOMAIN b = {"kind", "on", "saves", "sets", "gone"} /\ a.gone = gone /\ a.sets = b.sets
        /\ a.saves = b.saves /\ a.kind = "ResetAll" /\ NotAsked.kind = "none"
    BY DEF AskSave, Ask, NotAsked
  <2>2. \A g \in gone : g = <<g[1], g[2]>> /\ g[1] \in Tables \ {"config"}
    BY <1>1, <1>6
  <2> HIDE DEF a, b, gone
  <2>3. QED
    BY <1>5, <2>1, <2>2 DEF SavesConfig
<1>8. \A g \in gone : \E i \in 1..n : g[1] = tables[i] /\ \E x \in db[g[1]] : x.id = g[2]
  BY <1>6
<1> HIDE DEF b, gone, a
<1>9. Does(r, a, <<u>>, {u}, {})
  BY <1>7, DoesConfig DEF PartOf
<1>10. AreUpdates(r, a, f, n)
  <2>1. ASSUME NEW i \in 1..n PROVE Meant(r, a, f[i]) /\ \E t, w : Updates(f[i], t, w)
    <3>1. f[i] = Purge(tables[i], All) /\ DOMAIN All \subseteq Fixed(tables[i])
      BY DEF All
    <3>2. Meant(r, a, Purge(tables[i], All))
      BY <1>1, <3>1, MeantPurge
    <3>3. Updates(Purge(tables[i], All), tables[i], All)
      BY DEF Updates
    <3>4. QED
      BY <3>1, <3>2, <3>3
  <2>2. IsList(f, n)
    BY <1>1 DEF IsList
  <2>3. QED
    BY <2>1, <2>2 DEF AreUpdates
<1>11. \A i \in 1..n : f[i].do = "purge" /\ f[i].table = tables[i] /\ f[i].where = All
  BY DEF Purge
<1>12. u.do = "update" /\ u.table = "config" /\ u.row = DefaultConfig
  BY DEF SetConfig, Update
<1> HIDE DEF f, u
<1>13. Settles(a, W)
  <2>1. \A p \in W : p.do # "put" /\ (p.table # "config" => p.where = All)
    BY <1>11, <1>12
  <2>2. \A c \in DOMAIN a.sets : \E p \in W : p.do = "update" /\ p.table = "config" /\ c \in DOMAIN p.row
    BY <1>7, <1>12
  <2>3. \A g \in a.gone : \E p \in W : Deletes(p, g)
    BY <1>7, <1>8, <1>11 DEF Deletes
  <2>4. QED
    BY <2>1, <2>2, <2>3 DEF Settles
<1>14. Does(r, a, f, V, {})
  BY <1>10, DoesUpdates
<1> HIDE DEF V
<1>15. Does(r, a, f \o <<u>>, W, {} \cup {})
  BY <1>9, <1>14, DoesBoth
<1> HIDE DEF W
<1>16. \A g \in a.gone : \E x \in db[g[1]] : x.id = g[2]
  BY <1>7, <1>8
<1>17. QED
  BY <1>2, <1>7, <1>13, <1>15, <1>16, StartsConfig

LEMMA StartedResetDomain ==
  ASSUME NEW r \in Requests, ResetDomain(r)
  PROVE  Started(r)
BY AskIs, DoesNothing, StartsPlain DEF ResetDomain

----------------------------------------------------------------------------
(* Domains.                                                                *)

LEMMA DomainColumns ==
  /\ "domains" \in Tables \ {"config"} /\ "dns_records" \in Tables \ {"config"}
  /\ "smtp_credentials" \in Tables \ {"config"} /\ "config" \in Tables
  /\ Saved("domains") = {"verified", "spam", "tls", "dkim", "tracking"}
  /\ "domain" \in Fixed("dns_records") /\ "valid" \in Marked("dns_records")
  /\ "domain" \in Fixed("smtp_credentials") /\ Saved("smtp_credentials") = {"password"}
  /\ "id" \in Fixed("domains")
BY TheTables DEF Fixed, Saved, Marked, Schema

LEMMA FreshDomain ==
  ASSUME NEW r, NEW n, NEW name, NEW verified, NEW d, NEW valid, NEW login
  PROVE  /\ Fresh(r, "domains", Domain(<<r, n>>, name, verified))
         /\ Fresh(r, "dns_records", DNSRecords(<<r, n>>, d, valid))
         /\ Fresh(r, "smtp_credentials", SMTPCredential(<<r, n>>, d, login))
<1>1. Fresh(r, "domains", Domain(<<r, n>>, name, verified))
  BY TheTables DEF Fresh, Domain, Columns, Fixed, Saved, Marked, Schema, by
<1>2. Fresh(r, "dns_records", DNSRecords(<<r, n>>, d, valid))
  BY TheTables DEF Fresh, DNSRecords, Columns, Fixed, Saved, Marked, Schema, by
<1>3. Fresh(r, "smtp_credentials", SMTPCredential(<<r, n>>, d, login))
  BY TheTables DEF Fresh, SMTPCredential, Columns, Fixed, Saved, Marked, Schema, by
<1>4. QED
  BY <1>1, <1>2, <1>3

\* Two statements in a transaction.
LEMMA DoesTransaction ==
  ASSUME NEW r, NEW a, NEW b, NEW c, b.do \in Simple, c.do \in Simple, b.table # c.table,
         Meant(r, a, Prim(b)), Meant(r, a, Prim(c))
  PROVE  /\ Does(r, a, <<Transaction(b, c)>>, {Prim(b), Prim(c)}, IdsOf(r, <<Transaction(b, c)>>))
         /\ Brief(<<Transaction(b, c)>>)
<1> DEFINE s == Transaction(b, c)
<1>1. s.do = "commit" /\ s.strict /\ s.parts[1] = b /\ s.parts[2] = c
  BY DEF Transaction
<1> HIDE DEF s
<1>2. Piece(r, s) /\ s.do \notin Special
  BY <1>1 DEF Piece, Statement, Special
<1>3. Leads(r, s) = {Prim(b), Prim(c)}
  BY <1>1, LeadsOfSimple
<1>4. Purposeful(r, a, <<s>>) /\ WillOf(r, <<s>>) = {Prim(b), Prim(c)}
  BY <1>2, <1>3, PurposefulOne
<1>5. Brief(<<s>>)
  <2>1. Elements(<<s>>) = {s}
    BY DEF Elements
  <2>2. QED
    BY <1>1, <2>1 DEF Brief
<1>6. Does(r, a, <<s>>, {Prim(b), Prim(c)}, IdsOf(r, <<s>>))
  BY <1>4 DEF Does
<1>7. QED
  BY <1>5, <1>6 DEF s

LEMMA InsertPrim ==
  ASSUME NEW t, NEW row
  PROVE  Insert(t, row).do \in Simple /\ Insert(t, row).table = t /\ Prim(Insert(t, row)) = Store(t, row)
BY DEF Insert, Simple, Prim

LEMMA StartedCreateDomain ==
  ASSUME RecordsInv, NEW r \in Requests, CreateDomain(r)
  PROVE  Started(r)
<1>1. PICK name \in DomainNames, k \in db["config"] :
        LET create(valid) == Transaction(Insert("domains", Domain(<<r, 1>>, name, k.verify)),
                                         Insert("dns_records", DNSRecords(<<r, 1>>, <<r, 1>>, valid)))
        IN Begin(r, Ask("CreateDomain", name),
                 <<IfAny("config", [verify |-> TRUE], <<create(TRUE)>>, <<create(FALSE)>>)>>)
  BY DEF CreateDomain
<1> DEFINE a == Ask("CreateDomain", name)
           w == [verify |-> TRUE]
           x == Domain(<<r, 1>>, name, k.verify)
           y(valid) == DNSRecords(<<r, 1>>, <<r, 1>>, valid)
           s(valid) == Transaction(Insert("domains", x), Insert("dns_records", y(valid)))
           yes == <<s(TRUE)>>
           no  == <<s(FALSE)>>
<1>2. Plain(a) /\ Begin(r, a, <<IfAny("config", w, yes, no)>>)
  BY <1>1, AskIs
<1> HIDE DEF a, w
<1>3. ASSUME NEW valid
      PROVE  /\ Does(r, a, <<s(valid)>>, {Store("domains", x), Store("dns_records", y(valid))},
                     IdsOf(r, <<s(valid)>>))
             /\ Brief(<<s(valid)>>)
  <2> DEFINE b == Insert("domains", x)
             c == Insert("dns_records", y(valid))
  <2>1. Fresh(r, "domains", x) /\ Fresh(r, "dns_records", y(valid))
    BY FreshDomain
  <2>2. Meant(r, a, Store("domains", x)) /\ Meant(r, a, Store("dns_records", y(valid)))
    BY <2>1, MeantFresh
  <2>3. /\ b.do \in Simple /\ b.table = "domains" /\ Prim(b) = Store("domains", x)
        /\ c.do \in Simple /\ c.table = "dns_records" /\ Prim(c) = Store("dns_records", y(valid))
    BY InsertPrim
  <2> HIDE DEF b, c, x, y
  <2>4. /\ Does(r, a, <<Transaction(b, c)>>, {Prim(b), Prim(c)}, IdsOf(r, <<Transaction(b, c)>>))
        /\ Brief(<<Transaction(b, c)>>)
    BY <2>2, <2>3, DoesTransaction
  <2>5. QED
    BY <2>3, <2>4 DEF b, c
<1> HIDE DEF x, y, s
<1>4. PICK W, I : Does(r, a, yes, W, I) /\ Brief(yes)
  BY <1>3
<1>5. PICK V, J : Does(r, a, no, V, J) /\ Brief(no)
  BY <1>3
<1> HIDE DEF yes, no
<1>6. Does(r, a, <<IfAny("config", w, yes, no)>>, W \cup V, I \cup J)
  BY <1>2, <1>4, <1>5, DomainColumns, DoesTest
<1>7. QED
  BY <1>2, <1>6, StartsPlain

LEMMA StartedDeleteDomain ==
  ASSUME RecordsInv, NEW r \in Requests, DeleteDomain(r)
  PROVE  Started(r)
<1>1. PICK name \in DomainNames, d \in Live("domains") :
        Begin(r, AskDelete("DeleteDomain", name, "domains", {d}),
              <<Transaction(SoftDelete("dns_records", [domain |-> d.id]),
                            SoftDelete("domains", [id |-> d.id]))>>)
  BY DEF DeleteDomain, findDomain, Select
<1> DEFINE a == AskDelete("DeleteDomain", name, "domains", {d})
           S == {d}
           w == [domain |-> d.id]
           v == [id |-> d.id]
           b == SoftDelete("dns_records", w)
           c == SoftDelete("domains", v)
           q == <<Transaction(b, c)>>
           W == {Prim(b), Prim(c)}
<1>2. AskedToDelete(a, "domains", S) /\ Begin(r, a, q) /\ S \in SUBSET db["domains"]
  BY <1>1, AskDeleteIs DEF Live
<1>3. /\ DOMAIN w \subseteq Fixed("dns_records") /\ DOMAIN v \subseteq Fixed("domains")
      /\ \A x \in S : Fits(x, v)
  BY DomainColumns DEF Fits
<1>4. /\ b.do \in Simple /\ Prim(b) = b /\ b.table = "dns_records"
      /\ c.do \in Simple /\ Prim(c) = c /\ c.table = "domains"
  BY DEF SoftDelete, Simple, Prim
<1> HIDE DEF a, S, w, v
<1>5. Meant(r, a, b) /\ Meant(r, a, c) /\ Deleting(c, "domains", v)
  BY <1>3, DomainColumns, MeantSoftDelete, DeletingIs
<1>6. (\E p \in W : Deleting(p, "domains", v)) /\ \A p \in W : p.table = "domains" => Deleting(p, "domains", v)
  BY <1>4, <1>5
<1> HIDE DEF b, c
<1>7. Does(r, a, <<Transaction(b, c)>>, {Prim(b), Prim(c)}, IdsOf(r, <<Transaction(b, c)>>))
  BY <1>4, <1>5, DoesTransaction
<1>8. Does(r, a, q, W, IdsOf(r, q))
  BY <1>7
<1> HIDE DEF q, W
<1>9. QED
  BY <1>2, <1>3, <1>6, <1>8, DomainColumns, StartsDeleting

LEMMA StartedVerifyDomain ==
  ASSUME RecordsInv, NEW r \in Requests, VerifyDomain(r)
  PROVE  Started(r)
<1>1. PICK name \in DomainNames, d \in Live("domains") :
        Begin(r, AskSave("VerifyDomain", name, "domains", d, [verified |-> TRUE]),
              <<Transaction(Save("domains", [d EXCEPT !.verified = TRUE]),
                            Update("dns_records", [domain |-> d.id], [valid |-> TRUE]))>>)
  BY DEF VerifyDomain, findDomain, Select
<1> DEFINE set == [verified |-> TRUE]
           a == AskSave("VerifyDomain", name, "domains", d, set)
           row == [d EXCEPT !.verified = TRUE]
           w == [domain |-> d.id]
           mark == [valid |-> TRUE]
           b == Save("domains", row)
           c == Update("dns_records", w, mark)
           q == <<Transaction(b, c)>>
           W == {Prim(b), Prim(c)}
<1>2. AskedToSave(a, "domains", d, set) /\ Begin(r, a, q)
  BY <1>1, AskSaveIs
<1>3. Revised("domains", d, set, row)
  <2>1. /\ DOMAIN row = DOMAIN d /\ \A e \in DOMAIN d \ {"verified"} : row[e] = d[e]
        /\ "verified" \in DOMAIN d => row["verified"] = set["verified"]
        /\ DOMAIN set = {"verified"}
    OBVIOUS
  <2>2. /\ "verified" \in (Saved("domains") \cup Marked("domains")) \ {"dead"}
        /\ "verified" \in Saved("domains")
        /\ DOMAIN d = Columns("domains")
    BY DomainColumns, RowOf
  <2> HIDE DEF row, set
  <2>3. DOMAIN set = {"verified"} \cap Saved("domains") /\ row["verified"] = set["verified"]
    BY <2>1, <2>2 DEF Columns
  <2>4. QED
    BY <2>1, <2>2, <2>3, DomainColumns, RevisedOne
<1>4. /\ b.do \in Simple /\ Prim(b) = Store("domains", row) /\ b.table = "domains"
      /\ c.do \in Simple /\ Prim(c) = c /\ c.table = "dns_records" /\ c.do = "update"
  BY DEF Save, Update, Simple, Prim
<1>5. DOMAIN mark \subseteq Marked("dns_records") \ {"dead"}
  BY DomainColumns
<1> HIDE DEF set, a, row, w, mark
<1>6. RevisedFor(a, "domains", d, row)
  BY <1>2, <1>3 DEF RevisedFor, AskedToSave
<1>7. Meant(r, a, Store("domains", row)) /\ Meant(r, a, c)
  BY <1>5, <1>6, DomainColumns, MeantRevised, MeantMark
<1>8. Store("domains", row) \in W /\ \A p \in W : p.do = "put" => by(p.row) = r \/ p = Store("domains", row)
  BY <1>4
<1> HIDE DEF b, c
<1>9. Does(r, a, <<Transaction(b, c)>>, {Prim(b), Prim(c)}, IdsOf(r, <<Transaction(b, c)>>))
  BY <1>4, <1>7, DoesTransaction
<1>10. Does(r, a, q, W, IdsOf(r, q))
  BY <1>9
<1> HIDE DEF q, W
<1>11. QED
  BY <1>2, <1>3, <1>8, <1>10, StartsSaving

LEMMA StartedSaveSettings ==
  ASSUME RecordsInv, NEW r \in Requests, NEW endpoint, endpoint # "none",
         NEW columns \in SUBSET {"spam", "tls", "dkim", "tracking"}, SaveSettings(r, endpoint, columns)
  PROVE  Started(r)
<1> DEFINE set == [c \in columns |-> r]
<1>1. PICK name \in DomainNames, d \in Live("domains") :
        Begin(r, AskSave(endpoint, name, "domains", d, set), <<SaveOrFail("domains", With(d, set))>>)
  BY DEF SaveSettings, findDomain, Select
<1>2. DOMAIN set \subseteq Saved("domains")
  BY DomainColumns
<1> HIDE DEF set
<1>3. Revised("domains", d, set, With(d, set))
  BY <1>2, DomainColumns, RevisedWith
<1>4. Saves(SaveOrFail("domains", With(d, set)), "domains", With(d, set))
  BY DEF Saves
<1>5. QED
  BY <1>1, <1>3, <1>4, OneSave

LEMMA StartedCredentials ==
  ASSUME RecordsInv, NEW r \in Requests,
         CreateCredential(r) \/ UpdateCredential(r) \/ DeleteCredential(r) \/ DeleteAllCredentials(r)
  PROVE  Started(r)
<1>1. CASE CreateCredential(r)
  <2>1. PICK name \in DomainNames, login \in Logins :
          Begin(r, Ask("CreateCredential", name),
                <<Insert("smtp_credentials", SMTPCredential(<<r, 1>>, name, login))>>)
    BY <1>1 DEF CreateCredential
  <2> DEFINE row == SMTPCredential(<<r, 1>>, name, login)
             s == Insert("smtp_credentials", row)
  <2>2. Fresh(r, "smtp_credentials", row)
    BY FreshDomain
  <2>3. Inserts(s, "smtp_credentials", row) /\ Begin(r, Ask("CreateCredential", name), <<s>>)
    BY <2>1 DEF Inserts
  <2> HIDE DEF row, s
  <2>4. QED
    BY <2>2, <2>3, OneInsert
<1>2. CASE UpdateCredential(r)
  <2>1. PICK name \in DomainNames, x \in Live("smtp_credentials") :
          Begin(r, AskSave("UpdateCredential", name, "smtp_credentials", x, [password |-> r]),
                <<SaveOrFail("smtp_credentials", [x EXCEPT !.password = r])>>)
    BY <1>2 DEF UpdateCredential, credential, Select
  <2> DEFINE set == [password |-> r]
             row == [x EXCEPT !.password = r]
             s == SaveOrFail("smtp_credentials", row)
  <2>2. Begin(r, AskSave("UpdateCredential", name, "smtp_credentials", x, set), <<s>>)
    BY <2>1
  <2>3. /\ DOMAIN row = DOMAIN x /\ \A e \in DOMAIN x \ {"password"} : row[e] = x[e]
        /\ "password" \in DOMAIN x => row["password"] = set["password"]
        /\ DOMAIN set = {"password"}
    OBVIOUS
  <2>4. /\ "password" \in (Saved("smtp_credentials") \cup Marked("smtp_credentials")) \ {"dead"}
        /\ "password" \in Saved("smtp_credentials")
        /\ DOMAIN x = Columns("smtp_credentials")
    BY DomainColumns, RowOf
  <2> HIDE DEF row, set
  <2>5. DOMAIN set = {"password"} \cap Saved("smtp_credentials") /\ row["password"] = set["password"]
    BY <2>3, <2>4 DEF Columns
  <2>6. Revised("smtp_credentials", x, set, row)
    BY <2>3, <2>4, <2>5, DomainColumns, RevisedOne
  <2>7. Saves(s, "smtp_credentials", row)
    BY DEF Saves
  <2> HIDE DEF s
  <2>8. QED
    BY <2>2, <2>6, <2>7, OneSave
<1>3. CASE DeleteCredential(r)
  <2>1. PICK name \in DomainNames, x \in Live("smtp_credentials") :
          Begin(r, AskDelete("DeleteCredential", name, "smtp_credentials", {x}),
                <<Purge("smtp_credentials", [id |-> x.id])>>)
    BY <1>3 DEF DeleteCredential, credential, Select
  <2>2. QED
    BY <2>1, DomainColumns, OneDeleteById
<1>4. CASE DeleteAllCredentials(r)
  <2>1. PICK name \in DomainNames :
          Begin(r, AskDelete("DeleteAllCredentials", name, "smtp_credentials",
                             Select("smtp_credentials", [domain |-> name])),
                <<Purge("smtp_credentials", [domain |-> name])>>)
    BY <1>4 DEF DeleteAllCredentials
  <2> DEFINE w == [domain |-> name]
             S == Select("smtp_credentials", w)
  <2>2. S \in SUBSET db["smtp_credentials"] /\ (\A x \in S : Fits(x, w)) /\ DOMAIN w \subseteq Fixed("smtp_credentials")
    BY DomainColumns DEF Select, Live
  <2>3. Begin(r, AskDelete("DeleteAllCredentials", name, "smtp_credentials", S), <<Purge("smtp_credentials", w)>>)
    BY <2>1
  <2> HIDE DEF S, w
  <2>4. QED
    BY <2>2, <2>3, DomainColumns, OneDelete
<1>5. QED
  BY <1>1, <1>2, <1>3, <1>4

LEMMA StartedDomains ==
  ASSUME RecordsInv, NEW r \in Requests, DomainHandlers(r)
  PROVE  Started(r)
<1>1. CASE UpdateDomain(r)
  <2>1. PICK sent \in SUBSET {"spam", "tls", "dkim", "tracking"} : SaveSettings(r, "UpdateDomain", sent)
    BY <1>1 DEF UpdateDomain
  <2>2. QED
    BY <2>1, StartedSaveSettings
<1>2. CASE UpdateConnection(r) \/ UpdateDKIM(r) \/ UpdateTracking(r)
  <2>1. PICK endpoint \in {"UpdateConnection", "UpdateDKIM", "UpdateTracking"},
             sent \in SUBSET {"spam", "tls", "dkim", "tracking"} : SaveSettings(r, endpoint, sent)
    BY <1>2 DEF UpdateConnection, UpdateDKIM, UpdateTracking
  <2>2. endpoint # "none"
    OBVIOUS
  <2>3. QED
    BY <2>1, <2>2, StartedSaveSettings
<1>3. QED
  BY <1>1, <1>2, StartedCreateDomain, StartedDeleteDomain, StartedVerifyDomain, StartedCredentials
     DEF DomainHandlers

----------------------------------------------------------------------------
(* IPs and pools.                                                          *)

\* One column of a row is set and the row saved.
LEMMA RevisedColumn ==
  ASSUME RecordsInv, NEW t \in Tables \ {"config"}, NEW x \in Live(t), NEW c \in Saved(t), NEW v, NEW set,
         DOMAIN set = {c}, set[c] = v, NEW row, row = [x EXCEPT ![c] = v]
  PROVE  Revised(t, x, set, row)
<1>1. DOMAIN row = DOMAIN x /\ \A d \in DOMAIN x \ {c} : row[d] = x[d]
  OBVIOUS
<1>2. DOMAIN x = Columns(t) /\ c \in (Saved(t) \cup Marked(t)) \ {"dead"}
  BY RowOf, TheColumns
<1>3. row[c] = set[c] /\ DOMAIN set = {c} \cap Saved(t)
  BY <1>2 DEF Columns
<1>4. QED
  BY <1>1, <1>2, <1>3, RevisedOne

LEMMA IPColumns ==
  /\ "ips" \in Tables \ {"config"} /\ "ip_pools" \in Tables \ {"config"}
  /\ "ip_pool_ips" \in Tables \ {"config"} /\ "domain_ips" \in Tables \ {"config"}
  /\ "domain_pools" \in Tables \ {"config"}
  /\ Saved("ip_pools") = {"name"} /\ "ip" \in Fixed("domain_ips") /\ {"pool", "ip"} \subseteq Fixed("ip_pool_ips")
BY TheTables DEF Fixed, Saved, Marked, Schema

LEMMA FreshIPs ==
  ASSUME NEW r, NEW n, NEW ip, NEW pool
  PROVE  /\ Fresh(r, "domain_ips", DomainIP(<<r, n>>, ip)) /\ Fresh(r, "domain_pools", DomainPool(<<r, n>>, pool))
         /\ Fresh(r, "ip_pools", IPPool(<<r, n>>, ip)) /\ Fresh(r, "ip_pool_ips", IPPoolIP(<<r, n>>, pool, ip))
<1>1. Fresh(r, "domain_ips", DomainIP(<<r, n>>, ip))
  BY TheTables DEF Fresh, DomainIP, Columns, Fixed, Saved, Marked, Schema, by
<1>2. Fresh(r, "domain_pools", DomainPool(<<r, n>>, pool))
  BY TheTables DEF Fresh, DomainPool, Columns, Fixed, Saved, Marked, Schema, by
<1>3. Fresh(r, "ip_pools", IPPool(<<r, n>>, ip))
  BY TheTables DEF Fresh, IPPool, Columns, Fixed, Saved, Marked, Schema, by
<1>4. Fresh(r, "ip_pool_ips", IPPoolIP(<<r, n>>, pool, ip))
  BY TheTables DEF Fresh, IPPoolIP, Columns, Fixed, Saved, Marked, Schema, by
<1>5. QED
  BY <1>1, <1>2, <1>3, <1>4

LEMMA StartedAssignDomainIP ==
  ASSUME RecordsInv, NEW r \in Requests, AssignDomainIP(r)
  PROVE  Started(r)
<1>1. CASE \E ip \in Addresses :
             Begin(r, Ask("AssignDomainIP", ip), <<TryInsert("domain_ips", DomainIP(<<r, 1>>, ip))>>)
  <2>1. PICK ip \in Addresses :
          Begin(r, Ask("AssignDomainIP", ip), <<TryInsert("domain_ips", DomainIP(<<r, 1>>, ip))>>)
    BY <1>1
  <2> DEFINE row == DomainIP(<<r, 1>>, ip)
             s == TryInsert("domain_ips", row)
  <2>2. Fresh(r, "domain_ips", row)
    BY FreshIPs
  <2>3. Inserts(s, "domain_ips", row) /\ Begin(r, Ask("AssignDomainIP", ip), <<s>>)
    BY <2>1 DEF Inserts
  <2> HIDE DEF row, s
  <2>4. QED
    BY <2>2, <2>3, OneInsert
<1>2. CASE \E p \in Live("ip_pools") :
             Begin(r, Ask("AssignDomainIP", by(p)), <<TryInsert("domain_pools", DomainPool(<<r, 1>>, p.id))>>)
  <2>1. PICK p \in Live("ip_pools") :
          Begin(r, Ask("AssignDomainIP", by(p)), <<TryInsert("domain_pools", DomainPool(<<r, 1>>, p.id))>>)
    BY <1>2
  <2> DEFINE row == DomainPool(<<r, 1>>, p.id)
             s == TryInsert("domain_pools", row)
  <2>2. Fresh(r, "domain_pools", row)
    BY FreshIPs
  <2>3. Inserts(s, "domain_pools", row) /\ Begin(r, Ask("AssignDomainIP", by(p)), <<s>>)
    BY <2>1 DEF Inserts
  <2> HIDE DEF row, s
  <2>4. QED
    BY <2>2, <2>3, OneInsert
<1>3. QED
  BY <1>1, <1>2 DEF AssignDomainIP

\* Every live row of a table.
LEMMA OneDeleteAll ==
  ASSUME RecordsInv, NEW r \in Requests, NEW kind, kind # "none", NEW on, NEW t \in Tables \ {"config"},
         Begin(r, AskDelete(kind, on, t, Live(t)), <<Purge(t, All)>>)
  PROVE  Started(r)
<1> DEFINE S == Live(t)
<1>1. S \in SUBSET db[t] /\ DOMAIN All \subseteq Fixed(t) /\ \A x \in S : Fits(x, All)
  BY NothingFits DEF Live, All
<1>2. Begin(r, AskDelete(kind, on, t, S), <<Purge(t, All)>>)
  OBVIOUS
<1> HIDE DEF S
<1>3. QED
  BY <1>1, <1>2, OneDelete

LEMMA StartedUnassignDomainIP ==
  ASSUME RecordsInv, NEW r \in Requests, UnassignDomainIP(r)
  PROVE  Started(r)
<1>1. CASE \E ip \in Addresses :
             Begin(r, AskDelete("UnassignDomainIP", ip, "domain_ips", Select("domain_ips", [ip |-> ip])),
                   <<Purge("domain_ips", [ip |-> ip])>>)
  <2>1. PICK ip \in Addresses :
          Begin(r, AskDelete("UnassignDomainIP", ip, "domain_ips", Select("domain_ips", [ip |-> ip])),
                <<Purge("domain_ips", [ip |-> ip])>>)
    BY <1>1
  <2> DEFINE w == [ip |-> ip]
             S == Select("domain_ips", w)
  <2>2. S \in SUBSET db["domain_ips"] /\ (\A x \in S : Fits(x, w)) /\ DOMAIN w \subseteq Fixed("domain_ips")
    BY IPColumns DEF Select, Live
  <2>3. Begin(r, AskDelete("UnassignDomainIP", ip, "domain_ips", S), <<Purge("domain_ips", w)>>)
    BY <2>1
  <2> HIDE DEF S, w
  <2>4. QED
    BY <2>2, <2>3, IPColumns, OneDelete
<1>2. CASE Begin(r, AskDelete("UnassignDomainIP", "all", "domain_ips", Live("domain_ips")),
                 <<Purge("domain_ips", All)>>)
  BY <1>2, IPColumns, OneDeleteAll
<1>3. CASE Begin(r, AskDelete("UnassignDomainIP", "pool", "domain_pools", Live("domain_pools")),
                 <<Purge("domain_pools", All)>>)
  BY <1>3, IPColumns, OneDeleteAll
<1>4. QED
  BY <1>1, <1>2, <1>3 DEF UnassignDomainIP

\* Inserts into one table.
PutsInto(r, t, f, n) == ArePuts(r, f, n) /\ \A i \in 1..n : f[i].table = t /\ Fresh(r, t, f[i].row)

LEMMA DoesPuts ==
  ASSUME NEW r, NEW a, NEW t, NEW f, NEW n, PutsInto(r, t, f, n)
  PROVE  Does(r, a, f, WillOf(r, f), IdsOf(r, f)) /\ \A g \in IdsOf(r, f) : g[1] = t
<1>1. /\ Program(r, f) /\ \A s \in Elements(f) : s.do = "put"
      /\ \A p \in WillOf(r, f) : \E i \in 1..n : p = Store(f[i].table, f[i].row)
      /\ IdsOf(r, f) = {Key(f[i].table, f[i].row) : i \in 1..n}
  BY ManyPuts DEF PutsInto
<1>2. \A i \in 1..n : Meant(r, a, Store(t, f[i].row))
  BY MeantFresh DEF PutsInto
<1>3. Purposeful(r, a, f)
  BY <1>1, <1>2 DEF PutsInto, Purposeful, Special
<1>4. \A g \in IdsOf(r, f) : g[1] = t
  BY <1>1 DEF PutsInto, Key
<1>5. QED
  BY <1>3, <1>4, PurposefulDoes

LEMMA StartedCreatePool ==
  ASSUME RecordsInv, NEW r \in Requests, CreatePool(r)
  PROVE  Started(r)
<1>0. PICK ips \in SUBSET Addresses : \E order \in SetToSeqs(ips) :
        Begin(r, Ask("CreatePool", r),
              <<TryInsert("ip_pools", IPPool(<<r, 1>>, r))>> \o
              [i \in DOMAIN order |-> TryInsert("ip_pool_ips", IPPoolIP(<<r, order[i]>>, <<r, 1>>, order[i]))])
  BY DEF CreatePool, ForEach
<1>1. PICK order \in SetToSeqs(ips) :
        Begin(r, Ask("CreatePool", r),
              <<TryInsert("ip_pools", IPPool(<<r, 1>>, r))>> \o
              [i \in DOMAIN order |-> TryInsert("ip_pool_ips", IPPoolIP(<<r, order[i]>>, <<r, 1>>, order[i]))])
  BY <1>0
<1> DEFINE a == Ask("CreatePool", r)
           n == Cardinality(ips)
           x == IPPool(<<r, 1>>, r)
           s == TryInsert("ip_pools", x)
           row(i) == IPPoolIP(<<r, order[i]>>, <<r, 1>>, order[i])
           f == [i \in 1..n |-> TryInsert("ip_pool_ips", row(i))]
<1>2. /\ n \in Nat /\ order \in [1..n -> ips] /\ DOMAIN order = 1..n
      /\ \A i, j \in 1..n : i # j => order[i] # order[j]
  <2>1. IsFiniteSet(ips)
    BY IPsAssumption, FS_Subset
  <2>2. QED
    BY <2>1, OneByOne
<1>3. Plain(a) /\ Begin(r, a, <<s>> \o f)
  BY <1>1, <1>2, AskIs
<1>4. Fresh(r, "ip_pools", x) /\ Inserts(s, "ip_pools", x) /\ Key("ip_pools", x)[1] = "ip_pools"
  BY FreshIPs DEF Inserts, Key
<1>5. PutsInto(r, "ip_pool_ips", f, n)
  <2>1. \A i \in 1..n : Fresh(r, "ip_pool_ips", row(i)) /\ row(i).id = <<r, order[i]>> /\ by(row(i)) = r
    <3>1. SUFFICES ASSUME NEW i \in 1..n
                   PROVE  Fresh(r, "ip_pool_ips", row(i)) /\ row(i).id = <<r, order[i]>> /\ by(row(i)) = r
      OBVIOUS
    <3>2. Fresh(r, "ip_pool_ips", row(i))
      BY FreshIPs
    <3>3. row(i).id = <<r, order[i]>> /\ by(row(i)) = r
      BY DEF IPPoolIP, by
    <3>4. QED
      BY <3>2, <3>3
  <2>2. \A i \in 1..n : f[i].do = "put" /\ f[i].table = "ip_pool_ips" /\ f[i].row = row(i)
    BY DEF TryInsert
  <2>3. IsList(f, n)
    BY <1>2 DEF IsList
  <2> HIDE DEF f, row
  <2>4. QED
    BY <1>2, <2>1, <2>2, <2>3 DEF PutsInto, ArePuts
<1> HIDE DEF a, x, s, f
<1>6. Does(r, a, <<s>>, {Store("ip_pools", x)}, {Key("ip_pools", x)})
  BY <1>4, DoesInsert
<1>7. Does(r, a, f, WillOf(r, f), IdsOf(r, f)) /\ \A g \in IdsOf(r, f) : g[1] = "ip_pool_ips"
  BY <1>5, DoesPuts
<1>8. {Key("ip_pools", x)} \cap IdsOf(r, f) = {}
  BY <1>4, <1>7
<1>9. Does(r, a, <<s>> \o f, {Store("ip_pools", x)} \cup WillOf(r, f), {Key("ip_pools", x)} \cup IdsOf(r, f))
  BY <1>6, <1>7, <1>8, DoesBoth
<1>10. QED
  BY <1>3, <1>9, StartsPlain

\* An address to add and one to remove, each sent or not.
AddsTo(r, p) ==
  {<< >>} \cup {<<TryInsert("ip_pool_ips", IPPoolIP(<<r, ip>>, p, ip))>> : ip \in Addresses}
RemovesFrom(p) ==
  {<< >>} \cup {<<Purge("ip_pool_ips", [pool |-> p, ip |-> ip])>> : ip \in Addresses}

LEMMA PoolAdds ==
  ASSUME NEW r, NEW a, NEW p, NEW q \in AddsTo(r, p)
  PROVE  \E V, J : /\ Does(r, a, q, V, J) /\ (\A g \in J : g[1] = "ip_pool_ips")
                   /\ \A e \in V : e.do = "put" => by(e.row) = r
<1>1. CASE q = << >>
  <2>1. Does(r, a, q, {}, {})
    BY <1>1, DoesNothing
  <2>2. QED
    BY <2>1
<1>2. CASE q \in {<<TryInsert("ip_pool_ips", IPPoolIP(<<r, ip>>, p, ip))>> : ip \in Addresses}
  <2>1. PICK ip \in Addresses : q = <<TryInsert("ip_pool_ips", IPPoolIP(<<r, ip>>, p, ip))>>
    BY <1>2
  <2> DEFINE x == IPPoolIP(<<r, ip>>, p, ip)
             t == TryInsert("ip_pool_ips", x)
             V == {Store("ip_pool_ips", x)}
             J == {Key("ip_pool_ips", x)}
  <2>2. Fresh(r, "ip_pool_ips", x) /\ Inserts(t, "ip_pool_ips", x) /\ by(x) = r
    BY FreshIPs DEF Inserts, by, IPPoolIP
  <2>3. \A g \in J : g[1] = "ip_pool_ips"
    BY DEF Key
  <2> HIDE DEF x, t
  <2>4. Does(r, a, <<t>>, V, J)
    BY <2>2, DoesInsert
  <2>5. \A e \in V : e.do = "put" => by(e.row) = r
    BY <2>2, StoreIs
  <2>6. q = <<t>>
    BY <2>1 DEF t, x
  <2> HIDE DEF V, J
  <2>7. QED
    BY <2>3, <2>4, <2>5, <2>6
<1>3. QED
  BY <1>1, <1>2 DEF AddsTo

LEMMA PoolRemoves ==
  ASSUME NEW r, NEW a, NEW p, NEW q \in RemovesFrom(p)
  PROVE  \E V : Does(r, a, q, V, {}) /\ \A e \in V : e.do # "put"
<1>1. CASE q = << >>
  <2>1. Does(r, a, q, {}, {})
    BY <1>1, DoesNothing
  <2>2. QED
    BY <2>1
<1>2. CASE q \in {<<Purge("ip_pool_ips", [pool |-> p, ip |-> ip])>> : ip \in Addresses}
  <2>1. PICK ip \in Addresses : q = <<Purge("ip_pool_ips", [pool |-> p, ip |-> ip])>>
    BY <1>2
  <2> DEFINE w == [pool |-> p, ip |-> ip]
             d == Purge("ip_pool_ips", w)
             V == {d}
  <2>2. DOMAIN w \subseteq Fixed("ip_pool_ips") /\ d.do # "put"
    BY IPColumns DEF Purge
  <2> HIDE DEF w
  <2>3. Does(r, a, <<d>>, V, {})
    BY <2>2, IPColumns, DoesPurge
  <2>4. q = <<d>>
    BY <2>1 DEF w
  <2>5. \A e \in V : e.do # "put"
    BY <2>2
  <2> HIDE DEF V, d
  <2>6. QED
    BY <2>3, <2>4, <2>5
<1>3. QED
  BY <1>1, <1>2 DEF RemovesFrom

LEMMA StartedUpdatePool ==
  ASSUME RecordsInv, NEW r \in Requests, UpdatePool(r)
  PROVE  Started(r)
<1>1. PICK p \in Live("ip_pools"), set \in {All, [name |-> r]} :
        \E add \in AddsTo(r, p.id), remove \in RemovesFrom(p.id) :
          Begin(r, AskSave("UpdatePool", by(p), "ip_pools", p, set),
                <<Save("ip_pools", With(p, set))>> \o add \o remove)
  BY DEF UpdatePool, AddsTo, RemovesFrom
<1>2. PICK add \in AddsTo(r, p.id), remove \in RemovesFrom(p.id) :
        Begin(r, AskSave("UpdatePool", by(p), "ip_pools", p, set),
              <<Save("ip_pools", With(p, set))>> \o add \o remove)
  BY <1>1
<1> DEFINE a == AskSave("UpdatePool", by(p), "ip_pools", p, set)
           row == With(p, set)
           s == Save("ip_pools", row)
           I == IF by(row) = r THEN {Key("ip_pools", row)} ELSE {}
<1>3. AskedToSave(a, "ip_pools", p, set) /\ Begin(r, a, (<<s>> \o add) \o remove)
  BY <1>2, AskSaveIs
<1>4. DOMAIN set \subseteq {"name"}
  BY DEF All
<1>5. Saves(s, "ip_pools", row) /\ \A g \in I : g[1] = "ip_pools"
  BY DEF Saves, Key
<1>6. Revised("ip_pools", p, set, row)
  BY <1>4, IPColumns, RevisedWith
<1> HIDE DEF row, s, a
<1>7. Does(r, a, <<s>>, {Store("ip_pools", row)}, I)
  BY <1>3, <1>5, <1>6, DoesSave
<1>8. PICK V, J : /\ Does(r, a, add, V, J) /\ (\A g \in J : g[1] = "ip_pool_ips")
                  /\ \A e \in V : e.do = "put" => by(e.row) = r
  BY PoolAdds
<1>9. PICK U : Does(r, a, remove, U, {}) /\ \A e \in U : e.do # "put"
  BY PoolRemoves
<1> HIDE DEF I
<1>10. I \cap J = {}
  BY <1>5, <1>8
<1>11. Does(r, a, <<s>> \o add, {Store("ip_pools", row)} \cup V, I \cup J)
  BY <1>7, <1>8, <1>10, DoesBoth
<1> DEFINE W == ({Store("ip_pools", row)} \cup V) \cup U
           b == <<s>> \o add
<1>12. (I \cup J) \cap {} = {} /\ Does(r, a, b, {Store("ip_pools", row)} \cup V, I \cup J)
  BY <1>11
<1> HIDE DEF b
<1>13. Does(r, a, b \o remove, W, (I \cup J) \cup {})
  BY <1>9, <1>12, DoesBoth
<1>14. Store("ip_pools", row) \in W /\ \A e \in W : e.do = "put" => by(e.row) = r \/ e = Store("ip_pools", row)
  BY <1>8, <1>9
<1>15. Begin(r, a, b \o remove)
  BY <1>3 DEF b
<1> HIDE DEF W
<1>16. QED
  BY <1>3, <1>6, <1>13, <1>14, <1>15, StartsSaving

LEMMA StartedDeletePool ==
  ASSUME RecordsInv, NEW r \in Requests, DeletePool(r)
  PROVE  Started(r)
<1>1. PICK p \in Live("ip_pools") :
        Begin(r, AskDelete("DeletePool", by(p), "ip_pools", {p}),
              <<Purge("ip_pool_ips", [pool |-> p.id]), Purge("ip_pools", [id |-> p.id])>>)
  BY DEF DeletePool
<1> DEFINE a == AskDelete("DeletePool", by(p), "ip_pools", {p})
           S == {p}
           w == [pool |-> p.id]
           v == [id |-> p.id]
           s == Purge("ip_pool_ips", w)
           u == Purge("ip_pools", v)
           W == {s} \cup {u}
<1>2. AskedToDelete(a, "ip_pools", S) /\ Begin(r, a, <<s, u>>) /\ S \in SUBSET db["ip_pools"]
  BY <1>1, AskDeleteIs DEF Live
<1>3. /\ DOMAIN w \subseteq Fixed("ip_pool_ips") /\ DOMAIN v \subseteq Fixed("ip_pools")
      /\ \A x \in S : Fits(x, v)
  BY IPColumns, TheColumns DEF Fits
<1> HIDE DEF a, S, w, v
<1>4. Deleting(s, "ip_pool_ips", w) /\ Deleting(u, "ip_pools", v)
  BY DeletingIs
<1>5. Does(r, a, <<s>>, {s}, {}) /\ Does(r, a, <<u>>, {u}, {})
  BY <1>3, IPColumns, DoesPurge
<1> HIDE DEF s, u
<1>6. (\E e \in W : Deleting(e, "ip_pools", v)) /\ \A e \in W : e.table = "ip_pools" => Deleting(e, "ip_pools", v)
  BY <1>4 DEF Deleting
<1>7. Does(r, a, <<s, u>>, {s} \cup {u}, {} \cup {})
  BY <1>5, DoesTwo
<1>8. Does(r, a, <<s, u>>, W, {})
  BY <1>7
<1> HIDE DEF W
<1>9. QED
  BY <1>2, <1>3, <1>6, <1>8, IPColumns, StartsDeleting

LEMMA StartedIPs ==
  ASSUME RecordsInv, NEW r \in Requests, IPHandlers(r)
  PROVE  Started(r)
BY StartedAssignDomainIP, StartedUnassignDomainIP, StartedCreatePool, StartedUpdatePool, StartedDeletePool
   DEF IPHandlers

----------------------------------------------------------------------------
(* Subaccounts.                                                            *)

LEMMA SubaccountColumns ==
  /\ "subaccounts" \in Tables \ {"config"} /\ "sending_limits" \in Tables \ {"config"}
  /\ Saved("subaccounts") = {"status", "features"} /\ Saved("sending_limits") = {"limit"}
BY TheTables DEF Saved, Schema

LEMMA FreshSubaccount ==
  ASSUME NEW r, NEW n, NEW x, NEW limit
  PROVE  /\ Fresh(r, "subaccounts", Subaccount(<<r, n>>))
         /\ Fresh(r, "sending_limits", SendingLimit(<<r, n>>, x, limit))
<1>1. Fresh(r, "subaccounts", Subaccount(<<r, n>>))
  BY TheTables DEF Fresh, Subaccount, Columns, Fixed, Saved, Marked, Schema, by
<1>2. Fresh(r, "sending_limits", SendingLimit(<<r, n>>, x, limit))
  BY TheTables DEF Fresh, SendingLimit, Columns, Fixed, Saved, Marked, Schema, by
<1>3. QED
  BY <1>1, <1>2

LEMMA StartedSaveSubaccount ==
  ASSUME RecordsInv, NEW r \in Requests, NEW endpoint, endpoint # "none", NEW x \in Live("subaccounts"),
         NEW set, DOMAIN set \subseteq Saved("subaccounts"), SaveSubaccount(r, endpoint, x, set)
  PROVE  Started(r)
<1>1. Begin(r, AskSave(endpoint, by(x), "subaccounts", x, set), <<Save("subaccounts", With(x, set))>>)
  BY DEF SaveSubaccount
<1>2. Revised("subaccounts", x, set, With(x, set))
  BY SubaccountColumns, RevisedWith
<1>3. Saves(Save("subaccounts", With(x, set)), "subaccounts", With(x, set))
  BY DEF Saves
<1>4. QED
  BY <1>1, <1>2, <1>3, OneSave

LEMMA StartedSetSendingLimit ==
  ASSUME RecordsInv, NEW r \in Requests, SetSendingLimit(r)
  PROVE  Started(r)
<1>1. PICK x \in Live("subaccounts") :
        \/ \E l \in Live("sending_limits") :
             Begin(r, AskSave("SetSendingLimit", by(x), "sending_limits", l, [limit |-> r]),
                   <<Save("sending_limits", [l EXCEPT !.limit = r])>>)
        \/ Begin(r, Ask("SetSendingLimit", by(x)),
                 <<TryInsert("sending_limits", SendingLimit(<<r, 1>>, x.id, r))>>)
  BY DEF SetSendingLimit, limitOf, Select
<1>2. ASSUME NEW l \in Live("sending_limits"),
             Begin(r, AskSave("SetSendingLimit", by(x), "sending_limits", l, [limit |-> r]),
                   <<Save("sending_limits", [l EXCEPT !.limit = r])>>)
      PROVE  Started(r)
  <2> DEFINE set == [limit |-> r]
             row == [l EXCEPT !.limit = r]
             s == Save("sending_limits", row)
  <2>1. Begin(r, AskSave("SetSendingLimit", by(x), "sending_limits", l, set), <<s>>)
    BY <1>2
  <2>2. /\ DOMAIN set = {"limit"} /\ set["limit"] = r /\ row = [l EXCEPT !["limit"] = r]
        /\ "limit" \in Saved("sending_limits")
    BY SubaccountColumns
  <2>3. Saves(s, "sending_limits", row)
    BY DEF Saves
  <2> HIDE DEF set, row, s
  <2>4. Revised("sending_limits", l, set, row)
    BY <2>2, SubaccountColumns, RevisedColumn
  <2>5. QED
    BY <2>1, <2>3, <2>4, OneSave
<1>3. ASSUME Begin(r, Ask("SetSendingLimit", by(x)),
                   <<TryInsert("sending_limits", SendingLimit(<<r, 1>>, x.id, r))>>)
      PROVE  Started(r)
  <2> DEFINE row == SendingLimit(<<r, 1>>, x.id, r)
             s == TryInsert("sending_limits", row)
  <2>1. Fresh(r, "sending_limits", row)
    BY FreshSubaccount
  <2>2. Inserts(s, "sending_limits", row) /\ Begin(r, Ask("SetSendingLimit", by(x)), <<s>>)
    BY <1>3 DEF Inserts
  <2> HIDE DEF row, s
  <2>3. QED
    BY <2>1, <2>2, OneInsert
<1>4. QED
  BY <1>1, <1>2, <1>3

LEMMA StartedSubaccounts ==
  ASSUME RecordsInv, NEW r \in Requests, SubaccountHandlers(r)
  PROVE  Started(r)
<1>1. CASE CreateSubaccount(r)
  <2> DEFINE row == Subaccount(<<r, 1>>)
             s == Insert("subaccounts", row)
  <2>1. Fresh(r, "subaccounts", row)
    BY FreshSubaccount
  <2>2. Inserts(s, "subaccounts", row) /\ Begin(r, Ask("CreateSubaccount", r), <<s>>)
    BY <1>1 DEF Inserts, CreateSubaccount
  <2> HIDE DEF row, s
  <2>3. QED
    BY <2>1, <2>2, OneInsert
<1>2. CASE DeleteSubaccount(r)
  <2>1. PICK x \in Live("subaccounts") :
          Begin(r, AskDelete("DeleteSubaccount", by(x), "subaccounts", {x}),
                <<Purge("subaccounts", [id |-> x.id])>>)
    BY <1>2 DEF DeleteSubaccount
  <2>2. QED
    BY <2>1, SubaccountColumns, OneDeleteById
<1>3. CASE UpdateFeatures(r) \/ DisableSubaccount(r) \/ EnableSubaccount(r)
  <2>1. PICK x \in Live("subaccounts"), endpoint \in {"DisableSubaccount", "EnableSubaccount", "UpdateFeatures"},
             set \in {[status |-> "disabled"], [status |-> "open"], [features |-> r]} :
          SaveSubaccount(r, endpoint, x, set)
    BY <1>3 DEF UpdateFeatures, DisableSubaccount, EnableSubaccount
  <2>2. endpoint # "none" /\ DOMAIN set \subseteq Saved("subaccounts")
    BY SubaccountColumns
  <2>3. QED
    BY <2>1, <2>2, StartedSaveSubaccount
<1>4. CASE RemoveSendingLimit(r)
  <2>1. PICK x \in Live("sending_limits") :
          Begin(r, AskDelete("RemoveSendingLimit", x.subaccount[1], "sending_limits", {x}),
                <<Purge("sending_limits", [id |-> x.id])>>)
    BY <1>4 DEF RemoveSendingLimit
  <2>2. QED
    BY <2>1, SubaccountColumns, OneDeleteById
<1>5. QED
  BY <1>1, <1>2, <1>3, <1>4, StartedSetSendingLimit DEF SubaccountHandlers

----------------------------------------------------------------------------
(* API keys and the allowlist.                                             *)

LEMMA KeyColumns ==
  /\ "api_keys" \in Tables \ {"config"} /\ "managed_api_keys" \in Tables \ {"config"}
  /\ "ip_allowlist_entries" \in Tables \ {"config"}
  /\ Saved("api_keys") = {"secret"} /\ Saved("ip_allowlist_entries") = {"description"}
BY TheTables DEF Saved, Schema

LEMMA FreshKey ==
  ASSUME NEW r, NEW n, NEW value
  PROVE  /\ Fresh(r, "api_keys", APIKey(<<r, n>>)) /\ Fresh(r, "managed_api_keys", ManagedAPIKey(<<r, n>>, value))
         /\ Fresh(r, "ip_allowlist_entries", IPAllowlistEntry(<<r, n>>, value))
<1>1. Fresh(r, "api_keys", APIKey(<<r, n>>))
  BY TheTables DEF Fresh, APIKey, Columns, Fixed, Saved, Marked, Schema, by
<1>2. Fresh(r, "managed_api_keys", ManagedAPIKey(<<r, n>>, value))
  BY TheTables DEF Fresh, ManagedAPIKey, Columns, Fixed, Saved, Marked, Schema, by
<1>3. Fresh(r, "ip_allowlist_entries", IPAllowlistEntry(<<r, n>>, value))
  BY TheTables DEF Fresh, IPAllowlistEntry, Columns, Fixed, Saved, Marked, Schema, by
<1>4. QED
  BY <1>1, <1>2, <1>3

LEMMA StartedAPIKeys ==
  ASSUME RecordsInv, NEW r \in Requests, CreateKey(r) \/ DeleteKey(r) \/ RegenerateKey(r)
  PROVE  Started(r)
<1>1. CASE CreateKey(r)
  <2> DEFINE row == APIKey(<<r, 1>>)
             s == Insert("api_keys", row)
  <2>1. Fresh(r, "api_keys", row)
    BY FreshKey
  <2>2. Inserts(s, "api_keys", row) /\ Begin(r, Ask("CreateKey", r), <<s>>)
    BY <1>1 DEF Inserts, CreateKey
  <2> HIDE DEF row, s
  <2>3. QED
    BY <2>1, <2>2, OneInsert
<1>2. CASE DeleteKey(r)
  <2>1. PICK x \in Live("api_keys") :
          Begin(r, AskDelete("DeleteKey", by(x), "api_keys", {x}), <<Purge("api_keys", [id |-> x.id])>>)
    BY <1>2 DEF DeleteKey
  <2>2. QED
    BY <2>1, KeyColumns, OneDeleteById
<1>3. CASE RegenerateKey(r)
  <2>1. PICK x \in Live("api_keys") :
          Begin(r, AskSave("RegenerateKey", by(x), "api_keys", x, [secret |-> r]),
                <<SaveOrFail("api_keys", [x EXCEPT !.secret = r])>>)
    BY <1>3 DEF RegenerateKey
  <2> DEFINE set == [secret |-> r]
             row == [x EXCEPT !.secret = r]
             s == SaveOrFail("api_keys", row)
  <2>2. Begin(r, AskSave("RegenerateKey", by(x), "api_keys", x, set), <<s>>)
    BY <2>1
  <2>3. /\ DOMAIN set = {"secret"} /\ set["secret"] = r /\ row = [x EXCEPT !["secret"] = r]
        /\ "secret" \in Saved("api_keys")
    BY KeyColumns
  <2>4. Saves(s, "api_keys", row)
    BY DEF Saves
  <2> HIDE DEF set, row, s
  <2>5. Revised("api_keys", x, set, row)
    BY <2>3, KeyColumns, RevisedColumn
  <2>6. QED
    BY <2>2, <2>4, <2>5, OneSave
<1>4. QED
  BY <1>1, <1>2, <1>3

LEMMA StartedCreateManagedKey ==
  ASSUME RecordsInv, NEW r \in Requests, CreateManagedKey(r)
  PROVE  Started(r)
<1>1. PICK value \in KeyValues :
        Begin(r, Ask("CreateManagedKey", "managed"), <<[do |-> "issue", value |-> value, retry |-> TRUE]>>)
  BY DEF CreateManagedKey
<1> DEFINE a == Ask("CreateManagedKey", "managed")
           s == [do |-> "issue", value |-> value, retry |-> TRUE]
<1>2. Plain(a) /\ Begin(r, a, <<s>>) /\ s.do = "issue"
  BY <1>1, AskIs
<1> HIDE DEF a, s
<1>3. Piece(r, s)
  BY <1>2 DEF Piece, Statement
<1>4. Leads(r, s) = {Store("managed_api_keys", ManagedAPIKey(<<r, 1>>, v)) : v \in {s.value} \cup KeyValues}
  BY <1>2 DEF Leads, Branches, Prims, Simple
<1>5. \A v : Meant(r, a, Store("managed_api_keys", ManagedAPIKey(<<r, 1>>, v)))
  BY FreshKey, MeantFresh
<1>6. Purposeful(r, a, <<s>>)
  BY <1>2, <1>3, <1>4, <1>5, PurposefulOne DEF Plain
<1>7. QED
  BY <1>2, <1>6, PurposefulDoes, StartsPlain

LEMMA StartedEntries ==
  ASSUME RecordsInv, NEW r \in Requests, AddEntry(r) \/ UpdateEntry(r) \/ DeleteEntry(r) \/ DeleteManagedKey(r)
  PROVE  Started(r)
<1>1. CASE AddEntry(r)
  <2>1. PICK ip \in AllowedAddresses :
          Begin(r, Ask("AddEntry", ip), <<Insert("ip_allowlist_entries", IPAllowlistEntry(<<r, 1>>, ip))>>)
    BY <1>1 DEF AddEntry
  <2> DEFINE row == IPAllowlistEntry(<<r, 1>>, ip)
             s == Insert("ip_allowlist_entries", row)
  <2>2. Fresh(r, "ip_allowlist_entries", row)
    BY FreshKey
  <2>3. Inserts(s, "ip_allowlist_entries", row) /\ Begin(r, Ask("AddEntry", ip), <<s>>)
    BY <2>1 DEF Inserts
  <2> HIDE DEF row, s
  <2>4. QED
    BY <2>2, <2>3, OneInsert
<1>2. CASE UpdateEntry(r)
  <2>1. PICK x \in Live("ip_allowlist_entries") :
          Begin(r, AskSave("UpdateEntry", x.address, "ip_allowlist_entries", x, [description |-> r]),
                <<SaveOrFail("ip_allowlist_entries", [x EXCEPT !.description = r])>>)
    BY <1>2 DEF UpdateEntry
  <2> DEFINE set == [description |-> r]
             row == [x EXCEPT !.description = r]
             s == SaveOrFail("ip_allowlist_entries", row)
  <2>2. Begin(r, AskSave("UpdateEntry", x.address, "ip_allowlist_entries", x, set), <<s>>)
    BY <2>1
  <2>3. /\ DOMAIN set = {"description"} /\ set["description"] = r /\ row = [x EXCEPT !["description"] = r]
        /\ "description" \in Saved("ip_allowlist_entries")
    BY KeyColumns
  <2>4. Saves(s, "ip_allowlist_entries", row)
    BY DEF Saves
  <2> HIDE DEF set, row, s
  <2>5. Revised("ip_allowlist_entries", x, set, row)
    BY <2>3, KeyColumns, RevisedColumn
  <2>6. QED
    BY <2>2, <2>4, <2>5, OneSave
<1>3. CASE DeleteEntry(r)
  <2>1. PICK x \in Live("ip_allowlist_entries") :
          Begin(r, AskDelete("DeleteEntry", x.address, "ip_allowlist_entries", {x}),
                <<Purge("ip_allowlist_entries", [id |-> x.id])>>)
    BY <1>3 DEF DeleteEntry
  <2>2. QED
    BY <2>1, KeyColumns, OneDeleteById
<1>4. CASE DeleteManagedKey(r)
  <2>1. PICK x \in Live("managed_api_keys") :
          Begin(r, AskDelete("DeleteManagedKey", "managed", "managed_api_keys", {x}),
                <<Purge("managed_api_keys", [id |-> x.id])>>)
    BY <1>4 DEF DeleteManagedKey
  <2>2. QED
    BY <2>1, KeyColumns, OneDeleteById
<1>5. QED
  BY <1>1, <1>2, <1>3, <1>4

LEMMA StartedKeys ==
  ASSUME RecordsInv, NEW r \in Requests, KeyHandlers(r)
  PROVE  Started(r)
BY StartedAPIKeys, StartedCreateManagedKey, StartedEntries DEF KeyHandlers

----------------------------------------------------------------------------
(* Tags.                                                                   *)

LEMMA TagColumns ==
  /\ "tags" \in Tables \ {"config"} /\ "tag" \in Fixed("tags")
  /\ Marked("tags") \ {"dead"} = {"lastSeen", "description"}
BY TheTables DEF Fixed, Marked, Schema

LEMMA FreshTag ==
  ASSUME NEW r, NEW n, NEW tag
  PROVE  /\ Fresh(r, "tags", Tag(<<r, n>>, tag)) /\ Tag(<<r, n>>, tag).id = <<r, n>>
         /\ Tag(<<r, n>>, tag).lastSeen = r
BY TheTables DEF Fresh, Tag, Columns, Fixed, Saved, Marked, Schema, by

LEMMA EnsureLeads ==
  ASSUME NEW r, NEW a, NEW s, s.do = "ensure", Fresh(r, "tags", s.row), s.row.lastSeen = r
  PROVE  /\ Piece(r, s) /\ Ids(r, s) = {Key("tags", s.row)} /\ \A p \in Leads(r, s) : Meant(r, a, p)
<1> DEFINE row == s.row
           w == [tag |-> row.tag]
           set == [lastSeen |-> r]
           u == Update("tags", w, set)
           p == Store("tags", row)
<1>1. Piece(r, s)
  BY DEF Piece, Statement, Fresh, by
<1>2. Leads(r, s) = {p, u}
  BY DEF Leads, Branches, Prims, Simple
<1>3. DOMAIN set \subseteq Marked("tags") \ {"dead"} /\ u.do = "update"
  BY TagColumns DEF Update
<1> HIDE DEF w, set
<1>4. Meant(r, a, u) /\ Meant(r, a, p)
  BY <1>3, TagColumns, MeantMark, MeantFresh
<1>5. p.do = "put" /\ p.table = "tags" /\ p.row = row /\ by(row) = r
  BY StoreIs DEF Fresh
<1> HIDE DEF u, p, row
<1>6. Ids(r, s) = {<<"tags", row.id>>}
  <2>1. {e \in Leads(r, s) : e.do = "put" /\ by(e.row) = r} = {p}
    BY <1>2, <1>3, <1>5
  <2>2. Ids(r, s) = {<<e.table, e.row.id>> : e \in {e \in Leads(r, s) : e.do = "put" /\ by(e.row) = r}}
    BY DEF Ids
  <2>3. QED
    BY <2>1, <2>2, <1>5
<1>7. QED
  BY <1>1, <1>2, <1>4, <1>6 DEF Key, row

LEMMA StartedEnsureTags ==
  ASSUME RecordsInv, NEW r \in Requests, EnsureTags(r)
  PROVE  Started(r)
<1>1. PICK tags \in TagLists :
        Begin(r, With(Ask("EnsureTags", "all"), [urls |-> tags]),
              [i \in DOMAIN tags |-> [do |-> "ensure", row |-> Tag(<<r, i>>, tags[i])]])
  BY DEF EnsureTags
<1> DEFINE a == With(Ask("EnsureTags", "all"), [urls |-> tags])
           n == Len(tags)
           f == [i \in 1..n |-> [do |-> "ensure", row |-> Tag(<<r, i>>, tags[i])]]
<1>2. n \in Nat /\ DOMAIN tags = 1..n
  BY TagRegistryAssumption
<1>3. Begin(r, a, f) /\ Plain(a)
  BY <1>1, <1>2, AskUrlsIs
<1>4. IsList(f, n)
  BY <1>2 DEF IsList
<1>5. ASSUME NEW i \in 1..n
      PROVE  Piece(r, f[i]) /\ (\A g \in Ids(r, f[i]) : g[2][2] = i) /\ \A p \in Leads(r, f[i]) : Meant(r, a, p)
  <2>1. /\ f[i].do = "ensure" /\ Fresh(r, "tags", f[i].row) /\ f[i].row.lastSeen = r
        /\ f[i].row.id = <<r, i>>
    BY FreshTag
  <2> HIDE DEF f, a
  <2>2. /\ Piece(r, f[i]) /\ Ids(r, f[i]) = {Key("tags", f[i].row)}
        /\ \A p \in Leads(r, f[i]) : Meant(r, a, p)
    BY <2>1, EnsureLeads
  <2>3. Key("tags", f[i].row)[2][2] = i
    BY <2>1 DEF Key
  <2>4. QED
    BY <2>2, <2>3
<1> HIDE DEF a, f, n
<1>6. Numbered(r, a, f, n)
  BY <1>3, <1>4, <1>5 DEF Numbered, Plain
<1>7. Does(r, a, f, WillOf(r, f), IdsOf(r, f))
  BY <1>6, PurposefulList, PurposefulDoes
<1>8. QED
  BY <1>3, <1>7, StartsPlain

LEMMA StartedTags ==
  ASSUME RecordsInv, NEW r \in Requests, TagHandlers(r)
  PROVE  Started(r)
<1>1. CASE UpdateTag(r) \/ V1UpdateTag(r)
  <2> DEFINE set == [description |-> r]
  <2>1. PICK x \in Live("tags") :
          \/ Begin(r, Ask("UpdateTag", x.tag), <<Update("tags", [id |-> x.id], set)>>)
          \/ Begin(r, Ask("V1UpdateTag", x.tag), <<Update("tags", [tag |-> x.tag], set)>>)
    BY <1>1 DEF UpdateTag, V1UpdateTag
  <2>2. DOMAIN set \subseteq Marked("tags") \ {"dead"}
    BY TagColumns
  <2> HIDE DEF set
  <2>3. QED
    BY <2>1, <2>2, TagColumns, OneMark
<1>2. CASE DeleteTag(r)
  <2>1. PICK x \in Live("tags") :
          Begin(r, AskDelete("DeleteTag", x.tag, "tags", {x}), <<Purge("tags", [id |-> x.id])>>)
    BY <1>2 DEF DeleteTag
  <2>2. QED
    BY <2>1, TagColumns, OneDeleteById
<1>3. CASE V1DeleteTag(r)
  <2>1. PICK x \in Live("tags") :
          Begin(r, AskDelete("V1DeleteTag", x.tag, "tags", {x}), <<Purge("tags", [tag |-> x.tag])>>)
    BY <1>3 DEF V1DeleteTag
  <2> DEFINE w == [tag |-> x.tag]
             S == {x}
  <2>2. /\ DOMAIN w \subseteq Fixed("tags") /\ (\A y \in S : Fits(y, w)) /\ S \in SUBSET db["tags"]
        /\ Begin(r, AskDelete("V1DeleteTag", x.tag, "tags", S), <<Purge("tags", w)>>)
    BY <2>1, TagColumns DEF Fits, Live
  <2> HIDE DEF w, S
  <2>3. QED
    BY <2>2, TagColumns, OneDelete
<1>4. QED
  BY <1>1, <1>2, <1>3, StartedEnsureTags DEF TagHandlers

----------------------------------------------------------------------------
(* Routes.                                                                 *)

LEMMA StartedRoutes ==
  ASSUME RecordsInv, NEW r \in Requests, RouteHandlers(r)
  PROVE  Started(r)
<1>0. "routes" \in Tables \ {"config"} /\ Saved("routes") = {"priority", "expression", "stop"}
  BY TheTables DEF Saved, Schema
<1>1. CASE CreateRoute(r)
  <2> DEFINE at == Cardinality({s \in Requests : asked[s] # NotAsked})
  <2>1. PICK p \in Priorities, e \in Expressions, stop \in BOOLEAN :
          Begin(r, Ask("CreateRoute", r), <<Insert("routes", Route(<<r, 1>>, at, p, e, stop))>>)
    BY <1>1 DEF CreateRoute
  <2> HIDE DEF at
  <2> DEFINE row == Route(<<r, 1>>, at, p, e, stop)
             s == Insert("routes", row)
  <2>2. Fresh(r, "routes", row)
    BY TheTables DEF Fresh, Route, Columns, Fixed, Saved, Marked, Schema, by
  <2>3. Inserts(s, "routes", row) /\ Begin(r, Ask("CreateRoute", r), <<s>>)
    BY <2>1 DEF Inserts
  <2> HIDE DEF row, s
  <2>4. QED
    BY <2>2, <2>3, OneInsert
<1>2. CASE UpdateRoute(r)
  <2>1. PICK x \in Live("routes"),
             set \in [priority : Priorities] \cup [expression : Expressions] \cup [stop : BOOLEAN] :
          Begin(r, AskSave("UpdateRoute", by(x), "routes", x, set), <<SaveOrFail("routes", With(x, set))>>)
    BY <1>2 DEF UpdateRoute
  <2>2. DOMAIN set \subseteq Saved("routes")
    BY <1>0
  <2>3. Revised("routes", x, set, With(x, set))
    BY <1>0, <2>2, RevisedWith
  <2>4. Saves(SaveOrFail("routes", With(x, set)), "routes", With(x, set))
    BY DEF Saves
  <2>5. QED
    BY <2>1, <2>3, <2>4, OneSave
<1>3. CASE DeleteRoute(r)
  <2>1. PICK x \in Live("routes") :
          Begin(r, AskDelete("DeleteRoute", by(x), "routes", {x}), <<Purge("routes", [id |-> x.id])>>)
    BY <1>3 DEF DeleteRoute
  <2>2. QED
    BY <1>0, <2>1, OneDeleteById
<1>4. QED
  BY <1>1, <1>2, <1>3 DEF RouteHandlers

----------------------------------------------------------------------------
(* Every handler begins soundly.                                           *)

LEMMA ArriveStarts ==
  ASSUME RecordsInv, NEW r \in Requests, Arrive(r)
  PROVE  Started(r)
<1>1. ASSUME ResetAll(r, resetTables[scene]) PROVE Started(r)
  <2>1. resetTables[scene] \in Seq(Tables \ {"config"})
    BY ServiceAssumption, ResetTablesAre DEF Arrive
  <2>2. QED
    BY <1>1, <2>1, StartedResetAll
<1>2. CASE TriggerWebhook(r) \/ UpdateAccountWebhook(r) \/ RegenerateSigningKey(r)
  BY <1>2, StartedTriggerWebhook, StartedAccountWebhooks, StartedRegenerateSigningKey
<1>3. QED
  BY <1>1, <1>2, StartedTemplates, StartedWebhooks, StartedDomains, StartedResetDomain, StartedIPs,
     StartedSubaccounts, StartedKeys, StartedTags, StartedRoutes, StartedUpdateConfig
     DEF Arrive

----------------------------------------------------------------------------
(* The rows at the start.                                                  *)

SownTable(t, R) ==
  /\ IsFiniteSet(R) /\ \A x \in R : DOMAIN x = Columns(t) /\ by(x) = "seed"
  /\ (\A x, y \in R : x.id = y.id => x = y) /\ Indexed(R, t)
Sown(d) == /\ DOMAIN d = Tables /\ d["config"] = {Config}
           /\ \A t \in Tables \ {"config"} : SownTable(t, d[t])

LEMMA SownNone ==
  ASSUME NEW t
  PROVE  SownTable(t, {})
BY FS_EmptySet DEF SownTable, Indexed

LEMMA SownOne ==
  ASSUME NEW t, NEW x, Fresh("seed", t, x)
  PROVE  SownTable(t, {x})
BY FS_Singleton DEF SownTable, Indexed, Fresh

LEMMA NoRowsSown == Sown(NoRows)
<1>1. DOMAIN NoRows = Tables /\ NoRows["config"] = {Config} /\ \A t \in Tables \ {"config"} : NoRows[t] = {}
  BY TheTables DEF NoRows
<1>2. QED
  BY <1>1, SownNone DEF Sown

LEMMA SownWith ==
  ASSUME NEW d, Sown(d), NEW t \in Tables \ {"config"}, NEW R, SownTable(t, R), NEW e, e = [d EXCEPT ![t] = R]
  PROVE  Sown(e)
<1>1. DOMAIN e = Tables /\ e["config"] = d["config"] /\ e[t] = R /\ \A u \in Tables \ {t} : e[u] = d[u]
  BY TheTables DEF Sown
<1>2. QED
  BY <1>1 DEF Sown

LEMMA SownRow ==
  ASSUME NEW d, Sown(d), NEW t, NEW x, Fresh("seed", t, x), NEW e, e = [d EXCEPT ![t] = {x}]
  PROVE  Sown(e)
<1> DEFINE R == {x}
<1>1. SownTable(t, R) /\ e = [d EXCEPT ![t] = R] /\ t \in Tables \ {"config"}
  BY SownOne DEF Fresh
<1> HIDE DEF R
<1>2. QED
  BY <1>1, SownWith

LEMMA TemplatesSown ==
  ASSUME NEW d \in TemplateSeeds
  PROVE  Sown(d)
<1> DEFINE name == CHOOSE n \in TemplateNames : TRUE
           tag  == CHOOSE v \in VersionTags : TRUE
           x == Template(<<"seed", 1>>, name)
           y == Version(<<"seed", 2>>, <<"seed", 1>>, tag, TRUE)
           e == [NoRows EXCEPT !["templates"] = {x}]
           f == [e EXCEPT !["template_versions"] = {y}]
<1>1. d = NoRows \/ d = f
  BY DEF TemplateSeeds
<1>2. Fresh("seed", "templates", x) /\ Fresh("seed", "template_versions", y)
  BY FreshTemplate, FreshVersion
<1>3. e = [NoRows EXCEPT !["templates"] = {x}] /\ f = [e EXCEPT !["template_versions"] = {y}]
  OBVIOUS
<1> HIDE DEF x, y, e, f
<1>4. Sown(e)
  BY <1>2, <1>3, NoRowsSown, SownRow
<1>5. Sown(f)
  BY <1>2, <1>3, <1>4, SownRow
<1>6. QED
  BY <1>1, <1>5, NoRowsSown

LEMMA FreshAccountWebhook ==
  ASSUME NEW r, NEW n, NEW url, NEW events
  PROVE  Fresh(r, "account_webhooks", AccountWebhook(<<r, n>>, url, events))
BY TheTables DEF Fresh, AccountWebhook, Columns, Fixed, Saved, Marked, Schema, by

LEMMA WebhooksSown ==
  ASSUME NEW d \in WebhookSeeds
  PROVE  Sown(d)
<1> DEFINE event == CHOOSE e \in EventTypes : TRUE
           url   == CHOOSE u \in Urls : TRUE
           x == DomainWebhook(<<"seed", 1>>, event, url)
           y == AccountWebhook(<<"seed", 1>>, url, {event})
           e == [NoRows EXCEPT !["domain_webhooks"] = {x}]
           f == [e EXCEPT !["account_webhooks"] = {y}]
<1>1. d = NoRows \/ d = f
  BY DEF WebhookSeeds
<1>2. Fresh("seed", "domain_webhooks", x) /\ Fresh("seed", "account_webhooks", y)
  BY FreshDomainWebhook, FreshAccountWebhook
<1>3. e = [NoRows EXCEPT !["domain_webhooks"] = {x}] /\ f = [e EXCEPT !["account_webhooks"] = {y}]
  OBVIOUS
<1> HIDE DEF x, y, e, f
<1>4. Sown(e)
  BY <1>2, <1>3, NoRowsSown, SownRow
<1>5. Sown(f)
  BY <1>2, <1>3, <1>4, SownRow
<1>6. QED
  BY <1>1, <1>5, NoRowsSown

LEMMA DomainsSown ==
  ASSUME NEW d \in DomainSeeds
  PROVE  Sown(d)
<1>1. CASE d = NoRows
  BY <1>1, NoRowsSown
<1>2. CASE d # NoRows
  <2>1. PICK name \in DomainNames, login \in Logins, v \in BOOLEAN : d = DomainSeed(name, login, v)
    BY <1>2 DEF DomainSeeds
  <2> DEFINE x == Domain(<<"seed", 1>>, name, v)
             y == DNSRecords(<<"seed", 1>>, <<"seed", 1>>, v)
             z == SMTPCredential(<<"seed", 1>>, name, login)
             e == [NoRows EXCEPT !["domains"] = {x}]
             f == [e EXCEPT !["dns_records"] = {y}]
  <2>2. /\ Fresh("seed", "domains", x) /\ Fresh("seed", "dns_records", y)
        /\ Fresh("seed", "smtp_credentials", z)
    BY FreshDomain
  <2>3. /\ e = [NoRows EXCEPT !["domains"] = {x}] /\ f = [e EXCEPT !["dns_records"] = {y}]
        /\ d = [f EXCEPT !["smtp_credentials"] = {z}]
    BY <2>1 DEF DomainSeed
  <2> HIDE DEF x, y, z, e, f
  <2>4. Sown(e)
    BY <2>2, <2>3, NoRowsSown, SownRow
  <2>5. Sown(f)
    BY <2>2, <2>3, <2>4, SownRow
  <2>6. QED
    BY <2>2, <2>3, <2>5, SownRow
<1>3. QED
  BY <1>1, <1>2

LEMMA DefaultIPsSown == SownTable("ips", DefaultIPs)
<1> DEFINE f == [ip \in Addresses |-> IP(<<"seed", ip>>, ip)]
<1>1. DefaultIPs = {f[ip] : ip \in Addresses}
  BY DEF DefaultIPs
<1>2. IsFiniteSet(DefaultIPs)
  <2> HIDE DEF f
  <2>1. QED
    BY <1>1, IPsAssumption, FiniteImage
<1>3. \A x \in DefaultIPs : \E ip \in Addresses :
         x = IP(<<"seed", ip>>, ip) /\ x.id = <<"seed", ip>> /\ x.ip = ip /\ x["ip"] = ip
  BY DEF DefaultIPs, IP
<1>4. \A ip : DOMAIN IP(<<"seed", ip>>, ip) = Columns("ips")
  BY TheTables DEF IP, Columns, Fixed, Saved, Marked, Schema
<1>5. UniqueIndex["ips"] = {{"ip"}}
  BY DEF UniqueIndex
<1>6. Indexed(DefaultIPs, "ips")
  <2> SUFFICES ASSUME NEW x \in DefaultIPs, NEW y \in DefaultIPs, x["ip"] = y["ip"]
               PROVE  x = y
    BY <1>5, Zenon DEF Indexed
  <2>1. PICK ip \in Addresses : x = IP(<<"seed", ip>>, ip) /\ x["ip"] = ip
    BY <1>3
  <2>2. PICK jp \in Addresses : y = IP(<<"seed", jp>>, jp) /\ y["ip"] = jp
    BY <1>3
  <2>3. QED
    BY <2>1, <2>2
<1>7. ASSUME NEW x \in DefaultIPs
      PROVE  DOMAIN x = Columns("ips") /\ by(x) = "seed"
  <2>1. PICK ip \in Addresses : x = IP(<<"seed", ip>>, ip) /\ x.id = <<"seed", ip>>
    BY <1>3
  <2>2. QED
    BY <2>1, <1>4 DEF by
<1>8. ASSUME NEW x \in DefaultIPs, NEW y \in DefaultIPs, x.id = y.id
      PROVE  x = y
  <2>1. PICK ip \in Addresses : x = IP(<<"seed", ip>>, ip) /\ x.id = <<"seed", ip>>
    BY <1>3
  <2>2. PICK jp \in Addresses : y = IP(<<"seed", jp>>, jp) /\ y.id = <<"seed", jp>>
    BY <1>3
  <2>3. ip = jp
    BY <1>8, <2>1, <2>2
  <2>4. QED
    BY <2>1, <2>2, <2>3
<1>9. QED
  BY <1>2, <1>6, <1>7, <1>8 DEF SownTable

LEMMA IPsSown ==
  ASSUME NEW d \in IPSeeds
  PROVE  Sown(d)
<1> DEFINE plain == [NoRows EXCEPT !["ips"] = DefaultIPs]
<1>1. d = plain \/ \E ip \in Addresses :
        d = [plain EXCEPT !.ip_pools = {IPPool(<<"seed", 1>>, "seed")},
                          !.ip_pool_ips = {IPPoolIP(<<"seed", ip>>, <<"seed", 1>>, ip)}]
  BY DEF IPSeeds
<1>2. plain = [NoRows EXCEPT !["ips"] = DefaultIPs]
  OBVIOUS
<1> HIDE DEF plain
<1>3. Sown(plain)
  BY <1>2, IPColumns, NoRowsSown, DefaultIPsSown, SownWith
<1>4. ASSUME NEW ip \in Addresses,
             d = [plain EXCEPT !.ip_pools = {IPPool(<<"seed", 1>>, "seed")},
                               !.ip_pool_ips = {IPPoolIP(<<"seed", ip>>, <<"seed", 1>>, ip)}]
      PROVE  Sown(d)
  <2> DEFINE x == IPPool(<<"seed", 1>>, "seed")
             y == IPPoolIP(<<"seed", ip>>, <<"seed", 1>>, ip)
             e == [plain EXCEPT !["ip_pools"] = {x}]
  <2>1. Fresh("seed", "ip_pools", x) /\ Fresh("seed", "ip_pool_ips", y)
    BY FreshIPs
  <2>2. e = [plain EXCEPT !["ip_pools"] = {x}] /\ d = [e EXCEPT !["ip_pool_ips"] = {y}]
    BY <1>4
  <2> HIDE DEF x, y, e
  <2>3. Sown(e)
    BY <1>3, <2>1, <2>2, SownRow
  <2>4. QED
    BY <2>1, <2>2, <2>3, SownRow
<1>5. QED
  BY <1>1, <1>3, <1>4

LEMMA SubaccountsSown ==
  ASSUME NEW d \in SubaccountSeeds
  PROVE  Sown(d)
<1>1. PICK status \in {"open", "disabled"} :
        d = [NoRows EXCEPT !["subaccounts"] = {[Subaccount(<<"seed", 1>>) EXCEPT !.status = status]}]
  BY DEF SubaccountSeeds
<1> DEFINE x == [Subaccount(<<"seed", 1>>) EXCEPT !.status = status]
<1>2. Fresh("seed", "subaccounts", x)
  BY TheTables DEF Fresh, Subaccount, Columns, Fixed, Saved, Marked, Schema, by
<1>3. d = [NoRows EXCEPT !["subaccounts"] = {x}]
  BY <1>1
<1> HIDE DEF x
<1>4. QED
  BY <1>2, <1>3, NoRowsSown, SownRow

LEMMA KeysSown ==
  ASSUME NEW d \in KeySeeds
  PROVE  Sown(d)
<1>1. CASE d = NoRows
  BY <1>1, NoRowsSown
<1>2. CASE d # NoRows
  <2>1. PICK value \in KeyValues, ip \in AllowedAddresses : d = KeySeed(value, ip)
    BY <1>2 DEF KeySeeds
  <2> DEFINE x == APIKey(<<"seed", 1>>)
             y == ManagedAPIKey(<<"seed", 1>>, value)
             z == IPAllowlistEntry(<<"seed", 1>>, ip)
             e == [NoRows EXCEPT !["api_keys"] = {x}]
             f == [e EXCEPT !["managed_api_keys"] = {y}]
  <2>2. /\ Fresh("seed", "api_keys", x) /\ Fresh("seed", "managed_api_keys", y)
        /\ Fresh("seed", "ip_allowlist_entries", z)
    BY FreshKey
  <2>3. /\ e = [NoRows EXCEPT !["api_keys"] = {x}] /\ f = [e EXCEPT !["managed_api_keys"] = {y}]
        /\ d = [f EXCEPT !["ip_allowlist_entries"] = {z}]
    BY <2>1 DEF KeySeed
  <2> HIDE DEF x, y, z, e, f
  <2>4. Sown(e)
    BY <2>2, <2>3, NoRowsSown, SownRow
  <2>5. Sown(f)
    BY <2>2, <2>3, <2>4, SownRow
  <2>6. QED
    BY <2>2, <2>3, <2>5, SownRow
<1>3. QED
  BY <1>1, <1>2

LEMMA TagsSown ==
  ASSUME NEW d \in TagSeeds
  PROVE  Sown(d)
<1> DEFINE tag == CHOOSE t \in TagNames : TRUE
           x == Tag(<<"seed", 1>>, tag)
           e == [NoRows EXCEPT !["tags"] = {x}]
<1>1. d = NoRows \/ d = e
  BY DEF TagSeeds
<1>2. Fresh("seed", "tags", x)
  BY FreshTag
<1>3. e = [NoRows EXCEPT !["tags"] = {x}]
  OBVIOUS
<1> HIDE DEF x, e
<1>4. QED
  BY <1>1, <1>2, <1>3, NoRowsSown, SownRow

LEMMA OnDomainSown ==
  ASSUME NEW seeds, \A s \in seeds : Sown(s), NEW d \in OnDomain(seeds)
  PROVE  Sown(d)
<1>1. PICK s \in seeds :
        d = [s EXCEPT !.domains = {Domain(<<"seed", 1>>, SendingDomain, TRUE)},
                      !.dns_records = {DNSRecords(<<"seed", 1>>, <<"seed", 1>>, TRUE)}]
  BY DEF OnDomain
<1> DEFINE x == Domain(<<"seed", 1>>, SendingDomain, TRUE)
           y == DNSRecords(<<"seed", 1>>, <<"seed", 1>>, TRUE)
           e == [s EXCEPT !["domains"] = {x}]
<1>2. Fresh("seed", "domains", x) /\ Fresh("seed", "dns_records", y)
  BY FreshDomain
<1>3. e = [s EXCEPT !["domains"] = {x}] /\ d = [e EXCEPT !["dns_records"] = {y}]
  BY <1>1
<1> HIDE DEF x, y, e
<1>4. Sown(e)
  BY <1>2, <1>3, SownRow
<1>5. QED
  BY <1>2, <1>3, <1>4, SownRow

LEMMA SeedsSown ==
  ASSUME NEW c \in Components, NEW d \in Seeds(c)
  PROVE  Sown(d)
<1>1. c \in {"templates", "webhooks", "triggers", "domains", "ips", "subaccounts", "keys", "tags", "routes"}
  BY ServiceAssumption DEF resetTables
<1>2. CASE c = "templates"
  BY <1>2, TemplatesSown DEF Seeds
<1>3. CASE c \in {"webhooks", "triggers"}
  BY <1>3, WebhooksSown, OnDomainSown DEF Seeds
<1>4. CASE c = "domains"
  BY <1>4, DomainsSown DEF Seeds
<1>5. CASE c = "ips"
  BY <1>5, IPsSown, OnDomainSown DEF Seeds
<1>6. CASE c = "subaccounts"
  BY <1>6, SubaccountsSown DEF Seeds
<1>7. CASE c = "keys"
  BY <1>7, KeysSown DEF Seeds
<1>8. CASE c = "tags"
  BY <1>8, TagsSown DEF Seeds
<1>9. CASE c = "routes"
  BY <1>9, NoRowsSown DEF Seeds, RouteSeeds
<1>10. QED
  BY <1>1, <1>2, <1>3, <1>4, <1>5, <1>6, <1>7, <1>8, <1>9

LEMMA ConfigIs ==
  /\ DOMAIN Config = Columns("config") /\ Config.id = "config" /\ ~Config.dead
  /\ UniqueIndex["config"] = {}
<1> DEFINE x == [id |-> "config", dead |-> FALSE]
<1>1. x.id = "config" /\ x.dead = FALSE /\ DOMAIN x = {"id", "dead"}
  OBVIOUS
<1>2. DOMAIN DefaultConfig = {"verify", "key"}
  BY DEF DefaultConfig
<1>3. Config = With(x, DefaultConfig)
  BY DEF Config
<1> HIDE DEF x
<1>4. /\ DOMAIN Config = DOMAIN x \cup DOMAIN DefaultConfig
      /\ \A c \in DOMAIN x \ DOMAIN DefaultConfig : Config[c] = x[c]
  BY <1>3, WithColumn
<1>5. Columns("config") = {"id", "dead", "verify", "key"}
  BY DEF Columns, Fixed, Saved, Marked, Schema
<1>6. Config.id = "config" /\ Config.dead = FALSE
  BY <1>1, <1>2, <1>4
<1>7. QED
  BY <1>1, <1>2, <1>4, <1>5, <1>6 DEF UniqueIndex

LEMMA RecordsStart ==
  ASSUME NEW d, Sown(d), DatabaseInit(d)
  PROVE  RecordsInv /\ Doomed /\ Standing
<1>1. /\ db = d /\ DOMAIN todo = Requests /\ DOMAIN asked = Requests /\ failed = {} /\ before = {}
      /\ \A r \in Requests : todo[r] = << >> /\ asked[r] = NotAsked
  BY DEF DatabaseInit
<1>2. NotAsked.saves = {} /\ NotAsked.gone = {}
  BY DEF NotAsked, Ask
<1>3. \A r \in Requests : Program(r, todo[r]) /\ Will(r) = {} /\ IdsOf(r, todo[r]) = {} /\ Elements(todo[r]) = {}
  BY <1>1, NoStatement, ElementsOfTuples DEF Will
<1>4. db["config"] = {Config}
  BY <1>1 DEF Sown
<1>5. \A t \in Tables : /\ IsFiniteSet(db[t]) /\ (\A x \in db[t] : DOMAIN x = Columns(t))
                        /\ (\A x, y \in db[t] : x.id = y.id => x = y) /\ Indexed(db[t], t)
  <2>1. ASSUME NEW t \in Tables \ {"config"}
        PROVE  /\ IsFiniteSet(db[t]) /\ (\A x \in db[t] : DOMAIN x = Columns(t))
               /\ (\A x, y \in db[t] : x.id = y.id => x = y) /\ Indexed(db[t], t)
    BY <1>1 DEF Sown, SownTable
  <2>2. /\ IsFiniteSet(db["config"]) /\ (\A x \in db["config"] : DOMAIN x = Columns("config"))
        /\ (\A x, y \in db["config"] : x.id = y.id => x = y) /\ Indexed(db["config"], "config")
    BY <1>4, ConfigIs, FS_Singleton DEF Indexed
  <2>3. QED
    BY <2>1, <2>2
<1>6. DatabaseTypeOK
  BY <1>1, <1>5 DEF DatabaseTypeOK, Sown
<1>7. Shapes
  BY <1>1, <1>3, <1>5 DEF Shapes
<1>8. Origins
  <2>1. \A r \in Requests : Targets(asked[r])
    BY <1>1, <1>2 DEF Targets
  <2>2. \A t \in Tables \ {"config"} : \A x \in db[t] : Known(by(x))
    BY <1>1 DEF Sown, SownTable, Known
  <2>3. db["config"] # {} /\ \A x \in db["config"] : x.id = "config" /\ ~x.dead
    BY <1>4, ConfigIs, Zenon
  <2>4. QED
    BY <1>1, <1>2, <2>1, <2>2, <2>3 DEF Origins
<1>9. Unborn
  BY <1>3 DEF Unborn
<1>10. Alike
  <2>1. \A t : Copies(t) = db[t]
    BY <1>3 DEF Copies, Held
  <2>2. QED
    BY <1>5, <2>1 DEF Alike
<1>11. Doomed /\ Standing
  BY <1>1, <1>2 DEF Doomed, Standing
<1>12. QED
  BY <1>6, <1>7, <1>8, <1>9, <1>10, <1>11 DEF RecordsInv

----------------------------------------------------------------------------
(* The whole service.                                                      *)

Steady == RecordsInv /\ Doomed /\ Standing

LEMMA ServiceBegins == Init => Steady
<1> SUFFICES ASSUME Init PROVE Steady
  OBVIOUS
<1>1. \E d : Sown(d) /\ DatabaseInit(d)
  BY SeedsSown, NoRowsSown DEF Init
<1>2. QED
  BY <1>1, RecordsStart DEF Steady

LEMMA SteadyIdle == Steady /\ UNCHANGED dbVars => Steady'
<1> SUFFICES ASSUME Steady, UNCHANGED dbVars PROVE Steady'
  OBVIOUS
<1>1. db' = db /\ todo' = todo /\ asked' = asked /\ failed' = failed /\ before' = before
  BY DEF dbVars
<1>2. DatabaseTypeOK' = DatabaseTypeOK
  BY <1>1 DEF DatabaseTypeOK, Answered
<1>3. Shapes' = Shapes
  BY <1>1 DEF Shapes, Will
<1>4. Origins' = Origins
  BY <1>1 DEF Origins, Known, Began
<1>5. Unborn' = Unborn
  BY <1>1 DEF Unborn
<1>6. Alike' = Alike
  BY <1>1 DEF Alike, Copies, Held, Will
<1>7. Doomed' = Doomed
  BY <1>1 DEF Doomed, Hits, Rescued, Gone, Overlap, Preceded, Live, Copies, Held, Will
<1>8. Standing' = Standing
  BY <1>1 DEF Standing, Excused, Set, Overlap, Preceded, Held, Will
<1>9. QED
  BY <1>2, <1>3, <1>4, <1>5, <1>6, <1>7, <1>8 DEF Steady, RecordsInv

LEMMA ServiceSteady == Steady /\ [Next]_vars => Steady'
<1> SUFFICES ASSUME Steady, [Next]_vars PROVE Steady'
  OBVIOUS
<1>0. RecordsInv /\ Doomed /\ Standing
  BY DEF Steady
<1>1. ASSUME NEW r \in Requests, Arrive(r) PROVE Steady'
  <2>1. PICK a, q : Starts(r, a, q)
    BY <1>0, <1>1, ArriveStarts DEF Started
  <2>2. QED
    BY <1>0, <2>1, StartingRecords, StartingDoomed, StartingStanding DEF Steady
<1>2. ASSUME NEW r \in Requests, Continue(r) PROVE Steady'
  <2>1. Outcome(r)
    BY <1>0, <1>2, OutcomeOfContinue
  <2>2. QED
    BY <1>0, <2>1, ContinueRecords, ContinueDoomed, ContinueStanding DEF Steady
<1>3. CASE UNCHANGED dbVars
  BY <1>3, SteadyIdle
<1>4. QED
  BY <1>1, <1>2, <1>3 DEF Next, vars

LEMMA SteadyImplies == Steady => DatabaseTypeOK /\ NothingComesBack /\ LastUpdateStands
<1> SUFFICES ASSUME Steady PROVE DatabaseTypeOK /\ NothingComesBack /\ LastUpdateStands
  OBVIOUS
<1>0. RecordsInv /\ Doomed /\ Standing
  BY DEF Steady
<1>1. \A r \in Requests : Answered(r) => Will(r) = {}
  BY NothingLeft DEF Answered
<1>2. NothingComesBack
  BY <1>0, <1>1 DEF NothingComesBack, Doomed, Rescued, Gone
<1>3. LastUpdateStands
  <2> SUFFICES ASSUME NEW r \in Requests, NEW g \in asked[r].saves, NEW x \in db[g[1]],
                      Answered(r), r \notin failed, x.id = g[2], ~Fits(x, asked[r].sets)
               PROVE  \E s \in Requests :
                        /\ s # r /\ g \in asked[s].saves /\ ~Preceded(s, r)
                        /\ \/ Overlap(s, r)
                           \/ DOMAIN asked[s].sets \cap DOMAIN asked[r].sets # {}
    BY DEF LastUpdateStands
  <2>1. PICK c \in DOMAIN asked[r].sets : x[c] # asked[r].sets[c]
    BY DEF Fits
  <2>2. Excused(r, g, c)
    BY <1>0, <1>1, <2>1 DEF Standing, Set
  <2>3. QED
    BY <2>1, <2>2 DEF Excused
<1>4. QED
  BY <1>0, <1>2, <1>3 DEF RecordsInv

\* In every behaviour of the service, whatever the requests and their order, each row's id
\* and each unique index names one row of a table, and no request that was answered has
\* statements left (internal/database, the models' gorm tags).
THEOREM DatabaseIsWellFormed == Spec => []DatabaseTypeOK
<1>1. QED
  BY ServiceBegins, ServiceSteady, SteadyImplies, PTL DEF Spec

\* A row whose deletion or reset was answered stays away, for any number of concurrent
\* requests of any component, unless a request that had read it before saves it whole
\* (gorm's Delete and Save in every handler, mock/handlers.go:229).
THEOREM DeletedStaysDeleted == Spec => []NothingComesBack
<1>1. QED
  BY ServiceBegins, ServiceSteady, SteadyImplies, PTL DEF Spec

\* What an answered update set stays set, unless a later or concurrent request set the
\* same column or saved the row from an older reading: Save's lost updates are the only
\* ones (gorm's Save in every handler, the configuration's unlocked struct).
THEOREM AnsweredUpdateStands == Spec => []LastUpdateStands
<1>1. QED
  BY ServiceBegins, ServiceSteady, SteadyImplies, PTL DEF Spec

=============================================================================
