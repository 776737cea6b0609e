----------------------- MODULE TemplateWebhookProofs -----------------------
(***************************************************************************)
(* Templates with their versions, and webhooks with their deliveries,      *)
(* within the service, for any number of requests.  A version rests on two *)
(* things that are looked up, then written, in separate statements: its    *)
(* template, and which other version is active.  A webhook is replaced by  *)
(* a purge and inserts, and a trigger reads where to deliver at two        *)
(* moments.                                                                *)
(***************************************************************************)
EXTENDS ComponentProofs

----------------------------------------------------------------------------
(* The statements on templates and versions.                               *)

VersionPut(p)     == p.do = "put" /\ p.table = "template_versions"
TemplatePut(p)    == p.do = "put" /\ p.table = "templates"
Kills(p)          == p.do = "update" /\ p.table = "templates"
Clears(p, i)      == /\ p.do = "update" /\ p.table = "template_versions"
                     /\ p.where = [template |-> i] /\ p.row = [dead |-> TRUE]
Deactivates(p, i) == /\ p.do = "update" /\ p.table = "template_versions"
                     /\ p.where = [template |-> i, active |-> TRUE] /\ p.row = [active |-> FALSE]

\* Who writes and deletes them.
TemplateRole(r, a, p) ==
  /\ p.table = "templates" =>
       \/ p.do = "put" /\ a.kind = "CreateTemplate" /\ p.row.id = <<r, 1>> /\ p.row.name = a.on
       \/ p.do = "put" /\ a.kind = "UpdateTemplate" /\ by(p.row) # r
       \/ /\ p.do = "update" /\ a.kind = "DeleteTemplate" /\ p.row = [dead |-> TRUE]
          /\ (a.on = "all" /\ p.where = All) \/ (DOMAIN p.where = {"id"} /\ <<"templates", p.where.id>> \in a.gone)
       \/ p.do = "purge" /\ a.kind = "ResetAll"
  /\ p.table = "template_versions" =>
       \/ /\ p.do = "put" /\ a.kind \in VersionWriters /\ (p.row.active => a.kind \in Activators)
          /\ a.kind = "CreateTemplate" => p.row.template = <<r, 1>> /\ p.row.id = <<r, 2>>
       \/ p.do = "update" /\ p.row \in {[dead |-> TRUE], [active |-> FALSE]}
       \/ p.do = "purge" /\ a.kind = "ResetAll"
TemplateRoles == \A r \in Requests : \A p \in Will(r) : TemplateRole(r, asked[r], p)

\* A version is put, and a template is killed, by the last statement of a program.
Early(q)      == {q[i] : i \in 1 .. (Len(q) - 1)}
InTurn(q)    == \A s \in Early(q) : ~VersionPut(Prim(s)) /\ ~Kills(Prim(s))
\* A version that is put active has the others deactivated before.
Guarded(r, q) == \A p \in WillOf(r, q) : VersionPut(p) /\ p.row.active =>
                    \E d \in WillOf(r, q) : Deactivates(d, p.row.template)
Forks(r) ==
  LET s == Head(todo[r]) IN
  /\ AskedFor(r, {"CreateVersion"}) /\ todo[r] = <<s>> /\ s.do = "test"
  /\ \A b \in {s.yes, s.no} : (\A u \in Elements(b) : u.do \in Simple) /\ InTurn(b) /\ Guarded(r, b)
\* A template that cannot be inserted ends its creation.
Insists(r) == AskedFor(r, {"CreateTemplate"}) =>
                \A s \in Elements(todo[r]) : s.table = "templates" => s.do = "put" /\ s.strict
TemplateForms == \A r \in Requests :
  /\ (Straight(r) /\ InTurn(todo[r])) \/ Forks(r)
  /\ Insists(r)
  /\ AskedFor(r, {"ResetAll"}) => asked[r].on = "all"

TemplateClash(n) == Clash({"DeleteTemplate"}, VersionWriters, n)
ActiveClash(n)   == Clash(Activators, Activators, n)
ResetMet(r)      == \E s \in Requests : AskedFor(s, {"ResetAll"}) /\ Overlap(s, r)

Storing(r) == \E u \in Will(r) : TemplatePut(u)
Homed(i)   == \E t \in db["templates"] : t.id = i /\ (t.dead => TemplateClash(t.name))
Solo(i, v) == \A x \in Live("template_versions") : x.active /\ x.template = i => x.id = v

\* The names by which requests know the templates they work on.
VersionsNamed == \A r \in Requests : \A p \in Will(r) : VersionPut(p) =>
  \A x \in Copies("templates") : x.id = p.row.template => x.name = asked[r].on
TemplatesNamed == \A r \in Requests : AskedFor(r, {"DeleteTemplate"}) /\ asked[r].on # "all" =>
  \A x \in Copies("templates") : <<"templates", x.id>> \in asked[r].gone => x.name = asked[r].on

\* Nobody knows a template that is not there yet.
Out(i, r) == <<"templates", i>> \notin IdsOf(r, todo[r])
VersionsBorn ==
  /\ \A v \in db["template_versions"] : Known(v.template[1]) /\ \A r \in Requests : Out(v.template, r)
  /\ \A r \in Requests : \A p \in Will(r) : VersionPut(p) =>
       Known(p.row.template[1]) /\ \A q \in Requests \ {r} : Out(p.row.template, q)

\* A version, there or to come, has its template, or an excuse.
VersionsHomed ==
  /\ \A v \in Live("template_versions") : ResetClash(VersionWriters) \/ Homed(v.template)
  /\ \A r \in Requests : \A p \in Will(r) : VersionPut(p) =>
       Storing(r) \/ ResetMet(r) \/ Homed(p.row.template)
VersionsCleared == \A q \in Requests : \A k \in Will(q) : Kills(k) =>
  \A v \in Live("template_versions"), t \in db["templates"] :
    t.id = v.template /\ Fits(t, k.where) =>
      (\E c \in Will(q) : Clears(c, t.id)) \/ TemplateClash(t.name) \/ ResetClash(VersionWriters)
VersionsEmptied == \A q \in Requests : todo[q] # << >> /\ AskedFor(q, {"ResetAll"}) =>
  \/ Next1(q) = Purge("template_versions", All)
  \/ \A v \in Live("template_versions") :
       ResetClash(VersionWriters) /\ (v.active => ResetClash(Activators))

\* Of the active versions of a template, there and to come, one is left, or there is a clash.
Pardoned(i)  == ResetClash(Activators) \/ \E t \in db["templates"] : t.id = i /\ ActiveClash(t.name)
ActiveAlone == \A a, b \in Live("template_versions") :
  a.active /\ b.active /\ a.template = b.template /\ a.id # b.id => Pardoned(a.template)
ActiveComing == \A r \in Requests : \A p \in Will(r) : VersionPut(p) /\ p.row.active =>
  \/ \E d \in Will(r) : Deactivates(d, p.row.template)
  \/ Solo(p.row.template, p.row.id)
  \/ ActiveClash(asked[r].on) \/ ResetClash(Activators)

\* What counts against the limits, there and to come, has room within them, or there is an excuse.
CreateClash == \E r, s \in Requests : /\ Overlap(r, s) /\ AskedFor(s, {"CreateTemplate"})
                                      /\ AskedFor(r, {"CreateTemplate", "UpdateTemplate"})
Copied(n)   == \E r \in Requests : AskedFor(r, {"CopyVersion"}) /\ asked[r].on = n
Room(S, n)  == IsFiniteSet(S) /\ Cardinality(S) <= n
HoldsTemplates(S) ==
  /\ \A x \in Live("templates") : x.id \in S
  /\ \A r \in Requests : \A p \in Will(r) : TemplatePut(p) => p.row.id \in S
HoldsVersions(S, i) ==
  /\ \A x \in Live("template_versions") : x.template = i => x.id \in S
  /\ \A r \in Requests : \A p \in Will(r) : VersionPut(p) /\ p.row.template = i => p.row.id \in S
VersionsRoom(i) == \E S : Room(S, VersionLimit) /\ HoldsVersions(S, i)
TemplatesFit == CreateClash \/ \E S : Room(S, TemplateLimit) /\ HoldsTemplates(S)
VersionsFit  == \A x \in Copies("templates") : ActiveClash(x.name) \/ Copied(x.name) \/ VersionsRoom(x.id)

TemplateParts ==
  /\ TemplateRoles /\ TemplateForms /\ VersionsNamed /\ TemplatesNamed /\ VersionsBorn
  /\ VersionsHomed /\ VersionsCleared /\ VersionsEmptied /\ ActiveAlone /\ ActiveComing
  /\ TemplatesFit /\ VersionsFit
TemplateInv == scene = "templates" => TemplateParts
----------------------------------------------------------------------------
(* One step.                                                               *)

LEMMA TemplateTables ==
  /\ "templates" \in Tables \ {"config"} /\ "template_versions" \in Tables \ {"config"}
  /\ Fixed("templates") = {"id", "name"} /\ Columns("templates") = {"id", "name", "dead"}
  /\ Fixed("template_versions") = {"id", "template", "tag"}
  /\ Columns("template_versions") = {"id", "template", "tag", "dead", "active"}
BY DEF Tables, UniqueIndex, Fixed, Columns, Saved, Marked, Schema

LEMMA EarlyOf ==
  ASSUME NEW q, IsSequence(q), q # << >>
  PROVE  /\ Early(Tail(q)) \subseteq Early(q)
         /\ Head(q) \notin Early(q) => Elements(q) = {Head(q)}
         /\ \A u : \A s \in Early(<<u>> \o Tail(q)) : s \in Early(q) \/ (s = u /\ Head(q) \in Early(q))
<1> DEFINE n == Len(q)
           t == Tail(q)
<1>1. n \in Nat \ {0} /\ DOMAIN q = 1..n /\ Head(q) = q[1]
  BY ElementsOf
<1>2. IsSequence(t) /\ DOMAIN t = 1..(n - 1) /\ \A i \in 1..(n - 1) : t[i] = q[i + 1]
  BY TailOf
<1>3. Len(t) = n - 1
  BY <1>1, <1>2 DEF IsSequence
<1> HIDE DEF n, t
<1>4. Early(t) \subseteq Early(q)
  <2>1. \A i \in 1..(n - 2) : t[i] = q[i + 1] /\ i + 1 \in 1..(n - 1)
    BY <1>1, <1>2
  <2>2. QED
    BY <1>1, <1>3, <2>1 DEF Early, n
<1>5. Head(q) \notin Early(q) => Elements(q) = {Head(q)}
  <2>1. Head(q) \notin Early(q) => n = 1
    BY <1>1 DEF Early, n
  <2>2. QED
    BY <1>1, <2>1 DEF Elements
<1>6. ASSUME NEW u, NEW s \in Early(<<u>> \o t) PROVE s \in Early(q) \/ (s = u /\ Head(q) \in Early(q))
  <2> DEFINE c == <<u>> \o t
  <2>1. Len(c) = n /\ c[1] = u /\ \A i \in 2..n : c[i] = t[i - 1]
    BY <1>1, <1>2, <1>3 DEF IsSequence
  <2> HIDE DEF c
  <2>2. PICK i \in 1..(n - 1) : s = c[i]
    BY <1>6, <2>1 DEF Early, c
  <2>3. CASE i = 1
    BY <1>1, <2>1, <2>2, <2>3 DEF Early, n
  <2>4. CASE i # 1
    <3>1. s = q[i] /\ i \in 1..(n - 1)
      BY <1>1, <1>2, <2>1, <2>2, <2>4
    <3>2. QED
      BY <3>1 DEF Early, n
  <2>5. QED
    BY <2>3, <2>4
<1>7. QED
  BY <1>4, <1>5, <1>6 DEF t

\* The statement that decides what is next has nothing before or after it.
LEMMA ForkStep ==
  ASSUME RecordsInv, NEW q \in Requests, Continue(q), Forks(q)
  PROVE  db' = db /\ Straight(q)' /\ InTurn(todo'[q]) /\ Guarded(q, todo'[q])
<1> DEFINE s == Head(todo[q])
<1>1. todo[q] = <<s>> /\ s.do = "test" /\ todo[q] # << >>
  BY DEF Forks
<1>2. Test(q)
  <2>1. s.do \notin {"put", "save", "update", "purge", "commit", "ensure", "collect", "deliver", "issue"} /\ s # Invalid
    BY <1>1 DEF Invalid
  <2> HIDE DEF s
  <2>2. ~Write(q) /\ ~SaveMisses(q) /\ ~EnsureTag(q) /\ ~Collect(q) /\ ~Deliver(q) /\ ~Issue(q)
        /\ ~RefuseSection(q)
    BY <2>1 DEF Write, SaveMisses, EnsureTag, Collect, Deliver, Issue, RefuseSection, s
  <2>3. QED
    BY <2>2 DEF Continue, Execute
<1>3. Branch(q, s.yes) /\ Branch(q, s.no)
  <2>1. Piece(q, s)
    BY <1>1, Situation
  <2>2. QED
    BY <1>1, <2>1 DEF Piece, Statement, Simple, Invalid
<1>4. Tail(todo[q]) = << >>
  BY <1>1, OneLeft
<1>5. db' = db /\ \E b \in {s.yes, s.no} : todo'[q] = b \o << >>
  <2>1. DOMAIN todo = Requests
    BY <1>1, Situation
  <2>2. QED
    BY <1>2, <1>4, <2>1 DEF Test
<1>6. PICK b \in {s.yes, s.no} : todo'[q] = b \o << >>
  BY <1>5
<1>7. IsSequence(b)
  BY <1>3 DEF Branch, Sequel
<1> HIDE DEF s
<1>8. todo'[q] = b
  BY <1>6, <1>7 DEF IsSequence
<1>9. QED
  BY <1>5, <1>8 DEF Forks, Straight, s

LEMMA StraightStep ==
  ASSUME RecordsInv, NEW q \in Requests, Continue(q), Straight(q), InTurn(todo[q])
  PROVE  /\ Straight(q)' /\ InTurn(todo'[q])
         /\ Next1(q) \in Will(q) /\ Sane(Next1(q))
         /\ Done(q, Next1(q)) \/ PutOff(q, Next1(q)) \/ Denied(Next1(q))
         /\ VersionPut(Next1(q)) \/ Kills(Next1(q)) => Will(q) = {Next1(q)}
         /\ \A p \in Will(q) : Followed(q, p)
<1> DEFINE s == Head(todo[q])
<1>1. Outcome(q) /\ todo[q] # << >>
  BY OutcomeOfContinue DEF Outcome
<1>2. IsSequence(todo[q]) /\ s \in Elements(todo[q]) /\ s.do \in Simple
  BY <1>1, Situation DEF Program, Sequel, Straight
<1>3. /\ Straight(q)' /\ Next1(q) \in Will(q) /\ Sane(Next1(q))
      /\ Done(q, Next1(q)) \/ PutOff(q, Next1(q)) \/ Denied(Next1(q))
  BY PlainStep
<1>4. \A p \in Will(q) : Followed(q, p)
  BY <1>1 DEF Outcome, Straight, Simple, Special
<1>5. VersionPut(Next1(q)) \/ Kills(Next1(q)) => Will(q) = {Next1(q)}
  <2>1. VersionPut(Next1(q)) \/ Kills(Next1(q)) => s \notin Early(todo[q])
    BY DEF InTurn, Next1
  <2>2. s \notin Early(todo[q]) => Elements(todo[q]) = {s}
    BY <1>1, <1>2, EarlyOf
  <2>3. Elements(todo[q]) = {s} => Will(q) = {Next1(q)}
    BY <1>2, LeadsOfSimple DEF Will, WillOf, Next1
  <2>4. QED
    BY <2>1, <2>2, <2>3
<1>6. InTurn(todo'[q])
  <2>1. Applied(q, s) \/ Missed(q, s) \/ Refused(q, s)
    BY <1>2, SimpleStep
  <2>2. InTurn(Tail(todo[q]))
    BY <1>1, <1>2, EarlyOf DEF InTurn
  <2>3. InTurn(<< >>)
    BY DEF InTurn, Early
  <2>4. CASE Missed(q, s)
    <3> DEFINE u == [s EXCEPT !.do = "put"]
    <3>1. s.do = "save" /\ {"do", "table", "row"} \subseteq DOMAIN s
      BY <1>1, <2>4, Situation DEF Missed, Piece, Statement, Simple, Invalid
    <3>2. u.do = "put" /\ u.table = s.table /\ u.row = s.row
      BY <3>1
    <3>3. todo'[q] = <<u>> \o Tail(todo[q])
      BY <2>4 DEF Missed
    <3> HIDE DEF u
    <3>4. Prim(u) = Prim(s)
      BY <3>1, <3>2 DEF Prim
    <3>5. ASSUME NEW v \in Early(todo'[q]) PROVE ~VersionPut(Prim(v)) /\ ~Kills(Prim(v))
      BY <1>1, <1>2, <3>3, <3>4, <3>5, EarlyOf DEF InTurn
    <3>6. QED
      BY <3>5 DEF InTurn
  <2>5. QED
    BY <2>1, <2>2, <2>3, <2>4 DEF Applied, Refused
<1>7. QED
  BY <1>3, <1>4, <1>5, <1>6

LEMMA InsistsContinue ==
  ASSUME RecordsInv, NEW q \in Requests, Continue(q), Straight(q) \/ Forks(q), Insists(q)
  PROVE  Insists(q)'
<1> DEFINE s == Head(todo[q])
           tail == Tail(todo[q])
<1>1. Outcome(q) /\ todo[q] # << >> /\ asked' = asked
  BY OutcomeOfContinue DEF Outcome
<1> SUFFICES ASSUME AskedFor(q, {"CreateTemplate"})
             PROVE  \A x \in Elements(todo'[q]) : x.table = "templates" => x.do = "put" /\ x.strict
  BY <1>1 DEF Insists, AskedFor
<1>2. Straight(q)
  BY DEF Forks, AskedFor
<1>3. /\ IsSequence(todo[q]) /\ s \in Elements(todo[q]) /\ s.do \in Simple /\ IsSequence(tail)
      /\ Elements(todo[q]) = {s} \cup Elements(tail)
  BY <1>1, <1>2, Situation DEF Program, Sequel, Straight
<1>4. \A x \in Elements(todo[q]) : x.table = "templates" => x.do = "put" /\ x.strict
  BY DEF Insists
<1>5. Applied(q, s) \/ Missed(q, s) \/ Refused(q, s)
  BY <1>3, SimpleStep
<1>6. CASE Missed(q, s)
  <2> DEFINE u == [s EXCEPT !.do = "put"]
  <2>1. s.do = "save" /\ {"do", "table", "row"} \subseteq DOMAIN s
    BY <1>1, <1>6, Situation DEF Missed, Piece, Statement, Simple, Invalid
  <2>2. u.table = s.table
    BY <2>1
  <2>3. todo'[q] = <<u>> \o tail
    BY <1>6 DEF Missed
  <2> HIDE DEF u, tail
  <2>4. IsSequence(<<u>>) /\ Elements(<<u>>) = {u}
    BY ElementsOfTuples
  <2>5. Elements(<<u>> \o tail) = {u} \cup Elements(tail)
    BY <1>3, <2>4, ConcatOf
  <2>6. u.table # "templates"
    BY <1>3, <1>4, <2>1, <2>2
  <2>7. QED
    BY <1>3, <1>4, <2>3, <2>5, <2>6
<1>7. CASE Applied(q, s) \/ Refused(q, s)
  <2>1. todo'[q] \in {tail, << >>}
    BY <1>7 DEF Applied, Refused
  <2>2. Elements(<< >>) = {}
    BY DEF Elements
  <2> HIDE DEF tail
  <2>3. QED
    BY <1>3, <1>4, <2>1, <2>2
<1>8. QED
  BY <1>5, <1>6, <1>7

LEMMA FormsContinue ==
  ASSUME RecordsInv, TemplateForms, NEW q \in Requests, Continue(q)
  PROVE  TemplateForms'
<1>1. \A r \in Requests \ {q} : todo'[r] = todo[r]
  BY OutcomeOfContinue DEF Outcome
<1>2. asked' = asked
  BY OutcomeOfContinue DEF Outcome
<1>3. ASSUME NEW r \in Requests \ {q}
      PROVE  ((Straight(r)' /\ InTurn(todo'[r])) \/ Forks(r)') /\ Insists(r)'
  BY <1>1, <1>2, <1>3 DEF TemplateForms, Straight, Forks, Insists, AskedFor
<1>4. Straight(q)' /\ InTurn(todo'[q])
  BY StraightStep, ForkStep DEF TemplateForms
<1>5. Insists(q)'
  BY InsistsContinue DEF TemplateForms
<1>6. \A r \in Requests : AskedFor(r, {"ResetAll"})' => asked'[r].on = "all"
  BY <1>2 DEF TemplateForms, AskedFor
<1>7. QED
  BY <1>3, <1>4, <1>5, <1>6 DEF TemplateForms

LEMMA RolesContinue ==
  ASSUME RecordsInv, TemplateRoles, NEW q, Outcome(q)
  PROVE  TemplateRoles'
<1>1. asked' = asked /\ \A r \in Requests \ {q} : todo'[r] = todo[r]
  BY DEF Outcome
<1>2. ASSUME NEW r \in Requests, NEW p \in WillOf(r, todo'[r]) PROVE TemplateRole(r, asked[r], p)
  <2>1. p \in Will(r) \/ p.table = "webhook_deliveries"
    BY <1>1, <1>2 DEF Outcome, ProgramAfter, Records, Will
  <2>2. QED
    BY <2>1 DEF TemplateRoles, TemplateRole
<1>3. \A r, p : TemplateRole(r, asked[r], p)' <=> TemplateRole(r, asked'[r], p)
  BY DEF TemplateRole, VersionWriters, Activators
<1>4. QED
  BY <1>1, <1>2, <1>3 DEF TemplateRoles, Will

----------------------------------------------------------------------------
(* What one step does to templates and versions.                           *)

\* A template is killed, or all of them are swept away.
Killed(q, x)   == /\ Straight(q) /\ Kills(Next1(q)) /\ Fits(x, Next1(q).where) /\ Will(q) = {Next1(q)}
                  /\ AskedFor(q, {"DeleteTemplate"})
Swept(q)       == /\ Straight(q) /\ AskedFor(q, {"ResetAll"})
                  /\ Next1(q).do = "purge" /\ Next1(q).table = "templates"
\* A template, or a version, is put in place.
Planted(q)     == AskedFor(q, {"CreateTemplate", "UpdateTemplate"}) /\ db'["template_versions"] = db["template_versions"]
Written(q, v)  == /\ Straight(q) /\ VersionPut(Next1(q)) /\ Next1(q) \in Will(q) /\ Will(q) = {Next1(q)}
                  /\ v = Next1(q).row /\ db'["templates"] = db["templates"]
                  /\ AskedFor(q, VersionWriters) /\ (v.active => AskedFor(q, Activators))

\* What a template put by q is to the templates that are there.
LEMMA TemplateOver ==
  ASSUME RecordsInv, TemplateRoles, NEW q \in Requests, NEW p \in Will(q), TemplatePut(p),
         NEW x \in db["templates"], x.id = p.row.id
  PROVE  x.name = p.row.name
<1>1. TemplateRole(q, asked[q], p) /\ p.table = "templates" /\ p.do = "put"
  BY DEF TemplateRoles, TemplatePut
<1>2. by(p.row) # q
  <2>1. ASSUME by(p.row) = q PROVE FALSE
    <3>1. Key("templates", p.row) \in IdsOf(q, todo[q])
      BY <1>1, <2>1, MineIsUnborn DEF Will
    <3>2. \A y \in Copies("templates") : y.id # p.row.id
      BY <3>1, BornUnseen, TemplateTables
    <3>3. QED
      BY <3>2 DEF Copies
  <2>2. QED
    BY <2>1
<1>3. p.row \in Held(q, "templates")
  BY <1>1, <1>2 DEF Held
<1>4. p.row \in Copies("templates") /\ x \in Copies("templates")
  BY <1>3 DEF Copies
<1>5. QED
  BY <1>4, TemplateTables DEF RecordsInv, Alike

LEMMA TemplateFate ==
  ASSUME RecordsInv, TemplateRoles, TemplateForms, NEW q \in Requests, Continue(q), NEW x \in db["templates"]
  PROVE  \/ Swept(q)
         \/ \E y \in db'["templates"] : y.id = x.id /\ y.name = x.name /\ (y.dead => x.dead \/ Killed(q, x))
<1> DEFINE p == Next1(q)
           R == db["templates"]
<1>1. CASE db'["templates"] = db["templates"]
  BY <1>1
<1>2. CASE db'["templates"] # db["templates"]
  <2>1. Straight(q) /\ InTurn(todo[q])
    BY <1>2, ForkStep DEF TemplateForms
  <2>2. /\ p \in Will(q) /\ Sane(p) /\ (Done(q, p) \/ PutOff(q, p) \/ Denied(p))
        /\ VersionPut(p) \/ Kills(p) => Will(q) = {p}
    BY <2>1, StraightStep
  <2>3. Done(q, p) /\ p.table = "templates" /\ db'["templates"] = Apply(p, R)
    BY <1>2, <2>2, TemplateTables DEF PutOff, Denied, Done
  <2>4. TemplateRole(q, asked[q], p)
    BY <2>2 DEF TemplateRoles
  <2>5. RowsOf("templates", R) /\ todo[q] # << >>
    BY OutcomeOfContinue, Situation, TemplateTables DEF Outcome
  <2> HIDE DEF p, R
  <2>6. \/ x \in Apply(p, R)
        \/ p.do = "put" /\ x.id = p.row.id /\ p.row \in Apply(p, R)
        \/ p.do = "purge"
        \/ p.do = "update" /\ ~x.dead /\ Fits(x, p.where) /\ With(x, p.row) \in Apply(p, R)
    BY <2>2, <2>3, <2>5, RowsAfter DEF R
  <2>7. CASE x \in Apply(p, R)
    BY <2>3, <2>7
  <2>8. CASE p.do = "put" /\ x.id = p.row.id /\ p.row \in Apply(p, R)
    <3>1. p.row.name = x.name
      BY <2>2, <2>3, <2>8, TemplateOver DEF TemplatePut
    <3>2. ~p.row.dead
      BY <2>2, <2>8 DEF Sane
    <3>3. QED
      BY <2>3, <2>8, <3>1, <3>2
  <2>9. CASE p.do = "purge"
    BY <2>1, <2>3, <2>4, <2>9 DEF Swept, TemplateRole, AskedFor, p
  <2>10. CASE p.do = "update" /\ ~x.dead /\ Fits(x, p.where) /\ With(x, p.row) \in Apply(p, R)
    <3>1. Kills(p) /\ Will(q) = {p} /\ p.row = [dead |-> TRUE]
      BY <2>2, <2>3, <2>4, <2>10 DEF Kills, TemplateRole
    <3>2. AskedFor(q, {"DeleteTemplate"})
      BY <2>3, <2>4, <2>10 DEF TemplateRole, AskedFor
    <3>3. With(x, p.row).id = x.id /\ With(x, p.row).name = x.name
      <4>1. {"id", "name"} \subseteq DOMAIN x /\ DOMAIN p.row = {"dead"}
        BY <2>5, <3>1, TemplateTables DEF RowsOf, R
      <4>2. \A c \in {"id", "name"} : c \in DOMAIN x \ DOMAIN p.row
        BY <4>1
      <4>3. \A c \in DOMAIN x \ DOMAIN p.row : With(x, p.row)[c] = x[c]
        BY WithColumn
      <4>4. QED
        BY <4>2, <4>3
    <3>4. Killed(q, x)
      BY <2>1, <2>10, <3>1, <3>2 DEF Killed, p
    <3>5. QED
      BY <2>3, <2>10, <3>3, <3>4
  <2>11. QED
    BY <2>6, <2>7, <2>8, <2>9, <2>10
<1>3. QED
  BY <1>1, <1>2

LEMMA TemplateFrom ==
  ASSUME RecordsInv, TemplateRoles, TemplateForms, NEW q \in Requests, Continue(q), NEW y \in db'["templates"]
  PROVE  \/ \E x \in db["templates"] : x.id = y.id /\ x.name = y.name
         \/ Planted(q) /\ \A x \in db["templates"] : x.id # y.id
<1> DEFINE p == Next1(q)
           R == db["templates"]
<1>1. CASE db'["templates"] = db["templates"]
  BY <1>1
<1>2. CASE db'["templates"] # db["templates"]
  <2>1. Straight(q) /\ InTurn(todo[q])
    BY <1>2, ForkStep DEF TemplateForms
  <2>2. p \in Will(q) /\ Sane(p) /\ (Done(q, p) \/ PutOff(q, p) \/ Denied(p))
    BY <2>1, StraightStep
  <2>3. Done(q, p) /\ p.table = "templates" /\ db'["templates"] = Apply(p, R)
    BY <1>2, <2>2, TemplateTables DEF PutOff, Denied, Done
  <2>4. TemplateRole(q, asked[q], p)
    BY <2>2 DEF TemplateRoles
  <2>5. RowsOf("templates", R) /\ todo[q] # << >>
    BY OutcomeOfContinue, Situation, TemplateTables DEF Outcome
  <2>6. db'["template_versions"] = db["template_versions"]
    BY <2>3, TemplateTables DEF Done
  <2> HIDE DEF p, R
  <2>7. \/ p.do = "put" /\ y = p.row
        \/ y \in R
        \/ p.do = "update" /\ \E x \in R : y = With(x, p.row)
    BY <2>2, <2>3, <2>5, RowsAfter
  <2>8. CASE p.do = "put" /\ y = p.row
    <3>1. Planted(q)
      BY <2>3, <2>4, <2>6, <2>8 DEF Planted, TemplateRole, AskedFor
    <3>2. ASSUME NEW x \in db["templates"], x.id = y.id PROVE x.name = y.name
      BY <2>2, <2>3, <2>8, <3>2, TemplateOver DEF TemplatePut
    <3>3. QED
      BY <3>1, <3>2
  <2>9. CASE y \in R
    BY <2>9 DEF R
  <2>10. CASE p.do = "update" /\ \E x \in R : y = With(x, p.row)
    <3>1. PICK x \in R : y = With(x, p.row)
      BY <2>10
    <3>2. {"id", "name"} \subseteq DOMAIN x /\ DOMAIN p.row = {"dead"}
      BY <2>3, <2>4, <2>5, <2>10, TemplateTables DEF RowsOf, TemplateRole
    <3>3. y.id = x.id /\ y.name = x.name
      <4>1. \A c \in {"id", "name"} : c \in DOMAIN x \ DOMAIN p.row
        BY <3>2
      <4>2. \A c \in DOMAIN x \ DOMAIN p.row : With(x, p.row)[c] = x[c]
        BY WithColumn
      <4>3. QED
        BY <3>1, <4>1, <4>2
    <3>4. QED
      BY <3>3 DEF R
  <2>11. QED
    BY <2>7, <2>8, <2>9, <2>10
<1>3. QED
  BY <1>1, <1>2

LEMMA VersionFrom ==
  ASSUME RecordsInv, TemplateRoles, TemplateForms, NEW q \in Requests, Continue(q),
         NEW v \in db'["template_versions"], ~v.dead
  PROVE  \/ \E y \in Live("template_versions") :
               y.id = v.id /\ y.template = v.template /\ (v.active => y.active)
         \/ Written(q, v)
<1> DEFINE p == Next1(q)
           R == db["template_versions"]
<1>1. CASE db'["template_versions"] = db["template_versions"]
  BY <1>1 DEF Live
<1>2. CASE db'["template_versions"] # db["template_versions"]
  <2>1. Straight(q) /\ InTurn(todo[q])
    BY <1>2, ForkStep DEF TemplateForms
  <2>2. /\ p \in Will(q) /\ Sane(p) /\ (Done(q, p) \/ PutOff(q, p) \/ Denied(p))
        /\ VersionPut(p) \/ Kills(p) => Will(q) = {p}
    BY <2>1, StraightStep
  <2>3. Done(q, p) /\ p.table = "template_versions" /\ db'["template_versions"] = Apply(p, R)
    BY <1>2, <2>2, TemplateTables DEF PutOff, Denied, Done
  <2>4. TemplateRole(q, asked[q], p)
    BY <2>2 DEF TemplateRoles
  <2>5. RowsOf("template_versions", R) /\ todo[q] # << >>
    BY OutcomeOfContinue, Situation, TemplateTables DEF Outcome
  <2>6. db'["templates"] = db["templates"]
    BY <2>3, TemplateTables DEF Done
  <2> HIDE DEF p, R
  <2>7. \/ p.do = "put" /\ v = p.row
        \/ v \in R
        \/ p.do = "update" /\ \E y \in R : v = With(y, p.row) /\ ~y.dead
    BY <2>2, <2>3, <2>5, RowsAfter
  <2>8. CASE p.do = "put" /\ v = p.row
    <3>1. VersionPut(p) /\ Will(q) = {p}
      BY <2>2, <2>3, <2>8 DEF VersionPut
    <3>2. AskedFor(q, VersionWriters) /\ (v.active => AskedFor(q, Activators))
      BY <2>3, <2>4, <2>8 DEF TemplateRole, AskedFor
    <3>3. QED
      BY <2>1, <2>2, <2>6, <2>8, <3>1, <3>2 DEF Written, p
  <2>9. CASE v \in R
    BY <2>9 DEF R, Live
  <2>10. CASE p.do = "update" /\ \E y \in R : v = With(y, p.row) /\ ~y.dead
    <3>1. PICK y \in R : v = With(y, p.row) /\ ~y.dead
      BY <2>10
    <3>2. p.row \in {[dead |-> TRUE], [active |-> FALSE]}
      BY <2>3, <2>4, <2>10 DEF TemplateRole
    <3>3. DOMAIN p.row \subseteq {"dead", "active"}
      BY <3>2
    <3>4. {"id", "template", "active"} \subseteq DOMAIN y
      BY <2>5, TemplateTables DEF RowsOf
    <3>5. v.id = y.id /\ v.template = y.template
      BY <3>1, <3>3, <3>4, WithColumn
    <3>6. ASSUME v.active PROVE y.active
      <4>1. CASE "active" \in DOMAIN p.row
        <5>0. DOMAIN [dead |-> TRUE] = {"dead"} /\ [active |-> FALSE].active = FALSE
          OBVIOUS
        <5>1. p.row = [active |-> FALSE]
          <6>1. p.row # [dead |-> TRUE]
            BY <4>1, <5>0
          <6>2. QED
            BY <3>2, <6>1
        <5>2. p.row.active = FALSE /\ With(y, p.row).active = p.row.active
          <6>1. p.row.active = FALSE
            BY <5>0, <5>1
          <6>2. With(y, p.row)["active"] = p.row["active"]
            BY <4>1, WithSet
          <6>3. QED
            BY <6>1, <6>2
        <5>3. v.active = FALSE
          BY <3>1, <5>2
        <5>4. QED
          BY <3>6, <5>3
      <4>2. CASE "active" \notin DOMAIN p.row
        <5>1. v.active = y.active
          BY <3>1, <3>4, <4>2, WithColumn
        <5>2. QED
          BY <3>6, <5>1, Zenon
      <4>3. QED
        BY <4>1, <4>2
    <3>7. QED
      BY <3>1, <3>5, <3>6 DEF R, Live
  <2>11. QED
    BY <2>7, <2>8, <2>9, <2>10
<1>3. QED
  BY <1>1, <1>2
LEMMA UpdateCarried ==
  ASSUME RecordsInv, NEW q \in Requests, Continue(q), Straight(q), InTurn(todo[q]), NEW c \in Will(q),
         c.do = "update", c.table = "template_versions"
  PROVE  \/ c \in WillOf(q, todo'[q])
         \/ WillOf(q, todo'[q]) = {}
         \/ db'["template_versions"] = Apply(c, db["template_versions"])
<1>1. Outcome(q) /\ Followed(q, c)
  BY OutcomeOfContinue, StraightStep
<1>2. q \in failed' => todo'[q] = << >>
  <2>1. q \notin failed
    BY <1>1 DEF Outcome, RecordsInv, DatabaseTypeOK
  <2>2. QED
    BY <1>1, <2>1 DEF Outcome
<1>3. WillOf(q, << >>) = {}
  BY NoStatement
<1>4. QED
  BY <1>1, <1>2, <1>3 DEF Followed

LEMMA ClearsAll ==
  ASSUME RecordsInv, NEW c, NEW i, Clears(c, i)
  PROVE  \A v \in Apply(c, db["template_versions"]) : ~v.dead => v.template # i
<1> DEFINE R == db["template_versions"]
<1>1. \A x \in R : Fits(x, c.where) <=> x.template = i
  BY DEF Clears, Fits
<1>2. Apply(c, R) = {IF ~x.dead /\ Fits(x, c.where) THEN With(x, c.row) ELSE x : x \in R}
  BY DEF Apply, Clears
<1>3. \A x \in R : With(x, c.row).dead
  <2>1. "dead" \in DOMAIN c.row /\ c.row.dead
    BY DEF Clears
  <2>2. QED
    BY <2>1, DeadWith
<1> HIDE DEF R
<1>4. ASSUME NEW v \in Apply(c, R), ~v.dead PROVE v.template # i
  <2>1. PICK x \in R : v = IF ~x.dead /\ Fits(x, c.where) THEN With(x, c.row) ELSE x
    BY <1>2
  <2>2. CASE ~x.dead /\ Fits(x, c.where)
    <3>1. v = With(x, c.row)
      BY <2>1, <2>2
    <3>2. QED
      BY <1>3, <1>4, <3>1, Zenon
  <2>3. CASE ~(~x.dead /\ Fits(x, c.where))
    <3>1. v = x
      BY <2>1, <2>3
    <3>2. QED
      BY <1>1, <1>4, <2>3, <3>1
  <2>4. QED
    BY <2>2, <2>3
<1>5. QED
  BY <1>4 DEF R

LEMMA DeactivatesAll ==
  ASSUME RecordsInv, NEW c, NEW i, Deactivates(c, i)
  PROVE  \A v \in Apply(c, db["template_versions"]) : ~v.dead /\ v.template = i => ~v.active
<1> DEFINE R == db["template_versions"]
<1>1. \A x \in R : x.template = i /\ x.active => Fits(x, c.where) \/ x.active # TRUE
  <2> DEFINE w == [template |-> i, active |-> TRUE]
  <2>1. c.where = w
    BY DEF Deactivates
  <2>2. DOMAIN w = {"template", "active"} /\ w["template"] = i /\ w["active"] = TRUE
    OBVIOUS
  <2> HIDE DEF w
  <2>3. \A x \in R : x["template"] = i /\ x["active"] = TRUE => Fits(x, w)
    BY <2>2 DEF Fits
  <2>4. QED
    BY <2>1, <2>3
<1>2. Apply(c, R) = {IF ~x.dead /\ Fits(x, c.where) THEN With(x, c.row) ELSE x : x \in R}
  BY DEF Apply, Deactivates
<1>3. \A x \in R : ~With(x, c.row).active
  <2>1. "active" \in DOMAIN c.row /\ c.row["active"] = FALSE
    BY DEF Deactivates
  <2>2. \A x \in R : With(x, c.row)["active"] = FALSE
    BY <2>1, WithSet
  <2>3. QED
    BY <2>2
<1> HIDE DEF R
<1>4. ASSUME NEW v \in Apply(c, R), ~v.dead, v.template = i PROVE ~v.active
  <2>1. PICK x \in R : v = IF ~x.dead /\ Fits(x, c.where) THEN With(x, c.row) ELSE x
    BY <1>2
  <2>2. CASE ~x.dead /\ Fits(x, c.where)
    BY <1>3, <2>1, <2>2
  <2>3. CASE ~(~x.dead /\ Fits(x, c.where))
    BY <1>1, <1>4, <2>1, <2>3
  <2>4. QED
    BY <2>2, <2>3
<1>5. QED
  BY <1>4 DEF R

\* The excuses last.
LEMMA ExcusesStay ==
  ASSUME RecordsInv, NEW q, Outcome(q)
  PROVE  /\ \A o : (TemplateClash(o) => TemplateClash(o)') /\ (ActiveClash(o) => ActiveClash(o)')
         /\ \A K : ResetClash(K) => ResetClash(K)'
         /\ \A r : ResetMet(r) => ResetMet(r)'
<1>1. asked' = asked /\ before' = before
  BY DEF Outcome
<1>2. \A r, s : Overlap(r, s) => Overlap(r, s)'
  BY <1>1 DEF Overlap, Preceded
<1>3. QED
  BY <1>1, <1>2, ClashStays DEF TemplateClash, ActiveClash, ResetClash, ResetMet, AskedFor

LEMMA ResetClashes ==
  ASSUME RecordsInv, NEW q \in Requests, NEW r \in Requests, q # r, todo[q] # << >>, todo[r] # << >>,
         AskedFor(q, {"ResetAll"})
  PROVE  ResetMet(r)
BY Active DEF ResetMet, Overlap

LEMMA MetIsClash ==
  ASSUME NEW r \in Requests, ResetMet(r), NEW K, AskedFor(r, K)
  PROVE  ResetClash(K)
BY DEF ResetMet, ResetClash

\* Who kills a template was asked to.
LEMMA KillerNamed ==
  ASSUME TemplateRoles, TemplatesNamed, NEW r \in Requests, NEW k \in Will(r), Kills(k),
         NEW x \in db["templates"], Fits(x, k.where)
  PROVE  AskedFor(r, {"DeleteTemplate"}) /\ asked[r].on \in {x.name, "all"}
<1>1. TemplateRole(r, asked[r], k) /\ k.table = "templates" /\ k.do = "update"
  BY DEF TemplateRoles, Kills
<1>2. AskedFor(r, {"DeleteTemplate"})
  BY <1>1 DEF TemplateRole, AskedFor
<1>3. CASE asked[r].on # "all"
  <2>1. DOMAIN k.where = {"id"} /\ <<"templates", k.where.id>> \in asked[r].gone
    BY <1>1, <1>3 DEF TemplateRole
  <2>2. x.id = k.where.id
    BY <2>1 DEF Fits
  <2>3. QED
    BY <1>2, <1>3, <2>1, <2>2 DEF TemplatesNamed, Copies
<1>4. QED
  BY <1>2, <1>3

\* Two requests, one of which kills a template that the other writes a version of.
LEMMA KillerClash ==
  ASSUME RecordsInv, TemplateRoles, TemplatesNamed, VersionsNamed,
         NEW r \in Requests, NEW k \in Will(r), Kills(k),
         NEW x \in db["templates"], Fits(x, k.where),
         NEW s \in Requests, NEW p \in Will(s), VersionPut(p), p.row.template = x.id
  PROVE  TemplateClash(x.name)
<1>1. AskedFor(r, {"DeleteTemplate"}) /\ asked[r].on \in {x.name, "all"}
  BY KillerNamed
<1>2. asked[s].on = x.name
  BY DEF VersionsNamed, Copies
<1>3. AskedFor(s, VersionWriters)
  BY DEF TemplateRoles, TemplateRole, VersionPut, AskedFor
<1>4. r # s
  BY <1>1, <1>3 DEF AskedFor, VersionWriters
<1>5. todo[r] # << >> /\ todo[s] # << >>
  BY NothingLeft
<1>6. QED
  BY <1>1, <1>2, <1>3, <1>4, <1>5, RunningClash DEF TemplateClash

\* A version's template stays, unless it is swept away or killed.
LEMMA HomedOn ==
  ASSUME RecordsInv, TemplateRoles, TemplateForms, NEW q \in Requests, Continue(q), NEW i, Homed(i)
  PROVE  \/ Swept(q) \/ Homed(i)'
         \/ \E x \in db["templates"] : x.id = i /\ Killed(q, x) /\ ~TemplateClash(x.name)
<1>1. PICK t \in db["templates"] : t.id = i /\ (t.dead => TemplateClash(t.name))
  BY DEF Homed
<1>2. \/ Swept(q)
      \/ \E y \in db'["templates"] : y.id = t.id /\ y.name = t.name /\ (y.dead => t.dead \/ Killed(q, t))
  BY TemplateFate
<1>3. TemplateClash(t.name) => TemplateClash(t.name)'
  BY OutcomeOfContinue, ExcusesStay
<1>4. ASSUME NEW y \in db'["templates"], y.id = t.id, y.name = t.name, y.dead => t.dead \/ Killed(q, t)
      PROVE  Homed(i)' \/ (Killed(q, t) /\ ~TemplateClash(t.name))
  <2>1. TemplateClash(t.name)' => TemplateClash(y.name)'
    BY <1>4
  <2>2. QED
    BY <1>1, <1>3, <1>4, <2>1 DEF Homed
<1>5. QED
  BY <1>1, <1>2, <1>4

----------------------------------------------------------------------------
(* What a step of a request keeps.                                         *)

LEMMA VersionsNamedOn ==
  ASSUME RecordsInv, TemplateParts, NEW q \in Requests, Continue(q)
  PROVE  VersionsNamed'
<1>1. Outcome(q) /\ asked' = asked
  BY OutcomeOfContinue DEF Outcome
<1>2. TemplateRoles /\ VersionsNamed /\ VersionsBorn
  BY DEF TemplateParts
<1>3. ASSUME NEW r \in Requests, NEW p \in WillOf(r, todo'[r]), VersionPut(p),
             NEW x \in Copies("templates")', x.id = p.row.template
      PROVE  x.name = asked[r].on
  <2>1. p \in Will(r)
    BY <1>1, <1>3 DEF Outcome, ProgramAfter, Records, Will, VersionPut
  <2>2. CASE \E y \in Copies("templates") : Ancestor("templates", x, y)
    BY <1>2, <1>3, <2>1, <2>2, TemplateTables DEF Ancestor, VersionsNamed
  <2>3. CASE Born(q, "templates", x)
    <3>1. x \in db'["templates"] /\ by(x) = q /\ Key("templates", x) \in IdsOf(q, todo[q])
      BY <2>3 DEF Born
    <3>2. r = q
      BY <1>2, <1>3, <2>1, <3>1 DEF VersionsBorn, Out, Key
    <3>3. \A y \in Copies("templates") : y.id # x.id
      BY <3>1, BornUnseen, TemplateTables
    <3>4. Kept("templates", x) \/ Stored(q, "templates", x) \/ Changed(q, "templates", x)
      BY <1>1, <3>1, NewRows, TemplateTables
    <3>5. ~Kept("templates", x)
      BY <3>3 DEF Kept, Copies
    <3>6. ~Changed(q, "templates", x)
      BY <1>1, <3>3, ChangedFrom, TemplateTables DEF Changed, Ancestor, Copies
    <3>7. PICK u \in Will(q) : u.do = "put" /\ u.table = "templates" /\ x = u.row
      BY <3>4, <3>5, <3>6 DEF Stored
    <3>8. TemplateRole(q, asked[q], u) /\ by(u.row) = q
      BY <1>2, <3>1, <3>7 DEF TemplateRoles
    <3>9. u.row.name = asked[q].on
      BY <3>7, <3>8 DEF TemplateRole
    <3>10. QED
      BY <3>2, <3>7, <3>9
  <2>4. QED
    BY <1>1, <1>3, <2>2, <2>3, CopiesOn, TemplateTables
<1>4. QED
  BY <1>1, <1>3 DEF VersionsNamed, Will

LEMMA TemplatesNamedOn ==
  ASSUME RecordsInv, TemplateParts, NEW q \in Requests, Continue(q)
  PROVE  TemplatesNamed'
<1>1. Outcome(q) /\ asked' = asked
  BY OutcomeOfContinue DEF Outcome
<1>2. ASSUME NEW r \in Requests, AskedFor(r, {"DeleteTemplate"}), asked[r].on # "all",
             NEW x \in Copies("templates")', <<"templates", x.id>> \in asked[r].gone
      PROVE  x.name = asked[r].on
  <2>1. CASE \E y \in Copies("templates") : Ancestor("templates", x, y)
    BY <1>2, <2>1, TemplateTables DEF Ancestor, TemplateParts, TemplatesNamed
  <2>2. CASE Born(q, "templates", x)
    <3>1. Key("templates", x) \in IdsOf(q, todo[q])
      BY <2>2 DEF Born
    <3>2. Key("templates", x) \notin asked[r].gone
      BY <3>1, BornUnseen, TemplateTables
    <3>3. QED
      BY <1>2, <3>2 DEF Key
  <2>3. QED
    BY <1>1, <1>2, <2>1, <2>2, CopiesOn, TemplateTables
<1>3. QED
  BY <1>1, <1>2 DEF TemplatesNamed, AskedFor

\* The rows a program of simple statements may insert are those of its primitives.
LEMMA StraightIds ==
  ASSUME NEW r, NEW q, \A s \in Elements(q) : s.do \in Simple, NEW g \in IdsOf(r, q)
  PROVE  \E p \in WillOf(r, q) : p.do = "put" /\ g = <<p.table, p.row.id>>
<1>1. PICK s \in Elements(q) : g \in Ids(r, s)
  BY DEF IdsOf
<1>2. s.do \notin {"collect", "deliver"}
  BY <1>1 DEF Simple
<1>3. PICK p \in Leads(r, s) : p.do = "put" /\ g = <<p.table, p.row.id>>
  BY <1>1, <1>2 DEF Ids
<1>4. QED
  BY <1>1, <1>3 DEF WillOf

LEMMA VersionsBornOn ==
  ASSUME RecordsInv, TemplateParts, NEW q \in Requests, Continue(q)
  PROVE  VersionsBorn'
<1>1. Outcome(q) /\ asked' = asked /\ todo[q] # << >> /\ \A r \in Requests \ {q} : todo'[r] = todo[r]
  BY OutcomeOfContinue DEF Outcome
<1>2. TemplateForms /\ VersionsBorn
  BY DEF TemplateParts
<1>3. /\ IdsOf(q, todo'[q]) \subseteq IdsOf(q, todo[q])
      /\ \A p \in WillOf(q, todo'[q]) : VersionPut(p) => p \in Will(q)
  BY <1>1 DEF Outcome, ProgramAfter, Records, VersionPut
<1>4. /\ \A r : Known(r)' <=> Known(r)
      /\ \A r \in Requests : \A i : Out(i, r) => Out(i, r)'
  BY <1>1, <1>3 DEF Known, Began, Out
<1>5. ASSUME NEW v \in db'["template_versions"]
      PROVE  Known(v.template[1]) /\ \A r \in Requests : Out(v.template, r)'
  <2>1. CASE \E y \in db["template_versions"] : y.template = v.template
    BY <1>2, <1>4, <2>1 DEF VersionsBorn
  <2>2. CASE ~\E y \in db["template_versions"] : y.template = v.template
    <3>1. db'["template_versions"] # db["template_versions"]
      BY <1>5, <2>2
    <3>2. Straight(q) /\ InTurn(todo[q])
      BY <1>2, <3>1, ForkStep DEF TemplateForms
    <3> DEFINE p == Next1(q)
               R == db["template_versions"]
    <3>3. /\ p \in Will(q) /\ Sane(p) /\ (Done(q, p) \/ PutOff(q, p) \/ Denied(p)) /\ Straight(q)'
          /\ VersionPut(p) => Will(q) = {p}
      BY <3>2, StraightStep
    <3>4. Done(q, p) /\ p.table = "template_versions" /\ db'["template_versions"] = Apply(p, R)
      BY <3>1, <3>3, TemplateTables DEF PutOff, Denied, Done
    <3>5. RowsOf("template_versions", R)
      BY <1>1, Situation, TemplateTables
    <3> HIDE DEF p, R
    <3>6. \/ p.do = "put" /\ v = p.row
          \/ v \in R
          \/ p.do = "update" /\ \E y \in R : v = With(y, p.row)
      BY <1>5, <3>3, <3>4, <3>5, RowsAfter
    <3>7. \A y \in R : p.do = "update" => With(y, p.row).template = y.template
      BY <1>1, <3>3, <3>4, ChangedFrom, TemplateTables DEF Ancestor, R
    <3>8. VersionPut(p) /\ v = p.row
      BY <2>2, <3>4, <3>6, <3>7 DEF R, VersionPut
    <3>9. Known(v.template[1]) /\ \A r \in Requests \ {q} : Out(v.template, r)
      BY <1>2, <3>3, <3>8 DEF VersionsBorn
    <3>10. Out(v.template, q)'
      <4>1. \A u \in WillOf(q, todo'[q]) : u.table = "webhook_deliveries" \/ u.table = "template_versions"
        BY <1>1, <3>3, <3>8 DEF Outcome, ProgramAfter, Records, VersionPut
      <4>2. \A s \in Elements(todo'[q]) : s.do \in Simple
        BY <3>3 DEF Straight
      <4>3. ASSUME NEW g \in IdsOf(q, todo'[q]) PROVE g[1] # "templates"
        BY <4>1, <4>2, <4>3, StraightIds
      <4>4. QED
        BY <4>3 DEF Out
    <3>11. QED
      BY <1>4, <3>9, <3>10
  <2>3. QED
    BY <2>1, <2>2
<1>6. ASSUME NEW r \in Requests, NEW p \in WillOf(r, todo'[r]), VersionPut(p)
      PROVE  Known(p.row.template[1]) /\ \A s \in Requests \ {r} : Out(p.row.template, s)'
  <2>1. p \in Will(r)
    BY <1>1, <1>3, <1>6 DEF Will
  <2>2. QED
    BY <1>2, <1>4, <1>6, <2>1 DEF VersionsBorn
<1>7. \A v : Known(v.template[1])' <=> Known(v.template[1])
  BY <1>1 DEF Known, Began
<1>8. \A p : Known(p.row.template[1])' <=> Known(p.row.template[1])
  BY <1>1 DEF Known, Began
<1>9. (\A v \in db["template_versions"] : Known(v.template[1]) /\ \A r \in Requests : Out(v.template, r))'
  BY <1>5, <1>7
<1>10. (\A r \in Requests : \A p \in Will(r) : VersionPut(p) =>
         Known(p.row.template[1]) /\ \A s \in Requests \ {r} : Out(p.row.template, s))'
  BY <1>6, <1>8 DEF Will, VersionPut
<1>11. QED
  BY <1>9, <1>10 DEF VersionsBorn

\* The insertion of a template succeeds, or nothing more is done.
LEMMA StoreCarried ==
  ASSUME RecordsInv, NEW q \in Requests, Continue(q), Straight(q), Insists(q), AskedFor(q, {"CreateTemplate"}),
         NEW u \in Will(q), TemplatePut(u), u \notin WillOf(q, todo'[q]), WillOf(q, todo'[q]) # {}
  PROVE  db'["templates"] = Apply(u, db["templates"])
<1> DEFINE s == Head(todo[q])
           tail == Tail(todo[q])
<1>1. Outcome(q) /\ todo[q] # << >>
  BY OutcomeOfContinue DEF Outcome
<1>2. s \in Elements(todo[q]) /\ s.do \in Simple
  BY <1>1, Situation DEF Straight
<1>3. Will(q) = {Prim(s)} \cup WillOf(q, tail)
  BY <1>1, <1>2, Situation, LeadsOfSimple
<1>4. WillOf(q, << >>) = {}
  BY NoStatement
<1>5. Applied(q, s) \/ Missed(q, s) \/ Refused(q, s)
  BY <1>2, SimpleStep
<1>6. CASE Applied(q, s)
  <2>1. u = Prim(s)
    BY <1>3, <1>6 DEF Applied
  <2>2. s.table = "templates"
    BY <1>2, <2>1, PrimOf DEF TemplatePut
  <2>3. QED
    BY <1>6, <2>1, <2>2 DEF Applied
<1>7. CASE Refused(q, s)
  <2>1. todo'[q] = tail /\ ~s.strict
    BY <1>4, <1>7 DEF Refused
  <2>2. u = Prim(s)
    BY <1>3, <2>1
  <2>3. s.table = "templates"
    BY <1>2, <2>2, PrimOf DEF TemplatePut
  <2>4. QED
    BY <1>2, <2>1, <2>3 DEF Insists
<1>8. CASE Missed(q, s)
  <2> DEFINE v == [s EXCEPT !.do = "put"]
  <2>1. s.do = "save" /\ {"do", "table", "row"} \subseteq DOMAIN s
    BY <1>1, <1>8, Situation DEF Missed, Piece, Statement, Simple, Invalid
  <2>2. v.do = "put" /\ v.table = s.table /\ v.row = s.row
    BY <2>1
  <2>3. todo'[q] = <<v>> \o tail
    BY <1>8 DEF Missed
  <2>4. IsSequence(tail)
    BY <1>1, Situation DEF Program, Sequel
  <2> HIDE DEF v, tail
  <2>5. Prim(v) = Prim(s) /\ v.do \in Simple
    BY <2>1, <2>2 DEF Prim, Simple
  <2>6. IsSequence(<<v>>) /\ Elements(<<v>>) = {v}
    BY ElementsOfTuples
  <2>7. Elements(<<v>> \o tail) = {v} \cup Elements(tail)
    BY <2>4, <2>6, ConcatOf
  <2>8. Leads(q, v) = {Prim(s)}
    BY <2>5, LeadsOfSimple
  <2>9. WillOf(q, todo'[q]) = {Prim(s)} \cup WillOf(q, tail)
    BY <2>3, <2>7, <2>8 DEF WillOf
  <2>10. QED
    BY <1>3, <2>9
<1>9. QED
  BY <1>5, <1>6, <1>7, <1>8

\* Every version that is there or new, and what it was.
LEMMA VersionsHomedOn ==
  ASSUME RecordsInv, TemplateParts, NEW q \in Requests, Continue(q)
  PROVE  VersionsHomed'
<1>1. Outcome(q) /\ asked' = asked /\ todo[q] # << >> /\ \A r \in Requests \ {q} : todo'[r] = todo[r]
  BY OutcomeOfContinue DEF Outcome
<1>2. /\ TemplateRoles /\ TemplateForms /\ VersionsNamed /\ TemplatesNamed
      /\ VersionsHomed /\ VersionsCleared /\ VersionsEmptied
  BY DEF TemplateParts
<1>3. /\ \A K : ResetClash(K) => ResetClash(K)'
      /\ \A r : ResetMet(r) => ResetMet(r)'
      /\ \A o : TemplateClash(o) => TemplateClash(o)'
  BY <1>1, ExcusesStay
<1>4. ASSUME NEW v \in db'["template_versions"], ~v.dead
      PROVE  ResetClash(VersionWriters)' \/ Homed(v.template)'
  <2>1. CASE \E y \in Live("template_versions") : y.template = v.template
    <3>1. PICK y \in Live("template_versions") : y.template = v.template
      BY <2>1
    <3>2. ResetClash(VersionWriters) \/ Homed(v.template)
      BY <1>2, <3>1 DEF VersionsHomed
    <3>3. CASE Swept(q)
      <4>1. Next1(q) # Purge("template_versions", All) /\ AskedFor(q, {"ResetAll"})
        BY <3>3 DEF Swept, Purge
      <4>2. QED
        BY <1>1, <1>2, <1>3, <3>1, <4>1 DEF VersionsEmptied
    <3>4. CASE \E x \in db["templates"] : x.id = v.template /\ Killed(q, x) /\ ~TemplateClash(x.name)
      <4>1. PICK x \in db["templates"] : x.id = y.template /\ Killed(q, x) /\ ~TemplateClash(x.name)
        BY <3>1, <3>4
      <4>2. Kills(Next1(q)) /\ Will(q) = {Next1(q)} /\ Fits(x, Next1(q).where)
        BY <4>1 DEF Killed
      <4>3. (\E c \in Will(q) : Clears(c, x.id)) \/ ResetClash(VersionWriters)
        BY <1>2, <3>1, <4>1, <4>2 DEF VersionsCleared
      <4>4. ~\E c \in Will(q) : Clears(c, x.id)
        BY <4>2 DEF Kills, Clears
      <4>5. QED
        BY <1>3, <4>3, <4>4
    <3>5. QED
      BY <1>2, <1>3, <3>2, <3>3, <3>4, HomedOn
  <2>2. CASE Written(q, v)
    <3> DEFINE p == Next1(q)
    <3>1. /\ VersionPut(p) /\ p \in Will(q) /\ Will(q) = {p} /\ v = p.row /\ db'["templates"] = db["templates"]
          /\ AskedFor(q, VersionWriters)
      BY <2>2 DEF Written
    <3>2. Storing(q) \/ ResetMet(q) \/ Homed(v.template)
      BY <1>2, <3>1 DEF VersionsHomed
    <3>3. ~Storing(q)
      BY <3>1 DEF Storing, TemplatePut, VersionPut
    <3>4. ResetMet(q) => ResetClash(VersionWriters)
      BY <3>1, MetIsClash
    <3>5. Homed(v.template) => Homed(v.template)'
      BY <1>3, <3>1 DEF Homed
    <3>6. QED
      BY <1>3, <3>2, <3>3, <3>4, <3>5
  <2>3. QED
    BY <1>2, <1>4, <2>1, <2>2, VersionFrom
<1>5. ASSUME NEW r \in Requests, NEW p \in WillOf(r, todo'[r]), VersionPut(p)
      PROVE  (\E u \in WillOf(r, todo'[r]) : TemplatePut(u)) \/ ResetMet(r)' \/ Homed(p.row.template)'
  <2>1. p \in Will(r) /\ todo[r] # << >>
    <3>1. p \in Will(r)
      BY <1>1, <1>5 DEF Outcome, ProgramAfter, Records, Will, VersionPut
    <3>2. QED
      BY <3>1, NothingLeft
  <2>2. Storing(r) \/ ResetMet(r) \/ Homed(p.row.template)
    BY <1>2, <1>5, <2>1 DEF VersionsHomed
  <2>3. TemplateRole(r, asked[r], p) /\ AskedFor(r, VersionWriters)
    BY <1>2, <1>5, <2>1 DEF TemplateRoles, TemplateRole, VersionPut, AskedFor
  <2>4. CASE Homed(p.row.template)
    <3>1. CASE Swept(q)
      <4>1. q # r /\ AskedFor(q, {"ResetAll"})
        BY <2>3, <3>1 DEF Swept, AskedFor, VersionWriters
      <4>2. QED
        BY <1>1, <1>3, <2>1, <4>1, ResetClashes
    <3>2. CASE \E x \in db["templates"] : x.id = p.row.template /\ Killed(q, x) /\ ~TemplateClash(x.name)
      <4>1. PICK x \in db["templates"] : x.id = p.row.template /\ Killed(q, x) /\ ~TemplateClash(x.name)
        BY <3>2
      <4>2. Kills(Next1(q)) /\ Next1(q) \in Will(q) /\ Fits(x, Next1(q).where)
        BY <4>1 DEF Killed
      <4>3. TemplateClash(x.name)
        BY <1>2, <1>5, <2>1, <4>1, <4>2, KillerClash
      <4>4. QED
        BY <4>1, <4>3
    <3>3. QED
      BY <1>2, <2>4, <3>1, <3>2, HomedOn
  <2>5. CASE Storing(r) /\ r # q
    <3>1. todo'[r] = todo[r]
      BY <1>1, <2>5
    <3>2. QED
      BY <2>5, <3>1 DEF Storing, Will
  <2>6. CASE Storing(r) /\ r = q
    <3>1. PICK u \in Will(q) : TemplatePut(u)
      BY <2>6 DEF Storing
    <3>2. TemplateRole(q, asked[q], u) /\ u.do = "put" /\ u.table = "templates"
      BY <1>2, <3>1 DEF TemplateRoles, TemplatePut
    <3>3. AskedFor(q, {"CreateTemplate"}) /\ u.row.id = <<q, 1>> /\ p.row.template = <<q, 1>>
      BY <1>5, <2>3, <2>6, <3>2 DEF TemplateRole, AskedFor, VersionWriters, VersionPut
    <3>4. Straight(q) /\ InTurn(todo[q])
      BY <1>2, <3>3 DEF TemplateForms, Forks, AskedFor
    <3>5. CASE u \in WillOf(q, todo'[q])
      BY <2>6, <3>1, <3>5
    <3>6. CASE u \notin WillOf(q, todo'[q])
      <4>1. db'["templates"] = Apply(u, db["templates"])
        BY <1>2, <1>5, <2>6, <3>1, <3>3, <3>4, <3>6, StoreCarried DEF TemplateForms
      <4>2. Sane(u)
        BY <1>1, <3>1, Situation
      <4>3. u.row \in db'["templates"] /\ ~u.row.dead
        BY <3>2, <4>1, <4>2 DEF Apply, Put, Sane
      <4>4. QED
        BY <3>3, <4>3 DEF Homed
    <3>7. QED
      BY <3>5, <3>6
  <2>7. QED
    BY <1>3, <2>2, <2>4, <2>5, <2>6
<1>6. (\A v \in Live("template_versions") : ResetClash(VersionWriters) \/ Homed(v.template))'
  BY <1>4 DEF Live
<1>7. (\A r \in Requests : \A p \in Will(r) : VersionPut(p) =>
        Storing(r) \/ ResetMet(r) \/ Homed(p.row.template))'
  BY <1>5 DEF Will, VersionPut, Storing, TemplatePut
<1>8. QED
  BY <1>6, <1>7 DEF VersionsHomed

LEMMA KillFits ==
  ASSUME TemplateRoles, NEW r \in Requests, NEW k \in Will(r), Kills(k), NEW x, NEW y, x.id = y.id, Fits(y, k.where)
  PROVE  Fits(x, k.where)
<1>1. TemplateRole(r, asked[r], k) /\ k.table = "templates" /\ k.do = "update"
  BY DEF TemplateRoles, Kills
<1>2. CASE k.where = All
  BY <1>2, NothingFits
<1>3. CASE DOMAIN k.where = {"id"}
  BY <1>3 DEF Fits
<1>4. QED
  BY <1>1, <1>2, <1>3 DEF TemplateRole

LEMMA VersionsClearedOn ==
  ASSUME RecordsInv, TemplateParts, NEW q \in Requests, Continue(q)
  PROVE  VersionsCleared'
<1>1. Outcome(q) /\ asked' = asked /\ todo[q] # << >> /\ \A r \in Requests \ {q} : todo'[r] = todo[r]
  BY OutcomeOfContinue DEF Outcome
<1>2. /\ TemplateRoles /\ TemplateForms /\ VersionsNamed /\ TemplatesNamed
      /\ VersionsHomed /\ VersionsCleared
  BY DEF TemplateParts
<1>3. /\ \A K : ResetClash(K) => ResetClash(K)'
      /\ \A o : TemplateClash(o) => TemplateClash(o)'
  BY <1>1, ExcusesStay
<1>4. ASSUME NEW r \in Requests, NEW k \in WillOf(r, todo'[r]), Kills(k),
             NEW v \in db'["template_versions"], ~v.dead, NEW t \in db'["templates"],
             t.id = v.template, Fits(t, k.where)
      PROVE  (\E c \in WillOf(r, todo'[r]) : Clears(c, t.id)) \/ TemplateClash(t.name)' \/ ResetClash(VersionWriters)'
  <2>1. k \in Will(r)
    BY <1>1, <1>4 DEF Outcome, ProgramAfter, Records, Will, Kills
  <2>2. AskedFor(r, {"DeleteTemplate"})
    BY <1>2, <1>4, <2>1 DEF TemplateRoles, TemplateRole, Kills, AskedFor
  <2>3. CASE Written(q, v)
    <3> DEFINE p == Next1(q)
    <3>1. VersionPut(p) /\ p \in Will(q) /\ v = p.row /\ t \in db["templates"]
      BY <1>4, <2>3 DEF Written
    <3> HIDE DEF p
    <3>2. TemplateClash(t.name)
      BY <1>2, <1>4, <2>1, <3>1, KillerClash
    <3>3. QED
      BY <1>3, <3>2
  <2>4. CASE \E y \in Live("template_versions") : y.template = v.template
    <3>1. PICK y \in Live("template_versions") : y.template = v.template
      BY <2>4
    <3>2. CASE \E x \in db["templates"] : x.id = t.id /\ x.name = t.name
      <4>1. PICK x \in db["templates"] : x.id = t.id /\ x.name = t.name
        BY <3>2
      <4>2. Fits(x, k.where)
        BY <1>2, <1>4, <2>1, <4>1, KillFits
      <4>3. (\E c \in Will(r) : Clears(c, t.id)) \/ TemplateClash(t.name) \/ ResetClash(VersionWriters)
        <5>1. (\E c \in Will(r) : Clears(c, x.id)) \/ TemplateClash(x.name) \/ ResetClash(VersionWriters)
          BY <1>2, <1>4, <2>1, <3>1, <4>1, <4>2 DEF VersionsCleared
        <5>2. TemplateClash(x.name) => TemplateClash(t.name)
          BY <4>1
        <5>3. QED
          BY <4>1, <5>1, <5>2
      <4>4. ASSUME NEW c \in Will(r), Clears(c, t.id) PROVE c \in WillOf(r, todo'[r])
        <5>1. CASE r # q
          BY <1>1, <4>4, <5>1 DEF Will
        <5>2. CASE r = q
          <6>1. Straight(q) /\ InTurn(todo[q])
            BY <1>2, <2>2, <5>2 DEF TemplateForms, Forks, AskedFor
          <6>2. \/ c \in WillOf(q, todo'[q])
                \/ WillOf(q, todo'[q]) = {}
                \/ db'["template_versions"] = Apply(c, db["template_versions"])
            BY <4>4, <5>2, <6>1, UpdateCarried DEF Clears
          <6>3. db'["template_versions"] # Apply(c, db["template_versions"])
            BY <1>4, <4>4, ClearsAll
          <6>4. QED
            BY <1>4, <5>2, <6>2, <6>3
        <5>3. QED
          BY <5>1, <5>2
      <4>5. QED
        BY <1>3, <4>3, <4>4
    <3>3. CASE \A x \in db["templates"] : x.id # t.id
      <4>1. ~Homed(y.template)
        BY <1>4, <3>1, <3>3 DEF Homed
      <4>2. QED
        BY <1>2, <1>3, <3>1, <4>1 DEF VersionsHomed
    <3>4. QED
      BY <1>2, <1>4, <3>2, <3>3, TemplateFrom
  <2>5. QED
    BY <1>2, <1>4, <2>3, <2>4, VersionFrom
<1>5. QED
  BY <1>4 DEF VersionsCleared, Will, Live, Kills, Clears

LEMMA VersionsEmptiedOn ==
  ASSUME RecordsInv, TemplateParts, NEW q \in Requests, Continue(q)
  PROVE  VersionsEmptied'
<1> DEFINE first == Purge("template_versions", All)
<1>1. Outcome(q) /\ asked' = asked /\ todo[q] # << >> /\ \A r \in Requests \ {q} : todo'[r] = todo[r]
  BY OutcomeOfContinue DEF Outcome
<1>2. TemplateRoles /\ TemplateForms /\ VersionsEmptied
  BY DEF TemplateParts
<1>3. \A K : ResetClash(K) => ResetClash(K)'
  BY <1>1, ExcusesStay
<1>4. ASSUME NEW r \in Requests, todo'[r] # << >>, AskedFor(r, {"ResetAll"}), Next1(r)' # first,
             NEW v \in db'["template_versions"], ~v.dead
      PROVE  ResetClash(VersionWriters)' /\ (v.active => ResetClash(Activators)')
  <2>1. todo[r] # << >>
    BY <1>1, <1>4
  <2>2. CASE Next1(r) # first
    <3>1. CASE Written(q, v)
      <4>1. AskedFor(q, VersionWriters) /\ (v.active => AskedFor(q, Activators))
        BY <3>1 DEF Written
      <4>2. r # q
        BY <1>4, <4>1 DEF AskedFor, VersionWriters
      <4>3. ResetMet(q)
        BY <1>1, <1>4, <2>1, <4>2, ResetClashes
      <4>4. QED
        BY <1>3, <4>1, <4>3, MetIsClash
    <3>2. CASE \E y \in Live("template_versions") : v.active => y.active
      BY <1>2, <1>3, <1>4, <2>1, <2>2, <3>2 DEF VersionsEmptied
    <3>3. QED
      BY <1>2, <1>4, <3>1, <3>2, VersionFrom
  <2>3. CASE Next1(r) = first /\ r # q
    BY <1>1, <1>4, <2>3 DEF Next1
  <2>4. CASE Next1(r) = first /\ r = q
    <3>1. Straight(q) /\ InTurn(todo[q])
      BY <1>2, <1>4, <2>4 DEF TemplateForms, Forks, AskedFor
    <3>2. first.do = "purge" /\ first.table = "template_versions" /\ first.where = All
      BY DEF Purge
    <3>3. Done(q, Next1(q)) \/ PutOff(q, Next1(q)) \/ Denied(Next1(q))
      BY <3>1, StraightStep
    <3>4. db'["template_versions"] = Apply(first, db["template_versions"])
      BY <2>4, <3>2, <3>3 DEF Done, PutOff, Denied
    <3>5. v \notin db'["template_versions"]
      BY <3>2, <3>4, NothingFits DEF Apply
    <3>6. QED
      BY <1>4, <3>5
  <2>5. QED
    BY <2>2, <2>3, <2>4
<1>5. (AskedFor(q, {"ResetAll"})' <=> AskedFor(q, {"ResetAll"})) /\ first' = first
      /\ \A r : AskedFor(r, {"ResetAll"})' <=> AskedFor(r, {"ResetAll"})
  BY <1>1 DEF AskedFor, Purge
<1> HIDE DEF first
<1>6. \A r \in Requests : todo'[r] # << >> /\ AskedFor(r, {"ResetAll"})' =>
        \/ Next1(r)' = first
        \/ \A v \in Live("template_versions")' : ResetClash(VersionWriters)' /\ (v.active => ResetClash(Activators)')
  BY <1>4, <1>5 DEF Live
<1>7. QED
  BY <1>6 DEF VersionsEmptied, first, Purge

LEMMA PardonedOn ==
  ASSUME RecordsInv, TemplateParts, NEW q \in Requests, Continue(q), NEW y \in Live("template_versions"),
         y.active, Pardoned(y.template)
  PROVE  Pardoned(y.template)'
<1>1. Outcome(q) /\ todo[q] # << >>
  BY OutcomeOfContinue DEF Outcome
<1>2. TemplateRoles /\ TemplateForms /\ VersionsEmptied
  BY DEF TemplateParts
<1>3. /\ ResetClash(Activators) => ResetClash(Activators)'
      /\ \A o : ActiveClash(o) => ActiveClash(o)'
  BY <1>1, ExcusesStay
<1>4. CASE ResetClash(Activators)
  BY <1>3, <1>4 DEF Pardoned
<1>5. CASE \E t \in db["templates"] : t.id = y.template /\ ActiveClash(t.name)
  <2>1. PICK t \in db["templates"] : t.id = y.template /\ ActiveClash(t.name)
    BY <1>5
  <2>2. CASE Swept(q)
    <3>1. Next1(q) # Purge("template_versions", All) /\ AskedFor(q, {"ResetAll"})
      BY <2>2 DEF Swept, Purge
    <3>2. ResetClash(Activators)
      BY <1>1, <1>2, <3>1 DEF VersionsEmptied
    <3>3. QED
      BY <1>3, <3>2 DEF Pardoned
  <2>3. CASE \E x \in db'["templates"] : x.id = t.id /\ x.name = t.name
    <3>1. PICK x \in db'["templates"] : x.id = t.id /\ x.name = t.name
      BY <2>3
    <3>2. ActiveClash(x.name)'
      BY <1>3, <2>1, <3>1
    <3>3. QED
      BY <2>1, <3>1, <3>2 DEF Pardoned
  <2>4. QED
    BY <1>2, <2>2, <2>3, TemplateFate
<1>6. QED
  BY <1>4, <1>5 DEF Pardoned

\* What excuses a version that q is about to put excuses it when it is there.
LEMMA PardonedByWriter ==
  ASSUME RecordsInv, TemplateParts, NEW q \in Requests, Continue(q), NEW v, Written(q, v), v.active,
         ActiveClash(asked[q].on) \/ ResetClash(Activators)
  PROVE  Pardoned(v.template)'
<1>1. Outcome(q) /\ todo[q] # << >>
  BY OutcomeOfContinue DEF Outcome
<1>2. VersionsNamed /\ VersionsHomed
  BY DEF TemplateParts
<1>3. /\ ResetClash(Activators) => ResetClash(Activators)'
      /\ \A o : ActiveClash(o) => ActiveClash(o)'
  BY <1>1, ExcusesStay
<1> DEFINE p == Next1(q)
<1>4. /\ VersionPut(p) /\ p \in Will(q) /\ Will(q) = {p} /\ v = p.row /\ db'["templates"] = db["templates"]
      /\ AskedFor(q, Activators)
  BY DEF Written
<1> HIDE DEF p
<1>5. Storing(q) \/ ResetMet(q) \/ Homed(v.template)
  BY <1>2, <1>4 DEF VersionsHomed
<1>6. ~Storing(q)
  BY <1>4 DEF Storing, TemplatePut, VersionPut
<1>7. CASE ResetMet(q) \/ ResetClash(Activators)
  BY <1>3, <1>4, <1>7, MetIsClash DEF Pardoned
<1>8. CASE Homed(v.template) /\ ActiveClash(asked[q].on)
  <2>1. PICK t \in db["templates"] : t.id = v.template
    BY <1>8 DEF Homed
  <2>2. t.name = asked[q].on
    BY <1>2, <1>4, <2>1 DEF VersionsNamed, Copies
  <2>3. ActiveClash(t.name)'
    BY <1>3, <1>8, <2>2
  <2>4. QED
    BY <1>4, <2>1, <2>3 DEF Pardoned
<1>9. QED
  BY <1>5, <1>6, <1>7, <1>8

LEMMA ActiveAloneOn ==
  ASSUME RecordsInv, TemplateParts, NEW q \in Requests, Continue(q)
  PROVE  ActiveAlone'
<1>1. Outcome(q) /\ todo[q] # << >>
  BY OutcomeOfContinue DEF Outcome
<1>2. TemplateRoles /\ TemplateForms /\ ActiveAlone /\ ActiveComing
  BY DEF TemplateParts
<1>3. ASSUME NEW a, NEW y \in Live("template_versions"), Written(q, a), a.active, y.active,
             a.template = y.template, a.id # y.id
      PROVE  Pardoned(a.template)'
  <2> DEFINE p == Next1(q)
  <2>1. VersionPut(p) /\ p \in Will(q) /\ Will(q) = {p} /\ a = p.row
    BY <1>3 DEF Written
  <2>2. \/ \E d \in Will(q) : Deactivates(d, p.row.template)
        \/ Solo(p.row.template, p.row.id)
        \/ ActiveClash(asked[q].on) \/ ResetClash(Activators)
    BY <1>2, <1>3, <2>1 DEF ActiveComing
  <2>3. ~\E d \in Will(q) : Deactivates(d, p.row.template)
    BY <2>1 DEF VersionPut, Deactivates
  <2>4. ~Solo(p.row.template, p.row.id)
    BY <1>3, <2>1 DEF Solo
  <2>5. QED
    BY <1>3, <2>2, <2>3, <2>4, PardonedByWriter
<1>4. ASSUME NEW a \in db'["template_versions"], ~a.dead, NEW b \in db'["template_versions"], ~b.dead,
             a.active, b.active, a.template = b.template, a.id # b.id
      PROVE  Pardoned(a.template)'
  <2>1. CASE Written(q, a) /\ Written(q, b)
    BY <1>4, <2>1 DEF Written
  <2>2. CASE \E x, y \in Live("template_versions") :
               /\ x.id = a.id /\ x.template = a.template /\ x.active
               /\ y.id = b.id /\ y.template = b.template /\ y.active
    <3>1. PICK x, y \in Live("template_versions") :
                 /\ x.id = a.id /\ x.template = a.template /\ x.active
                 /\ y.id = b.id /\ y.template = b.template /\ y.active
      BY <2>2
    <3>2. Pardoned(x.template)
      BY <1>2, <1>4, <3>1 DEF ActiveAlone
    <3>3. Pardoned(x.template)'
      BY <3>1, <3>2, PardonedOn
    <3>4. QED
      BY <3>1, <3>3
  <2>3. CASE Written(q, a) /\ \E y \in Live("template_versions") : y.id = b.id /\ y.template = b.template /\ y.active
    BY <1>3, <1>4, <2>3
  <2>4. CASE Written(q, b) /\ \E x \in Live("template_versions") : x.id = a.id /\ x.template = a.template /\ x.active
    <3>1. Pardoned(b.template)'
      BY <1>3, <1>4, <2>4
    <3>2. QED
      BY <1>4, <3>1
  <2>5. /\ Written(q, a) \/ \E x \in Live("template_versions") : x.id = a.id /\ x.template = a.template /\ x.active
        /\ Written(q, b) \/ \E y \in Live("template_versions") : y.id = b.id /\ y.template = b.template /\ y.active
    BY <1>2, <1>4, VersionFrom
  <2>6. QED
    BY <2>1, <2>2, <2>3, <2>4, <2>5
<1>5. QED
  BY <1>4 DEF ActiveAlone, Live

LEMMA ActiveComingOn ==
  ASSUME RecordsInv, TemplateParts, NEW q \in Requests, Continue(q)
  PROVE  ActiveComing'
<1>1. Outcome(q) /\ asked' = asked /\ todo[q] # << >> /\ \A r \in Requests \ {q} : todo'[r] = todo[r]
  BY OutcomeOfContinue DEF Outcome
<1>2. /\ TemplateRoles /\ TemplateForms /\ VersionsNamed /\ VersionsBorn
      /\ VersionsHomed /\ ActiveComing
  BY DEF TemplateParts
<1>3. /\ ResetClash(Activators) => ResetClash(Activators)'
      /\ \A o : ActiveClash(o) => ActiveClash(o)'
  BY <1>1, ExcusesStay
<1> DEFINE Alone(i, n) == \A x \in db'["template_versions"] : ~x.dead /\ x.active /\ x.template = i => x.id = n
<1>4. ASSUME NEW r \in Requests, NEW u \in WillOf(r, todo'[r]), VersionPut(u), u.row.active
      PROVE  \/ \E d \in WillOf(r, todo'[r]) : Deactivates(d, u.row.template)
             \/ Alone(u.row.template, u.row.id)
             \/ ActiveClash(asked[r].on)' \/ ResetClash(Activators)'
  <2> DEFINE i == u.row.template
             n == u.row.id
  <2>1. u \in Will(r) /\ todo[r] # << >>
    <3>1. u \in Will(r)
      BY <1>1, <1>4 DEF Outcome, ProgramAfter, Records, Will, VersionPut
    <3>2. QED
      BY <3>1, NothingLeft
  <2>2. TemplateRole(r, asked[r], u) /\ AskedFor(r, Activators) /\ AskedFor(r, VersionWriters)
    BY <1>2, <1>4, <2>1 DEF TemplateRoles, TemplateRole, VersionPut, AskedFor
  <2>3. \/ \E d \in Will(r) : Deactivates(d, i)
        \/ Solo(i, n)
        \/ ActiveClash(asked[r].on) \/ ResetClash(Activators)
    BY <1>2, <1>4, <2>1 DEF ActiveComing
  <2>4. CASE r = q /\ Forks(q)
    BY <1>2, <1>4, <2>4, ForkStep DEF Guarded
  <2>5. CASE (\E d \in Will(r) : Deactivates(d, i)) /\ r # q
    BY <1>1, <2>5 DEF Will
  <2>6. CASE (\E d \in Will(r) : Deactivates(d, i)) /\ r = q /\ ~Forks(q)
    <3>1. PICK d \in Will(q) : Deactivates(d, i)
      BY <2>6
    <3>2. Straight(q) /\ InTurn(todo[q])
      BY <1>2, <2>6 DEF TemplateForms
    <3>3. \/ d \in WillOf(q, todo'[q])
          \/ WillOf(q, todo'[q]) = {}
          \/ db'["template_versions"] = Apply(d, db["template_versions"])
      BY <3>1, <3>2, UpdateCarried DEF Deactivates
    <3>4. ASSUME db'["template_versions"] = Apply(d, db["template_versions"]) PROVE Alone(i, n)
      BY <3>1, <3>4, DeactivatesAll
    <3>5. QED
      BY <1>4, <2>6, <3>1, <3>3, <3>4
  <2>7. CASE Solo(i, n)
    <3>1. ASSUME NEW x \in db'["template_versions"], ~x.dead, x.active, x.template = i, x.id # n
          PROVE  ActiveClash(asked[r].on) \/ ResetClash(Activators)
      <4>1. ~\E y \in Live("template_versions") : y.id = x.id /\ y.template = x.template /\ (x.active => y.active)
        BY <2>7, <3>1 DEF Solo
      <4>2. Written(q, x)
        BY <1>2, <3>1, <4>1, VersionFrom
      <4> DEFINE p == Next1(q)
      <4>3. VersionPut(p) /\ p \in Will(q) /\ Will(q) = {p} /\ x = p.row /\ AskedFor(q, Activators)
        BY <3>1, <4>2 DEF Written
      <4> HIDE DEF p
      <4>4. q # r
        BY <2>1, <3>1, <4>3
      <4>5. Storing(r) \/ ResetMet(r) \/ Homed(i)
        BY <1>2, <1>4, <2>1 DEF VersionsHomed
      <4>6. ~Storing(r)
        <5>1. ASSUME NEW w \in Will(r), TemplatePut(w) PROVE FALSE
          <6>1. TemplateRole(r, asked[r], w) /\ w.do = "put" /\ w.table = "templates"
            BY <1>2, <5>1 DEF TemplateRoles, TemplatePut
          <6>2. AskedFor(r, {"CreateTemplate"}) /\ w.row.id = <<r, 1>> /\ i = <<r, 1>>
            BY <1>4, <2>2, <6>1 DEF TemplateRole, AskedFor, VersionWriters, VersionPut
          <6>3. Key("templates", w.row) \in IdsOf(r, todo[r])
            BY <6>1, <6>2, MineIsUnborn DEF Will, by
          <6>4. ~Out(i, r)
            BY <6>2, <6>3 DEF Out, Key
          <6>5. Out(p.row.template, r)
            BY <1>2, <4>3, <4>4 DEF VersionsBorn
          <6>6. QED
            BY <3>1, <4>3, <6>4, <6>5
        <5>2. QED
          BY <5>1 DEF Storing
      <4>7. CASE ResetMet(r)
        BY <2>2, <4>7, MetIsClash
      <4>8. CASE Homed(i)
        <5>1. PICK t \in db["templates"] : t.id = i
          BY <4>8 DEF Homed
        <5>2. t.name = asked[r].on /\ t.name = asked[q].on
          BY <1>2, <1>4, <2>1, <3>1, <4>3, <5>1 DEF VersionsNamed, Copies
        <5>3. asked[q].on \in {asked[r].on, "all"} /\ asked[r].on \in {asked[r].on, "all"}
          BY <5>2
        <5>4. Clash(Activators, Activators, asked[r].on)
          BY <1>1, <2>1, <2>2, <4>3, <4>4, <5>3, RunningClash
        <5>5. QED
          BY <5>4 DEF ActiveClash
      <4>9. QED
        BY <4>5, <4>6, <4>7, <4>8
    <3>2. Alone(i, n) \/ ActiveClash(asked[r].on) \/ ResetClash(Activators)
      BY <3>1
    <3> HIDE DEF Alone
    <3>3. QED
      BY <1>1, <1>3, <3>2
  <2>8. CASE ActiveClash(asked[r].on) \/ ResetClash(Activators)
    BY <1>1, <1>3, <2>8
  <2>9. QED
    BY <2>3, <2>4, <2>5, <2>6, <2>7, <2>8
<1>5. QED
  BY <1>4 DEF ActiveComing, Will, Live, Solo, VersionPut, Deactivates

----------------------------------------------------------------------------
(* The limits.  Counting sets of ids needs no set of what is to come: it is *)
(* enough that some set within the limit holds them all.                   *)

\* What a step leaves was there, or is put by it.
LEMMA LiveFrom ==
  ASSUME RecordsInv, NEW q, Outcome(q), NEW t \in Tables, NEW x \in db'[t], ~x.dead
  PROVE  \/ \E y \in Live(t) : Ancestor(t, x, y)
         \/ \E p \in Will(q) : p.do = "put" /\ p.table = t /\ x = p.row
<1>1. Kept(t, x) \/ Stored(q, t, x) \/ Changed(q, t, x)
  BY NewRows
<1>2. CASE Kept(t, x)
  BY <1>2 DEF Kept, Live, Ancestor
<1>3. CASE Stored(q, t, x)
  BY <1>3 DEF Stored
<1>4. CASE Changed(q, t, x)
  <2>1. PICK p \in Will(q), y \in db[t] : p.do = "update" /\ p.table = t /\ ~y.dead /\ x = With(y, p.row)
    BY <1>4 DEF Changed
  <2>2. Ancestor(t, x, y)
    BY <2>1, ChangedFrom
  <2>3. QED
    BY <2>1, <2>2 DEF Live
<1>5. QED
  BY <1>1, <1>2, <1>3, <1>4

\* Rows of different ids are no more than the ids, and the other way round.
LEMMA IdsBound ==
  ASSUME NEW R, \A x, y \in R : x.id = y.id => x = y, NEW S, IsFiniteSet(S), \A x \in R : x.id \in S
  PROVE  IsFiniteSet(R) /\ Cardinality(R) <= Cardinality(S)
<1> DEFINE f == [x \in R |-> x.id]
<1>1. f \in [R -> S] /\ \A x, y \in R : f[x] = f[y] => x = y
  OBVIOUS
<1> HIDE DEF f
<1>2. f \in Injection(R, S)
  BY <1>1 DEF Injection, IsInjective
<1>3. QED
  BY <1>2, FS_Injection

LEMMA IdsOfRows ==
  ASSUME NEW R, IsFiniteSet(R)
  PROVE  IsFiniteSet({x.id : x \in R}) /\ Cardinality({x.id : x \in R}) <= Cardinality(R)
<1> DEFINE T == {x.id : x \in R}
           f == [x \in R |-> x.id]
<1>1. f \in [R -> T] /\ \A i \in T : \E x \in R : f[x] = i
  OBVIOUS
<1> HIDE DEF f, T
<1>2. f \in Surjection(R, T)
  BY <1>1 DEF Surjection
<1>3. IsFiniteSet(T) /\ Cardinality(T) <= Cardinality(R)
  BY <1>2, FS_Surjection
<1>4. QED
  BY <1>3 DEF T

LEMMA OneMore ==
  ASSUME NEW R, IsFiniteSet(R), NEW i, NEW n \in Nat, Cardinality(R) < n
  PROVE  Room({x.id : x \in R} \cup {i}, n)
<1> DEFINE T == {x.id : x \in R}
<1>1. IsFiniteSet(T) /\ Cardinality(T) <= Cardinality(R)
  BY IdsOfRows
<1>2. Cardinality(T) \in Nat /\ Cardinality(R) \in Nat
  BY <1>1, FS_CardinalityType
<1> HIDE DEF T
<1>3. IsFiniteSet(T \cup {i}) /\ Cardinality(T \cup {i}) <= Cardinality(T) + 1
  BY <1>1, <1>2, FS_AddElement
<1>4. Cardinality(T \cup {i}) \in Nat
  BY <1>3, FS_CardinalityType
<1>5. Cardinality(T \cup {i}) <= n
  <2>1. \A u, t, r : u \in Nat /\ t \in Nat /\ r \in Nat /\ u <= t + 1 /\ t <= r /\ r < n => u <= n
    OBVIOUS
  <2>2. QED
    BY <1>1, <1>2, <1>3, <1>4, <2>1
<1>6. Room(T \cup {i}, n)
  BY <1>3, <1>5 DEF Room
<1>7. QED
  BY <1>6 DEF T

LEMMA LimitClashes ==
  ASSUME RecordsInv
  PROVE  /\ \A q : Outcome(q) => (CreateClash => CreateClash') /\ \A n : Copied(n) => Copied(n)'
         /\ \A q, a, p : Starts(q, a, p) => (CreateClash => CreateClash') /\ \A n : Copied(n) => Copied(n)'
<1>1. ASSUME NEW q, Outcome(q) PROVE (CreateClash => CreateClash') /\ \A n : Copied(n) => Copied(n)'
  <2>1. asked' = asked /\ before' = before
    BY <1>1 DEF Outcome
  <2>2. QED
    BY <2>1 DEF CreateClash, Copied, Overlap, Preceded, AskedFor
<1>2. ASSUME NEW q, NEW a, NEW p, Starts(q, a, p)
      PROVE (CreateClash => CreateClash') /\ \A n : Copied(n) => Copied(n)'
  <2>1. /\ asked[q] = NotAsked /\ \A r \in Requests \ {q} : asked'[r] = asked[r]
        /\ \A s \in Requests \ {q} : \A u : Preceded(u, s)' <=> Preceded(u, s)
    BY <1>2, Starting, StartingAnswers
  <2>2. ASSUME NEW r \in Requests, NEW s \in Requests, Overlap(r, s)
        PROVE  r # q /\ s # q /\ Overlap(r, s)'
    BY <2>1, <2>2 DEF Overlap
  <2>3. ASSUME NEW n, NEW r \in Requests, AskedFor(r, {"CopyVersion"}), asked[r].on = n PROVE Copied(n)'
    <3>1. r # q
      BY <2>1, <2>3 DEF AskedFor, NotAsked, Ask
    <3>2. QED
      BY <2>1, <2>3, <3>1 DEF Copied, AskedFor
  <2>4. QED
    BY <2>1, <2>2, <2>3 DEF CreateClash, Copied, AskedFor
<1>3. QED
  BY <1>1, <1>2

LEMMA TemplatesFitOn ==
  ASSUME RecordsInv, TemplatesFit, NEW q, Outcome(q)
  PROVE  TemplatesFit'
<1>1. CASE CreateClash
  BY <1>1, LimitClashes DEF TemplatesFit
<1>2. ASSUME NEW S, Room(S, TemplateLimit), HoldsTemplates(S) PROVE TemplatesFit'
  <2>1. ASSUME NEW x \in db'["templates"], ~x.dead PROVE x.id \in S
    <3>1. CASE \E y \in Live("templates") : Ancestor("templates", x, y)
      BY <1>2, <3>1 DEF HoldsTemplates, Ancestor
    <3>2. CASE \E p \in Will(q) : p.do = "put" /\ p.table = "templates" /\ x = p.row
      BY <1>2, <3>2 DEF HoldsTemplates, TemplatePut, Outcome
    <3>3. QED
      BY <2>1, <3>1, <3>2, LiveFrom, TemplateTables
  <2>2. ASSUME NEW r \in Requests, NEW p \in WillOf(r, todo'[r]), TemplatePut(p) PROVE p.row.id \in S
    <3>1. p \in Will(r)
      BY <2>2 DEF Outcome, ProgramAfter, Records, TemplatePut, Will
    <3>2. QED
      BY <1>2, <2>2, <3>1 DEF HoldsTemplates
  <2>3. HoldsTemplates(S)'
    BY <2>1, <2>2 DEF HoldsTemplates, Live, Will, TemplatePut
  <2>4. QED
    BY <1>2, <2>3 DEF TemplatesFit, Room
<1>3. QED
  BY <1>1, <1>2 DEF TemplatesFit

\* A template that is there at last: the versions that came with it are one.
LEMMA VersionsOfNew ==
  ASSUME RecordsInv, TemplateParts, NEW q \in Requests, Continue(q), NEW x, Born(q, "templates", x)
  PROVE  VersionsRoom(x.id)'
<1> DEFINE S == {<<q, 2>>}
<1>1. Outcome(q)
  BY OutcomeOfContinue
<1>2. <<"templates", x.id>> \in IdsOf(q, todo[q]) /\ x.id = <<q, 1>> /\ AskedFor(q, {"CreateTemplate"})
  <2>1. /\ x \in db'["templates"] /\ by(x) = q /\ Key("templates", x) \in IdsOf(q, todo[q])
    BY DEF Born
  <2>2. \A y \in Copies("templates") : y.id # x.id
    BY <2>1, BornUnseen, TemplateTables
  <2>3. Stored(q, "templates", x)
    <3>1. ~Kept("templates", x)
      BY <2>2 DEF Kept, Copies
    <3>2. ~Changed(q, "templates", x)
      <4>1. ASSUME NEW p \in Will(q), NEW y \in db["templates"], p.do = "update", p.table = "templates", x = With(y, p.row)
            PROVE  FALSE
        <5>1. Ancestor("templates", x, y)
          BY <1>1, <4>1, ChangedFrom, TemplateTables
        <5>2. QED
          BY <2>2, <5>1 DEF Ancestor, Copies
      <4>2. QED
        BY <4>1 DEF Changed
    <3>3. QED
      BY <1>1, <2>1, <3>1, <3>2, NewRows, TemplateTables
  <2>4. PICK p \in Will(q) : p.do = "put" /\ p.table = "templates" /\ x = p.row
    BY <2>3 DEF Stored
  <2>5. TemplateRole(q, asked[q], p)
    BY <2>4 DEF TemplateParts, TemplateRoles
  <2>6. asked[q].kind = "CreateTemplate" /\ p.row.id = <<q, 1>>
    BY <2>1, <2>4, <2>5 DEF TemplateRole
  <2>7. QED
    BY <2>1, <2>4, <2>6 DEF Key, AskedFor
<1>3. ASSUME NEW r \in Requests, NEW p \in Will(r), VersionPut(p), p.row.template = x.id
      PROVE  p.row.id \in S
  <2>1. r = q
    <3>1. \A s \in Requests \ {r} : Out(p.row.template, s)
      BY <1>3 DEF TemplateParts, VersionsBorn
    <3>2. QED
      BY <1>2, <1>3, <3>1 DEF Out
  <2>2. TemplateRole(q, asked[q], p) /\ asked[q].kind = "CreateTemplate"
    BY <1>2, <1>3, <2>1 DEF TemplateParts, TemplateRoles, AskedFor
  <2>3. p.row.id = <<q, 2>>
    BY <1>3, <2>2 DEF TemplateRole, VersionPut
  <2>4. QED
    BY <2>3
<1> HIDE DEF S
<1>4. ASSUME NEW v \in db'["template_versions"], ~v.dead, v.template = x.id PROVE v.id \in S
  <2>1. ASSUME NEW y \in Live("template_versions"), Ancestor("template_versions", v, y) PROVE FALSE
    <3>1. y.template = x.id
      BY <1>4, <2>1, TemplateTables DEF Ancestor
    <3>2. Out(y.template, q)
      BY DEF TemplateParts, VersionsBorn, Live
    <3>3. QED
      BY <1>2, <3>1, <3>2 DEF Out
  <2>2. ASSUME NEW p \in Will(q), p.do = "put", p.table = "template_versions", v = p.row PROVE v.id \in S
    BY <1>3, <1>4, <2>2 DEF VersionPut
  <2>3. QED
    BY <1>1, <1>4, <2>1, <2>2, LiveFrom, TemplateTables
<1>5. ASSUME NEW r \in Requests, NEW p \in WillOf(r, todo'[r]), VersionPut(p), p.row.template = x.id
      PROVE  p.row.id \in S
  <2>1. p \in Will(r)
    BY <1>1, <1>5 DEF Outcome, ProgramAfter, Records, VersionPut, Will
  <2>2. QED
    BY <1>3, <1>5, <2>1
<1>6. HoldsVersions(S, x.id)'
  BY <1>4, <1>5 DEF HoldsVersions, Live, Will, VersionPut
<1>7. Room(S, VersionLimit)
  <2>1. IsFiniteSet(S) /\ Cardinality(S) = 1
    BY FS_Singleton DEF S
  <2>2. QED
    BY <2>1, TemplatesAssumption DEF Room
<1>8. Room(S, VersionLimit)'
  BY <1>7 DEF Room, S
<1>9. QED
  BY <1>6, <1>8 DEF VersionsRoom

LEMMA VersionsFitOn ==
  ASSUME RecordsInv, TemplateParts, NEW q \in Requests, Continue(q)
  PROVE  VersionsFit'
<1>1. Outcome(q)
  BY OutcomeOfContinue
<1>2. ASSUME NEW x \in Copies("templates")' PROVE (ActiveClash(x.name) \/ Copied(x.name) \/ VersionsRoom(x.id))'
  <2>1. CASE Born(q, "templates", x)
    BY <2>1, VersionsOfNew
  <2>2. ASSUME NEW y \in Copies("templates"), Ancestor("templates", x, y)
        PROVE  (ActiveClash(x.name) \/ Copied(x.name) \/ VersionsRoom(x.id))'
    <3>1. y.id = x.id /\ y.name = x.name
      BY <2>2, TemplateTables DEF Ancestor
    <3>2. CASE ActiveClash(x.name)
      BY <1>1, <3>2, ExcusesStay
    <3>3. CASE Copied(x.name)
      BY <1>1, <3>3, LimitClashes
    <3>4. ASSUME NEW S, Room(S, VersionLimit), HoldsVersions(S, x.id) PROVE VersionsRoom(x.id)'
      <4>1. ASSUME NEW v \in db'["template_versions"], ~v.dead, v.template = x.id PROVE v.id \in S
        <5>1. CASE \E w \in Live("template_versions") : Ancestor("template_versions", v, w)
          BY <3>4, <4>1, <5>1, TemplateTables DEF HoldsVersions, Ancestor
        <5>2. CASE \E p \in Will(q) : p.do = "put" /\ p.table = "template_versions" /\ v = p.row
          BY <3>4, <4>1, <5>2 DEF HoldsVersions, VersionPut
        <5>3. QED
          BY <1>1, <4>1, <5>1, <5>2, LiveFrom, TemplateTables
      <4>2. ASSUME NEW r \in Requests, NEW p \in WillOf(r, todo'[r]), VersionPut(p), p.row.template = x.id
            PROVE  p.row.id \in S
        <5>1. p \in Will(r)
          BY <1>1, <4>2 DEF Outcome, ProgramAfter, Records, VersionPut, Will
        <5>2. QED
          BY <3>4, <4>2, <5>1 DEF HoldsVersions
      <4>3. HoldsVersions(S, x.id)'
        BY <4>1, <4>2 DEF HoldsVersions, Live, Will, VersionPut
      <4>4. QED
        BY <3>4, <4>3 DEF VersionsRoom, Room
    <3>5. ActiveClash(x.name) \/ Copied(x.name) \/ VersionsRoom(x.id)
      <4>1. ActiveClash(y.name) \/ Copied(y.name) \/ VersionsRoom(y.id)
        BY DEF TemplateParts, VersionsFit
      <4>2. QED
        BY <3>1, <4>1
    <3>6. QED
      BY <3>2, <3>3, <3>4, <3>5 DEF VersionsRoom
  <2>3. QED
    BY <1>1, <2>1, <2>2, CopiesOn, TemplateTables
<1>3. QED
  BY <1>2 DEF VersionsFit

LEMMA TemplatesContinue ==
  ASSUME RecordsInv, scene = "templates" => TemplateParts, NEW q \in Requests, Continue(q), UNCHANGED scene
  PROVE  TemplateInv'
<1> SUFFICES ASSUME scene = "templates" PROVE TemplateParts'
  BY DEF TemplateInv
<1>1. TemplateParts /\ TemplateRoles /\ TemplateForms
  BY DEF TemplateParts
<1>2. Outcome(q)
  BY OutcomeOfContinue
<1>3. TemplateRoles' /\ TemplateForms'
  BY <1>1, <1>2, RolesContinue, FormsContinue
<1>4. VersionsNamed' /\ TemplatesNamed' /\ VersionsBorn' /\ VersionsHomed'
  BY <1>1, VersionsNamedOn, TemplatesNamedOn, VersionsBornOn, VersionsHomedOn
<1>5. VersionsCleared' /\ VersionsEmptied' /\ ActiveAlone' /\ ActiveComing'
  BY <1>1, VersionsClearedOn, VersionsEmptiedOn, ActiveAloneOn, ActiveComingOn
<1>6. TemplatesFit' /\ VersionsFit'
  BY <1>1, <1>2, TemplatesFitOn, VersionsFitOn DEF TemplateParts
<1>7. QED
  BY <1>3, <1>4, <1>5, <1>6 DEF TemplateParts

----------------------------------------------------------------------------
(* A request on templates arrives.                                         *)

Called(i, n) == \E t \in Live("templates") : t.id = i /\ t.name = n
Forking(a, q) ==
  LET s == Head(q) IN
  /\ a.kind = "CreateVersion" /\ q = <<s>> /\ s.do = "test"
  /\ \A b \in {s.yes, s.no} : (\A u \in Elements(b) : u.do \in Simple) /\ InTurn(b)
Deactivating(r, q) ==
  LET s == Head(q) IN \A b \in {s.yes, s.no} : Guarded(r, b)
TemplateForm(r, a, q) ==
  /\ \/ (\A s \in Elements(q) : s.do \in Simple) /\ InTurn(q)
     \/ Forking(a, q) /\ Deactivating(r, q)
  /\ a.kind = "CreateTemplate" =>
       \A s \in Elements(q) : s.table = "templates" => s.do = "put" /\ s.strict
  /\ a.kind = "ResetAll" => a.on = "all" /\ Prim(Head(q)) = Purge("template_versions", All)
\* What a version to be put rests on.
Founded(r, a, q, p) ==
  /\ Called(p.row.template, a.on) \/ (p.row.template = <<r, 1>> /\ \E u \in WillOf(r, q) : TemplatePut(u))
  /\ p.row.active => \/ \E d \in WillOf(r, q) : Deactivates(d, p.row.template)
                     \/ Solo(p.row.template, p.row.id)
                     \/ ActiveClash(a.on) \/ ResetClash(Activators)
\* What counts against the limits is counted.
Counted(r, a, p) ==
  /\ TemplatePut(p) =>
       IF a.kind = "CreateTemplate" THEN Cardinality(Live("templates")) < TemplateLimit
                                    ELSE \E x \in Live("templates") : x.id = p.row.id
  /\ VersionPut(p) =>
       \/ a.kind \in {"CreateTemplate", "CopyVersion"}
       \/ /\ a.kind = "CreateVersion" /\ p.row.id = <<r, 1>>
          /\ Cardinality(Select("template_versions", [template |-> p.row.template])) < VersionLimit
       \/ \E x \in Live("template_versions") : x.id = p.row.id /\ x.template = p.row.template
\* What a template to be killed leaves.
Emptied(r, q, k) == \A t \in Live("templates") : Fits(t, k.where) => \E c \in WillOf(r, q) : Clears(c, t.id)
TemplateAsk(r, a, q) ==
  /\ TemplateForm(r, a, q)
  /\ a.kind = "DeleteTemplate" /\ a.on # "all" => \A i : <<"templates", i>> \in a.gone => Called(i, a.on)
  /\ \A p \in WillOf(r, q) : /\ TemplateRole(r, a, p) /\ Counted(r, a, p)
                             /\ VersionPut(p) => Founded(r, a, q, p)
                             /\ Kills(p) => Emptied(r, q, p)

\* Who has not been asked has no part in anything.
LEMMA Newcomer ==
  ASSUME RecordsInv, NEW r \in Requests, asked[r] = NotAsked
  PROVE  /\ ~Known(r)
         /\ \A t \in Tables \ {"config"} : \A x \in Copies(t) : by(x) # r
<1>1. ~Known(r)
  BY DatabaseAssumption DEF Known, Began
<1>2. ASSUME NEW t \in Tables \ {"config"}, NEW x \in db[t] PROVE by(x) # r
  BY <1>1, <1>2 DEF RecordsInv, Origins
<1>3. ASSUME NEW t \in Tables \ {"config"}, NEW s \in Requests, NEW x \in Held(s, t) PROVE by(x) # r
  <2>1. PICK p \in Will(s) : p.do = "put" /\ p.table = t /\ by(p.row) # s /\ x = p.row
    BY <1>3 DEF Held
  <2>2. Stores(s, asked[s], p)
    <3>1. todo[s] # << >>
      BY <2>1, NothingLeft
    <3>2. Meant(s, asked[s], p)
      BY <3>1, <2>1, Situation
    <3>3. QED
      BY <2>1, <3>2 DEF Meant
  <2>3. <<t, x.id>> \in asked[s].saves
    BY <2>1, <2>2 DEF Stores
  <2>4. Known(<<t, x.id>>[2][1])
    BY <2>3 DEF RecordsInv, Origins
  <2>5. QED
    BY <1>1, <2>4 DEF by
<1>4. QED
  BY <1>1, <1>2, <1>3 DEF Copies

\* The excuses last.
LEMMA ExcusesStart ==
  ASSUME RecordsInv, NEW q, NEW a, NEW p, Starts(q, a, p)
  PROVE  /\ \A o : (TemplateClash(o) => TemplateClash(o)') /\ (ActiveClash(o) => ActiveClash(o)')
         /\ \A K : ResetClash(K) => ResetClash(K)'
         /\ \A r \in Requests \ {q} : ResetMet(r) => ResetMet(r)'
<1>1. /\ asked[q] = NotAsked /\ \A r \in Requests \ {q} : asked'[r] = asked[r]
      /\ \A s \in Requests \ {q} : \A u : Preceded(u, s)' <=> Preceded(u, s)
  BY Starting, StartingAnswers
<1>2. ASSUME NEW r \in Requests, NEW s \in Requests, Overlap(r, s)
      PROVE  r # q /\ s # q /\ Overlap(r, s)'
  BY <1>1, <1>2 DEF Overlap
<1>3. \A K : ResetClash(K) => ResetClash(K)'
  BY <1>1, <1>2 DEF ResetClash, AskedFor
<1>4. \A r \in Requests \ {q} : ResetMet(r) => ResetMet(r)'
  BY <1>1, <1>2 DEF ResetMet, AskedFor
<1>5. QED
  BY <1>3, <1>4, ClashStays DEF TemplateClash, ActiveClash

LEMMA TemplatesStart ==
  ASSUME RecordsInv, TemplateParts, NEW q \in Requests, NEW a, NEW p, Starts(q, a, p), TemplateAsk(q, a, p)
  PROVE  TemplateRoles' /\ TemplateForms' /\ TemplatesNamed' /\ VersionsNamed' /\ VersionsBorn'
<1>1. /\ db' = db /\ asked[q] = NotAsked /\ asked'[q] = a /\ todo'[q] = p /\ WillOf(q, todo'[q]) = WillOf(q, p)
      /\ \A r \in Requests \ {q} : asked'[r] = asked[r] /\ todo'[r] = todo[r]
                                   /\ WillOf(r, todo'[r]) = Will(r)
  BY Starting
<1>2. /\ TemplateRoles /\ TemplateForms /\ TemplatesNamed /\ VersionsNamed /\ VersionsBorn
  BY DEF TemplateParts
<1>3. \A x \in Copies("templates")' : \E y \in Copies("templates") : y.id = x.id /\ y.name = x.name
  BY StartingCopies, TemplateTables DEF Ancestor
<1>4. ~Known(q) /\ \A x \in Copies("templates") : by(x) # q
  BY <1>1, Newcomer, TemplateTables
<1>5. TemplateRoles'
  <2>1. ASSUME NEW r \in Requests, NEW u \in WillOf(r, todo'[r])
        PROVE  TemplateRole(r, asked'[r], u)
    BY <1>1, <1>2, <2>1 DEF TemplateRoles, TemplateAsk
  <2>2. \A r, u : TemplateRole(r, asked[r], u)' <=> TemplateRole(r, asked'[r], u)
    BY DEF TemplateRole, VersionWriters, Activators
  <2>3. QED
    BY <2>1, <2>2 DEF TemplateRoles, Will
<1>6. TemplateForms'
  <2>1. ASSUME NEW r \in Requests \ {q}
        PROVE  ((Straight(r)' /\ InTurn(todo'[r])) \/ Forks(r)') /\ Insists(r)'
               /\ (AskedFor(r, {"ResetAll"})' => asked'[r].on = "all")
    BY <1>1, <1>2 DEF TemplateForms, Straight, Forks, Insists, AskedFor
  <2>2. TemplateForm(q, a, p)
    BY DEF TemplateAsk
  <2>3. (Straight(q)' /\ InTurn(todo'[q])) \/ Forks(q)'
    <3>1. CASE (\A s \in Elements(p) : s.do \in Simple) /\ InTurn(p)
      BY <1>1, <3>1 DEF Straight
    <3>2. CASE Forking(a, p) /\ Deactivating(q, p)
      <4>1. \A b \in {Head(p).yes, Head(p).no} : Guarded(q, b)
        BY <3>2 DEF Deactivating
      <4>2. QED
        BY <1>1, <3>2, <4>1 DEF Forks, Forking, AskedFor, Guarded
    <3>3. QED
      BY <2>2, <3>1, <3>2 DEF TemplateForm
  <2>4. Insists(q)'
    BY <1>1, <2>2 DEF TemplateForm, Insists, AskedFor
  <2>5. AskedFor(q, {"ResetAll"})' => asked'[q].on = "all"
    BY <1>1, <2>2 DEF TemplateForm, AskedFor
  <2>6. QED
    BY <2>1, <2>3, <2>4, <2>5 DEF TemplateForms
<1>7. TemplatesNamed'
  <2>1. ASSUME NEW r \in Requests, asked'[r].kind = "DeleteTemplate", asked'[r].on # "all",
               NEW x \in Copies("templates")', <<"templates", x.id>> \in asked'[r].gone
        PROVE  x.name = asked'[r].on
    <3>1. PICK y \in Copies("templates") : y.id = x.id /\ y.name = x.name
      BY <1>3
    <3>2. CASE r = q
      <4>1. PICK t \in Live("templates") : t.id = x.id /\ t.name = a.on
        BY <1>1, <2>1, <3>2 DEF TemplateAsk, Called
      <4>2. t \in Copies("templates")
        BY DEF Live, Copies
      <4>3. t.name = y.name
        BY <3>1, <4>1, <4>2, TemplateTables DEF RecordsInv, Alike
      <4>4. QED
        BY <1>1, <3>1, <3>2, <4>1, <4>3
    <3>3. CASE r # q
      BY <1>1, <1>2, <2>1, <3>1, <3>3 DEF TemplatesNamed, AskedFor
    <3>4. QED
      BY <3>2, <3>3
  <2>2. QED
    BY <2>1 DEF TemplatesNamed, AskedFor
<1>8. VersionsNamed'
  <2>1. ASSUME NEW r \in Requests, NEW u \in WillOf(r, todo'[r]), VersionPut(u),
               NEW x \in Copies("templates")', x.id = u.row.template
        PROVE  x.name = asked'[r].on
    <3>1. PICK y \in Copies("templates") : y.id = x.id /\ y.name = x.name
      BY <1>3
    <3>2. CASE r = q
      <4>1. Founded(q, a, p, u)
        BY <1>1, <2>1, <3>2 DEF TemplateAsk
      <4>2. u.row.template # <<q, 1>>
        BY <1>4, <2>1, <3>1 DEF by
      <4>3. PICK t \in Live("templates") : t.id = x.id /\ t.name = a.on
        BY <2>1, <4>1, <4>2 DEF Founded, Called
      <4>4. t \in Copies("templates")
        BY DEF Live, Copies
      <4>5. t.name = y.name
        BY <3>1, <4>3, <4>4, TemplateTables DEF RecordsInv, Alike
      <4>6. QED
        BY <1>1, <3>1, <3>2, <4>3, <4>5
    <3>3. CASE r # q
      BY <1>1, <1>2, <2>1, <3>1, <3>3 DEF VersionsNamed
    <3>4. QED
      BY <3>2, <3>3
  <2>2. QED
    BY <2>1 DEF VersionsNamed, Will, VersionPut
<1>9. VersionsBorn'
  <2>1. /\ \A s : Known(s) => Known(s)'
        /\ Known(q)'
    <3>1. a # NotAsked
      BY DEF Starts, Sound, Plain, AskedToSave, AskedToDelete, Purposeful
    <3>2. QED
      BY <1>1, <3>1 DEF Known, Began
  <2>2. ASSUME NEW i, i[1] # q PROVE Out(i, q)'
    <3>1. \A g \in IdsOf(q, p) : g[2][1] = q
      BY IdsAreMine
    <3>2. <<"templates", i>> \notin IdsOf(q, p)
      BY <2>2, <3>1
    <3>3. QED
      BY <1>1, <3>2 DEF Out
  <2>3. ASSUME NEW r \in Requests \ {q}, NEW i, Out(i, r) PROVE Out(i, r)'
    BY <1>1, <2>3 DEF Out
  <2>4. ASSUME NEW v \in db["template_versions"]
        PROVE  Known(v.template[1])' /\ \A r \in Requests : Out(v.template, r)'
    <3>1. Known(v.template[1]) /\ \A r \in Requests : Out(v.template, r)
      BY <1>2 DEF VersionsBorn
    <3>2. v.template[1] # q
      BY <1>4, <3>1
    <3>3. QED
      BY <2>1, <2>2, <2>3, <3>1, <3>2
  <2>5. ASSUME NEW r \in Requests, NEW u \in WillOf(r, todo'[r]), VersionPut(u)
        PROVE  Known(u.row.template[1])' /\ \A s \in Requests \ {r} : Out(u.row.template, s)'
    <3> DEFINE i == u.row.template
    <3>1. CASE r # q
      <4>1. Known(i[1]) /\ \A s \in Requests \ {r} : Out(i, s)
        BY <1>1, <1>2, <2>5, <3>1 DEF VersionsBorn
      <4>2. i[1] # q
        BY <1>4, <4>1
      <4> HIDE DEF i
      <4>3. QED
        BY <2>1, <2>2, <2>3, <4>1, <4>2 DEF i
    <3>2. CASE r = q /\ i = <<q, 1>>
      <4>1. \A s \in Requests \ {q} : Out(<<q, 1>>, s)
        <5>1. ASSUME NEW s \in Requests \ {q}, <<"templates", <<q, 1>> >> \in IdsOf(s, todo[s]) PROVE FALSE
          <6>1. <<"templates", <<q, 1>> >>[2][1] = s
            BY <5>1, IdsAreMine
          <6>2. QED
            BY <6>1
        <5>2. QED
          BY <5>1 DEF Out
      <4>2. i[1] = q
        BY <3>2
      <4>3. \A s \in Requests \ {q} : Out(i, s)'
        <5>1. \A s \in Requests \ {q} : Out(<<q, 1>>, s)'
          BY <2>3, <4>1
        <5>2. QED
          BY <3>2, <5>1 DEF Out
      <4>4. Known(i[1])'
        <5>1. q \in Requests /\ asked'[q] # NotAsked
          BY <1>1, <1>4, <2>1 DEF Known, Began
        <5>2. QED
          BY <4>2, <5>1 DEF Known, Began
      <4> HIDE DEF i
      <4>5. QED
        BY <3>2, <4>3, <4>4 DEF i
    <3>3. CASE r = q /\ i # <<q, 1>>
      <4>1. Founded(q, a, p, u)
        BY <1>1, <2>5, <3>3 DEF TemplateAsk
      <4>2. PICK t \in db["templates"] : t.id = i
        BY <3>3, <4>1 DEF Founded, Called, Live
      <4>3. Known(i[1])
        BY <4>2, TemplateTables DEF RecordsInv, Origins, by
      <4>4. \A s \in Requests : Out(i, s)
        BY <4>2, TemplateTables DEF RecordsInv, Unborn, Out
      <4> HIDE DEF i
      <4>5. QED
        BY <2>1, <2>3, <3>3, <4>3, <4>4 DEF i
    <3>4. QED
      BY <3>1, <3>2, <3>3
  <2>6. (\A v \in db["template_versions"] : Known(v.template[1]) /\ \A r \in Requests : Out(v.template, r))'
    BY <1>1, <2>4 DEF Known, Began, Out
  <2>7. (\A r \in Requests : \A u \in Will(r) : VersionPut(u) =>
         Known(u.row.template[1]) /\ \A s \in Requests \ {r} : Out(u.row.template, s))'
    BY <2>5 DEF Will, VersionPut, Known, Began, Out
  <2>8. QED
    BY <2>6, <2>7 DEF VersionsBorn
<1>10. QED
  BY <1>5, <1>6, <1>7, <1>8, <1>9

LEMMA VersionsStart ==
  ASSUME RecordsInv, TemplateParts, NEW q \in Requests, NEW a, NEW p, Starts(q, a, p), TemplateAsk(q, a, p)
  PROVE  VersionsHomed' /\ VersionsCleared' /\ VersionsEmptied' /\ ActiveAlone' /\ ActiveComing'
<1>1. /\ db' = db /\ asked[q] = NotAsked /\ asked'[q] = a /\ todo'[q] = p /\ WillOf(q, todo'[q]) = WillOf(q, p)
      /\ \A r \in Requests \ {q} : asked'[r] = asked[r] /\ todo'[r] = todo[r]
                                   /\ WillOf(r, todo'[r]) = Will(r)
  BY Starting
<1>2. /\ VersionsHomed /\ VersionsCleared /\ VersionsEmptied /\ ActiveAlone /\ ActiveComing
  BY DEF TemplateParts
<1>3. /\ \A o : (TemplateClash(o) => TemplateClash(o)') /\ (ActiveClash(o) => ActiveClash(o)')
      /\ \A K : ResetClash(K) => ResetClash(K)'
      /\ \A r \in Requests \ {q} : ResetMet(r) => ResetMet(r)'
  BY ExcusesStart
<1>4. \A i : Homed(i) => Homed(i)'
  BY <1>1, <1>3 DEF Homed
<1>5. \A i, n : Solo(i, n) => Solo(i, n)'
  BY <1>1 DEF Solo, Live
<1>6. Live("template_versions")' = Live("template_versions")
  BY <1>1 DEF Live
<1>7. VersionsHomed'
  <2>1. \A v \in Live("template_versions") : ResetClash(VersionWriters)' \/ Homed(v.template)'
    BY <1>2, <1>3, <1>4 DEF VersionsHomed
  <2>2. ASSUME NEW r \in Requests, NEW u \in WillOf(r, todo'[r]), VersionPut(u)
        PROVE  (\E w \in WillOf(r, todo'[r]) : TemplatePut(w)) \/ ResetMet(r)' \/ Homed(u.row.template)'
    <3>1. CASE r # q
      <4>1. Storing(r) \/ ResetMet(r) \/ Homed(u.row.template)
        BY <1>1, <1>2, <2>2, <3>1 DEF VersionsHomed
      <4>2. QED
        BY <1>1, <1>3, <1>4, <3>1, <4>1 DEF Storing
    <3>2. CASE r = q
      <4>1. Founded(q, a, p, u)
        BY <1>1, <2>2, <3>2 DEF TemplateAsk
      <4>2. CASE Called(u.row.template, a.on)
        <5>1. Homed(u.row.template)
          BY <4>2 DEF Called, Homed, Live
        <5>2. QED
          BY <1>4, <5>1
      <4>3. QED
        BY <1>1, <3>2, <4>1, <4>2 DEF Founded
    <3>3. QED
      BY <3>1, <3>2
  <2>3. (\A v \in Live("template_versions") : ResetClash(VersionWriters) \/ Homed(v.template))'
    BY <1>6, <2>1 DEF Homed
  <2>4. (\A r \in Requests : \A u \in Will(r) : VersionPut(u) =>
          Storing(r) \/ ResetMet(r) \/ Homed(u.row.template))'
    BY <2>2 DEF Will, VersionPut, Storing, TemplatePut
  <2>5. QED
    BY <2>3, <2>4 DEF VersionsHomed
<1>8. VersionsCleared'
  <2>1. ASSUME NEW r \in Requests, NEW k \in WillOf(r, todo'[r]), Kills(k),
               NEW v \in Live("template_versions"), NEW t \in db["templates"], t.id = v.template, Fits(t, k.where)
        PROVE  (\E c \in WillOf(r, todo'[r]) : Clears(c, t.id)) \/ TemplateClash(t.name) \/ ResetClash(VersionWriters)
    <3>1. CASE r # q
      BY <1>1, <1>2, <2>1, <3>1 DEF VersionsCleared
    <3>2. CASE r = q /\ ~t.dead
      BY <1>1, <2>1, <3>2 DEF TemplateAsk, Emptied, Live
    <3>3. CASE t.dead
      <4>1. CASE Homed(v.template)
        <5>1. PICK x \in db["templates"] : x.id = v.template /\ (x.dead => TemplateClash(x.name))
          BY <4>1 DEF Homed
        <5>2. x = t
          BY <2>1, <5>1, TemplateTables DEF RecordsInv, DatabaseTypeOK
        <5>3. QED
          BY <3>3, <5>1, <5>2
      <4>2. QED
        BY <1>2, <4>1 DEF VersionsHomed
    <3>4. QED
      BY <3>1, <3>2, <3>3
  <2>2. ASSUME NEW r \in Requests, NEW k \in WillOf(r, todo'[r]), Kills(k),
               NEW v \in Live("template_versions"), NEW t \in db["templates"], t.id = v.template, Fits(t, k.where)
        PROVE  (\E c \in WillOf(r, todo'[r]) : Clears(c, t.id)) \/ TemplateClash(t.name)' \/ ResetClash(VersionWriters)'
    BY <1>3, <2>1, <2>2
  <2>3. QED
    BY <1>1, <1>6, <2>2 DEF VersionsCleared, Will, Kills, Clears
<1>9. VersionsEmptied'
  <2> DEFINE first == Purge("template_versions", All)
  <2>1. ASSUME NEW r \in Requests, todo'[r] # << >>, asked'[r].kind = "ResetAll", Next1(r)' # first,
               NEW v \in Live("template_versions")
        PROVE  ResetClash(VersionWriters)' /\ (v.active => ResetClash(Activators)')
    <3>1. CASE r = q
      <4>1. Prim(Head(p)) = first
        BY <1>1, <2>1, <3>1 DEF TemplateAsk, TemplateForm
      <4>2. QED
        BY <1>1, <2>1, <3>1, <4>1 DEF Next1
    <3>2. CASE r # q
      <4>1. todo[r] # << >> /\ AskedFor(r, {"ResetAll"}) /\ Next1(r) # first
        BY <1>1, <2>1, <3>2 DEF AskedFor, Next1
      <4>2. ResetClash(VersionWriters) /\ (v.active => ResetClash(Activators))
        BY <1>2, <4>1 DEF VersionsEmptied
      <4>3. QED
        BY <1>3, <4>2
    <3>3. QED
      BY <3>1, <3>2
  <2>2. first' = first
    BY DEF Purge
  <2> HIDE DEF first
  <2>3. \A r \in Requests : todo'[r] # << >> /\ AskedFor(r, {"ResetAll"})' =>
          \/ Next1(r)' = first
          \/ \A v \in Live("template_versions")' : ResetClash(VersionWriters)' /\ (v.active => ResetClash(Activators)')
    BY <1>6, <2>1 DEF AskedFor
  <2>4. QED
    BY <2>3 DEF VersionsEmptied, first, Purge
<1>10. ActiveAlone'
  <2>1. \A i : Pardoned(i) => Pardoned(i)'
    BY <1>1, <1>3 DEF Pardoned
  <2>2. QED
    BY <1>2, <1>6, <2>1 DEF ActiveAlone
<1>11. ActiveComing'
  <2>1. ASSUME NEW r \in Requests, NEW u \in WillOf(r, todo'[r]), VersionPut(u), u.row.active
        PROVE  \/ \E d \in WillOf(r, todo'[r]) : Deactivates(d, u.row.template)
               \/ Solo(u.row.template, u.row.id)
               \/ ActiveClash(asked'[r].on) \/ ResetClash(Activators)
    <3>1. CASE r # q
      BY <1>1, <1>2, <2>1, <3>1 DEF ActiveComing
    <3>2. CASE r = q
      <4>1. Founded(q, a, p, u)
        BY <1>1, <2>1, <3>2 DEF TemplateAsk
      <4>2. QED
        BY <1>1, <2>1, <3>2, <4>1 DEF Founded
    <3>3. QED
      BY <3>1, <3>2
  <2>2. ASSUME NEW r \in Requests, NEW u \in WillOf(r, todo'[r]), VersionPut(u), u.row.active
        PROVE  \/ \E d \in WillOf(r, todo'[r]) : Deactivates(d, u.row.template)
               \/ Solo(u.row.template, u.row.id)'
               \/ ActiveClash(asked[r].on)' \/ ResetClash(Activators)'
    <3>1. \A o : ActiveClash(o) => ActiveClash(o)'
      BY <1>3
    <3>2. ActiveClash(asked'[r].on) => ActiveClash(asked[r].on)'
      BY <3>1 DEF ActiveClash, Clash
    <3>3. Solo(u.row.template, u.row.id) => Solo(u.row.template, u.row.id)'
      BY <1>5
    <3>4. QED
      BY <1>3, <2>1, <2>2, <3>2, <3>3
  <2>3. QED
    BY <2>2 DEF ActiveComing, Will, VersionPut, Deactivates
<1>12. QED
  BY <1>7, <1>8, <1>9, <1>10, <1>11

\* A creation counts the templates before it starts.
LEMMA TemplatesFitStart ==
  ASSUME RecordsInv, TemplateParts, NEW q \in Requests, NEW a, NEW p, Starts(q, a, p), TemplateAsk(q, a, p)
  PROVE  TemplatesFit'
<1>1. /\ db' = db /\ asked[q] = NotAsked /\ todo[q] = << >> /\ asked'[q] = a /\ WillOf(q, todo'[q]) = WillOf(q, p)
      /\ \A r \in Requests \ {q} : asked'[r] = asked[r] /\ todo'[r] = todo[r] /\ WillOf(r, todo'[r]) = Will(r)
  BY Starting
<1>2. CASE CreateClash
  BY <1>2, LimitClashes DEF TemplatesFit
<1>3. ASSUME NEW S, Room(S, TemplateLimit), \A x \in Live("templates") : x.id \in S,
             \A r \in Requests \ {q} : \A u \in Will(r) : TemplatePut(u) => u.row.id \in S,
             \A u \in WillOf(q, p) : TemplatePut(u) => u.row.id \in S
      PROVE  TemplatesFit'
  <2>1. \A x \in Live("templates")' : x.id \in S
    BY <1>1, <1>3 DEF Live
  <2>2. ASSUME NEW r \in Requests, NEW u \in WillOf(r, todo'[r]), TemplatePut(u) PROVE u.row.id \in S
    BY <1>1, <1>3, <2>2
  <2>3. HoldsTemplates(S)'
    BY <2>1, <2>2 DEF HoldsTemplates, Will, TemplatePut
  <2>4. QED
    BY <1>3, <2>3 DEF TemplatesFit, Room
<1>4. ASSUME ~CreateClash, a.kind # "CreateTemplate" PROVE TemplatesFit'
  <2>1. PICK S : Room(S, TemplateLimit) /\ HoldsTemplates(S)
    BY <1>4 DEF TemplateParts, TemplatesFit
  <2>2. ASSUME NEW u \in WillOf(q, p), TemplatePut(u) PROVE u.row.id \in S
    <3>1. PICK x \in Live("templates") : x.id = u.row.id
      BY <1>4, <2>2 DEF TemplateAsk, Counted
    <3>2. QED
      BY <2>1, <3>1 DEF HoldsTemplates
  <2>3. QED
    BY <1>3, <2>1, <2>2 DEF HoldsTemplates
<1>5. ASSUME a.kind = "CreateTemplate", NEW r \in Requests \ {q}, NEW u \in Will(r), TemplatePut(u) PROVE TemplatesFit'
  <2>1. todo[r] # << >> /\ asked[r] # NotAsked
    <3>1. todo[r] # << >>
      BY <1>5, NothingLeft
    <3>2. QED
      BY <3>1 DEF RecordsInv, DatabaseTypeOK
  <2>2. AskedFor(r, {"CreateTemplate", "UpdateTemplate"})
    <3>1. TemplateRole(r, asked[r], u)
      BY <1>5 DEF TemplateParts, TemplateRoles
    <3>2. QED
      BY <1>5, <3>1 DEF TemplateRole, TemplatePut, AskedFor
  <2>3. Overlap(r, q)'
    <3>1. \A s : ~Preceded(q, s)'
      BY Starting
    <3>2. ~Preceded(r, q)'
      <4>1. ~Answered(r) /\ ~Preceded(r, q)
        BY <2>1, Starting DEF Answered
      <4>2. before' = before \cup {<<s, q>> : s \in {s \in Requests : Answered(s)}}
        BY Starting
      <4>3. QED
        BY <4>1, <4>2 DEF Preceded
    <3>3. asked'[q] # NotAsked
      BY <1>1, <1>5 DEF NotAsked, Ask
    <3>4. QED
      BY <1>1, <2>1, <3>1, <3>2, <3>3 DEF Overlap
  <2>4. AskedFor(r, {"CreateTemplate", "UpdateTemplate"})' /\ AskedFor(q, {"CreateTemplate"})'
    BY <1>1, <1>5, <2>2 DEF AskedFor
  <2>5. QED
    BY <2>3, <2>4 DEF TemplatesFit, CreateClash
<1>6. ASSUME a.kind = "CreateTemplate", \A r \in Requests \ {q} : \A u \in Will(r) : ~TemplatePut(u) PROVE TemplatesFit'
  <2>1. CASE \E u \in WillOf(q, p) : TemplatePut(u)
    <3> DEFINE R == Live("templates")
               S == {x.id : x \in R} \cup {<<q, 1>>}
    <3>1. Cardinality(R) < TemplateLimit
      BY <1>6, <2>1 DEF TemplateAsk, Counted
    <3>2. IsFiniteSet(R)
      <4>1. IsFiniteSet(db["templates"]) /\ R \subseteq db["templates"]
        BY TemplateTables DEF RecordsInv, Shapes, Live
      <4>2. QED
        BY <4>1, FS_Subset
    <3> HIDE DEF R
    <3>3. Room(S, TemplateLimit)
      BY <3>1, <3>2, OneMore, TemplatesAssumption
    <3>4. ASSUME NEW u \in WillOf(q, p), TemplatePut(u) PROVE u.row.id = <<q, 1>>
      BY <1>6, <3>4 DEF TemplateAsk, TemplateRole, TemplatePut
    <3>5. \A x \in Live("templates") : x.id \in S
      BY DEF R
    <3> HIDE DEF S
    <3>6. \A u \in WillOf(q, p) : TemplatePut(u) => u.row.id \in S
      BY <3>4 DEF S
    <3>7. QED
      BY <1>3, <1>6, <3>3, <3>5, <3>6
  <2>2. CASE ~\E u \in WillOf(q, p) : TemplatePut(u)
    <3>1. ASSUME ~CreateClash PROVE TemplatesFit'
      <4>1. PICK S : Room(S, TemplateLimit) /\ HoldsTemplates(S)
        BY <3>1 DEF TemplateParts, TemplatesFit
      <4>2. QED
        BY <1>3, <2>2, <4>1 DEF HoldsTemplates
    <3>2. QED
      BY <1>2, <3>1
  <2>3. QED
    BY <2>1, <2>2
<1>7. QED
  BY <1>2, <1>4, <1>5, <1>6

\* And a creation of a version counts the versions.
LEMMA VersionsFitStart ==
  ASSUME RecordsInv, TemplateParts, NEW q \in Requests, NEW a, NEW p, Starts(q, a, p), TemplateAsk(q, a, p)
  PROVE  VersionsFit'
<1>1. /\ db' = db /\ asked[q] = NotAsked /\ todo[q] = << >> /\ asked'[q] = a /\ WillOf(q, todo'[q]) = WillOf(q, p)
      /\ \A r \in Requests \ {q} : asked'[r] = asked[r] /\ todo'[r] = todo[r] /\ WillOf(r, todo'[r]) = Will(r)
  BY Starting
<1>2. ASSUME NEW y \in Copies("templates") PROVE (ActiveClash(y.name) \/ Copied(y.name) \/ VersionsRoom(y.id))'
  <2>1. CASE ActiveClash(y.name)
    BY <2>1, ExcusesStart
  <2>2. CASE Copied(y.name)
    BY <2>2, LimitClashes
  <2>3. ASSUME NEW S, Room(S, VersionLimit), \A x \in Live("template_versions") : x.template = y.id => x.id \in S,
               \A r \in Requests \ {q} : \A u \in Will(r) : VersionPut(u) /\ u.row.template = y.id => u.row.id \in S,
               \A u \in WillOf(q, p) : VersionPut(u) /\ u.row.template = y.id => u.row.id \in S
        PROVE  VersionsRoom(y.id)'
    <3>1. \A x \in Live("template_versions")' : x.template = y.id => x.id \in S
      BY <1>1, <2>3 DEF Live
    <3>2. ASSUME NEW r \in Requests, NEW u \in WillOf(r, todo'[r]), VersionPut(u), u.row.template = y.id PROVE u.row.id \in S
      BY <1>1, <2>3, <3>2
    <3>3. HoldsVersions(S, y.id)'
      BY <3>1, <3>2 DEF HoldsVersions, Will, VersionPut
    <3>4. QED
      BY <2>3, <3>3 DEF VersionsRoom, Room
  <2>4. ASSUME NEW u \in WillOf(q, p), VersionPut(u), u.row.template = y.id PROVE a.on = y.name
    <3>1. Founded(q, a, p, u)
      BY <2>4 DEF TemplateAsk
    <3>2. u.row.template # <<q, 1>>
      <4>1. by(y) # q
        BY <1>1, Newcomer, TemplateTables
      <4>2. QED
        BY <2>4, <4>1 DEF by
    <3>3. PICK t \in Live("templates") : t.id = y.id /\ t.name = a.on
      BY <2>4, <3>1, <3>2 DEF Founded, Called
    <3>4. t \in Copies("templates")
      BY DEF Live, Copies
    <3>5. QED
      BY <3>3, <3>4, TemplateTables DEF RecordsInv, Alike
  <2>5. ASSUME NEW u \in WillOf(q, p), VersionPut(u), u.row.template = y.id, a.kind = "CopyVersion" PROVE Copied(y.name)'
    BY <1>1, <2>4, <2>5 DEF Copied, AskedFor
  <2>6. ASSUME ~ActiveClash(y.name), ~Copied(y.name),
               \A u \in WillOf(q, p) : VersionPut(u) /\ u.row.template = y.id =>
                 \E x \in Live("template_versions") : x.id = u.row.id /\ x.template = u.row.template
        PROVE  VersionsRoom(y.id)'
    <3>1. PICK S : Room(S, VersionLimit) /\ HoldsVersions(S, y.id)
      BY <2>6 DEF TemplateParts, VersionsFit, VersionsRoom
    <3>2. ASSUME NEW u \in WillOf(q, p), VersionPut(u), u.row.template = y.id PROVE u.row.id \in S
      BY <2>6, <3>1, <3>2 DEF HoldsVersions
    <3>3. QED
      BY <2>3, <3>1, <3>2 DEF HoldsVersions
  <2>7. ASSUME a.kind = "CreateVersion", NEW u \in WillOf(q, p), VersionPut(u), u.row.template = y.id,
               Cardinality(Select("template_versions", [template |-> u.row.template])) < VersionLimit
        PROVE  (ActiveClash(y.name) \/ Copied(y.name) \/ VersionsRoom(y.id))'
    <3>1. CASE \A r \in Requests \ {q} : \A v \in Will(r) : VersionPut(v) => v.row.template # y.id
      <4> DEFINE R == Select("template_versions", [template |-> y.id])
                 S == {x.id : x \in R} \cup {<<q, 1>>}
      <4>1. Cardinality(R) < VersionLimit
        BY <2>7
      <4>2. IsFiniteSet(R)
        <5>1. IsFiniteSet(db["template_versions"]) /\ R \subseteq db["template_versions"]
          BY TemplateTables DEF RecordsInv, Shapes, Live, Select
        <5>2. QED
          BY <5>1, FS_Subset
      <4>3. \A x \in Live("template_versions") : x.template = y.id => x \in R
        BY DEF Select, Fits
      <4> HIDE DEF R
      <4>4. Room(S, VersionLimit)
        BY <4>1, <4>2, OneMore, TemplatesAssumption
      <4>5. /\ <<q, 1>> \in S
            /\ \A x \in Live("template_versions") : x.template = y.id => x.id \in S
        BY <4>3
      <4> HIDE DEF S
      <4>6. ASSUME NEW v \in WillOf(q, p), VersionPut(v), v.row.template = y.id PROVE v.row.id \in S
        <5>1. Counted(q, a, v)
          BY <4>6 DEF TemplateAsk
        <5>2. QED
          BY <2>7, <4>5, <4>6, <5>1 DEF Counted
      <4>7. VersionsRoom(y.id)'
        BY <2>3, <3>1, <4>4, <4>5, <4>6
      <4>8. QED
        BY <4>7
    <3>2. ASSUME NEW r \in Requests \ {q}, NEW v \in Will(r), VersionPut(v), v.row.template = y.id
          PROVE  (ActiveClash(y.name) \/ Copied(y.name))'
      <4>1. todo[r] # << >> /\ asked[r] # NotAsked
        <5>1. todo[r] # << >>
          BY <3>2, NothingLeft
        <5>2. QED
          BY <5>1 DEF RecordsInv, DatabaseTypeOK
      <4>2. asked[r].on = y.name
        BY <3>2 DEF TemplateParts, VersionsNamed
      <4>3. asked[r].kind \in VersionWriters
        <5>1. TemplateRole(r, asked[r], v)
          BY <3>2 DEF TemplateParts, TemplateRoles
        <5>2. QED
          BY <3>2, <5>1 DEF TemplateRole, VersionPut
      <4>4. CASE asked[r].kind = "CopyVersion"
        BY <1>1, <3>2, <4>2, <4>4 DEF Copied, AskedFor
      <4>5. CASE asked[r].kind # "CopyVersion"
        <5>1. AskedFor(r, Activators)' /\ AskedFor(q, Activators)'
          BY <1>1, <2>7, <3>2, <4>3, <4>5 DEF AskedFor, VersionWriters, Activators
        <5>2. Overlap(r, q)'
          <6>1. \A s : ~Preceded(q, s)'
            BY Starting
          <6>2. ~Preceded(r, q)'
            <7>1. ~Answered(r) /\ ~Preceded(r, q)
              BY <4>1, Starting DEF Answered
            <7>2. before' = before \cup {<<s, q>> : s \in {s \in Requests : Answered(s)}}
              BY Starting
            <7>3. QED
              BY <7>1, <7>2 DEF Preceded
          <6>3. asked'[q] # NotAsked
            BY <1>1, <2>7 DEF NotAsked, Ask
          <6>4. QED
            BY <1>1, <3>2, <4>1, <6>1, <6>2, <6>3 DEF Overlap
        <5>3. asked'[r].on = y.name /\ asked'[q].on = y.name
          BY <1>1, <2>4, <2>7, <3>2, <4>2
        <5>4. Clash(Activators, Activators, y.name)'
          BY <5>1, <5>2, <5>3 DEF Clash
        <5>5. QED
          BY <5>4 DEF ActiveClash
      <4>6. QED
        BY <4>4, <4>5
    <3>3. QED
      BY <3>1, <3>2
  <2>8. ASSUME NEW u \in WillOf(q, p), VersionPut(u), u.row.template = y.id, a.kind = "CreateTemplate" PROVE FALSE
    <3>1. TemplateRole(q, a, u)
      BY <2>8 DEF TemplateAsk
    <3>2. u.row.template = <<q, 1>>
      BY <2>8, <3>1 DEF TemplateRole, VersionPut
    <3>3. by(y) # q
      BY <1>1, Newcomer, TemplateTables
    <3>4. QED
      BY <2>8, <3>2, <3>3 DEF by
  <2>9. \A u \in WillOf(q, p) : Counted(q, a, u)
    BY DEF TemplateAsk
  <2>10. QED
    BY <2>1, <2>2, <2>5, <2>6, <2>7, <2>8, <2>9 DEF Counted
<1>3. ASSUME NEW x \in Copies("templates")' PROVE (ActiveClash(x.name) \/ Copied(x.name) \/ VersionsRoom(x.id))'
  <2>1. PICK y \in Copies("templates") : y.id = x.id /\ y.name = x.name
    BY StartingCopies, TemplateTables DEF Ancestor
  <2>2. QED
    BY <1>2, <2>1
<1>4. QED
  BY <1>3 DEF VersionsFit

----------------------------------------------------------------------------
(* The programs of the handlers of templates.                              *)

LEMMA LoneProgram ==
  ASSUME NEW r, NEW s, s.do \in Simple
  PROVE  /\ Elements(<<s>>) = {s} /\ Head(<<s>>) = s /\ Early(<<s>>) = {} /\ InTurn(<<s>>)
         /\ WillOf(r, <<s>>) = {Prim(s)}
<1>1. Elements(<<s>>) = {s}
  BY ElementsOfTuples
<1>2. Head(<<s>>) = s /\ Len(<<s>>) = 1
  OBVIOUS
<1>3. Early(<<s>>) = {}
  BY <1>2 DEF Early
<1>4. WillOf(r, <<s>>) = {Prim(s)}
  BY <1>1, LeadsOfSimple DEF WillOf
<1>5. QED
  BY <1>1, <1>2, <1>3, <1>4 DEF InTurn

LEMMA PairProgram ==
  ASSUME NEW r, NEW s, NEW u, s.do \in Simple, u.do \in Simple
  PROVE  /\ Elements(<<s, u>>) = {s, u} /\ Head(<<s, u>>) = s /\ Early(<<s, u>>) = {s}
         /\ WillOf(r, <<s, u>>) = {Prim(s), Prim(u)}
<1>1. Elements(<<s, u>>) = {s, u}
  BY ElementsOfTuples
<1>2. Head(<<s, u>>) = s /\ Len(<<s, u>>) = 2 /\ <<s, u>>[1] = s
  OBVIOUS
<1>3. Early(<<s, u>>) = {s}
  BY <1>2 DEF Early
<1>4. WillOf(r, <<s, u>>) = {Prim(s), Prim(u)}
  BY <1>1, LeadsOfSimple DEF WillOf
<1>5. QED
  BY <1>1, <1>2, <1>3, <1>4

\* The statements of these handlers.
LEMMA PutForms ==
  ASSUME NEW t, NEW row, NEW s, s \in {Insert(t, row), Save(t, row)}
  PROVE  /\ s.do \in Simple /\ s.table = t /\ Prim(s) = Store(t, row)
         /\ s = Insert(t, row) => s.do = "put" /\ s.strict
<1>1. s.do \in {"put", "save"} /\ s.table = t /\ s.row = row
  BY DEF Insert, Save
<1>2. s = Insert(t, row) => s.do = "put" /\ s.strict
  BY DEF Insert
<1>3. QED
  BY <1>1, <1>2 DEF Prim, Simple

LEMMA UpdateForms ==
  ASSUME NEW t, NEW w, NEW set
  PROVE  LET s == Update(t, w, set) IN
         s.do = "update" /\ s.do \in Simple /\ s.table = t /\ s.where = w /\ s.row = set /\ Prim(s) = s
<1> DEFINE s == Update(t, w, set)
<1>1. s.do = "update" /\ s.table = t /\ s.where = w /\ s.row = set
  BY DEF Update
<1> HIDE DEF s
<1>2. s.do \in Simple /\ Prim(s) = s
  BY <1>1 DEF Simple, Prim
<1>3. QED
  BY <1>1, <1>2 DEF s

LEMMA ClearForms ==
  /\ \A t, w : SoftDelete(t, w) = Update(t, w, [dead |-> TRUE])
  /\ \A i : /\ Clears(SoftDelete("template_versions", [template |-> i]), i)
            /\ Prim(SoftDelete("template_versions", [template |-> i])) = SoftDelete("template_versions", [template |-> i])
            /\ SoftDelete("template_versions", [template |-> i]).do \in Simple
  /\ \A t : /\ Deactivates(deactivateAll(t), t.id) /\ Prim(deactivateAll(t)) = deactivateAll(t)
            /\ deactivateAll(t).do \in Simple
<1>1. \A t, w : SoftDelete(t, w) = Update(t, w, [dead |-> TRUE])
  BY DEF SoftDelete, Update
<1>2. ASSUME NEW i
      PROVE  /\ Clears(SoftDelete("template_versions", [template |-> i]), i)
             /\ Prim(SoftDelete("template_versions", [template |-> i])) = SoftDelete("template_versions", [template |-> i])
             /\ SoftDelete("template_versions", [template |-> i]).do \in Simple
  <2> DEFINE s == Update("template_versions", [template |-> i], [dead |-> TRUE])
  <2>1. /\ s.do = "update" /\ s.do \in Simple /\ s.table = "template_versions" /\ s.where = [template |-> i]
        /\ s.row = [dead |-> TRUE] /\ Prim(s) = s
    BY UpdateForms
  <2>2. SoftDelete("template_versions", [template |-> i]) = s
    BY <1>1
  <2> HIDE DEF s
  <2>3. QED
    BY <2>1, <2>2 DEF Clears
<1>3. ASSUME NEW t
      PROVE  /\ Deactivates(deactivateAll(t), t.id) /\ Prim(deactivateAll(t)) = deactivateAll(t)
             /\ deactivateAll(t).do \in Simple
  <2> DEFINE w == [template |-> t.id, active |-> TRUE]
             s == Update("template_versions", w, [active |-> FALSE])
  <2>1. /\ s.do = "update" /\ s.do \in Simple /\ s.table = "template_versions" /\ s.where = w
        /\ s.row = [active |-> FALSE] /\ Prim(s) = s
    BY UpdateForms
  <2>2. deactivateAll(t) = s
    BY DEF deactivateAll
  <2> HIDE DEF s
  <2>3. QED
    BY <2>1, <2>2 DEF Deactivates
<1>4. QED
  BY <1>1, <1>2, <1>3

\* What the lookups find.
LEMMA TemplateFound ==
  ASSUME NEW name, NEW t \in findTemplate(name)
  PROVE  t \in Live("templates") /\ t.name = name /\ t \in db["templates"]
<1>1. t \in Live("templates") /\ Fits(t, [name |-> name])
  BY DEF findTemplate, Select
<1>2. t["name"] = [name |-> name]["name"]
  BY <1>1 DEF Fits
<1>3. QED
  BY <1>1, <1>2 DEF Live

LEMMA VersionFound ==
  ASSUME NEW t, NEW tag, NEW v \in findVersion(t, tag)
  PROVE  v \in Live("template_versions") /\ v.template = t.id /\ v \in db["template_versions"]
<1> DEFINE w == [template |-> t.id, tag |-> tag]
<1>1. v \in Live("template_versions") /\ Fits(v, w)
  BY DEF findVersion, Select
<1>2. "template" \in DOMAIN w /\ w["template"] = t.id
  OBVIOUS
<1> HIDE DEF w
<1>3. v["template"] = t.id
  BY <1>1, <1>2 DEF Fits
<1>4. QED
  BY <1>1, <1>3 DEF Live

\* A program of one or two statements.
LEMMA TemplateAskLone ==
  ASSUME NEW r, NEW a, NEW s, s.do \in Simple, a.kind # "ResetAll", a.kind = "CreateTemplate" => s.do = "put" /\ s.strict,
         a.kind = "DeleteTemplate" /\ a.on # "all" => \A i : <<"templates", i>> \in a.gone => Called(i, a.on),
         TemplateRole(r, a, Prim(s)), Counted(r, a, Prim(s)), ~Kills(Prim(s)),
         VersionPut(Prim(s)) => Founded(r, a, <<s>>, Prim(s))
  PROVE  TemplateAsk(r, a, <<s>>)
<1>1. Elements(<<s>>) = {s} /\ InTurn(<<s>>) /\ WillOf(r, <<s>>) = {Prim(s)}
  BY LoneProgram
<1>2. TemplateForm(r, a, <<s>>)
  BY <1>1 DEF TemplateForm
<1>3. QED
  BY <1>1, <1>2 DEF TemplateAsk

LEMMA TemplateAskPair ==
  ASSUME NEW r, NEW a, NEW s, NEW u, s.do \in Simple, u.do \in Simple, a.kind # "ResetAll",
         a.kind = "CreateTemplate" => s.do = "put" /\ s.strict /\ (u.table = "templates" => u.do = "put" /\ u.strict),
         a.kind = "DeleteTemplate" /\ a.on # "all" => \A i : <<"templates", i>> \in a.gone => Called(i, a.on),
         TemplateRole(r, a, Prim(s)), Counted(r, a, Prim(s)), ~Kills(Prim(s)), ~VersionPut(Prim(s)),
         TemplateRole(r, a, Prim(u)), Counted(r, a, Prim(u)),
         VersionPut(Prim(u)) => Founded(r, a, <<s, u>>, Prim(u)), Kills(Prim(u)) => Emptied(r, <<s, u>>, Prim(u))
  PROVE  TemplateAsk(r, a, <<s, u>>)
<1>1. Elements(<<s, u>>) = {s, u} /\ Early(<<s, u>>) = {s} /\ WillOf(r, <<s, u>>) = {Prim(s), Prim(u)}
  BY PairProgram
<1>2. TemplateForm(r, a, <<s, u>>)
  BY <1>1 DEF TemplateForm, InTurn
<1>3. QED
  BY <1>1, <1>2 DEF TemplateAsk

LEMMA AskedCreateTemplate ==
  ASSUME RecordsInv, TemplateParts, NEW r \in Requests, asked[r] = NotAsked, CreateTemplate(r)
  PROVE  \E a, q : Begin(r, a, q) /\ TemplateAsk(r, a, q)
<1>1. PICK name, tag :
        /\ Cardinality(Select("templates", All)) < TemplateLimit
        /\ Begin(r, Ask("CreateTemplate", name),
             <<Insert("templates", Template(<<r, 1>>, name))>> \o
             (IF tag = "none" THEN << >>
              ELSE <<Insert("template_versions", Version(<<r, 2>>, <<r, 1>>, tag, TRUE))>>))
  BY DEF CreateTemplate
<1> DEFINE a == Ask("CreateTemplate", name)
           t == Template(<<r, 1>>, name)
           v == Version(<<r, 2>>, <<r, 1>>, tag, TRUE)
           s == Insert("templates", t)
           u == Insert("template_versions", v)
<1>2. a.kind = "CreateTemplate" /\ a.on = name
  BY AskKinds
<1>3. t.id = <<r, 1>> /\ t.name = name /\ v.id = <<r, 2>> /\ v.template = <<r, 1>> /\ v.active = TRUE
  BY DEF Template, Version
<1>4. Begin(r, a, <<s>>) \/ Begin(r, a, <<s, u>>)
  <2>1. Begin(r, a, <<s>> \o (IF tag = "none" THEN << >> ELSE <<u>>))
    BY <1>1
  <2> HIDE DEF a, t, v, s, u
  <2>2. <<s>> \o << >> = <<s>> /\ <<s>> \o <<u>> = <<s, u>>
    <3>1. <<s>> \in Seq({s})
      OBVIOUS
    <3>2. <<s>> \o << >> = <<s>>
      BY <3>1
    <3>3. <<s>> \o <<u>> = <<s, u>>
      <4> DEFINE c == <<s>> \o <<u>>
      <4>1. <<s>> \in Seq({s, u}) /\ <<u>> \in Seq({s, u}) /\ <<s, u>> \in Seq({s, u})
        OBVIOUS
      <4>2. Len(<<s>>) = 1 /\ Len(<<u>>) = 1 /\ Len(<<s, u>>) = 2
        OBVIOUS
      <4>3. /\ c \in Seq({s, u}) /\ Len(c) = 2
            /\ c[1] = <<s>>[1] /\ c[2] = <<u>>[1]
        BY <4>1, <4>2
      <4>4. c[1] = <<s, u>>[1] /\ c[2] = <<s, u>>[2]
        BY <4>3
      <4> HIDE DEF c
      <4>5. \A i \in 1..2 : c[i] = <<s, u>>[i]
        BY <4>4
      <4>6. c \in [1..2 -> {s, u}] /\ <<s, u>> \in [1..2 -> {s, u}]
        BY <4>1, <4>2, <4>3
      <4>7. c = <<s, u>>
        BY <4>5, <4>6
      <4>8. QED
        BY <4>7 DEF c
    <3>4. QED
      BY <3>2, <3>3
  <2>3. CASE tag = "none"
    BY <2>1, <2>2, <2>3
  <2>4. CASE tag # "none"
    BY <2>1, <2>2, <2>4
  <2>5. QED
    BY <2>3, <2>4
<1> HIDE DEF a, t, v
<1>5. s.do \in Simple /\ s.table = "templates" /\ s.do = "put" /\ s.strict /\ Prim(s) = Store("templates", t)
  BY PutForms
<1>6. u.do \in Simple /\ u.table = "template_versions" /\ Prim(u) = Store("template_versions", v)
  BY PutForms
<1> HIDE DEF s, u
<1>7. Prim(s).do = "put" /\ Prim(s).table = "templates" /\ Prim(s).row = t
  BY <1>5, StoreIs
<1>8. Prim(u).do = "put" /\ Prim(u).table = "template_versions" /\ Prim(u).row = v
  BY <1>6, StoreIs
<1>9. TemplateRole(r, a, Prim(s)) /\ ~Kills(Prim(s)) /\ ~VersionPut(Prim(s)) /\ TemplatePut(Prim(s))
  BY <1>2, <1>3, <1>7 DEF TemplateRole, Kills, VersionPut, TemplatePut
<1>10. TemplateRole(r, a, Prim(u)) /\ ~Kills(Prim(u))
  BY <1>2, <1>3, <1>8 DEF TemplateRole, Kills, VersionWriters, Activators
<1>11. Founded(r, a, <<s, u>>, Prim(u))
  <2>1. Prim(s) \in WillOf(r, <<s, u>>)
    BY <1>5, <1>6, PairProgram
  <2>2. Solo(v.template, v.id)
    <3>1. ASSUME NEW x \in Live("template_versions"), x.template = v.template PROVE FALSE
      <4>1. Known(x.template[1])
        BY DEF TemplateParts, VersionsBorn, Live
      <4>2. x.template[1] = r
        BY <1>3, <3>1
      <4>3. QED
        BY <4>1, <4>2, Newcomer
    <3>2. QED
      BY <3>1 DEF Solo
  <2>3. QED
    BY <1>3, <1>8, <1>9, <2>1, <2>2 DEF Founded
<1>12. Counted(r, a, Prim(s)) /\ Counted(r, a, Prim(u))
  <2>1. Select("templates", All) = Live("templates")
    BY NothingFits DEF Select
  <2>2. QED
    BY <1>1, <1>2, <1>7, <1>8, <2>1 DEF Counted, TemplatePut, VersionPut
<1>13. TemplateAsk(r, a, <<s>>)
  BY <1>2, <1>5, <1>9, <1>12, TemplateAskLone
<1>14. TemplateAsk(r, a, <<s, u>>)
  BY <1>2, <1>5, <1>6, <1>9, <1>10, <1>11, <1>12, TemplateAskPair
<1>15. QED
  BY <1>4, <1>13, <1>14

LEMMA AskedUpdateTemplate ==
  ASSUME RecordsInv, NEW r \in Requests, asked[r] = NotAsked, UpdateTemplate(r)
  PROVE  \E a, q : Begin(r, a, q) /\ TemplateAsk(r, a, q)
<1>1. PICK name, t : /\ t \in findTemplate(name)
                     /\ Begin(r, AskSave("UpdateTemplate", name, "templates", t, All), <<Save("templates", t)>>)
  BY DEF UpdateTemplate
<1> DEFINE a == AskSave("UpdateTemplate", name, "templates", t, All)
           s == Save("templates", t)
<1>2. a.kind = "UpdateTemplate"
  BY AskKinds
<1>3. s.do \in Simple /\ Prim(s) = Store("templates", t)
  BY PutForms
<1> HIDE DEF a, s
<1>4. Prim(s).do = "put" /\ Prim(s).table = "templates" /\ Prim(s).row = t
  BY <1>3, StoreIs
<1>5. by(t) # r
  BY <1>1, TemplateFound, TemplateTables, Newcomer DEF Copies
<1>6. TemplateRole(r, a, Prim(s)) /\ ~Kills(Prim(s)) /\ ~VersionPut(Prim(s)) /\ Counted(r, a, Prim(s))
  BY <1>1, <1>2, <1>4, <1>5, TemplateFound DEF TemplateRole, Kills, VersionPut, Counted
<1>7. TemplateAsk(r, a, <<s>>)
  BY <1>2, <1>3, <1>6, TemplateAskLone
<1>8. QED
  BY <1>1, <1>7 DEF a, s

LEMMA AskedDeleteTemplate ==
  ASSUME NEW r, DeleteTemplate(r)
  PROVE  \E a, q : Begin(r, a, q) /\ TemplateAsk(r, a, q)
<1>1. PICK name, t : /\ t \in findTemplate(name)
                     /\ Begin(r, AskDelete("DeleteTemplate", name, "templates", {t}),
                              <<SoftDelete("template_versions", [template |-> t.id]),
                                SoftDelete("templates", [id |-> t.id])>>)
  BY DEF DeleteTemplate
<1> DEFINE a == AskDelete("DeleteTemplate", name, "templates", {t})
           w == [id |-> t.id]
           s == SoftDelete("template_versions", [template |-> t.id])
           u == SoftDelete("templates", w)
<1>2. a.kind = "DeleteTemplate" /\ a.on = name /\ a.gone = {Key("templates", x) : x \in {t}}
  <2>1. AskedToDelete(a, "templates", {t})
    BY AskDeleteIs
  <2>2. a.kind = "DeleteTemplate" /\ a.on = name
    BY AskKinds
  <2> HIDE DEF a
  <2>3. QED
    BY <2>1, <2>2 DEF AskedToDelete
<1>3. t \in Live("templates") /\ t.name = name
  BY <1>1, TemplateFound
<1>4. Clears(s, t.id) /\ Prim(s) = s /\ s.do \in Simple
  BY ClearForms
<1>5. u.do = "update" /\ u.do \in Simple /\ u.table = "templates" /\ u.where = w /\ u.row = [dead |-> TRUE] /\ Prim(u) = u
  BY ClearForms, UpdateForms
<1>6. DOMAIN w = {"id"} /\ w.id = t.id /\ w["id"] = t.id
  OBVIOUS
<1>7. Begin(r, a, <<s, u>>)
  BY <1>1
<1> HIDE DEF a, w, s, u
<1>8. \A i : <<"templates", i>> \in a.gone => Called(i, a.on)
  <2>1. ASSUME NEW i, <<"templates", i>> \in a.gone PROVE i = t.id
    BY <1>2, <2>1 DEF Key
  <2>2. QED
    BY <1>2, <1>3, <2>1 DEF Called
<1>9. <<"templates", t.id>> \in a.gone
  BY <1>2 DEF Key
<1>10. TemplateRole(r, a, s) /\ ~Kills(s) /\ ~VersionPut(s) /\ Counted(r, a, s)
  BY <1>4 DEF Clears, TemplateRole, Kills, VersionPut, TemplatePut, Counted
<1>11. TemplateRole(r, a, u) /\ ~VersionPut(u) /\ Counted(r, a, u)
  BY <1>2, <1>5, <1>6, <1>9 DEF TemplateRole, VersionPut, TemplatePut, Counted
<1>12. Emptied(r, <<s, u>>, u)
  <2>1. s \in WillOf(r, <<s, u>>)
    BY <1>4, <1>5, PairProgram
  <2>2. ASSUME NEW x, Fits(x, u.where) PROVE x.id = t.id
    <3>1. x["id"] = w["id"]
      BY <1>5, <1>6, <2>2 DEF Fits
    <3>2. QED
      BY <1>6, <3>1
  <2>3. QED
    BY <1>4, <2>1, <2>2 DEF Emptied
<1>13. TemplateAsk(r, a, <<s, u>>)
  BY <1>2, <1>4, <1>5, <1>8, <1>10, <1>11, <1>12, TemplateAskPair
<1>14. QED
  BY <1>7, <1>13

\* The order in which a query returns the rows of a set leaves none out.
LEMMA EachInOrder ==
  ASSUME NEW S, IsFiniteSet(S), NEW order \in SetToSeqs(S)
  PROVE  \A x \in S : \E i \in 1..Cardinality(S) : order[i] = x
<1> DEFINE n == Cardinality(S)
<1>1. /\ n \in Nat /\ order \in [1..n -> S]
      /\ \A i, j \in 1..n : i # j => order[i] # order[j]
  BY OneByOne
<1> HIDE DEF n
<1>2. order \in Injection(1..n, S)
  BY <1>1 DEF Injection, IsInjective
<1>3. Cardinality(1..n) = n
  BY <1>1, FS_Interval
<1>4. order \in Surjection(1..n, S)
  BY <1>2, <1>3, FS_Injection DEF n
<1>5. QED
  BY <1>4 DEF Surjection, n

LEMMA AskedDeleteAll ==
  ASSUME RecordsInv, NEW r, DeleteAllTemplates(r)
  PROVE  \E a, q : Begin(r, a, q) /\ TemplateAsk(r, a, q)
<1> DEFINE S == Select("templates", All)
<1>1. PICK order \in SetToSeqs(S) :
        Begin(r, AskDelete("DeleteTemplate", "all", "templates", Live("templates")),
              [i \in DOMAIN order |-> SoftDelete("template_versions", [template |-> order[i].id])]
              \o <<SoftDelete("templates", All)>>)
  BY DEF DeleteAllTemplates, ForEach
<1> DEFINE n == Cardinality(S)
           f == [i \in 1..n |-> SoftDelete("template_versions", [template |-> order[i].id])]
           u == SoftDelete("templates", All)
           a == AskDelete("DeleteTemplate", "all", "templates", Live("templates"))
           q == f \o <<u>>
<1>2. S = Live("templates") /\ IsFiniteSet(S)
  <2>1. S = Live("templates")
    BY NothingFits DEF Select
  <2>2. IsFiniteSet(db["templates"]) /\ S \subseteq db["templates"]
    BY <2>1, TemplateTables DEF RecordsInv, Shapes, Live
  <2>3. QED
    BY <2>1, <2>2, FS_Subset
<1>3. n \in Nat /\ DOMAIN order = 1..n
  BY <1>2, OneByOne
<1>4. \A x \in S : \E i \in 1..n : order[i] = x
  BY <1>2, EachInOrder
<1>5. Begin(r, a, q)
  BY <1>1, <1>3
<1>6. a.kind = "DeleteTemplate" /\ a.on = "all"
  BY AskKinds
<1>7. u.do = "update" /\ u.do \in Simple /\ u.table = "templates" /\ u.where = All /\ u.row = [dead |-> TRUE] /\ Prim(u) = u
  BY ClearForms, UpdateForms
<1>8. \A i \in 1..n : Clears(f[i], order[i].id) /\ Prim(f[i]) = f[i] /\ f[i].do \in Simple
  BY ClearForms
<1>9. IsList(f, n) /\ DOMAIN f = 1..n
  BY <1>3 DEF IsList
<1> HIDE DEF S, n, f, u, a
<1>10. IsSequence(f) /\ IsSequence(<<u>>) /\ Elements(<<u>>) = {u}
  BY <1>9, Listed, ElementsOfTuples
<1>11. Elements(q) = Elements(f) \cup {u} /\ Early(q) \subseteq Elements(f)
  <2>1. /\ IsSequence(q) /\ Elements(q) = Elements(f) \cup {u} /\ Len(f) \in Nat
        /\ DOMAIN q = 1..(Len(f) + Len(<<u>>))
        /\ \A i \in DOMAIN q : q[i] = IF i <= Len(f) THEN f[i] ELSE <<u>>[i - Len(f)]
    BY <1>10, ConcatOf
  <2>2. Len(<<u>>) = 1 /\ Len(q) = Len(f) + 1 /\ DOMAIN f = 1..Len(f)
    BY <1>10, <2>1, ElementsOf
  <2> HIDE DEF q
  <2>3. \A i \in 1..(Len(q) - 1) : i \in DOMAIN f /\ q[i] = f[i]
    BY <2>1, <2>2
  <2>4. QED
    BY <2>1, <2>3 DEF Early, Elements
<1> HIDE DEF q
<1>12. ASSUME NEW s \in Elements(f)
       PROVE  s.do \in Simple /\ Prim(s) = s /\ TemplateRole(r, a, s) /\ ~Kills(s) /\ ~VersionPut(s) /\ Counted(r, a, s)
  <2>1. PICK i \in 1..n : s = f[i]
    BY <1>9 DEF Elements
  <2>2. Clears(s, order[i].id) /\ Prim(s) = s /\ s.do \in Simple
    BY <1>8, <2>1
  <2>3. QED
    BY <2>2 DEF Clears, TemplateRole, Kills, VersionPut, TemplatePut, Counted
<1>13. WillOf(r, q) = {Prim(s) : s \in Elements(q)}
  BY <1>7, <1>11, <1>12, SimpleWill
<1>14. TemplateRole(r, a, u) /\ ~VersionPut(u) /\ Counted(r, a, u)
  BY <1>6, <1>7 DEF TemplateRole, VersionPut, TemplatePut, Counted
<1>15. Emptied(r, q, u)
  <2>1. ASSUME NEW t \in Live("templates") PROVE \E c \in WillOf(r, q) : Clears(c, t.id)
    <3>1. PICK i \in 1..n : order[i] = t
      BY <1>2, <1>4
    <3>2. Clears(f[i], t.id) /\ Prim(f[i]) = f[i]
      BY <1>8, <3>1
    <3>3. f[i] \in Elements(q)
      BY <1>9, <1>11 DEF Elements
    <3>4. QED
      BY <1>13, <3>2, <3>3
  <2>2. QED
    BY <2>1 DEF Emptied
<1>16. TemplateForm(r, a, q)
  BY <1>6, <1>7, <1>11, <1>12 DEF TemplateForm, InTurn
<1>17. TemplateAsk(r, a, q)
  BY <1>6, <1>7, <1>11, <1>12, <1>13, <1>14, <1>15, <1>16 DEF TemplateAsk
<1>18. QED
  BY <1>5, <1>17

LEMMA AskedReset ==
  ASSUME RecordsInv, NEW r \in Requests, Started(r), ResetAll(r, resetTables["templates"])
  PROVE  \E a, q : Begin(r, a, q) /\ TemplateAsk(r, a, q)
<1>1. "templates" \in DOMAIN resetTables /\ resetTables["templates"][1] = "template_versions"
  BY DEF resetTables
<1>2. PICK a, q : Begin(r, a, q) /\ Empties(r, a, q) /\ EmptiesFirst(q, "templates")
  BY <1>1, ResetEmpties
<1>3. IsSequence(q)
  BY <1>2, BeginStarts DEF Starts, Sound, Purposeful, Program, Sequel
<1>4. Early(q) \subseteq Elements(q)
  <2>1. DOMAIN q = 1..Len(q) /\ Len(q) \in Nat
    BY <1>3, ElementsOf
  <2>2. \A i \in 1..(Len(q) - 1) : i \in DOMAIN q
    BY <2>1
  <2>3. QED
    BY <2>2 DEF Early, Elements
<1>5. ASSUME NEW s \in Elements(q)
      PROVE  /\ s.do \in Simple /\ TemplateRole(r, a, Prim(s)) /\ ~Kills(Prim(s)) /\ ~VersionPut(Prim(s))
             /\ Counted(r, a, Prim(s))
  <2>1. s.do \in Simple /\ (s.table # "config" => s.do = "purge")
    BY <1>2 DEF EmptiesFirst
  <2>2. Prim(s).table = s.table /\ (s.do = "purge" => Prim(s) = s)
    BY <2>1, PrimOf DEF Prim
  <2>3. QED
    BY <1>2, <2>1, <2>2 DEF TemplateRole, Empties, Kills, VersionPut, TemplatePut, Counted
<1>6. Prim(Head(q)) = Purge("template_versions", All)
  BY <1>1, <1>2 DEF EmptiesFirst, Prim, Purge
<1>7. WillOf(r, q) = {Prim(s) : s \in Elements(q)}
  BY <1>5, SimpleWill
<1>8. a.kind = "ResetAll" /\ a.on = "all"
  BY <1>2 DEF Empties
<1>9. TemplateForm(r, a, q)
  BY <1>4, <1>5, <1>6, <1>8 DEF TemplateForm, InTurn
<1>10. TemplateAsk(r, a, q)
  BY <1>5, <1>7, <1>8, <1>9 DEF TemplateAsk
<1>11. QED
  BY <1>2, <1>10

\* Every branch that puts an active version has deactivated the others.
LEMMA AskedCreateVersion ==
  ASSUME NEW r, CreateVersion(r)
  PROVE  \E a, q : Begin(r, a, q) /\ TemplateAsk(r, a, q)
<1>1. PICK name, tag, active, t :
        LET add(b) == Insert("template_versions", Version(<<r, 1>>, t.id, tag, b)) IN
        /\ t \in findTemplate(name) /\ versionCount(t) < VersionLimit
        /\ Begin(r, Ask("CreateVersion", name),
             <<IfAny("template_versions", [template |-> t.id],
                     IF active THEN <<deactivateAll(t), add(TRUE)>> ELSE <<add(FALSE)>>,
                     <<deactivateAll(t), add(TRUE)>>)>>)
  BY DEF CreateVersion
<1> DEFINE von  == Version(<<r, 1>>, t.id, tag, TRUE)
           voff == Version(<<r, 1>>, t.id, tag, FALSE)
           on  == Insert("template_versions", von)
           off == Insert("template_versions", voff)
           d   == deactivateAll(t)
           no  == <<d, on>>
           yes == IF active THEN no ELSE <<off>>
           s   == IfAny("template_versions", [template |-> t.id], yes, no)
           a   == Ask("CreateVersion", name)
<1>2. Begin(r, a, <<s>>)
  BY <1>1
<1>3. a.kind = "CreateVersion" /\ a.on = name
  BY AskKinds
<1>4. t \in Live("templates") /\ t.name = name
  BY <1>1, TemplateFound
<1>5. /\ von.template = t.id /\ voff.template = t.id /\ voff.active = FALSE
      /\ von.id = <<r, 1>> /\ voff.id = <<r, 1>>
  BY DEF Version
<1>6. s.do = "test" /\ s.yes = yes /\ s.no = no
  BY DEF IfAny
<1>7. Deactivates(d, t.id) /\ Prim(d) = d /\ d.do \in Simple
  BY ClearForms
<1> HIDE DEF von, voff
<1>8. /\ on.do \in Simple /\ Prim(on) = Store("template_versions", von)
      /\ off.do \in Simple /\ Prim(off) = Store("template_versions", voff)
  BY PutForms
<1> HIDE DEF on, off, d, s, a
<1>9. /\ VersionPut(Prim(on)) /\ Prim(on).row.template = t.id
      /\ VersionPut(Prim(off)) /\ Prim(off).row.template = t.id /\ ~Prim(off).row.active
      /\ Prim(on).row.id = <<r, 1>> /\ Prim(off).row.id = <<r, 1>>
  <2>1. Prim(on).row = von /\ Prim(off).row = voff
    BY <1>8, StoreIs
  <2>2. VersionPut(Prim(on)) /\ VersionPut(Prim(off))
    BY <1>8, StoreIs DEF VersionPut
  <2>3. /\ Prim(on).row.template = t.id /\ Prim(off).row.template = t.id /\ Prim(off).row.active = FALSE
        /\ Prim(on).row.id = <<r, 1>> /\ Prim(off).row.id = <<r, 1>>
    BY <1>5, <2>1
  <2>4. QED
    BY <2>2, <2>3
<1>10. d.do = "update" /\ d.table = "template_versions" /\ d.row = [active |-> FALSE]
  BY <1>7 DEF Deactivates
<1>11. /\ ~VersionPut(d) /\ ~Kills(d) /\ ~Kills(Prim(on)) /\ ~Kills(Prim(off))
  BY <1>9, <1>10 DEF VersionPut, Kills
<1>12. TemplateRole(r, a, d) /\ TemplateRole(r, a, Prim(on)) /\ TemplateRole(r, a, Prim(off))
  BY <1>3, <1>9, <1>10 DEF TemplateRole, VersionPut, VersionWriters, Activators
<1>13. /\ Elements(no) = {d, on} /\ Early(no) = {d} /\ WillOf(r, no) = {d, Prim(on)}
  <2>1. d.do \in Simple /\ on.do \in Simple
    BY <1>7, <1>8
  <2>2. Elements(<<d, on>>) = {d, on} /\ Early(<<d, on>>) = {d} /\ WillOf(r, <<d, on>>) = {Prim(d), Prim(on)}
    BY <2>1, PairProgram
  <2>3. QED
    BY <1>7, <2>2
<1>14. Elements(<<off>>) = {off} /\ InTurn(<<off>>) /\ WillOf(r, <<off>>) = {Prim(off)}
  BY <1>8, LoneProgram
<1>15. InTurn(no) /\ Guarded(r, no)
  BY <1>7, <1>9, <1>11, <1>13 DEF InTurn, Guarded
<1>16. Guarded(r, <<off>>)
  BY <1>9, <1>14 DEF Guarded
<1> HIDE DEF no
<1>17. /\ \A u \in Elements(yes) \cup Elements(no) : u \in {d, on, off}
       /\ InTurn(yes) /\ Guarded(r, yes) /\ d \in Elements(no)
  BY <1>13, <1>14, <1>15, <1>16
<1> HIDE DEF yes
<1>18. Head(<<s>>) = s /\ Elements(<<s>>) = {s}
  <2>1. Head(<<s>>) = s
    OBVIOUS
  <2>2. QED
    BY <2>1, ElementsOfTuples
<1>19. \A p \in WillOf(r, <<s>>) : p \in {d, Prim(on), Prim(off)}
  <2>1. ASSUME NEW p \in WillOf(r, <<s>>) PROVE p \in {d, Prim(on), Prim(off)}
    <3>1. PICK u \in Elements(yes) \cup Elements(no) : p \in Prims(r, u)
      BY <1>6, <1>18 DEF WillOf, Leads, Branches
    <3>2. u \in {d, on, off} /\ u.do \in Simple
      BY <1>7, <1>8, <1>17
    <3>3. p = Prim(u)
      BY <3>1, <3>2 DEF Prims
    <3>4. QED
      BY <1>7, <3>2, <3>3
  <2>2. QED
    BY <2>1
<1>20. d \in WillOf(r, <<s>>)
  <2>1. d \in Prims(r, d)
    BY <1>7 DEF Prims
  <2>2. d \in Leads(r, s)
    BY <1>6, <1>17, <2>1 DEF Leads, Branches
  <2>3. QED
    BY <1>18, <2>2 DEF WillOf
<1>21. Founded(r, a, <<s>>, Prim(on)) /\ Founded(r, a, <<s>>, Prim(off))
  <2>1. Called(t.id, a.on)
    BY <1>3, <1>4 DEF Called
  <2>2. QED
    BY <1>7, <1>9, <1>20, <2>1 DEF Founded
<1>22. TemplateForm(r, a, <<s>>)
  <2>1. Forking(a, <<s>>)
    <3>1. \A u \in Elements(yes) \cup Elements(no) : u.do \in Simple
      BY <1>7, <1>8, <1>17
    <3>2. QED
      BY <1>3, <1>6, <1>15, <1>17, <1>18, <3>1 DEF Forking
  <2>2. Deactivating(r, <<s>>)
    BY <1>6, <1>15, <1>17, <1>18 DEF Deactivating
  <2>3. QED
    BY <1>3, <2>1, <2>2 DEF TemplateForm
<1>23. Counted(r, a, d) /\ Counted(r, a, Prim(on)) /\ Counted(r, a, Prim(off))
  <2>1. Cardinality(Select("template_versions", [template |-> t.id])) < VersionLimit
    BY <1>1 DEF versionCount
  <2>2. ~TemplatePut(Prim(on)) /\ ~TemplatePut(Prim(off)) /\ ~TemplatePut(d)
    BY <1>9, <1>10 DEF TemplatePut, VersionPut
  <2>3. QED
    BY <1>3, <1>9, <1>11, <2>1, <2>2 DEF Counted
<1>24. TemplateAsk(r, a, <<s>>)
  BY <1>3, <1>11, <1>12, <1>19, <1>21, <1>22, <1>23 DEF TemplateAsk
<1>25. QED
  BY <1>2, <1>24

\* A version that was active when it was read is saved active.
LEMMA AskedUpdateVersion ==
  ASSUME RecordsInv, TemplateParts, NEW r, UpdateVersion(r)
  PROVE  \E a, q : Begin(r, a, q) /\ TemplateAsk(r, a, q)
<1>1. PICK name, tag, active, t, v :
        /\ t \in findTemplate(name) /\ v \in findVersion(t, tag)
        /\ Begin(r, AskSave("UpdateVersion", name, "template_versions", v, All),
             IF active THEN <<deactivateAll(t), Save("template_versions", [v EXCEPT !.active = TRUE])>>
                       ELSE <<Save("template_versions", v)>>)
  BY DEF UpdateVersion
<1> DEFINE w == [v EXCEPT !.active = TRUE]
           d == deactivateAll(t)
           s == Save("template_versions", v)
           u == Save("template_versions", w)
           a == AskSave("UpdateVersion", name, "template_versions", v, All)
<1>2. Begin(r, a, <<s>>) \/ Begin(r, a, <<d, u>>)
  BY <1>1
<1>3. a.kind = "UpdateVersion" /\ a.on = name
  BY AskKinds
<1>4. t \in db["templates"] /\ t \in Live("templates") /\ t.name = name
  BY <1>1, TemplateFound
<1>5. v \in Live("template_versions") /\ v.template = t.id /\ DOMAIN v = Columns("template_versions")
  BY <1>1, VersionFound, TemplateTables DEF RecordsInv, Shapes
<1>6. w.template = t.id /\ w.id = v.id
  BY <1>5, TemplateTables
<1>7. Deactivates(d, t.id) /\ Prim(d) = d /\ d.do \in Simple
  BY ClearForms
<1>8. s.do \in Simple /\ Prim(s) = Store("template_versions", v) /\ u.do \in Simple /\ Prim(u) = Store("template_versions", w)
  BY PutForms
<1> HIDE DEF a, w, d, s, u
<1>9. /\ Prim(s).do = "put" /\ Prim(s).table = "template_versions" /\ Prim(s).row = v
      /\ Prim(u).do = "put" /\ Prim(u).table = "template_versions" /\ Prim(u).row = w
  BY <1>8, StoreIs
<1>10. /\ TemplateRole(r, a, Prim(s)) /\ ~Kills(Prim(s)) /\ TemplateRole(r, a, Prim(u)) /\ ~Kills(Prim(u))
       /\ TemplateRole(r, a, d) /\ ~Kills(d) /\ ~VersionPut(d)
  BY <1>3, <1>7, <1>9 DEF TemplateRole, Kills, VersionPut, VersionWriters, Activators, Deactivates
<1>11. Counted(r, a, Prim(s)) /\ Counted(r, a, Prim(u)) /\ Counted(r, a, d)
  BY <1>5, <1>6, <1>7, <1>9 DEF Counted, TemplatePut, VersionPut, Deactivates
<1>12. Called(t.id, a.on)
  BY <1>3, <1>4 DEF Called
<1>13. Founded(r, a, <<d, u>>, Prim(u))
  <2>1. d \in WillOf(r, <<d, u>>)
    BY <1>7, <1>8, PairProgram
  <2>2. QED
    BY <1>6, <1>7, <1>9, <1>12, <2>1 DEF Founded
<1>14. v.active => Solo(v.template, v.id) \/ ActiveClash(a.on) \/ ResetClash(Activators)
  <2>1. ASSUME v.active, NEW x \in Live("template_versions"), x.active, x.template = v.template, x.id # v.id
        PROVE  ActiveClash(a.on) \/ ResetClash(Activators)
    <3>1. Pardoned(v.template)
      BY <1>5, <2>1 DEF TemplateParts, ActiveAlone
    <3>2. ASSUME NEW y \in db["templates"], y.id = v.template PROVE y = t
      BY <1>4, <1>5, <3>2, TemplateTables DEF RecordsInv, DatabaseTypeOK
    <3>3. QED
      BY <1>3, <1>4, <3>1, <3>2 DEF Pardoned
  <2>2. QED
    BY <2>1 DEF Solo
<1>15. Founded(r, a, <<s>>, Prim(s))
  BY <1>5, <1>9, <1>12, <1>14 DEF Founded
<1>16. TemplateAsk(r, a, <<s>>)
  BY <1>3, <1>8, <1>10, <1>15, <1>11, TemplateAskLone
<1>17. TemplateAsk(r, a, <<d, u>>)
  BY <1>3, <1>7, <1>8, <1>10, <1>13, <1>11, TemplateAskPair
<1>18. QED
  BY <1>2, <1>16, <1>17

LEMMA AskedDeleteVersion ==
  ASSUME NEW r, DeleteVersion(r)
  PROVE  \E a, q : Begin(r, a, q) /\ TemplateAsk(r, a, q)
<1>1. PICK name, v : Begin(r, AskDelete("DeleteVersion", name, "template_versions", {v}),
                           <<SoftDelete("template_versions", [id |-> v.id])>>)
  BY DEF DeleteVersion
<1> DEFINE a == AskDelete("DeleteVersion", name, "template_versions", {v})
           s == SoftDelete("template_versions", [id |-> v.id])
<1>2. a.kind = "DeleteVersion"
  BY AskKinds
<1>3. s.do = "update" /\ s.do \in Simple /\ s.table = "template_versions" /\ s.row = [dead |-> TRUE] /\ Prim(s) = s
  BY ClearForms, UpdateForms
<1> HIDE DEF a, s
<1>4. TemplateRole(r, a, s) /\ ~Kills(s) /\ ~VersionPut(s) /\ Counted(r, a, s)
  BY <1>3 DEF TemplateRole, Kills, VersionPut, TemplatePut, Counted
<1>5. TemplateAsk(r, a, <<s>>)
  BY <1>2, <1>3, <1>4, TemplateAskLone
<1>6. QED
  BY <1>1, <1>5 DEF a, s

LEMMA AskedCopyVersion ==
  ASSUME RecordsInv, NEW r, CopyVersion(r)
  PROVE  \E a, q : Begin(r, a, q) /\ TemplateAsk(r, a, q)
<1>1. PICK name, newTag, t, x :
        /\ t \in findTemplate(name)
        /\ \/ /\ x \in findVersion(t, newTag)
              /\ Begin(r, AskSave("CopyVersion", name, "template_versions", x, All),
                       <<Save("template_versions", [x EXCEPT !.active = FALSE])>>)
           \/ Begin(r, Ask("CopyVersion", name),
                    <<Insert("template_versions", Version(<<r, 1>>, t.id, newTag, FALSE))>>)
  BY DEF CopyVersion
<1>2. t \in Live("templates") /\ t.name = name
  BY <1>1, TemplateFound
<1>3. ASSUME NEW a, NEW s, NEW w, a.kind = "CopyVersion", a.on = name, w.template = t.id, w.active = FALSE,
             s \in {Insert("template_versions", w), Save("template_versions", w)}
      PROVE  TemplateAsk(r, a, <<s>>)
  <2>1. s.do \in Simple /\ Prim(s) = Store("template_versions", w)
    BY <1>3, PutForms
  <2>2. Prim(s).do = "put" /\ Prim(s).table = "template_versions" /\ Prim(s).row = w
    BY <2>1, StoreIs
  <2>3. TemplateRole(r, a, Prim(s)) /\ ~Kills(Prim(s)) /\ Counted(r, a, Prim(s))
    BY <1>3, <2>2 DEF TemplateRole, Kills, VersionWriters, Activators, TemplatePut, Counted
  <2>4. Founded(r, a, <<s>>, Prim(s))
    BY <1>2, <1>3, <2>2 DEF Founded, Called
  <2>5. QED
    BY <1>3, <2>1, <2>3, <2>4, TemplateAskLone
<1>4. CASE /\ x \in findVersion(t, newTag)
           /\ Begin(r, AskSave("CopyVersion", name, "template_versions", x, All),
                    <<Save("template_versions", [x EXCEPT !.active = FALSE])>>)
  <2> DEFINE a == AskSave("CopyVersion", name, "template_versions", x, All)
             w == [x EXCEPT !.active = FALSE]
  <2>1. a.kind = "CopyVersion" /\ a.on = name
    BY AskKinds
  <2>2. x.template = t.id /\ DOMAIN x = Columns("template_versions")
    BY <1>4, VersionFound, TemplateTables DEF RecordsInv, Shapes
  <2>3. w.template = t.id /\ w.active = FALSE
    BY <2>2, TemplateTables
  <2> HIDE DEF a, w
  <2>4. TemplateAsk(r, a, <<Save("template_versions", w)>>)
    BY <1>3, <2>1, <2>3
  <2>5. QED
    BY <1>4, <2>4 DEF a, w
<1>5. CASE Begin(r, Ask("CopyVersion", name), <<Insert("template_versions", Version(<<r, 1>>, t.id, newTag, FALSE))>>)
  <2> DEFINE a == Ask("CopyVersion", name)
             w == Version(<<r, 1>>, t.id, newTag, FALSE)
  <2>1. a.kind = "CopyVersion" /\ a.on = name
    BY AskKinds
  <2>2. w.template = t.id /\ w.active = FALSE
    BY DEF Version
  <2> HIDE DEF a, w
  <2>3. TemplateAsk(r, a, <<Insert("template_versions", w)>>)
    BY <1>3, <2>1, <2>2
  <2>4. QED
    BY <1>5, <2>3 DEF a, w
<1>6. QED
  BY <1>1, <1>4, <1>5

LEMMA TemplatesArrive ==
  ASSUME RecordsInv, TemplateInv, NEW q \in Requests, Arrive(q), scene' = scene
  PROVE  TemplateInv'
<1> SUFFICES ASSUME scene = "templates" PROVE TemplateParts'
  BY DEF TemplateInv
<1>1. TemplateParts
  BY DEF TemplateInv
<1>2. Started(q)
  BY ArriveStarts
<1>3. asked[q] = NotAsked
  BY <1>2, Starting DEF Started
<1>4. TemplateHandlers(q) \/ ResetAll(q, resetTables["templates"])
  BY DEF Arrive
<1>5. PICK a, p : Begin(q, a, p) /\ TemplateAsk(q, a, p)
  BY <1>1, <1>2, <1>3, <1>4, AskedCreateTemplate, AskedUpdateTemplate, AskedDeleteTemplate, AskedDeleteAll,
     AskedCreateVersion, AskedUpdateVersion, AskedDeleteVersion, AskedCopyVersion, AskedReset DEF TemplateHandlers
<1>6. Starts(q, a, p)
  BY <1>2, <1>5, BeginStarts
<1>7. TemplateRoles' /\ TemplateForms' /\ TemplatesNamed' /\ VersionsNamed' /\ VersionsBorn'
  BY <1>1, <1>5, <1>6, TemplatesStart
<1>8. VersionsHomed' /\ VersionsCleared' /\ VersionsEmptied' /\ ActiveAlone' /\ ActiveComing'
  BY <1>1, <1>5, <1>6, VersionsStart
<1>9. TemplatesFit' /\ VersionsFit'
  BY <1>1, <1>5, <1>6, TemplatesFitStart, VersionsFitStart
<1>10. QED
  BY <1>7, <1>8, <1>9 DEF TemplateParts

----------------------------------------------------------------------------
(* The theorems.                                                           *)

LEMMA TemplatesBegin == Init => TemplateInv
<1> SUFFICES ASSUME Init, scene = "templates" PROVE TemplateParts
  BY DEF TemplateInv
<1>1. PICK d : DatabaseInit(d) /\ (d \in TemplateSeeds \/ d = NoRows)
  BY DEF Init, Seeds
<1>2. db = d /\ \A r \in Requests : asked[r] = NotAsked /\ todo[r] = << >>
  BY <1>1 DEF DatabaseInit
<1>3. \/ d["templates"] = {} /\ d["template_versions"] = {}
      \/ \E t, v : /\ d["templates"] = {t} /\ d["template_versions"] = {v}
                   /\ t.id = <<"seed", 1>> /\ t.dead = FALSE /\ v.template = <<"seed", 1>>
  <2>1. NoRows["templates"] = {} /\ NoRows["template_versions"] = {} /\ DOMAIN NoRows = Tables
    BY TemplateTables DEF NoRows
  <2>2. PICK name, tag : TemplateSeeds =
           {NoRows, [NoRows EXCEPT !.templates = {Template(<<"seed", 1>>, name)},
                                   !.template_versions = {Version(<<"seed", 2>>, <<"seed", 1>>, tag, TRUE)}]}
    BY DEF TemplateSeeds
  <2> DEFINE t == Template(<<"seed", 1>>, name)
             v == Version(<<"seed", 2>>, <<"seed", 1>>, tag, TRUE)
             e == [NoRows EXCEPT !.templates = {t}, !.template_versions = {v}]
  <2>3. t.id = <<"seed", 1>> /\ t.dead = FALSE /\ v.template = <<"seed", 1>>
    BY DEF Template, Version
  <2>4. TemplateSeeds = {NoRows, e}
    BY <2>2
  <2> HIDE DEF t, v
  <2>5. e["templates"] = {t} /\ e["template_versions"] = {v}
    BY <2>1, TemplateTables
  <2> HIDE DEF e
  <2>6. QED
    BY <1>1, <2>1, <2>3, <2>4, <2>5
<1>4. \A r \in Requests : /\ Will(r) = {} /\ IdsOf(r, todo[r]) = {} /\ asked[r].kind = "none"
                          /\ Elements(todo[r]) = {} /\ Early(todo[r]) = {} /\ todo[r] = << >>
  <2>1. Elements(<< >>) = {} /\ Early(<< >>) = {}
    BY DEF Elements, Early
  <2>2. QED
    BY <1>2, <2>1, NothingLeft DEF NotAsked, Ask
<1>5. TemplateRoles /\ VersionsNamed /\ VersionsCleared /\ ActiveComing
  BY <1>4 DEF TemplateRoles, VersionsNamed, VersionsCleared, ActiveComing
<1>6. TemplateForms /\ TemplatesNamed /\ VersionsEmptied
  BY <1>4 DEF TemplateForms, Straight, InTurn, Insists, AskedFor, TemplatesNamed, VersionsEmptied
<1>7. VersionsBorn /\ VersionsHomed /\ ActiveAlone
  <2>1. \A r \in Requests : \A i : Out(i, r)
    BY <1>4 DEF Out
  <2>2. CASE db["templates"] = {} /\ db["template_versions"] = {}
    BY <1>4, <2>2 DEF VersionsBorn, VersionsHomed, ActiveAlone, Live
  <2>3. CASE \E t, v : /\ db["templates"] = {t} /\ db["template_versions"] = {v}
                       /\ t.id = <<"seed", 1>> /\ t.dead = FALSE /\ v.template = <<"seed", 1>>
    <3>1. PICK t, v : /\ db["templates"] = {t} /\ db["template_versions"] = {v}
                      /\ t.id = <<"seed", 1>> /\ t.dead = FALSE /\ v.template = <<"seed", 1>>
      BY <2>3
    <3>2. Known(v.template[1])
      BY <3>1 DEF Known
    <3>3. Homed(v.template)
      BY <3>1 DEF Homed
    <3>4. QED
      BY <1>4, <2>1, <3>1, <3>2, <3>3 DEF VersionsBorn, VersionsHomed, ActiveAlone, Live
  <2>4. QED
    BY <1>2, <1>3, <2>2, <2>3
<1>8. TemplatesFit /\ VersionsFit
  <2>1. ASSUME NEW R, R = {} \/ \E x : R = {x} PROVE \E S : IsFiniteSet(S) /\ Cardinality(S) <= 1 /\ \A x \in R : x.id \in S
    <3>1. CASE R = {}
      BY <3>1, FS_EmptySet
    <3>2. ASSUME NEW x, R = {x} PROVE \E S : IsFiniteSet(S) /\ Cardinality(S) <= 1 /\ \A y \in R : y.id \in S
      <4>1. IsFiniteSet({x.id}) /\ Cardinality({x.id}) = 1 /\ \A y \in R : y.id \in {x.id}
        BY <3>2, FS_Singleton
      <4>2. QED
        BY <4>1
    <3>3. QED
      BY <2>1, <3>1, <3>2
  <2>2. \A S, n : IsFiniteSet(S) /\ Cardinality(S) <= 1 /\ n \in Nat \ {0} => Room(S, n)
    <3>1. ASSUME NEW S, NEW n \in Nat \ {0}, IsFiniteSet(S), Cardinality(S) <= 1 PROVE Room(S, n)
      BY <3>1, FS_CardinalityType DEF Room
    <3>2. QED
      BY <3>1
  <2>3. PICK S : Room(S, TemplateLimit) /\ \A x \in db["templates"] : x.id \in S
    BY <1>2, <1>3, <2>1, <2>2, TemplatesAssumption
  <2>4. PICK T : Room(T, VersionLimit) /\ \A x \in db["template_versions"] : x.id \in T
    BY <1>2, <1>3, <2>1, <2>2, TemplatesAssumption
  <2>5. HoldsTemplates(S) /\ \A i : HoldsVersions(T, i)
    BY <1>4, <2>3, <2>4 DEF HoldsTemplates, HoldsVersions, Live
  <2>6. QED
    BY <2>3, <2>4, <2>5 DEF TemplatesFit, VersionsFit, VersionsRoom
<1>9. QED
  BY <1>5, <1>6, <1>7, <1>8 DEF TemplateParts

LEMMA TemplatesImply ==
  ASSUME RecordsInv, Scoped, TemplateInv
  PROVE  VersionsFollowTemplate /\ OneActiveVersion
<1>1. ASSUME db["template_versions"] # {} PROVE TemplateParts
  <2>1. ~Elsewhere("template_versions")
    BY <1>1, TemplateTables DEF Scoped
  <2>2. scene \in Components /\ "template_versions" \in TablesOf(scene)
    BY <2>1 DEF Elsewhere
  <2>3. scene \in DOMAIN Duties
    BY <2>2, ServiceAssumption, ResetTablesOf
  <2>4. scene = "templates"
    BY <2>2, <2>3 DEF TablesOf, OwnOf, Duties
  <2>5. QED
    BY <2>4 DEF TemplateInv
<1>2. ASSUME NEW v \in Live("template_versions") PROVE TemplateParts
  BY <1>1 DEF Live
<1>3. VersionsFollowTemplate
  <2>1. \A v \in Live("template_versions") : ResetClash(VersionWriters) \/ Homed(v.template)
    BY <1>2 DEF TemplateParts, VersionsHomed
  <2>2. QED
    BY <2>1 DEF VersionsFollowTemplate, Homed, TemplateClash
<1>4. OneActiveVersion
  <2>1. ASSUME NEW a \in Live("template_versions"), NEW b \in Live("template_versions"),
               a.active, b.active, a.template = b.template, a.id # b.id
        PROVE  Pardoned(a.template)
    BY <1>2, <2>1 DEF TemplateParts, ActiveAlone
  <2>2. QED
    BY <2>1 DEF OneActiveVersion, Pardoned, ActiveClash
<1>5. QED
  BY <1>3, <1>4

LEMMA LimitsHeld ==
  ASSUME RecordsInv, Scoped, TemplateInv
  PROVE  WithinLimits
<1>1. ASSUME scene = "templates" PROVE TemplatesFit /\ VersionsFit
  BY <1>1 DEF TemplateInv, TemplateParts
<1>2. ASSUME scene # "templates" PROVE db["templates"] = {}
  <2>1. CASE scene \in Components
    <3>1. scene \in DOMAIN Duties
      BY <2>1, ServiceAssumption, ResetTablesOf
    <3>2. "templates" \notin TablesOf(scene)
      BY <1>2, <3>1 DEF TablesOf, OwnOf, Duties
    <3>3. Elsewhere("templates")
      BY <3>2 DEF Elsewhere
    <3>4. QED
      BY <3>3, TemplateTables DEF Scoped
  <2>2. CASE scene \notin Components
    BY <2>2, TemplateTables DEF Scoped, Elsewhere
  <2>3. QED
    BY <2>1, <2>2
<1>3. \A t \in {"templates", "template_versions"} : \A x, y \in db[t] : x.id = y.id => x = y
  BY TemplateTables DEF RecordsInv, DatabaseTypeOK
<1>4. ASSUME NEW R, \A x, y \in R : x.id = y.id => x = y, NEW S, NEW n \in Nat, Room(S, n), \A x \in R : x.id \in S
      PROVE  ~(Cardinality(R) > n)
  <2>1. IsFiniteSet(R) /\ Cardinality(R) <= Cardinality(S)
    BY <1>4, IdsBound DEF Room
  <2>2. Cardinality(R) \in Nat /\ Cardinality(S) \in Nat
    BY <1>4, <2>1, FS_CardinalityType DEF Room
  <2>3. QED
    BY <1>4, <2>1, <2>2 DEF Room
<1>5. ASSUME Cardinality(Live("templates")) > TemplateLimit PROVE CreateClash
  <2>1. scene = "templates"
    <3>1. ASSUME scene # "templates" PROVE FALSE
      <4>1. Live("templates") = {}
        BY <1>2, <3>1 DEF Live
      <4>2. Cardinality(Live("templates")) = 0
        BY <4>1, FS_EmptySet
      <4>3. QED
        BY <1>5, <4>2, TemplatesAssumption
    <3>2. QED
      BY <3>1
  <2>2. ASSUME NEW S, Room(S, TemplateLimit), HoldsTemplates(S) PROVE FALSE
    BY <1>3, <1>4, <1>5, <2>2, TemplatesAssumption DEF HoldsTemplates, Live
  <2>3. QED
    BY <1>1, <2>1, <2>2 DEF TemplatesFit
<1>6. ASSUME NEW t \in Live("templates"), versionCount(t) > VersionLimit PROVE ActiveClash(t.name) \/ Copied(t.name)
  <2>1. t \in Copies("templates") /\ scene = "templates"
    BY <1>2 DEF Live, Copies
  <2>2. ASSUME VersionsRoom(t.id) PROVE FALSE
    <3> DEFINE R == Select("template_versions", [template |-> t.id])
    <3>1. PICK S : Room(S, VersionLimit) /\ HoldsVersions(S, t.id)
      BY <2>2 DEF VersionsRoom
    <3>2. \A x \in R : x \in Live("template_versions") /\ x.template = t.id
      <4> DEFINE w == [template |-> t.id]
      <4>1. "template" \in DOMAIN w /\ w["template"] = t.id
        OBVIOUS
      <4> HIDE DEF w
      <4>2. \A x \in Select("template_versions", w) : x \in Live("template_versions") /\ x["template"] = t.id
        BY <4>1 DEF Select, Fits
      <4>3. QED
        BY <4>2 DEF w
    <3>3. Cardinality(R) > VersionLimit
      BY <1>6 DEF versionCount
    <3> HIDE DEF R
    <3>4. \A x \in R : x.id \in S
      BY <3>1, <3>2 DEF HoldsVersions
    <3>5. \A x, y \in R : x.id = y.id => x = y
      BY <1>3, <3>2 DEF Live
    <3>6. QED
      BY <1>4, <3>1, <3>3, <3>4, <3>5, TemplatesAssumption
  <2>3. QED
    BY <1>1, <2>1, <2>2 DEF VersionsFit
<1>7. QED
  BY <1>5, <1>6 DEF WithinLimits, CreateClash, ActiveClash, Copied

LEMMA TemplatesStep == Settled /\ TemplateInv /\ [Next]_vars => TemplateInv'
<1> SUFFICES ASSUME Settled, TemplateInv, [Next]_vars PROVE TemplateInv'
  OBVIOUS
<1>1. RecordsInv /\ scene' = scene /\ (Idle \/ \E q \in Requests : Arrive(q) \/ Continue(q))
  BY ServiceSteps DEF Settled, Steady
<1>2. CASE Idle
  <2>1. db' = db /\ todo' = todo /\ asked' = asked /\ before' = before
    BY <1>2 DEF Idle, dbVars
  <2>2. TemplateRoles' = TemplateRoles /\ TemplateForms' = TemplateForms
    BY <2>1 DEF TemplateRoles, TemplateForms, Will, TemplateRole, Straight, Forks, Insists, AskedFor
  <2>3. /\ \A o : (TemplateClash(o)' <=> TemplateClash(o)) /\ (ActiveClash(o)' <=> ActiveClash(o))
        /\ \A r : ResetMet(r)' <=> ResetMet(r)
    BY <2>1 DEF TemplateClash, ActiveClash, Clash, ResetMet, Overlap, AskedFor, Preceded
  <2>4. \A K : ResetClash(K)' <=> ResetClash(K)
    BY <2>1 DEF ResetClash, Overlap, AskedFor, Preceded
  <2>5. /\ \A r : Will(r)' = Will(r) /\ Next1(r)' = Next1(r)
        /\ \A t : Live(t)' = Live(t) /\ Copies(t)' = Copies(t)
    BY <2>1 DEF Will, Next1, Live, Copies, Held
  <2>6. VersionsNamed' = VersionsNamed /\ TemplatesNamed' = TemplatesNamed
    BY <2>1, <2>5 DEF VersionsNamed, TemplatesNamed, AskedFor, VersionPut
  <2>7. VersionsBorn' = VersionsBorn
    BY <2>1 DEF VersionsBorn, Known, Began, Out, Will, VersionPut
  <2>8. VersionsHomed' = VersionsHomed
    BY <2>1, <2>3, <2>4, <2>5 DEF VersionsHomed, Homed, Storing, VersionPut, TemplatePut
  <2>9. VersionsCleared' = VersionsCleared
    BY <2>1, <2>3, <2>4, <2>5 DEF VersionsCleared, Kills, Clears
  <2>10. VersionsEmptied' = VersionsEmptied
    BY <2>1, <2>4, <2>5 DEF VersionsEmptied, AskedFor, Purge
  <2>11. ActiveAlone' = ActiveAlone
    BY <2>1, <2>3, <2>4, <2>5 DEF ActiveAlone, Pardoned
  <2>12. ActiveComing' = ActiveComing
    BY <2>1, <2>3, <2>4, <2>5 DEF ActiveComing, Solo, VersionPut, Deactivates
  <2>13. TemplatesFit' = TemplatesFit
    BY <2>1, <2>5 DEF TemplatesFit, CreateClash, Overlap, Preceded, AskedFor, HoldsTemplates, TemplatePut, Room
  <2>14. VersionsFit' = VersionsFit
    <3>1. \A n : Copied(n)' <=> Copied(n)
      BY <2>1 DEF Copied, AskedFor
    <3>2. \A i : VersionsRoom(i)' <=> VersionsRoom(i)
      BY <2>5 DEF VersionsRoom, HoldsVersions, VersionPut, Room
    <3>3. QED
      BY <2>3, <2>5, <3>1, <3>2 DEF VersionsFit
  <2>15. TemplateParts' = TemplateParts
    BY <2>2, <2>6, <2>7, <2>8, <2>9, <2>10, <2>11, <2>12, <2>13, <2>14 DEF TemplateParts
  <2>16. QED
    BY <1>1, <2>15 DEF TemplateInv
<1>3. ASSUME NEW q \in Requests, Arrive(q) PROVE TemplateInv'
  BY <1>1, <1>3, TemplatesArrive
<1>4. ASSUME NEW q \in Requests, Continue(q) PROVE TemplateInv'
  BY <1>1, <1>4, TemplatesContinue DEF TemplateInv
<1>5. QED
  BY <1>1, <1>2, <1>3, <1>4

\* A version outlives its template only if a deletion, by name or of all, or a reset overlapped
\* the request that wrote the version, for any number of templates, versions and requests
\* (template/handlers.go: DeleteTemplate deletes the versions before the template; CreateVersion,
\* UpdateVersion and CopyVersion look the template up before they write, and do not look again).
THEOREM VersionsGoWithTemplate == Spec => []VersionsFollowTemplate
<1>1. Settled /\ TemplateInv => VersionsFollowTemplate
  BY TemplatesImply DEF Settled, Steady
<1>2. QED
  BY <1>1, SettledBegins, SettledSteps, TemplatesBegin, TemplatesStep, PTL DEF Spec

\* Two versions of a template are active only if two requests that may activate one, or a reset and
\* one of them, overlapped, for any number of versions and requests (template/handlers.go: CreateVersion
\* and UpdateVersion deactivate every version in one statement and write theirs in the next;
\* UpdateVersion writes back the whole row it read before).
THEOREM OneVersionIsActive == Spec => []OneActiveVersion
<1>1. Settled /\ TemplateInv => OneActiveVersion
  BY TemplatesImply DEF Settled, Steady
<1>2. QED
  BY <1>1, SettledBegins, SettledSteps, TemplatesBegin, TemplatesStep, PTL DEF Spec

\* There are more templates than the limit only if two requests that add one overlapped, and more
\* versions only if activations of the template overlapped or a version was copied, for any limits
\* and any number of requests (template/handlers.go counts, then inserts; CopyVersion does not count;
\* what UpdateTemplate and UpdateVersion save they may bring back).
THEOREM LimitsHold == Spec => []WithinLimits
<1>1. Settled /\ TemplateInv => WithinLimits
  BY LimitsHeld DEF Settled, Steady
<1>2. QED
  BY <1>1, SettledBegins, SettledSteps, TemplatesBegin, TemplatesStep, PTL DEF Spec

----------------------------------------------------------------------------
(* Webhooks and the deliveries of triggers.  What a request registers is   *)
(* still to be inserted or is there, what it replaces is still to be       *)
(* purged or is gone; a trigger has read what it will deliver to, or has   *)
(* it recorded, or has still to record it.                                 *)

Posters     == {"CreateWebhook", "UpdateWebhook", "V4CreateWebhook", "V4UpdateWebhook"}
Askers      == {"V4CreateWebhook", "TriggerWebhook"}
Withdrawers == {"DeleteAccountWebhook", "BulkDeleteAccountWebhooks", "ResetAll"}
Upsetters   == Removers \cup {"UpdateAccountWebhook", "DeleteAccountWebhook",
                              "BulkDeleteAccountWebhooks", "CreateWebhook",
                              "V4CreateWebhook", "CreateAccountWebhook"}
Alterers    == {"UpdateAccountWebhook", "ResetAll"}

\* Who writes the webhooks and the deliveries.
DomainHookDuty(r, a, p) ==
  \/ p.do = "put" /\ by(p.row) = r /\ a.kind \in Posters
  \/ p.do = "purge" /\ a.kind \in Removers
AccountHookDuty(r, a, p) ==
  \/ p.do = "put" /\ by(p.row) = r /\ a.kind = "CreateAccountWebhook"
  \/ p.do = "put" /\ by(p.row) # r /\ a.kind = "UpdateAccountWebhook"
  \/ p.do = "purge" /\ a.kind \in Withdrawers
DeliveryDuty(r, a, p) ==
  \/ p.do = "put" /\ by(p.row) = r /\ p.row.trigger = r /\ a.kind = "TriggerWebhook"
  \/ p.do = "purge" /\ a.kind = "ResetAll"
HookDuty(r, a, p) ==
  /\ p.table = "domain_webhooks" => DomainHookDuty(r, a, p)
  /\ p.table = "account_webhooks" => AccountHookDuty(r, a, p)
  /\ p.table = "webhook_deliveries" => DeliveryDuty(r, a, p)
HookDuties == \A r \in Requests : \A p \in Will(r) : HookDuty(r, asked[r], p)

WrittenBy(x, K) == by(x) = "seed" \/ AskedFor(by(x), K)
HooksWritten ==
  /\ \A x \in db["domain_webhooks"] : ~x.dead /\ WrittenBy(x, Posters)
  /\ \A x \in Copies("account_webhooks") : WrittenBy(x, {"CreateAccountWebhook"})
  /\ \A d \in db["webhook_deliveries"] : d.trigger \in Requests /\ AskedFor(d.trigger, {"TriggerWebhook"})

\* What r replaces: once it has, nothing of before r is left.
SweptBy(a) == IF a.kind \in {"UpdateWebhook", "DeleteWebhook"} THEN {[event |-> a.on]}
              ELSE IF a.kind = "V4UpdateWebhook" THEN {[url |-> a.on]} ELSE {}
Replaced(r, w) == \A x \in db["domain_webhooks"] : Fits(x, w) => ~WrittenBefore(x, r)
HooksSwept ==
  \A r \in Requests : \A w \in SweptBy(asked[r]) :
    r \in failed \/ Purge("domain_webhooks", w) \in Will(r) \/ Replaced(r, w)

\* What r registers.
PostedBy(a) == IF a.kind \in {"CreateWebhook", "UpdateWebhook"} THEN {<<a.on, u>> : u \in ToSet(a.urls)}
               ELSE IF a.kind \in {"V4CreateWebhook", "V4UpdateWebhook"} THEN {<<e, a.on>> : e \in ToSet(a.urls)}
               ELSE {}
IsHook(x, g)   == x.event = g[1] /\ x.url = g[2]
HookPut(p, g)  == p.do = "put" /\ p.table = "domain_webhooks" /\ IsHook(p.row, g)
HookComing(r, g) == \E p \in Will(r) : HookPut(p, g)
HookThere(g)   == \E x \in db["domain_webhooks"] : IsHook(x, g)
Sweeping(r)    == \E p \in Will(r) : p.do = "purge"
HooksPosted ==
  \A r \in Requests : \A g \in PostedBy(asked[r]) :
    \/ r \in failed \/ MayHaveRemoved(r, Removers) \/ HookComing(r, g)
    \/ HookThere(g) /\ ~Sweeping(r)

\* Its program: a purge at most, and that first.
Posting(s) == s.do = "put" /\ s.table = "domain_webhooks"
Looking(s) == \E e, u, t :
  /\ s = IfAny("domain_webhooks", [event |-> e, url |-> u], << >>, <<t>>)
  /\ Posting(t) /\ t.row.event = e /\ t.row.url = u
Orderly(q) == \A i \in DOMAIN q :
  Posting(q[i]) \/ Looking(q[i]) \/ (i = 1 /\ q[i].do = "purge" /\ q[i].table = "domain_webhooks")
PostersOrderly ==
  \A r \in Requests :
    /\ AskedFor(r, Posters) => Orderly(todo[r])
    /\ ~AskedFor(r, Askers) => \A s \in Elements(todo[r]) : s.do \notin Special

\* What a trigger has recorded or will record, and to where.
Uncollected(r) == \E U : todo[r] = <<[do |-> "collect", event |-> asked[r].on, urls |-> U]>>
Undelivered(r) ==
  Uncollected(r) \/ \E U : todo[r] = <<[do |-> "deliver", urls |-> U]>>
Recording(q) == \A s \in Elements(q) : s.do = "put" /\ s.table = "webhook_deliveries"
Due(r)  == {p.row : p \in {p \in Will(r) : p.do = "put" /\ p.table = "webhook_deliveries"}}
Sent(r) == {d \in db["webhook_deliveries"] : d.trigger = r} \cup Due(r)
Targeted(r) == IF Undelivered(r) THEN Head(todo[r]).urls ELSE {d.url : d \in Sent(r)}
OnDomainUrls(r)  == {w.url : w \in {w \in Live("domain_webhooks") : w.event = asked[r].on /\ WrittenBefore(w, r)}}
OnAccount(r) == {a.url : a \in {a \in Live("account_webhooks") : asked[r].on \in a.events /\ WrittenBefore(a, r)}}
Delivers(r) ==
  /\ Undelivered(r) \/ Recording(todo[r])
  /\ Undelivered(r) => Sent(r) = {}
  /\ \A d, e \in Sent(r) : d.url = e.url => d = e
  /\ MayHaveRemoved(r, Alterers) \/ OnDomainUrls(r) \subseteq Targeted(r)
  /\ MayHaveRemoved(r, Alterers) \/ Uncollected(r) \/ OnAccount(r) \subseteq Targeted(r)
  /\ MayHaveRemoved(r, Upsetters) \/ Targeted(r) \subseteq OnDomainUrls(r) \cup OnAccount(r)
TriggersDeliver == \A r \in Requests : AskedFor(r, {"TriggerWebhook"}) => Delivers(r)

HookParts == HookDuties /\ HooksWritten /\ HooksSwept /\ HooksPosted /\ PostersOrderly /\ TriggersDeliver
HookInv == scene \in {"webhooks", "triggers"} => HookParts

\* Requests that were not over when r began, while others go on or begin.
LEMMA RemoversStay ==
  ASSUME RecordsInv, NEW r \in Requests, NEW K, "none" \notin K, MayHaveRemoved(r, K)
  PROVE  /\ \A q : Outcome(q) => MayHaveRemoved(r, K)'
         /\ \A q, a, p : Starts(q, a, p) /\ q # r => MayHaveRemoved(r, K)'
<1>1. PICK s \in Requests \ {r} : AskedFor(s, K) /\ ~Preceded(s, r)
  BY DEF MayHaveRemoved
<1>2. ASSUME NEW q, Outcome(q) PROVE MayHaveRemoved(r, K)'
  BY <1>1, <1>2 DEF MayHaveRemoved, AskedFor, Preceded, Outcome
<1>3. ASSUME NEW q, NEW a, NEW p, Starts(q, a, p), q # r PROVE MayHaveRemoved(r, K)'
  <2>1. s # q
    BY <1>1, <1>3, Starting DEF AskedFor, NotAsked, Ask
  <2>2. asked'[s] = asked[s]
    BY <1>3, <2>1, Starting
  <2>3. ~Preceded(s, r)'
    BY <1>1, <1>3, StartingAnswers
  <2>4. QED
    BY <1>1, <2>2, <2>3 DEF MayHaveRemoved, AskedFor
<1>4. QED
  BY <1>2, <1>3

LEMMA RunningRemover ==
  ASSUME RecordsInv, NEW q \in Requests, todo[q] # << >>, NEW r, q # r, NEW K, AskedFor(q, K)
  PROVE  MayHaveRemoved(r, K)
BY Active DEF MayHaveRemoved

LEMMA WrittenBeforeStays ==
  ASSUME RecordsInv, NEW r \in Requests
  PROVE  /\ \A q : Outcome(q) => \A x : WrittenBefore(x, r)' <=> WrittenBefore(x, r)
         /\ \A q, a, p : Starts(q, a, p) /\ q # r => \A x : WrittenBefore(x, r)' <=> WrittenBefore(x, r)
         /\ \A q \in Requests : todo[q] # << >> => \A x : by(x) = q => ~WrittenBefore(x, r)
<1>1. ASSUME NEW q, Outcome(q) PROVE \A x : WrittenBefore(x, r)' <=> WrittenBefore(x, r)
  BY <1>1 DEF WrittenBefore, Preceded, Outcome
<1>2. ASSUME NEW q, NEW a, NEW p, Starts(q, a, p), q # r PROVE \A x : WrittenBefore(x, r)' <=> WrittenBefore(x, r)
  <2>1. \A s \in Requests : Preceded(s, r)' <=> Preceded(s, r)
    BY <1>2, StartingAnswers
  <2>2. QED
    BY <2>1 DEF WrittenBefore
<1>3. ASSUME NEW q \in Requests, todo[q] # << >>, NEW x, by(x) = q PROVE ~WrittenBefore(x, r)
  <2>1. q # "seed" /\ ~Preceded(q, r)
    BY <1>3, Active, DatabaseAssumption
  <2>2. QED
    BY <1>3, <2>1 DEF WrittenBefore, by
<1>4. QED
  BY <1>1, <1>2, <1>3

LEMMA HookTables ==
  /\ "domain_webhooks" \in Tables \ {"config"} /\ "account_webhooks" \in Tables \ {"config"}
  /\ "webhook_deliveries" \in Tables \ {"config"}
  /\ UniqueIndex["domain_webhooks"] = {{"event", "url"}} /\ UniqueIndex["webhook_deliveries"] = {}
BY DEF Tables, UniqueIndex

\* Only a trigger records deliveries.
LEMMA RecordsIsTrigger ==
  ASSUME RecordsInv, PostersOrderly, NEW q \in Requests, todo[q] # << >>, NEW p, Records(q, p)
  PROVE  AskedFor(q, {"TriggerWebhook"})
<1> DEFINE h == Head(todo[q])
<1>1. h.do = "deliver" /\ h \in Elements(todo[q])
  BY Situation DEF Records, Deliver
<1>2. AskedFor(q, Askers)
  BY <1>1 DEF PostersOrderly, Special
<1>3. ~AskedFor(q, {"V4CreateWebhook"})
  <2> SUFFICES ASSUME AskedFor(q, {"V4CreateWebhook"}) PROVE FALSE
    OBVIOUS
  <2>1. Orderly(todo[q])
    BY DEF PostersOrderly, AskedFor, Posters
  <2>2. PICK i \in DOMAIN todo[q] : h = todo[q][i]
    BY <1>1 DEF Elements
  <2>3. Posting(h) \/ Looking(h) \/ h.do = "purge"
    BY <2>1, <2>2 DEF Orderly
  <2>4. Looking(h) => h.do = "test"
    BY DEF Looking, IfAny
  <2> HIDE DEF h
  <2>5. QED
    BY <1>1, <2>3, <2>4 DEF Posting
<1>4. QED
  BY <1>2, <1>3 DEF Askers, AskedFor

LEMMA DutiesStay ==
  ASSUME RecordsInv, HookDuties, PostersOrderly, NEW q, Outcome(q)
  PROVE  HookDuties'
<1>1. q \in Requests /\ todo[q] # << >> /\ asked' = asked
  BY DEF Outcome
<1>2. ASSUME NEW r \in Requests, NEW p \in WillOf(r, todo'[r]) PROVE HookDuty(r, asked[r], p)
  <2>1. CASE p \in Will(r)
    BY <2>1 DEF HookDuties
  <2>2. CASE p \notin Will(r)
    <3>1. r = q /\ Records(q, p)
      BY <1>1, <1>2, <2>2 DEF Outcome, ProgramAfter, Will
    <3>2. asked[q].kind = "TriggerWebhook"
      BY <1>1, <3>1, RecordsIsTrigger DEF AskedFor
    <3>3. p.do = "put" /\ p.table = "webhook_deliveries" /\ p.row.trigger = q /\ by(p.row) = q
      BY <3>1 DEF Records
    <3>4. QED
      BY <3>1, <3>2, <3>3 DEF HookDuty, DeliveryDuty
  <2>3. QED
    BY <2>1, <2>2
<1>3. QED
  BY <1>1, <1>2 DEF HookDuties, Will, HookDuty, DomainHookDuty, AccountHookDuty, DeliveryDuty

\* What a step does to the rows.
LEMMA HookRows ==
  ASSUME RecordsInv, HookDuties, NEW q, Outcome(q)
  PROVE  /\ \A x \in db'["domain_webhooks"] : \/ x \in db["domain_webhooks"]
                                              \/ ~x.dead /\ by(x) = q /\ AskedFor(q, Posters)
         /\ \A x \in db["domain_webhooks"] : \/ x \in db'["domain_webhooks"]
                                             \/ AskedFor(q, Removers) /\ Sweeping(q)
<1> DEFINE t == "domain_webhooks"
<1>1. q \in Requests /\ todo[q] # << >> /\ t \in Tables
  BY HookTables DEF Outcome
<1>2. \A p \in Will(q) : p.table = t => DomainHookDuty(q, asked[q], p)
  BY <1>1 DEF HookDuties, HookDuty
<1>3. ASSUME NEW x \in db'[t] PROVE x \in db[t] \/ (~x.dead /\ by(x) = q /\ AskedFor(q, Posters))
  <2>1. Kept(t, x) \/ Stored(q, t, x) \/ Changed(q, t, x)
    BY <1>1, <1>3, NewRows
  <2>2. ~Changed(q, t, x)
    BY <1>2 DEF Changed, DomainHookDuty
  <2>3. CASE Stored(q, t, x)
    <3>1. PICK p \in Will(q) : p.do = "put" /\ p.table = t /\ x = p.row
      BY <2>3 DEF Stored
    <3>2. Sane(p)
      BY <1>1, <3>1, Situation
    <3>3. QED
      BY <1>2, <3>1, <3>2 DEF DomainHookDuty, AskedFor, Sane
  <2>4. QED
    BY <2>1, <2>2, <2>3 DEF Kept
<1>4. ASSUME NEW x \in db[t], x \notin db'[t] PROVE AskedFor(q, Removers) /\ Sweeping(q)
  <2>1. PICK p \in Will(q) : Ran(q, p, t)
    BY <1>1, <1>4 DEF Outcome, TablesAfter
  <2>2. Sane(p) /\ RowsOf(t, db[t]) /\ p.table = t /\ db'[t] = Apply(p, db[t])
    BY <1>1, <2>1, Situation DEF Ran
  <2>3. (p.do = "put" /\ x.id = p.row.id) \/ p.do = "purge" \/ p.do = "update"
    BY <1>4, <2>2, RowsAfter
  <2>4. ~(p.do = "put" /\ x.id = p.row.id)
    <3> SUFFICES ASSUME p.do = "put", x.id = p.row.id PROVE FALSE
      OBVIOUS
    <3>1. by(p.row) = q
      BY <1>2, <2>1, <2>2 DEF DomainHookDuty
    <3>2. Key(t, p.row) \in IdsOf(q, todo[q])
      BY <2>2, <3>1, MineIsUnborn DEF Will
    <3>3. QED
      BY <1>1, <1>4, <3>2 DEF RecordsInv, Unborn, Key
  <2>5. QED
    BY <1>2, <2>1, <2>2, <2>3, <2>4 DEF DomainHookDuty, AskedFor, Sweeping
<1>5. QED
  BY <1>3, <1>4

LEMMA DeliveryRows ==
  ASSUME RecordsInv, HookDuties, NEW q, Outcome(q)
  PROVE  /\ \A d \in db'["webhook_deliveries"] :
              d \in db["webhook_deliveries"] \/ (d.trigger = q /\ AskedFor(q, {"TriggerWebhook"}))
         /\ \A d \in db["webhook_deliveries"] : d \in db'["webhook_deliveries"] \/ AskedFor(q, {"ResetAll"})
<1> DEFINE t == "webhook_deliveries"
<1>1. q \in Requests /\ todo[q] # << >> /\ t \in Tables
  BY HookTables DEF Outcome
<1>2. \A p \in Will(q) : p.table = t => DeliveryDuty(q, asked[q], p)
  BY <1>1 DEF HookDuties, HookDuty
<1>3. ASSUME NEW x \in db'[t] PROVE x \in db[t] \/ (x.trigger = q /\ AskedFor(q, {"TriggerWebhook"}))
  <2>1. Kept(t, x) \/ Stored(q, t, x) \/ Changed(q, t, x)
    BY <1>1, <1>3, NewRows
  <2>2. QED
    BY <1>2, <2>1 DEF Kept, Stored, Changed, DeliveryDuty, AskedFor
<1>4. ASSUME NEW x \in db[t], x \notin db'[t] PROVE AskedFor(q, {"ResetAll"})
  <2>1. PICK p \in Will(q) : Ran(q, p, t)
    BY <1>1, <1>4 DEF Outcome, TablesAfter
  <2>2. Sane(p) /\ RowsOf(t, db[t]) /\ p.table = t /\ db'[t] = Apply(p, db[t])
    BY <1>1, <2>1, Situation DEF Ran
  <2>3. (p.do = "put" /\ x.id = p.row.id) \/ p.do = "purge" \/ p.do = "update"
    BY <1>4, <2>2, RowsAfter
  <2>4. ~(p.do = "put" /\ x.id = p.row.id)
    <3> SUFFICES ASSUME p.do = "put", x.id = p.row.id PROVE FALSE
      OBVIOUS
    <3>1. by(p.row) = q
      BY <1>2, <2>1, <2>2 DEF DeliveryDuty
    <3>2. Key(t, p.row) \in IdsOf(q, todo[q])
      BY <2>2, <3>1, MineIsUnborn DEF Will
    <3>3. QED
      BY <1>1, <1>4, <3>2 DEF RecordsInv, Unborn, Key
  <2>5. QED
    BY <1>2, <2>1, <2>2, <2>3, <2>4 DEF DeliveryDuty, AskedFor
<1>5. QED
  BY <1>3, <1>4

LEMMA AccountRows ==
  ASSUME RecordsInv, HookDuties, NEW q, Outcome(q)
  PROVE  \A x \in db'["account_webhooks"] :
           x \in db["account_webhooks"] \/ by(x) = q \/ AskedFor(q, {"UpdateAccountWebhook"})
<1> DEFINE t == "account_webhooks"
<1>1. q \in Requests /\ t \in Tables
  BY HookTables DEF Outcome
<1>2. \A p \in Will(q) : p.table = t => AccountHookDuty(q, asked[q], p)
  BY <1>1 DEF HookDuties, HookDuty
<1>3. ASSUME NEW x \in db'[t] PROVE x \in db[t] \/ by(x) = q \/ AskedFor(q, {"UpdateAccountWebhook"})
  <2>1. Kept(t, x) \/ Stored(q, t, x) \/ Changed(q, t, x)
    BY <1>1, <1>3, NewRows
  <2>2. QED
    BY <1>2, <2>1 DEF Kept, Stored, Changed, AccountHookDuty, AskedFor
<1>4. QED
  BY <1>3

LEMMA WrittenStays ==
  ASSUME RecordsInv, HookDuties, HooksWritten, NEW q, Outcome(q)
  PROVE  HooksWritten'
<1>1. q \in Requests /\ todo[q] # << >> /\ asked' = asked
  BY DEF Outcome
<1>2. \A x, K : WrittenBy(x, K)' <=> WrittenBy(x, K)
  BY <1>1 DEF WrittenBy, AskedFor
<1>3. \A x \in db'["domain_webhooks"] : ~x.dead /\ WrittenBy(x, Posters)
  BY HookRows DEF HooksWritten, WrittenBy
<1>4. ASSUME NEW x \in Copies("account_webhooks")' PROVE WrittenBy(x, {"CreateAccountWebhook"})
  <2> DEFINE t == "account_webhooks"
  <2>1. (\E y \in Copies(t) : Ancestor(t, x, y)) \/ Born(q, t, x)
    BY <1>4, CopiesOn, HookTables
  <2>2. CASE \E y \in Copies(t) : Ancestor(t, x, y)
    BY <2>2 DEF HooksWritten, Ancestor, WrittenBy, by
  <2>3. CASE Born(q, t, x)
    <3>1. by(x) = q /\ Key(t, x) \in IdsOf(q, todo[q])
      BY <2>3 DEF Born
    <3>2. PICK s \in Elements(todo[q]) : Key(t, x) \in Ids(q, s)
      BY <3>1 DEF IdsOf
    <3>3. s.do \notin {"collect", "deliver"}
      BY <3>2 DEF Ids, Key
    <3>4. PICK p \in Leads(q, s) : p.do = "put" /\ by(p.row) = q /\ Key(t, x) = <<p.table, p.row.id>>
      BY <3>2, <3>3 DEF Ids
    <3>5. p \in Will(q) /\ p.table = t
      BY <3>2, <3>4 DEF Will, WillOf, Key
    <3>6. AccountHookDuty(q, asked[q], p)
      BY <1>1, <3>5 DEF HookDuties, HookDuty
    <3>7. QED
      BY <3>1, <3>4, <3>6 DEF AccountHookDuty, WrittenBy, AskedFor
  <2>4. QED
    BY <2>1, <2>2, <2>3
<1>5. \A d \in db'["webhook_deliveries"] : d.trigger \in Requests /\ AskedFor(d.trigger, {"TriggerWebhook"})
  BY <1>1, DeliveryRows DEF HooksWritten
<1>6. \A d : AskedFor(d.trigger, {"TriggerWebhook"})' <=> AskedFor(d.trigger, {"TriggerWebhook"})
  BY <1>1 DEF AskedFor
<1>7. QED
  BY <1>2, <1>3, <1>4, <1>5, <1>6 DEF HooksWritten

LEMMA SweptStays ==
  ASSUME RecordsInv, HookDuties, PostersOrderly, HooksSwept, NEW q, Outcome(q)
  PROVE  HooksSwept'
<1> DEFINE t == "domain_webhooks"
<1>1. q \in Requests /\ todo[q] # << >> /\ asked' = asked /\ failed \subseteq failed'
  BY DEF Outcome
<1>2. ASSUME NEW r \in Requests, NEW w \in SweptBy(asked[r]), r \notin failed', ~Replaced(r, w)'
      PROVE  Purge(t, w) \in WillOf(r, todo'[r])
  <2>1. Purge(t, w) \in Will(r) \/ Replaced(r, w)
    BY <1>1, <1>2 DEF HooksSwept
  <2>2. ~Replaced(r, w)
    <3> SUFFICES ASSUME Replaced(r, w) PROVE FALSE
      OBVIOUS
    <3>1. PICK x \in db'[t] : Fits(x, w) /\ WrittenBefore(x, r)'
      BY <1>2 DEF Replaced
    <3>2. WrittenBefore(x, r)
      BY <3>1, WrittenBeforeStays
    <3>3. x \in db[t] \/ by(x) = q
      BY <3>1, HookRows
    <3>4. QED
      BY <1>1, <3>1, <3>2, <3>3, WrittenBeforeStays DEF Replaced
  <2>3. CASE r # q
    BY <1>1, <2>1, <2>2, <2>3 DEF Outcome, Will
  <2>4. CASE r = q
    <3> DEFINE p == Purge(t, w)
    <3>1. p.do = "purge" /\ p.table = t /\ p.where = w
      BY DEF Purge
    <3> HIDE DEF p
    <3>2. \A s \in Elements(todo[q]) : s.do \notin Special
      BY <1>1, <1>2, <2>4 DEF PostersOrderly, AskedFor, Askers, SweptBy
    <3>3. Followed(q, p)
      BY <2>1, <2>2, <2>4, <3>2 DEF Outcome, p
    <3>4. db'[t] # Apply(p, db[t])
      <4> SUFFICES ASSUME db'[t] = Apply(p, db[t]) PROVE FALSE
        OBVIOUS
      <4>1. \A x \in db'[t] : ~Fits(x, w)
        BY <3>1 DEF Apply
      <4>2. QED
        BY <1>2, <4>1 DEF Replaced
    <3>5. p \in WillOf(q, todo'[q])
      BY <1>2, <2>4, <3>1, <3>3, <3>4 DEF Followed
    <3>6. QED
      BY <2>4, <3>5 DEF p
  <2>5. QED
    BY <2>3, <2>4
<1>3. QED
  BY <1>1, <1>2 DEF HooksSwept, Will

\* A statement that looks for the row first.
Lookup(r, s, t) ==
  /\ Posting(t) /\ s.no = <<t>> /\ Leads(r, s) = {Store("domain_webhooks", t.row)}
  /\ Leads(r, t) = {Store("domain_webhooks", t.row)}
  /\ \A x : Fits(x, s.where) => x.event = t.row.event /\ x.url = t.row.url

LEMMA LookingLeads ==
  ASSUME NEW r, NEW s, Looking(s)
  PROVE  /\ s.do = "test" /\ s.table = "domain_webhooks" /\ s.yes = << >>
         /\ \E t : Lookup(r, s, t)
<1>1. PICK e, u, t : /\ s = IfAny("domain_webhooks", [event |-> e, url |-> u], << >>, <<t>>)
                     /\ Posting(t) /\ t.row.event = e /\ t.row.url = u
  BY DEF Looking
<1> DEFINE w == [event |-> e, url |-> u]
<1>2. s.do = "test" /\ s.table = "domain_webhooks" /\ s.yes = << >> /\ s.no = <<t>> /\ s.where = w
  BY <1>1 DEF IfAny
<1>3. "event" \in DOMAIN w /\ "url" \in DOMAIN w /\ w["event"] = e /\ w["url"] = u
  OBVIOUS
<1> HIDE DEF w
<1>4. \A x : Fits(x, w) => x["event"] = e /\ x["url"] = u
  BY <1>3 DEF Fits
<1>5. Elements(<< >>) = {} /\ Elements(<<t>>) = {t}
  BY ElementsOfTuples
<1>6. Prims(r, t) = {Store("domain_webhooks", t.row)}
  BY <1>1 DEF Posting, Prims, Prim, Simple
<1>7. Branches(s) = {t} /\ Branches(t) = {t}
  BY <1>1, <1>2, <1>5 DEF Branches, Posting
<1>8. Leads(r, s) = {Store("domain_webhooks", t.row)} /\ Leads(r, t) = {Store("domain_webhooks", t.row)}
  BY <1>6, <1>7 DEF Leads
<1>9. QED
  BY <1>1, <1>2, <1>4, <1>8 DEF Lookup

LEMMA PostingLeads ==
  ASSUME NEW r, NEW s, Posting(s)
  PROVE  Leads(r, s) = {Store("domain_webhooks", s.row)}
BY LeadsOfSimple DEF Posting, Simple, Prim

\* After its first statement a poster only inserts.
LEMMA OrderlyTail ==
  ASSUME NEW r, NEW q, IsSequence(q), q # << >>, Orderly(q)
  PROVE  /\ \A i \in DOMAIN Tail(q) : Posting(Tail(q)[i]) \/ Looking(Tail(q)[i])
         /\ Orderly(Tail(q)) /\ \A p \in WillOf(r, Tail(q)) : p.do = "put"
         /\ Posting(Head(q)) \/ Looking(Head(q)) \/ (Head(q).do = "purge" /\ Head(q).table = "domain_webhooks")
<1>1. \A i \in DOMAIN Tail(q) : i \in 1..(Len(q) - 1) /\ Len(q) \in Nat /\ i + 1 \in DOMAIN q /\ Tail(q)[i] = q[i + 1]
  BY TailOf, ElementsOf
<1>2. \A i \in DOMAIN Tail(q) : Posting(Tail(q)[i]) \/ Looking(Tail(q)[i])
  <2> SUFFICES ASSUME NEW i \in DOMAIN Tail(q) PROVE Posting(Tail(q)[i]) \/ Looking(Tail(q)[i])
    OBVIOUS
  <2>1. i + 1 \in DOMAIN q /\ Tail(q)[i] = q[i + 1] /\ i + 1 # 1
    BY <1>1
  <2>2. QED
    BY <2>1 DEF Orderly
<1>3. ASSUME NEW p \in WillOf(r, Tail(q)) PROVE p.do = "put"
  <2>1. PICK s \in Elements(Tail(q)) : p \in Leads(r, s)
    BY <1>3 DEF WillOf
  <2>2. Posting(s) \/ Looking(s)
    BY <1>2, <2>1 DEF Elements
  <2>3. QED
    BY <2>1, <2>2, LookingLeads, PostingLeads DEF Store, Lookup
<1>4. Posting(Head(q)) \/ Looking(Head(q)) \/ (Head(q).do = "purge" /\ Head(q).table = "domain_webhooks")
  <2>1. 1 \in DOMAIN q /\ Head(q) = q[1]
    BY ElementsOf
  <2>2. QED
    BY <2>1 DEF Orderly
<1>5. QED
  BY <1>2, <1>3, <1>4 DEF Orderly

\* What a poster still has to insert is inserted, or is already there, or stays to be inserted.
PostsOn(q) ==
  /\ Orderly(todo'[q])
  /\ \A g : HookComing(q, g) => q \in failed' \/ HookComing(q, g)' \/ (HookThere(g)' /\ ~Sweeping(q)')

LEMMA PostingStep ==
  ASSUME RecordsInv, NEW q \in Requests, Continue(q), todo[q] # << >>, Orderly(todo[q]),
         Posting(Head(todo[q]))
  PROVE  PostsOn(q)
<1> DEFINE t == "domain_webhooks"
           h == Head(todo[q])
<1>1. h.do = "put" /\ h.table = t /\ IsSequence(todo[q])
  BY Situation DEF Posting, Program, Sequel
<1>2. Orderly(Tail(todo[q])) /\ \A p \in WillOf(q, Tail(todo[q])) : p.do = "put"
  BY <1>1, OrderlyTail
<1>3. Will(q) = {Store(t, h.row)} \cup WillOf(q, Tail(todo[q]))
  BY Situation, PostingLeads
<1>4. Applied(q, h) \/ Refused(q, h)
  <2>1. Applied(q, h) \/ Missed(q, h) \/ Refused(q, h)
    BY <1>1, SimpleStep DEF Simple
  <2>2. QED
    BY <1>1, <2>1 DEF Missed
<1>5. Orderly(<< >>)
  BY DEF Orderly
<1>6. Apply(Prim(h), db[t]) = Put(db[t], h.row) /\ h.row \in Put(db[t], h.row)
  BY <1>1 DEF Apply, Prim, Store, Put
<1>7. ASSUME todo'[q] = Tail(todo[q]), NEW g, HookComing(q, g), IsHook(h.row, g) => HookThere(g)'
      PROVE  HookComing(q, g)' \/ (HookThere(g)' /\ ~Sweeping(q)')
  <2>1. PICK p \in Will(q) : HookPut(p, g)
    BY <1>7 DEF HookComing
  <2>2. CASE p \in WillOf(q, Tail(todo[q]))
    BY <1>7, <2>1, <2>2 DEF HookComing, Will
  <2>3. CASE p = Store(t, h.row)
    <3>1. IsHook(h.row, g)
      BY <2>1, <2>3 DEF HookPut, Store
    <3>2. ~Sweeping(q)'
      BY <1>2, <1>7 DEF Sweeping, Will
    <3>3. QED
      BY <1>7, <3>1, <3>2
  <2>4. QED
    BY <1>3, <2>1, <2>2, <2>3
<1>8. CASE Applied(q, h)
  <2>1. h.row \in db'[t] /\ todo'[q] = Tail(todo[q])
    BY <1>1, <1>6, <1>8 DEF Applied
  <2>2. \A g : IsHook(h.row, g) => HookThere(g)'
    BY <2>1 DEF HookThere
  <2>3. QED
    BY <1>2, <1>7, <2>1, <2>2 DEF PostsOn
<1>9. CASE Refused(q, h)
  <2>1. ~Indexed(Put(db[t], h.row), t) /\ db' = db /\ Indexed(db[t], t)
    BY <1>1, <1>9, Situation, HookTables DEF Refused
  <2>2. \E y \in db[t] : y["event"] = h.row["event"] /\ y["url"] = h.row["url"]
    <3>1. PICK x \in Put(db[t], h.row), y \in Put(db[t], h.row) :
            x # y /\ x["event"] = y["event"] /\ x["url"] = y["url"]
      BY <2>1, HookTables DEF Indexed
    <3>2. x \in db[t] => y \notin db[t]
      BY <2>1, <3>1, HookTables DEF Indexed
    <3>3. (x = h.row /\ y \in db[t]) \/ (y = h.row /\ x \in db[t])
      BY <3>1, <3>2 DEF Put
    <3>4. QED
      BY <3>1, <3>3
  <2>3. \A g : IsHook(h.row, g) => HookThere(g)'
    BY <2>1, <2>2 DEF HookThere, IsHook
  <2>4. QED
    BY <1>2, <1>5, <1>7, <1>9, <2>3 DEF PostsOn, Refused
<1>10. QED
  BY <1>4, <1>8, <1>9

LEMMA LookingStep ==
  ASSUME RecordsInv, NEW q \in Requests, Continue(q), todo[q] # << >>, Orderly(todo[q]),
         Looking(Head(todo[q]))
  PROVE  PostsOn(q)
<1> DEFINE t == "domain_webhooks"
           h == Head(todo[q])
           rest == Tail(todo[q])
<1>1. IsSequence(todo[q]) /\ IsSequence(rest)
  BY Situation DEF Program, Sequel
<1>2. /\ \A i \in DOMAIN rest : Posting(rest[i]) \/ Looking(rest[i])
      /\ Orderly(rest) /\ \A p \in WillOf(q, rest) : p.do = "put"
  BY <1>1, OrderlyTail
<1>3. h.do = "test" /\ h.table = t /\ h.yes = << >>
  BY LookingLeads
<1>0. PICK u : Lookup(q, h, u)
  BY LookingLeads
<1>4. /\ Posting(u) /\ h.no = <<u>> /\ Leads(q, h) = {Store(t, u.row)}
      /\ Leads(q, u) = {Store(t, u.row)}
      /\ \A x : Fits(x, h.where) => x.event = u.row.event /\ x.url = u.row.url
  BY <1>0 DEF Lookup
<1>5. Will(q) = {Store(t, u.row)} \cup WillOf(q, rest)
  BY <1>4, Situation
<1>6. Test(q)
  <2>1. h.do \notin {"put", "save", "update", "purge", "commit", "collect", "deliver", "issue", "ensure"} /\ h # Invalid
    BY <1>3 DEF Invalid
  <2> HIDE DEF h
  <2>2. QED
    BY <2>1 DEF Continue, Execute, Write, SaveMisses, Collect, Deliver, Issue, EnsureTag, RefuseSection, h
<1>7. /\ db' = db /\ DOMAIN todo = Requests
      /\ todo' = [todo EXCEPT ![q] = (IF Select(t, h.where) # {} THEN h.yes ELSE h.no) \o Tail(@)]
  BY <1>3, <1>6, Situation DEF Test
<1> HIDE DEF h, rest
<1>8. CASE Select(t, h.where) # {}
  <2>1. todo'[q] = << >> \o rest
    BY <1>3, <1>7, <1>8 DEF rest
  <2>2. << >> \o rest = rest
    BY <1>1 DEF IsSequence
  <2>3. \E x \in db[t] : x.event = u.row.event /\ x.url = u.row.url
    BY <1>4, <1>8 DEF Select, Live
  <2>4. \A g : IsHook(u.row, g) => HookThere(g)'
    BY <1>7, <2>3 DEF HookThere, IsHook
  <2>5. ~Sweeping(q)'
    BY <1>2, <2>1, <2>2 DEF Sweeping, Will
  <2>6. ASSUME NEW g, HookComing(q, g) PROVE HookComing(q, g)' \/ HookThere(g)'
    <3>1. PICK p \in Will(q) : HookPut(p, g)
      BY <2>6 DEF HookComing
    <3>2. CASE p \in WillOf(q, rest)
      BY <2>1, <2>2, <3>1, <3>2 DEF HookComing, Will
    <3>3. CASE p = Store(t, u.row)
      BY <2>4, <3>1, <3>3 DEF HookPut, Store
    <3>4. QED
      BY <1>5, <3>1, <3>2, <3>3
  <2>7. QED
    BY <1>2, <2>1, <2>2, <2>5, <2>6 DEF PostsOn
<1>9. CASE Select(t, h.where) = {}
  <2>1. todo'[q] = <<u>> \o rest
    BY <1>4, <1>7, <1>9 DEF rest
  <2>2. Elements(<<u>>) = {u} /\ IsSequence(<<u>>) /\ Len(<<u>>) = 1
    BY ElementsOfTuples
  <2> DEFINE one == <<u>>
  <2>3. one[1] = u /\ DOMAIN one = {1}
    OBVIOUS
  <2> HIDE DEF one
  <2>4. /\ Elements(one \o rest) = {u} \cup Elements(rest)
        /\ DOMAIN (one \o rest) = 1..(1 + Len(rest)) /\ Len(rest) \in Nat
        /\ \A i \in DOMAIN (one \o rest) : (one \o rest)[i] = IF i <= 1 THEN one[i] ELSE rest[i - 1]
    BY <1>1, <2>2, ConcatOf DEF one
  <2>5. DOMAIN rest = 1..Len(rest)
    BY <1>1, ElementsOf
  <2>6. Orderly(one \o rest)
    <3>1. ASSUME NEW i \in DOMAIN (one \o rest)
          PROVE  Posting((one \o rest)[i]) \/ Looking((one \o rest)[i])
      <4>1. CASE i = 1
        BY <1>4, <2>3, <2>4, <4>1
      <4>2. CASE i # 1
        <5>1. i - 1 \in DOMAIN rest /\ (one \o rest)[i] = rest[i - 1]
          BY <2>4, <2>5, <4>2
        <5>2. QED
          BY <1>2, <5>1
      <4>3. QED
        BY <4>1, <4>2
    <3>2. QED
      BY <3>1 DEF Orderly
  <2>7. WillOf(q, one \o rest) = {Store(t, u.row)} \cup WillOf(q, rest)
    BY <1>4, <2>4 DEF WillOf
  <2>8. todo'[q] = one \o rest
    BY <2>1 DEF one
  <2>9. Will(q)' = Will(q)
    BY <1>5, <2>7, <2>8 DEF Will
  <2>10. QED
    BY <2>6, <2>8, <2>9 DEF PostsOn, HookComing
<1>10. QED
  BY <1>8, <1>9

LEMMA SweepingStep ==
  ASSUME RecordsInv, NEW q \in Requests, Continue(q), todo[q] # << >>, Orderly(todo[q]),
         Head(todo[q]).do = "purge"
  PROVE  PostsOn(q)
<1> DEFINE h == Head(todo[q])
<1>1. IsSequence(todo[q])
  BY Situation DEF Program, Sequel
<1>2. Orderly(Tail(todo[q]))
  BY <1>1, OrderlyTail
<1>3. Leads(q, h) = {h}
  BY LeadsOfSimple DEF Simple, Prim
<1>4. Applied(q, h) \/ Missed(q, h) \/ Refused(q, h)
  BY SimpleStep DEF Simple
<1>5. todo'[q] = Tail(todo[q])
  BY <1>4 DEF Applied, Missed, Refused
<1>6. ASSUME NEW g, HookComing(q, g) PROVE HookComing(q, g)'
  <2>1. PICK p \in Will(q) : HookPut(p, g)
    BY <1>6 DEF HookComing
  <2>2. p \in WillOf(q, Tail(todo[q]))
    BY <1>3, <2>1, Situation DEF HookPut
  <2>3. QED
    BY <1>5, <2>1, <2>2 DEF HookComing, Will
<1>7. QED
  BY <1>2, <1>5, <1>6 DEF PostsOn

LEMMA PosterStep ==
  ASSUME RecordsInv, PostersOrderly, NEW q \in Requests, Continue(q), todo[q] # << >>, AskedFor(q, Posters)
  PROVE  PostsOn(q)
<1>1. Orderly(todo[q])
  BY DEF PostersOrderly
<1>2. IsSequence(todo[q])
  BY Situation DEF Program, Sequel
<1>3. QED
  BY <1>1, <1>2, OrderlyTail, PostingStep, LookingStep, SweepingStep

LEMMA PostedStays ==
  ASSUME RecordsInv, HookDuties, PostersOrderly, HooksPosted, NEW q, Outcome(q), Continue(q)
  PROVE  HooksPosted' /\ PostersOrderly'
<1>1. q \in Requests /\ todo[q] # << >> /\ asked' = asked /\ failed \subseteq failed'
      /\ \A r \in Requests \ {q} : todo'[r] = todo[r]
  BY DEF Outcome
<1>2. PostersOrderly'
  <2>1. ASSUME NEW r \in Requests, AskedFor(r, Posters) PROVE Orderly(todo'[r])
    BY <1>1, <2>1, PosterStep DEF PostersOrderly, PostsOn
  <2>2. ASSUME NEW r \in Requests, ~AskedFor(r, Askers), NEW s \in Elements(todo'[r]) PROVE s.do \notin Special
    <3>1. \A u \in Elements(todo[r]) : u.do \notin Special
      BY <2>2 DEF PostersOrderly
    <3>2. QED
      BY <1>1, <2>2, <3>1 DEF Outcome, ProgramAfter
  <2>3. \A r, K : AskedFor(r, K)' <=> AskedFor(r, K)
    BY <1>1 DEF AskedFor
  <2>4. QED
    BY <2>1, <2>2, <2>3 DEF PostersOrderly
<1>3. ASSUME NEW r \in Requests, NEW g \in PostedBy(asked[r])
      PROVE  r \in failed' \/ MayHaveRemoved(r, Removers)' \/ HookComing(r, g)' \/ (HookThere(g)' /\ ~Sweeping(r)')
  <2>1. r \in failed \/ MayHaveRemoved(r, Removers) \/ HookComing(r, g) \/ (HookThere(g) /\ ~Sweeping(r))
    BY <1>3 DEF HooksPosted
  <2>2. AskedFor(r, Posters)
    BY <1>3 DEF PostedBy, AskedFor, Posters
  <2>3. MayHaveRemoved(r, Removers) => MayHaveRemoved(r, Removers)'
    BY RemoversStay DEF Removers
  <2>4. ASSUME HookComing(r, g) PROVE r \in failed' \/ HookComing(r, g)' \/ (HookThere(g)' /\ ~Sweeping(r)')
    <3>1. CASE r = q
      BY <1>1, <2>2, <2>4, <3>1, PosterStep DEF PostsOn
    <3>2. CASE r # q
      BY <1>1, <2>4, <3>2 DEF HookComing, Will
    <3>3. QED
      BY <3>1, <3>2
  <2>5. ASSUME HookThere(g), ~Sweeping(r) PROVE MayHaveRemoved(r, Removers)' \/ (HookThere(g)' /\ ~Sweeping(r)')
    <3>1. ~Sweeping(r)'
      <4>1. CASE r = q
        BY <2>5, <4>1 DEF Sweeping, Outcome, ProgramAfter, Records, Will
      <4>2. CASE r # q
        BY <1>1, <2>5, <4>2 DEF Sweeping, Will
      <4>3. QED
        BY <4>1, <4>2
    <3>2. PICK x \in db["domain_webhooks"] : IsHook(x, g)
      BY <2>5 DEF HookThere
    <3>3. CASE x \in db'["domain_webhooks"]
      BY <3>1, <3>2, <3>3 DEF HookThere
    <3>4. CASE x \notin db'["domain_webhooks"]
      <4>1. AskedFor(q, Removers) /\ Sweeping(q)
        BY <3>2, <3>4, HookRows
      <4>2. MayHaveRemoved(r, Removers)
        BY <1>1, <2>5, <4>1, RunningRemover
      <4>3. QED
        BY <2>3, <4>2
    <3>5. QED
      BY <3>3, <3>4
  <2>6. QED
    BY <1>1, <2>1, <2>3, <2>4, <2>5
<1>4. QED
  BY <1>1, <1>2, <1>3 DEF HooksPosted

----------------------------------------------------------------------------
(* A trigger, while the others go on.                                      *)

LEMMA MoreRemovers ==
  ASSUME NEW r, NEW K, NEW L, K \subseteq L, MayHaveRemoved(r, K)
  PROVE  MayHaveRemoved(r, L)
BY DEF MayHaveRemoved, AskedFor

\* What the webhooks of before r may suffer from the step of another.
LEMMA ReachStays ==
  ASSUME RecordsInv, HookDuties, NEW q, Outcome(q), NEW r \in Requests \ {q}
  PROVE  /\ OnDomainUrls(r)' \subseteq OnDomainUrls(r)
         /\ MayHaveRemoved(r, Alterers)' \/ OnAccount(r)' \subseteq OnAccount(r)
         /\ MayHaveRemoved(r, Upsetters)' \/ (OnDomainUrls(r)' = OnDomainUrls(r) /\ OnAccount(r)' = OnAccount(r))
<1>1. q \in Requests /\ todo[q] # << >> /\ asked' = asked
  BY DEF Outcome
<1>2. \A x : WrittenBefore(x, r)' <=> WrittenBefore(x, r)
  BY WrittenBeforeStays
<1>3. \A x : by(x) = q => ~WrittenBefore(x, r)
  BY <1>1, WrittenBeforeStays
<1>4. OnDomainUrls(r)' \subseteq OnDomainUrls(r)
  <2>1. \A x \in db'["domain_webhooks"] : x \in db["domain_webhooks"] \/ by(x) = q
    BY HookRows
  <2>2. QED
    BY <1>1, <1>2, <1>3, <2>1 DEF OnDomainUrls, Live
<1>5. ASSUME NEW K, "none" \notin K, AskedFor(q, K) PROVE MayHaveRemoved(r, K)'
  BY <1>1, <1>5, RunningRemover, RemoversStay
<1>6. ASSUME ~MayHaveRemoved(r, Alterers)' PROVE OnAccount(r)' \subseteq OnAccount(r)
  <2>1. ~AskedFor(q, {"UpdateAccountWebhook"})
    BY <1>5, <1>6 DEF Alterers, AskedFor
  <2>2. \A x \in db'["account_webhooks"] : x \in db["account_webhooks"] \/ by(x) = q
    BY <2>1, AccountRows
  <2>3. QED
    BY <1>1, <1>2, <1>3, <2>2 DEF OnAccount, Live
<1>7. ASSUME ~MayHaveRemoved(r, Upsetters)'
      PROVE  OnDomainUrls(r)' = OnDomainUrls(r) /\ OnAccount(r)' = OnAccount(r)
  <2>1. asked[q].kind \notin Upsetters
    <3>1. "none" \notin Upsetters
      BY DEF Upsetters, Removers
    <3>2. QED
      BY <1>5, <1>7, <3>1 DEF AskedFor
  <2>2. \A p \in Will(q) : p.table # "domain_webhooks" /\ p.table # "account_webhooks"
    BY <1>1, <2>1 DEF HookDuties, HookDuty, DomainHookDuty, AccountHookDuty, Upsetters, Removers, Posters, Withdrawers
  <2>3. db'["domain_webhooks"] = db["domain_webhooks"] /\ db'["account_webhooks"] = db["account_webhooks"]
    BY <2>2, HookTables DEF Outcome, TablesAfter, Ran
  <2>4. QED
    BY <1>1, <1>2, <2>3 DEF OnDomainUrls, OnAccount, Live
<1>8. QED
  BY <1>4, <1>6, <1>7

LEMMA DeliversAside ==
  ASSUME RecordsInv, HookDuties, NEW q, Outcome(q), NEW r \in Requests \ {q},
         AskedFor(r, {"TriggerWebhook"}), Delivers(r)
  PROVE  Delivers(r)'
<1>1. q \in Requests /\ todo[q] # << >> /\ asked' = asked /\ todo'[r] = todo[r]
  BY DEF Outcome
<1>2. (Undelivered(r)' <=> Undelivered(r)) /\ (Uncollected(r)' <=> Uncollected(r)) /\ Will(r)' = Will(r)
  BY <1>1 DEF Undelivered, Uncollected, Will
<1>3. Sent(r)' \subseteq Sent(r)
  BY <1>2, DeliveryRows DEF Sent, Due
<1>4. MayHaveRemoved(r, Alterers)' \/ Sent(r)' = Sent(r)
  <2>1. CASE AskedFor(q, {"ResetAll"})
    <3>1. AskedFor(q, Alterers) /\ "none" \notin Alterers
      BY <2>1 DEF Alterers, AskedFor
    <3>2. QED
      BY <1>1, <3>1, RunningRemover, RemoversStay
  <2>2. CASE ~AskedFor(q, {"ResetAll"})
    <3>1. Sent(r) \subseteq Sent(r)'
      BY <1>2, <2>2, DeliveryRows DEF Sent, Due
    <3>2. QED
      BY <1>3, <3>1
  <2>3. QED
    BY <2>1, <2>2
<1>5. Targeted(r)' \subseteq Targeted(r) /\ (MayHaveRemoved(r, Alterers)' \/ Targeted(r)' = Targeted(r))
  BY <1>1, <1>2, <1>3, <1>4 DEF Targeted
<1>6. \A K : "none" \notin K /\ MayHaveRemoved(r, K) => MayHaveRemoved(r, K)'
  BY RemoversStay
<1>7. "none" \notin Alterers /\ "none" \notin Upsetters
  BY DEF Alterers, Upsetters, Removers
<1>8. \/ MayHaveRemoved(r, Alterers)' \/ OnDomainUrls(r)' \subseteq Targeted(r)'
  BY <1>5, <1>6, <1>7, ReachStays DEF Delivers
<1>9. \/ MayHaveRemoved(r, Alterers)' \/ Uncollected(r)' \/ OnAccount(r)' \subseteq Targeted(r)'
  BY <1>2, <1>5, <1>6, <1>7, ReachStays DEF Delivers
<1>10. MayHaveRemoved(r, Upsetters)' \/ Targeted(r)' \subseteq OnDomainUrls(r)' \cup OnAccount(r)'
  BY <1>5, <1>6, <1>7, ReachStays DEF Delivers
<1>11. (Undelivered(r)' \/ Recording(todo'[r])) /\ (Undelivered(r)' => Sent(r)' = {})
  BY <1>1, <1>2, <1>3 DEF Delivers
<1>12. \A d, e \in Sent(r)' : d.url = e.url => d = e
  BY <1>3 DEF Delivers
<1>13. QED
  BY <1>8, <1>9, <1>10, <1>11, <1>12 DEF Delivers

\* A delivery to each of the URLs, in any order.
LEMMA EachUrlOnce ==
  ASSUME NEW S, IsFiniteSet(S), NEW f \in SetToSeqs(S)
  PROVE  {f[i] : i \in DOMAIN f} = S
<1> DEFINE n == Cardinality(S)
<1>1. n \in Nat /\ f \in [1..n -> S] /\ DOMAIN f = 1..n /\ \A i, j \in 1..n : i # j => f[i] # f[j]
  BY OneByOne
<1>2. f \in Injection(1..n, S)
  BY <1>1 DEF Injection, IsInjective
<1>3. Cardinality(1..n) = n
  BY <1>1, FS_Interval
<1>4. f \in Surjection(1..n, S)
  <2> HIDE DEF n
  <2>1. Cardinality(1..n) = Cardinality(S) <=> f \in Surjection(1..n, S)
    BY <1>2, FS_Injection
  <2>2. QED
    BY <1>3, <2>1 DEF n
<1>5. QED
  BY <1>1, <1>4 DEF Surjection

Reached(q) == Head(todo[q]).urls

LEMMA ReachedFinite ==
  ASSUME RecordsInv, NEW q \in Requests, Deliver(q)
  PROVE  IsFiniteSet(Reached(q))
<1> DEFINE h == Head(todo[q])
<1>1. todo[q] # << >> /\ h.do = "deliver"
  BY DEF Deliver
<1>2. QED
  BY <1>1, Situation DEF Piece, Statement, Simple, Invalid, Reached

LEMMA DeliverRecords ==
  ASSUME RecordsInv, NEW q \in Requests, Deliver(q)
  PROVE  /\ db' = db /\ Recording(todo'[q]) /\ todo'[q] # <<Head(todo[q])>>
         /\ ~Undelivered(q)'
         /\ \A d, e \in Due(q)' : d.url = e.url => d = e
         /\ {d.url : d \in Due(q)'} = Reached(q)
<1> DEFINE t == "webhook_deliveries"
           S == Reached(q)
<1>1. PICK urls \in SetToSeqs(S) : Record(q, urls)
  BY DEF Deliver, Reached
<1>2. DOMAIN urls = 1..Cardinality(S) /\ Cardinality(S) \in Nat /\ {urls[i] : i \in DOMAIN urls} = S
      /\ \A i, j \in DOMAIN urls : urls[i] = urls[j] => i = j
  BY ReachedFinite, OneByOne, EachUrlOnce
<1>3. PICK key \in SigningKey :
        todo' = [todo EXCEPT ![q] =
          [i \in DOMAIN urls |-> TryInsert(t, WebhookDelivery(<<q, i>>, q, urls[i], key))]]
  BY <1>1 DEF Record
<1> DEFINE row(i) == WebhookDelivery(<<q, i>>, q, urls[i], key)
           f == [i \in DOMAIN urls |-> TryInsert(t, row(i))]
<1>4. db' = db /\ todo'[q] = f
  <2>1. q \in DOMAIN todo
    BY DEF RecordsInv, Shapes
  <2>2. QED
    BY <1>1, <1>3, <2>1 DEF Record
<1>5. \A i \in DOMAIN urls : f[i].do = "put" /\ f[i].table = t /\ f[i].row = row(i) /\ row(i).url = urls[i]
  BY DEF TryInsert, WebhookDelivery
<1>6. DOMAIN f = DOMAIN urls
  OBVIOUS
<1> HIDE DEF f, row, S
<1>7. \A s \in Elements(f) : \E i \in DOMAIN urls : s = f[i]
  BY <1>6 DEF Elements
<1>8. Recording(f)
  BY <1>5, <1>7 DEF Recording
<1>9. ASSUME NEW s, s.do \in {"collect", "deliver"} PROVE f # <<s>>
  <2>1. Elements(<<s>>) = {s}
    BY ElementsOfTuples
  <2>2. s.do # "put"
    BY <1>9
  <2>3. QED
    BY <1>8, <2>1, <2>2 DEF Recording
<1>10. WillOf(q, f) = {Store(t, row(i)) : i \in DOMAIN urls}
  <2>1. \A i \in DOMAIN urls : Leads(q, f[i]) = {Store(t, row(i))}
    BY <1>5, IdsOfPut
  <2>2. Elements(f) = {f[i] : i \in DOMAIN urls}
    BY <1>6 DEF Elements
  <2>3. WillOf(q, f) = UNION {Leads(q, f[i]) : i \in DOMAIN urls}
    BY <2>2 DEF WillOf
  <2>4. \A p : p \in WillOf(q, f) <=> \E i \in DOMAIN urls : p = Store(t, row(i))
    BY <2>1, <2>3
  <2>5. QED
    BY <2>4
<1>11. Due(q)' = {row(i) : i \in DOMAIN urls}
  <2>1. Will(q)' = {Store(t, row(i)) : i \in DOMAIN urls}
    BY <1>4, <1>10 DEF Will
  <2>2. \A i : LET p == Store(t, row(i)) IN p.do = "put" /\ p.table = t /\ p.row = row(i)
    BY DEF Store
  <2>3. \A d : d \in Due(q)' <=> \E i \in DOMAIN urls : d = row(i)
    BY <2>1, <2>2 DEF Due
  <2>4. QED
    BY <2>3
<1>12. {d.url : d \in Due(q)'} = S
  BY <1>2, <1>5, <1>11
<1>13. \A d, e \in Due(q)' : d.url = e.url => d = e
  BY <1>2, <1>5, <1>11
<1>14. Head(todo[q]).do = "deliver"
  BY DEF Deliver
<1>15. ~Undelivered(q)'
  <2>1. \A on, U : /\ [do |-> "collect", event |-> on, urls |-> U].do = "collect"
                   /\ [do |-> "deliver", urls |-> U].do = "deliver"
    OBVIOUS
  <2>2. QED
    BY <1>4, <1>9, <2>1 DEF Undelivered, Uncollected
<1>16. QED
  BY <1>4, <1>8, <1>9, <1>12, <1>13, <1>14, <1>15 DEF S

\* It is not this step that changes what was there before.
LEMMA ReachSame ==
  ASSUME RecordsInv, NEW q, Outcome(q), db'["domain_webhooks"] = db["domain_webhooks"],
         db'["account_webhooks"] = db["account_webhooks"], NEW r \in Requests
  PROVE  OnDomainUrls(r)' = OnDomainUrls(r) /\ OnAccount(r)' = OnAccount(r)
<1>1. asked' = asked /\ \A x : WrittenBefore(x, r)' <=> WrittenBefore(x, r)
  BY WrittenBeforeStays DEF Outcome
<1>2. QED
  BY <1>1 DEF OnDomainUrls, OnAccount, Live

\* Whom a trigger reaches: nobody that is not there from before it.
LEMMA ReachedBefore ==
  ASSUME RecordsInv, HooksWritten, NEW q \in Requests, AskedFor(q, {"TriggerWebhook"}),
         ~MayHaveRemoved(q, Upsetters)
  PROVE  AccountURLs(asked[q].on) \subseteq OnAccount(q)
<1> DEFINE t == "account_webhooks"
<1>1. ASSUME NEW a \in Live(t), asked[q].on \in a.events PROVE WrittenBefore(a, q)
  <2>1. a \in db[t] /\ a \in Copies(t)
    BY <1>1 DEF Live, Copies
  <2>2. Known(by(a))
    BY <2>1, HookTables DEF RecordsInv, Origins
  <2>3. WrittenBy(a, {"CreateAccountWebhook"})
    BY <2>1 DEF HooksWritten
  <2>4. CASE by(a) = "seed"
    BY <2>4 DEF WrittenBefore, by
  <2>5. CASE by(a) # "seed"
    <3>1. by(a) \in Requests /\ asked[by(a)].kind = "CreateAccountWebhook"
      BY <2>2, <2>3, <2>5 DEF Known, Began, WrittenBy, AskedFor
    <3>2. by(a) # q /\ AskedFor(by(a), Upsetters)
      BY <3>1 DEF AskedFor, Upsetters
    <3>3. Preceded(by(a), q)
      BY <3>1, <3>2 DEF MayHaveRemoved
    <3>4. QED
      BY <3>1, <3>3 DEF WrittenBefore, by
  <2>6. QED
    BY <2>4, <2>5
<1>2. QED
  BY <1>1 DEF AccountURLs, OnAccount

LEMMA DeliversCollected ==
  ASSUME RecordsInv, HooksWritten, NEW q, Outcome(q), Continue(q), AskedFor(q, {"TriggerWebhook"}),
         Delivers(q), Uncollected(q)
  PROVE  Delivers(q)'
<1> DEFINE on == asked[q].on
           h == Head(todo[q])
<1>1. q \in Requests /\ todo[q] # << >> /\ asked' = asked
  BY DEF Outcome
<1>2. PICK U : todo[q] = <<[do |-> "collect", event |-> on, urls |-> U]>>
  BY DEF Uncollected
<1> DEFINE s == [do |-> "deliver", urls |-> U \cup AccountURLs(on)]
<1>3. h = [do |-> "collect", event |-> on, urls |-> U] /\ h.do = "collect" /\ h.urls = U /\ h.event = on
  BY <1>2
<1>4. Collect(q)
  <2>1. h.do \notin {"put", "save", "update", "purge", "commit", "test", "deliver", "issue", "ensure"} /\ h # Invalid
    BY <1>3 DEF Invalid
  <2> HIDE DEF h
  <2>2. QED
    BY <2>1 DEF Continue, Execute, Write, SaveMisses, Test, Deliver, Issue, EnsureTag, RefuseSection, h
<1>5. db' = db /\ todo'[q] = <<s>>
  <2>1. DOMAIN todo = Requests
    BY <1>1, Situation
  <2>2. QED
    BY <1>1, <1>3, <1>4, <2>1 DEF Collect
<1>6. s.do = "deliver" /\ s.urls = U \cup AccountURLs(on) /\ Undelivered(q)' /\ ~Uncollected(q)'
  <2>1. \A V : s # [do |-> "collect", event |-> on, urls |-> V]
    BY DEF s
  <2>2. \A V : <<s>> # <<[do |-> "collect", event |-> on, urls |-> V]>>
    BY <2>1
  <2>3. QED
    BY <1>1, <1>5, <2>2 DEF Undelivered, Uncollected
<1> HIDE DEF s, h
<1>7. Due(q)' = {}
  <2>1. Leads(q, s) = {} /\ Elements(<<s>>) = {s}
    BY <1>6, ElementsOfTuples DEF Leads, Branches, Prims, Simple
  <2>2. WillOf(q, <<s>>) = {}
    BY <2>1 DEF WillOf
  <2>3. QED
    BY <1>5, <2>2 DEF Due, Will
<1>8. Sent(q)' = {}
  <2>1. Undelivered(q)
    BY DEF Undelivered
  <2>2. Sent(q) = {}
    BY <2>1 DEF Delivers
  <2>3. QED
    BY <1>5, <1>7, <2>2 DEF Sent
<1>9. Targeted(q) = U /\ Targeted(q)' = U \cup AccountURLs(on)
  BY <1>3, <1>5, <1>6 DEF Targeted, Undelivered, h
<1>10. OnDomainUrls(q)' = OnDomainUrls(q) /\ OnAccount(q)' = OnAccount(q)
  BY <1>1, <1>5, ReachSame
<1>11. \A K : "none" \notin K /\ MayHaveRemoved(q, K) => MayHaveRemoved(q, K)'
  BY <1>1, RemoversStay
<1>12. "none" \notin Alterers /\ "none" \notin Upsetters
  BY DEF Alterers, Upsetters, Removers
<1>13. OnAccount(q) \subseteq AccountURLs(on)
  BY DEF OnAccount, AccountURLs
<1>14. MayHaveRemoved(q, Upsetters) \/ AccountURLs(on) \subseteq OnAccount(q)
  BY <1>1, ReachedBefore
<1>15. MayHaveRemoved(q, Alterers)' \/ OnDomainUrls(q)' \subseteq Targeted(q)'
  BY <1>9, <1>10, <1>11, <1>12 DEF Delivers
<1>16. OnAccount(q)' \subseteq Targeted(q)'
  BY <1>9, <1>10, <1>13
<1>17. MayHaveRemoved(q, Upsetters)' \/ Targeted(q)' \subseteq OnDomainUrls(q)' \cup OnAccount(q)'
  BY <1>9, <1>10, <1>11, <1>12, <1>14 DEF Delivers
<1>18. QED
  BY <1>6, <1>8, <1>15, <1>16, <1>17 DEF Delivers

LEMMA DeliversNow ==
  ASSUME RecordsInv, NEW q, Outcome(q), Continue(q), Delivers(q), Undelivered(q), ~Uncollected(q)
  PROVE  Delivers(q)'
<1> DEFINE h == Head(todo[q])
<1>1. q \in Requests /\ todo[q] # << >> /\ asked' = asked
  BY DEF Outcome
<1>2. h.do = "deliver"
  <2>1. PICK U : todo[q] = <<[do |-> "deliver", urls |-> U]>>
    BY DEF Undelivered
  <2>2. QED
    BY <2>1
<1>3. Deliver(q)
  <2>1. h.do \notin {"put", "save", "update", "purge", "commit", "test", "collect", "issue", "ensure"} /\ h # Invalid
    BY <1>2 DEF Invalid
  <2> HIDE DEF h
  <2>2. QED
    BY <2>1 DEF Continue, Execute, Write, SaveMisses, Test, Collect, Issue, EnsureTag, RefuseSection, h
<1>4. /\ db' = db /\ Recording(todo'[q]) /\ ~Undelivered(q)'
      /\ \A d, e \in Due(q)' : d.url = e.url => d = e
      /\ {d.url : d \in Due(q)'} = h.urls
  BY <1>1, <1>3, DeliverRecords DEF Reached
<1>5. Sent(q)' = Due(q)'
  <2>1. Sent(q) = {}
    BY DEF Delivers
  <2>2. QED
    BY <1>4, <2>1 DEF Sent
<1>6. Targeted(q)' = Targeted(q)
  BY <1>4, <1>5 DEF Targeted
<1>7. OnDomainUrls(q)' = OnDomainUrls(q) /\ OnAccount(q)' = OnAccount(q)
  BY <1>1, <1>4, ReachSame
<1>8. \A K : "none" \notin K /\ MayHaveRemoved(q, K) => MayHaveRemoved(q, K)'
  BY <1>1, RemoversStay
<1>9. "none" \notin Alterers /\ "none" \notin Upsetters
  BY DEF Alterers, Upsetters, Removers
<1>10. QED
  BY <1>4, <1>5, <1>6, <1>7, <1>8, <1>9 DEF Delivers

LEMMA DeliversOn ==
  ASSUME RecordsInv, HookDuties, NEW q, Outcome(q), Continue(q), AskedFor(q, {"TriggerWebhook"}),
         Delivers(q), ~Undelivered(q)
  PROVE  Delivers(q)'
<1> DEFINE t == "webhook_deliveries"
           h == Head(todo[q])
<1>1. q \in Requests /\ todo[q] # << >> /\ asked' = asked
  BY DEF Outcome
<1>2. Recording(todo[q])
  BY DEF Delivers
<1>3. h.do = "put" /\ h.table = t
  BY <1>1, <1>2, Situation DEF Recording
<1>4. Applied(q, h)
  <2>1. Applied(q, h) \/ Missed(q, h) \/ Refused(q, h)
    BY <1>1, <1>3, SimpleStep DEF Simple
  <2>2. ~Missed(q, h)
    BY <1>3 DEF Missed
  <2>3. ~Refused(q, h)
    BY <1>3, HookTables DEF Refused, Indexed
  <2>4. QED
    BY <2>1, <2>2, <2>3
<1>5. Store(t, h.row) \in Will(q) /\ Will(q) = {Store(t, h.row)} \cup WillOf(q, Tail(todo[q]))
  BY <1>1, <1>3, Situation, IdsOfPut
<1>6. LET p == Store(t, h.row) IN p.do = "put" /\ p.table = t /\ p.row = h.row
  BY DEF Store
<1>7. by(h.row) = q /\ h.row.trigger = q
  <2>1. HookDuty(q, asked[q], Store(t, h.row))
    BY <1>1, <1>5 DEF HookDuties
  <2>2. asked[q].kind = "TriggerWebhook"
    BY DEF AskedFor
  <2>3. QED
    BY <1>6, <2>1, <2>2 DEF HookDuty, DeliveryDuty
<1>8. db'[t] = db[t] \cup {h.row}
  <2>1. Apply(Prim(h), db[t]) = Put(db[t], h.row)
    BY <1>3 DEF Apply, Prim, Store
  <2>2. <<t, h.row.id>> \in IdsOf(q, todo[q])
    BY <1>1, <1>3, <1>7, Situation, IdsOfPut
  <2>3. Put(db[t], h.row) = db[t] \cup {h.row}
    BY <1>1, <2>2, HookTables, Newborn
  <2>4. QED
    BY <1>3, <1>4, <2>1, <2>3 DEF Applied
<1>9. db'["domain_webhooks"] = db["domain_webhooks"] /\ db'["account_webhooks"] = db["account_webhooks"]
  BY <1>3, <1>4, HookTables DEF Applied
<1>10. todo'[q] = Tail(todo[q])
  BY <1>4 DEF Applied
<1>11. Recording(todo'[q]) /\ ~Undelivered(q)'
  <2>1. Recording(todo'[q])
    BY <1>1, <1>2, <1>10, Situation DEF Recording
  <2>2. ASSUME NEW s, s.do \in {"collect", "deliver"} PROVE todo'[q] # <<s>>
    <3>1. Elements(<<s>>) = {s}
      BY ElementsOfTuples
    <3>2. QED
      BY <2>1, <2>2, <3>1 DEF Recording
  <2>3. \A U : /\ todo'[q] # <<[do |-> "collect", event |-> asked'[q].on, urls |-> U]>>
               /\ todo'[q] # <<[do |-> "deliver", urls |-> U]>>
    BY <2>2
  <2>4. QED
    BY <2>1, <2>3 DEF Undelivered, Uncollected
<1>12. Due(q) = {h.row} \cup Due(q)'
  <2>1. Will(q) = {Store(t, h.row)} \cup Will(q)'
    BY <1>5, <1>10 DEF Will
  <2> HIDE DEF h
  <2>2. QED
    BY <1>6, <2>1 DEF Due
<1>13. Sent(q)' = Sent(q)
  <2> HIDE DEF h
  <2>1. QED
    BY <1>7, <1>8, <1>12 DEF Sent
<1>14. Targeted(q)' = Targeted(q)
  BY <1>11, <1>13 DEF Targeted
<1>15. OnDomainUrls(q)' = OnDomainUrls(q) /\ OnAccount(q)' = OnAccount(q)
  BY <1>1, <1>9, ReachSame
<1>16. \A K : "none" \notin K /\ MayHaveRemoved(q, K) => MayHaveRemoved(q, K)'
  BY <1>1, RemoversStay
<1>17. "none" \notin Alterers /\ "none" \notin Upsetters
  BY DEF Alterers, Upsetters, Removers
<1>18. ~Uncollected(q)
  BY DEF Undelivered
<1>19. QED
  BY <1>11, <1>13, <1>14, <1>15, <1>16, <1>17, <1>18 DEF Delivers

LEMMA HooksContinue ==
  ASSUME RecordsInv, HookParts, NEW q \in Requests, Continue(q)
  PROVE  HookParts'
<1>1. Outcome(q)
  BY OutcomeOfContinue
<1>2. HookDuties' /\ HooksWritten' /\ HooksSwept' /\ HooksPosted' /\ PostersOrderly'
  BY <1>1, DutiesStay, WrittenStays, SweptStays, PostedStays DEF HookParts
<1>3. ASSUME NEW r \in Requests, AskedFor(r, {"TriggerWebhook"})' PROVE Delivers(r)'
  <2>1. AskedFor(r, {"TriggerWebhook"})
    BY <1>1, <1>3 DEF Outcome, AskedFor
  <2>2. Delivers(r)
    BY <2>1 DEF HookParts, TriggersDeliver
  <2>3. CASE r # q
    BY <1>1, <2>1, <2>2, <2>3, DeliversAside DEF HookParts
  <2>4. CASE r = q
    BY <1>1, <2>1, <2>2, <2>4, DeliversCollected, DeliversNow, DeliversOn DEF HookParts
  <2>5. QED
    BY <2>3, <2>4
<1>4. QED
  BY <1>2, <1>3 DEF HookParts, TriggersDeliver

----------------------------------------------------------------------------
(* What the handlers set out to do.                                        *)

HookAsk(r, a, q) ==
  /\ \A p \in WillOf(r, q) : HookDuty(r, a, p)
  /\ \A w \in SweptBy(a) : Purge("domain_webhooks", w) \in WillOf(r, q)
  /\ \A g \in PostedBy(a) : \E p \in WillOf(r, q) : HookPut(p, g)
  /\ a.kind \in Posters => Orderly(q)
  /\ a.kind \notin Askers => \A s \in Elements(q) : s.do \notin Special
  /\ a.kind = "TriggerWebhook" =>
       q = <<[do |-> "collect", event |-> a.on, urls |-> URLs(a.on)]>>
HooksAsked(r) == \E a, q : Starts(r, a, q) /\ HookAsk(r, a, q)

\* Inserts of a webhook each, looked for before or not.
Posts(r, f, n, event, url) ==
  /\ IsSequence(f) /\ DOMAIN f = 1..n /\ n \in Nat
  /\ \A i \in 1..n : Posting(f[i]) \/ Looking(f[i])
  /\ \A p \in WillOf(r, f) : p.do = "put" /\ p.table = "domain_webhooks" /\ by(p.row) = r
  /\ \A i \in 1..n : \E p \in WillOf(r, f) : HookPut(p, <<event[i], url[i]>>)

HookStored(r, i, s, e, u) ==
  Leads(r, s) = {Store("domain_webhooks", DomainWebhook(<<r, i>>, e, u))}

LEMMA PostsListed ==
  ASSUME NEW r, NEW f, NEW n, NEW event, NEW url, IsList(f, n),
         \A i \in 1..n : Posting(f[i]) \/ Looking(f[i]),
         \A i \in 1..n : HookStored(r, i, f[i], event[i], url[i])
  PROVE  Posts(r, f, n, event, url)
<1>1. IsSequence(f) /\ DOMAIN f = 1..n /\ n \in Nat
  BY Listed DEF IsList
<1>2. ASSUME NEW i \in 1..n
      PROVE  /\ Leads(r, f[i]) \subseteq WillOf(r, f)
             /\ \A p \in Leads(r, f[i]) : /\ p.do = "put" /\ p.table = "domain_webhooks" /\ by(p.row) = r
                                          /\ HookPut(p, <<event[i], url[i]>>)
             /\ Leads(r, f[i]) # {}
  <2> DEFINE x == DomainWebhook(<<r, i>>, event[i], url[i])
             p == Store("domain_webhooks", x)
             g == <<event[i], url[i]>>
  <2>1. Leads(r, f[i]) = {p}
    BY <1>2 DEF HookStored
  <2>2. x.event = event[i] /\ x.url = url[i] /\ by(x) = r
    BY DEF DomainWebhook, by
  <2>3. g[1] = event[i] /\ g[2] = url[i]
    OBVIOUS
  <2> HIDE DEF x, g
  <2>4. p.do = "put" /\ p.table = "domain_webhooks" /\ p.row = x
    BY DEF Store
  <2> HIDE DEF p
  <2>5. HookPut(p, g)
    BY <2>2, <2>3, <2>4 DEF HookPut, IsHook
  <2>6. f[i] \in Elements(f)
    BY <1>1 DEF Elements
  <2>7. QED
    BY <2>1, <2>2, <2>4, <2>5, <2>6 DEF WillOf, g
<1>3. ASSUME NEW p \in WillOf(r, f) PROVE p.do = "put" /\ p.table = "domain_webhooks" /\ by(p.row) = r
  <2>1. PICK i \in 1..n : p \in Leads(r, f[i])
    BY <1>1, <1>3 DEF WillOf, Elements
  <2>2. QED
    BY <1>2, <2>1
<1>4. ASSUME NEW i \in 1..n PROVE \E p \in WillOf(r, f) : HookPut(p, <<event[i], url[i]>>)
  <2>1. PICK p : p \in Leads(r, f[i])
    BY <1>2
  <2>2. QED
    BY <1>2, <2>1
<1>5. QED
  BY <1>1, <1>3, <1>4 DEF Posts

LEMMA PostsInserts ==
  ASSUME NEW r, NEW n \in Nat, NEW event, NEW url,
         NEW f, f = [i \in 1..n |-> Insert("domain_webhooks", DomainWebhook(<<r, i>>, event[i], url[i]))]
                \/ f = [i \in 1..n |-> TryInsert("domain_webhooks", DomainWebhook(<<r, i>>, event[i], url[i]))]
  PROVE  Posts(r, f, n, event, url) /\ \A i \in 1..n : Posting(f[i])
<1>1. IsList(f, n)
  BY DEF IsList
<1>2. ASSUME NEW i \in 1..n PROVE Posting(f[i]) /\ HookStored(r, i, f[i], event[i], url[i])
  <2> DEFINE x == DomainWebhook(<<r, i>>, event[i], url[i])
  <2>1. f[i].do = "put" /\ f[i].table = "domain_webhooks" /\ f[i].row = x
    BY DEF Insert, TryInsert
  <2> HIDE DEF x
  <2>2. Posting(f[i])
    BY <2>1 DEF Posting
  <2>3. Leads(r, f[i]) = {Store("domain_webhooks", x)}
    BY <2>1, <2>2, PostingLeads
  <2>4. QED
    BY <2>2, <2>3 DEF HookStored, x
<1>3. QED
  BY <1>1, <1>2, PostsListed

LEMMA PostsLookups ==
  ASSUME NEW r, NEW n \in Nat, NEW events, NEW url,
         NEW f, f = [i \in 1..n |->
           IfAny("domain_webhooks", [event |-> events[i], url |-> url], << >>,
                 <<TryInsert("domain_webhooks", DomainWebhook(<<r, i>>, events[i], url))>>)]
  PROVE  Posts(r, f, n, events, [i \in 1..n |-> url])
<1> DEFINE urls == [i \in 1..n |-> url]
<1>1. IsList(f, n)
  BY DEF IsList
<1>2. ASSUME NEW i \in 1..n PROVE Looking(f[i]) /\ HookStored(r, i, f[i], events[i], urls[i])
  <2> DEFINE x == DomainWebhook(<<r, i>>, events[i], url)
             u == TryInsert("domain_webhooks", x)
             w == [event |-> events[i], url |-> url]
             no == <<u>>
  <2>1. x.event = events[i] /\ x.url = url
    BY DEF DomainWebhook
  <2>2. u.do = "put" /\ u.table = "domain_webhooks" /\ u.row = x
    BY DEF TryInsert
  <2>3. f[i] = IfAny("domain_webhooks", w, << >>, no) /\ urls[i] = url
    BY <1>2
  <2> HIDE DEF x, u, urls
  <2>4. Posting(u) /\ u.row.event = events[i] /\ u.row.url = url
    BY <2>1, <2>2 DEF Posting
  <2>5. Looking(f[i])
    BY <2>3, <2>4 DEF Looking
  <2>6. Leads(r, f[i]) = {Store("domain_webhooks", x)}
    <3>1. Elements(no) = {u} /\ Elements(<< >>) = {}
      BY ElementsOfTuples
    <3>2. f[i].do = "test" /\ f[i].yes = << >> /\ f[i].no = no
      BY <2>3 DEF IfAny
    <3> HIDE DEF no
    <3>3. Branches(f[i]) = {u}
      BY <3>1, <3>2 DEF Branches
    <3>4. Prims(r, u) = {Store("domain_webhooks", x)}
      BY <2>2 DEF Prims, Prim, Simple
    <3>5. QED
      BY <3>3, <3>4 DEF Leads
  <2>7. QED
    BY <2>3, <2>5, <2>6 DEF HookStored, x
<1> HIDE DEF urls
<1>3. Posts(r, f, n, events, urls)
  BY <1>1, <1>2, PostsListed
<1>4. QED
  BY <1>3 DEF urls

LEMMA PostsAsk ==
  ASSUME NEW r, NEW a, NEW f, NEW n, NEW event, NEW url, Posts(r, f, n, event, url),
         \A g \in PostedBy(a) : \E i \in 1..n : g = <<event[i], url[i]>>,
         a.kind \in Posters, a.kind = "V4CreateWebhook" \/ \A i \in 1..n : Posting(f[i])
  PROVE  /\ SweptBy(a) = {} => HookAsk(r, a, f)
         /\ \A w : /\ SweptBy(a) = {w} /\ a.kind \in Removers
                   /\ \A i \in 1..n : Posting(f[i])
                   => HookAsk(r, a, <<Purge("domain_webhooks", w)>> \o f)
<1> DEFINE t == "domain_webhooks"
<1>1. a.kind # "TriggerWebhook" /\ (a.kind \in Askers => a.kind = "V4CreateWebhook")
  BY DEF Posters, Askers
<1>2. ASSUME NEW p \in WillOf(r, f) PROVE HookDuty(r, a, p)
  BY <1>2 DEF Posts, HookDuty, DomainHookDuty
<1>3. \A g \in PostedBy(a) : \E p \in WillOf(r, f) : HookPut(p, g)
  BY DEF Posts
<1>4. ASSUME \A i \in 1..n : Posting(f[i]), NEW s \in Elements(f) PROVE Posting(s) /\ s.do \notin Special
  BY <1>4 DEF Posts, Elements, Posting, Special
<1>5. ASSUME SweptBy(a) = {} PROVE HookAsk(r, a, f)
  <2>1. Orderly(f)
    BY DEF Orderly, Posts
  <2>2. QED
    BY <1>1, <1>2, <1>3, <1>4, <1>5, <2>1 DEF HookAsk, Askers
<1>6. ASSUME NEW w, SweptBy(a) = {w}, a.kind \in Removers, \A i \in 1..n : Posting(f[i])
      PROVE  HookAsk(r, a, <<Purge(t, w)>> \o f)
  <2> DEFINE u == Purge(t, w)
             one == <<u>>
  <2>1. u.do = "purge" /\ u.table = t
    BY DEF Purge
  <2>2. Elements(<<u>>) = {u} /\ IsSequence(<<u>>) /\ Len(<<u>>) = 1
    BY ElementsOfTuples
  <2>3. one[1] = u
    OBVIOUS
  <2> HIDE DEF u, one
  <2>4. /\ Elements(one \o f) = {u} \cup Elements(f)
        /\ DOMAIN (one \o f) = 1..(1 + Len(f)) /\ Len(f) \in Nat
        /\ \A i \in DOMAIN (one \o f) : (one \o f)[i] = IF i <= 1 THEN one[i] ELSE f[i - 1]
    BY <2>2, ConcatOf DEF one, Posts
  <2>5. DOMAIN f = 1..Len(f)
    BY ElementsOf DEF Posts
  <2>6. Orderly(one \o f)
    <3>1. ASSUME NEW i \in DOMAIN (one \o f)
          PROVE  Posting((one \o f)[i]) \/ (i = 1 /\ (one \o f)[i] = u)
      <4>1. CASE i = 1
        BY <2>3, <2>4, <4>1
      <4>2. CASE i # 1
        <5>1. i - 1 \in DOMAIN f /\ (one \o f)[i] = f[i - 1]
          BY <2>4, <2>5, <4>2
        <5>2. QED
          BY <1>6, <5>1 DEF Posts
      <4>3. QED
        BY <4>1, <4>2
    <3>2. QED
      BY <2>1, <3>1 DEF Orderly
  <2>7. Leads(r, u) = {u}
    BY <2>1, LeadsOfSimple DEF Simple, Prim
  <2>8. WillOf(r, one \o f) = {u} \cup WillOf(r, f)
    BY <2>4, <2>7 DEF WillOf
  <2>9. HookDuty(r, a, u)
    BY <1>6, <2>1 DEF HookDuty, DomainHookDuty
  <2>10. \A s \in Elements(one \o f) : s.do \notin Special
    BY <1>4, <1>6, <2>1, <2>4 DEF Special
  <2>11. HookAsk(r, a, one \o f)
    BY <1>1, <1>2, <1>3, <1>6, <2>6, <2>8, <2>9, <2>10 DEF HookAsk, u
  <2>12. QED
    BY <2>11 DEF one, u
<1>7. QED
  BY <1>5, <1>6

LEMMA AskUrlsAre ==
  ASSUME NEW kind, NEW on, NEW urls
  PROVE  /\ AskUrls(kind, on, urls).kind = kind /\ AskUrls(kind, on, urls).on = on
         /\ AskUrls(kind, on, urls).urls = urls
<1> DEFINE set == [urls |-> urls]
<1>1. /\ Ask(kind, on)["kind"] = kind /\ Ask(kind, on)["on"] = on
      /\ {"kind", "on"} \subseteq DOMAIN Ask(kind, on) \ DOMAIN set
      /\ "urls" \in DOMAIN set /\ set["urls"] = urls
  BY DEF Ask
<1> HIDE DEF set
<1>2. \A c \in DOMAIN set : With(Ask(kind, on), set)[c] = set[c]
  BY WithColumn, Zenon
<1>3. \A c \in DOMAIN Ask(kind, on) \ DOMAIN set : With(Ask(kind, on), set)[c] = Ask(kind, on)[c]
  BY WithColumn, Zenon
<1>4. /\ With(Ask(kind, on), set)["kind"] = kind /\ With(Ask(kind, on), set)["on"] = on
      /\ With(Ask(kind, on), set)["urls"] = urls
  BY <1>1, <1>2, <1>3
<1>5. AskUrls(kind, on, urls) = With(Ask(kind, on), set)
  BY DEF AskUrls, set
<1>6. QED
  BY <1>4, <1>5

LEMMA HookAskedCreate ==
  ASSUME RecordsInv, NEW r \in Requests, Started(r), CreateWebhook(r) \/ UpdateWebhook(r)
  PROVE  HooksAsked(r)
<1> DEFINE t == "domain_webhooks"
<1>1. PICK event \in EventTypes, urls \in UrlLists :
        \/ Begin(r, AskUrls("CreateWebhook", event, urls), ForUrls(Insert, r, event, urls))
        \/ Begin(r, AskUrls("UpdateWebhook", event, urls),
                 <<Purge(t, [event |-> event])>> \o ForUrls(Insert, r, event, urls))
  BY DEF CreateWebhook, UpdateWebhook
<1> DEFINE n == Len(urls)
           events == [i \in 1..n |-> event]
           f == [i \in 1..n |-> Insert(t, DomainWebhook(<<r, i>>, events[i], urls[i]))]
<1>2. n \in Nat /\ DOMAIN urls = 1..n
  BY UrlListOf
<1>3. ForUrls(Insert, r, event, urls) = f
  BY <1>2 DEF ForUrls
<1>4. f = [i \in 1..n |-> Insert(t, DomainWebhook(<<r, i>>, events[i], urls[i]))]
  OBVIOUS
<1>5. \A i \in 1..n : events[i] = event
  OBVIOUS
<1>6. ToSet(urls) = {urls[i] : i \in 1..n}
  BY <1>2 DEF ToSet
<1> HIDE DEF f, events, n
<1>7. Posts(r, f, n, events, urls) /\ \A i \in 1..n : Posting(f[i])
  BY <1>2, <1>4, PostsInserts
<1>8. CASE Begin(r, AskUrls("CreateWebhook", event, urls), f)
  <2> DEFINE a == AskUrls("CreateWebhook", event, urls)
  <2>1. a.kind = "CreateWebhook" /\ a.on = event /\ a.urls = urls
    BY AskUrlsAre
  <2>2. Begin(r, a, f)
    BY <1>8
  <2> HIDE DEF a
  <2>3. SweptBy(a) = {} /\ a.kind \in Posters
    BY <2>1 DEF SweptBy, Posters
  <2>4. \A g \in PostedBy(a) : \E i \in 1..n : g = <<events[i], urls[i]>>
    BY <1>5, <1>6, <2>1 DEF PostedBy
  <2>5. HookAsk(r, a, f)
    BY <1>7, <2>3, <2>4, PostsAsk
  <2>6. Starts(r, a, f)
    BY <2>2, BeginStarts
  <2>7. QED
    BY <2>5, <2>6 DEF HooksAsked
<1>9. CASE Begin(r, AskUrls("UpdateWebhook", event, urls), <<Purge(t, [event |-> event])>> \o f)
  <2> DEFINE a == AskUrls("UpdateWebhook", event, urls)
             w == [event |-> event]
  <2>1. a.kind = "UpdateWebhook" /\ a.on = event /\ a.urls = urls
    BY AskUrlsAre
  <2>2. Begin(r, a, <<Purge(t, w)>> \o f)
    BY <1>9
  <2>3. SweptBy(a) = {w} /\ a.kind \in Posters /\ a.kind \in Removers
    BY <2>1 DEF SweptBy, Posters, Removers
  <2> HIDE DEF a, w
  <2>4. \A g \in PostedBy(a) : \E i \in 1..n : g = <<events[i], urls[i]>>
    BY <1>5, <1>6, <2>1 DEF PostedBy
  <2>5. HookAsk(r, a, <<Purge(t, w)>> \o f)
    BY <1>7, <2>3, <2>4, PostsAsk
  <2>6. Starts(r, a, <<Purge(t, w)>> \o f)
    BY <2>2, BeginStarts
  <2>7. QED
    BY <2>5, <2>6 DEF HooksAsked
<1>10. QED
  BY <1>1, <1>3, <1>8, <1>9

LEMMA HookAskedV4Create ==
  ASSUME RecordsInv, NEW r \in Requests, Started(r), V4CreateWebhook(r)
  PROVE  HooksAsked(r)
<1> DEFINE t == "domain_webhooks"
<1>1. PICK url \in Urls, events \in EventLists :
        Begin(r, AskUrls("V4CreateWebhook", url, events),
          [i \in DOMAIN events |->
            IfAny(t, [event |-> events[i], url |-> url], << >>,
                  <<TryInsert(t, DomainWebhook(<<r, i>>, events[i], url))>>)])
  BY DEF V4CreateWebhook
<1> DEFINE a == AskUrls("V4CreateWebhook", url, events)
           n == Len(events)
           urls == [i \in 1..n |-> url]
           f == [i \in 1..n |->
                  IfAny(t, [event |-> events[i], url |-> url], << >>,
                        <<TryInsert(t, DomainWebhook(<<r, i>>, events[i], url))>>)]
<1>2. n \in Nat /\ DOMAIN events = 1..n
  BY UrlListOf
<1>3. Begin(r, a, f)
  BY <1>1, <1>2
<1>4. Posts(r, f, n, events, urls)
  BY <1>2, PostsLookups
<1>5. ToSet(events) = {events[i] : i \in 1..n} /\ \A i \in 1..n : urls[i] = url
  BY <1>2 DEF ToSet
<1>6. a.kind = "V4CreateWebhook" /\ a.on = url /\ a.urls = events
  BY AskUrlsAre
<1> HIDE DEF a, f, urls, n
<1>7. SweptBy(a) = {} /\ a.kind \in Posters
  BY <1>6 DEF SweptBy, Posters
<1>8. \A g \in PostedBy(a) : \E i \in 1..n : g = <<events[i], urls[i]>>
  BY <1>5, <1>6 DEF PostedBy
<1>9. HookAsk(r, a, f)
  BY <1>4, <1>6, <1>7, <1>8, PostsAsk
<1>10. Starts(r, a, f)
  BY <1>3, BeginStarts
<1>11. QED
  BY <1>9, <1>10 DEF HooksAsked

LEMMA HookAskedV4Update ==
  ASSUME RecordsInv, NEW r \in Requests, Started(r), V4UpdateWebhook(r)
  PROVE  HooksAsked(r)
<1> DEFINE t == "domain_webhooks"
<1>1. PICK url \in Urls, events \in EventLists :
        Begin(r, AskUrls("V4UpdateWebhook", url, events),
              <<Purge(t, [url |-> url])>> \o
              [i \in DOMAIN events |-> TryInsert(t, DomainWebhook(<<r, i>>, events[i], url))])
  BY DEF V4UpdateWebhook
<1> DEFINE a == AskUrls("V4UpdateWebhook", url, events)
           n == Len(events)
           w == [url |-> url]
           urls == [i \in 1..n |-> url]
           f == [i \in 1..n |-> TryInsert(t, DomainWebhook(<<r, i>>, events[i], urls[i]))]
<1>2. n \in Nat /\ DOMAIN events = 1..n
  BY UrlListOf
<1>3. [i \in DOMAIN events |-> TryInsert(t, DomainWebhook(<<r, i>>, events[i], url))] = f
  BY <1>2
<1>4. Begin(r, a, <<Purge(t, w)>> \o f)
  BY <1>1, <1>3
<1>5. f = [i \in 1..n |-> TryInsert(t, DomainWebhook(<<r, i>>, events[i], urls[i]))]
  OBVIOUS
<1>6. ToSet(events) = {events[i] : i \in 1..n} /\ \A i \in 1..n : urls[i] = url
  BY <1>2 DEF ToSet
<1>7. a.kind = "V4UpdateWebhook" /\ a.on = url /\ a.urls = events
  BY AskUrlsAre
<1>8. SweptBy(a) = {w} /\ a.kind \in Posters /\ a.kind \in Removers
  BY <1>7 DEF SweptBy, Posters, Removers
<1> HIDE DEF a, f, urls, n, w
<1>9. Posts(r, f, n, events, urls) /\ \A i \in 1..n : Posting(f[i])
  BY <1>2, <1>5, PostsInserts
<1>10. \A g \in PostedBy(a) : \E i \in 1..n : g = <<events[i], urls[i]>>
  BY <1>6, <1>7 DEF PostedBy
<1>11. HookAsk(r, a, <<Purge(t, w)>> \o f)
  BY <1>8, <1>9, <1>10, PostsAsk
<1>12. Starts(r, a, <<Purge(t, w)>> \o f)
  BY <1>4, BeginStarts
<1>13. QED
  BY <1>11, <1>12 DEF HooksAsked

\* Those who register nothing.
LEMMA QuietAsk ==
  ASSUME NEW r, NEW a, NEW q, a.kind \notin Posters \cup {"TriggerWebhook"},
         \A s \in Elements(q) : s.do \notin Special, \A p \in WillOf(r, q) : HookDuty(r, a, p),
         \A w \in SweptBy(a) : Purge("domain_webhooks", w) \in WillOf(r, q)
  PROVE  HookAsk(r, a, q)
<1>1. PostedBy(a) = {}
  BY DEF PostedBy, Posters
<1>2. QED
  BY <1>1 DEF HookAsk

LEMMA QuietOne ==
  ASSUME NEW r, NEW a, NEW s, a.kind \notin Posters \cup {"TriggerWebhook"}, s.do \in Simple,
         HookDuty(r, a, Prim(s)), SweptBy(a) = {} \/ \E w : SweptBy(a) = {w} /\ s = Purge("domain_webhooks", w)
  PROVE  HookAsk(r, a, <<s>>)
<1>1. Elements(<<s>>) = {s} /\ Leads(r, s) = {Prim(s)} /\ s.do \notin Special
  BY ElementsOfTuples, LeadsOfSimple
<1>2. WillOf(r, <<s>>) = {Prim(s)}
  BY <1>1 DEF WillOf
<1>3. ASSUME NEW w, s = Purge("domain_webhooks", w) PROVE Prim(s) = s
  BY <1>3 DEF Purge, Prim
<1>4. QED
  BY <1>1, <1>2, <1>3, QuietAsk

PurgeDuty(a, t) ==
  /\ t = "domain_webhooks" => a.kind \in Removers
  /\ t = "account_webhooks" => a.kind \in Withdrawers
  /\ t = "webhook_deliveries" => a.kind = "ResetAll"

LEMMA PurgeQuiet ==
  ASSUME NEW r, NEW a, NEW t, NEW w, PurgeDuty(a, t)
  PROVE  /\ HookDuty(r, a, Purge(t, w)) /\ Purge(t, w).do = "purge"
         /\ Leads(r, Purge(t, w)) = {Purge(t, w)} /\ Prim(Purge(t, w)) = Purge(t, w)
<1> DEFINE s == Purge(t, w)
<1>1. s.do = "purge" /\ s.table = t
  BY DEF Purge
<1> HIDE DEF s
<1>2. Prim(s) = s /\ Leads(r, s) = {Prim(s)}
  BY <1>1, LeadsOfSimple DEF Prim, Simple
<1>3. HookDuty(r, a, s)
  BY <1>1 DEF HookDuty, DomainHookDuty, AccountHookDuty, DeliveryDuty, PurgeDuty
<1>4. QED
  BY <1>1, <1>2, <1>3 DEF s

LEMMA QuietPurge ==
  ASSUME NEW r, NEW a, NEW t, NEW w, a.kind \notin Posters \cup {"TriggerWebhook"}, PurgeDuty(a, t),
         SweptBy(a) = {} \/ (SweptBy(a) = {w} /\ t = "domain_webhooks")
  PROVE  HookAsk(r, a, <<Purge(t, w)>>)
<1> DEFINE s == Purge(t, w)
<1>1. HookDuty(r, a, s) /\ s.do = "purge" /\ Prim(s) = s
  BY PurgeQuiet
<1>2. SweptBy(a) = {} \/ \E v : SweptBy(a) = {v} /\ s = Purge("domain_webhooks", v)
  OBVIOUS
<1> HIDE DEF s
<1>3. HookAsk(r, a, <<s>>)
  BY <1>1, <1>2, QuietOne DEF Simple
<1>4. QED
  BY <1>3 DEF s

LEMMA QuietPurges ==
  ASSUME NEW r, NEW a, NEW f, NEW n, IsList(f, n), NEW table, NEW where,
         \A i \in 1..n : f[i] = Purge(table[i], where[i]) /\ PurgeDuty(a, table[i])
  PROVE  /\ IsSequence(f) /\ \A s \in Elements(f) : s.do = "purge"
         /\ \A p \in WillOf(r, f) : HookDuty(r, a, p)
<1>1. IsSequence(f) /\ DOMAIN f = 1..n
  BY Listed DEF IsList
<1>2. ASSUME NEW s \in Elements(f) PROVE s.do = "purge" /\ Leads(r, s) = {s} /\ HookDuty(r, a, s)
  <2>1. PICK i \in 1..n : s = f[i]
    BY <1>1 DEF Elements
  <2>2. QED
    BY <2>1, PurgeQuiet
<1>3. QED
  BY <1>1, <1>2 DEF WillOf

LEMMA HookAskedDelete ==
  ASSUME RecordsInv, NEW r \in Requests, Started(r), DeleteWebhook(r) \/ V4DeleteWebhook(r)
  PROVE  HooksAsked(r)
<1> DEFINE t == "domain_webhooks"
<1>1. CASE DeleteWebhook(r)
  <2>1. PICK event \in EventTypes :
          Begin(r, AskUrls("DeleteWebhook", event, << >>), <<Purge(t, [event |-> event])>>)
    BY <1>1 DEF DeleteWebhook
  <2> DEFINE a == AskUrls("DeleteWebhook", event, << >>)
             w == [event |-> event]
  <2>2. a.kind = "DeleteWebhook" /\ a.on = event
    BY AskUrlsAre
  <2>3. Begin(r, a, <<Purge(t, w)>>)
    BY <2>1
  <2>4. SweptBy(a) = {w}
    BY <2>2 DEF SweptBy
  <2> HIDE DEF a, w
  <2>5. a.kind \notin Posters \cup {"TriggerWebhook"} /\ PurgeDuty(a, t)
    BY <2>2 DEF Posters, PurgeDuty, Removers
  <2>6. HookAsk(r, a, <<Purge(t, w)>>)
    BY <2>4, <2>5, QuietPurge
  <2>7. Starts(r, a, <<Purge(t, w)>>)
    BY <2>3, BeginStarts
  <2>8. QED
    BY <2>6, <2>7 DEF HooksAsked
<1>2. CASE V4DeleteWebhook(r)
  <2>1. PICK urls \in UrlLists :
          Begin(r, AskUrls("V4DeleteWebhook", "all", urls),
                [i \in DOMAIN urls |-> Purge(t, [url |-> urls[i]])])
    BY <1>2 DEF V4DeleteWebhook
  <2> DEFINE a == AskUrls("V4DeleteWebhook", "all", urls)
             n == Len(urls)
             where == [i \in 1..n |-> [url |-> urls[i]]]
             table == [i \in 1..n |-> t]
             f == [i \in 1..n |-> Purge(table[i], where[i])]
  <2>2. n \in Nat /\ DOMAIN urls = 1..n
    BY UrlListOf
  <2>3. [i \in DOMAIN urls |-> Purge(t, [url |-> urls[i]])] = f
    BY <2>2
  <2>4. Begin(r, a, f)
    BY <2>1, <2>3
  <2>5. a.kind = "V4DeleteWebhook"
    BY AskUrlsAre
  <2>6. IsList(f, n) /\ \A i \in 1..n : f[i] = Purge(table[i], where[i])
    BY <2>2 DEF IsList
  <2>7. \A i \in 1..n : table[i] = t
    OBVIOUS
  <2> HIDE DEF a, f, n, where, table
  <2>8. /\ a.kind \notin Posters \cup {"TriggerWebhook"} /\ SweptBy(a) = {}
        /\ \A i \in 1..n : PurgeDuty(a, table[i])
    BY <2>5, <2>7 DEF Posters, PurgeDuty, Removers, SweptBy
  <2>9. /\ \A s \in Elements(f) : s.do = "purge"
        /\ \A p \in WillOf(r, f) : HookDuty(r, a, p)
    BY <2>6, <2>8, QuietPurges
  <2>10. HookAsk(r, a, f)
    BY <2>8, <2>9, QuietAsk DEF Special
  <2>11. Starts(r, a, f)
    BY <2>4, BeginStarts
  <2>12. QED
    BY <2>10, <2>11 DEF HooksAsked
<1>3. QED
  BY <1>1, <1>2

LEMMA HookAskedReset ==
  ASSUME RecordsInv, NEW r \in Requests, Started(r), scene \in DOMAIN resetTables,
         ResetAll(r, resetTables[scene])
  PROVE  HooksAsked(r)
<1> DEFINE tables == resetTables[scene]
           n == Len(tables)
           where == [i \in 1..n |-> All]
           f == [i \in 1..n |-> Purge(tables[i], where[i])]
           u == SetConfig(DefaultConfig)
           gone == UNION {{<<t, x.id>> : x \in db[t]} : t \in ToSet(tables)}
           b == AskSave("ResetAll", "all", "config", Config, DefaultConfig)
           a == [b EXCEPT !.gone = gone]
<1>1. tables \in Seq(Tables \ {"config"})
  BY ResetTablesAre
<1>2. n \in Nat /\ DOMAIN tables = 1..n
  BY <1>1
<1>3. [i \in DOMAIN tables |-> Purge(tables[i], All)] = f
  BY <1>2
<1>4. Begin(r, a, f \o <<u>>)
  BY <1>3 DEF ResetAll
<1>5. a.kind = "ResetAll"
  <2>1. b.kind = "ResetAll"
    BY AskKinds
  <2>2. a.kind = b.kind
    BY DEF AskSave, Ask
  <2>3. QED
    BY <2>1, <2>2
<1>6. IsList(f, n) /\ \A i \in 1..n : f[i] = Purge(tables[i], where[i])
  BY <1>2 DEF IsList
<1>7. u.do = "update" /\ u.table = "config"
  BY DEF SetConfig, Update
<1> HIDE DEF a, f, n, where, tables, u
<1>8. /\ a.kind \notin Posters \cup {"TriggerWebhook"} /\ SweptBy(a) = {}
      /\ \A t : PurgeDuty(a, t)
  BY <1>5 DEF Posters, PurgeDuty, Removers, Withdrawers, SweptBy
<1>9. /\ IsSequence(f) /\ \A s \in Elements(f) : s.do = "purge"
      /\ \A p \in WillOf(r, f) : HookDuty(r, a, p)
  BY <1>6, <1>8, QuietPurges
<1>10. Leads(r, u) = {u} /\ HookDuty(r, a, u)
  BY <1>7, LeadsOfSimple DEF Simple, Prim, HookDuty
<1> DEFINE one == <<u>>
<1>11. Elements(one) = {u} /\ IsSequence(one)
  BY ElementsOfTuples
<1> HIDE DEF one
<1>12. Elements(f \o one) = Elements(f) \cup {u}
  BY <1>9, <1>11, ConcatOf
<1>13. \A p \in WillOf(r, f \o one) : HookDuty(r, a, p)
  BY <1>9, <1>10, <1>12 DEF WillOf
<1>14. \A s \in Elements(f \o one) : s.do \notin Special
  BY <1>7, <1>9, <1>12 DEF Special
<1>15. HookAsk(r, a, f \o one)
  BY <1>8, <1>13, <1>14, QuietAsk
<1>16. Begin(r, a, f \o one)
  BY <1>4 DEF one
<1>17. Starts(r, a, f \o one)
  BY <1>16, BeginStarts
<1>18. QED
  BY <1>15, <1>17 DEF HooksAsked

LEMMA ConfigOnly ==
  ASSUME NEW r, UpdateConfig(r)
  PROVE  Within(r, {"UpdateConfig"}, {"config"})
<1> DEFINE K == {"UpdateConfig"}
           T == {"config"}
<1>0. "config" \in T /\ "UpdateConfig" \in K
  OBVIOUS
<1>1. PICK behavior \in {All, [verify |-> FALSE]}, authentication \in {All, [key |-> r]}, e \in Refusals :
        Begin(r, AskSave("UpdateConfig", "all", "config", [id |-> "config"], With(behavior, authentication)),
              Merge(behavior) \o Merge(authentication) \o e)
  BY DEF UpdateConfig, Refusals
<1> DEFINE a == SetConfig(behavior)
           b == SetConfig(authentication)
           q == Merge(behavior) \o Merge(authentication) \o e
<1> HIDE DEF K, T
<1>2. Asking(r, K, q)
  BY <1>0, <1>1, AskingIs
<1>3. Touches(r, a, T) /\ Touches(r, b, T)
  BY <1>0, StatementTables, TouchesOne DEF SetConfig
<1>4. Touches(r, Invalid, T)
  <2>1. Invalid.do = "invalid"
    BY DEF Invalid
  <2>2. QED
    BY <2>1 DEF Touches, Leads, Branches, Prims, Simple
<1>5. \A s \in Elements(q) : s = Invalid \/ s = a \/ s = b
  BY ConfigStatements
<1> HIDE DEF a, b, q
<1>6. Confined(r, q, T)
  BY <1>3, <1>4, <1>5 DEF Confined, WillOf, Touches
<1>7. QED
  BY <1>2, <1>6, WithinProgram DEF K, T

LEMMA HookAskedConfig ==
  ASSUME RecordsInv, NEW r \in Requests, Started(r), UpdateConfig(r) \/ RegenerateSigningKey(r)
  PROVE  HooksAsked(r)
<1>1. CASE RegenerateSigningKey(r)
  <2> DEFINE set == [key |-> r]
             a == AskSave("RegenerateSigningKey", "all", "config", [id |-> "config"], set)
             u == SetConfig(set)
  <2>1. Begin(r, a, <<u>>)
    BY <1>1 DEF RegenerateSigningKey, SetConfig
  <2>2. a.kind = "RegenerateSigningKey"
    BY AskKinds
  <2>3. u.do = "update" /\ u.table = "config"
    BY DEF SetConfig, Update
  <2> HIDE DEF a, u
  <2>4. a.kind \notin Posters \cup {"TriggerWebhook"} /\ SweptBy(a) = {}
    BY <2>2 DEF Posters, SweptBy
  <2>5. u.do \in Simple /\ HookDuty(r, a, Prim(u))
    BY <2>3 DEF Simple, Prim, HookDuty
  <2>6. HookAsk(r, a, <<u>>)
    BY <2>4, <2>5, QuietOne
  <2>7. QED
    BY <2>1, <2>6, BeginStarts DEF HooksAsked
<1>2. CASE UpdateConfig(r)
  <2>1. PICK b, p : Starts(r, b, p)
    BY DEF Started
  <2>2. asked'[r] = b /\ todo'[r] = p /\ asked[r] = NotAsked
    BY <2>1, Starting
  <2>3. DOMAIN asked = Requests /\ DOMAIN todo = Requests
    BY DEF RecordsInv, Shapes
  <2>4. PICK set, q : Begin(r, AskSave("UpdateConfig", "all", "config", [id |-> "config"], set), q)
    BY <1>2 DEF UpdateConfig
  <2> DEFINE a == AskSave("UpdateConfig", "all", "config", [id |-> "config"], set)
  <2>5. a.kind = "UpdateConfig"
    BY AskKinds
  <2>6. a.saves # {}
    <3>1. a.saves = {<<"config", [id |-> "config"].id>>}
      BY DEF AskSave, Ask
    <3>2. QED
      BY <3>1
  <2>7. Begin(r, a, q)
    BY <2>4
  <2> HIDE DEF a
  <2>8. asked' = [asked EXCEPT ![r] = a] /\ todo' = [todo EXCEPT ![r] = q]
    BY <2>7 DEF Begin
  <2>9. b = a /\ p = q
    BY <2>2, <2>3, <2>8
  <2>10. PICK c, o : Begin(r, c, o) /\ Confined(r, o, {"config"})
    BY <1>2, ConfigOnly DEF Within
  <2>11. todo' = [todo EXCEPT ![r] = o]
    BY <2>10 DEF Begin
  <2>12. \A v \in WillOf(r, p) : v.table = "config"
    BY <2>2, <2>3, <2>10, <2>11 DEF Confined
  <2>13. \A s \in Elements(p) : s.do \notin Special
    BY <2>1, <2>6, <2>9 DEF Starts, Sound, Purposeful
  <2>14. \A v \in WillOf(r, p) : HookDuty(r, a, v)
    BY <2>12 DEF HookDuty
  <2>15. a.kind \notin Posters \cup {"TriggerWebhook"} /\ SweptBy(a) = {}
    BY <2>5 DEF Posters, SweptBy
  <2>16. HookAsk(r, a, p)
    BY <2>13, <2>14, <2>15, QuietAsk
  <2>17. QED
    BY <2>1, <2>9, <2>16 DEF HooksAsked
<1>3. QED
  BY <1>1, <1>2

LEMMA QuietPut ==
  ASSUME NEW r, NEW a, NEW s, a.kind \notin Posters \cup {"TriggerWebhook"}, SweptBy(a) = {},
         s.do \in {"put", "save"}, s.table = "account_webhooks",
         \/ by(s.row) = r /\ a.kind = "CreateAccountWebhook"
         \/ by(s.row) # r /\ a.kind = "UpdateAccountWebhook"
  PROVE  HookAsk(r, a, <<s>>)
<1>1. s.do \in Simple /\ Prim(s) = Store(s.table, s.row)
  BY DEF Simple, Prim
<1>2. Prim(s).do = "put" /\ Prim(s).table = "account_webhooks" /\ Prim(s).row = s.row
  BY <1>1 DEF Store
<1>3. HookDuty(r, a, Prim(s))
  BY <1>2 DEF HookDuty, AccountHookDuty
<1>4. QED
  BY <1>1, <1>3, QuietOne

LEMMA HookAskedAccount ==
  ASSUME RecordsInv, NEW r \in Requests, Started(r),
         \/ CreateAccountWebhook(r) \/ UpdateAccountWebhook(r)
         \/ DeleteAccountWebhook(r) \/ BulkDeleteAccountWebhooks(r)
  PROVE  HooksAsked(r)
<1> DEFINE t == "account_webhooks"
<1>1. CASE CreateAccountWebhook(r)
  <2>1. PICK url \in Urls, events \in EventLists :
          Begin(r, Ask("CreateAccountWebhook", url), <<Insert(t, AccountWebhook(<<r, 1>>, url, ToSet(events)))>>)
    BY <1>1 DEF CreateAccountWebhook
  <2> DEFINE a == Ask("CreateAccountWebhook", url)
             row == AccountWebhook(<<r, 1>>, url, ToSet(events))
             s == Insert(t, row)
  <2>2. a.kind = "CreateAccountWebhook" /\ Begin(r, a, <<s>>)
    BY <2>1, AskKinds
  <2>3. by(row) = r
    BY DEF AccountWebhook, by
  <2> HIDE DEF row, a
  <2>4. s.do = "put" /\ s.table = "account_webhooks" /\ s.row = row
    BY DEF Insert
  <2> HIDE DEF s
  <2>5. a.kind \notin Posters \cup {"TriggerWebhook"} /\ SweptBy(a) = {}
    BY <2>2 DEF Posters, SweptBy
  <2>6. HookAsk(r, a, <<s>>)
    BY <2>2, <2>3, <2>4, <2>5, QuietPut
  <2>7. QED
    BY <2>2, <2>6, BeginStarts DEF HooksAsked
<1>2. CASE UpdateAccountWebhook(r)
  <2>1. PICK x \in Live(t), set \in {[url |-> url] : url \in Urls} \cup {[events |-> ToSet(events)] : events \in EventLists} :
          Begin(r, AskSave("UpdateAccountWebhook", by(x), t, x, set), <<Save(t, With(x, set))>>)
    BY <1>2 DEF UpdateAccountWebhook
  <2> DEFINE a == AskSave("UpdateAccountWebhook", by(x), t, x, set)
             row == With(x, set)
             s == Save(t, row)
  <2>2. a.kind = "UpdateAccountWebhook" /\ Begin(r, a, <<s>>)
    BY <2>1, AskKinds
  <2>3. "id" \notin DOMAIN set
    BY <2>1
  <2>4. x \in db[t] /\ t \in Tables \ {"config"}
    BY <2>1, HookTables DEF Live
  <2> HIDE DEF a
  <2>5. Starts(r, a, <<s>>)
    BY <2>2, BeginStarts
  <2>6. by(x) # r
    BY <2>4, <2>5, StartingNew
  <2>7. "id" \in DOMAIN x
    <3>1. DOMAIN x = Columns(t)
      BY <2>4 DEF RecordsInv, Shapes
    <3>2. QED
      BY <3>1 DEF Columns, Fixed
  <2>8. row["id"] = x["id"]
    <3>1. \A c \in DOMAIN x \ DOMAIN set : row[c] = x[c]
      BY WithColumn, Zenon
    <3> HIDE DEF row
    <3>2. QED
      BY <2>3, <2>7, <3>1
  <2> HIDE DEF row
  <2>9. by(row) # r
    BY <2>6, <2>8 DEF by
  <2>10. s.do = "save" /\ s.table = "account_webhooks" /\ s.row = row
    BY DEF Save
  <2> HIDE DEF s
  <2>11. a.kind \notin Posters \cup {"TriggerWebhook"} /\ SweptBy(a) = {}
    BY <2>2 DEF Posters, SweptBy
  <2>12. HookAsk(r, a, <<s>>)
    BY <2>2, <2>9, <2>10, <2>11, QuietPut
  <2>13. QED
    BY <2>5, <2>12 DEF HooksAsked
<1>3. ASSUME NEW kind \in {"DeleteAccountWebhook", "BulkDeleteAccountWebhooks"}, NEW on, NEW S, NEW w,
             Begin(r, AskDelete(kind, on, t, S), <<Purge(t, w)>>)
      PROVE  HooksAsked(r)
  <2> DEFINE a == AskDelete(kind, on, t, S)
  <2>1. a.kind = kind /\ Begin(r, a, <<Purge(t, w)>>)
    BY <1>3, AskKinds
  <2> HIDE DEF a
  <2>2. a.kind \notin Posters \cup {"TriggerWebhook"} /\ SweptBy(a) = {} /\ PurgeDuty(a, t)
    BY <1>3, <2>1 DEF Posters, SweptBy, PurgeDuty, Withdrawers
  <2>3. HookAsk(r, a, <<Purge(t, w)>>)
    BY <2>2, QuietPurge
  <2>4. QED
    BY <2>1, <2>3, BeginStarts DEF HooksAsked
<1>4. CASE DeleteAccountWebhook(r)
  <2>1. PICK x \in Live(t) :
          Begin(r, AskDelete("DeleteAccountWebhook", by(x), t, {x}), <<Purge(t, [id |-> x.id])>>)
    BY <1>4 DEF DeleteAccountWebhook
  <2> HIDE DEF t
  <2>2. QED
    BY <1>3, <2>1
<1>5. CASE BulkDeleteAccountWebhooks(r)
  <2>1. Begin(r, AskDelete("BulkDeleteAccountWebhooks", "all", t, Live(t)), <<Purge(t, All)>>)
    BY <1>5 DEF BulkDeleteAccountWebhooks
  <2> HIDE DEF t
  <2>2. QED
    BY <1>3, <2>1
<1>6. QED
  BY <1>1, <1>2, <1>4, <1>5

LEMMA HookAskedTrigger ==
  ASSUME RecordsInv, NEW r \in Requests, Started(r), TriggerWebhook(r)
  PROVE  HooksAsked(r)
<1>1. PICK event \in EventTypes :
        Begin(r, Ask("TriggerWebhook", event), <<[do |-> "collect", event |-> event, urls |-> URLs(event)]>>)
  BY DEF TriggerWebhook
<1> DEFINE a == Ask("TriggerWebhook", event)
           s == [do |-> "collect", event |-> event, urls |-> URLs(event)]
           q == <<s>>
<1>2. a.kind = "TriggerWebhook" /\ a.on = event /\ Begin(r, a, q)
  BY <1>1, AskKinds
<1>3. q = <<[do |-> "collect", event |-> a.on, urls |-> URLs(a.on)]>>
  BY <1>2
<1>4. s.do = "collect"
  OBVIOUS
<1> HIDE DEF a, s
<1>5. Elements(q) = {s}
  BY ElementsOfTuples
<1>6. Leads(r, s) = {}
  BY <1>4 DEF Leads, Branches, Prims, Simple
<1>7. WillOf(r, q) = {}
  BY <1>5, <1>6 DEF WillOf
<1> HIDE DEF q
<1>8. SweptBy(a) = {} /\ PostedBy(a) = {} /\ a.kind \notin Posters /\ a.kind \in Askers
  BY <1>2 DEF SweptBy, PostedBy, Posters, Askers
<1>9. HookAsk(r, a, q)
  BY <1>3, <1>7, <1>8 DEF HookAsk
<1>10. QED
  BY <1>2, <1>9, BeginStarts DEF HooksAsked

LEMMA HooksAskedAll ==
  ASSUME RecordsInv, scene \in {"webhooks", "triggers"}, NEW r \in Requests, Arrive(r)
  PROVE  HooksAsked(r)
<1>1. Started(r)
  BY ArriveStarts
<1>2. scene \in DOMAIN resetTables
  BY DEF resetTables
<1>3. CASE scene = "webhooks" /\ WebhookHandlers(r)
  BY <1>1, <1>3, HookAskedCreate, HookAskedV4Create, HookAskedV4Update, HookAskedDelete,
     HookAskedAccount, HookAskedConfig, HookAskedTrigger DEF WebhookHandlers
<1>4. CASE UpdateAccountWebhook(r) \/ RegenerateSigningKey(r) \/ TriggerWebhook(r) \/ UpdateConfig(r)
  BY <1>1, <1>4, HookAskedAccount, HookAskedConfig, HookAskedTrigger
<1>5. CASE ResetAll(r, resetTables[scene])
  BY <1>1, <1>2, <1>5, HookAskedReset
<1>6. QED
  BY <1>3, <1>4, <1>5 DEF Arrive

----------------------------------------------------------------------------
(* A request begins.                                                       *)

LEMMA FitsHook ==
  ASSUME NEW x, NEW v
  PROVE  (Fits(x, [event |-> v]) <=> x.event = v) /\ (Fits(x, [url |-> v]) <=> x.url = v)
<1>1. ASSUME NEW w, NEW c, DOMAIN w = {c}, w[c] = v PROVE Fits(x, w) <=> x[c] = v
  BY <1>1 DEF Fits
<1>2. DOMAIN [event |-> v] = {"event"} /\ [event |-> v]["event"] = v
  OBVIOUS
<1>3. DOMAIN [url |-> v] = {"url"} /\ [url |-> v]["url"] = v
  OBVIOUS
<1>4. Fits(x, [event |-> v]) <=> x["event"] = v
  BY <1>1, <1>2
<1>5. Fits(x, [url |-> v]) <=> x["url"] = v
  BY <1>1, <1>3
<1>6. QED
  BY <1>4, <1>5

LEMMA URLsAre ==
  ASSUME NEW e
  PROVE  URLs(e) = {w.url : w \in {w \in Live("domain_webhooks") : w.event = e}}
<1>1. \A w : Fits(w, [event |-> e]) <=> w.event = e
  BY FitsHook
<1>2. Select("domain_webhooks", [event |-> e]) = {w \in Live("domain_webhooks") : w.event = e}
  BY <1>1 DEF Select
<1>3. QED
  BY <1>2 DEF URLs

LEMMA WrittenArrives ==
  ASSUME RecordsInv, HooksWritten, NEW r, NEW a, NEW q, Starts(r, a, q)
  PROVE  HooksWritten'
<1>1. r \in Requests /\ db' = db /\ asked[r] = NotAsked /\ \A s \in Requests \ {r} : asked'[s] = asked[s]
  BY Starting
<1>2. NotAsked.kind = "none"
  BY DEF NotAsked, Ask
<1>3. ASSUME NEW s \in Requests, NEW K, "none" \notin K, AskedFor(s, K) PROVE AskedFor(s, K)'
  BY <1>1, <1>2, <1>3 DEF AskedFor
<1>4. ASSUME NEW t \in Tables \ {"config"}, NEW x \in db[t] PROVE by(x) = "seed" \/ by(x) \in Requests
  BY <1>4 DEF RecordsInv, Origins, Known, Began
<1>5. ASSUME NEW t \in Tables \ {"config"}, NEW x \in Copies(t) PROVE by(x) = "seed" \/ by(x) \in Requests
  <2>1. CASE x \in db[t]
    BY <1>4, <2>1
  <2>2. ASSUME NEW s \in Requests, x \in Held(s, t) PROVE by(x) = "seed" \/ by(x) \in Requests
    <3>1. PICK p \in Will(s) : p.do = "put" /\ p.table = t /\ by(p.row) # s /\ x = p.row
      BY <2>2 DEF Held
    <3>2. Meant(s, asked[s], p)
      BY <3>1 DEF RecordsInv, Shapes
    <3>3. <<t, x.id>> \in asked[s].saves
      BY <3>1, <3>2 DEF Meant, Stores
    <3>4. \A g \in asked[s].saves : g[1] # "config" => Known(g[2][1])
      BY DEF RecordsInv, Origins
    <3>5. Known(<<t, x.id>>[2][1])
      BY <3>3, <3>4
    <3>6. QED
      BY <3>5 DEF Known, Began, by
  <2>3. QED
    BY <1>5, <2>1, <2>2 DEF Copies
<1>6. "none" \notin Posters
  BY DEF Posters
<1>7. \A x \in db'["domain_webhooks"] : ~x.dead /\ WrittenBy(x, Posters)'
  BY <1>1, <1>3, <1>4, <1>6, HookTables DEF HooksWritten, WrittenBy
<1>8. ASSUME NEW x \in Copies("account_webhooks")' PROVE WrittenBy(x, {"CreateAccountWebhook"})'
  <2>1. PICK y \in Copies("account_webhooks") : Ancestor("account_webhooks", x, y)
    BY <1>8, StartingCopies, HookTables
  <2>2. by(x) = by(y) /\ WrittenBy(y, {"CreateAccountWebhook"})
    BY <2>1 DEF Ancestor, by, HooksWritten
  <2>3. by(y) = "seed" \/ by(y) \in Requests
    BY <1>5, HookTables
  <2>4. QED
    BY <1>3, <2>2, <2>3 DEF WrittenBy
<1>9. \A d \in db'["webhook_deliveries"] : d.trigger \in Requests /\ AskedFor(d.trigger, {"TriggerWebhook"})'
  BY <1>1, <1>3 DEF HooksWritten
<1>10. QED
  BY <1>7, <1>8, <1>9 DEF HooksWritten

\* Those that were there.
LEMMA DeliversBeside ==
  ASSUME RecordsInv, NEW r, NEW a, NEW q, Starts(r, a, q), NEW s \in Requests \ {r}, Delivers(s)
  PROVE  Delivers(s)'
<1>1. db' = db /\ asked'[s] = asked[s] /\ todo'[s] = todo[s] /\ WillOf(s, todo'[s]) = Will(s)
  BY Starting
<1>2. (Undelivered(s)' <=> Undelivered(s)) /\ (Uncollected(s)' <=> Uncollected(s))
  BY <1>1 DEF Undelivered, Uncollected
<1>3. Sent(s)' = Sent(s)
  BY <1>1 DEF Sent, Due, Will
<1>4. Targeted(s)' = Targeted(s)
  BY <1>1, <1>2, <1>3 DEF Targeted
<1>5. \A x : WrittenBefore(x, s)' <=> WrittenBefore(x, s)
  BY WrittenBeforeStays
<1>6. OnDomainUrls(s)' = OnDomainUrls(s) /\ OnAccount(s)' = OnAccount(s)
  BY <1>1, <1>5 DEF OnDomainUrls, OnAccount, Live
<1>7. \A K : "none" \notin K /\ MayHaveRemoved(s, K) => MayHaveRemoved(s, K)'
  BY RemoversStay
<1>8. "none" \notin Alterers /\ "none" \notin Upsetters
  BY DEF Alterers, Upsetters, Removers
<1>9. QED
  BY <1>1, <1>2, <1>3, <1>4, <1>6, <1>7, <1>8 DEF Delivers

\* What a trigger reads as it begins.
LEMMA DeliversFirst ==
  ASSUME RecordsInv, HooksWritten, NEW r, NEW a, NEW q, Starts(r, a, q), HookAsk(r, a, q),
         a.kind = "TriggerWebhook"
  PROVE  Delivers(r)'
<1>1. /\ r \in Requests /\ db' = db /\ asked[r] = NotAsked /\ asked'[r] = a /\ todo'[r] = q
      /\ \A s \in Requests \ {r} : asked'[s] = asked[s]
      /\ WillOf(r, todo'[r]) = WillOf(r, q)
  BY Starting
<1> DEFINE S == URLs(a.on)
           d == [do |-> "collect", event |-> a.on, urls |-> S]
<1>2. q = <<d>>
  BY DEF HookAsk
<1>3. d.do = "collect" /\ d.urls = S
  OBVIOUS
<1>4. Undelivered(r)' /\ Uncollected(r)'
  BY <1>1, <1>2 DEF Undelivered, Uncollected
<1> HIDE DEF d
<1>5. Elements(q) = {d} /\ Head(q) = d
  <2>1. Elements(<<d>>) = {d}
    BY ElementsOfTuples
  <2>2. QED
    BY <1>2, <2>1
<1>6. WillOf(r, q) = {}
  <2>1. Leads(r, d) = {}
    BY <1>3 DEF Leads, Branches, Prims, Simple
  <2>2. QED
    BY <1>5, <2>1 DEF WillOf
<1>7. \A e \in db["webhook_deliveries"] : e.trigger # r
  BY <1>1 DEF HooksWritten, AskedFor, NotAsked, Ask
<1>8. Sent(r)' = {}
  <2>1. Due(r)' = {}
    BY <1>1, <1>6 DEF Due, Will
  <2>2. QED
    BY <1>1, <1>7, <2>1 DEF Sent
<1>9. Targeted(r)' = S
  BY <1>1, <1>3, <1>4, <1>5 DEF Targeted
<1>10. S = {w.url : w \in {w \in Live("domain_webhooks") : w.event = a.on}}
  BY URLsAre
<1>11. Live("domain_webhooks")' = Live("domain_webhooks")
  BY <1>1 DEF Live
<1> HIDE DEF S
<1>12. OnDomainUrls(r)' \subseteq S
  BY <1>1, <1>10, <1>11 DEF OnDomainUrls
<1>13. ASSUME NEW u \in S PROVE MayHaveRemoved(r, Upsetters)' \/ u \in OnDomainUrls(r)'
  <2>1. PICK w \in Live("domain_webhooks") : w.event = a.on /\ u = w.url
    BY <1>10, <1>13
  <2>2. w \in db["domain_webhooks"] /\ by(w) # r
    BY <2>1, StartingNew, HookTables DEF Live
  <2>3. CASE WrittenBefore(w, r)'
    BY <1>1, <1>11, <2>1, <2>3 DEF OnDomainUrls
  <2>4. CASE ~WrittenBefore(w, r)'
    <3>1. by(w) # "seed" /\ \A s \in Requests : s = by(w) => ~Preceded(s, r)'
      BY <2>4 DEF WrittenBefore, by
    <3>2. by(w) \in Requests
      BY <2>2, <3>1, HookTables DEF RecordsInv, Origins, Known, Began
    <3>3. AskedFor(by(w), Posters)
      BY <2>2, <3>1 DEF HooksWritten, WrittenBy
    <3>4. Posters \subseteq Upsetters
      BY DEF Posters, Upsetters, Removers
    <3>5. AskedFor(by(w), Upsetters)'
      BY <1>1, <2>2, <3>2, <3>3, <3>4 DEF AskedFor
    <3>6. QED
      BY <2>2, <3>1, <3>2, <3>5 DEF MayHaveRemoved
  <2>5. QED
    BY <2>3, <2>4
<1>14. QED
  BY <1>4, <1>8, <1>9, <1>12, <1>13 DEF Delivers

LEMMA HooksArrive ==
  ASSUME RecordsInv, HookParts, NEW r, NEW a, NEW q, Starts(r, a, q), HookAsk(r, a, q)
  PROVE  HookParts'
<1>1. /\ r \in Requests /\ db' = db /\ failed' = failed /\ asked'[r] = a /\ todo'[r] = q
      /\ \A s \in Requests \ {r} : asked'[s] = asked[s] /\ todo'[s] = todo[s]
      /\ WillOf(r, todo'[r]) = WillOf(r, q)
      /\ \A s \in Requests \ {r} : WillOf(s, todo'[s]) = Will(s)
  BY Starting
<1>2. HookDuties'
  BY <1>1 DEF HookDuties, HookParts, HookAsk, Will
<1>3. HooksWritten'
  BY WrittenArrives DEF HookParts
<1>4. HooksSwept'
  <2>1. ASSUME NEW s \in Requests \ {r}, NEW w \in SweptBy(asked[s])
        PROVE  s \in failed \/ Purge("domain_webhooks", w) \in Will(s) \/ Replaced(s, w)'
    <3>1. Replaced(s, w) => Replaced(s, w)'
      BY <1>1, WrittenBeforeStays DEF Replaced
    <3>2. QED
      BY <2>1, <3>1 DEF HookParts, HooksSwept
  <2>2. ASSUME NEW w \in SweptBy(a) PROVE Purge("domain_webhooks", w) \in WillOf(r, q)
    BY <2>2 DEF HookAsk
  <2>3. QED
    BY <1>1, <2>1, <2>2 DEF HooksSwept, Will
<1>5. HooksPosted'
  <2>1. ASSUME NEW s \in Requests \ {r}, NEW g \in PostedBy(asked[s])
        PROVE  \/ s \in failed \/ MayHaveRemoved(s, Removers)' \/ HookComing(s, g)'
               \/ HookThere(g)' /\ ~Sweeping(s)'
    <3>1. MayHaveRemoved(s, Removers) => MayHaveRemoved(s, Removers)'
      BY RemoversStay DEF Removers
    <3>2. /\ HookComing(s, g)' <=> HookComing(s, g)
          /\ HookThere(g)' <=> HookThere(g)
          /\ Sweeping(s)' <=> Sweeping(s)
      BY <1>1 DEF HookComing, HookThere, Sweeping, Will
    <3>3. QED
      BY <2>1, <3>1, <3>2 DEF HookParts, HooksPosted
  <2>2. ASSUME NEW g \in PostedBy(a) PROVE HookComing(r, g)'
    BY <1>1, <2>2 DEF HookAsk, HookComing, Will
  <2>3. QED
    BY <1>1, <2>1, <2>2 DEF HooksPosted
<1>6. PostersOrderly'
  BY <1>1 DEF PostersOrderly, HookParts, HookAsk, AskedFor
<1>7. TriggersDeliver'
  <2>1. ASSUME NEW s \in Requests, AskedFor(s, {"TriggerWebhook"})' PROVE Delivers(s)'
    <3>1. CASE s = r
      BY <1>1, <2>1, <3>1, DeliversFirst DEF HookParts, AskedFor
    <3>2. CASE s # r
      BY <1>1, <2>1, <3>2, DeliversBeside DEF HookParts, TriggersDeliver, AskedFor
    <3>3. QED
      BY <3>1, <3>2
  <2>2. QED
    BY <2>1 DEF TriggersDeliver
<1>8. QED
  BY <1>2, <1>3, <1>4, <1>5, <1>6, <1>7 DEF HookParts

----------------------------------------------------------------------------
(* The invariant, and what it says.                                        *)

LEMMA HooksPlanted ==
  ASSUME NEW d \in OnDomain(WebhookSeeds)
  PROVE  /\ \A x \in d["domain_webhooks"] : ~x.dead /\ by(x) = "seed"
         /\ \A x \in d["account_webhooks"] : by(x) = "seed"
         /\ d["webhook_deliveries"] = {}
<1> DEFINE event == CHOOSE e \in EventTypes : TRUE
           url   == CHOOSE u \in Urls : TRUE
           x == DomainWebhook(<<"seed", 1>>, event, url)
           y == AccountWebhook(<<"seed", 1>>, url, {event})
<1>1. ~x.dead /\ by(x) = "seed" /\ by(y) = "seed"
  BY DEF DomainWebhook, AccountWebhook, by
<1>2. \A s \in WebhookSeeds :
        s = NoRows \/ s = [NoRows EXCEPT !["domain_webhooks"] = {x}, !["account_webhooks"] = {y}]
  BY DEF WebhookSeeds
<1> HIDE DEF x, y
<1>3. PICK s \in WebhookSeeds : d = [s EXCEPT !["domains"] = {Domain(<<"seed", 1>>, SendingDomain, TRUE)},
                                              !["dns_records"] = {DNSRecords(<<"seed", 1>>, <<"seed", 1>>, TRUE)}]
  BY DEF OnDomain
<1>4. DOMAIN s = Tables
  BY WebhooksSown DEF Sown
<1>5. \A t \in Tables \ {"domains", "dns_records"} : d[t] = s[t]
  BY <1>3, <1>4
<1>6. DOMAIN NoRows = Tables /\ \A t \in Tables \ {"config"} : NoRows[t] = {}
  BY TheTables DEF NoRows
<1>7. /\ s["domain_webhooks"] \in {{}, {x}} /\ s["account_webhooks"] \in {{}, {y}}
      /\ s["webhook_deliveries"] = {}
  <2>1. CASE s = NoRows
    BY <1>6, <2>1, HookTables
  <2>2. CASE s # NoRows
    BY <1>2, <1>6, <2>2, HookTables
  <2>3. QED
    BY <2>1, <2>2
<1>8. QED
  BY <1>1, <1>5, <1>7, HookTables

LEMMA HooksBegin == Init => HookInv
<1> SUFFICES ASSUME Init, scene \in {"webhooks", "triggers"} PROVE HookParts
  BY DEF HookInv
<1>1. scene \in Components
  BY DEF Init, Scenes
<1>2. PICK d \in Seeds(scene) : DatabaseInit(d)
  BY <1>1 DEF Init
<1>3. d \in OnDomain(WebhookSeeds)
  BY <1>2 DEF Seeds
<1>4. /\ db = d /\ \A r \in Requests : asked[r] = NotAsked /\ todo[r] = << >>
  BY <1>2 DEF DatabaseInit
<1>5. \A r \in Requests : Will(r) = {}
  BY <1>4, NothingLeft
<1>6. HookDuties
  BY <1>5 DEF HookDuties
<1>7. HooksWritten
  <2>1. Copies("account_webhooks") = db["account_webhooks"]
    BY <1>5 DEF Copies, Held
  <2>2. QED
    BY <1>3, <1>4, <2>1, HooksPlanted DEF HooksWritten, WrittenBy
<1>8. NotAsked.kind = "none"
  BY DEF NotAsked, Ask
<1>9. HooksSwept /\ HooksPosted
  BY <1>4, <1>8 DEF HooksSwept, HooksPosted, SweptBy, PostedBy
<1>10. PostersOrderly
  BY <1>4, <1>8, ElementsOfTuples DEF PostersOrderly, AskedFor, Posters
<1>11. TriggersDeliver
  BY <1>4, <1>8 DEF TriggersDeliver, AskedFor
<1>12. QED
  BY <1>6, <1>7, <1>9, <1>10, <1>11 DEF HookParts

LEMMA HooksStep == Settled /\ HookInv /\ [Next]_vars => HookInv'
<1> SUFFICES ASSUME Settled, HookInv, [Next]_vars, scene' \in {"webhooks", "triggers"} PROVE HookParts'
  BY DEF HookInv
<1>1. RecordsInv /\ scene' = scene /\ (Idle \/ \E q \in Requests : Arrive(q) \/ Continue(q))
  BY ServiceSteps DEF Settled, Steady
<1>2. HookParts /\ scene \in {"webhooks", "triggers"}
  BY <1>1 DEF HookInv
<1>3. CASE Idle
  <2>1. db' = db /\ todo' = todo /\ asked' = asked /\ failed' = failed /\ before' = before
    BY <1>3 DEF Idle, dbVars
  <2>2. /\ \A t : Copies(t)' = Copies(t) /\ Live(t)' = Live(t)
        /\ \A r : Will(r)' = Will(r)
        /\ \A r, K : (AskedFor(r, K)' <=> AskedFor(r, K)) /\ (MayHaveRemoved(r, K)' <=> MayHaveRemoved(r, K))
        /\ \A x, r : WrittenBefore(x, r)' <=> WrittenBefore(x, r)
    BY <2>1 DEF Copies, Held, Live, Will, AskedFor, MayHaveRemoved, WrittenBefore, Preceded
  <2>3. HookDuties' /\ HooksWritten'
    BY <1>2, <2>1, <2>2 DEF HookParts, HookDuties, HooksWritten, WrittenBy
  <2>4. HooksSwept' /\ HooksPosted' /\ PostersOrderly'
    BY <1>2, <2>1, <2>2 DEF HookParts, HooksSwept, HooksPosted, PostersOrderly, Replaced, HookComing,
       HookThere, Sweeping
  <2>5. ASSUME NEW r, Delivers(r) PROVE Delivers(r)'
    <3>1. /\ Undelivered(r)' <=> Undelivered(r)
          /\ Uncollected(r)' <=> Uncollected(r)
          /\ Sent(r)' = Sent(r) /\ OnDomainUrls(r)' = OnDomainUrls(r) /\ OnAccount(r)' = OnAccount(r)
      BY <2>1, <2>2 DEF Undelivered, Uncollected, Sent, Due, OnDomainUrls, OnAccount
    <3>2. Targeted(r)' = Targeted(r)
      BY <2>1, <3>1 DEF Targeted
    <3>3. QED
      BY <2>1, <2>2, <2>5, <3>1, <3>2 DEF Delivers
  <2>6. TriggersDeliver'
    BY <1>2, <2>2, <2>5 DEF HookParts, TriggersDeliver
  <2>7. QED
    BY <2>3, <2>4, <2>6 DEF HookParts
<1>4. ASSUME NEW q \in Requests, Arrive(q) PROVE HookParts'
  <2>1. HooksAsked(q)
    BY <1>1, <1>2, <1>4, HooksAskedAll
  <2>2. QED
    BY <1>1, <1>2, <2>1, HooksArrive DEF HooksAsked
<1>5. ASSUME NEW q \in Requests, Continue(q) PROVE HookParts'
  BY <1>1, <1>2, <1>5, HooksContinue
<1>6. QED
  BY <1>1, <1>3, <1>4, <1>5

HookKinds == {"CreateWebhook", "UpdateWebhook", "DeleteWebhook", "V4CreateWebhook", "V4UpdateWebhook",
              "TriggerWebhook"}

LEMMA HookScenes ==
  ASSUME Scoped, NEW r \in Requests, asked[r] # NotAsked, AskedFor(r, HookKinds)
  PROVE  scene \in {"webhooks", "triggers"}
<1>1. scene \in DOMAIN Duties /\ asked[r].kind \in KindsOf(scene)
  BY ServiceAssumption, ResetTablesOf DEF Scoped
<1>2. ASSUME NEW c \in DOMAIN Duties, c \notin {"webhooks", "triggers"} PROVE KindsOf(c) \cap HookKinds = {}
  <2>1. c \in {"templates", "domains", "ips", "subaccounts", "keys", "tags", "routes"}
    BY <1>2 DEF Duties
  <2>2. QED
    BY <2>1 DEF KindsOf, Duties, HookKinds
<1>3. QED
  BY <1>1, <1>2 DEF AskedFor

LEMMA WrittenImplied ==
  ASSUME Settled, HookInv
  PROVE  WebhooksAsLastWritten
<1> SUFFICES ASSUME NEW r \in Requests, Answered(r), r \notin failed, AskedFor(r, HookKinds)
             PROVE  /\ AskedFor(r, {"UpdateWebhook", "DeleteWebhook"}) =>
                         \A w \in Select("domain_webhooks", [event |-> asked[r].on]) : ~WrittenBefore(w, r)
                    /\ AskedFor(r, {"V4UpdateWebhook"}) =>
                         \A w \in Select("domain_webhooks", [url |-> asked[r].on]) : ~WrittenBefore(w, r)
                    /\ AskedFor(r, {"CreateWebhook", "UpdateWebhook"}) =>
                         ToSet(asked[r].urls) \subseteq URLs(asked[r].on) \/ MayHaveRemoved(r, Removers)
                    /\ AskedFor(r, {"V4CreateWebhook", "V4UpdateWebhook"}) =>
                         \/ \A event \in ToSet(asked[r].urls) : asked[r].on \in URLs(event)
                         \/ MayHaveRemoved(r, Removers)
  BY DEF WebhooksAsLastWritten, AskedFor, HookKinds
<1>1. HookParts
  BY HookScenes DEF Settled, HookInv, Answered
<1>2. Will(r) = {}
  BY NothingLeft DEF Answered
<1>3. ASSUME NEW w \in SweptBy(asked[r]) PROVE \A x \in Select("domain_webhooks", w) : ~WrittenBefore(x, r)
  BY <1>1, <1>2, <1>3 DEF HookParts, HooksSwept, Replaced, Select, Live
<1>4. ASSUME NEW e, NEW u, <<e, u>> \in PostedBy(asked[r]) PROVE u \in URLs(e) \/ MayHaveRemoved(r, Removers)
  <2>1. MayHaveRemoved(r, Removers) \/ HookThere(<<e, u>>)
    BY <1>1, <1>2, <1>4 DEF HookParts, HooksPosted, HookComing
  <2>2. ASSUME NEW x \in db["domain_webhooks"], IsHook(x, <<e, u>>) PROVE u \in URLs(e)
    <3>1. x.event = e /\ x.url = u
      BY <2>2 DEF IsHook
    <3>2. x \in Live("domain_webhooks")
      BY <1>1, <2>2 DEF HookParts, HooksWritten, Live
    <3>3. QED
      BY <3>1, <3>2, URLsAre
  <2>3. QED
    BY <2>1, <2>2 DEF HookThere
<1>5. ASSUME AskedFor(r, {"UpdateWebhook", "DeleteWebhook"}) PROVE [event |-> asked[r].on] \in SweptBy(asked[r])
  BY <1>5 DEF AskedFor, SweptBy
<1>6. ASSUME AskedFor(r, {"V4UpdateWebhook"}) PROVE [url |-> asked[r].on] \in SweptBy(asked[r])
  BY <1>6 DEF AskedFor, SweptBy
<1>7. ASSUME AskedFor(r, {"CreateWebhook", "UpdateWebhook"}), NEW u \in ToSet(asked[r].urls)
      PROVE  <<asked[r].on, u>> \in PostedBy(asked[r])
  BY <1>7 DEF AskedFor, PostedBy
<1>8. ASSUME AskedFor(r, {"V4CreateWebhook", "V4UpdateWebhook"}), NEW e \in ToSet(asked[r].urls)
      PROVE  <<e, asked[r].on>> \in PostedBy(asked[r])
  BY <1>8 DEF AskedFor, PostedBy
<1>9. QED
  BY <1>3, <1>4, <1>5, <1>6, <1>7, <1>8

LEMMA DeliveredImplied ==
  ASSUME Settled, HookInv
  PROVE  DeliveredAsRegistered
<1> SUFFICES ASSUME NEW r \in Requests, AskedFor(r, {"TriggerWebhook"}), Answered(r)
             PROVE  LET to(url) == {d \in db["webhook_deliveries"] : d.trigger = r /\ d.url = url}
                        onDomain  == {w.url : w \in {w \in Select("domain_webhooks", [event |-> asked[r].on]) :
                                                       WrittenBefore(w, r)}}
                        onAccount == {a.url : a \in {a \in Live("account_webhooks") :
                                                       asked[r].on \in a.events /\ WrittenBefore(a, r)}}
                    IN /\ \A url \in Urls : Cardinality(to(url)) <= 1
                       /\ ~(\E s \in Requests \ {r} : ~Preceded(s, r) /\ AskedFor(s, Alterers)) =>
                            \A url \in onDomain \cup onAccount : to(url) # {}
                       /\ ~(\E s \in Requests \ {r} : ~Preceded(s, r) /\ AskedFor(s, Upsetters)) =>
                            \A url \in Urls : to(url) # {} => url \in onDomain \cup onAccount
  BY DEF DeliveredAsRegistered, Upsetters, Alterers
<1> DEFINE to(url) == {d \in db["webhook_deliveries"] : d.trigger = r /\ d.url = url}
<1>1. Delivers(r)
  <2>1. AskedFor(r, HookKinds)
    BY DEF AskedFor, HookKinds
  <2>2. HookParts
    BY <2>1, HookScenes DEF Settled, HookInv, Answered
  <2>3. QED
    BY <2>2 DEF HookParts, TriggersDeliver
<1>2. todo[r] = << >> /\ Will(r) = {}
  BY NothingLeft DEF Answered
<1>3. ~Undelivered(r) /\ ~Uncollected(r)
  BY <1>2 DEF Undelivered, Uncollected
<1>4. Due(r) = {}
  BY <1>2 DEF Due
<1>5. Sent(r) = {d \in db["webhook_deliveries"] : d.trigger = r}
  BY <1>4 DEF Sent
<1>6. \A url : to(url) = {d \in Sent(r) : d.url = url}
  BY <1>5
<1>7. Targeted(r) = {d.url : d \in Sent(r)}
  BY <1>3 DEF Targeted
<1>8. \A url : url \in Targeted(r) <=> to(url) # {}
  BY <1>6, <1>7
<1>9. Select("domain_webhooks", [event |-> asked[r].on]) =
        {w \in Live("domain_webhooks") : w.event = asked[r].on}
  BY FitsHook DEF Select
<1>10. {w.url : w \in {w \in Select("domain_webhooks", [event |-> asked[r].on]) : WrittenBefore(w, r)}} = OnDomainUrls(r)
  BY <1>9 DEF OnDomainUrls
<1>11. {a.url : a \in {a \in Live("account_webhooks") : asked[r].on \in a.events /\ WrittenBefore(a, r)}} = OnAccount(r)
  BY DEF OnAccount
<1>12. \A K : MayHaveRemoved(r, K) <=> \E s \in Requests \ {r} : ~Preceded(s, r) /\ AskedFor(s, K)
  BY DEF MayHaveRemoved
<1>13. ASSUME NEW url PROVE Cardinality(to(url)) <= 1
  <2>1. \A d, e \in to(url) : d = e
    BY <1>1, <1>6 DEF Delivers
  <2> HIDE DEF to
  <2>2. CASE to(url) = {}
    BY <2>2, FS_EmptySet
  <2>3. ASSUME NEW d \in to(url) PROVE Cardinality(to(url)) <= 1
    <3>1. to(url) = {d}
      BY <2>1, <2>3
    <3>2. Cardinality({d}) = 1
      BY FS_Singleton
    <3>3. QED
      BY <3>1, <3>2
  <2>4. QED
    BY <2>2, <2>3
<1>14. MayHaveRemoved(r, Alterers) \/ \A url \in OnDomainUrls(r) \cup OnAccount(r) : to(url) # {}
  BY <1>1, <1>3, <1>8 DEF Delivers
<1>15. MayHaveRemoved(r, Upsetters) \/ \A url : to(url) # {} => url \in OnDomainUrls(r) \cup OnAccount(r)
  BY <1>1, <1>8 DEF Delivers
<1> HIDE DEF to
<1>16. QED
  BY <1>10, <1>11, <1>12, <1>13, <1>14, <1>15 DEF to

\* An answered update or delete of webhooks leaves none of those it replaces, and what
\* was registered stays registered until somebody removes it, however the statements of
\* any number of requests interleave (handlers.go:220, :345).
THEOREM WebhooksStay == Spec => []WebhooksAsLastWritten
<1>1. Settled /\ HookInv => WebhooksAsLastWritten
  BY WrittenImplied
<1>2. QED
  BY <1>1, SettledBegins, SettledSteps, HooksBegin, HooksStep, PTL DEF Spec

\* A trigger delivers once to each URL that was registered throughout, and to no other,
\* though it reads the domain's webhooks and the account's at two moments.
THEOREM TriggersReach == Spec => []DeliveredAsRegistered
<1>1. Settled /\ HookInv => DeliveredAsRegistered
  BY DeliveredImplied
<1>2. QED
  BY <1>1, SettledBegins, SettledSteps, HooksBegin, HooksStep, PTL DEF Spec
=============================================================================
