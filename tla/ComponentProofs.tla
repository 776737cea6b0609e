-------------------------- MODULE ComponentProofs --------------------------
(***************************************************************************)
(* What the components over the database promise, for any number of their  *)
(* requests: each property is of one component, and in the scenes of the   *)
(* others it is about tables that are empty or kinds nobody asks for.      *)
(***************************************************************************)
EXTENDS RecordsProofs

----------------------------------------------------------------------------
(* What the handlers of a component are asked and which tables they write. *)

Touches(r, s, T)  == \A p \in Leads(r, s) : p.table \in T
Confined(r, q, T) == \A p \in WillOf(r, q) : p.table \in T
Modest(a)         == a.saves = {} => a.sets = All
Within(r, K, T)   == \E a, q : Begin(r, a, q) /\ a.kind \in K /\ Modest(a) /\ Confined(r, q, T)

OneTable(s, t) == s.do \in Simple /\ s.table = t

LEMMA StatementTables ==
  /\ \A t, row : OneTable(Insert(t, row), t) /\ OneTable(TryInsert(t, row), t)
  /\ \A t, row : OneTable(Save(t, row), t) /\ OneTable(SaveOrFail(t, row), t)
  /\ \A t, w, set : OneTable(Update(t, w, set), t)
  /\ \A t, w : OneTable(SoftDelete(t, w), t) /\ OneTable(Purge(t, w), t)
BY DEF OneTable, Simple, Insert, TryInsert, Save, SaveOrFail, Update, SoftDelete, Purge

LEMMA AskKinds ==
  /\ \A kind, on : Ask(kind, on).kind = kind /\ Ask(kind, on).on = on
  /\ \A kind, on, t, x, set : AskSave(kind, on, t, x, set).kind = kind /\ AskSave(kind, on, t, x, set).on = on
  /\ \A kind, on, t, S : AskDelete(kind, on, t, S).kind = kind /\ AskDelete(kind, on, t, S).on = on
BY DEF AskSave, AskDelete, Ask

LEMMA TouchesOne ==
  ASSUME NEW r, NEW s, NEW T, NEW t \in T, OneTable(s, t)
  PROVE  Touches(r, s, T)
BY LeadsOfSimple, PrimOf DEF Touches, OneTable

LEMMA ConfinedNone == ASSUME NEW r, NEW T PROVE Confined(r, << >>, T)
BY NoStatement DEF Confined

LEMMA ConfinedOne ==
  ASSUME NEW r, NEW s, NEW T, Touches(r, s, T)
  PROVE  Confined(r, <<s>>, T)
<1>1. Elements(<<s>>) = {s}
  BY ElementsOfTuples
<1>2. QED
  BY <1>1 DEF Confined, WillOf, Touches

LEMMA ConfinedTwo ==
  ASSUME NEW r, NEW s, NEW u, NEW T, Touches(r, s, T), Touches(r, u, T)
  PROVE  Confined(r, <<s, u>>, T)
<1>1. Elements(<<s, u>>) = {s, u}
  BY ElementsOfTuples
<1>2. QED
  BY <1>1 DEF Confined, WillOf, Touches

LEMMA ConfinedJoin ==
  ASSUME NEW r, NEW p, NEW q, NEW T, IsSequence(p), IsSequence(q), Confined(r, p, T), Confined(r, q, T)
  PROVE  Confined(r, p \o q, T)
<1>1. Elements(p \o q) = Elements(p) \cup Elements(q)
  BY ConcatOf
<1>2. QED
  BY <1>1 DEF Confined, WillOf

LEMMA ConfinedList ==
  ASSUME NEW r, NEW f, NEW n, NEW T, IsList(f, n), \A i \in 1..n : Touches(r, f[i], T)
  PROVE  Confined(r, f, T) /\ IsSequence(f)
<1>1. IsSequence(f) /\ DOMAIN f = 1..n
  BY Listed DEF IsList
<1>2. QED
  BY <1>1 DEF Confined, WillOf, Elements, Touches

Asking(r, K, q) == \E a : Begin(r, a, q) /\ a.kind \in K /\ Modest(a)

LEMMA ModestAsks ==
  /\ \A kind, on : Modest(Ask(kind, on))
  /\ \A kind, on, t, x, set : Modest(AskSave(kind, on, t, x, set))
  /\ \A kind, on, t, S : Modest(AskDelete(kind, on, t, S))
<1>1. ASSUME NEW kind, NEW on PROVE Ask(kind, on).sets = All /\ Ask(kind, on).saves = {}
  BY DEF Ask
<1>2. ASSUME NEW kind, NEW on, NEW t, NEW x, NEW set PROVE AskSave(kind, on, t, x, set).saves # {}
  <2>1. AskSave(kind, on, t, x, set).saves = {<<t, x.id>>}
    BY DEF AskSave, Ask
  <2>2. QED
    BY <2>1
<1>3. ASSUME NEW kind, NEW on, NEW t, NEW S PROVE AskDelete(kind, on, t, S).sets = All
  BY DEF AskDelete, Ask
<1>4. QED
  BY <1>1, <1>2, <1>3 DEF Modest

LEMMA AskingIs ==
  ASSUME NEW r, NEW K, NEW q, NEW kind \in K, NEW on
  PROVE  /\ Begin(r, Ask(kind, on), q) => Asking(r, K, q)
         /\ \A t, x, set : Begin(r, AskSave(kind, on, t, x, set), q) => Asking(r, K, q)
         /\ \A t, S : Begin(r, AskDelete(kind, on, t, S), q) => Asking(r, K, q)
BY AskKinds, ModestAsks DEF Asking

LEMMA WithinProgram ==
  ASSUME NEW r, NEW K, NEW T, NEW q, Asking(r, K, q), Confined(r, q, T)
  PROVE  Within(r, K, T)
BY DEF Within, Asking

LEMMA WithinSimple ==
  ASSUME NEW r, NEW K, NEW T, NEW t \in T, NEW s, Asking(r, K, <<s>>), OneTable(s, t)
  PROVE  Within(r, K, T)
BY TouchesOne, ConfinedOne, WithinProgram

LEMMA WithinMore ==
  ASSUME NEW r, NEW K, NEW T, NEW U, Within(r, K, T), T \subseteq U
  PROVE  Within(r, K, U)
BY DEF Within, Confined

\* A test and a transaction lead to what their parts lead to.
LEMMA TouchesTest ==
  ASSUME NEW r, NEW t, NEW w, NEW yes, NEW no, NEW T, Confined(r, yes, T), Confined(r, no, T),
         Brief(yes), Brief(no)
  PROVE  Touches(r, IfAny(t, w, yes, no), T)
<1> DEFINE s == IfAny(t, w, yes, no)
<1>1. s.do = "test" /\ s.yes = yes /\ s.no = no
  BY DEF IfAny
<1> HIDE DEF s
<1>2. \A e \in Elements(yes) \cup Elements(no) : Leads(r, e) = Prims(r, e)
  BY DEF Leads, Branches, Brief, Simple
<1>3. Leads(r, s) = UNION {Prims(r, b) : b \in Elements(yes) \cup Elements(no)}
  BY <1>1 DEF Leads, Branches
<1>4. QED
  BY <1>2, <1>3 DEF Touches, Confined, WillOf, s

LEMMA TouchesBoth ==
  ASSUME NEW r, NEW a, NEW b, NEW t, NEW u, NEW T, t \in T, u \in T, OneTable(a, t), OneTable(b, u)
  PROVE  Touches(r, Transaction(a, b), T) /\ Brief(<<Transaction(a, b)>>)
<1> DEFINE s == Transaction(a, b)
<1>1. s.do = "commit" /\ s.parts[1] = a /\ s.parts[2] = b
  BY DEF Transaction
<1> HIDE DEF s
<1>2. Leads(r, s) = {Prim(a), Prim(b)}
  BY <1>1, LeadsOfSimple
<1>3. Prim(a).table = t /\ Prim(b).table = u
  BY PrimOf DEF OneTable
<1>4. Elements(<<s>>) = {s}
  BY ElementsOfTuples
<1>5. QED
  BY <1>1, <1>2, <1>3, <1>4 DEF Touches, Brief, s

----------------------------------------------------------------------------
(* Each component's endpoints, and the tables they write.                  *)

Duties ==
  [templates   |-> [kinds  |-> {"CreateTemplate", "UpdateTemplate", "DeleteTemplate", "CreateVersion",
                                "UpdateVersion", "DeleteVersion", "CopyVersion"},
                    tables |-> {"templates", "template_versions"}],
   webhooks    |-> [kinds  |-> {"CreateWebhook", "UpdateWebhook", "DeleteWebhook", "V4CreateWebhook",
                                "V4UpdateWebhook", "V4DeleteWebhook", "CreateAccountWebhook",
                                "UpdateAccountWebhook", "DeleteAccountWebhook",
                                "BulkDeleteAccountWebhooks", "RegenerateSigningKey", "TriggerWebhook"},
                    tables |-> {"domain_webhooks", "account_webhooks"}],
   triggers    |-> [kinds  |-> {"UpdateAccountWebhook", "RegenerateSigningKey", "TriggerWebhook"},
                    tables |-> {"account_webhooks"}],
   domains     |-> [kinds  |-> {"CreateDomain", "DeleteDomain", "VerifyDomain", "UpdateDomain",
                                "UpdateConnection", "UpdateDKIM", "UpdateTracking", "CreateCredential",
                                "UpdateCredential", "DeleteCredential", "DeleteAllCredentials",
                                "ResetDomain"},
                    tables |-> {"domains", "dns_records", "smtp_credentials"}],
   ips         |-> [kinds  |-> {"AssignDomainIP", "UnassignDomainIP", "CreatePool", "UpdatePool",
                                "DeletePool"},
                    tables |-> {"ips", "ip_pools", "ip_pool_ips", "domain_ips", "domain_pools"}],
   subaccounts |-> [kinds  |-> {"CreateSubaccount", "DeleteSubaccount", "UpdateFeatures",
                                "DisableSubaccount", "EnableSubaccount", "SetSendingLimit",
                                "RemoveSendingLimit"},
                    tables |-> {"subaccounts", "sending_limits"}],
   keys        |-> [kinds  |-> {"CreateKey", "DeleteKey", "RegenerateKey", "CreateManagedKey",
                                "DeleteManagedKey", "AddEntry", "UpdateEntry", "DeleteEntry"},
                    tables |-> {"api_keys", "managed_api_keys", "ip_allowlist_entries"}],
   tags        |-> [kinds  |-> {"EnsureTags", "UpdateTag", "V1UpdateTag", "DeleteTag", "V1DeleteTag"},
                    tables |-> {"tags"}],
   routes      |-> [kinds  |-> {"CreateRoute", "UpdateRoute", "DeleteRoute"},
                    tables |-> {"routes"}]]

KindsOf(c)  == Duties[c].kinds \cup {"ResetAll", "UpdateConfig"}
OwnOf(c)    == Duties[c].tables
TablesOf(c) == OwnOf(c) \cup {"config", "webhook_deliveries"}

\* What r is asked is of the component, and what it will do is to the component's own tables;
\* the configuration and the deliveries are written by few.
Tends(r, c)  == Within(r, KindsOf(c), OwnOf(c))
Serves(r, c) == Within(r, KindsOf(c), TablesOf(c))

LEMMA SubaccountsServe ==
  ASSUME NEW r, SubaccountHandlers(r)
  PROVE  Tends(r, "subaccounts")
<1> DEFINE K == KindsOf("subaccounts")
           T == OwnOf("subaccounts")
<1>0. /\ "subaccounts" \in T /\ "sending_limits" \in T
      /\ \A k \in {"CreateSubaccount", "DeleteSubaccount", "UpdateFeatures", "DisableSubaccount",
                   "EnableSubaccount", "SetSendingLimit", "RemoveSendingLimit"} : k \in K
  BY DEF KindsOf, OwnOf, Duties
<1> HIDE DEF K, T
<1>1. CASE CreateSubaccount(r)
  <2>0. Begin(r, Ask("CreateSubaccount", r), <<Insert("subaccounts", Subaccount(<<r, 1>>))>>)
    BY <1>1 DEF CreateSubaccount
  <2>1. Asking(r, K, <<Insert("subaccounts", Subaccount(<<r, 1>>))>>)
    BY <1>0, <2>0, AskingIs
  <2>2. QED
    BY <1>0, <2>1, StatementTables, WithinSimple DEF Tends, K, T
<1>2. CASE DeleteSubaccount(r)
  <2>1. PICK x : Begin(r, AskDelete("DeleteSubaccount", by(x), "subaccounts", {x}),
                       <<Purge("subaccounts", [id |-> x.id])>>)
    BY <1>2 DEF DeleteSubaccount
  <2>2. Asking(r, K, <<Purge("subaccounts", [id |-> x.id])>>)
    BY <1>0, <2>1, AskingIs
  <2>3. QED
    BY <1>0, <2>2, StatementTables, WithinSimple DEF Tends, K, T
<1>3. CASE UpdateFeatures(r) \/ DisableSubaccount(r) \/ EnableSubaccount(r)
  <2>0. PICK kind, x, set : kind \in K /\
          Begin(r, AskSave(kind, by(x), "subaccounts", x, set), <<Save("subaccounts", With(x, set))>>)
    BY <1>0, <1>3 DEF UpdateFeatures, DisableSubaccount, EnableSubaccount, SaveSubaccount
  <2>1. Asking(r, K, <<Save("subaccounts", With(x, set))>>)
    BY <1>0, <2>0, AskingIs
  <2>2. QED
    BY <1>0, <2>1, StatementTables, WithinSimple DEF Tends, K, T
<1>4. CASE RemoveSendingLimit(r)
  <2>1. PICK x : Begin(r, AskDelete("RemoveSendingLimit", x.subaccount[1], "sending_limits", {x}),
                       <<Purge("sending_limits", [id |-> x.id])>>)
    BY <1>4 DEF RemoveSendingLimit
  <2>2. Asking(r, K, <<Purge("sending_limits", [id |-> x.id])>>)
    BY <1>0, <2>1, AskingIs
  <2>3. QED
    BY <1>0, <2>2, StatementTables, WithinSimple DEF Tends, K, T
<1>5. CASE SetSendingLimit(r)
  <2>1. PICK x, l :
          \/ Begin(r, AskSave("SetSendingLimit", by(x), "sending_limits", l, [limit |-> r]),
                   <<Save("sending_limits", [l EXCEPT !.limit = r])>>)
          \/ Begin(r, Ask("SetSendingLimit", by(x)),
                   <<TryInsert("sending_limits", SendingLimit(<<r, 1>>, x.id, r))>>)
    BY <1>5 DEF SetSendingLimit
  <2>2. \/ Asking(r, K, <<Save("sending_limits", [l EXCEPT !.limit = r])>>)
        \/ Asking(r, K, <<TryInsert("sending_limits", SendingLimit(<<r, 1>>, x.id, r))>>)
    BY <1>0, <2>1, AskingIs
  <2>3. QED
    BY <1>0, <2>2, StatementTables, WithinSimple DEF Tends, K, T
<1>6. QED
  BY <1>1, <1>2, <1>3, <1>4, <1>5 DEF SubaccountHandlers

LEMMA TemplatesServe ==
  ASSUME RecordsInv, NEW r, TemplateHandlers(r)
  PROVE  Tends(r, "templates")
<1> DEFINE K == KindsOf("templates")
           T == OwnOf("templates")
<1>0. /\ "templates" \in T /\ "template_versions" \in T
      /\ \A k \in {"CreateTemplate", "UpdateTemplate", "DeleteTemplate", "CreateVersion",
                   "UpdateVersion", "DeleteVersion", "CopyVersion"} : k \in K
  BY DEF KindsOf, OwnOf, Duties
<1> HIDE DEF K, T
<1>1. ASSUME NEW row, NEW w, NEW set
      PROVE  /\ Touches(r, Insert("templates", row), T) /\ Touches(r, Save("templates", row), T)
             /\ Touches(r, SoftDelete("templates", w), T)
             /\ Touches(r, Insert("template_versions", row), T)
             /\ Touches(r, Save("template_versions", row), T)
             /\ Touches(r, SoftDelete("template_versions", w), T)
             /\ Touches(r, Update("template_versions", w, set), T)
  BY <1>0, StatementTables, TouchesOne
<1>2. CASE CreateTemplate(r)
  <2>1. PICK name, tag :
          Begin(r, Ask("CreateTemplate", name),
            <<Insert("templates", Template(<<r, 1>>, name))>> \o
            (IF tag = "none" THEN << >>
             ELSE <<Insert("template_versions", Version(<<r, 2>>, <<r, 1>>, tag, TRUE))>>))
    BY <1>2 DEF CreateTemplate
  <2> DEFINE p == <<Insert("templates", Template(<<r, 1>>, name))>>
             u == Insert("template_versions", Version(<<r, 2>>, <<r, 1>>, tag, TRUE))
             q == IF tag = "none" THEN << >> ELSE <<u>>
  <2>2. Touches(r, u, T) /\ Confined(r, p, T) /\ IsSequence(p)
    BY <1>1, ConfinedOne, ElementsOfTuples
  <2>3. Asking(r, K, p \o q)
    BY <1>0, <2>1, AskingIs
  <2> HIDE DEF p, u
  <2>4. Confined(r, q, T) /\ IsSequence(q)
    BY <2>2, ConfinedNone, ConfinedOne, ElementsOfTuples
  <2> HIDE DEF q
  <2>5. QED
    BY <2>2, <2>3, <2>4, ConfinedJoin, WithinProgram DEF Tends, K, T
<1>3. CASE UpdateTemplate(r)
  <2>1. PICK name, t : Begin(r, AskSave("UpdateTemplate", name, "templates", t, All), <<Save("templates", t)>>)
    BY <1>3 DEF UpdateTemplate
  <2>2. Asking(r, K, <<Save("templates", t)>>)
    BY <1>0, <2>1, AskingIs
  <2>3. QED
    BY <1>1, <2>2, ConfinedOne, WithinProgram DEF Tends, K, T
<1>4. CASE DeleteTemplate(r)
  <2>1. PICK name, t : Begin(r, AskDelete("DeleteTemplate", name, "templates", {t}),
                             <<SoftDelete("template_versions", [template |-> t.id]),
                               SoftDelete("templates", [id |-> t.id])>>)
    BY <1>4 DEF DeleteTemplate
  <2>2. Asking(r, K, <<SoftDelete("template_versions", [template |-> t.id]),
                       SoftDelete("templates", [id |-> t.id])>>)
    BY <1>0, <2>1, AskingIs
  <2>3. QED
    BY <1>1, <2>2, ConfinedTwo, WithinProgram DEF Tends, K, T
<1>5. CASE DeleteAllTemplates(r)
  <2> DEFINE S == Select("templates", All)
  <2>1. PICK order \in SetToSeqs(S) :
          Begin(r, AskDelete("DeleteTemplate", "all", "templates", Live("templates")),
                [i \in DOMAIN order |-> SoftDelete("template_versions", [template |-> order[i].id])]
                \o <<SoftDelete("templates", All)>>)
    BY <1>5 DEF DeleteAllTemplates, ForEach
  <2> DEFINE n == Cardinality(S)
             f == [i \in 1..n |-> SoftDelete("template_versions", [template |-> order[i].id])]
             q == <<SoftDelete("templates", All)>>
  <2>2. IsFiniteSet(S)
    <3>1. IsFiniteSet(db["templates"]) /\ S \subseteq db["templates"]
      BY TemplateColumns DEF RecordsInv, Shapes, Select, Live
    <3>2. QED
      BY <3>1, FS_Subset
  <2>3. n \in Nat /\ DOMAIN order = 1..n
    BY <2>2, OneByOne
  <2>4. Asking(r, K, f \o q)
    BY <1>0, <2>1, <2>3, AskingIs
  <2>5. IsList(f, n) /\ \A i \in 1..n : Touches(r, f[i], T)
    BY <1>1, <2>3 DEF IsList
  <2>6. Confined(r, q, T) /\ IsSequence(q)
    BY <1>1, ConfinedOne, ElementsOfTuples
  <2> HIDE DEF f, q, n
  <2>7. Confined(r, f, T) /\ IsSequence(f)
    BY <2>5, ConfinedList
  <2>8. QED
    BY <2>4, <2>6, <2>7, ConfinedJoin, WithinProgram DEF Tends, K, T
<1>6. CASE CreateVersion(r)
  <2>1. PICK name, tag, active, t :
          LET add(a) == Insert("template_versions", Version(<<r, 1>>, t.id, tag, a)) IN
          Begin(r, Ask("CreateVersion", name),
             <<IfAny("template_versions", [template |-> t.id],
                     IF active THEN <<deactivateAll(t), add(TRUE)>> ELSE <<add(FALSE)>>,
                     <<deactivateAll(t), add(TRUE)>>)>>)
    BY <1>6 DEF CreateVersion
  <2> DEFINE on == Insert("template_versions", Version(<<r, 1>>, t.id, tag, TRUE))
             off == Insert("template_versions", Version(<<r, 1>>, t.id, tag, FALSE))
             d == deactivateAll(t)
             w == [template |-> t.id]
             no == <<d, on>>
             yes == IF active THEN no ELSE <<off>>
             s == IfAny("template_versions", w, yes, no)
  <2>2. Touches(r, on, T) /\ Touches(r, off, T) /\ Touches(r, d, T)
    BY <1>1 DEF deactivateAll
  <2>3. Asking(r, K, <<s>>)
    BY <1>0, <2>1, AskingIs
  <2>4. on.do \in Simple /\ off.do \in Simple /\ d.do \in Simple
    BY StatementTables DEF OneTable, deactivateAll
  <2> HIDE DEF on, off, d, w
  <2>5. Confined(r, no, T) /\ Confined(r, <<off>>, T)
    BY <2>2, ConfinedTwo, ConfinedOne
  <2>6. Brief(no) /\ Brief(<<off>>)
    <3>1. Elements(no) = {d, on} /\ Elements(<<off>>) = {off}
      BY ElementsOfTuples
    <3>2. QED
      BY <2>4, <3>1 DEF Brief
  <2>7. Confined(r, yes, T) /\ Brief(yes)
    BY <2>5, <2>6
  <2> HIDE DEF yes, no
  <2>8. Touches(r, s, T)
    BY <2>5, <2>6, <2>7, TouchesTest
  <2> HIDE DEF s
  <2>9. QED
    BY <2>3, <2>8, ConfinedOne, WithinProgram DEF Tends, K, T
<1>7. CASE UpdateVersion(r)
  <2>1. PICK name, active, t, v :
          Begin(r, AskSave("UpdateVersion", name, "template_versions", v, All),
            IF active THEN <<deactivateAll(t), Save("template_versions", [v EXCEPT !.active = TRUE])>>
                      ELSE <<Save("template_versions", v)>>)
    BY <1>7 DEF UpdateVersion
  <2>2. \/ Asking(r, K, <<deactivateAll(t), Save("template_versions", [v EXCEPT !.active = TRUE])>>)
        \/ Asking(r, K, <<Save("template_versions", v)>>)
    BY <1>0, <2>1, AskingIs
  <2>3. /\ Confined(r, <<deactivateAll(t), Save("template_versions", [v EXCEPT !.active = TRUE])>>, T)
        /\ Confined(r, <<Save("template_versions", v)>>, T)
    BY <1>1, ConfinedTwo, ConfinedOne DEF deactivateAll
  <2>4. QED
    BY <2>2, <2>3, WithinProgram DEF Tends, K, T
<1>8. CASE DeleteVersion(r)
  <2>1. PICK name, v : Begin(r, AskDelete("DeleteVersion", name, "template_versions", {v}),
                             <<SoftDelete("template_versions", [id |-> v.id])>>)
    BY <1>8 DEF DeleteVersion
  <2>2. Asking(r, K, <<SoftDelete("template_versions", [id |-> v.id])>>)
    BY <1>0, <2>1, AskingIs
  <2>3. QED
    BY <1>1, <2>2, ConfinedOne, WithinProgram DEF Tends, K, T
<1>9. CASE CopyVersion(r)
  <2>1. PICK name, newTag, t, x :
          \/ Begin(r, AskSave("CopyVersion", name, "template_versions", x, All),
                   <<Save("template_versions", [x EXCEPT !.active = FALSE])>>)
          \/ Begin(r, Ask("CopyVersion", name),
                   <<Insert("template_versions", Version(<<r, 1>>, t.id, newTag, FALSE))>>)
    BY <1>9 DEF CopyVersion
  <2>2. \/ Asking(r, K, <<Save("template_versions", [x EXCEPT !.active = FALSE])>>)
        \/ Asking(r, K, <<Insert("template_versions", Version(<<r, 1>>, t.id, newTag, FALSE))>>)
    BY <1>0, <2>1, AskingIs
  <2>3. QED
    BY <1>1, <2>2, ConfinedOne, WithinProgram DEF Tends, K, T
<1>10. QED
  BY <1>2, <1>3, <1>4, <1>5, <1>6, <1>7, <1>8, <1>9 DEF TemplateHandlers

\* The lists of a form.
LEMMA AskingUrls ==
  ASSUME NEW r, NEW K, NEW q, NEW kind \in K, NEW on, NEW urls, Begin(r, With(Ask(kind, on), [urls |-> urls]), q)
  PROVE  Asking(r, K, q)
<1> DEFINE a == With(Ask(kind, on), [urls |-> urls])
           none == DOMAIN [urls |-> urls]
<1>1. Ask(kind, on).kind = kind /\ "kind" \in DOMAIN Ask(kind, on) \ none
      /\ Ask(kind, on).sets = All /\ "sets" \in DOMAIN Ask(kind, on) \ none
  BY DEF Ask
<1> HIDE DEF none
<1>2. a.kind = kind /\ a.sets = All
  BY <1>1, WithColumn DEF none
<1> HIDE DEF a
<1>3. QED
  BY <1>2 DEF Asking, Modest, a

LEMMA ConfinedUrls ==
  ASSUME NEW r, NEW T, "domain_webhooks" \in T, NEW n \in Nat, NEW event, NEW url
  PROVE  LET f == [i \in 1..n |-> Insert("domain_webhooks", DomainWebhook(<<r, i>>, event[i], url[i]))]
             g == [i \in 1..n |-> TryInsert("domain_webhooks", DomainWebhook(<<r, i>>, event[i], url[i]))]
         IN /\ Confined(r, f, T) /\ IsSequence(f) /\ Confined(r, g, T) /\ IsSequence(g)
<1> DEFINE f == [i \in 1..n |-> Insert("domain_webhooks", DomainWebhook(<<r, i>>, event[i], url[i]))]
           g == [i \in 1..n |-> TryInsert("domain_webhooks", DomainWebhook(<<r, i>>, event[i], url[i]))]
<1>1. IsList(f, n) /\ \A i \in 1..n : Touches(r, f[i], T)
  BY StatementTables, TouchesOne DEF IsList
<1>2. IsList(g, n) /\ \A i \in 1..n : Touches(r, g[i], T)
  BY StatementTables, TouchesOne DEF IsList
<1> HIDE DEF f, g
<1>3. QED
  BY <1>1, <1>2, ConfinedList DEF f, g

LEMMA PurgeThenUrls ==
  ASSUME NEW r, NEW T, "domain_webhooks" \in T, NEW w, NEW f, Confined(r, f, T), IsSequence(f)
  PROVE  Confined(r, <<Purge("domain_webhooks", w)>> \o f, T)
<1>1. Confined(r, <<Purge("domain_webhooks", w)>>, T) /\ IsSequence(<<Purge("domain_webhooks", w)>>)
  BY StatementTables, TouchesOne, ConfinedOne, ElementsOfTuples
<1>2. QED
  BY <1>1, ConfinedJoin

LEMMA DomainWebhooksServe ==
  ASSUME NEW r,
         CreateWebhook(r) \/ UpdateWebhook(r) \/ DeleteWebhook(r)
         \/ V4CreateWebhook(r) \/ V4UpdateWebhook(r) \/ V4DeleteWebhook(r)
  PROVE  Within(r, KindsOf("webhooks"), {"domain_webhooks"})
<1> DEFINE K == KindsOf("webhooks")
           T == {"domain_webhooks"}
<1>0. /\ "domain_webhooks" \in T
      /\ \A k \in {"CreateWebhook", "UpdateWebhook", "DeleteWebhook", "V4CreateWebhook",
                   "V4UpdateWebhook", "V4DeleteWebhook"} : k \in K
  BY DEF KindsOf, OwnOf, Duties
<1> HIDE DEF K, T
<1>1. CASE CreateWebhook(r) \/ UpdateWebhook(r)
  <2>1. PICK event \in EventTypes, urls \in UrlLists :
          LET f == [i \in DOMAIN urls |-> Insert("domain_webhooks", DomainWebhook(<<r, i>>, event, urls[i]))] IN
          \/ Begin(r, With(Ask("CreateWebhook", event), [urls |-> urls]), f)
          \/ Begin(r, With(Ask("UpdateWebhook", event), [urls |-> urls]),
                   <<Purge("domain_webhooks", [event |-> event])>> \o f)
    BY <1>1 DEF CreateWebhook, UpdateWebhook, AskUrls, ForUrls
  <2> DEFINE n == Len(urls)
             events == [i \in 1..n |-> event]
             f == [i \in 1..n |-> Insert("domain_webhooks", DomainWebhook(<<r, i>>, events[i], urls[i]))]
  <2>2. n \in Nat /\ DOMAIN urls = 1..n
    BY UrlListOf
  <2>3. f = [i \in DOMAIN urls |-> Insert("domain_webhooks", DomainWebhook(<<r, i>>, event, urls[i]))]
    BY <2>2
  <2> HIDE DEF events
  <2>4. Confined(r, f, T) /\ IsSequence(f)
    BY <1>0, <2>2, ConfinedUrls
  <2> HIDE DEF f
  <2>5. \/ Asking(r, K, f)
        \/ Asking(r, K, <<Purge("domain_webhooks", [event |-> event])>> \o f)
    BY <1>0, <2>1, <2>3, AskingUrls
  <2>6. Confined(r, <<Purge("domain_webhooks", [event |-> event])>> \o f, T)
    BY <1>0, <2>4, PurgeThenUrls
  <2>7. QED
    BY <2>4, <2>5, <2>6, WithinProgram DEF K, T
<1>2. CASE DeleteWebhook(r)
  <2>1. PICK event : Begin(r, With(Ask("DeleteWebhook", event), [urls |-> << >>]),
                           <<Purge("domain_webhooks", [event |-> event])>>)
    BY <1>2 DEF DeleteWebhook, AskUrls
  <2>2. Asking(r, K, <<Purge("domain_webhooks", [event |-> event])>>)
    BY <1>0, <2>1, AskingUrls
  <2>3. QED
    BY <1>0, <2>2, StatementTables, WithinSimple DEF K, T
<1>3. CASE V4CreateWebhook(r)
  <2>1. PICK url \in Urls, events \in EventLists :
          Begin(r, With(Ask("V4CreateWebhook", url), [urls |-> events]),
            [i \in DOMAIN events |->
               IfAny("domain_webhooks", [event |-> events[i], url |-> url], << >>,
                     <<TryInsert("domain_webhooks", DomainWebhook(<<r, i>>, events[i], url))>>)])
    BY <1>3 DEF V4CreateWebhook, AskUrls
  <2> DEFINE n == Len(events)
             f == [i \in 1..n |->
                     IfAny("domain_webhooks", [event |-> events[i], url |-> url], << >>,
                           <<TryInsert("domain_webhooks", DomainWebhook(<<r, i>>, events[i], url))>>)]
  <2>2. n \in Nat /\ DOMAIN events = 1..n
    BY UrlListOf
  <2>3. Asking(r, K, f)
    BY <1>0, <2>1, <2>2, AskingUrls
  <2>4. IsList(f, n)
    BY <2>2 DEF IsList
  <2>5. ASSUME NEW i \in 1..n PROVE Touches(r, f[i], T)
    <3> DEFINE u == TryInsert("domain_webhooks", DomainWebhook(<<r, i>>, events[i], url))
               w == [event |-> events[i], url |-> url]
    <3>1. OneTable(u, "domain_webhooks") /\ f[i] = IfAny("domain_webhooks", w, << >>, <<u>>)
      BY StatementTables
    <3> HIDE DEF u, w, f
    <3>2. Confined(r, <<u>>, T) /\ Confined(r, << >>, T)
      BY <1>0, <3>1, TouchesOne, ConfinedOne, ConfinedNone
    <3>3. Brief(<<u>>) /\ Brief(<< >>)
      <4>1. Elements(<<u>>) = {u} /\ Elements(<< >>) = {}
        BY ElementsOfTuples
      <4>2. QED
        BY <3>1, <4>1 DEF Brief, OneTable
    <3>4. QED
      BY <3>1, <3>2, <3>3, TouchesTest
  <2> HIDE DEF f, n
  <2>6. Confined(r, f, T)
    BY <2>4, <2>5, ConfinedList
  <2>7. QED
    BY <2>3, <2>6, WithinProgram DEF K, T
<1>4. CASE V4UpdateWebhook(r)
  <2>1. PICK url \in Urls, events \in EventLists :
          Begin(r, With(Ask("V4UpdateWebhook", url), [urls |-> events]),
            <<Purge("domain_webhooks", [url |-> url])>> \o
            [i \in DOMAIN events |->
               TryInsert("domain_webhooks", DomainWebhook(<<r, i>>, events[i], url))])
    BY <1>4 DEF V4UpdateWebhook, AskUrls
  <2> DEFINE n == Len(events)
             urls == [i \in 1..n |-> url]
             f == [i \in 1..n |-> TryInsert("domain_webhooks", DomainWebhook(<<r, i>>, events[i], urls[i]))]
  <2>2. n \in Nat /\ DOMAIN events = 1..n
    BY UrlListOf
  <2>3. f = [i \in DOMAIN events |-> TryInsert("domain_webhooks", DomainWebhook(<<r, i>>, events[i], url))]
    BY <2>2
  <2> HIDE DEF urls
  <2>4. Confined(r, f, T) /\ IsSequence(f)
    BY <1>0, <2>2, ConfinedUrls
  <2> HIDE DEF f
  <2>5. Asking(r, K, <<Purge("domain_webhooks", [url |-> url])>> \o f)
    BY <1>0, <2>1, <2>3, AskingUrls
  <2>6. Confined(r, <<Purge("domain_webhooks", [url |-> url])>> \o f, T)
    BY <1>0, <2>4, PurgeThenUrls
  <2>7. QED
    BY <2>5, <2>6, WithinProgram DEF K, T
<1>5. CASE V4DeleteWebhook(r)
  <2>1. PICK urls \in UrlLists :
          Begin(r, With(Ask("V4DeleteWebhook", "all"), [urls |-> urls]),
                [i \in DOMAIN urls |-> Purge("domain_webhooks", [url |-> urls[i]])])
    BY <1>5 DEF V4DeleteWebhook, AskUrls
  <2> DEFINE n == Len(urls)
             f == [i \in 1..n |-> Purge("domain_webhooks", [url |-> urls[i]])]
  <2>2. n \in Nat /\ DOMAIN urls = 1..n
    BY UrlListOf
  <2>3. Asking(r, K, f)
    BY <1>0, <2>1, <2>2, AskingUrls
  <2>4. IsList(f, n) /\ \A i \in 1..n : Touches(r, f[i], T)
    BY <1>0, <2>2, StatementTables, TouchesOne DEF IsList
  <2> HIDE DEF f, n
  <2>5. Confined(r, f, T)
    BY <2>4, ConfinedList
  <2>6. QED
    BY <2>3, <2>5, WithinProgram DEF K, T
<1>6. QED
  BY <1>1, <1>2, <1>3, <1>4, <1>5

LEMMA AccountWebhooksServe ==
  ASSUME NEW r, NEW c \in {"webhooks", "triggers"}, UpdateAccountWebhook(r) \/ TriggerWebhook(r)
  PROVE  Within(r, KindsOf(c), {"account_webhooks"})
<1> DEFINE K == KindsOf(c)
           T == {"account_webhooks"}
<1>0. "account_webhooks" \in T /\ "UpdateAccountWebhook" \in K /\ "TriggerWebhook" \in K
  BY DEF KindsOf, Duties
<1> HIDE DEF K, T
<1>1. CASE UpdateAccountWebhook(r)
  <2>1. PICK x, set : Begin(r, AskSave("UpdateAccountWebhook", by(x), "account_webhooks", x, set),
                            <<Save("account_webhooks", With(x, set))>>)
    BY <1>1 DEF UpdateAccountWebhook
  <2>2. Asking(r, K, <<Save("account_webhooks", With(x, set))>>)
    BY <1>0, <2>1, AskingIs
  <2>3. QED
    BY <1>0, <2>2, StatementTables, WithinSimple DEF K, T
<1>2. CASE TriggerWebhook(r)
  <2>1. PICK event : Begin(r, Ask("TriggerWebhook", event), <<[do |-> "collect", event |-> event, urls |-> URLs(event)]>>)
    BY <1>2 DEF TriggerWebhook
  <2> DEFINE s == [do |-> "collect", event |-> event, urls |-> URLs(event)]
  <2>2. Asking(r, K, <<s>>)
    BY <1>0, <2>1, AskingIs
  <2>3. s.do = "collect"
    OBVIOUS
  <2> HIDE DEF s
  <2>4. Touches(r, s, T)
    BY <2>3 DEF Touches, Leads, Branches, Prims, Simple
  <2>5. QED
    BY <2>2, <2>4, ConfinedOne, WithinProgram DEF K, T
<1>3. QED
  BY <1>1, <1>2

LEMMA SigningKeyServes ==
  ASSUME NEW r, NEW c \in {"webhooks", "triggers"}, RegenerateSigningKey(r)
  PROVE  Serves(r, c)
<1> DEFINE K == KindsOf(c)
           T == TablesOf(c)
<1>0. "config" \in T /\ "RegenerateSigningKey" \in K
  BY DEF KindsOf, TablesOf, OwnOf, Duties
<1> HIDE DEF K, T
<1>1. Begin(r, AskSave("RegenerateSigningKey", "all", "config", [id |-> "config"], [key |-> r]),
            <<Update("config", All, [key |-> r])>>)
  BY DEF RegenerateSigningKey
<1>2. Asking(r, K, <<Update("config", All, [key |-> r])>>)
  BY <1>0, <1>1, AskingIs
<1>3. QED
  BY <1>0, <1>2, StatementTables, WithinSimple DEF Serves, K, T

LEMMA WebhooksServe ==
  ASSUME NEW r, WebhookHandlers(r), ~RegenerateSigningKey(r)
  PROVE  Within(r, KindsOf("webhooks"), {"domain_webhooks", "account_webhooks"})
<1> DEFINE K == KindsOf("webhooks")
           T == {"domain_webhooks", "account_webhooks"}
<1>0. /\ "account_webhooks" \in T
      /\ \A k \in {"CreateAccountWebhook", "DeleteAccountWebhook", "BulkDeleteAccountWebhooks"} : k \in K
  BY DEF KindsOf, Duties
<1> HIDE DEF K, T
<1>1. CASE CreateAccountWebhook(r)
  <2>1. PICK url, events :
          Begin(r, Ask("CreateAccountWebhook", url),
                <<Insert("account_webhooks", AccountWebhook(<<r, 1>>, url, ToSet(events)))>>)
    BY <1>1 DEF CreateAccountWebhook
  <2>2. Asking(r, K, <<Insert("account_webhooks", AccountWebhook(<<r, 1>>, url, ToSet(events)))>>)
    BY <1>0, <2>1, AskingIs
  <2>3. QED
    BY <1>0, <2>2, StatementTables, WithinSimple DEF K, T
<1>2. CASE DeleteAccountWebhook(r)
  <2>1. PICK x : Begin(r, AskDelete("DeleteAccountWebhook", by(x), "account_webhooks", {x}),
                       <<Purge("account_webhooks", [id |-> x.id])>>)
    BY <1>2 DEF DeleteAccountWebhook
  <2>2. Asking(r, K, <<Purge("account_webhooks", [id |-> x.id])>>)
    BY <1>0, <2>1, AskingIs
  <2>3. QED
    BY <1>0, <2>2, StatementTables, WithinSimple DEF K, T
<1>3. CASE BulkDeleteAccountWebhooks(r)
  <2>1. Begin(r, AskDelete("BulkDeleteAccountWebhooks", "all", "account_webhooks", Live("account_webhooks")),
              <<Purge("account_webhooks", All)>>)
    BY <1>3 DEF BulkDeleteAccountWebhooks
  <2>2. Asking(r, K, <<Purge("account_webhooks", All)>>)
    BY <1>0, <2>1, AskingIs
  <2>3. QED
    BY <1>0, <2>2, StatementTables, WithinSimple DEF K, T
<1>4. QED
  BY <1>1, <1>2, <1>3, DomainWebhooksServe, AccountWebhooksServe, WithinMore DEF WebhookHandlers, K, T

LEMMA CredentialsServe ==
  ASSUME NEW r, CreateCredential(r) \/ UpdateCredential(r) \/ DeleteCredential(r) \/ DeleteAllCredentials(r)
  PROVE  Tends(r, "domains")
<1> DEFINE K == KindsOf("domains")
           T == OwnOf("domains")
<1>0. /\ "smtp_credentials" \in T
      /\ \A k \in {"CreateCredential", "UpdateCredential", "DeleteCredential", "DeleteAllCredentials"} : k \in K
  BY DEF KindsOf, OwnOf, Duties
<1> HIDE DEF K, T
<1>1. CASE CreateCredential(r)
  <2>1. PICK name, login : Begin(r, Ask("CreateCredential", name),
                                 <<Insert("smtp_credentials", SMTPCredential(<<r, 1>>, name, login))>>)
    BY <1>1 DEF CreateCredential
  <2>2. Asking(r, K, <<Insert("smtp_credentials", SMTPCredential(<<r, 1>>, name, login))>>)
    BY <1>0, <2>1, AskingIs
  <2>3. QED
    BY <1>0, <2>2, StatementTables, WithinSimple DEF Tends, K, T
<1>2. CASE UpdateCredential(r)
  <2>1. PICK name, x : Begin(r, AskSave("UpdateCredential", name, "smtp_credentials", x, [password |-> r]),
                             <<SaveOrFail("smtp_credentials", [x EXCEPT !.password = r])>>)
    BY <1>2 DEF UpdateCredential
  <2>2. Asking(r, K, <<SaveOrFail("smtp_credentials", [x EXCEPT !.password = r])>>)
    BY <1>0, <2>1, AskingIs
  <2>3. QED
    BY <1>0, <2>2, StatementTables, WithinSimple DEF Tends, K, T
<1>3. CASE DeleteCredential(r)
  <2>1. PICK name, x : Begin(r, AskDelete("DeleteCredential", name, "smtp_credentials", {x}),
                             <<Purge("smtp_credentials", [id |-> x.id])>>)
    BY <1>3 DEF DeleteCredential
  <2>2. Asking(r, K, <<Purge("smtp_credentials", [id |-> x.id])>>)
    BY <1>0, <2>1, AskingIs
  <2>3. QED
    BY <1>0, <2>2, StatementTables, WithinSimple DEF Tends, K, T
<1>4. CASE DeleteAllCredentials(r)
  <2>1. PICK name, S : Begin(r, AskDelete("DeleteAllCredentials", name, "smtp_credentials", S),
                             <<Purge("smtp_credentials", [domain |-> name])>>)
    BY <1>4 DEF DeleteAllCredentials
  <2>2. Asking(r, K, <<Purge("smtp_credentials", [domain |-> name])>>)
    BY <1>0, <2>1, AskingIs
  <2>3. QED
    BY <1>0, <2>2, StatementTables, WithinSimple DEF Tends, K, T
<1>5. QED
  BY <1>1, <1>2, <1>3, <1>4

LEMMA SettingsServe ==
  ASSUME NEW r, NEW endpoint \in KindsOf("domains"), NEW columns, SaveSettings(r, endpoint, columns)
  PROVE  Tends(r, "domains")
<1> DEFINE K == KindsOf("domains")
           T == OwnOf("domains")
           set == [c \in columns |-> r]
<1>1. PICK name, x : Begin(r, AskSave(endpoint, name, "domains", x, set), <<SaveOrFail("domains", With(x, set))>>)
  BY DEF SaveSettings
<1>2. "domains" \in T
  BY DEF OwnOf, Duties
<1> HIDE DEF K, T, set
<1>3. Asking(r, K, <<SaveOrFail("domains", With(x, set))>>)
  BY <1>1, AskingIs DEF K
<1>4. QED
  BY <1>2, <1>3, StatementTables, WithinSimple DEF Tends, K, T

LEMMA DomainsServe ==
  ASSUME NEW r, DomainHandlers(r) \/ ResetDomain(r)
  PROVE  Tends(r, "domains")
<1> DEFINE K == KindsOf("domains")
           T == OwnOf("domains")
<1>0. /\ "domains" \in T /\ "dns_records" \in T
      /\ \A k \in {"CreateDomain", "DeleteDomain", "VerifyDomain", "UpdateDomain", "UpdateConnection",
                   "UpdateDKIM", "UpdateTracking", "ResetDomain"} : k \in K
  BY DEF KindsOf, OwnOf, Duties
<1> HIDE DEF K, T
<1>1. CASE CreateDomain(r)
  <2>1. PICK name, c :
          LET create(valid) == Transaction(Insert("domains", Domain(<<r, 1>>, name, c.verify)),
                                           Insert("dns_records", DNSRecords(<<r, 1>>, <<r, 1>>, valid)))
          IN Begin(r, Ask("CreateDomain", name),
                   <<IfAny("config", [verify |-> TRUE], <<create(TRUE)>>, <<create(FALSE)>>)>>)
    BY <1>1 DEF CreateDomain
  <2> DEFINE d == Insert("domains", Domain(<<r, 1>>, name, c.verify))
             a == Insert("dns_records", DNSRecords(<<r, 1>>, <<r, 1>>, TRUE))
             b == Insert("dns_records", DNSRecords(<<r, 1>>, <<r, 1>>, FALSE))
             w == [verify |-> TRUE]
             yes == <<Transaction(d, a)>>
             no == <<Transaction(d, b)>>
             s == IfAny("config", w, yes, no)
  <2>2. Asking(r, K, <<s>>)
    BY <1>0, <2>1, AskingIs
  <2>3. OneTable(d, "domains") /\ OneTable(a, "dns_records") /\ OneTable(b, "dns_records")
    BY StatementTables
  <2> HIDE DEF d, a, b, w
  <2>4. /\ Confined(r, yes, T) /\ Confined(r, no, T)
        /\ Brief(yes) /\ Brief(no)
    BY <1>0, <2>3, TouchesBoth, ConfinedOne
  <2> HIDE DEF yes, no
  <2>5. Touches(r, s, T)
    BY <2>4, TouchesTest
  <2> HIDE DEF s
  <2>6. QED
    BY <2>2, <2>5, ConfinedOne, WithinProgram DEF Tends, K, T
<1>2. CASE DeleteDomain(r)
  <2>1. PICK name, x : Begin(r, AskDelete("DeleteDomain", name, "domains", {x}),
                             <<Transaction(SoftDelete("dns_records", [domain |-> x.id]),
                                           SoftDelete("domains", [id |-> x.id]))>>)
    BY <1>2 DEF DeleteDomain
  <2> DEFINE a == SoftDelete("dns_records", [domain |-> x.id])
             b == SoftDelete("domains", [id |-> x.id])
  <2>2. Asking(r, K, <<Transaction(a, b)>>)
    BY <1>0, <2>1, AskingIs
  <2>3. OneTable(a, "dns_records") /\ OneTable(b, "domains")
    BY StatementTables
  <2> HIDE DEF a, b
  <2>4. Confined(r, <<Transaction(a, b)>>, T)
    BY <1>0, <2>3, TouchesBoth, ConfinedOne
  <2>5. QED
    BY <2>2, <2>4, WithinProgram DEF Tends, K, T
<1>3. CASE VerifyDomain(r)
  <2>1. PICK name, x : Begin(r, AskSave("VerifyDomain", name, "domains", x, [verified |-> TRUE]),
                             <<Transaction(Save("domains", [x EXCEPT !.verified = TRUE]),
                                           Update("dns_records", [domain |-> x.id], [valid |-> TRUE]))>>)
    BY <1>3 DEF VerifyDomain
  <2> DEFINE a == Save("domains", [x EXCEPT !.verified = TRUE])
             b == Update("dns_records", [domain |-> x.id], [valid |-> TRUE])
  <2>2. Asking(r, K, <<Transaction(a, b)>>)
    BY <1>0, <2>1, AskingIs
  <2>3. OneTable(a, "domains") /\ OneTable(b, "dns_records")
    BY StatementTables
  <2> HIDE DEF a, b
  <2>4. Confined(r, <<Transaction(a, b)>>, T)
    BY <1>0, <2>3, TouchesBoth, ConfinedOne
  <2>5. QED
    BY <2>2, <2>4, WithinProgram DEF Tends, K, T
<1>4. CASE UpdateDomain(r) \/ UpdateConnection(r) \/ UpdateDKIM(r) \/ UpdateTracking(r)
  BY <1>0, <1>4, SettingsServe DEF UpdateDomain, UpdateConnection, UpdateDKIM, UpdateTracking, K
<1>5. CASE ResetDomain(r)
  <2>1. Asking(r, K, << >>)
    BY <1>0, <1>5, AskingIs DEF ResetDomain
  <2>2. QED
    BY <2>1, ConfinedNone, WithinProgram DEF Tends, K, T
<1>6. QED
  BY <1>1, <1>2, <1>3, <1>4, <1>5, CredentialsServe DEF DomainHandlers

\* What UpdatePool adds and removes, and its program.
LEMMA AddsAre ==
  ASSUME NEW r, NEW p, NEW q \in AddsTo(r, p)
  PROVE  IsSequence(q) /\ \A u \in Elements(q) : u.do = "put" /\ u.table = "ip_pool_ips" /\ u.row.pool = p
<1>1. CASE q = << >>
  BY <1>1, ElementsOfTuples
<1>2. CASE \E ip : q = <<TryInsert("ip_pool_ips", IPPoolIP(<<r, ip>>, p, ip))>>
  <2>1. PICK ip : q = <<TryInsert("ip_pool_ips", IPPoolIP(<<r, ip>>, p, ip))>>
    BY <1>2
  <2> DEFINE u == TryInsert("ip_pool_ips", IPPoolIP(<<r, ip>>, p, ip))
  <2>2. u.do = "put" /\ u.table = "ip_pool_ips" /\ u.row.pool = p
    BY DEF TryInsert, IPPoolIP
  <2>3. q = <<u>>
    BY <2>1
  <2> HIDE DEF u
  <2>4. IsSequence(q) /\ Elements(q) = {u}
    BY <2>3, ElementsOfTuples
  <2>5. QED
    BY <2>2, <2>4
<1>3. QED
  BY <1>1, <1>2 DEF AddsTo

LEMMA RemovesAre ==
  ASSUME NEW p, NEW q \in RemovesFrom(p)
  PROVE  IsSequence(q) /\ \A u \in Elements(q) : u.do = "purge" /\ u.table = "ip_pool_ips"
<1>1. CASE q = << >>
  BY <1>1, ElementsOfTuples
<1>2. CASE \E ip : q = <<Purge("ip_pool_ips", [pool |-> p, ip |-> ip])>>
  <2>1. PICK ip : q = <<Purge("ip_pool_ips", [pool |-> p, ip |-> ip])>>
    BY <1>2
  <2> DEFINE u == Purge("ip_pool_ips", [pool |-> p, ip |-> ip])
  <2>2. u.do = "purge" /\ u.table = "ip_pool_ips"
    BY DEF Purge
  <2>3. q = <<u>>
    BY <2>1
  <2> HIDE DEF u
  <2>4. IsSequence(q) /\ Elements(q) = {u}
    BY <2>3, ElementsOfTuples
  <2>5. QED
    BY <2>2, <2>4
<1>3. QED
  BY <1>1, <1>2 DEF RemovesFrom

LEMMA PoolProgram ==
  ASSUME NEW r, NEW p, NEW add \in AddsTo(r, p), NEW remove \in RemovesFrom(p), NEW s
  PROVE  /\ Elements(<<s>> \o add \o remove) = {s} \cup Elements(add) \cup Elements(remove)
         /\ Head(<<s>> \o add \o remove) = s
<1>1. IsSequence(add)
  BY AddsAre
<1>2. IsSequence(remove)
  BY RemovesAre
<1> DEFINE b == <<s>> \o add
<1>3. IsSequence(<<s>>) /\ Elements(<<s>>) = {s} /\ Len(<<s>>) = 1
  BY ElementsOfTuples
<1>4. /\ IsSequence(b) /\ Elements(b) = {s} \cup Elements(add) /\ Len(b) \in Nat
      /\ DOMAIN b = 1..(1 + Len(add)) /\ Len(add) \in Nat /\ b[1] = s
  <2>1. /\ IsSequence(b) /\ Elements(b) = {s} \cup Elements(add) /\ DOMAIN b = 1..(1 + Len(add))
        /\ Len(add) \in Nat /\ \A i \in DOMAIN b : b[i] = IF i <= 1 THEN <<s>>[i] ELSE add[i - 1]
    BY <1>1, <1>3, ConcatOf
  <2>2. Len(b) \in Nat /\ 1 \in DOMAIN b
    BY <2>1 DEF IsSequence
  <2>3. QED
    BY <2>1, <2>2
<1> HIDE DEF b
<1>5. Elements(b \o remove) = Elements(b) \cup Elements(remove) /\ Head(b \o remove) = s
  <2>1. /\ IsSequence(b \o remove) /\ Elements(b \o remove) = Elements(b) \cup Elements(remove)
        /\ DOMAIN (b \o remove) = 1..(Len(b) + Len(remove)) /\ Len(remove) \in Nat
        /\ \A i \in DOMAIN (b \o remove) :
              (b \o remove)[i] = IF i <= Len(b) THEN b[i] ELSE remove[i - Len(b)]
    BY <1>2, <1>4, ConcatOf
  <2>2. Len(b) = 1 + Len(add)
    BY <1>4 DEF IsSequence
  <2>3. (b \o remove)[1] = s
    BY <1>4, <2>1, <2>2
  <2>4. \A z, S : z \in Seq(S) => Head(z) = z[1]
    OBVIOUS
  <2>5. Head(b \o remove) = (b \o remove)[1]
    BY <2>1, <2>4 DEF IsSequence
  <2>6. QED
    BY <2>1, <2>3, <2>5
<1>6. QED
  BY <1>4, <1>5 DEF b

LEMMA IPsServe ==
  ASSUME RecordsInv, NEW r, IPHandlers(r)
  PROVE  Tends(r, "ips")
<1> DEFINE K == KindsOf("ips")
           T == OwnOf("ips")
<1>0. /\ "ip_pools" \in T /\ "ip_pool_ips" \in T /\ "domain_ips" \in T /\ "domain_pools" \in T
      /\ \A k \in {"AssignDomainIP", "UnassignDomainIP", "CreatePool", "UpdatePool", "DeletePool"} : k \in K
  BY DEF KindsOf, OwnOf, Duties
<1> HIDE DEF K, T
<1>1. CASE AssignDomainIP(r)
  <2>1. PICK on, x : \/ Begin(r, Ask("AssignDomainIP", on), <<TryInsert("domain_ips", DomainIP(<<r, 1>>, x))>>)
                     \/ Begin(r, Ask("AssignDomainIP", on), <<TryInsert("domain_pools", DomainPool(<<r, 1>>, x))>>)
    BY <1>1 DEF AssignDomainIP
  <2>2. \/ Asking(r, K, <<TryInsert("domain_ips", DomainIP(<<r, 1>>, x))>>)
        \/ Asking(r, K, <<TryInsert("domain_pools", DomainPool(<<r, 1>>, x))>>)
    BY <1>0, <2>1, AskingIs
  <2>3. QED
    BY <1>0, <2>2, StatementTables, WithinSimple DEF Tends, K, T
<1>2. CASE UnassignDomainIP(r)
  <2>1. PICK on, S, ip : \/ Begin(r, AskDelete("UnassignDomainIP", on, "domain_ips", S), <<Purge("domain_ips", [ip |-> ip])>>)
                         \/ Begin(r, AskDelete("UnassignDomainIP", on, "domain_ips", S), <<Purge("domain_ips", All)>>)
                         \/ Begin(r, AskDelete("UnassignDomainIP", on, "domain_pools", S), <<Purge("domain_pools", All)>>)
    BY <1>2 DEF UnassignDomainIP
  <2>2. \/ Asking(r, K, <<Purge("domain_ips", [ip |-> ip])>>)
        \/ Asking(r, K, <<Purge("domain_ips", All)>>)
        \/ Asking(r, K, <<Purge("domain_pools", All)>>)
    BY <1>0, <2>1, AskingIs
  <2>3. QED
    BY <1>0, <2>2, StatementTables, WithinSimple DEF Tends, K, T
<1>3. CASE CreatePool(r)
  <2>0. PICK ips \in SUBSET Addresses : \E order \in SetToSeqs(ips) :
          Begin(r, Ask("CreatePool", r),
                <<TryInsert("ip_pools", IPPool(<<r, 1>>, r))>> \o
                [i \in DOMAIN order |-> TryInsert("ip_pool_ips", IPPoolIP(<<r, order[i]>>, <<r, 1>>, order[i]))])
    BY <1>3 DEF CreatePool, ForEach
  <2>1. PICK order \in SetToSeqs(ips) :
          Begin(r, Ask("CreatePool", r),
                <<TryInsert("ip_pools", IPPool(<<r, 1>>, r))>> \o
                [i \in DOMAIN order |-> TryInsert("ip_pool_ips", IPPoolIP(<<r, order[i]>>, <<r, 1>>, order[i]))])
    BY <2>0
  <2> DEFINE n == Cardinality(ips)
             f == [i \in 1..n |-> TryInsert("ip_pool_ips", IPPoolIP(<<r, order[i]>>, <<r, 1>>, order[i]))]
             q == <<TryInsert("ip_pools", IPPool(<<r, 1>>, r))>>
  <2>2. IsFiniteSet(ips)
    BY IPsAssumption, FS_Subset
  <2>3. n \in Nat /\ DOMAIN order = 1..n
    BY <2>2, OneByOne
  <2>4. Asking(r, K, q \o f)
    BY <1>0, <2>1, <2>3, AskingIs
  <2>5. IsList(f, n) /\ \A i \in 1..n : Touches(r, f[i], T)
    BY <1>0, <2>3, StatementTables, TouchesOne DEF IsList
  <2>6. Confined(r, q, T) /\ IsSequence(q)
    BY <1>0, StatementTables, TouchesOne, ConfinedOne, ElementsOfTuples
  <2> HIDE DEF f, q, n
  <2>7. Confined(r, f, T) /\ IsSequence(f)
    BY <2>5, ConfinedList
  <2>8. QED
    BY <2>4, <2>6, <2>7, ConfinedJoin, WithinProgram DEF Tends, K, T
<1>4. CASE UpdatePool(r)
  <2>1. PICK p \in Live("ip_pools"), set \in {All, [name |-> r]} :
          \E add \in AddsTo(r, p.id), remove \in RemovesFrom(p.id) :
            Begin(r, AskSave("UpdatePool", by(p), "ip_pools", p, set),
                  <<Save("ip_pools", With(p, set))>> \o add \o remove)
    BY <1>4 DEF UpdatePool, AddsTo, RemovesFrom
  <2>2. PICK add \in AddsTo(r, p.id), remove \in RemovesFrom(p.id) :
          Begin(r, AskSave("UpdatePool", by(p), "ip_pools", p, set),
                <<Save("ip_pools", With(p, set))>> \o add \o remove)
    BY <2>1
  <2> DEFINE s == Save("ip_pools", With(p, set))
             q == <<s>> \o add \o remove
  <2>3. Asking(r, K, q)
    BY <1>0, <2>2, AskingIs
  <2>4. Touches(r, s, T)
    BY <1>0, StatementTables, TouchesOne
  <2> HIDE DEF s
  <2>5. Elements(q) = {s} \cup Elements(add) \cup Elements(remove)
    BY PoolProgram
  <2>6. \A u \in Elements(add) \cup Elements(remove) : OneTable(u, "ip_pool_ips")
    <3>1. \A u \in Elements(add) : u.do = "put" /\ u.table = "ip_pool_ips"
      BY AddsAre
    <3>2. \A u \in Elements(remove) : u.do = "purge" /\ u.table = "ip_pool_ips"
      BY RemovesAre
    <3>3. QED
      BY <3>1, <3>2 DEF OneTable, Simple
  <2>7. \A u \in Elements(q) : Touches(r, u, T)
    BY <1>0, <2>4, <2>5, <2>6, TouchesOne
  <2>8. Confined(r, q, T)
    BY <2>7 DEF Confined, WillOf, Touches
  <2> HIDE DEF q
  <2>9. QED
    BY <2>3, <2>8, WithinProgram DEF Tends, K, T
<1>5. CASE DeletePool(r)
  <2>1. PICK p : Begin(r, AskDelete("DeletePool", by(p), "ip_pools", {p}),
                       <<Purge("ip_pool_ips", [pool |-> p.id]), Purge("ip_pools", [id |-> p.id])>>)
    BY <1>5 DEF DeletePool
  <2>2. Asking(r, K, <<Purge("ip_pool_ips", [pool |-> p.id]), Purge("ip_pools", [id |-> p.id])>>)
    BY <1>0, <2>1, AskingIs
  <2>3. Confined(r, <<Purge("ip_pool_ips", [pool |-> p.id]), Purge("ip_pools", [id |-> p.id])>>, T)
    BY <1>0, StatementTables, TouchesOne, ConfinedTwo
  <2>4. QED
    BY <2>2, <2>3, WithinProgram DEF Tends, K, T
<1>6. QED
  BY <1>1, <1>2, <1>3, <1>4, <1>5 DEF IPHandlers

LEMMA TouchesIssue ==
  ASSUME NEW r, NEW T, "managed_api_keys" \in T, NEW s, s.do = "issue"
  PROVE  Touches(r, s, T)
<1>1. Leads(r, s) = {Store("managed_api_keys", ManagedAPIKey(<<r, 1>>, v)) : v \in {s.value} \cup KeyValues}
  BY DEF Leads, Branches, Prims, Simple
<1>2. QED
  BY <1>1, StoreIs DEF Touches

LEMMA KeysServe ==
  ASSUME NEW r, KeyHandlers(r)
  PROVE  Tends(r, "keys")
<1> DEFINE K == KindsOf("keys")
           T == OwnOf("keys")
<1>0. /\ "api_keys" \in T /\ "managed_api_keys" \in T /\ "ip_allowlist_entries" \in T
      /\ \A k \in {"CreateKey", "DeleteKey", "RegenerateKey", "CreateManagedKey", "DeleteManagedKey",
                   "AddEntry", "UpdateEntry", "DeleteEntry"} : k \in K
  BY DEF KindsOf, OwnOf, Duties
<1> HIDE DEF K, T
<1>1. CASE CreateKey(r) \/ AddEntry(r)
  <2>1. PICK ip : \/ Begin(r, Ask("CreateKey", r), <<Insert("api_keys", APIKey(<<r, 1>>))>>)
                  \/ Begin(r, Ask("AddEntry", ip), <<Insert("ip_allowlist_entries", IPAllowlistEntry(<<r, 1>>, ip))>>)
    BY <1>1 DEF CreateKey, AddEntry
  <2>2. \/ Asking(r, K, <<Insert("api_keys", APIKey(<<r, 1>>))>>)
        \/ Asking(r, K, <<Insert("ip_allowlist_entries", IPAllowlistEntry(<<r, 1>>, ip))>>)
    BY <1>0, <2>1, AskingIs
  <2>3. QED
    BY <1>0, <2>2, StatementTables, WithinSimple DEF Tends, K, T
<1>2. CASE DeleteKey(r) \/ DeleteManagedKey(r) \/ DeleteEntry(r)
  <2>1. PICK x : \/ Begin(r, AskDelete("DeleteKey", by(x), "api_keys", {x}), <<Purge("api_keys", [id |-> x.id])>>)
                 \/ Begin(r, AskDelete("DeleteManagedKey", "managed", "managed_api_keys", {x}),
                          <<Purge("managed_api_keys", [id |-> x.id])>>)
                 \/ Begin(r, AskDelete("DeleteEntry", x.address, "ip_allowlist_entries", {x}),
                          <<Purge("ip_allowlist_entries", [id |-> x.id])>>)
    BY <1>2 DEF DeleteKey, DeleteManagedKey, DeleteEntry
  <2>2. \/ Asking(r, K, <<Purge("api_keys", [id |-> x.id])>>)
        \/ Asking(r, K, <<Purge("managed_api_keys", [id |-> x.id])>>)
        \/ Asking(r, K, <<Purge("ip_allowlist_entries", [id |-> x.id])>>)
    BY <1>0, <2>1, AskingIs
  <2>3. QED
    BY <1>0, <2>2, StatementTables, WithinSimple DEF Tends, K, T
<1>3. CASE RegenerateKey(r) \/ UpdateEntry(r)
  <2>1. PICK x : \/ Begin(r, AskSave("RegenerateKey", by(x), "api_keys", x, [secret |-> r]),
                          <<SaveOrFail("api_keys", [x EXCEPT !.secret = r])>>)
                 \/ Begin(r, AskSave("UpdateEntry", x.address, "ip_allowlist_entries", x, [description |-> r]),
                          <<SaveOrFail("ip_allowlist_entries", [x EXCEPT !.description = r])>>)
    BY <1>3 DEF RegenerateKey, UpdateEntry
  <2>2. \/ Asking(r, K, <<SaveOrFail("api_keys", [x EXCEPT !.secret = r])>>)
        \/ Asking(r, K, <<SaveOrFail("ip_allowlist_entries", [x EXCEPT !.description = r])>>)
    BY <1>0, <2>1, AskingIs
  <2>3. QED
    BY <1>0, <2>2, StatementTables, WithinSimple DEF Tends, K, T
<1>4. CASE CreateManagedKey(r)
  <2>1. PICK value : Begin(r, Ask("CreateManagedKey", "managed"), <<[do |-> "issue", value |-> value, retry |-> TRUE]>>)
    BY <1>4 DEF CreateManagedKey
  <2> DEFINE s == [do |-> "issue", value |-> value, retry |-> TRUE]
  <2>2. Asking(r, K, <<s>>) /\ s.do = "issue"
    BY <1>0, <2>1, AskingIs
  <2> HIDE DEF s
  <2>3. QED
    BY <1>0, <2>2, TouchesIssue, ConfinedOne, WithinProgram DEF Tends, K, T
<1>5. QED
  BY <1>1, <1>2, <1>3, <1>4 DEF KeyHandlers

LEMMA TouchesEnsure ==
  ASSUME NEW r, NEW T, "tags" \in T, NEW s, s.do = "ensure"
  PROVE  Touches(r, s, T)
<1>1. Leads(r, s) = {Store("tags", s.row), Update("tags", [tag |-> s.row.tag], [lastSeen |-> r])}
  BY DEF Leads, Branches, Prims, Simple
<1>2. Update("tags", [tag |-> s.row.tag], [lastSeen |-> r]).table = "tags"
  BY DEF Update
<1>3. QED
  BY <1>1, <1>2, StoreIs DEF Touches

LEMMA TagsServe ==
  ASSUME NEW r, TagHandlers(r)
  PROVE  Tends(r, "tags")
<1> DEFINE K == KindsOf("tags")
           T == OwnOf("tags")
<1>0. /\ "tags" \in T
      /\ \A k \in {"EnsureTags", "UpdateTag", "V1UpdateTag", "DeleteTag", "V1DeleteTag"} : k \in K
  BY DEF KindsOf, OwnOf, Duties
<1> HIDE DEF K, T
<1>1. CASE EnsureTags(r)
  <2>1. PICK tags \in TagLists :
          Begin(r, With(Ask("EnsureTags", "all"), [urls |-> tags]),
                [i \in DOMAIN tags |-> [do |-> "ensure", row |-> Tag(<<r, i>>, tags[i])]])
    BY <1>1 DEF EnsureTags
  <2> DEFINE n == Len(tags)
             f == [i \in 1..n |-> [do |-> "ensure", row |-> Tag(<<r, i>>, tags[i])]]
  <2>2. n \in Nat /\ DOMAIN tags = 1..n
    BY TagRegistryAssumption
  <2>3. Asking(r, K, f)
    BY <1>0, <2>1, <2>2, AskingUrls
  <2>4. IsList(f, n) /\ \A i \in 1..n : f[i].do = "ensure"
    BY <2>2 DEF IsList
  <2> HIDE DEF f, n
  <2>5. Confined(r, f, T)
    BY <1>0, <2>4, TouchesEnsure, ConfinedList
  <2>6. QED
    BY <2>3, <2>5, WithinProgram DEF Tends, K, T
<1>2. CASE UpdateTag(r) \/ V1UpdateTag(r)
  <2>1. PICK t : \/ Begin(r, Ask("UpdateTag", t.tag), <<Update("tags", [id |-> t.id], [description |-> r])>>)
                 \/ Begin(r, Ask("V1UpdateTag", t.tag), <<Update("tags", [tag |-> t.tag], [description |-> r])>>)
    BY <1>2 DEF UpdateTag, V1UpdateTag
  <2>2. \/ Asking(r, K, <<Update("tags", [id |-> t.id], [description |-> r])>>)
        \/ Asking(r, K, <<Update("tags", [tag |-> t.tag], [description |-> r])>>)
    BY <1>0, <2>1, AskingIs
  <2>3. QED
    BY <1>0, <2>2, StatementTables, WithinSimple DEF Tends, K, T
<1>3. CASE DeleteTag(r) \/ V1DeleteTag(r)
  <2>1. PICK t : \/ Begin(r, AskDelete("DeleteTag", t.tag, "tags", {t}), <<Purge("tags", [id |-> t.id])>>)
                 \/ Begin(r, AskDelete("V1DeleteTag", t.tag, "tags", {t}), <<Purge("tags", [tag |-> t.tag])>>)
    BY <1>3 DEF DeleteTag, V1DeleteTag
  <2>2. \/ Asking(r, K, <<Purge("tags", [id |-> t.id])>>)
        \/ Asking(r, K, <<Purge("tags", [tag |-> t.tag])>>)
    BY <1>0, <2>1, AskingIs
  <2>3. QED
    BY <1>0, <2>2, StatementTables, WithinSimple DEF Tends, K, T
<1>4. QED
  BY <1>1, <1>2, <1>3 DEF TagHandlers

LEMMA RoutesServe ==
  ASSUME NEW r, RouteHandlers(r)
  PROVE  Tends(r, "routes")
<1> DEFINE K == KindsOf("routes")
           T == OwnOf("routes")
<1>0. /\ "routes" \in T
      /\ \A k \in {"CreateRoute", "UpdateRoute", "DeleteRoute"} : k \in K
  BY DEF KindsOf, OwnOf, Duties
<1> HIDE DEF K, T
<1>1. CASE CreateRoute(r)
  <2>1. PICK n, p, e, stop : Begin(r, Ask("CreateRoute", r), <<Insert("routes", Route(<<r, 1>>, n, p, e, stop))>>)
    BY <1>1 DEF CreateRoute
  <2>2. Asking(r, K, <<Insert("routes", Route(<<r, 1>>, n, p, e, stop))>>)
    BY <1>0, <2>1, AskingIs
  <2>3. QED
    BY <1>0, <2>2, StatementTables, WithinSimple DEF Tends, K, T
<1>2. CASE UpdateRoute(r)
  <2>1. PICK x, set : Begin(r, AskSave("UpdateRoute", by(x), "routes", x, set), <<SaveOrFail("routes", With(x, set))>>)
    BY <1>2 DEF UpdateRoute
  <2>2. Asking(r, K, <<SaveOrFail("routes", With(x, set))>>)
    BY <1>0, <2>1, AskingIs
  <2>3. QED
    BY <1>0, <2>2, StatementTables, WithinSimple DEF Tends, K, T
<1>3. CASE DeleteRoute(r)
  <2>1. PICK x : Begin(r, AskDelete("DeleteRoute", by(x), "routes", {x}), <<Purge("routes", [id |-> x.id])>>)
    BY <1>3 DEF DeleteRoute
  <2>2. Asking(r, K, <<Purge("routes", [id |-> x.id])>>)
    BY <1>0, <2>1, AskingIs
  <2>3. QED
    BY <1>0, <2>2, StatementTables, WithinSimple DEF Tends, K, T
<1>4. QED
  BY <1>1, <1>2, <1>3 DEF RouteHandlers

LEMMA ConfigServes ==
  ASSUME NEW r, NEW c, UpdateConfig(r)
  PROVE  Serves(r, c)
<1> DEFINE K == KindsOf(c)
           T == TablesOf(c)
<1>0. "config" \in T /\ "UpdateConfig" \in K
  BY DEF KindsOf, TablesOf
<1>1. PICK behavior \in {All, [verify |-> FALSE]}, authentication \in {All, [key |-> r]}, e \in Refusals :
        Begin(r, AskSave("UpdateConfig", "all", "config", [id |-> "config"], With(behavior, authentication)),
              Merge(behavior) \o Merge(authentication) \o e)
  BY DEF UpdateConfig, Refusals
<1> DEFINE a == SetConfig(behavior)
           b == SetConfig(authentication)
           q == Merge(behavior) \o Merge(authentication) \o e
<1> HIDE DEF K, T
<1>2. Asking(r, K, q)
  BY <1>0, <1>1, AskingIs
<1>3. Touches(r, a, T) /\ Touches(r, b, T)
  BY <1>0, StatementTables, TouchesOne DEF SetConfig
<1>4. Touches(r, Invalid, T)
  <2>1. Invalid.do = "invalid"
    BY DEF Invalid
  <2>2. QED
    BY <2>1 DEF Touches, Leads, Branches, Prims, Simple
<1>5. \A s \in Elements(q) : s = Invalid \/ s = a \/ s = b
  BY ConfigStatements
<1> HIDE DEF a, b, q
<1>6. Confined(r, q, T)
  BY <1>3, <1>4, <1>5 DEF Confined, WillOf, Touches
<1>7. QED
  BY <1>2, <1>6, WithinProgram DEF Serves, K, T

LEMMA ResetTablesOf ==
  ASSUME NEW c \in DOMAIN resetTables
  PROVE  c \in DOMAIN Duties /\ \A i \in DOMAIN resetTables[c] : resetTables[c][i] \in TablesOf(c)
BY DEF resetTables, Duties, TablesOf, OwnOf

LEMMA ResetServes ==
  ASSUME NEW r, NEW c \in DOMAIN resetTables, ResetAll(r, resetTables[c])
  PROVE  Serves(r, c)
<1> DEFINE K == KindsOf(c)
           T == TablesOf(c)
           tables == resetTables[c]
           n == Len(tables)
           f == [i \in 1..n |-> Purge(tables[i], All)]
           u == SetConfig(DefaultConfig)
           gone == UNION {{<<t, x.id>> : x \in db[t]} : t \in ToSet(tables)}
           b == AskSave("ResetAll", "all", "config", Config, DefaultConfig)
           a == [b EXCEPT !.gone = gone]
<1>1. tables \in Seq(Tables \ {"config"})
  BY ResetTablesAre
<1>2. n \in Nat /\ DOMAIN tables = 1..n /\ \A i \in 1..n : tables[i] \in T
  BY <1>1, ResetTablesOf
<1>3. Begin(r, a, f \o <<u>>)
  BY <1>1, <1>2 DEF ResetAll
<1>4. a.kind = "ResetAll" /\ "ResetAll" \in K
  <2>1. b.kind = "ResetAll"
    BY AskKinds
  <2>2. a.kind = b.kind
    BY DEF AskSave, Ask
  <2>3. QED
    BY <2>1, <2>2 DEF KindsOf
<1>5. Touches(r, u, T) /\ IsSequence(<<u>>)
  <2>1. OneTable(u, "config") /\ "config" \in T
    BY StatementTables DEF SetConfig, TablesOf
  <2>2. QED
    BY <2>1, TouchesOne, ElementsOfTuples
<1> HIDE DEF a, u, K, T, tables, n
<1>6. IsList(f, n) /\ \A i \in 1..n : Touches(r, f[i], T)
  BY <1>2, StatementTables, TouchesOne DEF IsList
<1> HIDE DEF f
<1>7. Confined(r, f, T) /\ IsSequence(f) /\ Confined(r, <<u>>, T)
  BY <1>5, <1>6, ConfinedList, ConfinedOne
<1>8. Asking(r, K, f \o <<u>>)
  <2>1. a.saves = b.saves /\ b.saves = {<<"config", Config.id>>}
    BY DEF a, AskSave, Ask
  <2>2. Modest(a)
    BY <2>1 DEF Modest
  <2>3. QED
    BY <1>3, <1>4, <2>2 DEF Asking
<1>9. QED
  BY <1>5, <1>7, <1>8, ConfinedJoin, WithinProgram DEF Serves, K, T

\* A request that arrives is of the scene's component, or changes the configuration.
LEMMA ArriveTends ==
  ASSUME RecordsInv, NEW r \in Requests, Arrive(r)
  PROVE  \/ Tends(r, scene)
         \/ scene \in {"webhooks", "triggers"} /\ RegenerateSigningKey(r)
         \/ UpdateConfig(r)
         \/ scene \in DOMAIN resetTables /\ ResetAll(r, resetTables[scene])
<1>1. scene \in Components /\ scene \in DOMAIN resetTables
  BY ServiceAssumption DEF Arrive
<1>2. CASE scene = "templates" /\ TemplateHandlers(r)
  BY <1>2, TemplatesServe
<1>3. CASE scene = "webhooks" /\ WebhookHandlers(r)
  <2>1. {"domain_webhooks", "account_webhooks"} \subseteq OwnOf("webhooks")
    BY DEF OwnOf, Duties
  <2>2. QED
    BY <1>3, <2>1, WebhooksServe, WithinMore DEF Tends
<1>4. CASE scene = "triggers" /\ (UpdateAccountWebhook(r) \/ RegenerateSigningKey(r) \/ TriggerWebhook(r))
  <2>1. {"account_webhooks"} \subseteq OwnOf("triggers")
    BY DEF OwnOf, Duties
  <2>2. QED
    BY <1>4, <2>1, AccountWebhooksServe, WithinMore DEF Tends
<1>5. CASE scene = "domains" /\ (DomainHandlers(r) \/ ResetDomain(r))
  BY <1>5, DomainsServe
<1>6. CASE scene = "ips" /\ IPHandlers(r)
  BY <1>6, IPsServe
<1>7. CASE scene = "subaccounts" /\ SubaccountHandlers(r)
  BY <1>7, SubaccountsServe
<1>8. CASE scene = "keys" /\ KeyHandlers(r)
  BY <1>8, KeysServe
<1>9. CASE scene = "tags" /\ TagHandlers(r)
  BY <1>9, TagsServe
<1>10. CASE scene = "routes" /\ RouteHandlers(r)
  BY <1>10, RoutesServe
<1>11. QED
  BY <1>1, <1>2, <1>3, <1>4, <1>5, <1>6, <1>7, <1>8, <1>9, <1>10 DEF Arrive

LEMMA ArriveServes ==
  ASSUME RecordsInv, NEW r \in Requests, Arrive(r)
  PROVE  Serves(r, scene)
<1>1. Tends(r, scene) => Serves(r, scene)
  BY WithinMore DEF Tends, Serves, TablesOf
<1>2. QED
  BY <1>1, ArriveTends, SigningKeyServes, ConfigServes, ResetServes

----------------------------------------------------------------------------
(* The scene: requests of other components are not there, and their tables *)
(* are empty or left as they were.                                         *)

Elsewhere(t) == scene \in Components => t \notin TablesOf(scene) \cup {"domains", "dns_records", "domain_webhooks"}
Scoped ==
  /\ \A r \in Requests : asked[r] # NotAsked =>
       scene \in Components /\ asked[r].kind \in KindsOf(scene) /\ Confined(r, todo[r], TablesOf(scene))
  /\ \A t \in Tables \ {"config"} : Elsewhere(t) => db[t] = {}

LEMMA BeginStarts ==
  ASSUME RecordsInv, NEW r \in Requests, NEW a, NEW q, Begin(r, a, q), Started(r)
  PROVE  Starts(r, a, q)
<1>1. PICK b, p : Starts(r, b, p)
  BY DEF Started
<1>2. DOMAIN asked = Requests /\ DOMAIN todo = Requests
  BY DEF RecordsInv, Shapes
<1>3. asked' = [asked EXCEPT ![r] = a] /\ todo' = [todo EXCEPT ![r] = q]
  BY DEF Begin
<1>4. asked'[r] = b /\ todo'[r] = p
  BY <1>1, Starting
<1>5. QED
  BY <1>1, <1>2, <1>3, <1>4

LEMMA KindsThere ==
  ASSUME NEW c
  PROVE  "none" \notin KindsOf(c) \/ c \notin DOMAIN Duties
BY DEF KindsOf, Duties

LEMMA SeedsScoped ==
  ASSUME NEW c \in Components, NEW d \in Seeds(c), NEW t \in Tables \ {"config"},
         t \notin OwnOf(c) \cup {"domains", "dns_records", "domain_webhooks"}
  PROVE  d[t] = {}
<1>1. NoRows[t] = {} /\ DOMAIN NoRows = Tables
  BY TheTables DEF NoRows
<1>2. ASSUME NEW seeds, NEW e \in OnDomain(seeds), \A s \in seeds : s[t] = {} /\ DOMAIN s = Tables
      PROVE  e[t] = {}
  <2>1. PICK s \in seeds : e = [s EXCEPT !.domains = {Domain(<<"seed", 1>>, SendingDomain, TRUE)},
                                         !.dns_records = {DNSRecords(<<"seed", 1>>, <<"seed", 1>>, TRUE)}]
    BY <1>2 DEF OnDomain
  <2>2. QED
    BY <1>2, <2>1
<1>3. CASE c = "templates"
  BY <1>1, <1>3 DEF Seeds, TemplateSeeds, OwnOf, Duties
<1>4. CASE c = "webhooks" \/ c = "triggers"
  <2>1. t # "account_webhooks" /\ t # "domain_webhooks"
    BY <1>4 DEF OwnOf, Duties
  <2>2. \A s \in WebhookSeeds : s[t] = {} /\ DOMAIN s = Tables
    BY <1>1, <2>1, WebhooksSown DEF WebhookSeeds, Sown
  <2>3. QED
    BY <1>2, <1>4, <2>2 DEF Seeds
<1>5. CASE c = "domains"
  <2>1. t \notin {"domains", "dns_records", "smtp_credentials"}
    BY <1>5 DEF OwnOf, Duties
  <2>2. d = NoRows \/ \E name, login, v : d = DomainSeed(name, login, v)
    BY <1>5 DEF Seeds, DomainSeeds
  <2>3. QED
    BY <1>1, <2>1, <2>2 DEF DomainSeed
<1>6. CASE c = "ips"
  <2>1. t \notin {"ips", "ip_pools", "ip_pool_ips"}
    BY <1>6 DEF OwnOf, Duties
  <2>2. \A s \in IPSeeds : s[t] = {} /\ DOMAIN s = Tables
    BY <1>1, <2>1, IPsSown DEF IPSeeds, Sown
  <2>3. QED
    BY <1>2, <1>6, <2>2 DEF Seeds
<1>7. CASE c = "subaccounts"
  BY <1>1, <1>7 DEF Seeds, SubaccountSeeds, OwnOf, Duties
<1>8. CASE c = "keys"
  <2>1. t \notin {"api_keys", "managed_api_keys", "ip_allowlist_entries"}
    BY <1>8 DEF OwnOf, Duties
  <2>2. d = NoRows \/ \E value, ip : d = KeySeed(value, ip)
    BY <1>8 DEF Seeds, KeySeeds
  <2>3. QED
    BY <1>1, <2>1, <2>2 DEF KeySeed
<1>9. CASE c = "tags"
  BY <1>1, <1>9 DEF Seeds, TagSeeds, OwnOf, Duties
<1>10. CASE c = "routes"
  BY <1>1, <1>10 DEF Seeds, RouteSeeds, OwnOf, Duties
<1>11. QED
  BY <1>3, <1>4, <1>5, <1>6, <1>7, <1>8, <1>9, <1>10, ServiceAssumption DEF resetTables

LEMMA ScopedBegins == Init => Scoped
<1> SUFFICES ASSUME Init PROVE Scoped
  OBVIOUS
<1>1. PICK d : DatabaseInit(d) /\ (scene \in Components => d \in Seeds(scene))
                                /\ (scene \notin Components => d = NoRows)
  BY DEF Init
<1>2. db = d /\ \A r \in Requests : asked[r] = NotAsked
  BY <1>1 DEF DatabaseInit
<1>3. \A t \in Tables \ {"config"} : NoRows[t] = {}
  BY DEF NoRows
<1>4. QED
  BY <1>1, <1>2, <1>3, SeedsScoped DEF Scoped, Elsewhere, TablesOf

LEMMA ScopedArrives ==
  ASSUME RecordsInv, Scoped, NEW r \in Requests, Arrive(r), scene' = scene
  PROVE  Scoped'
<1>1. PICK a, q : Begin(r, a, q) /\ a.kind \in KindsOf(scene) /\ Confined(r, q, TablesOf(scene))
  BY ArriveServes DEF Serves, Within
<1>2. Starts(r, a, q)
  BY <1>1, ArriveStarts, BeginStarts
<1>3. /\ asked'[r] = a /\ todo'[r] = q /\ db' = db
      /\ \A s \in Requests \ {r} : asked'[s] = asked[s] /\ todo'[s] = todo[s]
  BY <1>2, Starting
<1>4. scene \in Components
  BY DEF Arrive
<1>5. QED
  BY <1>1, <1>3, <1>4 DEF Scoped, Elsewhere

LEMMA ScopedContinues ==
  ASSUME RecordsInv, Scoped, NEW r \in Requests, Outcome(r), scene' = scene
  PROVE  Scoped'
<1>1. asked[r] # NotAsked
  BY Active DEF Outcome
<1>2. Confined(r, todo'[r], TablesOf(scene))
  <2>1. \A p \in WillOf(r, todo'[r]) : p \in Will(r) \/ p.table = "webhook_deliveries"
    BY DEF Outcome, ProgramAfter, Records
  <2>2. "webhook_deliveries" \in TablesOf(scene)
    BY DEF TablesOf
  <2>3. QED
    BY <1>1, <2>1, <2>2 DEF Scoped, Confined, Will
<1>3. ASSUME NEW t \in Tables \ {"config"}, Elsewhere(t)
      PROVE  db'[t] = {}
  <2>1. db[t] = {}
    BY <1>3 DEF Scoped
  <2>2. db'[t] = db[t] \/ \E p \in Will(r) : p.table = t
    BY DEF Outcome, TablesAfter, Ran
  <2>3. QED
    BY <1>1, <1>3, <2>1, <2>2 DEF Scoped, Elsewhere, Confined, Will
<1>4. QED
  BY <1>1, <1>2, <1>3 DEF Scoped, Outcome, Elsewhere

----------------------------------------------------------------------------
(* A step of the service: a request arrives, takes its next step, or the   *)
(* database and its requests stay as they are.                             *)

Settled == Steady /\ Scoped
Idle    == UNCHANGED dbVars /\ scene' = scene

LEMMA ServiceSteps ==
  [Next]_vars => scene' = scene /\ (Idle \/ \E q \in Requests : Arrive(q) \/ Continue(q))
BY DEF Next, vars, Idle

LEMMA SettledBegins == Init => Settled
BY ServiceBegins, ScopedBegins DEF Settled

LEMMA SettledSteps == Settled /\ [Next]_vars => Settled'
<1> SUFFICES ASSUME Steady, Scoped, [Next]_vars PROVE Scoped'
  BY ServiceSteady DEF Settled
<1>1. RecordsInv /\ scene' = scene /\ (Idle \/ \E q \in Requests : Arrive(q) \/ Continue(q))
  BY ServiceSteps DEF Steady
<1>2. CASE Idle
  BY <1>1, <1>2 DEF Idle, dbVars, Scoped, Elsewhere
<1>3. ASSUME NEW q \in Requests, Arrive(q) PROVE Scoped'
  BY <1>1, <1>3, ScopedArrives
<1>4. ASSUME NEW q \in Requests, Continue(q) PROVE Scoped'
  BY <1>1, <1>4, OutcomeOfContinue, ScopedContinues
<1>5. QED
  BY <1>1, <1>2, <1>3, <1>4

----------------------------------------------------------------------------
(* One step of one statement.                                              *)

Applied(r, s) ==
  /\ DOMAIN db' = Tables /\ db'[s.table] = Apply(Prim(s), db[s.table])
  /\ \A t \in Tables \ {s.table} : db'[t] = db[t]
  /\ todo'[r] = Tail(todo[r]) /\ failed' = failed
Missed(r, s) ==
  /\ s.do = "save" /\ db' = db /\ failed' = failed
  /\ todo'[r] = <<[s EXCEPT !.do = "put"]>> \o Tail(todo[r])
Refused(r, s) ==
  /\ s.do = "put" \/ s.do = "save"
  /\ ~Indexed(Put(db[s.table], s.row), s.table) /\ db' = db
  /\ \/ s.strict /\ todo'[r] = << >> /\ failed' = failed \cup {r}
     \/ ~s.strict /\ todo'[r] = Tail(todo[r]) /\ failed' = failed

LEMMA SimpleStep ==
  ASSUME RecordsInv, NEW r \in Requests, Continue(r), Head(todo[r]).do \in Simple
  PROVE  Applied(r, Head(todo[r])) \/ Missed(r, Head(todo[r])) \/ Refused(r, Head(todo[r]))
<1> DEFINE s == Head(todo[r])
           p == Prim(s)
<1>1. Write(r) \/ SaveMisses(r)
  <2>1. s.do # "test" /\ s.do # "collect" /\ s.do # "deliver" /\ s.do # "issue" /\ s.do # "ensure" /\ s # Invalid
    BY DEF Simple, Invalid
  <2>2. QED
    BY <2>1 DEF Continue, Execute, Test, Collect, Deliver, Issue, EnsureTag, RefuseSection
<1>2. todo[r] # << >>
  BY <1>1 DEF Write, SaveMisses
<1>3. CASE SaveMisses(r)
  <2>1. todo' = [todo EXCEPT ![r] = <<[s EXCEPT !.do = "put"]>> \o Tail(@)] /\ s.do = "save"
        /\ db' = db /\ failed' = failed
    BY <1>3 DEF SaveMisses
  <2>2. todo'[r] = <<[s EXCEPT !.do = "put"]>> \o Tail(todo[r])
    BY <1>2, <2>1, Situation
  <2>3. QED
    BY <2>1, <2>2 DEF Missed
<1>4. CASE Write(r)
  <2>1. p \in Will(r) /\ Sane(p) /\ p.table = s.table /\ s.table \in Tables
    BY <1>2, Situation, LeadsOfSimple, PrimOf DEF Sane
  <2>2. /\ DOMAIN Result(s) = Tables /\ Result(s)[s.table] = Apply(p, db[s.table])
        /\ \A t \in Tables \ {s.table} : Result(s)[t] = db[t]
    BY <1>2, <2>1, Situation, EffectIsApply DEF Result, Simple
  <2>3. Writes(s) = {s.table}
    BY DEF Writes, Simple
  <2>4. CASE Indexed(Result(s)[s.table], s.table)
    <3>1. db' = Result(s) /\ todo'[r] = Tail(todo[r]) /\ failed' = failed
      BY <1>2, <1>4, <2>3, <2>4, Situation DEF Write
    <3>2. QED
      BY <2>2, <3>1 DEF Applied
  <2>5. CASE ~Indexed(Result(s)[s.table], s.table)
    <3>1. /\ db' = db
          /\ \/ s.strict /\ todo'[r] = << >> /\ failed' = failed \cup {r}
             \/ ~s.strict /\ todo'[r] = Tail(todo[r]) /\ failed' = failed
      BY <1>2, <1>4, <2>3, <2>5, Situation DEF Write
    <3>2. p.do = "put"
      BY <1>2, <2>1, <2>2, <2>5, NeverRefused, Situation
    <3>3. (s.do = "put" \/ s.do = "save") /\ p.row = s.row
      BY <3>2, PrimOf
    <3>4. Apply(p, db[s.table]) = Put(db[s.table], s.row)
      BY <3>2, <3>3 DEF Apply
    <3>5. QED
      BY <2>2, <2>5, <3>1, <3>3, <3>4 DEF Refused
  <2>6. QED
    BY <2>4, <2>5
<1>5. QED
  BY <1>1, <1>3, <1>4

\* A request that ignores its errors.
Lenient(r) == \A s \in Elements(todo[r]) : s.do \in Simple /\ (s.do \in {"put", "save"} => ~s.strict)

\* What it has left is one statement, that stores a row.
OnlyStores(q, t, row) ==
  \E s : /\ q = <<s>> /\ s.do \in {"put", "save"} /\ {"do", "table", "row", "strict"} \subseteq DOMAIN s
         /\ s.table = t /\ s.row = row /\ ~s.strict
StoresOne(r, t, row) == OnlyStores(todo[r], t, row)

LEMMA OneLeft ==
  ASSUME NEW s
  PROVE  Head(<<s>>) = s /\ Tail(<<s>>) = << >> /\ <<s>> # << >>
OBVIOUS

\* The row is stored, or an index refuses it, or it is tried once more.
LEMMA StoreStep ==
  ASSUME RecordsInv, NEW r \in Requests, Continue(r), NEW t, NEW row, StoresOne(r, t, row)
  PROVE  /\ failed' = failed
         /\ \/ todo'[r] = << >> /\ db'[t] = Put(db[t], row)
            \/ todo'[r] = << >> /\ db' = db /\ ~Indexed(Put(db[t], row), t)
            \/ StoresOne(r, t, row)' /\ db' = db
<1>1. PICK s : /\ todo[r] = <<s>> /\ s.do \in {"put", "save"} /\ {"do", "table", "row", "strict"} \subseteq DOMAIN s
               /\ s.table = t /\ s.row = row /\ ~s.strict
  BY DEF StoresOne, OnlyStores
<1>2. Head(todo[r]) = s /\ Tail(todo[r]) = << >>
  BY <1>1, OneLeft
<1>3. Applied(r, s) \/ Missed(r, s) \/ Refused(r, s)
  BY <1>1, <1>2, SimpleStep DEF Simple
<1>4. CASE Applied(r, s)
  <2>1. Apply(Prim(s), db[t]) = Put(db[t], row)
    BY <1>1, PrimOf DEF Apply, Simple
  <2>2. QED
    BY <1>1, <1>2, <1>4, <2>1 DEF Applied
<1>5. CASE Missed(r, s)
  <2> DEFINE u == [s EXCEPT !.do = "put"]
  <2>1. /\ u.do = "put" /\ DOMAIN u = DOMAIN s /\ u.table = t /\ u.row = row /\ u.strict = s.strict
    BY <1>1
  <2>2. todo'[r] = <<u>> \o << >>
    BY <1>2, <1>5 DEF Missed
  <2> HIDE DEF u
  <2>3. <<u>> \o << >> = <<u>>
    OBVIOUS
  <2>4. StoresOne(r, t, row)'
    BY <1>1, <2>1, <2>2, <2>3 DEF StoresOne, OnlyStores
  <2>5. QED
    BY <1>5, <2>4 DEF Missed
<1>6. CASE Refused(r, s)
  BY <1>1, <1>2, <1>6 DEF Refused
<1>7. QED
  BY <1>3, <1>4, <1>5, <1>6

----------------------------------------------------------------------------
(* Rivals: requests on the same object that were not over when r began.    *)

Rival(s, r, K)  == /\ s # r /\ AskedFor(s, K)
                   /\ asked[s].on \in {asked[r].on, "all"} /\ ~Preceded(s, r)
HasRival(r, K)  == \E s \in Requests : Rival(s, r, K)

LEMMA RivalsContinue ==
  ASSUME RecordsInv, NEW q, Outcome(q), NEW r, NEW K
  PROVE  HasRival(r, K)' <=> HasRival(r, K)
BY DEF HasRival, Rival, AskedFor, Preceded, Outcome

LEMMA RivalsArrive ==
  ASSUME RecordsInv, NEW q, NEW a, NEW p, Starts(q, a, p), NEW r \in Requests \ {q}, NEW K, "none" \notin K, HasRival(r, K)
  PROVE  HasRival(r, K)'
<1>1. PICK s \in Requests : Rival(s, r, K)
  BY DEF HasRival
<1>2. s # q
  BY <1>1, Starting DEF Rival, AskedFor, NotAsked, Ask
<1>3. asked'[s] = asked[s] /\ asked'[r] = asked[r]
  BY <1>2, Starting
<1>4. ~Preceded(s, r)'
  BY <1>1, StartingAnswers DEF Rival
<1>5. Rival(s, r, K)'
  BY <1>1, <1>3, <1>4 DEF Rival, AskedFor
<1>6. QED
  BY <1>5 DEF HasRival

\* One that is running is one.
LEMMA RunningRival ==
  ASSUME RecordsInv, NEW q \in Requests, todo[q] # << >>, NEW r, q # r, NEW K, AskedFor(q, K),
         asked[q].on = asked[r].on \/ asked[q].on = "all"
  PROVE  HasRival(r, K)
BY Active DEF HasRival, Rival

----------------------------------------------------------------------------
(* Sending limits.                                                         *)

LimitKinds == {"SetSendingLimit", "RemoveSendingLimit", "ResetAll"}

\* Who writes a limit, and on which subaccount.
SetsLimit(r, a, row) == a.kind = "SetSendingLimit" /\ row.limit = r /\ row.subaccount[1] = a.on
DropsLimit(a, p) ==
  \/ /\ a.kind = "RemoveSendingLimit"
     /\ DOMAIN p.where = {"id"} /\ <<"sending_limits", p.where.id>> \in a.gone
  \/ a.kind = "ResetAll" /\ a.on = "all"
LimitRole(r, a, p) == \/ p.do = "put" /\ SetsLimit(r, a, p.row)
                      \/ p.do = "purge" /\ DropsLimit(a, p)
LimitRoles == \A r \in Requests : \A p \in Will(r) : p.table = "sending_limits" => LimitRole(r, asked[r], p)

\* The limit that is being removed is one of the subaccount.
LimitAim(a) ==
  a.kind = "RemoveSendingLimit" =>
    \A x \in Copies("sending_limits") : <<"sending_limits", x.id>> \in a.gone => x.subaccount[1] = a.on
LimitsAimed == \A r \in Requests : LimitAim(asked[r])

\* A limit that is being set is still to be stored, is there, or has a rival.
LimitFits(r, a, row) == SetsLimit(r, a, row) /\ \A x \in db["sending_limits"] : x.subaccount = row.subaccount => x.id = row.id
LimitPending(r) == \E row : StoresOne(r, "sending_limits", row) /\ LimitFits(r, asked[r], row)
LimitThere(r) == \E l \in db["sending_limits"] : l.subaccount[1] = asked[r].on /\ l.limit = r

LimitInv ==
  scene = "subaccounts" =>
    /\ LimitRoles /\ LimitsAimed
    /\ \A x \in db["sending_limits"] : ~x.dead
    /\ \A r \in Requests : AskedFor(r, {"SetSendingLimit"}) =>
         HasRival(r, LimitKinds) \/ LimitPending(r) \/ LimitThere(r)

LEMMA LimitColumns ==
  /\ "sending_limits" \in Tables /\ "sending_limits" # "config" /\ "sending_limits" # "webhook_deliveries"
  /\ Columns("sending_limits") = {"id", "subaccount", "limit", "dead"}
  /\ Fixed("sending_limits") = {"id", "subaccount"}
  /\ UniqueIndex["sending_limits"] = {{"subaccount"}}
BY DEF Tables, UniqueIndex, Columns, Fixed, Saved, Marked, Schema

\* A row that is put over one of the same id is one of the same subaccount.
LEMMA LimitPutOver ==
  ASSUME RecordsInv, NEW r \in Requests, NEW p \in Will(r), p.do = "put", p.table = "sending_limits",
         NEW x \in db["sending_limits"], x.id = p.row.id
  PROVE  x.subaccount = p.row.subaccount
<1>1. by(p.row) # r
  <2>1. ASSUME by(p.row) = r PROVE FALSE
    <3>1. Key("sending_limits", p.row) \in IdsOf(r, todo[r])
      BY <2>1, MineIsUnborn DEF Will
    <3>2. x \in Copies("sending_limits")
      BY DEF Copies
    <3>3. QED
      BY <3>1, <3>2, BornUnseen, LimitColumns
  <2>2. QED
    BY <2>1
<1>2. p.row \in Copies("sending_limits") /\ x \in Copies("sending_limits")
  BY <1>1 DEF Copies, Held
<1>3. \A c \in Fixed("sending_limits") : x[c] = p.row[c]
  BY <1>2, LimitColumns DEF RecordsInv, Alike
<1>4. QED
  BY <1>3, LimitColumns

LEMMA LimitThereOn ==
  ASSUME RecordsInv, LimitRoles, LimitsAimed, NEW q, Outcome(q), NEW r \in Requests, AskedFor(r, {"SetSendingLimit"}),
         LimitThere(r)
  PROVE  HasRival(r, LimitKinds) \/ LimitThere(r)'
<1> DEFINE t == "sending_limits"
<1>1. PICK l \in db[t] : l.subaccount[1] = asked[r].on /\ l.limit = r
  BY DEF LimitThere
<1>2. q \in Requests /\ todo[q] # << >> /\ asked' = asked /\ (db'[t] = db[t] \/ \E p \in Will(q) : Ran(q, p, t))
  BY LimitColumns DEF Outcome, TablesAfter
<1>3. CASE l \in db'[t]
  BY <1>1, <1>2, <1>3 DEF LimitThere
<1>4. CASE l \notin db'[t]
  <2>1. PICK p \in Will(q) : p.table = t /\ db'[t] = Apply(p, db[t])
    BY <1>1, <1>2, <1>4 DEF Ran
  <2>2. Sane(p) /\ RowsOf(t, db[t]) /\ LimitRole(q, asked[q], p)
    BY <1>2, <2>1, Situation, LimitColumns DEF LimitRoles
  <2>3. \/ p.do = "put" /\ l.id = p.row.id /\ p.row \in db'[t] /\ SetsLimit(q, asked[q], p.row)
        \/ p.do = "purge" /\ Fits(l, p.where) /\ DropsLimit(asked[q], p)
    BY <1>1, <1>4, <2>1, <2>2, RowsAfter DEF LimitRole
  <2>4. CASE p.do = "put" /\ l.id = p.row.id /\ p.row \in db'[t] /\ SetsLimit(q, asked[q], p.row)
    <3>1. p.row.subaccount = l.subaccount
      BY <1>1, <1>2, <2>1, <2>4, LimitPutOver
    <3>2. asked[q].on = asked[r].on /\ AskedFor(q, LimitKinds)
      BY <1>1, <2>4, <3>1 DEF SetsLimit, AskedFor, LimitKinds
    <3>3. CASE q = r
      BY <1>2, <2>4, <3>3 DEF LimitThere, SetsLimit
    <3>4. QED
      BY <1>2, <3>2, <3>3, RunningRival
  <2>5. CASE p.do = "purge" /\ Fits(l, p.where) /\ DropsLimit(asked[q], p)
    <3>1. q # r /\ AskedFor(q, LimitKinds)
      BY <2>5 DEF DropsLimit, AskedFor, LimitKinds
    <3>2. asked[q].on = asked[r].on \/ asked[q].on = "all"
      <4>1. CASE asked[q].kind = "RemoveSendingLimit" /\ DOMAIN p.where = {"id"} /\ <<t, p.where.id>> \in asked[q].gone
        <5>1. l.id = p.where.id /\ l \in Copies(t)
          BY <1>1, <2>5, <4>1 DEF Fits, Copies
        <5>2. QED
          BY <1>1, <1>2, <4>1, <5>1 DEF LimitsAimed, LimitAim
      <4>2. QED
        BY <2>5, <4>1 DEF DropsLimit
    <3>3. QED
      BY <1>2, <3>1, <3>2, RunningRival
  <2>6. QED
    BY <2>3, <2>4, <2>5
<1>5. QED
  BY <1>3, <1>4

LEMMA LimitPendingOn ==
  ASSUME RecordsInv, LimitRoles, NEW q \in Requests, Continue(q), Outcome(q), NEW r \in Requests, AskedFor(r, {"SetSendingLimit"}),
         LimitPending(r)
  PROVE  HasRival(r, LimitKinds) \/ LimitPending(r)' \/ LimitThere(r)'
<1> DEFINE t == "sending_limits"
<1>1. PICK row : StoresOne(r, t, row) /\ LimitFits(r, asked[r], row)
  BY DEF LimitPending
<1>2. todo[q] # << >> /\ asked' = asked
  BY DEF Outcome
<1>3. CASE q = r
  <2>1. Indexed(Put(db[t], row), t)
    <3>1. Indexed(db[t], t)
      BY LimitColumns DEF RecordsInv, DatabaseTypeOK
    <3>2. QED
      BY <1>1, <3>1, LimitColumns DEF Indexed, Put, LimitFits
  <2>2. (todo'[r] = << >> /\ db'[t] = Put(db[t], row)) \/ (StoresOne(r, t, row)' /\ db' = db)
    BY <1>1, <1>3, <2>1, StoreStep
  <2>3. CASE db'[t] = Put(db[t], row)
    BY <1>1, <1>2, <2>3 DEF LimitThere, LimitFits, SetsLimit, Put
  <2>4. CASE StoresOne(r, t, row)' /\ db' = db
    BY <1>1, <1>2, <2>4 DEF LimitPending, LimitFits, SetsLimit
  <2>5. QED
    BY <2>2, <2>3, <2>4
<1>4. CASE q # r
  <2>1. StoresOne(r, t, row)'
    BY <1>1, <1>4 DEF Outcome, StoresOne
  <2>2. CASE \A x \in db'[t] : x.subaccount = row.subaccount => x.id = row.id
    BY <1>1, <1>2, <2>1, <2>2 DEF LimitPending, LimitFits, SetsLimit
  <2>3. CASE \E x \in db'[t] : x.subaccount = row.subaccount /\ x.id # row.id
    <3>1. PICK x \in db'[t] : x.subaccount = row.subaccount /\ x.id # row.id
      BY <2>3
    <3>2. x \notin db[t]
      BY <1>1, <3>1 DEF LimitFits
    <3>3. Kept(t, x) \/ Stored(q, t, x) \/ Changed(q, t, x)
      BY <3>1, NewRows, LimitColumns
    <3>4. \A p \in Will(q) : p.table = t => LimitRole(q, asked[q], p)
      BY DEF LimitRoles
    <3>5. \E p \in Will(q) : SetsLimit(q, asked[q], x)
      BY <3>2, <3>3, <3>4 DEF Kept, Stored, Changed, LimitRole
    <3>6. asked[q].on = asked[r].on /\ AskedFor(q, LimitKinds)
      BY <1>1, <3>1, <3>5 DEF SetsLimit, LimitFits, AskedFor, LimitKinds
    <3>7. QED
      BY <1>2, <1>4, <3>6, RunningRival
  <2>4. QED
    BY <2>2, <2>3
<1>5. QED
  BY <1>3, <1>4

LEMMA LimitsContinue ==
  ASSUME RecordsInv, Scoped, LimitInv, NEW q \in Requests, Continue(q), scene' = scene
  PROVE  LimitInv'
<1> DEFINE t == "sending_limits"
<1> SUFFICES ASSUME scene = "subaccounts" PROVE LimitInv'
  BY DEF LimitInv
<1>1. Outcome(q) /\ asked' = asked
  BY OutcomeOfContinue DEF Outcome
<1>2. LimitRoles /\ LimitsAimed /\ (\A x \in db[t] : ~x.dead)
      /\ \A r \in Requests : AskedFor(r, {"SetSendingLimit"}) =>
           HasRival(r, LimitKinds) \/ LimitPending(r) \/ LimitThere(r)
  BY DEF LimitInv
<1>3. LimitRoles'
  <2>1. ASSUME NEW r \in Requests, NEW p \in WillOf(r, todo'[r]), p.table = t PROVE LimitRole(r, asked[r], p)
    <3>1. p \in Will(r)
      BY <1>1, <2>1, LimitColumns DEF Outcome, ProgramAfter, Records, Will
    <3>2. QED
      BY <1>2, <2>1, <3>1 DEF LimitRoles
  <2>2. QED
    BY <1>1, <2>1 DEF LimitRoles, Will, LimitRole, SetsLimit, DropsLimit
<1>4. LimitsAimed'
  <2>1. ASSUME NEW r \in Requests, asked[r].kind = "RemoveSendingLimit",
               NEW x \in Copies(t)', <<t, x.id>> \in asked[r].gone
        PROVE  x.subaccount[1] = asked[r].on
    <3>1. (\E y \in Copies(t) : Ancestor(t, x, y)) \/ Born(q, t, x)
      BY <1>1, <2>1, CopiesOn, LimitColumns
    <3>2. ~Born(q, t, x)
      BY <2>1, BornUnseen, LimitColumns DEF Born, Key
    <3>3. PICK y \in Copies(t) : Ancestor(t, x, y)
      BY <3>1, <3>2
    <3>4. y.id = x.id /\ y.subaccount = x.subaccount
      BY <3>3, LimitColumns DEF Ancestor
    <3>5. QED
      BY <1>2, <2>1, <3>3, <3>4 DEF LimitsAimed, LimitAim
  <2>2. QED
    BY <1>1, <2>1 DEF LimitsAimed, LimitAim
<1>5. ASSUME NEW x \in db'[t] PROVE ~x.dead
  <2>1. Kept(t, x) \/ Stored(q, t, x) \/ Changed(q, t, x)
    BY <1>1, NewRows, LimitColumns
  <2>2. CASE Kept(t, x)
    BY <1>2, <2>2 DEF Kept
  <2>3. CASE Stored(q, t, x)
    BY <1>1, <2>3, Situation DEF Stored, Outcome, Sane
  <2>4. CASE Changed(q, t, x)
    BY <1>2, <2>4 DEF Changed, LimitRoles, LimitRole
  <2>5. QED
    BY <2>1, <2>2, <2>3, <2>4
<1>6. ASSUME NEW r \in Requests, AskedFor(r, {"SetSendingLimit"})'
      PROVE  HasRival(r, LimitKinds)' \/ LimitPending(r)' \/ LimitThere(r)'
  <2>1. AskedFor(r, {"SetSendingLimit"})
    BY <1>1, <1>6 DEF AskedFor
  <2>2. HasRival(r, LimitKinds) \/ LimitPending(r) \/ LimitThere(r)
    BY <1>2, <2>1
  <2>3. HasRival(r, LimitKinds) => HasRival(r, LimitKinds)'
    BY <1>1, RivalsContinue
  <2>4. QED
    BY <1>1, <1>2, <2>1, <2>2, <2>3, LimitThereOn, LimitPendingOn
<1>7. QED
  BY <1>3, <1>4, <1>5, <1>6 DEF LimitInv

\* What the reset is asked, and does.
Empties(r, a, q) == /\ a.kind = "ResetAll" /\ a.on = "all"
                    /\ \A p \in WillOf(r, q) : p.table # "config" => p.do = "purge"
EmptiesFirst(q, c) == /\ \A s \in Elements(q) : s.do \in Simple /\ (s.table # "config" => s.do = "purge")
                      /\ q # << >> /\ Head(q) = Purge(resetTables[c][1], All)

LEMMA ResetEmpties ==
  ASSUME NEW r, NEW c \in DOMAIN resetTables, ResetAll(r, resetTables[c])
  PROVE  \E a, q : Begin(r, a, q) /\ Empties(r, a, q) /\ EmptiesFirst(q, c)
<1> DEFINE tables == resetTables[c]
           n == Len(tables)
           f == [i \in 1..n |-> Purge(tables[i], All)]
           u == SetConfig(DefaultConfig)
           gone == UNION {{<<t, x.id>> : x \in db[t]} : t \in ToSet(tables)}
           b == AskSave("ResetAll", "all", "config", Config, DefaultConfig)
           a == [b EXCEPT !.gone = gone]
<1>1. tables \in Seq(Tables \ {"config"}) /\ Len(tables) > 0
  <2>1. tables # << >>
    BY DEF resetTables
  <2> HIDE DEF tables
  <2>2. tables \in Seq(Tables \ {"config"})
    BY ResetTablesAre DEF tables
  <2>3. QED
    BY <2>1, <2>2, HeadTailProperties
<1>2. n \in Nat \ {0} /\ DOMAIN tables = 1..n /\ tables[1] = resetTables[c][1]
  BY <1>1
<1>3. Begin(r, a, f \o <<u>>)
  BY <1>1, <1>2 DEF ResetAll
<1>4. a.kind = "ResetAll" /\ a.on = "all"
  <2>1. b.kind = "ResetAll" /\ b.on = "all"
    BY AskKinds
  <2>2. a.kind = b.kind /\ a.on = b.on
    BY DEF AskSave, Ask
  <2>3. QED
    BY <2>1, <2>2
<1>5. u.do \in Simple /\ u.table = "config"
  BY StatementTables DEF SetConfig, OneTable
<1> HIDE DEF a, u, tables, n
<1>6. IsList(f, n)
  BY <1>2 DEF IsList
<1>7. (\A i \in 1..n : f[i].do = "purge") /\ f[1] = Purge(tables[1], All) /\ 1 \in 1..n
  BY <1>2 DEF Purge
<1> HIDE DEF f
<1>8. IsSequence(f) /\ DOMAIN f = 1..n /\ IsSequence(<<u>>) /\ Elements(<<u>>) = {u}
  BY <1>6, Listed, ElementsOfTuples DEF IsList
<1>9. \A s \in Elements(f) : s.do = "purge"
  BY <1>7, <1>8 DEF Elements
<1>10. Elements(f \o <<u>>) = Elements(f) \cup {u}
  BY <1>8, ConcatOf
<1>11. ASSUME NEW p \in WillOf(r, f \o <<u>>), p.table # "config" PROVE p.do = "purge"
  <2>1. PICK s \in Elements(f \o <<u>>) : p \in Leads(r, s)
    BY <1>11 DEF WillOf
  <2>2. CASE s = u
    BY <1>5, <1>11, <2>1, <2>2, LeadsOfSimple, PrimOf
  <2>3. CASE s \in Elements(f)
    BY <1>9, <2>1, <2>3, LeadsOfSimple DEF Simple, Prim
  <2>4. QED
    BY <1>10, <2>1, <2>2, <2>3
<1>12. EmptiesFirst(f \o <<u>>, c)
  <2>1. \A s \in Elements(f \o <<u>>) : s.do \in Simple /\ (s.table # "config" => s.do = "purge")
    BY <1>5, <1>9, <1>10 DEF Simple
  <2>2. Head(f \o <<u>>) = f[1] /\ f \o <<u>> # << >>
    BY <1>2, <1>8 DEF IsSequence
  <2>3. QED
    BY <1>2, <1>7, <2>1, <2>2 DEF EmptiesFirst
<1>13. QED
  BY <1>3, <1>4, <1>11, <1>12 DEF Empties

LEMMA WillOne ==
  ASSUME NEW r, NEW s, NEW t, OneTable(s, t)
  PROVE  WillOf(r, <<s>>) = {Prim(s)} /\ Prim(s).table = t
<1>1. Elements(<<s>>) = {s}
  BY ElementsOfTuples
<1>2. Leads(r, s) = {Prim(s)} /\ Prim(s).table = t
  BY LeadsOfSimple, PrimOf DEF OneTable
<1>3. QED
  BY <1>1, <1>2 DEF WillOf

LEMMA OnlyOne ==
  /\ \A t, row : OnlyStores(<<TryInsert(t, row)>>, t, row)
  /\ \A t, row : OnlyStores(<<Save(t, row)>>, t, row)
<1>1. \A t, row : LET s == TryInsert(t, row) IN
        s.do = "put" /\ DOMAIN s = {"do", "table", "row", "strict"} /\ s.table = t /\ s.row = row /\ ~s.strict
  BY DEF TryInsert
<1>2. \A t, row : LET s == Save(t, row) IN
        s.do = "save" /\ DOMAIN s = {"do", "table", "row", "strict"} /\ s.table = t /\ s.row = row /\ ~s.strict
  BY DEF Save
<1>3. QED
  BY <1>1, <1>2 DEF OnlyStores

LimitAsk(r, a, q) ==
  /\ \A p \in WillOf(r, q) : p.table = "sending_limits" => LimitRole(r, a, p)
  /\ LimitAim(a)
  /\ a.kind = "SetSendingLimit" => \E row : OnlyStores(q, "sending_limits", row) /\ LimitFits(r, a, row)

LEMMA LimitAskOther ==
  ASSUME NEW r, NEW a, NEW s, OneTable(s, "subaccounts"), a.kind \notin LimitKinds
  PROVE  LimitAsk(r, a, <<s>>)
<1>1. \A p \in WillOf(r, <<s>>) : p.table = "subaccounts"
  BY WillOne
<1>2. QED
  BY <1>1 DEF LimitAsk, LimitAim, LimitKinds

LEMMA LimitAskSet ==
  ASSUME NEW r, NEW a, a.kind = "SetSendingLimit", NEW row, LimitFits(r, a, row),
         NEW s \in {TryInsert("sending_limits", row), Save("sending_limits", row)}
  PROVE  LimitAsk(r, a, <<s>>)
<1>1. OneTable(s, "sending_limits") /\ OnlyStores(<<s>>, "sending_limits", row)
      /\ s.row = row /\ s.do \in {"put", "save"}
  BY StatementTables, OnlyOne DEF TryInsert, Save
<1>2. \A p \in WillOf(r, <<s>>) : p.do = "put" /\ p.row = row
  BY <1>1, WillOne, PrimOf DEF OneTable
<1>3. QED
  BY <1>1, <1>2 DEF LimitAsk, LimitAim, LimitRole, LimitFits

LEMMA LimitAsked ==
  ASSUME RecordsInv, \A x \in db["sending_limits"] : ~x.dead, NEW r,
         SubaccountHandlers(r) \/ ResetAll(r, resetTables["subaccounts"])
  PROVE  \E a, q : Begin(r, a, q) /\ LimitAsk(r, a, q)
<1> DEFINE t == "sending_limits"
<1>0. \A k \in {"CreateSubaccount", "DeleteSubaccount", "UpdateFeatures", "DisableSubaccount",
                "EnableSubaccount"} : k \notin LimitKinds
  BY DEF LimitKinds
<1>1. CASE CreateSubaccount(r)
  <2>1. Begin(r, Ask("CreateSubaccount", r), <<Insert("subaccounts", Subaccount(<<r, 1>>))>>)
    BY <1>1 DEF CreateSubaccount
  <2>2. QED
    BY <1>0, <2>1, AskKinds, StatementTables, LimitAskOther
<1>2. CASE DeleteSubaccount(r)
  <2>1. PICK x : Begin(r, AskDelete("DeleteSubaccount", by(x), "subaccounts", {x}),
                       <<Purge("subaccounts", [id |-> x.id])>>)
    BY <1>2 DEF DeleteSubaccount
  <2>2. AskDelete("DeleteSubaccount", by(x), "subaccounts", {x}).kind = "DeleteSubaccount"
    BY AskKinds
  <2>3. OneTable(Purge("subaccounts", [id |-> x.id]), "subaccounts")
    BY StatementTables
  <2>4. QED
    BY <1>0, <2>1, <2>2, <2>3, LimitAskOther
<1>3. CASE UpdateFeatures(r) \/ DisableSubaccount(r) \/ EnableSubaccount(r)
  <2>1. PICK k, x, set : /\ k \in {"UpdateFeatures", "DisableSubaccount", "EnableSubaccount"}
                         /\ SaveSubaccount(r, k, x, set)
    BY <1>3 DEF UpdateFeatures, DisableSubaccount, EnableSubaccount
  <2> DEFINE a == AskSave(k, by(x), "subaccounts", x, set)
             s == Save("subaccounts", With(x, set))
  <2>2. Begin(r, a, <<s>>)
    BY <2>1 DEF SaveSubaccount
  <2>3. a.kind = k
    BY AskKinds
  <2>4. OneTable(s, "subaccounts")
    BY StatementTables
  <2> HIDE DEF a, s
  <2>5. QED
    BY <1>0, <2>1, <2>2, <2>3, <2>4, LimitAskOther
<1>4. CASE RemoveSendingLimit(r)
  <2>1. PICK l \in Live(t) : Begin(r, AskDelete("RemoveSendingLimit", l.subaccount[1], t, {l}),
                                   <<Purge(t, [id |-> l.id])>>)
    BY <1>4 DEF RemoveSendingLimit
  <2> DEFINE a == AskDelete("RemoveSendingLimit", l.subaccount[1], t, {l})
             s == Purge(t, [id |-> l.id])
  <2>2. a.kind = "RemoveSendingLimit" /\ a.on = l.subaccount[1]
    BY AskKinds
  <2>3. a.gone = {<<t, l.id>>}
    BY DEF AskDelete, Ask
  <2>4. OneTable(s, t) /\ s.do = "purge" /\ DOMAIN s.where = {"id"} /\ s.where.id = l.id
    BY StatementTables DEF Purge
  <2>5. l \in Copies(t)
    BY DEF Live, Copies
  <2> HIDE DEF a, s
  <2>6. \A p \in WillOf(r, <<s>>) : p = s
    BY <2>4, WillOne DEF Prim
  <2>7. LimitAim(a)
    <3>1. ASSUME NEW x \in Copies(t), x.id = l.id PROVE x.subaccount = l.subaccount
      BY <2>5, <3>1, LimitColumns DEF RecordsInv, Alike
    <3>2. QED
      BY <2>2, <2>3, <3>1 DEF LimitAim
  <2>8. LimitAsk(r, a, <<s>>)
    BY <2>2, <2>3, <2>4, <2>6, <2>7 DEF LimitAsk, LimitRole, DropsLimit
  <2>9. QED
    BY <2>1, <2>8 DEF a, s
<1>5. CASE SetSendingLimit(r)
  <2>1. PICK x : \/ \E l \in limitOf(x) :
                      Begin(r, AskSave("SetSendingLimit", by(x), t, l, [limit |-> r]),
                            <<Save(t, [l EXCEPT !.limit = r])>>)
                 \/ /\ limitOf(x) = {}
                    /\ Begin(r, Ask("SetSendingLimit", by(x)),
                             <<TryInsert(t, SendingLimit(<<r, 1>>, x.id, r))>>)
    BY <1>5 DEF SetSendingLimit
  <2>2. CASE \E l \in limitOf(x) : Begin(r, AskSave("SetSendingLimit", by(x), t, l, [limit |-> r]),
                                         <<Save(t, [l EXCEPT !.limit = r])>>)
    <3>1. PICK l \in limitOf(x) : Begin(r, AskSave("SetSendingLimit", by(x), t, l, [limit |-> r]),
                                         <<Save(t, [l EXCEPT !.limit = r])>>)
      BY <2>2
    <3> DEFINE a == AskSave("SetSendingLimit", by(x), t, l, [limit |-> r])
               row == [l EXCEPT !.limit = r]
    <3>2. a.kind = "SetSendingLimit" /\ a.on = by(x)
      BY AskKinds
    <3>3. l \in db[t] /\ l.subaccount = x.id
      BY DEF limitOf, Select, Live, Fits
    <3>4. DOMAIN l = Columns(t) /\ Indexed(db[t], t)
      BY <3>3, LimitColumns DEF RecordsInv, Shapes, DatabaseTypeOK
    <3>5. row.limit = r /\ row.subaccount = x.id /\ row.id = l.id
      BY <3>3, <3>4, LimitColumns
    <3> HIDE DEF a, row
    <3>6. LimitFits(r, a, row)
      BY <3>2, <3>3, <3>4, <3>5, LimitColumns DEF LimitFits, SetsLimit, by, Indexed
    <3>7. LimitAsk(r, a, <<Save(t, row)>>)
      BY <3>2, <3>6, LimitAskSet
    <3>8. QED
      BY <3>1, <3>7 DEF a, row
  <2>3. CASE limitOf(x) = {} /\ Begin(r, Ask("SetSendingLimit", by(x)),
                                      <<TryInsert(t, SendingLimit(<<r, 1>>, x.id, r))>>)
    <3> DEFINE a == Ask("SetSendingLimit", by(x))
               row == SendingLimit(<<r, 1>>, x.id, r)
    <3>2. a.kind = "SetSendingLimit" /\ a.on = by(x)
      BY AskKinds
    <3>3. \A l \in db[t] : l.subaccount # x.id
      BY <2>3 DEF limitOf, Select, Live, Fits
    <3>4. row.limit = r /\ row.subaccount = x.id
      BY DEF SendingLimit
    <3>5. Begin(r, a, <<TryInsert(t, row)>>)
      BY <2>3
    <3> HIDE DEF a, row
    <3>6. LimitFits(r, a, row)
      BY <3>2, <3>3, <3>4 DEF LimitFits, SetsLimit, by
    <3>7. LimitAsk(r, a, <<TryInsert(t, row)>>)
      BY <3>2, <3>6, LimitAskSet
    <3>8. QED
      BY <3>5, <3>7
  <2>4. QED
    BY <2>1, <2>2, <2>3
<1>6. CASE ResetAll(r, resetTables["subaccounts"])
  <2>1. "subaccounts" \in DOMAIN resetTables
    BY DEF resetTables
  <2>2. PICK a, q : Begin(r, a, q) /\ Empties(r, a, q)
    BY <1>6, <2>1, ResetEmpties
  <2>3. LimitAsk(r, a, q)
    BY <2>2 DEF Empties, LimitAsk, LimitAim, LimitRole, DropsLimit
  <2>4. QED
    BY <2>2, <2>3
<1>7. QED
  BY <1>1, <1>2, <1>3, <1>4, <1>5, <1>6 DEF SubaccountHandlers

LEMMA LimitsArrive ==
  ASSUME RecordsInv, LimitInv, NEW q \in Requests, Arrive(q), scene' = scene
  PROVE  LimitInv'
<1> DEFINE t == "sending_limits"
<1> SUFFICES ASSUME scene = "subaccounts" PROVE LimitInv'
  BY DEF LimitInv
<1>1. SubaccountHandlers(q) \/ ResetAll(q, resetTables["subaccounts"])
  BY DEF Arrive
<1>2. LimitRoles /\ LimitsAimed /\ (\A x \in db[t] : ~x.dead)
      /\ \A r \in Requests : AskedFor(r, {"SetSendingLimit"}) =>
           HasRival(r, LimitKinds) \/ LimitPending(r) \/ LimitThere(r)
  BY DEF LimitInv
<1>3. PICK a, p : Begin(q, a, p) /\ LimitAsk(q, a, p)
  BY <1>1, <1>2, LimitAsked
<1>4. Starts(q, a, p)
  BY <1>3, ArriveStarts, BeginStarts
<1>5. /\ db' = db /\ asked'[q] = a /\ todo'[q] = p /\ WillOf(q, todo'[q]) = WillOf(q, p)
      /\ \A r \in Requests \ {q} : asked'[r] = asked[r] /\ todo'[r] = todo[r]
                                   /\ WillOf(r, todo'[r]) = Will(r)
  BY <1>4, Starting
<1>6. LimitRoles'
  <2>1. ASSUME NEW r \in Requests, NEW u \in WillOf(r, todo'[r]), u.table = t
        PROVE  LimitRole(r, asked'[r], u)
    <3>1. CASE r = q
      BY <1>3, <1>5, <2>1, <3>1 DEF LimitAsk
    <3>2. CASE r # q
      BY <1>2, <1>5, <2>1, <3>2 DEF LimitRoles
    <3>3. QED
      BY <3>1, <3>2
  <2>2. QED
    BY <2>1 DEF LimitRoles, Will, LimitRole, SetsLimit, DropsLimit
<1>7. LimitsAimed'
  <2>1. ASSUME NEW r \in Requests, asked'[r].kind = "RemoveSendingLimit",
               NEW x \in Copies(t)', <<t, x.id>> \in asked'[r].gone
        PROVE  x.subaccount[1] = asked'[r].on
    <3>1. PICK y \in Copies(t) : Ancestor(t, x, y)
      BY <1>4, <2>1, StartingCopies, LimitColumns
    <3>2. y.id = x.id /\ y.subaccount = x.subaccount
      BY <3>1, LimitColumns DEF Ancestor
    <3>3. LimitAim(asked'[r])
      BY <1>2, <1>3, <1>5 DEF LimitsAimed, LimitAsk
    <3>4. QED
      BY <2>1, <3>1, <3>2, <3>3 DEF LimitAim
  <2>2. QED
    BY <2>1 DEF LimitsAimed, LimitAim
<1>8. ASSUME NEW r \in Requests, AskedFor(r, {"SetSendingLimit"})'
      PROVE  HasRival(r, LimitKinds)' \/ LimitPending(r)' \/ LimitThere(r)'
  <2>1. CASE r = q
    <3>1. \E row : OnlyStores(p, t, row) /\ LimitFits(q, a, row)
      BY <1>3, <1>5, <1>8, <2>1 DEF LimitAsk, AskedFor
    <3>2. QED
      BY <1>5, <2>1, <3>1 DEF LimitPending, StoresOne, OnlyStores, LimitFits, SetsLimit
  <2>2. CASE r # q
    <3>1. asked'[r] = asked[r] /\ todo'[r] = todo[r] /\ AskedFor(r, {"SetSendingLimit"})
      BY <1>5, <1>8, <2>2 DEF AskedFor
    <3>2. HasRival(r, LimitKinds) \/ LimitPending(r) \/ LimitThere(r)
      BY <1>2, <3>1
    <3>3. HasRival(r, LimitKinds) => HasRival(r, LimitKinds)'
      BY <1>4, <2>2, RivalsArrive DEF LimitKinds
    <3>4. LimitPending(r) => LimitPending(r)'
      BY <1>5, <3>1 DEF LimitPending, StoresOne, OnlyStores, LimitFits, SetsLimit
    <3>5. LimitThere(r) => LimitThere(r)'
      BY <1>5, <3>1 DEF LimitThere
    <3>6. QED
      BY <3>2, <3>3, <3>4, <3>5
  <2>3. QED
    BY <2>1, <2>2
<1>9. QED
  BY <1>2, <1>5, <1>6, <1>7, <1>8 DEF LimitInv

LEMMA LimitsBegin == Init => LimitInv
<1> SUFFICES ASSUME Init, scene = "subaccounts" PROVE LimitInv
  BY DEF LimitInv
<1>1. PICK d : DatabaseInit(d) /\ (d \in SubaccountSeeds \/ d = NoRows)
  BY DEF Init, Seeds
<1>2. db = d /\ \A r \in Requests : asked[r] = NotAsked /\ todo[r] = << >>
  BY <1>1 DEF DatabaseInit
<1>3. d["sending_limits"] = {}
  BY <1>1, TheTables DEF SubaccountSeeds, NoRows
<1>4. \A r \in Requests : Will(r) = {} /\ asked[r].kind = "none"
  BY <1>2, NothingLeft DEF NotAsked, Ask
<1>5. QED
  BY <1>2, <1>3, <1>4 DEF LimitInv, LimitRoles, LimitsAimed, LimitAim, AskedFor

LEMMA LimitsImply ==
  ASSUME RecordsInv, Scoped, LimitInv
  PROVE  SendingLimitStands
<1> SUFFICES ASSUME NEW r \in Requests, AskedFor(r, {"SetSendingLimit"}), Answered(r)
             PROVE  \/ \E l \in Live("sending_limits") : l.subaccount[1] = asked[r].on /\ l.limit = r
                    \/ \E s \in Requests \ {r} :
                         /\ AskedFor(s, {"SetSendingLimit", "RemoveSendingLimit", "ResetAll"})
                         /\ asked[s].on \in {asked[r].on, "all"} /\ ~Preceded(s, r)
  BY DEF SendingLimitStands
<1>1. scene = "subaccounts"
  <2>1. scene \in Components /\ asked[r].kind \in KindsOf(scene)
    BY DEF Scoped, Answered
  <2>2. scene \in DOMAIN Duties
    BY <2>1, ServiceAssumption, ResetTablesOf
  <2>3. QED
    BY <2>1, <2>2 DEF AskedFor, KindsOf, Duties
<1>2. ~LimitPending(r)
  BY OneLeft DEF LimitPending, StoresOne, OnlyStores, Answered
<1>3. HasRival(r, LimitKinds) \/ LimitThere(r)
  BY <1>1, <1>2 DEF LimitInv
<1>4. QED
  BY <1>1, <1>3 DEF LimitInv, HasRival, Rival, LimitKinds, LimitThere, Live

LEMMA LimitsStep == Settled /\ LimitInv /\ [Next]_vars => LimitInv'
<1> SUFFICES ASSUME Settled, LimitInv, [Next]_vars PROVE LimitInv'
  OBVIOUS
<1>1. RecordsInv /\ Scoped /\ scene' = scene /\ (Idle \/ \E q \in Requests : Arrive(q) \/ Continue(q))
  BY ServiceSteps DEF Settled, Steady
<1>2. CASE Idle
  <2>1. db' = db /\ todo' = todo /\ asked' = asked /\ before' = before /\ scene' = scene
    BY <1>2 DEF Idle, dbVars
  <2>2. LimitRoles' = LimitRoles
    BY <2>1 DEF LimitRoles, Will, LimitRole, SetsLimit, DropsLimit
  <2>3. LimitsAimed' = LimitsAimed
    BY <2>1 DEF LimitsAimed, LimitAim, Copies, Held, Will
  <2>4. \A r : /\ HasRival(r, LimitKinds) => HasRival(r, LimitKinds)'
               /\ LimitPending(r) => LimitPending(r)'
               /\ LimitThere(r) => LimitThere(r)'
               /\ AskedFor(r, {"SetSendingLimit"})' => AskedFor(r, {"SetSendingLimit"})
    BY <2>1 DEF HasRival, Rival, AskedFor, Preceded, LimitPending, StoresOne, LimitFits, SetsLimit, LimitThere
  <2>5. QED
    BY <2>1, <2>2, <2>3, <2>4 DEF LimitInv
<1>3. ASSUME NEW q \in Requests, Arrive(q) PROVE LimitInv'
  BY <1>1, <1>3, LimitsArrive
<1>4. ASSUME NEW q \in Requests, Continue(q) PROVE LimitInv'
  BY <1>1, <1>4, LimitsContinue
<1>5. QED
  BY <1>1, <1>2, <1>3, <1>4

\* The limit a subaccount was last given is its limit, for any number of requests: a limit
\* that was set and answered "success" is only undone by a request that was not over before
\* it (subaccount/handlers.go:292, an upsert in two statements whose errors are ignored).
THEOREM LastLimitStands == Spec => []SendingLimitStands
<1>1. Settled /\ LimitInv => SendingLimitStands
  BY LimitsImply DEF Settled, Steady
<1>2. QED
  BY <1>1, SettledBegins, SettledSteps, LimitsBegin, LimitsStep, PTL DEF Spec

----------------------------------------------------------------------------
(* Managed keys.                                                           *)

KeyRemovers == {"DeleteManagedKey", "ResetAll"}
KeyRole(a, p) == \/ p.do = "put"
                 \/ p.do = "purge" /\ a.kind \in KeyRemovers /\ a.on \in {"managed", "all"}
KeyRoles == \A r \in Requests : \A p \in Will(r) : p.table = "managed_api_keys" => KeyRole(asked[r], p)

Issues(q) == \E s : q = <<s>> /\ s.do = "issue"
KeyThere(r) == \E k \in db["managed_api_keys"] : k.id = <<r, 1>>

KeyInv ==
  scene = "keys" =>
    /\ KeyRoles
    /\ \A x \in db["managed_api_keys"] : ~x.dead
    /\ \A r \in Requests : AskedFor(r, {"CreateManagedKey"}) =>
         /\ asked[r].on = "managed"
         /\ r \in failed \/ HasRival(r, KeyRemovers) \/ Issues(todo[r]) \/ KeyThere(r)

LEMMA KeyTable ==
  /\ "managed_api_keys" \in Tables /\ "managed_api_keys" # "config" /\ "managed_api_keys" # "webhook_deliveries"
  /\ UniqueIndex["managed_api_keys"] = {{"value"}}
BY DEF Tables, UniqueIndex

LEMMA KeyThereOn ==
  ASSUME RecordsInv, KeyRoles, NEW q, Outcome(q), NEW r \in Requests, AskedFor(r, {"CreateManagedKey"}),
         asked[r].on = "managed", KeyThere(r)
  PROVE  HasRival(r, KeyRemovers) \/ KeyThere(r)'
<1> DEFINE t == "managed_api_keys"
<1>1. PICK k \in db[t] : k.id = <<r, 1>>
  BY DEF KeyThere
<1>2. q \in Requests /\ todo[q] # << >> /\ (db'[t] = db[t] \/ \E p \in Will(q) : Ran(q, p, t))
  BY KeyTable DEF Outcome, TablesAfter
<1>3. CASE k \in db'[t]
  BY <1>1, <1>3 DEF KeyThere
<1>4. CASE k \notin db'[t]
  <2>1. PICK p \in Will(q) : p.table = t /\ db'[t] = Apply(p, db[t])
    BY <1>1, <1>2, <1>4 DEF Ran
  <2>2. Sane(p) /\ RowsOf(t, db[t]) /\ KeyRole(asked[q], p)
    BY <1>2, <2>1, Situation, KeyTable DEF KeyRoles
  <2>3. \/ p.do = "put" /\ k.id = p.row.id /\ p.row \in db'[t]
        \/ p.do = "purge"
    BY <1>1, <1>4, <2>1, <2>2, RowsAfter DEF KeyRole
  <2>4. CASE p.do = "put" /\ k.id = p.row.id /\ p.row \in db'[t]
    BY <1>1, <2>4 DEF KeyThere
  <2>5. CASE p.do = "purge"
    <3>1. q # r /\ AskedFor(q, KeyRemovers) /\ (asked[q].on = asked[r].on \/ asked[q].on = "all")
      BY <2>2, <2>5 DEF KeyRole, AskedFor, KeyRemovers
    <3>2. QED
      BY <1>2, <3>1, RunningRival
  <2>6. QED
    BY <2>3, <2>4, <2>5
<1>5. QED
  BY <1>3, <1>4

LEMMA IssuesOn ==
  ASSUME RecordsInv, NEW r \in Requests, Continue(r), Issues(todo[r])
  PROVE  r \in failed' \/ Issues(todo'[r]) \/ KeyThere(r)'
<1> DEFINE h == Head(todo[r])
           key == ManagedAPIKey(<<r, 1>>, h.value)
<1>1. h.do = "issue"
  BY OneLeft DEF Issues
<1>2. Issue(r)
  <2>1. h.do \notin {"put", "save", "update", "purge", "commit", "test", "collect", "deliver", "ensure"} /\ h # Invalid
    BY <1>1 DEF Invalid
  <2> HIDE DEF h
  <2>2. ~Write(r) /\ ~SaveMisses(r) /\ ~Test(r) /\ ~Collect(r) /\ ~Deliver(r) /\ ~EnsureTag(r)
        /\ ~RefuseSection(r)
    BY <2>1 DEF Write, SaveMisses, Test, Collect, Deliver, EnsureTag, RefuseSection, h
  <2>3. QED
    BY <2>2 DEF Continue, Execute
<1>3. DOMAIN todo = Requests /\ DOMAIN db = Tables
  BY DEF RecordsInv, Shapes, DatabaseTypeOK
<1>4. \/ db' = [db EXCEPT !.managed_api_keys = @ \cup {key}]
      \/ \E value \in KeyValues :
           todo' = [todo EXCEPT ![r] = <<[do |-> "issue", value |-> value, retry |-> FALSE]>>]
      \/ failed' = failed \cup {r}
  BY <1>2 DEF Issue
<1>5. CASE db' = [db EXCEPT !.managed_api_keys = @ \cup {key}]
  <2>1. key.id = <<r, 1>>
    BY DEF ManagedAPIKey
  <2> HIDE DEF key
  <2>2. key \in db'["managed_api_keys"]
    BY <1>3, <1>5, KeyTable
  <2>3. QED
    BY <2>1, <2>2 DEF KeyThere
<1>6. CASE \E value \in KeyValues :
             todo' = [todo EXCEPT ![r] = <<[do |-> "issue", value |-> value, retry |-> FALSE]>>]
  BY <1>3, <1>6 DEF Issues
<1>7. QED
  BY <1>4, <1>5, <1>6

LEMMA KeysContinue ==
  ASSUME RecordsInv, KeyInv, NEW q \in Requests, Continue(q), scene' = scene
  PROVE  KeyInv'
<1> DEFINE t == "managed_api_keys"
<1> SUFFICES ASSUME scene = "keys" PROVE KeyInv'
  BY DEF KeyInv
<1>1. Outcome(q) /\ asked' = asked
  BY OutcomeOfContinue DEF Outcome
<1>2. KeyRoles /\ (\A x \in db[t] : ~x.dead)
      /\ \A r \in Requests : AskedFor(r, {"CreateManagedKey"}) =>
           /\ asked[r].on = "managed"
           /\ r \in failed \/ HasRival(r, KeyRemovers) \/ Issues(todo[r]) \/ KeyThere(r)
  BY DEF KeyInv
<1>3. KeyRoles'
  <2>1. ASSUME NEW r \in Requests, NEW p \in WillOf(r, todo'[r]), p.table = t PROVE KeyRole(asked[r], p)
    <3>1. p \in Will(r)
      BY <1>1, <2>1, KeyTable DEF Outcome, ProgramAfter, Records, Will
    <3>2. QED
      BY <1>2, <2>1, <3>1 DEF KeyRoles
  <2>2. QED
    BY <1>1, <2>1 DEF KeyRoles, Will, KeyRole
<1>4. ASSUME NEW x \in db'[t] PROVE ~x.dead
  <2>1. Kept(t, x) \/ Stored(q, t, x) \/ Changed(q, t, x)
    BY <1>1, NewRows, KeyTable
  <2>2. CASE Kept(t, x)
    BY <1>2, <2>2 DEF Kept
  <2>3. CASE Stored(q, t, x)
    BY <1>1, <2>3, Situation DEF Stored, Outcome, Sane
  <2>4. CASE Changed(q, t, x)
    BY <1>2, <2>4 DEF Changed, KeyRoles, KeyRole
  <2>5. QED
    BY <2>1, <2>2, <2>3, <2>4
<1>5. ASSUME NEW r \in Requests, AskedFor(r, {"CreateManagedKey"})'
      PROVE  /\ asked'[r].on = "managed"
             /\ r \in failed' \/ HasRival(r, KeyRemovers)' \/ Issues(todo'[r]) \/ KeyThere(r)'
  <2>1. AskedFor(r, {"CreateManagedKey"}) /\ asked[r].on = "managed" /\ asked'[r].on = "managed"
    BY <1>1, <1>2, <1>5 DEF AskedFor
  <2>2. r \in failed \/ HasRival(r, KeyRemovers) \/ Issues(todo[r]) \/ KeyThere(r)
    BY <1>2, <2>1
  <2>3. HasRival(r, KeyRemovers) => HasRival(r, KeyRemovers)'
    BY <1>1, RivalsContinue
  <2>4. r \in failed => r \in failed'
    BY <1>1 DEF Outcome
  <2>5. Issues(todo[r]) => r \in failed' \/ Issues(todo'[r]) \/ KeyThere(r)'
    BY <1>1, IssuesOn DEF Outcome
  <2>6. QED
    BY <1>1, <1>2, <2>1, <2>2, <2>3, <2>4, <2>5, KeyThereOn
<1>6. QED
  BY <1>3, <1>4, <1>5 DEF KeyInv

KeyAsk(r, a, q) ==
  /\ \A p \in WillOf(r, q) : p.table = "managed_api_keys" => KeyRole(a, p)
  /\ a.kind = "CreateManagedKey" => a.on = "managed" /\ Issues(q)

LEMMA KeyAskOther ==
  ASSUME NEW r, NEW a, NEW t \in {"api_keys", "ip_allowlist_entries"}, NEW s, OneTable(s, t), a.kind # "CreateManagedKey"
  PROVE  KeyAsk(r, a, <<s>>)
<1>1. \A p \in WillOf(r, <<s>>) : p.table = t
  BY WillOne
<1>2. QED
  BY <1>1 DEF KeyAsk

LEMMA KeyAsked ==
  ASSUME NEW r, KeyHandlers(r) \/ ResetAll(r, resetTables["keys"])
  PROVE  \E a, q : Begin(r, a, q) /\ KeyAsk(r, a, q)
<1>1. CASE CreateKey(r) \/ AddEntry(r)
  <2>1. PICK ip : \/ Begin(r, Ask("CreateKey", r), <<Insert("api_keys", APIKey(<<r, 1>>))>>)
                  \/ Begin(r, Ask("AddEntry", ip), <<Insert("ip_allowlist_entries", IPAllowlistEntry(<<r, 1>>, ip))>>)
    BY <1>1 DEF CreateKey, AddEntry
  <2>2. /\ KeyAsk(r, Ask("CreateKey", r), <<Insert("api_keys", APIKey(<<r, 1>>))>>)
        /\ KeyAsk(r, Ask("AddEntry", ip), <<Insert("ip_allowlist_entries", IPAllowlistEntry(<<r, 1>>, ip))>>)
    BY AskKinds, StatementTables, KeyAskOther
  <2>3. QED
    BY <2>1, <2>2
<1>2. CASE DeleteKey(r) \/ DeleteEntry(r)
  <2>1. PICK x : \/ Begin(r, AskDelete("DeleteKey", by(x), "api_keys", {x}), <<Purge("api_keys", [id |-> x.id])>>)
                 \/ Begin(r, AskDelete("DeleteEntry", x.address, "ip_allowlist_entries", {x}),
                          <<Purge("ip_allowlist_entries", [id |-> x.id])>>)
    BY <1>2 DEF DeleteKey, DeleteEntry
  <2>2. /\ KeyAsk(r, AskDelete("DeleteKey", by(x), "api_keys", {x}), <<Purge("api_keys", [id |-> x.id])>>)
        /\ KeyAsk(r, AskDelete("DeleteEntry", x.address, "ip_allowlist_entries", {x}),
                          <<Purge("ip_allowlist_entries", [id |-> x.id])>>)
    BY AskKinds, StatementTables, KeyAskOther
  <2>3. QED
    BY <2>1, <2>2
<1>3. CASE RegenerateKey(r) \/ UpdateEntry(r)
  <2>1. PICK x : \/ Begin(r, AskSave("RegenerateKey", by(x), "api_keys", x, [secret |-> r]),
                          <<SaveOrFail("api_keys", [x EXCEPT !.secret = r])>>)
                 \/ Begin(r, AskSave("UpdateEntry", x.address, "ip_allowlist_entries", x, [description |-> r]),
                          <<SaveOrFail("ip_allowlist_entries", [x EXCEPT !.description = r])>>)
    BY <1>3 DEF RegenerateKey, UpdateEntry
  <2>2. /\ KeyAsk(r, AskSave("RegenerateKey", by(x), "api_keys", x, [secret |-> r]),
                     <<SaveOrFail("api_keys", [x EXCEPT !.secret = r])>>)
        /\ KeyAsk(r, AskSave("UpdateEntry", x.address, "ip_allowlist_entries", x, [description |-> r]),
                     <<SaveOrFail("ip_allowlist_entries", [x EXCEPT !.description = r])>>)
    BY AskKinds, StatementTables, KeyAskOther
  <2>3. QED
    BY <2>1, <2>2
<1>4. CASE CreateManagedKey(r)
  <2>1. PICK value : Begin(r, Ask("CreateManagedKey", "managed"), <<[do |-> "issue", value |-> value, retry |-> TRUE]>>)
    BY <1>4 DEF CreateManagedKey
  <2> DEFINE s == [do |-> "issue", value |-> value, retry |-> TRUE]
             a == Ask("CreateManagedKey", "managed")
  <2>2. a.kind = "CreateManagedKey" /\ a.on = "managed"
    BY AskKinds
  <2>3. s.do = "issue"
    OBVIOUS
  <2> HIDE DEF s, a
  <2>4. Elements(<<s>>) = {s}
    BY ElementsOfTuples
  <2>5. Leads(r, s) = Prims(r, s) /\ Prims(r, s) = {Store("managed_api_keys", ManagedAPIKey(<<r, 1>>, v)) : v \in {s.value} \cup KeyValues}
    BY <2>3 DEF Leads, Branches, Prims, Simple
  <2>6. \A row : Store("managed_api_keys", row).do = "put"
    BY DEF Store
  <2>7. \A p \in WillOf(r, <<s>>) : p.do = "put"
    BY <2>4, <2>5, <2>6 DEF WillOf
  <2>8. KeyAsk(r, a, <<s>>)
    BY <2>2, <2>3, <2>7 DEF KeyAsk, KeyRole, Issues
  <2>9. QED
    BY <2>1, <2>8 DEF s, a
<1>5. CASE DeleteManagedKey(r)
  <2>1. PICK x : Begin(r, AskDelete("DeleteManagedKey", "managed", "managed_api_keys", {x}),
                       <<Purge("managed_api_keys", [id |-> x.id])>>)
    BY <1>5 DEF DeleteManagedKey
  <2> DEFINE s == Purge("managed_api_keys", [id |-> x.id])
             a == AskDelete("DeleteManagedKey", "managed", "managed_api_keys", {x})
  <2>2. a.kind = "DeleteManagedKey" /\ a.on = "managed"
    BY AskKinds
  <2>3. s.do = "purge" /\ OneTable(s, "managed_api_keys")
    BY StatementTables DEF Purge
  <2> HIDE DEF s, a
  <2>4. \A p \in WillOf(r, <<s>>) : p.do = "purge"
    BY <2>3, WillOne DEF Prim
  <2>5. KeyAsk(r, a, <<s>>)
    BY <2>2, <2>4 DEF KeyAsk, KeyRole, KeyRemovers
  <2>6. QED
    BY <2>1, <2>5 DEF s, a
<1>6. CASE ResetAll(r, resetTables["keys"])
  <2>1. "keys" \in DOMAIN resetTables
    BY DEF resetTables
  <2>2. PICK a, q : Begin(r, a, q) /\ Empties(r, a, q)
    BY <1>6, <2>1, ResetEmpties
  <2>3. KeyAsk(r, a, q)
    BY <2>2 DEF Empties, KeyAsk, KeyRole, KeyRemovers
  <2>4. QED
    BY <2>2, <2>3
<1>7. QED
  BY <1>1, <1>2, <1>3, <1>4, <1>5, <1>6 DEF KeyHandlers

LEMMA KeysArrive ==
  ASSUME RecordsInv, KeyInv, NEW q \in Requests, Arrive(q), scene' = scene
  PROVE  KeyInv'
<1> DEFINE t == "managed_api_keys"
<1> SUFFICES ASSUME scene = "keys" PROVE KeyInv'
  BY DEF KeyInv
<1>1. KeyHandlers(q) \/ ResetAll(q, resetTables["keys"])
  BY DEF Arrive
<1>2. KeyRoles /\ (\A x \in db[t] : ~x.dead)
      /\ \A r \in Requests : AskedFor(r, {"CreateManagedKey"}) =>
           /\ asked[r].on = "managed"
           /\ r \in failed \/ HasRival(r, KeyRemovers) \/ Issues(todo[r]) \/ KeyThere(r)
  BY DEF KeyInv
<1>3. PICK a, p : Begin(q, a, p) /\ KeyAsk(q, a, p)
  BY <1>1, KeyAsked
<1>4. Starts(q, a, p)
  BY <1>3, ArriveStarts, BeginStarts
<1>5. /\ db' = db /\ failed' = failed /\ asked'[q] = a /\ todo'[q] = p /\ WillOf(q, todo'[q]) = WillOf(q, p)
      /\ \A r \in Requests \ {q} : asked'[r] = asked[r] /\ todo'[r] = todo[r]
                                   /\ WillOf(r, todo'[r]) = Will(r)
  BY <1>4, Starting
<1>6. KeyRoles'
  <2>1. ASSUME NEW r \in Requests, NEW u \in WillOf(r, todo'[r]), u.table = t
        PROVE  KeyRole(asked'[r], u)
    BY <1>2, <1>3, <1>5, <2>1 DEF KeyAsk, KeyRoles
  <2>2. QED
    BY <2>1 DEF KeyRoles, Will, KeyRole
<1>7. ASSUME NEW r \in Requests, AskedFor(r, {"CreateManagedKey"})'
      PROVE  /\ asked'[r].on = "managed"
             /\ r \in failed' \/ HasRival(r, KeyRemovers)' \/ Issues(todo'[r]) \/ KeyThere(r)'
  <2>1. CASE r = q
    BY <1>3, <1>5, <1>7, <2>1 DEF KeyAsk, AskedFor
  <2>2. CASE r # q
    <3>1. asked'[r] = asked[r] /\ todo'[r] = todo[r] /\ AskedFor(r, {"CreateManagedKey"})
      BY <1>5, <1>7, <2>2 DEF AskedFor
    <3>2. HasRival(r, KeyRemovers) => HasRival(r, KeyRemovers)'
      BY <1>4, <2>2, RivalsArrive DEF KeyRemovers
    <3>3. QED
      BY <1>2, <1>5, <3>1, <3>2 DEF KeyThere
  <2>3. QED
    BY <2>1, <2>2
<1>8. QED
  BY <1>2, <1>5, <1>6, <1>7 DEF KeyInv

LEMMA KeysBegin == Init => KeyInv
<1> SUFFICES ASSUME Init, scene = "keys" PROVE KeyInv
  BY DEF KeyInv
<1>1. PICK d : DatabaseInit(d) /\ (d \in KeySeeds \/ d = NoRows)
  BY DEF Init, Seeds
<1>2. db = d /\ \A r \in Requests : asked[r] = NotAsked /\ todo[r] = << >>
  BY <1>1 DEF DatabaseInit
<1>3. \A x \in d["managed_api_keys"] : ~x.dead
  <2>1. NoRows["managed_api_keys"] = {}
    BY KeyTable DEF NoRows
  <2>2. \A v, ip : KeySeed(v, ip)["managed_api_keys"] = {ManagedAPIKey(<<"seed", 1>>, v)}
    BY KeyTable DEF KeySeed, NoRows
  <2>3. \A v : ~ManagedAPIKey(<<"seed", 1>>, v).dead
    BY DEF ManagedAPIKey
  <2>4. d = NoRows \/ \E v, ip : d = KeySeed(v, ip)
    BY <1>1 DEF KeySeeds
  <2>5. d["managed_api_keys"] = {} \/ \E v : d["managed_api_keys"] = {ManagedAPIKey(<<"seed", 1>>, v)}
    BY <2>1, <2>2, <2>4
  <2>6. CASE \E v : d["managed_api_keys"] = {ManagedAPIKey(<<"seed", 1>>, v)}
    <3>1. PICK v : d["managed_api_keys"] = {ManagedAPIKey(<<"seed", 1>>, v)}
      BY <2>6
    <3>2. ~ManagedAPIKey(<<"seed", 1>>, v).dead
      BY <2>3
    <3>3. ASSUME NEW x \in d["managed_api_keys"] PROVE ~x.dead
      <4>1. x = ManagedAPIKey(<<"seed", 1>>, v)
        BY <3>1, <3>3
      <4>2. QED
        BY <3>2, <4>1, Zenon
    <3>4. QED
      BY <3>3
  <2>7. QED
    BY <2>5, <2>6
<1>4. \A r \in Requests : Will(r) = {} /\ asked[r].kind = "none"
  BY <1>2, NothingLeft DEF NotAsked, Ask
<1>5. QED
  BY <1>2, <1>3, <1>4 DEF KeyInv, KeyRoles, AskedFor

LEMMA KeysImply ==
  ASSUME RecordsInv, Scoped, KeyInv
  PROVE  IssuedKeyIsThere
<1> DEFINE t == "managed_api_keys"
<1>1. ASSUME NEW r \in Requests, AskedFor(r, {"CreateManagedKey"}), Answered(r), r \notin failed
      PROVE  \/ \E k \in Live(t) : k.id = <<r, 1>>
             \/ \E s \in Requests : AskedFor(s, {"DeleteManagedKey", "ResetAll"}) /\ ~Preceded(s, r)
  <2>1. scene = "keys"
    <3>1. scene \in Components /\ asked[r].kind \in KindsOf(scene)
      BY <1>1 DEF Scoped, Answered
    <3>2. scene \in DOMAIN Duties
      BY <3>1, ServiceAssumption, ResetTablesOf
    <3>3. QED
      BY <1>1, <3>1, <3>2 DEF AskedFor, KindsOf, Duties
  <2>2. ~Issues(todo[r])
    BY <1>1, OneLeft DEF Issues, Answered
  <2>3. HasRival(r, KeyRemovers) \/ KeyThere(r)
    BY <1>1, <2>1, <2>2 DEF KeyInv
  <2>4. QED
    BY <2>1, <2>3 DEF KeyInv, HasRival, Rival, KeyRemovers, KeyThere, Live
<1>2. ASSUME NEW j \in Live(t), NEW k \in Live(t), j.value = k.value PROVE j = k
  <2>1. j \in db[t] /\ k \in db[t] /\ Indexed(db[t], t)
    BY KeyTable DEF Live, RecordsInv, DatabaseTypeOK
  <2>2. QED
    BY <1>2, <2>1, KeyTable DEF Indexed
<1>3. QED
  BY <1>1, <1>2 DEF IssuedKeyIsThere

LEMMA KeysStep == Settled /\ KeyInv /\ [Next]_vars => KeyInv'
<1> SUFFICES ASSUME Settled, KeyInv, [Next]_vars PROVE KeyInv'
  OBVIOUS
<1>1. RecordsInv /\ Scoped /\ scene' = scene /\ (Idle \/ \E q \in Requests : Arrive(q) \/ Continue(q))
  BY ServiceSteps DEF Settled, Steady
<1>2. CASE Idle
  <2>1. db' = db /\ todo' = todo /\ asked' = asked /\ failed' = failed /\ before' = before /\ scene' = scene
    BY <1>2 DEF Idle, dbVars
  <2>2. KeyRoles' = KeyRoles
    BY <2>1 DEF KeyRoles, Will, KeyRole
  <2>3. \A r : /\ HasRival(r, KeyRemovers) => HasRival(r, KeyRemovers)'
               /\ KeyThere(r) => KeyThere(r)'
               /\ AskedFor(r, {"CreateManagedKey"})' => AskedFor(r, {"CreateManagedKey"})
    BY <2>1 DEF HasRival, Rival, AskedFor, Preceded, KeyThere
  <2>4. QED
    BY <2>1, <2>2, <2>3 DEF KeyInv
<1>3. ASSUME NEW q \in Requests, Arrive(q) PROVE KeyInv'
  BY <1>1, <1>3, KeysArrive
<1>4. ASSUME NEW q \in Requests, Continue(q) PROVE KeyInv'
  BY <1>1, <1>4, KeysContinue
<1>5. QED
  BY <1>1, <1>2, <1>3, <1>4

\* A managed key that was answered 201 is there until a deletion or a reset that was not
\* over before it, and no two keys have one value, for any number of requests and whatever
\* values collide (apikey/handlers.go: one retry after the unique index refused the first).
THEOREM ManagedKeysAreIssued == Spec => []IssuedKeyIsThere
<1>1. Settled /\ KeyInv => IssuedKeyIsThere
  BY KeysImply DEF Settled, Steady
<1>2. QED
  BY <1>1, SettledBegins, SettledSteps, KeysBegin, KeysStep, PTL DEF Spec

----------------------------------------------------------------------------
(* Clashes: overlapping requests on one object.                            *)

LEMMA ClashStays ==
  ASSUME RecordsInv, NEW K, NEW L, NEW o
  PROVE  /\ \A q : Outcome(q) /\ Clash(K, L, o) => Clash(K, L, o)'
         /\ \A q, a, p : Starts(q, a, p) /\ Clash(K, L, o) => Clash(K, L, o)'
<1>1. ASSUME NEW q, Outcome(q), Clash(K, L, o) PROVE Clash(K, L, o)'
  BY <1>1 DEF Clash, Overlap, AskedFor, Preceded, Outcome
<1>2. ASSUME NEW q, NEW a, NEW p, Starts(q, a, p), Clash(K, L, o) PROVE Clash(K, L, o)'
  <2>1. PICK r, s \in Requests : /\ Overlap(r, s) /\ AskedFor(r, K) /\ AskedFor(s, L)
                                 /\ {asked[r].on, asked[s].on} \subseteq {o, "all"}
    BY <1>2 DEF Clash
  <2>2. r # q /\ s # q
    BY <1>2, <2>1, Starting DEF Overlap
  <2>3. asked'[r] = asked[r] /\ asked'[s] = asked[s]
    BY <1>2, <2>2, Starting
  <2>4. ~Preceded(r, s)' /\ ~Preceded(s, r)'
    BY <1>2, <2>1, <2>2, StartingAnswers DEF Overlap
  <2>5. QED
    BY <2>1, <2>3, <2>4 DEF Clash, Overlap, AskedFor
<1>3. QED
  BY <1>1, <1>2

LEMMA RunningClash ==
  ASSUME RecordsInv, NEW q \in Requests, NEW r \in Requests, q # r, todo[q] # << >>, todo[r] # << >>,
         NEW K, NEW L, AskedFor(q, K), AskedFor(r, L), NEW o, asked[q].on \in {o, "all"}, asked[r].on \in {o, "all"}
  PROVE  Clash(K, L, o)
<1>1. Overlap(q, r)
  BY Active DEF Overlap
<1>2. QED
  BY <1>1 DEF Clash

----------------------------------------------------------------------------
(* Requests whose statements are all simple.                               *)

Straight(r) == \A s \in Elements(todo[r]) : s.do \in Simple

\* The primitive that is carried out, refused, or put off.
Next1(r) == Prim(Head(todo[r]))
Done(r, p) ==
  /\ DOMAIN db' = Tables /\ db'[p.table] = Apply(p, db[p.table])
  /\ \A t \in Tables \ {p.table} : db'[t] = db[t]
PutOff(r, p) == p.do = "put" /\ db' = db /\ todo'[r] # << >> /\ Next1(r)' = p
Denied(p) == p.do = "put" /\ db' = db /\ ~Indexed(Put(db[p.table], p.row), p.table)

LEMMA PlainStep ==
  ASSUME RecordsInv, NEW r \in Requests, Continue(r), Straight(r)
  PROVE  /\ Straight(r)'
         /\ Next1(r) \in Will(r) /\ Sane(Next1(r))
         /\ Done(r, Next1(r)) \/ PutOff(r, Next1(r)) \/ Denied(Next1(r))
<1> DEFINE s == Head(todo[r])
           p == Next1(r)
<1>1. todo[r] # << >>
  BY OutcomeOfContinue DEF Outcome
<1>2. s \in Elements(todo[r]) /\ s.do \in Simple /\ Elements(todo[r]) = {s} \cup Elements(Tail(todo[r]))
      /\ Program(r, Tail(todo[r]))
  BY <1>1, Situation DEF Straight
<1>3. p \in Will(r) /\ Sane(p) /\ p.table = s.table /\ p.table \in Tables /\ (s.do \in {"put", "save"} <=> p.do = "put")
      /\ (p.do = "put" => p.row = s.row)
  BY <1>1, <1>2, Situation, LeadsOfSimple, PrimOf DEF Next1, Sane
<1>4. Applied(r, s) \/ Missed(r, s) \/ Refused(r, s)
  BY <1>2, SimpleStep
<1>5. CASE Applied(r, s)
  <2>1. Done(r, p)
    BY <1>3, <1>5 DEF Applied, Done, Next1
  <2>2. Straight(r)'
    BY <1>2, <1>5 DEF Applied, Straight
  <2>3. QED
    BY <1>3, <2>1, <2>2
<1>6. CASE Refused(r, s)
  <2>1. Denied(p)
    BY <1>3, <1>6 DEF Refused, Denied
  <2>2. Straight(r)'
    BY <1>2, <1>6, ElementsOfTuples DEF Refused, Straight
  <2>3. QED
    BY <1>3, <2>1, <2>2
<1>7. CASE Missed(r, s)
  <2> DEFINE u == [s EXCEPT !.do = "put"]
             tail == Tail(todo[r])
  <2>1. s.do = "save" /\ {"do", "table", "row"} \subseteq DOMAIN s
    BY <1>1, <1>7, Situation DEF Missed, Piece, Statement, Simple, Invalid
  <2>2. u.do = "put" /\ u.table = s.table /\ u.row = s.row
    BY <2>1
  <2>3. todo'[r] = <<u>> \o tail /\ db' = db
    BY <1>7 DEF Missed
  <2>4. IsSequence(tail)
    BY <1>2 DEF Program, Sequel
  <2> HIDE DEF u, tail
  <2>5. IsSequence(<<u>>) /\ Elements(<<u>>) = {u}
    BY ElementsOfTuples
  <2>6. Elements(<<u>> \o tail) = {u} \cup Elements(tail)
    BY <2>4, <2>5, ConcatOf
  <2>7. Head(<<u>> \o tail) = u /\ <<u>> \o tail # << >>
    BY <2>4 DEF IsSequence
  <2>8. Prim(u) = Prim(s)
    BY <2>1, <2>2 DEF Prim
  <2>9. PutOff(r, p)
    BY <1>3, <2>1, <2>3, <2>7, <2>8 DEF PutOff, Next1
  <2>10. Straight(r)'
    BY <1>2, <2>2, <2>3, <2>6 DEF Straight, Simple, tail
  <2>11. QED
    BY <1>3, <2>9, <2>10
<1>8. QED
  BY <1>4, <1>5, <1>6, <1>7

\* Where the rows of a table that is only inserted into and purged come from and go.
LEMMA StraightRows ==
  ASSUME RecordsInv, NEW r \in Requests, Continue(r), Straight(r), NEW t \in Tables,
         Next1(r).table = t => Next1(r).do \in {"put", "purge"}
  PROVE  /\ \A x \in db'[t] :
              x \in db[t] \/ (Done(r, Next1(r)) /\ Next1(r).table = t /\ Next1(r).do = "put" /\ x = Next1(r).row)
         /\ \A x \in db[t] :
              \/ x \in db'[t]
              \/ /\ Done(r, Next1(r)) /\ Next1(r).table = t /\ Next1(r).do = "put"
                 /\ x.id = Next1(r).row.id /\ Next1(r).row \in db'[t]
              \/ Done(r, Next1(r)) /\ Next1(r).table = t /\ Next1(r).do = "purge" /\ Fits(x, Next1(r).where)
         /\ Next1(r).table # t => db'[t] = db[t]
         /\ Done(r, Next1(r)) /\ Next1(r).table = t /\ Next1(r).do = "purge" =>
              \A x \in db'[t] : ~Fits(x, Next1(r).where)
<1> DEFINE p == Next1(r)
<1>1. p \in Will(r) /\ Sane(p) /\ (Done(r, p) \/ PutOff(r, p) \/ Denied(p))
  BY PlainStep
<1>2. todo[r] # << >> /\ RowsOf(t, db[t])
  BY OutcomeOfContinue, Situation DEF Outcome
<1> HIDE DEF p
<1>3. CASE PutOff(r, p) \/ Denied(p)
  BY <1>3 DEF PutOff, Denied, Done, p, Apply
<1>4. CASE Done(r, p) /\ p.table # t
  BY <1>4 DEF Done, p
<1>5. CASE Done(r, p) /\ p.table = t
  <2>1. db'[t] = Apply(p, db[t]) /\ p.do \in {"put", "purge"}
    BY <1>5 DEF Done, p
  <2>2. p.do = "purge" => \A x \in db'[t] : ~Fits(x, p.where)
    BY <2>1 DEF Apply
  <2>3. QED
    BY <1>1, <1>2, <1>5, <2>1, <2>2, RowsAfter DEF p
<1>6. QED
  BY <1>1, <1>3, <1>4, <1>5

----------------------------------------------------------------------------
(* IP pools.                                                               *)

PoolEnders  == {"DeletePool", "ResetAll"}
PoolWriters == {"CreatePool", "UpdatePool"}

\* Who inserts and deletes pools and their addresses.
PoolRole(a, p) ==
  /\ p.table = "ip_pools" =>
       \/ p.do = "put" /\ a.kind \in PoolWriters /\ p.row.id = <<a.on, 1>>
       \/ p.do = "purge" /\ a.kind = "ResetAll"
       \/ p.do = "purge" /\ a.kind = "DeletePool" /\ p.where = [id |-> <<a.on, 1>>]
  /\ p.table = "ip_pool_ips" =>
       \/ p.do = "put" /\ a.kind \in PoolWriters /\ p.row.pool = <<a.on, 1>>
       \/ p.do = "purge"
PoolRoles == \A r \in Requests : \A p \in Will(r) : PoolRole(asked[r], p)

\* The pool is emptied before it is deleted, and saved before it is filled.
Ends(a, o) == a.kind = "ResetAll" \/ (a.kind = "DeletePool" /\ a.on = o)
Emptying(a, p) ==
  /\ p.do = "purge" /\ p.table = "ip_pool_ips"
  /\ \/ a.kind = "ResetAll" /\ p.where = All
     \/ a.kind = "DeletePool" /\ p.where = [pool |-> <<a.on, 1>>]
Pooling(p) == p.do = "put" /\ p.table = "ip_pools"
Filling(p) == p.do = "put" /\ p.table = "ip_pool_ips"

PoolThere(o) == \E y \in db["ip_pools"] : y.id = <<o, 1>>
PoolClash(o) == Clash(PoolEnders, PoolWriters, o)

PoolsKept    == \A x \in db["ip_pool_ips"] :
  x.pool = <<x.pool[1], 1>> /\ (PoolThere(x.pool[1]) \/ PoolClash(x.pool[1]))
PoolsNamed   == \A y \in db["ip_pools"] : y.id = <<y.id[1], 1>>
PoolsEmptied == \A q \in Requests : todo[q] # << >> /\ AskedFor(q, PoolEnders) =>
  \/ Emptying(asked[q], Next1(q))
  \/ \A x \in db["ip_pool_ips"] : Ends(asked[q], x.pool[1]) => PoolClash(x.pool[1])
PoolsFilled  == \A r \in Requests : \A p \in Will(r) : Filling(p) =>
  Pooling(Next1(r)) \/ PoolThere(asked[r].on) \/ PoolClash(asked[r].on)

PoolAsks == \A r \in Requests : Straight(r) /\ (asked[r].kind = "ResetAll" => asked[r].on = "all")
PoolInv ==
  scene = "ips" => PoolAsks /\ PoolRoles /\ PoolsNamed /\ PoolsKept /\ PoolsEmptied /\ PoolsFilled

LEMMA PoolTables ==
  /\ "ip_pools" \in Tables /\ "ip_pool_ips" \in Tables
  /\ UniqueIndex["ip_pools"] = {}
BY DEF Tables, UniqueIndex

LEMMA PoolGone ==
  ASSUME RecordsInv, PoolAsks, PoolRoles, NEW q \in Requests, Continue(q), NEW o, PoolThere(o)
  PROVE  \/ PoolThere(o)'
         \/ AskedFor(q, PoolEnders) /\ Ends(asked[q], o) /\ Next1(q).table = "ip_pools" /\ Next1(q).do = "purge"
<1>1. Next1(q) \in Will(q) /\ Straight(q)
  BY PlainStep DEF PoolAsks
<1>2. PoolRole(asked[q], Next1(q))
  BY <1>1 DEF PoolRoles
<1>3. PICK y \in db["ip_pools"] : y.id = <<o, 1>>
  BY DEF PoolThere
<1>4. \/ y \in db'["ip_pools"]
      \/ y.id = Next1(q).row.id /\ Next1(q).row \in db'["ip_pools"]
      \/ Next1(q).table = "ip_pools" /\ Next1(q).do = "purge" /\ Fits(y, Next1(q).where)
  BY <1>1, <1>2, <1>3, StraightRows, PoolTables DEF PoolRole
<1>5. CASE Next1(q).table = "ip_pools" /\ Next1(q).do = "purge" /\ Fits(y, Next1(q).where)
  <2>1. CASE asked[q].kind = "ResetAll"
    BY <1>5, <2>1 DEF AskedFor, PoolEnders, Ends
  <2>2. CASE asked[q].kind = "DeletePool" /\ Next1(q).where = [id |-> <<asked[q].on, 1>>]
    <3>1. y.id = <<asked[q].on, 1>>
      BY <1>5, <2>2 DEF Fits
    <3>2. asked[q].on = o
      BY <1>3, <3>1
    <3>3. QED
      BY <1>5, <2>2, <3>2 DEF AskedFor, PoolEnders, Ends
  <2>3. QED
    BY <1>2, <1>5, <2>1, <2>2 DEF PoolRole
<1>6. QED
  BY <1>3, <1>4, <1>5 DEF PoolThere

LEMMA PoolsContinue ==
  ASSUME RecordsInv, PoolInv, NEW q \in Requests, Continue(q), scene' = scene
  PROVE  PoolInv'
<1> DEFINE p == Next1(q)
           t == "ip_pool_ips"
<1> SUFFICES ASSUME scene = "ips" PROVE PoolInv'
  BY DEF PoolInv
<1>1. PoolAsks /\ PoolRoles /\ PoolsNamed /\ PoolsKept /\ PoolsEmptied /\ PoolsFilled
  BY DEF PoolInv
<1>2. /\ Outcome(q) /\ asked' = asked /\ todo[q] # << >>
      /\ \A r \in Requests \ {q} : todo'[r] = todo[r]
  BY OutcomeOfContinue DEF Outcome
<1>3. /\ Straight(q) /\ Straight(q)' /\ p \in Will(q)
      /\ Done(q, p) \/ PutOff(q, p) \/ Denied(p)
  BY <1>1, PlainStep DEF PoolAsks
<1>4. PoolRole(asked[q], p)
  BY <1>1, <1>3 DEF PoolRoles
<1>5. \A o : PoolClash(o) => PoolClash(o)'
  BY <1>2, ClashStays DEF PoolClash
<1>6. PoolAsks'
  BY <1>1, <1>2, <1>3 DEF PoolAsks, Straight
<1>7. PoolRoles'
  <2>1. ASSUME NEW r \in Requests, NEW u \in WillOf(r, todo'[r]) PROVE PoolRole(asked[r], u)
    <3>1. u \in Will(r) \/ u.table = "webhook_deliveries"
      BY <1>2, <2>1 DEF Outcome, ProgramAfter, Records, Will
    <3>2. QED
      BY <1>1, <3>1 DEF PoolRoles, PoolRole
  <2>2. QED
    BY <1>2, <2>1 DEF PoolRoles, Will, PoolRole

\* What became of the addresses.
<1>8. /\ \A x \in db'[t] : x \in db[t] \/ (p.table = t /\ p.do = "put" /\ x = p.row)
      /\ p.table # t => db'[t] = db[t]
      /\ Done(q, p) /\ p.table = t /\ p.do = "purge" => \A x \in db'[t] : ~Fits(x, p.where)
  BY <1>3, <1>4, StraightRows, PoolTables DEF PoolRole
<1>9. ASSUME NEW x \in db'[t], x \notin db[t]
      PROVE  /\ Filling(p) /\ x = p.row /\ x.pool = <<asked[q].on, 1>> /\ x.pool[1] = asked[q].on
             /\ AskedFor(q, PoolWriters)
  BY <1>4, <1>8, <1>9 DEF PoolRole, Filling, AskedFor

\* A pool that is there stays or the request is an ender of it.
<1>10. ASSUME NEW o, PoolThere(o), ~PoolThere(o)'
       PROVE  /\ AskedFor(q, PoolEnders) /\ Ends(asked[q], o) /\ p.table = "ip_pools" /\ p.do = "purge"
              /\ asked[q].on \in {o, "all"}
  BY <1>1, <1>10, PoolGone DEF Ends, PoolAsks
<1>11. PoolsKept'
  <2>1. ASSUME NEW x \in db'[t]
        PROVE  x.pool = <<x.pool[1], 1>> /\ (PoolThere(x.pool[1])' \/ PoolClash(x.pool[1])')
    <3>1. CASE x \in db[t]
      <4>1. x.pool = <<x.pool[1], 1>> /\ (PoolThere(x.pool[1]) \/ PoolClash(x.pool[1]))
        BY <1>1, <3>1 DEF PoolsKept
      <4>2. CASE PoolThere(x.pool[1]) /\ ~PoolThere(x.pool[1])'
        <5>1. AskedFor(q, PoolEnders) /\ Ends(asked[q], x.pool[1]) /\ ~Emptying(asked[q], p)
          BY <1>10, <4>2 DEF Emptying
        <5>2. QED
          BY <1>1, <1>2, <1>5, <3>1, <4>1, <5>1 DEF PoolsEmptied
      <4>3. QED
        BY <1>5, <4>1, <4>2
    <3>2. CASE x \notin db[t]
      <4>1. Filling(p) /\ x.pool = <<asked[q].on, 1>> /\ x.pool[1] = asked[q].on /\ ~Pooling(p) /\ p.table = t
        BY <1>9, <3>2 DEF Filling, Pooling
      <4>2. PoolThere(x.pool[1]) \/ PoolClash(x.pool[1])
        BY <1>1, <1>3, <4>1 DEF PoolsFilled
      <4>3. PoolThere(x.pool[1]) => PoolThere(x.pool[1])'
        BY <1>10, <4>1 DEF Filling
      <4>4. QED
        BY <1>5, <4>1, <4>2, <4>3
    <3>3. QED
      BY <3>1, <3>2
  <2>2. QED
    BY <2>1 DEF PoolsKept
<1>12. PoolsEmptied'
  <2>1. ASSUME NEW r \in Requests, todo'[r] # << >>, AskedFor(r, PoolEnders), ~Emptying(asked[r], Next1(r)'),
               NEW x \in db'[t], Ends(asked[r], x.pool[1])
        PROVE  PoolClash(x.pool[1])'
    <3>1. CASE r = q
      <4>1. x \in db[t]
        BY <1>9, <2>1, <3>1 DEF AskedFor, PoolEnders, PoolWriters
      <4>2. CASE Emptying(asked[q], p)
        <5>1. Done(q, p) /\ p.table = t /\ p.do = "purge"
          BY <1>3, <4>2 DEF Emptying, PutOff, Denied
        <5>2. ~Fits(x, p.where)
          BY <1>8, <2>1, <5>1
        <5>3. x.pool = <<x.pool[1], 1>>
          BY <1>1, <4>1 DEF PoolsKept
        <5>4. Fits(x, p.where)
          BY <2>1, <3>1, <4>2, <5>3, NothingFits DEF Emptying, Ends, Fits
        <5>5. QED
          BY <5>2, <5>4
      <4>3. CASE ~Emptying(asked[q], p)
        BY <1>1, <1>2, <1>5, <2>1, <3>1, <4>1, <4>3 DEF PoolsEmptied
      <4>4. QED
        BY <4>2, <4>3
    <3>2. CASE r # q
      <4>1. todo[r] = todo'[r] /\ Next1(r)' = Next1(r)
        BY <1>2, <3>2 DEF Next1
      <4>2. CASE x \in db[t]
        BY <1>1, <1>5, <2>1, <4>1, <4>2 DEF PoolsEmptied
      <4>3. CASE x \notin db[t]
        <5>1. x.pool[1] = asked[q].on /\ AskedFor(q, PoolWriters)
          BY <1>9, <2>1, <4>3
        <5>2. asked[r].on \in {x.pool[1], "all"}
          BY <1>1, <2>1 DEF Ends, PoolAsks
        <5>3. PoolClash(x.pool[1])
          BY <1>2, <2>1, <3>2, <4>1, <5>1, <5>2, RunningClash DEF PoolClash
        <5>4. QED
          BY <1>5, <5>3
      <4>4. QED
        BY <4>2, <4>3
    <3>3. QED
      BY <3>1, <3>2
  <2>2. QED
    BY <1>2, <2>1 DEF PoolsEmptied, AskedFor
<1>13. PoolsFilled'
  <2>1. ASSUME NEW r \in Requests, NEW u \in WillOf(r, todo'[r]), Filling(u), NEW o, o = asked[r].on
        PROVE  Pooling(Next1(r)') \/ PoolThere(o)' \/ PoolClash(o)'
    <3>1. u \in Will(r)
      BY <1>2, <2>1 DEF Outcome, ProgramAfter, Records, Will, Filling
    <3>2. PoolRole(asked[r], u) /\ AskedFor(r, PoolWriters)
      BY <1>1, <2>1, <3>1 DEF PoolRoles, PoolRole, Filling, AskedFor
    <3>3. Pooling(Next1(r)) \/ PoolThere(o) \/ PoolClash(o)
      BY <1>1, <2>1, <3>1 DEF PoolsFilled
    <3>4. CASE r = q /\ Pooling(p)
      <4>1. p.row.id = <<o, 1>> /\ p.do = "put" /\ p.table = "ip_pools"
        BY <1>4, <2>1, <3>4 DEF Pooling, PoolRole
      <4>2. ~Denied(p)
        BY <4>1, PoolTables DEF Denied, Indexed
      <4>3. CASE PutOff(q, p)
        BY <3>4, <4>3 DEF PutOff
      <4>4. CASE Done(q, p)
        <5>1. db'["ip_pools"] = Put(db["ip_pools"], p.row)
          BY <4>1, <4>4 DEF Done, Apply
        <5>2. QED
          BY <4>1, <5>1 DEF Put, PoolThere
      <4>5. QED
        BY <1>3, <4>2, <4>3, <4>4
    <3>5. CASE r # q /\ Pooling(Next1(r))
      BY <1>2, <3>5 DEF Next1
    <3>6. CASE PoolThere(o) /\ ~PoolThere(o)'
      <4>1. AskedFor(q, PoolEnders) /\ asked[q].on \in {o, "all"}
        BY <1>10, <3>6
      <4>2. q # r /\ todo[r] # << >>
        BY <3>1, <3>2, <4>1, NothingLeft DEF AskedFor, PoolEnders, PoolWriters
      <4>3. PoolClash(o)
        BY <1>2, <2>1, <3>2, <4>1, <4>2, RunningClash DEF PoolClash
      <4>4. QED
        BY <1>5, <4>3
    <3>7. QED
      BY <1>5, <3>3, <3>4, <3>5, <3>6
  <2>2. QED
    BY <1>2, <2>1 DEF PoolsFilled, Will
<1>14. PoolsNamed'
  <2>1. \A y \in db'["ip_pools"] : y \in db["ip_pools"] \/ (p.table = "ip_pools" /\ p.do = "put" /\ y = p.row)
    BY <1>3, <1>4, StraightRows, PoolTables DEF PoolRole
  <2>2. p.table = "ip_pools" /\ p.do = "put" => p.row.id = <<asked[q].on, 1>>
    BY <1>4 DEF PoolRole
  <2>3. \A y : y.id = <<asked[q].on, 1>> => y.id[1] = asked[q].on
    OBVIOUS
  <2>4. QED
    BY <1>1, <2>1, <2>2, <2>3 DEF PoolsNamed
<1>15. QED
  BY <1>6, <1>7, <1>11, <1>12, <1>13, <1>14 DEF PoolInv

\* What a request of the pools is asked and what its program is like.
PoolAsk(a, q) ==
  /\ \A s \in Elements(q) : s.do \in Simple /\ PoolRole(a, Prim(s))
  /\ a.kind = "ResetAll" => a.on = "all"
  /\ a.kind \in PoolEnders => Emptying(a, Prim(Head(q)))
  /\ a.kind \in PoolWriters => Pooling(Prim(Head(q)))

LEMMA SimpleWill ==
  ASSUME NEW r, NEW q, \A s \in Elements(q) : s.do \in Simple
  PROVE  WillOf(r, q) = {Prim(s) : s \in Elements(q)}
BY LeadsOfSimple DEF WillOf

LEMMA PoolAskOther ==
  ASSUME NEW a, NEW t \in {"domain_ips", "domain_pools"}, NEW s, OneTable(s, t),
         a.kind \in {"AssignDomainIP", "UnassignDomainIP"}
  PROVE  PoolAsk(a, <<s>>)
<1>1. Elements(<<s>>) = {s}
  BY ElementsOfTuples
<1>2. s.do \in Simple /\ Prim(s).table = t
  BY PrimOf DEF OneTable
<1>3. QED
  BY <1>1, <1>2 DEF PoolAsk, PoolRole, PoolEnders, PoolWriters

\* Each statement on a pool, as its request means it.
LEMMA PoolStatements ==
  ASSUME NEW a, NEW s, s.do \in Simple
  PROVE  /\ s.do \in {"put", "save"} /\ s.table = "ip_pools" /\ s.row.id = <<a.on, 1>> /\ a.kind \in PoolWriters =>
              PoolRole(a, Prim(s)) /\ Pooling(Prim(s))
         /\ s.do = "put" /\ s.table = "ip_pool_ips" /\ s.row.pool = <<a.on, 1>> /\ a.kind \in PoolWriters =>
              PoolRole(a, Prim(s))
         /\ s.do = "purge" /\ s.table = "ip_pool_ips" => PoolRole(a, Prim(s)) /\ Prim(s) = s
         /\ s.do = "purge" /\ s.table = "ip_pools" /\ s.where = [id |-> <<a.on, 1>>] /\ a.kind = "DeletePool" =>
              PoolRole(a, Prim(s))
<1>1. Prim(s).table = s.table /\ (s.do \in {"put", "save"} <=> Prim(s).do = "put")
      /\ (s.do \in {"put", "save"} => Prim(s).row = s.row)
  BY PrimOf
<1>2. s.do = "purge" => Prim(s) = s
  BY DEF Prim
<1>3. QED
  BY <1>1, <1>2 DEF PoolRole, Pooling

LEMMA PoolAskedOther ==
  ASSUME NEW r, AssignDomainIP(r) \/ UnassignDomainIP(r)
  PROVE  \E a, q : Begin(r, a, q) /\ PoolAsk(a, q)
<1>1. CASE AssignDomainIP(r)
  <2>1. PICK on, x : \/ Begin(r, Ask("AssignDomainIP", on), <<TryInsert("domain_ips", DomainIP(<<r, 1>>, x))>>)
                     \/ Begin(r, Ask("AssignDomainIP", on), <<TryInsert("domain_pools", DomainPool(<<r, 1>>, x))>>)
    BY <1>1 DEF AssignDomainIP
  <2>2. /\ PoolAsk(Ask("AssignDomainIP", on), <<TryInsert("domain_ips", DomainIP(<<r, 1>>, x))>>)
        /\ PoolAsk(Ask("AssignDomainIP", on), <<TryInsert("domain_pools", DomainPool(<<r, 1>>, x))>>)
    BY AskKinds, StatementTables, PoolAskOther
  <2>3. QED
    BY <2>1, <2>2
<1>2. CASE UnassignDomainIP(r)
  <2>1. PICK on, S, ip : \/ Begin(r, AskDelete("UnassignDomainIP", on, "domain_ips", S), <<Purge("domain_ips", [ip |-> ip])>>)
                         \/ Begin(r, AskDelete("UnassignDomainIP", on, "domain_ips", S), <<Purge("domain_ips", All)>>)
                         \/ Begin(r, AskDelete("UnassignDomainIP", on, "domain_pools", S), <<Purge("domain_pools", All)>>)
    BY <1>2 DEF UnassignDomainIP
  <2>2. /\ PoolAsk(AskDelete("UnassignDomainIP", on, "domain_ips", S), <<Purge("domain_ips", [ip |-> ip])>>)
        /\ PoolAsk(AskDelete("UnassignDomainIP", on, "domain_ips", S), <<Purge("domain_ips", All)>>)
        /\ PoolAsk(AskDelete("UnassignDomainIP", on, "domain_pools", S), <<Purge("domain_pools", All)>>)
    BY AskKinds, StatementTables, PoolAskOther
  <2>3. QED
    BY <2>1, <2>2
<1>3. QED
  BY <1>1, <1>2

LEMMA PoolAskedCreate ==
  ASSUME NEW r, CreatePool(r)
  PROVE  \E a, q : Begin(r, a, q) /\ PoolAsk(a, q)
<1>0. PICK ips \in SUBSET Addresses : \E order \in SetToSeqs(ips) :
        Begin(r, Ask("CreatePool", r),
              <<TryInsert("ip_pools", IPPool(<<r, 1>>, r))>> \o
              [i \in DOMAIN order |-> TryInsert("ip_pool_ips", IPPoolIP(<<r, order[i]>>, <<r, 1>>, order[i]))])
  BY DEF CreatePool, ForEach
<1>1. PICK order \in SetToSeqs(ips) :
        Begin(r, Ask("CreatePool", r),
              <<TryInsert("ip_pools", IPPool(<<r, 1>>, r))>> \o
              [i \in DOMAIN order |-> TryInsert("ip_pool_ips", IPPoolIP(<<r, order[i]>>, <<r, 1>>, order[i]))])
  BY <1>0
<1> DEFINE n == Cardinality(ips)
           f == [i \in 1..n |-> TryInsert("ip_pool_ips", IPPoolIP(<<r, order[i]>>, <<r, 1>>, order[i]))]
           s == TryInsert("ip_pools", IPPool(<<r, 1>>, r))
           a == Ask("CreatePool", r)
<1>2. IsFiniteSet(ips)
  BY IPsAssumption, FS_Subset
<1>3. n \in Nat /\ DOMAIN order = 1..n
  BY <1>2, OneByOne
<1>4. Begin(r, a, <<s>> \o f)
  BY <1>1, <1>3
<1>5. a.kind \in PoolWriters /\ a.on = r
  BY AskKinds DEF PoolWriters
<1>6. s.do = "put" /\ s.table = "ip_pools" /\ s.row.id = <<r, 1>>
  BY DEF TryInsert, IPPool
<1>7. \A i \in 1..n : f[i].do = "put" /\ f[i].table = "ip_pool_ips" /\ f[i].row.pool = <<r, 1>>
  BY DEF TryInsert, IPPoolIP
<1>8. IsList(f, n)
  BY <1>3 DEF IsList
<1> HIDE DEF f, s, a, n
<1>9. IsSequence(f) /\ DOMAIN f = 1..n
  BY <1>8, Listed DEF IsList
<1>10. \A u \in Elements(f) : u.do = "put" /\ u.table = "ip_pool_ips" /\ u.row.pool = <<r, 1>>
  BY <1>7, <1>9 DEF Elements
<1>11. IsSequence(<<s>>) /\ Elements(<<s>>) = {s}
  BY ElementsOfTuples
<1>12. Elements(<<s>> \o f) = {s} \cup Elements(f)
  BY <1>9, <1>11, ConcatOf
<1>13. Head(<<s>> \o f) = s
  BY <1>9 DEF IsSequence
<1>14. PoolRole(a, Prim(s)) /\ Pooling(Prim(s)) /\ s.do \in Simple
  <2>1. s.do \in Simple
    BY <1>6 DEF Simple
  <2>2. QED
    BY <1>5, <1>6, <2>1, PoolStatements
<1>15. ASSUME NEW u \in Elements(f) PROVE u.do \in Simple /\ PoolRole(a, Prim(u))
  <2>1. u.do \in Simple
    BY <1>10, <1>15 DEF Simple
  <2>2. QED
    BY <1>5, <1>10, <1>15, <2>1, PoolStatements
<1>16. PoolAsk(a, <<s>> \o f)
  BY <1>5, <1>12, <1>13, <1>14, <1>15 DEF PoolAsk, PoolWriters, PoolEnders
<1>17. QED
  BY <1>4, <1>16

LEMMA PoolAskedChange ==
  ASSUME RecordsInv, PoolsNamed, NEW r, UpdatePool(r) \/ DeletePool(r)
  PROVE  \E a, q : Begin(r, a, q) /\ PoolAsk(a, q)
<1>1. CASE UpdatePool(r)
  <2>1. PICK p \in Live("ip_pools"), set \in {All, [name |-> r]} :
          \E add \in AddsTo(r, p.id), remove \in RemovesFrom(p.id) :
            Begin(r, AskSave("UpdatePool", by(p), "ip_pools", p, set),
                  <<Save("ip_pools", With(p, set))>> \o add \o remove)
    BY <1>1 DEF UpdatePool, AddsTo, RemovesFrom
  <2>2. PICK add \in AddsTo(r, p.id), remove \in RemovesFrom(p.id) :
          Begin(r, AskSave("UpdatePool", by(p), "ip_pools", p, set),
                <<Save("ip_pools", With(p, set))>> \o add \o remove)
    BY <2>1
  <2> DEFINE row == With(p, set)
             s == Save("ip_pools", row)
             a == AskSave("UpdatePool", by(p), "ip_pools", p, set)
             q == <<s>> \o add \o remove
  <2>3. a.kind = "UpdatePool" /\ a.on = p.id[1]
    BY AskKinds DEF by
  <2>4. p.id = <<p.id[1], 1>>
    BY DEF PoolsNamed, Live
  <2>5. row.id = p.id
    <3>1. DOMAIN set \subseteq {"name"}
      BY DEF All
    <3>2. Revised("ip_pools", p, set, row)
      BY <3>1, IPColumns, RevisedWith
    <3>3. QED
      BY <3>2 DEF Revised
  <2>6. s.do = "save" /\ s.table = "ip_pools" /\ s.row = row
    BY DEF Save
  <2>7. Begin(r, a, q)
    BY <2>2
  <2> HIDE DEF a, s, row
  <2>8. PoolRole(a, Prim(s)) /\ Pooling(Prim(s)) /\ s.do \in Simple
    <3>1. s.do \in Simple /\ a.kind \in PoolWriters /\ s.row.id = <<a.on, 1>>
      BY <2>3, <2>4, <2>5, <2>6 DEF Simple, PoolWriters
    <3>2. QED
      BY <2>6, <3>1, PoolStatements
  <2>9. Elements(q) = {s} \cup Elements(add) \cup Elements(remove) /\ Head(q) = s
    BY PoolProgram
  <2>10. ASSUME NEW u \in Elements(add) PROVE PoolRole(a, Prim(u)) /\ u.do \in Simple
    <3>1. u.do = "put" /\ u.table = "ip_pool_ips" /\ u.row.pool = p.id
      BY <2>10, AddsAre
    <3>2. u.do \in Simple /\ a.kind \in PoolWriters /\ u.row.pool = <<a.on, 1>>
      BY <2>3, <2>4, <3>1 DEF Simple, PoolWriters
    <3>3. QED
      BY <3>1, <3>2, PoolStatements
  <2>11. ASSUME NEW u \in Elements(remove) PROVE PoolRole(a, Prim(u)) /\ u.do \in Simple
    <3>1. u.do = "purge" /\ u.table = "ip_pool_ips"
      BY <2>11, RemovesAre
    <3>2. u.do \in Simple
      BY <3>1 DEF Simple
    <3>3. QED
      BY <3>1, <3>2, PoolStatements
  <2> HIDE DEF q
  <2>12. PoolAsk(a, q)
    BY <2>3, <2>8, <2>9, <2>10, <2>11 DEF PoolAsk, PoolEnders
  <2>13. QED
    BY <2>7, <2>12
<1>2. CASE DeletePool(r)
  <2>1. PICK p \in Live("ip_pools") : Begin(r, AskDelete("DeletePool", by(p), "ip_pools", {p}),
                       <<Purge("ip_pool_ips", [pool |-> p.id]), Purge("ip_pools", [id |-> p.id])>>)
    BY <1>2 DEF DeletePool
  <2> DEFINE s == Purge("ip_pool_ips", [pool |-> p.id])
             u == Purge("ip_pools", [id |-> p.id])
             a == AskDelete("DeletePool", by(p), "ip_pools", {p})
  <2>2. a.kind = "DeletePool" /\ a.on = p.id[1]
    BY AskKinds DEF by
  <2>3. p.id = <<p.id[1], 1>>
    BY DEF PoolsNamed, Live
  <2>4. s.do = "purge" /\ s.table = "ip_pool_ips" /\ s.where = [pool |-> <<a.on, 1>>]
    BY <2>2, <2>3 DEF Purge
  <2>5. u.do = "purge" /\ u.table = "ip_pools" /\ u.where = [id |-> <<a.on, 1>>]
    BY <2>2, <2>3 DEF Purge
  <2> HIDE DEF a, s, u
  <2>6. PoolRole(a, Prim(s)) /\ Prim(s) = s /\ s.do \in Simple /\ PoolRole(a, Prim(u)) /\ u.do \in Simple
    BY <2>2, <2>4, <2>5, PoolStatements DEF Simple
  <2>7. Elements(<<s, u>>) = {s, u} /\ Head(<<s, u>>) = s
    <3>1. Head(<<s, u>>) = s
      OBVIOUS
    <3>2. QED
      BY <3>1, ElementsOfTuples
  <2>8. Emptying(a, s)
    BY <2>2, <2>4 DEF Emptying
  <2>9. PoolAsk(a, <<s, u>>)
    BY <2>2, <2>6, <2>7, <2>8 DEF PoolAsk, PoolWriters
  <2>10. QED
    BY <2>1, <2>9 DEF a, s, u
<1>3. QED
  BY <1>1, <1>2

LEMMA PoolAsked ==
  ASSUME RecordsInv, PoolsNamed, NEW r, IPHandlers(r) \/ ResetAll(r, resetTables["ips"])
  PROVE  \E a, q : Begin(r, a, q) /\ PoolAsk(a, q)
<1>1. CASE ResetAll(r, resetTables["ips"])
  <2>1. "ips" \in DOMAIN resetTables /\ resetTables["ips"][1] = "ip_pool_ips"
    BY DEF resetTables
  <2>2. PICK a, q : Begin(r, a, q) /\ Empties(r, a, q) /\ EmptiesFirst(q, "ips")
    BY <1>1, <2>1, ResetEmpties
  <2>3. ASSUME NEW s \in Elements(q) PROVE s.do \in Simple /\ PoolRole(a, Prim(s))
    <3>1. s.do \in Simple /\ (s.table # "config" => s.do = "purge")
      BY <2>2, <2>3 DEF EmptiesFirst
    <3>2. Prim(s).table = s.table /\ (s.do = "purge" => Prim(s) = s)
      BY <3>1, PrimOf DEF Prim
    <3>3. QED
      BY <2>2, <3>1, <3>2 DEF PoolRole, Empties
  <2>4. Prim(Head(q)).do = "purge" /\ Prim(Head(q)).table = "ip_pool_ips" /\ Prim(Head(q)).where = All
    BY <2>1, <2>2 DEF EmptiesFirst, Prim, Purge
  <2>5. PoolAsk(a, q)
    BY <2>2, <2>3, <2>4 DEF PoolAsk, Empties, Emptying, PoolWriters
  <2>6. QED
    BY <2>2, <2>5
<1>2. QED
  BY <1>1, PoolAskedOther, PoolAskedCreate, PoolAskedChange DEF IPHandlers

LEMMA PoolsArrive ==
  ASSUME RecordsInv, PoolInv, NEW q \in Requests, Arrive(q), scene' = scene
  PROVE  PoolInv'
<1> SUFFICES ASSUME scene = "ips" PROVE PoolInv'
  BY DEF PoolInv
<1>1. PoolAsks /\ PoolRoles /\ PoolsNamed /\ PoolsKept /\ PoolsEmptied /\ PoolsFilled
  BY DEF PoolInv
<1>2. PICK a, p : Begin(q, a, p) /\ PoolAsk(a, p)
  BY <1>1, PoolAsked DEF Arrive
<1>3. Starts(q, a, p)
  BY <1>2, ArriveStarts, BeginStarts
<1>4. /\ db' = db /\ asked'[q] = a /\ todo'[q] = p /\ WillOf(q, todo'[q]) = WillOf(q, p)
      /\ \A r \in Requests \ {q} : asked'[r] = asked[r] /\ todo'[r] = todo[r]
                                   /\ WillOf(r, todo'[r]) = Will(r)
  BY <1>3, Starting
<1>5. \A o : PoolClash(o) => PoolClash(o)'
  BY <1>3, ClashStays DEF PoolClash
<1>6. \A s \in Elements(p) : s.do \in Simple /\ PoolRole(a, Prim(s))
  BY <1>2 DEF PoolAsk
<1>7. WillOf(q, p) = {Prim(s) : s \in Elements(p)}
  BY <1>6, SimpleWill
<1>8. \A u \in WillOf(q, p) : PoolRole(a, u)
  BY <1>6, <1>7
<1>9. PoolAsks'
  <2>1. Straight(q)' /\ (asked'[q].kind = "ResetAll" => asked'[q].on = "all")
    BY <1>2, <1>4, <1>6 DEF Straight, PoolAsk
  <2>2. ASSUME NEW r \in Requests \ {q}
        PROVE  Straight(r)' /\ (asked'[r].kind = "ResetAll" => asked'[r].on = "all")
    BY <1>1, <1>4 DEF Straight, PoolAsks
  <2>3. QED
    BY <2>1, <2>2 DEF PoolAsks
<1>10. PoolRoles'
  <2>1. ASSUME NEW r \in Requests, NEW u \in WillOf(r, todo'[r])
        PROVE  PoolRole(asked'[r], u)
    BY <1>1, <1>4, <1>8, <2>1 DEF PoolRoles
  <2>2. QED
    BY <2>1 DEF PoolRoles, Will
<1>11. PoolsNamed' /\ PoolsKept'
  BY <1>1, <1>4, <1>5 DEF PoolsNamed, PoolsKept, PoolThere
<1>12. Next1(q)' = Prim(Head(p)) /\ \A r \in Requests \ {q} : Next1(r)' = Next1(r)
  BY <1>4 DEF Next1
<1>13. PoolsEmptied'
  <2>1. ASSUME NEW r \in Requests, todo'[r] # << >>, asked'[r].kind \in PoolEnders,
               ~Emptying(asked'[r], Next1(r)'), NEW x \in db'["ip_pool_ips"], Ends(asked'[r], x.pool[1])
        PROVE  PoolClash(x.pool[1])'
    <3>1. r # q
      BY <1>2, <1>4, <1>12, <2>1 DEF PoolAsk
    <3>2. PoolClash(x.pool[1])
      BY <1>1, <1>4, <1>12, <2>1, <3>1 DEF PoolsEmptied, AskedFor
    <3>3. QED
      BY <1>5, <3>2
  <2>2. QED
    BY <2>1 DEF PoolsEmptied, AskedFor, Emptying
<1>14. PoolsFilled'
  <2>1. ASSUME NEW r \in Requests, NEW u \in WillOf(r, todo'[r]), Filling(u), NEW o, o = asked'[r].on
        PROVE  Pooling(Next1(r)') \/ PoolThere(o)' \/ PoolClash(o)'
    <3>1. CASE r = q
      <4>1. a.kind \in PoolWriters
        BY <1>4, <1>8, <2>1, <3>1 DEF PoolRole, Filling
      <4>2. QED
        BY <1>2, <1>12, <3>1, <4>1 DEF PoolAsk
    <3>2. CASE r # q
      <4>1. Pooling(Next1(r)) \/ PoolThere(o) \/ PoolClash(o)
        BY <1>1, <1>4, <2>1, <3>2 DEF PoolsFilled
      <4>2. QED
        BY <1>4, <1>5, <1>12, <3>2, <4>1 DEF PoolThere
    <3>3. QED
      BY <3>1, <3>2
  <2>2. QED
    BY <2>1 DEF PoolsFilled, Will
<1>15. QED
  BY <1>9, <1>10, <1>11, <1>13, <1>14 DEF PoolInv

LEMMA PoolsBegin == Init => PoolInv
<1> SUFFICES ASSUME Init, scene = "ips" PROVE PoolInv
  BY DEF PoolInv
<1>1. PICK d : DatabaseInit(d) /\ (d \in OnDomain(IPSeeds) \/ d = NoRows)
  BY DEF Init, Seeds
<1>2. db = d /\ \A r \in Requests : asked[r] = NotAsked /\ todo[r] = << >>
  BY <1>1 DEF DatabaseInit
<1> DEFINE pool(y) == y.id = <<"seed", 1>>
           member(x) == x.pool = <<"seed", 1>>
<1>3. \/ d["ip_pools"] = {} /\ d["ip_pool_ips"] = {}
      \/ \E y, x : d["ip_pools"] = {y} /\ d["ip_pool_ips"] = {x} /\ pool(y) /\ member(x)
  <2>1. NoRows["ip_pools"] = {} /\ NoRows["ip_pool_ips"] = {} /\ DOMAIN NoRows = Tables
    BY PoolTables DEF NoRows
  <2>2. ASSUME NEW seeds, NEW e \in OnDomain(seeds), \A s \in seeds : DOMAIN s = Tables
        PROVE  \E s \in seeds : e["ip_pools"] = s["ip_pools"] /\ e["ip_pool_ips"] = s["ip_pool_ips"]
    <3>1. PICK s \in seeds : e = [s EXCEPT !.domains = {Domain(<<"seed", 1>>, SendingDomain, TRUE)},
                                           !.dns_records = {DNSRecords(<<"seed", 1>>, <<"seed", 1>>, TRUE)}]
      BY <2>2 DEF OnDomain
    <3>2. QED
      BY <2>2, <3>1, PoolTables
  <2>4. \A ip : /\ pool(IPPool(<<"seed", 1>>, "seed"))
                /\ member(IPPoolIP(<<"seed", ip>>, <<"seed", 1>>, ip))
    BY DEF IPPool, IPPoolIP
  <2> DEFINE plain == [NoRows EXCEPT !.ips = DefaultIPs]
             y == IPPool(<<"seed", 1>>, "seed")
             row(ip) == IPPoolIP(<<"seed", ip>>, <<"seed", 1>>, ip)
  <2>5. plain["ip_pools"] = {} /\ plain["ip_pool_ips"] = {} /\ DOMAIN plain = Tables
    BY <2>1, PoolTables
  <2>6. \A s \in IPSeeds : s = plain \/ \E ip : s = [plain EXCEPT !.ip_pools = {y}, !.ip_pool_ips = {row(ip)}]
    BY DEF IPSeeds
  <2> HIDE DEF plain, y, row
  <2>7. \A ip : LET s == [plain EXCEPT !.ip_pools = {y}, !.ip_pool_ips = {row(ip)}]
                IN  DOMAIN s = Tables /\ s["ip_pools"] = {y} /\ s["ip_pool_ips"] = {row(ip)}
    BY <2>5, PoolTables
  <2>8. \A s \in IPSeeds : /\ DOMAIN s = Tables
                           /\ \/ s["ip_pools"] = {} /\ s["ip_pool_ips"] = {}
                              \/ \E ip : s["ip_pools"] = {y} /\ s["ip_pool_ips"] = {row(ip)}
    BY <2>5, <2>6, <2>7
  <2>9. \A ip : pool(y) /\ member(row(ip))
    BY <2>4 DEF y, row
  <2> HIDE DEF pool, member
  <2>10. d \in OnDomain(IPSeeds) => \E s \in IPSeeds : d["ip_pools"] = s["ip_pools"] /\ d["ip_pool_ips"] = s["ip_pool_ips"]
    BY <2>2, <2>8
  <2>11. QED
    BY <1>1, <2>1, <2>8, <2>9, <2>10
<1>4. \A r \in Requests : Will(r) = {} /\ asked[r].kind = "none" /\ Straight(r)
  <2>1. Elements(<< >>) = {}
    BY DEF Elements
  <2>2. QED
    BY <1>2, <2>1, NothingLeft DEF NotAsked, Ask, Straight
<1>5. PoolAsks /\ PoolRoles /\ PoolsEmptied /\ PoolsFilled
  BY <1>2, <1>4 DEF PoolAsks, PoolRoles, PoolsEmptied, PoolsFilled
<1>6. PoolsNamed /\ PoolsKept
  BY <1>2, <1>3 DEF PoolsNamed, PoolsKept, PoolThere
<1>7. QED
  BY <1>5, <1>6 DEF PoolInv

LEMMA PoolsImply ==
  ASSUME RecordsInv, Scoped, PoolInv
  PROVE  PoolIPsFollowPool
<1>1. ASSUME NEW x \in db["ip_pool_ips"]
      PROVE  (\E p \in db["ip_pools"] : p.id = x.pool) \/ Clash(PoolEnders, PoolWriters, x.pool[1])
  <2>1. scene = "ips"
    <3>1. ~Elsewhere("ip_pool_ips")
      BY <1>1, PoolTables DEF Scoped
    <3>2. scene \in Components /\ "ip_pool_ips" \in TablesOf(scene)
      BY <3>1 DEF Elsewhere
    <3>3. scene \in DOMAIN Duties
      BY <3>2, ServiceAssumption, ResetTablesOf
    <3>4. QED
      BY <3>2, <3>3 DEF TablesOf, OwnOf, Duties
  <2>2. x.pool = <<x.pool[1], 1>> /\ (PoolThere(x.pool[1]) \/ PoolClash(x.pool[1]))
    BY <1>1, <2>1 DEF PoolInv, PoolsKept
  <2>3. QED
    BY <2>2 DEF PoolThere, PoolClash
<1>2. QED
  BY <1>1 DEF PoolIPsFollowPool, PoolEnders, PoolWriters

LEMMA PoolsStep == Settled /\ PoolInv /\ [Next]_vars => PoolInv'
<1> SUFFICES ASSUME Settled, PoolInv, [Next]_vars PROVE PoolInv'
  OBVIOUS
<1>1. RecordsInv /\ scene' = scene /\ (Idle \/ \E q \in Requests : Arrive(q) \/ Continue(q))
  BY ServiceSteps DEF Settled, Steady
<1>2. CASE Idle
  <2>1. db' = db /\ todo' = todo /\ asked' = asked /\ before' = before /\ scene' = scene
    BY <1>2 DEF Idle, dbVars
  <2>2. PoolAsks' = PoolAsks /\ PoolRoles' = PoolRoles
    BY <2>1 DEF PoolAsks, Straight, PoolRoles, Will, PoolRole
  <2>3. \A o : PoolThere(o)' = PoolThere(o) /\ PoolClash(o)' = PoolClash(o)
    BY <2>1 DEF PoolThere, PoolClash, Clash, Overlap, AskedFor, Preceded
  <2>4. \A r : Next1(r)' = Next1(r) /\ (AskedFor(r, PoolEnders)' <=> AskedFor(r, PoolEnders))
               /\ Will(r)' = Will(r)
    BY <2>1 DEF Next1, AskedFor, Will
  <2>5. scene = "ips" => PoolsNamed' /\ PoolsKept'
    BY <2>1, <2>3 DEF PoolInv, PoolsNamed, PoolsKept
  <2>6. QED
    BY <2>1, <2>2, <2>3, <2>4, <2>5 DEF PoolInv, PoolsEmptied, PoolsFilled
<1>3. ASSUME NEW q \in Requests, Arrive(q) PROVE PoolInv'
  BY <1>1, <1>3, PoolsArrive
<1>4. ASSUME NEW q \in Requests, Continue(q) PROVE PoolInv'
  BY <1>1, <1>4, PoolsContinue
<1>5. QED
  BY <1>1, <1>2, <1>3, <1>4

\* No address of a deleted pool is left, except through a deletion (or a reset) that overlapped
\* a request adding to that pool, for any number of pools, addresses and requests
\* (ip/handlers.go: DeletePool empties the pool before it deletes it; CreatePool and UpdatePool
\* save the pool before they fill it, and do not look again).
THEOREM PoolIPsGoWithPool == Spec => []PoolIPsFollowPool
<1>1. Settled /\ PoolInv => PoolIPsFollowPool
  BY PoolsImply DEF Settled, Steady
<1>2. QED
  BY <1>1, SettledBegins, SettledSteps, PoolsBegin, PoolsStep, PTL DEF Spec

----------------------------------------------------------------------------
(* The signing key.                                                        *)

\* The key has not been set yet; it is that of s, or of a setter that was not over before s.
SetsKey(p)    == p.do = "update" /\ p.table = "config" /\ "key" \in DOMAIN p.row
KeyComing(s)  == \E p \in Will(s) : SetsKey(p)
KeyFrom(k, s) ==
  \/ k = asked[s].sets.key
  \/ \E q \in KeySetters \ {s} : ~Preceded(q, s) /\ asked[q].sets.key = k

Delivering(p) == p.do = "put" /\ p.table = "webhook_deliveries"
Signed(d) ==
  /\ d.trigger \in Requests /\ asked[d.trigger] # NotAsked
  /\ d.key = "torn" => \E s \in KeySetters : Overlap(s, d.trigger)
  /\ d.key # "torn" => \A s \in KeySetters \ failed : Preceded(s, d.trigger) => KeyFrom(d.key, s)

KeysWhole  == \A s \in KeySetters : asked[s].saves # {} /\ asked[s].sets.key # "torn"
KeyInForce == \A c \in db["config"] :
  c.key # "torn" /\ \A s \in KeySetters \ failed : KeyComing(s) \/ KeyFrom(c.key, s)
AllSigned  == /\ \A d \in db["webhook_deliveries"] : Signed(d)
              /\ \A r \in Requests : \A p \in Will(r) : Delivering(p) => Signed(p.row)
SignInv == KeysWhole /\ KeyInForce /\ AllSigned

LEMMA KeyUpdates ==
  ASSUME RecordsInv, KeysWhole, NEW r \in Requests, NEW p \in Will(r), SetsKey(p)
  PROVE  r \in KeySetters /\ p.where = All /\ p.row.key = asked[r].sets.key /\ p.row.key # "torn"
<1>1. Meant(r, asked[r], p)
  BY DEF RecordsInv, Shapes
<1>2. Configures(asked[r], p)
  BY <1>1 DEF Meant, SetsKey
<1>3. QED
  BY <1>2 DEF Configures, SetsKey, KeySetters, KeysWhole

LEMMA ConfigWriters ==
  ASSUME RecordsInv, NEW r \in Requests, NEW p \in Will(r), p.table = "config"
  PROVE  p.do = "update" /\ p.where = All
<1>1. Meant(r, asked[r], p)
  BY DEF RecordsInv, Shapes
<1>2. QED
  BY <1>1 DEF Meant, Stores, Configures

LEMMA KeySetterIsSimple ==
  ASSUME RecordsInv, KeysWhole, NEW s \in KeySetters
  PROVE  s \in Requests /\ \A u \in Elements(todo[s]) : u.do \notin Special
BY DEF RecordsInv, Shapes, KeysWhole, KeySetters

LEMMA KeyFromOn ==
  ASSUME NEW q, Outcome(q)
  PROVE  /\ KeySetters' = KeySetters /\ failed \subseteq failed'
         /\ \A k, s : KeyFrom(k, s)' <=> KeyFrom(k, s)
         /\ \A d : Signed(d) => Signed(d)'
<1>1. asked' = asked /\ before' = before /\ failed \subseteq failed'
  BY DEF Outcome
<1>2. KeySetters' = KeySetters
  BY <1>1 DEF KeySetters
<1>3. \A k, s : KeyFrom(k, s)' <=> KeyFrom(k, s)
  BY <1>1, <1>2 DEF KeyFrom, Preceded
<1>4. \A s, u : (Overlap(s, u)' <=> Overlap(s, u)) /\ (Preceded(s, u)' <=> Preceded(s, u))
  BY <1>1 DEF Overlap, Preceded
<1>5. ASSUME NEW d, Signed(d) PROVE Signed(d)'
  BY <1>1, <1>2, <1>3, <1>4, <1>5 DEF Signed
<1>6. QED
  BY <1>1, <1>2, <1>3, <1>5

LEMMA KeyInForceOn ==
  ASSUME RecordsInv, KeysWhole, KeyInForce, NEW q, Outcome(q)
  PROVE  KeyInForce'
<1>0. q \in Requests /\ todo[q] # << >> /\ asked' = asked /\ "config" \in Tables
  BY TheTables DEF Outcome
<1>1. KeySetters' = KeySetters /\ failed \subseteq failed' /\ \A k, s : KeyFrom(k, s)' <=> KeyFrom(k, s)
  BY KeyFromOn
<1>2. ASSUME NEW x \in db'["config"], NEW y \in db["config"], x.key = y.key,
             NEW s \in KeySetters \ failed', ~KeyFrom(x.key, s)
      PROVE  KeyComing(s)'
  <2>1. KeyComing(s) /\ s \in Requests
    BY <1>1, <1>2 DEF KeyInForce, KeySetters
  <2>2. PICK p \in Will(s) : SetsKey(p)
    BY <2>1 DEF KeyComing
  <2>3. CASE s # q
    BY <1>0, <2>1, <2>3 DEF KeyComing, Will, Outcome
  <2>4. CASE s = q
    <3>1. Followed(q, p)
      BY <1>2, <2>2, <2>4, KeySetterIsSimple DEF Outcome
    <3>2. p.do = "update" /\ p.table = "config" /\ p.where = All /\ p.row.key = asked[q].sets.key /\ "key" \in DOMAIN p.row
      BY <2>1, <2>2, <2>4, KeyUpdates DEF SetsKey
    <3>3. CASE db'["config"] = Apply(p, db["config"])
      <4>1. PICK z \in db["config"] : x = IF ~z.dead /\ Fits(z, p.where) THEN With(z, p.row) ELSE z
        BY <1>2, <3>2, <3>3 DEF Apply
      <4>2. ~z.dead /\ Fits(z, p.where)
        BY <3>2, NothingFits DEF RecordsInv, Origins
      <4>3. x = With(z, p.row)
        BY <4>1, <4>2
      <4>4. With(z, p.row)["key"] = p.row["key"]
        BY <3>2, WithSet
      <4>5. x.key = asked[s].sets.key
        BY <2>4, <3>2, <4>3, <4>4
      <4>6. QED
        BY <1>2, <4>5 DEF KeyFrom
    <3>4. CASE p \in WillOf(q, todo'[q])
      BY <2>2, <2>4, <3>4 DEF KeyComing, Will
    <3>5. QED
      BY <1>2, <2>4, <3>1, <3>2, <3>3, <3>4 DEF Followed
  <2>5. QED
    BY <2>3, <2>4
<1>3. ASSUME NEW x \in db'["config"]
      PROVE  x.key # "torn" /\ \A s \in KeySetters \ failed' : KeyComing(s)' \/ KeyFrom(x.key, s)
  <2>1. CASE \E y \in db["config"] : x.key = y.key
    BY <1>2, <2>1 DEF KeyInForce
  <2>2. CASE \E p \in Will(q), y \in db["config"] : p.table = "config" /\ p.do = "update" /\ x = With(y, p.row)
    <3>1. PICK p \in Will(q), y \in db["config"] : p.table = "config" /\ p.do = "update" /\ x = With(y, p.row)
      BY <2>2
    <3>2. CASE "key" \in DOMAIN p.row
      <4>1. SetsKey(p)
        BY <3>1, <3>2 DEF SetsKey
      <4>2. q \in KeySetters /\ p.row.key = asked[q].sets.key /\ p.row.key # "torn"
        BY <1>0, <4>1, KeyUpdates
      <4>3. With(y, p.row)["key"] = p.row["key"]
        BY <3>2, WithSet
      <4>4. x.key = asked[q].sets.key /\ x.key # "torn"
        BY <3>1, <4>2, <4>3
      <4>5. ASSUME NEW s \in KeySetters PROVE KeyFrom(x.key, s)
        <5>1. ~Preceded(q, s)
          BY <1>0, Active
        <5>2. QED
          BY <4>2, <4>4, <5>1 DEF KeyFrom
      <4>6. QED
        BY <4>4, <4>5
    <3>3. CASE "key" \notin DOMAIN p.row
      <4>1. "key" \in Columns("config")
        BY DEF Columns, Saved, Schema
      <4>2. With(y, p.row)["key"] = y["key"]
        BY <1>0, <3>1, <3>3, <4>1, ChangedFrom
      <4>3. QED
        BY <2>1, <3>1, <4>2
    <3>4. QED
      BY <3>2, <3>3
  <2>3. Kept("config", x) \/ Stored(q, "config", x) \/ Changed(q, "config", x)
    BY <1>0, NewRows
  <2>4. ~Stored(q, "config", x)
    BY <1>0, ConfigWriters DEF Stored
  <2>5. QED
    BY <2>1, <2>2, <2>3, <2>4 DEF Kept, Changed
<1>4. QED
  BY <1>1, <1>3 DEF KeyInForce

LEMMA SignedOn ==
  ASSUME RecordsInv, SignInv, NEW q, Outcome(q)
  PROVE  AllSigned'
<1> DEFINE t == "webhook_deliveries"
<1>0. q \in Requests /\ todo[q] # << >> /\ t \in Tables
  BY TheTables DEF Outcome
<1>1. \A d : Signed(d) => Signed(d)'
  BY KeyFromOn
<1>2. ASSUME NEW p \in WillOf(q, todo'[q]), Records(q, p) PROVE Signed(p.row)'
  <2>1. todo[q] # << >> /\ Head(todo[q]).do = "deliver" /\ p.row.trigger = q /\ p.row.key \in SigningKey
    BY <1>2 DEF Records, Deliver
  <2>2. asked[q] # NotAsked
    BY <1>0, Active
  <2>3. ASSUME p.row.key = "torn" PROVE \E s \in KeySetters : Overlap(s, q)
    <3>1. \A c \in db["config"] : c.key # "torn"
      BY DEF SignInv, KeyInForce
    <3>2. PICK s \in Requests : WritesKey(s)
      BY <2>1, <2>3, <3>1 DEF SigningKey
    <3>3. /\ todo[s] # << >> /\ Head(todo[s]).do = "update"
          /\ Head(todo[s]).table = "config" /\ "key" \in DOMAIN Head(todo[s]).row
      BY <3>2 DEF WritesKey
    <3>4. SetsKey(Head(todo[s])) /\ Head(todo[s]).do \in Simple /\ Prim(Head(todo[s])) = Head(todo[s])
      BY <3>3 DEF SetsKey, Simple, Prim
    <3>5. Head(todo[s]) \in Will(s)
      BY <3>3, <3>4, Situation, LeadsOfSimple
    <3>6. s \in KeySetters
      BY <3>4, <3>5, KeyUpdates DEF SignInv
    <3>7. Overlap(s, q)
      BY <1>0, <2>1, <2>2, <3>3, Active DEF Overlap
    <3>8. QED
      BY <3>6, <3>7
  <2>4. ASSUME p.row.key # "torn", NEW s \in KeySetters \ failed, Preceded(s, q) PROVE KeyFrom(p.row.key, s)
    <3>1. PICK c \in db["config"] : c.key = p.row.key
      BY <2>1, <2>4 DEF SigningKey
    <3>2. KeyComing(s) \/ KeyFrom(c.key, s)
      BY <2>4 DEF SignInv, KeyInForce
    <3>3. ~KeyComing(s)
      <4>1. todo[s] = << >>
        BY <2>4, Active DEF KeySetters
      <4>2. QED
        BY <4>1, NothingLeft DEF KeyComing
    <3>4. QED
      BY <3>1, <3>2, <3>3
  <2>5. Signed(p.row)
    BY <1>0, <2>1, <2>2, <2>3, <2>4 DEF Signed
  <2>6. QED
    BY <1>1, <2>5
<1>3. ASSUME NEW d \in db'[t] PROVE Signed(d)'
  <2>1. CASE Kept(t, d)
    BY <1>1, <2>1 DEF Kept, SignInv, AllSigned
  <2>2. CASE Stored(q, t, d)
    BY <1>0, <1>1, <2>2 DEF Stored, SignInv, AllSigned, Delivering
  <2>3. ASSUME NEW p \in Will(q), NEW y \in db[t], p.do = "update", p.table = t, d = With(y, p.row)
        PROVE  Signed(d)'
    <3>1. Ancestor(t, d, y)
      BY <1>0, <2>3, ChangedFrom
    <3>2. d.trigger = y.trigger /\ d.key = y.key
      BY <3>1 DEF Ancestor, Fixed, Schema
    <3>3. Signed(d)
      BY <3>2 DEF SignInv, AllSigned, Signed
    <3>4. QED
      BY <1>1, <3>3
  <2>4. QED
    BY <1>0, <2>1, <2>2, <2>3, NewRows DEF Changed
<1>4. ASSUME NEW r \in Requests, NEW p \in WillOf(r, todo'[r]), Delivering(p) PROVE Signed(p.row)'
  <2>1. p \in Will(r) \/ (r = q /\ Records(q, p))
    BY <1>4 DEF Outcome, ProgramAfter, Will
  <2>2. QED
    BY <1>1, <1>2, <1>4, <2>1 DEF SignInv, AllSigned
<1>5. QED
  BY <1>3, <1>4 DEF AllSigned, Will, Delivering

LEMMA SignContinues ==
  ASSUME RecordsInv, SignInv, NEW q \in Requests, Continue(q)
  PROVE  SignInv'
<1>1. Outcome(q)
  BY OutcomeOfContinue
<1>2. KeysWhole'
  <2>1. KeySetters' = KeySetters /\ asked' = asked
    BY <1>1, KeyFromOn DEF Outcome
  <2>2. QED
    BY <2>1 DEF SignInv, KeysWhole
<1>3. QED
  BY <1>1, <1>2, KeyInForceOn, SignedOn DEF SignInv

\* What a request may ask for.
SignAsk(r, a, q) == Modest(a) /\ \A u \in WillOf(r, q) : ~Delivering(u) /\ (SetsKey(u) => u.row.key # "torn")

LEMMA SignAskOne ==
  ASSUME NEW r, NEW a, NEW set, Modest(a), "key" \in DOMAIN set => set.key # "torn"
  PROVE  SignAsk(r, a, <<SetConfig(set)>>)
<1> DEFINE s == SetConfig(set)
<1>1. s.do = "update" /\ s.table = "config" /\ s.row = set
  BY DEF SetConfig, Update
<1> HIDE DEF s
<1>2. WillOf(r, <<s>>) = {Prim(s)} /\ Prim(s) = s
  BY <1>1, WillOne DEF OneTable, Simple, Prim
<1>3. QED
  BY <1>1, <1>2 DEF SignAsk, Delivering, SetsKey, s

LEMMA SignAskJoin ==
  ASSUME NEW r, NEW a, NEW p, NEW q, IsSequence(p), IsSequence(q), SignAsk(r, a, p), SignAsk(r, a, q)
  PROVE  SignAsk(r, a, p \o q)
<1>1. Elements(p \o q) = Elements(p) \cup Elements(q)
  BY ConcatOf
<1>2. QED
  BY <1>1 DEF SignAsk, WillOf

LEMMA OwnTables ==
  ASSUME NEW c \in DOMAIN Duties
  PROVE  "config" \notin OwnOf(c) /\ "webhook_deliveries" \notin OwnOf(c)
BY DEF OwnOf, Duties

LEMMA SignAskedConfig ==
  ASSUME NEW r \in Requests, UpdateConfig(r)
  PROVE  \E a, q : Begin(r, a, q) /\ SignAsk(r, a, q)
<1>1. PICK behavior \in {All, [verify |-> FALSE]}, key \in {All, [key |-> r]}, e \in Refusals :
        Begin(r, AskSave("UpdateConfig", "all", "config", [id |-> "config"], With(behavior, key)),
              Merge(behavior) \o Merge(key) \o e)
  BY DEF UpdateConfig, Refusals
<1> DEFINE a == AskSave("UpdateConfig", "all", "config", [id |-> "config"], With(behavior, key))
           q == Merge(behavior) \o Merge(key) \o e
<1>2. behavior # All => "key" \notin DOMAIN behavior
  OBVIOUS
<1>3. key # All => key.key # "torn"
  BY WebhooksAssumption
<1>4. Modest(a)
  BY ModestAsks
<1>5. \A s \in Elements(q) : s = Invalid \/ (behavior # All /\ s = SetConfig(behavior)) \/ (key # All /\ s = SetConfig(key))
  BY ConfigStatements
<1> HIDE DEF a, q
<1>6. behavior # All => SignAsk(r, a, <<SetConfig(behavior)>>)
  BY <1>2, <1>4, SignAskOne
<1>7. key # All => SignAsk(r, a, <<SetConfig(key)>>)
  BY <1>3, <1>4, SignAskOne
<1>8. Leads(r, Invalid) = {}
  <2>1. Invalid.do = "invalid"
    BY DEF Invalid
  <2>2. QED
    BY <2>1 DEF Leads, Branches, Prims, Simple
<1>9. \A s : SignAsk(r, a, <<s>>) => \A u \in Leads(r, s) : ~Delivering(u) /\ (SetsKey(u) => u.row.key # "torn")
  <2>1. \A s : Elements(<<s>>) = {s}
    BY ElementsOfTuples
  <2>2. QED
    BY <2>1 DEF SignAsk, WillOf
<1>10. \A s \in Elements(q) : \A u \in Leads(r, s) : ~Delivering(u) /\ (SetsKey(u) => u.row.key # "torn")
  BY <1>5, <1>6, <1>7, <1>8, <1>9
<1>11. SignAsk(r, a, q)
  BY <1>4, <1>10 DEF SignAsk, WillOf
<1>12. QED
  BY <1>1, <1>11 DEF a, q

LEMMA SignAsked ==
  ASSUME RecordsInv, NEW r \in Requests, Arrive(r)
  PROVE  \E a, q : Begin(r, a, q) /\ SignAsk(r, a, q)
<1>1. CASE Tends(r, scene)
  <2>1. PICK a, q : Begin(r, a, q) /\ Modest(a) /\ Confined(r, q, OwnOf(scene))
    BY <1>1 DEF Tends, Within
  <2>2. scene \in DOMAIN Duties
    BY ServiceAssumption, ResetTablesOf DEF Arrive
  <2>3. \A u \in WillOf(r, q) : u.table # "config" /\ u.table # "webhook_deliveries"
    BY <2>1, <2>2, OwnTables DEF Confined
  <2>4. QED
    BY <2>1, <2>3 DEF SignAsk, Delivering, SetsKey
<1>2. CASE RegenerateSigningKey(r)
  <2> DEFINE set == [key |-> r]
             a == AskSave("RegenerateSigningKey", "all", "config", [id |-> "config"], set)
  <2>1. Begin(r, a, <<SetConfig(set)>>)
    BY <1>2 DEF RegenerateSigningKey, SetConfig
  <2>2. set.key # "torn"
    BY WebhooksAssumption
  <2>3. Modest(a)
    BY ModestAsks
  <2> HIDE DEF a, set
  <2>4. QED
    BY <2>1, <2>2, <2>3, SignAskOne
<1>3. CASE scene \in DOMAIN resetTables /\ ResetAll(r, resetTables[scene])
  <2> DEFINE tables == resetTables[scene]
             n == Len(tables)
             f == [i \in 1..n |-> Purge(tables[i], All)]
             u == SetConfig(DefaultConfig)
             b == AskSave("ResetAll", "all", "config", Config, DefaultConfig)
             a == [b EXCEPT !.gone = UNION {{<<t, x.id>> : x \in db[t]} : t \in ToSet(tables)}]
  <2>1. tables \in Seq(Tables \ {"config"})
    BY <1>3, ResetTablesAre
  <2>2. n \in Nat /\ DOMAIN tables = 1..n
    BY <2>1
  <2>3. Begin(r, a, f \o <<u>>)
    BY <1>3, <2>1, <2>2 DEF ResetAll
  <2>4. Modest(a)
    <3>1. a.saves = b.saves /\ b.saves = {<<"config", Config.id>>}
      BY DEF AskSave, Ask
    <3>2. a.saves # {}
      BY <3>1
    <3> HIDE DEF a
    <3>3. QED
      BY <3>2 DEF Modest
  <2>5. SignAsk(r, a, <<u>>) /\ IsSequence(<<u>>)
    <3>1. DefaultConfig.key # "torn"
      BY DEF DefaultConfig
    <3> HIDE DEF a
    <3>2. QED
      BY <2>4, <3>1, SignAskOne, ElementsOfTuples
  <2> HIDE DEF a, u, tables, n
  <2>6. SignAsk(r, a, f) /\ IsSequence(f)
    <3>1. IsList(f, n) /\ \A i \in 1..n : f[i].do = "purge"
      BY <2>2 DEF IsList, Purge
    <3> HIDE DEF f
    <3>2. IsSequence(f) /\ \A s \in Elements(f) : s.do = "purge"
      BY <3>1, Listed DEF IsList, Elements
    <3>3. \A s \in Elements(f) : Leads(r, s) = {s}
      BY <3>2, LeadsOfSimple DEF Simple, Prim
    <3>4. \A p \in WillOf(r, f) : p.do = "purge"
      BY <3>2, <3>3 DEF WillOf
    <3>5. QED
      BY <2>4, <3>2, <3>4 DEF SignAsk, Delivering, SetsKey
  <2> HIDE DEF f
  <2>7. QED
    BY <2>3, <2>5, <2>6, SignAskJoin
<1>4. QED
  BY <1>1, <1>2, <1>3, SignAskedConfig, ArriveTends

LEMMA SignArrives ==
  ASSUME RecordsInv, SignInv, NEW r \in Requests, Arrive(r)
  PROVE  SignInv'
<1>1. PICK a, q : Begin(r, a, q) /\ SignAsk(r, a, q)
  BY SignAsked
<1>2. Starts(r, a, q)
  BY <1>1, ArriveStarts, BeginStarts
<1>3. /\ asked[r] = NotAsked /\ asked'[r] = a /\ todo'[r] = q /\ db' = db /\ failed' = failed
      /\ WillOf(r, todo'[r]) = WillOf(r, q) /\ \A s \in Requests \ {r} : WillOf(s, todo'[s]) = Will(s)
      /\ \A s \in Requests \ {r} : asked'[s] = asked[s] /\ todo'[s] = todo[s]
      /\ \A s : ~Preceded(r, s)'
  BY <1>2, Starting
<1>4. r \notin KeySetters /\ KeySetters' \ {r} = KeySetters
  <2>1. NotAsked.sets = All /\ "key" \notin DOMAIN All
    BY DEF NotAsked, Ask, All
  <2>2. QED
    BY <1>3, <2>1 DEF KeySetters
<1>5. \A s \in Requests \ {r} : \A u : Preceded(u, s)' <=> Preceded(u, s)
  BY <1>2, StartingAnswers
<1>6. ASSUME NEW k, NEW s \in KeySetters, KeyFrom(k, s) PROVE KeyFrom(k, s)'
  <2>1. s \in Requests \ {r} /\ asked'[s] = asked[s]
    BY <1>3, <1>4 DEF KeySetters
  <2>2. ASSUME NEW u \in KeySetters \ {s}, ~Preceded(u, s), asked[u].sets.key = k PROVE KeyFrom(k, s)'
    <3>1. u \in KeySetters' /\ asked'[u] = asked[u] /\ ~Preceded(u, s)'
      BY <1>3, <1>4, <1>5, <2>1, <2>2 DEF KeySetters
    <3>2. QED
      BY <2>2, <3>1 DEF KeyFrom
  <2>3. QED
    BY <1>6, <2>1, <2>2 DEF KeyFrom
<1>7. ASSUME r \in KeySetters'
      PROVE  a.saves # {} /\ a.sets.key # "torn" /\ KeyComing(r)'
  <2>1. "key" \in DOMAIN a.sets
    BY <1>3, <1>7 DEF KeySetters
  <2>2. a.saves # {}
    BY <1>1, <2>1 DEF SignAsk, Modest, All
  <2>3. PICK g \in a.saves : TRUE
    BY <2>2
  <2>4. PICK u \in WillOf(r, q) : SetsColumn(u, g, "key")
    BY <1>2, <2>1, <2>3 DEF Starts, Sound
  <2>5. g[1] \in Tables /\ "key" \in Saved(g[1])
    BY <1>2, <2>1, <2>3 DEF Starts, Sound, Targets
  <2>6. g[1] = "config"
    BY <2>5, TheTables DEF Saved, Schema
  <2>7. Meant(r, a, u)
    BY <1>2, <2>4 DEF Starts, Sound, Purposeful
  <2>8. SetsKey(u) /\ Configures(a, u)
    BY <2>4, <2>6, <2>7 DEF SetsColumn, Meant, Stores, SetsKey
  <2>9. a.sets.key # "torn"
    BY <1>1, <2>4, <2>8 DEF SignAsk, Configures, SetsKey
  <2>10. QED
    BY <1>3, <2>2, <2>4, <2>8, <2>9 DEF KeyComing, Will, SetsKey
<1>8. KeysWhole'
  BY <1>3, <1>4, <1>7 DEF SignInv, KeysWhole, KeySetters
<1>9. ASSUME NEW c \in db["config"]
      PROVE  c.key # "torn" /\ \A s \in KeySetters' \ failed : KeyComing(s)' \/ KeyFrom(c.key, s)'
  <2>1. c.key # "torn" /\ \A s \in KeySetters \ failed : KeyComing(s) \/ KeyFrom(c.key, s)
    BY <1>9 DEF SignInv, KeyInForce
  <2>2. \A s \in KeySetters : KeyComing(s) => KeyComing(s)'
    BY <1>3, <1>4 DEF KeyComing, Will, KeySetters
  <2>3. QED
    BY <1>4, <1>6, <1>7, <2>1, <2>2
<1>10. ASSUME NEW d, Signed(d) PROVE Signed(d)'
  <2> DEFINE u == d.trigger
  <2>1. u \in Requests \ {r} /\ asked[u] # NotAsked
    BY <1>3, <1>10 DEF Signed
  <2>2. ASSUME NEW s \in KeySetters, Overlap(s, u) PROVE s \in KeySetters' /\ Overlap(s, u)'
    BY <1>3, <1>4, <1>5, <2>1, <2>2 DEF Overlap, KeySetters
  <2>3. ASSUME NEW s \in KeySetters' \ failed', Preceded(s, u)' PROVE s \in KeySetters \ failed /\ Preceded(s, u)
    BY <1>3, <1>4, <1>5, <2>1, <2>3
  <2>4. d.key = "torn" => \E s \in KeySetters' : Overlap(s, u)'
    BY <1>10, <2>2 DEF Signed
  <2>5. d.key # "torn" => \A s \in KeySetters' \ failed' : Preceded(s, u)' => KeyFrom(d.key, s)'
    BY <1>6, <1>10, <2>3 DEF Signed
  <2>6. QED
    BY <1>3, <2>1, <2>4, <2>5 DEF Signed
<1>11. ASSUME NEW s \in Requests, NEW p \in WillOf(s, todo'[s]), Delivering(p) PROVE s # r /\ p \in Will(s)
  BY <1>1, <1>3, <1>11 DEF SignAsk
<1>12. AllSigned'
  BY <1>3, <1>10, <1>11 DEF SignInv, AllSigned, Will, Delivering
<1>13. KeyInForce'
  BY <1>3, <1>9 DEF KeyInForce
<1>14. QED
  BY <1>8, <1>12, <1>13 DEF SignInv

LEMMA SignBegins == Init => SignInv
<1> SUFFICES ASSUME Init PROVE SignInv
  OBVIOUS
<1>1. PICK d : DatabaseInit(d) /\ (scene \in Components => d \in Seeds(scene))
                                /\ (scene \notin Components => d = NoRows)
  BY DEF Init
<1>2. Sown(d)
  BY <1>1, NoRowsSown, SeedsSown
<1>3. db = d /\ failed = {} /\ \A r \in Requests : asked[r] = NotAsked /\ todo[r] = << >>
  BY <1>1 DEF DatabaseInit
<1>4. db["webhook_deliveries"] = {}
  <2>1. "webhook_deliveries" \in Tables \ {"config"} /\ NoRows["webhook_deliveries"] = {}
    BY TheTables DEF NoRows
  <2>2. CASE scene \in Components
    <3>1. scene \in DOMAIN Duties
      BY <2>2, ServiceAssumption, ResetTablesOf
    <3>2. "webhook_deliveries" \notin OwnOf(scene) \cup {"domains", "dns_records", "domain_webhooks"}
      BY <3>1, OwnTables
    <3>3. QED
      BY <1>1, <1>3, <2>1, <2>2, <3>2, SeedsScoped
  <2>3. QED
    BY <1>1, <1>3, <2>1, <2>2
<1>5. KeySetters = {}
  <2>1. NotAsked.sets = All /\ "key" \notin DOMAIN All
    BY DEF NotAsked, Ask, All
  <2>2. QED
    BY <1>3, <2>1 DEF KeySetters
<1>6. \A c \in db["config"] : c.key = "default"
  <2>1. Config = With([id |-> "config", dead |-> FALSE], DefaultConfig)
    BY DEF Config
  <2>2. DefaultConfig.key = "default" /\ "key" \in DOMAIN DefaultConfig
    BY DEF DefaultConfig
  <2>3. Config["key"] = DefaultConfig["key"]
    BY <2>1, <2>2, WithSet
  <2>4. QED
    BY <1>2, <1>3, <2>2, <2>3 DEF Sown
<1>7. \A r \in Requests : Will(r) = {}
  BY <1>3, NothingLeft
<1>8. QED
  BY <1>4, <1>5, <1>6, <1>7 DEF SignInv, KeysWhole, KeyInForce, AllSigned

LEMMA SignSteps == Settled /\ SignInv /\ [Next]_vars => SignInv'
<1> SUFFICES ASSUME Settled, SignInv, [Next]_vars PROVE SignInv'
  OBVIOUS
<1>1. RecordsInv /\ (Idle \/ \E q \in Requests : Arrive(q) \/ Continue(q))
  BY ServiceSteps DEF Settled, Steady
<1>2. CASE Idle
  <2>1. db' = db /\ todo' = todo /\ asked' = asked /\ before' = before /\ failed' = failed
    BY <1>2 DEF Idle, dbVars
  <2>2. KeySetters' = KeySetters
    BY <2>1 DEF KeySetters
  <2>3. \A k, s : KeyFrom(k, s)' <=> KeyFrom(k, s)
    BY <2>1, <2>2 DEF KeyFrom, Preceded
  <2>4. \A s, u : (Overlap(s, u)' <=> Overlap(s, u)) /\ (Preceded(s, u)' <=> Preceded(s, u))
    BY <2>1 DEF Overlap, Preceded
  <2>5. \A d : Signed(d) => Signed(d)'
    BY <2>1, <2>2, <2>3, <2>4 DEF Signed
  <2>6. \A s : KeyComing(s)' <=> KeyComing(s)
    BY <2>1 DEF KeyComing, Will
  <2>7. KeyInForce'
    BY <2>1, <2>2, <2>3, <2>6 DEF SignInv, KeyInForce
  <2>8. AllSigned'
    BY <2>1, <2>5 DEF SignInv, AllSigned, Will
  <2>9. QED
    BY <2>1, <2>2, <2>7, <2>8 DEF SignInv, KeysWhole
<1>3. QED
  BY <1>1, <1>2, SignArrives, SignContinues

\* A delivery is signed with the key in force when it was made: with one that the last setter
\* over before it set, or a setter that was not over before that one; and its key is torn
\* only if a setter overlapped it, for any number of triggers, setters and resets
\* (webhook/handlers.go: RegenerateSigningKey assigns and TriggerWebhook reads the shared
\* configuration struct without a lock; mock/handlers.go: UpdateConfig and ResetAll).
THEOREM DeliveriesAreSigned == Spec => []SignedWithCurrentKey
<1>1. SignInv => SignedWithCurrentKey
  BY DEF SignInv, AllSigned, Signed, SignedWithCurrentKey, KeyFrom
<1>2. QED
  BY <1>1, SettledBegins, SettledSteps, SignBegins, SignSteps, PTL DEF Spec
----------------------------------------------------------------------------
(* Tags.                                                                   *)

TagEnders     == {"DeleteTag", "V1DeleteTag", "ResetAll"}
TagDescribers == {"UpdateTag", "V1UpdateTag"}
TagMarkers    == {"EnsureTags"} \cup TagDescribers

\* Who writes and deletes tags.
TagRole(r, a, p) ==
  \/ p.do = "put" /\ a.kind = "EnsureTags" /\ by(p.row) = r
  \/ p.do = "update" /\ a.kind = "EnsureTags" /\ p.row = [lastSeen |-> r]
  \/ p.do = "update" /\ a.kind \in TagDescribers /\ p.row = [description |-> r]
  \/ p.do = "purge" /\ a.kind = "ResetAll" /\ a.on = "all"
  \/ p.do = "purge" /\ a.kind = "V1DeleteTag" /\ p.where = [tag |-> a.on]
  \/ p.do = "purge" /\ a.kind = "DeleteTag" /\ \E i : p.where = [id |-> i] /\ <<"tags", i>> \in a.gone
TagRoles == \A r \in Requests : \A p \in Will(r) : p.table = "tags" => TagRole(r, asked[r], p)
TagNamed == \A r \in Requests : AskedFor(r, {"DeleteTag"}) =>
  \A g \in asked[r].gone : g[1] = "tags" /\ \A x \in Copies("tags") : x.id = g[2] => x.tag = asked[r].on

\* What a request writes into which tags, and who else does.
Marks1(r)  == IF AskedFor(r, {"EnsureTags"}) THEN [lastSeen |-> r] ELSE [description |-> r]
Markers(r) == IF AskedFor(r, {"EnsureTags"}) THEN {"EnsureTags"} ELSE TagDescribers
Wants(r)   == IF AskedFor(r, {"EnsureTags"}) THEN ToSet(asked[r].urls) ELSE {asked[r].on}

TagRival(r, t) ==
  \E s \in Requests \ {r} :
     /\ ~Preceded(s, r)
     /\ \/ AskedFor(s, TagEnders) /\ asked[s].on \in {t, "all"}
        \/ AskedFor(s, Markers(r))
TagMatches(t, w) == \E x \in db["tags"] : x.tag = t /\ Fits(x, w)

Ensuring(r, t, q)  == \E s \in Elements(q) : s.do = "ensure" /\ s.row.tag = t /\ s.row.lastSeen = r
MarkingBy(r, w, q) == Update("tags", w, Marks1(r)) \in Elements(q) /\ DOMAIN w \subseteq {"id", "tag"}
Marking(r, t)      == \E w : MarkingBy(r, w, todo[r]) /\ (TagMatches(t, w) \/ TagRival(r, t))
Marked1(r, t)      == \E x \in db["tags"] : x.tag = t /\ Fits(x, Marks1(r))

OnlyMarks(q) == \A s \in Elements(q) : s.do \in {"ensure", "update"}
TagsMarked == \A r \in Requests : AskedFor(r, TagMarkers) =>
  /\ OnlyMarks(todo[r])
  /\ \A t \in Wants(r) :
       (AskedFor(r, {"EnsureTags"}) /\ Ensuring(r, t, todo[r])) \/ Marking(r, t) \/ Marked1(r, t) \/ TagRival(r, t)

TagInv == scene = "tags" =>
  TagRoles /\ TagNamed /\ (\A x \in db["tags"] : ~x.dead) /\ TagsMarked

LEMMA TagTable ==
  /\ "tags" \in Tables /\ "tags" # "config" /\ "tags" # "webhook_deliveries"
  /\ UniqueIndex["tags"] = {{"tag"}}
  /\ Fixed("tags") = {"id", "tag"} /\ Columns("tags") = {"id", "tag", "dead", "lastSeen", "description"}
BY DEF Tables, UniqueIndex, Fixed, Columns, Saved, Marked, Schema

\* The columns of a tag that requests write.
LEMMA MarksAre ==
  ASSUME NEW r
  PROVE  /\ AskedFor(r, {"EnsureTags"}) => Marks1(r) = [lastSeen |-> r]
         /\ ~AskedFor(r, {"EnsureTags"}) => Marks1(r) = [description |-> r]
         /\ AskedFor(r, {"EnsureTags"}) => \A x : Fits(x, Marks1(r)) <=> x.lastSeen = r
         /\ ~AskedFor(r, {"EnsureTags"}) => \A x : Fits(x, Marks1(r)) <=> x.description = r
         /\ DOMAIN Marks1(r) \subseteq {"lastSeen", "description"}
<1>1. \A x : Fits(x, [lastSeen |-> r]) <=> x.lastSeen = r
  BY DEF Fits
<1>2. \A x : Fits(x, [description |-> r]) <=> x.description = r
  BY DEF Fits
<1>3. QED
  BY <1>1, <1>2 DEF Marks1

\* What a step leaves of a tag.
TagAfter(q, x) ==
  \E y \in db'["tags"] :
     /\ y.id = x.id /\ y.tag = x.tag
     /\ y.lastSeen = x.lastSeen \/ (AskedFor(q, {"EnsureTags"}) /\ y.lastSeen = q)
     /\ y.description = x.description \/ (AskedFor(q, TagDescribers) /\ y.description = q)
TagEndedBy(q, x) == AskedFor(q, TagEnders) /\ asked[q].on \in {x.tag, "all"}

LEMMA TagOn ==
  ASSUME RecordsInv, TagRoles, TagNamed, NEW q, Outcome(q), NEW x \in db["tags"]
  PROVE  TagAfter(q, x) \/ TagEndedBy(q, x)
<1> DEFINE t == "tags"
<1>1. q \in Requests /\ todo[q] # << >> /\ t \in Tables
  BY TagTable DEF Outcome
<1>2. CASE x \in db'[t]
  BY <1>2 DEF TagAfter
<1>3. CASE x \notin db'[t]
  <2>1. PICK p \in Will(q) : p.table = t /\ db'[t] = Apply(p, db[t])
    BY <1>1, <1>3 DEF Outcome, TablesAfter, Ran
  <2>2. Sane(p) /\ RowsOf(t, db[t]) /\ TagRole(q, asked[q], p)
    BY <1>1, <2>1, Situation DEF TagRoles
  <2>3. \/ p.do = "put" /\ x.id = p.row.id
        \/ p.do = "purge" /\ Fits(x, p.where)
        \/ p.do = "update" /\ With(x, p.row) \in db'[t]
    BY <1>3, <2>1, <2>2, RowsAfter
  <2>4. CASE p.do = "put" /\ x.id = p.row.id
    <3>1. by(p.row) = q
      BY <2>2, <2>4 DEF TagRole
    <3>2. Key(t, p.row) \in IdsOf(q, todo[q])
      BY <2>1, <2>4, <3>1, MineIsUnborn DEF Will
    <3>3. x \in Copies(t)
      BY DEF Copies
    <3>4. QED
      BY <1>1, <2>4, <3>2, <3>3, BornUnseen
  <2>5. CASE p.do = "purge" /\ Fits(x, p.where)
    <3>1. CASE asked[q].kind = "ResetAll" /\ asked[q].on = "all"
      BY <3>1 DEF TagEndedBy, AskedFor, TagEnders
    <3>2. CASE asked[q].kind = "V1DeleteTag" /\ p.where = [tag |-> asked[q].on]
      <4>1. x.tag = asked[q].on
        BY <2>5, <3>2 DEF Fits
      <4>2. QED
        BY <3>2, <4>1 DEF TagEndedBy, AskedFor, TagEnders
    <3>3. CASE asked[q].kind = "DeleteTag" /\ \E i : p.where = [id |-> i] /\ <<t, i>> \in asked[q].gone
      <4>1. PICK i : p.where = [id |-> i] /\ <<t, i>> \in asked[q].gone
        BY <3>3
      <4>2. x.id = i
        BY <2>5, <4>1 DEF Fits
      <4>3. x.tag = asked[q].on
        BY <1>1, <3>3, <4>1, <4>2 DEF TagNamed, AskedFor, Copies
      <4>4. QED
        BY <3>3, <4>3 DEF TagEndedBy, AskedFor, TagEnders
    <3>4. QED
      BY <2>2, <2>5, <3>1, <3>2, <3>3 DEF TagRole
  <2>6. CASE p.do = "update" /\ With(x, p.row) \in db'[t]
    <3> DEFINE y == With(x, p.row)
    <3>1. DOMAIN x = Columns(t)
      BY <2>2 DEF RowsOf
    <3>0. /\ DOMAIN With(x, p.row) = DOMAIN x \cup DOMAIN p.row
          /\ \A c \in DOMAIN p.row : With(x, p.row)[c] = p.row[c]
          /\ \A c \in DOMAIN x \ DOMAIN p.row : With(x, p.row)[c] = x[c]
      BY WithColumn
    <3> HIDE DEF y
    <3>2. /\ \A c \in DOMAIN p.row : y[c] = p.row[c]
          /\ \A c \in DOMAIN x \ DOMAIN p.row : y[c] = x[c]
      BY <3>0 DEF y
    <3>3. CASE asked[q].kind = "EnsureTags" /\ p.row = [lastSeen |-> q]
      <4>1. DOMAIN p.row = {"lastSeen"} /\ p.row.lastSeen = q
        BY <3>3
      <4>2. y.id = x.id /\ y.tag = x.tag /\ y.lastSeen = q /\ y.description = x.description
        BY <3>1, <3>2, <4>1, TagTable
      <4>3. QED
        BY <2>6, <3>3, <4>2 DEF TagAfter, AskedFor, y
    <3>4. CASE asked[q].kind \in TagDescribers /\ p.row = [description |-> q]
      <4>1. DOMAIN p.row = {"description"} /\ p.row.description = q
        BY <3>4
      <4>2. y.id = x.id /\ y.tag = x.tag /\ y.lastSeen = x.lastSeen /\ y.description = q
        BY <3>1, <3>2, <4>1, TagTable
      <4>3. QED
        BY <2>6, <3>4, <4>2 DEF TagAfter, AskedFor, y
    <3>5. QED
      BY <2>2, <2>6, <3>3, <3>4 DEF TagRole
  <2>7. QED
    BY <2>3, <2>4, <2>5, <2>6
<1>4. QED
  BY <1>2, <1>3

LEMMA TagRivalOn ==
  ASSUME RecordsInv, NEW q, Outcome(q), NEW r, NEW t
  PROVE  /\ TagRival(r, t)' <=> TagRival(r, t)
         /\ Wants(r)' = Wants(r) /\ Marks1(r)' = Marks1(r) /\ Markers(r)' = Markers(r)
         /\ \A K : AskedFor(r, K)' <=> AskedFor(r, K)
<1>1. asked' = asked /\ before' = before
  BY DEF Outcome
<1>2. \A s, K : AskedFor(s, K)' <=> AskedFor(s, K)
  BY <1>1 DEF AskedFor
<1>3. Markers(r)' = Markers(r)
  BY <1>2 DEF Markers
<1>4. QED
  BY <1>1, <1>2, <1>3 DEF TagRival, Preceded, Marks1, Wants

\* One that is running is one.
LEMMA RunningTagRival ==
  ASSUME RecordsInv, NEW q \in Requests, todo[q] # << >>, NEW r, q # r, NEW t,
         (AskedFor(q, TagEnders) /\ asked[q].on \in {t, "all"}) \/ AskedFor(q, Markers(r))
  PROVE  TagRival(r, t)
BY Active DEF TagRival

LEMMA MarkedOn ==
  ASSUME RecordsInv, TagRoles, TagNamed, NEW q, Outcome(q), NEW r \in Requests, AskedFor(r, TagMarkers),
         NEW t, Marked1(r, t)
  PROVE  TagRival(r, t) \/ Marked1(r, t)'
<1>1. PICK x \in db["tags"] : x.tag = t /\ Fits(x, Marks1(r))
  BY DEF Marked1
<1>2. q \in Requests /\ todo[q] # << >>
  BY DEF Outcome
<1>3. CASE TagEndedBy(q, x)
  <2>1. q # r
    BY <1>3 DEF TagEndedBy, AskedFor, TagEnders, TagMarkers, TagDescribers
  <2>2. QED
    BY <1>1, <1>2, <1>3, <2>1, RunningTagRival DEF TagEndedBy
<1>4. CASE TagAfter(q, x)
  <2>1. PICK y \in db'["tags"] :
          /\ y.id = x.id /\ y.tag = x.tag
          /\ y.lastSeen = x.lastSeen \/ (AskedFor(q, {"EnsureTags"}) /\ y.lastSeen = q)
          /\ y.description = x.description \/ (AskedFor(q, TagDescribers) /\ y.description = q)
    BY <1>4 DEF TagAfter
  <2>2. CASE Fits(y, Marks1(r))
    BY <1>1, <2>1, <2>2, TagRivalOn DEF Marked1
  <2>3. CASE ~Fits(y, Marks1(r))
    <3>1. q # r /\ AskedFor(q, Markers(r))
      <4>1. CASE AskedFor(r, {"EnsureTags"})
        BY <1>1, <2>1, <2>3, <4>1, MarksAre DEF Markers
      <4>2. CASE ~AskedFor(r, {"EnsureTags"})
        BY <1>1, <2>1, <2>3, <4>2, MarksAre DEF Markers
      <4>3. QED
        BY <4>1, <4>2
    <3>2. QED
      BY <1>2, <3>1, RunningTagRival
  <2>4. QED
    BY <2>2, <2>3
<1>5. QED
  BY <1>3, <1>4, TagOn

LEMMA MatchesOn ==
  ASSUME RecordsInv, TagRoles, TagNamed, NEW q, Outcome(q), NEW r \in Requests, AskedFor(r, TagMarkers),
         NEW t, NEW w, DOMAIN w \subseteq {"id", "tag"}, TagMatches(t, w)
  PROVE  TagRival(r, t) \/ TagMatches(t, w)'
<1>1. PICK x \in db["tags"] : x.tag = t /\ Fits(x, w)
  BY DEF TagMatches
<1>2. q \in Requests /\ todo[q] # << >>
  BY DEF Outcome
<1>3. CASE TagEndedBy(q, x)
  <2>1. q # r
    BY <1>3 DEF TagEndedBy, AskedFor, TagEnders, TagMarkers, TagDescribers
  <2>2. QED
    BY <1>1, <1>2, <1>3, <2>1, RunningTagRival DEF TagEndedBy
<1>4. CASE TagAfter(q, x)
  <2>1. PICK y \in db'["tags"] : y.id = x.id /\ y.tag = x.tag
    BY <1>4 DEF TagAfter
  <2>2. Fits(y, w)
    BY <1>1, <2>1 DEF Fits
  <2>3. QED
    BY <1>1, <2>1, <2>2 DEF TagMatches
<1>5. QED
  BY <1>3, <1>4, TagOn

\* A step of a request that marks tags.
LEMMA TagStep ==
  ASSUME RecordsInv, NEW r \in Requests, Continue(r), OnlyMarks(todo[r]), \A x \in db["tags"] : ~x.dead
  PROVE  LET s == Head(todo[r]) IN
         /\ OnlyMarks(todo'[r]) /\ Elements(Tail(todo[r])) \subseteq Elements(todo'[r])
         /\ s \in Elements(todo[r]) /\ Elements(todo[r]) = {s} \cup Elements(Tail(todo[r]))
         /\ s.do = "ensure" =>
              \/ s.row \in db'["tags"]
              \/ /\ Update("tags", [tag |-> s.row.tag], [lastSeen |-> r]) \in Elements(todo'[r])
                 /\ db' = db /\ \E x \in db["tags"] : x.tag = s.row.tag
         /\ s.do = "update" /\ s.table = "tags" => db'["tags"] = Apply(s, db["tags"])
<1> DEFINE s == Head(todo[r])
           tail == Tail(todo[r])
<1>1. todo[r] # << >>
  BY OutcomeOfContinue DEF Outcome
<1>2. /\ Elements(todo[r]) = {s} \cup Elements(tail) /\ s.do \in {"ensure", "update"}
      /\ \A u \in Elements(tail) : u.do \in {"ensure", "update"}
      /\ IsSequence(tail) /\ DOMAIN todo = Requests /\ DOMAIN db = Tables /\ Indexed(db["tags"], "tags")
  BY <1>1, Situation, TagTable DEF OnlyMarks, Program, Sequel
<1>3. CASE s.do = "update"
  <2>1. Applied(r, s)
    BY <1>3, SimpleStep DEF Simple, Missed, Refused
  <2>2. Prim(s) = s
    BY <1>3 DEF Prim
  <2>3. QED
    BY <1>2, <1>3, <2>1, <2>2 DEF Applied, OnlyMarks
<1>4. CASE s.do = "ensure"
  <2> DEFINE row == s.row
             u == Update("tags", [tag |-> row.tag], [lastSeen |-> r])
  <2>1. EnsureTag(r)
    <3>1. s.do \notin {"put", "save", "update", "purge", "commit", "test", "collect", "deliver", "issue"} /\ s # Invalid
      BY <1>4 DEF Invalid
    <3> HIDE DEF s
    <3>2. ~Write(r) /\ ~SaveMisses(r) /\ ~Test(r) /\ ~Collect(r) /\ ~Deliver(r) /\ ~Issue(r)
          /\ ~RefuseSection(r)
      BY <3>1 DEF Write, SaveMisses, Test, Collect, Deliver, Issue, RefuseSection, s
    <3>3. QED
      BY <3>2 DEF Continue, Execute
  <2>2. CASE Indexed(db["tags"] \cup {row}, "tags")
    <3>1. db' = [db EXCEPT !["tags"] = @ \cup {row}] /\ todo' = [todo EXCEPT ![r] = Tail(@)]
      BY <2>1, <2>2 DEF EnsureTag
    <3>2. row \in db'["tags"] /\ todo'[r] = tail
      BY <1>2, <3>1, TagTable
    <3>3. QED
      BY <1>2, <1>4, <3>2 DEF OnlyMarks
  <2>3. CASE ~Indexed(db["tags"] \cup {row}, "tags")
    <3>1. db' = db /\ todo'[r] = <<u>> \o tail
      BY <1>2, <2>1, <2>3 DEF EnsureTag
    <3>2. \E x \in db["tags"] : x.tag = row.tag
      BY <1>2, <2>3, TagTable DEF Indexed
    <3>3. u.do = "update"
      BY DEF Update
    <3> HIDE DEF u
    <3>4. Elements(<<u>>) = {u} /\ IsSequence(<<u>>)
      BY ElementsOfTuples
    <3>5. Elements(todo'[r]) = {u} \cup Elements(tail)
      BY <1>2, <3>1, <3>4, ConcatOf
    <3>6. u \in Elements(todo'[r]) /\ OnlyMarks(todo'[r])
      BY <1>2, <3>3, <3>5 DEF OnlyMarks
    <3>7. QED
      BY <1>2, <1>4, <3>1, <3>2, <3>5, <3>6 DEF u
  <2>4. QED
    BY <2>2, <2>3
<1>5. QED
  BY <1>2, <1>3, <1>4

LEMMA MarkingOn ==
  ASSUME RecordsInv, TagRoles, TagNamed, \A x \in db["tags"] : ~x.dead,
         NEW q \in Requests, Continue(q), NEW r \in Requests, AskedFor(r, TagMarkers),
         OnlyMarks(todo[r]), NEW t, Marking(r, t)
  PROVE  TagRival(r, t) \/ Marking(r, t)' \/ Marked1(r, t)'
<1>0. Outcome(q)
  BY OutcomeOfContinue
<1>1. PICK w : MarkingBy(r, w, todo[r]) /\ (TagMatches(t, w) \/ TagRival(r, t))
  BY DEF Marking
<1>2. DOMAIN w \subseteq {"id", "tag"} /\ Update("tags", w, Marks1(r)) \in Elements(todo[r])
  BY <1>1 DEF MarkingBy
<1>3. SUFFICES ASSUME TagMatches(t, w), ~TagRival(r, t) PROVE Marking(r, t)' \/ Marked1(r, t)'
  BY <1>1
<1>4. TagMatches(t, w)' /\ Marks1(r)' = Marks1(r)
  BY <1>0, <1>2, <1>3, MatchesOn, TagRivalOn
<1> DEFINE u == Update("tags", w, Marks1(r))
<1>5. CASE u \in Elements(todo'[r])
  BY <1>2, <1>4, <1>5 DEF Marking, MarkingBy
<1>6. CASE u \notin Elements(todo'[r])
  <2>1. q = r
    BY <1>0, <1>2, <1>6 DEF Outcome
  <2>2. u = Head(todo[r])
    BY <1>2, <1>6, <2>1, TagStep
  <2>3. u.do = "update" /\ u.table = "tags" /\ u.where = w /\ u.row = Marks1(r)
    BY DEF Update
  <2> HIDE DEF u
  <2>4. db'["tags"] = Apply(u, db["tags"])
    BY <2>1, <2>2, <2>3, TagStep
  <2>5. PICK x \in db["tags"] : x.tag = t /\ Fits(x, w)
    BY <1>3 DEF TagMatches
  <2>6. With(x, Marks1(r)) \in db'["tags"]
    BY <2>3, <2>4, <2>5 DEF Apply
  <2>7. /\ \A c \in DOMAIN Marks1(r) : With(x, Marks1(r))[c] = Marks1(r)[c]
        /\ \A c \in DOMAIN x \ DOMAIN Marks1(r) : With(x, Marks1(r))[c] = x[c]
    BY WithColumn
  <2>8. "tag" \in DOMAIN x /\ "tag" \notin DOMAIN Marks1(r)
    <3>1. DOMAIN x = Columns("tags")
      BY <2>5, TagTable DEF RecordsInv, Shapes
    <3>2. QED
      BY <3>1, TagTable, MarksAre
  <2>9. With(x, Marks1(r)).tag = t /\ Fits(With(x, Marks1(r)), Marks1(r))
    BY <2>5, <2>7, <2>8 DEF Fits
  <2>10. QED
    BY <1>4, <2>6, <2>9 DEF Marked1
<1>7. QED
  BY <1>5, <1>6

LEMMA EnsuringOn ==
  ASSUME RecordsInv, \A x \in db["tags"] : ~x.dead,
         NEW q \in Requests, Continue(q), NEW r \in Requests, AskedFor(r, {"EnsureTags"}),
         OnlyMarks(todo[r]), NEW t, Ensuring(r, t, todo[r])
  PROVE  Ensuring(r, t, todo'[r]) \/ Marking(r, t)' \/ Marked1(r, t)'
<1>0. Outcome(q)
  BY OutcomeOfContinue
<1>1. PICK s \in Elements(todo[r]) : s.do = "ensure" /\ s.row.tag = t /\ s.row.lastSeen = r
  BY DEF Ensuring
<1>2. CASE s \in Elements(todo'[r])
  BY <1>1, <1>2 DEF Ensuring
<1>3. CASE s \notin Elements(todo'[r])
  <2>1. q = r
    BY <1>0, <1>1, <1>3 DEF Outcome
  <2>2. s = Head(todo[r])
    BY <1>1, <1>3, <2>1, TagStep
  <2>3. Marks1(r)' = Marks1(r) /\ Marks1(r) = [lastSeen |-> r]
    BY <1>0, TagRivalOn, MarksAre
  <2>4. CASE s.row \in db'["tags"]
    <3>1. Fits(s.row, Marks1(r))
      BY <1>1, MarksAre
    <3>2. QED
      BY <1>1, <2>3, <2>4, <3>1 DEF Marked1
  <2>5. CASE /\ Update("tags", [tag |-> s.row.tag], [lastSeen |-> r]) \in Elements(todo'[r])
             /\ db' = db /\ \E x \in db["tags"] : x.tag = s.row.tag
    <3> DEFINE w == [tag |-> t]
    <3>1. DOMAIN w \subseteq {"id", "tag"} /\ \A x : x.tag = t => Fits(x, w)
      BY DEF Fits
    <3>2. Update("tags", w, Marks1(r)) \in Elements(todo'[r])
      BY <1>1, <2>3, <2>5
    <3> HIDE DEF w
    <3>3. TagMatches(t, w)'
      BY <1>1, <2>5, <3>1 DEF TagMatches
    <3>4. QED
      BY <2>3, <3>1, <3>2, <3>3 DEF Marking, MarkingBy
  <2>6. QED
    BY <1>1, <2>1, <2>2, <2>4, <2>5, TagStep
<1>4. QED
  BY <1>2, <1>3

LEMMA TagsContinue ==
  ASSUME RecordsInv, TagInv, NEW q \in Requests, Continue(q), scene' = scene
  PROVE  TagInv'
<1> DEFINE t == "tags"
<1> SUFFICES ASSUME scene = "tags" PROVE TagInv'
  BY DEF TagInv
<1>0. TagRoles /\ TagNamed /\ (\A x \in db[t] : ~x.dead) /\ TagsMarked
  BY DEF TagInv
<1>1. Outcome(q) /\ asked' = asked
  BY OutcomeOfContinue DEF Outcome
<1>2. TagRoles'
  <2>1. ASSUME NEW r \in Requests, NEW p \in WillOf(r, todo'[r]), p.table = t PROVE TagRole(r, asked[r], p)
    <3>1. p \in Will(r)
      BY <1>1, <2>1, TagTable DEF Outcome, ProgramAfter, Records, Will
    <3>2. QED
      BY <1>0, <2>1, <3>1 DEF TagRoles
  <2>2. \A r, p : TagRole(r, asked[r], p)' <=> TagRole(r, asked[r], p)
    BY <1>1 DEF TagRole
  <2>3. QED
    BY <2>1, <2>2 DEF TagRoles, Will
<1>3. TagNamed'
  <2>1. ASSUME NEW r \in Requests, AskedFor(r, {"DeleteTag"}), NEW g \in asked[r].gone, NEW x \in Copies(t)', x.id = g[2]
        PROVE  x.tag = asked[r].on
    <3>0. g = <<g[1], g[2]>> /\ g[1] = t /\ \A y \in Copies(t) : y.id = g[2] => y.tag = asked[r].on
      BY <1>0, <2>1 DEF TagNamed, RecordsInv, Origins, Targets
    <3>1. CASE \E y \in Copies(t) : Ancestor(t, x, y)
      BY <2>1, <3>0, <3>1, TagTable DEF Ancestor
    <3>2. CASE Born(q, t, x)
      <4>1. Key(t, x) \notin asked[r].gone
        BY <2>1, <3>2, BornUnseen, TagTable DEF Born
      <4>2. QED
        BY <2>1, <3>0, <4>1 DEF Key
    <3>3. QED
      BY <1>1, <3>1, <3>2, CopiesOn, TagTable
  <2>2. ASSUME NEW r \in Requests, AskedFor(r, {"DeleteTag"}), NEW g \in asked[r].gone PROVE g[1] = t
    BY <1>0, <2>2 DEF TagNamed
  <2>3. QED
    BY <1>1, <2>1, <2>2 DEF TagNamed, AskedFor
<1>4. ASSUME NEW x \in db'[t] PROVE ~x.dead
  <2>1. Kept(t, x) \/ Stored(q, t, x) \/ Changed(q, t, x)
    BY <1>1, NewRows, TagTable
  <2>2. CASE Kept(t, x)
    BY <1>0, <2>2 DEF Kept
  <2>3. CASE Stored(q, t, x)
    BY <1>1, <2>3, Situation DEF Stored, Outcome, Sane
  <2>4. CASE Changed(q, t, x)
    <3>1. PICK p \in Will(q), y \in db[t] : p.do = "update" /\ p.table = t /\ ~y.dead /\ x = With(y, p.row)
      BY <2>4 DEF Changed
    <3>2. TagRole(q, asked[q], p)
      BY <1>0, <3>1 DEF TagRoles
    <3>3. "dead" \notin DOMAIN p.row
      BY <3>1, <3>2 DEF TagRole
    <3>4. With(y, p.row)["dead"] = y["dead"]
      BY <1>1, <3>1, <3>3, ChangedFrom, TagTable
    <3>5. QED
      BY <3>1, <3>4, Zenon
  <2>5. QED
    BY <2>1, <2>2, <2>3, <2>4
<1>5. ASSUME NEW r \in Requests, AskedFor(r, TagMarkers)'
      PROVE  OnlyMarks(todo'[r]) /\ \A u \in Wants(r)' :
               (AskedFor(r, {"EnsureTags"})' /\ Ensuring(r, u, todo'[r])) \/ Marking(r, u)' \/ Marked1(r, u)' \/ TagRival(r, u)'
  <2>1. AskedFor(r, TagMarkers) /\ OnlyMarks(todo[r]) /\ Wants(r)' = Wants(r)
        /\ (AskedFor(r, {"EnsureTags"})' <=> AskedFor(r, {"EnsureTags"}))
    BY <1>0, <1>1, <1>5, TagRivalOn DEF TagsMarked
  <2>2. OnlyMarks(todo'[r])
    <3>1. CASE r = q
      BY <1>0, <2>1, <3>1, TagStep
    <3>2. CASE r # q
      BY <1>1, <2>1, <3>2 DEF Outcome
    <3>3. QED
      BY <3>1, <3>2
  <2>3. ASSUME NEW u \in Wants(r)
        PROVE  (AskedFor(r, {"EnsureTags"})' /\ Ensuring(r, u, todo'[r])) \/ Marking(r, u)' \/ Marked1(r, u)' \/ TagRival(r, u)'
    <3>1. (AskedFor(r, {"EnsureTags"}) /\ Ensuring(r, u, todo[r])) \/ Marking(r, u) \/ Marked1(r, u) \/ TagRival(r, u)
      BY <1>0, <2>1, <2>3 DEF TagsMarked
    <3>2. TagRival(r, u) => TagRival(r, u)'
      BY <1>1, TagRivalOn
    <3>3. Marked1(r, u) => TagRival(r, u) \/ Marked1(r, u)'
      BY <1>0, <1>1, <2>1, MarkedOn
    <3>4. Marking(r, u) => TagRival(r, u) \/ Marking(r, u)' \/ Marked1(r, u)'
      BY <1>0, <2>1, MarkingOn
    <3>5. AskedFor(r, {"EnsureTags"}) /\ Ensuring(r, u, todo[r]) => Ensuring(r, u, todo'[r]) \/ Marking(r, u)' \/ Marked1(r, u)'
      BY <1>0, <2>1, EnsuringOn
    <3>6. QED
      BY <2>1, <3>1, <3>2, <3>3, <3>4, <3>5
  <2>4. QED
    BY <2>1, <2>2, <2>3
<1>6. TagsMarked'
  BY <1>5 DEF TagsMarked
<1>7. QED
  BY <1>2, <1>3, <1>4, <1>6 DEF TagInv

TagAsk(r, a, q) ==
  /\ \A p \in WillOf(r, q) : p.table = "tags" => TagRole(r, a, p)
  /\ a.kind = "DeleteTag" => \A g \in a.gone : g[1] = "tags" /\ \E x \in db["tags"] : x.id = g[2] /\ x.tag = a.on
  /\ a.kind \in TagMarkers => OnlyMarks(q)
  /\ a.kind = "EnsureTags" => \A t \in ToSet(a.urls) : Ensuring(r, t, q)
  /\ a.kind \in TagDescribers => \E w :
       /\ Update("tags", w, [description |-> r]) \in Elements(q) /\ DOMAIN w \subseteq {"id", "tag"}
       /\ TagMatches(a.on, w)

LEMMA TagAskedEnsure ==
  ASSUME NEW r, EnsureTags(r)
  PROVE  \E a, q : Begin(r, a, q) /\ TagAsk(r, a, q)
<1>1. PICK tags \in TagLists :
        Begin(r, With(Ask("EnsureTags", "all"), [urls |-> tags]),
              [i \in DOMAIN tags |-> [do |-> "ensure", row |-> Tag(<<r, i>>, tags[i])]])
  BY DEF EnsureTags
<1> DEFINE n == Len(tags)
           b == Ask("EnsureTags", "all")
           set == [urls |-> tags]
           a == With(b, set)
           f == [i \in 1..n |-> [do |-> "ensure", row |-> Tag(<<r, i>>, tags[i])]]
<1>2. n \in Nat /\ DOMAIN tags = 1..n
  BY TagRegistryAssumption
<1>3. Begin(r, a, f)
  BY <1>1, <1>2
<1>4. a.kind = "EnsureTags" /\ a.urls = tags
  <2>1. b.kind = "EnsureTags" /\ "kind" \in DOMAIN b \ DOMAIN set /\ "urls" \in DOMAIN set /\ set.urls = tags
    BY DEF Ask
  <2> HIDE DEF b, set
  <2> HIDE DEF a
  <2>0. /\ DOMAIN With(b, set) = DOMAIN b \cup DOMAIN set
        /\ \A c \in DOMAIN set : With(b, set)[c] = set[c]
        /\ \A c \in DOMAIN b \ DOMAIN set : With(b, set)[c] = b[c]
    BY WithColumn
  <2>2. a["kind"] = b["kind"] /\ a["urls"] = set["urls"]
    BY <2>0, <2>1 DEF a
  <2>3. QED
    BY <2>1, <2>2
<1>5. \A i \in 1..n : /\ f[i].do = "ensure" /\ f[i].row.tag = tags[i] /\ f[i].row.lastSeen = r
                      /\ by(f[i].row) = r
  BY DEF Tag, by
<1> HIDE DEF a, f, n
<1>6. IsList(f, n) /\ DOMAIN f = 1..n
  BY <1>2 DEF f, IsList
<1>7. \A s \in Elements(f) : s.do = "ensure" /\ s.row.lastSeen = r /\ by(s.row) = r
  BY <1>5, <1>6 DEF Elements
<1>8. ASSUME NEW p \in WillOf(r, f) PROVE TagRole(r, a, p)
  <2>1. PICK s \in Elements(f) : p \in Leads(r, s)
    BY <1>8 DEF WillOf
  <2>2. Leads(r, s) = {Store("tags", s.row), Update("tags", [tag |-> s.row.tag], [lastSeen |-> r])}
    BY <1>7 DEF Leads, Branches, Prims, Simple
  <2>3. CASE p = Store("tags", s.row)
    BY <1>4, <1>7, <2>3, StoreIs DEF TagRole
  <2>4. CASE p = Update("tags", [tag |-> s.row.tag], [lastSeen |-> r])
    <3>1. p.do = "update" /\ p.row = [lastSeen |-> r]
      BY <2>4 DEF Update
    <3>2. QED
      BY <1>4, <3>1 DEF TagRole
  <2>5. QED
    BY <2>1, <2>2, <2>3, <2>4
<1>9. ASSUME NEW t \in ToSet(tags) PROVE Ensuring(r, t, f)
  <2>1. PICK i \in 1..n : t = tags[i]
    BY <1>2, <1>9 DEF ToSet, n
  <2>2. f[i] \in Elements(f)
    BY <1>6 DEF Elements
  <2>3. QED
    BY <1>5, <2>1, <2>2 DEF Ensuring
<1>10. TagAsk(r, a, f)
  BY <1>4, <1>7, <1>8, <1>9 DEF TagAsk, OnlyMarks, TagDescribers
<1>11. QED
  BY <1>3, <1>10

LEMMA TagAskedUpdate ==
  ASSUME NEW r, UpdateTag(r) \/ V1UpdateTag(r)
  PROVE  \E a, q : Begin(r, a, q) /\ TagAsk(r, a, q)
<1> DEFINE set == [description |-> r]
<1>1. PICK t \in Live("tags") :
        \/ Begin(r, Ask("UpdateTag", t.tag), <<Update("tags", [id |-> t.id], set)>>)
        \/ Begin(r, Ask("V1UpdateTag", t.tag), <<Update("tags", [tag |-> t.tag], set)>>)
  BY DEF UpdateTag, V1UpdateTag
<1> HIDE DEF set
<1>2. ASSUME NEW w, NEW k \in TagDescribers, DOMAIN w \subseteq {"id", "tag"}, Fits(t, w)
      PROVE  TagAsk(r, Ask(k, t.tag), <<Update("tags", w, set)>>)
  <2> DEFINE a == Ask(k, t.tag)
             s == Update("tags", w, set)
  <2>1. a.kind = k /\ a.on = t.tag
    BY AskKinds
  <2>2. s.do = "update" /\ s.table = "tags" /\ s.row = [description |-> r] /\ OneTable(s, "tags")
    BY StatementTables DEF Update, set
  <2> HIDE DEF a, s
  <2>3. Elements(<<s>>) = {s} /\ WillOf(r, <<s>>) = {s}
    BY <2>2, WillOne, ElementsOfTuples DEF Prim
  <2>4. TagMatches(t.tag, w)
    BY <1>1, <1>2 DEF TagMatches, Live
  <2>5. TagRole(r, a, s)
    BY <1>2, <2>1, <2>2 DEF TagRole
  <2>6. k # "DeleteTag" /\ k # "EnsureTags"
    BY <1>2 DEF TagDescribers
  <2>7. s \in Elements(<<s>>) /\ s = Update("tags", w, [description |-> r])
    BY <2>3 DEF s, set
  <2>8. OnlyMarks(<<s>>)
    BY <2>2, <2>3 DEF OnlyMarks
  <2>9. \A p \in WillOf(r, <<s>>) : p.table = "tags" => TagRole(r, a, p)
    BY <2>3, <2>5
  <2>10. \E v : /\ Update("tags", v, [description |-> r]) \in Elements(<<s>>) /\ DOMAIN v \subseteq {"id", "tag"}
                /\ TagMatches(a.on, v)
    BY <1>2, <2>1, <2>4, <2>7
  <2>11. TagAsk(r, a, <<s>>)
    BY <2>1, <2>6, <2>8, <2>9, <2>10 DEF TagAsk
  <2>12. QED
    BY <2>11 DEF a, s
<1>3. TagAsk(r, Ask("UpdateTag", t.tag), <<Update("tags", [id |-> t.id], set)>>)
  <2>1. DOMAIN [id |-> t.id] \subseteq {"id", "tag"} /\ Fits(t, [id |-> t.id])
    BY DEF Fits
  <2>2. QED
    BY <1>2, <2>1 DEF TagDescribers
<1>4. TagAsk(r, Ask("V1UpdateTag", t.tag), <<Update("tags", [tag |-> t.tag], set)>>)
  <2>1. DOMAIN [tag |-> t.tag] \subseteq {"id", "tag"} /\ Fits(t, [tag |-> t.tag])
    BY DEF Fits
  <2>2. QED
    BY <1>2, <2>1 DEF TagDescribers
<1>5. QED
  BY <1>1, <1>3, <1>4

LEMMA TagAskedDelete ==
  ASSUME NEW r, DeleteTag(r) \/ V1DeleteTag(r)
  PROVE  \E a, q : Begin(r, a, q) /\ TagAsk(r, a, q)
<1>1. PICK t \in Live("tags") :
        \/ Begin(r, AskDelete("DeleteTag", t.tag, "tags", {t}), <<Purge("tags", [id |-> t.id])>>)
        \/ Begin(r, AskDelete("V1DeleteTag", t.tag, "tags", {t}), <<Purge("tags", [tag |-> t.tag])>>)
  BY DEF DeleteTag, V1DeleteTag
<1>2. ASSUME NEW w, NEW k, \/ k = "DeleteTag" /\ w = [id |-> t.id]
                           \/ k = "V1DeleteTag" /\ w = [tag |-> t.tag]
      PROVE  TagAsk(r, AskDelete(k, t.tag, "tags", {t}), <<Purge("tags", w)>>)
  <2> DEFINE a == AskDelete(k, t.tag, "tags", {t})
             s == Purge("tags", w)
  <2>1. a.kind = k /\ a.on = t.tag /\ a.gone = {<<"tags", t.id>>}
    <3>1. a.gone = {<<"tags", x.id>> : x \in {t}}
      BY DEF AskDelete, Ask
    <3>2. QED
      BY <3>1, AskKinds
  <2>2. s.do = "purge" /\ s.table = "tags" /\ s.where = w /\ OneTable(s, "tags")
    BY StatementTables DEF Purge
  <2> HIDE DEF a, s
  <2>3. WillOf(r, <<s>>) = {s}
    BY <2>2, WillOne DEF Prim
  <2>4. TagRole(r, a, s)
    <3>1. CASE k = "DeleteTag"
      <4>1. s.where = [id |-> t.id] /\ <<"tags", t.id>> \in a.gone
        BY <1>2, <2>1, <2>2, <3>1
      <4>2. QED
        BY <2>1, <2>2, <3>1, <4>1 DEF TagRole
    <3>2. CASE k = "V1DeleteTag"
      BY <1>2, <2>1, <2>2, <3>2 DEF TagRole
    <3>3. QED
      BY <1>2, <3>1, <3>2
  <2>5. k \notin TagMarkers /\ k \notin TagDescribers /\ k # "EnsureTags"
    BY <1>2 DEF TagMarkers, TagDescribers
  <2>6. \A g \in a.gone : g[1] = "tags" /\ \E x \in db["tags"] : x.id = g[2] /\ x.tag = a.on
    BY <1>1, <2>1 DEF Live
  <2>7. TagAsk(r, a, <<s>>)
    BY <2>1, <2>3, <2>4, <2>5, <2>6 DEF TagAsk
  <2>8. QED
    BY <2>7 DEF a, s
<1>3. QED
  BY <1>1, <1>2

LEMMA TagAsked ==
  ASSUME NEW r, TagHandlers(r) \/ ResetAll(r, resetTables["tags"])
  PROVE  \E a, q : Begin(r, a, q) /\ TagAsk(r, a, q)
<1>1. CASE ResetAll(r, resetTables["tags"])
  <2>1. "tags" \in DOMAIN resetTables
    BY DEF resetTables
  <2>2. PICK a, q : Begin(r, a, q) /\ Empties(r, a, q)
    BY <1>1, <2>1, ResetEmpties
  <2>3. TagAsk(r, a, q)
    BY <2>2 DEF Empties, TagAsk, TagRole, TagMarkers, TagDescribers
  <2>4. QED
    BY <2>2, <2>3
<1>2. QED
  BY <1>1, TagAskedEnsure, TagAskedUpdate, TagAskedDelete DEF TagHandlers

LEMMA TagRivalArrives ==
  ASSUME RecordsInv, NEW q, NEW a, NEW p, Starts(q, a, p), NEW r \in Requests \ {q}, NEW t
  PROVE  /\ TagRival(r, t) => TagRival(r, t)'
         /\ Wants(r)' = Wants(r) /\ Marks1(r)' = Marks1(r)
         /\ \A K : AskedFor(r, K)' <=> AskedFor(r, K)
<1>1. asked'[r] = asked[r] /\ \A s \in Requests \ {q} : asked'[s] = asked[s]
  BY Starting
<1>2. \A s \in Requests \ {q} : \A K : AskedFor(s, K)' <=> AskedFor(s, K)
  BY <1>1 DEF AskedFor
<1>3. Wants(r)' = Wants(r) /\ Marks1(r)' = Marks1(r) /\ Markers(r)' = Markers(r)
  BY <1>1, <1>2 DEF Wants, Marks1, Markers
<1>4. ASSUME TagRival(r, t) PROVE TagRival(r, t)'
  <2>1. PICK s \in Requests \ {r} :
          /\ ~Preceded(s, r)
          /\ \/ AskedFor(s, TagEnders) /\ asked[s].on \in {t, "all"}
             \/ AskedFor(s, Markers(r))
    BY <1>4 DEF TagRival
  <2>2. s # q
    <3>1. NotAsked.kind = "none"
      BY DEF NotAsked, Ask
    <3>2. QED
      BY <2>1, <3>1, Starting DEF AskedFor, TagEnders, Markers, TagDescribers
  <2>3. ~Preceded(s, r)' /\ asked'[s] = asked[s]
    BY <1>1, <2>1, <2>2, StartingAnswers
  <2>4. \A K : AskedFor(s, K)' <=> AskedFor(s, K)
    BY <1>2, <2>2
  <2>5. QED
    BY <1>3, <2>1, <2>3, <2>4 DEF TagRival
<1>5. QED
  BY <1>2, <1>3, <1>4

LEMMA TagsArrive ==
  ASSUME RecordsInv, TagInv, NEW q \in Requests, Arrive(q), scene' = scene
  PROVE  TagInv'
<1> DEFINE t == "tags"
<1> SUFFICES ASSUME scene = "tags" PROVE TagInv'
  BY DEF TagInv
<1>0. TagRoles /\ TagNamed /\ (\A x \in db[t] : ~x.dead) /\ TagsMarked
  BY DEF TagInv
<1>1. TagHandlers(q) \/ ResetAll(q, resetTables["tags"])
  BY DEF Arrive
<1>2. PICK a, p : Begin(q, a, p) /\ TagAsk(q, a, p)
  BY <1>1, TagAsked
<1>3. Starts(q, a, p)
  BY <1>2, ArriveStarts, BeginStarts
<1>4. /\ db' = db /\ asked'[q] = a /\ todo'[q] = p /\ WillOf(q, todo'[q]) = WillOf(q, p)
      /\ \A r \in Requests \ {q} : asked'[r] = asked[r] /\ todo'[r] = todo[r]
                                   /\ WillOf(r, todo'[r]) = Will(r)
  BY <1>3, Starting
<1>5. TagRoles'
  <2>1. ASSUME NEW r \in Requests, NEW u \in WillOf(r, todo'[r]), u.table = t PROVE TagRole(r, asked'[r], u)
    BY <1>0, <1>2, <1>4, <2>1 DEF TagAsk, TagRoles
  <2>2. \A r, u : TagRole(r, asked[r], u)' <=> TagRole(r, asked'[r], u)
    BY DEF TagRole
  <2>3. QED
    BY <2>1, <2>2 DEF TagRoles, Will
<1>6. TagNamed'
  <2>1. ASSUME NEW r \in Requests, asked'[r].kind \in {"DeleteTag"}, NEW g \in asked'[r].gone
        PROVE  g[1] = t /\ \A x \in Copies(t)' : x.id = g[2] => x.tag = asked'[r].on
    <3>1. ASSUME NEW x \in Copies(t)' PROVE \E y \in Copies(t) : y.id = x.id /\ y.tag = x.tag
      BY <1>3, <3>1, StartingCopies, TagTable DEF Ancestor
    <3>2. g[1] = t /\ \A y \in Copies(t) : y.id = g[2] => y.tag = asked'[r].on
      <4>1. CASE r = q
        <5>1. PICK z \in db[t] : z.id = g[2] /\ z.tag = a.on
          BY <1>2, <1>4, <2>1, <4>1 DEF TagAsk
        <5>2. \A y \in Copies(t) : y.id = z.id => y.tag = z.tag
          BY TagTable DEF RecordsInv, Alike, Copies
        <5>3. QED
          BY <1>2, <1>4, <2>1, <4>1, <5>1, <5>2 DEF TagAsk
      <4>2. CASE r # q
        BY <1>0, <1>4, <2>1, <4>2 DEF TagNamed, AskedFor
      <4>3. QED
        BY <4>1, <4>2
    <3>3. QED
      BY <3>1, <3>2
  <2>2. QED
    BY <2>1 DEF TagNamed, AskedFor
<1>7. ASSUME NEW r \in Requests, AskedFor(r, TagMarkers)'
      PROVE  OnlyMarks(todo'[r]) /\ \A u \in Wants(r)' :
               (AskedFor(r, {"EnsureTags"})' /\ Ensuring(r, u, todo'[r])) \/ Marking(r, u)' \/ Marked1(r, u)' \/ TagRival(r, u)'
  <2>1. CASE r = q
    <3>1. a.kind \in TagMarkers /\ OnlyMarks(p) /\ (AskedFor(r, {"EnsureTags"})' <=> a.kind = "EnsureTags")
      BY <1>2, <1>4, <1>7, <2>1 DEF TagAsk, AskedFor
    <3>2. CASE a.kind = "EnsureTags"
      <4>1. Wants(r)' = ToSet(a.urls)
        BY <1>4, <2>1, <3>2 DEF Wants, AskedFor
      <4>2. QED
        BY <1>2, <1>4, <2>1, <3>1, <3>2, <4>1 DEF TagAsk
    <3>3. CASE a.kind # "EnsureTags"
      <4>1. Wants(r)' = {a.on} /\ Marks1(r)' = [description |-> r]
        BY <1>4, <2>1, <3>3 DEF Wants, AskedFor, Marks1
      <4>2. PICK w : /\ Update("tags", w, [description |-> r]) \in Elements(p) /\ DOMAIN w \subseteq {"id", "tag"}
                     /\ TagMatches(a.on, w)
        BY <1>2, <2>1, <3>1, <3>3 DEF TagAsk, TagMarkers
      <4>3. TagMatches(a.on, w)' /\ MarkingBy(r, w, todo[r])'
        BY <1>4, <2>1, <4>1, <4>2 DEF TagMatches, MarkingBy
      <4>4. Marking(r, a.on)'
        BY <4>3 DEF Marking
      <4>5. QED
        BY <1>4, <2>1, <3>1, <4>1, <4>4
    <3>4. QED
      BY <3>2, <3>3
  <2>2. CASE r # q
    <3>1. /\ Wants(r)' = Wants(r) /\ Marks1(r)' = Marks1(r)
          /\ \A K : AskedFor(r, K)' <=> AskedFor(r, K)
      BY <1>3, <2>2, TagRivalArrives
    <3>2. OnlyMarks(todo[r]) /\ todo'[r] = todo[r] /\ db' = db
      BY <1>0, <1>4, <1>7, <2>2, <3>1 DEF TagsMarked
    <3>3. ASSUME NEW u \in Wants(r)
          PROVE  (AskedFor(r, {"EnsureTags"})' /\ Ensuring(r, u, todo'[r])) \/ Marking(r, u)' \/ Marked1(r, u)' \/ TagRival(r, u)'
      <4>1. (AskedFor(r, {"EnsureTags"}) /\ Ensuring(r, u, todo[r])) \/ Marking(r, u) \/ Marked1(r, u) \/ TagRival(r, u)
        BY <1>0, <1>7, <3>1, <3>3 DEF TagsMarked
      <4>2. TagRival(r, u) => TagRival(r, u)'
        BY <1>3, <2>2, TagRivalArrives
      <4>3. Marked1(r, u) => Marked1(r, u)'
        BY <3>1, <3>2 DEF Marked1
      <4>4. \A w : /\ MarkingBy(r, w, todo[r]) => MarkingBy(r, w, todo[r])'
                   /\ TagMatches(u, w) => TagMatches(u, w)'
        BY <3>1, <3>2 DEF MarkingBy, TagMatches
      <4>5. Marking(r, u) => Marking(r, u)'
        BY <4>2, <4>4 DEF Marking
      <4>6. QED
        BY <3>1, <3>2, <4>1, <4>2, <4>3, <4>5
    <3>4. QED
      BY <3>1, <3>2, <3>3
  <2>3. QED
    BY <2>1, <2>2
<1>8. TagsMarked'
  BY <1>7 DEF TagsMarked
<1>9. QED
  BY <1>0, <1>4, <1>5, <1>6, <1>8 DEF TagInv

LEMMA TagsBegin == Init => TagInv
<1> SUFFICES ASSUME Init, scene = "tags" PROVE TagInv
  BY DEF TagInv
<1>1. PICK d : DatabaseInit(d) /\ (d \in TagSeeds \/ d = NoRows)
  BY DEF Init, Seeds
<1>2. db = d /\ \A r \in Requests : asked[r] = NotAsked /\ todo[r] = << >>
  BY <1>1 DEF DatabaseInit
<1>3. ASSUME NEW x \in d["tags"] PROVE ~x.dead
  <2>1. NoRows["tags"] = {} /\ "tags" \in DOMAIN NoRows
    BY TagTable DEF NoRows
  <2>2. PICK tag : d = [NoRows EXCEPT !.tags = {Tag(<<"seed", 1>>, tag)}]
    BY <1>1, <1>3, <2>1 DEF TagSeeds
  <2>3. x = Tag(<<"seed", 1>>, tag)
    BY <1>3, <2>1, <2>2
  <2>4. ~Tag(<<"seed", 1>>, tag).dead
    BY DEF Tag
  <2>5. QED
    BY <2>3, <2>4, Zenon
<1>4. \A r \in Requests : Will(r) = {} /\ asked[r].kind = "none"
  BY <1>2, NothingLeft DEF NotAsked, Ask
<1>5. QED
  BY <1>2, <1>3, <1>4 DEF TagInv, TagRoles, TagNamed, TagsMarked, AskedFor, TagMarkers, TagDescribers

LEMMA TagsImply ==
  ASSUME RecordsInv, Scoped, TagInv
  PROVE  TagsAsLastWritten
<1>1. ASSUME NEW r \in Requests, AskedFor(r, TagMarkers), Answered(r), NEW t \in Wants(r)
      PROVE  /\ AskedFor(r, {"EnsureTags"}) => ColumnStands(r, t, "lastSeen", {"EnsureTags"})
             /\ ~AskedFor(r, {"EnsureTags"}) => ColumnStands(r, t, "description", TagDescribers)
  <2>1. scene = "tags"
    <3>1. scene \in Components /\ asked[r].kind \in KindsOf(scene)
      BY <1>1 DEF Scoped, Answered
    <3>2. scene \in DOMAIN Duties
      BY <3>1, ServiceAssumption, ResetTablesOf
    <3>3. QED
      BY <1>1, <3>1, <3>2 DEF AskedFor, KindsOf, Duties, TagMarkers, TagDescribers
  <2>2. Elements(todo[r]) = {}
    BY <1>1 DEF Answered, Elements
  <2>3. Marked1(r, t) \/ TagRival(r, t)
    BY <1>1, <2>1, <2>2 DEF TagInv, TagsMarked, Ensuring, Marking, MarkingBy
  <2>4. CASE TagRival(r, t)
    BY <2>4 DEF TagRival, Markers, TagEnders, ColumnStands
  <2>5. CASE Marked1(r, t)
    <3>1. PICK x \in db["tags"] : x.tag = t /\ Fits(x, Marks1(r))
      BY <2>5 DEF Marked1
    <3>2. ~x.dead
      BY <2>1, <3>1 DEF TagInv
    <3>3. x \in Select("tags", [tag |-> t])
      BY <3>1, <3>2 DEF Select, Live, Fits
    <3>4. QED
      BY <3>1, <3>3, MarksAre DEF ColumnStands
  <2>6. QED
    BY <2>3, <2>4, <2>5
<1>2. ASSUME NEW r \in Requests, Answered(r), AskedFor(r, {"EnsureTags"}), NEW t \in ToSet(asked[r].urls)
      PROVE  ColumnStands(r, t, "lastSeen", {"EnsureTags"})
  BY <1>1, <1>2 DEF AskedFor, TagMarkers, Wants
<1>3. ASSUME NEW r \in Requests, Answered(r), AskedFor(r, {"UpdateTag", "V1UpdateTag"})
      PROVE  ColumnStands(r, asked[r].on, "description", {"UpdateTag", "V1UpdateTag"})
  <2>1. AskedFor(r, TagMarkers) /\ ~AskedFor(r, {"EnsureTags"}) /\ asked[r].on \in Wants(r)
    BY <1>3 DEF AskedFor, TagMarkers, TagDescribers, Wants
  <2>2. QED
    BY <1>1, <1>3, <2>1 DEF TagDescribers
<1>4. QED
  BY <1>2, <1>3 DEF TagsAsLastWritten

LEMMA TagsStep == Settled /\ TagInv /\ [Next]_vars => TagInv'
<1> SUFFICES ASSUME Settled, TagInv, [Next]_vars PROVE TagInv'
  OBVIOUS
<1>1. RecordsInv /\ scene' = scene /\ (Idle \/ \E q \in Requests : Arrive(q) \/ Continue(q))
  BY ServiceSteps DEF Settled, Steady
<1>2. CASE Idle
  <2>1. db' = db /\ todo' = todo /\ asked' = asked /\ before' = before /\ scene' = scene
    BY <1>2 DEF Idle, dbVars
  <2>2. \A r, p : TagRole(r, asked[r], p)' <=> TagRole(r, asked[r], p)
    BY <2>1 DEF TagRole
  <2>3. TagRoles' <=> TagRoles
    BY <2>1, <2>2 DEF TagRoles, Will
  <2>4. TagNamed' <=> TagNamed
    BY <2>1 DEF TagNamed, AskedFor, Copies, Held, Will
  <2>5. \A r, t : /\ Wants(r)' = Wants(r) /\ Marks1(r)' = Marks1(r)
                  /\ TagRival(r, t)' <=> TagRival(r, t)
    BY <2>1 DEF Wants, Marks1, TagRival, Markers, AskedFor, Preceded
  <2>6. \A r, t : /\ Marked1(r, t)' <=> Marked1(r, t)
                  /\ Marking(r, t)' <=> Marking(r, t)
                  /\ \A K : AskedFor(r, K)' <=> AskedFor(r, K)
    BY <2>1, <2>5 DEF Marked1, Marking, MarkingBy, TagMatches, AskedFor
  <2>7. TagsMarked' <=> TagsMarked
    BY <2>1, <2>5, <2>6 DEF TagsMarked
  <2>8. QED
    BY <2>1, <2>3, <2>4, <2>7 DEF TagInv
<1>3. QED
  BY <1>1, <1>2, TagsArrive, TagsContinue

\* Every tag of a message that was sent is there and marked as seen by it, and a description
\* that was given stands, until a request that was not over before deletes the tag or writes
\* the column again, for any number of tags and requests (tag/handlers.go: EnsureTags tries
\* to create the tag and updates last_seen when that fails).
THEOREM TagsStandAsWritten == Spec => []TagsAsLastWritten
<1>1. Settled /\ TagInv => TagsAsLastWritten
  BY TagsImply DEF Settled, Steady
<1>2. QED
  BY <1>1, SettledBegins, SettledSteps, TagsBegin, TagsStep, PTL DEF Spec

----------------------------------------------------------------------------
(* Domains and their DNS records.  A domain, there or about to be saved,   *)
(* has its records, and in its state, or the overlap that excuses it is on *)
(* record; records have their domain.                                      *)

\* The programs of the requests that write them.
Creation(r, name, v, w) ==
  <<Transaction(Insert("domains", Domain(<<r, 1>>, name, v)),
                Insert("dns_records", DNSRecords(<<r, 1>>, <<r, 1>>, w)))>>
Trial(r, name, v) ==
  <<IfAny("config", [verify |-> TRUE], Creation(r, name, v, TRUE), Creation(r, name, v, FALSE))>>
Deletion(i) == <<Transaction(SoftDelete("dns_records", [domain |-> i]), SoftDelete("domains", [id |-> i]))>>
Verification(y) ==
  <<Transaction(Save("domains", y), Update("dns_records", [domain |-> y.id], [valid |-> TRUE]))>>
IsSaving(q, y) == \E s : /\ q = <<s>> /\ s.do \in {"put", "save"} /\ {"do", "table", "row", "strict"} \subseteq DOMAIN s
                        /\ s.table = "domains" /\ s.row = y /\ s.strict
Reset1 == <<SetConfig(DefaultConfig)>>
Reset2 == <<Purge("domains", All), SetConfig(DefaultConfig)>>
Reset3 == <<Purge("smtp_credentials", All), Purge("domains", All), SetConfig(DefaultConfig)>>
Reset4 == <<Purge("dns_records", All), Purge("smtp_credentials", All), Purge("domains", All),
            SetConfig(DefaultConfig)>>

HasRecords(i) == \E x \in Live("dns_records") : x.domain = i
Agrees(y)     == \A x \in Live("dns_records") : x.domain = y.id => x.valid = y.verified
Configured(v) == \A c \in db["config"] : c.verify = v
Revived(o)    == Clash({"DeleteDomain", "ResetAll"}, DomainSavers, o)
Unsettled(o)  == \/ Clash({"VerifyDomain"}, DomainSavers, o)
                 \/ Clash({"CreateDomain"}, {"UpdateConfig", "ResetAll"}, o)
Wiping      == \E q \in Requests : /\ AskedFor(q, {"ResetAll"}) /\ asked[q].on = "all"
                                    /\ todo[q] \in {Reset2, Reset3, Reset4}

\* What a request has left to do, and what it may rely on.
Creator(r) == AskedFor(r, {"CreateDomain"}) /\ \E v \in BOOLEAN :
  \/ todo[r] = Trial(r, asked[r].on, v) /\ (Configured(v) \/ Unsettled(asked[r].on))
  \/ \E w \in BOOLEAN : todo[r] = Creation(r, asked[r].on, v, w) /\ (v = w \/ Unsettled(asked[r].on))
Deleter(r) == AskedFor(r, {"DeleteDomain"}) /\ \E i :
  todo[r] = Deletion(i) /\ <<"domains", i>> \in asked[r].gone
Holds(r, y) == /\ AskedFor(r, DomainSavers) /\ asked[r].on = y.name /\ <<"domains", y.id>> \in asked[r].saves
               /\ HasRecords(y.id) \/ Revived(y.name)
Verifier(r) == AskedFor(r, {"VerifyDomain"}) /\ \E y : todo[r] = Verification(y) /\ Holds(r, y) /\ y.verified = TRUE
Saver(r)    == \E y : IsSaving(todo[r], y) /\ Holds(r, y) /\ (Agrees(y) \/ Unsettled(y.name))
Resetter(r) ==
  /\ AskedFor(r, {"ResetAll"}) /\ asked[r].on = "all"
  /\ \/ todo[r] \in {Reset1, Reset4}
     \/ todo[r] \in {Reset2, Reset3} /\ (Live("dns_records") = {} \/ ResetClash({"CreateDomain"}))
Aside(r)    == \A s \in Elements(todo[r]) :
  \/ s = Invalid
  \/ s.do \in {"put", "save", "purge"} /\ s.table = "smtp_credentials"
  \/ /\ s.do = "update" /\ s.table = "config" /\ AskedFor(r, {"UpdateConfig"}) /\ asked[r].on = "all"
     /\ "verify" \in DOMAIN s.row => s.row.verify \in BOOLEAN
Working(r)  == Creator(r) \/ Deleter(r) \/ Verifier(r) \/ Saver(r) \/ Resetter(r) \/ Aside(r)

\* The requests that save or delete a domain know it by its name.
Aims(r, i)   == ~AskedFor(r, {"ResetAll"}) /\ <<"domains", i>> \in asked[r].saves \cup asked[r].gone
DomainsNamed ==
  /\ \A r, s \in Requests : \A i : Aims(r, i) /\ Aims(s, i) => asked[r].on = asked[s].on
  /\ \A r \in Requests : \A d \in Live("domains") : Aims(r, d.id) => asked[r].on = d.name

OwnRecords    == \A x \in db["dns_records"] : x.domain = x.id
ConfigBoolean == \A c \in db["config"] : c.verify \in BOOLEAN
Accompanied   == \A d \in Live("domains") : HasRecords(d.id) \/ Revived(d.name) \/ Wiping
Agreed        == \A d \in Live("domains") : Agrees(d) \/ Unsettled(d.name)
HasDomain(i)  == \E d \in Live("domains") : d.id = i
Owned         == \A x \in Live("dns_records") : HasDomain(x.domain) \/ ResetClash({"CreateDomain"})

DomainParts ==
  /\ \A r \in Requests : Working(r)
  /\ DomainsNamed /\ OwnRecords /\ ConfigBoolean
  /\ Accompanied /\ Agreed /\ Owned
----------------------------------------------------------------------------
(* What a statement does to the live rows.                                 *)

LEMMA LivePut ==
  ASSUME NEW t, NEW p, p.do = "put", ~p.row.dead, db'[t] = Apply(p, db[t])
  PROVE  Live(t)' = {x \in Live(t) : x.id # p.row.id} \cup {p.row}
<1>1. db'[t] = {x \in db[t] : x.id # p.row.id} \cup {p.row}
  BY DEF Apply, Put
<1>2. QED
  BY <1>1 DEF Live

\* The rows of one value in one column.
Where(w, c, i) == DOMAIN w = {c} /\ w[c] = i

LEMMA FitsWhere ==
  ASSUME NEW w, NEW c, NEW i, Where(w, c, i)
  PROVE  \A x : Fits(x, w) <=> x[c] = i
BY DEF Fits, Where

LEMMA LiveUpdate ==
  ASSUME NEW t, NEW p, p.do = "update", db'[t] = Apply(p, db[t])
  PROVE  /\ \A z \in Live(t)' : \/ z \in Live(t) /\ ~Fits(z, p.where)
                                \/ \E x \in Live(t) : Fits(x, p.where) /\ z = With(x, p.row) /\ ~z.dead
         /\ \A x \in Live(t) : \/ ~Fits(x, p.where) /\ x \in Live(t)'
                               \/ Fits(x, p.where) /\ With(x, p.row) \in db'[t]
<1> DEFINE f(x) == IF ~x.dead /\ Fits(x, p.where) THEN With(x, p.row) ELSE x
<1>1. db'[t] = {f(x) : x \in db[t]}
  BY DEF Apply
<1>2. ASSUME NEW z \in Live(t)'
      PROVE  \/ z \in Live(t) /\ ~Fits(z, p.where)
             \/ \E x \in Live(t) : Fits(x, p.where) /\ z = With(x, p.row) /\ ~z.dead
  <2>1. z \in db'[t] /\ ~z.dead
    BY <1>2 DEF Live
  <2>2. PICK x \in db[t] : z = f(x)
    BY <1>1, <2>1
  <2>3. CASE ~x.dead /\ Fits(x, p.where)
    BY <2>1, <2>2, <2>3 DEF Live
  <2>4. CASE x.dead \/ ~Fits(x, p.where)
    <3>1. z = x
      BY <2>2, <2>4
    <3>2. QED
      BY <2>1, <2>4, <3>1 DEF Live
  <2>5. QED
    BY <2>3, <2>4
<1>3. ASSUME NEW x \in Live(t)
      PROVE  \/ ~Fits(x, p.where) /\ x \in Live(t)'
             \/ Fits(x, p.where) /\ With(x, p.row) \in db'[t]
  <2>1. x \in db[t] /\ ~x.dead
    BY DEF Live
  <2>2. f(x) \in db'[t]
    BY <1>1, <2>1
  <2>3. CASE Fits(x, p.where)
    BY <2>1, <2>2, <2>3
  <2>4. CASE ~Fits(x, p.where)
    BY <2>1, <2>2, <2>4 DEF Live
  <2>5. QED
    BY <2>3, <2>4
<1>4. QED
  BY <1>2, <1>3

LEMMA LiveRemoved ==
  ASSUME NEW t, NEW c, NEW w, NEW i, Where(w, c, i), db'[t] = Apply(SoftDelete(t, w), db[t])
  PROVE  Live(t)' = {x \in Live(t) : x[c] # i}
<1> DEFINE p == SoftDelete(t, w)
<1>1. p.do = "update" /\ p.where = w /\ p.row = [dead |-> TRUE]
  BY DEF SoftDelete
<1> HIDE DEF p
<1>2. \A x : With(x, p.row).dead
  <2>1. "dead" \in DOMAIN p.row /\ p.row.dead
    BY <1>1
  <2>2. QED
    BY <2>1, DeadWith
<1>3. db'[t] = Apply(p, db[t])
  BY DEF p
<1>4. /\ \A z \in Live(t)' : z \in Live(t) /\ ~Fits(z, w)
      /\ \A x \in Live(t) : ~Fits(x, w) => x \in Live(t)'
  BY <1>1, <1>2, <1>3, LiveUpdate
<1>5. QED
  BY <1>4, FitsWhere

LEMMA LiveMarked ==
  ASSUME NEW t, NEW c, NEW w, NEW i, Where(w, c, i), NEW m, NEW v, m # c, m # "dead",
         NEW row, DOMAIN row = {m}, row[m] = v, db'[t] = Apply(Update(t, w, row), db[t]),
         \A x \in db[t] : {"dead", c} \subseteq DOMAIN x
  PROVE  /\ \A z \in Live(t)' : \/ z \in Live(t) /\ z[c] # i
                                \/ z[c] = i /\ z[m] = v /\ \E x \in Live(t) : x[c] = i
         /\ \A x \in Live(t) : \E z \in Live(t)' : z[c] = x[c]
<1> DEFINE p == Update(t, w, row)
<1>1. p.do = "update" /\ p.where = w /\ p.row = row
  BY DEF Update
<1> HIDE DEF p
<1>2. db'[t] = Apply(p, db[t])
  BY DEF p
<1>3. ASSUME NEW x \in Live(t) PROVE With(x, row).dead = x.dead /\ With(x, row)[c] = x[c] /\ With(x, row)[m] = v
  <2>1. x \in db[t]
    BY DEF Live
  <2>2. "dead" \in DOMAIN x \ DOMAIN row /\ c \in DOMAIN x \ DOMAIN row /\ m \in DOMAIN row
    BY <2>1
  <2>3. \A k \in DOMAIN x \ DOMAIN row : With(x, row)[k] = x[k]
    BY WithColumn, Zenon
  <2>4. With(x, row)[m] = row[m]
    BY <2>2, WithSet
  <2>5. With(x, row)["dead"] = x["dead"] /\ With(x, row)[c] = x[c]
    BY <2>2, <2>3
  <2>6. QED
    BY <2>4, <2>5
<1>4. \A x : Fits(x, w) <=> x[c] = i
  BY FitsWhere
<1>5. /\ \A z \in Live(t)' : \/ z \in Live(t) /\ ~Fits(z, w)
                             \/ \E x \in Live(t) : Fits(x, w) /\ z = With(x, row) /\ ~z.dead
      /\ \A x \in Live(t) : \/ ~Fits(x, w) /\ x \in Live(t)'
                            \/ Fits(x, w) /\ With(x, row) \in db'[t]
  BY <1>1, <1>2, LiveUpdate
<1>6. \A x \in Live(t) : \E z \in Live(t)' : z[c] = x[c]
  <2> SUFFICES ASSUME NEW x \in Live(t) PROVE \E z \in Live(t)' : z[c] = x[c]
    OBVIOUS
  <2>1. CASE x \in Live(t)'
    BY <2>1
  <2>2. CASE With(x, row) \in db'[t]
    <3>1. ~With(x, row).dead
      BY <1>3 DEF Live
    <3>2. With(x, row) \in Live(t)'
      BY <2>2, <3>1 DEF Live
    <3>3. QED
      BY <1>3, <3>2
  <2>3. QED
    BY <1>5, <2>1, <2>2
<1>7. QED
  BY <1>3, <1>4, <1>5, <1>6

\* A transaction is carried out, or refused.
LEMMA CommitStep ==
  ASSUME RecordsInv, NEW r \in Requests, Continue(r), NEW a, NEW b, todo[r] = <<Transaction(a, b)>>
  PROVE  /\ todo'[r] = << >>
         /\ \/ db' = db
            \/ /\ a.table # b.table /\ db'[a.table] = Apply(Prim(a), db[a.table])
               /\ db'[b.table] = Apply(Prim(b), db[b.table])
               /\ \A t \in Tables \ {a.table, b.table} : db'[t] = db[t]
<1> DEFINE h == Transaction(a, b)
<1>1. /\ todo[r] # << >> /\ Head(todo[r]) = h /\ Tail(todo[r]) = << >>
  BY OneLeft
<1>2. h.do = "commit" /\ h.parts[1] = a /\ h.parts[2] = b /\ h.strict
  BY DEF Transaction
<1> HIDE DEF h
<1>3. Write(r)
  <2>1. h.do # "test" /\ h.do # "save" /\ h.do # "collect" /\ h.do # "deliver" /\ h.do # "issue" /\ h.do # "ensure" /\ h # Invalid
    BY <1>2 DEF Invalid
  <2>2. QED
    BY <1>1, <2>1 DEF Continue, Execute, Test, SaveMisses, Collect, Deliver, Issue, EnsureTag, RefuseSection
<1>4. a.do \in Simple /\ b.do \in Simple /\ a.table # b.table
  BY <1>1, <1>2, Situation DEF Piece, Statement, Simple, Invalid
<1>5. a.table \in Tables /\ b.table \in Tables
  <2>1. Leads(r, h) = {Prim(a), Prim(b)}
    BY <1>2, LeadsOfSimple
  <2>2. Sane(Prim(a)) /\ Sane(Prim(b))
    BY <1>1, <2>1, Situation
  <2>3. Prim(a).table = a.table /\ Prim(b).table = b.table
    BY <1>4, PrimOf
  <2>4. QED
    BY <2>2, <2>3 DEF Sane
<1>6. /\ Result(h)[a.table] = Apply(Prim(a), db[a.table])
      /\ Result(h)[b.table] = Apply(Prim(b), db[b.table])
      /\ \A t \in Tables \ {a.table, b.table} : Result(h)[t] = db[t]
  <2> DEFINE d == Effect(db, a)
  <2>1. /\ DOMAIN d = Tables /\ d[a.table] = Apply(Prim(a), db[a.table])
        /\ \A t \in Tables \ {a.table} : d[t] = db[t]
    BY <1>1, <1>4, <1>5, Situation, EffectIsApply
  <2> HIDE DEF d
  <2>2. /\ Effect(d, b)[b.table] = Apply(Prim(b), d[b.table])
        /\ \A t \in Tables \ {b.table} : Effect(d, b)[t] = d[t]
    BY <1>4, <1>5, <2>1, EffectIsApply
  <2>3. Result(h) = Effect(d, b)
    BY <1>2 DEF Result, d
  <2>4. QED
    BY <1>4, <1>5, <2>1, <2>2, <2>3
<1>7. CASE \A t \in Writes(h) : Indexed(Result(h)[t], t)
  <2>1. db' = Result(h) /\ todo'[r] = Tail(todo[r])
    BY <1>1, <1>3, <1>7, Situation DEF Write
  <2>2. QED
    BY <1>1, <1>4, <1>6, <2>1
<1>8. CASE ~\A t \in Writes(h) : Indexed(Result(h)[t], t)
  BY <1>1, <1>2, <1>3, <1>8, Situation DEF Write
<1>9. QED
  BY <1>7, <1>8

\* A query decides how the request goes on.
LEMMA TestStep ==
  ASSUME RecordsInv, NEW r \in Requests, Continue(r), NEW t, NEW w, NEW yes, NEW no,
         todo[r] = <<IfAny(t, w, yes, no)>>, IsSequence(yes), IsSequence(no)
  PROVE  db' = db /\ todo'[r] = IF Select(t, w) # {} THEN yes ELSE no
<1> DEFINE h == IfAny(t, w, yes, no)
           b == IF Select(t, w) # {} THEN yes ELSE no
<1>1. /\ todo[r] # << >> /\ Head(todo[r]) = h /\ Tail(todo[r]) = << >>
  BY OneLeft
<1>2. h.do = "test" /\ h.table = t /\ h.where = w /\ h.yes = yes /\ h.no = no
  BY DEF IfAny
<1> HIDE DEF h
<1>3. Test(r)
  <2>1. h.do \notin {"put", "save", "update", "purge", "commit", "collect", "deliver", "issue", "ensure"} /\ h # Invalid
    BY <1>2 DEF Invalid
  <2>2. QED
    BY <1>1, <2>1 DEF Continue, Execute, Write, SaveMisses, Collect, Deliver, Issue, EnsureTag, RefuseSection
<1>4. db' = db /\ todo'[r] = b \o << >>
  BY <1>1, <1>2, <1>3, Situation DEF Test
<1>5. b \o << >> = b
  <2>1. IsSequence(b)
    OBVIOUS
  <2> HIDE DEF b
  <2>2. QED
    BY <2>1 DEF IsSequence
<1>6. QED
  BY <1>4, <1>5

LEMMA DomainExcuses ==
  ASSUME RecordsInv
  PROVE  /\ \A q : Outcome(q) => /\ \A o : (Revived(o) => Revived(o)') /\ (Unsettled(o) => Unsettled(o)')
                                 /\ \A K : ResetClash(K) => ResetClash(K)'
         /\ \A q, a, p : Starts(q, a, p) =>
              /\ \A o : (Revived(o) => Revived(o)') /\ (Unsettled(o) => Unsettled(o)')
              /\ \A K : ResetClash(K) => ResetClash(K)'
<1>1. ASSUME NEW q, Outcome(q)
      PROVE  /\ \A o : (Revived(o) => Revived(o)') /\ (Unsettled(o) => Unsettled(o)')
             /\ \A K : ResetClash(K) => ResetClash(K)'
  <2>1. \A K : ResetClash(K) => ResetClash(K)'
    BY <1>1 DEF ResetClash, Overlap, AskedFor, Preceded, Outcome
  <2>2. QED
    BY <1>1, <2>1, ClashStays DEF Revived, Unsettled
<1>2. ASSUME NEW q, NEW a, NEW p, Starts(q, a, p)
      PROVE  /\ \A o : (Revived(o) => Revived(o)') /\ (Unsettled(o) => Unsettled(o)')
             /\ \A K : ResetClash(K) => ResetClash(K)'
  <2>1. /\ asked[q] = NotAsked /\ \A r \in Requests \ {q} : asked'[r] = asked[r]
        /\ \A s \in Requests \ {q} : \A u : Preceded(u, s)' <=> Preceded(u, s)
    BY <1>2, Starting, StartingAnswers
  <2>2. ASSUME NEW r \in Requests, NEW s \in Requests, Overlap(r, s)
        PROVE  r # q /\ s # q /\ Overlap(r, s)'
    BY <2>1, <2>2 DEF Overlap
  <2>3. \A K : ResetClash(K) => ResetClash(K)'
    BY <2>1, <2>2 DEF ResetClash, AskedFor
  <2>4. QED
    BY <1>2, <2>3, ClashStays DEF Revived, Unsettled
<1>3. QED
  BY <1>1, <1>2

\* What a step does to the tables.
ConfigSame   == db'["config"] = db["config"]
RecordsSame  == db'["dns_records"] = db["dns_records"]
DomainPut(y) == Live("domains")' = {d \in Live("domains") : d.id # y.id} \cup {y}

\* The rows a creation inserts are new to everybody.
Unheard(r) == /\ \A d \in db["domains"] : d.id # <<r, 1>>
              /\ \A x \in db["dns_records"] : x.id # <<r, 1>>
              /\ \A s \in Requests : <<"domains", <<r, 1>>>> \notin asked[s].saves \cup asked[s].gone

DomainCreated(r) == \E v, w \in BOOLEAN :
  /\ v = w \/ Unsettled(asked[r].on)
  /\ DomainPut(Domain(<<r, 1>>, asked[r].on, v))
  /\ db'["dns_records"] = db["dns_records"] \cup {DNSRecords(<<r, 1>>, <<r, 1>>, w)}

LEMMA NewDomain ==
  ASSUME RecordsInv, NEW r \in Requests, NEW name, NEW v, NEW w, todo[r] = Creation(r, name, v, w)
  PROVE  Unheard(r)
<1> DEFINE d == Domain(<<r, 1>>, name, v)
           x == DNSRecords(<<r, 1>>, <<r, 1>>, w)
           a == Insert("domains", d)
           b == Insert("dns_records", x)
           s == Transaction(a, b)
<1>1. d.id = <<r, 1>> /\ x.id = <<r, 1>>
  BY DEF Domain, DNSRecords
<1>2. s.do = "commit" /\ s.parts[1] = a /\ s.parts[2] = b
  BY DEF Transaction
<1>3. Prim(a) = Store("domains", d) /\ Prim(b) = Store("dns_records", x)
  BY InsertPrim
<1>4. todo[r] = <<s>>
  BY DEF Creation
<1> HIDE DEF a, b, d, x, s
<1>5. Store("domains", d) \in Will(r) /\ Store("dns_records", x) \in Will(r)
  <2>1. Leads(r, s) = {Prim(a), Prim(b)}
    BY <1>2, LeadsOfSimple
  <2>2. s \in Elements(todo[r])
    BY <1>4, ElementsOfTuples
  <2>3. QED
    BY <1>3, <2>1, <2>2 DEF Will, WillOf
<1>6. Key("domains", d) \in IdsOf(r, todo[r]) /\ Key("dns_records", x) \in IdsOf(r, todo[r])
  BY <1>1, <1>5, MineIsUnborn DEF Will, Store, by
<1>7. "domains" \in Tables /\ "dns_records" \in Tables
  BY DomainColumns
<1>8. /\ \A y \in Copies("domains") : y.id # d.id
      /\ \A q \in Requests : Key("domains", d) \notin asked[q].saves \cup asked[q].gone
      /\ \A y \in Copies("dns_records") : y.id # x.id
  BY <1>6, <1>7, BornUnseen
<1>9. QED
  BY <1>1, <1>8 DEF Unheard, Copies, Key

LEMMA CreatorStep ==
  ASSUME RecordsInv, NEW r \in Requests, Continue(r), Outcome(r), Creator(r)
  PROVE  \/ Creator(r)' /\ db' = db
         \/ todo'[r] = << >> /\ db' = db
         \/ todo'[r] = << >> /\ ConfigSame /\ DomainCreated(r) /\ Unheard(r)
<1> DEFINE name == asked[r].on
<1>0. asked' = asked /\ (Unsettled(name) => Unsettled(name)')
  BY DomainExcuses DEF Outcome
<1>1. PICK v \in BOOLEAN :
        \/ todo[r] = Trial(r, name, v) /\ (Configured(v) \/ Unsettled(name))
        \/ \E w \in BOOLEAN : todo[r] = Creation(r, name, v, w) /\ (v = w \/ Unsettled(name))
  BY DEF Creator
<1>2. CASE todo[r] = Trial(r, name, v) /\ (Configured(v) \/ Unsettled(name))
  <2> DEFINE yes == Creation(r, name, v, TRUE)
             no == Creation(r, name, v, FALSE)
             cond == [verify |-> TRUE]
  <2>1. IsSequence(yes) /\ IsSequence(no)
    BY ElementsOfTuples DEF Creation
  <2>2. todo[r] = <<IfAny("config", cond, yes, no)>>
    BY <1>2 DEF Trial
  <2>3. \A x : Fits(x, cond) <=> x.verify = TRUE
    <3>1. Where(cond, "verify", TRUE)
      BY DEF Where
    <3> HIDE DEF cond
    <3>2. QED
      BY <3>1, FitsWhere
  <2> HIDE DEF yes, no, cond
  <2>4. db' = db /\ todo'[r] = IF Select("config", cond) # {} THEN yes ELSE no
    BY <2>1, <2>2, TestStep
  <2>5. db["config"] # {} /\ \A c \in db["config"] : ~c.dead
    BY DEF RecordsInv, Origins
  <2>6. CASE Select("config", cond) # {}
    <3>1. \E c \in db["config"] : c.verify = TRUE
      BY <2>3, <2>6 DEF Select, Live
    <3>2. Configured(v) => v = TRUE
      BY <3>1 DEF Configured
    <3>3. todo'[r] = Creation(r, name, v, TRUE)
      BY <2>4, <2>6 DEF yes
    <3>4. QED
      BY <1>0, <1>2, <2>4, <3>2, <3>3 DEF Creator, AskedFor
  <2>7. CASE Select("config", cond) = {}
    <3>1. \E c \in db["config"] : c.verify # TRUE
      BY <2>3, <2>5, <2>7 DEF Select, Live
    <3>2. Configured(v) => v = FALSE
      BY <3>1 DEF Configured
    <3>3. todo'[r] = Creation(r, name, v, FALSE)
      BY <2>4, <2>7 DEF no
    <3>4. QED
      BY <1>0, <1>2, <2>4, <3>2, <3>3 DEF Creator, AskedFor
  <2>8. QED
    BY <2>6, <2>7
<1>3. ASSUME NEW w \in BOOLEAN, todo[r] = Creation(r, name, v, w), v = w \/ Unsettled(name)
      PROVE  \/ todo'[r] = << >> /\ db' = db
             \/ todo'[r] = << >> /\ ConfigSame /\ DomainCreated(r) /\ Unheard(r)
  <2> DEFINE d == Domain(<<r, 1>>, name, v)
             x == DNSRecords(<<r, 1>>, <<r, 1>>, w)
             a == Insert("domains", d)
             b == Insert("dns_records", x)
  <2>1. todo[r] = <<Transaction(a, b)>> /\ Unheard(r)
    BY <1>3, NewDomain DEF Creation
  <2>2. /\ Prim(a) = Store("domains", d) /\ Prim(b) = Store("dns_records", x)
        /\ a.table = "domains" /\ b.table = "dns_records"
    BY InsertPrim
  <2>3. d.id = <<r, 1>> /\ x.id = <<r, 1>> /\ ~d.dead /\ ~x.dead
    BY DEF Domain, DNSRecords
  <2>4. "config" \in Tables \ {"domains", "dns_records"}
    BY DomainColumns
  <2> HIDE DEF a, b, d, x
  <2>5. /\ todo'[r] = << >>
        /\ \/ db' = db
           \/ /\ db'["domains"] = Apply(Store("domains", d), db["domains"])
              /\ db'["dns_records"] = Apply(Store("dns_records", x), db["dns_records"])
              /\ db'["config"] = db["config"]
    BY <2>1, <2>2, <2>4, CommitStep
  <2>6. ASSUME db'["domains"] = Apply(Store("domains", d), db["domains"]) PROVE DomainPut(d)
    <3> DEFINE p == Store("domains", d)
    <3>1. p.do = "put" /\ p.row = d
      BY DEF Store
    <3> HIDE DEF p
    <3>2. QED
      BY <2>3, <2>6, <3>1, LivePut DEF DomainPut, p
  <2>7. Apply(Store("dns_records", x), db["dns_records"]) = db["dns_records"] \cup {x}
    <3>1. Apply(Store("dns_records", x), db["dns_records"]) = Put(db["dns_records"], x)
      BY DEF Apply, Store
    <3>2. \A y \in db["dns_records"] : y.id # x.id
      BY <2>1, <2>3 DEF Unheard
    <3>3. QED
      BY <3>1, <3>2 DEF Put
  <2>8. CASE db' = db
    BY <2>5, <2>8
  <2>9. CASE db' # db
    <3>1. DomainPut(d) /\ db'["dns_records"] = db["dns_records"] \cup {x} /\ ConfigSame
      BY <2>5, <2>6, <2>7, <2>9 DEF ConfigSame
    <3>2. DomainCreated(r)
      BY <1>3, <3>1 DEF DomainCreated, d, x
    <3>3. QED
      BY <2>1, <2>5, <3>1, <3>2
  <2>10. QED
    BY <2>8, <2>9
<1>4. QED
  BY <1>1, <1>2, <1>3

\* The domain of records never changes.
LEMMA OwnKept ==
  ASSUME RecordsInv, OwnRecords, NEW p, Sane(p), p.do = "update", p.table = "dns_records",
         db'["dns_records"] = Apply(p, db["dns_records"])
  PROVE  OwnRecords'
<1>1. "dns_records" \in Tables /\ {"id", "domain"} \subseteq Fixed("dns_records")
  BY DomainColumns, TheColumns
<1>2. \A x \in db["dns_records"] : DOMAIN x = Columns("dns_records")
  BY <1>1 DEF RecordsInv, Shapes
<1>3. ASSUME NEW x \in db'["dns_records"] PROVE x.domain = x.id
  <2>1. PICK y \in db["dns_records"] : x = y \/ x = With(y, p.row)
    BY <1>3 DEF Apply
  <2>2. \A c \in Fixed("dns_records") : With(y, p.row)[c] = y[c]
    BY <1>2, Updated
  <2>3. With(y, p.row)["domain"] = y["domain"] /\ With(y, p.row)["id"] = y["id"]
    BY <1>1, <2>2
  <2>4. QED
    BY <2>1, <2>3 DEF OwnRecords
<1>4. QED
  BY <1>3 DEF OwnRecords

DomainGone(i) == /\ Live("domains")' = {d \in Live("domains") : d.id # i}
                 /\ Live("dns_records")' = {x \in Live("dns_records") : x.domain # i}

LEMMA SanePair ==
  ASSUME RecordsInv, NEW r \in Requests, NEW a, NEW b, todo[r] = <<Transaction(a, b)>>
  PROVE  Sane(Prim(a)) /\ Sane(Prim(b))
<1> DEFINE s == Transaction(a, b)
<1>1. s.do = "commit" /\ s.parts[1] = a /\ s.parts[2] = b
  BY DEF Transaction
<1>2. todo[r] # << >> /\ Head(todo[r]) = s
  BY OneLeft
<1> HIDE DEF s
<1>3. Leads(r, s) = {Prim(a), Prim(b)}
  BY <1>1, LeadsOfSimple
<1>4. QED
  BY <1>2, <1>3, Situation

LEMMA DeleterStep ==
  ASSUME RecordsInv, OwnRecords, NEW r \in Requests, Continue(r), NEW i, todo[r] = Deletion(i)
  PROVE  /\ todo'[r] = << >>
         /\ db' = db \/ (ConfigSame /\ DomainGone(i) /\ OwnRecords')
<1> DEFINE w == [domain |-> i]
           u == [id |-> i]
           a == SoftDelete("dns_records", w)
           b == SoftDelete("domains", u)
<1>1. todo[r] = <<Transaction(a, b)>>
  BY DEF Deletion
<1>2. Where(w, "domain", i) /\ Where(u, "id", i)
  BY DEF Where
<1>3. a.table = "dns_records" /\ b.table = "domains" /\ a.do = "update" /\ Prim(a) = a /\ Prim(b) = b
  BY DEF SoftDelete, Prim
<1>4. "config" \in Tables \ {"domains", "dns_records"}
  BY DomainColumns
<1> HIDE DEF w, u
<1>5. SoftDelete("dns_records", w) = a /\ SoftDelete("domains", u) = b
  OBVIOUS
<1> HIDE DEF a, b
<1>6. /\ todo'[r] = << >>
      /\ \/ db' = db
         \/ /\ db'["dns_records"] = Apply(a, db["dns_records"]) /\ db'["domains"] = Apply(b, db["domains"])
            /\ db'["config"] = db["config"]
  BY <1>1, <1>3, <1>4, CommitStep
<1>7. Sane(a)
  BY <1>1, <1>3, SanePair
<1>8. CASE db' # db
  <2>1. Live("dns_records")' = {x \in Live("dns_records") : x["domain"] # i}
    BY <1>2, <1>5, <1>6, <1>8, LiveRemoved
  <2>2. Live("domains")' = {d \in Live("domains") : d["id"] # i}
    BY <1>2, <1>5, <1>6, <1>8, LiveRemoved
  <2>3. OwnRecords'
    BY <1>3, <1>6, <1>7, <1>8, OwnKept
  <2>4. QED
    BY <1>6, <1>8, <2>1, <2>2, <2>3 DEF ConfigSame, DomainGone
<1>9. QED
  BY <1>6, <1>8

\* The records of domain i are valid from now on.
RecordsMarked(i) ==
  /\ \A z \in Live("dns_records")' : \/ z \in Live("dns_records") /\ z.domain # i
                                     \/ z.domain = i /\ z.valid = TRUE /\ HasRecords(i)
  /\ \A x \in Live("dns_records") : \E z \in Live("dns_records")' : z.domain = x.domain

LEMMA VerifierStep ==
  ASSUME RecordsInv, OwnRecords, NEW r \in Requests, Continue(r), NEW y, todo[r] = Verification(y)
  PROVE  /\ todo'[r] = << >>
         /\ db' = db \/ (ConfigSame /\ DomainPut(y) /\ RecordsMarked(y.id) /\ OwnRecords')
<1> DEFINE w == [domain |-> y.id]
           row == [valid |-> TRUE]
           a == Save("domains", y)
           b == Update("dns_records", w, row)
<1>1. todo[r] = <<Transaction(a, b)>>
  BY DEF Verification
<1>2. Where(w, "domain", y.id) /\ DOMAIN row = {"valid"} /\ row["valid"] = TRUE
  BY DEF Where
<1>3. /\ a.table = "domains" /\ b.table = "dns_records" /\ b.do = "update" /\ Prim(b) = b
      /\ Prim(a) = Store("domains", y)
  BY DEF Save, Update, Prim
<1>4. "config" \in Tables \ {"domains", "dns_records"} /\ "dns_records" \in Tables
      /\ {"dead", "domain"} \subseteq Columns("dns_records")
  BY DomainColumns, TheColumns DEF Columns
<1> HIDE DEF w, row
<1>5. Update("dns_records", w, row) = b
  OBVIOUS
<1> HIDE DEF a, b
<1>6. /\ todo'[r] = << >>
      /\ \/ db' = db
         \/ /\ db'["domains"] = Apply(Store("domains", y), db["domains"])
            /\ db'["dns_records"] = Apply(b, db["dns_records"])
            /\ db'["config"] = db["config"]
  BY <1>1, <1>3, <1>4, CommitStep
<1>7. Sane(b) /\ Sane(Store("domains", y))
  BY <1>1, <1>3, SanePair
<1>8. CASE db' # db
  <2>1. DomainPut(y)
    <3> DEFINE p == Store("domains", y)
    <3>1. p.do = "put" /\ p.row = y
      BY DEF Store
    <3>2. Sane(p) /\ db'["domains"] = Apply(p, db["domains"])
      BY <1>6, <1>7, <1>8
    <3> HIDE DEF p
    <3>3. ~p.row.dead
      BY <3>1, <3>2 DEF Sane
    <3>4. QED
      BY <3>1, <3>2, <3>3, LivePut DEF DomainPut
  <2>2. \A x \in db["dns_records"] : {"dead", "domain"} \subseteq DOMAIN x
    BY <1>4 DEF RecordsInv, Shapes
  <2>3. "valid" # "domain" /\ "valid" # "dead" /\ db'["dns_records"] = Apply(Update("dns_records", w, row), db["dns_records"])
    BY <1>5, <1>6, <1>8
  <2>4. /\ \A z \in Live("dns_records")' :
             \/ z \in Live("dns_records") /\ z["domain"] # y.id
             \/ z["domain"] = y.id /\ z["valid"] = TRUE /\ \E x \in Live("dns_records") : x["domain"] = y.id
        /\ \A x \in Live("dns_records") : \E z \in Live("dns_records")' : z["domain"] = x["domain"]
    BY <1>2, <2>2, <2>3, LiveMarked
  <2>5. RecordsMarked(y.id)
    BY <2>4 DEF RecordsMarked, HasRecords
  <2>6. OwnRecords'
    BY <1>3, <1>6, <1>7, <1>8, OwnKept
  <2>7. QED
    BY <1>6, <1>8, <2>1, <2>5, <2>6 DEF ConfigSame
<1>9. QED
  BY <1>6, <1>8

LEMMA SaverStep ==
  ASSUME RecordsInv, NEW r \in Requests, Continue(r), NEW y, IsSaving(todo[r], y)
  PROVE  \/ todo'[r] = << >> /\ db' = db
         \/ IsSaving(todo'[r], y) /\ db' = db
         \/ todo'[r] = << >> /\ ConfigSame /\ RecordsSame /\ DomainPut(y)
<1>1. PICK s : /\ todo[r] = <<s>> /\ s.do \in {"put", "save"} /\ {"do", "table", "row", "strict"} \subseteq DOMAIN s
               /\ s.table = "domains" /\ s.row = y /\ s.strict
  BY DEF IsSaving
<1>2. Prim(s) = Store("domains", y) /\ s.do \in Simple
  BY <1>1 DEF Prim, Simple
<1>3. todo[r] # << >> /\ Head(todo[r]) = s /\ Tail(todo[r]) = << >>
  BY <1>1, OneLeft
<1>4. Applied(r, s) \/ Missed(r, s) \/ Refused(r, s)
  BY <1>2, <1>3, SimpleStep
<1>5. CASE Applied(r, s)
  <2>1. /\ todo'[r] = << >> /\ db'["domains"] = Apply(Store("domains", y), db["domains"])
        /\ ConfigSame /\ RecordsSame
    BY <1>1, <1>2, <1>3, <1>5, DomainColumns DEF Applied, ConfigSame, RecordsSame
  <2>2. Sane(Store("domains", y))
    BY <1>2, <1>3, Situation, LeadsOfSimple
  <2>3. DomainPut(y)
    <3> DEFINE p == Store("domains", y)
    <3>1. p.do = "put" /\ p.row = y
      BY DEF Store
    <3>2. Sane(p) /\ db'["domains"] = Apply(p, db["domains"])
      BY <2>1, <2>2
    <3> HIDE DEF p
    <3>3. ~p.row.dead
      BY <3>1, <3>2 DEF Sane
    <3>4. QED
      BY <3>1, <3>2, <3>3, LivePut DEF DomainPut
  <2>4. QED
    BY <2>1, <2>3
<1>6. CASE Missed(r, s)
  <2> DEFINE u == [s EXCEPT !.do = "put"]
  <2>1. /\ u.do = "put" /\ {"do", "table", "row", "strict"} \subseteq DOMAIN u
        /\ u.table = "domains" /\ u.row = y /\ u.strict
    BY <1>1
  <2>2. db' = db /\ todo'[r] = <<u>> \o << >>
    BY <1>3, <1>6 DEF Missed
  <2> HIDE DEF u
  <2>3. todo'[r] = <<u>>
    BY <2>2
  <2>4. QED
    BY <2>1, <2>2, <2>3 DEF IsSaving
<1>7. CASE Refused(r, s)
  BY <1>1, <1>3, <1>7 DEF Refused
<1>8. QED
  BY <1>4, <1>5, <1>6, <1>7

LEMMA PurgeStep ==
  ASSUME RecordsInv, NEW r \in Requests, Continue(r), NEW t, todo[r] # << >>, Head(todo[r]) = Purge(t, All)
  PROVE  todo'[r] = Tail(todo[r]) /\ db'[t] = {} /\ \A u \in Tables \ {t} : db'[u] = db[u]
<1> DEFINE s == Purge(t, All)
<1>1. s.do = "purge" /\ s.table = t /\ s.where = All /\ s.do \in Simple /\ Prim(s) = s
  BY DEF Purge, Simple, Prim
<1> HIDE DEF s
<1>2. Applied(r, s) \/ Missed(r, s) \/ Refused(r, s)
  BY <1>1, SimpleStep DEF s
<1>3. Applied(r, s)
  BY <1>1, <1>2 DEF Missed, Refused
<1>4. Apply(s, db[t]) = {}
  BY <1>1, NothingFits DEF Apply
<1>5. QED
  BY <1>1, <1>3, <1>4 DEF Applied

LEMMA ConfigStep ==
  ASSUME RecordsInv, ConfigBoolean, NEW r \in Requests, Continue(r), NEW s, todo[r] # << >>, Head(todo[r]) = s,
         s.do = "update", s.table = "config", "verify" \in DOMAIN s.row => s.row.verify \in BOOLEAN
  PROVE  /\ todo'[r] = Tail(todo[r]) /\ ConfigBoolean'
         /\ \A t \in Tables \ {"config"} : db'[t] = db[t]
<1>1. s.do \in Simple /\ Prim(s) = s
  BY DEF Simple, Prim
<1>2. Applied(r, s)
  BY <1>1, SimpleStep DEF Missed, Refused
<1>3. db'["config"] = Apply(s, db["config"])
  BY <1>1, <1>2 DEF Applied
<1>4. ASSUME NEW c \in db'["config"] PROVE c.verify \in BOOLEAN
  <2>1. PICK d \in db["config"] : c = d \/ c = With(d, s.row)
    BY <1>3, <1>4 DEF Apply
  <2>2. "verify" \in DOMAIN d
    BY DomainColumns, ConfigIs DEF RecordsInv, Shapes, Columns, Saved, Schema
  <2>3. CASE c = d
    BY <2>3 DEF ConfigBoolean
  <2>4. CASE c = With(d, s.row) /\ "verify" \in DOMAIN s.row
    <3>1. c["verify"] = s.row["verify"]
      BY <2>4, WithSet
    <3>2. QED
      BY <2>4, <3>1
  <2>5. CASE c = With(d, s.row) /\ "verify" \notin DOMAIN s.row
    <3>1. \A k \in DOMAIN d \ DOMAIN s.row : With(d, s.row)[k] = d[k]
      BY WithColumn, Zenon
    <3>2. c["verify"] = d["verify"]
      BY <2>2, <2>5, <3>1
    <3>3. QED
      BY <3>2 DEF ConfigBoolean
  <2>6. QED
    BY <2>1, <2>3, <2>4, <2>5
<1>5. QED
  BY <1>1, <1>2, <1>4 DEF Applied, ConfigBoolean

LEMMA DefaultSet ==
  LET s == SetConfig(DefaultConfig) IN
  s.do = "update" /\ s.table = "config" /\ s.row = DefaultConfig /\ s.row.verify \in BOOLEAN
BY DEF SetConfig, Update, DefaultConfig

LEMMA ResetShapes ==
  /\ Reset4 # << >> /\ Head(Reset4) = Purge("dns_records", All) /\ Tail(Reset4) = Reset3
  /\ Reset3 # << >> /\ Head(Reset3) = Purge("smtp_credentials", All) /\ Tail(Reset3) = Reset2
  /\ Reset2 # << >> /\ Head(Reset2) = Purge("domains", All) /\ Tail(Reset2) = Reset1
  /\ Reset1 # << >> /\ Head(Reset1) = SetConfig(DefaultConfig) /\ Tail(Reset1) = << >>
<1> DEFINE a == Purge("dns_records", All)
           b == Purge("smtp_credentials", All)
           c == Purge("domains", All)
           d == SetConfig(DefaultConfig)
<1>1. Reset4 = <<a, b, c, d>> /\ Reset3 = <<b, c, d>> /\ Reset2 = <<c, d>> /\ Reset1 = <<d>>
  BY DEF Reset1, Reset2, Reset3, Reset4
<1> HIDE DEF a, b, c, d
<1>2. Reset4 # << >> /\ Head(Reset4) = a /\ Tail(Reset4) = Reset3
  BY <1>1
<1>3. Reset3 # << >> /\ Head(Reset3) = b /\ Tail(Reset3) = Reset2
  BY <1>1
<1>4. Reset2 # << >> /\ Head(Reset2) = c /\ Tail(Reset2) = Reset1
  BY <1>1
<1>5. Reset1 # << >> /\ Head(Reset1) = d /\ Tail(Reset1) = << >>
  BY <1>1
<1>6. QED
  BY <1>2, <1>3, <1>4, <1>5 DEF a, b, c, d

LEMMA ResetsDiffer ==
  /\ Reset1 # Reset2 /\ Reset1 # Reset3 /\ Reset1 # Reset4
  /\ Reset2 # Reset3 /\ Reset2 # Reset4 /\ Reset3 # Reset4
<1>1. Len(Reset1) = 1 /\ Len(Reset2) = 2 /\ Len(Reset3) = 3 /\ Len(Reset4) = 4
  BY DEF Reset1, Reset2, Reset3, Reset4
<1>2. QED
  BY <1>1

LEMMA ResetterStep ==
  ASSUME RecordsInv, ConfigBoolean, NEW r \in Requests, Continue(r)
  PROVE  /\ todo[r] = Reset4 => todo'[r] = Reset3 /\ db'["domains"] = db["domains"] /\ db'["dns_records"] = {} /\ ConfigSame
         /\ todo[r] = Reset3 => todo'[r] = Reset2 /\ db'["domains"] = db["domains"] /\ RecordsSame /\ ConfigSame
         /\ todo[r] = Reset2 => todo'[r] = Reset1 /\ db'["domains"] = {} /\ RecordsSame /\ ConfigSame
         /\ todo[r] = Reset1 => todo'[r] = << >> /\ db'["domains"] = db["domains"] /\ RecordsSame /\ ConfigBoolean'
<1>1. /\ "config" \in Tables \ {"domains", "dns_records", "smtp_credentials"}
      /\ "domains" \in Tables \ {"dns_records", "smtp_credentials", "config"}
      /\ "dns_records" \in Tables \ {"domains", "smtp_credentials", "config"}
  BY DomainColumns
<1>2. CASE todo[r] = Reset4
  <2>1. todo[r] # << >> /\ Head(todo[r]) = Purge("dns_records", All) /\ Tail(todo[r]) = Reset3
    BY <1>2, ResetShapes
  <2>2. todo'[r] = Reset3 /\ db'["dns_records"] = {} /\ \A u \in Tables \ {"dns_records"} : db'[u] = db[u]
    BY <2>1, PurgeStep
  <2>3. QED
    BY <1>1, <1>2, <2>2, ResetsDiffer DEF ConfigSame
<1>3. CASE todo[r] = Reset3
  <2>1. todo[r] # << >> /\ Head(todo[r]) = Purge("smtp_credentials", All) /\ Tail(todo[r]) = Reset2
    BY <1>3, ResetShapes
  <2>2. todo'[r] = Reset2 /\ db'["smtp_credentials"] = {} /\ \A u \in Tables \ {"smtp_credentials"} : db'[u] = db[u]
    BY <2>1, PurgeStep
  <2>3. QED
    BY <1>1, <1>3, <2>2, ResetsDiffer DEF ConfigSame, RecordsSame
<1>4. CASE todo[r] = Reset2
  <2>1. todo[r] # << >> /\ Head(todo[r]) = Purge("domains", All) /\ Tail(todo[r]) = Reset1
    BY <1>4, ResetShapes
  <2>2. todo'[r] = Reset1 /\ db'["domains"] = {} /\ \A u \in Tables \ {"domains"} : db'[u] = db[u]
    BY <2>1, PurgeStep
  <2>3. QED
    BY <1>1, <1>4, <2>2, ResetsDiffer DEF ConfigSame, RecordsSame
<1>5. CASE todo[r] = Reset1
  BY <1>1, <1>5, ResetShapes, ResetsDiffer, DefaultSet, ConfigStep DEF RecordsSame
<1>6. QED
  BY <1>2, <1>3, <1>4, <1>5

LEMMA AsideStep ==
  ASSUME RecordsInv, ConfigBoolean, NEW r \in Requests, Continue(r), Outcome(r), Aside(r)
  PROVE  /\ Aside(r)' /\ db'["domains"] = db["domains"] /\ RecordsSame /\ ConfigBoolean'
         /\ ConfigSame \/ (AskedFor(r, {"UpdateConfig"}) /\ asked[r].on = "all")
<1> DEFINE s == Head(todo[r])
           fine(u) == \/ u = Invalid
                      \/ u.do \in {"put", "save", "purge"} /\ u.table = "smtp_credentials"
                      \/ /\ u.do = "update" /\ u.table = "config" /\ AskedFor(r, {"UpdateConfig"}) /\ asked[r].on = "all"
                         /\ "verify" \in DOMAIN u.row => u.row.verify \in BOOLEAN
<1>1. todo[r] # << >> /\ asked' = asked
  BY DEF Outcome
<1>2. Elements(todo[r]) = {s} \cup Elements(Tail(todo[r])) /\ IsSequence(Tail(todo[r]))
  BY <1>1, Situation DEF Program, Sequel
<1>3. \A u \in Elements(todo[r]) : fine(u)
  BY DEF Aside
<1>4. (\A u \in Elements(todo'[r]) : fine(u)) => Aside(r)'
  BY <1>1 DEF Aside, AskedFor
<1>5. /\ "config" \in Tables \ {"domains", "dns_records", "smtp_credentials"}
      /\ "domains" \in Tables \ {"dns_records", "smtp_credentials", "config"}
      /\ "dns_records" \in Tables \ {"domains", "smtp_credentials", "config"}
  BY DomainColumns
<1> HIDE DEF s
<1>6. CASE s = Invalid
  <2>1. s.do = "invalid"
    BY <1>6 DEF Invalid
  <2>2. RefuseSection(r)
    BY <1>1, <2>1 DEF Continue, Execute, Write, SaveMisses, Test, Collect, Deliver, Issue, EnsureTag, s
  <2>3. db' = db /\ todo'[r] = << >>
    BY <2>2, Situation, <1>1 DEF RefuseSection
  <2>4. Elements(todo'[r]) = {}
    BY <2>3, ElementsOfTuples
  <2>5. QED
    BY <1>4, <2>3, <2>4 DEF RecordsSame, ConfigSame, ConfigBoolean
<1>7. CASE s.do \in {"put", "save", "purge"} /\ s.table = "smtp_credentials"
  <2>1. s.do \in Simple
    BY <1>7 DEF Simple
  <2>2. Applied(r, s) \/ Missed(r, s) \/ Refused(r, s)
    BY <2>1, SimpleStep DEF s
  <2>3. db'["domains"] = db["domains"] /\ RecordsSame /\ ConfigSame
    BY <1>5, <1>7, <2>2 DEF Applied, Missed, Refused, RecordsSame, ConfigSame
  <2>4. ConfigBoolean'
    BY <2>3 DEF ConfigSame, ConfigBoolean
  <2>5. \A u \in Elements(todo'[r]) : fine(u)
    <3>1. CASE todo'[r] \in {Tail(todo[r]), << >>}
      BY <1>2, <1>3, <3>1, ElementsOfTuples
    <3>2. CASE Missed(r, s)
      <4> DEFINE v == [s EXCEPT !.do = "put"]
      <4>1. {"do", "table"} \subseteq DOMAIN s
        BY <1>1, <2>1, <3>2, Situation DEF Missed, Piece, Statement, Simple, Invalid, s
      <4>2. v.do = "put" /\ v.table = "smtp_credentials"
        BY <1>7, <4>1
      <4>3. todo'[r] = <<v>> \o Tail(todo[r])
        BY <3>2 DEF Missed
      <4>4. fine(v)
        BY <4>2
      <4> HIDE DEF v, fine
      <4> DEFINE one == <<v>>
      <4>5. IsSequence(one) /\ Elements(one) = {v} /\ todo'[r] = one \o Tail(todo[r])
        BY <4>3, ElementsOfTuples
      <4> HIDE DEF one
      <4>6. Elements(todo'[r]) = {v} \cup Elements(Tail(todo[r]))
        BY <1>2, <4>5, ConcatOf
      <4>7. QED
        BY <1>2, <1>3, <4>4, <4>6
    <3>3. QED
      BY <2>2, <3>1, <3>2 DEF Applied, Refused
  <2>6. QED
    BY <1>4, <2>3, <2>4, <2>5
<1>8. CASE /\ s.do = "update" /\ s.table = "config" /\ AskedFor(r, {"UpdateConfig"}) /\ asked[r].on = "all"
           /\ "verify" \in DOMAIN s.row => s.row.verify \in BOOLEAN
  <2>1. /\ todo'[r] = Tail(todo[r]) /\ ConfigBoolean'
        /\ \A t \in Tables \ {"config"} : db'[t] = db[t]
    BY <1>1, <1>8, ConfigStep DEF s
  <2>2. \A u \in Elements(todo'[r]) : fine(u)
    BY <1>2, <1>3, <2>1
  <2>3. QED
    BY <1>4, <1>5, <1>8, <2>1, <2>2 DEF RecordsSame
<1>9. QED
  BY <1>2, <1>3, <1>6, <1>7, <1>8

\* What a step makes of domains, records and the configuration.
SameRows    == db'["domains"] = db["domains"] /\ RecordsSame
Idles(q)    == SameRows /\ (ConfigSame \/ (AskedFor(q, {"UpdateConfig", "ResetAll"}) /\ asked[q].on = "all"))
Makes(q)    == ConfigSame /\ DomainCreated(q) /\ Unheard(q) /\ AskedFor(q, {"CreateDomain"})
Withdraws(q, i) == ConfigSame /\ DomainGone(i) /\ AskedFor(q, {"DeleteDomain"}) /\ <<"domains", i>> \in asked[q].gone
Verifies(q, y) == /\ ConfigSame /\ DomainPut(y) /\ RecordsMarked(y.id) /\ Holds(q, y)
                  /\ AskedFor(q, {"VerifyDomain"}) /\ y.verified = TRUE
Rewrites(q, y) == ConfigSame /\ RecordsSame /\ DomainPut(y) /\ Holds(q, y) /\ (Agrees(y) \/ Unsettled(y.name))
Bares(q)   == /\ ConfigSame /\ db'["domains"] = db["domains"] /\ db'["dns_records"] = {}
               /\ AskedFor(q, {"ResetAll"}) /\ asked[q].on = "all" /\ Wiping'
Drops(q)    == ConfigSame /\ RecordsSame /\ db'["domains"] = {}
               /\ (Live("dns_records") = {} \/ ResetClash({"CreateDomain"}))
Moves(q)    == \/ Idles(q) \/ Makes(q) \/ Bares(q) \/ Drops(q)
               \/ \E i : Withdraws(q, i)
               \/ \E y : Verifies(q, y) \/ Rewrites(q, y)

LEMMA NothingToDo ==
  ASSUME NEW q, todo'[q] = << >>
  PROVE  Working(q)'
BY ElementsOfTuples DEF Working, Aside

LEMMA DomainMoves ==
  ASSUME RecordsInv, DomainParts, NEW q \in Requests, Continue(q), Outcome(q)
  PROVE  Working(q)' /\ Moves(q) /\ OwnRecords' /\ ConfigBoolean'
<1>0. /\ asked' = asked /\ Working(q) /\ OwnRecords /\ ConfigBoolean
      /\ \A o : (Revived(o) => Revived(o)') /\ (Unsettled(o) => Unsettled(o)')
      /\ ResetClash({"CreateDomain"}) => ResetClash({"CreateDomain"})'
  BY DomainExcuses DEF DomainParts, Outcome
<1>a. /\ RecordsSame => OwnRecords'
      /\ ConfigSame => ConfigBoolean'
  BY <1>0 DEF RecordsSame, OwnRecords, ConfigSame, ConfigBoolean
<1>b. db' = db => SameRows /\ ConfigSame
  BY DEF SameRows, RecordsSame, ConfigSame
<1>1. CASE Creator(q)
  <2>1. CASE db' = db
    BY <1>1, <2>1, <1>a, <1>b, CreatorStep, NothingToDo DEF Working, Moves, Idles, SameRows
  <2>2. CASE todo'[q] = << >> /\ ConfigSame /\ DomainCreated(q) /\ Unheard(q)
    <3>1. OwnRecords'
      BY <1>0, <2>2 DEF DomainCreated, OwnRecords, DNSRecords
    <3>2. AskedFor(q, {"CreateDomain"})
      BY <1>1 DEF Creator
    <3>3. QED
      BY <2>2, <3>1, <3>2, <1>a, NothingToDo DEF Moves, Makes
  <2>3. QED
    BY <1>1, <2>1, <2>2, CreatorStep
<1>2. CASE Deleter(q)
  <2>1. PICK i : todo[q] = Deletion(i) /\ <<"domains", i>> \in asked[q].gone
    BY <1>2 DEF Deleter
  <2>2. AskedFor(q, {"DeleteDomain"})
    BY <1>2 DEF Deleter
  <2>3. todo'[q] = << >> /\ (db' = db \/ (ConfigSame /\ DomainGone(i) /\ OwnRecords'))
    BY <1>0, <2>1, DeleterStep
  <2>4. CASE db' = db
    BY <2>3, <2>4, <1>a, <1>b, NothingToDo DEF Moves, Idles, SameRows
  <2>5. CASE ConfigSame /\ DomainGone(i) /\ OwnRecords'
    BY <2>1, <2>2, <2>3, <2>5, <1>a, NothingToDo DEF Moves, Withdraws
  <2>6. QED
    BY <2>3, <2>4, <2>5
<1>3. CASE Verifier(q)
  <2>1. PICK y : todo[q] = Verification(y) /\ Holds(q, y) /\ y.verified = TRUE
    BY <1>3 DEF Verifier
  <2>2. AskedFor(q, {"VerifyDomain"})
    BY <1>3 DEF Verifier
  <2>3. todo'[q] = << >> /\ (db' = db \/ (ConfigSame /\ DomainPut(y) /\ RecordsMarked(y.id) /\ OwnRecords'))
    BY <1>0, <2>1, VerifierStep
  <2>4. CASE db' = db
    BY <2>3, <2>4, <1>a, <1>b, NothingToDo DEF Moves, Idles, SameRows
  <2>5. CASE ConfigSame /\ DomainPut(y) /\ RecordsMarked(y.id) /\ OwnRecords'
    BY <2>1, <2>2, <2>3, <2>5, <1>a, NothingToDo DEF Moves, Verifies
  <2>6. QED
    BY <2>3, <2>4, <2>5
<1>4. CASE Saver(q)
  <2>1. PICK y : IsSaving(todo[q], y) /\ Holds(q, y) /\ (Agrees(y) \/ Unsettled(y.name))
    BY <1>4 DEF Saver
  <2>2. \/ todo'[q] = << >> /\ db' = db
        \/ IsSaving(todo'[q], y) /\ db' = db
        \/ todo'[q] = << >> /\ ConfigSame /\ RecordsSame /\ DomainPut(y)
    BY <2>1, SaverStep
  <2>3. CASE todo'[q] = << >> /\ db' = db
    BY <2>3, <1>a, <1>b, NothingToDo DEF Moves, Idles, SameRows
  <2>4. CASE IsSaving(todo'[q], y) /\ db' = db
    <3>1. Holds(q, y)' /\ (Agrees(y)' \/ Unsettled(y.name)')
      BY <1>0, <2>1, <2>4 DEF Holds, HasRecords, Agrees, Live, AskedFor
    <3>2. Saver(q)'
      BY <2>4, <3>1 DEF Saver
    <3>3. QED
      BY <2>4, <3>2, <1>a, <1>b DEF Working, Moves, Idles, SameRows
  <2>5. CASE todo'[q] = << >> /\ ConfigSame /\ RecordsSame /\ DomainPut(y)
    BY <2>1, <2>5, <1>a, NothingToDo DEF Moves, Rewrites
  <2>6. QED
    BY <2>2, <2>3, <2>4, <2>5
<1>5. CASE Resetter(q)
  <2>1. AskedFor(q, {"ResetAll"}) /\ asked[q].on = "all" /\ AskedFor(q, {"ResetAll"})' /\ asked'[q].on = "all"
    BY <1>0, <1>5 DEF Resetter, AskedFor
  <2>2. CASE todo[q] = Reset4
    <3>1. todo'[q] = Reset3 /\ db'["domains"] = db["domains"] /\ db'["dns_records"] = {} /\ ConfigSame
      BY <1>0, <2>2, ResetterStep
    <3>2. Wiping' /\ Live("dns_records")' = {} /\ OwnRecords'
      BY <2>1, <3>1 DEF Wiping, Live, OwnRecords
    <3>3. Resetter(q)'
      BY <2>1, <3>1, <3>2 DEF Resetter
    <3>4. QED
      BY <2>1, <3>1, <3>2, <3>3, <1>a DEF Moves, Bares, Working
  <2>3. CASE todo[q] = Reset3 /\ (Live("dns_records") = {} \/ ResetClash({"CreateDomain"}))
    <3>1. todo'[q] = Reset2 /\ db'["domains"] = db["domains"] /\ RecordsSame /\ ConfigSame
      BY <1>0, <2>3, ResetterStep
    <3>2. Live("dns_records")' = Live("dns_records")
      BY <3>1 DEF Live, RecordsSame
    <3>3. Resetter(q)'
      BY <1>0, <2>1, <2>3, <3>1, <3>2 DEF Resetter
    <3>4. QED
      BY <3>1, <3>3, <1>a DEF Moves, Idles, SameRows, Working
  <2>4. CASE todo[q] = Reset2 /\ (Live("dns_records") = {} \/ ResetClash({"CreateDomain"}))
    <3>1. todo'[q] = Reset1 /\ db'["domains"] = {} /\ RecordsSame /\ ConfigSame
      BY <1>0, <2>4, ResetterStep
    <3>2. Resetter(q)'
      BY <2>1, <3>1 DEF Resetter
    <3>3. QED
      BY <2>4, <3>1, <3>2, <1>a DEF Moves, Drops, Working
  <2>5. CASE todo[q] = Reset1
    <3>1. todo'[q] = << >> /\ db'["domains"] = db["domains"] /\ RecordsSame /\ ConfigBoolean'
      BY <1>0, <2>5, ResetterStep
    <3>2. AskedFor(q, {"UpdateConfig", "ResetAll"})
      BY <2>1 DEF AskedFor
    <3>3. QED
      BY <2>1, <3>1, <3>2, <1>a, NothingToDo DEF Moves, Idles, SameRows
  <2>6. QED
    BY <1>5, <2>2, <2>3, <2>4, <2>5 DEF Resetter
<1>6. CASE Aside(q)
  <2>1. /\ Aside(q)' /\ db'["domains"] = db["domains"] /\ RecordsSame /\ ConfigBoolean'
        /\ ConfigSame \/ (AskedFor(q, {"UpdateConfig"}) /\ asked[q].on = "all")
    BY <1>0, <1>6, AsideStep
  <2>2. AskedFor(q, {"UpdateConfig"}) => AskedFor(q, {"UpdateConfig", "ResetAll"})
    BY DEF AskedFor
  <2>3. QED
    BY <2>1, <2>2, <1>a DEF Moves, Idles, SameRows, Working
<1>7. QED
  BY <1>0, <1>1, <1>2, <1>3, <1>4, <1>5, <1>6 DEF Working

\* A reset that is under way stays so until the domains are gone.
LEMMA WipingStays ==
  ASSUME RecordsInv, ConfigBoolean, NEW q \in Requests, Continue(q), Outcome(q), Wiping
  PROVE  Wiping' \/ db'["domains"] = {}
<1>1. PICK s \in Requests : /\ AskedFor(s, {"ResetAll"}) /\ asked[s].on = "all"
                            /\ todo[s] \in {Reset2, Reset3, Reset4}
  BY DEF Wiping
<1>2. AskedFor(s, {"ResetAll"})' /\ asked'[s].on = "all"
  BY <1>1 DEF Outcome, AskedFor
<1>3. CASE s # q
  <2>1. todo'[s] = todo[s]
    BY <1>3 DEF Outcome
  <2>2. QED
    BY <1>1, <1>2, <2>1 DEF Wiping
<1>4. CASE s = q
  <2>1. todo'[q] \in {Reset2, Reset3} \/ db'["domains"] = {}
    BY <1>1, <1>4, ResetterStep
  <2>2. QED
    BY <1>2, <1>4, <2>1 DEF Wiping
<1>5. QED
  BY <1>3, <1>4

\* What a request relies on still holds after another one's step, or the
\* two clash.
LEMMA HoldsStays ==
  ASSUME RecordsInv, DomainParts, NEW q \in Requests, Outcome(q), Moves(q), NEW r \in Requests \ {q},
         todo[r] # << >>, NEW y, Holds(r, y)
  PROVE  Holds(r, y)'
<1>0. asked' = asked /\ todo[q] # << >> /\ (Revived(y.name) => Revived(y.name)')
  BY DomainExcuses DEF Outcome
<1>1. AskedFor(r, DomainSavers) /\ asked[r].on = y.name /\ <<"domains", y.id>> \in asked[r].saves
  BY DEF Holds
<1>2. ASSUME AskedFor(q, {"DeleteDomain", "ResetAll"}), asked[q].on \in {y.name, "all"} PROVE Revived(y.name)'
  <2>1. Clash({"DeleteDomain", "ResetAll"}, DomainSavers, y.name)
    BY <1>0, <1>1, <1>2, RunningClash
  <2>2. QED
    BY <1>0, <2>1 DEF Revived
<1>3. ASSUME HasRecords(y.id) PROVE HasRecords(y.id)' \/ Revived(y.name)'
  <2>1. CASE RecordsSame
    BY <1>3, <2>1 DEF RecordsSame, HasRecords, Live
  <2>2. CASE Makes(q)
    BY <1>3, <2>2 DEF Makes, DomainCreated, HasRecords, Live
  <2>3. CASE Bares(q)
    <3>1. AskedFor(q, {"DeleteDomain", "ResetAll"}) /\ asked[q].on = "all"
      BY <2>3 DEF Bares, AskedFor
    <3>2. QED
      BY <1>2, <3>1
  <2>4. ASSUME NEW i, Withdraws(q, i) PROVE HasRecords(y.id)' \/ Revived(y.name)'
    <3>1. CASE i # y.id
      BY <1>3, <2>4, <3>1 DEF Withdraws, DomainGone, HasRecords
    <3>2. CASE i = y.id
      <4>1. AskedFor(q, {"DeleteDomain", "ResetAll"}) /\ Aims(q, i)
        BY <2>4 DEF Withdraws, AskedFor, Aims
      <4>2. Aims(r, i)
        BY <1>1, <3>2 DEF Aims, AskedFor, DomainSavers
      <4>3. asked[q].on = y.name
        BY <1>1, <4>1, <4>2 DEF DomainParts, DomainsNamed
      <4>4. QED
        BY <1>2, <4>1, <4>3
    <3>3. QED
      BY <3>1, <3>2
  <2>5. ASSUME NEW u, Verifies(q, u) PROVE HasRecords(y.id)' \/ Revived(y.name)'
    BY <1>3, <2>5 DEF Verifies, RecordsMarked, HasRecords
  <2>6. QED
    BY <2>1, <2>2, <2>3, <2>4, <2>5 DEF Moves, Idles, SameRows, Drops, Rewrites
<1>4. QED
  BY <1>0, <1>1, <1>3 DEF Holds, AskedFor

LEMMA AgreesStays ==
  ASSUME RecordsInv, DomainParts, NEW q \in Requests, Outcome(q), Moves(q), NEW r \in Requests \ {q},
         todo[r] # << >>, NEW y, Holds(r, y), Agrees(y) \/ Unsettled(y.name)
  PROVE  Agrees(y)' \/ Unsettled(y.name)'
<1>0. asked' = asked /\ todo[q] # << >> /\ (Unsettled(y.name) => Unsettled(y.name)')
  BY DomainExcuses DEF Outcome
<1>1. AskedFor(r, DomainSavers) /\ asked[r].on = y.name /\ <<"domains", y.id>> \in asked[r].saves
  BY DEF Holds
<1>2. SUFFICES ASSUME Agrees(y) PROVE Agrees(y)' \/ Unsettled(y.name)'
  BY <1>0
<1>3. CASE RecordsSame
  BY <1>2, <1>3 DEF RecordsSame, Agrees, Live
<1>4. CASE Makes(q)
  <2>1. y.id # <<q, 1>>
    BY <1>1, <1>4 DEF Makes, Unheard
  <2>2. QED
    BY <1>2, <1>4, <2>1 DEF Makes, DomainCreated, Agrees, Live, DNSRecords
<1>5. CASE Bares(q)
  BY <1>5 DEF Bares, Agrees, Live
<1>6. ASSUME NEW i, Withdraws(q, i) PROVE Agrees(y)'
  BY <1>2, <1>6 DEF Withdraws, DomainGone, Agrees
<1>7. ASSUME NEW u, Verifies(q, u) PROVE Agrees(y)' \/ Unsettled(y.name)'
  <2>1. CASE u.id # y.id
    BY <1>2, <1>7, <2>1 DEF Verifies, RecordsMarked, Agrees
  <2>2. CASE u.id = y.id
    <3>1. Aims(q, y.id) /\ Aims(r, y.id)
      BY <1>1, <1>7, <2>2 DEF Verifies, Holds, Aims, AskedFor, DomainSavers
    <3>2. asked[q].on = y.name
      BY <1>1, <3>1 DEF DomainParts, DomainsNamed
    <3>3. AskedFor(q, {"VerifyDomain"})
      BY <1>7 DEF Verifies
    <3>4. Clash({"VerifyDomain"}, DomainSavers, y.name)
      BY <1>0, <1>1, <3>2, <3>3, RunningClash
    <3>5. QED
      BY <1>0, <3>4 DEF Unsettled
  <2>3. QED
    BY <2>1, <2>2
<1>8. QED
  BY <1>3, <1>4, <1>5, <1>6, <1>7 DEF Moves, Idles, SameRows, Drops, Rewrites

LEMMA EmptyStays ==
  ASSUME RecordsInv, NEW q \in Requests, Outcome(q), Moves(q), NEW r \in Requests \ {q},
         todo[r] # << >>, AskedFor(r, {"ResetAll"}), Live("dns_records") = {} \/ ResetClash({"CreateDomain"})
  PROVE  Live("dns_records")' = {} \/ ResetClash({"CreateDomain"})'
<1>0. todo[q] # << >> /\ (ResetClash({"CreateDomain"}) => ResetClash({"CreateDomain"})')
  BY DomainExcuses DEF Outcome
<1>1. SUFFICES ASSUME Live("dns_records") = {} PROVE Live("dns_records")' = {} \/ ResetClash({"CreateDomain"})'
  BY <1>0
<1>2. CASE RecordsSame
  BY <1>1, <1>2 DEF RecordsSame, Live
<1>3. CASE Makes(q)
  <2>1. Overlap(r, q)
    BY <1>0, Active DEF Overlap
  <2>2. ResetClash({"CreateDomain"})
    BY <1>3, <2>1 DEF ResetClash, Makes
  <2>3. QED
    BY <1>0, <2>2
<1>4. CASE Bares(q)
  BY <1>4 DEF Bares, Live
<1>5. ASSUME NEW i, Withdraws(q, i) PROVE Live("dns_records")' = {}
  BY <1>1, <1>5 DEF Withdraws, DomainGone
<1>6. ASSUME NEW u, Verifies(q, u) PROVE Live("dns_records")' = {}
  BY <1>1, <1>6 DEF Verifies, RecordsMarked, HasRecords
<1>7. QED
  BY <1>2, <1>3, <1>4, <1>5, <1>6 DEF Moves, Idles, SameRows, Drops, Rewrites

LEMMA OthersWork ==
  ASSUME RecordsInv, DomainParts, NEW q \in Requests, Outcome(q), Moves(q), NEW r \in Requests \ {q}
  PROVE  Working(r)'
<1>0. /\ asked' = asked /\ todo[q] # << >> /\ todo'[r] = todo[r] /\ Working(r)
      /\ \A o : Unsettled(o) => Unsettled(o)'
  BY DomainExcuses DEF Outcome, DomainParts
<1>1. CASE Creator(r)
  <2> DEFINE name == asked[r].on
  <2>1. PICK v \in BOOLEAN :
          \/ todo[r] = Trial(r, name, v) /\ (Configured(v) \/ Unsettled(name))
          \/ \E w \in BOOLEAN : todo[r] = Creation(r, name, v, w) /\ (v = w \/ Unsettled(name))
    BY <1>1 DEF Creator
  <2>2. AskedFor(r, {"CreateDomain"})
    BY <1>1 DEF Creator
  <2>3. ASSUME todo[r] = Trial(r, name, v), Configured(v) PROVE Configured(v)' \/ Unsettled(name)'
    <3>1. CASE ConfigSame
      BY <2>3, <3>1 DEF ConfigSame, Configured
    <3>2. CASE AskedFor(q, {"UpdateConfig", "ResetAll"}) /\ asked[q].on = "all"
      <4>1. todo[r] # << >>
        BY <2>3 DEF Trial
      <4>2. Clash({"CreateDomain"}, {"UpdateConfig", "ResetAll"}, name)
        BY <1>0, <2>2, <3>2, <4>1, RunningClash
      <4>3. QED
        BY <1>0, <4>2 DEF Unsettled
    <3>3. QED
      BY <3>1, <3>2 DEF Moves, Idles, Makes, Bares, Drops, Withdraws, Verifies, Rewrites
  <2>4. \/ todo'[r] = Trial(r, name, v) /\ (Configured(v)' \/ Unsettled(name)')
        \/ \E w \in BOOLEAN : todo'[r] = Creation(r, name, v, w) /\ (v = w \/ Unsettled(name)')
    BY <1>0, <2>1, <2>3
  <2>5. Creator(r)'
    BY <1>0, <2>2, <2>4 DEF Creator, AskedFor
  <2>6. QED
    BY <2>5 DEF Working
<1>2. CASE Deleter(r)
  BY <1>0, <1>2 DEF Working, Deleter, AskedFor
<1>3. CASE Verifier(r)
  <2>1. PICK y : todo[r] = Verification(y) /\ Holds(r, y) /\ y.verified = TRUE
    BY <1>3 DEF Verifier
  <2>2. todo[r] # << >>
    BY <2>1 DEF Verification
  <2>3. Holds(r, y)'
    BY <2>1, <2>2, HoldsStays
  <2>4. Verifier(r)'
    BY <1>0, <1>3, <2>1, <2>3 DEF Verifier, AskedFor
  <2>5. QED
    BY <2>4 DEF Working
<1>4. CASE Saver(r)
  <2>1. PICK y : IsSaving(todo[r], y) /\ Holds(r, y) /\ (Agrees(y) \/ Unsettled(y.name))
    BY <1>4 DEF Saver
  <2>2. todo[r] # << >>
    BY <2>1 DEF IsSaving
  <2>3. Holds(r, y)' /\ (Agrees(y)' \/ Unsettled(y.name)')
    BY <2>1, <2>2, HoldsStays, AgreesStays
  <2>4. IsSaving(todo'[r], y)
    BY <1>0, <2>1
  <2>5. Saver(r)'
    BY <2>3, <2>4 DEF Saver
  <2>6. QED
    BY <2>5 DEF Working
<1>5. CASE Resetter(r)
  <2>1. ASSUME todo[r] \in {Reset2, Reset3}, Live("dns_records") = {} \/ ResetClash({"CreateDomain"})
        PROVE  Live("dns_records")' = {} \/ ResetClash({"CreateDomain"})'
    <3>1. todo[r] # << >> /\ AskedFor(r, {"ResetAll"})
      BY <1>5, <2>1, ResetShapes DEF Resetter
    <3>2. QED
      BY <2>1, <3>1, EmptyStays
  <2>2. Resetter(r)'
    BY <1>0, <1>5, <2>1 DEF Resetter, AskedFor
  <2>3. QED
    BY <2>2 DEF Working
<1>6. CASE Aside(r)
  <2>1. Aside(r)'
    BY <1>0, <1>6 DEF Aside, AskedFor
  <2>2. QED
    BY <2>1 DEF Working
<1>7. QED
  BY <1>0, <1>1, <1>2, <1>3, <1>4, <1>5, <1>6 DEF Working

\* The names, the records, their state and their domains after a step.
LEMMA NamesStay ==
  ASSUME RecordsInv, DomainParts, NEW q \in Requests, Outcome(q), Moves(q)
  PROVE  DomainsNamed'
<1>0. asked' = asked /\ DomainsNamed
  BY DEF Outcome, DomainParts
<1>1. ASSUME NEW r \in Requests, NEW d \in Live("domains")', Aims(r, d.id)
      PROVE  asked[r].on = d.name
  <2>1. CASE d \in Live("domains")
    BY <1>0, <1>1, <2>1 DEF DomainsNamed
  <2>2. CASE Makes(q) /\ d \notin Live("domains")
    <3>1. d.id = <<q, 1>>
      BY <2>2 DEF Makes, DomainCreated, DomainPut, Domain
    <3>2. QED
      BY <1>1, <2>2, <3>1 DEF Makes, Unheard, Aims
  <2>3. ASSUME NEW y, Verifies(q, y) \/ Rewrites(q, y), d \notin Live("domains")
        PROVE  asked[r].on = d.name
    <3>1. d = y /\ Holds(q, y)
      BY <2>3 DEF Verifies, Rewrites, DomainPut
    <3>2. Aims(q, d.id) /\ asked[q].on = d.name
      BY <3>1 DEF Holds, Aims, AskedFor, DomainSavers
    <3>3. QED
      BY <1>0, <1>1, <3>2 DEF DomainsNamed
  <2>4. CASE db'["domains"] = db["domains"] \/ db'["domains"] = {}
    BY <2>1, <2>4 DEF Live
  <2>5. ASSUME NEW i, Withdraws(q, i) PROVE d \in Live("domains")
    BY <2>5 DEF Withdraws, DomainGone
  <2>6. QED
    BY <2>1, <2>2, <2>3, <2>4, <2>5 DEF Moves, Idles, SameRows, Bares, Drops
<1>2. QED
  BY <1>0, <1>1 DEF DomainsNamed, Aims, AskedFor

LEMMA AccompaniedStays ==
  ASSUME RecordsInv, DomainParts, NEW q \in Requests, Continue(q), Outcome(q), Moves(q)
  PROVE  Accompanied'
<1>0. \A o : Revived(o) => Revived(o)'
  BY DomainExcuses
<1>1. SUFFICES ASSUME NEW d \in Live("domains")' PROVE HasRecords(d.id)' \/ Revived(d.name)' \/ Wiping'
  BY DEF Accompanied
<1>2. Wiping => Wiping'
  <2>1. db'["domains"] # {}
    BY <1>1 DEF Live
  <2>2. QED
    BY <2>1, WipingStays DEF DomainParts
<1>3. ASSUME d \in Live("domains"), HasRecords(d.id) => HasRecords(d.id)' \/ Wiping'
      PROVE  HasRecords(d.id)' \/ Revived(d.name)' \/ Wiping'
  BY <1>0, <1>2, <1>3 DEF DomainParts, Accompanied
<1>4. CASE SameRows
  BY <1>3, <1>4 DEF SameRows, RecordsSame, HasRecords, Live
<1>5. CASE Makes(q)
  <2>1. PICK v, w \in BOOLEAN : /\ DomainPut(Domain(<<q, 1>>, asked[q].on, v))
                               /\ db'["dns_records"] = db["dns_records"] \cup {DNSRecords(<<q, 1>>, <<q, 1>>, w)}
    BY <1>5 DEF Makes, DomainCreated
  <2>2. CASE d \in Live("domains")
    BY <1>3, <2>1, <2>2 DEF HasRecords, Live
  <2>3. CASE d \notin Live("domains")
    <3>1. d.id = <<q, 1>>
      BY <2>1, <2>3 DEF DomainPut, Domain
    <3> DEFINE x == DNSRecords(<<q, 1>>, <<q, 1>>, w)
    <3>2. ~x.dead /\ x.domain = <<q, 1>>
      BY DEF DNSRecords
    <3> HIDE DEF x
    <3>3. HasRecords(d.id)'
      BY <2>1, <3>1, <3>2 DEF HasRecords, Live, x
    <3>4. QED
      BY <3>3
  <2>4. QED
    BY <2>2, <2>3
<1>6. ASSUME NEW i, Withdraws(q, i) PROVE HasRecords(d.id)' \/ Revived(d.name)' \/ Wiping'
  <2>1. d \in Live("domains") /\ d.id # i
    BY <1>6 DEF Withdraws, DomainGone
  <2>2. HasRecords(d.id) => HasRecords(d.id)'
    BY <1>6, <2>1 DEF Withdraws, DomainGone, HasRecords
  <2>3. QED
    BY <1>3, <2>1, <2>2
<1>7. ASSUME NEW y, Verifies(q, y) \/ Rewrites(q, y) PROVE HasRecords(d.id)' \/ Revived(d.name)' \/ Wiping'
  <2>1. \A i : HasRecords(i) => HasRecords(i)'
    BY <1>7 DEF Verifies, Rewrites, RecordsMarked, RecordsSame, HasRecords, Live
  <2>2. Holds(q, y) /\ (d \in Live("domains") \/ d = y)
    BY <1>7 DEF Verifies, Rewrites, DomainPut
  <2>3. QED
    BY <1>0, <1>3, <2>1, <2>2 DEF Holds
<1>8. CASE Bares(q)
  BY <1>8 DEF Bares
<1>9. CASE Drops(q)
  BY <1>1, <1>9 DEF Drops, Live
<1>10. QED
  BY <1>4, <1>5, <1>6, <1>7, <1>8, <1>9 DEF Moves, Idles

LEMMA AgreedStays ==
  ASSUME RecordsInv, DomainParts, NEW q \in Requests, Outcome(q), Moves(q)
  PROVE  Agreed'
<1>0. \A o : Unsettled(o) => Unsettled(o)'
  BY DomainExcuses
<1>1. SUFFICES ASSUME NEW d \in Live("domains")' PROVE Agrees(d)' \/ Unsettled(d.name)'
  BY DEF Agreed
<1>2. ASSUME d \in Live("domains"), Agrees(d) => Agrees(d)' PROVE Agrees(d)' \/ Unsettled(d.name)'
  BY <1>0, <1>2 DEF DomainParts, Agreed
<1>3. CASE SameRows
  BY <1>2, <1>3 DEF SameRows, RecordsSame, Agrees, Live
<1>4. CASE Makes(q)
  <2>1. PICK v, w \in BOOLEAN : /\ v = w \/ Unsettled(asked[q].on)
                               /\ DomainPut(Domain(<<q, 1>>, asked[q].on, v))
                               /\ db'["dns_records"] = db["dns_records"] \cup {DNSRecords(<<q, 1>>, <<q, 1>>, w)}
    BY <1>4 DEF Makes, DomainCreated
  <2>2. (\A e \in db["domains"] : e.id # <<q, 1>>) /\ (\A x \in db["dns_records"] : x.domain # <<q, 1>>)
    BY <1>4 DEF Makes, Unheard, DomainParts, OwnRecords
  <2>3. CASE d \in Live("domains")
    <3>1. d.id # <<q, 1>>
      BY <2>2, <2>3 DEF Live
    <3>2. Agrees(d) => Agrees(d)'
      BY <2>1, <3>1 DEF Agrees, Live, DNSRecords
    <3>3. QED
      BY <1>2, <2>3, <3>2
  <2>4. CASE d \notin Live("domains")
    <3>1. d = Domain(<<q, 1>>, asked[q].on, v)
      BY <2>1, <2>4 DEF DomainPut
    <3>2. d.id = <<q, 1>> /\ d.name = asked[q].on /\ d.verified = v
      BY <3>1 DEF Domain
    <3>3. v = w => Agrees(d)'
      BY <2>1, <2>2, <3>2 DEF Agrees, Live, DNSRecords
    <3>4. QED
      BY <1>0, <2>1, <3>2, <3>3
  <2>5. QED
    BY <2>3, <2>4
<1>5. ASSUME NEW i, Withdraws(q, i) PROVE Agrees(d)' \/ Unsettled(d.name)'
  BY <1>2, <1>5 DEF Withdraws, DomainGone, Agrees
<1>6. ASSUME NEW y, Verifies(q, y) PROVE Agrees(d)' \/ Unsettled(d.name)'
  <2>1. d = y \/ (d \in Live("domains") /\ d.id # y.id)
    BY <1>6 DEF Verifies, DomainPut
  <2>2. CASE d = y
    BY <1>6, <2>2 DEF Verifies, RecordsMarked, Agrees
  <2>3. CASE d \in Live("domains") /\ d.id # y.id
    BY <1>2, <1>6, <2>3 DEF Verifies, RecordsMarked, Agrees
  <2>4. QED
    BY <2>1, <2>2, <2>3
<1>7. ASSUME NEW y, Rewrites(q, y) PROVE Agrees(d)' \/ Unsettled(d.name)'
  <2>1. d = y \/ d \in Live("domains")
    BY <1>7 DEF Rewrites, DomainPut
  <2>2. \A e : Agrees(e) => Agrees(e)'
    BY <1>7 DEF Rewrites, RecordsSame, Agrees, Live
  <2>3. QED
    BY <1>0, <1>2, <1>7, <2>1, <2>2 DEF Rewrites
<1>8. CASE Bares(q)
  BY <1>8 DEF Bares, Agrees, Live
<1>9. CASE Drops(q)
  BY <1>1, <1>9 DEF Drops, Live
<1>10. QED
  BY <1>3, <1>4, <1>5, <1>6, <1>7, <1>8, <1>9 DEF Moves, Idles

LEMMA OwnedStays ==
  ASSUME RecordsInv, DomainParts, NEW q \in Requests, Outcome(q), Moves(q)
  PROVE  Owned'
<1>0. ResetClash({"CreateDomain"}) => ResetClash({"CreateDomain"})'
  BY DomainExcuses
<1>1. SUFFICES ASSUME NEW x \in Live("dns_records")' PROVE HasDomain(x.domain)' \/ ResetClash({"CreateDomain"})'
  BY DEF Owned
<1>2. ASSUME x \in Live("dns_records"), HasDomain(x.domain) => HasDomain(x.domain)'
      PROVE  HasDomain(x.domain)' \/ ResetClash({"CreateDomain"})'
  BY <1>0, <1>2 DEF DomainParts, Owned
<1>3. CASE SameRows
  BY <1>2, <1>3 DEF SameRows, RecordsSame, HasDomain, Live
<1>4. ASSUME NEW y, DomainPut(y) PROVE \A i : HasDomain(i) \/ i = y.id => HasDomain(i)'
  BY <1>4 DEF DomainPut, HasDomain
<1>5. CASE Makes(q)
  <2>1. PICK v, w \in BOOLEAN : /\ DomainPut(Domain(<<q, 1>>, asked[q].on, v))
                               /\ db'["dns_records"] = db["dns_records"] \cup {DNSRecords(<<q, 1>>, <<q, 1>>, w)}
    BY <1>5 DEF Makes, DomainCreated
  <2>2. Domain(<<q, 1>>, asked[q].on, v).id = <<q, 1>> /\ DNSRecords(<<q, 1>>, <<q, 1>>, w).domain = <<q, 1>>
    BY DEF Domain, DNSRecords
  <2>3. x \in Live("dns_records") \/ x.domain = <<q, 1>>
    BY <2>1, <2>2 DEF Live
  <2>4. \A i : HasDomain(i) \/ i = <<q, 1>> => HasDomain(i)'
    BY <1>4, <2>1, <2>2
  <2>5. QED
    BY <1>2, <2>3, <2>4
<1>6. ASSUME NEW i, Withdraws(q, i) PROVE HasDomain(x.domain)' \/ ResetClash({"CreateDomain"})'
  <2>1. x \in Live("dns_records") /\ x.domain # i
    BY <1>6 DEF Withdraws, DomainGone
  <2>2. HasDomain(x.domain) => HasDomain(x.domain)'
    BY <1>6, <2>1 DEF Withdraws, DomainGone, HasDomain
  <2>3. QED
    BY <1>2, <2>1, <2>2
<1>7. ASSUME NEW y, Verifies(q, y) \/ Rewrites(q, y)
      PROVE  HasDomain(x.domain)' \/ ResetClash({"CreateDomain"})'
  <2>1. x \in Live("dns_records") \/ x.domain = y.id
    BY <1>7 DEF Verifies, Rewrites, RecordsMarked, RecordsSame, Live
  <2>2. \A i : HasDomain(i) \/ i = y.id => HasDomain(i)'
    BY <1>4, <1>7 DEF Verifies, Rewrites
  <2>3. QED
    BY <1>2, <2>1, <2>2
<1>8. CASE Bares(q)
  BY <1>8 DEF Bares, Live
<1>9. CASE Drops(q)
  BY <1>0, <1>1, <1>9 DEF Drops, RecordsSame, Live
<1>10. QED
  BY <1>3, <1>5, <1>6, <1>7, <1>8, <1>9 DEF Moves, Idles

LEMMA DomainsContinue ==
  ASSUME RecordsInv, DomainParts, NEW q \in Requests, Continue(q), Outcome(q)
  PROVE  DomainParts'
<1>1. Working(q)' /\ Moves(q) /\ OwnRecords' /\ ConfigBoolean'
  BY DomainMoves
<1>2. \A r \in Requests : Working(r)'
  BY <1>1, OthersWork
<1>3. QED
  BY <1>1, <1>2, NamesStay, AccompaniedStays, AgreedStays, OwnedStays DEF DomainParts

----------------------------------------------------------------------------
(* A request that arrives knows what it is to do, and the domain it is on. *)

Aimed(r)   == \A i : Aims(r, i)' => \E d \in Live("domains") : d.id = i /\ d.name = asked'[r].on
Engaged(r) == \E a, p : Starts(r, a, p) /\ Working(r)' /\ Aimed(r)

LEMMA FoundDomain ==
  ASSUME RecordsInv, NEW name, NEW d \in findDomain(name)
  PROVE  d \in Live("domains") /\ d.name = name /\ {"id", "name", "verified"} \subseteq DOMAIN d
<1> DEFINE w == [name |-> name]
<1>1. Where(w, "name", name)
  BY DEF Where
<1>2. d \in Live("domains") /\ Fits(d, w)
  BY DEF findDomain, Select
<1> HIDE DEF w
<1>3. d["name"] = name
  BY <1>1, <1>2, FitsWhere
<1>4. DOMAIN d = Columns("domains")
  BY <1>2, DomainColumns DEF RecordsInv, Shapes, Live
<1>5. {"id", "name", "verified"} \subseteq Columns("domains")
  BY DEF Columns, Fixed, Saved, Schema
<1>6. QED
  BY <1>2, <1>3, <1>4, <1>5

LEMMA FreshHolder ==
  ASSUME RecordsInv, DomainParts, NEW r, NEW a, NEW p, Starts(r, a, p), a.kind \in DomainSavers,
         NEW d \in Live("domains"), a.on = d.name, <<"domains", d.id>> \in a.saves,
         NEW y, y.id = d.id, y.name = d.name
  PROVE  Holds(r, y)'
<1>1. /\ r \in Requests /\ db' = db /\ asked'[r] = a /\ todo[r] = << >>
      /\ \A s \in Requests \ {r} : asked'[s] = asked[s]
      /\ before' = before \cup {<<s, r>> : s \in {s \in Requests : Answered(s)}}
      /\ \A s : ~Preceded(r, s) /\ ~Preceded(s, r) /\ ~Preceded(r, s)'
  BY Starting
<1>2. HasRecords(d.id) \/ Revived(d.name) \/ Wiping
  BY DEF DomainParts, Accompanied
<1>3. CASE HasRecords(d.id)
  BY <1>1, <1>3 DEF Holds, AskedFor, HasRecords, Live
<1>4. ASSUME Revived(d.name)' PROVE Holds(r, y)'
  BY <1>1, <1>4 DEF Holds, AskedFor
<1>5. CASE Revived(d.name)
  BY <1>4, <1>5, DomainExcuses
<1>6. CASE Wiping
  <2>1. PICK s \in Requests : AskedFor(s, {"ResetAll"}) /\ asked[s].on = "all" /\ todo[s] # << >>
    BY <1>6, ResetShapes DEF Wiping
  <2>2. s # r
    BY <1>1, <2>1
  <2>3. asked[s] # NotAsked /\ asked'[s] = asked[s]
    BY <1>1, <2>1, <2>2, Active
  <2>4. ~Preceded(s, r)'
    BY <1>1, <2>1, <2>2 DEF Preceded, Answered
  <2>5. asked'[r] # NotAsked
    BY <1>1 DEF DomainSavers, NotAsked, Ask
  <2>6. Overlap(s, r)'
    BY <1>1, <2>2, <2>3, <2>4, <2>5 DEF Overlap
  <2>7. Revived(d.name)'
    BY <1>1, <2>1, <2>3, <2>6 DEF Revived, Clash, AskedFor
  <2>8. QED
    BY <1>4, <2>7
<1>7. QED
  BY <1>2, <1>3, <1>5, <1>6

LEMMA CreatorEngaged ==
  ASSUME RecordsInv, DomainParts, NEW r \in Requests, Started(r), CreateDomain(r)
  PROVE  Engaged(r)
<1>0. PICK name \in DomainNames : \E c \in db["config"] :
        LET create(valid) == Transaction(Insert("domains", Domain(<<r, 1>>, name, c.verify)),
                                         Insert("dns_records", DNSRecords(<<r, 1>>, <<r, 1>>, valid)))
        IN Begin(r, Ask("CreateDomain", name),
                 <<IfAny("config", [verify |-> TRUE], <<create(TRUE)>>, <<create(FALSE)>>)>>)
  BY DEF CreateDomain
<1>1. PICK c \in db["config"] :
        LET create(valid) == Transaction(Insert("domains", Domain(<<r, 1>>, name, c.verify)),
                                         Insert("dns_records", DNSRecords(<<r, 1>>, <<r, 1>>, valid)))
        IN Begin(r, Ask("CreateDomain", name),
                 <<IfAny("config", [verify |-> TRUE], <<create(TRUE)>>, <<create(FALSE)>>)>>)
  BY <1>0
<1> DEFINE a == Ask("CreateDomain", name)
           p == Trial(r, name, c.verify)
<1>2. Begin(r, a, p)
  BY <1>1 DEF Trial, Creation
<1>3. a.kind = "CreateDomain" /\ a.on = name /\ a.saves = {} /\ a.gone = {}
  BY DEF Ask
<1>4. c.verify \in BOOLEAN /\ Configured(c.verify)
  <2>1. \A x \in db["config"] : x = c
    BY DomainColumns DEF RecordsInv, Origins, DatabaseTypeOK
  <2>2. QED
    BY <2>1 DEF DomainParts, ConfigBoolean, Configured
<1> HIDE DEF a, p
<1>5. Starts(r, a, p)
  BY <1>2, BeginStarts
<1>6. asked'[r] = a /\ todo'[r] = p /\ db' = db
  BY <1>5, Starting
<1>7. Configured(c.verify)'
  BY <1>4, <1>6 DEF Configured
<1>8. Creator(r)'
  BY <1>3, <1>4, <1>6, <1>7 DEF Creator, AskedFor, p
<1>9. Aimed(r)
  BY <1>3, <1>6 DEF Aimed, Aims
<1>10. QED
  BY <1>5, <1>8, <1>9 DEF Engaged, Working

LEMMA DeleterEngaged ==
  ASSUME RecordsInv, DomainParts, NEW r \in Requests, Started(r), DeleteDomain(r)
  PROVE  Engaged(r)
<1>0. PICK name \in DomainNames : \E d \in findDomain(name) :
        Begin(r, AskDelete("DeleteDomain", name, "domains", {d}),
              <<Transaction(SoftDelete("dns_records", [domain |-> d.id]), SoftDelete("domains", [id |-> d.id]))>>)
  BY DEF DeleteDomain
<1>1. PICK d \in findDomain(name) :
        Begin(r, AskDelete("DeleteDomain", name, "domains", {d}),
              <<Transaction(SoftDelete("dns_records", [domain |-> d.id]), SoftDelete("domains", [id |-> d.id]))>>)
  BY <1>0
<1> DEFINE a == AskDelete("DeleteDomain", name, "domains", {d})
           p == Deletion(d.id)
<1>2. Begin(r, a, p)
  BY <1>1 DEF Deletion
<1>3. a.kind = "DeleteDomain" /\ a.on = name /\ a.saves = {} /\ a.gone = {<<"domains", d.id>>}
  BY DEF Ask, AskDelete
<1> HIDE DEF a, p
<1>4. Starts(r, a, p)
  BY <1>2, BeginStarts
<1>5. asked'[r] = a /\ todo'[r] = p
  BY <1>4, Starting
<1>6. Deleter(r)'
  BY <1>3, <1>5 DEF Deleter, AskedFor, p
<1>7. Aimed(r)
  BY <1>3, <1>5, FoundDomain DEF Aimed, Aims
<1>8. QED
  BY <1>4, <1>6, <1>7 DEF Engaged, Working

LEMMA VerifierEngaged ==
  ASSUME RecordsInv, DomainParts, NEW r \in Requests, Started(r), VerifyDomain(r)
  PROVE  Engaged(r)
<1>0. PICK name \in DomainNames : \E d \in findDomain(name) :
        Begin(r, AskSave("VerifyDomain", name, "domains", d, [verified |-> TRUE]),
              <<Transaction(Save("domains", [d EXCEPT !.verified = TRUE]),
                            Update("dns_records", [domain |-> d.id], [valid |-> TRUE]))>>)
  BY DEF VerifyDomain
<1>1. PICK d \in findDomain(name) :
        Begin(r, AskSave("VerifyDomain", name, "domains", d, [verified |-> TRUE]),
              <<Transaction(Save("domains", [d EXCEPT !.verified = TRUE]),
                            Update("dns_records", [domain |-> d.id], [valid |-> TRUE]))>>)
  BY <1>0
<1> DEFINE a == AskSave("VerifyDomain", name, "domains", d, [verified |-> TRUE])
           y == [d EXCEPT !.verified = TRUE]
           p == Verification(y)
<1>2. d \in Live("domains") /\ d.name = name /\ {"id", "name", "verified"} \subseteq DOMAIN d
  BY FoundDomain
<1>3. y.id = d.id /\ y.name = d.name /\ y.verified = TRUE
  BY <1>2
<1> HIDE DEF y
<1>4. Begin(r, a, p)
  BY <1>1, <1>3 DEF Verification, y
<1>5. a.kind = "VerifyDomain" /\ a.on = name /\ a.saves = {<<"domains", d.id>>} /\ a.gone = {}
  BY DEF Ask, AskSave
<1> HIDE DEF a, p
<1>6. Starts(r, a, p)
  BY <1>4, BeginStarts
<1>7. asked'[r] = a /\ todo'[r] = p
  BY <1>6, Starting
<1>8. Holds(r, y)'
  BY <1>2, <1>3, <1>5, <1>6, FreshHolder DEF DomainSavers
<1>9. Verifier(r)'
  BY <1>3, <1>5, <1>7, <1>8 DEF Verifier, AskedFor, p
<1>10. Aimed(r)
  BY <1>2, <1>5, <1>7 DEF Aimed, Aims
<1>11. QED
  BY <1>6, <1>9, <1>10 DEF Engaged, Working

LEMMA SaverEngaged ==
  ASSUME RecordsInv, DomainParts, NEW r \in Requests, Started(r), NEW endpoint \in DomainSavers,
         NEW columns \in SUBSET {"spam", "tls", "dkim", "tracking"}, SaveSettings(r, endpoint, columns)
  PROVE  Engaged(r)
<1> DEFINE set == [c \in columns |-> r]
<1>0. PICK name \in DomainNames : \E d \in findDomain(name) :
        Begin(r, AskSave(endpoint, name, "domains", d, set), <<SaveOrFail("domains", With(d, set))>>)
  BY DEF SaveSettings
<1>1. PICK d \in findDomain(name) :
        Begin(r, AskSave(endpoint, name, "domains", d, set), <<SaveOrFail("domains", With(d, set))>>)
  BY <1>0
<1> DEFINE a == AskSave(endpoint, name, "domains", d, set)
           y == With(d, set)
           s == SaveOrFail("domains", y)
           p == <<s>>
<1>2. d \in Live("domains") /\ d.name = name /\ {"id", "name", "verified"} \subseteq DOMAIN d
  BY FoundDomain
<1>3. DOMAIN set = columns
  OBVIOUS
<1>4. a.kind = endpoint /\ a.on = name /\ a.saves = {<<"domains", d.id>>} /\ a.gone = {}
  BY DEF Ask, AskSave
<1> HIDE DEF set
<1>5. y.id = d.id /\ y.name = d.name /\ y.verified = d.verified
  <2>1. {"id", "name", "verified"} \subseteq DOMAIN d \ DOMAIN set
    BY <1>2, <1>3
  <2>2. \A c \in DOMAIN d \ DOMAIN set : With(d, set)[c] = d[c]
    BY WithColumn, Zenon
  <2>3. With(d, set)["id"] = d["id"] /\ With(d, set)["name"] = d["name"] /\ With(d, set)["verified"] = d["verified"]
    BY <2>1, <2>2
  <2>4. QED
    BY <2>3
<1> HIDE DEF y, a
<1>6. /\ s.do = "save" /\ {"do", "table", "row", "strict"} \subseteq DOMAIN s
      /\ s.table = "domains" /\ s.row = y /\ s.strict
  BY DEF SaveOrFail
<1>7. Begin(r, a, p)
  BY <1>1 DEF a, y
<1> HIDE DEF s, p
<1>8. Starts(r, a, p)
  BY <1>7, BeginStarts
<1>9. asked'[r] = a /\ todo'[r] = p /\ db' = db
  BY <1>8, Starting
<1>10. Holds(r, y)'
  BY <1>2, <1>4, <1>5, <1>8, FreshHolder
<1>11. Agrees(y)' \/ Unsettled(y.name)'
  <2>1. Agrees(d) \/ Unsettled(d.name)
    BY <1>2 DEF DomainParts, Agreed
  <2>2. Agrees(d) => Agrees(y)'
    BY <1>5, <1>9 DEF Agrees, Live
  <2>3. Unsettled(d.name) => Unsettled(y.name)'
    BY <1>5, <1>8, DomainExcuses
  <2>4. QED
    BY <2>1, <2>2, <2>3
<1>12. IsSaving(todo'[r], y)
  BY <1>6, <1>9 DEF IsSaving, p
<1>13. Saver(r)'
  BY <1>10, <1>11, <1>12 DEF Saver
<1>14. Aimed(r)
  BY <1>2, <1>4, <1>9 DEF Aimed, Aims
<1>15. QED
  BY <1>8, <1>13, <1>14 DEF Engaged, Working

\* The requests that leave the domains and their records alone.
Bystands(a, s) == \/ s = Invalid
                  \/ s.do \in {"put", "save", "purge"} /\ s.table = "smtp_credentials"
                  \/ /\ s.do = "update" /\ s.table = "config" /\ a.kind = "UpdateConfig" /\ a.on = "all"
                     /\ "verify" \in DOMAIN s.row => s.row.verify \in BOOLEAN

LEMMA AsideEngaged ==
  ASSUME RecordsInv, NEW r \in Requests, Started(r), NEW a, NEW p, Begin(r, a, p),
         \A i : <<"domains", i>> \notin a.saves \cup a.gone, \A s \in Elements(p) : Bystands(a, s)
  PROVE  Engaged(r)
<1>1. Starts(r, a, p)
  BY BeginStarts
<1>2. asked'[r] = a /\ todo'[r] = p
  BY <1>1, Starting
<1>3. Aside(r)'
  BY <1>2 DEF Aside, AskedFor, Bystands
<1>4. Aimed(r)
  BY <1>2 DEF Aimed, Aims
<1>5. QED
  BY <1>1, <1>3, <1>4 DEF Engaged, Working

LEMMA CredentialAsks ==
  ASSUME NEW kind, NEW on
  PROVE  /\ Ask(kind, on).saves = {} /\ Ask(kind, on).gone = {}
         /\ \A x, set : LET a == AskSave(kind, on, "smtp_credentials", x, set) IN
                        \A i : <<"domains", i>> \notin a.saves \cup a.gone
         /\ \A S : LET a == AskDelete(kind, on, "smtp_credentials", S) IN
                   \A i : <<"domains", i>> \notin a.saves \cup a.gone
<1>1. ASSUME NEW x, NEW set, NEW i
      PROVE  <<"domains", i>> \notin AskSave(kind, on, "smtp_credentials", x, set).saves
                                  \cup AskSave(kind, on, "smtp_credentials", x, set).gone
  <2>1. /\ AskSave(kind, on, "smtp_credentials", x, set).saves = {<<"smtp_credentials", x.id>>}
        /\ AskSave(kind, on, "smtp_credentials", x, set).gone = {}
    BY DEF AskSave, Ask
  <2>2. <<"domains", i>> # <<"smtp_credentials", x.id>>
    OBVIOUS
  <2>3. QED
    BY <2>1, <2>2
<1>2. ASSUME NEW S, NEW i
      PROVE  <<"domains", i>> \notin AskDelete(kind, on, "smtp_credentials", S).saves
                                  \cup AskDelete(kind, on, "smtp_credentials", S).gone
  <2>1. /\ AskDelete(kind, on, "smtp_credentials", S).saves = {}
        /\ AskDelete(kind, on, "smtp_credentials", S).gone = {<<"smtp_credentials", x.id>> : x \in S}
    BY DEF AskDelete, Ask
  <2>2. \A x : <<"domains", i>> # <<"smtp_credentials", x.id>>
    OBVIOUS
  <2>3. QED
    BY <2>1, <2>2
<1>3. QED
  BY <1>1, <1>2 DEF Ask

LEMMA CredentialEngaged ==
  ASSUME RecordsInv, NEW r \in Requests, Started(r), NEW a, NEW s, Begin(r, a, <<s>>),
         \A i : <<"domains", i>> \notin a.saves \cup a.gone,
         s.do \in {"put", "save", "purge"} /\ s.table = "smtp_credentials"
  PROVE  Engaged(r)
<1> DEFINE p == <<s>>
<1>1. Elements(p) = {s}
  BY ElementsOfTuples
<1>2. Begin(r, a, p)
  OBVIOUS
<1> HIDE DEF p
<1>3. \A u \in Elements(p) : Bystands(a, u)
  BY <1>1 DEF Bystands
<1>4. QED
  BY <1>2, <1>3, AsideEngaged

LEMMA CredentialsEngaged ==
  ASSUME RecordsInv, NEW r \in Requests, Started(r),
         CreateCredential(r) \/ UpdateCredential(r) \/ DeleteCredential(r) \/ DeleteAllCredentials(r)
  PROVE  Engaged(r)
<1>1. CASE CreateCredential(r)
  <2>1. PICK name, login : Begin(r, Ask("CreateCredential", name),
                                 <<Insert("smtp_credentials", SMTPCredential(<<r, 1>>, name, login))>>)
    BY <1>1 DEF CreateCredential
  <2> DEFINE a == Ask("CreateCredential", name)
             s == Insert("smtp_credentials", SMTPCredential(<<r, 1>>, name, login))
  <2>2. s.do = "put" /\ s.table = "smtp_credentials"
    BY DEF Insert
  <2>3. \A i : <<"domains", i>> \notin a.saves \cup a.gone
    BY CredentialAsks
  <2> HIDE DEF a, s
  <2>4. QED
    BY <2>1, <2>2, <2>3, CredentialEngaged DEF a, s
<1>2. CASE UpdateCredential(r)
  <2>1. PICK name, x : Begin(r, AskSave("UpdateCredential", name, "smtp_credentials", x, [password |-> r]),
                             <<SaveOrFail("smtp_credentials", [x EXCEPT !.password = r])>>)
    BY <1>2 DEF UpdateCredential
  <2> DEFINE a == AskSave("UpdateCredential", name, "smtp_credentials", x, [password |-> r])
             s == SaveOrFail("smtp_credentials", [x EXCEPT !.password = r])
  <2>2. s.do = "save" /\ s.table = "smtp_credentials"
    BY DEF SaveOrFail
  <2>3. \A i : <<"domains", i>> \notin a.saves \cup a.gone
    BY CredentialAsks
  <2> HIDE DEF a, s
  <2>4. QED
    BY <2>1, <2>2, <2>3, CredentialEngaged DEF a, s
<1>3. CASE DeleteCredential(r)
  <2>1. PICK name, x : Begin(r, AskDelete("DeleteCredential", name, "smtp_credentials", {x}),
                             <<Purge("smtp_credentials", [id |-> x.id])>>)
    BY <1>3 DEF DeleteCredential
  <2> DEFINE a == AskDelete("DeleteCredential", name, "smtp_credentials", {x})
             s == Purge("smtp_credentials", [id |-> x.id])
  <2>2. s.do = "purge" /\ s.table = "smtp_credentials"
    BY DEF Purge
  <2>3. \A i : <<"domains", i>> \notin a.saves \cup a.gone
    BY CredentialAsks
  <2> HIDE DEF a, s
  <2>4. QED
    BY <2>1, <2>2, <2>3, CredentialEngaged DEF a, s
<1>4. CASE DeleteAllCredentials(r)
  <2>1. PICK name, S : Begin(r, AskDelete("DeleteAllCredentials", name, "smtp_credentials", S),
                             <<Purge("smtp_credentials", [domain |-> name])>>)
    BY <1>4 DEF DeleteAllCredentials
  <2> DEFINE a == AskDelete("DeleteAllCredentials", name, "smtp_credentials", S)
             s == Purge("smtp_credentials", [domain |-> name])
  <2>2. s.do = "purge" /\ s.table = "smtp_credentials"
    BY DEF Purge
  <2>3. \A i : <<"domains", i>> \notin a.saves \cup a.gone
    BY CredentialAsks
  <2> HIDE DEF a, s
  <2>4. QED
    BY <2>1, <2>2, <2>3, CredentialEngaged DEF a, s
<1>5. QED
  BY <1>1, <1>2, <1>3, <1>4

LEMMA ConfigEngaged ==
  ASSUME RecordsInv, NEW r \in Requests, Started(r), UpdateConfig(r)
  PROVE  Engaged(r)
<1>1. PICK behavior \in {All, [verify |-> FALSE]}, key \in {All, [key |-> r]}, e \in Refusals :
        Begin(r, AskSave("UpdateConfig", "all", "config", [id |-> "config"], With(behavior, key)),
              Merge(behavior) \o Merge(key) \o e)
  BY DEF UpdateConfig, Refusals
<1> DEFINE a == AskSave("UpdateConfig", "all", "config", [id |-> "config"], With(behavior, key))
           s == SetConfig(behavior)
           u == SetConfig(key)
           q == Merge(behavior) \o Merge(key) \o e
<1>2. Begin(r, a, q)
  BY <1>1
<1>3. /\ a.kind = "UpdateConfig" /\ a.on = "all"
      /\ \A i : <<"domains", i>> \notin a.saves \cup a.gone
  BY DEF AskSave, Ask
<1>4. behavior # All => Bystands(a, s)
  <2>1. s.do = "update" /\ s.table = "config" /\ s.row = behavior
    BY DEF SetConfig, Update
  <2>2. behavior # All => behavior.verify = FALSE
    OBVIOUS
  <2>3. QED
    BY <1>3, <2>1, <2>2 DEF Bystands
<1>5. key # All => Bystands(a, u)
  <2>1. u.do = "update" /\ u.table = "config" /\ u.row = key
    BY DEF SetConfig, Update
  <2>2. key # All => DOMAIN key = {"key"}
    OBVIOUS
  <2>3. QED
    BY <1>3, <2>1, <2>2 DEF Bystands
<1>6. Bystands(a, Invalid)
  BY DEF Bystands
<1>7. \A v \in Elements(q) : v = Invalid \/ (behavior # All /\ v = s) \/ (key # All /\ v = u)
  BY ConfigStatements
<1> HIDE DEF a, s, u, q
<1>8. \A v \in Elements(q) : Bystands(a, v)
  BY <1>4, <1>5, <1>6, <1>7
<1>9. QED
  BY <1>2, <1>3, <1>8, AsideEngaged

LEMMA ResetEngaged ==
  ASSUME RecordsInv, NEW r \in Requests, Started(r), ResetAll(r, resetTables["domains"])
  PROVE  Engaged(r)
<1> DEFINE tables == resetTables["domains"]
           f == [i \in DOMAIN tables |-> Purge(tables[i], All)]
           u == SetConfig(DefaultConfig)
           b == AskSave("ResetAll", "all", "config", Config, DefaultConfig)
           a == [b EXCEPT !.gone = UNION {{<<t, x.id>> : x \in db[t]} : t \in ToSet(tables)}]
<1>1. Begin(r, a, f \o <<u>>)
  BY DEF ResetAll
<1>2. a.kind = "ResetAll" /\ a.on = "all"
  <2>1. b.kind = "ResetAll" /\ b.on = "all"
    BY AskKinds
  <2>2. a.kind = b.kind /\ a.on = b.on
    BY DEF AskSave, Ask
  <2>3. QED
    BY <2>1, <2>2
<1>3. f \o <<u>> = Reset4
  <2> DEFINE x == Purge("dns_records", All)
             y == Purge("smtp_credentials", All)
             z == Purge("domains", All)
  <2>1. tables = <<"dns_records", "smtp_credentials", "domains">>
    BY DEF resetTables
  <2>2. DOMAIN f = 1..3 /\ f[1] = x /\ f[2] = y /\ f[3] = z /\ f = [i \in 1..3 |-> f[i]]
    BY <2>1
  <2> HIDE DEF f, x, y, z, u
  <2>3. f = <<x, y, z>>
    BY <2>2
  <2>4. <<x, y, z>> \o <<u>> = <<x, y, z, u>>
    <3> DEFINE E == {x, y, z, u}
               g == <<x, y, z>>
               h == <<u>>
               k == <<x, y, z, u>>
    <3>1. /\ g \in Seq(E) /\ Len(g) = 3 /\ g[1] = x /\ g[2] = y /\ g[3] = z
          /\ h \in Seq(E) /\ Len(h) = 1 /\ h[1] = u
          /\ k \in Seq(E) /\ Len(k) = 4 /\ k[1] = x /\ k[2] = y /\ k[3] = z /\ k[4] = u
      OBVIOUS
    <3> HIDE DEF g, h, k, E
    <3>2. /\ g \o h \in Seq(E) /\ Len(g \o h) = Len(g) + Len(h)
          /\ \A i \in 1 .. Len(g) + Len(h) : (g \o h)[i] = IF i <= Len(g) THEN g[i] ELSE h[i - Len(g)]
      BY <3>1, ConcatProperties
    <3>3. \A i \in 1..4 : (g \o h)[i] = k[i]
      <4>1. Len(g) + Len(h) = 4
        BY <3>1
      <4>2. \A i \in 1..3 : (g \o h)[i] = g[i]
        BY <3>1, <3>2, <4>1
      <4>3. (g \o h)[4] = h[1]
        BY <3>1, <3>2, <4>1
      <4>4. \A i \in 1..3 : g[i] = k[i]
        BY <3>1
      <4>5. \A i \in 1..4 : i \in 1..3 \/ i = 4
        OBVIOUS
      <4>6. QED
        BY <3>1, <4>2, <4>3, <4>4, <4>5
    <3>4. g \o h = k
      BY <3>1, <3>2, <3>3, SeqEqual
    <3>5. QED
      BY <3>4 DEF g, h, k
  <2>5. QED
    BY <2>3, <2>4 DEF Reset4, x, y, z, u
<1> HIDE DEF f, u, a
<1>4. Starts(r, a, Reset4)
  BY <1>1, <1>3, BeginStarts
<1>5. asked'[r] = a /\ todo'[r] = Reset4
  BY <1>4, Starting
<1>6. Resetter(r)'
  BY <1>2, <1>5 DEF Resetter, AskedFor
<1>7. Aimed(r)
  BY <1>2, <1>5 DEF Aimed, Aims, AskedFor
<1>8. QED
  BY <1>4, <1>6, <1>7 DEF Engaged, Working

LEMMA DomainsEngaged ==
  ASSUME RecordsInv, DomainParts, NEW r \in Requests, Arrive(r), scene = "domains"
  PROVE  Engaged(r)
<1>0. Started(r)
  BY ArriveStarts
<1>1. ASSUME UpdateDomain(r) \/ UpdateConnection(r) \/ UpdateDKIM(r) \/ UpdateTracking(r) PROVE Engaged(r)
  BY <1>0, <1>1, SaverEngaged DEF UpdateDomain, UpdateConnection, UpdateDKIM, UpdateTracking, DomainSavers
<1>2. ASSUME ResetDomain(r) PROVE Engaged(r)
  <2> DEFINE a == Ask("ResetDomain", "all")
             p == << >>
  <2>1. Begin(r, a, p)
    BY <1>2 DEF ResetDomain
  <2>2. Elements(p) = {} /\ a.saves = {} /\ a.gone = {}
    BY CredentialAsks, ElementsOfTuples
  <2> HIDE DEF a, p
  <2>3. QED
    BY <1>0, <2>1, <2>2, AsideEngaged
<1>3. QED
  BY <1>0, <1>1, <1>2, CreatorEngaged, DeleterEngaged, VerifierEngaged, CredentialsEngaged, ConfigEngaged,
     ResetEngaged DEF Arrive, DomainHandlers

LEMMA DomainsArrive ==
  ASSUME RecordsInv, DomainParts, NEW r \in Requests, Arrive(r), scene = "domains"
  PROVE  DomainParts'
<1>1. PICK a, p : Starts(r, a, p) /\ Working(r)' /\ Aimed(r)
  BY DomainsEngaged DEF Engaged
<1>2. /\ db' = db /\ asked'[r] = a /\ todo[r] = << >>
      /\ \A s \in Requests \ {r} : asked'[s] = asked[s] /\ todo'[s] = todo[s]
      /\ \A o : (Revived(o) => Revived(o)') /\ (Unsettled(o) => Unsettled(o)')
      /\ ResetClash({"CreateDomain"}) => ResetClash({"CreateDomain"})'
  BY <1>1, Starting, DomainExcuses
<1>3. /\ \A t : Live(t)' = Live(t)
      /\ \A i : HasRecords(i)' <=> HasRecords(i)
      /\ \A y : Agrees(y)' <=> Agrees(y)
      /\ \A v : Configured(v)' <=> Configured(v)
      /\ \A i : HasDomain(i)' <=> HasDomain(i)
  BY <1>2 DEF Live, HasRecords, Agrees, Configured, HasDomain
<1>4. ASSUME NEW s \in Requests \ {r} PROVE Working(s)'
  <2>1. Working(s) /\ asked'[s] = asked[s] /\ todo'[s] = todo[s]
    BY <1>2 DEF DomainParts
  <2>2. \A K : AskedFor(s, K)' <=> AskedFor(s, K)
    BY <2>1 DEF AskedFor
  <2>3. \A y : Holds(s, y) => Holds(s, y)'
    BY <1>2, <1>3, <2>1, <2>2 DEF Holds
  <2>4. Creator(s) => Creator(s)'
    BY <1>2, <1>3, <2>1, <2>2 DEF Creator
  <2>5. Deleter(s) => Deleter(s)'
    BY <2>1, <2>2 DEF Deleter
  <2>6. Verifier(s) => Verifier(s)'
    BY <2>1, <2>2, <2>3 DEF Verifier
  <2>7. Saver(s) => Saver(s)'
    BY <1>2, <1>3, <2>1, <2>3 DEF Saver
  <2>8. Resetter(s) => Resetter(s)'
    BY <1>2, <1>3, <2>1, <2>2 DEF Resetter
  <2>9. Aside(s) => Aside(s)'
    BY <2>1, <2>2 DEF Aside
  <2>10. QED
    BY <2>1, <2>4, <2>5, <2>6, <2>7, <2>8, <2>9 DEF Working
<1>5. \A s \in Requests : Working(s)'
  BY <1>1, <1>4
<1>6. DomainsNamed'
  <2>1. DomainsNamed
    BY DEF DomainParts
  <2>2. \A s \in Requests \ {r} : \A i : Aims(s, i)' <=> Aims(s, i)
    BY <1>2 DEF Aims, AskedFor
  <2>3. ASSUME NEW s \in Requests \ {r}, NEW i, Aims(r, i)', Aims(s, i)'
        PROVE  asked'[r].on = asked'[s].on
    <3>1. PICK d \in Live("domains") : d.id = i /\ d.name = asked'[r].on
      BY <1>1, <2>3 DEF Aimed
    <3>2. Aims(s, d.id)
      BY <2>2, <2>3, <3>1
    <3>3. QED
      BY <1>2, <2>1, <3>1, <3>2 DEF DomainsNamed
  <2>4. ASSUME NEW d \in Live("domains"), Aims(r, d.id)'
        PROVE  asked'[r].on = d.name
    <3>1. PICK e \in Live("domains") : e.id = d.id /\ e.name = asked'[r].on
      BY <1>1, <2>4 DEF Aimed
    <3>2. e = d
      BY <3>1, DomainColumns DEF Live, RecordsInv, DatabaseTypeOK
    <3>3. QED
      BY <3>1, <3>2
  <2>5. \A s, u \in Requests : \A i : Aims(s, i)' /\ Aims(u, i)' => asked'[s].on = asked'[u].on
    BY <1>2, <2>1, <2>2, <2>3 DEF DomainsNamed
  <2>6. \A s \in Requests : \A d \in Live("domains") : Aims(s, d.id)' => asked'[s].on = d.name
    BY <1>2, <2>1, <2>2, <2>4 DEF DomainsNamed
  <2>7. QED
    BY <1>3, <2>5, <2>6 DEF DomainsNamed
<1>7. Wiping => Wiping'
  <2>1. ASSUME NEW q \in Requests, todo[q] \in {Reset2, Reset3, Reset4} PROVE q # r
    BY <1>2, <2>1, ResetShapes
  <2>2. QED
    BY <1>2, <2>1 DEF Wiping, AskedFor
<1>8. OwnRecords' /\ ConfigBoolean'
  BY <1>2 DEF DomainParts, OwnRecords, ConfigBoolean
<1>9. Accompanied' /\ Agreed' /\ Owned'
  BY <1>2, <1>3, <1>7 DEF DomainParts, Accompanied, Agreed, Owned
<1>10. QED
  BY <1>5, <1>6, <1>8, <1>9 DEF DomainParts

----------------------------------------------------------------------------
(* The other scenes have one domain to work on, or none, and leave it be.  *)

SeedDomains(d) ==
  \/ d["domains"] = {} /\ d["dns_records"] = {}
  \/ \E name, v : /\ d["domains"] = {Domain(<<"seed", 1>>, name, v)}
                  /\ d["dns_records"] = {DNSRecords(<<"seed", 1>>, <<"seed", 1>>, v)}
DomainInv == IF scene = "domains" THEN DomainParts ELSE SeedDomains(db)

LEMMA DomainsPlanted ==
  ASSUME NEW c \in Components, NEW d \in Seeds(c)
  PROVE  SeedDomains(d)
<1>1. /\ NoRows["domains"] = {} /\ NoRows["dns_records"] = {} /\ DOMAIN NoRows = Tables
      /\ {"domains", "dns_records"} \subseteq Tables
  BY DomainColumns DEF NoRows
<1>2. ASSUME NEW seeds, NEW e \in OnDomain(seeds), \A s \in seeds : DOMAIN s = Tables
      PROVE  SeedDomains(e)
  <2>1. PICK s \in seeds : e = [s EXCEPT !.domains = {Domain(<<"seed", 1>>, SendingDomain, TRUE)},
                                         !.dns_records = {DNSRecords(<<"seed", 1>>, <<"seed", 1>>, TRUE)}]
    BY <1>2 DEF OnDomain
  <2>2. /\ e["domains"] = {Domain(<<"seed", 1>>, SendingDomain, TRUE)}
        /\ e["dns_records"] = {DNSRecords(<<"seed", 1>>, <<"seed", 1>>, TRUE)}
    BY <1>1, <1>2, <2>1
  <2>3. QED
    BY <2>2 DEF SeedDomains
<1>3. ASSUME d["domains"] = {}, d["dns_records"] = {} PROVE SeedDomains(d)
  BY <1>3 DEF SeedDomains
<1>4. CASE c = "templates"
  BY <1>1, <1>3, <1>4 DEF Seeds, TemplateSeeds
<1>5. CASE c = "webhooks" \/ c = "triggers"
  <2>1. \A s \in WebhookSeeds : DOMAIN s = Tables
    BY <1>1, WebhooksSown DEF WebhookSeeds, Sown
  <2>2. QED
    BY <1>2, <1>5, <2>1 DEF Seeds
<1>6. CASE c = "domains"
  <2>1. d = NoRows \/ \E name, login, v : d = DomainSeed(name, login, v)
    BY <1>6 DEF Seeds, DomainSeeds
  <2>2. ASSUME NEW name, NEW login, NEW v, d = DomainSeed(name, login, v) PROVE SeedDomains(d)
    <3>1. /\ d["domains"] = {Domain(<<"seed", 1>>, name, v)}
          /\ d["dns_records"] = {DNSRecords(<<"seed", 1>>, <<"seed", 1>>, v)}
      BY <1>1, <2>2 DEF DomainSeed
    <3>2. QED
      BY <3>1 DEF SeedDomains
  <2>3. QED
    BY <1>1, <1>3, <2>1, <2>2
<1>7. CASE c = "ips"
  <2>1. \A s \in IPSeeds : DOMAIN s = Tables
    BY <1>1, IPsSown DEF IPSeeds, Sown
  <2>2. QED
    BY <1>2, <1>7, <2>1 DEF Seeds
<1>8. CASE c = "subaccounts"
  BY <1>1, <1>3, <1>8 DEF Seeds, SubaccountSeeds
<1>9. CASE c = "keys"
  <2>1. d = NoRows \/ \E value, ip : d = KeySeed(value, ip)
    BY <1>9 DEF Seeds, KeySeeds
  <2>2. QED
    BY <1>1, <1>3, <2>1 DEF KeySeed
<1>10. CASE c = "tags"
  BY <1>1, <1>3, <1>10 DEF Seeds, TagSeeds
<1>11. CASE c = "routes"
  BY <1>1, <1>3, <1>11 DEF Seeds, RouteSeeds
<1>12. c \in {"templates", "webhooks", "triggers", "domains", "ips", "subaccounts", "keys", "tags", "routes"}
  BY ServiceAssumption DEF resetTables
<1>13. QED
  BY <1>4, <1>5, <1>6, <1>7, <1>8, <1>9, <1>10, <1>11, <1>12

LEMMA DomainsBegin == Init => DomainInv
<1> SUFFICES ASSUME Init PROVE DomainInv
  OBVIOUS
<1>1. PICK d : DatabaseInit(d) /\ (scene \in Components => d \in Seeds(scene))
                                /\ (scene \notin Components => d = NoRows)
  BY DEF Init
<1>2. /\ db = d /\ \A r \in Requests : asked[r] = NotAsked /\ todo[r] = << >>
  BY <1>1 DEF DatabaseInit
<1>3. SeedDomains(NoRows)
  BY DomainColumns DEF SeedDomains, NoRows
<1>4. SeedDomains(db)
  BY <1>1, <1>2, <1>3, DomainsPlanted
<1>5. NotAsked.saves = {} /\ NotAsked.gone = {}
  BY DEF NotAsked, Ask
<1>6. \A r \in Requests : Working(r)
  BY <1>2, ElementsOfTuples DEF Working, Aside
<1>7. DomainsNamed
  BY <1>2, <1>5 DEF DomainsNamed, Aims
<1>8. ASSUME scene = "domains" PROVE ConfigBoolean
  <2>1. db["config"] = {Config}
    <3>1. CASE scene \in Components
      BY <1>1, <1>2, <3>1, SeedsSown DEF Sown
    <3>2. CASE scene \notin Components
      BY <1>1, <1>2, <3>2, DomainColumns DEF NoRows
    <3>3. QED
      BY <3>1, <3>2
  <2>2. Config["verify"] = TRUE
    <3>1. "verify" \in DOMAIN DefaultConfig /\ DefaultConfig["verify"] = TRUE
      BY DEF DefaultConfig
    <3>2. QED
      BY <3>1, WithSet DEF Config
  <2>3. QED
    BY <2>1, <2>2 DEF ConfigBoolean
<1>9. OwnRecords /\ Accompanied /\ Agreed /\ Owned
  <2>1. CASE db["domains"] = {} /\ db["dns_records"] = {}
    BY <2>1 DEF OwnRecords, Accompanied, Agreed, Owned, Live
  <2>2. ASSUME NEW name, NEW v, db["domains"] = {Domain(<<"seed", 1>>, name, v)},
               db["dns_records"] = {DNSRecords(<<"seed", 1>>, <<"seed", 1>>, v)}
        PROVE  OwnRecords /\ Accompanied /\ Agreed /\ Owned
    <3> DEFINE e == Domain(<<"seed", 1>>, name, v)
               x == DNSRecords(<<"seed", 1>>, <<"seed", 1>>, v)
    <3>1. ~e.dead /\ ~x.dead /\ e.id = x.id /\ x.domain = x.id /\ e.verified = x.valid
      BY DEF Domain, DNSRecords
    <3> HIDE DEF e, x
    <3>2. Live("domains") = {e} /\ Live("dns_records") = {x} /\ db["dns_records"] = {x}
      BY <2>2, <3>1 DEF Live, e, x
    <3>3. QED
      BY <3>1, <3>2 DEF OwnRecords, Accompanied, Agreed, Owned, HasRecords, HasDomain, Agrees
  <2>3. QED
    BY <1>4, <2>1, <2>2 DEF SeedDomains
<1>10. QED
  BY <1>4, <1>6, <1>7, <1>8, <1>9 DEF DomainInv, DomainParts

LEMMA DomainsImply ==
  ASSUME DomainInv
  PROVE  RecordsMatchDomain
<1>1. \A i : Where([domain |-> i], "domain", i)
  BY DEF Where
<1>2. \A i : \A x : Fits(x, [domain |-> i]) <=> x["domain"] = i
  BY <1>1, FitsWhere
<1>3. \A i : Select("dns_records", [domain |-> i]) = {x \in Live("dns_records") : x.domain = i}
  BY <1>2 DEF Select
<1>4. CASE scene = "domains"
  <2> SUFFICES ASSUME ~Resetting PROVE RecordsMatchDomain
    BY DEF RecordsMatchDomain
  <2>1. Accompanied /\ Agreed /\ Owned
    BY <1>4 DEF DomainInv, DomainParts
  <2>2. ~Wiping
    BY ResetShapes DEF Wiping, Resetting
  <2>3. ASSUME NEW d \in Live("domains")
        PROVE  LET records == Select("dns_records", [domain |-> d.id]) IN
               /\ records = {} => Clash({"DeleteDomain", "ResetAll"}, DomainSavers, d.name)
               /\ \A x \in records : x.valid # d.verified =>
                    \/ Clash({"VerifyDomain"}, DomainSavers, d.name)
                    \/ Clash({"CreateDomain"}, {"UpdateConfig", "ResetAll"}, d.name)
    <3>1. HasRecords(d.id) \/ Revived(d.name)
      BY <2>1, <2>2 DEF Accompanied
    <3>2. Agrees(d) \/ Unsettled(d.name)
      BY <2>1 DEF Agreed
    <3> DEFINE records == {x \in Live("dns_records") : x.domain = d.id}
    <3>3. records = {} => Clash({"DeleteDomain", "ResetAll"}, DomainSavers, d.name)
      BY <3>1 DEF HasRecords, Revived
    <3>4. \A x \in records : x.valid # d.verified => Unsettled(d.name)
      BY <3>2 DEF Agrees
    <3>5. Select("dns_records", [domain |-> d.id]) = records
      BY <1>3
    <3> HIDE DEF records
    <3>6. QED
      BY <3>3, <3>4, <3>5 DEF Unsettled
  <2>4. QED
    BY <2>1, <2>3 DEF RecordsMatchDomain, Owned, HasDomain
<1>5. CASE scene # "domains"
  <2>1. SeedDomains(db)
    BY <1>5 DEF DomainInv
  <2>2. CASE db["domains"] = {} /\ db["dns_records"] = {}
    BY <2>2 DEF RecordsMatchDomain, Live
  <2>3. ASSUME NEW name, NEW v, db["domains"] = {Domain(<<"seed", 1>>, name, v)},
               db["dns_records"] = {DNSRecords(<<"seed", 1>>, <<"seed", 1>>, v)}
        PROVE  RecordsMatchDomain
    <3> DEFINE e == Domain(<<"seed", 1>>, name, v)
               x == DNSRecords(<<"seed", 1>>, <<"seed", 1>>, v)
    <3>1. ~e.dead /\ ~x.dead /\ x.domain = e.id /\ e.verified = x.valid
      BY DEF Domain, DNSRecords
    <3> HIDE DEF e, x
    <3>2. Live("domains") = {e} /\ Live("dns_records") = {x}
      BY <2>3, <3>1 DEF Live, e, x
    <3>3. Select("dns_records", [domain |-> e.id]) = {x}
      BY <1>3, <3>1, <3>2
    <3>4. QED
      BY <3>1, <3>2, <3>3 DEF RecordsMatchDomain
  <2>4. QED
    BY <2>1, <2>2, <2>3 DEF SeedDomains
<1>6. QED
  BY <1>4, <1>5

LEMMA DomainsStep == Settled /\ DomainInv /\ [Next]_vars => DomainInv'
<1> SUFFICES ASSUME Settled, DomainInv, [Next]_vars PROVE DomainInv'
  OBVIOUS
<1>1. RecordsInv /\ Scoped /\ scene' = scene /\ (Idle \/ \E q \in Requests : Arrive(q) \/ Continue(q))
  BY ServiceSteps DEF Settled, Steady
<1>2. CASE Idle
  <2>1. db' = db /\ todo' = todo /\ asked' = asked /\ failed' = failed /\ before' = before
    BY <1>2 DEF Idle, dbVars
  <2>2. /\ \A K, o, L : Clash(K, L, o)' <=> Clash(K, L, o)
        /\ \A K : ResetClash(K)' <=> ResetClash(K)
        /\ \A t : Live(t)' = Live(t)
    BY <2>1 DEF Clash, ResetClash, Overlap, AskedFor, Preceded, Live
  <2>3. /\ \A o : (Revived(o)' <=> Revived(o)) /\ (Unsettled(o)' <=> Unsettled(o))
        /\ \A r, i : Aims(r, i)' <=> Aims(r, i)
        /\ \A r, K : AskedFor(r, K)' <=> AskedFor(r, K)
        /\ \A i : (HasRecords(i)' <=> HasRecords(i)) /\ (HasDomain(i)' <=> HasDomain(i))
        /\ \A y : Agrees(y)' <=> Agrees(y)
        /\ \A v : Configured(v)' <=> Configured(v)
    BY <2>1, <2>2 DEF Revived, Unsettled, Aims, AskedFor, HasRecords, HasDomain, Agrees, Configured
  <2>4. \A r, y : Holds(r, y)' <=> Holds(r, y)
    BY <2>1, <2>3 DEF Holds
  <2>5. ASSUME NEW r PROVE Working(r) => Working(r)'
    BY <2>1, <2>2, <2>3, <2>4 DEF Working, Creator, Deleter, Verifier, Saver, Resetter, Aside
  <2>6. DomainParts => DomainParts'
    BY <2>1, <2>2, <2>3, <2>5
       DEF DomainParts, DomainsNamed, OwnRecords, ConfigBoolean, Accompanied, Agreed, Owned, Wiping
  <2>7. QED
    BY <1>1, <2>1, <2>6 DEF DomainInv
<1>3. CASE scene = "domains"
  <2>1. ASSUME NEW q \in Requests, Arrive(q) PROVE DomainInv'
    BY <1>1, <1>3, <2>1, DomainsArrive DEF DomainInv
  <2>2. ASSUME NEW q \in Requests, Continue(q) PROVE DomainInv'
    BY <1>1, <1>3, <2>2, OutcomeOfContinue, DomainsContinue DEF DomainInv
  <2>3. QED
    BY <1>1, <1>2, <2>1, <2>2
<1>4. CASE scene # "domains"
  <2>1. ASSUME NEW q \in Requests, Arrive(q) PROVE DomainInv'
    BY <1>1, <1>4, <2>1, ArriveStarts, Starting DEF DomainInv, Started
  <2>2. ASSUME NEW q \in Requests, Continue(q) PROVE DomainInv'
    <3>1. Outcome(q) /\ asked[q] # NotAsked
      BY <1>1, <2>2, OutcomeOfContinue, Active DEF Outcome
    <3>2. scene \in Components /\ Confined(q, todo[q], TablesOf(scene))
      BY <1>1, <3>1 DEF Scoped
    <3>3. "domains" \notin TablesOf(scene) /\ "dns_records" \notin TablesOf(scene)
      BY <1>4, <3>2, ServiceAssumption DEF resetTables, TablesOf, OwnOf, Duties
    <3>4. db'["domains"] = db["domains"] /\ db'["dns_records"] = db["dns_records"]
      <4>1. ASSUME NEW t \in Tables, t \notin TablesOf(scene) PROVE db'[t] = db[t]
        <5>1. db'[t] = db[t] \/ \E p \in Will(q) : p.table = t
          BY <3>1, <4>1 DEF Outcome, TablesAfter, Ran
        <5>2. QED
          BY <3>2, <4>1, <5>1 DEF Confined, Will
      <4>2. QED
        BY <3>3, <4>1, DomainColumns
    <3>5. QED
      BY <1>1, <1>4, <3>4 DEF DomainInv, SeedDomains
  <2>3. QED
    BY <1>1, <1>2, <2>1, <2>2
<1>5. QED
  BY <1>3, <1>4

\* Once no reset is under way a domain has its DNS records in its own state and records
\* have their domain, but for the overlaps RecordsMatchDomain names, for any number of
\* requests (domain.go:391 saves the row it read before; :253 reads the configuration twice).
THEOREM RecordsGoWithDomain == Spec => []RecordsMatchDomain
<1>1. Settled /\ DomainInv => RecordsMatchDomain
  BY DomainsImply
<1>2. QED
  BY <1>1, SettledBegins, SettledSteps, DomainsBegin, DomainsStep, PTL DEF Spec
=============================================================================
