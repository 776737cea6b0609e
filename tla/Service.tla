------------------------------ MODULE Service ------------------------------
(***************************************************************************)
(* The record-keeping handlers together: concurrent requests over one      *)
(* database, with the reset and the configuration that reach across the    *)
(* components, and clients that page through listings meanwhile.  Requests *)
(* to different components touch different tables, so a behaviour is one   *)
(* scene: a component, the tables it uses, the requests made of it.        *)
(***************************************************************************)
EXTENDS Templates, Webhooks, Domains, IPs, Subaccounts, Keys, TagRegistry, Routes, Mock,
        OffsetPaging

VARIABLE scene

vars == <<dbVars, pagingVars, offsetVars, scene>>

CONSTANT Crew   \* how many requests a scene sees: a bound

Components == DOMAIN Crew
Scenes     == Components \cup {"paging", "offsets"}
ASSUME ServiceAssumption == /\ Components \subseteq DOMAIN resetTables
                            /\ \A c \in Components : Crew[c] \in 1..Cardinality(Requests)

\* The rows of a component's scene, with a domain to work on.
OnDomain(seeds) ==
  {[s EXCEPT !.domains = {Domain(<<"seed", 1>>, SendingDomain, TRUE)},
             !.dns_records = {DNSRecords(<<"seed", 1>>, <<"seed", 1>>, TRUE)}] : s \in seeds}

Seeds(c) ==
  CASE c = "templates"   -> TemplateSeeds
    [] c = "webhooks"    -> OnDomain(WebhookSeeds)
    [] c = "triggers"    -> OnDomain(WebhookSeeds)
    [] c = "domains"     -> DomainSeeds
    [] c = "ips"         -> OnDomain(IPSeeds)
    [] c = "subaccounts" -> SubaccountSeeds
    [] c = "keys"        -> KeySeeds
    [] c = "tags"        -> TagSeeds
    [] c = "routes"      -> RouteSeeds

Init ==
  \/ /\ scene \in Components
     /\ \E rows0 \in Seeds(scene) : DatabaseInit(rows0)
     /\ OffsetInit /\ rows = {}
  \/ /\ scene \in Scenes \ Components
     /\ DatabaseInit(NoRows)
     /\ OffsetInit

\* A request arrives.
Arrive(r) ==
  /\ scene \in Components
  /\ Cardinality({s \in Requests : asked[s] # NotAsked}) < Crew[scene]
  /\ \/ scene = "templates" /\ TemplateHandlers(r)
     \/ scene = "webhooks" /\ WebhookHandlers(r)
     \/ scene = "triggers" /\ (\/ UpdateAccountWebhook(r) \/ RegenerateSigningKey(r)
                               \/ TriggerWebhook(r))
     \/ scene = "domains" /\ (DomainHandlers(r) \/ ResetDomain(r))
     \/ scene = "ips" /\ IPHandlers(r)
     \/ scene = "subaccounts" /\ SubaccountHandlers(r)
     \/ scene = "keys" /\ KeyHandlers(r)
     \/ scene = "tags" /\ TagHandlers(r)
     \/ scene = "routes" /\ RouteHandlers(r)
     \/ scene \in {"triggers", "domains"} /\ UpdateConfig(r)
     \/ scene # "webhooks" /\ ResetAll(r, resetTables[scene])

\* A request that arrived takes its next step.
Continue(r) ==
  /\ scene \in Components
  /\ Execute(r) \/ Collect(r) \/ Deliver(r) \/ Issue(r) \/ EnsureTag(r) \/ RefuseSection(r)

Next ==
  \/ /\ \E r \in Requests : Arrive(r) \/ Continue(r)
     /\ UNCHANGED <<pagingVars, offsetVars, scene>>
  \/ scene = "paging" /\ PagingNext /\ UNCHANGED <<dbVars, offsetVars, scene>>
  \/ scene = "offsets" /\ OffsetNext /\ UNCHANGED <<dbVars, scene>>

Spec == Init /\ [][Next]_vars
=============================================================================
