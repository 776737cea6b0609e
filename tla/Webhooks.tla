------------------------------ MODULE Webhooks ------------------------------
(***************************************************************************)
(* internal/webhook/handlers.go: the webhooks of one domain (one row per   *)
(* event type and URL, written through the v3 and the v4 endpoints), those *)
(* of the account, the signing key, and the deliveries a trigger records.  *)
(* Deletes are hard.  The configuration struct, which no lock protects, is *)
(* the one row of db.config.                                               *)
(***************************************************************************)
EXTENDS Database

CONSTANTS Urls, EventTypes,
          UrlLists, EventLists   \* what a form's repeated fields may carry

\* A key is named after the request that set it; a torn reading is no key.
ASSUME WebhooksAssumption == /\ UrlLists \subseteq Seq(Urls)
                             /\ EventLists \subseteq Seq(EventTypes)
                             /\ "torn" \notin Requests

DomainWebhook(id, event, url) == [id |-> id, dead |-> FALSE, event |-> event, url |-> url]
AccountWebhook(id, url, events) ==
  [id |-> id, dead |-> FALSE, url |-> url, events |-> events]
WebhookDelivery(id, trigger, url, key) ==
  [id |-> id, dead |-> FALSE, trigger |-> trigger, url |-> url, key |-> key]

\* The lookup struct has no deleted_at: a deleted domain still exists here.
checkDomainExists == db["domains"] # {}

URLs(event) == {w.url : w \in Select("domain_webhooks", [event |-> event])}

\* One row for each URL of the list, or for each event type of the list.
ForUrls(Do(_, _), r, event, urls) ==
  [i \in DOMAIN urls |-> Do("domain_webhooks", DomainWebhook(<<r, i>>, event, urls[i]))]

AskUrls(kind, event, urls) == With(Ask(kind, event), [urls |-> urls])

CreateWebhook(r) == \E event \in EventTypes, urls \in UrlLists :
  /\ checkDomainExists
  /\ Begin(r, AskUrls("CreateWebhook", event, urls), ForUrls(Insert, r, event, urls))

UpdateWebhookBug(r) == \E event \in EventTypes, urls \in UrlLists :
  /\ checkDomainExists
  /\ Begin(r, AskUrls("UpdateWebhook", event, urls), ForUrls(Insert, r, event, urls))

UpdateWebhook(r) == \E event \in EventTypes, urls \in UrlLists :
  /\ checkDomainExists
  /\ Begin(r, AskUrls("UpdateWebhook", event, urls),
           <<Purge("domain_webhooks", [event |-> event])>> \o ForUrls(Insert, r, event, urls))

DeleteWebhook(r) == \E event \in EventTypes :
  /\ checkDomainExists
  /\ URLs(event) # {}
  /\ Begin(r, AskUrls("DeleteWebhook", event, << >>),
           <<Purge("domain_webhooks", [event |-> event])>>)

\* FirstOrCreate: look for the row, insert it if there is none; errors are ignored.
V4CreateWebhook(r) == \E url \in Urls, events \in EventLists :
  /\ checkDomainExists
  /\ Begin(r, AskUrls("V4CreateWebhook", url, events),
       [i \in DOMAIN events |->
          IfAny("domain_webhooks", [event |-> events[i], url |-> url], << >>,
                <<TryInsert("domain_webhooks", DomainWebhook(<<r, i>>, events[i], url))>>)])

V4UpdateWebhook(r) == \E url \in Urls, events \in EventLists :
  /\ checkDomainExists
  /\ Begin(r, AskUrls("V4UpdateWebhook", url, events),
       <<Purge("domain_webhooks", [url |-> url])>> \o
       [i \in DOMAIN events |->
          TryInsert("domain_webhooks", DomainWebhook(<<r, i>>, events[i], url))])

V4DeleteWebhook(r) == \E urls \in UrlLists :
  /\ checkDomainExists
  /\ Begin(r, AskUrls("V4DeleteWebhook", "all", urls),
           [i \in DOMAIN urls |-> Purge("domain_webhooks", [url |-> urls[i]])])

CreateAccountWebhook(r) == \E url \in Urls, events \in EventLists :
  Begin(r, Ask("CreateAccountWebhook", url),
        <<Insert("account_webhooks", AccountWebhook(<<r, 1>>, url, ToSet(events)))>>)

\* A field that is not sent keeps the value read.
UpdateAccountWebhook(r) == \E a \in Live("account_webhooks"), set \in
    {[url |-> url] : url \in Urls} \cup {[events |-> ToSet(events)] : events \in EventLists} :
  Begin(r, AskSave("UpdateAccountWebhook", by(a), "account_webhooks", a, set),
        <<Save("account_webhooks", With(a, set))>>)

DeleteAccountWebhook(r) == \E a \in Live("account_webhooks") :
  Begin(r, AskDelete("DeleteAccountWebhook", by(a), "account_webhooks", {a}),
        <<Purge("account_webhooks", [id |-> a.id])>>)

\* ?all=true; a list of ids deletes each as DeleteAccountWebhook does.
BulkDeleteAccountWebhooks(r) ==
  Begin(r, AskDelete("BulkDeleteAccountWebhooks", "all", "account_webhooks",
                     Live("account_webhooks")),
        <<Purge("account_webhooks", All)>>)

\* An assignment to the shared struct.
RegenerateSigningKey(r) ==
  Begin(r, AskSave("RegenerateSigningKey", "all", "config", [id |-> "config"], [key |-> r]),
        <<Update("config", All, [key |-> r])>>)

\* POST /mock/webhooks/trigger reads the domain's webhooks ...
TriggerWebhook(r) == \E event \in EventTypes :
  Begin(r, Ask("TriggerWebhook", event),
        <<[do |-> "collect", event |-> event, urls |-> URLs(event)]>>)

AccountURLs(event) == {a.url : a \in {a \in Live("account_webhooks") : event \in a.events}}

CollectBug(r) ==
  /\ todo[r] # << >> /\ Head(todo[r]).do = "collect"
  /\ LET s == Head(todo[r]) IN
       todo' = [todo EXCEPT ![r] = <<[do |-> "deliver", urls |-> AccountURLs(s.event)]>>]
  /\ UNCHANGED <<db, asked, failed, before>>

\* ... then those of the account ...
Collect(r) ==
  /\ todo[r] # << >> /\ Head(todo[r]).do = "collect"
  /\ LET s == Head(todo[r]) IN
       todo' = [todo EXCEPT ![r] = <<[do |-> "deliver", urls |-> s.urls \cup AccountURLs(s.event)]>>]
  /\ UNCHANGED <<db, asked, failed, before>>

WritesKey(s) == /\ todo[s] # << >> /\ Head(todo[s]).do = "update"
                /\ Head(todo[s]).table = "config" /\ "key" \in DOMAIN Head(todo[s]).row

SigningKeyBug == {DefaultConfig.key}

\* A Go string is two words and nothing locks the struct: a reading beside a write
\* may see a word of either, which is neither key.
SigningKey == {c.key : c \in db["config"]} \cup {"torn" : s \in {s \in Requests : WritesKey(s)}}

Record(r, urls) ==
  /\ \E key \in SigningKey :
       todo' = [todo EXCEPT ![r] =
         [i \in DOMAIN urls |->
            TryInsert("webhook_deliveries", WebhookDelivery(<<r, i>>, r, urls[i], key))]]
  /\ UNCHANGED <<db, asked, failed, before>>

\* ... then the signing key, and records a delivery to each of the URLs, in whatever
\* order Go's map yields them.
Deliver(r) ==
  /\ todo[r] # << >> /\ Head(todo[r]).do = "deliver"
  /\ \E urls \in SetToSeqs(Head(todo[r]).urls) : Record(r, urls)

WebhookHandlers(r) ==
  \/ CreateWebhook(r) \/ UpdateWebhook(r) \/ DeleteWebhook(r)
  \/ V4CreateWebhook(r) \/ V4UpdateWebhook(r) \/ V4DeleteWebhook(r)
  \/ CreateAccountWebhook(r) \/ UpdateAccountWebhook(r)
  \/ DeleteAccountWebhook(r) \/ BulkDeleteAccountWebhooks(r)
  \/ RegenerateSigningKey(r) \/ TriggerWebhook(r)

\* No webhook, and one to a URL that the account has registered too.
WebhookSeeds ==
  LET event == CHOOSE e \in EventTypes : TRUE
      url   == CHOOSE u \in Urls : TRUE
  IN {NoRows,
      [NoRows EXCEPT !.domain_webhooks = {DomainWebhook(<<"seed", 1>>, event, url)},
                     !.account_webhooks = {AccountWebhook(<<"seed", 1>>, url, {event})}]}

----------------------------------------------------------------------------
(* Properties.                                                             *)

Removers == {"UpdateWebhook", "DeleteWebhook", "V4UpdateWebhook", "V4DeleteWebhook", "ResetAll"}

\* A purger that was not over when r began, and so may have undone what r did.
MayHaveRemoved(r, kinds) ==
  \E s \in Requests \ {r} : AskedFor(s, kinds) /\ ~Preceded(s, r)
WrittenBefore(row, r) == row.id[1] \in {"seed"} \cup {s \in Requests : Preceded(s, r)}

\* An update that was answered has replaced every URL of its event type (every
\* event type of its URL, in v4) that was there before it, and what a create or
\* an update registered stays registered until someone removes it.  Only rows of
\* requests that overlapped or followed the update may stand beside its own: the
\* purge and the inserts are separate statements (handlers.go:220, :345).
WebhooksAsLastWritten ==
  \A r \in Requests : Answered(r) /\ r \notin failed =>
    /\ AskedFor(r, {"UpdateWebhook", "DeleteWebhook"}) =>
         \A w \in Select("domain_webhooks", [event |-> asked[r].on]) : ~WrittenBefore(w, r)
    /\ AskedFor(r, {"V4UpdateWebhook"}) =>
         \A w \in Select("domain_webhooks", [url |-> asked[r].on]) : ~WrittenBefore(w, r)
    /\ AskedFor(r, {"CreateWebhook", "UpdateWebhook"}) =>
         ToSet(asked[r].urls) \subseteq URLs(asked[r].on) \/ MayHaveRemoved(r, Removers)
    /\ AskedFor(r, {"V4CreateWebhook", "V4UpdateWebhook"}) =>
         \/ \A event \in ToSet(asked[r].urls) : asked[r].on \in URLs(event)
         \/ MayHaveRemoved(r, Removers)

\* A trigger records exactly one delivery to every URL that was registered for
\* its event type from before it to after it, even if both the domain and the
\* account have it, and none to a URL nobody had registered by then.
DeliveredAsRegistered ==
  \A r \in Requests : AskedFor(r, {"TriggerWebhook"}) /\ Answered(r) =>
    LET to(url) == {d \in db["webhook_deliveries"] : d.trigger = r /\ d.url = url}
        onDomain  == {w.url : w \in {w \in Select("domain_webhooks", [event |-> asked[r].on]) :
                                       WrittenBefore(w, r)}}
        onAccount == {a.url : a \in {a \in Live("account_webhooks") :
                                       asked[r].on \in a.events /\ WrittenBefore(a, r)}}
        disturbed == \E s \in Requests \ {r} :
                       /\ ~Preceded(s, r)
                       /\ AskedFor(s, Removers \cup {"UpdateAccountWebhook", "DeleteAccountWebhook",
                                                     "BulkDeleteAccountWebhooks", "CreateWebhook",
                                                     "V4CreateWebhook", "CreateAccountWebhook"})
    IN /\ \A url \in Urls : Cardinality(to(url)) <= 1
       /\ ~(\E s \in Requests \ {r} : ~Preceded(s, r) /\ AskedFor(s, {"UpdateAccountWebhook", "ResetAll"})) =>
            \A url \in onDomain \cup onAccount : to(url) # {}
       /\ ~disturbed => \A url \in Urls : to(url) # {} => url \in onDomain \cup onAccount

\* A delivery is signed with a key that was in force while its trigger ran: not
\* with one that had been replaced before the trigger began, and not with a mixture
\* of two unless the key was being replaced meanwhile.
KeySetters == {s \in Requests : "key" \in DOMAIN asked[s].sets}
SignedWithCurrentKey ==
  \A d \in db["webhook_deliveries"] :
    /\ d.key = "torn" => \E s \in KeySetters : Overlap(s, d.trigger)
    /\ d.key # "torn" =>
         \A s \in KeySetters \ failed : Preceded(s, d.trigger) =>
           \/ d.key = asked[s].sets.key
           \/ \E k \in KeySetters \ {s} : ~Preceded(k, s) /\ asked[k].sets.key = d.key
=============================================================================
