------------------------------- MODULE Mock -------------------------------
(***************************************************************************)
(* internal/mock/handlers.go: the configuration that every handler reads   *)
(* through one pointer without a lock, and the two resets.                 *)
(***************************************************************************)
EXTENDS Database

\* The tables ResetAll empties, in its order: for each component those that its
\* requests write, the others being empty or left alone by them.
resetTables ==
  [templates   |-> <<"template_versions", "templates">>,
   webhooks    |-> <<"domain_webhooks", "account_webhooks">>,
   triggers    |-> <<"webhook_deliveries", "account_webhooks">>,
   domains     |-> <<"dns_records", "smtp_credentials", "domains">>,
   ips         |-> <<"ip_pool_ips", "domain_ips", "domain_pools", "ips", "ip_pools">>,
   subaccounts |-> <<"sending_limits", "subaccounts">>,
   keys        |-> <<"api_keys", "managed_api_keys", "ip_allowlist_entries">>,
   tags        |-> <<"tags">>,
   routes      |-> <<"routes">>]

SetConfig(set) == Update("config", All, set)
Invalid == [do |-> "invalid"]

\* json.Unmarshal sets the fields of a section that are well typed ...
Merge(section) == IF section = All THEN << >> ELSE <<SetConfig(section)>>

\* ... so PUT /mock/config merges the sections it is given one after the other, and at
\* one with an ill-typed field answers 400 when it has set the others of that section:
\* what it set stays set, and the sections after it are not looked at.
UpdateConfig(r) ==
  \E behavior \in {All, [verify |-> FALSE]}, authentication \in {All, [key |-> r]},
     refused \in {<< >>, <<Invalid>>} :
    Begin(r, AskSave("UpdateConfig", "all", "config", [id |-> "config"], With(behavior, authentication)),
          Merge(behavior) \o Merge(authentication) \o refused)

RefuseSection(r) ==
  /\ todo[r] # << >> /\ Head(todo[r]) = Invalid
  /\ todo' = [todo EXCEPT ![r] = << >>]
  /\ failed' = failed \cup {r}
  /\ UNCHANGED <<db, asked, before>>

\* ResetAll among these tables: DELETE FROM each (deleted rows too), then the
\* default configuration.
ResetAll(r, tables) ==
  Begin(r, [AskSave("ResetAll", "all", "config", Config, DefaultConfig) EXCEPT
              !.gone = UNION {{<<t, x.id>> : x \in db[t]} : t \in ToSet(tables)}],
        [i \in DOMAIN tables |-> Purge(tables[i], All)] \o <<SetConfig(DefaultConfig)>>)

\* Answers that the domain's data has been reset; a TODO stands for the rest.
ResetDomain(r) == Begin(r, Ask("ResetDomain", "all"), << >>)
=============================================================================
