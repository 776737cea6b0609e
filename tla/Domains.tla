------------------------------ MODULE Domains ------------------------------
(***************************************************************************)
(* internal/domain (domain.go, tracking.go) and internal/credential: the   *)
(* domains, their DNS records and their SMTP credentials.  The five DNS    *)
(* records of a domain are created, verified and deleted by the same       *)
(* statements, so one row stands for them.  Of a domain's columns its      *)
(* state and one column per group of settings are kept; a settings column  *)
(* holds the request that wrote it.  Deletes of domains are soft, of       *)
(* credentials hard.                                                       *)
(***************************************************************************)
EXTENDS Database

CONSTANTS DomainNames, Logins

Domain(id, name, verified) ==
  [id |-> id, dead |-> FALSE, name |-> name, verified |-> verified,
   spam |-> "default", tls |-> "default", dkim |-> "default", tracking |-> "default"]
DNSRecords(id, d, valid) == [id |-> id, dead |-> FALSE, domain |-> d, valid |-> valid]
SMTPCredential(id, d, login) ==
  [id |-> id, dead |-> FALSE, domain |-> d, login |-> login, password |-> id[1]]

findDomain(name) == Select("domains", [name |-> name])

CreateDomainBug(r) == \E name \in DomainNames : \E c \in db["config"] :
  Begin(r, Ask("CreateDomain", name),
        <<Insert("domains", Domain(<<r, 1>>, name, c.verify)),
          IfAny("config", [verify |-> TRUE],
                <<Insert("dns_records", DNSRecords(<<r, 1>>, <<r, 1>>, TRUE))>>,
                <<Insert("dns_records", DNSRecords(<<r, 1>>, <<r, 1>>, FALSE))>>)>>)

\* The configuration is read for the domain's state, and again when the records
\* are built inside the transaction.  An error, the unique name included, answers
\* 400 and rolls everything back.
CreateDomain(r) == \E name \in DomainNames : \E c \in db["config"] :
  LET create(valid) == Transaction(Insert("domains", Domain(<<r, 1>>, name, c.verify)),
                                   Insert("dns_records", DNSRecords(<<r, 1>>, <<r, 1>>, valid)))
  IN Begin(r, Ask("CreateDomain", name),
           <<IfAny("config", [verify |-> TRUE], <<create(TRUE)>>, <<create(FALSE)>>)>>)

DeleteDomain(r) == \E name \in DomainNames : \E d \in findDomain(name) :
  Begin(r, AskDelete("DeleteDomain", name, "domains", {d}),
        <<Transaction(SoftDelete("dns_records", [domain |-> d.id]),
                      SoftDelete("domains", [id |-> d.id]))>>)

\* The row read outside the transaction is saved whole inside it.
VerifyDomain(r) == \E name \in DomainNames : \E d \in findDomain(name) :
  Begin(r, AskSave("VerifyDomain", name, "domains", d, [verified |-> TRUE]),
        <<Transaction(Save("domains", [d EXCEPT !.verified = TRUE]),
                      Update("dns_records", [domain |-> d.id], [valid |-> TRUE]))>>)

SaveSettingsBug(r, endpoint, columns) == \E name \in DomainNames : \E d \in findDomain(name) :
  LET set == [c \in columns |-> r] IN
  Begin(r, AskSave(endpoint, name, "domains", d, set),
        <<SaveOrFail("domains", With(Domain(d.id, name, d.verified), set))>>)

\* The endpoints that read the row, set some columns and save it whole.
SaveSettings(r, endpoint, columns) == \E name \in DomainNames : \E d \in findDomain(name) :
  LET set == [c \in columns |-> r] IN
  Begin(r, AskSave(endpoint, name, "domains", d, set), <<SaveOrFail("domains", With(d, set))>>)

\* PUT /v4/domains/{name} sets the fields it is sent, PUT .../connection two of them.
UpdateDomain(r)     == \E sent \in {{"spam"}, {"spam", "tls"}} : SaveSettings(r, "UpdateDomain", sent)
UpdateConnection(r) == SaveSettings(r, "UpdateConnection", {"tls"})
UpdateDKIM(r)       == SaveSettings(r, "UpdateDKIM", {"dkim"})          \* authority, selector
UpdateTracking(r)   == SaveSettings(r, "UpdateTracking", {"tracking"})  \* open, click, unsubscribe

credential(d, login) == Select("smtp_credentials", [domain |-> d.name, login |-> login])

CreateCredential(r) == \E name \in DomainNames, login \in Logins : \E d \in findDomain(name) :
  /\ credential(d, login) = {}
  /\ Begin(r, Ask("CreateCredential", name),
           <<Insert("smtp_credentials", SMTPCredential(<<r, 1>>, name, login))>>)

UpdateCredential(r) == \E name \in DomainNames, login \in Logins : \E d \in findDomain(name) :
  \E cred \in credential(d, login) :
    Begin(r, AskSave("UpdateCredential", name, "smtp_credentials", cred, [password |-> r]),
          <<SaveOrFail("smtp_credentials", [cred EXCEPT !.password = r])>>)

DeleteCredential(r) == \E name \in DomainNames, login \in Logins : \E d \in findDomain(name) :
  \E cred \in credential(d, login) :
    Begin(r, AskDelete("DeleteCredential", name, "smtp_credentials", {cred}),
          <<Purge("smtp_credentials", [id |-> cred.id])>>)

DeleteAllCredentials(r) == \E name \in DomainNames : \E d \in findDomain(name) :
  Begin(r, AskDelete("DeleteAllCredentials", name, "smtp_credentials",
                     Select("smtp_credentials", [domain |-> name])),
        <<Purge("smtp_credentials", [domain |-> name])>>)

DomainHandlers(r) ==
  \/ CreateDomain(r) \/ DeleteDomain(r) \/ VerifyDomain(r)
  \/ UpdateDomain(r) \/ UpdateConnection(r) \/ UpdateDKIM(r) \/ UpdateTracking(r)
  \/ CreateCredential(r) \/ UpdateCredential(r)
  \/ DeleteCredential(r) \/ DeleteAllCredentials(r)

\* No domain; and a domain with a credential, verified or not.
DomainSeed(name, login, v) ==
  [NoRows EXCEPT !.domains = {Domain(<<"seed", 1>>, name, v)},
                 !.dns_records = {DNSRecords(<<"seed", 1>>, <<"seed", 1>>, v)},
                 !.smtp_credentials = {SMTPCredential(<<"seed", 1>>, name, login)}]
DomainSeeds ==
  {NoRows} \cup {DomainSeed(name, login, v) : name \in DomainNames, login \in Logins, v \in BOOLEAN}

----------------------------------------------------------------------------
(* Properties.                                                             *)

DomainSavers == {"VerifyDomain", "UpdateDomain", "UpdateConnection", "UpdateDKIM", "UpdateTracking"}

\* Once no reset is under way a domain that is there has its DNS records, in the
\* state it is in, and they are there only with it.  The exceptions: a saver that
\* overlapped the deletion brought the domain back alone, a creation overlapped
\* the reset, which empties dns_records long before domains, a saver that
\* overlapped a verification wrote the old state back, or the configuration
\* changed between the two readings a creation makes of it (domain.go:391, :253).
RecordsMatchDomain ==
  ~Resetting =>
    /\ \A d \in Live("domains") :
         LET records == Select("dns_records", [domain |-> d.id]) IN
         /\ records = {} => Clash({"DeleteDomain", "ResetAll"}, DomainSavers, d.name)
         /\ \A x \in records : x.valid # d.verified =>
              \/ Clash({"VerifyDomain"}, DomainSavers, d.name)
              \/ Clash({"CreateDomain"}, {"UpdateConfig", "ResetAll"}, d.name)
    /\ \A x \in Live("dns_records") :
         \/ \E d \in Live("domains") : d.id = x.domain
         \/ ResetClash({"CreateDomain"})
=============================================================================
