-------------------------------- MODULE IPs --------------------------------
(***************************************************************************)
(* internal/ip/handlers.go: the account's IPs, the pools they are grouped  *)
(* into, and the IPs and the pool assigned to a domain.  Every delete is   *)
(* hard, and the errors of the writes are ignored.                         *)
(***************************************************************************)
EXTENDS Database

CONSTANTS Addresses, SendingDomain

ASSUME IPsAssumption == IsFiniteSet(Addresses)

IP(id, ip)             == [id |-> id, dead |-> FALSE, ip |-> ip]
IPPool(id, name)         == [id |-> id, dead |-> FALSE, name |-> name]
IPPoolIP(id, pool, ip) == [id |-> id, dead |-> FALSE, pool |-> pool, ip |-> ip]
DomainIP(id, ip)       == [id |-> id, dead |-> FALSE, domain |-> SendingDomain, ip |-> ip]
DomainPool(id, pool)   == [id |-> id, dead |-> FALSE, domain |-> SendingDomain, pool |-> pool]

\* NewHandlers inserts the default IPs when the server starts and only then.
DefaultIPs == {IP(<<"seed", ip>>, ip) : ip \in Addresses}

\* The domain is looked up, the address or the pool is not.  A second pool
\* violates the index on the domain and is dropped with answer "success".
AssignDomainIP(r) ==
  /\ Select("domains", [name |-> SendingDomain]) # {}
  /\ \/ \E ip \in Addresses :
          Begin(r, Ask("AssignDomainIP", ip), <<TryInsert("domain_ips", DomainIP(<<r, 1>>, ip))>>)
     \/ \E p \in Live("ip_pools") :
          Begin(r, Ask("AssignDomainIP", by(p)),
                <<TryInsert("domain_pools", DomainPool(<<r, 1>>, p.id))>>)

UnassignDomainIPBug(r) == \E ip \in Addresses \cup {"all"} :
  LET rows == IF ip = "all" THEN Live("domain_ips") ELSE Select("domain_ips", [ip |-> ip]) IN
  Begin(r, AskDelete("UnassignDomainIP", ip, "domain_ips", rows),
        <<Purge("domain_ips", [ip |-> ip])>>)

UnassignDomainIP(r) ==
  \/ \E ip \in Addresses :
       Begin(r, AskDelete("UnassignDomainIP", ip, "domain_ips", Select("domain_ips", [ip |-> ip])),
             <<Purge("domain_ips", [ip |-> ip])>>)
  \/ Begin(r, AskDelete("UnassignDomainIP", "all", "domain_ips", Live("domain_ips")),
           <<Purge("domain_ips", All)>>)
  \/ Begin(r, AskDelete("UnassignDomainIP", "pool", "domain_pools", Live("domain_pools")),
           <<Purge("domain_pools", All)>>)

CreatePool(r) == \E ips \in SUBSET Addresses :
  LET add(x) == TryInsert("ip_pool_ips", IPPoolIP(<<r, x>>, <<r, 1>>, x)) IN
  \E adds \in ForEach(ips, add) :
    Begin(r, Ask("CreatePool", r), <<TryInsert("ip_pools", IPPool(<<r, 1>>, r))>> \o adds)

\* Saves the pool whole, with its new name if one is sent, then adds the address to
\* add and removes the one to remove, if they are sent.
UpdatePool(r) == \E p \in Live("ip_pools"), set \in {All, [name |-> r]} :
  \E add    \in {<< >>} \cup {<<TryInsert("ip_pool_ips", IPPoolIP(<<r, ip>>, p.id, ip))>> : ip \in Addresses},
     remove \in {<< >>} \cup {<<Purge("ip_pool_ips", [pool |-> p.id, ip |-> ip])>> : ip \in Addresses} :
    Begin(r, AskSave("UpdatePool", by(p), "ip_pools", p, set),
          <<Save("ip_pools", With(p, set))>> \o add \o remove)

DeletePoolBug(r) == \E p \in Live("ip_pools") :
  Begin(r, AskDelete("DeletePool", by(p), "ip_pools", {p}),
        <<Purge("ip_pools", [id |-> p.id]), Purge("ip_pool_ips", [pool |-> p.id])>>)

\* The domains the pool is assigned to keep their domain_pools row.
DeletePool(r) == \E p \in Live("ip_pools") :
  Begin(r, AskDelete("DeletePool", by(p), "ip_pools", {p}),
        <<Purge("ip_pool_ips", [pool |-> p.id]), Purge("ip_pools", [id |-> p.id])>>)

IPHandlers(r) == \/ AssignDomainIP(r) \/ UnassignDomainIP(r)
                 \/ CreatePool(r) \/ UpdatePool(r) \/ DeletePool(r)

\* The default IPs, without and with a pool that holds one of them.
IPSeeds ==
  LET plain == [NoRows EXCEPT !.ips = DefaultIPs]
  IN {plain} \cup
     {[plain EXCEPT !.ip_pools = {IPPool(<<"seed", 1>>, "seed")},
                    !.ip_pool_ips = {IPPoolIP(<<"seed", ip>>, <<"seed", 1>>, ip)}] : ip \in Addresses}

\* The addresses of a pool that is gone are gone with it, unless the deletion
\* overlapped a request that was adding to the pool: DeletePool empties the pool
\* before it deletes it, and neither CreatePool nor UpdatePool looks again.
PoolIPsFollowPool ==
  ~Resetting =>
    \A x \in db["ip_pool_ips"] :
      \/ \E p \in db["ip_pools"] : p.id = x.pool
      \/ Clash({"DeletePool", "ResetAll"}, {"CreatePool", "UpdatePool"}, x.pool[1])
=============================================================================
