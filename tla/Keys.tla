-------------------------------- MODULE Keys --------------------------------
(***************************************************************************)
(* internal/apikey and internal/allowlist: API keys, the managed keys of   *)
(* the mock's own login, and the account's IP allowlist.  Deletes are hard.*)
(***************************************************************************)
EXTENDS Database

CONSTANTS AllowedAddresses, KeyValues

APIKey(id)                == [id |-> id, dead |-> FALSE, secret |-> id[1]]
ManagedAPIKey(id, value)  == [id |-> id, dead |-> FALSE, value |-> value]
IPAllowlistEntry(id, ip)  == [id |-> id, dead |-> FALSE, address |-> ip, description |-> id[1]]

CreateKey(r) == Begin(r, Ask("CreateKey", r), <<Insert("api_keys", APIKey(<<r, 1>>))>>)

DeleteKey(r) == \E k \in Live("api_keys") :
  Begin(r, AskDelete("DeleteKey", by(k), "api_keys", {k}), <<Purge("api_keys", [id |-> k.id])>>)

RegenerateKey(r) == \E k \in Live("api_keys") :
  Begin(r, AskSave("RegenerateKey", by(k), "api_keys", k, [secret |-> r]),
        <<SaveOrFail("api_keys", [k EXCEPT !.secret = r])>>)

\* A managed key is a random value; if the unique index refuses the first, one
\* more is tried.
CreateManagedKey(r) == \E value \in KeyValues :
  Begin(r, Ask("CreateManagedKey", "managed"),
        <<[do |-> "issue", value |-> value, retry |-> TRUE]>>)

IssueBug(r) ==
  /\ todo[r] # << >> /\ Head(todo[r]).do = "issue"
  /\ LET key   == ManagedAPIKey(<<r, 1>>, Head(todo[r]).value)
         taken == \E k \in db["managed_api_keys"] : k.value = key.value
     IN \/ /\ ~taken
           /\ db' = [db EXCEPT !.managed_api_keys = @ \cup {key}]
           /\ todo' = [todo EXCEPT ![r] = << >>] /\ UNCHANGED failed
        \/ /\ taken
           /\ todo' = [todo EXCEPT ![r] = << >>]
           /\ UNCHANGED <<db, failed>>
  /\ UNCHANGED <<asked, before>>

Issue(r) ==
  /\ todo[r] # << >> /\ Head(todo[r]).do = "issue"
  /\ LET key   == ManagedAPIKey(<<r, 1>>, Head(todo[r]).value)
         taken == \E k \in db["managed_api_keys"] : k.value = key.value
     IN \/ /\ ~taken
           /\ db' = [db EXCEPT !.managed_api_keys = @ \cup {key}]
           /\ todo' = [todo EXCEPT ![r] = << >>] /\ UNCHANGED failed
        \/ /\ taken /\ Head(todo[r]).retry
           /\ \E value \in KeyValues :
                todo' = [todo EXCEPT ![r] = <<[do |-> "issue", value |-> value, retry |-> FALSE]>>]
           /\ UNCHANGED <<db, failed>>
        \/ /\ taken /\ ~Head(todo[r]).retry
           /\ todo' = [todo EXCEPT ![r] = << >>] /\ failed' = failed \cup {r}
           /\ UNCHANGED db
  /\ UNCHANGED <<asked, before>>

DeleteManagedKey(r) == \E k \in Live("managed_api_keys") :
  Begin(r, AskDelete("DeleteManagedKey", "managed", "managed_api_keys", {k}),
        <<Purge("managed_api_keys", [id |-> k.id])>>)

\* An address already there is answered 200 and changes nothing.
AddEntry(r) == \E ip \in AllowedAddresses :
  /\ Select("ip_allowlist_entries", [address |-> ip]) = {}
  /\ Begin(r, Ask("AddEntry", ip),
           <<Insert("ip_allowlist_entries", IPAllowlistEntry(<<r, 1>>, ip))>>)

UpdateEntry(r) == \E e \in Live("ip_allowlist_entries") :
  Begin(r, AskSave("UpdateEntry", e.address, "ip_allowlist_entries", e, [description |-> r]),
        <<SaveOrFail("ip_allowlist_entries", [e EXCEPT !.description = r])>>)

DeleteEntry(r) == \E e \in Live("ip_allowlist_entries") :
  Begin(r, AskDelete("DeleteEntry", e.address, "ip_allowlist_entries", {e}),
        <<Purge("ip_allowlist_entries", [id |-> e.id])>>)

KeyHandlers(r) ==
  \/ CreateKey(r) \/ DeleteKey(r) \/ RegenerateKey(r)
  \/ CreateManagedKey(r) \/ DeleteManagedKey(r)
  \/ AddEntry(r) \/ UpdateEntry(r) \/ DeleteEntry(r)

\* Nothing; and a key, a managed key and an allowlist entry.
KeySeed(value, ip) ==
  [NoRows EXCEPT !.api_keys = {APIKey(<<"seed", 1>>)},
                 !.managed_api_keys = {ManagedAPIKey(<<"seed", 1>>, value)},
                 !.ip_allowlist_entries = {IPAllowlistEntry(<<"seed", 1>>, ip)}]
KeySeeds == {NoRows} \cup {KeySeed(value, ip) : value \in KeyValues, ip \in AllowedAddresses}

\* A request to create a managed key that was answered 201 has one, with a value no
\* other key has, until it is deleted, though two values may collide.
IssuedKeyIsThere ==
  /\ \A r \in Requests : AskedFor(r, {"CreateManagedKey"}) /\ Answered(r) /\ r \notin failed =>
       \/ \E k \in Live("managed_api_keys") : k.id = <<r, 1>>
       \/ \E s \in Requests : AskedFor(s, {"DeleteManagedKey", "ResetAll"}) /\ ~Preceded(s, r)
  /\ \A j, k \in Live("managed_api_keys") : j.value = k.value => j = k
=============================================================================
