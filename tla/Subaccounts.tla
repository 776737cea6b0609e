---------------------------- MODULE Subaccounts ----------------------------
(***************************************************************************)
(* internal/subaccount/handlers.go: subaccounts, their status and feature  *)
(* flags (one column stands for the five), and their sending limit.        *)
(* Deletes are hard; the errors of the writes are ignored except in        *)
(* CreateSubaccount, whose random id is unique.                            *)
(***************************************************************************)
EXTENDS Database

Subaccount(id) == [id |-> id, dead |-> FALSE, status |-> "open", features |-> "default"]
SendingLimit(id, a, limit) == [id |-> id, dead |-> FALSE, subaccount |-> a, limit |-> limit]

CreateSubaccount(r) ==
  Begin(r, Ask("CreateSubaccount", r), <<Insert("subaccounts", Subaccount(<<r, 1>>))>>)

SaveSubaccount(r, endpoint, a, set) ==
  Begin(r, AskSave(endpoint, by(a), "subaccounts", a, set), <<Save("subaccounts", With(a, set))>>)

\* Disabling a disabled subaccount is refused, enabling an open one is not.
DisableSubaccount(r) == \E a \in Live("subaccounts") :
  /\ a.status # "disabled"
  /\ SaveSubaccount(r, "DisableSubaccount", a, [status |-> "disabled"])
EnableSubaccount(r)  == \E a \in Live("subaccounts") :
  SaveSubaccount(r, "EnableSubaccount", a, [status |-> "open"])
UpdateFeatures(r)    == \E a \in Live("subaccounts") :
  SaveSubaccount(r, "UpdateFeatures", a, [features |-> r])

\* Leaves the subaccount's sending limit behind.
DeleteSubaccount(r) == \E a \in Live("subaccounts") :
  Begin(r, AskDelete("DeleteSubaccount", by(a), "subaccounts", {a}),
        <<Purge("subaccounts", [id |-> a.id])>>)

limitOf(a) == Select("sending_limits", [subaccount |-> a.id])

SetSendingLimitBug(r) == \E a \in Live("subaccounts") :
  Begin(r, Ask("SetSendingLimit", by(a)),
        <<TryInsert("sending_limits", SendingLimit(<<r, 1>>, a.id, r))>>)

\* An upsert in two statements: the insert of a limit that another request
\* inserted meanwhile fails, and the answer is "success" all the same.
SetSendingLimit(r) == \E a \in Live("subaccounts") :
  \/ \E l \in limitOf(a) :
       Begin(r, AskSave("SetSendingLimit", by(a), "sending_limits", l, [limit |-> r]),
             <<Save("sending_limits", [l EXCEPT !.limit = r])>>)
  \/ /\ limitOf(a) = {}
     /\ Begin(r, Ask("SetSendingLimit", by(a)),
              <<TryInsert("sending_limits", SendingLimit(<<r, 1>>, a.id, r))>>)

\* Finds the limit whether its subaccount still exists or not.
RemoveSendingLimit(r) == \E l \in Live("sending_limits") :
  Begin(r, AskDelete("RemoveSendingLimit", l.subaccount[1], "sending_limits", {l}),
        <<Purge("sending_limits", [id |-> l.id])>>)

SubaccountHandlers(r) ==
  \/ CreateSubaccount(r) \/ DeleteSubaccount(r) \/ UpdateFeatures(r)
  \/ DisableSubaccount(r) \/ EnableSubaccount(r)
  \/ SetSendingLimit(r) \/ RemoveSendingLimit(r)

\* A subaccount, open or disabled.
SubaccountSeeds ==
  {[NoRows EXCEPT !.subaccounts = {[Subaccount(<<"seed", 1>>) EXCEPT !.status = status]}] :
     status \in {"open", "disabled"}}

\* The limit a subaccount was last given is its limit: a request that set it and
\* was answered is only undone by one that was not over before it.
SendingLimitStands ==
  \A r \in Requests : AskedFor(r, {"SetSendingLimit"}) /\ Answered(r) =>
    \/ \E l \in Live("sending_limits") : l.subaccount[1] = asked[r].on /\ l.limit = r
    \/ \E s \in Requests \ {r} :
         /\ AskedFor(s, {"SetSendingLimit", "RemoveSendingLimit", "ResetAll"})
         /\ asked[s].on \in {asked[r].on, "all"} /\ ~Preceded(s, r)
=============================================================================
