----------------------------- MODULE MCService -----------------------------
(***************************************************************************)
(* Three requests (two where every webhook endpoint is open), and the      *)
(* smallest sets of names in which requests can agree and differ.          *)
(***************************************************************************)
EXTENDS Service

MCUrlLists    == {<<u>> : u \in Urls} \cup {<<u, w>> : u, w \in Urls}
MCEventLists  == {<<e>> : e \in EventTypes} \cup {<<e, f>> : e, f \in EventTypes}
MCTagLists    == {<<t>> : t \in TagNames} \cup {<<t, u>> : t, u \in TagNames}
MCExpressions == {<<catch_all>>,
                  <<Condition("match_recipient", {"a"})>>,
                  <<Condition("match_recipient", Recipients), Condition("match_header", {})>>,
                  <<Condition("match_recipient", Recipients), catch_all>>}
MCPriorities  == {0, 1}
MCCrew ==
  [templates |-> 3, webhooks |-> 2, triggers |-> 3, domains |-> 3, ips |-> 3,
   subaccounts |-> 3, keys |-> 3, tags |-> 3, routes |-> 3]

Symmetry == Permutations(Requests)
=============================================================================
