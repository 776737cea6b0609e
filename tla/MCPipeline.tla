----------------------------- MODULE MCPipeline -----------------------------
(* Instances of Pipeline for TLC: a plain address, the same address with  *)
(* a display name, and one host that can be allowlisted.                   *)
EXTENDS Pipeline

CONSTANTS r1, r2, t1, p1, b1, named, plain, host, nohost, sale

MCBare   == [s \in Strings |-> IF s = named THEN plain ELSE s]
MCHostOf == [s \in Strings |-> IF s = named THEN nohost ELSE host]

\* r1 sends; r2, where there is one, resends what r1 stored.
MCAsks == [r \in Sends |-> IF r = r2 THEN {"resend"} ELSE {"send", "mime"}]

\* To names a mailing list without members, one address, one address twice.
MCNobody    == [s \in First |-> {<< >>}]
MCSingle    == [s \in First |-> {<<s>>}]
MCTwice     == [s \in First |-> {<<s, s>>}]

MCTouched   == [t \in Tables |-> IF t = "allowlist_entries" THEN {plain, host}
                                 ELSE IF t = "complaints" THEN {} ELSE {plain}]
\* An address is not taken for a domain; a host is given as either.
MCGivenAs   == [k \in Keys |-> IF k \in Strings THEN {"address"} ELSE AllowTypes]
MCNone      == [t \in Tables |-> {}]
MCOneEach   == [t \in Tables |-> {<<plain>>}]
=============================================================================
