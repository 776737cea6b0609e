---------------------------- MODULE Suppression ----------------------------
(***************************************************************************)
(* internal/suppression/handlers.go: the bounce, complaint, unsubscribe    *)
(* and allow lists of one sending domain, and every operation of the API   *)
(* that changes them.                                                      *)
(*                                                                         *)
(* A row is identified by the string it was stored under; a unique index   *)
(* on (domain, string) covers rows that are soft-deleted too.  gorm hides  *)
(* a soft-deleted row from every query, but an INSERT that conflicts with  *)
(* it runs ON CONFLICT DO UPDATE, which sets the listed columns and not    *)
(* deleted_at.  Codes, error texts, counts and reasons are left out: no    *)
(* operation reads them back to decide anything.                           *)
(***************************************************************************)
EXTENDS Naturals, Sequences, FiniteSets

CONSTANTS Strings,        \* the strings addresses are given as
          Hosts,          \* the domain parts an allowlist entry can name
          Tags,           \* the tags messages and unsubscribes carry
          Batches,        \* request goroutines that add many rows
          MayFail         \* whether the API's statements may fail (SQLITE_BUSY)

Tables == {"bounces", "complaints", "unsubscribes", "allowlist_entries"}
Keys   == Strings \cup Hosts
Star   == "*"

VARIABLES rows,       \* [table -> [key -> "none" | "live" | "deleted"]]
          unsubTags,  \* the tags column of the unsubscribe rows
          types,      \* the type column of the allowlist rows
          batch       \* what each batch request still has to write

tableVars == <<rows, unsubTags, types>>

AllowTypes == {"address", "domain"}
Entries    == [table : Tables, key : Keys, tags : SUBSET (Tags \cup {Star}), type : AllowTypes]

TablesTypeOK ==
  /\ rows \in [Tables -> [Keys -> {"none", "live", "deleted"}]]
  /\ unsubTags \in [Keys -> SUBSET (Tags \cup {Star})]
  /\ types \in [Keys -> AllowTypes]
  /\ batch \in [Batches -> Seq(Entries)]

TablesInit ==
  /\ rows = [t \in Tables |-> [k \in Keys |-> "none"]]
  /\ unsubTags = [k \in Keys |-> {}]
  /\ types = [k \in Keys |-> "address"]
  /\ batch = [b \in Batches |-> << >>]

\* gorm's First and Find: rows with deleted_at set are not there.
Visible(t, k) == rows[t][k] = "live"

(* The operators named ...Bug are plausible mistakes in the code modelled   *)
(* by the definition below them.  No action uses them: each is there to    *)
(* show which property would catch it.                                     *)

UpsertDuplicatesBug(t, k) == rows' = [rows EXCEPT ![t][k] = IF @ = "none" THEN "live" ELSE "twice"]

\* INSERT ... ON CONFLICT DO UPDATE SET <data>: revives nothing.
Upsert(t, k) == rows' = [rows EXCEPT ![t][k] = IF @ = "deleted" THEN "deleted" ELSE "live"]

\* The handlers ignore the error of the statement.
Try(A) == A \/ (MayFail /\ UNCHANGED tableVars)

-----------------------------------------------------------------------------
(* Single additions (form requests).                                       *)

CreateBounce(k)    == Try(Upsert("bounces", k) /\ UNCHANGED <<unsubTags, types>>)
CreateComplaint(k) == Try(Upsert("complaints", k) /\ UNCHANGED <<unsubTags, types>>)

\* Given as an address or as a domain.  The index is on the value alone: an entry
\* of the other type is overwritten.
CreateAllow(k, type) ==
  Try(/\ Upsert("allowlist_entries", k)
      /\ types' = [types EXCEPT ![k] = type]
      /\ UNCHANGED unsubTags)

\* No tag given means every tag.
CreateUnsubscribe(k, given) ==
  Try(/\ Upsert("unsubscribes", k)
      /\ unsubTags' = [unsubTags EXCEPT ![k] = IF given = {} THEN {Star} ELSE given]
      /\ UNCHANGED types)

-----------------------------------------------------------------------------
(* Batches: JSON bodies and CSV imports.  One statement per row, no        *)
(* transaction around them.                                                *)

Entry(t, k, tags, type) == [table |-> t, key |-> k, tags |-> tags, type |-> type]

Begin(b, todo) == batch[b] = << >> /\ batch' = [batch EXCEPT ![b] = todo] /\ UNCHANGED tableVars

BounceBatch(b, ks)      == Begin(b, [i \in DOMAIN ks |-> Entry("bounces", ks[i], {}, "address")])
ComplaintBatch(b, ks)   == Begin(b, [i \in DOMAIN ks |-> Entry("complaints", ks[i], {}, "address")])
UnsubscribeBatch(b, ks, given) ==
  Begin(b, [i \in DOMAIN ks |-> Entry("unsubscribes", ks[i], given, "address")])
AllowlistImport(b, ks, type) ==
  Begin(b, [i \in DOMAIN ks |-> Entry("allowlist_entries", ks[i], {}, type[i])])

BatchRow(b) ==
  /\ batch[b] # << >>
  /\ LET e == Head(batch[b])
     IN \/ e.table = "bounces" /\ CreateBounce(e.key)
        \/ e.table = "complaints" /\ CreateComplaint(e.key)
        \/ e.table = "unsubscribes" /\ CreateUnsubscribe(e.key, e.tags)
        \/ e.table = "allowlist_entries" /\ CreateAllow(e.key, e.type)
  /\ batch' = [batch EXCEPT ![b] = Tail(@)]

-----------------------------------------------------------------------------
(* Removals.  Deleting a row that is not visible answers 404.              *)

SoftDelete(t, k) == /\ Visible(t, k)
                    /\ Try(/\ rows' = [rows EXCEPT ![t][k] = "deleted"]
                           /\ UNCHANGED <<unsubTags, types>>)

DeleteBounce(k)      == SoftDelete("bounces", k)
DeleteComplaint(k)   == SoftDelete("complaints", k)
DeleteUnsubscribe(k) == SoftDelete("unsubscribes", k)
DeleteAllow(k)       == SoftDelete("allowlist_entries", k)

SoftClear(t) ==
  Try(/\ rows' = [rows EXCEPT ![t] = [k \in Keys |-> IF @[k] = "live" THEN "deleted" ELSE @[k]]]
      /\ UNCHANGED <<unsubTags, types>>)

ClearBounces      == SoftClear("bounces")
ClearComplaints   == SoftClear("complaints")
ClearUnsubscribes == SoftClear("unsubscribes")
ClearAllowlist    == SoftClear("allowlist_entries")
=============================================================================
