---------------------------- MODULE TagRegistry ----------------------------
(***************************************************************************)
(* internal/tag (handlers.go, v1_handlers.go): the tags of one domain.     *)
(* Sending a message creates its tags or marks them seen; the endpoints    *)
(* edit and delete them by name.  Deletes are hard.                        *)
(***************************************************************************)
EXTENDS Database

CONSTANTS TagNames, TagLists   \* the tags a message may carry, in order

ASSUME TagRegistryAssumption == TagLists \subseteq Seq(TagNames)

Tag(id, tag) == [id |-> id, dead |-> FALSE, tag |-> tag,
                 lastSeen |-> id[1], description |-> "default"]

\* For each tag try to create it; if that fails it exists: update last_seen.
EnsureTags(r) == \E tags \in TagLists :
  Begin(r, With(Ask("EnsureTags", "all"), [urls |-> tags]),
        [i \in DOMAIN tags |-> [do |-> "ensure", row |-> Tag(<<r, i>>, tags[i])]])

EnsureTagBug(r) ==
  /\ todo[r] # << >> /\ Head(todo[r]).do = "ensure"
  /\ LET row == Head(todo[r]).row IN
     IF Indexed(db["tags"] \cup {row}, "tags")
       THEN /\ db' = [db EXCEPT !["tags"] = @ \cup {row}]
            /\ todo' = [todo EXCEPT ![r] = Tail(@)]
       ELSE /\ todo' = [todo EXCEPT ![r] = << >>]
            /\ UNCHANGED db
  /\ UNCHANGED <<asked, failed, before>>

EnsureTag(r) ==
  /\ todo[r] # << >> /\ Head(todo[r]).do = "ensure"
  /\ LET row == Head(todo[r]).row IN
     IF Indexed(db["tags"] \cup {row}, "tags")
       THEN /\ db' = [db EXCEPT !["tags"] = @ \cup {row}]
            /\ todo' = [todo EXCEPT ![r] = Tail(@)]
       ELSE /\ todo' = [todo EXCEPT ![r] =
                 <<Update("tags", [tag |-> row.tag], [lastSeen |-> r])>> \o Tail(@)]
            /\ UNCHANGED db
  /\ UNCHANGED <<asked, failed, before>>

\* One column of the row found, or of the rows of that name.
UpdateTag(r) == \E t \in Live("tags") :
  Begin(r, Ask("UpdateTag", t.tag), <<Update("tags", [id |-> t.id], [description |-> r])>>)
V1UpdateTag(r) == \E t \in Live("tags") :
  Begin(r, Ask("V1UpdateTag", t.tag), <<Update("tags", [tag |-> t.tag], [description |-> r])>>)

DeleteTag(r) == \E t \in Live("tags") :
  Begin(r, AskDelete("DeleteTag", t.tag, "tags", {t}), <<Purge("tags", [id |-> t.id])>>)
V1DeleteTag(r) == \E t \in Live("tags") :
  Begin(r, AskDelete("V1DeleteTag", t.tag, "tags", {t}), <<Purge("tags", [tag |-> t.tag])>>)

TagHandlers(r) == \/ EnsureTags(r) \/ UpdateTag(r) \/ V1UpdateTag(r)
                  \/ DeleteTag(r) \/ V1DeleteTag(r)

\* No tag, and one.
TagSeeds == LET tag == CHOOSE t \in TagNames : TRUE IN
            {NoRows, [NoRows EXCEPT !.tags = {Tag(<<"seed", 1>>, tag)}]}

\* A column that r wrote for tag t holds r, unless the tag was deleted, or the
\* column written, by a request that was not over before r.
ColumnStands(r, t, column, writers) ==
  \/ \E x \in Select("tags", [tag |-> t]) : x[column] = r
  \/ \E s \in Requests \ {r} :
       /\ ~Preceded(s, r)
       /\ \/ AskedFor(s, {"DeleteTag", "V1DeleteTag", "ResetAll"}) /\ asked[s].on \in {t, "all"}
          \/ AskedFor(s, writers)

\* Every tag of a message that was sent exists and is marked as seen by it, and
\* a description that was given stays: a concurrent send, which looks the tag up
\* in no statement of its own, loses neither.
TagsAsLastWritten ==
  \A r \in Requests : Answered(r) =>
    /\ AskedFor(r, {"EnsureTags"}) =>
         \A t \in ToSet(asked[r].urls) : ColumnStands(r, t, "lastSeen", {"EnsureTags"})
    /\ AskedFor(r, {"UpdateTag", "V1UpdateTag"}) =>
         ColumnStands(r, asked[r].on, "description", {"UpdateTag", "V1UpdateTag"})
=============================================================================
