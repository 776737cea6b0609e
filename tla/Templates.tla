----------------------------- MODULE Templates -----------------------------
(***************************************************************************)
(* internal/template/handlers.go: the templates of a domain and their      *)
(* versions, at most one of which is meant to be active.  Texts, engines,  *)
(* headers and comments are left out; deletes are soft.                    *)
(***************************************************************************)
EXTENDS Database

CONSTANTS TemplateNames, VersionTags,
          TemplateLimit, VersionLimit   \* 100 and 40 in the code

\* Nothing could be stored at all with a limit of zero.
ASSUME TemplatesAssumption == TemplateLimit \in Nat \ {0} /\ VersionLimit \in Nat \ {0}

Template(id, name)          == [id |-> id, dead |-> FALSE, name |-> name]
Version(id, t, tag, active) == [id |-> id, dead |-> FALSE, template |-> t,
                                tag |-> tag, active |-> active]

findTemplate(name) == Select("templates", [name |-> name])
findVersion(t, tag) == Select("template_versions", [template |-> t.id, tag |-> tag])
versionCount(t) == Cardinality(Select("template_versions", [template |-> t.id]))
deactivateAll(t) ==
  Update("template_versions", [template |-> t.id, active |-> TRUE], [active |-> FALSE])

CreateTemplateBug(r) == \E name \in TemplateNames, tag \in VersionTags \cup {"none"} :
  /\ findTemplate(name) = {}
  /\ Begin(r, Ask("CreateTemplate", name),
       <<Insert("templates", Template(<<r, 1>>, name))>> \o
       (IF tag = "none" THEN << >>
        ELSE <<Insert("template_versions", Version(<<r, 2>>, <<r, 1>>, tag, TRUE))>>))

\* tag "none": no content was sent, so there is no initial version.
CreateTemplate(r) == \E name \in TemplateNames, tag \in VersionTags \cup {"none"} :
  /\ Cardinality(Select("templates", All)) < TemplateLimit
  /\ findTemplate(name) = {}
  /\ Begin(r, Ask("CreateTemplate", name),
       <<Insert("templates", Template(<<r, 1>>, name))>> \o
       (IF tag = "none" THEN << >>
        ELSE <<Insert("template_versions", Version(<<r, 2>>, <<r, 1>>, tag, TRUE))>>))

UpdateTemplate(r) == \E name \in TemplateNames : \E t \in findTemplate(name) :
  Begin(r, AskSave("UpdateTemplate", name, "templates", t, All), <<Save("templates", t)>>)

DeleteTemplateBug(r) == \E name \in TemplateNames : \E t \in findTemplate(name) :
  Begin(r, AskDelete("DeleteTemplate", name, "templates", {t}), <<SoftDelete("templates", [id |-> t.id])>>)

DeleteTemplate(r) == \E name \in TemplateNames : \E t \in findTemplate(name) :
  Begin(r, AskDelete("DeleteTemplate", name, "templates", {t}),
        <<SoftDelete("template_versions", [template |-> t.id]),
          SoftDelete("templates", [id |-> t.id])>>)

DeleteAllTemplates(r) ==
  LET Clear(t) == SoftDelete("template_versions", [template |-> t.id]) IN
  \E clears \in ForEach(Select("templates", All), Clear) :
    Begin(r, AskDelete("DeleteTemplate", "all", "templates", Live("templates")), clears \o <<SoftDelete("templates", All)>>)

\* The first version is active whatever was asked; the versions are counted
\* once for the limit and once more to tell whether this is the first.
CreateVersion(r) == \E name \in TemplateNames, tag \in VersionTags, active \in BOOLEAN :
  \E t \in findTemplate(name) :
    LET add(a) == Insert("template_versions", Version(<<r, 1>>, t.id, tag, a)) IN
    /\ versionCount(t) < VersionLimit
    /\ findVersion(t, tag) = {}
    /\ Begin(r, Ask("CreateVersion", name),
         <<IfAny("template_versions", [template |-> t.id],
                 IF active THEN <<deactivateAll(t), add(TRUE)>> ELSE <<add(FALSE)>>,
                 <<deactivateAll(t), add(TRUE)>>)>>)

UpdateVersionBug(r) ==
  \E name \in TemplateNames, tag \in VersionTags, active \in BOOLEAN :
  \E t \in findTemplate(name) : \E v \in findVersion(t, tag) :
    Begin(r, AskSave("UpdateVersion", name, "template_versions", v, All),
          <<Save("template_versions", IF active THEN [v EXCEPT !.active = TRUE] ELSE v)>>)

\* The row is read before the others are deactivated and saved whole after it.
UpdateVersion(r) ==
  \E name \in TemplateNames, tag \in VersionTags, active \in BOOLEAN :
  \E t \in findTemplate(name) : \E v \in findVersion(t, tag) :
    Begin(r, AskSave("UpdateVersion", name, "template_versions", v, All),
          IF active THEN <<deactivateAll(t),
                           Save("template_versions", [v EXCEPT !.active = TRUE])>>
                    ELSE <<Save("template_versions", v)>>)

DeleteVersion(r) == \E name \in TemplateNames, tag \in VersionTags :
  \E t \in findTemplate(name) : \E v \in findVersion(t, tag) :
    Begin(r, AskDelete("DeleteVersion", name, "template_versions", {v}),
          <<SoftDelete("template_versions", [id |-> v.id])>>)

\* A copy is never active, whether it overwrites a version or is a new one.
CopyVersion(r) == \E name \in TemplateNames, tag, newTag \in VersionTags :
  \E t \in findTemplate(name) : \E v \in findVersion(t, tag) :
    \/ \E target \in findVersion(t, newTag) :
         Begin(r, AskSave("CopyVersion", name, "template_versions", target, All),
               <<Save("template_versions", [target EXCEPT !.active = FALSE])>>)
    \/ /\ findVersion(t, newTag) = {}
       /\ Begin(r, Ask("CopyVersion", name),
                <<Insert("template_versions", Version(<<r, 1>>, t.id, newTag, FALSE))>>)

TemplateHandlers(r) ==
  \/ CreateTemplate(r) \/ UpdateTemplate(r) \/ DeleteTemplate(r) \/ DeleteAllTemplates(r)
  \/ CreateVersion(r) \/ UpdateVersion(r) \/ DeleteVersion(r) \/ CopyVersion(r)

\* An empty domain, and one with a template whose first version is active (the names
\* are interchangeable: one of them stands for all).
TemplateSeeds ==
  LET name == CHOOSE n \in TemplateNames : TRUE
      tag  == CHOOSE v \in VersionTags : TRUE
  IN {NoRows,
      [NoRows EXCEPT !.templates = {Template(<<"seed", 1>>, name)},
                     !.template_versions = {Version(<<"seed", 2>>, <<"seed", 1>>, tag, TRUE)}]}

----------------------------------------------------------------------------
(* Properties.                                                             *)

VersionWriters == {"CreateTemplate", "CreateVersion", "UpdateVersion", "CopyVersion"}
Activators     == {"CreateTemplate", "CreateVersion", "UpdateVersion"}

\* At most one version of a template is active, unless two requests that may
\* activate one overlapped: CreateVersion and UpdateVersion deactivate the others
\* in one statement and write the new active version in another, and
\* UpdateVersion writes back an `active' it read before (handlers.go:471, :633).
OneActiveVersion ==
  \A a, b \in Live("template_versions") :
    a.active /\ b.active /\ a.template = b.template /\ a.id # b.id =>
      \/ \E t \in db["templates"] : t.id = a.template /\ Clash(Activators, Activators, t.name)
      \/ ResetClash(Activators)

\* A version lives only as long as its template, unless the template was being
\* deleted, by name or by the reset, while the version was written: the versions
\* are deleted first, and nothing stops a version added or saved after that.
VersionsFollowTemplate ==
  ~Resetting =>
    \A v \in Live("template_versions") :
      \/ \E t \in db["templates"] :
           /\ t.id = v.template
           /\ t.dead => Clash({"DeleteTemplate"}, VersionWriters, t.name)
      \/ ResetClash(VersionWriters)

\* The limits on templates and versions hold unless requests that add overlapped
\* (they count before they insert, and UpdateVersion may bring a version back), or
\* a version was copied, which is not counted against the limit.
WithinLimits ==
  /\ Cardinality(Live("templates")) > TemplateLimit =>
       \E r, s \in Requests : /\ Overlap(r, s)
                              /\ AskedFor(s, {"CreateTemplate"})
                              /\ AskedFor(r, {"CreateTemplate", "UpdateTemplate"})
  /\ \A t \in Live("templates") : versionCount(t) > VersionLimit =>
       \/ Clash(Activators, Activators, t.name)
       \/ \E r \in Requests : AskedFor(r, {"CopyVersion"}) /\ asked[r].on = t.name
=============================================================================
