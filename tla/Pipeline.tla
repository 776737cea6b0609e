------------------------------ MODULE Pipeline ------------------------------
(***************************************************************************)
(* A message's way through one sending domain: the requests that store it  *)
(* (internal/message), the events recorded for it and the suppression      *)
(* check (internal/event/event.go), the mock triggers that simulate what   *)
(* happens to it later (handlers_mock_triggers.go), the requests that      *)
(* purge it (internal/message, internal/mock), and the suppression lists   *)
(* all of them share.                                                      *)
(*                                                                         *)
(* Every request runs in a goroutine of its own and nothing spans two SQL  *)
(* statements: there is no transaction and no lock, so every statement is  *)
(* a step.  A message is named by the request that stores it.  A refused   *)
(* request (a missing parameter, an unknown domain or message) changes     *)
(* nothing and is no step.  The hub takes every broadcast (Hub), so a      *)
(* broadcast is no step either.                                            *)
(***************************************************************************)
EXTENDS Suppression

CONSTANTS Sends,        \* POST requests that store a message, one each
          Triggers,     \* requests to /mock/events
          Purgers,      \* requests that delete messages or everything
          Asks,         \* [Sends -> the endpoints each may be sent to]
          First,        \* the strings a To field may begin with
          Expansion,    \* [First -> the recipient sequences To may expand to]
          Bare,         \* [Strings -> Strings]: the address inside a string
          HostOf,       \* [Strings -> Hosts \cup {NoHost}]: extractDomain
          NoHost,
          Touched,      \* [Tables -> the keys the suppression API is asked for]
          Imported,     \* [Tables -> the key sequences batches list]
          GivenAs,      \* [Keys -> the types an allowlist entry gives it]
          Files,        \* whether messages are sent with attachments
          Kinds,        \* the trigger endpoints used
          Purges,       \* the deleting endpoints used
          Faulty,       \* the requests whose statements may fail (SQLITE_BUSY)
          AutoValues, DelayValues  \* what auto_deliver, delivery_delay_ms are set to

AllKinds == {"delivered", "failed", "deferred", "opened", "clicked",
             "unsubscribed", "complained"}

ASSUME PipelineAssumption ==
  /\ Strings \cap Hosts = {} /\ NoHost \notin Strings \cup Hosts
  /\ Sends \cap Triggers = {}
  /\ First \subseteq Strings /\ First # {}
  /\ Asks \in [Sends -> SUBSET {"send", "mime", "resend"}]
  /\ Expansion \in [First -> SUBSET Seq(Strings)]
  /\ Bare \in [Strings -> Strings]
  /\ HostOf \in [Strings -> Hosts \cup {NoHost}]
  /\ Touched \in [Tables -> SUBSET Keys]
  /\ Imported \in [Tables -> SUBSET Seq(Keys)]
  /\ GivenAs \in [Keys -> SUBSET AllowTypes]
  /\ Files \subseteq BOOLEAN
  /\ Kinds \subseteq AllKinds
  /\ AutoValues \subseteq BOOLEAN /\ DelayValues \subseteq Nat
  /\ MayFail \in BOOLEAN

VARIABLES
  domain,    \* whether the domain's row is there
  msgs,      \* stored_messages
  atts,      \* the messages that have rows in attachments
  events,    \* the messages that have rows in events, of whatever type
  tagRows,   \* the tags table
  auto, delay,  \* MockConfig.EventGeneration
  pc,        \* where each send request is
  rq,        \* what it was asked
  to,        \* SendMessage's expandedRecipients
  pos,       \* the loop over them
  tpc, trig, \* where each trigger is, and the message it looked up
  purge,     \* the statements each purge has still to execute
  steady,    \* history: entries blocking the recipient since its check began
  listed,    \* history: whether a list has had the recipient since its check began
  shield,    \* history: allow entries covering a trigger's recipient
  faulted,   \* history: requests a statement of which failed
  torn,      \* history: messages a purge overlapped, or did not finish with
  kept,      \* history: messages removed by DeleteMessage
  alone      \* history: purges during which no other request took a step

mailVars  == <<msgs, atts, events, tagRows>>
confVars  == <<domain, auto, delay>>
sendVars  == <<pc, rq, to, pos>>
trigVars  == <<tpc, trig>>
histVars  == <<steady, listed, shield, torn, alone>>
vars == <<tableVars, batch, mailVars, confVars, sendVars, trigVars, purge,
          histVars, faulted, kept>>

SendPcs == {"idle", "store", "attach", "tags", "copy", "paste", "expand", "accept",
            "bounces", "complaints", "unsubscribes", "fail", "auto", "delay",
            "deliver", "answered", "refused"}
TrigPcs == {"idle", "save", "address", "host", "bounce", "complaint", "bounced", "spared"}
PurgeTables == Tables \cup {"stored_messages", "attachments", "events", "tags", "domains"}
PurgeOps == {"DeleteMessage", "DeleteSingleMessage", "ClearAllMessages", "ResetMessages", "ResetAll"}
Suppressing == Tables \ {"allowlist_entries"}

NoRequest == [kind |-> "none", first |-> CHOOSE s \in First : TRUE, tags |-> {},
              files |-> FALSE, orig |-> "none"]
NoTrigger == [kind |-> "none", msg |-> "none", rcpt |-> CHOOSE s \in First : TRUE]
NoPurge   == [op |-> "none", left |-> << >>, of |-> {}]

TypeOK ==
  /\ TablesTypeOK
  /\ domain \in BOOLEAN /\ auto \in BOOLEAN /\ delay \in Nat
  /\ msgs \subseteq Sends /\ atts \subseteq Sends /\ events \subseteq Sends
  /\ tagRows \subseteq Tags
  /\ pc \in [Sends -> SendPcs]
  /\ rq \in [Sends -> [kind : {"none", "send", "mime", "resend"}, first : First,
                       tags : SUBSET Tags, files : BOOLEAN, orig : Sends \cup {"none"}]]
  /\ to \in [Sends -> Seq(Strings)]
  /\ pos \in [Sends -> Nat]
  /\ tpc \in [Triggers -> TrigPcs]
  /\ trig \in [Triggers -> [kind : AllKinds \cup {"none"}, msg : Sends \cup {"none"}, rcpt : First]]
  /\ purge \in [Purgers -> [op : PurgeOps \cup {"none"}, left : Seq(PurgeTables \cup {"config"}),
                          of : SUBSET Sends]]
  /\ faulted \subseteq Sends \cup Triggers /\ torn \subseteq Sends /\ kept \subseteq Sends
  /\ alone \subseteq Purgers
  /\ steady \in [Sends -> SUBSET (Suppressing \X Strings)]
  /\ listed \in [Sends -> BOOLEAN]
  /\ shield \in [Triggers -> [always : SUBSET Keys, ever : BOOLEAN]]

Init ==
  /\ TablesInit
  /\ domain = TRUE /\ auto = TRUE /\ delay = 0
  /\ msgs = {} /\ atts = {} /\ events = {} /\ tagRows = {}
  /\ pc = [r \in Sends |-> "idle"] /\ rq = [r \in Sends |-> NoRequest]
  /\ to = [r \in Sends |-> << >>] /\ pos = [r \in Sends |-> 1]
  /\ tpc = [t \in Triggers |-> "idle"] /\ trig = [t \in Triggers |-> NoTrigger]
  /\ purge = [p \in Purgers |-> NoPurge]
  /\ steady = [r \in Sends |-> {}] /\ listed = [r \in Sends |-> FALSE]
  /\ shield = [t \in Triggers |-> [always |-> {}, ever |-> FALSE]]
  /\ faulted = {} /\ torn = {} /\ kept = {} /\ alone = {}

-----------------------------------------------------------------------------
(* internal/message: SendMessage, SendMIMEMessage and ResendMessage.       *)

Goto(r, at) == pc' = [pc EXCEPT ![r] = at]
Fault(x)    == x \in Faulty /\ faulted' = faulted \cup {x}
NoFault     == UNCHANGED faulted

sendElse == <<tableVars, batch, confVars, trigVars, purge, kept>>

Receive(r, kind, first, tags, files, orig) ==
  /\ pc[r] = "idle"
  /\ kind \in Asks[r]
  /\ rq' = [rq EXCEPT ![r] = [kind |-> kind, first |-> first, tags |-> tags,
                              files |-> files, orig |-> orig]]
  /\ Goto(r, "store")
  /\ NoFault
  /\ UNCHANGED <<mailVars, to, pos, sendElse>>

SendMessage(r) ==
  /\ domain
  /\ \E s \in First, tags \in SUBSET Tags, files \in Files :
       Receive(r, "send", s, tags, files, "none")

SendMIMEMessage(r) ==
  /\ domain
  /\ \E s \in First, tags \in SUBSET Tags : Receive(r, "mime", s, tags, FALSE, "none")

\* The domain's row is not looked up.  "files" records what the original had.
ResendMessage(r) ==
  \E o \in msgs, s \in First : Receive(r, "resend", s, rq[o].tags, o \in atts, o)

Store(r) ==
  /\ pc[r] = "store"
  /\ \/ /\ msgs' = msgs \cup {r}
        /\ Goto(r, CASE rq[r].kind = "send" -> "attach"
                     [] rq[r].kind = "resend" -> "copy"
                     [] OTHER -> "answered")
        /\ NoFault
     \/ Fault(r) /\ Goto(r, "refused") /\ UNCHANGED msgs
  /\ UNCHANGED <<atts, events, tagRows, rq, to, pos, sendElse>>

\* One INSERT that may fail unnoticed.
SaveAttachment(r) ==
  \/ atts' = atts \cup {r} /\ NoFault
  \/ Fault(r) /\ UNCHANGED atts

Attach(r) ==
  /\ pc[r] = "attach"
  /\ Goto(r, "tags")
  /\ IF rq[r].files THEN SaveAttachment(r) ELSE UNCHANGED <<atts, faulted>>
  /\ UNCHANGED <<msgs, events, tagRows, rq, to, pos, sendElse>>

\* The operators named ...Bug are plausible mistakes in the code modelled by
\* the definition below them.  No action uses them: each is there to show
\* which property would catch it.
ReadOwnAttachmentsBug(r) ==
  /\ pc[r] = "copy"
  /\ \/ Goto(r, IF r \in atts THEN "paste" ELSE "answered") /\ NoFault
     \/ Fault(r) /\ Goto(r, "answered")
  /\ UNCHANGED <<mailVars, rq, to, pos, sendElse>>

\* ResendMessage reads the original's attachments after it stored the copy.
ReadOriginalAttachments(r) ==
  /\ pc[r] = "copy"
  /\ \/ Goto(r, IF rq[r].orig \in atts THEN "paste" ELSE "answered") /\ NoFault
     \/ Fault(r) /\ Goto(r, "answered")
  /\ UNCHANGED <<mailVars, rq, to, pos, sendElse>>

CopyAttachments(r) ==
  /\ pc[r] = "paste"
  /\ Goto(r, "answered")
  /\ SaveAttachment(r)
  /\ UNCHANGED <<msgs, events, tagRows, rq, to, pos, sendElse>>

\* A tag whose INSERT fails is taken to exist already.
EnsureTags(r) ==
  /\ pc[r] = "tags"
  /\ Goto(r, "expand")
  /\ \/ tagRows' = tagRows \cup rq[r].tags /\ NoFault
     \/ Fault(r) /\ \E lost \in SUBSET rq[r].tags : tagRows' = tagRows \cup (rq[r].tags \ lost)
  /\ UNCHANGED <<msgs, atts, events, rq, to, pos, sendElse>>

ExpandMailingLists(r) ==
  /\ pc[r] = "expand"
  /\ \E members \in Expansion[rq[r].first] :
       /\ to' = [to EXCEPT ![r] = members]
       /\ Goto(r, IF members = << >> THEN "answered" ELSE "accept")
  /\ NoFault
  /\ UNCHANGED <<mailVars, rq, pos, sendElse>>

\* The recipient the loop is at.
Rcpt(r) == to[r][pos[r]]

\* db.Create(&ev); a send request ignores its error.
Record(x, m) == \/ events' = events \cup {m} /\ NoFault
                \/ Fault(x) /\ UNCHANGED events

GenerateAcceptedEvent(r) ==
  /\ pc[r] = "accept"
  /\ Record(r, r)
  /\ Goto(r, "bounces")
  /\ UNCHANGED <<msgs, atts, tagRows, rq, to, pos, sendElse>>

\* An unsubscribe counts if it is for every tag or shares one with the message.
Applies(t, k, tags) ==
  t = "unsubscribes" => Star \in unsubTags[k] \/ unsubTags[k] \cap tags # {}

BlocksUnscopedBug(t, k, tags) == rows[t][k] # "none" /\ Applies(t, k, tags)

Blocks(t, k, tags) == Visible(t, k) /\ Applies(t, k, tags)

\* CheckSuppression reads the three lists one after the other, and takes a
\* failed read for an absent row.
CheckTable(r, t, next) ==
  /\ pc[r] = t
  /\ \/ Blocks(t, Rcpt(r), rq[r].tags) /\ Goto(r, "fail") /\ NoFault
     \/ ~Blocks(t, Rcpt(r), rq[r].tags) /\ Goto(r, next) /\ NoFault
     \/ Fault(r) /\ Goto(r, next)
  /\ UNCHANGED <<mailVars, rq, to, pos, sendElse>>

SkipUnsubscribesBug(r) == \/ CheckTable(r, "bounces", "complaints")
                          \/ CheckTable(r, "complaints", "auto")

CheckSuppression(r) == \/ CheckTable(r, "bounces", "complaints")
                       \/ CheckTable(r, "complaints", "unsubscribes")
                       \/ CheckTable(r, "unsubscribes", "auto")

\* The end of the loop body.
NextRecipient(r) ==
  IF pos[r] < Len(to[r])
  THEN /\ Goto(r, "accept")
       /\ pos' = [pos EXCEPT ![r] = @ + 1]
       /\ UNCHANGED to
  ELSE /\ Goto(r, "answered")
       /\ pos' = [pos EXCEPT ![r] = 1]
       /\ to' = [to EXCEPT ![r] = << >>]

GenerateSuppressionFailedEvent(r) ==
  /\ pc[r] = "fail"
  /\ Record(r, r)
  /\ NextRecipient(r)
  /\ UNCHANGED <<msgs, atts, tagRows, rq, sendElse>>

\* The two settings are read one after the other, without a lock.
ReadAutoDeliver(r) ==
  /\ pc[r] = "auto"
  /\ IF auto THEN Goto(r, "delay") /\ UNCHANGED <<to, pos>> ELSE NextRecipient(r)
  /\ NoFault
  /\ UNCHANGED <<mailVars, rq, sendElse>>

ReadDeliveryDelay(r) ==
  /\ pc[r] = "delay"
  /\ IF delay = 0 THEN Goto(r, "deliver") /\ UNCHANGED <<to, pos>> ELSE NextRecipient(r)
  /\ NoFault
  /\ UNCHANGED <<mailVars, rq, sendElse>>

GenerateDeliveryEvent(r) ==
  /\ pc[r] = "deliver"
  /\ Record(r, r)
  /\ NextRecipient(r)
  /\ UNCHANGED <<msgs, atts, tagRows, rq, sendElse>>

SendStep(r) ==
  \/ SendMessage(r) \/ SendMIMEMessage(r) \/ ResendMessage(r)
  \/ Store(r) \/ Attach(r) \/ ReadOriginalAttachments(r) \/ CopyAttachments(r)
  \/ EnsureTags(r) \/ ExpandMailingLists(r)
  \/ GenerateAcceptedEvent(r) \/ CheckSuppression(r) \/ GenerateSuppressionFailedEvent(r)
  \/ ReadAutoDeliver(r) \/ ReadDeliveryDelay(r) \/ GenerateDeliveryEvent(r)

-----------------------------------------------------------------------------
(* internal/event/handlers_mock_triggers.go.                               *)

trigElse == <<unsubTags, types, batch, confVars, sendVars, purge, msgs, atts, tagRows, kept>>

Ends(t, how) == /\ tpc' = [tpc EXCEPT ![t] = how]
                /\ trig' = [trig EXCEPT ![t] = NoTrigger]

TriggerLookup(t) ==
  /\ tpc[t] \in {"idle", "bounced", "spared"}
  /\ domain
  /\ \E m \in msgs, kind \in Kinds :
       trig' = [trig EXCEPT ![t] = [kind |-> kind, msg |-> m, rcpt |-> rq[m].first]]
  /\ tpc' = [tpc EXCEPT ![t] = "save"]
  /\ faulted' = faulted \ {t}
  /\ UNCHANGED <<rows, events, trigElse>>

\* Only the answer tells that the event was not saved: the handlers go on.
CreateAndSaveEvent(t) ==
  /\ tpc[t] = "save"
  /\ Record(t, trig[t].msg)
  /\ IF trig[t].kind \in {"failed", "complained"}
     THEN /\ tpc' = [tpc EXCEPT ![t] = IF trig[t].kind = "failed" THEN "address" ELSE "complaint"]
          /\ UNCHANGED trig
     ELSE Ends(t, "idle")
  /\ UNCHANGED <<rows, trigElse>>

\* isAllowlisted: the address, then its domain; a failed read means no.
AllowedUnscopedBug(k, type) ==
  k \in Keys /\ rows["allowlist_entries"][k] # "none" /\ types[k] = type

Allowed(k, type) == k \in Keys /\ Visible("allowlist_entries", k) /\ types[k] = type

ReadAllowlist(t, at, k, type, next) ==
  /\ tpc[t] = at
  /\ \/ Allowed(k, type) /\ NoFault /\ Ends(t, "spared")
     \/ /\ (~Allowed(k, type) /\ NoFault) \/ Fault(t)
        /\ tpc' = [tpc EXCEPT ![t] = next]
        /\ UNCHANGED trig
  /\ UNCHANGED <<rows, events, trigElse>>

AddressOnlyBug(t) == ReadAllowlist(t, "address", trig[t].rcpt, "address", "bounce")

IsAllowlisted(t) == \/ ReadAllowlist(t, "address", trig[t].rcpt, "address", "host")
                    \/ ReadAllowlist(t, "host", HostOf[trig[t].rcpt], "domain", "bounce")

UpsertFor(t, table, at, next) ==
  /\ tpc[t] = at
  /\ Ends(t, next)
  /\ \/ Upsert(table, trig[t].rcpt) /\ NoFault
     \/ Fault(t) /\ UNCHANGED rows
  /\ UNCHANGED <<events, trigElse>>

TriggerFailBounces(t)      == UpsertFor(t, "bounces", "bounce", "bounced")
TriggerComplainComplains(t) == UpsertFor(t, "complaints", "complaint", "idle")

TriggerStep(t) == \/ TriggerLookup(t) \/ CreateAndSaveEvent(t) \/ IsAllowlisted(t)
                  \/ TriggerFailBounces(t) \/ TriggerComplainComplains(t)

-----------------------------------------------------------------------------
(* The requests that delete.  Each executes its DELETE statements in turn; *)
(* the two resets stop at the first that fails, the others ignore errors.  *)

ForgetsEventsBug(op) ==
  CASE op = "DeleteSingleMessage" -> <<"attachments", "stored_messages">>
    [] op = "DeleteMessage"       -> <<"attachments", "stored_messages">>
    [] OTHER -> <<"stored_messages", "events", "attachments">>

ForgetsComplaintsBug(op) ==
  <<"attachments", "events", "stored_messages", "bounces", "unsubscribes",
    "allowlist_entries", "tags", "domains", "config">>

\* DeleteMessage leaves the events; the others delete them too.
Statements(op) ==
  CASE op = "DeleteMessage"       -> <<"attachments", "stored_messages">>
    [] op = "DeleteSingleMessage" -> <<"attachments", "events", "stored_messages">>
    [] op = "ClearAllMessages"    -> <<"stored_messages", "events", "attachments">>
    [] op = "ResetMessages"       -> <<"attachments", "events", "stored_messages">>
    [] op = "ResetAll"            -> <<"attachments", "events", "stored_messages", "bounces",
                                       "complaints", "unsubscribes", "allowlist_entries",
                                       "tags", "domains", "config">>
    [] OTHER -> << >>

OneMessage  == {"DeleteMessage", "DeleteSingleMessage"}
Strict      == {"ResetMessages", "ResetAll"}
AllMessages == Strict \cup {"ClearAllMessages"}

purgeElse == <<batch, sendVars, trigVars, faulted>>

\* of: the messages the WHERE clause selects.
BeginPurge(p, op, of) ==
  /\ purge[p].left = << >>
  /\ purge' = [purge EXCEPT ![p] = [op |-> op, left |-> Statements(op), of |-> of]]
  /\ kept' = IF op = "DeleteMessage" THEN kept \cup of ELSE kept
  /\ UNCHANGED <<tableVars, mailVars, confVars, purgeElse>>

DeleteOneMessage(p) == \E op \in Purges \cap OneMessage, m \in msgs : BeginPurge(p, op, {m})
DeleteEverything(p) == \E op \in Purges \cap AllMessages : BeginPurge(p, op, Sends)

\* The request goes on with its other statements, or ends.
Then(p, left) ==
  purge' = [purge EXCEPT ![p] = IF left = << >> THEN NoPurge ELSE [@ EXCEPT !.left = left]]

Without(table, name, gone) == IF name = table THEN gone ELSE {}

\* DELETE FROM name: the suppression rows go for good here.
DeleteRows(name, of) ==
  /\ msgs' = msgs \ Without("stored_messages", name, of)
  /\ atts' = atts \ Without("attachments", name, of)
  /\ events' = events \ Without("events", name, of)
  /\ tagRows' = tagRows \ Without("tags", name, Tags)
  /\ rows' = [t \in Tables |-> [k \in Keys |-> IF t = name THEN "none" ELSE rows[t][k]]]
  /\ unsubTags' = IF name = "unsubscribes" THEN [k \in Keys |-> {}] ELSE unsubTags
  /\ types' = IF name = "allowlist_entries" THEN [k \in Keys |-> "address"] ELSE types
  /\ domain' = (domain /\ name # "domains")

ExecuteStatement(p) ==
  /\ purge[p].left # << >>
  /\ Head(purge[p].left) # "config"
  /\ DeleteRows(Head(purge[p].left), purge[p].of)
  /\ Then(p, Tail(purge[p].left))
  /\ UNCHANGED <<auto, delay, kept, purgeElse>>

StatementFails(p) ==
  /\ p \in Faulty
  /\ purge[p].left # << >>
  /\ Head(purge[p].left) # "config"
  /\ Then(p, IF purge[p].op \in Strict THEN << >> ELSE Tail(purge[p].left))
  /\ UNCHANGED <<tableVars, mailVars, confVars, kept, purgeElse>>

\* h.config = defaultConfig()
RestoreConfig(p) ==
  /\ purge[p].left # << >>
  /\ Head(purge[p].left) = "config"
  /\ auto' = TRUE /\ delay' = 0
  /\ Then(p, Tail(purge[p].left))
  /\ UNCHANGED <<tableVars, mailVars, domain, kept, purgeElse>>

PurgeStep(p) == \/ DeleteOneMessage(p) \/ DeleteEverything(p)
                \/ ExecuteStatement(p) \/ StatementFails(p) \/ RestoreConfig(p)

-----------------------------------------------------------------------------
(* The rest of the API.                                                    *)

apiElse == <<sendVars, trigVars, purge, faulted, kept>>

AddEntry ==
  \/ \E k \in Touched["bounces"]      : CreateBounce(k)
  \/ \E k \in Touched["complaints"]   : CreateComplaint(k)
  \/ \E k \in Touched["unsubscribes"], g \in SUBSET Tags : CreateUnsubscribe(k, g)
  \/ \E k \in Touched["allowlist_entries"] : \E type \in GivenAs[k] : CreateAllow(k, type)

RemoveEntry ==
  \/ \E k \in Touched["bounces"]      : DeleteBounce(k)
  \/ \E k \in Touched["complaints"]   : DeleteComplaint(k)
  \/ \E k \in Touched["unsubscribes"] : DeleteUnsubscribe(k)
  \/ \E k \in Touched["allowlist_entries"] : DeleteAllow(k)
  \/ /\ "Clear" \in Purges
     /\ ClearBounces \/ ClearComplaints \/ ClearUnsubscribes \/ ClearAllowlist

StartBatch(b) ==
  \/ \E ks \in Imported["bounces"]    : BounceBatch(b, ks)
  \/ \E ks \in Imported["complaints"] : ComplaintBatch(b, ks)
  \/ \E ks \in Imported["unsubscribes"], g \in SUBSET Tags : UnsubscribeBatch(b, ks, g)
  \/ \E ks \in Imported["allowlist_entries"] :
       \E type \in [DOMAIN ks -> AllowTypes] :
         (\A i \in DOMAIN ks : type[i] \in GivenAs[ks[i]]) /\ AllowlistImport(b, ks, type)

SuppressionRequest ==
  /\ (AddEntry \/ RemoveEntry) /\ UNCHANGED batch
  /\ UNCHANGED <<mailVars, confVars, apiElse>>

BatchRequest(b) ==
  /\ StartBatch(b) \/ BatchRow(b)
  /\ UNCHANGED <<mailVars, confVars, apiElse>>

DeleteTag(tag) ==
  /\ "DeleteTag" \in Purges
  /\ tag \in tagRows
  /\ tagRows' = tagRows \ {tag}
  /\ UNCHANGED <<tableVars, batch, msgs, atts, events, confVars, apiElse>>

CreateDomain ==
  /\ ~domain
  /\ domain' = TRUE
  /\ UNCHANGED <<tableVars, batch, mailVars, auto, delay, apiElse>>

\* PUT /mock/config assigns the fields it is given one after the other.
UpdateConfig ==
  /\ \/ auto' \in AutoValues /\ UNCHANGED delay
     \/ delay' \in DelayValues /\ UNCHANGED auto
  /\ UNCHANGED <<tableVars, batch, mailVars, domain, apiElse>>

-----------------------------------------------------------------------------
(* History.  It is recomputed at every step and read by no action.         *)

Checking == {"bounces", "complaints", "unsubscribes", "auto"}

\* The entries that block the recipient of r, under any form of its address.
Blocking(r) == {e \in Suppressing \X {Rcpt(r), Bare[Rcpt(r)]} : Blocks(e[1], e[2], rq[r].tags)}

\* A list has the recipient of r: an entry that was not deleted and, if it is an
\* unsubscribe, is for every tag or for one of the message's.
Listed(r) == \E t \in Suppressing :
               /\ rows[t][Rcpt(r)] = "live"
               /\ t = "unsubscribes" => unsubTags[Rcpt(r)] \cap ({Star} \cup rq[r].tags) # {}

Deciding == {"address", "host", "bounce"}

\* The entries that cover the recipient of t: its address as an address, its host
\* as a domain.
Covering(t) == {k \in {trig[t].rcpt, HostOf[trig[t].rcpt]} \cap Keys :
                  /\ Visible("allowlist_entries", k)
                  /\ types[k] = IF k = trig[t].rcpt THEN "address" ELSE "domain"}

Purging    == \E p \in Purgers : purge[p].left # << >>
Writing(m) == \/ pc[m] \notin {"idle", "answered", "refused"}
              \/ \E t \in Triggers : tpc[t] = "save" /\ trig[t].msg = m

Watch ==
  /\ steady' = [r \in Sends |->
       IF pc'[r] \notin Checking THEN {}
       ELSE IF pc[r] = "accept" THEN Blocking(r)'
       ELSE steady[r] \cap Blocking(r)']
  /\ listed' = [r \in Sends |->
       IF pc'[r] \notin Checking THEN pc'[r] = "fail" /\ listed[r]
       ELSE (pc[r] # "accept" /\ listed[r]) \/ Listed(r)']
  /\ shield' = [t \in Triggers |->
       IF tpc'[t] = "spared" THEN [always |-> {}, ever |-> shield[t].ever]
       ELSE IF tpc'[t] \notin Deciding THEN [always |-> {}, ever |-> FALSE]
       ELSE IF tpc[t] = "save" THEN [always |-> Covering(t)', ever |-> Covering(t)' # {}]
       ELSE [always |-> shield[t].always \cap Covering(t)',
             ever |-> shield[t].ever \/ Covering(t)' # {}]]
  /\ torn' = torn
       \cup {m \in Sends : (Purging \/ Purging') /\ (Writing(m) \/ Writing(m)')}
       \cup UNION {purge[p].of : p \in {q \in Purgers : StatementFails(q)}}
  /\ alone' = {p \in Purgers : /\ purge'[p].left # << >>
                               /\ purge[p].left = << >> \/ (p \in alone /\ purge' # purge)}

-----------------------------------------------------------------------------
Step ==
  \/ \E r \in Sends : SendStep(r)
  \/ \E t \in Triggers : TriggerStep(t)
  \/ \E p \in Purgers : PurgeStep(p)
  \/ SuppressionRequest
  \/ \E b \in Batches : BatchRequest(b)
  \/ \E tag \in Tags : DeleteTag(tag)
  \/ CreateDomain \/ UpdateConfig

Next == Step /\ Watch

Spec == Init /\ [][Next]_vars

-----------------------------------------------------------------------------
(* Safety.                                                                 *)

\* CheckSuppression (event.go:396-442) makes three reads while other requests
\* add and remove entries.  A recipient one entry blocked from the first read
\* to the last never passes the check, unless a read failed.
CheckIsSound ==
  \A r \in Sends : pc[r] = "auto" /\ r \notin faulted
                     => \A e \in steady[r] : e[2] # Rcpt(r)

\* The converse: a message is failed as suppressed only for the recipient the
\* loop is at, and only if some list had it, for the message's tags, at a moment
\* of the check.  Entries are soft-deleted, and the check reads them through
\* structs of its own (event.go:60-90): after a deletion delivery resumes.
FailedOnlyIfListed == \A r \in Sends : pc[r] = "fail" => listed[r]

\* TriggerFail decides on two reads of the allowlist (43-60) and writes the
\* bounce after them (259-273): an entry that was there all along prevents it.
ShieldedNotBounced ==
  \A t \in Triggers : tpc[t] = "bounce" /\ t \notin faulted => shield[t].always = {}

\* A permanent failure is spared its bounce only by an entry that was there.
SparedOnlyIfShielded == \A t \in Triggers : tpc[t] = "spared" => shield[t].ever

\* When no purge is at work, what is left of a message that is gone was
\* written by a request the purge overlapped, or spared by a failed statement,
\* or is the events DeleteMessage (message/handlers.go:634-655) leaves.
OrphansAreTorn ==
  ~Purging => /\ atts \subseteq msgs \cup torn
              /\ events \subseteq msgs \cup torn \cup kept

\* A resent copy has the attachments its original had when it was looked up
\* (handlers_mime.go:127-206), unless a statement failed or a purge overlapped.
ResendIsFaithful ==
  \A r \in msgs : rq[r].kind = "resend" /\ rq[r].files /\ pc[r] = "answered"
                    => r \in atts \cup torn \cup faulted \/ Purging

\* POST /mock/reset during which nothing else ran has emptied every table by
\* the time it restores the configuration (mock/handlers.go:193-246).
ResetLeavesNothing ==
  \A p \in alone : Head(purge[p].left) = "config"
    => /\ msgs = {} /\ atts = {} /\ events = {} /\ tagRows = {} /\ ~domain
       /\ \A t \in Tables, k \in Keys : rows[t][k] = "none"

-----------------------------------------------------------------------------
(* What the repository's documents say of the program.                     *)

\* implementation_plan/suppressions.md:296, "After deletion, delivery to the
\* address resumes until it triggers suppression again.": once TriggerFail has
\* written the bounce, the address is suppressed.
BouncedIsSuppressed ==
  [][\A t \in Triggers : tpc[t] = "bounce" /\ tpc'[t] = "bounced" /\ t \notin faulted'
       => Visible("bounces", trig[t].rcpt)']_vars

\* implementation_plan/suppressions.md:3, "When an address appears on any
\* suppression list, Mailgun drops the message": also when the To field gives
\* the address with a display name.
AnyFormIsChecked ==
  \A r \in Sends : pc[r] = "auto" /\ r \notin faulted => steady[r] = {}
=============================================================================
