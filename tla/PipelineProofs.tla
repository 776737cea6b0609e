--------------------------- MODULE PipelineProofs ---------------------------
(***************************************************************************)
(* What the requests of Pipeline guarantee for any number of them, any     *)
(* addresses, hosts, tags and configurations, and any statement failing.   *)
(***************************************************************************)
EXTENDS Pipeline, SequenceTheorems, TLAPS

USE DEF tableVars, mailVars, confVars, sendVars, trigVars,
        sendElse, trigElse, purgeElse, apiElse

-----------------------------------------------------------------------------
(* The suppression rows: what any statement may do to them.                *)

RowsType == [Tables -> [Keys -> {"none", "live", "deleted"}]]

\* A statement keeps the shape of the tables.
Kept == rows' \in RowsType

LEMMA KeptUnchanged == ASSUME rows \in RowsType, UNCHANGED rows PROVE Kept
  BY DEF Kept

LEMMA UpsertKeeps ==
  ASSUME rows \in RowsType, NEW t, NEW k, Upsert(t, k)
  PROVE  Kept
<1>1. CASE t \in Tables /\ k \in Keys
  BY <1>1 DEF Upsert, Kept, RowsType
<1>2. CASE t \in Tables /\ k \notin Keys
  BY <1>2 DEF Upsert, Kept, RowsType
<1>3. CASE t \notin Tables
  BY <1>3 DEF Upsert, Kept, RowsType
<1>4. QED
  BY <1>1, <1>2, <1>3

LEMMA SoftDeleteKeeps ==
  ASSUME rows \in RowsType, NEW t \in Tables, NEW k, SoftDelete(t, k)
  PROVE  Kept
  BY DEF SoftDelete, Try, Kept, RowsType

LEMMA SoftClearKeeps ==
  ASSUME rows \in RowsType, NEW t \in Tables, SoftClear(t)
  PROVE  Kept
  BY DEF SoftClear, Try, Kept, RowsType

LEMMA AddEntryKeeps == ASSUME rows \in RowsType, AddEntry PROVE Kept
<1>1. CASE \E k \in Touched["bounces"] : CreateBounce(k)
  BY <1>1, UpsertKeeps, KeptUnchanged DEF CreateBounce, Try
<1>2. CASE \E k \in Touched["complaints"] : CreateComplaint(k)
  BY <1>2, UpsertKeeps, KeptUnchanged DEF CreateComplaint, Try
<1>3. CASE \E k \in Touched["unsubscribes"], g \in SUBSET Tags : CreateUnsubscribe(k, g)
  BY <1>3, UpsertKeeps, KeptUnchanged DEF CreateUnsubscribe, Try
<1>4. CASE \E k \in Touched["allowlist_entries"] : \E type \in GivenAs[k] : CreateAllow(k, type)
  BY <1>4, UpsertKeeps, KeptUnchanged DEF CreateAllow, Try
<1>5. QED
  BY <1>1, <1>2, <1>3, <1>4 DEF AddEntry

LEMMA RemoveEntryKeeps == ASSUME rows \in RowsType, RemoveEntry PROVE Kept
<1> USE DEF Tables
<1>1. CASE \E k \in Touched["bounces"] : DeleteBounce(k)
  BY <1>1, SoftDeleteKeeps DEF DeleteBounce
<1>2. CASE \E k \in Touched["complaints"] : DeleteComplaint(k)
  BY <1>2, SoftDeleteKeeps DEF DeleteComplaint
<1>3. CASE \E k \in Touched["unsubscribes"] : DeleteUnsubscribe(k)
  BY <1>3, SoftDeleteKeeps DEF DeleteUnsubscribe
<1>4. CASE \E k \in Touched["allowlist_entries"] : DeleteAllow(k)
  BY <1>4, SoftDeleteKeeps DEF DeleteAllow
<1>5. CASE ClearBounces \/ ClearComplaints \/ ClearUnsubscribes \/ ClearAllowlist
  BY <1>5, SoftClearKeeps DEF ClearBounces, ClearComplaints, ClearUnsubscribes, ClearAllowlist
<1>6. QED
  BY <1>1, <1>2, <1>3, <1>4, <1>5 DEF RemoveEntry

LEMMA BatchKeeps ==
  ASSUME rows \in RowsType, NEW b \in Batches, BatchRequest(b)
  PROVE  Kept
<1>1. CASE StartBatch(b)
  <2>1. UNCHANGED rows
    BY <1>1 DEF StartBatch, BounceBatch, ComplaintBatch, UnsubscribeBatch, AllowlistImport, Begin
  <2>2. QED
    BY <2>1, KeptUnchanged
<1>2. CASE BatchRow(b)
  <2>1. \E t, k : Upsert(t, k) \/ UNCHANGED rows
    BY <1>2 DEF BatchRow, CreateBounce, CreateComplaint, CreateUnsubscribe, CreateAllow, Try
  <2>2. QED
    BY <2>1, UpsertKeeps, KeptUnchanged
<1>3. QED
  BY <1>1, <1>2 DEF BatchRequest

LEMMA SendKeeps ==
  ASSUME rows \in RowsType, NEW r \in Sends, SendStep(r)
  PROVE  UNCHANGED rows
  BY DEF SendStep, SendMessage, SendMIMEMessage, ResendMessage, Receive, Store, Attach,
         ReadOriginalAttachments, CopyAttachments, EnsureTags, ExpandMailingLists,
         GenerateAcceptedEvent, CheckSuppression, CheckTable, GenerateSuppressionFailedEvent,
         ReadAutoDeliver, ReadDeliveryDelay, GenerateDeliveryEvent

LEMMA TriggerKeeps ==
  ASSUME rows \in RowsType, NEW t \in Triggers, TriggerStep(t)
  PROVE  Kept
<1>1. CASE TriggerLookup(t) \/ CreateAndSaveEvent(t) \/ IsAllowlisted(t)
  BY <1>1, KeptUnchanged DEF TriggerLookup, CreateAndSaveEvent, IsAllowlisted, ReadAllowlist
<1>2. CASE TriggerFailBounces(t) \/ TriggerComplainComplains(t)
  BY <1>2, UpsertKeeps, KeptUnchanged DEF TriggerFailBounces, TriggerComplainComplains, UpsertFor
<1>3. QED
  BY <1>1, <1>2 DEF TriggerStep

LEMMA PurgeKeeps ==
  ASSUME rows \in RowsType, NEW p \in Purgers, PurgeStep(p)
  PROVE  Kept
<1>1. CASE ExecuteStatement(p)
  <2>1. \E name : rows' = [t \in Tables |-> [k \in Keys |-> IF t = name THEN "none" ELSE rows[t][k]]]
    BY <1>1 DEF ExecuteStatement, DeleteRows
  <2>2. QED
    BY <2>1 DEF Kept, RowsType
<1>2. CASE DeleteOneMessage(p) \/ DeleteEverything(p) \/ StatementFails(p) \/ RestoreConfig(p)
  BY <1>2, KeptUnchanged
     DEF DeleteOneMessage, DeleteEverything, BeginPurge, StatementFails, RestoreConfig
<1>3. QED
  BY <1>1, <1>2 DEF PurgeStep

-----------------------------------------------------------------------------
(* The program counters and what the requests carry are functions.         *)

Shape == /\ pc \in [Sends -> SendPcs]
         /\ rq = [r \in Sends |-> rq[r]]
         /\ to = [r \in Sends |-> to[r]]
         /\ pos = [r \in Sends |-> pos[r]]
         /\ tpc \in [Triggers -> TrigPcs]
         /\ trig = [t \in Triggers |-> trig[t]]

LEMMA ShapeInit == Init => Shape
  BY DEF Init, Shape, SendPcs, TrigPcs

LEMMA ShapeNextRecipient ==
  ASSUME Shape, NEW r \in Sends, NextRecipient(r), UNCHANGED <<rq, trigVars>>
  PROVE  Shape'
<1>1. CASE pos[r] < Len(to[r])
  BY <1>1 DEF NextRecipient, Shape, Goto, SendPcs
<1>2. CASE ~(pos[r] < Len(to[r]))
  BY <1>2 DEF NextRecipient, Shape, Goto, SendPcs
<1>3. QED
  BY <1>1, <1>2

LEMMA ShapeSend ==
  ASSUME Shape, NEW r \in Sends, SendStep(r)
  PROVE  Shape'
<1>1. CASE SendMessage(r) \/ SendMIMEMessage(r) \/ ResendMessage(r)
  <2>1. \E v : rq' = [rq EXCEPT ![r] = v]
    BY <1>1 DEF SendMessage, SendMIMEMessage, ResendMessage, Receive
  <2>2. Goto(r, "store") /\ UNCHANGED <<to, pos, trigVars>>
    BY <1>1 DEF SendMessage, SendMIMEMessage, ResendMessage, Receive
  <2>3. QED
    BY <2>1, <2>2 DEF Shape, Goto, SendPcs
<1>2. CASE Store(r)
  <2>1. \E at \in SendPcs : Goto(r, at)
    BY <1>2 DEF Store, SendPcs
  <2>2. UNCHANGED <<rq, to, pos, trigVars>>
    BY <1>2 DEF Store
  <2>3. QED
    BY <2>1, <2>2 DEF Shape, Goto
<1>3. CASE Attach(r) \/ EnsureTags(r) \/ CopyAttachments(r)
  BY <1>3 DEF Attach, EnsureTags, CopyAttachments, Shape, Goto, SendPcs
<1>4. CASE ReadOriginalAttachments(r)
  BY <1>4 DEF ReadOriginalAttachments, Shape, Goto, SendPcs
<1>5. CASE ExpandMailingLists(r)
  BY <1>5 DEF ExpandMailingLists, Shape, Goto, SendPcs
<1>6. CASE GenerateAcceptedEvent(r)
  BY <1>6 DEF GenerateAcceptedEvent, Shape, Goto, SendPcs
<1>7. CASE CheckSuppression(r)
  BY <1>7 DEF CheckSuppression, CheckTable, Shape, Goto, SendPcs
<1>8. CASE GenerateSuppressionFailedEvent(r) \/ GenerateDeliveryEvent(r)
  BY <1>8, ShapeNextRecipient DEF GenerateSuppressionFailedEvent, GenerateDeliveryEvent
<1>9. CASE ReadAutoDeliver(r)
  BY <1>9, ShapeNextRecipient DEF ReadAutoDeliver, Shape, Goto, SendPcs
<1>10. CASE ReadDeliveryDelay(r)
  BY <1>10, ShapeNextRecipient DEF ReadDeliveryDelay, Shape, Goto, SendPcs
<1>11. QED
  BY <1>1, <1>2, <1>3, <1>4, <1>5, <1>6, <1>7, <1>8, <1>9, <1>10 DEF SendStep

LEMMA ShapeTrigger ==
  ASSUME Shape, NEW t \in Triggers, TriggerStep(t)
  PROVE  Shape'
<1>1. CASE TriggerLookup(t)
  BY <1>1 DEF TriggerLookup, Shape, TrigPcs
<1>2. CASE CreateAndSaveEvent(t)
  BY <1>2 DEF CreateAndSaveEvent, Ends, Shape, TrigPcs
<1>3. CASE IsAllowlisted(t)
  BY <1>3 DEF IsAllowlisted, ReadAllowlist, Ends, Shape, TrigPcs
<1>4. CASE TriggerFailBounces(t) \/ TriggerComplainComplains(t)
  BY <1>4 DEF TriggerFailBounces, TriggerComplainComplains, UpsertFor, Ends, Shape, TrigPcs
<1>5. QED
  BY <1>1, <1>2, <1>3, <1>4 DEF TriggerStep

\* The requests that are neither sends nor triggers leave both alone.
Elsewhere == UNCHANGED <<sendVars, trigVars, faulted>>

LEMMA StepKinds ==
  ASSUME Step
  PROVE  \/ \E r \in Sends : SendStep(r)
         \/ \E t \in Triggers : TriggerStep(t)
         \/ Elsewhere
<1>1. ASSUME NEW p \in Purgers, PurgeStep(p) PROVE Elsewhere
  BY <1>1 DEF PurgeStep, DeleteOneMessage, DeleteEverything, BeginPurge, ExecuteStatement,
              StatementFails, RestoreConfig, Elsewhere
<1>2. CASE SuppressionRequest \/ \E b \in Batches : BatchRequest(b)
  BY <1>2 DEF SuppressionRequest, BatchRequest, Elsewhere
<1>3. CASE CreateDomain \/ UpdateConfig \/ \E tag \in Tags : DeleteTag(tag)
  BY <1>3 DEF CreateDomain, UpdateConfig, DeleteTag, Elsewhere
<1>4. QED
  BY <1>1, <1>2, <1>3 DEF Step

LEMMA TriggerLeavesSends ==
  ASSUME NEW t \in Triggers, TriggerStep(t)
  PROVE  UNCHANGED sendVars
  BY DEF TriggerStep, TriggerLookup, CreateAndSaveEvent, IsAllowlisted, ReadAllowlist,
         TriggerFailBounces, TriggerComplainComplains, UpsertFor

LEMMA SendLeavesTriggers ==
  ASSUME NEW r \in Sends, SendStep(r)
  PROVE  UNCHANGED trigVars
  BY DEF SendStep, SendMessage, SendMIMEMessage, ResendMessage, Receive, Store, Attach,
         ReadOriginalAttachments, CopyAttachments, EnsureTags, ExpandMailingLists,
         GenerateAcceptedEvent, CheckSuppression, CheckTable, GenerateSuppressionFailedEvent,
         ReadAutoDeliver, ReadDeliveryDelay, GenerateDeliveryEvent

LEMMA ShapeStep == Shape /\ [Next]_vars => Shape'
<1> SUFFICES ASSUME Shape, [Next]_vars PROVE Shape'
  OBVIOUS
<1>1. CASE UNCHANGED vars
  BY <1>1 DEF vars, Shape
<1>2. CASE Elsewhere
  BY <1>2 DEF Elsewhere, Shape
<1>3. QED
  BY <1>1, <1>2, ShapeSend, ShapeTrigger, StepKinds DEF Next

-----------------------------------------------------------------------------
(* CheckSuppression.                                                       *)

\* What a step may do to one send request r: its own move, or nothing.
SameSend(r) == /\ pc'[r] = pc[r] /\ rq'[r] = rq[r] /\ to'[r] = to[r] /\ pos'[r] = pos[r]
               /\ r \in faulted => r \in faulted'

LEMMA OthersMove ==
  ASSUME Shape, NEW r \in Sends, NEW q \in Sends, q # r, SendStep(q)
  PROVE  SameSend(r)
<1> USE DEF Shape, SameSend, Goto, Fault, NoFault
<1>1. CASE SendMessage(q) \/ SendMIMEMessage(q) \/ ResendMessage(q)
  <2>1. \E v : rq' = [rq EXCEPT ![q] = v]
    BY <1>1 DEF SendMessage, SendMIMEMessage, ResendMessage, Receive
  <2>2. Goto(q, "store") /\ UNCHANGED <<to, pos, faulted>>
    BY <1>1 DEF SendMessage, SendMIMEMessage, ResendMessage, Receive
  <2>3. QED
    BY <2>1, <2>2
<1>2. CASE Store(q)
  <2>1. \E at : Goto(q, at)
    BY <1>2 DEF Store
  <2>2. UNCHANGED <<rq, to, pos>> /\ faulted \subseteq faulted'
    BY <1>2 DEF Store
  <2>3. QED
    BY <2>1, <2>2
<1>3. CASE Attach(q) \/ CopyAttachments(q)
  BY <1>3 DEF Attach, CopyAttachments, SaveAttachment
<1>4. CASE ReadOriginalAttachments(q) \/ EnsureTags(q)
  BY <1>4 DEF ReadOriginalAttachments, EnsureTags
<1>5. CASE ExpandMailingLists(q) \/ GenerateAcceptedEvent(q)
  BY <1>5 DEF ExpandMailingLists, GenerateAcceptedEvent, Record
<1>6. CASE CheckSuppression(q)
  BY <1>6 DEF CheckSuppression, CheckTable
<1>7. CASE GenerateSuppressionFailedEvent(q) \/ GenerateDeliveryEvent(q)
  BY <1>7 DEF GenerateSuppressionFailedEvent, GenerateDeliveryEvent, Record, NextRecipient
<1>8. CASE ReadAutoDeliver(q) \/ ReadDeliveryDelay(q)
  BY <1>8 DEF ReadAutoDeliver, ReadDeliveryDelay, NextRecipient
<1>9. QED
  BY <1>1, <1>2, <1>3, <1>4, <1>5, <1>6, <1>7, <1>8 DEF SendStep

LEMMA OwnOrNone ==
  ASSUME Shape, Step, NEW r \in Sends
  PROVE  SendStep(r) \/ SameSend(r)
<1>1. ASSUME NEW t \in Triggers, TriggerStep(t) PROVE SameSend(r)
  <2>1. faulted \ {t} \subseteq faulted'
    BY <1>1 DEF TriggerStep, TriggerLookup, CreateAndSaveEvent, IsAllowlisted, ReadAllowlist,
                TriggerFailBounces, TriggerComplainComplains, UpsertFor, Record, Fault, NoFault
  <2>2. t # r
    BY PipelineAssumption
  <2>3. QED
    BY <1>1, <2>1, <2>2, TriggerLeavesSends DEF SameSend
<1>2. CASE Elsewhere
  BY <1>2 DEF Elsewhere, SameSend
<1>3. QED
  BY <1>1, <1>2, OthersMove, StepKinds

\* Within the check a request only moves on by reading the next list.
LEMMA EntersCheck ==
  ASSUME Shape, NEW r \in Sends, SendStep(r), pc'[r] \in Checking
  PROVE  (pc[r] = "accept" /\ pc'[r] = "bounces") \/ CheckSuppression(r)
<1> USE DEF Shape, Goto, Checking, SendPcs
<1>1. CASE SendMessage(r) \/ SendMIMEMessage(r) \/ ResendMessage(r)
  <2>1. Goto(r, "store")
    BY <1>1 DEF SendMessage, SendMIMEMessage, ResendMessage, Receive
  <2>2. QED
    BY <2>1
<1>2. CASE Store(r)
  <2>1. \E at \in {"attach", "copy", "answered", "refused"} : Goto(r, at)
    BY <1>2 DEF Store
  <2>2. QED
    BY <2>1
<1>3. CASE Attach(r) \/ CopyAttachments(r) \/ ReadOriginalAttachments(r) \/ EnsureTags(r)
  BY <1>3 DEF Attach, CopyAttachments, ReadOriginalAttachments, EnsureTags
<1>4. CASE ExpandMailingLists(r)
  BY <1>4 DEF ExpandMailingLists
<1>5. CASE GenerateAcceptedEvent(r)
  BY <1>5 DEF GenerateAcceptedEvent
<1>6. CASE GenerateSuppressionFailedEvent(r) \/ GenerateDeliveryEvent(r)
  BY <1>6 DEF GenerateSuppressionFailedEvent, GenerateDeliveryEvent, NextRecipient
<1>7. CASE ReadAutoDeliver(r) \/ ReadDeliveryDelay(r)
  BY <1>7 DEF ReadAutoDeliver, ReadDeliveryDelay, NextRecipient
<1>8. QED
  BY <1>1, <1>2, <1>3, <1>4, <1>5, <1>6, <1>7 DEF SendStep

\* A list already read holds nothing that has blocked the recipient all along.
Cleared(r, t) == <<t, Rcpt(r)>> \notin steady[r]

CheckInv ==
  \A r \in Sends :
    /\ pc[r] \in Checking => /\ steady[r] \subseteq Blocking(r)
                             /\ Listed(r) => listed[r]
    /\ pc[r] = "fail" => listed[r]
    /\ r \notin faulted =>
         /\ pc[r] \in {"complaints", "unsubscribes", "auto"} => Cleared(r, "bounces")
         /\ pc[r] \in {"unsubscribes", "auto"} => Cleared(r, "complaints")
         /\ pc[r] = "auto" => Cleared(r, "unsubscribes")

LEMMA CheckInit == Init => CheckInv
  BY DEF Init, CheckInv, Checking

LEMMA SteadyShrinks ==
  ASSUME Watch, NEW r \in Sends, pc'[r] \in Checking
  PROVE  /\ steady'[r] \subseteq Blocking(r)'
         /\ pc[r] # "accept" => steady'[r] \subseteq steady[r]
         /\ Listed(r)' => listed'[r]
<1>1. /\ steady'[r] \subseteq Blocking(r)'
      /\ pc[r] # "accept" => steady'[r] \subseteq steady[r]
  BY DEF Watch
<1>2. listed'[r] = ((pc[r] # "accept" /\ listed[r]) \/ Listed(r)')
  BY DEF Watch
<1>3. QED
  BY <1>1, <1>2, Zenon

\* A request is about to record the failure: what was noticed stays noticed.
LEMMA FailKeepsListed ==
  ASSUME Watch, NEW r \in Sends, pc'[r] = "fail", listed[r]
  PROVE  listed'[r]
<1>1. listed'[r] = (pc'[r] = "fail" /\ listed[r])
  BY DEF Watch, Checking
<1>2. QED
  BY <1>1, Zenon

\* Only the check leads there, from a list that has the recipient.
LEMMA FailsOnListed ==
  ASSUME Shape, NEW r \in Sends, SendStep(r), pc'[r] = "fail"
  PROVE  pc[r] \in Checking /\ Listed(r)
<1> USE DEF Shape, Goto, SendPcs
<1>1. CASE SendMessage(r) \/ SendMIMEMessage(r) \/ ResendMessage(r)
  <2>1. Goto(r, "store")
    BY <1>1 DEF SendMessage, SendMIMEMessage, ResendMessage, Receive
  <2>2. QED
    BY <2>1
<1>2. CASE Store(r)
  <2>1. \E at \in {"attach", "copy", "answered", "refused"} : Goto(r, at)
    BY <1>2 DEF Store
  <2>2. QED
    BY <2>1
<1>3. CASE Attach(r) \/ CopyAttachments(r) \/ ReadOriginalAttachments(r) \/ EnsureTags(r)
  BY <1>3 DEF Attach, CopyAttachments, ReadOriginalAttachments, EnsureTags
<1>4. CASE ExpandMailingLists(r)
  BY <1>4 DEF ExpandMailingLists
<1>5. CASE GenerateAcceptedEvent(r)
  BY <1>5 DEF GenerateAcceptedEvent
<1>6. CASE GenerateSuppressionFailedEvent(r) \/ GenerateDeliveryEvent(r)
  BY <1>6 DEF GenerateSuppressionFailedEvent, GenerateDeliveryEvent, NextRecipient
<1>7. CASE ReadAutoDeliver(r) \/ ReadDeliveryDelay(r)
  BY <1>7 DEF ReadAutoDeliver, ReadDeliveryDelay, NextRecipient
<1>8. ASSUME NEW t \in Suppressing, NEW next \in {"complaints", "unsubscribes", "auto"},
             CheckTable(r, t, next)
      PROVE  pc[r] = t /\ Listed(r)
  <2>1. pc[r] = t /\ Blocks(t, Rcpt(r), rq[r].tags)
    BY <1>8 DEF CheckTable
  <2>2. t = "unsubscribes" => unsubTags[Rcpt(r)] \cap ({Star} \cup rq[r].tags) # {}
    BY <2>1 DEF Blocks, Applies
  <2>3. QED
    BY <2>1, <2>2 DEF Listed, Blocks, Visible
<1>9. {"bounces", "complaints", "unsubscribes"} \subseteq Suppressing
  BY DEF Suppressing, Tables
<1>10. QED
  BY <1>1, <1>2, <1>3, <1>4, <1>5, <1>6, <1>7, <1>8, <1>9 DEF SendStep, CheckSuppression, Checking

LEMMA ListRead ==
  ASSUME Shape, Watch, CheckInv, NEW r \in Sends, CheckSuppression(r),
         pc'[r] \in Checking, r \notin faulted'
  PROVE  /\ pc'[r] \in {"complaints", "unsubscribes", "auto"} => Cleared(r, "bounces")'
         /\ pc'[r] \in {"unsubscribes", "auto"} => Cleared(r, "complaints")'
         /\ pc'[r] = "auto" => Cleared(r, "unsubscribes")'
<1>1. /\ UNCHANGED <<to, pos, rq, rows, unsubTags>>
      /\ r \notin faulted
      /\ pc[r] # "accept"
      /\ Rcpt(r)' = Rcpt(r)
  BY DEF CheckSuppression, CheckTable, Rcpt, Fault, NoFault
<1>2. ASSUME NEW t, ~Blocks(t, Rcpt(r), rq[r].tags)
      PROVE  Cleared(r, t)'
  <2>1. ~Blocks(t, Rcpt(r), rq[r].tags)'
    BY <1>1, <1>2 DEF Blocks, Visible, Applies
  <2>2. <<t, Rcpt(r)'>> \notin Blocking(r)'
    BY <2>1 DEF Blocking
  <2>3. QED
    BY <2>2, SteadyShrinks DEF Cleared
<1>3. ASSUME NEW t, Cleared(r, t) PROVE Cleared(r, t)'
  BY <1>1, <1>3, SteadyShrinks DEF Cleared
<1>4. CASE CheckTable(r, "bounces", "complaints")
  <2>1. pc'[r] = "complaints" /\ ~Blocks("bounces", Rcpt(r), rq[r].tags)
    BY <1>4 DEF CheckTable, Goto, Checking, Shape, Fault
  <2>2. QED
    BY <2>1, <1>2
<1>5. CASE CheckTable(r, "complaints", "unsubscribes")
  <2>1. pc'[r] = "unsubscribes" /\ ~Blocks("complaints", Rcpt(r), rq[r].tags)
    BY <1>5 DEF CheckTable, Goto, Checking, Shape, Fault
  <2>2. Cleared(r, "bounces")
    BY <1>1, <1>5 DEF CheckInv, CheckTable
  <2>3. QED
    BY <2>1, <2>2, <1>2, <1>3
<1>6. CASE CheckTable(r, "unsubscribes", "auto")
  <2>1. pc'[r] = "auto" /\ ~Blocks("unsubscribes", Rcpt(r), rq[r].tags)
    BY <1>6 DEF CheckTable, Goto, Checking, Shape, Fault
  <2>2. Cleared(r, "bounces") /\ Cleared(r, "complaints")
    BY <1>1, <1>6 DEF CheckInv, CheckTable
  <2>3. QED
    BY <2>1, <2>2, <1>2, <1>3
<1>7. QED
  BY <1>4, <1>5, <1>6 DEF CheckSuppression

LEMMA CheckStep == Shape /\ CheckInv /\ [Next]_vars => CheckInv'
<1> SUFFICES ASSUME Shape, CheckInv, [Next]_vars PROVE CheckInv'
  OBVIOUS
<1>1. CASE UNCHANGED vars
  BY <1>1 DEF vars, histVars, CheckInv, Cleared, Rcpt, Blocking, Blocks, Visible, Applies, Listed
<1>2. CASE Next
  <2>0. ASSUME NEW r \in Sends, pc'[r] = "fail" PROVE listed'[r]
    <3>1. Step /\ Watch
      BY <1>2 DEF Next
    <3>2. pc[r] = "fail" \/ (pc[r] \in Checking /\ Listed(r))
      BY <2>0, <3>1, OwnOrNone, FailsOnListed DEF SameSend
    <3>4. listed[r]
      BY <2>0, <3>2, Zenon DEF CheckInv
    <3>3. QED
      BY <2>0, <3>1, <3>4, FailKeepsListed
  <2> SUFFICES ASSUME NEW r \in Sends, pc'[r] \in Checking
               PROVE  /\ steady'[r] \subseteq Blocking(r)'
                      /\ Listed(r)' => listed'[r]
                      /\ r \notin faulted' =>
                           /\ pc'[r] \in {"complaints", "unsubscribes", "auto"} => Cleared(r, "bounces")'
                           /\ pc'[r] \in {"unsubscribes", "auto"} => Cleared(r, "complaints")'
                           /\ pc'[r] = "auto" => Cleared(r, "unsubscribes")'
    BY <2>0 DEF CheckInv, Checking
  <2>1. Step /\ Watch
    BY <1>2 DEF Next
  <2>2. steady'[r] \subseteq Blocking(r)' /\ (Listed(r)' => listed'[r])
    BY <2>1, SteadyShrinks
  <2>3. CASE SameSend(r)
    <3>1. pc[r] # "accept" /\ Rcpt(r)' = Rcpt(r)
      BY <2>3 DEF SameSend, Rcpt, Checking
    <3>2. steady'[r] \subseteq steady[r]
      BY <2>1, <3>1, SteadyShrinks
    <3>3. QED
      BY <2>2, <2>3, <3>1, <3>2 DEF CheckInv, Cleared, SameSend
  <2>4. CASE SendStep(r)
    BY <2>1, <2>2, <2>4, EntersCheck, ListRead
  <2>5. QED
    BY <2>1, <2>3, <2>4, OwnOrNone
<1>3. QED
  BY <1>1, <1>2

\* The three reads of CheckSuppression decide as one would: a recipient some
\* entry blocked throughout never passes, unless a read failed.
THEOREM CheckDecidesSoundly == Spec => []CheckIsSound
<1>1. CheckInv => CheckIsSound
  <2> SUFFICES ASSUME CheckInv, NEW r \in Sends, pc[r] = "auto", r \notin faulted,
                      NEW e \in steady[r], e[2] = Rcpt(r)
               PROVE  FALSE
    BY DEF CheckIsSound
  <2>0. pc[r] \in Checking => steady[r] \subseteq Blocking(r)
    BY DEF CheckInv
  <2>1. e \in Suppressing \X {Rcpt(r), Bare[Rcpt(r)]}
    BY <2>0 DEF Checking, Blocking
  <2>2. e = <<e[1], Rcpt(r)>> /\ e[1] \in {"bounces", "complaints", "unsubscribes"}
    BY <2>1 DEF Suppressing, Tables
  <2>3. QED
    BY <2>2 DEF CheckInv, Cleared
<1>2. QED
  BY <1>1, ShapeInit, ShapeStep, CheckInit, CheckStep, PTL DEF Spec

\* A message is failed as suppressed only for a recipient some list had, not
\* deleted and for the message's tags, at a moment of its check.
THEOREM OnlyListedFail == Spec => []FailedOnlyIfListed
<1>1. CheckInv => FailedOnlyIfListed
  BY DEF CheckInv, FailedOnlyIfListed
<1>2. QED
  BY <1>1, ShapeInit, ShapeStep, CheckInit, CheckStep, PTL DEF Spec
-----------------------------------------------------------------------------
(* The type invariant.  What is not plain in it is that the history only   *)
(* names strings: the recipient a request is at is one of those its To     *)
(* field expanded to, which is the second half of TypeInv.                 *)

InLoop == {"accept", "bounces", "complaints", "unsubscribes", "fail", "auto", "delay", "deliver"}

\* The index of the loop over the recipients is in range while the loop runs.
LoopInRange == \A r \in Sends : IF pc[r] \in InLoop THEN pos[r] \in 1 .. Len(to[r]) ELSE pos[r] = 1

\* A trigger saves its event for the message it found.
SavesForMessage == \A t \in Triggers : tpc[t] = "save" => trig[t].msg \in Sends

TypeInv == TypeOK /\ LoopInRange /\ SavesForMessage

\* The parts of TypeOK, by the requests that change them.
SendType ==
  /\ pc \in [Sends -> SendPcs]
  /\ rq \in [Sends -> [kind : {"none", "send", "mime", "resend"}, first : First,
                       tags : SUBSET Tags, files : BOOLEAN, orig : Sends \cup {"none"}]]
  /\ to \in [Sends -> Seq(Strings)]
  /\ pos \in [Sends -> Nat]
  /\ LoopInRange

TriggerType ==
  /\ tpc \in [Triggers -> TrigPcs]
  /\ trig \in [Triggers -> [kind : AllKinds \cup {"none"}, msg : Sends \cup {"none"}, rcpt : First]]
  /\ SavesForMessage

MailType ==
  /\ domain \in BOOLEAN /\ auto \in BOOLEAN /\ delay \in Nat
  /\ msgs \subseteq Sends /\ atts \subseteq Sends /\ events \subseteq Sends
  /\ tagRows \subseteq Tags

PurgeStates == [op : PurgeOps \cup {"none"}, left : Seq(PurgeTables \cup {"config"}),
                of : SUBSET Sends]

PurgeType ==
  /\ purge \in [Purgers -> PurgeStates]
  /\ kept \subseteq Sends

HistoryType ==
  /\ torn \subseteq Sends /\ alone \subseteq Purgers
  /\ steady \in [Sends -> SUBSET (Suppressing \X Strings)]
  /\ listed \in [Sends -> BOOLEAN]
  /\ shield \in [Triggers -> [always : SUBSET Keys, ever : BOOLEAN]]

LEMMA TypeParts ==
  TypeInv <=> /\ TablesTypeOK /\ MailType /\ SendType /\ TriggerType /\ PurgeType
              /\ HistoryType /\ faulted \subseteq Sends \cup Triggers
BY DEF TypeInv, TypeOK, MailType, SendType, TriggerType, PurgeType, PurgeStates,
       HistoryType

-----------------------------------------------------------------------------
(* Sends.                                                                  *)

LEMMA NextRecipientTyped ==
  ASSUME SendType, NEW r \in Sends, pc[r] \in InLoop, NextRecipient(r), UNCHANGED rq
  PROVE  SendType'
<1> USE DEF SendType, LoopInRange, InLoop, SendPcs, Goto
<1>1. to[r] \in Seq(Strings) /\ Len(to[r]) \in Nat /\ pos[r] \in Nat
  BY LenProperties
<1>2. CASE pos[r] < Len(to[r])
  <2>1. /\ pc' = [pc EXCEPT ![r] = "accept"] /\ pos' = [pos EXCEPT ![r] = pos[r] + 1]
        /\ to' = to
    BY <1>2 DEF NextRecipient
  <2>2. pos[r] + 1 \in 1 .. Len(to[r]) /\ pos[r] + 1 \in Nat
    BY <1>1, <1>2
  <2>3. QED
    BY <2>1, <2>2
<1>3. CASE ~(pos[r] < Len(to[r]))
  <2>1. << >> \in Seq(Strings)
    BY EmptySeq
  <2>2. to' \in [Sends -> Seq(Strings)] /\ pos' = [pos EXCEPT ![r] = 1]
    BY <1>3, <2>1 DEF NextRecipient
  <2>3. pc' = [pc EXCEPT ![r] = "answered"] /\ \A q \in Sends \ {r} : to'[q] = to[q]
    BY <1>3 DEF NextRecipient
  <2>4. QED
    BY <2>2, <2>3
<1>4. QED
  BY <1>2, <1>3

LEMMA ReceiveTyped ==
  ASSUME SendType, NEW r \in Sends, NEW kind \in {"send", "mime", "resend"}, NEW s \in First,
         NEW tags \in SUBSET Tags, NEW files \in BOOLEAN, NEW o \in Sends \cup {"none"},
         Receive(r, kind, s, tags, files, o)
  PROVE  SendType'
BY DEF Receive, SendType, LoopInRange, InLoop, SendPcs, Goto

LEMMA SendTyped ==
  ASSUME SendType, MailType, NEW r \in Sends, SendStep(r)
  PROVE  SendType'
<1> USE DEF SendType, LoopInRange, InLoop, SendPcs, Goto
<1>1. CASE SendMessage(r)
  <2>1. PICK s \in First, tags \in SUBSET Tags, files \in Files :
          Receive(r, "send", s, tags, files, "none")
    BY <1>1 DEF SendMessage
  <2>2. files \in BOOLEAN
    BY PipelineAssumption
  <2> HIDE DEF SendType
  <2>3. QED
    BY <2>1, <2>2, ReceiveTyped
<1>2. CASE SendMIMEMessage(r)
  BY <1>2, ReceiveTyped DEF SendMIMEMessage
<1>3. CASE ResendMessage(r)
  <2>1. PICK o \in msgs, s \in First : Receive(r, "resend", s, rq[o].tags, o \in atts, o)
    BY <1>3 DEF ResendMessage
  <2>2. o \in Sends /\ rq[o].tags \in SUBSET Tags /\ (o \in atts) \in BOOLEAN
    BY DEF MailType
  <2> HIDE DEF SendType
  <2>3. QED
    BY <2>1, <2>2, ReceiveTyped
<1>4. CASE Store(r)
  <2>1. \E at \in {"attach", "copy", "answered", "refused"} : Goto(r, at)
    BY <1>4 DEF Store
  <2>2. pc[r] = "store" /\ UNCHANGED <<rq, to, pos>>
    BY <1>4 DEF Store
  <2>3. QED
    BY <2>1, <2>2
<1>5. CASE Attach(r) \/ EnsureTags(r) \/ CopyAttachments(r) \/ ReadOriginalAttachments(r)
  BY <1>5 DEF Attach, EnsureTags, CopyAttachments, ReadOriginalAttachments
<1>6. CASE ExpandMailingLists(r)
  <2>1. PICK members \in Expansion[rq[r].first] :
          to' = [to EXCEPT ![r] = members]
          /\ Goto(r, IF members = << >> THEN "answered" ELSE "accept")
    BY <1>6 DEF ExpandMailingLists
  <2>2. members \in Seq(Strings) /\ Len(members) \in Nat /\ (members # << >> => Len(members) # 0)
    <3>1. rq[r].first \in First
      OBVIOUS
    <3>2. members \in Seq(Strings)
      BY <3>1, PipelineAssumption
    <3>3. QED
      BY <3>2, LenProperties, EmptySeq
  <2>3. pc[r] = "expand" /\ pos[r] = 1 /\ UNCHANGED <<rq, pos>>
    BY <1>6 DEF ExpandMailingLists
  <2>4. QED
    BY <2>1, <2>2, <2>3
<1>7. CASE GenerateAcceptedEvent(r)
  BY <1>7 DEF GenerateAcceptedEvent
<1>8. CASE CheckSuppression(r)
  BY <1>8 DEF CheckSuppression, CheckTable
<1>9. CASE GenerateSuppressionFailedEvent(r) \/ GenerateDeliveryEvent(r)
  BY <1>9, NextRecipientTyped DEF GenerateSuppressionFailedEvent, GenerateDeliveryEvent
<1>10. CASE ReadAutoDeliver(r) \/ ReadDeliveryDelay(r)
  <2>1. pc[r] \in {"auto", "delay"} /\ UNCHANGED rq
    BY <1>10 DEF ReadAutoDeliver, ReadDeliveryDelay
  <2>2. CASE NextRecipient(r)
    BY <2>1, <2>2, NextRecipientTyped
  <2>3. CASE (Goto(r, "delay") \/ Goto(r, "deliver")) /\ UNCHANGED <<to, pos>>
    BY <2>1, <2>3
  <2>4. QED
    BY <1>10, <2>2, <2>3 DEF ReadAutoDeliver, ReadDeliveryDelay
<1>11. QED
  BY <1>1, <1>2, <1>3, <1>4, <1>5, <1>6, <1>7, <1>8, <1>9, <1>10 DEF SendStep
-----------------------------------------------------------------------------
(* The suppression tables.                                                 *)

TagSets == SUBSET (Tags \cup {Star})

LEMMA TypesTyped ==
  ASSUME types \in [Keys -> AllowTypes], NEW k, NEW type \in AllowTypes, CreateAllow(k, type)
  PROVE  types' \in [Keys -> AllowTypes]
BY DEF CreateAllow, Try

LEMMA UnsubTyped ==
  ASSUME unsubTags \in [Keys -> TagSets], NEW k, NEW given \in TagSets,
         CreateUnsubscribe(k, given)
  PROVE  unsubTags' \in [Keys -> TagSets]
BY DEF CreateUnsubscribe, Try, TagSets

LEMMA ListTyped ==
  ASSUME NEW ks \in Seq(Keys), NEW t \in Tables, NEW given \in TagSets,
         NEW type \in [DOMAIN ks -> AllowTypes]
  PROVE  [i \in DOMAIN ks |-> Entry(t, ks[i], given, type[i])] \in Seq(Entries)
<1> DEFINE es == [i \in DOMAIN ks |-> Entry(t, ks[i], given, type[i])]
<1>1. DOMAIN ks = 1 .. Len(ks) /\ Len(ks) \in Nat
  BY LenProperties
<1>2. \A i \in 1 .. Len(ks) : Entry(t, ks[i], given, type[i]) \in Entries
  BY <1>1, ElementOfSeq DEF Entry, Entries, TagSets
<1>3. es \in [1 .. Len(ks) -> Entries]
  BY <1>1, <1>2
<1>4. QED
  BY <1>1, <1>3, SeqDef

\* The lists of the requests that give no type.
LEMMA PlainListTyped ==
  ASSUME NEW ks \in Seq(Keys), NEW t \in Tables, NEW given \in TagSets
  PROVE  [i \in DOMAIN ks |-> Entry(t, ks[i], given, "address")] \in Seq(Entries)
<1> DEFINE type == [i \in DOMAIN ks |-> "address"]
<1>1. type \in [DOMAIN ks -> AllowTypes]
  BY DEF AllowTypes
<1>2. [i \in DOMAIN ks |-> Entry(t, ks[i], given, type[i])] \in Seq(Entries)
  BY <1>1, ListTyped
<1>3. [i \in DOMAIN ks |-> Entry(t, ks[i], given, type[i])]
        = [i \in DOMAIN ks |-> Entry(t, ks[i], given, "address")]
  OBVIOUS
<1>4. QED
  BY <1>2, <1>3

LEMMA BatchTyped ==
  ASSUME TablesTypeOK, NEW b \in Batches, BatchRequest(b)
  PROVE  TablesTypeOK'
<1>1. rows' \in RowsType
  BY BatchKeeps DEF TablesTypeOK, RowsType, Kept
<1>2. /\ batch \in [Batches -> Seq(Entries)] /\ unsubTags \in [Keys -> TagSets]
      /\ types \in [Keys -> AllowTypes]
  BY DEF TablesTypeOK, TagSets
<1>3. CASE StartBatch(b)
  <2>1. \E es \in Seq(Entries) : Begin(b, es)
    <3>1. ASSUME NEW t \in Tables, NEW ks \in Imported[t] PROVE ks \in Seq(Keys)
      BY PipelineAssumption
    <3>2. {} \in TagSets /\ \A given \in SUBSET Tags : given \in TagSets
      BY DEF TagSets
    <3>3. /\ "bounces" \in Tables /\ "complaints" \in Tables
          /\ "unsubscribes" \in Tables /\ "allowlist_entries" \in Tables
      BY DEF Tables
    <3>4. CASE \E ks \in Imported["bounces"] : BounceBatch(b, ks)
      BY <3>1, <3>2, <3>3, <3>4, PlainListTyped DEF BounceBatch
    <3>5. CASE \E ks \in Imported["complaints"] : ComplaintBatch(b, ks)
      BY <3>1, <3>2, <3>3, <3>5, PlainListTyped DEF ComplaintBatch
    <3>6. CASE \E ks \in Imported["unsubscribes"], g \in SUBSET Tags : UnsubscribeBatch(b, ks, g)
      BY <3>1, <3>2, <3>3, <3>6, PlainListTyped DEF UnsubscribeBatch
    <3>7. CASE \E ks \in Imported["allowlist_entries"] :
                 \E type \in [DOMAIN ks -> AllowTypes] : AllowlistImport(b, ks, type)
      BY <3>1, <3>2, <3>3, <3>7, ListTyped DEF AllowlistImport
    <3>8. QED
      BY <1>3, <3>4, <3>5, <3>6, <3>7 DEF StartBatch
  <2>2. QED
    BY <1>1, <1>2, <2>1 DEF Begin, TablesTypeOK, RowsType, TagSets
<1>4. CASE BatchRow(b)
  <2>1. /\ batch[b] \in Seq(Entries) /\ batch[b] # << >>
        /\ batch' = [batch EXCEPT ![b] = Tail(batch[b])]
    BY <1>2, <1>4 DEF BatchRow
  <2>2. Head(batch[b]) \in Entries /\ Tail(batch[b]) \in Seq(Entries)
    BY <2>1, HeadTailProperties
  <2>3. unsubTags' \in [Keys -> TagSets]
    <3>1. Head(batch[b]).tags \in TagSets
      BY <2>2 DEF Entries, TagSets
    <3>2. CASE Head(batch[b]).table = "unsubscribes"
      <4>1. CreateUnsubscribe(Head(batch[b]).key, Head(batch[b]).tags)
        BY <1>4, <3>2 DEF BatchRow
      <4>2. QED
        BY <1>2, <3>1, <4>1, UnsubTyped
    <3>3. CASE Head(batch[b]).table # "unsubscribes"
      BY <1>2, <1>4, <2>2, <3>3
         DEF BatchRow, CreateBounce, CreateComplaint, CreateAllow, Try, Entries, Tables
    <3>4. QED
      BY <3>2, <3>3
  <2>6. types' \in [Keys -> AllowTypes]
    <3>1. Head(batch[b]).type \in AllowTypes
      BY <2>2 DEF Entries
    <3>2. CASE Head(batch[b]).table = "allowlist_entries"
      <4>1. CreateAllow(Head(batch[b]).key, Head(batch[b]).type)
        BY <1>4, <3>2 DEF BatchRow
      <4>2. QED
        BY <1>2, <3>1, <4>1, TypesTyped
    <3>3. CASE Head(batch[b]).table # "allowlist_entries"
      BY <1>2, <1>4, <2>2, <3>3
         DEF BatchRow, CreateBounce, CreateComplaint, CreateUnsubscribe, Try, Entries, Tables
    <3>4. QED
      BY <3>2, <3>3
  <2>4. batch' \in [Batches -> Seq(Entries)]
    BY <1>2, <2>1, <2>2
  <2>5. QED
    BY <1>1, <2>3, <2>4, <2>6 DEF TablesTypeOK, RowsType, TagSets
<1>5. QED
  BY <1>3, <1>4 DEF BatchRequest

LEMMA RequestTyped ==
  ASSUME TablesTypeOK, SuppressionRequest
  PROVE  TablesTypeOK'
<1>1. rows' \in RowsType /\ UNCHANGED batch
  BY AddEntryKeeps, RemoveEntryKeeps DEF SuppressionRequest, TablesTypeOK, RowsType, Kept
<1>2. unsubTags \in [Keys -> TagSets] /\ types \in [Keys -> AllowTypes]
  BY DEF TablesTypeOK, TagSets
<1>3. unsubTags' \in [Keys -> TagSets]
  <2>1. CASE \E k \in Touched["unsubscribes"], g \in SUBSET Tags : CreateUnsubscribe(k, g)
    BY <1>2, <2>1, UnsubTyped DEF TagSets
  <2>2. CASE UNCHANGED unsubTags
    BY <1>2, <2>2
  <2>3. AddEntry => <2>1!1 \/ UNCHANGED unsubTags
    BY DEF AddEntry, CreateBounce, CreateComplaint, CreateAllow, Try
  <2>4. RemoveEntry => UNCHANGED unsubTags
    BY DEF RemoveEntry, DeleteBounce, DeleteComplaint, DeleteUnsubscribe, DeleteAllow, SoftDelete,
           ClearBounces, ClearComplaints, ClearUnsubscribes, ClearAllowlist, SoftClear, Try
  <2>5. QED
    BY <2>1, <2>2, <2>3, <2>4 DEF SuppressionRequest
<1>4. types' \in [Keys -> AllowTypes]
  <2>1. CASE \E k \in Touched["allowlist_entries"] : \E type \in GivenAs[k] : CreateAllow(k, type)
    <3>1. \A k \in Touched["allowlist_entries"] : GivenAs[k] \subseteq AllowTypes
      BY PipelineAssumption DEF Tables
    <3>2. QED
      BY <1>2, <2>1, <3>1, TypesTyped
  <2>2. CASE UNCHANGED types
    BY <1>2, <2>2
  <2>3. AddEntry => <2>1!1 \/ UNCHANGED types
    BY DEF AddEntry, CreateBounce, CreateComplaint, CreateUnsubscribe, Try
  <2>4. RemoveEntry => UNCHANGED types
    BY DEF RemoveEntry, DeleteBounce, DeleteComplaint, DeleteUnsubscribe, DeleteAllow, SoftDelete,
           ClearBounces, ClearComplaints, ClearUnsubscribes, ClearAllowlist, SoftClear, Try
  <2>5. QED
    BY <2>1, <2>2, <2>3, <2>4 DEF SuppressionRequest
<1>5. QED
  BY <1>1, <1>3, <1>4 DEF TablesTypeOK, RowsType, TagSets

LEMMA SendLeavesTables ==
  ASSUME NEW r \in Sends, SendStep(r)
  PROVE  UNCHANGED <<tableVars, batch>>
BY DEF SendStep, SendMessage, SendMIMEMessage, ResendMessage, Receive, Store, Attach,
       ReadOriginalAttachments, CopyAttachments, EnsureTags, ExpandMailingLists,
       GenerateAcceptedEvent, CheckSuppression, CheckTable, GenerateSuppressionFailedEvent,
       ReadAutoDeliver, ReadDeliveryDelay, GenerateDeliveryEvent

\* What no step does to the other half of the tables.
LEMMA TablesTyped ==
  ASSUME TablesTypeOK, Step
  PROVE  TablesTypeOK'
<1>1. ASSUME NEW r \in Sends, SendStep(r) PROVE TablesTypeOK'
  BY <1>1, SendLeavesTables DEF TablesTypeOK
<1>2. ASSUME NEW t \in Triggers, TriggerStep(t) PROVE TablesTypeOK'
  <2>1. rows' \in RowsType
    BY <1>2, TriggerKeeps DEF TablesTypeOK, RowsType, Kept
  <2>2. UNCHANGED <<unsubTags, types, batch>>
    BY <1>2 DEF TriggerStep, TriggerLookup, CreateAndSaveEvent, IsAllowlisted, ReadAllowlist,
                TriggerFailBounces, TriggerComplainComplains, UpsertFor
  <2>3. QED
    BY <2>1, <2>2 DEF TablesTypeOK, RowsType
<1>3. ASSUME NEW p \in Purgers, PurgeStep(p) PROVE TablesTypeOK'
  <2>1. rows' \in RowsType
    BY <1>3, PurgeKeeps DEF TablesTypeOK, RowsType, Kept
  <2>2. UNCHANGED batch
    BY <1>3 DEF PurgeStep, DeleteOneMessage, DeleteEverything, BeginPurge, ExecuteStatement,
                StatementFails, RestoreConfig
  <2>3. unsubTags' = unsubTags \/ unsubTags' = [k \in Keys |-> {}]
    BY <1>3 DEF PurgeStep, DeleteOneMessage, DeleteEverything, BeginPurge, ExecuteStatement,
                StatementFails, RestoreConfig, DeleteRows
  <2>4. types' = types \/ types' = [k \in Keys |-> "address"]
    BY <1>3 DEF PurgeStep, DeleteOneMessage, DeleteEverything, BeginPurge, ExecuteStatement,
                StatementFails, RestoreConfig, DeleteRows
  <2>5. QED
    BY <2>1, <2>2, <2>3, <2>4 DEF TablesTypeOK, RowsType, AllowTypes
<1>4. CASE CreateDomain \/ UpdateConfig \/ \E tag \in Tags : DeleteTag(tag)
  BY <1>4 DEF CreateDomain, UpdateConfig, DeleteTag, TablesTypeOK
<1>5. QED
  BY <1>1, <1>2, <1>3, <1>4, BatchTyped, RequestTyped DEF Step

-----------------------------------------------------------------------------
(* Triggers.                                                               *)

LEMMA NoTriggerTyped ==
  NoTrigger \in [kind : AllKinds \cup {"none"}, msg : Sends \cup {"none"}, rcpt : First]
BY PipelineAssumption DEF NoTrigger

LEMMA TriggerTyped ==
  ASSUME TriggerType, MailType, SendType, NEW t \in Triggers, TriggerStep(t)
  PROVE  TriggerType'
<1> USE DEF TriggerType, SavesForMessage, TrigPcs
<1>1. CASE TriggerLookup(t)
  <2>1. PICK m \in msgs, kind \in Kinds :
          trig' = [trig EXCEPT ![t] = [kind |-> kind, msg |-> m, rcpt |-> rq[m].first]]
    BY <1>1 DEF TriggerLookup
  <2>2. m \in Sends /\ kind \in AllKinds
    BY PipelineAssumption DEF MailType
  <2>3. rq[m].first \in First
    BY <2>2 DEF SendType
  <2>4. tpc' = [tpc EXCEPT ![t] = "save"]
    BY <1>1 DEF TriggerLookup
  <2>5. QED
    BY <2>1, <2>2, <2>3, <2>4
<1>2. ASSUME NEW how \in TrigPcs \ {"save"}, Ends(t, how) PROVE TriggerType'
  <2>1. NoTrigger \in [kind : AllKinds \cup {"none"}, msg : Sends \cup {"none"}, rcpt : First]
    BY NoTriggerTyped
  <2>2. QED
    BY <1>2, <2>1 DEF Ends
<1>3. ASSUME NEW how \in TrigPcs \ {"save"}, tpc' = [tpc EXCEPT ![t] = how], UNCHANGED trig
      PROVE  TriggerType'
  BY <1>3
<1>4. CASE CreateAndSaveEvent(t)
  BY <1>2, <1>3, <1>4 DEF CreateAndSaveEvent
<1>5. CASE IsAllowlisted(t)
  BY <1>2, <1>3, <1>5 DEF IsAllowlisted, ReadAllowlist
<1>6. CASE TriggerFailBounces(t) \/ TriggerComplainComplains(t)
  BY <1>2, <1>6 DEF TriggerFailBounces, TriggerComplainComplains, UpsertFor
<1>7. QED
  BY <1>1, <1>4, <1>5, <1>6 DEF TriggerStep

-----------------------------------------------------------------------------
(* The messages, the configuration and the purges.                         *)

LEMMA StatementsTyped ==
  ASSUME NEW op
  PROVE  Statements(op) \in Seq(PurgeTables \cup {"config"})
<1> DEFINE T == PurgeTables \cup {"config"}
<1>1. /\ <<"attachments", "stored_messages">> \in Seq(T)
      /\ <<"attachments", "events", "stored_messages">> \in Seq(T)
      /\ <<"stored_messages", "events", "attachments">> \in Seq(T)
      /\ << >> \in Seq(T)
  BY DEF PurgeTables, Tables
<1>2. <<"attachments", "events", "stored_messages", "bounces", "complaints", "unsubscribes",
        "allowlist_entries", "tags", "domains", "config">> \in Seq(T)
  BY DEF PurgeTables, Tables
<1> HIDE DEF T
<1>3. Statements(op) \in Seq(T)
  BY <1>1, <1>2 DEF Statements
<1>4. QED
  BY <1>3 DEF T

LEMMA PurgeTyped ==
  ASSUME PurgeType, MailType, NEW p \in Purgers, PurgeStep(p)
  PROVE  PurgeType' /\ MailType'
<1>1. ASSUME NEW op \in PurgeOps, NEW of \in SUBSET Sends, BeginPurge(p, op, of)
      PROVE  PurgeType' /\ MailType'
  <2>1. Statements(op) \in Seq(PurgeTables \cup {"config"})
    BY StatementsTyped
  <2>2. /\ purge' = [purge EXCEPT ![p] = [op |-> op, left |-> Statements(op), of |-> of]]
        /\ kept' \in {kept, kept \cup of} /\ UNCHANGED <<mailVars, confVars>>
    BY <1>1 DEF BeginPurge
  <2>3. QED
    BY <2>1, <2>2 DEF PurgeType, PurgeStates, MailType
<1>2. ASSUME NEW left \in Seq(PurgeTables \cup {"config"}), Then(p, left), UNCHANGED kept
      PROVE  PurgeType'
  <2>1. NoPurge \in PurgeStates
    BY EmptySeq DEF NoPurge, PurgeStates
  <2>2. purge[p] \in PurgeStates
    BY DEF PurgeType
  <2>3. [purge[p] EXCEPT !.left = left]
          \in PurgeStates
    BY <2>2 DEF PurgeStates
  <2>4. QED
    BY <1>2, <2>1, <2>3 DEF Then, PurgeType
<1>3. ASSUME purge[p].left # << >>
      PROVE  Tail(purge[p].left) \in Seq(PurgeTables \cup {"config"})
  <2>1. purge[p].left \in Seq(PurgeTables \cup {"config"})
    BY DEF PurgeType, PurgeStates
  <2>2. QED
    BY <1>3, <2>1, HeadTailProperties
<1>4. << >> \in Seq(PurgeTables \cup {"config"})
  BY EmptySeq
<1>5. CASE DeleteOneMessage(p)
  <2>1. PICK op \in OneMessage, m \in msgs : BeginPurge(p, op, {m})
    BY <1>5 DEF DeleteOneMessage
  <2>2. op \in PurgeOps /\ {m} \in SUBSET Sends
    BY DEF OneMessage, PurgeOps, MailType
  <2>3. QED
    BY <1>1, <2>1, <2>2
<1>6. CASE DeleteEverything(p)
  <2>1. PICK op \in AllMessages : BeginPurge(p, op, Sends)
    BY <1>6 DEF DeleteEverything
  <2>2. op \in PurgeOps
    BY DEF AllMessages, Strict, PurgeOps
  <2>3. QED
    BY <1>1, <2>1, <2>2
<1>7. CASE ExecuteStatement(p)
  <2>1. MailType'
    BY <1>7 DEF ExecuteStatement, DeleteRows, MailType
  <2>2. QED
    BY <1>2, <1>3, <1>7, <2>1 DEF ExecuteStatement
<1>8. CASE StatementFails(p)
  <2>1. MailType'
    BY <1>8 DEF StatementFails, MailType
  <2>2. QED
    BY <1>2, <1>3, <1>4, <1>8, <2>1 DEF StatementFails
<1>9. CASE RestoreConfig(p)
  <2>1. MailType'
    BY <1>9 DEF RestoreConfig, MailType
  <2>2. QED
    BY <1>2, <1>3, <1>9, <2>1 DEF RestoreConfig
<1>10. QED
  BY <1>5, <1>6, <1>7, <1>8, <1>9 DEF PurgeStep

\* What sends and triggers write to the messages' tables.
LEMMA MailTyped ==
  ASSUME MailType, SendType, TriggerType, PurgeType, Step,
         ~\E p \in Purgers : PurgeStep(p)
  PROVE  MailType' /\ PurgeType'
<1> USE DEF MailType, PurgeType
<1>1. ASSUME NEW r \in Sends, SendStep(r) PROVE MailType' /\ PurgeType'
  <2>1. rq[r].tags \subseteq Tags
    BY DEF SendType
  <2>2. /\ msgs' \in {msgs, msgs \cup {r}} /\ atts' \in {atts, atts \cup {r}}
        /\ events' \in {events, events \cup {r}}
        /\ tagRows' \subseteq tagRows \cup rq[r].tags
        /\ UNCHANGED <<confVars, purge, kept>>
    BY <1>1 DEF SendStep, SendMessage, SendMIMEMessage, ResendMessage, Receive, Store, Attach,
         ReadOriginalAttachments, CopyAttachments, SaveAttachment, EnsureTags,
         ExpandMailingLists, GenerateAcceptedEvent, CheckSuppression, CheckTable, Record,
         GenerateSuppressionFailedEvent, ReadAutoDeliver, ReadDeliveryDelay,
         GenerateDeliveryEvent
  <2>3. QED
    BY <2>1, <2>2
<1>2. ASSUME NEW t \in Triggers, TriggerStep(t) PROVE MailType' /\ PurgeType'
  <2>1. /\ events' = events \/ (tpc[t] = "save" /\ events' = events \cup {trig[t].msg})
        /\ UNCHANGED <<msgs, atts, tagRows, confVars, purge, kept>>
    BY <1>2 DEF TriggerStep, TriggerLookup, CreateAndSaveEvent, Record, IsAllowlisted,
                ReadAllowlist, TriggerFailBounces, TriggerComplainComplains, UpsertFor
  <2>2. QED
    BY <2>1 DEF TriggerType, SavesForMessage
<1>3. CASE SuppressionRequest \/ \E b \in Batches : BatchRequest(b)
  BY <1>3 DEF SuppressionRequest, BatchRequest
<1>4. CASE CreateDomain \/ UpdateConfig \/ \E tag \in Tags : DeleteTag(tag)
  BY <1>4, PipelineAssumption DEF CreateDomain, UpdateConfig, DeleteTag
<1>5. QED
  BY <1>1, <1>2, <1>3, <1>4 DEF Step

LEMMA FaultedTyped ==
  ASSUME faulted \subseteq Sends \cup Triggers, Step
  PROVE  faulted' \subseteq Sends \cup Triggers
<1>1. ASSUME NEW r \in Sends, SendStep(r) PROVE faulted' \subseteq faulted \cup {r}
  BY <1>1 DEF SendStep, SendMessage, SendMIMEMessage, ResendMessage, Receive, Store, Attach,
         ReadOriginalAttachments, CopyAttachments, SaveAttachment, EnsureTags,
         ExpandMailingLists, GenerateAcceptedEvent, CheckSuppression, CheckTable, Record,
         GenerateSuppressionFailedEvent, ReadAutoDeliver, ReadDeliveryDelay,
         GenerateDeliveryEvent, Fault, NoFault
<1>2. ASSUME NEW t \in Triggers, TriggerStep(t) PROVE faulted' \subseteq faulted \cup {t}
  BY <1>2 DEF TriggerStep, TriggerLookup, CreateAndSaveEvent, Record, IsAllowlisted,
              ReadAllowlist, TriggerFailBounces, TriggerComplainComplains, UpsertFor,
              Fault, NoFault
<1>3. QED
  BY <1>1, <1>2, StepKinds DEF Elsewhere

LEMMA OthersTyped ==
  ASSUME SendType, TriggerType, MailType, Step
  PROVE  SendType' /\ TriggerType'
<1>1. ASSUME NEW r \in Sends, SendStep(r) PROVE SendType' /\ TriggerType'
  BY <1>1, SendTyped, SendLeavesTriggers DEF TriggerType, SavesForMessage
<1>2. ASSUME NEW t \in Triggers, TriggerStep(t) PROVE SendType' /\ TriggerType'
  BY <1>2, TriggerTyped, TriggerLeavesSends DEF SendType, LoopInRange
<1>3. CASE Elsewhere
  BY <1>3 DEF Elsewhere, SendType, LoopInRange, TriggerType, SavesForMessage
<1>4. QED
  BY <1>1, <1>2, <1>3, StepKinds

-----------------------------------------------------------------------------
(* The history.                                                            *)

LEMMA HistoryTyped ==
  ASSUME HistoryType, SendType', PurgeType, Watch
  PROVE  HistoryType'
<1> USE DEF HistoryType
<1>1. steady' \in [Sends -> SUBSET (Suppressing \X Strings)]
  <2>1. ASSUME NEW r \in Sends, pc'[r] \in Checking
        PROVE  Blocking(r)' \subseteq Suppressing \X Strings
    <3>1. to'[r] \in Seq(Strings) /\ pos'[r] \in 1 .. Len(to'[r])
      BY <2>1 DEF SendType, LoopInRange, InLoop, Checking
    <3>2. Rcpt(r)' \in Strings
      BY <3>1, ElementOfSeq DEF Rcpt
    <3>3. Bare[Rcpt(r)'] \in Strings
      BY <3>2, PipelineAssumption
    <3>4. QED
      BY <3>2, <3>3 DEF Blocking
  <2>2. QED
    BY <2>1 DEF Watch
<1>2. shield' \in [Triggers -> [always : SUBSET Keys, ever : BOOLEAN]]
  <2>1. \A t \in Triggers : Covering(t)' \subseteq Keys
    BY DEF Covering
  <2>2. QED
    BY <2>1 DEF Watch
<1>3. torn' \subseteq Sends
  BY DEF Watch, PurgeType, PurgeStates
<1>4. alone' \subseteq Purgers
  BY DEF Watch
<1>5. listed' \in [Sends -> BOOLEAN]
  <2>1. \A r \in Sends : (pc'[r] = "fail" /\ listed[r]) \in BOOLEAN
    BY Zenon
  <2>2. \A r \in Sends : ((pc[r] # "accept" /\ listed[r]) \/ Listed(r)') \in BOOLEAN
    BY Zenon
  <2>3. QED
    BY <2>1, <2>2 DEF Watch
<1>6. QED
  BY <1>1, <1>2, <1>3, <1>4, <1>5

-----------------------------------------------------------------------------
LEMMA TypeInit == Init => TypeInv
<1> SUFFICES ASSUME Init PROVE TypeInv
  OBVIOUS
<1>1. TablesTypeOK
  BY EmptySeq DEF Init, TablesInit, TablesTypeOK, AllowTypes
<1>2. MailType /\ HistoryType /\ faulted \subseteq Sends \cup Triggers
  BY DEF Init, MailType, HistoryType
<1>3. SendType
  BY EmptySeq, PipelineAssumption DEF Init, SendType, LoopInRange, InLoop, SendPcs, NoRequest
<1>4. TriggerType
  BY NoTriggerTyped DEF Init, TriggerType, SavesForMessage, TrigPcs
<1>5. PurgeType
  BY EmptySeq DEF Init, PurgeType, PurgeStates, NoPurge
<1>6. QED
  BY <1>1, <1>2, <1>3, <1>4, <1>5, TypeParts

LEMMA TypeStep == TypeInv /\ [Next]_vars => TypeInv'
<1> SUFFICES ASSUME TypeInv, [Next]_vars PROVE TypeInv'
  OBVIOUS
<1>1. CASE UNCHANGED vars
  BY <1>1 DEF vars, histVars, TypeInv, TypeOK, TablesTypeOK, LoopInRange, SavesForMessage
<1>2. CASE Step /\ Watch
  <2>1. /\ TablesTypeOK /\ MailType /\ SendType /\ TriggerType /\ PurgeType
        /\ HistoryType /\ faulted \subseteq Sends \cup Triggers
    BY TypeParts
  <2>2. TablesTypeOK' /\ SendType' /\ TriggerType'
        /\ faulted' \subseteq Sends \cup Triggers
    BY <1>2, <2>1, TablesTyped, OthersTyped, FaultedTyped
  <2>3. MailType' /\ PurgeType'
    BY <1>2, <2>1, PurgeTyped, MailTyped
  <2>4. HistoryType'
    BY <1>2, <2>1, <2>2, HistoryTyped
  <2>5. QED
    BY <2>2, <2>3, <2>4 DEF TypeInv, TypeOK, MailType, SendType, TriggerType, PurgeType,
       PurgeStates, HistoryType
<1>3. QED
  BY <1>1, <1>2 DEF Next

LEMMA TypeInvariant == Spec => []TypeInv
  BY TypeInit, TypeStep, PTL DEF Spec

\* Every variable keeps its type.  What it takes to see it: a loop over the
\* recipients never leaves its list, which a request replaces when it ends,
\* and a trigger saves no event before it has found a message.
THEOREM PipelineTypeCorrect == Spec => []TypeOK
<1>1. TypeInv => TypeOK
  BY DEF TypeInv
<1>2. QED
  BY <1>1, TypeInvariant, PTL
-----------------------------------------------------------------------------
(* isAllowlisted and TriggerFail.                                          *)

\* What a step may do to one trigger t: its own move, or nothing.
SameTrigger(t) == tpc'[t] = tpc[t] /\ trig'[t] = trig[t] /\ (t \in faulted => t \in faulted')

LEMMA OtherTriggersMove ==
  ASSUME Shape, NEW t \in Triggers, NEW u \in Triggers, u # t, TriggerStep(u)
  PROVE  SameTrigger(t)
<1> USE DEF Shape, SameTrigger, Ends, Fault, NoFault
<1>1. CASE TriggerLookup(u)
  BY <1>1 DEF TriggerLookup
<1>2. CASE CreateAndSaveEvent(u)
  BY <1>2 DEF CreateAndSaveEvent, Record
<1>3. CASE IsAllowlisted(u)
  BY <1>3 DEF IsAllowlisted, ReadAllowlist
<1>4. CASE TriggerFailBounces(u) \/ TriggerComplainComplains(u)
  BY <1>4 DEF TriggerFailBounces, TriggerComplainComplains, UpsertFor
<1>5. QED
  BY <1>1, <1>2, <1>3, <1>4 DEF TriggerStep

LEMMA SendsForgetNoFault ==
  ASSUME NEW r \in Sends, SendStep(r)
  PROVE  faulted \subseteq faulted'
BY DEF SendStep, SendMessage, SendMIMEMessage, ResendMessage, Receive, Store, Attach,
       ReadOriginalAttachments, CopyAttachments, SaveAttachment, EnsureTags, ExpandMailingLists,
       GenerateAcceptedEvent, CheckSuppression, CheckTable, GenerateSuppressionFailedEvent,
       ReadAutoDeliver, ReadDeliveryDelay, GenerateDeliveryEvent, Record, Fault, NoFault

LEMMA OwnTriggerOrNone ==
  ASSUME Shape, Step, NEW t \in Triggers
  PROVE  TriggerStep(t) \/ SameTrigger(t)
<1>1. ASSUME NEW r \in Sends, SendStep(r) PROVE SameTrigger(t)
  BY <1>1, SendsForgetNoFault, SendLeavesTriggers DEF SameTrigger
<1>2. CASE Elsewhere
  BY <1>2 DEF Elsewhere, SameTrigger
<1>3. QED
  BY <1>1, <1>2, OtherTriggersMove, StepKinds

\* An entry looked for and not found has not covered the recipient all along,
\* and any entry that covers it has been noticed.
ShieldInv ==
  \A t \in Triggers :
    /\ tpc[t] \in Deciding => /\ shield[t].always \subseteq Covering(t)
                              /\ Covering(t) # {} => shield[t].ever
    /\ t \notin faulted =>
         /\ tpc[t] \in {"host", "bounce"} => trig[t].rcpt \notin shield[t].always
         /\ tpc[t] = "bounce" => HostOf[trig[t].rcpt] \notin shield[t].always
    /\ tpc[t] = "spared" => shield[t].ever

LEMMA ShieldInit == Init => ShieldInv
  BY DEF Init, ShieldInv, Deciding

\* What Watch does for a trigger that is deciding after the step.
LEMMA ShieldShrinks ==
  ASSUME Watch, NEW t \in Triggers, tpc'[t] \in Deciding
  PROVE  /\ shield'[t].always \subseteq Covering(t)'
         /\ Covering(t)' # {} => shield'[t].ever
         /\ tpc[t] # "save" => shield'[t].always \subseteq shield[t].always
<1>1. tpc'[t] # "spared"
  BY DEF Deciding
<1>2. CASE tpc[t] = "save"
  <2>1. shield'[t] = [always |-> Covering(t)', ever |-> Covering(t)' # {}]
    BY <1>1, <1>2 DEF Watch
  <2>2. shield'[t].always = Covering(t)' /\ shield'[t].ever = (Covering(t)' # {})
    BY <2>1
  <2>3. QED
    BY <1>2, <2>2, Zenon
<1>3. CASE tpc[t] # "save"
  <2>1. shield'[t] = [always |-> shield[t].always \cap Covering(t)',
                      ever |-> shield[t].ever \/ Covering(t)' # {}]
    BY <1>1, <1>3 DEF Watch
  <2>2. /\ shield'[t].always = shield[t].always \cap Covering(t)'
        /\ shield'[t].ever = (shield[t].ever \/ Covering(t)' # {})
    BY <2>1
  <2>3. shield'[t].always \subseteq shield[t].always /\ shield'[t].always \subseteq Covering(t)'
    BY <2>2
  <2>4. QED
    BY <2>2, <2>3, Zenon
<1>4. QED
  BY <1>2, <1>3

LEMMA SparedKeepsEver ==
  ASSUME Watch, NEW t \in Triggers, tpc'[t] = "spared"
  PROVE  shield'[t].ever = shield[t].ever
<1>1. shield'[t] = [always |-> {}, ever |-> shield[t].ever]
  BY DEF Watch
<1>2. QED
  BY <1>1

\* One of the two reads: it goes on only if the entry is not there.
LEMMA AllowlistRead ==
  ASSUME Shape, Watch, ShieldInv, NEW t \in Triggers, NEW k,
         NEW type,
         NEW at \in Deciding, NEW next \in Deciding, ReadAllowlist(t, at, k, type, next),
         k \in {trig[t].rcpt, HostOf[trig[t].rcpt]},
         type = IF k = trig[t].rcpt THEN "address" ELSE "domain"
  PROVE  \/ tpc'[t] = "spared" /\ shield'[t].ever
         \/ /\ tpc'[t] = next /\ trig'[t] = trig[t]
            /\ shield'[t].always \subseteq shield[t].always
            /\ t \notin faulted' => t \notin faulted /\ k \notin shield'[t].always
<1>1. tpc[t] = at /\ UNCHANGED <<rows, types>>
  BY DEF ReadAllowlist
<1>2. CASE Allowed(k, type) /\ Ends(t, "spared")
  <2>1. tpc'[t] = "spared"
    BY <1>2 DEF Ends, Shape
  <2>2. k \in Covering(t)
    BY <1>2 DEF Allowed, Covering
  <2>3. shield[t].ever
    BY <1>1, <2>2 DEF ShieldInv
  <2>4. QED
    BY <2>1, <2>3, SparedKeepsEver
<1>3. CASE /\ (~Allowed(k, type) /\ NoFault) \/ Fault(t)
           /\ tpc' = [tpc EXCEPT ![t] = next] /\ UNCHANGED trig
  <2>1. tpc'[t] = next /\ trig'[t] = trig[t]
    BY <1>3 DEF Shape
  <2>2. shield'[t].always \subseteq shield[t].always /\ shield'[t].always \subseteq Covering(t)'
    BY <1>1, <2>1, ShieldShrinks DEF Deciding
  <2>3. ASSUME t \notin faulted' PROVE t \notin faulted /\ ~Allowed(k, type)
    BY <1>3, <2>3 DEF Fault, NoFault
  <2>4. ~Allowed(k, type) => k \notin Covering(t)'
    BY <1>1, <2>1 DEF Allowed, Covering, Visible
  <2>5. QED
    BY <2>1, <2>2, <2>3, <2>4
<1>4. QED
  BY <1>2, <1>3 DEF ReadAllowlist

LEMMA ShieldStep == Shape /\ TriggerType /\ ShieldInv /\ [Next]_vars => ShieldInv'
<1> SUFFICES ASSUME Shape, TriggerType, ShieldInv, [Next]_vars PROVE ShieldInv'
  OBVIOUS
<1>1. CASE UNCHANGED vars
  BY <1>1 DEF vars, histVars, ShieldInv, Covering, Visible
<1>2. CASE Next
  <2> SUFFICES ASSUME NEW t \in Triggers
               PROVE  /\ t \notin faulted' =>
                           /\ tpc'[t] \in {"host", "bounce"} => trig'[t].rcpt \notin shield'[t].always
                           /\ tpc'[t] = "bounce" => HostOf[trig'[t].rcpt] \notin shield'[t].always
                      /\ tpc'[t] = "spared" => shield'[t].ever
    BY <1>2, ShieldShrinks DEF Next, ShieldInv
  <2>1. Step /\ Watch
    BY <1>2 DEF Next
  <2>2. CASE SameTrigger(t)
    <3>1. tpc'[t] \in {"host", "bounce"} => shield'[t].always \subseteq shield[t].always
      BY <2>1, <2>2, ShieldShrinks DEF SameTrigger, Deciding
    <3>2. QED
      BY <2>1, <2>2, <3>1, SparedKeepsEver DEF SameTrigger, ShieldInv
  <2>3. CASE TriggerLookup(t) \/ CreateAndSaveEvent(t)
    <3>1. tpc'[t] \in {"save", "address", "complaint", "idle"}
      BY <2>3 DEF TriggerLookup, CreateAndSaveEvent, Ends, Shape
    <3>2. QED
      BY <3>1
  <2>4. CASE ReadAllowlist(t, "address", trig[t].rcpt, "address", "host")
    BY <2>1, <2>4, AllowlistRead DEF Deciding
  <2>5. CASE ReadAllowlist(t, "host", HostOf[trig[t].rcpt], "domain", "bounce")
    <3>1. tpc[t] = "host" /\ HostOf[trig[t].rcpt] # trig[t].rcpt
      BY <2>5, PipelineAssumption DEF ReadAllowlist, TriggerType
    <3>2. QED
      BY <2>1, <2>5, <3>1, AllowlistRead DEF Deciding, ShieldInv
  <2>6. CASE TriggerFailBounces(t) \/ TriggerComplainComplains(t)
    <3>1. tpc'[t] \in {"bounced", "idle"}
      BY <2>6 DEF TriggerFailBounces, TriggerComplainComplains, UpsertFor, Ends, Shape
    <3>2. QED
      BY <3>1
  <2>7. QED
    BY <2>1, <2>2, <2>3, <2>4, <2>5, <2>6, OwnTriggerOrNone DEF TriggerStep, IsAllowlisted
<1>3. QED
  BY <1>1, <1>2

\* An allowlist entry that covered the recipient throughout TriggerFail's two
\* reads keeps it from writing the bounce, unless a read failed.
THEOREM AllowlistShields == Spec => []ShieldedNotBounced
<1>1. ShieldInv => ShieldedNotBounced
  BY DEF ShieldInv, ShieldedNotBounced, Covering, Deciding
<1>2. TypeInv => TriggerType
  BY TypeParts
<1>3. QED
  BY <1>1, <1>2, ShapeInit, ShapeStep, TypeInvariant, ShieldInit, ShieldStep, PTL DEF Spec

\* A permanent failure keeps its recipient off the bounce list only if some
\* entry covered it at one of the moments since the event was saved.
THEOREM OnlyAllowlistSpares == Spec => []SparedOnlyIfShielded
<1>1. ShieldInv => SparedOnlyIfShielded
  BY DEF ShieldInv, SparedOnlyIfShielded
<1>2. TypeInv => TriggerType
  BY TypeParts
<1>3. QED
  BY <1>1, <1>2, ShapeInit, ShapeStep, TypeInvariant, ShieldInit, ShieldStep, PTL DEF Spec

----------------------------------------------------------------------------
(* What the deleting requests leave behind.  A purge is a list of          *)
(* statements, so its guarantees are about those it has still to execute:  *)
(* a row without its message has a purge that will still come for it       *)
(* (Promised), and what a purge has already been through holds none of its *)
(* messages (Swept).                                                       *)

Rest(p)  == {purge[p].left[i] : i \in 1 .. Len(purge[p].left)}
After(p) == {Tail(purge[p].left)[i] : i \in 1 .. Len(Tail(purge[p].left))}

\* Each of these rows has its message, or an excuse, or a purge to come.
Promised(name, has, ok) ==
  \A m \in has : \/ m \in msgs \cup ok
                 \/ \E p \in Purgers : m \in purge[p].of /\ name \in Rest(p)

\* A purge past its statement on this table left no row of its messages.
Swept(name, has, ok) ==
  \A p \in Purgers : purge[p].left # << >> /\ name \notin Rest(p) => purge[p].of \cap has \subseteq ok

Accounted(name, has, ok) == Promised(name, has, ok) /\ Swept(name, has, ok)

-----------------------------------------------------------------------------
(* How the statements of a purge run out.                                  *)

LEMMA RestSplits ==
  ASSUME PurgeType, NEW p \in Purgers, purge[p].left # << >>
  PROVE  /\ Rest(p) = {Head(purge[p].left)} \cup After(p)
         /\ Tail(purge[p].left) = << >> => After(p) = {}
<1> DEFINE s == purge[p].left
<1>1. s \in Seq(PurgeTables \cup {"config"})
  BY DEF PurgeType, PurgeStates
<1>2. PICK n \in Nat : n = Len(s)
  BY <1>1, LenProperties
<1>3. n # 0 /\ Head(s) = s[1] /\ Len(Tail(s)) = n - 1 /\ \A i \in 1 .. n - 1 : Tail(s)[i] = s[i + 1]
  BY <1>1, <1>2, EmptySeq, HeadTailProperties
<1>4. ASSUME NEW x \in Rest(p) PROVE x \in {Head(s)} \cup After(p)
  <2>1. PICK i \in 1 .. n : x = s[i]
    BY <1>2 DEF Rest
  <2>2. CASE i = 1
    BY <1>3, <2>1, <2>2
  <2>3. CASE i # 1
    <3>1. i - 1 \in 1 .. n - 1 /\ i - 1 + 1 = i
      BY <2>3
    <3>2. Tail(s)[i - 1] = x
      BY <1>3, <2>1, <3>1
    <3>3. QED
      BY <1>3, <3>1, <3>2 DEF After
  <2>4. QED
    BY <2>2, <2>3
<1>5. ASSUME NEW x \in {Head(s)} \cup After(p) PROVE x \in Rest(p)
  <2>1. CASE x = Head(s)
    <3>1. 1 \in 1 .. n
      BY <1>3
    <3>2. QED
      BY <1>2, <1>3, <2>1, <3>1 DEF Rest
  <2>2. CASE x \in After(p)
    <3>1. PICK i \in 1 .. n - 1 : x = Tail(s)[i]
      BY <1>3, <2>2 DEF After
    <3>2. i + 1 \in 1 .. n /\ x = s[i + 1]
      BY <1>3, <3>1
    <3>3. QED
      BY <1>2, <3>2 DEF Rest
  <2>3. QED
    BY <2>1, <2>2
<1>6. ASSUME Tail(s) = << >>, NEW x \in After(p) PROVE FALSE
  <2>1. n - 1 = 0
    BY <1>3, <1>6, EmptySeq
  <2>2. \E i \in 1 .. n - 1 : x = Tail(s)[i]
    BY <1>3 DEF After
  <2>3. QED
    BY <2>1, <2>2
<1>7. QED
  BY <1>4, <1>5, <1>6

LEMMA NothingRests ==
  ASSUME NEW p \in Purgers, purge[p].left = << >>
  PROVE  Rest(p) = {}
<1>1. 1 .. Len(purge[p].left) = {}
  <2>1. Len(purge[p].left) = 0
    OBVIOUS
  <2>2. QED
    BY <2>1
<1>2. QED
  BY <1>1 DEF Rest

\* The request goes on with its other statements.
LEMMA Advances ==
  ASSUME PurgeType, NEW p \in Purgers, purge[p].left # << >>, Then(p, Tail(purge[p].left))
  PROVE  /\ \A q \in Purgers \ {p} : purge'[q] = purge[q] /\ Rest(q)' = Rest(q)
         /\ Rest(p)' = After(p)
         /\ purge'[p].left # << >> => purge'[p].of = purge[p].of
         /\ purge'[p].left = Tail(purge[p].left)
         /\ After(p) # {} => purge'[p].of = purge[p].of
<1>1. /\ purge' = [purge EXCEPT ![p] = IF Tail(purge[p].left) = << >> THEN NoPurge
                     ELSE [purge[p] EXCEPT !.left = Tail(purge[p].left)]]
      /\ purge \in [Purgers -> PurgeStates]
  BY DEF Then, PurgeType
<1>2. purge[p] \in PurgeStates
  BY <1>1
<1>3. /\ [purge[p] EXCEPT !.left = Tail(purge[p].left)].left = Tail(purge[p].left)
      /\ [purge[p] EXCEPT !.left = Tail(purge[p].left)].of = purge[p].of
  BY <1>2 DEF PurgeStates
<1>4. NoPurge.left = << >>
  BY DEF NoPurge
<1>5. purge'[p].left = Tail(purge[p].left)
  BY <1>1, <1>3, <1>4
<1>6. purge'[p].left # << >> => purge'[p].of = purge[p].of
  BY <1>1, <1>3, <1>4
<1>7. Rest(p)' = After(p)
  BY <1>5 DEF Rest, After
<1>8. \A q \in Purgers \ {p} : purge'[q] = purge[q]
  BY <1>1
<1>9. \A q \in Purgers \ {p} : Rest(q)' = Rest(q)
  BY <1>8 DEF Rest
<1>10. QED
  BY <1>5, <1>6, <1>7, <1>8, <1>9, RestSplits

-----------------------------------------------------------------------------
(* What a step does to the accounts.                                       *)

LEMMA BeginAccounts ==
  ASSUME PurgeType, NEW p \in Purgers, NEW op, NEW of, BeginPurge(p, op, of),
         NEW name, NEW has, NEW ok, NEW okN, ok \subseteq okN, Accounted(name, has, ok),
         name \in Rest(p)' \/ of \subseteq okN
  PROVE  Accounted(name, has, okN)'
<1>1. /\ purge[p].left = << >> /\ UNCHANGED msgs
      /\ purge' = [purge EXCEPT ![p] = [op |-> op, left |-> Statements(op), of |-> of]]
      /\ purge \in [Purgers -> PurgeStates]
  BY DEF BeginPurge, PurgeType
<1>2. purge'[p].of = of /\ \A q \in Purgers \ {p} : purge'[q] = purge[q]
  BY <1>1
<1>3. Rest(p) = {}
  BY <1>1, NothingRests
<1>4. \A q \in Purgers \ {p} : Rest(q)' = Rest(q)
  BY <1>2 DEF Rest
<1>5. Promised(name, has, okN)'
  BY <1>1, <1>2, <1>3, <1>4 DEF Accounted, Promised
<1>6. Swept(name, has, okN)'
  BY <1>2, <1>4 DEF Accounted, Swept
<1>7. QED
  BY <1>5, <1>6 DEF Accounted

\* A statement that deletes the rows of its messages from the table it is for.
LEMMA ExecuteAccounts ==
  ASSUME PurgeType, NEW p \in Purgers, purge[p].left # << >>, Then(p, Tail(purge[p].left)),
         msgs' = msgs \ Without("stored_messages", Head(purge[p].left), purge[p].of),
         NEW name, NEW has, NEW hasN, NEW ok, NEW okN, ok \subseteq okN,
         hasN = has \ Without(name, Head(purge[p].left), purge[p].of),
         Accounted(name, has, ok)
  PROVE  Accounted(name, hasN, okN)'
<1>1. Rest(p) = {Head(purge[p].left)} \cup After(p)
  BY RestSplits
<1>2. /\ \A q \in Purgers \ {p} : purge'[q] = purge[q] /\ Rest(q)' = Rest(q)
      /\ Rest(p)' = After(p)
      /\ purge'[p].left # << >> => purge'[p].of = purge[p].of
      /\ After(p) # {} => purge'[p].of = purge[p].of
  BY Advances
<1>3. ASSUME NEW m \in hasN
      PROVE  m \in msgs' \cup okN \/ \E q \in Purgers : m \in purge'[q].of /\ name \in Rest(q)'
  <2>1. m \in has /\ (Head(purge[p].left) = name => m \notin purge[p].of)
    BY DEF Without
  <2>2. CASE m \in ok
    BY <2>2
  <2>3. CASE m \in msgs
    <3>1. CASE m \in msgs'
      BY <3>1
    <3>2. CASE m \notin msgs'
      <4>1. m \in purge[p].of
        BY <2>3, <3>2 DEF Without
      <4>2. CASE name \in After(p)
        BY <1>2, <4>1, <4>2
      <4>3. CASE name \notin After(p)
        <5>1. name \notin Rest(p)
          BY <1>1, <2>1, <4>1, <4>3
        <5>2. QED
          BY <2>1, <4>1, <5>1 DEF Accounted, Swept
      <4>4. QED
        BY <4>2, <4>3
    <3>3. QED
      BY <3>1, <3>2
  <2>4. ASSUME NEW q \in Purgers, m \in purge[q].of, name \in Rest(q)
        PROVE  \E x \in Purgers : m \in purge'[x].of /\ name \in Rest(x)'
    BY <1>1, <1>2, <2>1, <2>4
  <2>5. QED
    BY <2>1, <2>2, <2>3, <2>4 DEF Accounted, Promised
<1>4. ASSUME NEW q \in Purgers, purge'[q].left # << >>, name \notin Rest(q)'
      PROVE  purge'[q].of \cap hasN \subseteq okN
  <2>1. CASE q # p
    BY <1>2, <1>4, <2>1 DEF Accounted, Swept
  <2>2. CASE q = p
    <3>1. purge'[p].of = purge[p].of /\ name \notin After(p)
      BY <1>2, <1>4, <2>2
    <3>2. CASE name = Head(purge[p].left)
      BY <2>2, <3>1, <3>2 DEF Without
    <3>3. CASE name # Head(purge[p].left)
      <4>1. name \notin Rest(p)
        BY <1>1, <3>1, <3>3
      <4>2. purge[p].of \cap has \subseteq ok
        BY <4>1 DEF Accounted, Swept
      <4>3. QED
        BY <2>2, <3>1, <4>2
    <3>4. QED
      BY <3>2, <3>3
  <2>3. QED
    BY <2>1, <2>2
<1>5. Promised(name, hasN, okN)' /\ Swept(name, hasN, okN)'
  BY <1>3, <1>4 DEF Promised, Swept
<1>6. QED
  BY <1>5 DEF Accounted

\* A statement that fails: the messages it was for are excused.
LEMMA FailAccounts ==
  ASSUME PurgeType, NEW p \in Purgers, StatementFails(p),
         NEW name, NEW has, NEW ok, NEW okN, ok \cup purge[p].of \subseteq okN,
         Accounted(name, has, ok)
  PROVE  Accounted(name, has, okN)'
<1> DEFINE left == IF purge[p].op \in Strict THEN << >> ELSE Tail(purge[p].left)
<1>1. /\ purge' = [purge EXCEPT ![p] = IF left = << >> THEN NoPurge
                                      ELSE [purge[p] EXCEPT !.left = left]]
      /\ UNCHANGED msgs /\ purge \in [Purgers -> PurgeStates]
  BY DEF StatementFails, Then, PurgeType
<1>2. \A q \in Purgers \ {p} : purge'[q] = purge[q]
  BY <1>1
<1>3. \A q \in Purgers \ {p} : Rest(q)' = Rest(q)
  BY <1>2 DEF Rest
<1>4. purge'[p].of \subseteq okN
  <2>1. purge[p] \in PurgeStates
    BY <1>1
  <2>2. [purge[p] EXCEPT !.left = left].of = purge[p].of
    BY <2>1 DEF PurgeStates
  <2>3. purge'[p].of \in {{}, purge[p].of}
    BY <1>1, <2>2 DEF NoPurge
  <2>4. QED
    BY <2>3
<1> HIDE DEF left
<1>5. Promised(name, has, okN)'
  BY <1>1, <1>2, <1>3 DEF Accounted, Promised
<1>6. Swept(name, has, okN)'
  BY <1>2, <1>3, <1>4 DEF Accounted, Swept
<1>7. QED
  BY <1>5, <1>6 DEF Accounted

\* A row written: its message is there, and excused if a purge is at work.
LEMMA WriteAccounts ==
  ASSUME UNCHANGED purge, NEW name, NEW has, NEW hasN, NEW ok, NEW okN,
         ok \subseteq okN, Accounted(name, has, ok), msgs \subseteq msgs',
         \A m \in hasN \ has : m \in msgs' \cup okN /\ (Purging => m \in okN)
  PROVE  Accounted(name, hasN, okN)'
<1>1. \A q \in Purgers : purge'[q] = purge[q] /\ Rest(q)' = Rest(q)
  BY DEF Rest
<1>2. Promised(name, hasN, okN)'
  BY <1>1 DEF Accounted, Promised
<1>3. Swept(name, hasN, okN)'
  BY <1>1 DEF Accounted, Swept, Purging
<1>4. QED
  BY <1>2, <1>3 DEF Accounted

\* Every deleting request lists the tables it is about.
LEMMA StatementsCover ==
  ASSUME PurgeType, NEW p \in Purgers, NEW op \in PurgeOps, NEW of, BeginPurge(p, op, of)
  PROVE  /\ "attachments" \in Rest(p)' /\ "stored_messages" \in Rest(p)'
         /\ op # "DeleteMessage" => "events" \in Rest(p)'
<1> DEFINE s == Statements(op)
<1>1. purge'[p].left = s
  BY DEF BeginPurge, PurgeType
<1>2. CASE op = "DeleteMessage"
  <2>1. Len(s) = 2 /\ s[1] = "attachments" /\ s[2] = "stored_messages"
    BY <1>2 DEF Statements
  <2> HIDE DEF s
  <2>2. QED
    BY <1>1, <1>2, <2>1 DEF Rest
<1>3. CASE op \in {"DeleteSingleMessage", "ResetMessages"}
  <2>1. Len(s) = 3 /\ s[1] = "attachments" /\ s[2] = "events" /\ s[3] = "stored_messages"
    BY <1>3 DEF Statements
  <2> HIDE DEF s
  <2>2. QED
    BY <1>1, <2>1 DEF Rest
<1>4. CASE op = "ClearAllMessages"
  <2>1. Len(s) = 3 /\ s[1] = "stored_messages" /\ s[2] = "events" /\ s[3] = "attachments"
    BY <1>4 DEF Statements
  <2> HIDE DEF s
  <2>2. QED
    BY <1>1, <2>1 DEF Rest
<1>5. CASE op = "ResetAll"
  <2>1. Len(s) = 10 /\ s[1] = "attachments" /\ s[2] = "events" /\ s[3] = "stored_messages"
    BY <1>5 DEF Statements
  <2> HIDE DEF s
  <2>2. QED
    BY <1>1, <2>1 DEF Rest
<1>6. QED
  BY <1>2, <1>3, <1>4, <1>5 DEF PurgeOps

\* The history of the overlaps.
LEMMA TornGrows ==
  ASSUME Watch
  PROVE  /\ torn \subseteq torn'
         /\ \A m \in Sends : Purging /\ Writing(m) => m \in torn'
         /\ \A p \in Purgers : StatementFails(p) => purge[p].of \subseteq torn'
BY DEF Watch

-----------------------------------------------------------------------------
(* What is left of a message that is gone.                                 *)

Waiting == {"idle", "store", "answered", "refused"}

\* Who writes for a message has stored it or found it.
WritersStored ==
  /\ \A r \in Sends : pc[r] \notin Waiting => r \in msgs \cup torn
  /\ \A t \in Triggers : tpc[t] = "save" => trig[t].msg \in msgs \cup torn

OrphanInv ==
  /\ Accounted("attachments", atts, torn)
  /\ Accounted("events", events, torn \cup kept)
  /\ WritersStored

LEMMA SendWrites ==
  ASSUME SendType, NEW r \in Sends, SendStep(r)
  PROVE  /\ UNCHANGED <<purge, kept>>
         /\ msgs' = msgs \/ (msgs' = msgs \cup {r} /\ pc[r] = "store")
         /\ atts' = atts \/ (atts' = atts \cup {r} /\ pc[r] \notin Waiting)
         /\ events' = events \/ (events' = events \cup {r} /\ pc[r] \notin Waiting)
         /\ \A q \in Sends \ {r} : pc'[q] = pc[q]
         /\ pc'[r] \in Waiting \/ pc[r] \notin Waiting \/ r \in msgs'
<1> USE DEF SendType, Goto, Waiting
<1>1. CASE SendMessage(r) \/ SendMIMEMessage(r) \/ ResendMessage(r)
  <2>1. Goto(r, "store") /\ UNCHANGED <<purge, kept, mailVars>>
    BY <1>1 DEF SendMessage, SendMIMEMessage, ResendMessage, Receive
  <2>2. QED
    BY <2>1
<1>2. CASE Store(r)
  BY <1>2 DEF Store
<1>3. CASE Attach(r) \/ CopyAttachments(r)
  BY <1>3 DEF Attach, CopyAttachments, SaveAttachment
<1>4. CASE ReadOriginalAttachments(r) \/ EnsureTags(r) \/ ExpandMailingLists(r)
  BY <1>4 DEF ReadOriginalAttachments, EnsureTags, ExpandMailingLists
<1>5. CASE GenerateAcceptedEvent(r)
  BY <1>5 DEF GenerateAcceptedEvent, Record
<1>6. CASE CheckSuppression(r)
  BY <1>6 DEF CheckSuppression, CheckTable
<1>7. CASE GenerateSuppressionFailedEvent(r) \/ GenerateDeliveryEvent(r)
  BY <1>7 DEF GenerateSuppressionFailedEvent, GenerateDeliveryEvent, Record, NextRecipient
<1>8. CASE ReadAutoDeliver(r) \/ ReadDeliveryDelay(r)
  BY <1>8 DEF ReadAutoDeliver, ReadDeliveryDelay, NextRecipient
<1>9. QED
  BY <1>1, <1>2, <1>3, <1>4, <1>5, <1>6, <1>7, <1>8 DEF SendStep

LEMMA TriggerWrites ==
  ASSUME TriggerType, NEW t \in Triggers, TriggerStep(t)
  PROVE  /\ UNCHANGED <<purge, kept, msgs, atts>>
         /\ events' = events \/ (tpc[t] = "save" /\ events' = events \cup {trig[t].msg})
         /\ \A u \in Triggers \ {t} : tpc'[u] = tpc[u] /\ trig'[u] = trig[u]
         /\ tpc'[t] = "save" => trig'[t].msg \in msgs
<1> USE DEF TriggerType
<1>1. CASE TriggerLookup(t)
  BY <1>1 DEF TriggerLookup
<1>2. CASE CreateAndSaveEvent(t)
  BY <1>2 DEF CreateAndSaveEvent, Record, Ends
<1>3. CASE IsAllowlisted(t)
  BY <1>3 DEF IsAllowlisted, ReadAllowlist, Ends
<1>4. CASE TriggerFailBounces(t) \/ TriggerComplainComplains(t)
  BY <1>4 DEF TriggerFailBounces, TriggerComplainComplains, UpsertFor, Ends
<1>5. QED
  BY <1>1, <1>2, <1>3, <1>4 DEF TriggerStep

LEMMA OrphanInit == Init => OrphanInv
<1> SUFFICES ASSUME Init PROVE OrphanInv
  OBVIOUS
<1>1. \A p \in Purgers : purge[p].left = << >>
  BY DEF Init, NoPurge
<1>2. QED
  BY <1>1 DEF Init, OrphanInv, Accounted, Promised, Swept, WritersStored, Waiting

\* The steps of the requests that write.
LEMMA OrphanWrite ==
  ASSUME TypeInv, OrphanInv, Watch, Step, ~\E p \in Purgers : PurgeStep(p)
  PROVE  OrphanInv'
<1>1. SendType /\ TriggerType
  BY TypeParts
<1>2. ASSUME NEW r \in Sends, SendStep(r) PROVE OrphanInv'
  <2>1. UNCHANGED <<purge, kept, trigVars>> /\ msgs \subseteq msgs'
    BY <1>1, <1>2, SendWrites, SendLeavesTriggers
  <2>2. pc[r] \notin Waiting => r \in msgs' \cup torn' /\ (Purging => r \in torn')
    BY <2>1, TornGrows DEF OrphanInv, WritersStored, Waiting, Writing
  <2>3. Accounted("attachments", atts, torn)'
    <3>1. \A m \in atts' \ atts : m \in msgs' \cup torn' /\ (Purging => m \in torn')
      BY <1>1, <1>2, <2>2, SendWrites
    <3>2. QED
      BY <2>1, <3>1, WriteAccounts, TornGrows DEF OrphanInv
  <2>4. Accounted("events", events, torn \cup kept)'
    <3>1. \A m \in events' \ events : m \in msgs' \cup torn' /\ (Purging => m \in torn')
      BY <1>1, <1>2, <2>2, SendWrites
    <3>2. QED
      BY <2>1, <3>1, WriteAccounts, TornGrows DEF OrphanInv
  <2>5. WritersStored'
    <3>1. \A q \in Sends \ {r} : pc'[q] = pc[q]
      BY <1>1, <1>2, SendWrites
    <3>2. pc'[r] \in Waiting \/ r \in msgs' \cup torn'
      BY <1>1, <1>2, <2>2, SendWrites
    <3>3. QED
      BY <2>1, <3>1, <3>2, TornGrows DEF OrphanInv, WritersStored, Waiting
  <2>6. QED
    BY <2>3, <2>4, <2>5 DEF OrphanInv
<1>3. ASSUME NEW t \in Triggers, TriggerStep(t) PROVE OrphanInv'
  <2>1. UNCHANGED <<purge, kept, msgs, atts, sendVars>>
    BY <1>1, <1>3, TriggerWrites, TriggerLeavesSends
  <2>2. Accounted("attachments", atts, torn)'
    BY <2>1, WriteAccounts, TornGrows DEF OrphanInv
  <2>3. Accounted("events", events, torn \cup kept)'
    <3>1. ASSUME NEW m \in events' \ events
          PROVE  m \in msgs' \cup torn' /\ (Purging => m \in torn')
      <4>1. tpc[t] = "save" /\ m = trig[t].msg
        BY <1>1, <1>3, TriggerWrites
      <4>2. m \in Sends /\ Writing(m) /\ m \in msgs \cup torn
        BY <1>1, <4>1 DEF TriggerType, SavesForMessage, Writing, OrphanInv, WritersStored
      <4>3. QED
        BY <2>1, <4>2, TornGrows
    <3>2. QED
      BY <2>1, <3>1, WriteAccounts, TornGrows DEF OrphanInv
  <2>4. WritersStored'
    BY <1>1, <1>3, <2>1, TriggerWrites, TornGrows DEF OrphanInv, WritersStored
  <2>5. QED
    BY <2>2, <2>3, <2>4 DEF OrphanInv
<1>4. CASE UNCHANGED <<purge, kept, msgs, atts, events, sendVars, trigVars>>
  <2>1. Accounted("attachments", atts, torn)' /\ Accounted("events", events, torn \cup kept)'
    BY <1>4, WriteAccounts, TornGrows DEF OrphanInv
  <2>2. WritersStored'
    BY <1>4, TornGrows DEF OrphanInv, WritersStored
  <2>3. QED
    BY <2>1, <2>2 DEF OrphanInv
<1>5. CASE SuppressionRequest \/ \E b \in Batches : BatchRequest(b)
  BY <1>4, <1>5 DEF SuppressionRequest, BatchRequest
<1>6. CASE CreateDomain \/ UpdateConfig \/ \E tag \in Tags : DeleteTag(tag)
  BY <1>4, <1>6 DEF CreateDomain, UpdateConfig, DeleteTag
<1>7. QED
  BY <1>2, <1>3, <1>5, <1>6 DEF Step

LEMMA OrphanPurge ==
  ASSUME TypeInv, OrphanInv, Watch, NEW p \in Purgers, PurgeStep(p)
  PROVE  OrphanInv'
<1>1. PurgeType /\ MailType /\ TriggerType
  BY TypeParts
<1>2. UNCHANGED <<sendVars, trigVars>>
  BY DEF PurgeStep, DeleteOneMessage, DeleteEverything, BeginPurge, ExecuteStatement,
         StatementFails, RestoreConfig
<1>3. ASSUME msgs' = msgs \/ (purge[p].left # << >> /\ msgs' \subseteq msgs)
      PROVE  WritersStored'
  <2>1. \A m \in Sends : Writing(m) /\ m \in msgs \cup torn => m \in msgs' \cup torn'
    BY <1>3, TornGrows DEF Purging
  <2>2. ASSUME NEW r \in Sends, pc'[r] \notin Waiting PROVE r \in msgs' \cup torn'
    <3>1. Writing(r) /\ r \in msgs \cup torn
      BY <1>2, <2>2 DEF OrphanInv, WritersStored, Waiting, Writing
    <3>2. QED
      BY <2>1, <3>1
  <2>3. ASSUME NEW t \in Triggers, tpc'[t] = "save" PROVE trig'[t].msg \in msgs' \cup torn'
    <3>1. trig[t].msg \in Sends /\ Writing(trig[t].msg) /\ trig[t].msg \in msgs \cup torn
      BY <1>1, <1>2, <2>3
         DEF OrphanInv, WritersStored, Writing, TriggerType, SavesForMessage
    <3>2. QED
      BY <1>2, <2>1, <3>1
  <2>4. QED
    BY <2>2, <2>3 DEF WritersStored
<1>4. ASSUME NEW op \in PurgeOps, NEW of, BeginPurge(p, op, of) PROVE OrphanInv'
  <2>1. /\ UNCHANGED <<msgs, atts, events>> /\ kept \subseteq kept'
        /\ op = "DeleteMessage" => of \subseteq kept'
    BY <1>4 DEF BeginPurge
  <2>2. /\ "attachments" \in Rest(p)' /\ "stored_messages" \in Rest(p)'
        /\ op # "DeleteMessage" => "events" \in Rest(p)'
    BY <1>1, <1>4, StatementsCover
  <2>3. torn \subseteq torn'
    BY TornGrows
  <2>4. Accounted("attachments", atts, torn)'
    BY <1>1, <1>4, <2>1, <2>2, <2>3, BeginAccounts DEF OrphanInv
  <2>5. Accounted("events", events, torn \cup kept)'
    BY <1>1, <1>4, <2>1, <2>2, <2>3, BeginAccounts DEF OrphanInv
  <2>6. QED
    BY <1>3, <2>1, <2>4, <2>5 DEF OrphanInv
<1>5. CASE DeleteOneMessage(p) \/ DeleteEverything(p)
  <2>1. \E op \in PurgeOps : \E of : BeginPurge(p, op, of)
    BY <1>5 DEF DeleteOneMessage, DeleteEverything, OneMessage, AllMessages, Strict, PurgeOps
  <2>2. QED
    BY <1>4, <2>1
<1>6. CASE StatementFails(p)
  <2>1. /\ UNCHANGED <<msgs, atts, events, kept>>
        /\ torn \cup purge[p].of \subseteq torn'
    BY <1>6, TornGrows DEF StatementFails
  <2>2. Accounted("attachments", atts, torn)' /\ Accounted("events", events, torn \cup kept)'
    BY <1>1, <1>6, <2>1, FailAccounts DEF OrphanInv
  <2>3. QED
    BY <1>3, <2>1, <2>2 DEF OrphanInv
<1>7. CASE ExecuteStatement(p) \/ RestoreConfig(p)
  <2>1. /\ purge[p].left # << >> /\ Then(p, Tail(purge[p].left)) /\ UNCHANGED kept
        /\ msgs' = msgs \ Without("stored_messages", Head(purge[p].left), purge[p].of)
        /\ atts' = atts \ Without("attachments", Head(purge[p].left), purge[p].of)
        /\ events' = events \ Without("events", Head(purge[p].left), purge[p].of)
    BY <1>7 DEF ExecuteStatement, DeleteRows, RestoreConfig, Without
  <2>2. torn \subseteq torn'
    BY TornGrows
  <2>3. Accounted("attachments", atts, torn)'
    BY <1>1, <2>1, <2>2, ExecuteAccounts DEF OrphanInv
  <2>4. Accounted("events", events, torn \cup kept)'
    BY <1>1, <2>1, <2>2, ExecuteAccounts DEF OrphanInv
  <2>5. QED
    BY <1>3, <2>1, <2>3, <2>4 DEF OrphanInv
<1>8. QED
  BY <1>5, <1>6, <1>7 DEF PurgeStep

LEMMA OrphanStep == TypeInv /\ OrphanInv /\ [Next]_vars => OrphanInv'
<1> SUFFICES ASSUME TypeInv, OrphanInv, [Next]_vars PROVE OrphanInv'
  OBVIOUS
<1>1. CASE UNCHANGED vars
  BY <1>1 DEF vars, histVars, OrphanInv, Accounted, Promised, Swept, Rest, WritersStored
<1>2. CASE Step /\ Watch
  BY <1>2, OrphanWrite, OrphanPurge
<1>3. QED
  BY <1>1, <1>2 DEF Next

\* When no purge is at work, whatever is left of a message that is gone was
\* written by a request a purge overlapped, or spared by a statement that
\* failed, or is the events DELETE /messages leaves: however many purges of
\* whatever kinds ran into each other and into the requests that write.
THEOREM OrphansAreExplained == Spec => []OrphansAreTorn
<1>1. OrphanInv => OrphansAreTorn
  <2> SUFFICES ASSUME OrphanInv, ~Purging
               PROVE  atts \subseteq msgs \cup torn /\ events \subseteq msgs \cup torn \cup kept
    BY DEF OrphansAreTorn
  <2>1. \A p \in Purgers : Rest(p) = {}
    BY NothingRests DEF Purging
  <2>2. QED
    BY <2>1 DEF OrphanInv, Accounted, Promised
<1>2. QED
  BY <1>1, OrphanInit, OrphanStep, TypeInvariant, PTL DEF Spec

-----------------------------------------------------------------------------
(* Resent copies.                                                          *)

ResendPcs == {"store", "copy", "paste", "answered", "refused"}

\* Where a resent message is to get its attachments from, or has them.
Copied(r) ==
  /\ pc[r] \in ResendPcs
  /\ pc[r] \in {"store", "copy"} => rq[r].orig \in atts \/ r \in torn \cup faulted
  /\ pc[r] = "answered" /\ r \in msgs
       => \/ r \in atts \cup torn \cup faulted
          \/ \E p \in Purgers : r \in purge[p].of /\ "stored_messages" \in Rest(p)

ResendInv ==
  /\ Accounted("stored_messages", msgs, torn)
  /\ \A r \in Sends : rq[r].kind = "resend" => pc[r] \in ResendPcs
  /\ \A r \in Sends : rq[r].kind = "resend" /\ rq[r].files => Copied(r)

LEMMA ResendInit == Init => ResendInv
  BY DEF Init, ResendInv, Accounted, Promised, Swept, NoPurge, NoRequest

LEMMA TypedShape == TypeInv => Shape
  BY DEF TypeInv, TypeOK, Shape

\* The request's own steps.
LEMMA ResendOwn ==
  ASSUME SendType, NEW r \in Sends, SendStep(r), torn \subseteq torn', UNCHANGED purge,
         rq[r].kind = "resend" => pc[r] \in ResendPcs,
         rq[r].kind = "resend" /\ rq[r].files => Copied(r)
  PROVE  /\ rq'[r].kind = "resend" => pc'[r] \in ResendPcs
         /\ rq'[r].kind = "resend" /\ rq'[r].files => Copied(r)'
<1> USE DEF SendType, Goto, ResendPcs
<1>1. CASE SendMessage(r) \/ SendMIMEMessage(r)
  <2>1. \E kind \in {"send", "mime"} : \E s, tags, files :
          rq' = [rq EXCEPT ![r] = [kind |-> kind, first |-> s, tags |-> tags,
                                   files |-> files, orig |-> "none"]]
    BY <1>1 DEF SendMessage, SendMIMEMessage, Receive
  <2>2. rq'[r].kind # "resend"
    BY <2>1
  <2>3. QED
    BY <2>2
<1>2. CASE ResendMessage(r)
  <2>1. PICK o \in msgs, s \in First :
          rq' = [rq EXCEPT ![r] = [kind |-> "resend", first |-> s, tags |-> rq[o].tags,
                                   files |-> o \in atts, orig |-> o]]
    BY <1>2 DEF ResendMessage, Receive
  <2>2. pc'[r] = "store" /\ UNCHANGED atts
    BY <1>2 DEF ResendMessage, Receive
  <2>3. rq'[r].orig = o /\ (rq'[r].files <=> o \in atts)
    BY <2>1
  <2>4. QED
    BY <2>2, <2>3 DEF Copied
<1>3. CASE Store(r)
  <2>1. /\ pc[r] = "store" /\ UNCHANGED <<rq, atts>>
        /\ rq[r].kind = "resend" => pc'[r] \in {"copy", "refused"}
        /\ faulted \subseteq faulted'
    BY <1>3 DEF Store, Fault, NoFault
  <2>2. QED
    BY <2>1 DEF Copied
<1>4. CASE ReadOriginalAttachments(r)
  <2>1. /\ pc[r] = "copy" /\ UNCHANGED <<rq, atts, msgs>> /\ faulted \subseteq faulted'
        /\ \/ pc'[r] = "paste"
           \/ pc'[r] = "answered" /\ (rq[r].orig \notin atts \/ r \in faulted')
    BY <1>4 DEF ReadOriginalAttachments, Fault, NoFault
  <2>2. QED
    BY <2>1 DEF Copied
<1>5. CASE CopyAttachments(r)
  <2>1. /\ pc'[r] = "answered" /\ UNCHANGED rq
        /\ r \in atts' \/ r \in faulted'
    BY <1>5 DEF CopyAttachments, SaveAttachment, Fault
  <2>2. QED
    BY <2>1 DEF Copied
<1>6. CASE pc[r] \notin ResendPcs /\ UNCHANGED rq
  BY <1>6
<1>7. CASE Attach(r) \/ EnsureTags(r) \/ ExpandMailingLists(r) \/ GenerateAcceptedEvent(r)
  BY <1>6, <1>7 DEF Attach, EnsureTags, ExpandMailingLists, GenerateAcceptedEvent
<1>8. CASE CheckSuppression(r) \/ GenerateSuppressionFailedEvent(r)
  BY <1>6, <1>8 DEF CheckSuppression, CheckTable, GenerateSuppressionFailedEvent
<1>9. CASE ReadAutoDeliver(r) \/ ReadDeliveryDelay(r) \/ GenerateDeliveryEvent(r)
  BY <1>6, <1>9 DEF ReadAutoDeliver, ReadDeliveryDelay, GenerateDeliveryEvent
<1>10. QED
  BY <1>1, <1>2, <1>3, <1>4, <1>5, <1>7, <1>8, <1>9 DEF SendStep

\* A step that neither moves the request nor deletes anything.
LEMMA ResendOther ==
  ASSUME NEW r \in Sends, UNCHANGED purge, pc'[r] = pc[r], rq'[r] = rq[r],
         r \in faulted => r \in faulted', torn \subseteq torn',
         atts \subseteq atts', r \in msgs' => r \in msgs,
         rq[r].kind = "resend" /\ rq[r].files => Copied(r)
  PROVE  rq'[r].kind = "resend" /\ rq'[r].files => Copied(r)'
<1>1. \A p \in Purgers : purge'[p] = purge[p] /\ Rest(p)' = Rest(p)
  BY DEF Rest
<1>2. QED
  BY <1>1 DEF Copied

LEMMA ResendWrite ==
  ASSUME TypeInv, ResendInv, Watch, Step, ~\E p \in Purgers : PurgeStep(p)
  PROVE  ResendInv'
<1>1. SendType /\ TriggerType /\ Shape
  BY TypeParts, TypedShape
<1>2. ASSUME NEW q \in Sends, SendStep(q) PROVE ResendInv'
  <2>1. UNCHANGED purge /\ msgs \subseteq msgs' /\ atts \subseteq atts'
    BY <1>1, <1>2, SendWrites
  <2>2. Accounted("stored_messages", msgs, torn)'
    <3>1. \A m \in msgs' \ msgs : m \in msgs' \cup torn' /\ (Purging => m \in torn')
      BY <1>1, <1>2, SendWrites, TornGrows DEF Writing
    <3>2. QED
      BY <2>1, <3>1, WriteAccounts, TornGrows DEF ResendInv
  <2>3. ASSUME NEW r \in Sends
        PROVE  /\ rq'[r].kind = "resend" => pc'[r] \in ResendPcs
               /\ rq'[r].kind = "resend" /\ rq'[r].files => Copied(r)'
    <3>1. CASE r = q
      BY <1>1, <1>2, <2>1, <3>1, ResendOwn, TornGrows DEF ResendInv
    <3>2. CASE r # q
      <4>1. SameSend(r)
        BY <1>1, <1>2, <3>2, OthersMove
      <4>2. r \in msgs' => r \in msgs
        BY <1>1, <1>2, <3>2, SendWrites
      <4>3. QED
        BY <2>1, <4>1, <4>2, ResendOther, TornGrows DEF ResendInv, SameSend
    <3>3. QED
      BY <3>1, <3>2
  <2>4. QED
    BY <2>2, <2>3 DEF ResendInv
<1>3. ASSUME UNCHANGED <<purge, msgs, atts, sendVars>>,
             \A r \in Sends : r \in faulted => r \in faulted'
      PROVE  ResendInv'
  <2>1. Accounted("stored_messages", msgs, torn)'
    BY <1>3, WriteAccounts, TornGrows DEF ResendInv
  <2>2. QED
    BY <1>3, <2>1, ResendOther, TornGrows DEF ResendInv
<1>4. ASSUME NEW t \in Triggers, TriggerStep(t) PROVE ResendInv'
  <2>1. UNCHANGED <<purge, msgs, atts, sendVars>>
    BY <1>1, <1>4, TriggerWrites, TriggerLeavesSends
  <2>2. \A r \in Sends : r \in faulted => r \in faulted'
    <3>1. faulted \ {t} \subseteq faulted'
      BY <1>4 DEF TriggerStep, TriggerLookup, CreateAndSaveEvent, Record, IsAllowlisted,
                  ReadAllowlist, TriggerFailBounces, TriggerComplainComplains, UpsertFor,
                  Fault, NoFault
    <3>2. QED
      BY <3>1, PipelineAssumption
  <2>3. QED
    BY <1>3, <2>1, <2>2
<1>5. CASE SuppressionRequest \/ \E b \in Batches : BatchRequest(b)
  BY <1>3, <1>5 DEF SuppressionRequest, BatchRequest
<1>6. CASE CreateDomain \/ UpdateConfig \/ \E tag \in Tags : DeleteTag(tag)
  BY <1>3, <1>6 DEF CreateDomain, UpdateConfig, DeleteTag
<1>7. QED
  BY <1>2, <1>4, <1>5, <1>6 DEF Step

LEMMA ResendPurge ==
  ASSUME TypeInv, ResendInv, Watch, NEW p \in Purgers, PurgeStep(p)
  PROVE  ResendInv'
<1>1. PurgeType /\ MailType
  BY TypeParts
<1>2. /\ UNCHANGED <<sendVars, faulted>> /\ torn \subseteq torn'
  BY TornGrows DEF PurgeStep, DeleteOneMessage, DeleteEverything, BeginPurge, ExecuteStatement,
         StatementFails, RestoreConfig
<1>3. ASSUME NEW op \in PurgeOps, NEW of, BeginPurge(p, op, of) PROVE ResendInv'
  <2>1. /\ UNCHANGED <<msgs, atts>> /\ purge[p].left = << >>
        /\ \A q \in Purgers \ {p} : purge'[q] = purge[q]
    BY <1>1, <1>3 DEF BeginPurge, PurgeType
  <2>2. Accounted("stored_messages", msgs, torn)'
    BY <1>1, <1>2, <1>3, <2>1, StatementsCover, BeginAccounts DEF ResendInv
  <2>3. Rest(p) = {} /\ \A q \in Purgers \ {p} : Rest(q)' = Rest(q)
    BY <2>1, NothingRests DEF Rest
  <2>4. ASSUME NEW r \in Sends, Copied(r) PROVE Copied(r)'
    BY <1>2, <2>1, <2>3, <2>4 DEF Copied
  <2>5. QED
    BY <1>2, <2>2, <2>4 DEF ResendInv
<1>4. CASE DeleteOneMessage(p) \/ DeleteEverything(p)
  <2>1. \E op \in PurgeOps : \E of : BeginPurge(p, op, of)
    BY <1>4 DEF DeleteOneMessage, DeleteEverything, OneMessage, AllMessages, Strict, PurgeOps
  <2>2. QED
    BY <1>3, <2>1
<1>5. CASE StatementFails(p)
  <2>1. UNCHANGED <<msgs, atts>> /\ purge[p].of \subseteq torn'
    BY <1>5, TornGrows DEF StatementFails
  <2>2. Accounted("stored_messages", msgs, torn)'
    BY <1>1, <1>2, <1>5, <2>1, FailAccounts DEF ResendInv
  <2>3. \A q \in Purgers \ {p} : purge'[q] = purge[q]
    BY <1>1, <1>5 DEF StatementFails, Then, PurgeType
  <2>4. \A q \in Purgers \ {p} : Rest(q)' = Rest(q)
    BY <2>3 DEF Rest
  <2>5. ASSUME NEW r \in Sends, Copied(r) PROVE Copied(r)'
    BY <1>2, <2>1, <2>3, <2>4, <2>5 DEF Copied
  <2>6. QED
    BY <1>2, <2>2, <2>5 DEF ResendInv
<1>6. CASE ExecuteStatement(p) \/ RestoreConfig(p)
  <2>1. /\ purge[p].left # << >> /\ Then(p, Tail(purge[p].left))
        /\ msgs' = msgs \ Without("stored_messages", Head(purge[p].left), purge[p].of)
        /\ atts' = atts \ Without("attachments", Head(purge[p].left), purge[p].of)
    BY <1>6 DEF ExecuteStatement, DeleteRows, RestoreConfig, Without
  <2>2. Accounted("stored_messages", msgs, torn)'
    BY <1>1, <1>2, <2>1, ExecuteAccounts DEF ResendInv
  <2>3. /\ Rest(p) = {Head(purge[p].left)} \cup After(p)
        /\ \A q \in Purgers \ {p} : purge'[q] = purge[q] /\ Rest(q)' = Rest(q)
        /\ Rest(p)' = After(p)
        /\ After(p) # {} => purge'[p].of = purge[p].of
    BY <1>1, <2>1, RestSplits, Advances
  <2>4. ASSUME NEW r \in Sends, Copied(r) PROVE Copied(r)'
    <3>1. pc[r] \in {"store", "copy"} => r \in torn'
      BY <2>1, TornGrows DEF Purging, Writing
    <3>2. ASSUME pc[r] = "answered", r \in msgs'
          PROVE  \/ r \in atts' \cup torn' \cup faulted'
                 \/ \E q \in Purgers : r \in purge'[q].of /\ "stored_messages" \in Rest(q)'
      <4>1. r \in msgs /\ (Head(purge[p].left) = "stored_messages" => r \notin purge[p].of)
        BY <2>1, <3>2 DEF Without
      <4>2. CASE r \in atts \ atts'
        <5>1. r \in purge[p].of /\ Head(purge[p].left) # "stored_messages"
          BY <2>1, <4>1, <4>2 DEF Without
        <5>2. CASE "stored_messages" \in Rest(p)
          BY <2>3, <5>1, <5>2
        <5>3. CASE "stored_messages" \notin Rest(p)
          BY <1>2, <2>1, <4>1, <5>1, <5>3 DEF ResendInv, Accounted, Swept
        <5>4. QED
          BY <5>2, <5>3
      <4>3. CASE r \in torn \cup faulted \cup atts'
        BY <1>2, <4>3
      <4>4. ASSUME NEW q \in Purgers, r \in purge[q].of, "stored_messages" \in Rest(q)
            PROVE  \E x \in Purgers : r \in purge'[x].of /\ "stored_messages" \in Rest(x)'
        BY <2>3, <4>1, <4>4
      <4>5. QED
        BY <2>4, <3>2, <4>1, <4>2, <4>3, <4>4 DEF Copied
    <3>3. QED
      BY <1>2, <2>4, <3>1, <3>2 DEF Copied
  <2>5. QED
    BY <1>2, <2>2, <2>4 DEF ResendInv
<1>7. QED
  BY <1>4, <1>5, <1>6 DEF PurgeStep

LEMMA ResendStep == TypeInv /\ ResendInv /\ [Next]_vars => ResendInv'
<1> SUFFICES ASSUME TypeInv, ResendInv, [Next]_vars PROVE ResendInv'
  OBVIOUS
<1>1. CASE UNCHANGED vars
  BY <1>1 DEF vars, histVars, ResendInv, Copied, Accounted, Promised, Swept, Rest
<1>2. CASE Step /\ Watch
  BY <1>2, ResendWrite, ResendPurge
<1>3. QED
  BY <1>1, <1>2 DEF Next

\* ResendMessage stores the copy first and reads the original's attachments
\* after it.  The copy has them all the same, unless a statement failed or a
\* purge ran into the request.
THEOREM ResendsAreFaithful == Spec => []ResendIsFaithful
<1>1. ResendInv /\ TypeInv => ResendIsFaithful
  <2> SUFFICES ASSUME ResendInv, TypeInv, NEW r \in msgs, rq[r].kind = "resend", rq[r].files,
                      pc[r] = "answered", ~Purging
               PROVE  r \in atts \cup torn \cup faulted
    BY DEF ResendIsFaithful
  <2>0. r \in Sends
    BY DEF TypeInv, TypeOK
  <2>1. \A p \in Purgers : Rest(p) = {}
    BY NothingRests DEF Purging
  <2>2. QED
    BY <2>0, <2>1 DEF ResendInv, Copied
<1>2. QED
  BY <1>1, ResendInit, ResendStep, TypeInvariant, PTL DEF Spec

-----------------------------------------------------------------------------
(* The reset.                                                              *)

\* The table holds nothing any more.
Emptied(name) ==
  /\ name = "stored_messages" => msgs = {}
  /\ name = "attachments" => atts = {}
  /\ name = "events" => events = {}
  /\ name = "tags" => tagRows = {}
  /\ name = "domains" => ~domain
  /\ name \in Tables => \A k \in Keys : rows[name][k] = "none"

\* The configuration is restored last, and only by the reset of everything.
ConfigLast(p) ==
  /\ \A i \in 1 .. Len(purge[p].left) : purge[p].left[i] = "config" => i = Len(purge[p].left)
  /\ "config" \in Rest(p) => purge[p].op = "ResetAll"

\* What a reset that is alone has been through is empty.
Cleaned(p) == "config" \in Rest(p) => /\ purge[p].of = Sends
                                      /\ \A name \in PurgeTables \ Rest(p) : Emptied(name)

ResetInv ==
  /\ \A p \in Purgers : ConfigLast(p)
  /\ \A p \in alone : purge[p].left # << >> /\ Cleaned(p)

LEMMA ResetCovers ==
  ASSUME PurgeType, NEW p \in Purgers, NEW op \in PurgeOps, NEW of, BeginPurge(p, op, of)
  PROVE  /\ ConfigLast(p)'
         /\ "config" \in Rest(p)' => op = "ResetAll" /\ PurgeTables \subseteq Rest(p)'
<1> DEFINE s == Statements(op)
<1>1. purge'[p].left = s /\ purge'[p].op = op
  BY DEF BeginPurge, PurgeType
<1>2. CASE op # "ResetAll"
  <2>1. \A i \in 1 .. Len(s) : s[i] # "config"
    <3>1. CASE op = "DeleteMessage"
      BY <3>1 DEF Statements
    <3>2. CASE op \in {"DeleteSingleMessage", "ResetMessages"}
      BY <3>2 DEF Statements
    <3>3. CASE op = "ClearAllMessages"
      BY <3>3 DEF Statements
    <3>4. QED
      BY <1>2, <3>1, <3>2, <3>3 DEF PurgeOps
  <2> HIDE DEF s
  <2>2. QED
    BY <1>1, <2>1 DEF Rest, ConfigLast
<1>3. CASE op = "ResetAll"
  <2>1. /\ Len(s) = 10 /\ s[1] = "attachments" /\ s[2] = "events" /\ s[3] = "stored_messages"
        /\ s[4] = "bounces" /\ s[5] = "complaints" /\ s[6] = "unsubscribes"
        /\ s[7] = "allowlist_entries" /\ s[8] = "tags" /\ s[9] = "domains"
        /\ s[10] = "config"
    BY <1>3 DEF Statements
  <2> HIDE DEF s
  <2>2. \A i \in 1 .. 10 : s[i] \in {s[1], s[2], s[3], s[4], s[5], s[6], s[7], s[8], s[9], s[10]}
    OBVIOUS
  <2>3. \A i \in 1 .. 10 : s[i] = "config" => i = 10
    BY <2>1
  <2>4. \A i \in 1 .. 10 : s[i] \in Rest(p)'
    BY <1>1, <2>1 DEF Rest
  <2>5. PurgeTables \subseteq Rest(p)'
    BY <2>1, <2>4 DEF PurgeTables, Tables
  <2>6. QED
    BY <1>1, <1>3, <2>1, <2>3, <2>5 DEF ConfigLast
<1>4. QED
  BY <1>2, <1>3

\* Once the configuration is what is left, nothing else is.
LEMMA ConfigAlone ==
  ASSUME PurgeType, NEW p \in Purgers, ConfigLast(p), purge[p].left # << >>,
         Head(purge[p].left) = "config"
  PROVE  Rest(p) = {"config"} /\ Tail(purge[p].left) = << >>
<1> DEFINE s == purge[p].left
<1>1. s \in Seq(PurgeTables \cup {"config"})
  BY DEF PurgeType, PurgeStates
<1>2. PICK n \in Nat : n = Len(s)
  BY <1>1, LenProperties
<1>3. n # 0 /\ Head(s) = s[1] /\ Tail(s) \in Seq(PurgeTables \cup {"config"}) /\ Len(Tail(s)) = n - 1
  BY <1>1, <1>2, EmptySeq, HeadTailProperties
<1>4. n = 1
  <2>1. 1 \in 1 .. n
    BY <1>3
  <2>2. QED
    BY <1>2, <1>3, <2>1 DEF ConfigLast
<1>5. Tail(s) = << >>
  <2>1. \A t \in Seq(PurgeTables \cup {"config"}) : t # << >> => Len(t) # 0
    BY EmptySeq
  <2>2. Len(Tail(s)) = 0
    BY <1>3, <1>4
  <2>3. QED
    BY <1>3, <2>1, <2>2
<1>6. QED
  BY <1>5, RestSplits

\* The purges that are not at this one.
LEMMA OthersRest ==
  ASSUME NEW p \in Purgers, NEW q \in Purgers, purge'[q] = purge[q], ConfigLast(q)
  PROVE  Rest(q)' = Rest(q) /\ ConfigLast(q)'
BY DEF Rest, ConfigLast

LEMMA ConfigStaysLast ==
  ASSUME PurgeType, NEW p \in Purgers, ConfigLast(p), purge[p].left # << >>,
         Then(p, Tail(purge[p].left))
  PROVE  /\ ConfigLast(p)'
         /\ purge'[p].left # << >> => purge'[p].op = purge[p].op
<1> DEFINE s == purge[p].left
<1>1. s \in Seq(PurgeTables \cup {"config"}) /\ purge'[p].left = Tail(s)
  BY Advances DEF PurgeType, PurgeStates
<1>2. PICK n \in Nat : n = Len(s)
  BY <1>1, LenProperties
<1>3. Len(Tail(s)) = n - 1 /\ \A i \in 1 .. n - 1 : Tail(s)[i] = s[i + 1]
  BY <1>1, <1>2, HeadTailProperties
<1>4. purge'[p].left # << >> => purge'[p].op = purge[p].op
  <2>1. purge[p] \in PurgeStates
    BY DEF PurgeType
  <2>2. [purge[p] EXCEPT !.left = Tail(purge[p].left)].op = purge[p].op
    BY <2>1 DEF PurgeStates
  <2>3. QED
    BY <2>2 DEF Then, PurgeType, NoPurge
<1>5. \A i \in 1 .. n - 1 : Tail(s)[i] = "config" => i = n - 1
  <2>1. ASSUME NEW i \in 1 .. n - 1, Tail(s)[i] = "config" PROVE i = n - 1
    <3>1. i + 1 \in 1 .. n /\ s[i + 1] = "config"
      BY <1>3, <2>1
    <3>2. i + 1 = n
      BY <1>2, <3>1 DEF ConfigLast
    <3>3. QED
      BY <3>2
  <2>2. QED
    BY <2>1
<1>6. "config" \in Rest(p)' => purge'[p].op = "ResetAll"
  <2>1. Rest(p)' = After(p) /\ (Tail(s) = << >> => After(p) = {}) /\ After(p) \subseteq Rest(p)
    BY Advances, RestSplits
  <2>2. QED
    BY <1>1, <1>4, <2>1 DEF ConfigLast
<1>7. QED
  BY <1>1, <1>3, <1>4, <1>5, <1>6 DEF ConfigLast

\* A purge that goes through a table leaves it empty if it is for every message.
LEMMA EmptiedBy ==
  ASSUME MailType, NEW name, NEW of, DeleteRows(name, of)
  PROVE  /\ of = Sends => Emptied(name)'
         /\ \A other : Emptied(other) => Emptied(other)'
BY DEF DeleteRows, Emptied, Without, MailType

LEMMA ResetInit == Init => ResetInv
<1> SUFFICES ASSUME Init PROVE ResetInv
  OBVIOUS
<1>1. ASSUME NEW p \in Purgers PROVE ConfigLast(p)
  <2>1. purge[p].left = << >>
    BY DEF Init, NoPurge
  <2>2. \A i \in 1 .. Len(purge[p].left) : FALSE
    BY <2>1
  <2>3. QED
    BY <2>2 DEF ConfigLast, Rest
<1>2. QED
  BY <1>1 DEF ResetInv, Init

\* What one purge's step does to all of them.
LEMMA ConfigStep ==
  ASSUME TypeInv, ResetInv, NEW p \in Purgers, PurgeStep(p)
  PROVE  /\ \A q \in Purgers : ConfigLast(q)'
         /\ \A q \in Purgers \ {p} : purge'[q] = purge[q] /\ Rest(q)' = Rest(q)
<1>1. PurgeType
  BY TypeParts
<1>2. \A q \in Purgers \ {p} : purge'[q] = purge[q]
  BY <1>1 DEF PurgeStep, DeleteOneMessage, DeleteEverything, BeginPurge, ExecuteStatement,
              StatementFails, RestoreConfig, Then, PurgeType
<1>3. \A q \in Purgers \ {p} : Rest(q)' = Rest(q) /\ ConfigLast(q)'
  BY <1>2, OthersRest DEF ResetInv
<1>4. ConfigLast(p)'
  <2>1. CASE DeleteOneMessage(p) \/ DeleteEverything(p)
    <3>1. \E op \in PurgeOps : \E of : BeginPurge(p, op, of)
      BY <2>1 DEF DeleteOneMessage, DeleteEverything, OneMessage, AllMessages, Strict, PurgeOps
    <3>2. QED
      BY <1>1, <3>1, ResetCovers
  <2>2. CASE purge[p].left # << >> /\ Then(p, Tail(purge[p].left))
    BY <1>1, <2>2, ConfigStaysLast DEF ResetInv
  <2>3. CASE Then(p, << >>)
    <3>1. purge'[p].left = << >>
      BY <1>1, <2>3 DEF Then, NoPurge, PurgeType
    <3>2. \A i \in 1 .. Len(purge'[p].left) : FALSE
      BY <3>1
    <3>3. QED
      BY <3>2 DEF ConfigLast, Rest
  <2>4. QED
    BY <2>1, <2>2, <2>3 DEF PurgeStep, ExecuteStatement, StatementFails, RestoreConfig
<1>5. QED
  BY <1>2, <1>3, <1>4

\* The purge's own step, if it stays at work and alone.
LEMMA CleanedOwn ==
  ASSUME TypeInv, ResetInv, NEW p \in Purgers, PurgeStep(p), purge'[p].left # << >>,
         purge[p].left = << >> \/ p \in alone
  PROVE  Cleaned(p)'
<1>1. PurgeType /\ MailType
  BY TypeParts
<1>2. CASE DeleteOneMessage(p) \/ DeleteEverything(p)
  <2>0. PICK op \in PurgeOps : \E of : BeginPurge(p, op, of) /\ (op = "ResetAll" => of = Sends)
    BY <1>2 DEF DeleteOneMessage, DeleteEverything, OneMessage, AllMessages, Strict, PurgeOps
  <2>1. PICK of : BeginPurge(p, op, of) /\ (op = "ResetAll" => of = Sends)
    BY <2>0
  <2>2. "config" \in Rest(p)' => op = "ResetAll" /\ PurgeTables \subseteq Rest(p)'
    BY <1>1, <2>1, ResetCovers
  <2>3. purge'[p].of = of
    BY <1>1, <2>1 DEF BeginPurge, PurgeType
  <2>4. PurgeTables' = PurgeTables
    BY DEF PurgeTables, Tables
  <2>5. QED
    BY <2>1, <2>2, <2>3, <2>4 DEF Cleaned
<1>3. CASE ExecuteStatement(p)
  <2>1. /\ purge[p].left # << >> /\ Then(p, Tail(purge[p].left))
        /\ DeleteRows(Head(purge[p].left), purge[p].of)
    BY <1>3 DEF ExecuteStatement
  <2>2. /\ Rest(p) = {Head(purge[p].left)} \cup After(p) /\ Rest(p)' = After(p)
        /\ purge'[p].of = purge[p].of
    BY <1>1, <2>1, RestSplits, Advances
  <2>3. Cleaned(p)
    BY <2>1 DEF ResetInv
  <2>4. ASSUME "config" \in After(p), NEW name \in PurgeTables \ After(p) PROVE Emptied(name)'
    <3>1. purge[p].of = Sends /\ (name = Head(purge[p].left) \/ Emptied(name))
      BY <2>2, <2>3, <2>4 DEF Cleaned
    <3>2. QED
      BY <1>1, <2>1, <3>1, EmptiedBy
  <2>5. QED
    BY <2>2, <2>3, <2>4 DEF Cleaned
<1>4. CASE StatementFails(p)
  <2>1. CASE purge[p].op \in Strict
    <3>1. purge'[p].left = << >>
      BY <1>1, <1>4, <2>1 DEF StatementFails, Then, NoPurge, PurgeType
    <3>2. QED
      BY <3>1
  <2>2. CASE purge[p].op \notin Strict
    <3>1. "config" \notin Rest(p)
      BY <2>2 DEF ResetInv, ConfigLast, Strict
    <3>2. Rest(p) = {Head(purge[p].left)} \cup After(p) /\ Rest(p)' = After(p)
      BY <1>1, <1>4, <2>2, RestSplits, Advances DEF StatementFails
    <3>3. QED
      BY <3>1, <3>2 DEF Cleaned
  <2>3. QED
    BY <2>1, <2>2
<1>5. CASE RestoreConfig(p)
  <2>1. ConfigLast(p) /\ purge[p].left # << >> /\ Head(purge[p].left) = "config"
        /\ Then(p, Tail(purge[p].left))
    BY <1>5 DEF RestoreConfig, ResetInv
  <2>2. Tail(purge[p].left) = << >> /\ purge'[p].left = Tail(purge[p].left)
    BY <1>1, <2>1, ConfigAlone, Advances
  <2>3. QED
    BY <2>2
<1>6. QED
  BY <1>2, <1>3, <1>4, <1>5 DEF PurgeStep

\* Another purge's step deletes more, or nothing.
LEMMA CleanedOther ==
  ASSUME TypeInv, NEW p \in Purgers, NEW q \in Purgers, PurgeStep(q), Cleaned(p),
         purge'[p] = purge[p], Rest(p)' = Rest(p)
  PROVE  Cleaned(p)'
<1>1. MailType
  BY TypeParts
<1>2. ASSUME NEW name, Emptied(name) PROVE Emptied(name)'
  <2>1. CASE ExecuteStatement(q)
    BY <1>1, <1>2, <2>1, EmptiedBy DEF ExecuteStatement
  <2>2. CASE DeleteOneMessage(q) \/ DeleteEverything(q) \/ StatementFails(q) \/ RestoreConfig(q)
    BY <1>2, <2>2 DEF DeleteOneMessage, DeleteEverything, BeginPurge, StatementFails,
                      RestoreConfig, Emptied
  <2>3. QED
    BY <2>1, <2>2 DEF PurgeStep
<1>3. QED
  BY <1>2 DEF Cleaned

LEMMA ResetStep == TypeInv /\ ResetInv /\ [Next]_vars => ResetInv'
<1> SUFFICES ASSUME TypeInv, ResetInv, [Next]_vars PROVE ResetInv'
  OBVIOUS
<1>1. CASE UNCHANGED vars
  BY <1>1 DEF vars, histVars, ResetInv, ConfigLast, Cleaned, Emptied, Rest
<1>2. ASSUME Watch, NEW q \in Purgers, PurgeStep(q) PROVE ResetInv'
  <2>1. /\ \A p \in Purgers : ConfigLast(p)'
        /\ \A p \in Purgers \ {q} : purge'[p] = purge[p] /\ Rest(p)' = Rest(p)
    BY <1>2, ConfigStep
  <2>2. ASSUME NEW p \in alone' PROVE purge'[p].left # << >> /\ Cleaned(p)'
    <3>1. /\ p \in Purgers /\ purge'[p].left # << >>
          /\ purge[p].left = << >> \/ p \in alone
      BY <1>2 DEF Watch
    <3>2. CASE p = q
      BY <1>2, <3>1, <3>2, CleanedOwn
    <3>3. CASE p # q
      <4>1. Cleaned(p)
        BY <2>1, <3>1, <3>3 DEF ResetInv
      <4>2. QED
        BY <1>2, <2>1, <3>1, <3>3, <4>1, CleanedOther
    <3>4. QED
      BY <3>1, <3>2, <3>3
  <2>3. QED
    BY <2>1, <2>2 DEF ResetInv
<1>3. ASSUME Watch, UNCHANGED purge PROVE ResetInv'
  <2>1. alone' = {}
    BY <1>3 DEF Watch
  <2>2. \A p \in Purgers : ConfigLast(p)'
    BY <1>3, OthersRest DEF ResetInv
  <2>3. QED
    BY <2>1, <2>2 DEF ResetInv
<1>4. ASSUME Step, ~\E p \in Purgers : PurgeStep(p) PROVE UNCHANGED purge
  <2>1. SendType /\ TriggerType
    BY TypeParts
  <2>2. ASSUME SuppressionRequest \/ \E b \in Batches : BatchRequest(b) PROVE UNCHANGED purge
    BY <2>2 DEF SuppressionRequest, BatchRequest
  <2>3. ASSUME CreateDomain \/ UpdateConfig \/ \E tag \in Tags : DeleteTag(tag)
        PROVE  UNCHANGED purge
    BY <2>3 DEF CreateDomain, UpdateConfig, DeleteTag
  <2>4. QED
    BY <1>4, <2>1, <2>2, <2>3, SendWrites, TriggerWrites DEF Step
<1>5. QED
  BY <1>1, <1>2, <1>3, <1>4 DEF Next

\* POST /mock/reset during which no request but other purges ran has emptied
\* every table by the time it restores the configuration, whatever the tables
\* held and however many purges were under way.
THEOREM ResetIsComplete == Spec => []ResetLeavesNothing
<1>1. TypeInv /\ ResetInv => ResetLeavesNothing
  <2> SUFFICES ASSUME TypeInv, ResetInv, NEW p \in alone, Head(purge[p].left) = "config"
               PROVE  /\ msgs = {} /\ atts = {} /\ events = {} /\ tagRows = {} /\ ~domain
                      /\ \A t \in Tables, k \in Keys : rows[t][k] = "none"
    BY DEF ResetLeavesNothing
  <2>1. p \in Purgers /\ PurgeType
    BY TypeParts DEF HistoryType
  <2>2. Rest(p) = {"config"} /\ Cleaned(p)
    BY <2>1, ConfigAlone DEF ResetInv
  <2>3. \A name \in PurgeTables \ {"config"} : Emptied(name)
    BY <2>2 DEF Cleaned
  <2>4. /\ "stored_messages" \in PurgeTables /\ "attachments" \in PurgeTables
        /\ "events" \in PurgeTables /\ "tags" \in PurgeTables /\ "domains" \in PurgeTables
        /\ Tables \subseteq PurgeTables /\ "config" \notin Tables
    BY DEF PurgeTables, Tables
  <2>5. QED
    BY <2>3, <2>4 DEF Emptied
<1>2. QED
  BY <1>1, ResetInit, ResetStep, TypeInvariant, PTL DEF Spec
=============================================================================
