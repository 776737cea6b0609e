# Models of the Mailgun mock API

TLA+ models, model-checking configurations and machine-checked proofs for the
Go service under `src/`: an HTTP server that imitates the Mailgun API for
development and tests. It stores what it is sent in SQLite (or PostgreSQL)
through gorm, invents the events a real service would report, and pushes what
happens to browser dashboards over WebSockets.

## 1. The system

Every HTTP request runs in a goroutine of its own. Two kinds of state are
shared: the database, and two objects in memory (the hub and `MockConfig`).
**Only the creation of a domain opens a transaction, and no handler takes a
lock**: a handler is a sequence of single SQL statements, and the statements of
different requests interleave freely. Most handlers ignore the errors of their
writes. These two facts are what the models are about.

| Component | State | Operations | What makes it correct |
|---|---|---|---|
| WebSocket hub (`websocket/hub.go`) | map of clients, a bounded channel and a `done` channel per client, connections, timers | register, unregister, broadcast, the two pumps, re-authentication timeout | no channel closed twice, ordered delivery without gaps, broadcasters never held up, dead connections reclaimed |
| Suppression lists (`suppression/`) | bounces, complaints, unsubscribes, allowlist; soft-deleted rows under unique indexes | add (form, JSON, CSV), delete, clear | an address on a list is on it for every reader; add and delete compose |
| Messages (`message/`) | stored messages, attachments | send, send MIME, resend, delete | nothing of a message outlives it, a copy is a copy |
| Events (`event/event.go`) | events | accepted, delivered, failed by suppression; the suppression check | the three reads of the check decide as one |
| Mock triggers (`event/handlers_mock_triggers.go`) | - | deliver, fail, defer, open, click, unsubscribe, complain | a bounce is added unless the allowlist prevents it |
| Mock control (`mock/`) | `MockConfig`, reset | reset all, reset messages, clear, delete one, configuration, dashboard | a reset leaves nothing, a purge leaves no orphans, an update of the configuration stands |
| Tags (`tag/`) | tags | created by sends; read, described, deleted | a sent message's tags exist |
| Domains (`domain/`) | domains, DNS records, tracking | create, verify, update, delete | names unique, a domain has its records in its own state, a deleted domain is gone |
| Mailing lists (`mailinglist/`) | lists with a member count, members | lists and members one at a time, in JSON and CSV bulk | the count is the number of members |
| Templates (`template/`) | templates, versions | versions, activation, rendering | at most one active version, at most 40 versions |
| Webhooks (`webhook/`) | URLs per event type, of a domain and of the account; deliveries | create, replace, delete; signing key; trigger | what was registered is delivered to, once, with the key in force |
| Routes (`route/`) | routes with priority and expression | CRUD, match, inbound mail | the first match wins, catch-all last, stop() ends |
| IPs and pools (`ip/`), subaccounts (`subaccount/`), API keys (`apikey/`), SMTP credentials (`credential/`), account allowlist (`allowlist/`) | rows | CRUD, assignments, limits | references stay valid, a key that was issued is there |
| Authentication (`auth/`, `middleware/`) | - | checks every request | decides by mode |
| Lists of everything (`pagination/`) | cursors, offsets | first, next, prev, last | a walk sees every row that stays, once |
| Metrics, statistics, dashboard | - | aggregation | read only |

Interactions:

- a send reads the domain, stores the message and its attachments, ensures its
  tags, expands mailing lists, and for each recipient records an accepted
  event, checks the suppression lists, reads the configuration and records a
  failed or a delivered event;
- a trigger reads a message, records an event, and for a permanent failure
  reads the allowlist and writes a bounce; for a complaint it writes a complaint;
- every recorded event, stored message and reset is broadcast: the handler
  blocks on the hub's unbuffered channel until the hub takes the value;
- a purge or a reset deletes from the tables all of the above use;
- the configuration decides what a new domain's state is, which key signs a
  webhook delivery and whether a message is delivered.

Hard behaviours: statements of several requests interleaved; rows read early
and used late; a soft delete that hides rows from queries but not from unique
indexes; statements that fail (SQLITE_BUSY: no busy timeout is set) in the
middle of a handler that does not notice; channels shared by goroutines that
die in different orders; slow, stalled and vanished browsers.
`PROJECT.json` lists these hazards at the lines where they bite, with the
property that would catch each, or why none does.

## 2. The modules

| Module | Models | Role |
|---|---|---|
| `PubSub` | what the hub promises a dashboard | abstract specification |
| `Hub` | `websocket/hub.go`, all its goroutines | implements `PubSub` |
| `HubProofs` | - | theorems about `Hub`, the refinement among them |
| `Suppression` | the four lists and every operation that changes them | used by `Pipeline` |
| `Pipeline`, `MCPipeline` | sends, events, triggers, purges, reset, configuration | composes with `Suppression`; instances for TLC |
| `PipelineProofs` | - | theorems about `Pipeline`: its checks, its type invariant, what purges and resets leave, resends |
| `MailingLists`, `MCMailingLists` | `mailinglist/handlers.go`: lists, members, `members_count` | on its own (`Pipeline` uses the members as `Expansion`); instances for TLC |
| `MailingListsProofs` | - | theorems about `MailingLists`: unique indexes and ids, counts, members, opt-outs |
| `Database` | gorm's statements, unique indexes, soft deletion, and requests that are programs of statements | extended by the next nine |
| `Templates` | `template/handlers.go` | |
| `Webhooks` | `webhook/handlers.go` | |
| `Domains` | `domain/`, `credential/` | |
| `IPs` | `ip/handlers.go` | |
| `Subaccounts` | `subaccount/handlers.go` | |
| `Keys` | `apikey/`, `allowlist/` | |
| `TagRegistry` | `tag/handlers.go`, `tag/v1_handlers.go` | |
| `Routes` | `route/handlers.go`, `route/expression.go` | |
| `Mock` | `mock/handlers.go`: configuration and resets | |
| `Paging` | `pagination/` and the ten listings that page by cursor | |
| `OffsetPaging` | the seven listings that page by offset | extends `Paging` |
| `PagingProofs` | - | theorems about the walks |
| `Service`, `MCService` | the nine modules over `Database` together with both kinds of paging | composition; instance for TLC |
| `ServiceProofs` | - | the theorems about walks carried over to `Service`, and the routes an inbound message takes |
| `RecordsProofs` | - | theorems about all of `Service`: rows, deletions, updates |
| `ComponentProofs` | - | theorems about single components within `Service` |
| `TemplateWebhookProofs` | - | theorems about templates and their versions, and webhooks and their deliveries, within `Service` |

**`Hub`.** One action per step of a goroutine that another goroutine can see.
A send on an unbuffered channel (`Register`, `Unregister`, `Broadcast`) is a
rendezvous: the sender waits at a program counter (`serve`, `reader`,
`handler`) and the hub's action moves both sides. `pending` is what is left of
the `range` over the clients during a broadcast; the hub is in its `select`
when it is empty. `writer` and `reader` are the program counters of the pumps,
`timer` and `waiter` the re-authentication timer and the goroutine that stops
it. The connection and the browser are external: a peer reads, stalls or is
gone; a write to a stalled peer blocks (no write deadline is set), a write to
a peer that is gone may succeed or fail. Closing a closed channel would panic:
`crashed` records it. `written` and `joined` are history.

**`Suppression`.** `rows[table][key]` is `none`, `live` or `deleted`: gorm hides
a soft-deleted row from queries, but the unique index still covers it and the
upserts do not clear `deleted_at`. A key is the string an address was given as;
`named` and `plain` in the instances are the same address with and without a
display name. An allowlist row has the type its entry was given as (`types`, an
address or a domain), which the upsert overwrites and the check compares. A batch
adds its rows one statement at a time. With `MayFail` a
statement may fail without the handler noticing, as in the code.

**`Pipeline`.** A message is named by the request that stored it. Each request is
a program counter over its SQL statements; `Next` is one such step together
with `Watch`, which keeps history variables no action reads: the entries
that blocked a recipient since its check began (`steady`), whether any did at some
moment of it (`listed`), the allowlist
entries that covered a trigger's recipient (`shield`), the messages a purge
overlapped (`torn`), the resets that ran alone (`alone`). The statement
lists of the purges (`Statements`) are in the code's order. A refused request
changes nothing and is no step. A broadcast is no step: `Hub` shows that the
hub always takes it (`BroadcastersProceed`).

**`MailingLists`.** `lists` and `members` are sets of rows; a row is named after
the request that created it, which stands for its id, and both tables have
their unique index (address; list address and member address). A request
begins with the query that finds its list or member, and then executes
its statements one per step. gorm's `Save` is two of them: an UPDATE of every
column of the row read earlier (`seen`), and when that row is gone an INSERT
(`ReinsertList`, `ReinsertMember`) in which the column default turns
`subscribed = FALSE` into TRUE. `clashed` and `renamed` are history: `Clash`
says which requests must not overlap at one list for the properties to be
claimed of it, and `Harmless` which may: additions of single members among
themselves, and a deletion beside additions, single or bulk.
Deletions of different members may overlap too.

**`Database` and the modules over it.** `db[table]` is a set of rows, a row a
record with an id (the request that inserted it and a number) and `dead`, its
`deleted_at`. A handler is one action: the lookups it begins with, taken at one
moment, and with what they found a *program*, the statements it goes on to execute
(`todo`). `Execute` runs one statement of one request, so the statements of
requests interleave as in the code; a `Transaction` is one statement. The
statements are gorm's: `Insert`, refused by a unique index (which sees
soft-deleted rows) with or without the handler noticing (`strict`), `Update`,
`SoftDelete`, `Purge` (a hard delete), `IfAny` (a query in mid-handler), and
`Save`, which writes every column of the row that was read and, when its UPDATE
finds no such row, goes on to an INSERT ... ON CONFLICT (`SaveMisses`), so that
it brings a deleted row back. Four handlers have steps of their own: `TriggerWebhook`, which
reads the webhooks of the account after those of the domain (`Collect`) and the signing key
after both (`Deliver`), the second try of a taken key value
(`Issue`), the INSERT-or-UPDATE of a tag (`EnsureTag`), and the section of a
configuration with an ill-typed field (`RefuseSection`), which is refused when its other
fields are set. `asked`, `failed` and
`before` are history: what each request was asked, which were answered with an
error half-way, and which were over when another began. The properties are
stated with `before` (`Preceded`, `Overlap`, `Clash`): what holds of
requests one after the other, and exactly which overlaps may break it.

The nine modules keep of a row the columns their properties tell apart. A
domain has one column per group of settings and one row stands for its five DNS
records, which are always written by the same statement; a route's pattern is the set
of addresses it matches; the configuration is the one row of `db.config`. The
delivery trigger reads the signing key without a lock while `PUT
/mock/config` may be writing it: a Go string is two words, so a read may also
give a mixture of the old and the new (`"torn"`).

**`Service`.** Requests to different components touch different tables,
so interleaving them shows nothing that the components do not show one by one.
A behaviour is therefore one *scene*: the handlers of one component, with
the reset, which deletes from every component's tables, and with the
configuration where the component reads it. Two scenes are clients that page through a
listing, by cursor and by offset, while its rows come and go.

**`Paging`, `OffsetPaging`.** A row is its sort key. One page is a window of the
rows, cut at `Limit`, with the cursor and the `hasMore` the code computes from one row
more than the limit. The nine key listings share their code's algorithm; the
events have another. By offset, the count and the page are two statements. The link to
the next messages does not repeat the limit, so a walk goes on with `DefaultLimit` rows to a
page (`size`) whatever it began with; the other offset walks keep theirs.
`stayed` and `times` are history: the rows there throughout a walk, and
how often each was shown.

Operators named `...Bug` are mistakes someone could plausibly make in the
definition that follows them. No action uses them; putting one in the place of
the definition it precedes makes the property listed with it in `PROJECT.json`
fail, which shows that the property is about the code.

## 3. The runs

| Run | Question | Result |
|---|---|---|
| `hub` | Can the hub close a channel twice, lose, repeat or reorder a message, or do anything `PubSub` forbids? | no |
| `hub_live` | Do broadcasters, dead connections, dropped clients and accepted messages get where they should? | yes, a dropped client with a stalled peer excepted |
| `hub_stall` | Is every dropped client disconnected, as the comment at `hub.go:69` says? | **no** |
| `pipeline_check` | Do the suppression check and the allowlist check decide by what was there, while the lists change and statements fail? | yes |
| `pipeline_purge` | What can be left of a deleted message, and what can a resend lose? | only what the purge overlapped or failed to delete |
| `pipeline_reset` | Does a reset that runs alone empty everything it should before it restores the configuration? | yes |
| `pipeline_rebounce` | Is an address suppressed again when it bounces after being deleted, as `suppressions.md:296` says? | **no** |
| `pipeline_named` | Is an address on a list dropped in every form, as `suppressions.md:3` says? | **no** |
| `lists` | Do the count, the members and the opt-outs of a list stay right while harmless requests overlap? | yes |
| `records` | Over all scenes of `Service`: do answered requests stand, deleted rows stay gone, limits and references hold, triggers deliver and routes match as they should, and do walks see every row? | yes, outside the overlaps each property names |
| `paging_ascending` | Does a walk through events in ascending order see every row, as `events-and-logs.md:546` implies? | **no**: the links do not carry the order |
| `lists_count` | Is `members_count` the number of members, as `mailing-lists.md:72` says? | **no**: a member added between the two statements of a deletion is in the next list of the address, which counts none |

The five answers in bold are disagreements between the repository's own words and
its code; `PROJECT.json` quotes the lines.

The passing properties say which overlaps they excuse, and some of these excuses are
disagreements as well, which no run of their own shows. `OneActiveVersion` excuses two activations
that overlap (each can deactivate before the other writes) although `templates.md:541` has
exactly one active version at a time; `WithinLimits` excuses `CopyVersion`, which counts nothing,
although `templates.md:271` has at most 40 versions. `CountIsExact` excuses renaming, which takes
the count along and leaves the members (`mailing-lists.md:189`), and the overlaps in `Clash`. `CountIsMembers`
excuses nothing: besides the deletion that its run shows, a rename violates it, and so do overlaps in `Clash`.

Bounds, and why they suffice:

- `hub`: two connections, one of them with a timer, so that one can be dropped
  while the other is served; a buffer of one and two broadcasts, so that
  a buffer fills; one broadcaster, since the hub serialises them.
  `hub_live` has one connection, with a timer, and two broadcasters competing
  with the other users of the hub's channels, and three broadcasts. `MaxMsgs` bounds
  how many broadcasts start; the proofs have no such bound in any argument.
- `pipeline_check`: one message to one address twice (the loop has a second
  iteration), one trigger that can fire again and again, one address, one host, one
  tag; every single addition, deletion and clear of the lists between any two
  statements. The checks read one key at a time, so further addresses
  add nothing.
- `pipeline_purge`: a message, its resend, a trigger on either, and a request that purges
  again and again by each of the four endpoints; a statement of the purge and of the trigger may fail.
- `pipeline_reset`: every table is filled (a send with an attachment and a tag,
  a complaint trigger, batches into all four lists), and the configuration changed.
- `lists`: four requests, each of any kind, on two list addresses and two
  people: enough to create a list, fill it, and have two requests overlap at it
  or at its successor. A bulk request carries two people. A request
  is sent once, so every counter is bounded by the requests.

- `records`: three requests in each scene (two where every webhook endpoint
  is open): one that was to be protected and two that disturb it, since the properties
  are about a pair of overlapping requests and one more before, between or after them. Names,
  addresses, tags and keys come in twos where requests can differ, and in ones where
  only agreeing matters (one domain, one login, one IP, one allowlist address). A scene starts empty or from
  one seed row of each table, so that a single request has something to work on. The limits are 1 template and 2 versions
  for the code's 100 and 40: they are compared with a count and
  enter no other decision. The `triggers` scene has the trigger, the signing key, the
  configuration, the reset and the update of an account webhook; the other
  webhook endpoints are in the `webhooks` scene, without the reset. `paging` has
  four rows and two to a page: a second page that is full, short or empty. The requests are interchangeable and the only
  symmetry used. About 1.1 million states.
  The offset walk asks for two rows and its links give one (`DefaultLimit`), so that the page size
  changes on the way.
- `paging_ascending`: the same table.
- `lists_count`: the instance of `lists` with one person and the three endpoints of the
  disagreement.

Fairness (`hub_live`, `hub_stall`): a goroutine that can run runs (weak
fairness), as the Go scheduler guarantees; the three rendezvous with the hub
have strong fairness, because the hub's `select` picks among ready channels at
random and each channel serves its waiters in order. `writePump` has strong
fairness: a write that is blocked again and again by a peer that pauses ends
when the peer reads again. Nothing is assumed of peers, of new requests or new
connections, nor that the re-authentication timer elapses. In particular
nothing makes a stalled peer resume. `Stuck` says that a
peer is stalled for good; `DroppedUnlessStalled` and `AcceptedIsWritten` except
just that case, and it alone keeps `DroppedIsDisconnected` from holding.

Deadlock checking is off in every run: the bounded instances end (broadcasts
run out, every request has been answered), and the server itself may stay
idle for ever.

## 4. What is proved

**The hub** (`HubProofs`), for any sets of clients and handlers, any buffer
capacity and any number of broadcasts, from `HubAssumption` (`Timed` is a set of
clients, the capacity a positive number, `MaxMsgs` a number):

- `TypeCorrect`: `Spec => []TypeOK`;
- `DoneClosedOnce`: `Spec => []DoneExactlyWhenRemoved`, so `close(client.done)`
  never panics;
- `DeliveryInOrder`: `Spec => []InOrderNoGap`;
- `RegisteredMissNothing`: `Spec => []NothingMissed`;
- `HubImplementsPubSub`: `Spec => ImplementsPubSub`, every step of every
  goroutine is a step of the abstract `PubSub` or a stutter.

The safety properties are not inductive one by one. The inductive invariant
`HubInv` adds `Lifecycle`: what each program counter says of the registration,
the buffer and the message in hand (a client not yet registered has nothing in
its buffer, a client in the map has an open `done`, `pending` only holds
registered clients, ...). `DoneExactlyWhenRemoved` needs it to know that a
removed client is never registered again; the two stream properties need it to
know that the buffer, the message in hand and what was written are
consecutive runs of one sequence; the refinement uses it to know which of these a step moves.

**Sends, triggers, purges and resets** (`PipelineProofs`), for any number of requests of every kind, any addresses, hosts,
tags, lists expanded and configurations, and with any statement failing:

- `CheckDecidesSoundly`: `Spec => []CheckIsSound`. The inductive invariant
  `CheckInv` says that what `steady` holds still blocks the recipient, and that
  a list already read has nothing left in it: when a list is read and found
  not to block, it drops out of `steady` at that step, and `steady` only shrinks;
- `OnlyListedFail`: `Spec => []FailedOnlyIfListed`, the converse: a row the check finds is on a list at
  that moment and for the message's tags, so the history has seen it (`listed`), which only grows while the check lasts;
- `AllowlistShields`: `Spec => []ShieldedNotBounced`, and `OnlyAllowlistSpares`:
  `Spec => []SparedOnlyIfShielded`, from `ShieldInv`, by the same argument for the two
  reads of the allowlist;
- `PipelineTypeCorrect`: `Spec => []TypeOK`. The part that is not plain is that
  the history only names strings: the loop over the recipients must never leave its list
  (`LoopInRange`), nor a trigger save an event before it found a message;
- `OrphansAreExplained`: `Spec => []OrphansAreTorn`. A purge is a list of statements, so
  the invariant is about those still to come: a row whose message is gone has
  an excuse, or a purge that still has the statement for it ahead (`Promised`); a purge past that statement
  left no such row (`Swept`). A request that writes has stored or found its message (`WritersStored`), so
  whatever it writes once the message is gone was torn by an overlap;
- `ResendsAreFaithful`: `Spec => []ResendIsFaithful`, from `Copied`: where the copy's attachments are to
  come from, at each step of the resend;
- `ResetIsComplete`: `Spec => []ResetLeavesNothing`: what a reset that is alone has been
  through is empty (`Emptied`), and the configuration comes last
  (`ConfigLast`).

The assumption is `PipelineAssumption`: the constants have their types, a send
and a trigger are different requests, an expansion is a sequence of
strings, and there is a recipient a form can name (`First # {}`).

**Mailing lists** (`MailingListsProofs`), for any requests, addresses, people and bulk
sequences (`MailingListsAssumption`: known endpoints, bulk sequences that are not
empty):

- `RowsAreUnique`: `Spec => []TypeOK`, which includes both unique indexes and that a
  row's id is one row's. The invariant `RowsInv` adds what a request at each statement
  carries (`Own`), that the row it holds was once a row of the table, and that an
  id is taken only by the request it is named after (`Given`): a re-inserted row can
  collide with no new one;
- `DeletedListsAreEmpty`: `Spec => []NoStrayMembers`;
- `CountsAgree`: `Spec => []CountIsExact`;
- `OptOutsStand`: `Spec => []OptOutStands`.

The last three speak of clean lists: those at which no two requests clashed and which
were never renamed. Their invariants come in layers, each resting on the ones before:

1. `ControlInv`: what a request was asked, how far it is, and that any two requests at
   work at a clean list do not clash (`Apart`);
2. `WhoseInv` and `MineInv`: requests that hold the row of one list were asked about one
   address, and a member's id names the list of the request that inserted it. So a
   request writes at no clean list but its own (`Elsewhere`), and every other step can be
   disregarded there;
3. `StrayInv` and `StandingInv`: a clean list with members or a request at work has
   its row, has no members between the two statements of its deletion, and still holds what
   the requests at work there have read;
4. `BalanceInv`: the count is not exact while a request has inserted or deleted a
   member that it has not counted. Each such row is a token (for an insertion a request and a
   number, for a deletion the request), and the members plus the tokens of deletions are as many as the
   count plus the tokens of insertions. Every statement moves one token, or none,
   or turns all of a request's tokens into the sum it adds;
5. `OptOutInv`: nobody who is opted out is subscribed, except by the row that a request has just
   inserted with the default TRUE and will correct by its next statement.

**Paging** (`PagingProofs`), for any number of rows and any page
size (`PagingAssumption`):

- `PagingTypeCorrect`, and `WalksAreComplete`: `PagingSpec => []WalkSeesAll`. The
  invariant `WalkInv`: nothing shown lies beyond the cursor, nothing that stayed and
  lies before it was left out. It rests on lemmas about ORDER BY and LIMIT: what is taken has nothing smaller left behind, and it is all there
  is when no more than the limit is there;
- `OffsetWalksAreComplete`: `OffsetSpec => []OffsetWalkSeesAll`. A row's place is its
  rank; insertions only raise it, deletions only lower it, and a page is the rows
  whose rank lies in its range;
- `ServiceWalksAreComplete` (`ServiceProofs`): both hold in every behaviour of `Service`.

**Everything over the database** (`RecordsProofs`), for any number of requests of the nine
components, whatever order their statements come in:

- `DatabaseIsWellFormed`: `Spec => []DatabaseTypeOK`;
- `DeletedStaysDeleted`: `Spec => []NothingComesBack`;
- `AnsweredUpdateStands`: `Spec => []LastUpdateStands`.

Some fifty handlers build programs for one interpreter, so the proof is in two halves. A
statement is reduced to the primitives it may come down to, a put, an update or a
purge of one table (`Will`: those a request has still ahead, in either branch of a query).
The columns of each table are split (`Schema`) into those nothing changes, those a whole-row Save sets
and those that UPDATE statements set. The first half shows that each handler starts a sound
program (`ArriveStarts`): what it stores has the table's columns and bears its own id or one it
read, what it deletes it names by a fixed column. The second half shows that any step of a sound program keeps
the invariant, once for all handlers (`Outcome`):

1. `RecordsInv`: besides `DatabaseTypeOK`, what programs look like (`Shapes`), that every
   row comes from the seed or from a request that was asked (`Origins`), that what a request is still
   to insert is nowhere yet (`Unborn`), and that all copies of a row agree on its fixed
   columns (`Alike`), which is why a Save that re-inserts a row collides with none;
2. `Doomed`: every deletion a request has still ahead will hit the row it is about, and once
   none is left the row is gone, with everyone who had read it, or was read and saved by an overlapping request;
3. `Standing`: a column that a request is to set is still ahead of it, or set in the row and in
   every copy that somebody holds, or excused by an overlapping Save.

The assumptions: `seed` is the name of no request, the default IPs are rows of the table `ips`
(`IPsAssumption`), the reset of each component names tables (`ServiceAssumption`),
and the lists of tags are sequences (`TagRegistryAssumption`); `ComponentProofs` also needs that `torn` is no request
(`WebhooksAssumption`).

**Single components over the database** (`ComponentProofs`), again for any number of requests:

- `LastLimitStands`: `Spec => []SendingLimitStands`;
- `ManagedKeysAreIssued`: `Spec => []IssuedKeyIsThere`;
- `PoolIPsGoWithPool`: `Spec => []PoolIPsFollowPool`;
- `DeliveriesAreSigned`: `Spec => []SignedWithCurrentKey`;
- `TagsStandAsWritten`: `Spec => []TagsAsLastWritten`;
- `RecordsGoWithDomain`: `Spec => []RecordsMatchDomain`.

A scene only asks for the requests of its component, and the tables of the others stay empty
(`Scoped`); so each invariant says which of the component's requests may write a table, and how (`LimitRoles`,
`PoolRoles`, `TagRoles`). The properties excuse a request by a rival: one that was
not over before it. A rival never ceases to be one, so each
invariant says, for a request without one, where what it promises is at each moment:

- `LimitInv`: the row with its limit is there, or its statement for it is still ahead;
- `KeyInv`: the statement that issues the key is still ahead, or the key is there, or the request has failed;
- `PoolInv`: a pool is stored before it is filled and emptied before it is deleted; an address without its
  pool was put there by a request that a deletion overlapped;
- `SignInv`: the key in force is that of some setter no other came after, and a program that read the key holds one that was
  in force during it;
- `TagInv`: a tag is still to be ensured, or its row is there and the update of it ahead, or its row bears the mark;
- `DomainInv`: `Working` says what a request may have left to do, and what it relies on while it has: a request about
  to save a domain holds a row whose records are there and in its state, a creation that has read the
  configuration finds it so when it reads it again, a reset that emptied `dns_records` finds no records when it
  comes to `domains`. Another request's step that takes this away
  runs at the same time, so the clash the property excuses is on record at that moment (`OthersWork`);
  `DomainsNamed` makes that clash one about this domain, as all who save or delete a row know it by one name. While
  a reset is between the two tables a domain may be without records (`Wiping`), the one state the property does
  not look at and the invariant must. The other scenes leave their one domain be (`SeedDomains`).

**Templates and versions** (`TemplateWebhookProofs`), for any number of requests, templates and versions:

- `VersionsGoWithTemplate`: `Spec => []VersionsFollowTemplate`;
- `OneVersionIsActive`: `Spec => []OneActiveVersion`;
- `LimitsHold`: `Spec => []WithinLimits`, for any limits above zero (`TemplatesAssumption`; the code has 100 and 40).

A version rests on two lookups that another request may overtake: its template, and which other version is
active. `TemplateInv` has twelve parts:

- `TemplateRoles` and `TemplateForms`: which requests put, kill and deactivate, and in what order. A version is put, and a
  template is killed, by the last statement of a program; an active version is put after the others
  were deactivated (the one program that asks in between, that of `CreateVersion`, has it in either branch); a
  template that could not be inserted ends its creation;
- `VersionsNamed`, `TemplatesNamed`, `VersionsBorn`: a request knows the templates it works on by the name it was asked
  for, and nobody knows a template that is not there yet;
- `VersionsHomed`: a version, there or still to be put, has its template, or the overlap that excuses it is
  already on record. It needs `VersionsCleared` (whoever is to kill a template
  has the deletion of its versions still ahead, or no version of it is left without an excuse) and `VersionsEmptied` (the
  same of a reset);
- `ActiveAlone`, with `ActiveComing`: a request that is to put an active version has still to deactivate the others, or
  no other is active, or two activations overlap;
- `TemplatesFit`, `VersionsFit`: what is there and what the programs are still to store has room within the limit, together, or the
  overlap that excuses more is on record. A creation is counted from the moment it is asked for, before it
  has counted: its id is new then, and without an overlap nobody else is to store one.

**Webhooks and deliveries** (`TemplateWebhookProofs`), for any number of requests, domains and URLs:

- `WebhooksStay`: `Spec => []WebhooksAsLastWritten`;
- `TriggersReach`: `Spec => []DeliveredAsRegistered`.

The two share one invariant, `HookInv`, since what a trigger finds is what the registrations left. Its parts:

- `HookDuties`: which requests have statements ahead on which of the three tables, and what these put or purge;
- `HooksWritten`: a row is live and was written by a request that registers; a delivery bears a trigger;
- `HooksSwept`: what a request replaces is still to be purged, or gone but for what it and its rivals inserted;
- `HooksPosted`, with `PostersOrderly`: what a request registers is still to be inserted, or it is there and the request has no
  purge of its own left, or a rival may have removed it. It needs the order within the program (purge before insert), since the
  request's own purge would remove it too;
- `TriggersDeliver`: a trigger has still to read, or holds the recording of each URL it read, or has recorded it
  (`DeliversCollected` while it has read those of the domain only, `DeliversNow` once it has them all);
  together these are the URLs registered when it began, unless a rival changed them on the way. That excuse never
  lapses: who overlapped a request once has overlapped it for good.

**Routes** (`ServiceProofs`), for any number of requests, routes, addresses and expressions, and any integers as
priorities (`RoutesAssumption`):

- `RoutesMatch`: `Spec => []InboundTakesItsRoutes`.

`InboundTakesItsRoutes` reads the table twice, as `GET /v3/routes/match` and as a simulated message do, and both
orders must be the same one. So the invariant is about the table, and the rest about the two loops:

- `RouteInv`: what requests do to the table is to put and to purge (`RoutesStored`); a route, there or still to be
  stored, was created at the moment its request began (`RoutesRanked`), and no two at the same (`RoutesApart`),
  since an update saves the moment it read. The code has a clock there; two routes of one priority
  and one instant would be in the order the database likes;
- `OrderedIs`: routes that are apart can be put in order: the number of routes that come before one
  is its place;
- `LoopRuns`: what the fold of `SimulateInbound` is after each route. `SetInduction` is induction over numbers stated of
  a set, not of a predicate, which the provers can use;
- `Took`: the invariant of the loop. Taken so far are routes of those tried; the first of them is the one
  that `MatchRoute` names, if it was tried; and a route that was tried and not taken does not match, comes
  after a `stop()`, or is a `catch_all()`.

Left to TLC: the liveness properties `BroadcastersProceed`, `ConnectionsAreReclaimed`, `DroppedUnlessStalled` and
`AcceptedIsWritten`. They rest on fairness, which is beyond this prover. Every invariant that a passing run checks is a
theorem.

## 5. What is not modelled

- Reads that change nothing: details, statistics (`tag/stats.go`), metrics, the
  dashboard. Listings are modelled for their paging only, not for their filters (the
  links of some drop them), and rows are in one order: two rows with the same `created_at` or
  name are not modelled, they would be in the order the database likes.
  `ListDomains` is one query. The listing of SMTP credentials has LIMIT and
  OFFSET without ORDER BY: what a walk sees is the database's choice. The links
  back of the offset listings are left out.
- Authentication: it decides on each request by itself and keeps no state.
- Formatting, validation of form fields, JSON decoding, template rendering,
  MIME parsing: data, not control. A refused request is no step.
- `ResetDomain` answers success and does nothing (a TODO in the code): the
  model has it as a request with an empty program.
- `delivery_delay_ms` only switches the delivery event off; nothing is sent later, and
  webhooks are never called: a delivery is a row.
- Failing statements in `MailingLists` and over `Database`, other than those that
  lose to another request at a unique index. So nothing is said of an addition whose error
  nobody looks at (SQLITE_BUSY), which is answered as a success.
- What a request that was refused half-way leaves behind (the sections of a configuration before
  an invalid one, the first URLs of a webhook) is in the models, but no property speaks
  of it: no document says what should be left.
- A deleted domain still accepts messages, since the lookups of the other packages have no
  `deleted_at` (`event.go:50`): `Pipeline` has it so (its `domain` is only reset), and no document says otherwise.
- Server wiring and start-up, except the schema (`UniqueIndex`) and the
  default IPs; the web UI, which is the peer of a connection.
- PostgreSQL: the same statements, with other failures.

## 6. Where it could go on

The order in which the project was built follows what can go wrong: the hub, sends
against suppressions and purges, mailing lists, then the record keepers, paging and
their composition. What would add most next: failing statements over
`Database`, which today fail at a unique index only.
