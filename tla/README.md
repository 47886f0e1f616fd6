# Verification of the wappie server

wappie keeps WhatsApp numbers connected, archives what they receive, streams
the archive live to its clients, and lets assistants and services read and
write it under its owners' control. This directory models the parts of the
server whose correctness depends on interleavings, failures and bounds. TLC
checks the modules on small instances, and TLAPS proves main safety properties
for every value of the constants.

Paths below are relative to the repository (`src/` in PROJECT.json).

## 1. Inventory

### The system's parts and how they meet

| Part | State | Operations | Meets |
|---|---|---|---|
| Live bus (`internal/bus`) | registrations; per subscription a filter, a replay buffer, a bounded queue, a lag mark | Subscribe, Publish/offer, EndReplay, ClearLag, Drop, Close | called by ingest (publish), by deletion (DropDevice), by the subscribe handler and the pump |
| Subscribe handler, pump, writer (`internal/wsapi/subscribe.go`, `server.go`) | `s.sub`, the stream queue, the session's context | subscribe, replay, handover, pump, pushLag, writeLoop, teardown | reads the store, registers on the bus |
| Archive (`internal/store/messages.go`, `unread.go`, `reproject.go`, `internal/ingest`) | messages, receipts, reactions, chats with their badge and summary | Insert, receipts, marks, history chunks, reclassification | WhatsApp's events in; store and bus out |
| Reads of the archive (`internal/store/read.go`, `siblings.go`, `scan.go`, `history.go`, `receipts.go`, `person.go`) | none: operators of the archive's rows, receipts and chats | list, page, scan, history, ticks, the timer a message is sent with | every client; the chats' halves and timers are written by ingest and by clients |
| Attachments (`internal/media`, `internal/store/media.go`, `storage.go`, `retention.go`) | media rows, object charges, the workspace's quota and pause | claim, fetch, reserve, store, retry, erase, sweep, move | the bucket, WhatsApp, the quota's triggers |
| Supervision (`internal/wa`, `internal/pg/lock.go`, `cmd/whatserverd/supervise.go`, `resume.go`) | each process's registry; one advisory lock per number; the row's pause and status | StartExisting/adopt/Start, Stop, StopAll, the 30 s pass, the resume at boot | device.start and device.stop requests, the storage policy, WhatsApp |
| Deletion and move (`internal/store/device_deletion.go`, `purge.go`, `device_transfer.go`, `cmd/whatserverd/excluded.go`) | the excluded row, its 30 days, its leftover logout, its objects | delete, log out, retry, recover, purge, move to Personal | the bus, the registry, the lock |
| Deletion ledger (`internal/ledger`, `internal/store/replay.go`) | a file outside the database | export, compact, forget, replay after a restore | the deletion's events |
| Membership contract (`internal/membership`, `internal/store/contract*.go`) | a lease, documents by generation and version, subscriptions, a queue of events | lead, page, PUT/GET/DELETE, sweep, send, park, release | the platform; access checks |
| Assistants (`internal/mcpauth`, `internal/store/mcp*.go`) | connections, their service accounts and keys, drafts and sends | consent, activate, renew, status, end, draft, confirm, send | the attested reader, WhatsApp, the console |
| Teams (`internal/store/members.go`, `invitations.go`, `keys.go`, `apikeys.go`, `internal/wsapi/access.go`) | memberships, invitations, keys, permissions, key grants; a copy on each socket | change, remove, invite, join, grant, issue, revoke; validAccess | every socket and API; the platform; deletions |
| Accounts (`internal/authapi`, `internal/store/users.go`, `passkeys.go`, `platform_stepup.go`) | sessions, passwords, recovery codes, passkeys, step-ups | sign in, switch, sign out, rekey, recover, link, register, step up | every API |
| AI (`internal/store/ai*.go`, `internal/mcpauth/ai*.go`, `internal/aiapi`) | keychains, authorizations that name their items, results, daily counters | add and delete a key, consent, renew, narrow, revoke, pick, process, store, bill, settle | the attested reader, assistants' ledger, deletions and moves |
| Calls (`internal/calling`, `internal/wsapi/calls.go`) | a device's slot, owners, call records, tickets, a media bridge, a group's roster | start, answer, reject, hang up, ticket, media socket, invite, end | the calling library's callbacks, the control socket that owns a call, a device's client |
| Snapshots (`internal/membership/snapshots.go`, `internal/store/contract_snapshot.go`) | a workspace's due time, seq, tries and parks; each leader's sender and its notices | measure, number, send, record; due now, due soon, a document, a restart, a recovery | the platform, the leaders' lock, the triggers of every table a snapshot shows |
| The contract's secret (`cmd/whatserverd/contract_secret.go`, `internal/membership/sealdir.go`, `secrets.go`) | two sealed files and a state's word, what the server holds and published of them | seal, promote, drop, unpromote, reset; start, load, signal, check | the platform's own rotation, the owner, crashes of the host |
| Sign-in through the provider (`internal/authapi/platform.go`, `internal/store/platform.go`) | pins, links, wraps, tickets | sign in, open an account, link one, wrap a new epoch | the identity provider, sessions, the contract's documents |
| Rate limiter | buckets | | see section 8 |
| Sealing, normalisation, migrations, guards, configuration, command line tools, TypeScript packages, deployment | none of their own, or out of a model's reach | | |

PROJECT.json lists every part with its status and the reason for what is left
out.

### What is hard in it

- *Commit and publish are two steps.* An entry is ordered by its commit and
  offered to subscribers afterwards, outside every lock, while subscribers
  register, read a watermark, page through the archive and hand over from
  replay to live.
- *Everything is bounded and nobody blocks.* A full queue drops, a drop sets a
  mark, the mark must reach the client, and the handover must not overflow.
- *Several processes share a number.* The registry's mutex is not held across
  the database or the network, so starts, stops, passes, crashes and shutdowns
  meet between any two of their steps; the lock lives on one database
  connection.
- *What cannot be undone runs outside the transaction that decided it*: a
  logout at WhatsApp, a message sent, an object deleted, a mail claimed, a
  consent relayed to the reader. A crash, a lost answer or a second request
  may fall on either side of it.
- *Handlers check, wait and act.* A session, a role, a permission, a
  connection's state or a document read before a wait is used after it.
- *Late writers.* A leader that lost its lease, a worker whose claim was swept,
  a janitor's list or an answer older than the row it is about.
- *One person, several names.* WhatsApp addresses a contact by phone number or by
  LID; rows and receipts keep what they came with, the two are joined at every
  read, and the join may be learned between two reads.
- *Restores.* The database goes back in time and the ledger does not.
- *Fairness of repair.* What a race leaves undone must be redone by the next
  pass, or it stays undone with every health check green.

The `hazards` of PROJECT.json name each of these at its line, with the
properties that would catch it.

## 2. Modules

| Module | Models | Uses |
|---|---|---|
| `Subsequences` | helpers on sequences of events | |
| `Subscription` | the value of a `bus.Subscription` and each method as an operator on it | `Subsequences` |
| `ReplayPage` | the two cursor reads and the horizon of a round, as operators | |
| `Replay` | the paged, merged replay alone, with acknowledgement events of several rows | `ReplayPage` |
| `Stream` | ingest workers, deletions, the subscribe handler, the pump and the writer of one connection | `Subscription`, `ReplayPage` |
| `Supervision` | one number, its row, lock, registries, clients and the goroutines of each process | |
| `Deletion` | the deletion, logout, recovery, purge and move of one number | `NumberLife` |
| `NumberLife` | the abstract promise of a deletion to the number's owner | |
| `Ledger` | the deletion ledger, snapshots, restores and the replay | |
| `Membership` | feed, PUT/GET, subscriptions and sweeps of the contract | |
| `EventQueue` | one workspace's queue of contract events and its senders | |
| `Snapshots` | when one workspace's access snapshot is due, and the senders of it | |
| `Assistants` | the connections of one person's assistants and their service accounts | |
| `Outbound` | drafts, sends and confirmations of two connections | |
| `Sessions` | one account's sessions, secrets, passkeys and step-ups | |
| `SignIn` | sign-in through the provider: pins, tickets, links and wraps of a few people | |
| `Directory`, `Team` | one workspace's members, invitations, keys and grants, and a socket's copy of them | `Directory` |
| `AI` | keychains, AI authorizations, who may ask, results and usage | |
| `Calls` | one number's call slot, owners, media sockets and group rosters | |
| `Rotation` | the directory of the contract's sealed secrets, the commands of a rotation and the server that loads them | |
| `Archive` | one number's rows, badges and chat summaries | |
| `Media` | attachments, their objects, charges and pauses | |
| `Readers` | what one chat says of a message: its history and its ticks | |
| `Conversations` | which rows of a number's archive are one conversation, and its list, pages, scans and timer | |
| `StreamLemmas`, `StreamProofs`, `SupervisionProofs`, `DeletionProofs`, `OutboundProofs`, `SessionsProofs`, `TeamProofs`, `AssistantsProofs` | the theorems of section 5 | |
| `MC...` | symmetry, constraints and inputs for TLC | |

Each critical section or transaction of the code is one action; a transaction
that reads before it takes the lock its writes need is two. What a goroutine
or a handler remembers between two of them is in its record (`h`, `p`,
`task`, `job`, `flight`), whose step names where it is.

### Stream and Replay

One connection of one tenant. `rows` is the archive (index = sequence number,
which the tenant row's lock makes the commit order); `worker[w]` is an ingest
between its commit, its copy of the bus's registrations and its offers;
`deletion[d]` the deletion of a number between its commit and `DropDevice`;
`sub` the connection's latest `bus.Subscription`; `conn` the session; `h` and
`p` the locals of the handler and of the pump; `hist` is an observer of what
became of each entry and is read by no action. `Grant`, `Register`, `Recheck`,
`ReadMark`, `ReadPage`, `EmitRow`, `Handover` are `handleSubscribe` in order,
each with the failure that ends it there; the `Pump...` actions are the pump's
loop (`pushLag` reads the mark and clears it in two critical sections, and so
does the model); `Write` is the writer with its look at the current filter;
`Disconnect` and `Teardown` are the session's end. `Store` covers messages and
acknowledgements, and `StoreDuplicate` the loser of a duplicate race, whose
number is spent and never published. Left out: the reply queue, other
requests, frame contents, several connections (they share only the archive;
publishing never waits for one). `Replay` is the loop on a fixed archive whose
acknowledgement events have several rows, so that a page can cut one; in
`Stream` every acknowledgement event has one row.

### Supervision

One number (numbers share only the processes). Each process has three
goroutines: the supervisor's pass (the resume at boot is a pass with nothing
held), a `device.start` and a `device.stop` (or the shutdown's `StopAll`).
`reserve, lock, install, begin, connect, dial, failed` are `Registry.start`
(adopt, then `Device.Start`), `unregister, halt, cut, release` are
`Registry.Stop` and `Device.Stop`, the others the callers' own reads and
writes. `entry[p]` is the registry's slot, `running` and `up` are the clients
whose handler is attached and that are connected, `lock` is the client whose
database connection has the advisory lock. The world outside is the row, the
session (the phone may unlink it), and the workspace's standing. A pass reads
the row and the workspace in one step; how often a number failed before is
left out, so any pass may skip it; the attempts of one connect are not
counted; `LoggedOut` takes the event and the `Device.Stop` it starts in one
step; a client that is not running may still connect, as in the code.

### Deletion, NumberLife, Ledger

`Deletion` has the deletion's transaction, the logout after its commit, its
record, the janitor's retry, the recovery, the purge's three transactions and
its objects, the operator's purge and the move to Personal, in several
processes; the device lock keeps a recovery, a purge and a move away from a
logout. What whatsmeow's Logout answers is external: the phone may be unlinked
and the answer lost. `NumberLife` is what the owner is promised; the run shows
`Deletion` implements it (`KeepsItsPromise`). `Ledger` has the file's export
with torn writes, compaction, the rows it forgets, a restore from an older
snapshot and the replay with its refusals. Time is a small clock; the window,
the ages and the keep are constants in the code's order. Left out there:
session fingerprints, assistants, keys, notices, the capacity report.

### Membership, EventQueue and Snapshots

A document is (generation, version), and version v names the workspaces 1..v.
Intents are fresh values: an orphan's intent outlasts any task that remembers
it (15 minutes against bounds of seconds). The feed's question and answer are
one step, a PUT and a DELETE are two. `adrift` and `late` are ghosts that
except the corners of section 6 the code does not follow up. Pacing, budgets,
and freshness verdicts are left out. In `EventQueue` a row's id is
its place in commit order, a pause's item and actor are one subject, and its
readers are kept as whether anyone but the actor is among them; the 24 hours of
a not_found run and the 29 days of an event pass by steps of their own. The
platform's inbox keeps what it took and answers a repeat with duplicate.

In `Snapshots` what a snapshot lists is the number of changes it includes, so
that a stale one is one with fewer. A due time is now, soon (the debounce of 2
seconds), after a backoff, or an hour later, and time makes any of them now;
whether a row's due time was written after a measurement is kept with the
measurement (`late`), as the code compares two timestamps of one clock. A
notice reaches the lock's holder alone. `cut` is a ghost: a sender that no
longer holds the lock wrote the row while a change it had not seen was owed.

### Assistants and Outbound

A connection's service account, API key and grants are one entry of `svc`.
Deadlines are flags that time raises; the reader is external. Left out: media
and sending flags, caps of unknown clients, the mails' daily cap, seen marks.
In `Outbound` a send holds its connection's lock from its checks to its row; a
confirmation holds the draft's row alone, and is three steps: the lock with what
it reads of the connection, the permission, and the update. `may` is a ghost:
whether the person might send when the row was locked. Ages of rows are flags, one window stands for the interval, the
hour's and the day's caps, WhatsApp is what left of each row, and the rows'
365 days are left out.

### Sessions

One account. A secret is its generation, a family is the session of the
browser's sign-in, the provider's clock counts step-up starts. Init covers
local and linked accounts. `PlatformLink` proves the password, `VerifyLegacy` reads
the hash to compare with, and `LinkLegacy` compares. Rewrap, recovery codes'
replacement, sign-up and rate limits are left out.

### SignIn

`person` is someone at the provider, with an address and a product key per
epoch, both of which may change; `tab` is a request between two of its reads
and transactions. A wrap keeps whose key it opens into (`of`) and under which
product key it was made. `home` says who chose a new account's workspace: a
sign-up reads whether the contract is on (`PlatformAccount`), asks the platform,
and the transaction decides by what it finds (`HomeStands`). A sign-in at the
provider and the pin of its key are one step, since the pin's insert decides
which key is first. The sessions started are only remembered (`opened`): what
they may do is `Sessions`. The subscription a sign-up brings is in
`Membership`. Left out: names, the freshness a new session gets, the alarms for
a changed key (they change nothing a sign-in reads).

### Team

A write takes the workspace's row lock and is one step. `Stripped` is what a
disabling and a removal take in common; the triggers of migrations 0022 and
0023 are `Bumped` and `Moves`, and `sole_key_holders` is `SoleHolder`. `adding`
is a `grant.add` between its checks and `PutGrant`; `sock` is one socket with
the role, the version and the narrowing it read, and `ValidAccess` is what the
code asks of it before every command and delivery. Other sockets are only asked
from (`AdminAsks`), with a copy that may be out of date. `removals` counts, to
say that an invitation is from before a removal. Left out: several numbers and
keys limited to some of them, content keys, secrets.

### AI

The rows are `key`, `auth`, `derived` and `usage`; a request under way, and a
job at the reader, is a `task`, whose `op` names the next of its transactions.
The reader is external: it keeps what it was handed, so `StoreAsks` to
`RecordAIUsage` may come after the authorization's end or the number's
deletion. A configuration keeps what the checks compare: numbers, a provider
per function, a key per provider, and who may ask. `late` and `emptied` are
ghosts. Left out: models, labels, languages, budgets, caps and amounts, the
dedupe tags by which the reader finds an earlier result, and what consents
share with other connections, which is in `Assistants`.

### Calls

A critical section of the service's mutex is one action; what a handler, a
timer or a callback does after it is another: `ending` are the records one of
them is about to `end`, `signal` what the goroutine of `end` has yet to tell
WhatsApp, `step` (`task` in the module) a request or socket between two of its
sections, and `op` who holds the record's signalling mutex. `native` is the call
as WhatsApp has it, of which the library reports, early or late, phases it has
reached. Timers may fire whenever they are armed. A participant who left or
failed is `out`, and `clock` stands for `pendingUntil`. Left out: samples and
frames, orientation, the several names of one person, device choice in a roster,
the reasons a call ends with, and incoming calls a busy number refuses.

### Rotation

`dir` is the sealed directory, `cmd` a contract-secret command between two of
its writes (each is synced before the next, so a crash falls between two), and
`server` the process with what it holds, a load between its two reads, and a
SIGHUP it has yet to take. What it published, `loaded`, is what the daily check
and the installer's wait read. The installer, which runs the rows of
docs/contract.md, the owner, and the platform's own rotation are external:
`step` is the row's commands still to run, `told` the row the owner was told is
done, which is what lets the platform promote or drop. A secret is its number at
the platform, an envelope its fingerprint. Left out: the key service, whose
failure is a failed load, and the contract's other settings.

### Archive and Media

`Archive` has the writers of one number: its event stream, the history worker,
a console session and the reclassification tool; a message's payload is
abstracted to none, bound, or sealed for another row's uid; `stated` and
`retyped` are ghosts. In `Media` one ciphertext is forwarded everywhere, so an
object's key is the workspace it was stored under and one object is one unit
of quota; a claim is two steps, the look at the usage and the update; time is
not kept; excluded numbers and the limit's changes are left
out.

### Readers

One chat. `rows` are messages, edits, revocations and reactions, in the order of
their sequence numbers, each by an address: a person, a device, and the halves
of the identity it came with; `receipts` are what `Receipts.Insert` kept. Both
come in any order. A read changes nothing, so `RootOf`, `Versions`,
`Attribution`, `Reactions`, `Readers` and `PageAcks` are operators of the state
and of an order in which the query may return rows of one second; the
properties quantify over these orders. That only its author edits or revokes a
message of a direct chat is WhatsApp's rule (`StoreRow`, external), and only we
send the receipts of `OwnTypes`. Left out: retries of media, the live receipt
event, the backfill a history may ask for.

### Conversations

One number's `chats`, by key (a LID, a phone number, a group), with the halves
each row knows, the time of its last message, whether it has a name, and its
timer, off or on; `messages` by sequence number. A message gives its row the
half it was addressed by, and a LID's the phone number too if the map knows it
(`Resolved`, `internal/ingest/pipeline.go:466`): so do `OpenConversation` and,
at a boot, `LinkPhoneNumbers`. `FoldChats`, `SiblingKeys` and `ChatTimer` each
decide on their own which rows are one person's, as the code does. The list has
the order of its query: the latest message first, and of rows alike, the one made
last (`made`, `created_at`). Wherever the code looks a conversation's keys up in
a transaction of their own, the look is a step of its own: `LookUp` before a page
(`Turn`), and `SetChatTimer` before `WriteChatTimer`, with the settings between
the two in `setting`. `reader` is a client that pages a conversation, or
scans a window of it, one answer at a time, while rows arrive and halves are
learned; its instants may fall between two that the database can store. `said`
is a ghost: the last setting of a timer that found all the rows it speaks of,
until something else is written. A row
without a time is as late as the archive's clock, which stands still. Left out:
badges and previews (in `Archive`), when a group was made (it orders groups, and
a group is folded with nothing), a scan's other filters.

## 3. Runs

| Run | Shows | Distinct states |
|---|---|---|
| `stream_handover` | two workers against one subscriber with queues of depth 1: `NoSilentLoss`, `MissedWillBeTold`, `LagNamesAnEntry`, `HandoverFits`; one person under two keys and a group, three messages: `ConversationsSafe` | 1,066,236 |
| `stream_progress` | a number deletable at any moment: `NoDeletedFrame`; under fairness `EveryEntrySettles`, and `RequestsSettle`, which is `ReplayInOrder`, `SubscribeSettles` and `NothingLeaks`; two entries under one subscription, or one under two of them | 322,342 |
| `supervision` | two processes, two requests, an exit or a fault: `RegisteredUnderLock`, `LockHasOwner`, `SlotNeverStolen`; under fairness, in calm behaviours (a request, an exit, nothing else): `SomeoneHolds`, `PausedLetsGo` | 282,788 |
| `deletion` | `DeletionSafe`, `DeletionSteps`, under fairness `CleanupSettles`, and the refinement `KeepsItsPromise`; a phone linked twice, exports cut short, a restore: `LedgerSafe`, `ReplayRepeats` | 325,404 |
| `membership` | one sub, two leaders, two tasks, one trouble, and a queue of three events and two senders: `ContractSafe`, which is `MembershipSafe` of the one and `EventsSafe` of the other, and `ContractSteps` | 487,955 |
| `assistants` | two connections, two tasks: `AssistantsSafe`, `AssistantSteps`; one chat's rows and receipts, three of each: `ReadersSafe` | 772,178 |
| `outbound` | two connections, a draft, two references: `OutboundSafe`, `OutboundSteps`; two calls, sessions and devices: `CallsSafe`, `CallSteps` | 184,203 |
| `sessions` | one account, two requests at once: `SessionsSafe`, `SessionSteps`; two people in two tabs through the provider: `SignInSafe`, `SignInSteps` | 485,399 |
| `link_proof` | the smallest instance in which a proof goes stale before its comparison: `LinkedByItsPassword`, violated (section 6) | |
| `chat_timer` | the smallest instance in which the list promises a timer that a message is sent without: `ChatTimerKeepsPromise`, violated (section 6) | |
| `team` | two people and a service account in a workspace: `TeamSafe`; two people's keys and an authorization, two requests of it, and the snapshots that tell the platform of them, two senders: `AIAndSnapshotsSafe`, `AIAndSnapshotSteps` | 102,787 |
| `archive` | four operations of any kind, a crash: `ArchiveSafe`; two attachments and every archive of five entries replayed: `MediaAndReplaySafe`; a rotation of three secrets with a trouble and a restore: `RotationSafe`; of all, `StorageSteps` | 1,208,964 |

A property named `...Safe` is the conjunction of the named invariants above it
in its module, and one named `...Steps` of its action properties: each part has
its own name and comment there, and a counterexample shows which failed. The
`archive`, `assistants`, `deletion`, `membership`, `outbound`, `sessions`,
`stream_handover` and `team` runs have components that share no state; `part`
says which one a behaviour exercises, and the others stay as they began.

Bounds. Queues of depth one make every kind of drop happen with two entries; a
page of two or three rows makes every boundary happen with two to five entries;
two workers are enough for every pair of commit and publish orders, since a
worker does one entry at a time. For supervision, two processes make the winner
and the loser of the lock, and two clients of one process a stopped and a new
start. In the others two tasks make every pair of a check and the change it
misses, two connections, numbers, rows or keys make every pair that shares a
limit, an identity or an object, and each kind of trouble (a lost answer, a
crash, a restart, a failed call) happens at every place it can, once or twice;
the constraints `TwoThings`, `Few` and `FewTurns` of the MC modules say how
many of them one behaviour has. A call with a limit of two is full with one
person, so that every larger roster overfills it and a place opens when that
person leaves. Two people, two tickets and two tabs make every race of a
sign-in: two tabs of one person with a ticket each or one for both, or two
people for one account. Three secrets and three seals make a rotation, its
undoing and a restore in its middle; four secrets and two troubles were checked
once too. Three rows are a thread of two hops (the bound on hops), a ring, or
three versions; three receipts of two moments are a device twice, two devices,
or two halves that a third receipt joins. Three messages in pages of one are
every boundary between two keys and one undated row among dated ones; names and
timers, which no page shows, are taken over two messages, or one where a timer is
set (`FewThings`), and while somebody reads only what brings rows and halves goes
on (`Converses`). Four windows (`Windows`) end on, between and beyond the instants
of the rows. One worker at a time is between its look at a workspace's usage and
its claim (`FewChecked`).
`MCProgress` takes a second subscription, or a duplicate, over one entry: only
commits and requests are held back for it, and those are asked no fairness. Where
TLC's instance is small the theorems of section 5 have no bound.

Symmetry is used in the runs without liveness only. Deadlock is not checked
where a system at its bounds, or with everyone gone, has nothing left to do.

Each property of a passing run has a mutant in PROJECT.json: a form of one of the modelled
definitions with a plausible mistake in it (a guard dropped, an answer not
looked at, a reset forgotten), under which TLC finds the property violated.

## 4. Fairness

Weak fairness on the steps of goroutines that the code never parks for ever:
ingest's publish, the handler, the pump, the writer, `Registry.start` and
`Registry.Stop`, the supervisor's ticker, a deletion's request and the
janitor's passes. Reads and connects may fail, each failure ending in the
code's own error path, and the bounds limit how often; nothing is assumed of
clients, phones, requests or crashes. The writer is assumed to make progress
while the connection lives: the ping loop ends one that does not. A claim that
chance may skip has strong fairness: a pass skips a number that failed before
with probability at most 15/16, independently of the others, so not for ever. A
logout reaches a connected client (whatsmeow reports it on the same socket). A
number's 30 days outlast any request. The other modules have safety properties
only: their repairs are passes of the janitor whose next run is the operator's
cron or a ticker, and their bounds end behaviours early.
## 5. Proofs

All are checked by `tlapm` to the last leaf, for any values of the constants
that satisfy the named assumptions (positive depths, bounds that are natural
numbers, `NoClient` and `NoDevice` outside the sets they stand beside, 0 among
no names). Eighteen of the properties the runs check are theorems.

**Stream** (`StreamProofs`): `TypeCorrect`, `LagIsReal`,
`HandoverLosesNothing`, `DropsWillBeTold`, `NoFrameOfDeleted`,
`NothingLostInSilence`. The inductive invariant adds to the types what makes
them inductive: `Held` (while replaying the queue is empty and the buffer fits
in it, so that a handover cannot overflow the queue), `Names` (what the buffer,
the queue and the lag mark name are entries of the archive), `WorkersInArchive`
and `PageInArchive` (what is published and sent was stored). `StreamLemmas`
shows that each operator of the bus keeps `Held` and `Names`, once; the step
lemmas use that. `DropsWillBeTold` needs `PumpWaits` besides: nobody reads the
queue while the handler replays. A frame of a deleted number is excluded by
`OutOfFilter` (after its drop no filter has the number) with `FramesOfMade`
(every frame is of a subscription of this connection). That nothing is lost in
silence is `LossInv`: every entry is still with its worker, in the bus, with
the pump, before the writer, ahead of the replay, delivered, or noted as missed
(one lemma per way it moves), which is kept over the handover only because of
`Covered` (what the replay has passed is with the client or before the writer,
so the handover may discard it) and `Cursors` (the cursor is behind the
watermark, the watermark inside the archive). `PageCovers` says what a round
of the two reads misses out: nothing up to its horizon. `StreamAssumption` asks
`Page > 1` of it, because a page cut to one acknowledgement is not marked
truncated (`receipts.go:265` tests `len(out) > 1`); the code's page is 500.

**Supervision** (`SupervisionProofs`): `SupervisionInvariant`,
`LockGuardsRegistry`, `LockNeverLeaks`, `SlotsKeptApart`. The two lock
properties are not inductive alone. `RegisteredUnderLock` is kept by an
installation only because a start about to install holds the lock
(`InstallsUnderLock`); that is kept by the releases of others only because the
client of a start is its own, registered nowhere and stopped by nobody
(`FreshClients`), and because what is being stopped is out of every registry
(`StoppedIsOut`), so that a late release frees no one else's lock. `Local` ties
clients and goroutines to processes, so that an exit takes exactly its own
along. Most steps touch neither lock nor registry: `QuietStep` proves them all
at once, and the step lemmas show that they are quiet. `SlotsKeptApart` needs
only the shape of the steps: every one of them changes a start slot, if at all,
in one of the three ways `SlotMoves` names. A lock whose connection was lost is
excepted in both lock statements, by the counter `used["lost"]`, and nothing
else is.

**Deletion** (`DeletionProofs`): `DeletionInvariant`, `DeletionIsSafe`,
`DeletionStepsHold`, `LifeIsKept`. That only an excluded number is logged out,
and of the deletion that asked, rests on the device lock: a running client
holds it (`Locks`), a task that may still ask for a logout holds it, or its
process's client does, or it was cut off (`Asked`), and a recovery needs it
free. `Relinked` and `Older` keep a phone linked again apart from the
registration a retry remembers. `Typed` adds to the types that what a purge
released is part of what there was. `LifeIsKept` shows that every step is a
step of `NumberLife` or a stutter; the weak fairness of the abstract
specification is model-checked (`KeepsItsPromise`).

**Outbound** (`OutboundProofs`): `OutboundIsSafe`, `OutboundStepsHold`. What is
inductive is what the locks give: a request past its connection's limits is the
only one of its connection there, its reference is new and the limits still
hold (`Limits`, the advisory lock); a draft being taken is taken once
(`Claims`, the row's lock), by a person who might send when the row was locked,
if the permission was found, or still stands; a row under way has one request, which knows
whether the message left (`Flights`), so that a ledger row that says sent, or
not sent, is true.

**Sessions** (`SessionsProofs`): `SessionsInvariant`, `SessionsAreSafe`,
`SessionStepsHold`. The invariant has one part per table and one for what
requests in flight may still rely on (`TaskStands`). What a request read may be
out of date in the ways `Onward` allows (sessions end, counters and versions
rise, a link ends everything), and `TaskStands` survives every such step. An
assertion whose version guard passes was counted past the stored counter, and a
provider's start belongs to one session, and to one of its family. Of a link
under way, what is inductive is that nothing changed the hash since it was
read, not since the password was proved (section 6).

**Team** (`TeamProofs`): `TeamIsSafe`. What is said of the
rows is inductive with the kinds of accounts (`KindsKept`): every removal,
disabling and expiry is an `Ends`, whose consequences are proved once, and
every other write but a re-enabling is `Steady`. What is said of sockets is
not: a removed person may join again, and the new row starts at version 1 as
the old one did. Ids are never given out twice (`IdsAreSpent`) and a removal
ends the account's sessions and keys, so a socket whose session or key is still
there has seen no removal, only versions that count up (`CopyIsBehind`).

**Assistants** (`AssistantsProofs`): `AssistantsInvariant`,
`AssistantsAreSafe`, `AssistantStepsHold`. A step leaves a row alone, ends it,
marks it or lets it go on (`Kept`, `Ends`, `GoesOn`); what each does to the
invariant is proved once (`StepKeeps`). A connection the reader knows is never
dropped as stale because an aged consent has no request at the reader and no
relay under way (`StaleGone`), which also holds of the janitor's list while it
is being worked through; an ended row keeps the first reason because no row has
one before (`RowsStand`).

Model-checked only: everything under fairness (`RequestsSettle`,
`EveryEntrySettles`, `SomeoneHolds`, `PausedLetsGo`, `CleanupSettles`), which
the prover does not reach; `ReplayExact` (in `MediaAndReplaySafe`), whose loop
is a recursion over data; and the safety of the ledger, the membership
contract, its events, the archive and its reads, the attachments, the
contract's secret, AI, calls, snapshots, sign-in and conversations, whose inductive invariants
are not written yet.


## 6. Seen on the way

Corners in which the code does not do what a comment, or a reader, would
expect. The properties except them by name (a ghost, a premise) and nothing
more; they are described here for the code's reviewers.

*Stream and replay.* An acknowledgement event of a page or more is returned cut
and not marked truncated (`internal/store/receipts.go:265`), so the horizon
becomes the watermark and later acknowledgements are never sent; the runs keep
events smaller than a page. The lag notice names the first drop, and
publishers race, so it need not be the lowest (`internal/bus/bus.go:24`). A
failed watermark read leaves the connection subscribed with no pump and later
subscribes refused (`internal/wsapi/subscribe.go:123`). Entries of two workers
can reach a client in the other order. `stream_progress` has one number, so a
subscription of two narrowed to one is only in the proofs.

*Supervision.* A stop between a start's installation and its `Device.Start`
finds a device that is not running and does nothing; the start then connects
outside the registry and the lock (`internal/wa/device.go:292`), and may
replace the connection of the start that followed it. A reconnect refused by
the storage policy is final; if the refusal is lifted before the next pass, the
number stays registered and disconnected (`internal/wa/reconnect_policy.go:54`).
A lock connection that dies is not noticed by `TryLock`'s holder.

*Deletion.* The handler rechecks a number by its stamp only, so a phone
relinked under the same JID within the request could be logged out; attempts
may exceed `MaxUnlinkAttempts` when two janitors list the same leftover;
`TransferPersonal` sets a logged-out number 'offline'; a quarantine pauses
without counting `pause_seq`, so the undo of an earlier move's pause can lift a
recovered number's (`internal/store/device_deletion.go:617`,
`device_transfer.go:212`).

*Ledger.* A crash-cut export can leave only the first line of a deletion and
its recovery; if the snapshot has the later recovery, the replay excludes the
number again. A purge postponed past 30 days after a replay is recorded twice.
A stale copy of the file that is newer than the snapshot is accepted.

*Membership.* Two sign-ups of one sub at once, the later refused: its DELETE
runs under the first, which then commits unfollowed
(`internal/membership/signin.go:189`); a lost DELETE answer leaves a held
stored sub unfollowed (`signin.go:247`); a PUT answer older than a page's
unreadable document is stored into the forgotten version; a linked legacy
account's workspaces are unrecorded until its PUT is answered.

*Events.* Two pauses within an hour are both mailed when the first, taken but
unanswered, was settled meanwhile; in a batch sent one by one a failed event
does not stop the rest when the queue was made due; after `parkAll` a new event
accepted first releases older ones behind it.

*Snapshots.* A process that lost the lock and does not know it can record an
acceptance between the next leader's `SnapshotsDirty`, which finds the snapshot
due already and writes nothing, and its `NextSnapshot`: the due time goes 55
minutes on and the change with it, though `SnapshotSent`'s comment
(`internal/store/contract_snapshot.go:461`) says a late outcome never puts off
what the next leader's debounce asked (`cut` excepts it).

*Assistants.* A reader restarted between a renewal's staging and its commit
wipes itself as `service_mismatch` while the row stays active until idle;
`access_lost` is computed before its own end transaction; a failed relay whose
answer was lost tells the console it failed while the connection lives;
`ReplacePrevious` reads the newer row before its transaction, so both may end.

*Outbound.* Refusals carry no reference, so repeating a refused one is a new
request. A confirmation locks the draft's row and neither the connection nor the
permission (`internal/store/mcp_send.go:1021`, `:1037`): a pause that commits
after its first statement, and a withdrawal that commits between the permission
read and the update (`:1044`), are not obeyed by that draft. So `StartsOnlyAllowed`
says of a draft that the person might send when its row was locked, and of a
send, which holds the connection's and the workspace's locks, that it is allowed
when its row is written.

*Sign-in.* `verifyLegacy` verifies the proof in one transaction and reads the
hash it returns in the next (`internal/store/platform.go:659`), so a password
changed between the two passes the comparison under the lock, and the account
is linked by its old password; the comments (`platform.go:640`, `:706`) say it is
the hash the proof was checked against. `link_proof` shows it.

*Rotation.* A load reads the two files one after the other, outside the lock
that keeps commands apart (`internal/membership/secrets.go:172`); one that
falls around the end of one command and all of the next would hold the old pair
until the next SIGHUP. `Starts` says what is assumed: a command, a process of
its own, does not begin and end between two adjacent reads.

*Sessions.* A password proved before a change starts its session after it
(`internal/store/users.go:395`); two recoveries with one code at once both
succeed (`users.go:374` says spent); a rewrap racing a password change keeps a
wrap under the old password; link attempts at once can exceed the ticket's five.

*Archive.* `fillStub` stores content sealed for the newcomer's uid on the
stub's row, which cannot open it, makes no media row, and leaves the chat's
last type; `Reproject` compares sequence, not time, so a reclassified
backfilled row overwrites the summary; a target that commits between
`resolveTarget` and `nextSeq` stays unresolved (`ResolvePendingTargets` is not
called); a crash between a receipt and `MarkReadThrough` leaves the badge;
badge pushes may be published out of order.

*Readers.* A reaction is superseded by its sender's raw key, device suffix
included (`reactionsOf`), so one person who reacts from two devices, or under
two addresses, stands twice. A receipt stored with a LID alone and sent again
with both halves is a duplicate, so the link it carries is never learned
(`internal/store/receipts.go:160`). The live receipt event names a reader by
that receipt alone (`internal/wsapi/history.go:203`), so one known by phone
number has another name there than in the history. Reads of one second make the
device shown depend on the order of the rows.

*Conversations.* A row `SetChatTimer` makes for a phone number does not know
its number: the list joins it with the LID's row, `ChatTimer` does not, and a
message goes out permanent under a timer the composer shows
(`internal/store/read.go:622`; `chat_timer` shows it on a LID's row that has a
message, and so heads the entry, `Bare` excepts it
elsewhere). An old message that comes late turns a timer on again that was
turned off (`internal/store/messages.go:456`). `SetChatTimer` looks the keys up in
one transaction (`internal/store/read.go:600`) and writes in another (`:607`): a
row that joins the conversation between the two keeps its timer, so that one
turned off comes back from it (`said` excepts it). Two timers of different
lengths may stand on one person's rows, of which the list shows the first and a
message takes the longer. A page whose other key cannot be looked up is sent
without that half and without a word (`internal/wsapi/subscribe.go:560`; `short`
excepts it). The list is cut at its limit before the halves are folded.

*AI.* A result stored by a job that read the row before a revocation with
its results stays, under an authorization that ended
(`internal/mcpauth/ai_enclave.go:254`); a call the old key paid is booked to
the renewed one when its increment comes late (`internal/store/ai_usage.go:53`
says the rows stay the old key's).

*Calls.* Until a group roster comes, every phase reported of an active call
marks everyone in the list connected (`internal/calling/service.go:388`), a
person whose invitation failed too, and the places then exceed the limit of
eight; the calling library decides whether a phase is reported again, so
`RosterStands` speaks of group calls. `expireMedia` looks at the bridge before
the call ends, and a socket bound in between is closed with it.

*Media.* `AdoptExisting` and `MarkDone` are two transactions: if the only other
row of the object is erased and the object deleted between them, a row is done
without bytes (`borrowed` excepts it); a slow worker's late `MarkFailed`
overwrites a row another finished; `MarkDone` refused by the quota leaves a row
'downloading' until a sweep; requests of two numbers for one group message
share an entry.

## 7. Plan

1. *Components*: the contract's freshness verdicts.
2. *Proofs*: the safety invariants still only model-checked; the versions of a
   document (`NeverBackwards` of `Membership`) first.
3. *Supervision, more*: pairing, several numbers over one connection pool.

## 8. Not modelled

The rate limiter and the contract's freshness verdicts (planned). Out of reach
or without state: cryptography and sealing (opaque values); normalisation and
the building of WhatsApp messages (data conversion); request validation over
the store; migrations, mail, web pages, object storage, configuration, metrics,
command line tools (input and output); the TypeScript packages (clients of the
API). PROJECT.json gives the reason for each.
