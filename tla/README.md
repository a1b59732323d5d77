# TLA+ models of Chithi

Chithi is a desktop mail, calendar and contacts client: a Rust backend (Tauri, tokio, SQLite) and a Vue
frontend. This directory holds specifications of the backend's concurrent and durable parts, TLC
configurations that check them on small instances, and TLAPS proofs. Paths below are relative to
`src-tauri/src/`.

## 1. Inventory

| Part | State | Operations | Hard because of | Module |
|---|---|---|---|---|
| Durable outbox (`ops/offline.rs`, `ops/worker.rs`, `commands/compose.rs`, `commands/outbox.rs`, `state.rs`) | `outbox` table: kind, status (pending, sending, dead), retry count, error | queue, claim, complete, retry, quarantine, exhaust; first attempt; replay; manual retry; discard; start-up quarantine | crashes between transport and commit, ambiguous outcomes, stale snapshots, ignored database errors | `Outbox`, abstractly `Delivery` |
| Flag changes and deletes (`ops/flags.rs`, `ops/coalesce.rs`, `ops/offline.rs`, `commands/actions.rs`, `backend/mail/imap.rs`) | local flags, worker channel, queued mutations, server flags | set_message_flags, mark_account_read, delete_messages, coalesce, supersede, execute, replay | partial application, an old change replayed over a newer one, rewriting of rows | `FlagMutations`, `FlagQueue` |
| Mail-sync guard (`commands/sync_cmd.rs`) | `sync_in_progress`, `pending_mail_sync` | trigger_sync, sync_folder, prefetch_bodies, run_deferred_mail_syncs | test-and-set and request are not atomic | `MailSync` |
| IMAP IDLE lifecycle (`commands/sync_cmd.rs`, `state.rs`, `mail/idle.rs`) | enabled flag, handle with generation and phase, per-account lock, thread, stop flag, socket | start_idle, stop_idle, suspend, resume, the loop's thread | a stop racing a connect, a start waiting for credentials, panics, deadlines | `IdleLifecycle` |
| Worker registry (`ops/lifecycle.rs`, `ops/worker.rs`) | handle per account, account locks, shutdown gate, channel | get_or_spawn, with_account_stopped, stop_all, worker run | replacement, mutation and shutdown at once; dropped futures; full channels | `WorkerRegistry` |
| Mail sync of a folder and its filters (`mail/sync.rs`, `mail/jmap_sync.rs`, `mail/jmap/mail.rs`, `backend/mail/graph.rs`, `filters/service.rs`) | `messages` rows with the prune and filter marks; per folder the watermark, UIDVALIDITY, UIDNEXT and total, the JMAP state or the Graph link | the pass of each protocol: preflight, deletions, flags, envelopes, watermark; changes or listing; delta pages; filters | other clients during a pass, unreadable messages, new UIDVALIDITY, expired state, passes cut short | `FolderSync` |
| Calendar actions (`commands/calendar_actions.rs`, `db/calendar_actions.rs`, `db/calendar_sync.rs`) | journal of operations with stage and checkpoints, claims, mirror rows with revisions | read, list, plan, discard, execute (verify, apply, create, move, remove, reconcile), sync | plans executed on content that changed, lost replies, crashes between a write and its checkpoint, a sync that replaces claimed rows | `CalendarActions` |
| Event-set writes (`backend/calendar/*/event_sets.rs`, `mail/graph/event_set/writes.rs`, `mail/jmap/calendar/event_set.rs`) | master and exceptions at the provider, one revision per resource | update, create, delete, resume | several conditional requests for one change | `EventSetWrites` |
| Contacts (`contact/reconcile.rs`, `backend/contacts/`, `commands/contacts.rs`) | `contacts` rows with id, UID and ETag; Google's cursor, absences and recoveries | create, update, delete with their pushes; snapshot and delta syncs; repair; deferred creates | lost answers, renamed or not yet readable contacts, half-done creates; CardDAV names that are not UIDs; short or shifting listings | `ContactSync` |
| JMAP push, submission classification, OAuth refresh, account mutation | see `PROJECT.json` | | | planned (section 8) |
| Recurrence, formats, OpenPGP, meetings, frontend | | | mostly pure functions, libraries or I/O | not modelled, or later |

How the parts interact: commands write the local database and obtain the account's worker from the
registry (`get_op_sender`), then send it an operation; the worker coalesces, runs the operation through the
provider's executor, and queues what fails in the outbox; a successful sync (under the sync guard, with
IDLE suspended for O365-like accounts) passes over the folders (`FolderSync`) and asks the worker for a replay; IDLE notifications make the frontend
call `trigger_sync`; account changes stop the worker through the registry and the IDLE loop through its
lifecycle.

## 2. Modules

* `Outbox` – one account's table `rows`, the spawned first attempt (`firstPc`, `firstId`, `firstOut`) and the
  worker (`wpc`, `todo`, `cur`, `wout`, `userOp`). A step is the work between two awaits: a statement under
  the writer lock, a transport, the read of the snapshot. `auth`, `effects` and `credit` are history: attempts
  the user asked for, deliveries that happened, and whether the last request is still unpaid. A definite
  failure proves non-delivery; an indeterminate one leaves both outcomes open (`FirstTransport`,
  `ReplayExecute`). Database errors (`"db"`) and crashes (`"crash"`) are switched on by `Faults`.
* `Delivery` – what the outbox promises: a message is delivered only while open, and at most once per request.
* `FlagMutations` – the operators of `ops/flags.rs` and what a mutation does on the server.
  `FlagQueue` – commands, channel, coalescing, preflight, execution with partial failure, queueing, replay.
  Lists are sets there because each use of them is a membership test, a filter or an idempotent STORE.
* `MailSync` – callers of the three guarded commands, in the steps between which another task can run. The
  folder of a request is only a priority hint to a full account sync, so a deferred request is a Boolean.
* `IdleLifecycle` – invocations (`op`, `start`, `stop`), the handle, and one thread per generation. Sections
  under a mutex without an await are one step; request_stop is two (flag, socket).
* `WorkerRegistry` – callers (`send`, `mutate`), shutdown, and the worker per generation. tokio's RwLock holds
  up new readers once a writer waits. Generations are compared only for equality in both lifecycle modules,
  so their numbers are reused once nothing refers to them, which makes the state space finite without a bound.
* `FolderSync` – one folder, `protocol` chosen in the initial state. `server` is the mailbox, with `clock` and
  `stamp` as JMAP's state and Graph's change feed; `rows`, `prune`, `owed` and `cursor` are durable, `pass` is the
  pass in memory. A step is a request with the transaction that stores its answer. The pass is one at a time
  because of the guard (`MailSync`) and the folder's lock; the user's change (`UserChange`, `Perform`) goes through
  the worker. `torn` is history: it marks the cases in which a pass loses a message for good (see section 3).
* `CalendarActions` – one event, a source and a destination calendar. An event's content is the set of changes
  made to it, so that an overwritten change is visible. `ops` is the journal, `claim` the claim table, `cmd` the
  execute command that holds the account's lock, with its operation in memory: it dies with the command, the
  journal stays. `fresh` stands for the row revisions, which are only compared with the current one.
* `EventSetWrites` – opens what `CalendarActions` takes as one write: master and exceptions, the requests each
  provider needs, their preconditions, and calls cut short between them.
* `ContactSync` – one book, `provider` chosen in the initial state. Stamps number contents, ETags, ids, UIDs and
  positions of the change feed. One `op` runs at a time, under the account's lifecycle lock. A card is `hidden`
  while Google does not serve it yet, until `Tick`, which also ages a noted absence. A Google sync is a listing
  and a merge: the look-up of details is one with the merge, which reads nothing else of the server. A Graph listing
  takes two requests; the second starts as many contacts on as the first returned, whatever changed in between
  (`Skipped`). A CardDAV card has a name (the id) and a UID: this client puts UID u under name u, another client chooses
  its name, and a server may or may not refuse a second card of one UID (`UidTaken`). A CardDAV listing may come short
  (`ListShort`: a body that does not parse is an empty book, a card without data is left out), and cards and
  rows meet in a map with one row for each UID (`Picks`). `torn` in a listing says that it is not one state of the
  server. Other clients give a new card a UID of its own; CardDAV servers that send no ETags are left out.
* `OutboxProofs`, `FlagProofs` (of `FlagQueue`), `IdleProofs` (of `IdleLifecycle`, and of the `MailSync` guard),
  `WorkerRegistryProofs`, `FolderProofs`, `CalendarProofs`, `EventSetProofs`, `ContactProofs` – the theorems about the module each is named after, with the inductive invariants (section 6).
  The `MC` modules – instances for TLC: symmetry sets, the small mailbox, the budget of each provider.

Definitions whose comment begins with "Mutant:" are deliberately wrong versions of the definition that
follows them. Nothing uses them; substituting one for its original must make TLC refute a property, which
shows that the property depends on that code. `PROJECT.json` pairs them with the properties, and maps
every definition to its source lines.

## 3. Runs

| Run | Instance | Shows |
|---|---|---|
| `OutboxFaults` | 2 rows, 1 inherited from an earlier run (any kind, retry 0 or at the limit, readable or not), 2 retries, 1 manual retry, crash and database errors | delivery at most once per request; only the owner or start-up changes a claimed row; dead rows that were delivered carry the warning; refinement of `Delivery` |
| `OutboxLive` | 3 rows, copies and deletes, no faults, fairness | every queued operation is done or dead in the end; claims exclude each other and none is stranded; copies are not repeated |
| `FlagQueueIntent` | 2 messages in 2 folders, 2 flags, one per call, 3 commands, 2 failures | no flag change or delete is lost or undone; rewritten rows can be read back |
| `MailSyncGuard` | 3 callers, all three commands, fairness | exclusion; no request is forgotten; a requested sync starts eventually |
| `IdleSafety` | 3 invocations of any role, panics, missing credentials, timeouts, symmetry | one IDLE thread; none while an operation works, none after a stop |
| `IdleLive` | 2 invocations, timeouts, fairness | waits for the loop to stop end |
| `Registry` | 2 callers and shutdown, channel of 1, panics, failed starts, aborts, fairness | one worker; none during a mutation; none after shutdown; accepted operations are executed; shutdown completes, callers return |
| `FolderSync` | each protocol; 3 keys, pages of 1, 2 changes by other clients, 1 user operation, 1 failure, 2 epochs, a filed message; fairness | the checkpoint covers nothing the mirror lacks; the mirror converges; on Graph every new message is filtered |
| `CalendarActions` | 2 operations of every kind, 1 edit and a deletion by another client, 1 failure, a rewrite no decoder reads, symmetry | no accepted change is lost; an operation writes once; a move leaves one event; writes happen under the claim |
| `EventSetWrites` | each provider; 2 positions, every kind of call, 1 edit by another client, 2 calls cut short; fairness | what a call has not seen survives it; only the planned content appears; a copy is whole when it is taken for whole; creations complete |
| `ContactSync` | each provider; 3 events (2 at CardDAV) among edits elsewhere (also between two pages), commands, failures, lost answers, expired cursors, short listings; CardDAV cards named by this client or another, UIDs enforced or not; rows an earlier version left; fairness | no JMAP contact twice, a CardDAV UID in two rows only once it was on two cards; living contacts keep their rows; the book converges |
| `FolderFlags` | IMAP, 2 keys, 1 change, fairness | *violated*: ADR 0041 calls a folder with equal UIDNEXT and EXISTS "provably unchanged", and the pass skips the flags; a message marked read elsewhere stays unread in the mirror |

What the properties leave out, because the code does not promise it (`Exposed`, `torn`, `Miscounted`, `Crossed`,
`Doubled` and `hidden` in the models):

* Mail sync. JMAP stores its state before the removals it covers, pages a listing by position, and applies the
  removals of a delta last; each can lose or keep a message wrongly until it changes again. An IMAP folder's first
  pass, cut short, leaves rows without UIDVALIDITY, which are not recognised as stale afterwards. A stored total
  that disagrees with the rows is corrected only by the next pass that is not skipped. IMAP and JMAP filter only
  the messages of the pass that inserted them; an interrupted pass leaves them unfiltered. A queued move or delete
  carries the UID without its UIDVALIDITY.
* Calendar actions. A claimed occurrence edit whose snapshot a sync made stale is neither executed nor
  discarded. A lost answer to the DELETE of a transfer's source leaves the transfer pending, and a native move that
  the provider refuses leaves it reconciling. A source that becomes unreadable loses its row and comes back under
  another, which nobody has claimed.
* Event sets. After the master has changed, Google's and Graph's exceptions are written without the revision the
  caller saw (`Exposed`), unlike the contract in `backend/calendar/mod.rs`; a call that fails half-way leaves the
  set as it is.
* Contacts. A Google or Graph create whose answer is lost leaves the local row beside a new synced one. A CardDAV
  edit whose push failed is neither pushed later nor undone, since its ETag is current. A JMAP row whose create was
  adopted takes the card's contents. Names that crossed before a repair make every Google sync fail closed. Updates at
  Graph, JMAP and CardDAV are unconditional.
* CardDAV updates. A PUT goes to `{uid}.vcf`, whatever the card's href: `push_updated_contact` ignores the
  `remote_id` that the trait gives it. For a card another client named, a server that enforces unique UIDs refuses
  every update; any other makes a second card of the UID (`Doubled`: an update and its answer reach it from an initial
  state). From then on each sync gives the row to one of the two and inserts a new row for the other, so the book never
  converges: the model stops at `Rows`, and `NoTwin` and `ContactsMirrored` except the case. The ETag of a PUT is stored
  with its quotes, or empty, so the next sync writes the row again.
* Listings that are not one state of the server (`torn`). A CardDAV body that does not parse is taken for an empty book,
  and a card without data for none: the rows of living contacts are deleted, and what only they had (addresses) is lost;
  the next complete listing inserts the contacts anew. A contact at Graph that slips from the second page
  to the first while both are read loses its row the same way. `LivingContactsKept` excepts both; ADR 0051 notes that
  CardDAV "still requires a complete, fail-closed snapshot adapter".
* Earlier observations on the other modules. A queued copy that succeeded is replayed after a crash, or after an
  ignored error of `mark_completed`. A queued change of two flags that a newer change of one of them supersedes
  has its other flag put on every message of the newer change, also on those it never named: `ops/flags.rs:122` passes
  all of the newer change's messages as the covered ones, where the next arm, and the doc comment ("Remove portions of
  `older`"), have only the shared ones. Every call of the frontend names one flag, so `FlagSets` has singletons in the
  run; with `{{"seen"}, {"seen", "flagged"}}` TLC refutes `IntentPreserved` after two commands and one failure. Two overlapping flag commands can write the database
  in one order and reach the worker in the other (`MaxPending = 2`). A request recorded just after the holder of
  the guard looked for one, or during `sync_folder`, waits for the next trigger. After start, stop, start while the
  first start fetches credentials, IDLE is enabled and does not run.

## 4. Bounds

`MaxRows = 2` lets a first attempt and a replay overlap, and a snapshot hold a row that changes under it;
`MaxRetries = 2` (5 in the code) has a first, a last and an exhausted attempt; one manual retry is enough to
exceed a credit; `EffectCap` saturates the count above anything a property allows. Two flags and two folders
give every case of `subtract_flag_mutation`; three commands let two queued rows meet a newer operation.
`MaxFailures` stays below MAX_RETRIES, so that no row goes dead in the flag model (that is `Outbox`'s
subject). `MaxPending = 1` means flag commands do not overlap between database write and send; with 2 the
intent is not preserved (section 3). Two invocations suffice for each race of
the guard and the lifecycles; the third in `MailSyncGuard` and `IdleSafety` covers a bystander that holds or
waits for the lock meanwhile, and shutdown is the third in `Registry`.
In `FolderSync` three keys and pages of one message give a first, a middle and a last page, a backlog below and
above the watermark and a message that arrives during a pass; two changes let one message leave and return
between two requests; `MaxPages = 2` cuts a Graph enumeration of three. Two operations and two rows in
`CalendarActions` let a second operation plan on what the first is changing, and a row return under another id.
Two positions in `EventSetWrites` put another client between two requests of one call. In `ContactSync` the shared
budget of three events suffices for a create, its loss and an edit elsewhere, or a rename, an edit and an expired
cursor; CardDAV's two (`MCInit`) for an update and a lost answer, a refusal, a short listing or a cut. Two pages stand
for any number, since each next one skips what the earlier ones had. `Rows` has a slot for every contact the events can
make; only a book with two cards of one UID needs more, and there the model stops inserting. `Stamps` follows from the
budget: an event is worth three stamps at most, and a contact that an earlier version left without a card takes one
more; that they suffice is part of the invariant proved (section 6).
`CHECK_DEADLOCK FALSE` is used for `Outbox`, `FlagQueue` and `EventSetWrites`, where the bounded environment stops
asking.

## 5. Fairness

* `Outbox`: the spawned task and the worker run on (each network call has a timeout). The replay has strong
  fairness: its request waits in the worker's first-in first-out channel, so other operations cannot overtake
  it forever. That a replay is requested at all assumes that syncs keep succeeding.
* `MailSync`: tasks are scheduled, syncs end; the frontend's interval timer calls `trigger_sync` repeatedly.
  `MaxOthers` bounds the folder syncs and prefetches: an endless stream of them could hold the guard at every
  trigger, and then a requested sync would wait with it.
* `IdleLifecycle`: tasks and threads run, connection attempts end, reads on a shut-down socket return, the
  account lock is first-in first-out. That an idle server ever sends anything is *not* assumed.
* `WorkerRegistry`: tasks run, operations and mutations end, tokio's locks and channels serve waiters in order.
* `FolderSync`: passes are started again and again by the timer, IDLE and push, and run on; the worker carries
  out what the user did. Failures and other clients are bounded, so the server is quiet in the end.
* `EventSetWrites`: a call runs on, and one that was cut short is called again (`execute` resumes the operation).
* `ContactSync`: the holder of the account's lock goes on, a sync is asked for again (the contacts view does) and
  gets the first-in first-out lock, and time passes.

## 6. Proofs

The theorems hold for every value of the constants that the module's assumptions admit. Each inductive invariant
was an invariant of a TLC run before it was proved, on a small instance (75 thousand states for `RegistryInv`, 12
million for `IdleInv`, 1.9 million for `CalendarInv`, 1.1 million each for `EventSetInv` and `FolderInv`, 22
thousand for `BookInv`, over all providers and two events). The proofs have one
lemma per action and end in a theorem `...Inductive` for the step and `...Invariant` for the specification; the
properties the runs check follow from it.

`OutboxProofs`, from `BoundsAssumption`, `KindsAssumption` and `FaultsAssumption`: for every number of rows,
retries, manual retries and every choice of faults, types (`OutboxTypeCorrect`), at-most-once delivery
(`OutboxAtMostOnce`), the claims (`OutboxClaims`, `OutboxClaimProtects`), `OutboxPendingUndelivered`,
`OutboxDeadFlagged`, `OutboxNoStranded`, and the refinement `OutboxRefinesDelivery`.
At-most-once is not inductive: it does not say that a pending row is undelivered. The invariant `IInv` adds
the books the code keeps implicitly: an outstanding request pays for one delivery (`CreditInv`); a pending
send, a send about to be transported and one whose transport definitely failed still have that credit
(`PendingSendIsUndelivered`, `AttemptInv`); a claimed row has one owner (`ClaimHeld`), and owners refer to
inserted rows (`IdsInv`); a claimed send has a retry left, and the worker's snapshot of the other operations
is exact (`RetryInv`), without which the retry count could pass MAX_RETRIES. Its lemmas rest on three for the
common shapes (no row changes, one unowned row changes, a row is inserted). That no send is stranded needs the
converse of `ClaimHeld`, that a sending row has an owner (`SendingInv`), which holds as long as no database write
fails. `OutboxCopyOnce` has the hypothesis `Faults = {}`, as the run has: after a crash or a failed write the code
repeats a copy by design, since nothing recorded that it was made. The refinement maps
a send's row to an open message, any other inserted row to a closed one; every action is a request, a delivery,
a removal or a stutter.

`FlagProofs`, for any messages, folders and flags and any number of commands and failures: `RowsAreReadBack`,
`DeletesArePreserved` and `IntentIsPreserved`. The model's operators fold over sequences (`RunMutations`, `FlatMap`,
`coalesce`, `Superseded`); what they compute is proved by induction on the length, with the property given as a set
(`NatSetInduction`, `SeqSetInduction`), which needs no operator parameter. The outcome of running mutations is compared
at one flag of one message (`Alike`), where only the mutations that cover it count. From this follow the facts about
the code's operators: coalescing does not change the outcome (`CoalesceBatch`); subtracting a newer mutation
does what the older one did wherever the newer says nothing (`SubtractRun`), and leaves nothing that contradicts it
(`SubtractAgrees`); and a mutation applied in part, and then again as a whole, has the effect of the whole. The last
needs the invariant `Preflighted`: between preflight and execution no queued mutation contradicts the operation that
is about to run, so queueing it behind those rows when it fails keeps the outcome. `Typed` says what each list may hold (a
queued bulk read stays in the form `outbox_to_mail_op` accepts), `DeletesKept` and `IntentKept` are the two properties
list by list, and `OnePending` that at most one operation is between its database write and its send. Types and deletes
need no hypothesis. `IntentIsPreserved` has two, `OneFlag` and `MaxPending = 1`: without either the intent is lost, in
the two ways section 3 describes. The proof found the first of them to be necessary: the lemma that what is left of an
older mutation acts like it fails for two flags.

The second part of `IdleProofs` proves exclusion (`MailSyncExclusion`) and the memory of requests (`MailSyncRemembers`) for
any set of callers; with the types the two are inductive.

`WorkerRegistryProofs`, for any finite set of callers, any capacity and any faults: one worker, none while an account
is changed, none after shutdown, and no accepted operation lost. `RegistryInv` says who holds the account lock and
the gate (`GuardInv`), that only get_or_spawn starts workers and is not inside once stop_all has the gate
(`RoleInv`), that a worker whose supervisor has not reported is the one the handle names (`HandleInv`), and what each
caller between two awaits may still rely on (`RefersInv`). `FreshGenIsFresh` justifies the model's reuse of generation
numbers: by counting, some number is referred to by nobody when one is needed.

`IdleProofs`, for any finite set of operations and commands and any faults: one IDLE thread, which is down while an
operation works and after stop_idle. stop_idle waits without the account lock, so the lock alone excludes
nothing: `IdleInv` says that every live thread is the one the handle describes (`ThreadInv`), that a reservation
and a thread taken out for joining belong to one invocation (`PhaseInv`), and that a successful stop leaves an
empty, disabled handle (`StoppedInv`).

`FolderProofs`, for any number of keys, sizes of pages, changes, failures and interruptions, from `FolderAssumption`
and `NoneAssumption`: `FolderCheckpointSound`, for all three protocols. The invariant `FolderInv` has to say what a
pass knows between two requests. IMAP: while a pass runs, and in the stored epoch, a row is of the message its UID
means and the messages up to the mark have rows (`Current`); one above the mark is to be fetched, has failed, has a
row or is being deleted, or arrived above everything the pass listed (`Backlog`), so the mark that stops below the
least failure is safe. JMAP: pages of changes hold what changed between the two states, as it is (`JmapDelta`); a
listing by position holds every unchanged message up to a rank (`JmapListing`), and a page that is not full is the
last, by counting (`LastPage`); before the removals, what will be removed is gone (`JmapRemovals`). Graph: what the
link does not report any more is shown, or gone and marked (`GraphLink`), and a row that a page skips because it
was known is one the user deleted (`GraphPass`). `ChangeStep` is one lemma for every change of one message on the
server, whoever makes it; it names what such a change must respect, and the `torn` cases are exactly those that
do not.

`CalendarProofs`, for any number of operations, rows and other clients' changes: `CalendarNothingLost`,
`CalendarWrittenOnce`, `CalendarOneHome` and the action property `CalendarWritesAreClaimed`. The argument of
`CalendarInv` is that a revision identifies content (`Genuine`), for the mirror, the user's selection, every
operation in the journal and the one in the command's memory; that what an operation has recorded is true of the
provider (`Sound`), also where the command knows more than the journal (`Agrees`); and that a running command's
operation owns its rows. `NoneAssumption` says that the value for absence is neither a resource nor an operation.

`EventSetProofs`, for every set of positions (so for every recurrence), of other clients' changes and number of
interruptions: `EventSetUnseenSurvives`, `EventSetOnlyPlanned`, `EventSetCopyIsWhole`. `EventSetInv` says that a part
whose revision has not moved holds what the call read (`RevisionInv`); that a Google master the call has patched
shows it, so a resumed call never takes the set for untouched (`SurvivalInv`); and that an undisturbed set is,
part by part, the snapshot or the plan, a part being generated again only under the new master or with the content
that master gives it (`PlanInv`).

`ContactProofs`, for any number of changes by other clients, commands, failures and lost answers, from
`EventsAssumption` and `ProvidersAssumption`: `ContactsHaveNoTwin` and the action property `LivingContactsAreKept`.
The invariant `BookInv` has a part for each way of knowing a contact. With JMAP (`KeyedInv`) each card carries our UID,
but uniqueness alone is not inductive: a lost answer leaves contents on the server, in a row and in the listing
a sync holds at once. `Binding` says that all three agree on the UID that a version of the contents belongs to;
`SeenInv` that what other clients made stale in the listing is its contents, never its UID, and that a contact of ours
that is still on the server was listed, if under another id; `OpInv` that a row whose create was deferred is on no card
(`Uncarded`), which is what makes the second attempt safe. Where the id is all there is (`IdInv`: Google and Graph), a
former name belongs to one card (`Aliases`), so a look-up by an old name finds the contact that took it over;
an absence that counts twice is of a contact that had its time to appear (`Absent`); what a delta calls deleted is
a name of a deleted contact; and what Graph's pages lack is gone, by counting what the second page skips, unless
something changed in between (`IdOp`). With CardDAV (`DavInv`) names and UIDs are apart: a name another client chose is
no card's and no row's UID (`Foreign`), so that a PUT under a UID never overwrites a stranger; a row with a card has the UID
of that card (`Carded`); a UID is in two rows only if it has been on two cards (`DavRows`), which no later step undoes; and
a listing lacks no living contact of a row unless it is torn (`DavOp`). `ClockInv`, `IdClock` and `DavClock` count the
stamps still to be given. That no row is taken from a living contact follows for each of the steps that can take one: the
snapshot's application, its CardDAV form cut short, the Google merge, and the repair of a failed pass.

## 7. Only model-checked, and not modelled

Checked by TLC only: all liveness properties, since fairness and ENABLED are beyond the prover. Every invariant and
every action property of the passing runs is stated by a theorem. The one *violated* property is temporal.

Left out of the models: event emission and logging; building of messages; the Sent-folder APPEND (best effort
after the row is gone); moves and copies in the flag model; JMAP and Graph executors; several accounts (each has
its own rows, guard, lock and worker); crashes in `FlagQueue`, where operations in the channel are in memory by
design; a flag change whose worker is unavailable, which the code reports and drops. `AcceptedNotLost`
speaks of workers that have started and do not panic: a panic drops the worker's batch, and after a caller is
aborted while the worker starts another can be given a worker that then fails to initialize.

In the newer modules: the loop over an account's folders, folder discovery, bodies, threading and search; the
matching of filter rules; the providers' incremental calendar listings (a sync is one replacement of the mirror);
`repair_unresolved_occurrence`, the creation of new events and invitations; several address books and moves
between them; conversions of formats, where the code is
functions of one value without state. Most of the rest of the repository is of that last kind (iCalendar, MIME,
vCard, recurrence, OpenPGP), tables of SQL, or the frontend.

## 8. Plan

1. Submission classification (`mail/smtp.rs`, `mail/jmap/mail.rs`): when a failure is definite; discharge the
   assumption of `Outbox` by refinement.
2. Moves, copies and the JMAP and Graph executors in `FlagQueue`; cross-account moves.
3. JMAP push lifecycle; composition of `MailSync` with `IdleLifecycle` and `FolderSync`.
4. An abstract specification of one calendar action's life, implemented by `CalendarActions`; calendar listings.
5. OAuth refresh and account mutation.
