# token-usage: a verification project

TLA+ models of [token-usage](../src/README.md), a program that counts the tokens
that AI command-line tools spend. TLC checks the models on small instances; TLAPS
proves the main results for all instances.

## 1. The system

One **watcher** runs on each machine. It reads the transcripts that Claude Code,
Codex, opencode, pi and DeepSeek Harness write, turns their lines into *usage
records* and *edit events*, and posts them in batches to the **server**. The server
stores them in PostgreSQL and serves the **dashboard**.

    transcripts --Scan--> runOnce --POST /ingest--> handleIngest --SQL--> usage_detail
                            |  ^                                          usage_daily
                      spool |  | Flush                                    edit_detail
                            v  |                                          edit_daily
                          BufferDir                     Worker (rebuilds, price sync)
                          checkpoint.json               admin CLI (codex-repair, keys)

### Inventory

| component | state | operations | what makes it correct |
|---|---|---|---|
| transcripts (the tools) | files that grow | append a line; rotate, truncate | |
| parsers `internal/watcher/parsers` | `FileState` (inode, offset); Codex: running totals; opencode: watermark | `Scan` of one transcript | each complete line is read once the state passes it; a re-read yields the same keys; token deltas add up to the totals |
| scanner `scanner.go` | none | `Scan`: one goroutine per source, merged | a transcript that could not be read keeps its old state |
| checkpoint `checkpoint.go` | the map in memory, `checkpoint.json` | `LoadCheckpoint`, `Get`, `Set`, `Save` | the file never stands past a line nobody answers for |
| uploader `uploader.go` | `BufferDir` | `Send`, `SendEdits`, `spool`, `Flush` | "durable" means stored or spooled; the spool drains |
| pass `run.go` | where the pass is | `DoRun`, `runOnce`, `sendBatched` | the checkpoint moves when every batch of both kinds is durable |
| ingest `api.go` | requests being handled | `handleIngest` | a request is stored whole, or answered as failed |
| store `store.go`, `schema.go` | the tables | `Insert`, `InsertEdits`, `RebuildDaily`, price upsert, aggregates | a record counts once; daily = sum of detail |
| repair `store_repair.go` | | `RepairCodexUsage` | refuses an incomplete source; detail and daily change together |
| worker `worker.go` | timers | `todayLoop`, `deepLoop`, `priceLoop` | drift of the last days is corrected |
| prices `pricesync.go`, `pricing.go` | `model_prices` | `SyncPrices`, `UpsertPrice`, `SeedDefaultPrices`, lookup | at most one price of a prefix is active; a day has one price |
| users and keys `auth.go`, `admin.go` | `users`, `api_keys` | create, resolve, revoke | a revoked key stops working; a record counts for one user; exchanging a key loses nothing |
| service commands `cmd/watcher/cli` | the installed service | install, start, stop, restart, uninstall, cleanup | cleanup loses nothing that is not asked for |
| dashboard `web/` | selected user and range, the cards, requests in flight | `load`, the dropdown, the range buttons, the timer | the page comes to show what was chosen last |

What is hard: a pass can stop between any two steps and start again from the disk;
the answer to a POST can be lost while its handler goes on; spool replays, re-scans
and copies of a message in several transcripts send the same record again and
again; on the server, ingests, two rebuild loops and a repair work on the same
daily rows at READ COMMITTED; nothing locks the watcher's state directory, which a
service, a watcher run by hand and `cleanup` share; the page never cancels a request.
`PROJECT.json` lists these hazards one by one, each
at its line, with the properties that cover it.

## 2. Modules

| module | models | kind |
|---|---|---|
| `Transcripts` | what lines and requests are | vocabulary |
| `Ingest` | `POST /ingest` and the atomic SQL statement behind it | component |
| `Watcher` | `DoRun`, `runOnce`, `sendBatched`, `Uploader`, `Checkpoint`, `Scanner` | component |
| `Delivery` | `Watcher` and `Ingest` together | composition |
| `Ledger` | what the pipeline promises of records | abstract specification |
| `Totals` | what the store promises of detail and daily rows | abstract specification |
| `Rollup` | `Insert`, `RebuildDaily`, `RepairCodexUsage` as concurrent transactions | component |
| `Tail` | how a parser reads one transcript that changes under its hands | component |
| `OpencodeCursor` | two queries and one watermark over opencode's database | component |
| `CodexTokens` | usage records from the running totals of a Codex session | component |
| `CodexPatches` | edit records from the calls, outputs and events of a Codex session | component |
| `Prices` | seeding, `SyncPrices`, `UpsertPrice`, the price lookup | component |
| `StateDir` | several watcher processes and `cleanup` on one state directory, `Save` by system calls | component |
| `Access` | users and keys, and `handleIngest` in its own steps | component |
| `Dashboard` | `load()`s of the page that overlap | component |
| `DeliveryProofs`, `ServerProofs`, `TailProofs`, `OpencodeCursorProofs`, `CodexProofs`, `PricesProofs`, `StateDirProofs`, `AccessProofs` | theorems | proofs |
| `MCDelivery`, `MCRollup`, `MCOpencodeCursor`, `MCCodex`, `MCPrices`, `MCStateDir` | instances for TLC | model checking |
| `MCServer` | `Rollup` and `Dashboard`: the server, and the page it serves | model checking |
| `MCDeliveryLive` | `Delivery` and `Access`: what ends well | model checking |
| `MCAccounting` | `CodexTokens`, `CodexPatches` and `Prices`: what is counted and what it costs | model checking |

`Delivery` takes two things as one step that other modules open up. The SQL statement
of an ingest: `Rollup` shows that the statements of concurrent transactions have the
effect of one step each (`TotalsHold`). The reading of a transcript: `Tail`,
`OpencodeCursor` and the two Codex modules say what a scan finds while the file or
database is being written to. And it has one process with the disk to itself and one
verdict per request: `StateDir` has several processes, `Access` the steps behind a
verdict.

### Watcher

`pc` follows `runOnce` (the list is at the head of the module). One action is the
code between two points where the process can be interrupted or its environment
can act: each POST is a step that opens an exchange and a step that takes its
answer.

| code | model |
|---|---|
| `Checkpoint.Files`, `checkpoint.json` | `mem`, `disk`: per transcript, the lines passed |
| `BufferDir` in name order | `spool`, a sequence of requests |
| `Flush`'s loop over the entries | `fpos`, `FlushDone`, `FlushSkip`, `FlushPost`, `FlushReturn`, `FlushReturnUnremoved`, `FlushCancelled` |
| `Scan` and what it returns | `Scan`, `ScanNothing`; `scan`, `pending` |
| `sendBatched` for usage, then for edits | `kind`, `start`, `Batch`, `SendPost`, `SendReturn`, `NextKind` |
| `sendRequest` after a failed `post`, `spool` | pc = "spool", `SpoolBatch`, `SpoolFails` |
| `Set` for each path, then `Save` | `Checkpoint` (whose `Save` may fail) |
| the loop and select of `DoRun`, `--once` | `Start`, `Tick`, `Exit` |
| signals, the service manager's Stop, a crash | `Stop` (the context is cancelled), `Crash` |
| a POST in flight | a slot of `http`: "received" while the watcher waits, "orphaned" once it has timed out or died and the handler goes on, then "ok", "retry" or "refuse" |

Abstractions. A line stands for the record it yields (`Line`): a usage key, an edit
key, or nothing. Offsets count lines, and transcripts only grow; `Reparse` are those
whose parser reads the whole file again when it has changed (Codex, DeepSeek
Harness). `"retry"` stands for every status and error that leaves a spooled batch in
place, `"refuse"` for 400, 404, 410, 413 and 422. `mode` is what the deployment
answers to each kind of request at the moment; it changes with `Degrade` and is
mended by `Repair`. `refused` is a history variable. A scan with nothing new
goes through the same actions as one with records (both `Set` and `Save`).

### Rollup

A transaction is a row of `st`, `batch`, `got`, `todo`, `held`, `days`, `seen`;
`detail`, `rows` and `total` are the committed tables. The rules of PostgreSQL that
matter are at the head of the module: a statement's snapshot is taken when it begins
(`Delete`, `Select`); a row written by an open transaction is locked, and so is its
key (`Locked`, and `InsertRow` for the detail table); an upsert that waited goes on
with the row as committed (`CommitInsert` adds to what is there then); a DELETE that
waited for a row which a commit deleted does not see the one inserted in its place
(`End`). `LOCK TABLE ... SHARE ROW EXCLUSIVE` makes a repair one step that no other
transaction overlaps. A daily row is the bag of contributions it adds up
(`total[r, v]`), so lost and double additions of the same size cannot cancel out.

### Tail

| code | model |
|---|---|
| the file behind a name | `files` by inode, `path` the inode the name leads to; each replacement or truncation begins a new `text` |
| `os.Stat`, `os.Open`, `ReadBytes` until the end | `Stat`, `Open`, `ReadLine`, `ReadEnd`; `stat`, `fd`, `cur`, `got` |
| where to start (claude-code, pi), whether to read at all (codex, deepseek-harness) | `Start`, `NothingNew` |
| the `FileState` that is returned, and `Checkpoint.Set` after the pass | `NextState`, `Durable` |
| an unreadable file, a pass that fails | `ScanFails`, `NotDurable` |

A line has two bytes, so that half a line can be at the end of the file. The tool may
append, replace or truncate between any two steps of the scan. `tailing`, chosen at
the start, says which of the two kinds of parser reads the transcript.

### OpencodeCursor

`dbs` holds the rows of each database that has had the name, `current` the one that
has it now. `Stat`, `QueryMessages` and `QueryParts` are the three moments of `Scan`
that opencode can write between; a query sees what was committed when it ran, and the
database is opened by the first one. `late` is a history variable: the rows written
too late for a query that the watermark covers.

### CodexTokens, CodexPatches

Both parsers read the whole file again at each scan, so what a scan finds is a
function of the lines that are there. `CodexTokens` uses this to follow `prev` and the
sums of the records line by line. `CodexPatches` keeps the lines (`rollout`), and
`Scan` adds what `Result` finds in them to `edits`, the records of all scans. The text
of a patch is a sequence of kinds of lines; `Envelope`, `UnifiedDiff` and `Outputs`
say how Codex writes it, `ParseApplyPatch`, `DiffCount` and `OutputSucceeded` what the
parser makes of it.

`applied` is what a call has in fact done: the patch as a whole or not at all, or, for a
script with a string for each file (`exec`), any of its sections. What it prints is a
matter of its own. Each exit code and each first word of an output is a *verdict*, which
is about a part of the patch or about another command of the script; a verdict about a
part is true, one about something else may be either. `ToolOutputs` are those of
`apply_patch` itself, `ScriptOutputs` those of a script: a JSON document or text, with no
exit code or several, in any order. `OutputSucceeded` reads them by the rules of
`codexOutputSucceeded`, and so by the last code of a script.

### Prices

`prices` is the table. `Start` seeds it, `Sync`, `Fetched`, `Stamp` and an upsert for
each prefix are one sync, `Down` the end of the process between any two steps. The four
outcomes of `UpsertPrice` are actions: `SamePrice`, `FirstPrice`, `ReplaceSeed`,
`NewPrice`. `PriceRow` is the lookup for a model and a day. The prefixes form one
family in which each begins with the one before, since lookups of unrelated prefixes
do not touch. Repeated attempts of a fetch change nothing and are one step with it.

### StateDir

| code | model |
|---|---|
| `checkpoint.json`, its `.tmp`, the spooled batches | `final`, `tmp`, `spool` |
| `Checkpoint.Files`, what the scan returned, the listing of `Flush`, of each process | `mem`, `pending`, `names` |
| `os.WriteFile`: open and truncate, write; `os.Rename` | `SaveOpen`, `SaveWrite`, `SaveRename`, `RenameFails`; `fd` follows the file when another process renames it |
| a full disk or a kill in mid-write | `SaveFails`, `Crash` |
| `LoadCheckpoint` | `Start`, with `Readable` |
| `stop`, `start` | `Stop`, `StartService` |
| `doCleanup`: stop each, list and delete, remove the checkpoint, start each | `Cleanup`, `CleanupStop`, `Stopped`, `StopFails`; `List`, `DeleteEntry`, `Cleared`; `CleanupStart`, `CleanupDone` |
| what `doCleanup` goes on after: `ReadDir`, the removal of a batch, that of the checkpoint failing | `ListFails`, `EntryStays`, `CheckpointStays` |

A pass is shorter than in `Watcher`: one transcript, one batch. Spooled batches with the
same lines are one entry. `given` and `collided` are history variables: what cleanup or
the server gave up, and whether two processes have been in `Save` at once.

### Access

`users` and `api_keys` are `people`, `keyUser` and `revoked`; `conf` is the key that a
watcher was installed with, `due` what it has to send. A request goes through "auth",
"usage" and "edits" to the answer "ok", "401" or "500". The user of a record is that of
the first request that stores it (`owner`), and `daily` is what the upserts have added
to each user's daily rows. `barred` is a history variable: the key of the request had
been revoked when it was made.

### Dashboard

`sel` is `state.user` and `state.rangeDays`, `box` the value of the dropdown, `shown`
what the selection was that the rows and each card were asked for, `heat` that of the
heatmap, `known` is `state.users`. A load holds its requests that are open: first
`/summary`, then everything else at once. An answer is applied when it comes, whatever
was asked for since. `renderUserOptions` is part of each step whose code calls it.

## 3. What is checked

| run | asks | instance |
|---|---|---|
| `delivery` | `CheckpointCovered`, `CountedOnce`, the refinement `LedgerHolds` | two transcripts of two lines sharing one usage record, one of them re-read whole; batches of one; two exchanges; any two faults |
| `delivery_live` | `Delivered`, `SpoolDrains`, `RotationLosesNothing` under fairness; `CountedForOwner`, `AnswersTrue` | one transcript, a usage record and an edit, any two faults; or two users with a key and a watcher each, that post the same two records, and any two of a failure, a revocation and a reinstallation |
| `dropped` (violation) | is a spooled batch safe? | one change of the deployment |
| `server` | `DailyIsDetail`, the refinement `TotalsHold`; `Corrected`, `PageSettles` under fairness; `BoxIsFilter` | two ingests and both loops over two days; or one ingest, the deep loop, repairs and one fault or edit by hand; or two users, two ranges, two loads, two choices and one failed request |
| `next_pass` (violation) | does the next rebuild always correct drift? | one ingest, one loop |
| `tail` | `NothingSkipped`, `OnlyNewTail`, `EverythingRead`, `ShrunkIsRead` | either kind of parser; a replacement, a truncation, a fault |
| `opencode` | `OnlyLateRows`, `EverythingRead` | a message, a part, a database created anew, a fault |
| `opencode_watermark` (violation) | is one watermark coherent for both tables? | the same without faults |
| `accounting` | `AddsUp`, `NeverTooMuch`; `EventsStable`, `EditsAreChanges`, `NothingMissing`; `EveryDayPriced`, `HistoryIsChange`, `PastDaysKeepTheirPrice` | four turns, two restarts of the totals; or a call of one of three patches with any output of at most two exit codes, or two such calls that end in a word; or two prefixes under four names, two and a half days, three changes of the list, one fault |
| `script_outcome` (violation) | does an output with the code of a failed patch keep it out of the records? | the calls of `accounting` |
| `state_dir` | `Covered`, `SaveIsAtomic`; `Recovered` under `Fairness` | a service and a watcher by hand, one line, one cleanup with or without the checkpoint, any two faults |
| `prices_confirmed` (violation) | do days keep a price that the list has confirmed? | the prices of `accounting`, two changes and no fault |

What they show.

* `CheckpointCovered`: the checkpoint file stands only past lines whose record is
  stored, spooled or refused for good. It takes a crash, a failed `Save` and a batch
  with an unknown outcome to put it at risk.
* `CountedOnce`: however often and from wherever a record is sent, it is added to the
  daily totals once.
* `LedgerHolds`: over time, custody of a record is never given up, the checkpoint
  file never moves back, and it moves only over what is in custody.
* `Delivered`, `SpoolDrains`: once nothing more goes wrong everything written is
  stored and the spool is empty.
* `DailyIsDetail`, `TotalsHold`: the comment above `RebuildDaily` ("no double
  counting") in every interleaving, including two rebuilds at once and the ingest of
  a row that is not there yet (which makes the rebuild fail on the primary key).
* `Corrected`: the deep loop mends a row of the last `DeepDays` days.
* `NothingSkipped`: as long as the transcript is not truncated in place, a line is
  passed over only when it is durable, even if the file is replaced between the stat
  and the open. `EverythingRead`: each line is read in the end. `OnlyNewTail`: without
  failures, no line is read twice. `ShrunkIsRead`: a scan that finds the file shorter
  than its state starts over.
* `OnlyLateRows`: nothing but a message written between the two queries, or a row
  stamped in a millisecond that has been read already, is ever passed over.
* `AddsUp`, `NeverTooMuch`: the records of a Codex session are what it spent, and at
  most that when the totals start over.
* `EventsStable`, `EditsAreChanges`, `NothingMissing`: an event id means the same
  change in every scan (the server keeps the first); an edit has the lines of a section
  that was applied, and no such section is missing when its call is over. Both except
  what the code gets wrong, and say where: a section is `Misjudged` when the final
  verdict of the output is not about it. That the last code is the one that counts, and
  that it is then right in each shape, form of output and order of lines, is what
  remains, and what a parser that took the first code would break.
* `EveryDayPriced`: failed upserts and restarts leave no day without a row of each
  prefix that has one. `HistoryIsChange`: a sync of an unchanged list writes nothing.
  `PastDaysKeepTheirPrice`: a new price leaves the days that are over as they were.
* `PageSettles`: answers in any order and lost ones are mended by the refresh; once
  nobody chooses and nothing fails any more, every card comes to show the selection.
  `BoxIsFilter`: while the users are known, no answer takes the choice out of the
  dropdown.
* `Covered`: whatever two processes and a cleanup do to one directory, a checkpoint
  that a watcher can start from stands past no line that is neither stored, spooled nor
  given up by the cleanup or a refusal. `SaveIsAtomic`: a crash or a failed write never
  leaves a checkpoint that cannot be loaded, as long as no two processes save at once.
  `Recovered`: if in the end a service runs and can load the checkpoint, everything
  written is stored.
* `CountedForOwner`: a record that several users' requests bring counts once, in the
  daily rows of one of them. `AnswersTrue`: a 2xx means that both halves of the request
  are stored, and that its key had not been revoked before it was made.
  `RotationLosesNothing`: while a key is missing, revoked or exchanged, its 401s drop
  nothing.

Every property has a mutant in `PROJECT.json`: a plausible slip in one definition
under which TLC finds it violated.

### Where the documentation says otherwise

* `SpooledIsSafe`. `uploader.go:41-44` calls a spooled batch durable. A batch refused
  with 400, 404, 410, 413 or 422 is spooled as well, the checkpoint moves on, and the
  next `Flush` deletes it. With the "pre-edits server" that `SendEdits` speaks of, the
  edits of that time are gone even after the server is upgraded.
* `NextPassCorrects`. `worker.go:9-12` says the next pass corrects drift. A pass that
  meets a daily row inserted since its DELETE rolls back; the deep loop returns a day
  later.
* `CoherentWatermark`. `opencode.go:69-72` calls one watermark coherent for messages
  and parts. A message that is finished between the two queries, before a part which
  the second query reads, stays below the watermark and is never read.
* `KnownDaysKeepTheirPrice`. `store.go:627-628` says that changing prices does not
  re-price the past. When the list confirms a seeded rate, nothing is written and the
  row stays a seed; when the rate changes later, `UpsertPrice` replaces the seed in
  place, and with it the price of all the days before.
  `README.md:265-266` and `docs/agents-dot-md/architecture.md:74` contradict
  `store.go:627-628`: there, "rate changes re-price history without any backfill". The
  code does what `README.md:277-280` describes: a changed rate begins a new row, and the
  days that are over keep the old one (`PastDaysKeepTheirPrice`, proved). The past is
  re-priced in two cases only: a seed is replaced in place, and the first price of a
  prefix counts from the epoch.
* `EditsAreConfirmed`. `codex.go:88-89` says that only calls are recorded "whose output
  confirms the patch actually applied (exit_code 0)". `lastExitCode` lets the last code
  in the output of a script stand for all of it: a patch that failed is recorded when a
  later command of the script succeeds. The other way round, an applied patch is dropped
  when a later command fails, which `Misjudged` excepts from `NothingMissing`. A
  document that has neither a code in its metadata nor an output of its own is read the
  same way (`codex.go:571-576`).

Met on the way, without a run of their own:

* `checkpoint.go:14-17` promises that a crash re-reads at most one batch; `runOnce`
  writes the checkpoint once per pass. Nothing is lost, as the server dedups.
* A transcript that is truncated and has grown beyond the old offset before the next
  scan looks like an appended one (`claudecode.go:38`): hence `NeverTruncated` in
  `NothingSkipped`.
* `cmd/watcher/README.md:217` and `checkpoint.go:55` call the writing of the checkpoint
  atomic. All processes use the same temporary name: of two that save at once, one may
  rename what the other has just truncated. Then `checkpoint.json` is empty or torn, and
  no watcher starts until it is deleted; `cleanup` does so only with
  `--with-checkpoint`. This is why `SaveIsAtomic` excepts `collided`, `Recovered` asks
  for a checkpoint that can be loaded, and the run does not look for deadlocks.
* A watcher that `cleanup --with-checkpoint` could not stop, or that it does not know
  of, saves its checkpoint again from memory after it was deleted: the re-scan that was
  asked for does not come. What the cleanup took from the spool is then given up.
* `renderUserOptions` (`app.js:336`) keeps the choice only if it is among the users at
  hand. When `/users` has failed or not yet answered and the chosen user has no rows in
  the range, the dropdown falls back to "all" while `state.user` goes on filtering; and
  as choosing "all" is then no change, the filter can only be left by choosing somebody
  else first. `BoxIsFilter` therefore speaks of the time in which the users are known.
* A spooled batch does not name its user: sent again under another user's key, it
  counts for that one. `users.disabled_at` is listed, but nothing sets it and
  `ResolveAPIKey` does not read it.
* `parseApplyPatch` takes "*** Move to" for the end of a section, so the lines of a
  file that is renamed and edited are not counted, although the same change in a
  `patch_apply_end` is. `diffLineCounts` takes a changed line that begins with "--" or
  "++" for a file header. `LosesLines` names both. `addPatchApplyEnd` counts one line for
  a file that is added empty (`codex.go:322`): `AddedCount`.

### Bounds

| bound | value | why it is enough |
|---|---|---|
| `MaxFaults` | 2 in `delivery`, `delivery_live` and `state_dir`, else 1 | a fault and one more while its consequences are under way; every kind of fault draws on it, so all pairs occur |
| `NumSlots` | 2 | one exchange the watcher waits for and one it has given up on |
| `NumFiles`, `MaxLines` | 2 x 2, 1 x 2 | a shared record, several batches of a kind, one transcript unreadable while the other is read |
| `BatchSize` | 1 | several windows with few records |
| `NumDays`, `DeepDays` | 1 or 2 | a day inside and a day at the edge of the window |
| records, daily rows | 3 and 2 | two records of one row, and a second row for lock order |
| `Tail`: `MaxLines`, `MaxReplacements`, `MaxTruncations` | 2, 1, 1 | an offset within the file, the old and the new file of a name, the two kinds of change in either order |
| `OpencodeCursor`: `MaxTime`, `MaxRebuilds` | 2, 1 | a write before and one after the first query, or both within a millisecond |
| `CodexTokens`: `MaxTokens`, `MaxTurns`, `MaxRestarts` | 2, 4, 2 | totals that grow in one component and shrink in another, twice |
| `CodexPatches`: `Call`, `Patches`, `MaxCodes` | 2, 3, 2 | a call and its outcome with another call in between; sections out of order, added empty, deleted, moved; a verdict and a later one that differs. Two calls at once end in one word about their patch, since what one prints has no bearing on the other |
| `Prices`: `NumPrefixes`, `NumNames`, `MaxTime`, `MaxChanges` | 2, 4, 5, 3 | a longer prefix that appears, wins and changes; equal candidates; a seed, its replacement and a change of that |
| `StateDir`: `MaxLines`, `MaxCleanups`, processes | 1, 1, 2 | a line that a process has passed and another has not; every overlap of two Saves with each other and with the cleanup |
| `Access`: `MaxHitches`, clients, keys | 2, 2, 2 | a half-stored request and a change of key, or a revocation and a new key, before it is sent again; the other user's request at any point of that |
| `Dashboard`: `MaxLoads`, `MaxClicks`, `MaxMisses` | 2, 2, 1 | an answer to the first selection after each answer to the second or third; a user without rows in one of two ranges |
| `MCServer`: "overlap" | on the second day, without faults | the today loop then has one of the two rows and the deep loop both; the faults have a scenario of their own from the first day on |

The proofs need none of these values: what is proved holds for all of them. In `MCServer`,
`MCDeliveryLive` and `MCAccounting` the scenarios never mix: while one goes on, the other
components rest in their initial states, where what is asked of them holds. `accounting`
and `script_outcome` take the two calls as symmetric: no definition tells one from the
other, and neither run asks for liveness.

### Fairness

`Delivery`: the process takes its steps (`Pass`, `Tick`) unless it is killed, which
faults bound; the service manager or cron starts it again (`Start`); handlers end
(they are bounded by the server's timeouts); whatever broke is repaired. `Exit` is
strongly fair: a select with both cases ready picks at random, so a cancelled context
may lose to the ticker, but not for ever. `Rollup`: statements run and PostgreSQL
breaks deadlocks; the loop comes round. Ingests are not fair and need not be. With
*both* loops on, the deep rebuild can lose to the today rebuild each time they meet,
and only their timers (minutes against a day) keep that from going on: `Corrected` is
therefore checked with the deep loop alone. `Tail`, `OpencodeCursor`: passes go on
(`WF(Step)`), by the ticker of `DoRun`; the tools that write owe nothing.

`StateDir`: passes of any process go on, a service that is wanted is started
(`Restart=on-failure`, `autorestart=true`) and ticks, a cancelled loop ends, commands
end. Nothing makes anybody start a watcher by hand, run `cleanup`, or start a service
that was stopped. `Access`: handlers end and watchers send again. `Dashboard`: a request
is answered or fails, and `setInterval` goes on; no answer is owed any order. In `MCServer` and
`MCDeliveryLive` each fairness condition holds in its own scenario only.

The runs keep the deadlock check on where the system does not stop. It does in
`accounting`, where the clock of the prices stops at its bound and no sync begins until it
has moved, and a session ends when its turns and calls do; so in the two violations about
these. It does in `state_dir`, where a checkpoint that cannot be loaded stops every
watcher.

## 4. What is proved

`DeliveryProofs`, for every number of transcripts, lines, exchanges and faults, every
batch size, with and without `--once` and a spool directory, and any assignment of
records to lines:

| theorem | states |
|---|---|
| `TypeCorrect` | `Spec => []TypeOK` |
| `NothingLost` | `Spec => []CheckpointCovered` |
| `NothingCountedTwice` | `Spec => []CountedOnce` |
| `PipelineImplementsLedger` | `Spec => LedgerHolds` |

Assumptions: those on the constants in `Transcripts`, `Ingest` and `Watcher`
(`SizesAssumption` and the others).

The argument. `CheckpointCovered` is not inductive: `Checkpoint` writes `pending`, and
that this is safe depends on every answer of the pass. `IndInv` says what is known at
each point:

* `ScanCovered`: up to `pending`, a record not accounted for is one the pass has still
  to send (`Remaining`);
* `AwaitedIsMine`, `AnswersTrue`: the one exchange the watcher waits for carries the
  current batch (or the spooled entry at `fpos`), and a 2xx is only on its way for
  what is stored;
* `MemCovered`, `AtRest`, `ScanTyped`: the checkpoint in memory is covered too, and a
  pass begins with its variables at rest;
* `Trails`: `disk <= mem <= pending <= size`, which makes releases monotonic.

`CustodyGrows` is the lemma most steps rest on: whatever happens, a key in the detail
tables, the spool or `refused` stays in one of them. The refinement then maps a
committed ingest to `Deliver`, the saving of a checkpoint to `Release`, and everything
else to `Hold` or a stutter.

`ServerProofs`, for `Rollup` with every number of records, daily rows, days, handlers and
faults, any `DeepDays` and any of the loops, and for `Dashboard` with any users, ranges
and cards and any number of loads at once:

| theorem | states |
|---|---|
| `RollupTypeCorrect` | `Spec => []TypeOK` |
| `DailyIsAlwaysDetail` | `Spec => []DailyIsDetail` |
| `RollupImplementsTotals` | `Spec => TotalsHold` |
| `PageTypeCorrect` | `PageSpec => []PageTypeOK` |
| `BoxKeepsNamingFilter` | `PageSpec => BoxIsFilter` |

Assumptions: `DayAssumption`, `RollupBounds`, `IngesterAssumption`, `LoopsAssumption`,
`CodexAssumption` of `Rollup`, `BucketAssumption`, `AbsentAssumption` of `Totals`,
`DashboardAssumption` and `DashboardBounds`.

The argument. What a commit adds or replaces was decided by earlier statements, so
`DailyIsDetail` is not inductive. `IInv` says what the locks keep true until then:

* `Exclusive`: a daily row and a key of the detail table have one writer at a time;
* `Uncommitted`: what an ingest has inserted is not in the table yet, so that its upsert
  counts it for the first time;
* `Phase`: what a transaction holds and what it has still to touch are together the rows
  it is about;
* `Snapshot`: of a daily row it holds, a rebuild has read what is still there. Of a row
  it has still to write, either the same is true or somebody has put a row in its way,
  on which its INSERT fails.

The last one is why two rebuilds, or a rebuild and an ingest, cannot overwrite each
other. The refinement then maps each commit to one step of `Totals`, and every other
statement, wait, rollback and deadlock to a stutter. `BoxIsFilter` follows from what
`renderUserOptions` keeps (`BoxStays`), since the users it offers include the known ones.

`TailProofs`, for transcripts of any length, any number of replacements, truncations and
faults, and both kinds of parser:

| theorem | states |
|---|---|
| `TailTypeCorrect` | `Spec => []TypeOK` |
| `TailSkipsNothing` | `Spec => []NothingSkipped`, if `HasInodes \/ MaxReplacements = 0` |
| `TailReadsOnce` | `Spec => []OnlyNewTail` |

Assumptions: `InodeAssumption`, `TailBounds`. The hypothesis of `TailSkipsNothing` is the
code's own: a build without inodes (`inode_other.go`) takes a longer replacement for the
old file that has grown. With it the theorem says of such a build that it is safe as
long as nothing replaces a transcript.

The argument. The checkpoint of a scan is put together from the stat, the open and the
reads, between which the file may change. `ScanSound` says what each of them means for
the transcript as it is *now*, provided that the inode of the stat is still that of the
path: then the descriptor is of that file too, and every line before `cur` has been
read or was durable. `StateSound` says the same of the checkpoint, and `OnlyAhead` that
until something fails or is replaced, a tailing parser never looks back.

`OpencodeCursorProofs`, for any messages and parts, with and without ties of the clock,
and any number of milliseconds, new databases and faults:

| theorem | states |
|---|---|
| `CursorTypeCorrect` | `Spec => []TypeOK` |
| `OnlyLateRowsAreLost` | `Spec => []OnlyLateRows` |

Assumptions: `RowAssumption`, `TiesAssumption`, `CursorBounds`.

The argument. One watermark stands for two queries, so the invariant is carried through
both (`ScanSound`): after the first query it speaks of *all* finished messages, also of
those beyond what has been read so far, since the second query may move the watermark
past them; after the second one, of all rows up to the new watermark. `Inodes` orders
the database of the checkpoint, of the stat and of the queries: one that is created anew
in between has a higher inode, and nothing is claimed of it.

`CodexProofs`, for `CodexTokens` with turns of any size and any number of turns and
restarts, and for `CodexPatches` with any number of calls and any set of patches, however
many sections they have and however long these are:

| theorem | states |
|---|---|
| `CodexTypeCorrect` | `TokenSpec => []TokenTypeOK`: no count is ever negative |
| `RecordsAddUp` | `TokenSpec => []AddsUp` |
| `NothingOvercounted` | `TokenSpec => []NeverTooMuch` |
| `PatchTypeCorrect` | `PatchSpec => []PatchTypeOK` |
| `EventsAreStable` | `PatchSpec => []EventsStable` |
| `EditsAreAlwaysChanges` | `PatchSpec => []EditsAreChanges` |
| `NoEditMissing` | `PatchSpec => []NothingMissing` |

Assumptions: `TokenBounds`, `CodesAssumption`, `PatchesAssumption` (the sections of a patch
are of different files, only a moved file has a second path, a deletion has no lines and
an added file only added ones; any section may be empty).

The argument for the tokens. `NeverTooMuch` is not inductive for uncached input, the
difference of two clamped differences: after a restart `prev` may be far ahead of the
totals in one component and not in the other, and how much the next record claims
depends on both. `IInv` adds `Ahead` (no total of the last record is below the present
one) and `UnclaimedEnough`: what the records have left unclaimed is at least what the
present totals have of uncached input beyond `prev`.

The argument for the edits has two halves. The first is about data: `CallFiles` says that
a patch, in whichever of the ways the tool hands it over, is parsed into one file per
section, in order, with the section's lines; `EndMatches` says the same of a
`patch_apply_end`, up to the order of its files and to what `LosesLines` names. Both go
through `ParseApplyPatch` by an induction over the sections. It cannot use the
library's induction theorem, which takes an operator; `Induction` therefore has a *set*
in its place, and follows from the well-foundedness of the subsets of a finite set. The
second half is the invariant `PatchInv`:

* `Told`: each line of the rollout says of its call what is still so, and of an output
  that it is one of those the call can print;
* `InOrder`: there is one line of a kind for a call, and the call's own comes first;
* `Written`: a call that has started or is over has left the line that says so;
* `Sourced`: each edit record is one of the files of a line that `Recorded` picks, and
  its call is `Confirmed`: applied as a whole, or the final verdict of its output was a
  success.

`OutputSucceeded` is that final verdict for every output that `Outputs` allows, with any
number of codes. If it is about a section, it says of the part with this section whether
it was applied (`PartsApplied`: a part is applied whole or not at all), which gives both
theorems; if not, the section is misjudged.

Since lines are only appended and at most one line of a call is ever picked
(`RecordedOnce`), a record never changes its source, which is `EventsStable`.

`PricesProofs`, for families and lists of any size, days of any length and any number of
changes, restarts and faults:

| theorem | states |
|---|---|
| `PricesTypeCorrect` | `Spec => []TypeOK` |
| `EveryDayIsPriced` | `Spec => []EveryDayPriced` |
| `HistoryIsAlwaysChange` | `Spec => []HistoryIsChange` |
| `PricesOfPastDaysStay` | `Spec => PastDaysKeepTheirPrice` |

Assumptions: `FamilyAssumption`, `PriceBounds`.

The argument. `Sound` says of the rows of a prefix that no two begin at once, one is
active, and together they leave no gap; `Fresh`, that all of them began before the sync
under way, so that the row it inserts is the last one. For the number of rows,
`Counted` ties what is written down to the number of changes of the list, and `Pending`
says the same of what a sync has chosen and not yet written down; with `FirstExists`,
the choice among the names of a list is the same whatever the order of a map.

`StateDirProofs`, for any number of services, of watchers run by hand, of cleanups and of
faults, and transcripts of any length:

| theorem | states |
|---|---|
| `StateDirTypeCorrect` | `Spec => []TypeOK` |
| `CheckpointIsCovered` | `Spec => []Covered` |
| `SaveAloneIsAtomic` | `Spec => []SaveIsAtomic` |

Assumptions: `ProcAssumption`, `ContentAssumption`, `StateDirBounds`.

The argument. `Covered` is about the file a watcher can load, and holds because it holds
at every place on the way there (`AllDurable`): in the memory of each watcher, in what
its scan is about to set, and under the temporary name while somebody is in `Save`. What
a dead process left under that name need not be covered, and is truncated before it can
be renamed. `Undisturbed` says that until two processes have saved at once, the one that
does has the temporary file to itself, and it has in it what it has in memory.

`AccessProofs`, for every number of users, keys, watchers and records, any batches, and
every number of failures, revocations and changes of key:

| theorem | states |
|---|---|
| `AccessTypeCorrect` | `AccessSpec => []AccessTypeOK` |
| `CountedOnceForOwner` | `AccessSpec => []CountedForOwner` |
| `AnswersAreTrue` | `AccessSpec => []AnswersTrue` |

Assumption: `AccessAssumption` on the constants of `Access`.

The argument. A 2xx says what two statements did at different times, and a key was
looked at before both. `Sound` says what the handler knows of its request at each place:
between authentication and the second statement it works for a user and not for a key
that was revoked when the request was made; after the first statement the usage half is
stored, after the second all of it is. Rows are never taken away, so this survives
whatever other requests commit (`StaysSound`). That the user is one is also what
`CountedForOwner` lacks to be inductive: `CommitCounts` adds to the daily rows of that
user exactly where the statement set the owner.

What proving has changed in the models. The CASE in the rename of `StateDir` had two arms
that could both hold, where TLC takes the first and the logic none in particular; its
alternatives are disjoint now (`Moved`). `Prices` needs an instant after the epoch
(`MaxTime > 0` in `PriceBounds`), since its clock begins there. Two parenthesised
expressions (`Watcher`, `StateDir`) and the places where TLC's own operators for sorting
stood are written so that they can be reasoned about; the runs find the same states.

Only model-checked:

* everything about liveness, since fairness and ENABLED are out of the prover's reach:
  `Delivered`, `SpoolDrains`, `RotationLosesNothing`, `Corrected`, `PageSettles`,
  `EverythingRead` (of `Tail` and of `OpencodeCursor`), `ShrunkIsRead`, `Recovered`;
* the five violations, which are facts about one instance.

`--once` and a watcher without a spool directory have theorems and no run. The
composition of components that `MCServer` and `MCDeliveryLive` check by scenarios is
nowhere proved as one system.

## 5. What is not modelled

* The read endpoints and their aggregates: queries without effect. Amounts of money
  and the built-in rates that stand in for a missing row.
* Rendering, styles, logging, flags, packaging.
* File formats: a parser is what it yields per line, except for Codex.
* Builds without inodes (`inode_other.go`): `HasInodes` is there, the run sets it.
* In `CodexPatches`: a `patch_apply_end` before the line of its call; two sections of a
  patch for the same file; an output of several codes when two calls are under way at
  once (model-checked with one call, proved for any number).
* Two token counts of a Codex session with the same timestamp, and so the same
  message id.
* A name collision in the spool; a payload the database rejects for ever (see the
  hazards).
* `--batch` below 1.
* Of the service commands: unit files, `uninstall`, `status`, `logs`, and an `install`
  that fails halfway. Of the server process: start-up and shutdown around the modelled
  parts.
* The price table of the dashboard, which is loaded once and kept as long as the page.

## 6. Plan

1. `Transcripts`, `Ingest`, `Watcher`, `Delivery`, `Ledger` and their proofs — done.
2. `Totals`, `Rollup` and their proofs — done.
3. `Tail` and its proofs — done.
4. `OpencodeCursor` and its proofs — done.
5. `CodexTokens`, `CodexPatches` and their proofs — done.
6. `Prices` and its proofs — done.
7. `Access`, `StateDir`, `Dashboard` and their proofs — done.
8. `Tail` under `Watcher`: `Unread` refined by what a scan of a changing file reads, and
   the proof that a pass over such a file is a pass of `Watcher`.
