# Indexa: TLA+ models, checks and proofs

Indexa (`harf-promo/indexa`) is a local context engine: it walks directories,
records what it finds in one SQLite database, cuts files into embedded chunks,
and lets a local model write a summary of every file and, from the bottom up, of
every directory. This directory models the parts of it where several actors
share that database, model-checks them with TLC and proves the main results with
TLAPS.

All modules are read from the code; a comment at each property names the code
whose behaviour it states, and `PROJECT.json` gives the source lines of every
definition.

## 1. Inventory

| Component | Where | State it keeps | Operations | Hard behaviour | What makes it correct |
|---|---|---|---|---|---|
| Summary queue | `core/src/store/queue.rs`, `web/src/handlers/queue.rs` | table `summary_queue`: state, attempts, kind, depth | enqueue, claim, defer, mark, delete, startup sweep, mark_for_resummary, retry | writers of several loops and processes; crash with rows in flight; attempts touched by claim, defer, sweep, re-queue | one item, one pair of hands; nothing stranded; the crash budget counts crashes only |
| Drain loops | `query/src/worker.rs`, `query/src/summarize.rs`, `web/src/jobs_exec/mod.rs`, `indexa worker` and `indexa summarize` | the item in hand, a count of defers per directory | claim, two gates, defer or force, run, terminalize | read, then act on what was read; store errors half-way; cancel | every item settles; a directory never waits for ever |
| Summaries | `query/src/summarize.rs`, `core/src/store/summaries.rs` | table `summaries`: text, source hash, updated_at | hash gate, sample, describe, upsert; stale and new queries; Regenerate | four separate reads of a file that may be edited between any two; chunks older than the bytes hashed; whole-second stamps | the gate never hides a stale summary; a refresh converges, roll-ups included |
| Watch mode | `core/src/watcher.rs`, `commands/watch.rs` | events not yet handled | upsert, remove, re-queue of the file and its ancestors | what was read is stored much later | nothing of a removed file stays |
| Scan | `commands/scan.rs`, `jobs_exec/scan.rs`, `core/src/store/entries.rs`, `core/src/walker.rs` | `entries.scan_generation`, the lease file | lease, allocate, walk, stamp, root guard, reconcile, prune orphans | overlapping roots, kills, unmounts, the watcher writing meanwhile | deletes what is gone, nothing that stayed |
| Deep indexing | `commands/deep.rs`, `jobs_exec/deep.rs`, `store/chunks.rs`, `crates/embed/src/batcher.rs` | table `chunks` with `indexed_at`; in memory the files whose vectors are not all there | skip rule, parse, reuse of vectors by hash, batches across files, entry and chunk writes, cancel | a file's chunks spread over batches; edit between parse and insert; two passes at once; kill or error between two writes | rows are one whole version, vectors belong to their text, what a finished pass calls current is |
| Web jobs and event stream | `web/src/jobs.rs`, `web/src/handlers/jobs.rs`, `web/assets/ui/js/04-jobs-views.js` | registry, per job a status, a history, a latest progress and a broadcast channel; per tab a stream | register, push, end, cancel, clean up; subscribe, snapshot, replay, deliver, lag, reconnect | events between subscribe and snapshot; slow clients; the end of the job in the middle of all that | the end reaches every client; nothing is missed unannounced; four slots |
| Decision ledger | `core/src/store/decisions.rs`, `core/src/decisions/` | table `decisions`: status, answer, parent and superseding row, receipt; table `classifications` | ask, answer, project, stamp, dismiss, revert, expire, collect, backfill, repair | three surfaces on one table; kill between answer and projection | answers stand, chains stay whole, no nagging, the standing answer is what the index uses |
| Resource watchdog | `core/src/resource.rs`, `jobs_exec/watchdog.rs` | pressure level, pause | assess, pause | lasting pressure | pauses end |
| Git-poll refresh | `commands/worker.rs` | baseline commit per root | poll, refresh, advance | refresh takes longer than the poll; failure half-way | the baseline never passes what was indexed |
| Self update | `crates/update`, `web/src/update_control.rs` | offered version, choice | ask, choose, install | a choice nobody waits for | one question, one answer |
| ANN cache | `store/ann.rs`, `web/src/handlers/ask.rs` | in-memory index, its watermark, build lock | read watermark, compare, lock, build, store, search | every read is a statement of its own, with writers between any two; a build outlives the question it is for | never another file's content, nothing lost to the cache |
| Search, QA, rerank, export, eval; adapters; parsers; graph analytics; memories, packs, sessions | `core/src/store/*`, `crates/query`, `crates/llm`, `crates/embed`, `crates/parsers` | single-writer tables, or none | reads, pure functions, network calls | numeric, I/O | outside what TLC can usefully say |
| CLI, MCP server, web UI, desktop | `crates/cli`, `crates/mcp`, `crates/web`, `apps/*` | none of their own | dispatch to the above | | |

**How they interact.** Everything meets in the database. A scan writes and
deletes `entries`; deletion of an entry deletes its chunks, summary and queue row
in the same transaction. `deep` and the watcher write entries and chunks.
`enqueue_subtree` (a refresh) reads entries, summaries and the queue to decide
what to queue. Drain loops, in any number of processes, take rows off the queue
and write summaries. The server's questions read chunks through a cached index. The ledger's surfaces
answer questions and project the answers on `classifications`. Scans, `deep` and drains started from
the browser are jobs of the registry, which streams their events. SQLite serialises writers, so each SQL statement or
transaction is an atomic step, and everything between two of them can be
interleaved with anybody else's.

## 2. Modules

| Module | What it is |
|---|---|
| `SummaryQueue` | the queue table and the drain loops, for any number of processes |
| `LeasedTasks` | the abstract specification of the queue: a lease manager |
| `SummaryPipeline` | extends `SummaryQueue` with what flows through it: file contents, mtimes, chunks, summaries, watcher, refresh, Regenerate |
| `ScanGenerations` | scans with lease and generations, against a changing file system and the watcher |
| `DeepIndex` | deep passes, from the terminal and as web jobs, over files that are edited and a database that two of them may share |
| `JobLog` | the job registry, the tasks, their event logs, and browser tabs that follow them |
| `DecisionLedger` | questions about a folder's category, their answers and projection, by several surfaces |
| `AnnCache` | the server's cached nearest-neighbour index beside writers |
| `SummaryQueue_proofs`, `SummaryQueue_refines`, `SummaryPipeline_proofs`, `ScanGenerations_proofs`, `JobLog_proofs`, `DeepIndex_proofs`, `AnnCache_proofs`, `DecisionLedger_proofs` | the theorems |
| `MC...` | an instance of each for TLC |

Definitions marked *Slip* are what a definition would be after a plausible mistake; each breaks the
property it is paired with in `PROJECT.json`, and none is part of a specification.

### SummaryQueue

A loop is at one of `off, idle, claimed, orphaned, admitted, deferring, running`,
which are the points of `run_worker` and `process_queue_item_with_passes` between
two store calls. `Claim` is `next_queue_item` (select the deepest pending row and
take it, in one statement). `CheckAllowed` reads whether the path may be
summarized, `CheckSubtree` whether something below is unfinished: each acts later
on what it read then. `Defer` undoes the attempt and counts locally; at
`MaxDirDefers` the roll-up is forced. `Finish` terminalizes the row, whatever its
state is by then. `StoreErrorMarked` and `StoreErrorUnmarked` are the error path
of the loop, whose own write may fail as well. `Boot` is process start with or
without the sweep (`requeue_stale_in_flight`), `Crash` a kill, `StartJob`/`EndJob`
the loops of a web job or of `indexa summarize`, which end. `Enqueue`,
`MarkForResummary`, `Retry`, `UpsertEntries`, `DeleteEntries` and `PruneOrphans`
are what the rest of the program does to the tables. `lostRuns` is a history
variable.

Three kinds of process are told apart: a `Daemon` (`indexa worker`: loops never
end), a `Sweeper` (a daemon, or `indexa serve`: sweeps at startup) and any other
(a command). `serve` is a sweeper that is no daemon.

### SummaryPipeline

Each action conjoins an action of `SummaryQueue` with the data it moves, so every
behaviour is one of the queue (theorem `PipelineImplementsQueue`). A content is a
number and its hash is that number (SHA-256 is taken to be injective). A run of a
file stamps the time, hashes, looks its row up (`BeginFile`), samples (`Sample`:
stored chunks when there are any, else the file), describes, and writes
(`Write`). A run of a directory composes the summaries of its children
(`BeginDir`), gated by a Merkle hash that is blank when a child's is. `Disk` and
`Tick` change files and the clock at any moment. `EnqueueSubtree` queues what has
no row, what is stale by mtime (`>=`, whole seconds) and everything above;
`Regenerate` blanks hashes and marks everything. The watcher reads (`WatchRead`)
and stores (`WatchStore`) in separate steps and marks one row at a time.

`summary` is the table `summaries`, a partial function that gets a row with the first
`Upsert`. `lapsed` is a history variable: the paths a drain was through with, or a
request passed over, without a summary of what is there now: an empty sample or answer,
a directory that had nothing to compose or was composed before a child had settled, and a
directory in flight that a refresh would have marked (`Ignored`; the row keeps its state,
`queue.rs:199`).

Other history variables: `asked`, the paths Regenerate was asked for and whose new text
is not in; `refreshed`, a refresh was queued over an up-to-date index and nothing has
changed since; `restored`, the files that were given an earlier content back. Three
fields of a run or a summary are history as well: `old` (the chunks that were described
were of other bytes than those hashed), `known` (the path had an entry when the run
began) and `orphaned` (that entry was gone when the summary was stored). No guard reads
any of these.

`KeepsChunks` is the summary mode: TRUE is Augment, the default, FALSE SummariesOnly.
`Meanwhile` says which requests may come while a run is in hand, so that a run of
TLC can ask what holds with and without that overlap.

### ScanGenerations

A scanner goes `off`, `leased`, `root`, `walking`, `checked`: before, lease held,
generation allocated, walk under way, root guard passed. `Lease` is the
exclusive transaction on the side-car file, held until the last root is
reconciled. `Allocate` takes one past the newest generation, once for all roots.
The walk visits one file at a time (`Visit`), in any order, while `Files` changes
the disk; `indexa scan` stamps batches as they come, a web scan all at the end
(`StampBatch`; `Streaming` tells which). `Unmount` takes a root out of reach,
files of nested roots included; the walk then skips what it cannot read, and ends
at once when that is its own root. `CheckRoot`/`SkipRoot` are
`ensure_walked_root_present`. `Reconcile` deletes what is under the root with an
older generation, or none. The watcher's upsert carries no generation and keeps
the one a row has. A generation of 0 stands for NULL. `Abort` is a kill or an
error in any step; a web scan that meets an error only in the last one carries
on with a warning, which leaves the tables the same way.

`unsure` is a history variable: the files that came, went, were out of reach or
lost their entry since the walk of the current root began. For those a scan
cannot know better; for all others the properties say what it must do.

### DeepIndex

One worker is one pass after another. `Start` walks (modification times are read
then), `Take` skips a file whose rows are no older than that and all have vectors
(`Current`, the SQL of `chunks_current_for_mtime`), or parses what is on disk at
that moment. `Partition` gives each chunk the vector stored beside the same text
of that file (`Cached`) and hands the rest to the batcher (`Registered`): the texts of all
its files stand in one flat queue, each with a tag that names a file and a slot of it
(`Tags`). A batch is embedded when full and at the end of the walk (`Embed`); the results
come in the order of the queue, without those whose call failed (`EmbedAll`), and
`Scatter` goes through results and queue in step and puts each vector where the tag says.
Files then leave one by one:
`WriteEntry`, `WriteChunks` (`Replaced`, one transaction), `Through`. A command stops at
its first store error, a web job warns and goes on. `Cancel` lets the batcher
drain first. `Crash` leaves the database only.

A chunk is its text, a vector remembers what text and model it was made of, so that
`VectorOfItsText` can be stated. History variables: `slipped` are the files with an
edit no later pass can see by time, `warned` those whose entry could not be written.

### JobLog

A job's events are numbered in the order its task pushes them. `Record` stores an
event in the history under its lock, `Send` puts it on the channel, `SetStatus`
comes after both: three steps, between which a stream may be opened. `Subscribe`,
`CopyHistory`, `AskStatus`, `ReadProgress`, `Replay` are the handler and
`history_snapshot`; `Deliver` suppresses what repeats the replay's tail, `Lag` is a
receiver that fell behind a full channel. `Drop` is a lost connection and `OnError` what the
page does then: it asks for the job once and connects again or, when the job is over, shows
its end; if that request fails, nothing asks again and the page is `stranded`
(`04-jobs-views.js:156`), until somebody reloads it (`Reload`). `TakeItem`, `Report`, `ItemDone`, `Finish` stand for the loop of any
phase, which looks at the flag of `Cancel` between items; `Panic` ends it
without a word.

### DecisionLedger

An action is one transaction or statement of a surface. An answer is looked at
(`BeginAnswer`), committed (`Commit`), projected (`Project`) and stamped
(`Stamp`). A question comes from `indexa classify` (`BeginClassify` with the one-time
`Backfill`, `ReadHead`, `Restore`, `Append`) or a revert (`BeginRevert`, then
`Append` and its own answer). `Dismiss`, `BeginExpire`/`Expire`, `CollectGarbage`,
`Repair` and notes (`Annotate`) are the rest. `SetByHand` is a category confirmed past the
ledger. Evidence is what the first tier suggests (`hint`), and changes at any time.
`overlapped` is a history variable: whether a surface has moved while another was
between two of its steps.

### AnnCache

`ReadCount`, `ReadTop`, `FastPath`, `LockBuild`, `ReadDim`, `ReadRows`, `Store`,
`Search` are `ensure_ann` and the search, statement by statement, for any number of
questions at once; `ReplaceChunks` and `DeleteChunks` are all that happens to the
table. `GiveUp` is a failed read: the question is answered without an index. `Leave` is a
client that goes away while its index is built: the handler is dropped and the lock with
it, but the build, a task of its own, goes on (`loose`) until `LooseBuildEnds`. An index
is the set of rows it was built from. The search is taken as exhaustive: the limit of an answer and the
approximation of the graph are left out.

## 3. Runs

Each asks a question of its own.

| Run | Instance | Question | Distinct states |
|---|---|---|---|
| `solo` | `indexa serve` with two summarize jobs over a directory and a file that comes and goes and may be retried; 2 faults, 6 events | exclusive claims, no stranded rows, honest attempts, fair sweep | 205 605 |
| `leases` | a worker process with two loops over root, directory, file; killed and restarted; fairness | refinement of `LeasedTasks`; every item settles | 249 050 |
| `edits` | one loop in mode Augment, the default, a directory and a file; edits, `deep` and refreshes at any time, other requests when no run is in hand; 1 fault | after a refresh has drained, summaries and roll-ups are current; both gates are sound; every stale summary shows in the mtimes; all but for summaries of chunks older than the bytes hashed | 1 078 157 |
| `watched` | mode Augment, a drain job of `indexa serve` with the watcher on, two files, one comes and goes; removals, refreshes and Regenerate at any time, a run in hand or not | only a run in hand leaves a ghost or escapes Regenerate; no mention of what is deleted in a roll-up | 2 588 419 |
| `scans` | `indexa scan sub top` beside a web scan of `top` (which contains `sub`), watcher; 3 runs, 2 file events, 1 fault | one run per generation; steady files spared; ghosts dropped | 300 078 |
| `deep` | a terminal pass beside a web job, two files that share a text, of one, two or no chunks; batches of two; one edit or model switch, one fault | files whole, vectors with their text, orphans announced, progress kept, a finished pass current | 3 040 848 |
| `jobs` | two jobs, one slot, one tab; channel of one, history of one warning; one lost connection, a status request that may fail, a panic, a cancel; fairness | the cap; what a stream shows and announces; the end is seen, unless that request fails; cancelled jobs end | 457 007 |
| `ledger` | a command and a server, one folder, one topic, two categories, three rows | no nagging, whole chains, answers stand, the standing answer rules | 1 435 818 |
| `ann` | two questions at a time, whose clients may leave; two files, two models of different dimension, three ids; one build without an owner | no misattribution, nothing lost to the cache, exact hits | 2 730 001 |
| `menus` | as `ledger` | *violated*: `EveryQuestionHasMenu` | |
| `models` | one pass after another, model switched between | *violated*: `OneModelAfterDeep` | |
| `augment` | one drain job in mode Augment; `deep`, then an edit, then the summary | *violated*: `SkippedIsTrue` | |

**Bounds and why they are enough.** Two loops are the fewest that can collide, and
every rule of the queue is about one row and at most two loops; a chain of two
directories and a file has a directory that waits for a directory.
`MaxAttempts = 2` and `MaxDirDefers = 1` (3 and 1200 in the code) let the cap be
reached with the two faults of a run and exceeded if the comparison were wrong.
`MaxEvents` is spent on requests: a file queued, deleted, created again and queued
once more, with the jobs that work on it. `MaxTime` lets stamp and edit fall into one second and into
different ones. In `scans` three runs are one that is killed, one after it and one beside
it; two files make a nested root differ from the one it is nested in.
In `deep` two files of at most two chunks and a batch of two make a batch of two files and
a file of two batches; one second tells an edit before a stamp from one in its second. In
`jobs` a channel that holds one event overflows with the second, a history that holds
one warning evicts with the second, and four events put a warning, a progress and an end
after the start. In `ledger` three rows are an answer, its revision and the
next question; rows two surfaces race for are bounded by two (`MaxRaced`), since
racing for the third repeats racing for the second. In `ann` three ids are a table that
shrinks and grows back to its old count, and one build without an owner (`MaxLoose`) is enough
for two at once. The
theorems of section 5 are free of all of these bounds.
`CHECK_DEADLOCK FALSE` is in every configuration but `ann`'s, where a question can always be
asked: an index, a ledger or a server nobody touches any more is a proper end.

**Fairness** is assumed in two runs. In `leases` weak fairness of each loop's `Step`, because a loop
has no way to wait for ever (every back-off sleep is bounded, and
`run_watchdog` bounds its pause by `MAX_PAUSE_SECS`), and weak fairness of `Boot` for
daemons: `indexa worker` is a service that is started again. No fairness of
faults, requests, or commands is assumed.
In `jobs`: weak fairness of a task's next step (the runtime schedules spawned tasks; every
item ends, as the calls in it have time-outs) and of each tab's stream. Nothing says that
a job ever runs out of items, so that an uncancelled job ends is not claimed.

**Abstract specification.** `LeasedTasks` knows only what waits, who has it, and which
leases were lost. `SummaryQueue` implements it (property `ImplementsLeases`)
under the mapping: waiting = pending rows; holder = the loop that has the item
in hand; lost = rows in flight in nobody's hands. The result is for entries that
stay and one sweeping process; section 4 says what happens otherwise. The run checks it, section 5 proves it.

## 4. Known boundaries

What the code promises in words and does not keep in every interleaving. Three are runs and
findings; the others are reproduced by changing constants of a configuration, or are what
a property names as its exception.

| Boundary | How to see it |
|---|---|
| Reverting an answer that was backfilled from before the ledger opens a question without a menu, for which no choice is accepted (`decisions/mod.rs:415`, `store/decisions.rs:625`). It can be dismissed, and `answer_decisions_under` (`review answer --under`, the batch endpoint; `CommitBatch` in the model), which does not look at options, still answers it | run `menus` |
| After a switch of the embedding model, `deep` keeps the old model's vectors of every file it finds current and of every text it finds again; a vector found again is stored under the new model's name (`chunks.rs:43`, `chunks.rs:169`; `docs/TROUBLESHOOTING.md:57` advises a plain re-run) | run `models` |
| A starting worker sweeps rows another live process is working on (`queue.rs:140`, `web/src/lib.rs:229`) | `solo` with `Proc = {pa, pb}`, `ProcOf <- TwoProcesses`, `Daemon = {pa}`, `Sweeper = {pa}`, `Crashable`, `Volatile`, `Retryable` empty, `MaxFaults = 0`, `MaxEvents = 3`: `SweepSparesHeldRows` |
| In the default mode a file edited after `deep` stored its chunks is described from the old text under the new hash, and is then skipped (`summarize.rs:254`), although `summarize.rs:220-222` takes an equal hash to mean a true summary | run `augment`; why `GateSound`, `StaleIsSeen` and `FilesConverge` except summaries that are `old` |
| A client that leaves while its question builds the index releases the lock and not the build, so the next question builds beside it (`handlers/ask.rs:104`; `mcp/src/lib.rs:285` guards its build the same way), although `ask.rs:101-102` says builds are serialized | `ann` with `BuildsAreSerialized` as an invariant |
| A refresh leaves a directory in flight alone, and no later refresh sees its roll-up stale (`queue.rs:199`) | why `Ignored` puts it in `lapsed`, which `RollUpsConverge` and `RollUpsForgetTheDead` except |
| A run outlives its file and marks the row of the next file of that name done, which then has no summary and is not queued | `augment` with `KeepsChunks = FALSE`, `Meanwhile = {"enqueue", "remove"}`, `MaxEvents = 6`: `FilesConverge` |
| A path whose first run failed is missed by both queries of a refresh (`summaries.rs:311`) | `edits` with `MaxFaults = 0`: `EnqueueMissesNothing` |
| A running scan deletes the entry of a file the watcher has just indexed (`entries.rs:313`) | `scans` with `MaxRuns = 1`, `MaxEvents = 1`, `MaxFaults = 0`: `ReconcileSparesLiveFiles` |
| A file is edited between hash and read, and restored: the gate vouches for the interim text | `augment` with `KeepsChunks = FALSE`, `Reverts = TRUE`: `SkippedIsTrue`; why `GateSound` excepts `restored` files |
| A file deleted before its directory's roll-up and pruned after: the roll-up is stamped later than the mtime that should betray it | `edits` with `Volatile = {alpha}`: `RollUpsConverge` |
| Regenerate while the file is in hand: its row is not marked, and the run writes its hash back (`summaries.rs:378`) | why `asked` leaves out what a run has begun (`Begun`), so that `RegenerateDefeatsGate` speaks of everything else |
| A file's rows are deleted while it is being summarized: the run writes the summary back (`summarize.rs:322`) | why `NoGhostSummary` and `RollUpsForgetTheDead` except summaries that are `orphaned` |
| Deleting or retrying (`handlers/queue.rs:53`) a row in flight lets a second loop claim its path | why `ClaimExclusive` speaks of `Steady` paths: with `Steady == Path` it fails in `solo` |
| A directory that loses its last summarized child keeps its old roll-up (`summarize.rs:389`) | why such a directory is in `lapsed`, which `RollUpsForgetTheDead` excepts |
| `docs/TROUBLESHOOTING.md:115` says failed rows are retried with backoff; no code does | only `MarkForResummary` and `Retry` leave `failed` in `SummaryQueue` |
| An edit between parse and insert, or in the second of the stamp, is never re-embedded: `indexed_at` is the time of the insert (`chunks.rs:31-37` says an edited file is re-embedded) | why `DoneIsCurrent` excuses `slipped` files |
| A pass that has read an old, empty version of a file clears the rows another pass has stored since; the next pass repairs it | why `DoneIsCurrent` excuses files overwritten since its walk |
| A web job stores chunks of a file whose entry it could not write; the next prune deletes them, and the job says done | why `OrphansAreAnnounced` names the warning |
| The watermark is two statements: a cached index may be stored under one no table ever had and later be taken for a table it does not hold; only recall suffers, and the comment at `handlers/ask.rs:73-76` says a stale index is always detected | `ann` with `StaleAlwaysDetected` as an invariant |
| A job that panics keeps its slot until the server restarts (`handlers/jobs.rs:87`) | `Panic` in `JobLog`; why `CapHolds` counts tasks that are dead |
| A warning that reads like one of the replayed tail is suppressed although it is another one (`handlers/jobs.rs:228-232` says no event is lost) | `jobs` with `NoEventLost` as an invariant |
| The page asks after a lost connection once; if that request fails, nobody asks again, and the job looks as if it were running until the page is reloaded (`04-jobs-views.js:156`) | why `EndIsSeen` allows `stranded` |
| Two surfaces that overlap may project the older of two answers last, and leave two answers of which neither is superseded (`decisions/effects.rs:4`) | why `StandingAnswerRules` speaks of surfaces that do not overlap |
| Two notes on one topic stand beside each other, although `decisions.rs:235-236` takes more than one to be impossible | `Annotate` names no parent; the property speaks of folders |
| A sub-directory unreadable for a moment during a walk loses its entries (`walker.rs:434`): the guard looks at the root only | why files out of reach are `unsure` in `ScanGenerations` |

## 5. Proofs

Checked by TLAPS, for all values of the constants.

*Queue* (`SummaryQueue_proofs`, `SummaryQueue_refines`).
- `TypeCorrect`: `Spec => []TypeOK`. Not inductive alone: that defers never pass
  the cap needs that a loop at `deferring` holds a directory that is not forced, which
  is one of the named parts of `TypeInv`.
- `Accounted`: `InFlightAccounted`, whatever processes there are.
- `Exclusive`, `AttemptsCount`, `SweepIsFair`: `ClaimExclusive`,
  `AttemptsCountLostRuns` and `SweepFailsOnlyRepeatOffenders`, under
  `SweeperAlone`: if a process sweeps, it is the only one. Without it the sweep
  breaks the first at once (section 4, `SweepSparesHeldRows`). The invariant behind them: a steady item in
  hand is in flight and its loop is the only holder; a process that is down has
  no loop at work; pending rows have `attempts = lostRuns`.
- `QueueImplementsLeases`: `Spec => ImplementsLeases`, under `SweeperAlone` and
  `AllSteady` (no entry disappears, no retry request comes). The holder of a task is a
  choice among the loops that have it in hand; by `ClaimExclusive` there is one, and
  `View` replaces the choice. Then step by step: a claim takes, a defer gives
  back, an orderly end or a marked error settles, a crash or an unmarked error is a lost
  lease, the sweep recovers (it finds nothing held, since it is alone), an enqueue or
  a re-queue offers, and all reads between show nothing.

*Pipeline* (`SummaryPipeline_proofs`).
- `PipelineImplementsQueue`: `PipelineSpec => Spec`, so the queue's theorems hold of
  the pipeline. Step by step, each action is one of the queue or leaves its
  variables alone.
- `GateIsSound`: `GateSound`, without a hypothesis: in both modes, with the watcher on or
  off, removals at any time. The two ways to fool the gate are exceptions of the property,
  a file or a summary at a time (`restored`, `old`; both occur, section 4). The argument:
  hash and text of any other summary, and of a run in hand, are contents in the order they
  were read; contents of a file that is not `restored` only grow; so if the hash is still
  that of the disk nothing was written in between.
- `PipelineTypes`: `PipelineTypeOK`. A run knows the kind of its path, and a roll-up is
  of children of its directory.
- `StaleSeen`: `StaleIsSeen`, without a hypothesis: a run is stamped before it reads, so
  what it does not see is of no earlier second; summaries that are `old` are excepted.
- `NoGhosts`: `NoGhostSummary`, under `SomethingLasts` (a directory or a file stays indexed:
  over an empty index `summary_path_allowed` lets everything through), with removals at any
  time. A removal takes the summaries with it, so only a run makes a ghost, and a run begins
  on a path that has an entry: what it stores without one is `orphaned`.
- `RefreshConverges`: `FilesConverge`, under `PlainEdits` (no watcher, and no content comes
  back) and `RemovalsWait` (nothing is removed while a run is in hand), in both modes. The
  code does not enforce `RemovalsWait`, and without it the property fails (the run that
  outlives its file, section 4). After a refresh a file is fresh or its summary is `old`, or
  its row is unfinished, or it has lapsed (`FreshOrOwed`); a row
  becomes done only through the loop that has delivered (`Delivered`). It rests on the
  invariants of the gate and of the stamps.
- `RegenerateDelivers`: `RegenerateDefeatsGate`, under `SweeperAlone` only, so for
  Regenerate and removals at any time. What is asked for has a blank hash, or no row, until
  the new text is in (`AskedRows`). A run in hand for something asked for has begun
  after the request, past a gate that was open (`AskedRuns`), and has lapsed if it has nothing
  to store. Two runs of one directory could take that word back from each other, so
  `HandsOn(Dir)` says there are none; two of a file that went and came back do no harm.
- `MerkleGateIsSound`: `MerkleGateSound`, under `EditsOnly` (`PlainEdits`, one
  sweeping process, no path that goes, and Regenerate waits for the runs in hand, since one
  that does not makes two texts of one hash). One state does not tell why equal hashes mean equal texts, since what an
  old roll-up was made of has been overwritten. The invariant says that there is a record `C`
  of what was composed under which hash since the last Regenerate: it is a function of
  path and hash, it holds the parts of whatever it holds, and all hashes that are stored
  or in hand are on it (`Record`). `SameHashSameText` follows by the parts.
- `RollUpsAgree`: `RollUpsConverge`, under `EditsOnly`. A directory with anything
  unfinished below is itself unfinished and not begun (`DirsWait`), so what a run has read
  of the children stays until it is written (`RunsComposed`); a roll-up that is not of its
  children's summaries has an unfinished row (`DirsComposed`). A skip needs `MerkleGateIsSound`.
- `RollUpsForget`: `RollUpsForgetTheDead`, under `WatchedAlone`: a watcher, one sweeping
  process, something that stays indexed; removals, refreshes and Regenerate at any time.
  While the watcher has an event to handle (`WatcherKnows`) or a
  row above it is unfinished, a roll-up may still speak of the dead; a roll-up in hand may
  as well, while the watcher has its directory to mark, and then it has lapsed
  (`RunsAlive`). A hash covers what its text does (`Grounded`), so a directory that has lost a
  child is not skipped. `NoGhosts` tells what may be summarized without an entry.

*Scans* (`ScanGenerations_proofs`), with no assumption but the types of the constants.
- `ScanTypeCorrect`, `GenerationIsOneRun`, `SparesSteadyFiles`, `DropsGhosts`:
  the types and the three properties of the run `scans`. The invariant `IInv`: a scanner that is
  not off has the lease; the running scan's generation is the newest and its
  stamps are its own (`Newest`); what it has stamped was there when walked, or belongs
  to an earlier root (`StampsJustified`); a walk that could read its root has missed
  nothing that stayed (`WalkComplete`). The lemma `ScanStep` uses the lease to
  look at one scanner only, and `Outside` is all a scan may assume of the rest of
  the world.

*Ledger* (`DecisionLedger_proofs`), for any number of surfaces, folders, topics and
rows, overlapping as they like; `LedgerAssumption` says that there are finitely many
folders, which the back-fill counts.
- `LedgerTypes`, `QuietInbox`, `WholeChains`, `StandingAnswers`. The table is looked at apart
  from the surfaces: whatever a surface does to it is one of a few edits, and each edit
  keeps `TableInv` and takes nothing back (`Keeps`). What a surface holds between two
  steps (`OpInv`: the row it is to stamp is decided, the answer it brings is on the menu
  of the row it brings it to, the revision it appends to is an answered row of the same
  question) survives whatever keeps `Keeps`, so the steps of other surfaces need not be
  looked at. `InboxIsQuiet` and `ChainIsWhole` need each other's types only; neither is
  inductive without `RowTypes`: ids above `last` are unused.
- `OneStandingAnswer`: `StandingAnswerRules`. The invariant `RulesInv` speaks of the time
  before surfaces first overlap, when one at most is between two steps
  (`OneAtATime`); it says how what that one has in hand relates to the standing answer
  (`InHand`: it revises no other, and has projected what it is about to stamp), and
  which open questions may be about a folder that has one (`OpenRows`). A back-fill appends
  a row for each folder without one in some order; that the rows are those folders' and no
  other's follows from counting (`Onto`).

*Deep pass* (`DeepIndex_proofs`), for any number of passes over one database, any files,
versions and batch size.
- `DeepTypes`, `WholeFiles`, `VectorsOfTheirTexts`, `OrphansAnnounced`, `ProgressKept`,
  `DoneCurrent`: all six properties of the run `deep`. The invariant `DeepInv` says of one
  pass at a time where its files are (`Shape`: each to do, in one place of memory, or
  through), that its count is of those that are through (`Counted`), that each tag in the batcher's queue
  names a slot of a file in the batcher and stands by that slot's text (`Routed`, on which
  `VectorsOfTheirTexts` rests, whichever results are missing), that an entries row or
  a warning comes before the chunks (`Announced`), and that what it holds or is through
  with is as on disk, but for what it excuses (`Truthful`). `Truthful` alone is not
  inductive: a file is skipped on the word of its stamp, so `Behind` must say that chunks
  which are not of the file on disk are older than it, unless an edit slipped by. A step of
  one pass leaves the others' records alone (`PassStep`), except that storing chunks and
  editing a file are noted in all of them (`AllNote`).

*Jobs* (`JobLog_proofs`), for any jobs, tabs, log and channel sizes.
- `JobTypes`, `Slots`, `NoRestart`, `NoHole`: the four invariants of the run `jobs`.
  `SlotInv`: a task at work has its running row in the registry, which is what a start
  counts. A stream has to know of a log only that it `Grows`, so the tasks are looked at
  without the streams (`LogInv`, `SlotInv`) and a stream alone (`View`). `NothingUnannounced` is not
  inductive: what makes up for the stored events a stream is past is, until the replay, in
  its snapshot, and a lag may skip what is neither there nor shown only if it is announced.

*Cache* (`AnnCache_proofs`).
- `AnnTypes`, `Attribution`, `NothingLost`, `ExactHits`. `AnnTypes` includes that a question
  builds or stores if and only if it holds the lock; of builds whose question is gone it
  says nothing, and that one build at a time is under way is false (section 4). Ids are handed out in order and
  never again, so a chunk id names one row for ever; an index lacks none of the live rows
  up to its watermark (`CompleteInv`); two tables of the same greatest id and the same
  count are then the same table (`SameTable`).

*The hypotheses* of a theorem are no stronger than what its run assumes through its
constants, and several theorems need less than their run gives. A row of section 4 that
names a property and constants is a run in which a hypothesis is given up and the property
fails; one that says why a property excepts something names what happens to the excepted.

*Only model-checked*: liveness (`EveryItemSettles`, `EndIsSeen`, `CancelEnds`), since the
prover has no rule for fairness (`ENABLED`). Every invariant and action property of a
passing run is the statement of a theorem.

## 6. What the models leave out

- Texts, embeddings, prompts, provenance, multi-pass refinement, truncation of long
  child lists, the drift detector; manual edits of a summary.
- `enqueue_subtree` and `requeue_subtree` consist of several statements; they are one
  step here. `BeginFile` merges the second allowed-check, stamp, hash and look-up.
- The watcher's events are a set, removals handled before upserts of the same
  file; directory expansion and debouncing are left out, and so are files its filter
  refuses. A file that parses to nothing is left out.
- `SummaryPipeline` sees of `deep` that it re-reads one file; its skip rule and batches
  are in `DeepIndex`, which leaves out captions, transcripts and OCR, redaction, the
  code graph and session tags it also writes. There the walk reads all mtimes at once
  and files are taken in any order.
- The detectors' own questions (a question comes with any evidence), the question budget,
  dismissals in advance, weights and patch ids.
- The page's counters, labels and the list of jobs: of the client only its stream is modelled.
- A scan's entry is a file; directories are entries too in the code and behave alike. The
  walker's filters are left out, and so is the time-out of the lease: a scan that gives
  up has done nothing.
- The components of section 1 without a module, for the reasons in `PROJECT.json`.

## 7. Plan

Done: `SummaryQueue`, `LeasedTasks`, `SummaryPipeline`, `ScanGenerations`, `JobLog`,
`DeepIndex`, `DecisionLedger`, `AnnCache`, and the proofs of section 5. In order, what is left:

1. `DeepIndex` composed with `SummaryPipeline` in place of its one-step `Deep`, with the
   watcher as a third writer of chunks.
2. An abstract log (a prefix of what was pushed, without repetition) for `JobLog` to refine.
3. Proofs: `MerkleGateIsSound` and `RollUpsAgree`, which take Regenerate to wait and paths to
   stay, for paths that come and go; `RefreshConverges` for files that stay beside others
   that come and go at any time.

**Not modelled.** The watchdog is one actor with thresholds on sampled numbers; only its bounded
pause matters to anybody else, and section 3 uses it. The git poll is one sequential
task without a second writer of its baseline: it stores the commit it read before the
refresh, after the refresh has succeeded. Self update is download, signature and
installation, and one value between one asker and one updater. Search, question
answering, export and evaluation read and rank with floating-point numbers; the parsers
and adapters are pure functions or network calls, whose results the models choose
freely; memories, packs, sessions and weights are single statements of one writer.

## 8. Running

```
tlc -workers 2 -config MCSummaryQueue_solo.cfg MCSummaryQueue
tlapm ScanGenerations_proofs.tla
```

Each run of section 3 is `MC<module>_<run>.cfg` with module `MC<module>`. The longest
takes about two and a half minutes with two workers; of the proof modules
`DecisionLedger_proofs` and `DeepIndex_proofs` take four, `SummaryPipeline_proofs` three,
the others one or less.
