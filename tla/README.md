# Email Guard in TLA+

Email Guard takes mail out of a mailbox, scans each message in a container of
its own, sorts it into `cleared`, `flagged` or `rejected`, carries the finished
job directories to a network share, keeps its scan rules up to date from a git
repository, and asks a human about senders it does not know. This directory
holds TLA+ models of the parts of it where order, failure and concurrency
decide what happens, their TLC configurations, and proofs checked by TLAPS.

1. [Inventory](#1-inventory) - the system's parts, what each keeps and promises
2. [Modules](#2-modules) - which module models what, and how it corresponds to the code
3. [Runs](#3-runs) - what each configuration checks, its bounds, what it shows
4. [Fairness](#4-fairness)
5. [Findings](#5-findings)
6. [Proofs](#6-proofs)
7. [Not modelled, and why](#7-not-modelled-and-why)
8. [Plan](#8-plan)

To repeat everything: `tlc -config X.cfg M` for each line of section 3, and
`tlapm M.tla` for each module whose name ends in `Proofs`. `PROJECT.json` maps every definition to the lines
it is translated from.

## 1. Inventory

| Part (source) | State it keeps | Operations | Talks to | What is hard | What makes it correct |
|---|---|---|---|---|---|
| Dispatcher: drain, re-scan, live loop (`dispatcher/.../runner.py`, `__main__.py`) | the connection, one pass (found, fetched, pending, outcomes), the message being committed | `drain_once`, `rescan`, `run_forever`, `_commit`, start, stop | mail server, scan runner, sinks, state store | crash between sink, state file and flag; other mail clients; dropped connections; renumbered mailbox; a re-scan sharing a drain's code | nothing is done or hidden unless disposed of; duplicates only after faults; no message waits forever; a re-scan writes nothing |
| Processed-state store (`state.py`) | `state.json`, its copy in memory, `quarantine.log` | `add`, `quarantine`, `load`, `_save` | file system | memory changed before a save that fails | the file never loses a key; what is recorded was disposed of |
| Sinks (`sinks.py`) | attempts of one delivery | `deliver` | downstream webhook | lost answers, retries, giving up | at-least-once up to giving up |
| IMAP source and IDLE (`mailsource.py`, `idle.py`) | connection, UIDVALIDITY, IDLE failures | connect, SEARCH, FETCH, STORE, `wait_for_activity`, `idle_once` | mail server | lost pushes, refused IDLE, stale UIDVALIDITY | a full drain within the poll interval |
| Scan runners (`container_runner.py`, `scanner_client.py`) | spool directory, container | `scan`, `_collect`, `_merge_tree`, `reap_orphans` | docker, shared outbound tree and daily brief | half-way merge, time-out, orphans | `.complete` last |
| Publisher (`publisher/.../publish.py`, `markers.py`) | `.published` markers, staging directory | `pending_jobs`, `publish_job`, `mark_published` | outbound tree, network share | two runs, kills, share away, sweep and scans under its hands | whole or nothing, nothing lost, delivered in the end |
| Retention sweep (`cleanup.py`) | its list of verdicts | `cleanup`, `_classify` | outbound tree | verdicts older than deletions, entry-by-entry `rmtree` | only delivered jobs are deleted |
| Rules updater (`rules_sync/.../sync.py`, `store.py`, `lock.py`, `loop.py`, `control.py`, `git.py`) | working copy, `releases/`, `.complete`, `current`, `state.json`, the flock | scheduled pull, refresh, `ensure_live_root`, prune | git remote, scan containers that mount `current` | two pulls at once, crash between promote and record, forced pushes, a feed that stops in silence | only validated descendants go live; `no_change` is true; the feed never stalls unrecorded |
| Scanner: triage and level loop (`triage.py`, `loop.py`, assessors in `rules/`) | the level of one message, the visited levels | initial level, stabilise, assess, move | lists, rules pack | oscillation, the cap of passes, a level no move leads out of | the loop ends; no forbidden move; a rejected sender never clears |
| Scanner: outputs (`route.py`, `outputs.py`, `propose.py`) | one job directory, one candidate | write package, `.complete`, stage candidate | outbound tree, daily brief | order of files, two messages with one name | a package is complete when it says so |
| Sender lists and their applier (`lists.py`, `apply.py`) | three list files | load, validate decisions, apply | scanner, console | several files, one replacement each; crash in between; readers in between; two appliers | all or nothing; a domain on one list only |
| Review console (`webui/`) | decisions, reviewed marks | queue, decide, refresh rules | lists, daily brief, rules updater | a decision whose candidate changed; a re-scan staging a reviewed candidate again | each candidate decided once; no decision half applied |
| Rules pack, text analysis (`rules/`, `parse.py`, `links.py`, `attachments.py`, `signatures.py`, `deepscan.py`, `canary.py`, `clean/`) | none | pure functions of one message | level loop | string handling | per-function tests |
| Evaluation harness, browser code, n8n reference | none of the running system | - | - | - | - |

Calls and shared state: the dispatcher calls the scanner (a container) and
merges its output into the outbound tree and the daily brief; a publisher on the
host is started by file-system events and a timer and reads the same tree; the
console reads the daily brief and writes the lists that every scan mounts; the
rules updater swaps the symlink that every scan mounts. No two of them share a
lock: the order of writes is all that holds them together, and that is what the
models are about. `PROJECT.json` lists the hazards, each at its line.

## 2. Modules

| Module | Models |
|---|---|
| `Intake` | abstract: an at-least-once queue |
| `Dispatcher` | the dispatcher process, its files, the mailbox and its other clients |
| `MCDispatcher` | instances of it |
| `DispatcherProofs` | its inductive invariant, its safety properties, and that it implements `Intake` |
| `Idle` | the wait between two drains: IDLE exchanges on a connection that fails, with time |
| `Containers` | one container per scan: retries, collection, strays and reaping |
| `Live`, `MCLive` | the live dispatcher over `Idle` and `Containers` |
| `LiveProofs` | their inductive invariants, and that `Live` implements `Idle` |
| `RulesSync`, `MCRulesSync` | the rules updater with upstream, both its threads and the scans that mount its output |
| `RuleFeed` | abstract: the register of the live release |
| `RulesSyncProofs` | its inductive invariants, its safety properties, and that it implements `RuleFeed` |
| `Verdict` | from what the lists say of a message to its level and bucket: triage, assessors, the loop over them |
| `VerdictProofs` | its inductive invariant and its safety properties, for any rules pack |
| `Lists` | the three sender lists and the applier that writes them |
| `ListsProofs` | its inductive invariants, and what a document does, once or twice, cut off or not |
| `Desk`, `MCDesk` | scanner, review console and appliers over `Lists` and `Verdict` |
| `DeskProofs` | that `Desk` implements `Verdict`, and its safety properties, for any jobs and days |
| `Outbound`, `MCOutbound` | the merge of scan output, the publisher, the sweep, the share and its consumer |
| `Parcels` | abstract: parcels held until delivered, first seen whole |
| `OutboundProofs` | its inductive invariant, its safety properties, and that it implements `Parcels` |

How they fit together: `Live` EXTENDS `Idle` and `Containers` and conjoins their
actions with its own; `Desk` does the same with `Lists` and `Verdict`. `Live` and
`Dispatcher` are two views of one process: `Dispatcher` has the mailbox, the
state file and the commit in detail and takes a scan or a wait as one step,
`Live` has scans and waits in detail and takes a commit as one step.
`Containers` merges a package in one step; `Outbound` moves it file by file.

One convention throughout: a step is one call that leaves the process or writes
something that survives it. Whatever the code does between two such calls is one
step with them. So every place where a crash, a kill, another thread or another
process can be told apart is a place between two steps. Failures draw on one
counter, `faults`, capped by `MaxFaults`; it bounds how many things go wrong in
a behaviour, not when.

### Dispatcher

State: `mailbox` (per message: unborn, unseen, seen, gone), the server's
`validity` and the `uidValidity` the process read when it connected,
`processed` (memory) and `stateFile` (`state.json`), `quarantineLog`, and the
pass: `found` -> `messages` -> `pending`, with `attempt` and `outcome` of each
scan, and `current`, the message in `_commit`. `pc` says which call is next.

- `Search`, `Fetch`, `Fetched`, `Sift`, `Sifted` are the first half of
  `drain_once` and `rescan`: SEARCH, one FETCH per message, the `has` test that
  flags again what is already done.
- `StartScan`, `ScanSucceeds`, `ScanFails`, `ScansDone` are the thread pool:
  at most `Concurrency` scans at once, ended in any order, up to `MaxAttempts`
  attempts of each.
- `Commit`, `Deliver`, `Quarantine`, `Record`, `Mark` are `_commit` in its
  order: sinks or the quarantine log, then the state file, then `\Seen`. One
  `Deliver` is one POST; the sink is left after an answered one, after the last
  failed one, or by an exception it does not catch.
- `SaveFails` leaves the key in memory (`add` changes memory first) and ends the
  pass; `Raise` is what any exception does: the live loop drops the connection
  and connects again, `--once` and `--rescan` end.
- `Observe`, `RescanNext`, `RescanDone` are the re-scan's half.
- `Arrive`, `ClientTouches`, `Renumber`, `Drop` are the mail server, other
  clients and the network; they are external and modelled from what the code
  asks of them.

History: `handed` (deliveries per key) and `flagged`. `Intake` has an item per
(UIDVALIDITY, UID); `disposals` is deliveries plus quarantine lines and `done`
is `state.json`.

### RulesSync

State: `upstream` and the working copy `work`; the live root as `pack` (each
release absent, partial or whole), `marked` (`.complete`), `current`, `newer`
(which release was staged after which, the order of the modification times) and
`fresh` (both for `prune`); `promoted` and `rejected` from `state.json`; the
flock. Two threads, `loop` and `console`, run the same code: `PruneIncomplete`,
`Rooted`, `SeedAgain` are `ensure_live_root`; `Query` ... `Sync` are
`_locked_pull` up to the staging; `Wipe`, `Create`, `Copy` are `stage_release`
(the deletion and the copy are not atomic, so a partial tree is a state);
`Validated`, `Mark`, `Promote`, `Save`, `Tidy` are the rest, in that order.
`run_forever` begins with an `ensure_live_root` outside the lock, and so does
the model. `console` also stands for an operator's `--once` beside the service.
`EarlyRefresh` says whether a refresh may overlap that unlocked seeding.
`mounted` is a scan container that resolved `current` when it started.
The validator is the constant `Pack`; it may also fail to finish (`Refused`).

`RuleFeed` is what all this promises: `live` is `current`, `last` the commit that
went live last, `record` the `promoted_commit` of `state.json`. A commit goes live
only if it is valid and descends from `last`; the seed may take its place at any
time; the record, whenever it is written, is written of `last`, and may be lost.
Threads, lock, working copy and staging are not in it.

### Outbound

State: the shared `tree` (per job directory and file: whose file it is), the
markers `complete`, `published` and which of them are `expired`; per run of the
publisher its `queue`, the `listing` of the job under way and its `staging`
directory; `dest`, what the share has under the real name; the sweep's `agenda`,
the `victim` of the `rmtree` under way and its `doomed` entries. All of these are
sets: which of several jobs, files or entries comes next is left open, so the
model covers the sorted order of the code and any other. The one order the code
decides, `.complete` after everything else, is `MayMove`.

- `Scan` fills a private spool (`write_outbound`); `Merge` moves one file of it
  into the tree, in `_merge_order`; `MergeCut` is a failed move or a dead
  dispatcher.
- `Fire` is `pending_jobs` and the test of the share; `Found`, `Begin`,
  `CopyFile`, `Rename`, `Mark` are `publish_job`; `JobFails` is the exception
  that ends one job, for the reasons in `Raises`; `Kill` is systemd's time-out or a power cut.
- `Classify` makes all verdicts; `OpenJob`, `Unlink`, `CloseJob` are `rmtree`,
  in any order of entries; `SweepCut` is its failure or its kill.
- `Age`, `Repush`, `Consume`, `ShareDown`, `ShareUp` are the clock, the
  operator's documented way to send a job again, the consumer, the share.

A re-scan of one message writes the same bytes, so content is identified by its
message. Which directory a message has is the constant `Home`: the runs that
pass give each message its own; `outbound_shared` does not.

`Parcels` is what the merge, the publisher and the sweep promise together:
`handedIn` is what was collected, `held` the collected messages whose directory
is whole, `box` what the consumer sees under a message's name (`Look`: absent,
empty, partial or whole). A parcel is held until it was delivered, its first
appearance is whole, and only the consumer takes it away. After that first
delivery nothing more is promised (`DeliverAgain`): finding 4 is why.

### Idle, Containers, Live

`Idle` is one call of `wait_for_activity` with the exchanges of `idle_once` it is
made of. Time is counted in slices, the longest the code blocks before it looks at
the stop flag again; `waited` counts them, `until` is when the watch ends (before
the continuation has come, how long it may last: the stretch is computed before
IDLE is sent), `spent` the slices of the reads under way. `SendIdle`, `Continue`,
`Refused`, `ReadLine`, `StopWatching`, `Complete` are the exchange; `HearAside` is a
push heard before the continuation or after DONE; `Break` is any `IdleError`, after
which the wait is slept out (`SleepOut`, `Return`) and the connection is `suspect`:
nothing tears it down, the next drain uses it. `failures` and `enabled` are the
three-failures rule. What is assumed is named `Backstop`: that one line takes no
longer than `READ_BACKSTOP_SECONDS`. The code bounds one read of the socket by it,
so a server that sends a line byte by byte can take longer.

`Containers`: `scan` is where each message's scan is, from `Launch` (stage the
spool, `docker run`) over `ContainerExits` or `ScanFails` to `MergeOutbound` and
`MergeBrief` (`_collect`, in that order) or `CollectFails`; `AfterFailure` is the
retry. `strays` counts containers that run with no scan waiting for them: those of
a killed dispatcher (`Abandon`) and those docker would not remove (`refused`).
`Reap` removes what carries the label at a start; `ReapBeside` is the same by a
`--once` or `--rescan` process that starts beside the live one, and removes
containers the live one is waiting for, whose `docker run` then fails
(`ScanWasReaped`).

`Live` is `main` and `run_forever`: reap, connect, drain, scan, commit, wait, and
`Kill`, `AskToStop`, `ConnectionLost` at any point.

### Verdict, Lists, Desk

`Verdict`: a message is a record of the facts the rules tell apart (a compiled-in
marker, what each feed file would match, attachments, a signature, ...); `hits` is
what the lists say of it. `Triage` is `initial_level`; `ScanPass` is one iteration
of the loop (deep scan, assessor, permitted move, the tests that end it). The
rules pack is data that the updater replaces under the engine, so there are two:
`"shipped"`, the three assessors translated (`AssessTwo`, `AssessThree`,
`AssessFour`), and `"any"`, whose assessors answer whatever they like. `trail` is
`level_history`.

`Lists`: `files` is what each list file holds. An applier reads them one by one
(`ReadList`), applies each decision in memory (`ApplyOne`, `Decided`), refuses a
result the loader would refuse (`Accept`, `RefuseResult`), and writes the changed
files one by one in the order of `WrittenBefore` (`WriteList`), or dies (`Crash`).
A list action takes the domain and every address that claims it off the other two
lists (`Without`). Tags and display names are left out; that a new tag alone makes a
file dirty is `retag`.

`Desk`: the scanner loads the lists one by one under the writers (`LoadList`),
refuses contradictory ones (`RefuseLists`, exit 3), judges (`Judge`, `JudgeStep`),
and stages a candidate (`StageCandidate`; the package before it is followed in
`Live` and `Outbound`). A candidate is a file, `<brief-day>/<job>/candidate.json`, and
the job a slug of the Message-ID, so a `Card` has an `id`, which is that path, and the
message it is `of`: messages may share a job (`JobOf`), the later candidate of a day
replaces the earlier one (`Put`), and on another day the same message is asked about
once more. `passable` and `answered` are history: of which messages the lists on disk,
at some moment of a reading under way, ask nothing. The console shows the queue
(`OpenQueue` ... `ShowQueue`: staged candidates the scanner would stage again today, from the excerpt each carries), and a reviewer answers a
card of a screen that may be stale (`Confirm`): the applier first, then `Consume`
moves what lies at the card's path (`FiledUnder`), which may by then be another
message's candidate, to `reviewed/`. `ManualAdd` and `CommandLine` are the other
two ways to an applier. Matching with subdomains is `Covers`; the loaded lists become
`hits` in `HitsOf`.

## 3. Runs

| Run | Module, configuration | Properties | Size |
|---|---|---|---|
| `dispatcher_safety` | `MCDispatcher`, `DispatcherSafety.cfg` | `TypeOK`, `DoneWasDisposed`, `FlaggedWasDisposed`, `DuplicatesNeedFaults`, `DoneListOnlyGrows`, `ImplementsIntake` | 940 thousand states |
| `dispatcher_live` | `MCDispatcher`, `DispatcherLive.cfg` | `RescanWritesNothing`, `NothingIsStranded` | 175 thousand |
| `dispatcher_flagged` | `MCDispatcher`, `DispatcherFlagged.cfg` | `FlaggedIsRecorded` - violated | |
| `live` | `MCLive`, `Live.cfg` | `LiveTypeOK`, `DrainComesInTime`, `DoneIsCollected`, `CandidateHasPackage`, `QuarantineIsPaidFor`, `StraysWereRefused`, `EveryMailSettles` | 350 thousand |
| `rules_sync` | `MCRulesSync`, `RulesSync.cfg` | `TypeOK`, `OnlyValidated`, `LiveIsWhole`, `OnlyForward`, `NoChangeIsTrue`, `NoSilentStall`, `ImplementsRuleFeed` | 140 thousand |
| `rules_sync_tear` | `MCRulesSync`, `RulesSyncTear.cfg` | `ScanSeesWholePack` - violated | |
| `rules_sync_early` | `MCRulesSync`, `RulesSyncEarly.cfg` | `NoChangeIsTrue` - violated | |
| `outbound` | `MCOutbound`, `Outbound.cfg` | `TypeOK`, `FirstIsWhole`, `MarkerIsTrue`, `NothingIsLost`, `FirstIsKept`, `EventuallyDelivered`, `ImplementsParcels` | 485 thousand |
| `outbound_torn` | `MCOutbound`, `OutboundTorn.cfg` | `WholeOrNothing` - violated | |
| `outbound_shared` | `MCOutbound`, `OutboundShared.cfg` | `NothingIsLost` - violated | |
| `desk` | `MCDesk`, `Desk.cfg` | `DeskTypeOK`, `OneListEach`, `RedoFinishes`, `EndsByPassThree`, `OnlyTriageTrusts`, `ClearedIsVouched`, `NoQuestionLost`, `SkippedForAReason`, `RefusedForAReason`, `HiddenIsSkipped`, `VerdictSpec` | 1.3 million |
| `lists_two` | `MCDesk`, `ListsTwo.cfg` | `CrashLeavesLoadable` - violated | |

What the properties say:

- **Dispatcher.** `DoneWasDisposed`: what is on the done-list, in memory or on
  disk, was delivered or quarantined. `FlaggedWasDisposed`: the dispatcher hides
  a message from its own search only after that very message was disposed of.
  `DuplicatesNeedFaults`: each repeated delivery is paid for by a fault.
  `DoneListOnlyGrows`: no save ever loses a key. `ImplementsIntake`: the
  refinement. `RescanWritesNothing`: while a re-scan runs, no record of the live
  loop changes. `NothingIsStranded`: an unread message is disposed of in the
  end unless another client takes it away, even behind one that never scans.
- **Live.** `DrainComesInTime`: whatever is dropped, refused, hanging or
  chattering, a wait is over within the poll interval plus the reads of one
  exchange. `DoneIsCollected`: what is recorded as scanned has its package and its
  candidate in the shared trees. `CandidateHasPackage`: also half-way, no candidate
  runs ahead of its package. `QuarantineIsPaidFor`: a message that can be scanned
  is given up only after as many faults (or dispatchers started beside) as it has
  attempts. `StraysWereRefused`: after a start whose reaping worked, a container
  nobody waits for is one docker refused to remove. `EveryMailSettles`: each mail
  is delivered or quarantined in the end.
- **Rules.** `OnlyValidated`: `current` never names a commit the validator
  refuses. `OnlyForward`: each commit that goes live descends from the last one
  that was, across restarts, lost state files and falls back to the seed.
  `LiveIsWhole`: without faults, no instant shows a partial live pack.
  `NoChangeIsTrue`: when a pull answers `no_change`, that commit is live and
  whole. `NoSilentStall`: what upstream settles on goes live or is on record as
  refused. `ImplementsRuleFeed`: the refinement.
- **Outbound.** `FirstIsWhole`: the first appearance of a job on the share is a
  whole package. `MarkerIsTrue`: nothing behind a `.published` waits to be
  delivered. `NothingIsLost`: a collected message was delivered or is whole on
  local disk. `FirstIsKept`: only the consumer takes a package off the share,
  and nothing replaces it. `EventuallyDelivered`: a collected job reaches the
  share, also behind one that the share always refuses. `ImplementsParcels`: the
  refinement.
- **Verdict and lists.** `EndsByPassThree`: every scan ends by its third pass.
  `OnlyTriageTrusts`: nothing moves up to level 5. `ClearedIsVouched`: with the
  shipped pack a cleared message has a sender some list vouches for, and is on no
  black list, matches no denied shape and carries no marker. `OneListEach`: unless a
  document sent decisions to two lists, no crash and no moment between two writes
  leaves a domain on two list files. `RedoFinishes`: whatever part of a document has
  been written, applying the document again to the files ends where the first
  application was going.
- **Desk.** `NoQuestionLost`: a question the scanner asked leaves the queue only
  through a decision on that card that was applied in full, unless a message of the
  same job was asked about on the same day; then one candidate replaces the other,
  or a decision on one consumes the other (finding 5). `SkippedForAReason`: a scan
  leaves a message without a card only if the lists on disk at some moment of its
  reading ask nothing of it, although the three it read may never have been on disk
  together. `HiddenIsSkipped`: a staged card the queue leaves out is one the scanner
  would not stage by the lists on disk at some moment of the console's reading.
  `RefusedForAReason`: a scan is refused only after a list was written while it read
  them, or a document for two lists was sent. `VerdictSpec`: each scan, with lists
  read under a writer, is one of the verdict engine's.

Bounds, and why they show the interesting cases:

- `dispatcher_safety`: two messages, two UIDVALIDITY epochs under which their
  UIDs are *swapped* (the worst a renumbering can do: the same UID names the
  other message), two workers, two POSTs, one fault. One fault is enough for
  each crash point of `_commit`; the proofs cover any number.
- `dispatcher_live`: one epoch, so that the state space of the four ways to
  start the process stays small; two attempts, a re-scan limited to one message.
- `live`: a good message whose scan stages a candidate and one no scan succeeds on
  (its failures cost no fault), two attempts, two workers, three faults, one
  dispatcher started beside: enough for a kill between the two merges and a retry
  afterwards, and for a good message to use up its attempts. A poll of three slices
  with IDLE stretches of two, so that an exchange is started over within one
  wait; each kind of read may overrun by one slice; two failures demote to polling,
  where the code has three.
- `rules_sync`: four commits, c1 <- c2 <- c4 with c4's pack invalid, and c3
  beside c2, reached by a forced push. `Keep` 1 prunes at once, so pruning
  meets everything else. Two faults: a crash and, for instance, a lost state
  file. The branch never moves *back* (c2 -> c1) in this run: rolling the branch
  back and a crash between promotion and record together break
  `NoChangeIsTrue` and `NoSilentStall`, because `no_change` is decided from a
  `state.json` that names c1 while c2 is live. That is the stale record of
  `rules_sync_tear` seen from another side; `NoChangeSpeaksTrue` (section 6) proves
  that a branch that never returns to a commit it left is all it takes. A refresh that overlaps the unlocked
  seeding is left to `rules_sync_early`, and to the theorems that hold with it.
  `Keep` is 1 where the code's default is larger.
- `outbound`: two messages in two directories, one refused by the share, one
  scanned twice (before or after it was published or swept), two runs of the
  publisher side by side, two faults. One file beside `.complete` and `.published`
  is enough for a package to be partial; `outbound_torn` and `outbound_shared` have
  two. A behaviour may end (all scans used, all packages consumed and swept), so
  deadlock is not an error in the Outbound runs.
- `desk`: two domains, one a subdomain of the other, and one address on the
  subdomain, so that a hit through the parent, through the domain and through the
  address can all differ; the parent greylisted with no shape catalogued. Documents
  that list the sender, move the parent, catalogue its shape, do two of these at
  once, are refused, or discard. Two messages: one climbs to level 4 on its
  signature, on the other levels 2 and 3 disagree for ever. The two share a job and
  there are two days, so candidates replace one another on one day and stand side by
  side on two; a day on which only one of them is asked about is the case of a job of
  its own. Three scans or documents in all and one fault, appliers one at a time.
  `Pack` is `"shipped"`:
  with `"any"` each pass has ten answers, and what they do is proved in
  `VerdictProofs` for every message. Deadlock is not an error in the runs over `Desk` (the
  work is used up) and in `live` (a stopped host may have nothing left to do).
- The violated runs use the smallest instance that shows the disagreement;
  `rules_sync_early`, `outbound_torn` and `outbound_shared` need no fault at all.

Every property of a passing run has a mutant in `PROJECT.json`: a plausible slip
in one definition (a dropped guard, the plain sort order, a set that forgets)
with which the same run finds the property violated. The mutated operators stand
in the modules, each marked as a mutant, and no model uses them.

## 4. Fairness

- `Dispatcher`: `WF(Step)` - a running process goes on; each of its calls ends,
  because scans, POSTs and IMAP calls have time-outs. `SF(Start("forever"))` -
  compose restarts the service (`restart: unless-stopped`), whatever else is
  started in between. Nothing is assumed of the mail server's other clients.
  That a wait ends is part of `Step`: the poll interval bounds it.
- `Live`: `WF(Loop)` - a running dispatcher goes on: `docker run` is called with a
  time-out, and every read of an IDLE exchange has one. `WF(Start)` - compose
  starts it again. Neither the server nor docker is assumed to be fair; `MaxFaults`
  bounds how often they fail. `Tick`, `Break` and `ReadLine` are all steps of
  `Loop`, so nothing is assumed of how a wait ends, only that time goes on.
- `RulesSync`: `WF(Boot)` for the supervisor, `WF(Work(t))` for a thread inside
  a pull (git and the validator have time-outs), `SF(Call("loop"))` because the
  interval ends again and again while the console may hold the lock now and
  then. Nothing is assumed of the console, upstream or the scans.
- `Outbound`: `WF(Fire)` for the five-minute timer, `WF(Publish)` for a run under
  way (`TimeoutStartSec` ends one that hangs: a `Kill`), `WF(ShareUp)` because
  outages end. A share that failed again during every copy would defeat any
  publisher; `MaxFaults` bounds the outages. Nothing is assumed of the sweep,
  the consumer, the operator or new scans.

## 5. Findings

Each is a violated run; `PROJECT.json` quotes the lines on both sides.

1. `dispatcher_flagged`: `add` changes memory before a save that may fail, and
   the next pass then flags the message although `state.json` lacks it; the
   comments call the file the authority.
2. `rules_sync_tear`: promotion and its record are two steps. When the second is
   lost, the next pull deletes and re-copies the release that is live, under the
   scans that have it mounted.
3. `rules_sync_early`: the seeding at start-up does not take the lock. It can
   delete a release that another pull is about to mark; an empty release is then
   promoted and recorded, the seed goes live, and every later pull answers
   `no_change`. The window is short (start-up overlapping a pull).
4. `outbound_torn`: the sweep's `rmtree` may unlink `.published` before
   `.complete`. A publisher that fires in between takes the remains for a
   pending job, and, if the consumer has already deleted its copy, delivers them
   as a package. A sweep cut off half-way leaves the same state for good.
5. `outbound_shared`: two messages with one job slug share a directory; the
   second overwrites the first before it was published, or is never published
   after it was. The candidates of two such messages of one day are one file as well:
   the second question replaces the first undecided, and a decision on the first,
   still on the screen, consumes the second. That is the exception `NoQuestionLost`
   names, and what `OneJobEachQuestionsStay` (section 6) excludes.
6. `lists_two`: files that only lost entries are written first, but a document may
   make two files gain, one of which also loses a domain to the other. Cut off
   between them, one domain is on two lists, every scan is refused (exit 3) and the
   console answers 503. Applying the document again repairs it; so does any
   document that touches that domain, and no other.

Smaller observations, met while modelling and checked by no run:

- `signatures.py`'s `_load_one` says it never raises, but catches only `OSError`
  around `read_text`; a file that is not UTF-8 raises `UnicodeDecodeError`.
- "Lists are mutually exclusive" (a comment of triage and of `candidates.py`) holds
  of the domains entries claim, not of what they match: with a subdomain on one
  list and its parent on another, both hit. A whitelisted sender on a greylisted
  parent with an uncatalogued shape lands on level 3, but `propose.classify`
  skips whitelisted senders, so nobody is asked.
- The loop's cap of six passes cannot be reached (`EndsByPassThree`). A pack
  without an assessor for a level ends the loop at that level.
- The shipped level-3 assessor never answers 3: what it does not send down to 2 it
  sends up to 4, so a greylisted sender with a new shape can still clear.
- A scan that reads the lists between the two writes of one document can be
  refused although the lists were sound before and after (`RefusedForAReason` names
  the case).
- The failures that demote IDLE to polling are not consecutive: a push that was
  heard does not reset the count, only a quiet time-out does. A new connection
  resets it as well, so a server that breaks every exchange and then the connection
  is never demoted. Latency only.
- A push heard in the preamble of an exchange that then breaks is forgotten; the
  wait is slept out. Latency only.
- Two appliers at once can lose one another's decisions, and leave a domain on two
  lists (no lock; `Overlap`).

## 6. Proofs

`DispatcherProofs` proves, for all messages, UIDs, epochs, worker counts,
attempts, ways to start and numbers of faults, from the two named assumptions of
`Dispatcher` (UIDs are positive numbers and differ between messages of one
epoch; the bounds are positive):

| Theorem | States |
|---|---|
| `Inductive` | `Spec => []IInv` |
| `TypeCorrect` | `Spec => []TypeOK` |
| `DoneIsDisposed` | `Spec => []DoneWasDisposed` |
| `FlaggedIsDisposed` | `Spec => []FlaggedWasDisposed` |
| `DuplicatesArePaidFor` | `Spec => []DuplicatesNeedFaults` |
| `FileOnlyGrows` | `Spec => DoneListOnlyGrows` |
| `RescanLeavesNoTrace` | `Spec => RescanWritesNothing` |
| `Refinement` | `Spec => ImplementsIntake` |
| `FlagsAreSaved` | each message flagged while memory is not ahead of `state.json` has a key there |
| `QuietFlagsAreRecorded` | `Spec => [](faults = 0 => FlaggedIsRecorded)` |

None of the safety properties is inductive alone. `IInv` adds what carries them:

- `MemoryHoldsFile`: memory has every key of the file, except while the process
  is down, so that a save, which writes all of memory, loses nothing.
- `PassShape`: at which `pc` something may be pending, which of them belong to a
  drain and which to a re-scan, and that the message in hand is a pending one,
  so that a step knows whose key it records. It also keeps a re-scan from every
  step that writes a record.
- `PendingIsNew`: what a drain has still to commit is not on the done-list.
- `CommitOrder`: before `add` the current key has been disposed of, before the
  flag it is on the done-list. This is the order of `_commit`, and
  `DoneWasDisposed` and `FlaggedWasDisposed` rest on it.
- `PaidFor`: a key has one disposal for each fault, plus one that is in the file
  or is about to be. A fault is what leaves a disposed-of message undone, and it
  pays for the next disposal.

There is one lemma per conjunct (`TypeStep`, `MemoryStep`, `ShapeStep`, ...),
each split by action. The refinement maps each sink hand-over and quarantine line
to `Dispose`, each save to `Finish` of the keys it adds (several, when an earlier
save had failed), a fault to `Fault`, everything else to a stutter.

The last two bound finding 1 from the other side: what separates a flag from the
record is a failed save and nothing else.

`RulesSyncProofs` proves, for every set of commits, every ancestry among them that
is reflexive and transitive, every way the branch may move (forced and backwards
moves included), every assignment of packs, every `Keep` and number of faults,
from the two named assumptions of `RulesSync`:

| Theorem | States |
|---|---|
| `Inductive` | `Spec => []IInv` |
| `TypeCorrect` | `Spec => []TypeOK` |
| `LiveIsValidated` | `Spec => []OnlyValidated` |
| `LiveMovesForward` | `Spec => OnlyForward` |
| `CalmIsWhole` | `Spec => []LiveIsWhole`, if `~EarlyRefresh` |
| `Refinement` | `Spec => ImplementsRuleFeed` |
| `RecordStaysBehind` | `Spec => []Feed!RecordIsBehind`: the record is of `last` or an ancestor of it |
| `NoChangeSpeaksTrue` | `Spec => NoChangeIsTrue`, if `~EarlyRefresh` and the branch never returns |

- `OnePull`: every step of a pull past its entry is taken by the holder of the
  lock; a thread without it can only be seeding.
- `PullShape`: what a pull stages, promotes and records is the commit it fetched
  and fast-forwarded to, and past the validator that commit is valid. It rests on
  `OnePull`: no other thread writes `remote` or the working copy in between.
- `Descends`: the last commit that was live is behind the working copy's HEAD,
  which only moves by fast-forward. This carries `OnlyForward` through restarts
  and a lost `state.json`: the working copy remembers what the record forgets.

The first four theorems, and `Refinement`, hold with `EarlyRefresh` as well: the race at start-up
(finding 3) can put an empty release in place, never a refused or older one.
`CalmIsWhole` needs more. `Undisturbed` says that without early refreshes one
thread at most is at work, so a staged release is still whole when it is
promoted; `RecordIsTrue`, that as long as no fault happened `state.json` names
what is live unless its save is the next step, so that no pull stages the live
release again, and that the seed is staged only over nothing.

`Refinement` needs one thing beyond `IInv`: that a pull about to write its record
is the one whose release went live last (`SavesLive`); no other thread can have
promoted since, because it holds the lock. `RecordStaysBehind` is then proved of
the abstract register alone.

`NoChangeSpeaksTrue` needs more about the branch, and says what: some strict
order contains every move of it (`NeverReturns`; forced pushes are allowed, a
push back to a commit already left is not). `RecordInv` then follows the record
through crashes, failed saves and lost files: it is never later than upstream
(`Behind`), and whenever it does not name the live, whole release upstream has
moved past it (`Outdated`), so the comparison that answers `no_change` cannot
succeed. What puts another release in place (the seed, a staging) starts only
over an outdated record (`OverOld`), and that is where `~EarlyRefresh` is used.

`OutboundProofs` proves, for every set of messages, directories, packages,
refusals, publisher runs, scans and faults, from the named assumptions of
`Outbound`:

| Theorem | States | Needs `OneJobEach` |
|---|---|---|
| `TypeCorrect` | `Spec => []TypeOK` | no |
| `PackagesStay` | `Spec => FirstIsKept` | no |
| `Inductive` | `Spec => []IInv` | yes |
| `AppearsWhole` | `Spec => []FirstIsWhole` | yes |
| `MarkersAreTrue` | `Spec => []MarkerIsTrue` | yes |
| `NothingGoesMissing` | `Spec => []NothingIsLost` | yes |
| `Refinement` | `Spec => ImplementsParcels` | yes |

`OneJobEach` (no two messages share a job directory) is a hypothesis of the
theorems and not an assumption of the module, because the code does not ensure
it; `outbound_shared` shows `NothingIsLost` failing without it. The argument:

- `SpoolShape` and `Kept`: since `.complete` moves last, a directory that is
  complete and was never delivered holds every file of its message, and keeps
  them through any number of re-scans, because nothing deletes from it.
- `OnlySent`: markers, the sweep's work and what the share has are all of
  delivered messages. So the sweep cannot reach a directory `Kept` is about,
  although it works from old verdicts.
- `WasComplete`: a run's list of jobs may be old, but each of them is complete
  or has been delivered.
- `OwnFiles` and `CopyShape`: a copy of a message that was never delivered holds
  just the files listed and no longer to be copied, so the first rename puts the
  whole package in place.

`Refinement` maps each step to one of `Parcels`: the `Merge` that collects a message,
or makes its directory whole again, to `HandIn`, the first `Rename` of a message to `Deliver`, any later one to
`DeliverAgain`, `Consume` to `Take`, an `Unlink` in a held directory to
`Discard`, everything else to a stutter. It adds to `IInv` that only collected
messages are complete or delivered (`OnlyCollected`), so that nothing is delivered
that was not handed in.

`VerdictProofs` proves, for every message, feed and pack, from
`VerdictAssumption`:

| Theorem | States |
|---|---|
| `VerdictInvariant` | `VerdictSpec => []VInv` |
| `VerdictTypes` | `VerdictSpec => []VerdictTypeOK` |
| `LoopEnds` | `VerdictSpec => []EndsByPassThree` |
| `TriageAloneTrusts` | `VerdictSpec => []OnlyTriageTrusts` |
| `ClearedNeedsAList` | `VerdictSpec => []ClearedIsVouched` |

`LoopEnds` rests on `Path`: a loop that has not ended never stayed and never came
back to the level before, so by the moves that are permitted its trail is a start,
or one step from it, or two steps in one direction; the third pass has nowhere to
go. `ClearedNeedsAList` rests on `FourIsLast` and `Screened`: with the shipped pack
the pass at level 4 is a scan's last and the only way to end there, so its test of
the sender decides; and what triage screened out never enters the loop.

`ListsProofs` proves, for every set of keys and structures, documents of any length
and any number of faults, from `ListsAssumption`:

| Theorem | States | Needs `~Overlap` |
|---|---|---|
| `ListsTypes` | `ListsSpec => []ListsTypeOK` | no |
| `RedoIsHarmless` | applying a document to lists of which any part already is its result gives that result | - |
| `DocumentsTakeEffect` | a document that was let in keeps lists that agree in agreement, and at its end each of its decisions holds | - |
| `DomainOnOneList` | `ListsSpec => []OneListEach` | yes |
| `RedoingFinishes` | `ListsSpec => []RedoFinishes` | yes |
| `LoadableUnlessBoth` | `ListsSpec => [](faults = 0 \/ ~mixed => CrashLeavesLoadable)` | yes |
| `FilesFollowDecisions` | a list file changes only into what a validated document makes of the files of that moment | yes |

`SInv` says that one applier is at work (`Solo`); that a document for one list makes
only its target gain (`OneTarget`); and that what is in memory differs from the
files only by what is dirty, and those that are not the target only lose
(`Follows`). So the target, which is written last, meets files that have already
let go of the domain: `DomainOnOneList`.

What a document of any length does is an induction over its decisions. The two
theorems without a state machine rest on the least element of a set of numbers
(`LeastNatural`, `SetInduction`, from the well-foundedness of `<`), with the set of
lengths for which the claim holds in the place of the usual predicate. The claim
behind `RedoIsHarmless` is that a document acts on each list as a *mask* (`AfterMask`):
some entries go, some come, and which ones depends on the document and not on what
the list held. A mask applied twice is the mask (`MaskTwice`), and the other lists do
not enter, so it does not matter which of them were already written.
`DocumentsTakeEffect` uses that a validated document decides a domain for one list
only, so that a later decision cannot undo an earlier one.

`RInv` ties an applier's copies to `After`, the lists after so many decisions of its
document, and a file that is not dirty to its copy; `RedoingFinishes` and
`FilesFollowDecisions` are `RInv` with `RedoIsHarmless`. `LoadableUnlessBoth` is finding
6 from the other side: files the loader refuses take a crash *and* a document for
two lists.

`DeskProofs`:

| Theorem | States | Needs `~Overlap` |
|---|---|---|
| `DeskImplementsVerdict` | `DeskSpec => VerdictSpec` | no |
| `DeskTypes` | `DeskSpec => []DeskTypeOK` | no |
| `QuestionsStay` | `DeskSpec => []NoQuestionLost` | no |
| `OneJobEachQuestionsStay` | `DeskSpec => [](asked \subseteq staged \cup decided)`, if no two messages share a job | no |
| `SkipsHaveReasons` | `DeskSpec => SkippedForAReason` | no |
| `HiddenCardsAreSkipped` | `DeskSpec => HiddenIsSkipped` | no |
| `RefusalsHaveReasons` | `DeskSpec => [](RefusedForAReason /\ OneListEach)` | yes |
| `DeskRedoingFinishes` | `DeskSpec => []RedoFinishes` | yes |

By `DeskImplementsVerdict` the theorems of `VerdictProofs` hold of the scanner
with lists that change under it. `Reads` carries the refusals: what the scanner has
read so far is what the files hold, unless one was written since its first read.
`Queue` carries the questions: the console consumes a card only after its applier
came to `applied`, the card was noted as decided when it did, and whatever else lies at
its path was asked of another message, since two cards at one path that differ are
about two messages (`OnePathTwoMessages`). `DeskRest` has the types.

`ScanReason` and `LookReason` carry the skips. One list is enough to excuse a message
(`Excuses`, `PassesIfExcused`), so the three copies need not belong together: each list
that excuses it was on disk when it was read, and at that moment the lists on disk
asked nothing. `HiddenCardsAreSkipped` also rests on `ExcerptErrsTowardsShowing`:
looking for fewer shapes can only make a sender look more like one to ask about.

`LiveProofs`, from `IdleAssumption` and `ContainersAssumption`, for every interval,
time-out, number of attempts, workers and faults:

| Theorem | States |
|---|---|
| `WaitEndsInTime` | `IdleSpec => []DrainComesInTime` |
| `LiveImplementsIdle` | `LiveSpec => IdleSpec` |
| `LiveDrainsInTime` | `LiveSpec => []DrainComesInTime` |
| `LiveTyped` | `LiveSpec => []LiveTypeOK` |
| `DoneMeansCollected` | `LiveSpec => []DoneIsCollected` |
| `CandidatesHavePackages` | `LiveSpec => []CandidateHasPackage` |
| `QuarantineNeedsFaults` | `LiveSpec => []QuarantineIsPaidFor` |
| `NoOtherStrays` | `LiveSpec => []StraysWereRefused` |

`Clock` bounds `waited` phase by phase: at the top of the wait by the poll, in the
preamble by the poll plus what the reads so far have taken, in the watch by its
`until` plus one line, in the completion by both plus the completion's reads.
`Paid` counts: a message that is not poison has spent a fault, or a dispatcher
started beside, for each attempt that failed.

Each of these inductive invariants was checked with TLC on the instances of section
3 before it was proved.

Model-checked only: `NothingIsStranded`, `NoSilentStall`, `EventuallyDelivered` and
`EveryMailSettles` (liveness under fairness is outside what the prover does), and
the disagreements of section 5, which are counterexamples. Every safety property
of a passing run is a theorem, under the hypotheses its table names: `OneJobEach`,
`~Overlap`, and for `NoChangeIsTrue` `~EarlyRefresh` and a branch that never
returns. `outbound_shared` and `rules_sync_early` show what the code does where two
of them fail; a branch that returns is discussed with `rules_sync` in section 3, and
appliers that overlap in section 7.

## 7. Not modelled, and why

- The analysis of a message's text (parsing, links, attachments, canary, cleaning,
  the patterns of the rules and of the signature feed): pure functions over strings
  with no state; what they find is an input of `Verdict`.
- Configuration, logging, rendering, health checks, the evaluation harness, the
  n8n reference, the console's browser code.
- A second dispatcher that shares the state file: what a `--once` or `--rescan`
  process started beside the live loop does to its containers is in `Live`; that
  both save `state.json` is not. The code forbids this by instruction only.
- The subprocess scan runner: its temporary file, and that it writes job
  directories in place. Only the container runner's merge, which replaces each file
  whole, is modelled.
- The spool directory of a killed dispatcher, which nothing ever removes, and a
  staging directory left on the share by a killed publisher, which keeps its pid's
  name and which consumers are told to skip.
- Interval off, `set_branch`, and warnings of the signature feed in the rules
  updater.
- List entries that break the schema, tags and display names; what a candidate
  proposes to write. A list file edited by hand may name a structure twice under one
  domain; the applier replaces the first, and `ListsAssumption` leaves such files out
  (`OneOfEachName`).
- What the sweep does to the queue: it deletes published packages after the retention
  period, so a card may outlive the package it points to. Nothing in the code promises
  otherwise, and no property is about it.
- `scan --dry-run`, which stages and writes nothing.
- Git's own failures half-way: `Sync` (clone, sparse checkout, fetch, fast-forward) is
  one step, which happens or does not. A killed git may leave an `index.lock` or half
  a clone, on which later pulls may fail until someone removes it; each such pull
  reports an error, but the commit does not come to be live or refused, so
  `NoSilentStall` is about a working copy without such leftovers.
- Two appliers at work at once: `Lists` has them (`Overlap`), but no run covers what
  they may do to one another, since the code has no claim about it: one may lose the
  other's update, and because each writes what it read before, a domain may end on two
  lists, against the exclusivity of apply.py:33. For appliers one at a time,
  `FilesFollowDecisions` proves that none is lost.

## 8. Plan

Done: `Dispatcher` with `Intake`, `Live` over `Idle` and `Containers`, `RulesSync`,
`Desk` over `Lists` and `Verdict`, and `Outbound`, each with its proofs.

What would add most from here:

1. `Dispatcher` composed with `Outbound`: a message whose package was merged and
   whose daily brief was not is quarantined and delivered at once.
2. The subprocess runner, with its in-place writes, in `Outbound`; the spool and
   staging directories that kills leave behind, as a resource that only grows.
3. `set_branch` and interval off in `RulesSync`.
4. A second process on `state.json` in `Dispatcher`.

5. An abstract specification of the lists: one map from domain to list, changed in
   one step, which `Lists` implements as far as `RedoingFinishes` goes.
6. Theorems: how far `RulesSync` without faults finishes a pull it began, as an
   action property; that the scans of `Dispatcher` are those of `Live`, step by step.
