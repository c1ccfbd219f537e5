# Reprise, verified

TLA+ models of [Reprise](../src/README.md), a music player and library manager
written in Rust: a GTK desktop application, an Android core over FFI, a CLI and
an MCP server around one core crate. This directory holds the models, the TLC
configurations that check them, and proofs that TLAPS checks. Code references
are relative to `src/`; `core` is `crates/reprise-core/src`, `gnome` is
`crates/reprise-gnome/src/ui`, `linux` is `crates/reprise-platform-linux/src`.

Contents: [Inventory](#inventory) · [Modules](#modules) · [Runs](#runs) ·
[Bounds](#bounds) · [Fairness](#fairness) · [Proofs](#proofs) ·
[Findings](#findings) · [Not modelled](#not-modelled) · [Plan](#plan)

## Inventory

What the system consists of, the state each part keeps, what is hard about it
and what makes it right. Parts in bold are modelled.

| Part | State | Operations and partners | What is hard | What makes it right |
|---|---|---|---|---|
| **Device sync reducer** (`core/device_sync/machine*.rs`, `ledger.rs`, `phase_transitions.rs`) | stage and index, cancel flag, failures, ledger, replaced files to delete, playlists published | one `dispatch(event) -> effects`; its owner performs the effect and answers it | every effect may fail, be cancelled or be interrupted; deletions depend on everything before them | no deletion before the playlists are right; a failed replacement keeps the old file; progress is monotone; every run ends |
| **Mirror planner** (`core/device_sync/mirror*.rs`, `transfer.rs`) | none: a function of library, inventory and a scan of the device | called before each run | inventory and device disagree after faults; names collide; several tracks share a CUE file | planning after a completed run finds nothing to do; it never removes a file somebody needs |
| **Sync driver and storage** (`gnome/device_sync/*`, `linux/device_sync.rs`) | inventory rows in SQLite, files on the device | performs effects, reports progress, cancels | two stores with no common transaction; crash, disconnect, files lost on the device | a completed run mirrors the library whatever happened before it |
| **Play queue** (`core/queue.rs`, `core/queue/snapshot.rs`) | ids, play order, playhead, repeat, shuffle, sequence revision | set, advance, peek, shuffle, enqueue, move, remove, jump, promote, restore | long sequences of edits through one level of indices | it behaves as a plain sequence with a cursor; the current entry survives every edit |
| **Scrobbling** (`core/scrobbling/queue.rs`, `gnome/scrobbling/scrobble_runtime.rs`) | durable queue per provider, submitted counter, worker generations | UI enqueues, worker thread submits and acknowledges, user disconnects and clears | a cancelled worker is still in flight; crash between submit and acknowledge; row ids are reused | a listen leaves the queue only when it was submitted or cleared |
| Up Next (`core/up_next.rs`, `gnome/playback/up_next_transport.rs`) | manual list above the play queue | take, insert, prepend, advance across both | preview for gapless playback against the later advance | the fed track is the one the advance selects |
| Player (`linux/player/*`) | GStreamer pipelines, successor, crossfade, watchdog | bus messages, about-to-finish, user commands | late bus messages of an earlier start; timeouts | a message of an old generation changes nothing |
| Playback faults (`core/playback/fault_policy.rs`) | consecutive failures | decides skip or stop | a queue whose tracks all fail | it stops instead of cycling |
| **Tag write jobs** (`core/library/tag_write_job/*`, `tag_mutation*`, `tag_edit_write_pipeline.rs`, `tag_write_lock.rs`) | jobs, files and a journal of fields in SQLite; an advisory lock; the files | claim the slot, claim a file, write it, record it, end the job, recover | file and database change in two steps; several programs write; locks are not always enforced | a settled entry says what was done; one writer at a time; nothing uncertain stays |
| Library scan and watcher (`core/library/scanner*.rs`, `watcher.rs`) | track rows, missing marks, moves | batches, reconcile, vanish, relink | files vanish and return while a scan runs | an unmounted volume deletes no row |
| **Library Doctor, its writes** (`core/library/library_doctor/write.rs`, `cleanup.rs`, `write_slot.rs`, `write_recovery.rs`) | the same journal; scans, proposals and reviews | apply a plan, cancel, undo the last cleanup, recover | partial writes, undo after further edits or undone twice | a change is undone once, and only where it was applied |
| **AI jobs** (`core/ai_jobs.rs`, `ai_staging.rs`, `ai_promotion.rs`, `reprise-cli/src/commands/worker.rs`) | job rows with leases, staged renders, files and tracks of the library | enqueue, claim, heartbeat, end, publish, save, discard, cancel, sweep | several processes share one queue and one directory; leases run out; saving takes several steps | a lease protects its holder; one live job per source; a staged render waits for the user |
| Podcasts (`core/podcasts/*`) | feeds, episodes, download claims | refresh, download, retry, cancel | claims shared by processes, retries against late completions | an episode is downloaded by one claimant, a cancelled one never completes |
| Network (`core/net/*`) | circuit breaker, rate limiter per host | admit, report | half-open probes from several threads | one probe at a time, no permanent opening |
| Change log and notifier (`core/db_change_log.rs`, `core/events`) | revision counters, subscribers | publish, observe from other processes | observation against concurrent writers | no change is missed |
| Write-back publication (`core/writeback_publish.rs`) | temporary and final file | atomic replacement of user files | crash between rename and sync | readers see the old or the new file |
| Device sync periphery (`core/device_sync/listen_report.rs`, `mobile_import.rs`, `auto_start.rs`, `device_presence.rs`, `sync_log.rs`) | listens counted on devices, presence, log | import before a run, start on connect | counters imported twice | every listen counts once |
| Caches (`core/waveform_cache.rs`, covers, spectrograms) | derived data on disk | compute, store, expire | stale entries | an entry belongs to the file it was computed from |
| Fronts (`reprise-cli`, `reprise-mcp`, `reprise-view`, GTK, `reprise-android-ffi`) | view state | call the core | callbacks and generations | stale answers are dropped |
| Stems, website, packaging | none of interest | - | - | - |

### How device sync works

A device has an **inventory** in the database (a row per delivered track, a row
per published playlist) and a managed folder. A run is inspect, plan, execute:
`start_transfer_now` scans the folder and calls `plan_mirror`, which compares
library, inventory and scan; the resulting `MirrorPlan` goes to a
`DeviceSyncMachine`. The machine is a reducer: it emits at most one effect; its
owner (`run_planned_sync`, `perform`) carries it out on the device or in the
database and dispatches the outcome. Where smart playlists are not kept up to date
("Keep smart playlists up to date" is off), the selected ones are **frozen**: their entries come from a
snapshot of track ids, and the plan is cut down before it is run
(`recompute_delta_silent`, `core/device_sync/selection.rs`): the writes of frozen playlists
that were published before and the removals of their tracks are dropped, everything else
stays. The stages are, in order: clean partial
files, transfers (transcode, copy, record), shared records of CUE tracks,
analysis sidecars, derived CUE sheets, lyrics, playlists (write, record),
obsolete playlists (remove, forget), obsolete files (remove, forget), replaced
files, the metadata list. Files and rows are never changed in one transaction,
so the next plan has to cope with every difference a failure leaves.

## Modules

| Module | Models | Extends |
|---|---|---|
| `DeviceSyncTypes` | the work items of a plan | |
| `WorkLedger` | `core/device_sync/ledger.rs` | |
| `DeviceSyncMachine` | the reducer: one action per event | the two above |
| `DeviceSyncRunProofs` | theorems about the reducer, its steps and a whole run | `DeviceSyncMachine`, `TLAPS` |
| `MirrorPlanner` | `plan_mirror` as operators on an input record | `DeviceSyncTypes` |
| `MirrorPlannerProofs` | theorems about what it plans | `MirrorPlanner`, `TLAPS` |
| `DeviceSync` | library, inventory, device and runs: planner + reducer + `perform` | `DeviceSyncMachine`, `MirrorPlanner` |
| `DeviceSyncProofs` | theorems about runs over the library and the device | `DeviceSync`, `MirrorPlannerProofs`, `DeviceSyncRunProofs` |
| `DeviceSyncCompletionProofs` | theorems about runs that come to their end | `DeviceSyncProofs` |
| `MCDeviceSyncMachine`, `MCDeviceSync` | small plans and small libraries for TLC | |

**`DeviceSyncMachine`.** `run.at` is both the reducer's `awaiting` and the
effect in flight: the code keeps them in step, one effect at a time. An action
is one arm of `dispatch`, with the stage transitions (`EnterTransfers`,
`EnterSharedRecords`, ... `Finish`) as operators on the machine's record, called
exactly where the code calls its `enter_*` methods. An event for which no arm
matches is dropped by the code; here no action is enabled. `Cancel` only sets a
flag, which the stage entries read. The error texts are left out: `failures` is
the set of failed tracks, with `Unattributed` for the sentinel -1 the code uses.

**`WorkLedger`.** Units and bytes, capped at their planned totals. The code
saturates before it caps, and the totals are themselves `u32`/`u64`, so natural
numbers give the same results.

**`MirrorPlanner`.** Tracks and playlists are numbers, since the planner breaks
ties by their order. A path is a record: kind, stem (the name from tags), collision
slot and extension; a stem stands for everything `transfer.rs` renders and
sanitises. A file's size, mtime and source path are one `version`. Slots are kept
by inventory rows (`Owners`) and given to newcomers in order (`FreeSlot`). The
closed forms replace the loops of the code: `RowMatches` is `inventory_matches`,
`Transferred`/`SharedTracks` are the result of `plan_file_changes` and
`plan_cue_file`, `Leaving`/`LeavingKind` of its removal loop, `KnownPaths` and
`Orphans` of the orphan pass. Frozen playlists show in three places: `Entries` is the snapshot,
of which only what is there is read; `ListWrites` leaves out `FrozenLists`, those the inventory
knows; `Removals` goes over `Removed`, the leaving rows without the `Captured` tracks. Everything
between them (slots, kinds of removals, orphans) sees the playlists as the code does, before the
cut. What a snapshot holds is part of the library, so the scenarios choose it.

**`DeviceSync`.** `store` holds the rows (`rows`, `listRows`) and the device
(`audio` with the content of each file, `lists`, `sidecars`). `Succeed`
performs the effect in flight and lets the reducer handle its answer;
`FailEffect` fails it, leaving the store untouched or the target deleted, as
`replace_managed` and `replace_playlist` do, or the target there after all, cut short or whole:
the deletion that cleans up a failed copy may itself fail, which is only logged, and a playlist may
fail its check after it was moved into place; `LoseSidecarRemoval` is the one failure
`perform` swallows; `RefuseCancelled` is the transport refusing work under a
cancelled token; `Interrupt` ends the run without an answer, with the effect
done, not done or, for a copy, half done under its final name. `EditLibrary`
changes what the snapshot of the next run will say. `LoseFile` deletes a file
on the device behind the program's back. `unrecorded` is history: the tracks whose file
was written since their row was, which no part of the program can tell.

| Module | Models | Extends |
|---|---|---|
| `PlayOrder` | what the play queue promises: a list with a cursor | |
| `PlayQueue` | `core/queue.rs`, `core/queue/snapshot.rs`; implements `PlayOrder` | |
| `PlayQueueProofs` | theorems about the queue | `PlayQueue`, `TLAPS` |
| `MCPlayQueue` | small lists, batches and session files for TLC | |
| `ScrobbleWorkers` | one provider's queue, runtime and worker threads | |
| `ScrobbleWorkersProofs` | theorems about the threads, the lock, the queue, and what is submitted, counted and in which order | `ScrobbleWorkers`, `TLAPS` |
| `AiJobs` | render queue, staging, workers and savers | |
| `MCAiJobs` | one name for all sources, for TLC | `AiJobs` |
| `AiJobsProofs` | theorems about them | `AiJobs`, `TLAPS` |
| `TagWriteJobs` | tag editor, Doctor writes and undo, recovery | |
| `TagWriteJobsProofs` | theorems about them | `TagWriteJobs`, `TLAPS` |
| `MCTagWrite` | three tags of two files, for TLC | `TagWriteJobs` |

**`PlayQueue`.** One action per method of `Queue` that changes it. Indices start
at 1, so that `pos = 0` is `None`. `order` holds indices of `ids`, as the code's
does; shuffling chooses any permutation the swaps can produce, with the fixed place
of the current or chosen row. Availability, a closure in the code, is a set of
tracks. `ForwardPosition` is the closed form of the scan of
`forward_matching_position`, `RemoveOrderPositions` of the two loops that close up `ids`
and renumber `order`: what is left gets its `Rank`, and the `Nth` that is left stands at n. `PlayNow` is restricted to positions behind the playhead, which is
what both callers pass (`gnome/playback/queue_edit.rs`,
`reprise-android-ffi/src/playback_session/queue_boundary.rs`). `PlayOrder` is written from
the doc comments of the methods: it has no indices, and each of its actions is a
contract ("what plays goes on playing", "the next one left plays, never an earlier
one"). The refinement maps its list to `InOrder` and its cursor to `pos`.
`Pass(available)` is where automatic advances lead from the current state when nobody
edits: the positions a pass visits, until it stops or comes round.

**`ScrobbleWorkers`.** A worker thread is a record: `at` is the next thing the thread
does (`run_worker`, `flush_pending`, `wait_for_retry`), one stop per request,
transaction, lock operation or receive; `mail` is its channel, `batch` the rows it
read. The main thread's actions are the callers of the runtime: switching the
provider on (which replaces the worker), off, disconnecting (which also clears the
queue), a listen that is queued, a track that starts, and the end and start of the
program. Row ids are what SQLite gives for an `INTEGER PRIMARY KEY` without
`AUTOINCREMENT`: one above the highest in the table. A request succeeds, fails, is
refused, or succeeds without its answer arriving. `sent`, `cleared` and `unsure` are history: who
submitted a listen, what the user cleared, and how many submissions were never recorded.

**`AiJobs`.** `jobs` are the rows of `ai_jobs`, `staging` the jobs with a render
`job-<id>.flac`, `file` and `tracks` the library below the instrumentals folder. Workers
and savers are records with the next step as `at`: `Claim`, `Heartbeat`, `MarkDone`,
`Publish` (the rename that follows the guarded `mark_done`), and the steps of `promote`
(`Begin` checks and chooses the destination, then `Copy`, `Register`, `Record`, `Drop` or
`Cleanup`), each one transaction or one file operation. The clock is kept as what is left
of each lease: `Tick` runs every lease down by one, and counts as a mishap where a live
worker is overtaken. Whether a render is saved as soon as it is done (auto-promote, and
whether a library root is set) is left open at `Publish`. A crash stands for shutdowns,
database errors and a failed rename too. Rows that have ended forget their claim, which
no query reads again. A worker that starts again has a new token in the code and claims
afresh, so its name is reused here.

**`TagWriteJobs`.** A row holds its job with one entry per tag (a file and a field of it);
the state of a file within a job follows from its entries. The editor and the Doctor are
one set of actions where they do the same (`Insert`, `ClaimFile`, `WriteFile`, `SettleFile`,
`FinishJob`) and differ in the guards: the editor claims all files, then writes them in any
order (its pool), then records them, and writes a file whole or not at all; the Doctor takes
one file after the other, writes the fields that still match, and stops at a database error.
`DraftUndo` is the loop of `revert_last_cleanup` over jobs read once. Who holds the lock is
whoever is not idle; with `Locks = FALSE` it is `Unenforceable`, as on some network
file systems. `Restart` and `Watch` are the two callers of the recovery (program start; the
poll of the slot), and a recovery judges all uncertain entries once (`Found`) and then writes
job by job. `wrote` and `touched` are history: what each job put into a file, and which
tags another hand has changed since the job was prepared.

## Runs

Properties are stated in the modules, each with its meaning above it. Every
property of a passing run is accompanied by a mutant in `PROJECT.json`, a
plausible bug in one definition that makes the run fail; mutant definitions sit
directly above the definition they replace and are used nowhere else.

| Run | Asks |
|---|---|
| `MCDeviceSyncMachine` | The reducer on its own: does a completed run account for everything, are deletions gated, is progress monotone, does cancellation stop new units, does the opening step fit, does every run end? The owner answers with any result, which includes results the real owner cannot give. |
| `MCMirror` | The composition, from several libraries, some with frozen playlists, through changes, failures, interruptions and lost files: does a completed run mirror the library, has the next plan nothing to do, is what the user keeps kept, do published playlists name files that exist? |
| `MCPlayQueue` | Does the queue, through any sequence of edits, behave as a plain list with a cursor, keep its order a permutation (also when a damaged session file is restored), and does the sequence identity change with every change of order? |
| `MCScrobbleWorkers` | Two workers, faults and a crash: is a listen lost, does one overtake another, does only one worker drain at a time, is a listen submitted twice without a lost answer? |
| `MCScrobbleAccounts` | With disconnects: does the counter equal what was recorded as submitted, does every queued listen get through as long as there is a worker, does every stopped worker end? |
| `MCAiJobs` | Two workers and a saver, with a wish of the user (cancel, discard, delete) and a mishap (crash, lapsed lease, failed save): does a lease protect its holder, has a source one live job, does a staged render stay and never return, does a job discarded during a save stay unsaved, does every job end? |
| `MCTagWrite` | Two programs, two jobs, three tags, a mishap and an edit by another hand: is what the journal settles on what was done, is a change undone once, does everything uncertain settle? |
| `MCTagUnlocked` | Where locks are not enforced: is a job under way left alone by other writers and by the recovery? |

The runs of scrobbling, render jobs and tag writing are not checked for deadlock: these
may stop whenever their users do nothing or a bound is used up.

## Bounds

* `MCDeviceSyncMachine`: three tracks, three paths, plans with up to two
  entries per stage. A stage's handler looks at one entry, the next one and the
  end of its list, so two entries show all of its transitions. Byte counts 0..2
  lie below, at and above the planned one per unit.
* `MCDeviceSync`: five tracks, the last two from one CUE file, two playlists that
  share a name, tracks that share a name (so slots matter), two profiles, two versions,
  and every name these can have on the device.
  A behaviour follows one scenario: the libraries it moves between and how many edits,
  faults, interrupts and losses it has left. `MirrorScenarios` are two edits; an
  edit and a fault; an edit of a CUE library and a fault; two edits, or an edit and a fault, with
  a frozen playlist (one of its tracks retagged or away, itself renamed, released or joined by
  another); an edit and a fault with a frozen track of a CUE file; an edit, an interruption
  and a lost file; a new version, an interruption and the way back, for a track's own
  file and for a CUE file. The sets of libraries contain one library per kind of change; the CUE
  libraries include one whose CUE file has a track in the stability margin.
  Disturbances come in any order and at any step, and the number of runs is not
  bounded, so each is followed by as many repair runs as the system likes. More
  than three disturbances, and two CUE files, are not covered.
* `MCPlayQueue`: up to four entries of two tracks, so a track occurs several times;
  `Revisions = 2` lets the counter wrap, the worst case for an identity compared
  across one step. Four entries allow an entry before, at, behind and far behind
  the playhead.
* `ScrobbleWorkers`: `MaxListens`, `MaxPlays`, `MaxWorkers`, `MaxFaults` and `MaxCrashes` are
  its bounds. Two or three listens against requests of one or two, so that a
  queue takes several requests and a batch may be shorter than the queue; two
  workers, so that a cancelled worker meets its successor; one or two faults and
  at most one crash in a behaviour, at any point. `MaxPlays`
  bounds announcements.
* `AiJobs`: two jobs of one source in a row, two workers (a straggler and the worker that
  takes over), one saver; `Lease = 1`, so that a lease has a fresh, a last and an expired
  tick. `MaxMishaps` and `MaxWishes` bound what goes wrong and what the user does.
* `TagWriteJobs`: two tags of one file and one of another, so that a file may be applied in
  part and a job may be cut between files; values 0 and 1 that plans exchange and 2 that
  only another hand writes; two jobs, enough for an apply and its undo. `MCTagUnlocked` has
  one tag and three jobs (an apply, two undos). `MaxMishaps`, `MaxEdits` bound failures and
  foreign edits; requests need a free job number.

## Fairness

`DeviceSyncMachine` assumes weak fairness of `Start` and of `Answer`: the owner
starts its machine and answers the effect it performs, whichever way
(`run_planned_sync` loops until the machine is done, and each `perform` returns an
event). Progress reports and cancels are not fair. `DeviceSync` states no liveness: that a
run ends is `EveryRunEnds` of the reducer it contains, and that its owner can always
answer is the deadlock check of `MCMirror`.

`ScrobbleWorkers` assumes weak fairness of each worker's
steps: threads are scheduled, requests end with an answer or an error (the HTTP client has
timeouts), backoffs run out. The lock needs no strong fairness here: whoever holds it
drains a bounded queue. Nothing is assumed about the user or about failures.

`AiJobs` assumes that time passes, that workers are started again after they end, go on
with what they do, and that a render ends (with a result or an error). Savers and the user
are not fair. Cancelling needs a heartbeat, about which nothing is assumed beyond that.
`TagWriteJobs` assumes weak fairness of each program's steps including its restart, and
strong fairness of `Watch`: the application polls the slot each second while it is taken
(`slot_monitor.rs`), so a lock that is free again and again is seen free. The MCP server
recovers only when it starts, and nothing more is assumed of it.

## Proofs

`DeviceSyncRunProofs` proves, for all plans, tracks, paths, playlists and byte
counts and all sequences of events:

* `TypeCorrect`: `Spec => []TypeOK`. The interesting conjunct is `IndexInPlan`: the
  index carried from one event to the next points into the list of its stage, on
  which every arm relies when it indexes the plan.
* `RemovalsGated`: `Spec => []RemovalsWaitForPlaylists`, the gate of MTP-19.

Both follow from one inductive invariant, `Inv == plan \in MirrorPlan /\ Sound(run)`,
where `Sound` is the type of the machine, its index and the gate. The gate is
inductive only together with the index (a removal stage is entered at a valid
entry) and the type (the published playlists are sources). The proof follows the
code: one lemma for each primitive step (`Await`, `Fail`, `Complete`, ...), one for each
stage entry, in the order in which stages call each other from the last to the
first, and one for each handler; `InvAlways` puts them together. The assumptions are
those named in the modules: plans are mirror plans, `NoPath` is no path,
`Unattributed` is no track, byte counts are natural numbers.

It also proves what a run says of itself from its start to its report:
`CompletionAccounted` (`CompletedMeansEverything`), `DeferredAfterRecording`
(`DeferredOnlyAfterRecording`) and `ProgressMonotone` (`ProgressNeverGoesBack`). None is
inductive: that the ledger is full when the run completes depends on every unit
completed, failed or skipped since the start. `RunInv` adds, for each stage and index, the
units that are left (`UnitsLeft`, the sum of the stages to come) and the entries of the
plan the run has behind it (`TransfersBehind`, `SharedBehind`, `ListsBehind`), all of which
were done unless something failed (`Reached`) or is blamed (`Blamed`). Between two stages
the same is said by `Settled`, and one lemma for each stage entry shows that it `Leads` from
there to a machine that is accounted for again; this is where a stage that skips its entries
has to skip their units. What is set aside for deletion (`DeferredSound`) stays warranted
because a track's new place never changes again, which needs one more assumption about
the plans the reducer is given, `PlansTransferTracksOnce`: the planner visits each desired
track once (`mirror_file_changes.rs:40`), and a plan that transferred one track to two paths
could indeed set aside the file it had just written. In the composition nothing is assumed of
plans: they are the planner's, and `TransfersOncePerFile` below proves it of them. From the same
invariant follow `CancelEndsTheRun` (`CancelStartsNoUnit`; every stage entry of a cancelled machine
finishes it) and `OpensRight` (`OpensOnItsFirstStep`; `opening_phase` and the stage entries
agree on the first list of the plan that is not empty).

`MirrorPlannerProofs` proves what the planner computes, for every library, inventory and
device over finitely many tracks, playlists and paths:

* `SlotsApart`: two wanted tracks of different files get different names, and
  `PlaylistPathsApart`: so do two selected playlists. A newcomer's slot is the free one
  whose number is its place among the newcomers of its stem. That there always is one, and a
  different one for each, is counted: a finite set lists its members once each when every
  one stands at the place that as many others precede (lemma `Listed`, for `Sorted`).
* `PlanWellFormed`: every plan is a `MirrorPlan`, as the reducer's proofs assume.
* `TransfersOncePerFile`: no track and no file is transferred twice.
* `RemovalsSpareFiles` and `ReplacedFilesAreFree`: no planned removal, and no replacement,
  takes a file that is wanted or retained; except that a replacement may take the retained
  file of a CUE track whose wanted sibling moves (see Findings).
* `DesiredArrives`: a wanted file is on the device already or the plan transfers it.

They assume what a library is: finite sets of tracks and playlists, CUE files that share
no track and are lossless throughout or not at all (`CueFilesAreDisjoint`), and that the paths are
all the names there are (`PathsAreNames`), since a slot could not be free otherwise.

`DeviceSyncProofs` proves five properties of the composition, for any library, any scenario
of edits, faults, interruptions and losses, and any number of runs: `SyncTypesHold`
(`SyncTypeOK`), `DesiredFilesAreSpared` (`DesiredFilesSurvive`), `RetainedFilesAreSpared`
(`RetainedFilesSurvive`), `PublishedListsAreThere` (`PublishedListsNameFiles`) and
`ManagedListsAreSpared` (`ManagedListsKeepTheirFiles`). Their invariant `Core` joins the two
halves:

* the reducer's `RunInv`, which a run over the planner's plan satisfies by the theorems above;
* no two rows of different files, and no two of different playlists, have one name
  (`RowsAreApart`, `ListRowsAreApart`): this is what the slots are for, and what makes a
  removal by one row harmless to all others;
* while a run is under way, `Based`: its plan was made for some state of the store and the
  library it still has, and since then a row either says what it said or what the plan has it
  say (`Basis`); and `Placed`: the paths the reducer carries are the planned ones.

`Follows` says once what any effect (done, half done or failed) may change in the store,
and `Core` is shown to survive whatever follows. The first two action properties ask of
each removal where its path comes from: the planned ones are spared by `RemovalsSpareFiles`, the
set-aside ones by `ReplacedFilesAreFree`. `PublishedListsAreThere` needs
`FilesThere`: until the playlists are written, each wanted file is there, still to come, or
known to be absent. `ManagedListsAreSpared` needs `ListsThere`, which books what
happened to each playlist: a published one has the row and at most the entries of its
plan (`ListsBooked`), and an obsolete one the run is past is gone, stale or had to stay
(`ObsoleteGone`); with the gate of `begin_removals`, nothing that a remaining playlist
names is removed. A frozen playlist that the plan does not write (`Untouched`) is not among these
playlists: for it the promise is false (see Findings). `RetainedFilesAreSpared` speaks of every row the
plan leaves (`Spared`), those of frozen tracks included. Beyond the planner's assumptions they need that tracks of one CUE
file are cut from one file (`CueTracksShareAFile`), that scenarios are made of libraries
(`ScenariosAreScenarios`) and that an effect may report no bytes (`NoBytesAreReported`).

The proof of `RetainedFilesSurvive` first failed, for a good reason: as stated it was
false, and `MCMirror` passed only because no library of its scenarios combined a stability
margin with a CUE file. Such a library is now among them, and the property says what
holds.

`DeviceSyncCompletionProofs` proves `CalmRunsComplete` (`CalmRunCompletes`): a run that meets no
fault completes, whatever earlier runs left behind. That is a statement about the planner as
much as about the reducer. In `Untroubled` nothing is held against the run; an answer that is a success
could still end it, when the plan books a shared track whose file is neither there nor transferred
(`CarriersAreTransferred`), or a playlist whose entry never arrives. `Stands` says of each stage
how far along every list of the plan such a run is, and one lemma for each stage entry and each
handler shows that it `Goes` on from there; so it reaches the end with the whole plan behind
it, and the reducer reports it as completed.

The converse, what a completed run leaves on the device, is `CompletedRunsMirror`
(`CompletedMirrors`), whatever runs failed or were cut short before it. The invariant is
`Mirrored`. A run under way either is `Spoiled`, that is something is held against it, and one lemma for each
stage entry and handler shows that it never completes; or it is `OnCourse`: for the rows,
the files, the playlists and their rows there is a predicate (`RowsAt`, `WantedThere`,
`RestLeaves`, `ListRowsAt`, `ListsAt`) that takes the number of entries the run has behind it in
each list of the plan. With all of them at 0 it says what the planner knows of the store, with all at
their ends what the property says, and each effect raises one of them. It begins with the planner: what is
neither wanted nor the file of a row that stays (`Staying`: retained, or frozen) is the file of a row that
leaves, an orphan or a replaced file, and so among what the plan takes away. The playlist conjuncts
speak of the playlists the plan writes (`Written`); one it does not is frozen and was
published before, and is left where it is unless it was renamed (`NoListMoved`). Two facts about every state keep it inductive: each path is of its
kind, so that no removal of audio reaches a playlist (`Kinds`), and the rows of one CUE file agree on
its slot (`Together`), so that planning again does not move them. From the mirror follows `CompletedRunsConverge`
(`CompletedConverges`): the same library and the store a completed run left (`Again`) give each track
and each playlist the same slot again, since a slot once owned stays owned (`RowAtItsName`,
`ListAtItsName`), so every row matches and every list the planner computes is empty. What was frozen then is frozen again
(`UntouchedAgain`), unless a frozen playlist that had to move took its row with it: the next plan may
then remove the tracks it had spared. That no sidecar is left
without its file needs the run to be calm (`SidecarsAt`): a lost removal of one goes unnoticed.

What the wanted files hold is `CompletedRunsHaveTheContent` (`CompletedContent`), from the
invariant `Told`. Between runs as within them a row tells what is in the file it names (`RowsTell`),
unless a copy onto that file was never recorded: a copy marks every track cut from its
file (`unrecorded`), and a row that names a wanted path is one of them
(`RowOfAWantedFile`). So the ghost variable covers exactly what can be wrong, and nothing else
is. A run under way knows more (`Telling`): what it copied is the library's file
(`Carries`), from the copy to the record of the last track that shares it, and nothing that is still to be
copied (`Uncarried`), which a failed copy that leaves a file behind would otherwise spoil; and the rows the planner found
as wanted are still there (`HeldRows`), so no effect of another entry rewrites them. With the
mirror of a completed run each wanted track has the row of the library's file, and `Told` says that the
file is that.

`ScrobbleWorkersProofs` proves, for any number of listens, workers, faults and crashes
and any batch size:

* `OneDrainAtATime`: `Spec => []ScrobbleTypeOK`. Its conjunct `DrainLock` is the point of the
  drain lock: the thread that reads, submits or acknowledges is the one that holds it,
  through errors, ends of threads and restarts.
* `QueueIsDurable`: if the user never disconnects, `Spec => []ListensStay`. With disconnects
  it is false (`MCScrobbleReusedId`).

`Inv == Threads /\ Records /\ Rest` splits the type into what threads touch, what the
database and the history hold, and the rest, so that a step of one thread leaves two
parts alone by inspection. A few lemmas say what the ways of rewriting one thread's record do
(`Go`, `End`, `Offline`), and each stop's lemma cites them. `ListensStay` is not inductive:
an acknowledgement deletes by id. `Kept` adds what makes that safe: ids are unique, the
batch a worker holds is still in the table (only an acknowledgement under the lock
deletes, and only `Disconnect` clears), and a batch about to be acknowledged was sent.

The same module proves the other three invariants of the two runs. `NothingTwice`
(`SubmittedOnce`) and `NothingMiscounted` (`CounterExact`) hold with disconnects, too.
`SubmittedOnce` bounds what was sent by what was lost, so its invariant `Once` has to say where
a listen is: one in a row, or in the batch of a request not yet made, was sent at most as
often as successes were lost, one in flight at most once more. `Numbered` keeps a listen to one
row from the queue to the acknowledgement, even while ids are used again. `CounterExact`
follows by counting pairs of a listen and an attempt (`Submissions`): a request adds one for
each row of its batch (lemma `NewSubmissions`, a bijection). `FirstHeardFirstSent`
(`SubmittedInOrder`) needs `Ordered`: ids follow the order of listening, and what a thread
holds is a prefix of the queue, which `pending_for` reads (lemma `PendingOldest`) and nobody
else shortens while the lock is held. It is stated without disconnects, like `QueueIsDurable`
and for the same reason.

`AiJobsProofs` proves the five safety properties of `MCAiJobs` for any sources, workers,
leases and bounds: `TypesHold` (`AiTypeOK`, with the fact that only a job that is done has a saved track), `ClaimsProtect` (`LeaseProtects`), `SourcesUnique`
(`OneLivePerSource`), `RendersWait` (`StagedUntilDecided`) and `NoResurrection`
(`PublishedOnce`). The invariant behind them says who may be where: an owner's lease and
age add up, whoever is about to publish is the only one whose job is done and was never
published, a save under way is of a published job, whoever is about to drop a staged
render has saved it. `OneLivePerSource` holds because both ways to become live are
guarded, by the lookup of `Enqueue` and by the unique index at `Record`.

`TagWriteJobsProofs` proves `SlotKept` (`SlotHeld`), `Truthful` (`WritesRecorded`),
`UndoOnce` (`UndoneOnce`) and `TypesHold` for any tags, values, plans, writers and bounds and
for both values of `Locks`. `WritesRecorded` is not inductive, because what a journal settles on
is decided before it is recorded. `Journal` says what the file of an unsettled, untouched entry
holds: the new value where the job wrote it, the old one where not, and the two differ; so a
recovery that reads the file reads what happened (lemma `Reads`). `Runners` says what each
writer carries from one step to the next: what it noted of each file agrees with what it
wrote, an undo that is drawn up names entries of a cleanup, and what a recovery has found is
still open. `Alone` (one writer where locks are enforced, and no recovery where they are not)
and `SlotHeld` keep others from recording in between.

`PlayQueueProofs` proves all four properties of `MCPlayQueue`, for queues of any length, any
lists, batches and session files and any counter that has two values. `OrderStaysAPermutation`
(`QueueTypeOK`) is its own inductive invariant. Its hard step is the removal: the positions
left and the numbers left are equally many because the order is onto (`OrderIsOnto`), and
renumbering is one-to-one because `Nth` undoes `Rank` (`NthOfRank`); `RemovalResult` says what
the queue is afterwards. `NoOrderIsTakenForAnother` is `RevisionTellsOrders`.
`QueueIsAList` (`ImplementsPlayOrder`) is the refinement, step by step: loading is `Load`,
advancing and jumping `Seek`, shuffling `Reorder`, appending and queueing `Insert`, `MoveItem`
is `Move`, `PlayNow` is `Promote` or, for the next entry, `Seek`, the removals are `Delete` and
a restored session is `Recall`. Two lemmas carry it: to insert into the order and the entries is to insert
into the list they play (`InsertedPlays`), and so for moving (`MovedPlays`); where an entry comes
from is `Origin`. `PassesVisitEverything` (`PassesVisitWhatPlays`) is about a recursive
function. That the function exists and what it visits is shown by counting up (`CountingUp`,
a least counterexample instead of an induction theorem): without repeat the pass climbs past each
entry it has not visited, and with Repeat::All its n-th stop is the n-th entry that can be opened
counted round from the playhead (`PassGoesRound`). The assumptions are those of the module:
lists and batches are lists of tracks, batches are not empty, a session file has fields of the
right types.

Left to TLC: liveness and everything with `ENABLED`, which the prover does not
handle. Every other property of a passing run is a theorem.

## Findings

Each is a run that TLC must find violated by what the code does.

| Run | The code | What is said |
|---|---|---|
| `MCTruncatedFile` | A copy goes straight to its final name; cut short while an older row still describes the file, it counts as delivered for good (`linux/device_sync.rs:397`). | MTP-21 |
| `MCScrobbleReusedId` | A worker's request is in flight when the user disconnects, which clears the table; the first listen of the next connection reuses a row id, and the late acknowledgement deletes it unsubmitted (`core/scrobbling/queue.rs:113`). | "durable, token-free FIFO for completed ListenBrainz listens" (`core/db_schema_baseline.rs:91`) |
| `MCAiSaved` | Two tracks of one name are saved at the same time: both saves find the same path free, the second copy overwrites the first render, and both jobs are saved to it (`core/ai_promotion.rs:456`). | such tracks "must not resolve to the same file, or the second `fs::copy` would clobber the first render" (`core/ai_promotion.rs:446`) |
| `MCTagStuck` | A job that is prepared or running with nothing uncertain in its journal (all in conflict when prepared, or cut short right before its last UPDATE) is not selected by the recovery, and holds the slot against every later write (`core/library/tag_write_job/recovery.rs:161`). | the test of `tag_write_slot_tests.rs:89` expects `Free` after a look at an orphan; "a single stuck job holds the global tag-write slot, so every later edit in the session is refused as busy" (`tag_file_write_pool.rs:50`) |

The passing run `MCMirror` shows what remains true next to this: a wanted file is whole and the
one the library has, unless a copy onto it was never recorded (`unrecorded`). Such a copy needs
no cut to be wrong: when a run is interrupted between a copy and its row and the library then
goes back to the file the row describes, the newer file counts as delivered. `CompletedContent`
was first stated without that exception, and held in the run for want of a library that goes
back; the attempt to prove it showed the case, and the two `revert` scenarios now contain it.

Other behaviour met while modelling that no run pins down:

* The switch "Remove from phone when removed from a playlist" has no effect. MTP-33
  (`docs/ux-rules.md:1175`) says "Switched off, the file stays", and the test at
  `core/device_sync/delta.rs:109` expects it of `compute_delta`; but only tests call that function, and
  `plan_mirror`, which every run uses, never reads `remove_deleted`. `CompletedMirrors` states
  what the planner does: what left the selection goes either way.
* With live updates off, a published frozen playlist is never written again, but a retagged track
  of it is still copied to its new place and the old file removed (`selection.rs:33` drops the
  write and keeps `replace`): the playlist names a file that is gone, although MTP-19
  (`docs/ux-rules.md:1022`) has it that "a published playlist names only files the device really has".
  `ManagedListsKeepTheirFiles` leaves such playlists out. One whose own file was lost on the device
  is not written again either.
* A frozen published playlist that is renamed is removed under its old path, and the write under the
  new one is dropped. It is missing until the next run, which finds it unpublished and writes it; and where no other
  frozen playlist is published, that run spares no track any more (`selection.rs:30`), so files of its
  tracks that are away go.
* A frozen track of a CUE file loses that file when a sibling that is not frozen leaves and its
  removal is the one that deletes (`selection.rs:46` keeps removals apart by track, `LeavingKind`
  made one of them delete for all). `RetainedFilesSurvive` leaves that case out. The analysis
  sidecar of a frozen track's kept file goes as an orphan.
* A playlist file written but never recorded is not known to the removal gate: the files it
  names go before it does, as an orphan (`machine.rs:554`). `ManagedListsKeepTheirFiles`
  therefore speaks of the playlists the inventory knows.
* A playlist entry whose library file is away is rendered from its row without asking whether
  the device still has the file (`mirror.rs:639`), so `PublishedListsNameFiles` concerns the
  wanted entries.
* Replacing the file of a CUE track deletes the earlier file although a sibling in the
  stability margin still has its row there (`machine.rs:246`), although "A file another row
  still needs stays on the device" (`mirror_file_changes.rs:101`). `RetainedFilesSurvive`
  leaves out the rows whose file a wanted sibling replaces.
* A cancel during a transcode is still followed by an emitted `CopyTrack` (`machine.rs:204`),
  which the transport refuses, although `machine.rs:14` says the machine stops emitting work.
* After a profile change, removing the replaced audio deletes the sidecar at the stem the two
  files share (`gnome/device_sync/device_sync_effects.rs:433`); the next run writes it again.
* A cancelled scrobble worker in its drain loop does not look at the flag and submits what is
  queued for the next connection with the old credential (`scrobble_runtime.rs:275`).
* `enqueue_one` looks only at the first finished and unsaved job of a source: when that one
  was saved and its track deleted again, a later render that still waits in staging does not
  stop another render of the same work (`ai_jobs.rs:341`, against `ai_jobs.rs:30`).
* A worker that dies between `mark_done` and the rename leaves a finished job without a
  render, and its `.partial` file is never swept (`ai_promotion.rs:275`).
* A save whose attached row was discarded meanwhile leaves a library track no job names
  (`ai_jobs.rs:633` changes only rows that are done).

## Not modelled

Within device sync: sizes, free space and warnings; letter case of paths (the code
folds it); unsafe paths; lyrics and derived CUE sheets in the composition (the
reducer has their stages); the metadata list in the composition; `.part` files and
their clean-up; library changes during a run; rows deleted with their tracks; the
listen report and mobile import that precede a run; the prefetch of transcodes; two
devices at once (runs share no state but the database).

Within the play queue: queries that change nothing. Within scrobbling: the status
shown with its generation filter, the keyring's asynchronous calls, the rules for
when a track counts as heard, deletion of the module by `disable_module`, a poisoned lock. Within render jobs: progress, diagnostics and batches; tracks that
lose their source (the index then allows any number); the library watcher, which may register
or forget a saved file on its own; provisioning and the separation itself. Within tag writing:
containers and their repair (`strip_and_rewrite_tag`); a failure that reports the file as written
although nothing is known of it, which is journaled as applied (a repair that fails,
`tag_mutation_commit.rs:38`; a writer of the pool that panics before, during or after its save,
`tag_file_write_pool.rs:92`), so `WritesRecorded` says nothing of these two; a save
that fails half-way through a file; reconciliation of track rows (its failure leaves the same entries), ratings, the Doctor's
scans and reviews, and the momentary lock of `probe`.

Outside: the parts of the inventory not in bold. Pure I/O and presentation
(GTK widgets, formatting, HTTP parsing, audio decoding) stay out for good.

## Plan

Done in this order: types, ledger and reducer, its proofs; planner; composition; play
queue with its abstract list; scrobbling and its proofs; render jobs and their proofs; tag
write jobs and their proofs; a run's account of itself; the order and count of what is
scrobbled; the play queue's proofs; the planner's proofs; those of the composition.

Next, models:

1. An abstract mirror (a device either mirrors the library or is being repaired)
   implemented by `DeviceSync`; library changes during a run with the dirty flag;
   late answers of a replaced run (`is_current_run`).
2. `PodcastDownloads`: claims shared by processes, retries, late completions.
3. `UpNext` over `PlayQueue`: preview against advance, promotion, removal.
4. `NetBreaker`: half-open probes; `FaultPolicy`: consecutive failures.
5. `ChangeLog`: revisions observed by another process.

Of the present models nothing is left to prove but liveness, which the prover cannot do; a new
module brings its own.
