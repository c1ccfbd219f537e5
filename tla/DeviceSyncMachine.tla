------------------------- MODULE DeviceSyncMachine -------------------------
(***************************************************************************)
(* The reducer that owns one synchronization run of one device:            *)
(* `DeviceSyncMachine` of crates/reprise-core/src/device_sync/machine.rs,  *)
(* machine_sidecars.rs and machine_types.rs.                               *)
(*                                                                         *)
(* The code is a function dispatch(event) -> effects.  At most one effect  *)
(* is in flight, and `awaiting` names it, so here run.at stands for both:  *)
(* the state the reducer waits in and the work its owner is performing.    *)
(* One action is one arm of dispatch.  An event that matches no arm is     *)
(* ignored by the code; here no action is enabled for it.                  *)
(*                                                                         *)
(* Paths, tracks and playlist sources are opaque.  `failures` is a set:    *)
(* the code keeps a vector that finish() sorts and deduplicates.  Indices  *)
(* start at 1 where the code's start at 0.                                 *)
(***************************************************************************)
EXTENDS DeviceSyncTypes, WorkLedger

CONSTANTS
  Plans,          \* the mirror plans a run may be given
  Bytes           \* byte counts the owner may report

ASSUME PlansAreMirrorPlans == Plans \subseteq MirrorPlan
ASSUME BytesAreNatural == Bytes \subseteq Nat
\* The planner visits each desired track id once (mirror_file_changes.rs:40-52).
ASSUME PlansTransferTracksOnce ==
  \A p \in Plans : \A j, k \in DOMAIN p.transfers :
    p.transfers[j].track = p.transfers[k].track => j = k

VARIABLES
  plan,   \* the plan of the current run
  run     \* the state of the reducer

machineVars == <<plan, run>>

Stages ==
  {"start", "partials", "transcode", "copy", "recordFile", "recordShared",
   "writeAnalysis", "writeCue", "writeLyrics", "writeList", "recordList",
   "removeList", "forgetList", "removeTrack", "forgetFile",
   "removeReplaced", "writeMetadata", "done"}

\* PlannedSyncPhase, by the step it names.
Phases == {"idle", "removing", "transcoding", "copying", "writingAnalysis",
           "writingLyrics", "writingPlaylists", "writingMetadata", "finishing"}

Outcomes == {"none", "completed", "cancelled", "failed"}

Machine ==
  [at : [stage : Stages, index : Nat],
   phase : Phases,
   cancelled : BOOLEAN,
   terminalError : BOOLEAN,
   failures : SUBSET (Track \cup {Unattributed}),
   absent : SUBSET Path,
   ledger : Ledger,
   metadata : BOOLEAN,                 \* writes_track_metadata_list
   copiedBytes : Nat,
   copiedPath : PathOrNone,
   transcoded : BOOLEAN,               \* transcoded_bytes is Some
   transcodedBytes : Nat,
   deferred : Seq([path : Path, track : Track]),
   carried : [Track -> PathOrNone],    \* copied_files
   sharedPath : PathOrNone,
   published : SUBSET Source,          \* successful_playlist_sources
   staleList : BOOLEAN,
   outcome : Outcomes,
   verified : SUBSET Source]

\* The list each stage walks through, by its length.
StageLength(m) ==
  CASE m.at.stage \in {"transcode", "copy", "recordFile"} -> Len(plan.transfers)
    [] m.at.stage = "recordShared" -> Len(plan.shared)
    [] m.at.stage = "writeAnalysis" -> Len(plan.analysis)
    [] m.at.stage = "writeCue" -> Len(plan.cues)
    [] m.at.stage = "writeLyrics" -> Len(plan.lyrics)
    [] m.at.stage \in {"writeList", "recordList"} -> Len(plan.lists)
    [] m.at.stage \in {"removeList", "forgetList"} -> Len(plan.listRemovals)
    [] m.at.stage \in {"removeTrack", "forgetFile"} -> Len(plan.removals)
    [] m.at.stage = "removeReplaced" -> Len(m.deferred)
    [] OTHER -> 0

\* The index the reducer carries from one event to the next points into the
\* list of its stage, which every arm relies on when it indexes the plan.
IndexInPlan(m) ==
  m.at.index \in (IF m.at.stage \in {"start", "partials", "writeMetadata", "done"}
                  THEN {0} ELSE 1..StageLength(m))

TypeOK == plan \in MirrorPlan /\ run \in Machine /\ IndexInPlan(run)

-----------------------------------------------------------------------------
(* What the plan says.                                                     *)

PlannedSources == {plan.lists[k].source : k \in DOMAIN plan.lists}

WorkUnits(p, metadata) ==
  Len(p.transfers) + Len(p.analysis) + Len(p.lyrics) + Len(p.cues)
  + Len(p.lists) + Len(p.listRemovals) + Len(p.removals)
  + (IF metadata THEN 1 ELSE 0)

\* The machine before Event::Start: new() and with_track_metadata_list().
NewMachine(p, metadata) ==
  [at |-> [stage |-> "start", index |-> 0],
   phase |-> "idle",
   cancelled |-> FALSE,
   terminalError |-> FALSE,
   failures |-> {},
   absent |-> {},
   ledger |-> NewLedger(WorkUnits(p, metadata), p.bytes),
   metadata |-> metadata,
   copiedBytes |-> 0,
   copiedPath |-> NoPath,
   transcoded |-> FALSE,
   transcodedBytes |-> 0,
   deferred |-> <<>>,
   carried |-> [t \in Track |-> NoPath],
   sharedPath |-> NoPath,
   published |-> {},
   staleList |-> FALSE,
   outcome |-> "none",
   verified |-> {}]

-----------------------------------------------------------------------------
(* Steps the handlers are made of, as functions of the machine's state.    *)

Await(m, stage, index) == [m EXCEPT !.at = [stage |-> stage, index |-> index]]
Show(m, phase) == [m EXCEPT !.phase = phase]
Begin(m, bytes) == [m EXCEPT !.ledger = BeginUnit(@, bytes)]
Complete(m, bytes) == [m EXCEPT !.ledger = CompleteUnit(@, bytes)]
Fail(m, track) == [m EXCEPT !.failures = @ \cup {track}]
FailPlaylist(m) == Fail(m, Unattributed)
StopStage(m) == [m EXCEPT !.terminalError = TRUE]

FailUnpublished(m, k) ==
  [Fail(m, plan.transfers[k].track) EXCEPT
     !.absent = @ \cup {plan.transfers[k].path}]

\* `count` units are passed over without any work: each completes with 0 bytes.
SkipUnits(m, count) ==
  IF count = 0 THEN m
  ELSE [m EXCEPT
          !.ledger.bytes = AtMost(@ + m.ledger.unit, m.ledger.bytesTotal),
          !.ledger.done = AtMost(@ + count, m.ledger.total),
          !.ledger.unit = 0,
          !.ledger.unitTotal = 0]

Finish(m) ==
  LET clean == ~m.terminalError /\ m.failures = {} /\ ~m.cancelled
  IN  [Await(m, "done", 0) EXCEPT
         !.phase = IF clean THEN "finishing" ELSE "idle",
         !.outcome = IF clean THEN "completed"
                     ELSE IF m.cancelled THEN "cancelled" ELSE "failed",
         !.verified = IF clean THEN PlannedSources
                      ELSE IF m.cancelled THEN {} ELSE m.published]

EnterTrackMetadataList(m) ==
  IF m.metadata
  THEN Await(Show(Begin(m, 0), "writingMetadata"), "writeMetadata", 0)
  ELSE Finish(m)

EnterDeferredRemovals(m, from) ==
  IF m.cancelled THEN Finish(m)
  ELSE IF from > Len(m.deferred) THEN EnterTrackMetadataList(m)
  ELSE Await(Show(m, "removing"), "removeReplaced", from)

\* Mutant: the stage is entered without looking at the cancel flag.
EnterRemovalsUncancelled(m, from) ==
  IF from > Len(plan.removals) THEN EnterDeferredRemovals(m, 1)
  ELSE IF plan.removals[from].kind = "unshared"
       THEN Await(Begin(m, 0), "forgetFile", from)
       ELSE Await(Show(Begin(m, 0), "removing"), "removeTrack", from)

EnterRemovals(m, from) ==
  IF m.cancelled THEN Finish(m)
  ELSE IF from > Len(plan.removals) THEN EnterDeferredRemovals(m, 1)
  ELSE IF plan.removals[from].kind = "unshared"
       THEN Await(Begin(m, 0), "forgetFile", from)
       ELSE Await(Show(Begin(m, 0), "removing"), "removeTrack", from)

\* Mutant: the gate looks at the rewritten playlists and not at the obsolete ones.
BeginRemovalsDespiteStaleLists(m) ==
  IF m.cancelled \/ ~(PlannedSources \subseteq m.published)
  THEN Finish(m)
  ELSE EnterRemovals(m, 1)

\* The gate in front of the removal stage.
BeginRemovals(m) ==
  IF m.cancelled \/ ~(PlannedSources \subseteq m.published) \/ m.staleList
  THEN Finish(m)
  ELSE EnterRemovals(m, 1)

\* A playlist still mirrored whose write failed keeps its older file.
ListMayGo(m, k) ==
  \/ plan.listRemovals[k].source \notin PlannedSources
  \/ plan.listRemovals[k].source \in m.published

EnterPlaylistRemovals(m, from) ==
  LET end == Len(plan.listRemovals)
      ready == {k \in from..end : ListMayGo(m, k)}
  IN  IF m.cancelled THEN Finish(m)
      ELSE IF ready = {}
           THEN BeginRemovals(SkipUnits(m, Len(plan.listRemovals) + 1 - from))
           ELSE Await(Show(Begin(SkipUnits(m, Least(ready) - from), 0), "removing"),
                      "removeList", Least(ready))

EnterPlaylistWrites(m, from) ==
  IF m.cancelled THEN Finish(m)
  ELSE IF from > Len(plan.lists) THEN EnterPlaylistRemovals(m, 1)
  ELSE Await(Show(Begin(m, 0), "writingPlaylists"), "writeList", from)

EnterLyricsWrites(m, from) ==
  IF m.cancelled THEN Finish(m)
  ELSE IF from > Len(plan.lyrics) THEN EnterPlaylistWrites(m, 1)
  ELSE Await(Show(Begin(m, plan.lyrics[from].bytes), "writingLyrics"),
             "writeLyrics", from)

\* A sheet for audio that never arrived is passed over.
EnterCueWrites(m, from) ==
  LET ready == {k \in from..Len(plan.cues) : plan.cues[k].audio \notin m.absent}
  IN  IF m.cancelled THEN Finish(m)
      ELSE IF ready = {}
           THEN EnterLyricsWrites(SkipUnits(m, Len(plan.cues) + 1 - from), 1)
           ELSE Await(Show(Begin(SkipUnits(m, Least(ready) - from),
                                 plan.cues[Least(ready)].bytes), "copying"),
                      "writeCue", Least(ready))

EnterAnalysisWrites(m, from) ==
  IF m.cancelled THEN Finish(m)
  ELSE IF from > Len(plan.analysis) THEN EnterCueWrites(m, 1)
  ELSE Await(Show(Begin(m, plan.analysis[from].bytes), "writingAnalysis"),
             "writeAnalysis", from)

\* Where a shared record's file is: already on the device, or copied by this run.
PlacedAt(m, k) ==
  IF plan.shared[k].resident THEN plan.shared[k].path
  ELSE m.carried[plan.shared[k].carrier]

FailTracks(m, tracks) == [m EXCEPT !.failures = @ \cup tracks]

\* Records whose file never arrived fail, and use no unit of the ledger.
EnterSharedRecords(m, from) ==
  LET end == Len(plan.shared)
      placed == {k \in from..end : PlacedAt(m, k) # NoPath}
      lost(upto) == {plan.shared[k].track : k \in from..upto}
  IN  IF m.cancelled THEN Finish(m)
      ELSE IF placed = {} THEN EnterAnalysisWrites(FailTracks(m, lost(end)), 1)
      ELSE [Await(FailTracks(m, lost(Least(placed) - 1)),
                  "recordShared", Least(placed))
              EXCEPT !.sharedPath = PlacedAt(m, Least(placed))]

StartCopy(m, k) ==
  Await(Show(Begin(m, IF m.transcoded THEN m.transcodedBytes
                      ELSE plan.transfers[k].bytes), "copying"),
        "copy", k)

EnterTransfers(m, from) ==
  LET fresh == [m EXCEPT !.transcoded = FALSE, !.transcodedBytes = 0,
                         !.copiedBytes = 0, !.copiedPath = NoPath]
  IN  IF m.cancelled THEN Finish(m)
      ELSE IF from > Len(plan.transfers) THEN EnterSharedRecords(m, 1)
      ELSE IF plan.transfers[from].transcode
           THEN Await(Show(Begin(fresh, 0), "transcoding"), "transcode", from)
           ELSE StartCopy(fresh, from)

Defer(m, path, track) ==
  [m EXCEPT !.deferred = Append(@, [path |-> path, track |-> track])]

\* Mutant: the earlier file goes without asking who else names it.
DeferSharedPreviousUnasked(m, k) ==
  IF plan.shared[k].previous \in {NoPath, m.sharedPath} THEN m
  ELSE Defer(m, plan.shared[k].previous, plan.shared[k].track)

\* A recorded CUE track's own earlier file goes unless something names it.
DeferSharedPrevious(m, k) ==
  LET previous == plan.shared[k].previous
      stillNamed == \/ previous = m.sharedPath
                    \/ previous \in plan.desired
                    \/ \E d \in DOMAIN m.deferred : m.deferred[d].path = previous
  IN  IF previous = NoPath \/ stillNamed THEN m
      ELSE Defer(m, previous, plan.shared[k].track)

-----------------------------------------------------------------------------
(* The handlers.  `ok` is the result the owner reports.                    *)

Awaiting(stage) == run.at.stage = stage
Index == run.at.index
Handle(m) == run' = m /\ UNCHANGED plan

\* Mutant: the sidecar stages are forgotten.
OpeningPhaseOfAudioAndLists ==
  IF plan.transfers # <<>>
  THEN IF plan.transfers[1].transcode THEN "transcoding" ELSE "copying"
  ELSE IF plan.lists # <<>> THEN "writingPlaylists"
  ELSE IF plan.listRemovals # <<>> \/ plan.removals # <<>> THEN "removing"
  ELSE IF run.metadata THEN "writingMetadata" ELSE "removing"

\* The step a run shows while partial files are cleaned, before its first work.
OpeningPhase ==
  CASE plan.transfers # <<>> ->
         IF plan.transfers[1].transcode THEN "transcoding" ELSE "copying"
    [] plan.transfers = <<>> /\ plan.analysis # <<>> -> "writingAnalysis"
    [] plan.transfers = <<>> /\ plan.analysis = <<>> /\ plan.cues # <<>> -> "copying"
    [] plan.transfers = <<>> /\ plan.analysis = <<>> /\ plan.cues = <<>>
       /\ plan.lyrics # <<>> -> "writingLyrics"
    [] OTHER ->
         IF plan.lists # <<>> THEN "writingPlaylists"
         ELSE IF plan.listRemovals # <<>> \/ plan.removals # <<>> THEN "removing"
         ELSE IF run.metadata THEN "writingMetadata" ELSE "removing"

Start ==
  /\ Awaiting("start")
  /\ Handle(Await(Show(run, OpeningPhase), "partials", 0))

Cancel ==
  /\ Handle([run EXCEPT !.cancelled = TRUE])

CopyProgress(bytes) ==
  /\ run.at.stage \in {"copy", "writeAnalysis", "writeCue", "writeLyrics"}
  /\ Handle([run EXCEPT !.ledger = ObserveUnitBytes(@, bytes)])

PartialsCleaned(ok) ==
  /\ Awaiting("partials")
  /\ Handle(IF ok THEN EnterTransfers(run, 1) ELSE Finish(StopStage(run)))

Transcoded(ok, bytes) ==
  /\ Awaiting("transcode")
  /\ Handle(IF ok
            THEN StartCopy([run EXCEPT !.transcoded = TRUE,
                                       !.transcodedBytes = bytes], Index)
            ELSE EnterTransfers(Complete(FailUnpublished(run, Index), 0),
                                Index + 1))

TrackCopied(ok, bytes, path) ==
  /\ Awaiting("copy")
  /\ Handle(IF ok
            THEN Await([run EXCEPT !.copiedBytes = bytes, !.copiedPath = path],
                       "recordFile", Index)
            ELSE EnterTransfers(
                   Complete(IF run.cancelled THEN run
                            ELSE FailUnpublished(run, Index), 0),
                   Index + 1))

\* Mutant: the tracks that share the file never learn where it went.
RecordedUncarried(m, k) ==
  LET transfer == plan.transfers[k]
      moved == transfer.previous # NoPath /\ transfer.previous # m.copiedPath
  IN  IF moved THEN Defer(m, transfer.previous, transfer.track) ELSE m

\* The row of the copied file, and what recording it leaves to be deleted.
Recorded(m, k) ==
  LET transfer == plan.transfers[k]
      moved == transfer.previous # NoPath /\ transfer.previous # m.copiedPath
  IN  [IF moved THEN Defer(m, transfer.previous, transfer.track) ELSE m
        EXCEPT !.carried[transfer.track] = m.copiedPath]

\* Mutant: a row that could not be written is passed over in silence.
FileRecordedSilently(ok) ==
  /\ Awaiting("recordFile")
  /\ LET recorded == IF ok THEN Recorded(run, Index) ELSE run
         settled == [recorded EXCEPT !.copiedPath = NoPath, !.copiedBytes = 0]
     IN  Handle(EnterTransfers(Complete(settled, run.copiedBytes), Index + 1))

FileRecorded(ok) ==
  /\ Awaiting("recordFile")
  /\ LET recorded ==
           IF ok THEN Recorded(run, Index)
           ELSE Fail(run, plan.transfers[Index].track)
         settled == [recorded EXCEPT !.copiedPath = NoPath, !.copiedBytes = 0]
     IN  Handle(EnterTransfers(Complete(settled, run.copiedBytes), Index + 1))

SharedFileRecorded(ok) ==
  /\ Awaiting("recordShared")
  /\ LET recorded == IF ok THEN DeferSharedPrevious(run, Index)
                     ELSE Fail(run, plan.shared[Index].track)
     IN  Handle(EnterSharedRecords([recorded EXCEPT !.sharedPath = NoPath],
                                   Index + 1))

\* Mutant: the stage is entered again at the sidecar just written.
AnalysisWrittenAgain(ok, bytes) ==
  /\ Awaiting("writeAnalysis")
  /\ Handle(EnterAnalysisWrites(IF ok THEN Complete(run, bytes)
                                ELSE Complete(StopStage(run), 0), Index))

AnalysisWritten(ok, bytes) ==
  /\ Awaiting("writeAnalysis")
  /\ Handle(EnterAnalysisWrites(IF ok THEN Complete(run, bytes)
                                ELSE Complete(StopStage(run), 0), Index + 1))

DerivedCueWritten(ok, bytes) ==
  /\ Awaiting("writeCue")
  /\ Handle(EnterCueWrites(IF ok THEN Complete(run, bytes)
                           ELSE Complete(Fail(run, plan.cues[Index].track), 0),
                           Index + 1))

LyricsWritten(ok, bytes) ==
  /\ Awaiting("writeLyrics")
  /\ Handle(EnterLyricsWrites(IF ok THEN Complete(run, bytes)
                              ELSE Complete(StopStage(run), 0), Index + 1))

PlaylistWritten(ok) ==
  /\ Awaiting("writeList")
  /\ Handle(IF ok THEN Await(run, "recordList", Index)
            ELSE EnterPlaylistWrites(Complete(FailPlaylist(run), 0), Index + 1))

\* Mutant: the playlist is booked under its path instead of its source.
PlaylistRecordedByPath(ok) ==
  /\ Awaiting("recordList")
  /\ LET recorded ==
           IF ok THEN [run EXCEPT !.published = @ \cup {plan.lists[Index].path}]
           ELSE FailPlaylist(run)
     IN  Handle(EnterPlaylistWrites(Complete(recorded, 0), Index + 1))

PlaylistRecorded(ok) ==
  /\ Awaiting("recordList")
  /\ LET recorded ==
           IF ok
           THEN [run EXCEPT !.published = @ \cup {plan.lists[Index].source}]
           ELSE FailPlaylist(run)
     IN  Handle(EnterPlaylistWrites(Complete(recorded, 0), Index + 1))

PlaylistRemoved(ok) ==
  /\ Awaiting("removeList")
  /\ Handle(
       IF ~ok
       THEN EnterPlaylistRemovals(
              Complete(FailPlaylist([run EXCEPT !.staleList = TRUE]), 0),
              Index + 1)
       ELSE IF plan.listRemovals[Index].source \in PlannedSources
            THEN EnterPlaylistRemovals(Complete(run, 0), Index + 1)
            ELSE Await(run, "forgetList", Index))

PlaylistForgotten(ok) ==
  /\ Awaiting("forgetList")
  /\ Handle(EnterPlaylistRemovals(
              Complete(IF ok THEN run ELSE FailPlaylist(run), 0), Index + 1))

\* An orphan's track is the sentinel the code falls back to.
TrackRemoved(ok) ==
  /\ Awaiting("removeTrack")
  /\ Handle(
       IF ~ok
       THEN EnterRemovals(Complete(Fail(run, plan.removals[Index].track), 0),
                          Index + 1)
       ELSE IF plan.removals[Index].kind = "orphan"
            THEN EnterRemovals(Complete(run, 0), Index + 1)
            ELSE Await(run, "forgetFile", Index))

FileForgotten(ok) ==
  /\ Awaiting("forgetFile")
  /\ Handle(EnterRemovals(
              Complete(IF ok THEN run ELSE Fail(run, plan.removals[Index].track),
                       0),
              Index + 1))

ReplacedFileRemoved(ok) ==
  /\ Awaiting("removeReplaced")
  /\ Handle(EnterDeferredRemovals(
              IF ok THEN run ELSE Fail(run, run.deferred[Index].track),
              Index + 1))

TrackMetadataListWritten(ok) ==
  /\ Awaiting("writeMetadata")
  /\ Handle(Finish(Complete(IF ok THEN run ELSE StopStage(run), 0)))

-----------------------------------------------------------------------------
(* The machine on its own: its owner answers each effect with any result.  *)

Answer ==
  \/ \E ok \in BOOLEAN :
       \/ PartialsCleaned(ok) \/ FileRecorded(ok) \/ SharedFileRecorded(ok)
       \/ PlaylistWritten(ok) \/ PlaylistRecorded(ok)
       \/ PlaylistRemoved(ok) \/ PlaylistForgotten(ok)
       \/ TrackRemoved(ok) \/ FileForgotten(ok)
       \/ ReplacedFileRemoved(ok) \/ TrackMetadataListWritten(ok)
       \/ \E bytes \in Bytes :
            \/ Transcoded(ok, bytes)
            \/ AnalysisWritten(ok, bytes)
            \/ DerivedCueWritten(ok, bytes)
            \/ LyricsWritten(ok, bytes)
            \/ \E path \in Path : TrackCopied(ok, bytes, path)

Init == \E p \in Plans, metadata \in BOOLEAN :
          plan = p /\ run = NewMachine(p, metadata)

Next ==
  \/ Start
  \/ Answer
  \/ Cancel
  \/ \E bytes \in Bytes : CopyProgress(bytes)

Spec == Init /\ [][Next]_machineVars

\* The owner starts its machine and answers every effect it performs.
FairSpec == Spec /\ WF_machineVars(Start) /\ WF_machineVars(Answer)

-----------------------------------------------------------------------------
(* Properties.                                                             *)

\* A run reported as completed accounts for every unit its ledger planned, and
\* really recorded every transfer, every shared row and every playlist: no
\* handler and no skipped entry loses a unit or a failure on the way.
CompletedMeansEverything ==
  run.outcome = "completed" =>
    /\ run.ledger.done = run.ledger.total
    /\ \A k \in DOMAIN plan.transfers :
         run.carried[plan.transfers[k].track] # NoPath
    /\ \A k \in DOMAIN plan.shared : PlacedAt(run, k) # NoPath
    /\ run.published = PlannedSources
    /\ run.absent = {} /\ ~run.staleList

\* Files are deleted only once no playlist can name them in an outdated form:
\* every planned playlist was rewritten and recorded in this run and no obsolete
\* one was left behind, whatever failed or was skipped before (MTP-19).
RemovalsWaitForPlaylists ==
  run.at.stage \in {"removeTrack", "forgetFile", "removeReplaced"} =>
    PlannedSources \subseteq run.published /\ ~run.staleList

\* A path is set aside for deletion only by a track whose new file this run
\* recorded elsewhere, so a failed replacement never costs the old file.
DeferredOnlyAfterRecording ==
  \A d \in DOMAIN run.deferred :
    \/ \E k \in DOMAIN plan.transfers :
         /\ plan.transfers[k].track = run.deferred[d].track
         /\ plan.transfers[k].previous = run.deferred[d].path
         /\ run.carried[run.deferred[d].track] \notin {NoPath, run.deferred[d].path}
    \/ \E k \in DOMAIN plan.shared :
         /\ plan.shared[k].track = run.deferred[d].track
         /\ plan.shared[k].previous = run.deferred[d].path
         /\ plan.shared[k].previous \notin plan.desired

\* Within one run the progress the user sees never goes back and never passes
\* its total, also when a copy that reported bytes fails afterwards.
ProgressNeverGoesBack ==
  [][ /\ run'.ledger.done \in run.ledger.done..run.ledger.total
      /\ BytesDone(run'.ledger) \in BytesDone(run.ledger)..run.ledger.bytesTotal
    ]_machineVars

\* After a cancel the machine ends the unit in flight and starts no other:
\* the only work it still asks for is the second half of that unit, a copy after
\* its transcode included.
CancelStartsNoUnit ==
  [][ run.cancelled /\ run.at.stage # "start" /\ run'.at # run.at =>
        \/ run'.at.stage = "done"
        \/ /\ run'.at.index = run.at.index
           /\ <<run.at.stage, run'.at.stage>> \in
                {<<"transcode", "copy">>, <<"copy", "recordFile">>,
                 <<"writeList", "recordList">>, <<"removeList", "forgetList">>,
                 <<"removeTrack", "forgetFile">>}
    ]_machineVars

\* The step a run opens on is the step of its first visible work (MTP-18).
OpensOnItsFirstStep ==
  [][ run.at.stage = "partials" /\ run'.at.stage \notin {"partials", "done"}
        => run'.phase = run.phase ]_machineVars

\* Every run ends: whatever the answers, each one brings it nearer to the end.
EveryRunEnds == <>(run.at.stage = "done")
=============================================================================
