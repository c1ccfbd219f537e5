---------------------------- MODULE DeviceSync ----------------------------
(***************************************************************************)
(* A device, its inventory in the database and the runs that mirror the    *)
(* library onto it: the reducer of DeviceSyncMachine with the plans of     *)
(* MirrorPlanner and the work its owner does for each effect, which is     *)
(* `perform` of crates/reprise-gnome/src/ui/device_sync/                   *)
(* device_sync_effects.rs over the storage backend of                      *)
(* crates/reprise-platform-linux/src/device_sync.rs.                       *)
(*                                                                         *)
(* One step performs the effect in flight and hands its result to the      *)
(* reducer.  The library changes between runs.  A scenario says which      *)
(* libraries change into each other and bounds the disturbances of a       *)
(* behaviour: changes of the library, failing effects, runs cut short by a *)
(* disconnect or a crash, files deleted on the device by someone else.     *)
(* Runs are not bounded.                                                   *)
(***************************************************************************)
EXTENDS DeviceSyncMachine, MirrorPlanner

CONSTANTS
  Libraries,  \* name -> libraries that change into each other
  Scenarios   \* [libraries, edits, faults, interrupts, losses]

Disturbances == {"edits", "faults", "interrupts", "losses"}

\* Tracks cut from one file share its name, its state and whether it is there.
ASSUME CueTracksShareAFile ==
  \A name \in DOMAIN Libraries :
    /\ Libraries[name] \subseteq Library
    /\ \A library \in Libraries[name], file \in CueFile : \A t, u \in file :
         /\ library.stem[t] = library.stem[u]
         /\ library.version[t] = library.version[u]
         /\ t \in library.present <=> u \in library.present

ASSUME ScenariosAreScenarios ==
  Scenarios \subseteq [libraries : DOMAIN Libraries, edits : Nat, faults : Nat,
                       interrupts : Nat, losses : Nat]

\* The bytes an effect reports are left out here.
ASSUME NoBytesAreReported == 0 \in Bytes

VARIABLES
  lib,       \* the library, as the planner sees it
  store,     \* the inventory in the database and the files on the device
  active,    \* the run is under way, or ended and nothing changed since
  calm,      \* the current run met no fault, cancel or interruption
  unrecorded, \* history: the tracks whose file was written since their row was
  left       \* the scenario, counting the disturbances that may still happen

world == <<lib, store, active, calm, unrecorded, left>>
syncVars == <<plan, run, world>>

EmptyStore == [rows |-> <<>>, listRows |-> <<>>, audio |-> <<>>,
               lists |-> <<>>, sidecars |-> {}]

Input == [lib |-> lib, store |-> store]
Idle == ~active \/ Awaiting("done")

Spend(kind) == left[kind] > 0 /\ left' = [left EXCEPT ![kind] = @ - 1]

-----------------------------------------------------------------------------
(* What an effect does to the store.                                       *)

Put(f, key, value) ==
  [x \in DOMAIN f \cup {key} |-> IF x = key THEN value ELSE f[x]]
Drop(f, key) == Restrict(f, DOMAIN f \ {key})

RowOf(t, path) == [path |-> path, version |-> lib.version[t], profile |-> Mode(lib, t)]
ContentOf(t, whole) ==
  [of |-> Unit(t), version |-> lib.version[t], profile |-> Mode(lib, t), whole |-> whole]

PutAudio(whole) ==
  LET transfer == plan.transfers[Index]
  IN  [store EXCEPT !.audio = Put(@, transfer.path, ContentOf(transfer.track, whole))]

DropFile(path) ==
  [store EXCEPT !.audio = Drop(@, path), !.lists = Drop(@, path),
                !.sidecars = @ \ {path}]

\* Mutant: the list keeps entries whose file this run failed to publish.
WriteListWithAbsent ==
  LET list == plan.lists[Index]
  IN  [store EXCEPT !.lists = Put(@, list.path, list.entries)]

\* Entries whose file this run failed to publish are left out.
WriteList ==
  LET list == plan.lists[Index]
  IN  [store EXCEPT !.lists = Put(@, list.path, list.entries \ run.absent)]

\* The file a removal effect names.
DoomedPath ==
  CASE Awaiting("removeTrack") -> plan.removals[Index].path
    [] Awaiting("removeReplaced") -> run.deferred[Index].path
    [] Awaiting("removeList") -> plan.listRemovals[Index].path

\* A removed audio file takes its sidecar with it, unless that removal fails,
\* which is logged and not reported.
DropAudio(path, sidecarToo) ==
  LET gone == DropFile(path)
  IN  IF sidecarToo /\ path.kind = "audio"
      THEN [gone EXCEPT !.sidecars = @ \ {SidecarOf(path)}]
      ELSE gone

\* The store after an effect that succeeds.
Performed(sidecarToo) ==
  CASE Awaiting("copy") -> PutAudio(TRUE)
    [] Awaiting("recordFile") ->
         LET t == plan.transfers[Index].track
         IN  [store EXCEPT !.rows = Put(@, t, RowOf(t, run.copiedPath))]
    [] Awaiting("recordShared") ->
         LET t == plan.shared[Index].track
         IN  [store EXCEPT !.rows = Put(@, t, RowOf(t, run.sharedPath))]
    [] Awaiting("writeAnalysis") ->
         [store EXCEPT !.sidecars = @ \cup {plan.analysis[Index].path}]
    [] Awaiting("writeList") -> WriteList
    [] Awaiting("recordList") ->
         LET list == plan.lists[Index]
         IN  [store EXCEPT !.listRows = Put(@, list.source, list.path)]
    [] Awaiting("removeList") -> DropFile(DoomedPath)
    [] Awaiting("forgetList") ->
         [store EXCEPT !.listRows = Drop(@, plan.listRemovals[Index].source)]
    [] run.at.stage \in {"removeTrack", "removeReplaced"} ->
         DropAudio(DoomedPath, sidecarToo)
    [] Awaiting("forgetFile") ->
         [store EXCEPT !.rows = Drop(@, plan.removals[Index].track)]
    [] OTHER -> store

\* The stores an effect that fails leaves: a write that fails deletes its target,
\* unless it failed before it touched it.
Unperformed ==
  {store} \cup
  CASE Awaiting("copy") -> {DropFile(plan.transfers[Index].path)}
    [] Awaiting("writeAnalysis") -> {DropFile(plan.analysis[Index].path)}
    [] Awaiting("writeList") -> {DropFile(plan.lists[Index].path)}
    [] OTHER -> {}

\* A copy goes straight onto its target, so an interruption may cut it short.
HalfDone ==
  {Performed(TRUE), Performed(FALSE)}
  \cup (IF Awaiting("copy") THEN {PutAudio(FALSE)} ELSE {})

\* The tracks whose file is newer than their row, after an effect that succeeds
\* or is cut short.  A track recorded at a file already there knows no more of it
\* than the track it is recorded next to.
Unrecorded ==
  LET shared == plan.shared[Index]
  IN  CASE Awaiting("copy") -> unrecorded \cup Unit(plan.transfers[Index].track)
        [] Awaiting("recordFile") -> unrecorded \ {plan.transfers[Index].track}
        [] Awaiting("recordShared") ->
             IF shared.resident /\ shared.carrier \in unrecorded
             THEN unrecorded \cup {shared.track} ELSE unrecorded \ {shared.track}
        [] OTHER -> unrecorded

\* The event that answers the effect in flight.
Respond(ok) ==
  \/ PartialsCleaned(ok) \/ Transcoded(ok, 0)
  \/ Awaiting("copy") /\ TrackCopied(ok, 0, plan.transfers[Index].path)
  \/ FileRecorded(ok) \/ SharedFileRecorded(ok)
  \/ AnalysisWritten(ok, 0)
  \/ PlaylistWritten(ok) \/ PlaylistRecorded(ok)
  \/ PlaylistRemoved(ok) \/ PlaylistForgotten(ok)
  \/ TrackRemoved(ok) \/ FileForgotten(ok) \/ ReplacedFileRemoved(ok)

-----------------------------------------------------------------------------
(* Steps.                                                                  *)

\* The selection, the playlists, the files or the profile change.
EditLibrary ==
  /\ Idle
  /\ lib' \in Libraries[left.libraries] \ {lib}
  /\ Spend("edits")
  /\ active' = FALSE
  /\ UNCHANGED <<plan, run, store, calm, unrecorded>>

\* A file is deleted on the device, which the next inspection finds (MTP-52).
LoseFile ==
  /\ Idle
  /\ \E path \in Resident(store) : store' = DropFile(path)
  /\ Spend("losses")
  /\ active' = FALSE
  /\ UNCHANGED <<plan, run, lib, calm, unrecorded>>

\* start_transfer_now: the device is inspected, planned and the run started.
BeginRun ==
  /\ Idle
  /\ lib.selected # {}
  /\ plan' = PlanMirror(Input)
  /\ run' = NewMachine(plan', FALSE)
  /\ active' = TRUE /\ calm' = TRUE
  /\ UNCHANGED <<lib, store, unrecorded, left>>

StartRun == active /\ Start /\ UNCHANGED world

Succeed ==
  /\ active /\ Respond(TRUE)
  /\ store' = Performed(TRUE) /\ unrecorded' = Unrecorded
  /\ UNCHANGED <<lib, active, calm, left>>

\* A write may fail and its file be there all the same: a copy whose remains cannot
\* be deleted, which is only logged, or a playlist whose check fails after the move.
FailEffect ==
  /\ active /\ Respond(FALSE)
  /\ \/ store' \in Unperformed /\ UNCHANGED unrecorded
     \/ /\ run.at.stage \in {"copy", "writeAnalysis", "writeList"}
        /\ store' \in HalfDone /\ unrecorded' = Unrecorded
  /\ calm' = FALSE
  /\ Spend("faults")
  /\ UNCHANGED <<lib, active>>

\* The audio goes, its sidecar stays, and the run does not hear of it.
LoseSidecarRemoval ==
  /\ active
  /\ run.at.stage \in {"removeTrack", "removeReplaced"} /\ DoomedPath.kind = "audio"
  /\ Respond(TRUE)
  /\ store' = Performed(FALSE)
  /\ calm' = FALSE
  /\ Spend("faults")
  /\ UNCHANGED <<lib, active, unrecorded>>

\* The transport refuses a transfer the listener cancelled.
RefuseCancelled ==
  /\ active /\ run.cancelled
  /\ run.at.stage \in {"transcode", "copy", "writeAnalysis"}
  /\ Respond(FALSE)
  /\ store' \in Unperformed
  /\ UNCHANGED <<lib, active, calm, unrecorded, left>>

CancelRun ==
  /\ active /\ ~Idle /\ ~run.cancelled
  /\ Cancel
  /\ calm' = FALSE
  /\ UNCHANGED <<lib, store, active, unrecorded, left>>

\* A disconnect or a crash: the run is gone, its last effect half done.
Interrupt ==
  /\ active /\ ~Idle
  /\ \/ store' \in Unperformed /\ UNCHANGED unrecorded
     \/ store' \in HalfDone /\ unrecorded' = Unrecorded
  /\ active' = FALSE /\ calm' = FALSE
  /\ Spend("interrupts")
  /\ UNCHANGED <<plan, run, lib>>

SyncInit ==
  /\ left \in Scenarios /\ lib \in Libraries[left.libraries]
  /\ store = EmptyStore
  /\ active = FALSE /\ calm = FALSE /\ unrecorded = {}
  /\ plan = PlanMirror([lib |-> [lib EXCEPT !.selected = {}], store |-> store])
  /\ run = NewMachine(plan, FALSE)

Perform == Succeed \/ FailEffect \/ LoseSidecarRemoval \/ RefuseCancelled

SyncNext ==
  \/ EditLibrary \/ LoseFile \/ BeginRun \/ StartRun
  \/ Perform \/ CancelRun \/ Interrupt

SyncSpec == SyncInit /\ [][SyncNext]_syncVars

-----------------------------------------------------------------------------
(* Properties.                                                             *)

SyncTypeOK ==
  /\ TypeOK
  /\ lib \in Libraries[left.libraries]
  /\ IsStore(store)
  /\ \A kind \in Disturbances : left[kind] \in Nat

Removing == active /\ run.at.stage \in {"removeTrack", "removeReplaced"}
Completed == active /\ run.outcome = "completed"
GoneAudio == DOMAIN store.audio \ DOMAIN store'.audio

\* The selected playlists the run leaves as they are.
Untouched == {s \in lib.selected :
                \A k \in DOMAIN plan.lists : plan.lists[k].source # s}

\* The playlists the inventory knows, and those this run has to remove.
ManagedLists ==
  DOMAIN store.lists \cap
    ({store.listRows[s] : s \in DOMAIN store.listRows \ Untouched}
     \cup {plan.listRemovals[k].path : k \in DOMAIN plan.listRemovals})

\* No removal takes a file away from a playlist the inventory knows, whatever
\* failed earlier in this run or in the runs before it (MTP-19).  A frozen one that
\* is not written again is left out: it may name a file this run replaced.
ManagedListsKeepTheirFiles ==
  [][ Removing => \A list \in ManagedLists : store.lists[list] \cap GoneAudio = {}
    ]_syncVars

\* A playlist is never published naming a wanted file the device does not have,
\* so the lost track of a failed copy is in no playlist of that run (MTP-19).
PublishedListsNameFiles ==
  [][ \A list \in DOMAIN store'.lists :
        (list \in DOMAIN store.lists => store.lists[list] # store'.lists[list]) =>
          store'.lists[list] \cap plan.desired \subseteq DOMAIN store'.audio
    ]_syncVars

\* Removals spare every path the run delivers, also when the file there was left
\* by an earlier run that could not record it (MTP-17).
DesiredFilesSurvive ==
  [][ Removing => plan.desired \cap GoneAudio = {} ]_syncVars

\* The recorded tracks that are not wanted and that no removal names.
Spared == {t \in RowTracks(Input) \ Desired(Input) :
             \A k \in DOMAIN plan.removals : plan.removals[k].track # t}

\* Removals spare the file of every row the plan leaves: entries whose library file
\* is away, the stability margin of a smart playlist, tracks of a frozen one.  Not
\* when another track of that file is wanted, for its new file replaces the old one,
\* and not the file a frozen track shares with one that leaves.
RetainedFilesSurvive ==
  [][ Removing => \A t \in Spared :
        \/ Siblings(Input, t) # {}
        \/ t \notin Retained(Input)
           /\ \E k \in DOMAIN plan.removals : plan.removals[k].track \in Unit(t)
        \/ RowPath(Input, t) \notin GoneAudio
    ]_syncVars

\* No frozen playlist had to move, and is gone without being written again.
NoListMoved == lib.selected \subseteq DOMAIN store.listRows

\* After a completed run, whatever happened before it, the device holds the wanted
\* audio and nothing else but files of retained and frozen tracks, the inventory
\* says exactly that, and every selected playlist is there with its entries (MTP-17),
\* but for frozen ones that were published before.  What left the selection goes,
\* whatever the switch remove_deleted says (MTP-33): the planner does not read it.
CompletedMirrors ==
  Completed =>
    /\ DesiredPaths(Input) \subseteq DOMAIN store.audio
    /\ DOMAIN store.audio \subseteq {RowPath(Input, t) : t \in RowTracks(Input)}
    /\ RowTracks(Input) \subseteq Desired(Input) \cup Retained(Input) \cup Captured(Input)
    /\ \A t \in Desired(Input) : RowMatches(Input, t)
    /\ DOMAIN store.listRows \subseteq lib.selected
    /\ NoListMoved =>
         DOMAIN store.lists \subseteq {store.listRows[s] : s \in DOMAIN store.listRows}
    /\ Untouched \subseteq lib.frozen
    /\ \A s \in lib.selected \ Untouched :
         /\ s \in DOMAIN store.listRows /\ store.listRows[s] \in DOMAIN store.lists
         /\ store.listRows[s] = PlaylistPath(Input, s)
         /\ store.lists[store.listRows[s]] = Rendered(Input, s)

\* ... and every wanted file is all of the one the library has now, in the current
\* profile, unless a copy onto it was never recorded: then the library may have gone
\* back to what the row says in the meantime.
CompletedContent ==
  Completed => \A t \in Desired(Input) \ unrecorded :
                 store.audio[DesiredPath(Input, t)] = ContentOf(t, TRUE)

\* A run that is neither disturbed nor cancelled completes, from whatever the
\* failed and cancelled runs before it left behind.
CalmRunCompletes == active /\ Awaiting("done") /\ calm => run.outcome = "completed"

\* Planning again right after a completed run finds no file and no playlist to
\* change, so synchronizing twice transfers nothing twice and paths are stable.
CompletedConverges ==
  Completed =>
    /\ Transferred(Input) = {} /\ SharedTracks(Input) = {}
    /\ ListRemovals(Input) = <<>>
    /\ NoListMoved => Removed(Input) = {} /\ (calm => Orphans(Input) = {})

-----------------------------------------------------------------------------
(* What the code or its documents say and a run refutes.                   *)

\* "A file counts as transferred only once it is proven to be on the device"
\* (MTP-21): what the inventory and the scan take as delivered is whole.
DeliveredFilesAreWhole ==
  \A t \in Desired(Input) :
    Idle /\ Delivered(Input, t) => store.audio[DesiredPath(Input, t)].whole
=============================================================================
