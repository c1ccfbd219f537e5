-------------------------- MODULE DeviceSyncTypes --------------------------
(***************************************************************************)
(* The work items a mirror plan is made of: the records of                 *)
(* crates/reprise-core/src/device_sync/mirror.rs, mirror_cue.rs and        *)
(* machine_types.rs, reduced to what a run and its planner tell apart.     *)
(* Contents, titles and sizes of existing files are left out.              *)
(***************************************************************************)
EXTENDS Naturals, Sequences

CONSTANTS
  Track,          \* track ids
  Path,           \* device paths
  Source,         \* playlist sources (SelectionSource)
  NoPath,         \* Option::None of a path
  Unattributed    \* the sentinel -1: a failure with no track to blame

PathOrNone == Path \cup {NoPath}

Transfer == [track : Track, path : Path, previous : PathOrNone,
             transcode : BOOLEAN, bytes : Nat]
SharedRecord == [track : Track, path : Path, carrier : Track,
                 resident : BOOLEAN, previous : PathOrNone]
SidecarWrite == [track : Track, path : Path, bytes : Nat]
CueWrite == [track : Track, path : Path, audio : Path, bytes : Nat]
ListWrite == [source : Source, path : Path, entries : SUBSET Path]
ListRow == [source : Source, path : Path]
Removal == [kind : {"inventory", "unshared"}, track : Track, path : Path]
           \cup [kind : {"orphan"}, track : {Unattributed}, path : Path]

MirrorPlan ==
  [transfers : Seq(Transfer), shared : Seq(SharedRecord),
   analysis : Seq(SidecarWrite), cues : Seq(CueWrite),
   lyrics : Seq(SidecarWrite), lists : Seq(ListWrite),
   listRemovals : Seq(ListRow), removals : Seq(Removal),
   desired : SUBSET Path, bytes : Nat]

ASSUME NoPathIsNoPath == NoPath \notin Path
ASSUME UnattributedIsNoTrack == Unattributed \notin Track

\* The least number of a non-empty set.
Least(numbers) == CHOOSE k \in numbers : \A j \in numbers : k <= j
=============================================================================
