--------------------------- MODULE MirrorPlanner ---------------------------
(***************************************************************************)
(* What a synchronization run has to do, computed from the library, the    *)
(* inventory the database keeps of a device and the files found on it:     *)
(* plan_mirror() of crates/reprise-core/src/device_sync/mirror.rs with     *)
(* mirror_file_changes.rs, mirror_cue.rs, mirror_playlist_paths.rs and the *)
(* path slots of transfer.rs.  Where smart playlists are not kept up to    *)
(* date, their entries are taken from a snapshot before, and the plan is   *)
(* cut down after (selection.rs): that is part of Entries, ListWrites and  *)
(* Removals here.                                                          *)
(*                                                                         *)
(* Every operator takes the planner's input `i`, a record                  *)
(*   lib    the library: see Library                                       *)
(*   store  the inventory (rows, listRows) and the device (audio, lists,   *)
(*          sidecars): see IsStore                                           *)
(*                                                                         *)
(* Left out: sizes and the warnings, lyrics and derived sheets, letter     *)
(* case of paths, unsafe paths.  A file's size, modification time and      *)
(* source path are one `version`; an analysis keeps its size, so a sidecar *)
(* is written when it is absent.                                           *)
(***************************************************************************)
EXTENDS DeviceSyncTypes, SequencesExt

CONSTANTS
  Stem,        \* file names without directory, slot and extension
  Profile,     \* transfer profiles
  Original,    \* the profile that copies files as they are
  Lossless,    \* the tracks a transcoding profile transcodes
  Extension,   \* the extension a profile gives the files it writes
  CueFile,     \* sets of tracks cut from one file by a CUE sheet
  Version      \* states of a library file

ASSUME TracksAreOrdered ==
  /\ Track \subseteq Nat /\ IsFiniteSet(Track)
  /\ Source \subseteq Nat /\ IsFiniteSet(Source)
ASSUME OriginalIsAProfile == Original \in Profile
\* A file is transcoded as a whole, whatever sheet cuts it into tracks.
ASSUME CueFilesAreDisjoint ==
  /\ \A f, g \in CueFile : f \subseteq Track /\ (f = g \/ f \cap g = {})
  /\ \A f \in CueFile : f \subseteq Lossless \/ f \cap Lossless = {}

AudioPath(stem, slot, extension) ==
  [kind |-> "audio", stem |-> stem, slot |-> slot, extension |-> extension]
ListPath(stem, slot) ==
  [kind |-> "list", stem |-> stem, slot |-> slot, extension |-> "m3u8"]
AnalysisPath(stem, slot) ==
  [kind |-> "analysis", stem |-> stem, slot |-> slot, extension |-> "analysis"]

\* Mutant: the sidecar keeps the extension of its audio.
SidecarOfKeepingExtension(path) == [path EXCEPT !.kind = "analysis"]

SidecarOf(path) == [path EXCEPT !.kind = "analysis", !.extension = "analysis"]

\* Names enough for every collision there can be.
Slot == 1..(2 * (Cardinality(Track) + Cardinality(Source)))
DevicePath ==
  {AudioPath(stem, slot, Extension[profile]) :
     stem \in Stem, slot \in Slot, profile \in Profile}
  \cup {AnalysisPath(stem, slot) : stem \in Stem, slot \in Slot}
  \cup {ListPath(stem, slot) : stem \in Stem, slot \in Slot}

ASSUME PathsAreNames == Path = DevicePath /\ IsFiniteSet(Path)

\* The file a track is played from: its own, or the one its CUE sheet cuts up.
Unit(t) == IF \E f \in CueFile : t \in f
           THEN CHOOSE f \in CueFile : t \in f
           ELSE {t}
IsCue(t) == Unit(t) \in CueFile

\* The transfer mode of a track: TransferProfile::action_for.
Mode(lib, t) == IF t \in Lossless THEN lib.profile ELSE Original

Library ==
  [selected : SUBSET Source,          \* the playlists mirrored to the device
   name : [Source -> Stem],
   entries : [Source -> SUBSET Track],
   frozen : SUBSET Source,            \* smart playlists no longer kept up to date:
                                      \* their entries are those of the snapshot
   margin : SUBSET Track,             \* stability_margin_track_ids
   present : SUBSET Track,            \* entries whose file is available
   analysed : SUBSET Track,
   stem : [Track -> Stem],
   version : [Track -> Version],
   profile : Profile]

Row == [path : Path, version : Version, profile : Profile]
Content == [of : {Unit(t) : t \in Track}, version : Version,
            profile : Profile, whole : BOOLEAN]
IsPartialFunction(f, S, T) == DOMAIN f \subseteq S /\ \A x \in DOMAIN f : f[x] \in T

IsStore(store) ==
  /\ IsPartialFunction(store.rows, Track, Row)
  /\ IsPartialFunction(store.listRows, Source, Path)
  /\ IsPartialFunction(store.audio, Path, Content)
  /\ IsPartialFunction(store.lists, Path, SUBSET Path)
  /\ store.sidecars \subseteq Path

Resident(store) == DOMAIN store.audio \cup DOMAIN store.lists \cup store.sidecars

-----------------------------------------------------------------------------
(* Collision slots: a name already taken gets a number, and a row keeps    *)
(* the number it has.  `at` maps the claimants of one name to their slots. *)

\* Of several rows in one slot the first owns it.
Owners(at) == {c \in DOMAIN at : \A d \in DOMAIN at : at[d] = at[c] => c <= d}

\* Newcomers take the free slots in their order.
FreeSlot(at, newcomers, c) ==
  LET taken == {at[d] : d \in DOMAIN at}
      rank == Cardinality({d \in newcomers : d <= c})
  IN  CHOOSE slot \in 1..(Cardinality(taken) + rank) :
        /\ slot \notin taken
        /\ Cardinality((1..slot) \ taken) = rank

-----------------------------------------------------------------------------
(* Desired files.                                                          *)

\* apply_frozen_smart_snapshots: of a snapshot only what is there is read.
Entries(i, s) == IF s \in i.lib.frozen THEN i.lib.entries[s] \cap i.lib.present
                 ELSE i.lib.entries[s]

Wanted(i) == UNION {Entries(i, s) : s \in i.lib.selected}
Desired(i) == Wanted(i) \cap i.lib.present
RowTracks(i) == DOMAIN i.store.rows
RowPath(i, t) == i.store.rows[t].path

\* The first selected track of a unit, which claims the slot for all of it.
Leader(i, t) == Least(Unit(t) \cap Desired(i))

\* Mutant: a unit takes a free slot although it owns one.
DesiredPathRanked(i, t) ==
  LET stem == i.lib.stem[t]
      at == [u \in {v \in RowTracks(i) : RowPath(i, v).stem = stem} |->
               RowPath(i, u).slot]
      named == {Leader(i, u) : u \in {v \in Desired(i) : i.lib.stem[v] = stem}}
  IN  AudioPath(stem, FreeSlot(at, named, Leader(i, t)), Extension[Mode(i.lib, t)])

DesiredPath(i, t) ==
  LET stem == i.lib.stem[t]
      at == [u \in {v \in RowTracks(i) : RowPath(i, v).stem = stem} |->
               RowPath(i, u).slot]
      owning(u) == Owners(at) \cap Unit(u)
      newcomers == {Leader(i, u) :
                      u \in {v \in Desired(i) :
                               i.lib.stem[v] = stem /\ owning(v) = {}}}
      slot == IF owning(t) # {} THEN at[Least(owning(t))]
              ELSE FreeSlot(at, newcomers, Leader(i, t))
  IN  AudioPath(stem, slot, Extension[Mode(i.lib, t)])

DesiredPaths(i) == {DesiredPath(i, t) : t \in Desired(i)}

\* Mutant: a file at the right path is taken whatever its version.
RowMatchesAnyVersion(i, t) ==
  /\ t \in RowTracks(i)
  /\ i.store.rows[t].path = DesiredPath(i, t)
  /\ i.store.rows[t].profile = Mode(i.lib, t)

\* inventory_matches: the row says this very file is at this very path.
RowMatches(i, t) ==
  /\ t \in RowTracks(i)
  /\ i.store.rows[t] = [path |-> DesiredPath(i, t),
                        version |-> i.lib.version[t],
                        profile |-> Mode(i.lib, t)]

Delivered(i, t) ==
  RowMatches(i, t) /\ DesiredPath(i, t) \in DOMAIN i.store.audio

-----------------------------------------------------------------------------
(* File changes.                                                           *)

Siblings(i, t) == Unit(t) \cap Desired(i)

\* The track a CUE file's only transfer is booked on.
Carrier(i, t) ==
  LET recorded == Siblings(i, t) \cap RowTracks(i)
  IN  Least(IF recorded # {} THEN recorded ELSE Siblings(i, t))

Anchors(i, t) == {u \in Siblings(i, t) : Delivered(i, u)}

Transferred(i) ==
  {t \in Desired(i) : Anchors(i, t) = {} /\ (IsCue(t) => t = Carrier(i, t))}

SharedTracks(i) ==
  {t \in Desired(i) :
     /\ IsCue(t)
     /\ IF Anchors(i, t) # {} THEN ~RowMatches(i, t) ELSE t # Carrier(i, t)}

PreviousPath(i, t) == IF t \in RowTracks(i) THEN RowPath(i, t) ELSE NoPath

\* The members of S in their order; `below` says what comes before each.
Sorted(S, below) ==
  [n \in 1..Cardinality(S) |-> CHOOSE x \in S : Cardinality(below[x]) = n - 1]

Ascending(numbers) == Sorted(numbers, [k \in numbers |-> {j \in numbers : j < k}])

Each(numbers, Item(_)) ==
  LET order == Ascending(numbers)
  IN  [k \in DOMAIN order |-> Item(order[k])]

\* copy and replace, in the order of their track ids (transfer_operations).
Transfers(i) ==
  LET Item(t) == [track |-> t, path |-> DesiredPath(i, t),
                  previous |-> IF RowMatches(i, t) THEN NoPath
                               ELSE PreviousPath(i, t),
                  transcode |-> Mode(i.lib, t) # Original, bytes |-> 0]
  IN  Each(Transferred(i), Item)

\* Grouped by file, as the groups are met.
SharedRecords(i) ==
  LET below == [t \in SharedTracks(i) |->
                  {u \in SharedTracks(i) : \/ Leader(i, u) < Leader(i, t)
                                           \/ Leader(i, u) = Leader(i, t) /\ u < t}]
      order == Sorted(SharedTracks(i), below)
      Item(t) == [track |-> t, path |-> DesiredPath(i, t),
                  carrier |-> IF Anchors(i, t) # {} THEN Least(Anchors(i, t))
                              ELSE Carrier(i, t),
                  resident |-> Anchors(i, t) # {},
                  previous |-> PreviousPath(i, t)]
  IN  [k \in DOMAIN order |-> Item(order[k])]

\* Rows of entries whose library file is away, and of tracks a smart playlist
\* may take back soon: their files stay.
Retained(i) == ((Wanted(i) \cup i.lib.margin) \cap RowTracks(i)) \ Desired(i)

Leaving(i) == RowTracks(i) \ (Desired(i) \cup Retained(i))

\* Mutant: only wanted rows hold a file.
LeavingKindUnretained(i, t) ==
  IF \/ RowPath(i, t) \in DesiredPaths(i)
     \/ \E u \in Leaving(i) : u < t /\ RowPath(i, u) = RowPath(i, t)
  THEN "unshared" ELSE "inventory"

\* A file another row still needs stays; a file that goes, goes once.
LeavingKind(i, t) ==
  IF \/ RowPath(i, t) \in DesiredPaths(i) \cup {RowPath(i, u) : u \in Retained(i)}
     \/ \E u \in Leaving(i) : u < t /\ RowPath(i, u) = RowPath(i, t)
  THEN "unshared" ELSE "inventory"

-----------------------------------------------------------------------------
(* Frozen smart playlists: apply_frozen_smart_playlist_policy.             *)

\* What is on the device stays as it was published.
FrozenLists(i) == i.lib.selected \cap i.lib.frozen \cap DOMAIN i.store.listRows

Captured(i) == UNION {i.lib.entries[s] : s \in i.lib.selected \cap i.lib.frozen}

\* The rows that go: without a published frozen playlist nothing is spared.
Removed(i) == IF FrozenLists(i) = {} THEN Leaving(i) ELSE Leaving(i) \ Captured(i)

-----------------------------------------------------------------------------
(* Playlists.                                                              *)

PlaylistPath(i, s) ==
  LET name == i.lib.name[s]
      at == [r \in {q \in DOMAIN i.store.listRows :
                      i.store.listRows[q].stem = name} |->
               i.store.listRows[r].slot]
      newcomers == {r \in i.lib.selected : i.lib.name[r] = name} \ Owners(at)
  IN  ListPath(name, IF s \in Owners(at) THEN at[s] ELSE FreeSlot(at, newcomers, s))

\* An entry that is not desired is rendered from its row, and else left out.
EntryPath(i, t) == IF t \in Desired(i) THEN DesiredPath(i, t) ELSE RowPath(i, t)

Rendered(i, s) ==
  {EntryPath(i, t) : t \in Entries(i, s) \cap (Desired(i) \cup RowTracks(i))}

ListWrites(i) ==
  LET Item(s) == [source |-> s, path |-> PlaylistPath(i, s), entries |-> Rendered(i, s)]
  IN  Each(i.lib.selected \ FrozenLists(i), Item)

\* Mutant: a selected playlist that changed its path leaves the old file behind.
ListRemovalsOfDeselected(i) ==
  LET Item(s) == [source |-> s, path |-> i.store.listRows[s]]
  IN  Each(DOMAIN i.store.listRows \ i.lib.selected, Item)

ListRemovals(i) ==
  LET outdated == {s \in DOMAIN i.store.listRows :
                     s \in i.lib.selected => PlaylistPath(i, s) # i.store.listRows[s]}
      Item(s) == [source |-> s, path |-> i.store.listRows[s]]
  IN  Each(outdated, Item)

-----------------------------------------------------------------------------
(* Analysis sidecars and orphans.                                          *)

Arriving(i) == {DesiredPath(i, t) : t \in Transferred(i)}

AnalysisWrites(i) ==
  LET missing == {t \in Desired(i) \cap i.lib.analysed :
                    /\ ~IsCue(t)
                    /\ DesiredPath(i, t) \in DOMAIN i.store.audio \cup Arriving(i)
                    /\ SidecarOf(DesiredPath(i, t)) \notin i.store.sidecars}
      Item(t) == [track |-> t, path |-> SidecarOf(DesiredPath(i, t)), bytes |-> 0]
  IN  Each(missing, Item)

OwnedSidecars(i) ==
  {SidecarOf(path) :
     path \in Arriving(i) \cup
       ((DesiredPaths(i) \cup {RowPath(i, t) : t \in Retained(i)})
          \cap DOMAIN i.store.audio)}

\* Mutant: a wanted path without a row is not known.
KnownPathsByRow(i) ==
  {RowPath(i, t) : t \in RowTracks(i)}
  \cup {i.store.listRows[s] : s \in DOMAIN i.store.listRows}
  \cup {PlaylistPath(i, s) : s \in i.lib.selected}
  \cup OwnedSidecars(i)

KnownPaths(i) ==
  {RowPath(i, t) : t \in RowTracks(i)}
  \cup {i.store.listRows[s] : s \in DOMAIN i.store.listRows}
  \cup DesiredPaths(i)
  \cup {PlaylistPath(i, s) : s \in i.lib.selected}
  \cup OwnedSidecars(i)

Orphans(i) == Resident(i.store) \ KnownPaths(i)

Removals(i) ==
  LET Gone(t) == [kind |-> LeavingKind(i, t), track |-> t, path |-> RowPath(i, t)]
      orphans == SetToSeq(Orphans(i))
  IN  Each(Removed(i), Gone)
      \o [k \in DOMAIN orphans |->
            [kind |-> "orphan", track |-> Unattributed, path |-> orphans[k]]]

PlanMirror(i) ==
  [transfers |-> Transfers(i), shared |-> SharedRecords(i),
   analysis |-> AnalysisWrites(i), cues |-> <<>>, lyrics |-> <<>>,
   lists |-> ListWrites(i), listRemovals |-> ListRemovals(i),
   removals |-> Removals(i), desired |-> DesiredPaths(i), bytes |-> 0]
=============================================================================
