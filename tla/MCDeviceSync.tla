--------------------------- MODULE MCDeviceSync ---------------------------
(* Small libraries for the mirror: two playlists, three tracks of their own *)
(* and two cut from one file.                                              *)
EXTENDS DeviceSync

MCTrack == 1..5
MCCueFile == {{4, 5}}
MCLossless == {1, 2, 4, 5}
MCSource == {1, 2}
MCStem == {"A", "B", "X", "Y"}
MCProfile == {"mp3", "original"}
MCExtension == [mp3 |-> "mp3", original |-> "flac"]
MCPath == DevicePath

\* Tracks 1 and 2 are of one name; both playlists are of one name.
Base ==
  [selected |-> {1}, name |-> <<"X", "X">>, entries |-> <<{1, 2}, {2, 3}>>, frozen |-> {},
   margin |-> {}, present |-> MCTrack, analysed |-> {1},
   stem |-> <<"A", "A", "B", "A", "A">>, version |-> <<1, 1, 1, 1, 1>>, profile |-> "mp3"]

SoloLibraries ==
  {Base,
   [Base EXCEPT !.selected = {1, 2}],
   [Base EXCEPT !.selected = {2}],
   [Base EXCEPT !.entries[1] = {2}],
   [Base EXCEPT !.entries[1] = {2}, !.margin = {1}],
   [Base EXCEPT !.present = {2, 3}, !.profile = "original"],
   [Base EXCEPT !.stem[1] = "B"],
   [Base EXCEPT !.version[1] = 2],
   [Base EXCEPT !.name[1] = "Y", !.entries[1] = {2}]}

\* Fewer, to change from one to the next and on.
EditLibraries ==
  {Base,
   [Base EXCEPT !.selected = {2}],
   [Base EXCEPT !.entries[1] = {2}, !.margin = {1}],
   [Base EXCEPT !.present = {2, 3}, !.profile = "original"],
   [Base EXCEPT !.stem[1] = "B", !.version[2] = 2],
   [Base EXCEPT !.name[1] = "Y", !.entries[1] = {2}]}

\* Fewer, for the runs that are cut short at every step.
InterruptLibraries ==
  {Base,
   [Base EXCEPT !.present = {2, 3}, !.profile = "original"],
   [Base EXCEPT !.stem[1] = "B", !.version[2] = 2],
   [Base EXCEPT !.name[1] = "Y", !.entries[1] = {2}]}

\* Tracks 4 and 5 are cut from one file, which shares its name with track 1.
CueBase == [Base EXCEPT !.entries = <<{1, 4, 5}, {4}>>]
CueLibraries ==
  {CueBase,
   [CueBase EXCEPT !.selected = {2}],
   [CueBase EXCEPT !.entries[1] = {1, 5}],
   [CueBase EXCEPT !.entries[1] = {4}, !.profile = "original"],
   [CueBase EXCEPT !.entries[1] = {4}, !.margin = {5}, !.profile = "original"],
   [CueBase EXCEPT !.present = {1}],
   [CueBase EXCEPT !.entries[1] = {1, 4}, !.present = {1}],
   [CueBase EXCEPT !.version = <<1, 1, 1, 2, 2>>],
   [CueBase EXCEPT !.stem = <<"A", "A", "B", "B", "B">>]}

\* Playlist 1 is a smart one and frozen: a track is retagged or goes away, the
\* playlist is renamed or released.
Frozen == [Base EXCEPT !.frozen = {1}]
FrozenLibraries ==
  {Frozen,
   [Frozen EXCEPT !.selected = {1, 2}],
   [Frozen EXCEPT !.stem[1] = "B"],
   [Frozen EXCEPT !.present = {2, 3}],
   [Frozen EXCEPT !.present = {2, 3}, !.name[1] = "Y"],
   [Base EXCEPT !.entries[1] = {2}]}

\* One of two tracks cut from one file is frozen.
FrozenCue == [CueBase EXCEPT !.selected = {1, 2}, !.frozen = {2}]
FrozenCueLibraries ==
  {FrozenCue,
   [FrozenCue EXCEPT !.present = {1}],
   [FrozenCue EXCEPT !.present = {1}, !.entries = <<{1}, {4}>>],
   [FrozenCue EXCEPT !.present = {1}, !.entries = <<{1}, {5}>>],
   [FrozenCue EXCEPT !.entries[1] = {1}, !.profile = "original"]}

MCLibraries ==
  [frozen |-> FrozenLibraries, frozenCue |-> FrozenCueLibraries,
   solo |-> SoloLibraries, edit |-> EditLibraries, cue |-> CueLibraries,
   interrupt |-> InterruptLibraries, base |-> {Base},
   revert |-> {Base, [Base EXCEPT !.version[1] = 2]},
   cueRevert |-> {CueBase, [CueBase EXCEPT !.version = <<1, 1, 1, 2, 2>>]}]

Calm(name) ==
  [libraries |-> name, edits |-> 0, faults |-> 0, interrupts |-> 0, losses |-> 0]

\* Two changes of the library; one and a fault; one, a run cut short and a lost file.
MirrorScenarios ==
  {[Calm("edit") EXCEPT !.edits = 2],
   [Calm("solo") EXCEPT !.edits = 1, !.faults = 1],
   [Calm("cue") EXCEPT !.edits = 1, !.faults = 1],
   [Calm("frozen") EXCEPT !.edits = 1, !.faults = 1],
   [Calm("frozen") EXCEPT !.edits = 2],
   [Calm("frozenCue") EXCEPT !.edits = 1, !.faults = 1],
   [Calm("interrupt") EXCEPT !.edits = 1, !.interrupts = 1, !.losses = 1],
   [Calm("revert") EXCEPT !.edits = 2, !.interrupts = 1],
   [Calm("cueRevert") EXCEPT !.edits = 2, !.interrupts = 1]}

TruncationScenarios == {[Calm("base") EXCEPT !.interrupts = 1, !.losses = 1]}

=============================================================================
