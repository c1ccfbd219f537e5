-------------------------- MODULE DeviceSyncProofs --------------------------
(***************************************************************************)
(* Theorems about a device, its inventory and the runs that mirror the     *)
(* library onto it, through changes, failures, interruptions and losses.   *)
(***************************************************************************)
EXTENDS DeviceSync, MirrorPlannerProofs, DeviceSyncRunProofs

-----------------------------------------------------------------------------
(* What entering a stage leaves alone, and where it leads.                 *)

SameRecords(m, n) ==
  /\ n.carried = m.carried /\ n.absent = m.absent
  /\ n.published = m.published /\ n.staleList = m.staleList

\* The stages that follow the playlists, and those that follow the transfers.
LateStages == {"removeList", "removeTrack", "forgetFile", "removeReplaced",
               "writeMetadata", "done"}
MiddleStages == {"recordShared", "writeList"} \cup SidecarStages \cup LateStages

\* The obsolete playlists a run in this stage has removed or passed over.
ListRemovalsBehind(at) ==
  CASE at.stage = "removeList" -> at.index - 1
    [] at.stage = "forgetList" -> at.index
    [] at.stage \in {"removeTrack", "forgetFile", "removeReplaced", "writeMetadata"} ->
         Len(plan.listRemovals)
    [] OTHER -> 0

\* What is so of a machine in the stage it has just entered: it is one of `stages`,
\* and the obsolete playlists from `from` on that were passed over have to stay.
Entered(n, stages, from) ==
  /\ n.at.stage \in stages
  /\ n.at.stage = "recordShared" =>
       n.sharedPath = PlacedAt(n, n.at.index) /\ n.sharedPath # NoPath
  /\ n.at.stage = "removeTrack" => plan.removals[n.at.index].kind # "unshared"
  /\ \A k \in from..Len(plan.listRemovals) :
       k <= ListRemovalsBehind(n.at) => ~ListMayGo(n, k)

\* Entering stages with m makes n of it.
Enters(m, n, stages, from) == SameRecords(m, n) /\ Entered(n, stages, from)

ListsGone == Len(plan.listRemovals) + 1

LEMMA ListsGoneIndex ==
  ASSUME plan \in MirrorPlan
  PROVE  /\ ListsGone \in Nat \ {0} /\ Len(plan.listRemovals) \in Nat
         /\ ListsGone..Len(plan.listRemovals) = {}
BY PlanParts DEF ListsGone

LEMMA SameFrame ==
  ASSUME NEW m, NEW n, Frame(m, n)
  PROVE  SameRecords(m, n)
BY DEF Frame, SameRecords

LEMMA SkipSame ==
  ASSUME NEW m \in Machine, NEW count \in Nat
  PROVE  SkipUnits(m, count) \in Machine /\ SameRecords(m, SkipUnits(m, count))
<1>1. SkipUnits(m, count) \in Machine
  BY SkipUnitsType
<1>2. CASE count = 0
  BY <1>1, <1>2 DEF SkipUnits, SameRecords
<1>3. CASE count # 0
  <2> DEFINE ledger == [m.ledger EXCEPT
               !.bytes = AtMost(m.ledger.bytes + m.ledger.unit, m.ledger.bytesTotal),
               !.done = AtMost(m.ledger.done + count, m.ledger.total),
               !.unit = 0, !.unitTotal = 0]
  <2>1. SkipUnits(m, count) = [m EXCEPT !.ledger = ledger]
    BY <1>3, MachineParts DEF SkipUnits, Machine, Ledger
  <2> HIDE DEF ledger
  <2> QED
    BY <1>1, <2>1 DEF Machine, SameRecords
<1> QED
  BY <1>1, <1>2, <1>3

LEMMA EntersThrough ==
  ASSUME NEW m, NEW n, NEW o, NEW stages, NEW from,
         SameRecords(m, n), Enters(n, o, stages, from)
  PROVE  Enters(m, o, stages, from)
BY DEF Enters, SameRecords

\* Stages that come later are reached by way of earlier ones, too.
LEMMA EntersLater ==
  ASSUME NEW m, NEW n, NEW stages, NEW more, NEW from,
         stages \subseteq more, Enters(m, n, stages, from)
  PROVE  Enters(m, n, more, from)
BY DEF Enters, Entered

\* A unit that is begun in a stage of its own.
LEMMA UnitEnters ==
  ASSUME NEW m \in Machine, NEW bytes \in Nat, NEW phase \in Phases,
         NEW stage \in Stages, NEW index \in Nat, NEW from, NEW stages,
         stage \in stages, stage # "recordShared",
         stage = "removeTrack" => plan.removals[index].kind # "unshared",
         \A k \in from..Len(plan.listRemovals) :
           k <= ListRemovalsBehind([stage |-> stage, index |-> index])
             => ~ListMayGo(m, k)
  PROVE  Enters(m, Await(Show(Begin(m, bytes), phase), stage, index), stages, from)
<1> DEFINE n == Await(Show(Begin(m, bytes), phase), stage, index)
<1>1. n.at = [stage |-> stage, index |-> index]
  BY EnterType
<1>2. SameRecords(m, n)
  BY EnterFrame, SameFrame
<1> HIDE DEF n
<1>3. n.at.stage = stage /\ n.at.index = index
  BY <1>1
<1> QED
  BY <1>1, <1>2, <1>3 DEF Enters, Entered, SameRecords, ListMayGo, n

LEMMA FinishEnters ==
  ASSUME plan \in MirrorPlan, NEW m \in Machine, NEW from \in Nat \ {0},
         NEW stages, "done" \in stages
  PROVE  Enters(m, Finish(m), stages, from)
<1>1. ListRemovalsBehind(Finish(m).at) = 0 /\ Finish(m).at.stage = "done"
  BY FinishFrame DEF ListRemovalsBehind
<1>2. \A k \in from..Len(plan.listRemovals) : ~(k <= 0)
  OBVIOUS
<1> QED
  BY <1>1, <1>2, FinishFrame DEF Enters, Entered, SameRecords

-----------------------------------------------------------------------------
(* The stages, last to first.                                              *)

LEMMA MetadataEnters ==
  ASSUME plan \in MirrorPlan, NEW m \in Machine
  PROVE  Enters(m, EnterTrackMetadataList(m), LateStages, ListsGone)
<1>1. CASE m.metadata
  BY <1>1, Names, UnitEnters, ListsGoneIndex
     DEF EnterTrackMetadataList, LateStages
<1>2. CASE ~m.metadata
  BY <1>2, FinishEnters, ListsGoneIndex DEF EnterTrackMetadataList, LateStages
<1> QED
  BY <1>1, <1>2

LEMMA DeferredEnters ==
  ASSUME plan \in MirrorPlan, NEW m \in Machine, NEW from \in Nat
  PROVE  Enters(m, EnterDeferredRemovals(m, from), LateStages, ListsGone)
<1>1. CASE m.cancelled
  BY <1>1, FinishEnters, ListsGoneIndex DEF EnterDeferredRemovals, LateStages
<1>2. CASE ~m.cancelled /\ from > Len(m.deferred)
  BY <1>2, MetadataEnters DEF EnterDeferredRemovals
<1>3. CASE ~m.cancelled /\ ~(from > Len(m.deferred))
  <2> DEFINE shown == Show(m, "removing")
             n == Await(shown, "removeReplaced", from)
  <2>1. shown \in Machine /\ SameRecords(m, shown)
    BY Names, ShowType, ShowFrame, SameFrame
  <2> HIDE DEF shown
  <2>2. n.at = [stage |-> "removeReplaced", index |-> from] /\ SameRecords(shown, n)
    BY <2>1, AwaitType, AwaitFrame, SameFrame DEF Stages
  <2>3. n = EnterDeferredRemovals(m, from)
    BY <1>3 DEF EnterDeferredRemovals, shown
  <2> HIDE DEF n
  <2>4. SameRecords(m, n) /\ n.at.stage = "removeReplaced"
    BY <2>1, <2>2 DEF SameRecords
  <2> QED
    BY <2>3, <2>4, ListsGoneIndex DEF Enters, Entered, LateStages
<1> QED
  BY <1>1, <1>2, <1>3

LEMMA RemovalsEnters ==
  ASSUME plan \in MirrorPlan, NEW m \in Machine, NEW from \in Nat
  PROVE  Enters(m, EnterRemovals(m, from), LateStages, ListsGone)
<1>1. CASE m.cancelled
  BY <1>1, FinishEnters, ListsGoneIndex DEF EnterRemovals, LateStages
<1>2. CASE ~m.cancelled /\ from > Len(plan.removals)
  BY <1>2, DeferredEnters DEF EnterRemovals
<1>3. CASE /\ ~m.cancelled /\ ~(from > Len(plan.removals))
           /\ plan.removals[from].kind = "unshared"
  <2> DEFINE begun == Begin(m, 0)
             n == Await(begun, "forgetFile", from)
  <2>1. begun \in Machine /\ SameRecords(m, begun)
    BY BeginType, BeginFrame, SameFrame
  <2> HIDE DEF begun
  <2>2. n.at = [stage |-> "forgetFile", index |-> from] /\ SameRecords(begun, n)
    BY <2>1, AwaitType, AwaitFrame, SameFrame DEF Stages
  <2>3. n = EnterRemovals(m, from)
    BY <1>3 DEF EnterRemovals, begun
  <2> HIDE DEF n
  <2>4. SameRecords(m, n) /\ n.at.stage = "forgetFile"
    BY <2>1, <2>2 DEF SameRecords
  <2> QED
    BY <2>3, <2>4, ListsGoneIndex DEF Enters, Entered, LateStages
<1>4. CASE /\ ~m.cancelled /\ ~(from > Len(plan.removals))
           /\ plan.removals[from].kind # "unshared"
  <2>1. EnterRemovals(m, from) =
          Await(Show(Begin(m, 0), "removing"), "removeTrack", from)
    BY <1>4 DEF EnterRemovals
  <2>2. "removeTrack" \in LateStages
    BY DEF LateStages
  <2>3. \A k \in ListsGone..Len(plan.listRemovals) : FALSE
    BY ListsGoneIndex
  <2>4. Enters(m, Await(Show(Begin(m, 0), "removing"), "removeTrack", from),
               LateStages, ListsGone)
    BY <1>4, <2>2, <2>3, Names, UnitEnters
  <2> QED
    BY <2>1, <2>4
<1> QED
  BY <1>1, <1>2, <1>3, <1>4

LEMMA BeginRemovalsEnters ==
  ASSUME plan \in MirrorPlan, NEW m \in Machine
  PROVE  Enters(m, BeginRemovals(m), LateStages, ListsGone)
BY FinishEnters, RemovalsEnters, ListsGoneIndex DEF BeginRemovals, LateStages

\* Only obsolete playlists that have to stay are passed over.
LEMMA PlaylistRemovalsEnters ==
  ASSUME plan \in MirrorPlan, NEW m \in Machine, NEW from \in 1..ListsGone
  PROVE  Enters(m, EnterPlaylistRemovals(m, from), LateStages, from)
<1> DEFINE end == Len(plan.listRemovals)
           ready == {k \in from..end : ListMayGo(m, k)}
<1>1. end \in Nat /\ ListsGone = end + 1 /\ from \in Nat \ {0}
  BY ListsGoneIndex DEF ListsGone
<1>2. CASE m.cancelled
  BY <1>1, <1>2, FinishEnters DEF EnterPlaylistRemovals, LateStages
<1>3. CASE ~m.cancelled /\ ready = {}
  <2> DEFINE skipped == SkipUnits(m, end + 1 - from)
  <2>1. end + 1 - from \in Nat
    BY <1>1
  <2>2. skipped \in Machine /\ SameRecords(m, skipped)
    BY <2>1, SkipSame
  <2>3. EnterPlaylistRemovals(m, from) = BeginRemovals(skipped)
    BY <1>3 DEF EnterPlaylistRemovals
  <2> HIDE DEF skipped
  <2>4. Enters(m, BeginRemovals(skipped), LateStages, ListsGone)
    BY <2>2, BeginRemovalsEnters, EntersThrough
  <2>5. \A k \in from..end : ~ListMayGo(m, k)
    BY <1>3
  <2> QED
    BY <2>3, <2>4, <2>5 DEF Enters, Entered, SameRecords, ListMayGo
<1>4. CASE ~m.cancelled /\ ready # {}
  <2> DEFINE k == Least(ready)
             skipped == SkipUnits(m, k - from)
  <2>1. ready \in SUBSET Nat
    BY <1>1
  <2>2. k \in ready /\ \A j \in ready : k <= j
    <3> HIDE DEF ready
    <3> QED
      BY <1>4, <2>1, LeastIndex
  <2> HIDE DEF k
  <2>3. k \in Nat /\ k - from \in Nat /\ from <= k
    BY <1>1, <2>2
  <2>4. skipped \in Machine /\ SameRecords(m, skipped)
    BY <2>3, SkipSame
  <2>5. EnterPlaylistRemovals(m, from) =
          Await(Show(Begin(skipped, 0), "removing"), "removeList", k)
    BY <1>4 DEF EnterPlaylistRemovals, k
  <2> HIDE DEF skipped
  <2>6. \A j \in from..end : j <= k - 1 => ~ListMayGo(m, j)
    <3> SUFFICES ASSUME NEW j \in from..end, j <= k - 1, ListMayGo(m, j) PROVE FALSE
      OBVIOUS
    <3>1. k <= j
      BY <2>2
    <3> QED
      BY <1>1, <2>3, <3>1
  <2>7. \A j \in from..end : j <= k - 1 => ~ListMayGo(skipped, j)
    BY <2>4, <2>6 DEF ListMayGo, SameRecords
  <2>8. ListRemovalsBehind([stage |-> "removeList", index |-> k]) = k - 1
    BY DEF ListRemovalsBehind
  <2>9. Enters(skipped, Await(Show(Begin(skipped, 0), "removing"), "removeList", k),
               LateStages, from)
    BY <2>3, <2>4, <2>7, <2>8, Names, UnitEnters DEF LateStages
  <2> QED
    BY <2>4, <2>5, <2>9, EntersThrough
<1> QED
  BY <1>2, <1>3, <1>4

LEMMA PlaylistWritesEnter ==
  ASSUME plan \in MirrorPlan, NEW m \in Machine, NEW from \in Nat
  PROVE  Enters(m, EnterPlaylistWrites(m, from), MiddleStages, 1)
<1>1. CASE m.cancelled
  BY <1>1, FinishEnters DEF EnterPlaylistWrites, MiddleStages, LateStages
<1>2. CASE ~m.cancelled /\ from > Len(plan.lists)
  <2>1. 1 \in 1..ListsGone
    BY ListsGoneIndex
  <2>2. Enters(m, EnterPlaylistRemovals(m, 1), LateStages, 1)
    BY <2>1, PlaylistRemovalsEnters
  <2> QED
    BY <1>2, <2>2, EntersLater DEF EnterPlaylistWrites, MiddleStages
<1>3. CASE ~m.cancelled /\ ~(from > Len(plan.lists))
  <2>1. EnterPlaylistWrites(m, from) =
          Await(Show(Begin(m, 0), "writingPlaylists"), "writeList", from)
    BY <1>3 DEF EnterPlaylistWrites
  <2>2. "writeList" \in MiddleStages
        /\ ListRemovalsBehind([stage |-> "writeList", index |-> from]) = 0
    BY DEF MiddleStages, ListRemovalsBehind
  <2>3. \A k \in 1..Len(plan.listRemovals) : ~(k <= 0)
    OBVIOUS
  <2>4. Enters(m, Await(Show(Begin(m, 0), "writingPlaylists"), "writeList", from),
               MiddleStages, 1)
    BY <2>2, <2>3, Names, UnitEnters
  <2> QED
    BY <2>1, <2>4
<1> QED
  BY <1>1, <1>2, <1>3

LEMMA LyricsWritesEnter ==
  ASSUME plan \in MirrorPlan, NEW m \in Machine, NEW from \in Nat \ {0}
  PROVE  Enters(m, EnterLyricsWrites(m, from), MiddleStages, 1)
<1>1. CASE m.cancelled
  BY <1>1, FinishEnters DEF EnterLyricsWrites, MiddleStages, LateStages
<1>2. CASE ~m.cancelled /\ from > Len(plan.lyrics)
  BY <1>2, PlaylistWritesEnter DEF EnterLyricsWrites
<1>3. CASE ~m.cancelled /\ ~(from > Len(plan.lyrics))
  <2> DEFINE bytes == plan.lyrics[from].bytes
  <2>1. EnterLyricsWrites(m, from) =
          Await(Show(Begin(m, bytes), "writingLyrics"), "writeLyrics", from)
    BY <1>3 DEF EnterLyricsWrites
  <2>2. bytes \in Nat
    <3>1. from \in 1..Len(plan.lyrics)
      BY <1>3, PlanParts
    <3>2. plan.lyrics[from] \in SidecarWrite
      BY <3>1, PlanParts, ElementOfSeq
    <3> QED
      BY <3>2 DEF SidecarWrite
  <2> HIDE DEF bytes
  <2>3. "writeLyrics" \in MiddleStages
        /\ ListRemovalsBehind([stage |-> "writeLyrics", index |-> from]) = 0
    BY DEF MiddleStages, SidecarStages, ListRemovalsBehind
  <2>4. \A k \in 1..Len(plan.listRemovals) : ~(k <= 0)
    OBVIOUS
  <2>5. Enters(m, Await(Show(Begin(m, bytes), "writingLyrics"), "writeLyrics", from),
               MiddleStages, 1)
    BY <2>2, <2>3, <2>4, Names, UnitEnters
  <2> QED
    BY <2>1, <2>5
<1> QED
  BY <1>1, <1>2, <1>3

LEMMA CueWritesEnter ==
  ASSUME plan \in MirrorPlan, NEW m \in Machine, NEW from \in Nat \ {0},
         from <= Len(plan.cues) + 1
  PROVE  Enters(m, EnterCueWrites(m, from), MiddleStages, 1)
<1> DEFINE end == Len(plan.cues)
           ready == {k \in from..end : plan.cues[k].audio \notin m.absent}
<1>1. end \in Nat
  BY PlanParts
<1>2. CASE m.cancelled
  BY <1>2, FinishEnters DEF EnterCueWrites, MiddleStages, LateStages
<1>3. CASE ~m.cancelled /\ ready = {}
  <2> DEFINE skipped == SkipUnits(m, end + 1 - from)
  <2>1. end + 1 - from \in Nat
    BY <1>1
  <2>2. skipped \in Machine /\ SameRecords(m, skipped)
    BY <2>1, SkipSame
  <2>3. EnterCueWrites(m, from) = EnterLyricsWrites(skipped, 1)
    BY <1>3 DEF EnterCueWrites
  <2> HIDE DEF skipped
  <2> QED
    BY <2>2, <2>3, LyricsWritesEnter, EntersThrough
<1>4. CASE ~m.cancelled /\ ready # {}
  <2> DEFINE k == Least(ready)
             skipped == SkipUnits(m, k - from)
             bytes == plan.cues[k].bytes
  <2>1. ready \in SUBSET Nat
    BY <1>1
  <2>2. k \in ready
    <3> HIDE DEF ready
    <3> QED
      BY <1>4, <2>1, LeastIndex
  <2>3. EnterCueWrites(m, from) =
          Await(Show(Begin(skipped, bytes), "copying"), "writeCue", k)
    BY <1>4 DEF EnterCueWrites
  <2> HIDE DEF k
  <2>4. k \in Nat /\ k - from \in Nat /\ k \in 1..Len(plan.cues)
    BY <1>1, <2>2
  <2>5. bytes \in Nat
    <3>1. plan.cues[k] \in CueWrite
      BY <2>4, PlanParts, ElementOfSeq
    <3> QED
      BY <3>1 DEF CueWrite
  <2>6. skipped \in Machine /\ SameRecords(m, skipped)
    BY <2>4, SkipSame
  <2> HIDE DEF skipped, bytes
  <2>7. "writeCue" \in MiddleStages
        /\ ListRemovalsBehind([stage |-> "writeCue", index |-> k]) = 0
    BY DEF MiddleStages, SidecarStages, ListRemovalsBehind
  <2>8. \A j \in 1..Len(plan.listRemovals) : ~(j <= 0)
    OBVIOUS
  <2>9. Enters(skipped, Await(Show(Begin(skipped, bytes), "copying"), "writeCue", k),
               MiddleStages, 1)
    BY <2>4, <2>5, <2>6, <2>7, <2>8, Names, UnitEnters
  <2> QED
    BY <2>3, <2>6, <2>9, EntersThrough
<1> QED
  BY <1>2, <1>3, <1>4

LEMMA AnalysisWritesEnter ==
  ASSUME plan \in MirrorPlan, NEW m \in Machine, NEW from \in Nat \ {0}
  PROVE  Enters(m, EnterAnalysisWrites(m, from), MiddleStages, 1)
<1>1. CASE m.cancelled
  BY <1>1, FinishEnters DEF EnterAnalysisWrites, MiddleStages, LateStages
<1>2. CASE ~m.cancelled /\ from > Len(plan.analysis)
  <2>1. 1 <= Len(plan.cues) + 1
    BY PlanParts
  <2> QED
    BY <1>2, <2>1, CueWritesEnter DEF EnterAnalysisWrites
<1>3. CASE ~m.cancelled /\ ~(from > Len(plan.analysis))
  <2> DEFINE bytes == plan.analysis[from].bytes
  <2>1. EnterAnalysisWrites(m, from) =
          Await(Show(Begin(m, bytes), "writingAnalysis"), "writeAnalysis", from)
    BY <1>3 DEF EnterAnalysisWrites
  <2>2. bytes \in Nat
    <3>1. from \in 1..Len(plan.analysis)
      BY <1>3, PlanParts
    <3>2. plan.analysis[from] \in SidecarWrite
      BY <3>1, PlanParts, ElementOfSeq
    <3> QED
      BY <3>2 DEF SidecarWrite
  <2> HIDE DEF bytes
  <2>3. "writeAnalysis" \in MiddleStages
        /\ ListRemovalsBehind([stage |-> "writeAnalysis", index |-> from]) = 0
    BY DEF MiddleStages, SidecarStages, ListRemovalsBehind
  <2>4. \A k \in 1..Len(plan.listRemovals) : ~(k <= 0)
    OBVIOUS
  <2>5. Enters(m, Await(Show(Begin(m, bytes), "writingAnalysis"), "writeAnalysis", from),
               MiddleStages, 1)
    BY <2>2, <2>3, <2>4, Names, UnitEnters
  <2> QED
    BY <2>1, <2>5
<1> QED
  BY <1>1, <1>2, <1>3

LEMMA FailTracksSame ==
  ASSUME NEW m \in Machine, NEW tracks \in SUBSET Track
  PROVE  FailTracks(m, tracks) \in Machine /\ SameRecords(m, FailTracks(m, tracks))
BY DEF Machine, FailTracks, SameRecords

\* A shared record is looked at only with a place for its file.
LEMMA SharedRecordsEnter ==
  ASSUME plan \in MirrorPlan, NEW m \in Machine, NEW from \in Nat \ {0}
  PROVE  Enters(m, EnterSharedRecords(m, from), MiddleStages, 1)
<1> DEFINE end == Len(plan.shared)
           placed == {k \in from..end : PlacedAt(m, k) # NoPath}
           lost(upto) == {plan.shared[k].track : k \in from..upto}
<1>1. end \in Nat
  BY PlanParts
<1>2. ASSUME NEW upto \in Int, upto <= end
      PROVE  lost(upto) \in SUBSET Track
  <2>1. ASSUME NEW k \in from..upto
        PROVE  plan.shared[k].track \in Track
    <3>1. k \in 1..Len(plan.shared)
      BY <1>1, <1>2
    <3>2. plan.shared[k] \in SharedRecord
      BY <3>1, PlanParts, ElementOfSeq
    <3> QED
      BY <3>2 DEF SharedRecord
  <2> QED
    BY <2>1
<1>3. CASE m.cancelled
  BY <1>3, FinishEnters DEF EnterSharedRecords, MiddleStages, LateStages
<1>4. CASE ~m.cancelled /\ placed = {}
  <2> DEFINE failed == FailTracks(m, lost(end))
  <2>1. failed \in Machine /\ SameRecords(m, failed)
    <3>1. lost(end) \in SUBSET Track
      BY <1>1, <1>2
    <3> HIDE DEF lost
    <3> QED
      BY <3>1, FailTracksSame
  <2>2. EnterSharedRecords(m, from) = EnterAnalysisWrites(failed, 1)
    BY <1>4 DEF EnterSharedRecords
  <2> HIDE DEF failed
  <2> QED
    BY <2>1, <2>2, AnalysisWritesEnter, EntersThrough
<1>5. CASE ~m.cancelled /\ placed # {}
  <2> DEFINE k == Least(placed)
             failed == FailTracks(m, lost(k - 1))
             waiting == Await(failed, "recordShared", k)
             place == PlacedAt(m, k)
             entered == [waiting EXCEPT !.sharedPath = place]
  <2>1. placed \in SUBSET Nat
    BY <1>1
  <2>2. k \in placed
    <3> HIDE DEF placed
    <3> QED
      BY <1>5, <2>1, LeastIndex
  <2>3. EnterSharedRecords(m, from) = entered
    BY <1>5 DEF EnterSharedRecords
  <2> HIDE DEF k
  <2>4. k \in Nat /\ k - 1 \in Int /\ k - 1 <= end /\ place # NoPath
    BY <1>1, <2>2
  <2>5. failed \in Machine /\ SameRecords(m, failed)
    <3>1. lost(k - 1) \in SUBSET Track
      BY <1>2, <2>4
    <3> HIDE DEF lost
    <3> QED
      BY <3>1, FailTracksSame
  <2> HIDE DEF failed, place
  <2>6. waiting \in Machine /\ waiting.at = [stage |-> "recordShared", index |-> k]
        /\ SameRecords(failed, waiting)
    BY <2>4, <2>5, AwaitType, AwaitFrame, SameFrame DEF Stages
  <2> HIDE DEF waiting
  <2>7. /\ entered.at = waiting.at /\ SameRecords(waiting, entered)
        /\ entered.sharedPath = place
    BY <2>6 DEF Machine, SameRecords
  <2> HIDE DEF entered
  <2>8. /\ SameRecords(m, entered)
        /\ entered.at.stage = "recordShared" /\ entered.at.index = k
    BY <2>5, <2>6, <2>7 DEF SameRecords
  <2>9. ListRemovalsBehind(entered.at) = 0 /\ "recordShared" \in MiddleStages
    BY <2>8 DEF ListRemovalsBehind, MiddleStages
  <2>10. \A j \in 1..Len(plan.listRemovals) : ~(j <= 0)
    OBVIOUS
  <2> QED
    BY <2>3, <2>4, <2>7, <2>8, <2>9, <2>10
       DEF Enters, Entered, SameRecords, PlacedAt, place
<1> QED
  BY <1>3, <1>4, <1>5

\* Of the transfers, the one to go on with.
LEMMA TransfersEnter ==
  ASSUME plan \in MirrorPlan, NEW m \in Machine, NEW from \in Nat \ {0}
  PROVE  LET n == EnterTransfers(m, from)
         IN  /\ Enters(m, n, {"transcode", "copy"} \cup MiddleStages, 1)
             /\ n.at.stage \in {"transcode", "copy"} => n.at.index = from
             /\ n.at.stage \notin {"transcode", "copy", "done"} =>
                  from > Len(plan.transfers)
<1> DEFINE fresh == [m EXCEPT !.transcoded = FALSE, !.transcodedBytes = 0,
                              !.copiedBytes = 0, !.copiedPath = NoPath]
           stages == {"transcode", "copy"} \cup MiddleStages
<1>1. "done" \in stages /\ {"transcode", "copy"} \cap MiddleStages = {}
  BY DEF MiddleStages, LateStages, SidecarStages
<1>2. CASE m.cancelled
  <2>1. EnterTransfers(m, from) = Finish(m)
    BY <1>2 DEF EnterTransfers
  <2>2. Enters(m, Finish(m), stages, 1) /\ Finish(m).at.stage = "done"
    <3> HIDE DEF stages
    <3> QED
      BY <1>1, FinishEnters, FinishFrame
  <2> QED
    BY <2>1, <2>2
<1>3. CASE ~m.cancelled /\ from > Len(plan.transfers)
  <2>1. EnterTransfers(m, from) = EnterSharedRecords(m, 1)
    BY <1>3 DEF EnterTransfers
  <2>2. Enters(m, EnterSharedRecords(m, 1), MiddleStages, 1)
    BY SharedRecordsEnter
  <2>3. EnterSharedRecords(m, 1).at.stage \notin {"transcode", "copy"}
    BY <1>1, <2>2 DEF Enters, Entered
  <2> QED
    BY <1>3, <2>1, <2>2, <2>3, EntersLater
<1>4. CASE ~m.cancelled /\ ~(from > Len(plan.transfers))
  <2>1. fresh \in Machine /\ SameRecords(m, fresh)
    BY DEF Machine, SameRecords, PathOrNone
  <2>2. fresh.transcoded = FALSE
    BY DEF Machine
  <2>3. plan.transfers[from].bytes \in Nat
    <3>1. from \in 1..Len(plan.transfers)
      BY <1>4, PlanParts
    <3>2. plan.transfers[from] \in Transfer
      BY <3>1, PlanParts, ElementOfSeq
    <3> QED
      BY <3>2 DEF Transfer
  <2>4. PICK bytes \in Nat, phase \in Phases, stage \in {"transcode", "copy"} :
          EnterTransfers(m, from) = Await(Show(Begin(fresh, bytes), phase), stage, from)
    <3>1. CASE plan.transfers[from].transcode
      <4>1. EnterTransfers(m, from)
              = Await(Show(Begin(fresh, 0), "transcoding"), "transcode", from)
        BY <1>4, <3>1 DEF EnterTransfers
      <4> HIDE DEF fresh
      <4> QED
        BY <4>1, Names
    <3>2. CASE ~plan.transfers[from].transcode
      <4>1. EnterTransfers(m, from) = StartCopy(fresh, from)
        BY <1>4, <3>2 DEF EnterTransfers
      <4> HIDE DEF fresh
      <4>2. EnterTransfers(m, from)
              = Await(Show(Begin(fresh, plan.transfers[from].bytes), "copying"),
                      "copy", from)
        BY <2>2, <4>1 DEF StartCopy
      <4> QED
        BY <2>3, <4>2, Names
    <3> QED
      BY <3>1, <3>2
  <2> HIDE DEF fresh
  <2>5. /\ ListRemovalsBehind([stage |-> stage, index |-> from]) = 0
        /\ stage \in Stages /\ stage \notin {"recordShared", "removeTrack"}
    BY Names DEF ListRemovalsBehind
  <2>6. \A j \in 1..Len(plan.listRemovals) : ~(j <= 0)
    OBVIOUS
  <2>7. Enters(fresh, Await(Show(Begin(fresh, bytes), phase), stage, from), stages, 1)
    BY <2>1, <2>5, <2>6, UnitEnters
  <2>8. Await(Show(Begin(fresh, bytes), phase), stage, from).at
          = [stage |-> stage, index |-> from]
    BY <2>1, <2>5, EnterType
  <2> QED
    BY <2>1, <2>4, <2>7, <2>8, EntersThrough
<1> QED
  BY <1>2, <1>3, <1>4

-----------------------------------------------------------------------------
(* What each answer makes of the reducer's records and of where it is.     *)

LEMMA RecordsTransitive ==
  ASSUME NEW m, NEW n, NEW o, SameRecords(m, n), SameRecords(n, o)
  PROVE  SameRecords(m, o)
BY DEF SameRecords

\* Counting a unit or a failure leaves them alone.
LEMMA BookingSame ==
  ASSUME NEW m \in Machine
  PROVE  /\ \A bytes \in Nat :
              Complete(m, bytes) \in Machine /\ SameRecords(m, Complete(m, bytes))
         /\ \A t \in Track \cup {Unattributed} :
              Fail(m, t) \in Machine /\ SameRecords(m, Fail(m, t))
         /\ FailPlaylist(m) \in Machine /\ SameRecords(m, FailPlaylist(m))
         /\ StopStage(m) \in Machine /\ SameRecords(m, StopStage(m))
<1>1. ASSUME NEW bytes \in Nat
      PROVE  SameRecords(m, Complete(m, bytes))
  <2> DEFINE ledger == CompleteUnit(m.ledger, bytes)
  <2>1. Complete(m, bytes) = [m EXCEPT !.ledger = ledger]
    BY DEF Complete
  <2> HIDE DEF ledger
  <2> QED
    BY <2>1 DEF Machine, SameRecords
<1>2. ASSUME NEW t \in Track \cup {Unattributed}
      PROVE  SameRecords(m, Fail(m, t))
  BY DEF Machine, Fail, SameRecords
<1>3. SameRecords(m, StopStage(m))
  BY DEF Machine, StopStage, SameRecords
<1> QED
  BY <1>1, <1>2, <1>3, CompleteType, FailType, FailPlaylistType, StopStageType
     DEF FailPlaylist

\* Completing the unit of a failure, of either kind.
LEMMA FailedSame ==
  ASSUME NEW m \in Machine, NEW bytes \in Nat
  PROVE  /\ \A t \in Track \cup {Unattributed} :
              /\ Complete(Fail(m, t), bytes) \in Machine
              /\ SameRecords(m, Complete(Fail(m, t), bytes))
         /\ Complete(FailPlaylist(m), bytes) \in Machine
         /\ SameRecords(m, Complete(FailPlaylist(m), bytes))
         /\ Complete(StopStage(m), bytes) \in Machine
         /\ SameRecords(m, Complete(StopStage(m), bytes))
BY BookingSame, RecordsTransitive

TransfersEntered(n, from) ==
  /\ Entered(n, {"transcode", "copy"} \cup MiddleStages, 1)
  /\ n.at.stage \in {"transcode", "copy"} => n.at.index = from
  /\ n.at.stage \notin {"transcode", "copy", "done"} => from > Len(plan.transfers)

LEMMA NextTransferTurn ==
  ASSUME plan \in MirrorPlan, NEW m, NEW n \in Machine, NEW from \in Nat \ {0},
         SameRecords(m, n), run' = EnterTransfers(n, from)
  PROVE  SameRecords(m, run') /\ TransfersEntered(run', from)
<1>1. Enters(n, run', {"transcode", "copy"} \cup MiddleStages, 1)
  BY TransfersEnter
<1>2. /\ run'.at.stage \in {"transcode", "copy"} => run'.at.index = from
      /\ run'.at.stage \notin {"transcode", "copy", "done"} =>
           from > Len(plan.transfers)
  BY TransfersEnter
<1> QED
  BY <1>1, <1>2, RecordsTransitive DEF Enters, TransfersEntered

LEMMA RunIndex ==
  ASSUME RunInv
  PROVE  /\ run \in Machine /\ plan \in MirrorPlan /\ Inv
         /\ run.at.stage \notin {"start", "partials", "writeMetadata", "done"} =>
              Index \in 1..StageLength(run)
         /\ run.at = [stage |-> run.at.stage, index |-> Index]
         /\ Index \in Nat
BY RunParts, NextIndex, MachineParts DEF RunInv, Index

LEMMA PartialsTurn ==
  ASSUME RunInv, NEW ok \in BOOLEAN, PartialsCleaned(ok)
  PROVE  SameRecords(run, run') /\ TransfersEntered(run', 1)
<1>1. CASE ok
  <2>1. SameRecords(run, run)
    BY DEF SameRecords
  <2> QED
    BY <1>1, <2>1, RunIndex, NextTransferTurn DEF PartialsCleaned, Handle
<1>2. CASE ~ok
  <2>1. run' = Finish(StopStage(run))
    BY <1>2 DEF PartialsCleaned, Handle
  <2>2. StopStage(run) \in Machine /\ SameRecords(run, StopStage(run))
    BY RunIndex, BookingSame
  <2>3. Enters(StopStage(run), run', {"done"}, 1)
    BY <2>1, <2>2, RunIndex, FinishEnters
  <2> QED
    BY <2>2, <2>3, RecordsTransitive DEF Enters, Entered, TransfersEntered, MiddleStages, LateStages
<1> QED
  BY <1>1, <1>2

\* A transfer whose file did not arrive.
LEMMA UnpublishedSame ==
  ASSUME plan \in MirrorPlan, NEW m \in Machine, NEW k \in 1..Len(plan.transfers)
  PROVE  LET n == Complete(FailUnpublished(m, k), 0)
         IN  /\ n \in Machine
             /\ n.carried = m.carried /\ n.published = m.published
             /\ n.staleList = m.staleList
             /\ n.absent = m.absent \cup {plan.transfers[k].path}
<1> DEFINE failed == Fail(m, plan.transfers[k].track)
           absent == failed.absent \cup {plan.transfers[k].path}
           n == FailUnpublished(m, k)
<1>1. plan.transfers[k].track \in Track
  <2>1. plan.transfers[k] \in Transfer
    BY PlanParts, ElementOfSeq
  <2> QED
    BY <2>1 DEF Transfer
<1>2. failed \in Machine /\ SameRecords(m, failed)
  BY <1>1, BookingSame
<1>3. n = [failed EXCEPT !.absent = absent]
  BY DEF FailUnpublished
<1>4. n \in Machine
  BY FailUnpublishedType
<1>5. absent = m.absent \cup {plan.transfers[k].path}
  BY <1>2 DEF SameRecords
<1> HIDE DEF failed, absent, n
<1>6. /\ n.carried = failed.carried /\ n.published = failed.published
      /\ n.staleList = failed.staleList /\ n.absent = absent
  BY <1>2, <1>3 DEF Machine
<1>7. Complete(n, 0) \in Machine /\ SameRecords(n, Complete(n, 0))
  BY <1>4, BookingSame
<1> QED
  BY <1>2, <1>5, <1>6, <1>7 DEF SameRecords, n

LEMMA FailedTransferTurn ==
  ASSUME RunInv, Index \in 1..Len(plan.transfers),
         run' = EnterTransfers(Complete(FailUnpublished(run, Index), 0), Index + 1)
  PROVE  /\ run'.carried = run.carried /\ run'.published = run.published
         /\ run'.staleList = run.staleList
         /\ run'.absent = run.absent \cup {plan.transfers[Index].path}
         /\ TransfersEntered(run', Index + 1)
<1> DEFINE n == Complete(FailUnpublished(run, Index), 0)
<1>1. /\ n \in Machine
      /\ n.carried = run.carried /\ n.published = run.published
      /\ n.staleList = run.staleList
      /\ n.absent = run.absent \cup {plan.transfers[Index].path}
  BY RunIndex, UnpublishedSame
<1> HIDE DEF n
<1>2. SameRecords(n, n) /\ Index + 1 \in Nat \ {0}
  BY RunIndex DEF SameRecords
<1>3. SameRecords(n, run') /\ TransfersEntered(run', Index + 1)
  BY <1>1, <1>2, RunIndex, NextTransferTurn DEF n
<1> QED
  BY <1>1, <1>3 DEF SameRecords

LEMMA TranscodedTurn ==
  ASSUME RunInv, NEW ok \in BOOLEAN, NEW bytes \in Bytes, Transcoded(ok, bytes)
  PROVE  /\ Index \in 1..Len(plan.transfers)
         /\ run'.carried = run.carried /\ run'.published = run.published
         /\ run'.staleList = run.staleList
         /\ ok => run'.at = [stage |-> "copy", index |-> Index]
                  /\ run'.absent = run.absent
         /\ ~ok => /\ run'.absent = run.absent \cup {plan.transfers[Index].path}
                   /\ TransfersEntered(run', Index + 1)
<1>1. Index \in 1..Len(plan.transfers)
  BY RunIndex DEF Transcoded, Awaiting, StageLength
<1>2. CASE ok
  <2> DEFINE done == [run EXCEPT !.transcoded = TRUE, !.transcodedBytes = bytes]
  <2>1. done \in Machine /\ SameRecords(run, done)
    BY RunIndex, BytesAreNatural DEF Machine, SameRecords
  <2>2. done.transcoded = TRUE /\ done.transcodedBytes = bytes
    BY RunIndex DEF Machine
  <2>3. run' = StartCopy(done, Index)
    BY <1>2 DEF Transcoded, Handle
  <2> HIDE DEF done
  <2>4. run' = Await(Show(Begin(done, bytes), "copying"), "copy", Index)
    BY <2>2, <2>3 DEF StartCopy
  <2>5. run'.at = [stage |-> "copy", index |-> Index]
    BY <2>1, <2>4, RunIndex, BytesAreNatural, Names, EnterType, SMTT(30)
  <2>6. SameRecords(done, run')
    BY <2>1, <2>4, RunIndex, BytesAreNatural, Names, EnterFrame, SameFrame
  <2> QED
    BY <1>1, <1>2, <2>1, <2>5, <2>6 DEF SameRecords
<1>3. CASE ~ok
  <2>1. run' = EnterTransfers(Complete(FailUnpublished(run, Index), 0), Index + 1)
    BY <1>3 DEF Transcoded, Handle
  <2> QED
    BY <1>1, <1>3, <2>1, FailedTransferTurn
<1> QED
  BY <1>2, <1>3

LEMMA TrackCopiedTurn ==
  ASSUME RunInv, NEW ok \in BOOLEAN, NEW bytes \in Bytes, NEW path \in Path,
         TrackCopied(ok, bytes, path)
  PROVE  /\ Index \in 1..Len(plan.transfers)
         /\ run'.carried = run.carried /\ run'.published = run.published
         /\ run'.staleList = run.staleList /\ run.absent \subseteq run'.absent
         /\ ok => run'.at = [stage |-> "recordFile", index |-> Index]
                  /\ run'.copiedPath = path
         /\ ~ok => /\ run'.at.stage = "done" \/ plan.transfers[Index].path \in run'.absent
                   /\ TransfersEntered(run', Index + 1)
<1>1. Index \in 1..Len(plan.transfers)
  BY RunIndex DEF TrackCopied, Awaiting, StageLength
<1>2. CASE ok
  <2> DEFINE copied == [run EXCEPT !.copiedBytes = bytes, !.copiedPath = path]
  <2>1. copied \in Machine /\ SameRecords(run, copied) /\ copied.copiedPath = path
    BY RunIndex, BytesAreNatural DEF Machine, SameRecords, PathOrNone
  <2>2. run' = Await(copied, "recordFile", Index)
    BY <1>2 DEF TrackCopied, Handle
  <2> HIDE DEF copied
  <2>3. /\ run'.at = [stage |-> "recordFile", index |-> Index]
        /\ SameRecords(copied, run')
    <3>1. "recordFile" \in Stages /\ Index \in Nat
      BY RunIndex DEF Stages
    <3> QED
      BY <2>1, <2>2, <3>1, AwaitType, AwaitFrame, SameFrame
  <2>4. run'.copiedPath = path
    BY <2>1, <2>2 DEF Await, Machine
  <2> QED
    BY <1>1, <1>2, <2>1, <2>3, <2>4 DEF SameRecords
<1>3. CASE ~ok /\ ~run.cancelled
  <2>1. run' = EnterTransfers(Complete(FailUnpublished(run, Index), 0), Index + 1)
    BY <1>3 DEF TrackCopied, Handle
  <2> QED
    BY <1>1, <1>3, <2>1, FailedTransferTurn
<1>4. CASE ~ok /\ run.cancelled
  <2> DEFINE n == Complete(run, 0)
  <2>1. n \in Machine /\ SameRecords(run, n)
    BY RunIndex, BookingSame
  <2>2. run' = EnterTransfers(n, Index + 1)
    BY <1>4 DEF TrackCopied, Handle
  <2>3. n.cancelled
    BY <1>4, RunIndex DEF Complete, Machine
  <2> HIDE DEF n
  <2>4. run'.at.stage = "done"
    BY <2>1, <2>2, <2>3, RunIndex, FinishFrame DEF EnterTransfers
  <2>5. SameRecords(run, run') /\ TransfersEntered(run', Index + 1)
    BY <2>1, <2>2, RunIndex, NextTransferTurn
  <2> QED
    BY <1>1, <1>4, <2>4, <2>5 DEF SameRecords
<1> QED
  BY <1>2, <1>3, <1>4

LEMMA FileRecordedTurn ==
  ASSUME RunInv, NEW ok \in BOOLEAN, FileRecorded(ok)
  PROVE  /\ Index \in 1..Len(plan.transfers)
         /\ run'.absent = run.absent /\ run'.published = run.published
         /\ run'.staleList = run.staleList
         /\ \/ run'.carried = run.carried
            \/ run'.carried =
                 [run.carried EXCEPT ![plan.transfers[Index].track] = run.copiedPath]
         /\ TransfersEntered(run', Index + 1)
<1> DEFINE recorded == IF ok THEN Recorded(run, Index)
                       ELSE Fail(run, plan.transfers[Index].track)
           settled == [recorded EXCEPT !.copiedPath = NoPath, !.copiedBytes = 0]
           n == Complete(settled, run.copiedBytes)
<1>1. Index \in 1..Len(plan.transfers)
  BY RunIndex DEF FileRecorded, Awaiting, StageLength
<1>2. run' = EnterTransfers(n, Index + 1)
  BY DEF FileRecorded, Handle
<1>3. plan.transfers[Index].track \in Track
  <2>1. plan.transfers[Index] \in Transfer
    BY <1>1, RunIndex, PlanParts, ElementOfSeq
  <2> QED
    BY <2>1 DEF Transfer
<1>4. /\ recorded \in Machine
      /\ recorded.absent = run.absent /\ recorded.published = run.published
      /\ recorded.staleList = run.staleList
      /\ \/ recorded.carried = run.carried
         \/ recorded.carried =
              [run.carried EXCEPT ![plan.transfers[Index].track] = run.copiedPath]
  <2>1. CASE ok
    <3> DEFINE r == Recorded(run, Index)
    <3>1. /\ r \in Machine
          /\ r.carried =
               [run.carried EXCEPT ![plan.transfers[Index].track] = run.copiedPath]
          /\ r.absent = run.absent /\ r.published = run.published
          /\ r.staleList = run.staleList
      BY <1>1, RunIndex, RecordedParts
    <3>2. recorded = r
      BY <2>1
    <3> HIDE DEF r, recorded
    <3> QED
      BY <3>1, <3>2
  <2>2. CASE ~ok
    <3> DEFINE f == Fail(run, plan.transfers[Index].track)
    <3>1. f \in Machine /\ SameRecords(run, f)
      BY <1>3, RunIndex, BookingSame
    <3>2. recorded = f
      BY <2>2
    <3> HIDE DEF f, recorded
    <3> QED
      BY <3>1, <3>2 DEF SameRecords
  <2> QED
    BY <2>1, <2>2
<1> HIDE DEF recorded
<1>5. settled \in Machine /\ SameRecords(recorded, settled)
  BY <1>4 DEF Machine, SameRecords, PathOrNone
<1> HIDE DEF settled
<1>6. n \in Machine /\ SameRecords(settled, n)
  BY <1>5, RunIndex, RunParts, BookingSame
<1> HIDE DEF n
<1>7. Index + 1 \in Nat \ {0} /\ SameRecords(recorded, n)
  BY <1>5, <1>6, RunIndex, RecordsTransitive
<1>8. SameRecords(recorded, run') /\ TransfersEntered(run', Index + 1)
  BY <1>2, <1>6, <1>7, RunIndex, NextTransferTurn
<1> QED
  BY <1>1, <1>4, <1>8 DEF SameRecords


LEMMA SharedTurn ==
  ASSUME RunInv, NEW ok \in BOOLEAN, SharedFileRecorded(ok)
  PROVE  /\ Index \in 1..Len(plan.shared)
         /\ SameRecords(run, run') /\ Entered(run', MiddleStages, 1)
<1> DEFINE recorded == IF ok THEN DeferSharedPrevious(run, Index)
                       ELSE Fail(run, plan.shared[Index].track)
           n == [recorded EXCEPT !.sharedPath = NoPath]
<1>1. Index \in 1..Len(plan.shared)
  BY RunIndex DEF SharedFileRecorded, Awaiting, StageLength
<1>2. run' = EnterSharedRecords(n, Index + 1)
  BY DEF SharedFileRecorded, Handle
<1>3. plan.shared[Index].track \in Track
  <2>1. plan.shared[Index] \in SharedRecord
    BY <1>1, RunIndex, PlanParts, ElementOfSeq
  <2> QED
    BY <2>1 DEF SharedRecord
<1>4. recorded \in Machine /\ SameRecords(run, recorded)
  <2>1. CASE ok
    <3> DEFINE r == DeferSharedPrevious(run, Index)
    <3>1. r \in Machine /\ SameRecords(run, r)
      BY <1>1, RunIndex, DeferSharedPreviousParts DEF SameRecords
    <3>2. recorded = r
      BY <2>1
    <3> HIDE DEF r, recorded
    <3> QED
      BY <3>1, <3>2
  <2>2. CASE ~ok
    <3> DEFINE f == Fail(run, plan.shared[Index].track)
    <3>1. f \in Machine /\ SameRecords(run, f)
      BY <1>3, RunIndex, BookingSame
    <3>2. recorded = f
      BY <2>2
    <3> HIDE DEF f, recorded
    <3> QED
      BY <3>1, <3>2
  <2> QED
    BY <2>1, <2>2
<1> HIDE DEF recorded
<1>5. n \in Machine /\ SameRecords(recorded, n)
  BY <1>4 DEF Machine, SameRecords, PathOrNone
<1> HIDE DEF n
<1>6. Index + 1 \in Nat \ {0}
  BY RunIndex
<1>7. Enters(n, run', MiddleStages, 1)
  BY <1>2, <1>5, <1>6, RunIndex, SharedRecordsEnter
<1>8. SameRecords(run, n)
  BY <1>4, <1>5, RecordsTransitive
<1>9. SameRecords(run, run')
  BY <1>7, <1>8, RecordsTransitive DEF Enters
<1> QED
  BY <1>1, <1>7, <1>9 DEF Enters

LEMMA AnalysisTurn ==
  ASSUME RunInv, NEW ok \in BOOLEAN, NEW bytes \in Bytes, AnalysisWritten(ok, bytes)
  PROVE  /\ Index \in 1..Len(plan.analysis)
         /\ SameRecords(run, run') /\ Entered(run', MiddleStages, 1)
<1> DEFINE n == IF ok THEN Complete(run, bytes) ELSE Complete(StopStage(run), 0)
<1>1. Index \in 1..Len(plan.analysis)
  BY RunIndex DEF AnalysisWritten, Awaiting, StageLength
<1>2. run' = EnterAnalysisWrites(n, Index + 1)
  BY DEF AnalysisWritten, Handle
<1>3. n \in Machine /\ SameRecords(run, n)
  BY RunIndex, BytesAreNatural, BookingSame, FailedSame
<1> HIDE DEF n
<1>4. Index + 1 \in Nat \ {0}
  BY RunIndex
<1>5. Enters(n, run', MiddleStages, 1)
  BY <1>2, <1>3, <1>4, RunIndex, AnalysisWritesEnter
<1> QED
  BY <1>1, <1>3, <1>5, RecordsTransitive DEF Enters

LEMMA PlaylistWrittenTurn ==
  ASSUME RunInv, NEW ok \in BOOLEAN, PlaylistWritten(ok)
  PROVE  /\ Index \in 1..Len(plan.lists) /\ SameRecords(run, run')
         /\ ok => run'.at = [stage |-> "recordList", index |-> Index]
         /\ ~ok => Entered(run', MiddleStages, 1)
<1>1. Index \in 1..Len(plan.lists)
  BY RunIndex DEF PlaylistWritten, Awaiting, StageLength
<1>2. CASE ok
  <2>1. run' = Await(run, "recordList", Index)
    BY <1>2 DEF PlaylistWritten, Handle
  <2>2. "recordList" \in Stages /\ Index \in Nat
    BY RunIndex DEF Stages
  <2> QED
    BY <1>1, <1>2, <2>1, <2>2, RunIndex, AwaitType, AwaitFrame, SameFrame
<1>3. CASE ~ok
  <2> DEFINE n == Complete(FailPlaylist(run), 0)
  <2>1. run' = EnterPlaylistWrites(n, Index + 1)
    BY <1>3 DEF PlaylistWritten, Handle
  <2>2. n \in Machine /\ SameRecords(run, n)
    BY RunIndex, FailedSame
  <2> HIDE DEF n
  <2>3. Enters(n, run', MiddleStages, 1)
    BY <2>1, <2>2, RunIndex, PlaylistWritesEnter
  <2> QED
    BY <1>1, <1>3, <2>2, <2>3, RecordsTransitive DEF Enters
<1> QED
  BY <1>2, <1>3

LEMMA PlaylistRecordedTurn ==
  ASSUME RunInv, NEW ok \in BOOLEAN, PlaylistRecorded(ok)
  PROVE  /\ Index \in 1..Len(plan.lists)
         /\ run'.carried = run.carried /\ run'.absent = run.absent
         /\ run'.staleList = run.staleList
         /\ ok => run'.published = run.published \cup {plan.lists[Index].source}
         /\ ~ok => run'.published = run.published
         /\ Entered(run', MiddleStages, 1)
<1> DEFINE published == run.published \cup {plan.lists[Index].source}
           recorded == IF ok THEN [run EXCEPT !.published = published]
                       ELSE FailPlaylist(run)
           n == Complete(recorded, 0)
<1>1. Index \in 1..Len(plan.lists)
  BY RunIndex DEF PlaylistRecorded, Awaiting, StageLength
<1>2. run' = EnterPlaylistWrites(n, Index + 1)
  BY DEF PlaylistRecorded, Handle
<1>3. published \in SUBSET Source
  <2>1. plan.lists[Index] \in ListWrite
    BY <1>1, RunIndex, PlanParts, ElementOfSeq
  <2> QED
    BY <2>1, RunIndex, RunParts DEF ListWrite
<1>4. /\ recorded \in Machine
      /\ recorded.carried = run.carried /\ recorded.absent = run.absent
      /\ recorded.staleList = run.staleList
      /\ ok => recorded.published = published
      /\ ~ok => recorded.published = run.published
  <2>1. CASE ok
    <3> HIDE DEF published
    <3> QED
      BY <1>3, <2>1, RunIndex DEF Machine
  <2>2. CASE ~ok
    <3>1. recorded = FailPlaylist(run)
      BY <2>2
    <3> HIDE DEF recorded
    <3> QED
      BY <2>2, <3>1, RunIndex, BookingSame DEF SameRecords
  <2> QED
    BY <2>1, <2>2
<1> HIDE DEF recorded
<1>5. n \in Machine /\ SameRecords(recorded, n)
  BY <1>4, BookingSame
<1> HIDE DEF n
<1>6. Enters(n, run', MiddleStages, 1)
  BY <1>2, <1>5, RunIndex, PlaylistWritesEnter
<1> QED
  BY <1>1, <1>4, <1>5, <1>6 DEF Enters, SameRecords

LEMMA NextListRemovalTurn ==
  ASSUME RunInv, Index \in 1..Len(plan.listRemovals), NEW n \in Machine,
         run' = EnterPlaylistRemovals(n, Index + 1)
  PROVE  Enters(n, run', LateStages, Index + 1)
<1>1. Index + 1 \in 1..ListsGone
  <2>1. Len(plan.listRemovals) \in Nat
    BY RunIndex, PlanLengths
  <2> QED
    BY <2>1 DEF ListsGone
<1> QED
  BY <1>1, RunIndex, PlaylistRemovalsEnters

LEMMA PlaylistRemovedTurn ==
  ASSUME RunInv, NEW ok \in BOOLEAN, PlaylistRemoved(ok)
  PROVE  /\ Index \in 1..Len(plan.listRemovals)
         /\ run'.carried = run.carried /\ run'.absent = run.absent
         /\ run'.published = run.published
         /\ run'.staleList = (run.staleList \/ ~ok)
         /\ \/ /\ ok /\ run'.at = [stage |-> "forgetList", index |-> Index]
               /\ plan.listRemovals[Index].source \notin PlannedSources
            \/ Entered(run', LateStages, Index + 1)
<1>1. Index \in 1..Len(plan.listRemovals)
  BY RunIndex DEF PlaylistRemoved, Awaiting, StageLength
<1>2. CASE ~ok
  <2> DEFINE stale == [run EXCEPT !.staleList = TRUE]
             n == Complete(FailPlaylist(stale), 0)
  <2>1. run' = EnterPlaylistRemovals(n, Index + 1)
    BY <1>2 DEF PlaylistRemoved, Handle
  <2>2. /\ stale \in Machine
        /\ stale.carried = run.carried /\ stale.absent = run.absent
        /\ stale.published = run.published /\ stale.staleList = TRUE
    BY RunIndex DEF Machine
  <2> HIDE DEF stale
  <2>3. n \in Machine /\ SameRecords(stale, n)
    BY <2>2, FailedSame
  <2> HIDE DEF n
  <2>4. Enters(n, run', LateStages, Index + 1)
    BY <1>1, <2>1, <2>3, NextListRemovalTurn
  <2> QED
    BY <1>1, <1>2, <2>2, <2>3, <2>4 DEF Enters, SameRecords
<1>3. CASE ok /\ plan.listRemovals[Index].source \in PlannedSources
  <2> DEFINE n == Complete(run, 0)
  <2>1. run' = EnterPlaylistRemovals(n, Index + 1)
    BY <1>3 DEF PlaylistRemoved, Handle
  <2>2. n \in Machine /\ SameRecords(run, n)
    BY RunIndex, BookingSame
  <2> HIDE DEF n
  <2>3. Enters(n, run', LateStages, Index + 1)
    BY <1>1, <2>1, <2>2, NextListRemovalTurn
  <2>4. run.staleList \in BOOLEAN
    BY RunIndex, MachineParts
  <2> QED
    BY <1>1, <1>3, <2>2, <2>3, <2>4 DEF Enters, SameRecords
<1>4. CASE ok /\ plan.listRemovals[Index].source \notin PlannedSources
  <2>1. run' = Await(run, "forgetList", Index)
    BY <1>4 DEF PlaylistRemoved, Handle
  <2>2. "forgetList" \in Stages /\ Index \in Nat
    BY RunIndex DEF Stages
  <2>3. SameRecords(run, run') /\ run'.at = [stage |-> "forgetList", index |-> Index]
    BY <2>1, <2>2, RunIndex, AwaitType, AwaitFrame, SameFrame
  <2>4. run.staleList \in BOOLEAN
    BY RunIndex, MachineParts
  <2> QED
    BY <1>1, <1>4, <2>3, <2>4 DEF SameRecords
<1> QED
  BY <1>2, <1>3, <1>4

LEMMA PlaylistForgottenTurn ==
  ASSUME RunInv, NEW ok \in BOOLEAN, PlaylistForgotten(ok)
  PROVE  /\ Index \in 1..Len(plan.listRemovals)
         /\ SameRecords(run, run') /\ Entered(run', LateStages, Index + 1)
<1> DEFINE n == Complete(IF ok THEN run ELSE FailPlaylist(run), 0)
<1>1. Index \in 1..Len(plan.listRemovals)
  BY RunIndex DEF PlaylistForgotten, Awaiting, StageLength
<1>2. run' = EnterPlaylistRemovals(n, Index + 1)
  BY DEF PlaylistForgotten, Handle
<1>3. n \in Machine /\ SameRecords(run, n)
  BY RunIndex, BookingSame, FailedSame
<1> HIDE DEF n
<1>4. Enters(n, run', LateStages, Index + 1)
  BY <1>1, <1>2, <1>3, NextListRemovalTurn
<1> QED
  BY <1>1, <1>3, <1>4, RecordsTransitive DEF Enters

LEMMA NextRemovalTurn ==
  ASSUME RunInv, NEW track \in Track \cup {Unattributed},
         NEW n, n = Complete(run, 0) \/ n = Complete(Fail(run, track), 0),
         run' = EnterRemovals(n, Index + 1)
  PROVE  SameRecords(run, run') /\ Entered(run', LateStages, ListsGone)
<1>1. n \in Machine /\ SameRecords(run, n)
  BY RunIndex, BookingSame, FailedSame
<1>2. Index + 1 \in Nat
  BY RunIndex
<1>3. Enters(n, run', LateStages, ListsGone)
  BY <1>1, <1>2, RunIndex, RemovalsEnters
<1> QED
  BY <1>1, <1>3, RecordsTransitive DEF Enters

LEMMA TrackRemovedTurn ==
  ASSUME RunInv, NEW ok \in BOOLEAN, TrackRemoved(ok)
  PROVE  /\ Index \in 1..Len(plan.removals) /\ SameRecords(run, run')
         /\ \/ run'.at = [stage |-> "forgetFile", index |-> Index]
            \/ Entered(run', LateStages, ListsGone)
<1>1. Index \in 1..Len(plan.removals)
  BY RunIndex DEF TrackRemoved, Awaiting, StageLength
<1>2. plan.removals[Index].track \in Track \cup {Unattributed}
  <2>1. plan.removals[Index] \in Removal
    BY <1>1, RunIndex, PlanParts, ElementOfSeq
  <2> QED
    BY <2>1 DEF Removal
<1>3. CASE ~ok
  <2>1. run' = EnterRemovals(Complete(Fail(run, plan.removals[Index].track), 0), Index + 1)
    BY <1>3 DEF TrackRemoved, Handle
  <2> QED
    BY <1>1, <1>2, <2>1, NextRemovalTurn
<1>4. CASE ok /\ plan.removals[Index].kind = "orphan"
  <2>1. run' = EnterRemovals(Complete(run, 0), Index + 1)
    BY <1>4 DEF TrackRemoved, Handle
  <2> QED
    BY <1>1, <1>2, <2>1, NextRemovalTurn
<1>5. CASE ok /\ plan.removals[Index].kind # "orphan"
  <2>1. run' = Await(run, "forgetFile", Index)
    BY <1>5 DEF TrackRemoved, Handle
  <2>2. "forgetFile" \in Stages /\ Index \in Nat
    BY RunIndex DEF Stages
  <2>3. SameRecords(run, run') /\ run'.at = [stage |-> "forgetFile", index |-> Index]
    BY <2>1, <2>2, RunIndex, AwaitType, AwaitFrame, SameFrame
  <2> QED
    BY <1>1, <2>3
<1> QED
  BY <1>3, <1>4, <1>5

LEMMA FileForgottenTurn ==
  ASSUME RunInv, NEW ok \in BOOLEAN, FileForgotten(ok)
  PROVE  /\ Index \in 1..Len(plan.removals)
         /\ SameRecords(run, run') /\ Entered(run', LateStages, ListsGone)
<1>1. Index \in 1..Len(plan.removals)
  BY RunIndex DEF FileForgotten, Awaiting, StageLength
<1>2. plan.removals[Index].track \in Track \cup {Unattributed}
  <2>1. plan.removals[Index] \in Removal
    BY <1>1, RunIndex, PlanParts, ElementOfSeq
  <2> QED
    BY <2>1 DEF Removal
<1>3. CASE ok
  <2>1. run' = EnterRemovals(Complete(run, 0), Index + 1)
    BY <1>3 DEF FileForgotten, Handle
  <2> QED
    BY <1>1, <1>2, <2>1, NextRemovalTurn
<1>4. CASE ~ok
  <2>1. run' = EnterRemovals(Complete(Fail(run, plan.removals[Index].track), 0), Index + 1)
    BY <1>4 DEF FileForgotten, Handle
  <2> QED
    BY <1>1, <1>2, <2>1, NextRemovalTurn
<1> QED
  BY <1>3, <1>4

LEMMA ReplacedTurn ==
  ASSUME RunInv, NEW ok \in BOOLEAN, ReplacedFileRemoved(ok)
  PROVE  /\ Index \in DOMAIN run.deferred
         /\ SameRecords(run, run') /\ Entered(run', LateStages, ListsGone)
<1> DEFINE n == IF ok THEN run ELSE Fail(run, run.deferred[Index].track)
<1>1. Index \in DOMAIN run.deferred /\ run.deferred[Index].track \in Track
  <2>1. Index \in 1..Len(run.deferred)
    BY RunIndex DEF ReplacedFileRemoved, Awaiting, StageLength
  <2>2. run.deferred \in Seq([path : Path, track : Track])
    BY RunIndex, RunParts
  <2>3. run.deferred[Index] \in [path : Path, track : Track]
    BY <2>1, <2>2, ElementOfSeq
  <2> QED
    BY <2>1, <2>2, <2>3, LenProperties
<1>2. run' = EnterDeferredRemovals(n, Index + 1)
  BY DEF ReplacedFileRemoved, Handle
<1>3. n \in Machine /\ SameRecords(run, n)
  <2>1. SameRecords(run, run)
    BY DEF SameRecords
  <2> QED
    BY <1>1, <2>1, RunIndex, BookingSame
<1> HIDE DEF n
<1>4. Index + 1 \in Nat
  BY RunIndex
<1>5. Enters(n, run', LateStages, ListsGone)
  BY <1>2, <1>3, <1>4, RunIndex, DeferredEnters
<1> QED
  BY <1>1, <1>3, <1>5, RecordsTransitive DEF Enters

-----------------------------------------------------------------------------
(* What an effect, done, half done or failed, makes of the store.          *)

IsPut(g, f, key, value) ==
  /\ DOMAIN g = DOMAIN f \cup {key}
  /\ g[key] = value
  /\ \A x \in DOMAIN f : x # key => g[x] = f[x]

IsDrop(g, f, key) ==
  /\ DOMAIN g = DOMAIN f \ {key}
  /\ \A x \in DOMAIN f : x # key => g[x] = f[x]

LEMMA PutParts ==
  \A f, key, value : IsPut(Put(f, key, value), f, key, value)
BY DEF Put, IsPut

LEMMA DropParts ==
  \A f, key : IsDrop(Drop(f, key), f, key)
BY DEF Drop, Restrict, IsDrop

LEMMA PartialFunctions ==
  ASSUME NEW f, NEW S, NEW T, IsPartialFunction(f, S, T), NEW g, NEW key
  PROVE  /\ IsDrop(g, f, key) => IsPartialFunction(g, S, T)
         /\ \A value : /\ IsPut(g, f, key, value)
                       /\ key \in S /\ value \in T
                       => IsPartialFunction(g, S, T)
BY DEF IsPartialFunction, IsPut, IsDrop

StoreOf(rows, listRows, audio, lists, sidecars) ==
  [rows |-> rows, listRows |-> listRows, audio |-> audio,
   lists |-> lists, sidecars |-> sidecars]

IsRecord(s) == s \in [rows : {s.rows}, listRows : {s.listRows}, audio : {s.audio},
                      lists : {s.lists}, sidecars : {s.sidecars}]

LEMMA StoreParts ==
  ASSUME NEW rows, NEW listRows, NEW audio, NEW lists, NEW sidecars
  PROVE  LET s == StoreOf(rows, listRows, audio, lists, sidecars)
         IN  /\ s.rows = rows /\ s.listRows = listRows /\ s.audio = audio
             /\ s.lists = lists /\ s.sidecars = sidecars
             /\ IsRecord(s)
BY DEF StoreOf, IsRecord

\* The paths whose file an effect may cost.
MayLose(path) ==
  \/ Awaiting("copy") /\ path = plan.transfers[Index].path
  \/ Awaiting("writeAnalysis") /\ path = plan.analysis[Index].path
  \/ Awaiting("writeList") /\ path = plan.lists[Index].path
  \/ run.at.stage \in {"removeList", "removeTrack", "removeReplaced"} /\ path = DoomedPath

RowsFollow(rows) ==
  \A t \in DOMAIN rows :
    \/ t \in DOMAIN store.rows /\ rows[t] = store.rows[t]
    \/ /\ Awaiting("recordFile") /\ t = plan.transfers[Index].track
       /\ rows[t].path = run.copiedPath
    \/ /\ Awaiting("recordShared") /\ t = plan.shared[Index].track
       /\ rows[t].path = run.sharedPath

ListRowsFollow(listRows) ==
  /\ \A s \in DOMAIN listRows :
       \/ s \in DOMAIN store.listRows /\ listRows[s] = store.listRows[s]
       \/ /\ Awaiting("recordList") /\ s = plan.lists[Index].source
          /\ listRows[s] = plan.lists[Index].path
  /\ \A s \in DOMAIN store.listRows :
       \/ s \in DOMAIN listRows /\ listRows[s] = store.listRows[s]
       \/ Awaiting("recordList") /\ s = plan.lists[Index].source /\ s \in DOMAIN listRows
       \/ Awaiting("forgetList") /\ s = plan.listRemovals[Index].source

ListsFollow(lists, audio) ==
  \A path \in DOMAIN lists :
    \/ path \in DOMAIN store.lists /\ lists[path] = store.lists[path]
    \/ /\ Awaiting("writeList") /\ path = plan.lists[Index].path
       /\ lists[path] = plan.lists[Index].entries \ run.absent
       /\ audio = store.audio

AudioStays(audio) ==
  \A path \in DOMAIN store.audio : path \in DOMAIN audio \/ MayLose(path)

Follows(after) ==
  /\ IsStore(after) /\ IsRecord(after)
  /\ RowsFollow(after.rows) /\ ListRowsFollow(after.listRows)
  /\ ListsFollow(after.lists, after.audio) /\ AudioStays(after.audio)

\* The parts of the store that an effect leaves alone.
LEMMA Unchanged ==
  /\ RowsFollow(store.rows) /\ ListRowsFollow(store.listRows)
  /\ \A audio : ListsFollow(store.lists, audio)
  /\ AudioStays(store.audio)
BY DEF RowsFollow, ListRowsFollow, ListsFollow, AudioStays

LEMMA LosesFollow ==
  ASSUME IsStore(store), NEW path, MayLose(path), NEW sidecars \in SUBSET store.sidecars,
         NEW after,
         after = StoreOf(store.rows, store.listRows, Drop(store.audio, path),
                         Drop(store.lists, path), sidecars)
  PROVE  Follows(after)
<1> DEFINE audio == Drop(store.audio, path)
           lists == Drop(store.lists, path)
<1>1. IsDrop(audio, store.audio, path) /\ IsDrop(lists, store.lists, path)
  BY DropParts
<1> HIDE DEF audio, lists
<1>2. /\ after.rows = store.rows /\ after.listRows = store.listRows
      /\ after.audio = audio /\ after.lists = lists /\ after.sidecars = sidecars
      /\ IsRecord(after)
  BY StoreParts DEF audio, lists
<1>3. /\ IsPartialFunction(audio, Path, Content)
      /\ IsPartialFunction(lists, Path, SUBSET Path)
  BY <1>1, PartialFunctions DEF IsStore
<1>4. ListsFollow(lists, audio) /\ AudioStays(audio)
  BY <1>1 DEF ListsFollow, AudioStays, IsDrop
<1>5. IsStore(after)
  BY <1>2, <1>3 DEF IsStore
<1> QED
  BY <1>2, <1>4, <1>5, Unchanged DEF Follows

LEMMA FileDropped ==
  ASSUME IsRecord(store), NEW path
  PROVE  DropFile(path) =
           StoreOf(store.rows, store.listRows, Drop(store.audio, path),
                   Drop(store.lists, path), store.sidecars \ {path})
<1> DEFINE x == Drop(store.audio, path)
           y == Drop(store.lists, path)
           z == store.sidecars \ {path}
           t == [store EXCEPT !.audio = x, !.lists = y, !.sidecars = z]
<1>1. DropFile(path) = t
  BY DEF DropFile
<1> HIDE DEF x, y, z
<1>2. t \in [rows : {store.rows}, listRows : {store.listRows}, audio : {x},
             lists : {y}, sidecars : {z}]
  BY DEF IsRecord
<1> HIDE DEF t
<1>3. t = StoreOf(store.rows, store.listRows, x, y, z)
  BY <1>2 DEF StoreOf
<1> QED
  BY <1>1, <1>3 DEF x, y, z

LEMMA DropFileFollows ==
  ASSUME IsStore(store), IsRecord(store), NEW path, MayLose(path)
  PROVE  Follows(DropFile(path))
BY FileDropped, LosesFollow

LEMMA DropAudioFollows ==
  ASSUME IsStore(store), IsRecord(store), NEW path, MayLose(path), NEW sidecarToo
  PROVE  Follows(DropAudio(path, sidecarToo))
<1> DEFINE gone == DropFile(path)
           sidecars == gone.sidecars \ {SidecarOf(path)}
           bare == [gone EXCEPT !.sidecars = sidecars]
<1>1. gone = StoreOf(store.rows, store.listRows, Drop(store.audio, path),
                     Drop(store.lists, path), store.sidecars \ {path})
  BY FileDropped
<1>2. Follows(gone)
  BY DropFileFollows
<1>3. DropAudio(path, sidecarToo) \in {gone, bare}
  BY DEF DropAudio
<1> HIDE DEF gone
<1>4. /\ IsRecord(gone) /\ gone.rows = store.rows /\ gone.listRows = store.listRows
      /\ gone.audio = Drop(store.audio, path) /\ gone.lists = Drop(store.lists, path)
      /\ gone.sidecars = store.sidecars \ {path}
  BY <1>1, StoreParts
<1>5. sidecars \in SUBSET store.sidecars
  BY <1>4
<1> HIDE DEF sidecars
<1>6. bare = StoreOf(gone.rows, gone.listRows, gone.audio, gone.lists, sidecars)
  BY <1>4 DEF IsRecord, StoreOf
<1> HIDE DEF bare
<1>7. Follows(bare)
  BY <1>4, <1>5, <1>6, LosesFollow
<1> QED
  BY <1>2, <1>3, <1>7

LEMMA FilesKeptFollow ==
  ASSUME IsStore(store), NEW rows, NEW listRows, NEW sidecars \in SUBSET Path, NEW after,
         IsPartialFunction(rows, Track, Row), RowsFollow(rows),
         IsPartialFunction(listRows, Source, Path), ListRowsFollow(listRows),
         after = StoreOf(rows, listRows, store.audio, store.lists, sidecars)
  PROVE  Follows(after)
<1>1. /\ after.rows = rows /\ after.listRows = listRows
      /\ after.audio = store.audio /\ after.lists = store.lists
      /\ after.sidecars = sidecars /\ IsRecord(after)
  BY StoreParts
<1>2. IsStore(after)
  BY <1>1 DEF IsStore
<1> QED
  BY <1>1, <1>2, Unchanged DEF Follows

LEMMA StoreFollows ==
  ASSUME IsStore(store), IsRecord(store)
  PROVE  Follows(store)
BY Unchanged DEF Follows

LEMMA RowFollows ==
  ASSUME IsStore(store), IsRecord(store), lib \in Library,
         NEW t \in Track, NEW path \in Path,
         \/ /\ Awaiting("recordFile") /\ t = plan.transfers[Index].track
            /\ path = run.copiedPath
         \/ /\ Awaiting("recordShared") /\ t = plan.shared[Index].track
            /\ path = run.sharedPath
  PROVE  Follows([store EXCEPT !.rows = Put(@, t, RowOf(t, path))])
<1> DEFINE row == RowOf(t, path)
           rows == Put(store.rows, t, row)
           after == [store EXCEPT !.rows = rows]
<1>1. row \in Row /\ row.path = path
  BY OriginalIsAProfile DEF RowOf, Row, Library, Mode
<1> HIDE DEF row
<1>2. IsPut(rows, store.rows, t, row)
  BY PutParts
<1> HIDE DEF rows
<1>3. after = StoreOf(rows, store.listRows, store.audio, store.lists, store.sidecars)
  BY DEF IsRecord, StoreOf
<1> HIDE DEF after
<1>4. IsPartialFunction(rows, Track, Row)
  BY <1>1, <1>2, PartialFunctions DEF IsStore
<1>5. RowsFollow(rows)
  BY <1>1, <1>2 DEF RowsFollow, IsPut
<1>6. store.sidecars \in SUBSET Path /\ IsPartialFunction(store.listRows, Source, Path)
  BY DEF IsStore
<1>7. Follows(after)
  BY <1>3, <1>4, <1>5, <1>6, Unchanged, FilesKeptFollow
<1> QED
  BY <1>7 DEF after, rows, row

LEMMA RowForgottenFollows ==
  ASSUME IsStore(store), IsRecord(store), NEW t
  PROVE  Follows([store EXCEPT !.rows = Drop(@, t)])
<1> DEFINE rows == Drop(store.rows, t)
           after == [store EXCEPT !.rows = rows]
<1>1. IsDrop(rows, store.rows, t)
  BY DropParts
<1> HIDE DEF rows
<1>2. after = StoreOf(rows, store.listRows, store.audio, store.lists, store.sidecars)
  BY DEF IsRecord, StoreOf
<1> HIDE DEF after
<1>3. IsPartialFunction(rows, Track, Row)
  BY <1>1, PartialFunctions DEF IsStore
<1>4. RowsFollow(rows)
  BY <1>1 DEF RowsFollow, IsDrop
<1>5. store.sidecars \in SUBSET Path /\ IsPartialFunction(store.listRows, Source, Path)
  BY DEF IsStore
<1>6. Follows(after)
  BY <1>2, <1>3, <1>4, <1>5, Unchanged, FilesKeptFollow
<1> QED
  BY <1>6 DEF after, rows

LEMMA ListRowFollows ==
  ASSUME IsStore(store), IsRecord(store), Awaiting("recordList"),
         plan.lists[Index] \in ListWrite
  PROVE  LET list == plan.lists[Index]
             after == [store EXCEPT !.listRows = Put(@, list.source, list.path)]
         IN  /\ Follows(after) /\ after.lists = store.lists
             /\ list.source \in DOMAIN after.listRows
             /\ after.listRows[list.source] = list.path
<1> DEFINE list == plan.lists[Index]
           listRows == Put(store.listRows, list.source, list.path)
           after == [store EXCEPT !.listRows = listRows]
<1>1. list.source \in Source /\ list.path \in Path
  BY DEF ListWrite
<1>2. IsPut(listRows, store.listRows, list.source, list.path)
  BY PutParts
<1> HIDE DEF listRows
<1>3. after = StoreOf(store.rows, listRows, store.audio, store.lists, store.sidecars)
  BY DEF IsRecord, StoreOf
<1> HIDE DEF after
<1>4. IsPartialFunction(listRows, Source, Path)
  BY <1>1, <1>2, PartialFunctions DEF IsStore
<1>5. ListRowsFollow(listRows)
  BY <1>2 DEF ListRowsFollow, IsPut
<1>6. store.sidecars \in SUBSET Path /\ IsPartialFunction(store.rows, Track, Row)
  BY DEF IsStore
<1>7. Follows(after)
  BY <1>3, <1>4, <1>5, <1>6, Unchanged, FilesKeptFollow
<1>8. after.lists = store.lists /\ after.listRows = listRows
  BY <1>3, StoreParts
<1>9. list.source \in DOMAIN listRows /\ listRows[list.source] = list.path
  BY <1>2 DEF IsPut
<1> QED
  BY <1>7, <1>8, <1>9 DEF after, listRows

LEMMA ListRowForgottenFollows ==
  ASSUME IsStore(store), IsRecord(store), Awaiting("forgetList")
  PROVE  Follows([store EXCEPT !.listRows = Drop(@, plan.listRemovals[Index].source)])
<1> DEFINE source == plan.listRemovals[Index].source
           listRows == Drop(store.listRows, source)
           after == [store EXCEPT !.listRows = listRows]
<1>1. IsDrop(listRows, store.listRows, source)
  BY DropParts
<1> HIDE DEF listRows
<1>2. after = StoreOf(store.rows, listRows, store.audio, store.lists, store.sidecars)
  BY DEF IsRecord, StoreOf
<1> HIDE DEF after
<1>3. IsPartialFunction(listRows, Source, Path)
  BY <1>1, PartialFunctions DEF IsStore
<1>4. ListRowsFollow(listRows)
  BY <1>1 DEF ListRowsFollow, IsDrop
<1>5. store.sidecars \in SUBSET Path /\ IsPartialFunction(store.rows, Track, Row)
  BY DEF IsStore
<1>6. Follows(after)
  BY <1>2, <1>3, <1>4, <1>5, Unchanged, FilesKeptFollow
<1> QED
  BY <1>6 DEF after, listRows

LEMMA SidecarFollows ==
  ASSUME IsStore(store), IsRecord(store), NEW path \in Path
  PROVE  Follows([store EXCEPT !.sidecars = @ \cup {path}])
<1> DEFINE sidecars == store.sidecars \cup {path}
           after == [store EXCEPT !.sidecars = sidecars]
<1>1. sidecars \in SUBSET Path
  BY DEF IsStore
<1> HIDE DEF sidecars
<1>2. after = StoreOf(store.rows, store.listRows, store.audio, store.lists, sidecars)
  BY DEF IsRecord, StoreOf
<1> HIDE DEF after
<1>3. /\ IsPartialFunction(store.rows, Track, Row)
      /\ IsPartialFunction(store.listRows, Source, Path)
  BY DEF IsStore
<1>4. Follows(after)
  BY <1>1, <1>2, <1>3, Unchanged, FilesKeptFollow
<1> QED
  BY <1>4 DEF after, sidecars

LEMMA ContentNamed ==
  ASSUME lib \in Library, NEW t \in Track, NEW whole \in BOOLEAN
  PROVE  ContentOf(t, whole) \in Content
BY OriginalIsAProfile DEF ContentOf, Content, Library, Mode

LEMMA AudioFollows ==
  ASSUME IsStore(store), IsRecord(store), lib \in Library, NEW whole \in BOOLEAN,
         plan.transfers[Index] \in Transfer
  PROVE  /\ Follows(PutAudio(whole))
         /\ PutAudio(whole).rows = store.rows /\ PutAudio(whole).lists = store.lists
         /\ DOMAIN PutAudio(whole).audio
              = DOMAIN store.audio \cup {plan.transfers[Index].path}
<1> DEFINE transfer == plan.transfers[Index]
           content == ContentOf(transfer.track, whole)
           audio == Put(store.audio, transfer.path, content)
           after == [store EXCEPT !.audio = audio]
<1>1. transfer.path \in Path /\ transfer.track \in Track
  BY DEF Transfer
<1>2. content \in Content
  BY <1>1, ContentNamed
<1> HIDE DEF content
<1>3. IsPut(audio, store.audio, transfer.path, content)
  BY PutParts
<1> HIDE DEF audio
<1>4. after = StoreOf(store.rows, store.listRows, audio, store.lists, store.sidecars)
  BY DEF IsRecord, StoreOf
<1> HIDE DEF after
<1>5. /\ after.rows = store.rows /\ after.listRows = store.listRows
      /\ after.audio = audio /\ after.lists = store.lists
      /\ after.sidecars = store.sidecars /\ IsRecord(after)
  BY <1>4, StoreParts
<1>6. IsPartialFunction(audio, Path, Content)
  BY <1>1, <1>2, <1>3, PartialFunctions DEF IsStore
<1>7. IsStore(after)
  BY <1>5, <1>6 DEF IsStore
<1>8. AudioStays(audio)
  BY <1>3 DEF AudioStays, IsPut
<1>9. Follows(after)
  BY <1>5, <1>7, <1>8, Unchanged DEF Follows
<1>10. DOMAIN audio = DOMAIN store.audio \cup {transfer.path}
  BY <1>3 DEF IsPut
<1>11. PutAudio(whole) = after
  BY DEF PutAudio, after, audio, content
<1> QED
  BY <1>5, <1>9, <1>10, <1>11

LEMMA WriteListFollows ==
  ASSUME IsStore(store), IsRecord(store), Awaiting("writeList"),
         plan.lists[Index] \in ListWrite
  PROVE  LET list == plan.lists[Index]
         IN  /\ Follows(WriteList) /\ WriteList.audio = store.audio
             /\ WriteList.lists[list.path] \subseteq list.entries
<1> DEFINE list == plan.lists[Index]
           entries == list.entries \ run.absent
           lists == Put(store.lists, list.path, entries)
           after == [store EXCEPT !.lists = lists]
<1>1. list.path \in Path /\ entries \in SUBSET Path
  BY DEF ListWrite
<1>2. IsPut(lists, store.lists, list.path, entries)
  BY PutParts
<1> HIDE DEF lists
<1>3. after = StoreOf(store.rows, store.listRows, store.audio, lists, store.sidecars)
  BY DEF IsRecord, StoreOf
<1> HIDE DEF after
<1>4. /\ after.rows = store.rows /\ after.listRows = store.listRows
      /\ after.audio = store.audio /\ after.lists = lists
      /\ after.sidecars = store.sidecars /\ IsRecord(after)
  BY <1>3, StoreParts
<1>5. IsPartialFunction(lists, Path, SUBSET Path)
  BY <1>1, <1>2, PartialFunctions DEF IsStore
<1>6. IsStore(after)
  BY <1>4, <1>5 DEF IsStore
<1>7. ListsFollow(lists, store.audio)
  BY <1>2 DEF ListsFollow, IsPut
<1>8. Follows(after)
  BY <1>4, <1>6, <1>7, Unchanged DEF Follows
<1>9. WriteList = after
  BY DEF WriteList, after, lists
<1>10. after.lists[list.path] \subseteq list.entries
  BY <1>2, <1>4 DEF IsPut
<1> QED
  BY <1>4, <1>8, <1>9, <1>10

-----------------------------------------------------------------------------
(* What the reducer's state says of the plan it walks through.             *)

\* The places it has noted for the files of this run are the planned ones, and it
\* removes only what the plan gave it to remove.
Placed(m) ==
  /\ \A t \in Track : m.carried[t] # NoPath =>
       \E k \in DOMAIN plan.transfers :
         plan.transfers[k].track = t /\ plan.transfers[k].path = m.carried[t]
  /\ m.at.stage = "recordFile" => m.copiedPath = plan.transfers[m.at.index].path
  /\ m.at.stage = "recordShared" =>
       m.sharedPath = PlacedAt(m, m.at.index) /\ m.sharedPath # NoPath
  /\ m.at.stage = "removeTrack" => plan.removals[m.at.index].kind # "unshared"
  /\ m.at.stage = "forgetList" =>
       plan.listRemovals[m.at.index].source \notin PlannedSources

LEMMA EnteredPlaced ==
  ASSUME Placed(run), NEW n, NEW stages, NEW from, n.carried = run.carried,
         Entered(n, stages, from), stages \subseteq {"transcode", "copy"} \cup MiddleStages
  PROVE  Placed(n)
<1>1. n.at.stage \notin {"recordFile", "forgetList"}
  BY DEF Entered, MiddleStages, LateStages, SidecarStages
<1> QED
  BY <1>1 DEF Placed, Entered

LEMMA MiddlePlaced ==
  ASSUME Placed(run), NEW n, NEW from, n.carried = run.carried,
         \/ Entered(n, MiddleStages, from) \/ Entered(n, LateStages, from)
         \/ TransfersEntered(n, from)
  PROVE  Placed(n)
<1>1. /\ MiddleStages \subseteq {"transcode", "copy"} \cup MiddleStages
      /\ LateStages \subseteq {"transcode", "copy"} \cup MiddleStages
  BY DEF MiddleStages
<1> QED
  BY <1>1, EnteredPlaced DEF TransfersEntered

LEMMA FileRecordedPlaced ==
  ASSUME RunInv, Placed(run), NEW ok \in BOOLEAN, FileRecorded(ok)
  PROVE  Placed(run')
<1>1. /\ Index \in 1..Len(plan.transfers) /\ TransfersEntered(run', Index + 1)
      /\ \/ run'.carried = run.carried
         \/ run'.carried =
              [run.carried EXCEPT ![plan.transfers[Index].track] = run.copiedPath]
  BY FileRecordedTurn
<1>2. run.at.stage = "recordFile" /\ run.copiedPath = plan.transfers[Index].path
  BY DEF FileRecorded, Awaiting, Placed, Index
<1>3. run'.at.stage \notin {"recordFile", "forgetList"}
  BY <1>1 DEF TransfersEntered, Entered, MiddleStages, LateStages, SidecarStages
<1>4. Index \in DOMAIN plan.transfers
  BY <1>1, RunIndex, PlanParts, LenProperties
<1>5. run.carried \in [Track -> PathOrNone]
  BY RunIndex, RunParts
<1>6. \A t \in Track : run'.carried[t] # NoPath =>
        \E k \in DOMAIN plan.transfers :
          plan.transfers[k].track = t /\ plan.transfers[k].path = run'.carried[t]
  <2>1. CASE run'.carried = run.carried
    BY <2>1 DEF Placed
  <2>2. CASE run'.carried =
               [run.carried EXCEPT ![plan.transfers[Index].track] = run.copiedPath]
    <3> SUFFICES ASSUME NEW t \in Track, run'.carried[t] # NoPath
                 PROVE  \E k \in DOMAIN plan.transfers :
                          /\ plan.transfers[k].track = t
                          /\ plan.transfers[k].path = run'.carried[t]
      OBVIOUS
    <3>1. CASE t = plan.transfers[Index].track
      <4>1. run'.carried[t] = plan.transfers[Index].path
        BY <1>2, <1>5, <2>2, <3>1
      <4> QED
        BY <1>4, <3>1, <4>1
    <3>2. CASE t # plan.transfers[Index].track
      <4>1. run'.carried[t] = run.carried[t]
        BY <1>5, <2>2, <3>2
      <4> QED
        BY <4>1 DEF Placed
    <3> QED
      BY <3>1, <3>2
  <2> QED
    BY <1>1, <2>1, <2>2
<1> QED
  BY <1>1, <1>3, <1>6 DEF Placed, TransfersEntered, Entered

\* An answer leads from stage to stage as the plan has it.
LEMMA AnswerPlaced ==
  ASSUME RunInv, Placed(run), NEW ok \in BOOLEAN, Respond(ok)
  PROVE  Placed(run')
<1>0. 0 \in Bytes
  BY NoBytesAreReported
<1>1. CASE PartialsCleaned(ok)
  BY <1>1, PartialsTurn, MiddlePlaced DEF SameRecords
<1>2. CASE Transcoded(ok, 0)
  <2>1. CASE ok
    <3>1. run'.at = [stage |-> "copy", index |-> Index] /\ run'.carried = run.carried
      BY <1>0, <1>2, <2>1, TranscodedTurn
    <3> QED
      BY <3>1 DEF Placed
  <2>2. CASE ~ok
    BY <1>0, <1>2, <2>2, TranscodedTurn, MiddlePlaced
  <2> QED
    BY <2>1, <2>2
<1>3. CASE Awaiting("copy") /\ TrackCopied(ok, 0, plan.transfers[Index].path)
  <2>1. plan.transfers[Index].path \in Path
    <3>1. Index \in 1..Len(plan.transfers)
      BY <1>3, RunIndex DEF Awaiting, StageLength
    <3>2. plan.transfers[Index] \in Transfer
      BY <3>1, RunIndex, PlanParts, ElementOfSeq
    <3> QED
      BY <3>2 DEF Transfer
  <2>2. CASE ok
    <3>1. /\ run'.at = [stage |-> "recordFile", index |-> Index]
          /\ run'.copiedPath = plan.transfers[Index].path
          /\ run'.carried = run.carried
      BY <1>0, <1>3, <2>1, <2>2, TrackCopiedTurn
    <3> QED
      BY <3>1 DEF Placed
  <2>3. CASE ~ok
    BY <1>0, <1>3, <2>1, <2>3, TrackCopiedTurn, MiddlePlaced
  <2> QED
    BY <2>2, <2>3
<1>4. CASE FileRecorded(ok)
  BY <1>4, FileRecordedPlaced
<1>5. CASE SharedFileRecorded(ok)
  BY <1>5, SharedTurn, MiddlePlaced DEF SameRecords
<1>6. CASE AnalysisWritten(ok, 0)
  BY <1>0, <1>6, AnalysisTurn, MiddlePlaced DEF SameRecords
<1>7. CASE PlaylistWritten(ok)
  <2>1. CASE ok
    <3>1. run'.at = [stage |-> "recordList", index |-> Index] /\ run'.carried = run.carried
      BY <1>7, <2>1, PlaylistWrittenTurn DEF SameRecords
    <3> QED
      BY <3>1 DEF Placed
  <2>2. CASE ~ok
    BY <1>7, <2>2, PlaylistWrittenTurn, MiddlePlaced DEF SameRecords
  <2> QED
    BY <2>1, <2>2
<1>8. CASE PlaylistRecorded(ok)
  BY <1>8, PlaylistRecordedTurn, MiddlePlaced
<1>9. CASE PlaylistRemoved(ok)
  <2>1. CASE Entered(run', LateStages, Index + 1)
    BY <1>9, <2>1, PlaylistRemovedTurn, MiddlePlaced
  <2>2. CASE ~Entered(run', LateStages, Index + 1)
    <3>1. /\ run'.at = [stage |-> "forgetList", index |-> Index]
          /\ run'.carried = run.carried
          /\ plan.listRemovals[Index].source \notin PlannedSources
      BY <1>9, <2>2, PlaylistRemovedTurn
    <3> QED
      BY <3>1 DEF Placed
  <2> QED
    BY <2>1, <2>2
<1>10. CASE PlaylistForgotten(ok)
  BY <1>10, PlaylistForgottenTurn, MiddlePlaced DEF SameRecords
<1>11. CASE TrackRemoved(ok)
  <2>1. CASE Entered(run', LateStages, ListsGone)
    BY <1>11, <2>1, TrackRemovedTurn, MiddlePlaced DEF SameRecords
  <2>2. CASE ~Entered(run', LateStages, ListsGone)
    <3>1. run'.at.stage = "forgetFile" /\ run'.carried = run.carried
      BY <1>11, <2>2, TrackRemovedTurn DEF SameRecords
    <3> QED
      BY <3>1 DEF Placed
  <2> QED
    BY <2>1, <2>2
<1>12. CASE FileForgotten(ok)
  BY <1>12, FileForgottenTurn, MiddlePlaced DEF SameRecords
<1>13. CASE ReplacedFileRemoved(ok)
  BY <1>13, ReplacedTurn, MiddlePlaced DEF SameRecords
<1> QED
  BY <1>1, <1>2, <1>3, <1>4, <1>5, <1>6, <1>7, <1>8, <1>9, <1>10, <1>11, <1>12, <1>13
     DEF Respond

-----------------------------------------------------------------------------
(* Every store that an effect leaves behind follows from the one before.   *)

\* The entry of the plan that the effect in flight is about.
LEMMA EntryInPlan ==
  ASSUME RunInv
  PROVE  /\ run.at.stage \in TransferStages =>
              Index \in DOMAIN plan.transfers /\ plan.transfers[Index] \in Transfer
         /\ Awaiting("recordShared") =>
              Index \in DOMAIN plan.shared /\ plan.shared[Index] \in SharedRecord
         /\ Awaiting("writeAnalysis") =>
              Index \in DOMAIN plan.analysis /\ plan.analysis[Index] \in SidecarWrite
         /\ run.at.stage \in ListStages =>
              Index \in DOMAIN plan.lists /\ plan.lists[Index] \in ListWrite
         /\ run.at.stage \in {"removeList", "forgetList"} =>
              Index \in DOMAIN plan.listRemovals /\ plan.listRemovals[Index] \in ListRow
         /\ run.at.stage \in {"removeTrack", "forgetFile"} =>
              Index \in DOMAIN plan.removals /\ plan.removals[Index] \in Removal
         /\ Awaiting("removeReplaced") =>
              /\ Index \in DOMAIN run.deferred
              /\ run.deferred[Index] \in [path : Path, track : Track]
<1>1. CASE run.at.stage \in TransferStages
  <2>1. Index \in 1..Len(plan.transfers)
    BY <1>1, RunIndex DEF TransferStages, StageLength
  <2> QED
    BY <1>1, <2>1, RunIndex, PlanParts, ElementOfSeq, LenProperties
       DEF TransferStages, ListStages, Awaiting
<1>2. CASE Awaiting("recordShared")
  <2>1. Index \in 1..Len(plan.shared)
    BY <1>2, RunIndex DEF Awaiting, StageLength
  <2> QED
    BY <1>2, <2>1, RunIndex, PlanParts, ElementOfSeq, LenProperties
       DEF TransferStages, ListStages, Awaiting
<1>3. CASE Awaiting("writeAnalysis")
  <2>1. Index \in 1..Len(plan.analysis)
    BY <1>3, RunIndex DEF Awaiting, StageLength
  <2> QED
    BY <1>3, <2>1, RunIndex, PlanParts, ElementOfSeq, LenProperties
       DEF TransferStages, ListStages, Awaiting
<1>4. CASE run.at.stage \in ListStages
  <2>1. Index \in 1..Len(plan.lists)
    BY <1>4, RunIndex DEF ListStages, StageLength
  <2> QED
    BY <1>4, <2>1, RunIndex, PlanParts, ElementOfSeq, LenProperties
       DEF TransferStages, ListStages, Awaiting
<1>5. CASE run.at.stage \in {"removeList", "forgetList"}
  <2>1. Index \in 1..Len(plan.listRemovals)
    BY <1>5, RunIndex DEF StageLength
  <2> QED
    BY <1>5, <2>1, RunIndex, PlanParts, ElementOfSeq, LenProperties
       DEF TransferStages, ListStages, Awaiting
<1>6. CASE run.at.stage \in {"removeTrack", "forgetFile"}
  <2>1. Index \in 1..Len(plan.removals)
    BY <1>6, RunIndex DEF StageLength
  <2> QED
    BY <1>6, <2>1, RunIndex, PlanParts, ElementOfSeq, LenProperties
       DEF TransferStages, ListStages, Awaiting
<1>7. CASE Awaiting("removeReplaced")
  <2>1. Index \in 1..Len(run.deferred)
    BY <1>7, RunIndex DEF Awaiting, StageLength
  <2>2. run.deferred \in Seq([path : Path, track : Track])
    BY RunIndex, RunParts
  <2> QED
    BY <1>7, <2>1, <2>2, ElementOfSeq, LenProperties
       DEF TransferStages, ListStages, Awaiting
<1> QED
  BY <1>1, <1>2, <1>3, <1>4, <1>5, <1>6, <1>7

\* The path a recorded row gets.
LEMMA RecordedPath ==
  ASSUME RunInv, Placed(run)
  PROVE  /\ Awaiting("recordFile") =>
              run.copiedPath \in Path /\ run.copiedPath = plan.transfers[Index].path
         /\ Awaiting("recordShared") =>
              run.sharedPath \in Path /\ run.sharedPath = PlacedAt(run, Index)
<1>1. Awaiting("recordFile") => plan.transfers[Index] \in Transfer
  BY EntryInPlan DEF Awaiting, TransferStages
<1>2. run.sharedPath \in PathOrNone
  BY RunIndex, RunParts
<1> QED
  BY <1>1, <1>2 DEF Placed, Awaiting, Index, Transfer, PathOrNone

\* The stores an effect may leave, whether it is answered or cut short.
CutShort == Unperformed \cup HalfDone

\* While a file is copied, a sidecar or a playlist is written.
LEMMA WritesFollow ==
  ASSUME RunInv, Placed(run), lib \in Library, IsStore(store), IsRecord(store),
         run.at.stage \in {"copy", "writeAnalysis", "writeList"}, NEW after \in CutShort
  PROVE  Follows(after)
<1>0. Follows(store)
  BY StoreFollows
<1>1. CASE Awaiting("copy")
  <2> DEFINE path == plan.transfers[Index].path
  <2>1. after \in {store, DropFile(path), PutAudio(TRUE), PutAudio(FALSE)}
    BY <1>1 DEF CutShort, HalfDone, Unperformed, Performed, Awaiting
  <2>2. plan.transfers[Index] \in Transfer
    BY <1>1, EntryInPlan DEF Awaiting, TransferStages
  <2>3. MayLose(path)
    BY <1>1 DEF MayLose
  <2> HIDE DEF path
  <2> QED
    BY <1>0, <2>1, <2>2, <2>3, AudioFollows, DropFileFollows
<1>2. CASE Awaiting("writeAnalysis")
  <2> DEFINE path == plan.analysis[Index].path
             written == [store EXCEPT !.sidecars = @ \cup {path}]
  <2>1. after \in {store, DropFile(path), written}
    BY <1>2 DEF CutShort, HalfDone, Unperformed, Performed, Awaiting
  <2>2. path \in Path
    BY <1>2, EntryInPlan DEF SidecarWrite
  <2>3. MayLose(path)
    BY <1>2 DEF MayLose
  <2> HIDE DEF path
  <2>4. Follows(written)
    BY <2>2, SidecarFollows
  <2> QED
    BY <1>0, <2>1, <2>3, <2>4, DropFileFollows
<1>3. CASE Awaiting("writeList")
  <2> DEFINE path == plan.lists[Index].path
  <2>1. after \in {store, DropFile(path), WriteList}
    BY <1>3 DEF CutShort, HalfDone, Unperformed, Performed, Awaiting
  <2>2. plan.lists[Index] \in ListWrite
    BY <1>3, EntryInPlan DEF Awaiting, ListStages
  <2>3. MayLose(path)
    BY <1>3 DEF MayLose
  <2> HIDE DEF path
  <2> QED
    BY <1>0, <1>3, <2>1, <2>2, <2>3, WriteListFollows, DropFileFollows
<1> QED
  BY <1>1, <1>2, <1>3 DEF Awaiting

LEMMA BooksFollow ==
  ASSUME RunInv, Placed(run), lib \in Library, IsStore(store), IsRecord(store),
         run.at.stage \in {"recordFile", "recordShared", "recordList", "forgetList",
                           "forgetFile"},
         NEW after \in CutShort
  PROVE  Follows(after)
<1>0. Follows(store)
  BY StoreFollows
<1>1. CASE Awaiting("recordFile")
  <2> DEFINE t == plan.transfers[Index].track
  <2>1. after \in {store, [store EXCEPT !.rows = Put(@, t, RowOf(t, run.copiedPath))]}
    BY <1>1 DEF CutShort, HalfDone, Unperformed, Performed, Awaiting
  <2>2. t \in Track /\ run.copiedPath \in Path
    BY <1>1, EntryInPlan, RecordedPath DEF Awaiting, TransferStages, Transfer
  <2>3. Awaiting("recordFile") /\ t = plan.transfers[Index].track
    BY <1>1
  <2> HIDE DEF t
  <2>4. Follows([store EXCEPT !.rows = Put(@, t, RowOf(t, run.copiedPath))])
    BY <2>2, <2>3, RowFollows
  <2> QED
    BY <1>0, <2>1, <2>4
<1>2. CASE Awaiting("recordShared")
  <2> DEFINE t == plan.shared[Index].track
  <2>1. after \in {store, [store EXCEPT !.rows = Put(@, t, RowOf(t, run.sharedPath))]}
    BY <1>2 DEF CutShort, HalfDone, Unperformed, Performed, Awaiting
  <2>2. t \in Track /\ run.sharedPath \in Path
    BY <1>2, EntryInPlan, RecordedPath DEF SharedRecord
  <2>3. Awaiting("recordShared") /\ t = plan.shared[Index].track
    BY <1>2
  <2> HIDE DEF t
  <2>4. Follows([store EXCEPT !.rows = Put(@, t, RowOf(t, run.sharedPath))])
    BY <2>2, <2>3, RowFollows
  <2> QED
    BY <1>0, <2>1, <2>4
<1>3. CASE Awaiting("recordList")
  <2> DEFINE list == plan.lists[Index]
             recorded == [store EXCEPT !.listRows = Put(@, list.source, list.path)]
  <2>1. after \in {store, recorded}
    BY <1>3 DEF CutShort, HalfDone, Unperformed, Performed, Awaiting
  <2>2. plan.lists[Index] \in ListWrite
    BY <1>3, EntryInPlan DEF Awaiting, ListStages
  <2>3. Follows(recorded)
    BY <1>3, <2>2, ListRowFollows
  <2> QED
    BY <1>0, <2>1, <2>3
<1>4. CASE Awaiting("forgetList")
  <2> DEFINE source == plan.listRemovals[Index].source
             forgotten == [store EXCEPT !.listRows = Drop(@, source)]
  <2>1. after \in {store, forgotten}
    BY <1>4 DEF CutShort, HalfDone, Unperformed, Performed, Awaiting
  <2>2. Follows(forgotten)
    BY <1>4, ListRowForgottenFollows
  <2> QED
    BY <1>0, <2>1, <2>2
<1>5. CASE Awaiting("forgetFile")
  <2> DEFINE t == plan.removals[Index].track
             forgotten == [store EXCEPT !.rows = Drop(@, t)]
  <2>1. after \in {store, forgotten}
    BY <1>5 DEF CutShort, HalfDone, Unperformed, Performed, Awaiting
  <2>2. Follows(forgotten)
    BY RowForgottenFollows
  <2> QED
    BY <1>0, <2>1, <2>2
<1> QED
  BY <1>1, <1>2, <1>3, <1>4, <1>5 DEF Awaiting

LEMMA CutShortFollows ==
  ASSUME RunInv, Placed(run), lib \in Library, IsStore(store), IsRecord(store),
         NEW after \in CutShort
  PROVE  Follows(after)
<1>0. Follows(store)
  BY StoreFollows
<1>1. CASE run.at.stage \in {"copy", "writeAnalysis", "writeList"}
  BY <1>1, WritesFollow
<1>2. CASE run.at.stage \in {"recordFile", "recordShared", "recordList", "forgetList",
                             "forgetFile"}
  BY <1>2, BooksFollow
<1>3. CASE run.at.stage \in {"removeList", "removeTrack", "removeReplaced"}
  <2>1. after \in {store, DropFile(DoomedPath), DropAudio(DoomedPath, TRUE),
                   DropAudio(DoomedPath, FALSE)}
    <3>1. Performed(TRUE) \in {DropFile(DoomedPath), DropAudio(DoomedPath, TRUE)}
      BY <1>3 DEF Performed, Awaiting
    <3>2. Performed(FALSE) \in {DropFile(DoomedPath), DropAudio(DoomedPath, FALSE)}
      BY <1>3 DEF Performed, Awaiting
    <3>3. Unperformed = {store} /\ ~Awaiting("copy")
      BY <1>3 DEF Unperformed, Awaiting
    <3> QED
      BY <3>1, <3>2, <3>3 DEF CutShort, HalfDone
  <2>2. MayLose(DoomedPath)
    BY <1>3 DEF MayLose
  <2> QED
    BY <1>0, <2>1, <2>2, DropFileFollows, DropAudioFollows
<1>4. CASE run.at.stage \notin {"copy", "writeAnalysis", "writeList", "recordFile",
                                "recordShared", "recordList", "forgetList", "forgetFile",
                                "removeList", "removeTrack", "removeReplaced"}
  <2>1. after = store
    <3>0. /\ ~Awaiting("copy") /\ ~Awaiting("recordFile") /\ ~Awaiting("recordShared")
          /\ ~Awaiting("writeAnalysis") /\ ~Awaiting("writeList")
          /\ ~Awaiting("recordList") /\ ~Awaiting("removeList")
          /\ ~Awaiting("forgetList") /\ ~Awaiting("forgetFile")
          /\ ~(run.at.stage \in {"removeTrack", "removeReplaced"})
      BY <1>4 DEF Awaiting
    <3>1. Performed(TRUE) = store /\ Performed(FALSE) = store
      BY <3>0, Zenon DEF Performed
    <3>2. Unperformed = {store} /\ ~Awaiting("copy")
      BY <1>4 DEF Unperformed, Awaiting
    <3> QED
      BY <3>1, <3>2 DEF CutShort, HalfDone
  <2> QED
    BY <1>0, <2>1
<1> QED
  BY <1>1, <1>2, <1>3, <1>4

-----------------------------------------------------------------------------
(* The invariant.                                                          *)

\* This plan was made for input `i`, and what the inventory says by now is what it
\* said then or what the plan has it say.
Basis(i, p, rows, listRows) ==
  /\ IsInput(i) /\ p = PlanMirror(i)
  /\ RowsAreApart(i.store.rows) /\ ListRowsAreApart(i.store.listRows)
  /\ \A t \in DOMAIN rows :
       \/ t \in RowTracks(i) /\ rows[t].path = RowPath(i, t)
       \/ t \in Desired(i) /\ rows[t].path = DesiredPath(i, t)
  /\ \A s \in DOMAIN listRows :
       \/ s \in DOMAIN i.store.listRows /\ listRows[s] = i.store.listRows[s]
       \/ s \in i.lib.selected /\ listRows[s] = PlaylistPath(i, s)

Based == \E i : i.lib = lib /\ Basis(i, plan, store.rows, store.listRows)

Scenario == [libraries : DOMAIN Libraries, edits : Nat, faults : Nat,
             interrupts : Nat, losses : Nat]

\* Whatever the runs before left behind, no two files share a name in the inventory
\* and no two playlists do; a run under way follows the plan made from it.
Core ==
  /\ left \in Scenario
  /\ lib \in Libraries[left.libraries]
  /\ IsStore(store) /\ IsRecord(store)
  /\ RunInv
  /\ RowsAreApart(store.rows) /\ ListRowsAreApart(store.listRows)
  /\ active => Based /\ Placed(run)

LEMMA LibrariesAreInputs ==
  ASSUME NEW name \in DOMAIN Libraries, NEW library \in Libraries[name],
         NEW s, IsStore(s)
  PROVE  /\ library \in Library
         /\ IsInput([lib |-> library, store |-> s])
         /\ IsInput([lib |-> [library EXCEPT !.selected = {}], store |-> s])
<1>1. library \in Library
  BY CueTracksShareAFile
<1>2. \A file \in CueFile : \A t, u \in file :
        /\ library.stem[t] = library.stem[u]
        /\ library.version[t] = library.version[u]
        /\ t \in library.present <=> u \in library.present
  BY CueTracksShareAFile
<1> DEFINE bare == [library EXCEPT !.selected = {}]
<1>3. /\ bare \in Library /\ bare.stem = library.stem
      /\ bare.version = library.version /\ bare.present = library.present
  BY <1>1 DEF Library
<1> HIDE DEF bare
<1>4. IsInput([lib |-> library, store |-> s])
  BY <1>1, <1>2 DEF IsInput
<1>5. IsInput([lib |-> bare, store |-> s])
  BY <1>2, <1>3 DEF IsInput
<1> QED
  BY <1>1, <1>4, <1>5 DEF bare

LEMMA PlanOfAnInput ==
  ASSUME NEW i, IsInput(i), NEW p, p = PlanMirror(i)
  PROVE  /\ p \in MirrorPlan
         /\ \A j, k \in DOMAIN p.transfers :
              p.transfers[j].track = p.transfers[k].track => j = k
<1>1. p \in MirrorPlan
  BY PlanWellFormed
<1>2. p.transfers = Transfers(i)
  BY DEF PlanMirror
<1> QED
  BY <1>1, <1>2, TransfersOncePerFile

\* The parts of the plan, from the input it was made for.
LEMMA PlanFields ==
  ASSUME NEW i, NEW p, NEW rows, NEW listRows, Basis(i, p, rows, listRows)
  PROVE  /\ p.transfers = Transfers(i) /\ p.shared = SharedRecords(i)
         /\ p.analysis = AnalysisWrites(i) /\ p.lists = ListWrites(i)
         /\ p.listRemovals = ListRemovals(i) /\ p.removals = Removals(i)
         /\ p.desired = DesiredPaths(i) /\ IsInput(i)
         /\ p.cues = <<>> /\ p.lyrics = <<>>
BY DEF Basis, PlanMirror

LEMMA BasisApart ==
  ASSUME NEW i, NEW p, NEW rows, NEW listRows, Basis(i, p, rows, listRows)
  PROVE  RowsAreApart(rows) /\ ListRowsAreApart(listRows)
BY RecordedRowsStayApart, RecordedListsStayApart DEF Basis

\* A row is recorded at the path wanted for its track.
LEMMA RecordedWhereWanted ==
  ASSUME RunInv, Placed(run), NEW i, Basis(i, plan, store.rows, store.listRows)
  PROVE  /\ Awaiting("recordFile") =>
              LET t == plan.transfers[Index].track
              IN  t \in Desired(i) /\ run.copiedPath = DesiredPath(i, t)
         /\ Awaiting("recordShared") =>
              LET t == plan.shared[Index].track
              IN  t \in Desired(i) /\ run.sharedPath = DesiredPath(i, t)
<1>1. ASSUME Awaiting("recordFile")
      PROVE  LET t == plan.transfers[Index].track
             IN  t \in Desired(i) /\ run.copiedPath = DesiredPath(i, t)
  <2>1. Index \in DOMAIN plan.transfers
    BY <1>1, EntryInPlan DEF Awaiting, TransferStages
  <2>2. run.copiedPath = plan.transfers[Index].path
    BY <1>1, RecordedPath
  <2> QED
    BY <2>1, <2>2, PlanFields, TransferFacts
<1>2. ASSUME Awaiting("recordShared")
      PROVE  LET t == plan.shared[Index].track
             IN  t \in Desired(i) /\ run.sharedPath = DesiredPath(i, t)
  <2> DEFINE shared == plan.shared[Index]
  <2>1. Index \in DOMAIN plan.shared /\ shared \in SharedRecord
    BY <1>2, EntryInPlan
  <2>2. run.sharedPath = PlacedAt(run, Index) /\ run.sharedPath # NoPath
    BY <1>2 DEF Placed, Awaiting, Index
  <2>3. /\ shared.track \in Desired(i) /\ shared.path = DesiredPath(i, shared.track)
        /\ \A j \in DOMAIN plan.transfers :
             ~shared.resident /\ plan.transfers[j].track = shared.carrier
               => plan.transfers[j].path = shared.path
    BY <2>1, PlanFields, SharedFacts
  <2>4. CASE shared.resident
    BY <2>2, <2>3, <2>4 DEF PlacedAt
  <2>5. CASE ~shared.resident
    <3>1. run.sharedPath = run.carried[shared.carrier] /\ shared.carrier \in Track
      BY <2>1, <2>2, <2>5 DEF PlacedAt, SharedRecord
    <3>2. PICK k \in DOMAIN plan.transfers :
            /\ plan.transfers[k].track = shared.carrier
            /\ plan.transfers[k].path = run.sharedPath
      BY <2>2, <3>1 DEF Placed
    <3> QED
      BY <2>3, <2>5, <3>2
  <2> QED
    BY <2>4, <2>5
<1> QED
  BY <1>1, <1>2

LEMMA BasisFollows ==
  ASSUME RunInv, Placed(run), NEW i, Basis(i, plan, store.rows, store.listRows),
         NEW after, Follows(after)
  PROVE  Basis(i, plan, after.rows, after.listRows)
<1>1. ASSUME NEW t \in DOMAIN after.rows
      PROVE  \/ t \in RowTracks(i) /\ after.rows[t].path = RowPath(i, t)
             \/ t \in Desired(i) /\ after.rows[t].path = DesiredPath(i, t)
  <2>1. \/ t \in DOMAIN store.rows /\ after.rows[t] = store.rows[t]
        \/ /\ Awaiting("recordFile") /\ t = plan.transfers[Index].track
           /\ after.rows[t].path = run.copiedPath
        \/ /\ Awaiting("recordShared") /\ t = plan.shared[Index].track
           /\ after.rows[t].path = run.sharedPath
    BY DEF Follows, RowsFollow
  <2>2. CASE t \in DOMAIN store.rows /\ after.rows[t] = store.rows[t]
    BY <2>2 DEF Basis
  <2> QED
    BY <2>1, <2>2, RecordedWhereWanted
<1>2. ASSUME NEW s \in DOMAIN after.listRows
      PROVE  \/ s \in DOMAIN i.store.listRows /\ after.listRows[s] = i.store.listRows[s]
             \/ s \in i.lib.selected /\ after.listRows[s] = PlaylistPath(i, s)
  <2>1. \/ s \in DOMAIN store.listRows /\ after.listRows[s] = store.listRows[s]
        \/ /\ Awaiting("recordList") /\ s = plan.lists[Index].source
           /\ after.listRows[s] = plan.lists[Index].path
    BY DEF Follows, ListRowsFollow
  <2>2. CASE s \in DOMAIN store.listRows /\ after.listRows[s] = store.listRows[s]
    BY <2>2 DEF Basis
  <2>3. CASE /\ Awaiting("recordList") /\ s = plan.lists[Index].source
             /\ after.listRows[s] = plan.lists[Index].path
    <3>1. Index \in DOMAIN plan.lists
      BY <2>3, EntryInPlan DEF Awaiting, ListStages
    <3> QED
      BY <2>3, <3>1, PlanFields, ListWriteFacts
  <2> QED
    BY <2>1, <2>2, <2>3
<1> QED
  BY <1>1, <1>2 DEF Basis

LEMMA CoreParts ==
  ASSUME Core
  PROVE  /\ lib \in Library /\ IsInput(Input)
         /\ RunInv /\ IsStore(store) /\ IsRecord(store)
         /\ Input.lib = lib /\ Input.store = store
<1>1. left.libraries \in DOMAIN Libraries
  BY DEF Core, Scenario
<1> QED
  BY <1>1, LibrariesAreInputs DEF Core, Input

LEMMA CoreInit ==
  ASSUME SyncInit
  PROVE  Core
<1> DEFINE i == [lib |-> [lib EXCEPT !.selected = {}], store |-> store]
<1>1. left \in Scenario /\ lib \in Libraries[left.libraries]
  BY ScenariosAreScenarios DEF SyncInit, Scenario
<1>2. store = StoreOf(<<>>, <<>>, <<>>, <<>>, {})
  BY DEF SyncInit, EmptyStore, StoreOf
<1>3. /\ IsRecord(store) /\ store.rows = <<>> /\ store.listRows = <<>>
      /\ store.audio = <<>> /\ store.lists = <<>> /\ store.sidecars = {}
  BY <1>2, StoreParts
<1>4. /\ IsStore(store) /\ RowsAreApart(store.rows)
      /\ ListRowsAreApart(store.listRows)
  BY <1>3 DEF IsStore, IsPartialFunction, RowsAreApart, ListRowsAreApart
<1>5. IsInput(i)
  <2>1. left.libraries \in DOMAIN Libraries
    BY <1>1 DEF Scenario
  <2> QED
    BY <1>1, <1>4, <2>1, LibrariesAreInputs
<1>6. plan = PlanMirror(i) /\ run = NewMachine(plan, FALSE) /\ ~active
  BY DEF SyncInit
<1> HIDE DEF i
<1>7. NewRun /\ TransfersOnce
  BY <1>5, <1>6, PlanOfAnInput DEF NewRun, TransfersOnce
<1>8. RunInv
  BY <1>7, NewRunAccounted
<1> QED
  BY <1>1, <1>3, <1>4, <1>6, <1>8 DEF Core

\* An answer is one of those the reducer is prepared for.
LEMMA RespondAnswers ==
  ASSUME RunInv, NEW ok \in BOOLEAN, Respond(ok)
  PROVE  Answer
<1>1. 0 \in Bytes
  BY NoBytesAreReported
<1>2. Awaiting("copy") => plan.transfers[Index].path \in Path
  BY EntryInPlan DEF Awaiting, TransferStages, Transfer
<1> QED
  BY <1>1, <1>2 DEF Respond, Answer

LEMMA SamePlaced ==
  ASSUME UNCHANGED plan, Placed(run')
  PROVE  Placed(run)'
<1>1. PlannedSources' = PlannedSources
  BY DEF PlannedSources
<1>2. \A k : PlacedAt(run, k)' = PlacedAt(run', k)
  BY DEF PlacedAt
<1> QED
  BY <1>1, <1>2, SMTT(30) DEF Placed

\* The effect in flight is performed and answered.
LEMMA PerformStep ==
  ASSUME Core, active, NEW ok \in BOOLEAN, Respond(ok), store' \in CutShort,
         left' \in Scenario, left'.libraries = left.libraries, UNCHANGED <<lib, active>>
  PROVE  Core' /\ Follows(store')
<1>1. Based /\ Placed(run) /\ RunInv
  BY DEF Core
<1>2. RunInv' /\ UNCHANGED plan
  BY <1>1, RespondAnswers, RunStep DEF Next
<1>3. Placed(run)'
  BY <1>1, <1>2, AnswerPlaced, SamePlaced
<1>4. Follows(store')
  BY <1>1, CoreParts, CutShortFollows
<1>5. PICK i : i.lib = lib /\ Basis(i, plan, store.rows, store.listRows)
  BY <1>1 DEF Based
<1>6. Basis(i, plan, store'.rows, store'.listRows)
  BY <1>1, <1>4, <1>5, BasisFollows
<1>7. Based'
  BY <1>2, <1>5, <1>6 DEF Based
<1>8. RowsAreApart(store'.rows) /\ ListRowsAreApart(store'.listRows)
  BY <1>6, BasisApart
<1>9. IsStore(store') /\ IsRecord(store')
  BY <1>4 DEF Follows
<1> QED
  BY <1>2, <1>3, <1>4, <1>7, <1>8, <1>9 DEF Core

LEMMA Spent ==
  ASSUME left \in Scenario, NEW kind \in Disturbances, Spend(kind)
  PROVE  left' \in Scenario /\ left'.libraries = left.libraries
<1>1. left[kind] \in Nat /\ left[kind] - 1 \in Nat
  BY DEF Scenario, Disturbances, Spend
<1> QED
  BY <1>1 DEF Scenario, Disturbances, Spend

\* The event that answers an effect, with the store it leaves: a failed write may
\* have left its file.
WriteStages == {"copy", "writeAnalysis", "writeList"}
Answered(ok) ==
  /\ Respond(ok)
  /\ store' \in IF ok THEN {Performed(TRUE), Performed(FALSE)}
                ELSE IF run.at.stage \in WriteStages THEN CutShort ELSE Unperformed

\* Each way an effect ends, as a step of the reducer and of the store.
LEMMA PerformParts ==
  ASSUME left \in Scenario, Perform
  PROVE  /\ active /\ \E ok \in BOOLEAN : Answered(ok)
         /\ store' \in CutShort
         /\ left' \in Scenario /\ left'.libraries = left.libraries
         /\ UNCHANGED <<lib, active>>
<1>1. CASE Succeed
  BY <1>1 DEF Succeed, CutShort, HalfDone, Answered
<1>2. CASE FailEffect
  <2>1. Respond(FALSE) /\ active /\ Spend("faults") /\ UNCHANGED <<lib, active>>
    BY <1>2 DEF FailEffect
  <2>2. \/ store' \in Unperformed
        \/ run.at.stage \in WriteStages /\ store' \in HalfDone
    BY <1>2 DEF FailEffect, WriteStages
  <2>3. Answered(FALSE) /\ store' \in CutShort
    BY <2>1, <2>2 DEF Answered, CutShort
  <2> QED
    BY <2>1, <2>3, Spent DEF Disturbances
<1>3. CASE LoseSidecarRemoval
  BY <1>3, Spent DEF LoseSidecarRemoval, CutShort, HalfDone, Answered, Disturbances
<1>4. CASE RefuseCancelled
  BY <1>4 DEF RefuseCancelled, CutShort, Answered
<1> QED
  BY <1>1, <1>2, <1>3, <1>4 DEF Perform

\* A run is cut short.
LEMMA InterruptStep ==
  ASSUME Core, Interrupt
  PROVE  Core' /\ Follows(store')
<1>1. /\ active /\ store' \in CutShort /\ ~active'
      /\ UNCHANGED <<plan, run, lib>>
      /\ left' \in Scenario /\ left'.libraries = left.libraries
  BY Spent DEF Interrupt, Core, Disturbances, CutShort
<1>2. Based /\ Placed(run) /\ RunInv
  BY <1>1 DEF Core
<1>3. RunInv'
  BY <1>1, <1>2, RunStep DEF machineVars
<1>4. Follows(store')
  BY <1>1, <1>2, CoreParts, CutShortFollows
<1>5. PICK i : i.lib = lib /\ Basis(i, plan, store.rows, store.listRows)
  BY <1>2 DEF Based
<1>6. Basis(i, plan, store'.rows, store'.listRows)
  BY <1>2, <1>4, <1>5, BasisFollows
<1>7. RowsAreApart(store'.rows) /\ ListRowsAreApart(store'.listRows)
  BY <1>6, BasisApart
<1>8. IsStore(store') /\ IsRecord(store')
  BY <1>4 DEF Follows
<1> QED
  BY <1>1, <1>3, <1>4, <1>7, <1>8 DEF Core

\* A file is deleted by someone else, between two runs.
LEMMA LostFile ==
  ASSUME IsStore(store), IsRecord(store), NEW path
  PROVE  LET after == DropFile(path)
         IN  /\ IsStore(after) /\ IsRecord(after)
             /\ after.rows = store.rows /\ after.listRows = store.listRows
<1> DEFINE audio == Drop(store.audio, path)
           lists == Drop(store.lists, path)
           sidecars == store.sidecars \ {path}
           after == DropFile(path)
<1>1. IsDrop(audio, store.audio, path) /\ IsDrop(lists, store.lists, path)
  BY DropParts
<1>2. sidecars \subseteq Path
  BY DEF IsStore
<1>3. after = StoreOf(store.rows, store.listRows, audio, lists, sidecars)
  BY FileDropped
<1> HIDE DEF audio, lists, sidecars, after
<1>4. /\ after.rows = store.rows /\ after.listRows = store.listRows
      /\ after.audio = audio /\ after.lists = lists /\ after.sidecars = sidecars
      /\ IsRecord(after)
  BY <1>3, StoreParts
<1>5. IsPartialFunction(audio, Path, Content) /\ IsPartialFunction(lists, Path, SUBSET Path)
  BY <1>1, PartialFunctions DEF IsStore
<1>6. IsStore(after)
  BY <1>2, <1>4, <1>5 DEF IsStore
<1> QED
  BY <1>4, <1>6 DEF after

LEMMA LoseFileStep ==
  ASSUME Core, LoseFile
  PROVE  Core'
<1>1. PICK path \in Resident(store) : store' = DropFile(path)
  BY DEF LoseFile
<1>2. /\ IsStore(store') /\ IsRecord(store')
      /\ store'.rows = store.rows /\ store'.listRows = store.listRows
  BY <1>1, LostFile DEF Core
<1>3. /\ ~active' /\ UNCHANGED <<plan, run, lib>>
      /\ left' \in Scenario /\ left'.libraries = left.libraries
  BY Spent DEF LoseFile, Core, Disturbances
<1>4. RunInv'
  BY <1>3, RunStep DEF Core, machineVars
<1> QED
  BY <1>2, <1>3, <1>4 DEF Core

LEMMA EditLibraryStep ==
  ASSUME Core, EditLibrary
  PROVE  Core'
<1>1. /\ ~active' /\ UNCHANGED <<plan, run, store>>
      /\ lib' \in Libraries[left.libraries]
      /\ left' \in Scenario /\ left'.libraries = left.libraries
  BY Spent DEF EditLibrary, Core, Disturbances
<1>2. RunInv'
  BY <1>1, RunStep DEF Core, machineVars
<1> QED
  BY <1>1, <1>2 DEF Core

\* The plan of a new run is made from what is there.
LEMMA BeginRunStep ==
  ASSUME Core, BeginRun
  PROVE  Core'
<1>1. /\ plan' = PlanMirror(Input) /\ run' = NewMachine(plan', FALSE)
      /\ UNCHANGED <<lib, store, left>>
  BY DEF BeginRun
<1>2. IsInput(Input) /\ Input.lib = lib /\ Input.store = store
  BY CoreParts
<1>3. /\ plan' \in MirrorPlan
      /\ \A j, k \in DOMAIN plan'.transfers :
           plan'.transfers[j].track = plan'.transfers[k].track => j = k
  BY <1>1, <1>2, PlanOfAnInput
<1>4. NewRun' /\ TransfersOnce'
  BY <1>1, <1>3 DEF NewRun, TransfersOnce
<1>5. (NewRun /\ TransfersOnce => RunInv)'
  BY NewRunAccounted, PTL
<1>6. Basis(Input, plan', store.rows, store.listRows)
  BY <1>1, <1>2 DEF Core, Basis, RowTracks, RowPath
<1>7. Based'
  BY <1>1, <1>2, <1>6 DEF Based
<1>8. Placed(run)'
  BY <1>1 DEF NewMachine, Placed
<1> QED
  BY <1>1, <1>4, <1>5, <1>7, <1>8 DEF Core

\* A step of the reducer that performs no effect.
LEMMA QuietStep ==
  ASSUME Core, Start \/ Cancel, UNCHANGED <<lib, store, active, left>>
  PROVE  Core'
<1>1. RunInv' /\ UNCHANGED plan
  BY RunStep DEF Core, Next
<1>2. run'.carried = run.carried
  BY StartKeeps, CancelKeeps DEF Core, Keeps
<1>3. active => Placed(run)'
  <2> SUFFICES ASSUME active PROVE Placed(run)'
    OBVIOUS
  <2>1. Placed(run)
    BY DEF Core
  <2>2. CASE Start
    <3>1. run'.at.stage = "partials"
      BY <2>2, StartKeeps DEF Core
    <3>2. Placed(run')
      BY <1>2, <2>1, <3>1 DEF Placed
    <3> QED
      BY <1>1, <3>2, SamePlaced
  <2>3. CASE Cancel
    <3>1. /\ run'.at = run.at /\ run'.copiedPath = run.copiedPath
          /\ run'.sharedPath = run.sharedPath
      BY <2>3, CoreParts, RunIndex DEF Cancel, Handle, Machine
    <3>2. Placed(run')
      BY <1>2, <2>1, <3>1 DEF Placed, PlacedAt
    <3> QED
      BY <1>1, <3>2, SamePlaced
  <2> QED
    BY <2>2, <2>3
<1> QED
  BY <1>1, <1>3 DEF Core, Based

LEMMA CoreStep ==
  ASSUME Core, [SyncNext]_syncVars
  PROVE  Core'
<1>1. CASE EditLibrary
  BY <1>1, EditLibraryStep
<1>2. CASE LoseFile
  BY <1>2, LoseFileStep
<1>3. CASE BeginRun
  BY <1>3, BeginRunStep
<1>4. CASE StartRun
  BY <1>4, QuietStep DEF StartRun, world
<1>5. CASE Perform
  <2>1. left \in Scenario
    BY DEF Core
  <2> QED
    BY <1>5, <2>1, PerformParts, PerformStep DEF Answered
<1>6. CASE CancelRun
  BY <1>6, QuietStep DEF CancelRun
<1>7. CASE Interrupt
  BY <1>7, InterruptStep
<1>8. CASE UNCHANGED syncVars
  <2>1. /\ UNCHANGED <<plan, run, lib, store, active, left>>
    BY <1>8 DEF syncVars, world
  <2>2. RunInv'
    BY <2>1, RunStep DEF Core, machineVars
  <2>3. Based => Based'
    BY <2>1 DEF Based
  <2>4. Placed(run) => Placed(run)'
    BY <2>1, SamePlaced
  <2> QED
    BY <2>1, <2>2, <2>3, <2>4 DEF Core
<1> QED
  BY <1>1, <1>2, <1>3, <1>4, <1>5, <1>6, <1>7, <1>8 DEF SyncNext

LEMMA CoreAlways == SyncSpec => []Core
<1>1. SyncInit => Core
  BY CoreInit
<1>2. Core /\ [SyncNext]_syncVars => Core'
  BY CoreStep
<1> QED
  BY <1>1, <1>2, PTL DEF SyncSpec

-----------------------------------------------------------------------------
(* What a removal spares.                                                  *)

\* While a run is under way nothing but its effects changes the store.
LEMMA RunFollows ==
  ASSUME Core, [SyncNext]_syncVars, active, ~Awaiting("done")
  PROVE  Follows(store')
<1>0. ~Idle
  BY DEF Idle
<1>1. CASE UNCHANGED store
  BY <1>1, CoreParts, StoreFollows
<1>2. CASE Perform
  <2>1. left \in Scenario
    BY DEF Core
  <2> QED
    BY <1>2, <2>1, PerformParts, PerformStep DEF Answered
<1>3. CASE Interrupt
  BY <1>3, InterruptStep
<1> QED
  BY <1>0, <1>1, <1>2, <1>3
     DEF SyncNext, EditLibrary, LoseFile, BeginRun, StartRun, CancelRun, syncVars, world

LEMMA DoomedAudio ==
  ASSUME Core, [SyncNext]_syncVars, Removing
  PROVE  GoneAudio \subseteq {DoomedPath}
<1>1. /\ active /\ ~Awaiting("done")
      /\ ~Awaiting("copy") /\ ~Awaiting("writeAnalysis") /\ ~Awaiting("writeList")
  BY DEF Removing, Awaiting
<1>2. AudioStays(store'.audio)
  BY <1>1, RunFollows DEF Follows
<1> QED
  BY <1>1, <1>2 DEF GoneAudio, AudioStays, MayLose

\* What the plan was made for, as far as the library says it.
LEMMA LibraryThroughout ==
  ASSUME NEW i, i.lib = lib
  PROVE  /\ Wanted(Input) = Wanted(i) /\ Desired(Input) = Desired(i)
         /\ Captured(Input) = Captured(i)
         /\ Input.lib = lib /\ Input.store = store
         /\ \A t : Siblings(Input, t) = Siblings(i, t)
         /\ \A s : Entries(Input, s) = Entries(i, s)
<1>1. Input.lib = lib /\ Input.store = store
  BY DEF Input
<1>2. \A s : Entries(Input, s) = Entries(i, s)
  BY <1>1 DEF Entries
<1>3. Wanted(Input) = Wanted(i)
  BY <1>1, <1>2 DEF Wanted
<1> QED
  BY <1>1, <1>2, <1>3 DEF Desired, Captured, Siblings

\* The inventory has the row of a track whose file stays as the plan found it.
LEMMA RetainedThroughout ==
  ASSUME Core, NEW i, i.lib = lib, Basis(i, plan, store.rows, store.listRows),
         NEW t \in Retained(Input)
  PROVE  /\ t \in Retained(i) /\ RowPath(Input, t) = RowPath(i, t)
         /\ Siblings(Input, t) = Siblings(i, t)
<1>1. /\ Wanted(Input) = Wanted(i) /\ Desired(Input) = Desired(i)
      /\ Input.lib = lib /\ Input.store = store
      /\ Siblings(Input, t) = Siblings(i, t)
  BY LibraryThroughout
<1>2. /\ t \in (Wanted(i) \cup i.lib.margin) /\ t \notin Desired(i)
      /\ t \in DOMAIN store.rows
  BY <1>1 DEF Retained, RowTracks
<1>3. t \in RowTracks(i) /\ store.rows[t].path = RowPath(i, t)
  BY <1>2 DEF Basis
<1> QED
  BY <1>1, <1>2, <1>3 DEF Retained, RowPath

\* So it has of a track that the plan leaves for any reason.
LEMMA SparedThroughout ==
  ASSUME Core, NEW i, i.lib = lib, Basis(i, plan, store.rows, store.listRows),
         NEW t \in Spared
  PROVE  /\ t \in RowTracks(i) /\ t \notin Desired(i)
         /\ RowPath(Input, t) = RowPath(i, t)
         /\ t \in Retained(i) => t \in Retained(Input)
<1>1. /\ Wanted(Input) = Wanted(i) /\ Desired(Input) = Desired(i)
      /\ Input.lib = lib /\ Input.store = store
  BY LibraryThroughout
<1>2. t \in DOMAIN store.rows /\ t \notin Desired(i)
  BY <1>1 DEF Spared, RowTracks
<1>3. t \in RowTracks(i) /\ store.rows[t].path = RowPath(i, t)
  BY <1>2 DEF Basis
<1> QED
  BY <1>1, <1>2, <1>3 DEF Retained, RowPath, RowTracks

\* What is taken away for a track that moved was the file of its row.
LEMMA ReplacedWasARow ==
  ASSUME Core, Awaiting("removeReplaced"), active, NEW i, i.lib = lib,
         Basis(i, plan, store.rows, store.listRows)
  PROVE  \E t \in Desired(i) \cap RowTracks(i) :
           RowPath(i, t) = DoomedPath /\ DesiredPath(i, t) # DoomedPath
<1>0. Placed(run) /\ RunInv
  BY DEF Core
<1> DEFINE entry == run.deferred[Index]
<1>1. DoomedPath = entry.path
  BY DEF DoomedPath, Awaiting
<1>2. entry.path \in Path /\ entry.track \in Track /\ Warranted(run, entry)
  <2>1. Index \in DOMAIN run.deferred /\ entry \in [path : Path, track : Track]
    BY <1>0, EntryInPlan
  <2> QED
    BY <1>0, <2>1 DEF RunInv, DeferredSound
<1>3. entry.path # NoPath
  BY <1>2, NoPathIsNoPath
<1>4. /\ plan.transfers = Transfers(i) /\ plan.shared = SharedRecords(i)
      /\ plan.desired = DesiredPaths(i) /\ IsInput(i)
  BY PlanFields
<1> HIDE DEF entry
<1>5. PICK t : /\ t \in Desired(i) /\ t \in RowTracks(i)
               /\ RowPath(i, t) = entry.path /\ DesiredPath(i, t) # entry.path
  <2>1. CASE \E k \in DOMAIN plan.transfers :
               /\ plan.transfers[k].track = entry.track
               /\ plan.transfers[k].previous = entry.path
               /\ run.carried[entry.track] \notin {NoPath, entry.path}
    <3>1. PICK k \in DOMAIN plan.transfers :
            /\ plan.transfers[k].track = entry.track
            /\ plan.transfers[k].previous = entry.path
            /\ run.carried[entry.track] \notin {NoPath, entry.path}
      BY <2>1
    <3>2. PICK j \in DOMAIN plan.transfers :
            /\ plan.transfers[j].track = entry.track
            /\ plan.transfers[j].path = run.carried[entry.track]
      BY <1>0, <1>2, <3>1 DEF Placed
    <3>3. j = k
      BY <1>4, <3>1, <3>2, TransfersOncePerFile
    <3> QED
      BY <1>3, <1>4, <3>1, <3>2, <3>3, TransferFacts
  <2>2. CASE \E k \in DOMAIN plan.shared :
               /\ plan.shared[k].track = entry.track
               /\ plan.shared[k].previous = entry.path
               /\ plan.shared[k].previous \notin plan.desired
    <3>1. PICK k \in DOMAIN plan.shared :
            /\ plan.shared[k].track = entry.track
            /\ plan.shared[k].previous = entry.path
            /\ plan.shared[k].previous \notin plan.desired
      BY <2>2
    <3>2. /\ entry.track \in Desired(i) /\ entry.track \in RowTracks(i)
          /\ RowPath(i, entry.track) = entry.path
      BY <1>3, <1>4, <3>1, SharedFacts
    <3>3. DesiredPath(i, entry.track) \in plan.desired
      BY <1>4, <3>2 DEF DesiredPaths
    <3> QED
      BY <3>1, <3>2, <3>3
  <2> QED
    BY <1>2, <2>1, <2>2 DEF Warranted
<1> QED
  BY <1>1, <1>5

\* What is taken away is neither wanted nor the file of a retained row.
LEMMA DoomedIsFree ==
  ASSUME Core, Removing, NEW i, i.lib = lib,
         Basis(i, plan, store.rows, store.listRows)
  PROVE  /\ DoomedPath \notin plan.desired
         /\ \A t \in Retained(i) :
              Siblings(i, t) = {} => RowPath(i, t) # DoomedPath
<1>1. Placed(run) /\ RunInv
  BY DEF Core, Removing
<1>2. CASE Awaiting("removeTrack")
  <2>1. DoomedPath = plan.removals[Index].path
    BY <1>2 DEF DoomedPath, Awaiting
  <2>2. Index \in DOMAIN plan.removals /\ plan.removals[Index].kind # "unshared"
    BY <1>1, <1>2, EntryInPlan DEF Awaiting, Placed, Index
  <2>3. plan.removals = Removals(i) /\ plan.desired = DesiredPaths(i) /\ IsInput(i)
    BY PlanFields
  <2> QED
    BY <2>1, <2>2, <2>3, RemovalsSpareFiles
<1>3. CASE Awaiting("removeReplaced")
  <2>1. PICK t \in Desired(i) \cap RowTracks(i) :
          RowPath(i, t) = DoomedPath /\ DesiredPath(i, t) # DoomedPath
    BY <1>3, ReplacedWasARow DEF Removing
  <2>2. plan.desired = DesiredPaths(i) /\ IsInput(i) /\ RowsAreApart(i.store.rows)
    BY PlanFields DEF Basis
  <2> QED
    BY <2>1, <2>2, ReplacedFilesAreFree
<1> QED
  BY <1>2, <1>3 DEF Removing, Awaiting

\* Types, of the reducer, its plan, the inventory and the device (DeviceSyncMachine,
\* PlannedSyncState): no answer, failure, interruption or change of the library
\* takes the system out of them, and no index out of its list.
THEOREM SyncTypesHold == SyncSpec => []SyncTypeOK
<1>1. Core => SyncTypeOK
  <2> SUFFICES ASSUME Core PROVE SyncTypeOK
    OBVIOUS
  <2>1. TypeOK
    BY CoreParts, RunIndex DEF TypeOK, RunInv, Inv, Sound
  <2>2. \A kind \in Disturbances : left[kind] \in Nat
    BY DEF Core, Scenario, Disturbances
  <2> QED
    BY <2>1, <2>2 DEF SyncTypeOK, Core
<1> QED
  BY <1>1, CoreAlways, PTL

\* Removing a file never costs a wanted one (MTP-17; is_desired and the deferred
\* removals of machine.rs), whatever happened in this run and those before it.
THEOREM DesiredFilesAreSpared == SyncSpec => DesiredFilesSurvive
<1>1. Core /\ [SyncNext]_syncVars
        => [Removing => plan.desired \cap GoneAudio = {}]_syncVars
  <2> SUFFICES ASSUME Core, [SyncNext]_syncVars, Removing
               PROVE  plan.desired \cap GoneAudio = {}
    OBVIOUS
  <2>1. PICK i : i.lib = lib /\ Basis(i, plan, store.rows, store.listRows)
    BY DEF Core, Removing, Based
  <2> QED
    BY <2>1, DoomedAudio, DoomedIsFree
<1> QED
  BY <1>1, CoreAlways, PTL DEF SyncSpec, DesiredFilesSurvive

\* Nor the file of a row it leaves, unless a row of the same file goes.
LEMMA DoomedIsSpared ==
  ASSUME Core, Removing, NEW i, i.lib = lib,
         Basis(i, plan, store.rows, store.listRows),
         NEW t \in Spared, Siblings(Input, t) = {},
         \A k \in DOMAIN plan.removals : plan.removals[k].track \notin Unit(t)
  PROVE  RowPath(Input, t) # DoomedPath
<1>1. /\ t \in RowTracks(i) /\ RowPath(Input, t) = RowPath(i, t)
      /\ Siblings(i, t) = {}
  BY SparedThroughout, LibraryThroughout
<1>2. Placed(run) /\ RunInv
  BY DEF Core, Removing
<1>3. plan.removals = Removals(i) /\ IsInput(i) /\ RowsAreApart(i.store.rows)
  BY PlanFields DEF Basis
<1>4. t \in Track
  BY <1>1, <1>3, InputParts
<1>5. CASE Awaiting("removeTrack")
  <2>1. DoomedPath = plan.removals[Index].path
    BY <1>5 DEF DoomedPath, Awaiting
  <2>2. Index \in DOMAIN plan.removals
    BY <1>2, <1>5, EntryInPlan DEF Awaiting
  <2>3. CASE \E u \in Removed(i) : plan.removals[Index] = GoneOf(i, u)
    <3>1. PICK u \in Removed(i) : plan.removals[Index] = GoneOf(i, u)
      BY <2>3
    <3>2. plan.removals[Index].track = u /\ plan.removals[Index].path = RowPath(i, u)
      BY <3>1 DEF GoneOf
    <3>3. u \in RowTracks(i) /\ u \in Track
      BY <1>3, InputParts DEF Removed, Leaving
    <3>4. Unit(u) # Unit(t)
      BY <2>2, <3>2, <3>3, UnitFacts
    <3>5. RowPath(i, u) # RowPath(i, t)
      BY <1>1, <1>3, <3>3, <3>4 DEF RowsAreApart, RowTracks, RowPath
    <3> QED
      BY <1>1, <2>1, <3>2, <3>5
  <2>4. CASE \E path \in Orphans(i) : plan.removals[Index] = OrphanAt(path)
    <3>1. plan.removals[Index].path \in Orphans(i)
      BY <2>4 DEF OrphanAt
    <3>2. RowPath(i, t) \in KnownPaths(i)
      BY <1>1 DEF KnownPaths
    <3> QED
      BY <1>1, <2>1, <3>1, <3>2 DEF Orphans
  <2> QED
    BY <1>3, <2>2, <2>3, <2>4, RemovalsListed
<1>6. CASE Awaiting("removeReplaced")
  <2>1. PICK u \in Desired(i) \cap RowTracks(i) : RowPath(i, u) = DoomedPath
    BY <1>6, ReplacedWasARow DEF Removing
  <2>2. u \in Unit(u) /\ u \in Desired(i)
    BY <1>3, <2>1, InputParts, UnitFacts
  <2>3. Unit(u) # Unit(t)
    BY <1>1, <2>2 DEF Siblings
  <2>4. RowPath(i, u) # RowPath(i, t)
    BY <1>1, <1>3, <2>1, <2>3 DEF RowsAreApart, RowTracks, RowPath
  <2> QED
    BY <1>1, <2>1, <2>4
<1> QED
  BY <1>5, <1>6 DEF Removing, Awaiting

\* Nor the file of any row the plan leaves: of an entry that is away in the library,
\* of a stability margin (mirror_file_changes.rs) and of a frozen playlist
\* (selection.rs), if no row of the same file goes.
THEOREM RetainedFilesAreSpared == SyncSpec => RetainedFilesSurvive
<1>1. Core /\ [SyncNext]_syncVars
        => [Removing => \A t \in Spared :
              \/ Siblings(Input, t) # {}
              \/ t \notin Retained(Input)
                 /\ \E k \in DOMAIN plan.removals : plan.removals[k].track \in Unit(t)
              \/ RowPath(Input, t) \notin GoneAudio]_syncVars
  <2> SUFFICES ASSUME Core, [SyncNext]_syncVars, Removing, NEW t \in Spared,
                      Siblings(Input, t) = {},
                      \/ t \in Retained(Input)
                      \/ \A k \in DOMAIN plan.removals :
                           plan.removals[k].track \notin Unit(t)
               PROVE  RowPath(Input, t) \notin GoneAudio
    OBVIOUS
  <2>1. PICK i : i.lib = lib /\ Basis(i, plan, store.rows, store.listRows)
    BY DEF Core, Removing, Based
  <2>2. CASE t \in Retained(Input)
    BY <2>1, <2>2, DoomedAudio, DoomedIsFree, RetainedThroughout
  <2>3. CASE \A k \in DOMAIN plan.removals : plan.removals[k].track \notin Unit(t)
    BY <2>1, <2>3, DoomedAudio, DoomedIsSpared
  <2> QED
    BY <2>2, <2>3
<1> QED
  BY <1>1, CoreAlways, PTL DEF SyncSpec, RetainedFilesSurvive

-----------------------------------------------------------------------------
(* What a playlist of the run may name.                                    *)

\* The stages before the first playlist may go.
EarlyStages == Opened \cup TransferStages \cup {"recordShared"} \cup SidecarStages
               \cup ListStages

\* Until the playlists are written every wanted file is there, or is yet to come, or
\* is known not to have come.
FilesIn(m, audio) ==
  m.at.stage \in EarlyStages =>
    /\ \A path \in plan.desired :
         \/ path \in DOMAIN audio
         \/ path \in m.absent
         \/ \E k \in DOMAIN plan.transfers :
              k > TransfersBehind(m.at) /\ plan.transfers[k].path = path
    /\ m.at.stage = "recordFile" => plan.transfers[m.at.index].path \in DOMAIN audio

FilesThere == active => FilesIn(run, store.audio)

LEMMA SameFilesThere ==
  ASSUME UNCHANGED plan, FilesIn(run', store'.audio)
  PROVE  FilesThere'
<1>1. TransfersBehind(run.at)' = TransfersBehind(run'.at)
  BY DEF TransfersBehind
<1> QED
  BY <1>1 DEF FilesThere, FilesIn

\* Of the wanted files an effect costs only the one that it copies.
LEMMA WantedAudioStays ==
  ASSUME RunInv, NEW i, Basis(i, plan, store.rows, store.listRows),
         NEW after, Follows(after), run.at.stage \in EarlyStages,
         NEW path \in plan.desired, path \in DOMAIN store.audio
  PROVE  \/ path \in DOMAIN after.audio
         \/ Awaiting("copy") /\ path = plan.transfers[Index].path
<1>1. path \in DOMAIN after.audio \/ MayLose(path)
  BY DEF Follows, AudioStays
<1>2. /\ plan.analysis = AnalysisWrites(i) /\ plan.lists = ListWrites(i)
      /\ plan.desired = DesiredPaths(i) /\ IsInput(i)
  BY PlanFields
<1>3. ~(Awaiting("writeAnalysis") /\ path = plan.analysis[Index].path)
  BY <1>2, EntryInPlan, WritesAreNoAudio
<1>4. ~(Awaiting("writeList") /\ path = plan.lists[Index].path)
  BY <1>2, EntryInPlan, WritesAreNoAudio DEF Awaiting, ListStages
<1>5. run.at.stage \notin {"removeList", "removeTrack", "removeReplaced"}
  BY DEF EarlyStages, Opened, TransferStages, SidecarStages, ListStages
<1> QED
  BY <1>1, <1>3, <1>4, <1>5 DEF MayLose

\* The run goes on to another transfer, or has none left.
LEMMA TransfersAhead ==
  ASSUME plan \in MirrorPlan, NEW n, NEW from \in Nat, TransfersEntered(n, from),
         n.at.stage \in EarlyStages, NEW k \in DOMAIN plan.transfers, k >= from
  PROVE  k > TransfersBehind(n.at)
<1>1. k \in Nat /\ Len(plan.transfers) \in Nat /\ k <= Len(plan.transfers)
  <2>1. Len(plan.transfers) \in Nat /\ DOMAIN plan.transfers = 1..Len(plan.transfers)
    BY PlanParts, LenProperties
  <2> QED
    BY <2>1
<1>2. n.at.stage # "done"
  BY DEF EarlyStages, Opened, TransferStages, SidecarStages, ListStages
<1>3. n.at.stage \in {"transcode", "copy"}
  BY <1>1, <1>2 DEF TransfersEntered
<1>4. TransfersBehind(n.at) = from - 1
  BY <1>3 DEF TransfersEntered, TransfersBehind, Opened, TransferStages
<1> QED
  BY <1>1, <1>4

\* The next transfer: what was there is, and the one behind is settled.
LEMMA NextTransferFiles ==
  ASSUME RunInv, NEW i, Basis(i, plan, store.rows, store.listRows),
         NEW after, Follows(after), run.at.stage \in TransferStages,
         FilesIn(run, store.audio), NEW n, TransfersEntered(n, Index + 1),
         run.absent \subseteq n.absent,
         \/ n.at.stage = "done" \/ plan.transfers[Index].path \in n.absent
         \/ Awaiting("recordFile")
  PROVE  FilesIn(n, after.audio)
<1> SUFFICES ASSUME n.at.stage \in EarlyStages
             PROVE  FilesIn(n, after.audio)
  BY DEF FilesIn
<1>1. n.at.stage \notin {"recordFile", "done"}
  BY DEF TransfersEntered, Entered, MiddleStages, LateStages, SidecarStages,
         EarlyStages, Opened, TransferStages, ListStages
<1>2. run.at.stage \in EarlyStages
  BY DEF EarlyStages
<1>3. plan.transfers[Index].path \in DOMAIN after.audio \cup n.absent
  <2>1. CASE Awaiting("recordFile")
    <3>1. Index \in DOMAIN plan.transfers /\ plan.transfers = Transfers(i)
          /\ plan.desired = DesiredPaths(i) /\ IsInput(i)
      BY EntryInPlan, PlanFields
    <3>2. plan.transfers[Index].path \in plan.desired
      BY <3>1, TransferFacts DEF DesiredPaths
    <3>3. plan.transfers[Index].path \in DOMAIN store.audio
      BY <1>2, <2>1 DEF FilesIn, Awaiting, Index
    <3> QED
      BY <1>2, <2>1, <3>2, <3>3, WantedAudioStays DEF Awaiting
  <2> QED
    BY <1>1, <2>1
<1>4. ASSUME NEW path \in plan.desired
      PROVE  \/ path \in DOMAIN after.audio \/ path \in n.absent
             \/ \E k \in DOMAIN plan.transfers :
                  k > TransfersBehind(n.at) /\ plan.transfers[k].path = path
  <2>1. CASE path = plan.transfers[Index].path
    BY <1>3, <2>1
  <2>2. CASE path # plan.transfers[Index].path
    <3>1. CASE path \in DOMAIN store.audio
      BY <1>2, <2>2, <3>1, WantedAudioStays
    <3>2. CASE path \in run.absent
      BY <3>2
    <3>3. CASE \E k \in DOMAIN plan.transfers :
                 k > TransfersBehind(run.at) /\ plan.transfers[k].path = path
      <4>1. PICK k \in DOMAIN plan.transfers :
              k > TransfersBehind(run.at) /\ plan.transfers[k].path = path
        BY <3>3
      <4>2. TransfersBehind(run.at) = Index - 1
        BY DEF TransfersBehind, Opened, TransferStages, Index
      <4>3. k \in Nat /\ Index \in Nat /\ k # Index
        <5>1. DOMAIN plan.transfers = 1..Len(plan.transfers)
          BY RunIndex, PlanParts, LenProperties
        <5> QED
          BY <2>2, <4>1, <5>1, RunIndex, SMTT(30)
      <4>4. k >= Index + 1 /\ Index + 1 \in Nat
        BY <4>1, <4>2, <4>3
      <4>5. k > TransfersBehind(n.at)
        BY <4>4, RunIndex, TransfersAhead
      <4> QED
        BY <4>1, <4>5
    <3> QED
      BY <1>2, <3>1, <3>2, <3>3 DEF FilesIn
  <2> QED
    BY <2>1, <2>2
<1> QED
  BY <1>1, <1>4 DEF FilesIn

\* A later stage: no transfer is ahead any more.
LEMMA LaterStageFiles ==
  ASSUME RunInv, NEW i, Basis(i, plan, store.rows, store.listRows),
         NEW after, Follows(after), FilesIn(run, store.audio), NEW n,
         n.absent = run.absent, n.at.stage # "recordFile",
         \/ n.at.stage \notin EarlyStages
         \/ run.at.stage \in EarlyStages \ (Opened \cup TransferStages)
  PROVE  FilesIn(n, after.audio)
<1> SUFFICES ASSUME n.at.stage \in EarlyStages
             PROVE  FilesIn(n, after.audio)
  BY DEF FilesIn
<1>1. /\ run.at.stage \in EarlyStages /\ ~Awaiting("copy")
      /\ TransfersBehind(run.at) = Len(plan.transfers)
  BY DEF TransfersBehind, Awaiting, TransferStages
<1>2. \A k \in DOMAIN plan.transfers : ~(k > Len(plan.transfers))
  BY RunIndex, PlanParts, LenProperties
<1>3. \A path \in plan.desired : path \in DOMAIN after.audio \/ path \in n.absent
  BY <1>1, <1>2, WantedAudioStays DEF FilesIn
<1> QED
  BY <1>3 DEF FilesIn

LEMMA PartialsFiles ==
  ASSUME RunInv, NEW i, Basis(i, plan, store.rows, store.listRows),
         NEW after, Follows(after), FilesIn(run, store.audio),
         NEW ok \in BOOLEAN, PartialsCleaned(ok)
  PROVE  FilesIn(run', after.audio)
<1> SUFFICES ASSUME run'.at.stage \in EarlyStages
             PROVE  FilesIn(run', after.audio)
  BY DEF FilesIn
<1>1. SameRecords(run, run') /\ TransfersEntered(run', 1)
  BY PartialsTurn
<1>2. /\ run'.at.stage # "recordFile"
      /\ run.at.stage \in EarlyStages /\ ~Awaiting("copy")
  BY <1>1 DEF TransfersEntered, Entered, MiddleStages, LateStages, SidecarStages,
              EarlyStages, Opened, PartialsCleaned, Awaiting
<1>3. DOMAIN plan.transfers = 1..Len(plan.transfers)
  BY RunIndex, PlanParts, LenProperties
<1>4. \A k \in DOMAIN plan.transfers : k > TransfersBehind(run'.at)
  <2> SUFFICES ASSUME NEW k \in DOMAIN plan.transfers PROVE k > TransfersBehind(run'.at)
    OBVIOUS
  <2>1. k >= 1
    BY <1>3
  <2> QED
    BY <1>1, <2>1, RunIndex, TransfersAhead
<1>5. ASSUME NEW path \in plan.desired
      PROVE  \/ path \in DOMAIN after.audio \/ path \in run'.absent
             \/ \E k \in DOMAIN plan.transfers :
                  k > TransfersBehind(run'.at) /\ plan.transfers[k].path = path
  BY <1>1, <1>2, <1>4, WantedAudioStays DEF FilesIn, SameRecords
<1> QED
  BY <1>2, <1>5 DEF FilesIn

\* The second half of the same transfer.
LEMMA SameTransferFiles ==
  ASSUME RunInv, NEW i, Basis(i, plan, store.rows, store.listRows),
         NEW after, Follows(after), FilesIn(run, store.audio),
         NEW n, run.absent \subseteq n.absent,
         \/ /\ Awaiting("transcode") /\ n.at = [stage |-> "copy", index |-> Index]
         \/ /\ Awaiting("copy") /\ n.at = [stage |-> "recordFile", index |-> Index]
            /\ plan.transfers[Index].path \in DOMAIN after.audio
  PROVE  FilesIn(n, after.audio)
<1>1. run.at.stage \in EarlyStages
  BY DEF EarlyStages, TransferStages, Awaiting
<1>2. TransfersBehind(n.at) = TransfersBehind(run.at)
  BY DEF TransfersBehind, Opened, TransferStages, Awaiting, Index
<1>3. ASSUME NEW path \in plan.desired
      PROVE  \/ path \in DOMAIN after.audio \/ path \in n.absent
             \/ \E k \in DOMAIN plan.transfers :
                  k > TransfersBehind(n.at) /\ plan.transfers[k].path = path
  <2>1. path \in DOMAIN store.audio => path \in DOMAIN after.audio
    BY <1>1, WantedAudioStays DEF Awaiting
  <2> QED
    BY <1>1, <1>2, <2>1 DEF FilesIn
<1>4. n.at.stage = "recordFile" => plan.transfers[n.at.index].path \in DOMAIN after.audio
  BY DEF Awaiting
<1> QED
  BY <1>3, <1>4 DEF FilesIn

LEMMA CopyFiles ==
  ASSUME Core, NEW i, Basis(i, plan, store.rows, store.listRows),
         Follows(store'), FilesIn(run, store.audio),
         NEW ok \in BOOLEAN, Answered(ok), Awaiting("copy"),
         TrackCopied(ok, 0, plan.transfers[Index].path)
  PROVE  FilesIn(run', store'.audio)
<1>1. RunInv /\ IsStore(store) /\ IsRecord(store) /\ lib \in Library /\ 0 \in Bytes
  BY CoreParts, NoBytesAreReported
<1>2. plan.transfers[Index] \in Transfer /\ plan.transfers[Index].path \in Path
  BY <1>1, EntryInPlan DEF Awaiting, TransferStages, Transfer
<1>3. run.at.stage \in TransferStages
  BY DEF Awaiting, TransferStages
<1>4. CASE ok
  <2>1. /\ run'.at = [stage |-> "recordFile", index |-> Index]
        /\ run.absent \subseteq run'.absent
    BY <1>1, <1>2, <1>4, TrackCopiedTurn
  <2>2. store' = PutAudio(TRUE)
    BY <1>4 DEF Answered, Performed, Awaiting
  <2>3. plan.transfers[Index].path \in DOMAIN store'.audio
    BY <1>1, <1>2, <2>2, AudioFollows
  <2> QED
    BY <1>1, <2>1, <2>3, SameTransferFiles
<1>5. CASE ~ok
  <2>1. /\ run.absent \subseteq run'.absent
        /\ run'.at.stage = "done" \/ plan.transfers[Index].path \in run'.absent
        /\ TransfersEntered(run', Index + 1)
    BY <1>1, <1>2, <1>5, TrackCopiedTurn
  <2> QED
    BY <1>1, <1>3, <2>1, NextTransferFiles
<1> QED
  BY <1>4, <1>5

LEMMA AnswerFiles ==
  ASSUME Core, NEW i, Basis(i, plan, store.rows, store.listRows),
         Follows(store'), FilesIn(run, store.audio), NEW ok \in BOOLEAN, Answered(ok)
  PROVE  FilesIn(run', store'.audio)
<1>0. RunInv /\ 0 \in Bytes
  BY CoreParts, NoBytesAreReported
<1>1. CASE PartialsCleaned(ok)
  BY <1>0, <1>1, PartialsFiles
<1>2. CASE Transcoded(ok, 0)
  <2>1. Awaiting("transcode") /\ run.at.stage \in TransferStages
    BY <1>2 DEF Transcoded, Awaiting, TransferStages
  <2>2. CASE ok
    <3>1. /\ run'.at = [stage |-> "copy", index |-> Index]
          /\ run'.absent = run.absent
      BY <1>0, <1>2, <2>2, TranscodedTurn
    <3> QED
      BY <1>0, <2>1, <3>1, SameTransferFiles
  <2>3. CASE ~ok
    <3>1. /\ run'.absent = run.absent \cup {plan.transfers[Index].path}
          /\ TransfersEntered(run', Index + 1)
      BY <1>0, <1>2, <2>3, TranscodedTurn
    <3> QED
      BY <1>0, <2>1, <3>1, NextTransferFiles
  <2> QED
    BY <2>2, <2>3
<1>3. CASE Awaiting("copy") /\ TrackCopied(ok, 0, plan.transfers[Index].path)
  BY <1>3, CopyFiles
<1>4. CASE FileRecorded(ok)
  <2>1. Awaiting("recordFile") /\ run.at.stage \in TransferStages
    BY <1>4 DEF FileRecorded, Awaiting, TransferStages
  <2>2. run'.absent = run.absent /\ TransfersEntered(run', Index + 1)
    BY <1>0, <1>4, FileRecordedTurn
  <2> QED
    BY <1>0, <2>1, <2>2, NextTransferFiles
<1>5. CASE SharedFileRecorded(ok) \/ AnalysisWritten(ok, 0)
           \/ PlaylistWritten(ok) \/ PlaylistRecorded(ok)
  <2>1. run.at.stage \in EarlyStages \ (Opened \cup TransferStages)
    BY <1>5 DEF SharedFileRecorded, AnalysisWritten, PlaylistWritten, PlaylistRecorded,
                Awaiting, EarlyStages, Opened, TransferStages, SidecarStages, ListStages
  <2>2. /\ run'.absent = run.absent
        /\ \/ Entered(run', MiddleStages, 1)
           \/ run'.at = [stage |-> "recordList", index |-> Index]
    BY <1>0, <1>5, SharedTurn, AnalysisTurn, PlaylistWrittenTurn, PlaylistRecordedTurn
       DEF SameRecords
  <2>3. run'.at.stage # "recordFile"
    BY <2>2 DEF Entered, MiddleStages, LateStages, SidecarStages
  <2> QED
    BY <1>0, <2>1, <2>2, <2>3, LaterStageFiles
<1>6. CASE PlaylistRemoved(ok) \/ PlaylistForgotten(ok) \/ TrackRemoved(ok)
           \/ FileForgotten(ok) \/ ReplacedFileRemoved(ok)
  <2>1. \/ \E from : Entered(run', LateStages, from)
        \/ \E stage \in {"forgetList", "forgetFile"} :
             run'.at = [stage |-> stage, index |-> Index]
    BY <1>0, <1>6, PlaylistRemovedTurn, PlaylistForgottenTurn, TrackRemovedTurn,
       FileForgottenTurn, ReplacedTurn
  <2>2. run'.at.stage \notin EarlyStages
    BY <2>1 DEF Entered, LateStages, EarlyStages, Opened, TransferStages,
                SidecarStages, ListStages
  <2> QED
    BY <2>2 DEF FilesIn
<1> QED
  BY <1>1, <1>2, <1>3, <1>4, <1>5, <1>6 DEF Answered, Respond

LEMMA FilesThereInit ==
  SyncInit => FilesThere
BY DEF SyncInit, FilesThere

\* A new run: what is wanted is there, or has a transfer.
LEMMA BeginRunFiles ==
  ASSUME Core, BeginRun
  PROVE  FilesThere'
<1>1. /\ plan' = PlanMirror(Input) /\ run' = NewMachine(plan', FALSE)
      /\ store' = store
  BY DEF BeginRun
<1>2. IsInput(Input) /\ Input.store = store
  BY CoreParts
<1>3. plan'.desired = DesiredPaths(Input) /\ plan'.transfers = Transfers(Input)
  BY <1>1 DEF PlanMirror
<1>4. run'.at.stage = "start"
  BY <1>1 DEF NewMachine
<1>5. TransfersBehind(run.at)' = 0
  BY <1>4 DEF TransfersBehind, Opened, TransferStages
<1>6. \A k \in DOMAIN plan'.transfers : k > 0
  <2>1. plan' \in MirrorPlan
    BY <1>1, <1>2, PlanOfAnInput
  <2>2. plan'.transfers \in Seq(Transfer)
    BY <2>1 DEF MirrorPlan
  <2> QED
    BY <2>2, LenProperties
<1>7. \A path \in plan'.desired :
        \/ path \in DOMAIN store'.audio
        \/ \E k \in DOMAIN plan'.transfers :
             k > TransfersBehind(run.at)' /\ plan'.transfers[k].path = path
  <2> SUFFICES ASSUME NEW path \in plan'.desired
               PROVE  \/ path \in DOMAIN store'.audio
                      \/ \E k \in DOMAIN plan'.transfers :
                           k > TransfersBehind(run.at)' /\ plan'.transfers[k].path = path
    OBVIOUS
  <2>1. \/ path \in DOMAIN Input.store.audio
        \/ \E k \in DOMAIN Transfers(Input) : Transfers(Input)[k].path = path
    BY <1>2, <1>3, DesiredArrives
  <2> QED
    BY <2>1, <1>1, <1>2, <1>3, <1>5, <1>6
<1> QED
  BY <1>4, <1>7 DEF FilesThere, FilesIn

LEMMA PerformFiles ==
  ASSUME Core, FilesThere, Perform
  PROVE  FilesThere'
<1>1. left \in Scenario
  BY DEF Core
<1>2. /\ active /\ store' \in CutShort
      /\ left' \in Scenario /\ left'.libraries = left.libraries
      /\ UNCHANGED <<lib, active>>
  BY <1>1, PerformParts
<1>3. PICK ok \in BOOLEAN : Answered(ok)
  BY <1>1, PerformParts
<1>4. Respond(ok)
  BY <1>3 DEF Answered
<1>5. Follows(store')
  BY <1>2, <1>4, PerformStep
<1>6. UNCHANGED plan
  BY <1>4, CoreParts, RespondAnswers, RunStep DEF Next
<1>7. PICK i : i.lib = lib /\ Basis(i, plan, store.rows, store.listRows)
  BY <1>2 DEF Core, Based
<1>8. FilesIn(run, store.audio)
  BY <1>2 DEF FilesThere
<1>9. FilesIn(run', store'.audio)
  BY <1>3, <1>5, <1>7, <1>8, AnswerFiles
<1> QED
  BY <1>6, <1>9, SameFilesThere

LEMMA StartFiles ==
  ASSUME Core, FilesThere, StartRun
  PROVE  FilesThere'
<1>1. /\ active /\ Start /\ UNCHANGED <<plan, store>>
  BY RunStep DEF Core, StartRun, world, Next
<1>2. /\ Awaiting("start") /\ run'.at.stage = "partials" /\ run'.absent = run.absent
  BY <1>1, CoreParts, StartKeeps DEF Start, Awaiting, Keeps
<1>3. FilesIn(run, store.audio)
  BY <1>1 DEF FilesThere
<1>4. run.at.stage \in EarlyStages
  BY <1>2 DEF Awaiting, EarlyStages, Opened
<1>5. TransfersBehind(run'.at) = TransfersBehind(run.at)
  BY <1>2 DEF Awaiting, TransfersBehind, Opened, TransferStages
<1>6. FilesIn(run', store'.audio)
  BY <1>1, <1>2, <1>3, <1>4, <1>5 DEF FilesIn
<1> QED
  BY <1>1, <1>6, SameFilesThere

LEMMA CancelFiles ==
  ASSUME Core, FilesThere, CancelRun
  PROVE  FilesThere'
<1>1. active /\ Cancel /\ UNCHANGED <<plan, store>>
  BY RunStep DEF Core, CancelRun, Next
<1>2. run'.at = run.at /\ run'.absent = run.absent
  BY <1>1, CoreParts, RunIndex DEF Cancel, Handle, Machine
<1>3. FilesIn(run', store'.audio)
  BY <1>1, <1>2 DEF FilesThere, FilesIn
<1> QED
  BY <1>1, <1>3, SameFilesThere

LEMMA FilesThereStep ==
  ASSUME Core, FilesThere, [SyncNext]_syncVars
  PROVE  FilesThere'
<1>1. CASE EditLibrary \/ LoseFile \/ Interrupt
  BY <1>1 DEF EditLibrary, LoseFile, Interrupt, FilesThere
<1>2. CASE UNCHANGED syncVars
  <2>1. UNCHANGED <<plan, run, store, active>>
    BY <1>2 DEF syncVars, world
  <2> QED
    BY <2>1 DEF FilesThere, FilesIn, TransfersBehind
<1> QED
  BY <1>1, <1>2, BeginRunFiles, StartFiles, PerformFiles, CancelFiles DEF SyncNext

LEMMA FilesThereAlways == SyncSpec => []FilesThere
<1>1. Core /\ FilesThere /\ [SyncNext]_syncVars => FilesThere'
  BY FilesThereStep
<1> QED
  BY <1>1, FilesThereInit, CoreAlways, PTL DEF SyncSpec

\* While nothing runs, lists only go.
LEMMA IdleLists ==
  ASSUME Core, [SyncNext]_syncVars, Idle
  PROVE  \A list \in DOMAIN store'.lists :
           list \in DOMAIN store.lists /\ store.lists[list] = store'.lists[list]
<1>1. CASE UNCHANGED store
  BY <1>1
<1>2. CASE LoseFile
  <2>1. PICK path \in Resident(store) : store' = DropFile(path)
    BY <1>2 DEF LoseFile
  <2>2. store' = StoreOf(store.rows, store.listRows, Drop(store.audio, path),
                         Drop(store.lists, path), store.sidecars \ {path})
    BY <2>1, FileDropped, CoreParts
  <2>3. store'.lists = Drop(store.lists, path)
    BY <2>2, StoreParts
  <2>4. IsDrop(store'.lists, store.lists, path)
    BY <2>3, DropParts
  <2> QED
    BY <2>4 DEF IsDrop
<1>3. ~Perform
  <2> SUFFICES ASSUME Perform PROVE FALSE
    OBVIOUS
  <2>1. active /\ \E ok \in BOOLEAN : Answered(ok)
    BY PerformParts DEF Core
  <2>2. Awaiting("done")
    BY <2>1 DEF Idle
  <2> QED
    BY <2>1, <2>2
       DEF Answered, Respond, Awaiting, PartialsCleaned, Transcoded, FileRecorded,
           SharedFileRecorded, AnalysisWritten, PlaylistWritten, PlaylistRecorded,
           PlaylistRemoved, PlaylistForgotten, TrackRemoved, FileForgotten,
           ReplacedFileRemoved
<1> QED
  BY <1>1, <1>2, <1>3
     DEF SyncNext, EditLibrary, BeginRun, StartRun, CancelRun, Interrupt, syncVars, world

\* A playlist is published with entries that are there (MTP-19): not with the track
\* whose copy failed, and not with one that is removed later in the same run.
THEOREM PublishedListsAreThere == SyncSpec => PublishedListsNameFiles
<1>1. Core /\ FilesThere /\ [SyncNext]_syncVars
        => [\A list \in DOMAIN store'.lists :
              (list \in DOMAIN store.lists => store.lists[list] # store'.lists[list]) =>
                store'.lists[list] \cap plan.desired \subseteq DOMAIN store'.audio
           ]_syncVars
  <2> SUFFICES ASSUME Core, FilesThere, [SyncNext]_syncVars, NEW list \in DOMAIN store'.lists,
                      list \in DOMAIN store.lists => store.lists[list] # store'.lists[list],
                      NEW path \in store'.lists[list] \cap plan.desired
               PROVE  path \in DOMAIN store'.audio
    OBVIOUS
  <2>1. active /\ ~Awaiting("done")
    BY IdleLists DEF Idle
  <2>2. Follows(store')
    BY <2>1, RunFollows
  <2>3. /\ Awaiting("writeList")
        /\ store'.lists[list] = plan.lists[Index].entries \ run.absent
        /\ store'.audio = store.audio
    BY <2>2 DEF Follows, ListsFollow
  <2>4. path \notin run.absent
    BY <2>3
  <2>5. /\ run.at.stage \in EarlyStages
        /\ TransfersBehind(run.at) = Len(plan.transfers)
    BY <2>3 DEF Awaiting, EarlyStages, Opened, TransferStages, SidecarStages, ListStages,
                TransfersBehind
  <2>6. \A k \in DOMAIN plan.transfers : ~(k > Len(plan.transfers))
    BY CoreParts, RunIndex, PlanParts, LenProperties
  <2>7. path \in DOMAIN store.audio
    BY <2>1, <2>4, <2>5, <2>6 DEF FilesThere, FilesIn
  <2> QED
    BY <2>3, <2>7
<1> QED
  BY <1>1, CoreAlways, FilesThereAlways, PTL DEF SyncSpec, PublishedListsNameFiles

-----------------------------------------------------------------------------
(* The playlists the inventory knows.                                      *)

\* The file of a planned playlist names what was planned, or less.
Kept(k, s) ==
  LET list == plan.lists[k]
  IN  list.path \in DOMAIN s.lists => s.lists[list.path] \subseteq list.entries

Booked(k, s) ==
  LET list == plan.lists[k]
  IN  /\ list.source \in DOMAIN s.listRows /\ s.listRows[list.source] = list.path
      /\ Kept(k, s)

\* So it is for each that was published, and for the one about to be recorded.
ListsBooked(m, s) ==
  \A k \in DOMAIN plan.lists :
    /\ plan.lists[k].source \in m.published => Booked(k, s)
    /\ m.at.stage = "recordList" /\ m.at.index = k => Kept(k, s)

\* An obsolete playlist the run is done with is gone, or it was to stay, or could
\* not be removed.
ListGone(m, k, s) ==
  \/ plan.listRemovals[k].path \notin DOMAIN s.lists
  \/ m.staleList \/ ~ListMayGo(m, k)

ObsoleteGone(m, s) ==
  \A k \in DOMAIN plan.listRemovals : k <= ListRemovalsBehind(m.at) => ListGone(m, k, s)

ListsSettled(m, s) == ListsBooked(m, s) /\ ObsoleteGone(m, s)

ListsThere == active => ListsSettled(run, store)

LEMMA SameListsThere ==
  ASSUME UNCHANGED plan, ListsSettled(run', store')
  PROVE  ListsThere'
<1>1. PlannedSources' = PlannedSources
  BY DEF PlannedSources
<1>2. \A k : /\ Booked(k, store') => Booked(k, store)'
             /\ Kept(k, store') => Kept(k, store)'
  BY DEF Booked, Kept
<1>3. \A k : ListMayGo(run, k)' = ListMayGo(run', k)
  BY <1>1 DEF ListMayGo
<1>4. ListRemovalsBehind(run.at)' = ListRemovalsBehind(run'.at)
  BY DEF ListRemovalsBehind
<1>5. \A k : ListGone(run, k, store)' = ListGone(run', k, store')
  BY <1>3 DEF ListGone
<1>6. ListsBooked(run, store)'
  <2>1. \A k \in DOMAIN plan.lists :
          /\ plan.lists[k].source \in run'.published => Booked(k, store)'
          /\ run'.at.stage = "recordList" /\ run'.at.index = k => Kept(k, store)'
    BY <1>2 DEF ListsSettled, ListsBooked
  <2> QED
    BY <2>1 DEF ListsBooked
<1>7. ObsoleteGone(run, store)'
  BY <1>4, <1>5 DEF ListsSettled, ObsoleteGone
<1> QED
  BY <1>6, <1>7 DEF ListsThere, ListsSettled

\* Writing a playlist anew leaves the others alone.
LEMMA KeptStays ==
  ASSUME NEW i, Basis(i, plan, store.rows, store.listRows), RunInv,
         NEW after, Follows(after), NEW k \in DOMAIN plan.lists, Kept(k, store)
  PROVE  Kept(k, after)
<1> DEFINE path == plan.lists[k].path
<1> SUFFICES ASSUME path \in DOMAIN after.lists
             PROVE  after.lists[path] \subseteq plan.lists[k].entries
  BY DEF Kept
<1>1. \/ path \in DOMAIN store.lists /\ after.lists[path] = store.lists[path]
      \/ /\ Awaiting("writeList") /\ path = plan.lists[Index].path
         /\ after.lists[path] = plan.lists[Index].entries \ run.absent
  BY DEF Follows, ListsFollow
<1>2. ASSUME Awaiting("writeList"), path = plan.lists[Index].path
      PROVE  k = Index
  <2>1. Index \in DOMAIN plan.lists
    BY <1>2, EntryInPlan DEF Awaiting, ListStages
  <2>2. plan.lists = ListWrites(i) /\ IsInput(i)
    BY PlanFields
  <2> QED
    BY <1>2, <2>1, <2>2, ListWriteFacts
<1> QED
  BY <1>1, <1>2 DEF Kept

LEMMA BookedStays ==
  ASSUME NEW i, Basis(i, plan, store.rows, store.listRows), RunInv, Placed(run),
         NEW after, Follows(after), NEW k \in DOMAIN plan.lists, Booked(k, store)
  PROVE  Booked(k, after)
<1> DEFINE source == plan.lists[k].source
           path == plan.lists[k].path
<1>1. source \in DOMAIN store.listRows /\ store.listRows[source] = path
  BY DEF Booked
<1>2. source \in PlannedSources
  BY DEF PlannedSources
<1>3. ~(Awaiting("forgetList") /\ source = plan.listRemovals[Index].source)
  BY <1>2 DEF Placed, Awaiting, Index
<1>4. source \in DOMAIN after.listRows
  BY <1>1, <1>3 DEF Follows, ListRowsFollow
<1>5. ASSUME Awaiting("recordList"), source = plan.lists[Index].source
      PROVE  k = Index
  <2>1. Index \in DOMAIN plan.lists
    BY <1>5, EntryInPlan DEF Awaiting, ListStages
  <2>2. plan.lists = ListWrites(i) /\ IsInput(i)
    BY PlanFields
  <2> QED
    BY <1>5, <2>1, <2>2, ListWriteFacts
<1>6. after.listRows[source] = path
  BY <1>1, <1>4, <1>5 DEF Follows, ListRowsFollow
<1>7. Kept(k, after)
  BY KeptStays DEF Booked
<1> QED
  BY <1>4, <1>6, <1>7 DEF Booked

\* Nothing is published, and no playlist is about to be recorded.
LEMMA BookedFollow ==
  ASSUME NEW i, Basis(i, plan, store.rows, store.listRows), RunInv, Placed(run),
         NEW after, Follows(after), ListsBooked(run, store),
         NEW n, n.published = run.published, n.at.stage # "recordList"
  PROVE  ListsBooked(n, after)
<1>1. \A k \in DOMAIN plan.lists :
        plan.lists[k].source \in run.published => Booked(k, after)
  BY BookedStays DEF ListsBooked
<1> QED
  BY <1>1 DEF ListsBooked

\* A stage entered before the playlists go, or with all that went passed over.
LEMMA ObsoleteAhead ==
  ASSUME plan \in MirrorPlan, NEW n, NEW s, NEW stages, Entered(n, stages, 1)
  PROVE  ObsoleteGone(n, s)
<1>1. DOMAIN plan.listRemovals = 1..Len(plan.listRemovals)
  BY PlanParts, LenProperties
<1> QED
  BY <1>1 DEF Entered, ObsoleteGone, ListGone

LEMMA ObsoleteNone ==
  ASSUME plan \in MirrorPlan, NEW n, NEW s, ListRemovalsBehind(n.at) = 0
  PROVE  ObsoleteGone(n, s)
<1>1. \A k \in DOMAIN plan.listRemovals : ~(k <= 0)
  BY PlanParts, LenProperties
<1> QED
  BY <1>1 DEF ObsoleteGone

\* One after the playlists went: none comes back.
LEMMA GoneStays ==
  ASSUME NEW after, Follows(after), ~Awaiting("writeList"), NEW n,
         n.published = run.published, run.staleList => n.staleList,
         NEW k, ListGone(run, k, store)
  PROVE  ListGone(n, k, after)
<1>1. plan.listRemovals[k].path \notin DOMAIN store.lists
        => plan.listRemovals[k].path \notin DOMAIN after.lists
  BY DEF Follows, ListsFollow
<1> QED
  BY <1>1 DEF ListGone, ListMayGo

LEMMA ObsoleteBehind ==
  ASSUME plan \in MirrorPlan, NEW after, Follows(after), ~Awaiting("writeList"), NEW n,
         n.published = run.published, run.staleList => n.staleList,
         ObsoleteGone(run, store), NEW from \in Nat, NEW stages, Entered(n, stages, from),
         \A k \in DOMAIN plan.listRemovals :
           k < from => k <= ListRemovalsBehind(run.at) \/ ListGone(n, k, after)
  PROVE  ObsoleteGone(n, after)
<1> SUFFICES ASSUME NEW k \in DOMAIN plan.listRemovals, k <= ListRemovalsBehind(n.at)
             PROVE  ListGone(n, k, after)
  BY DEF ObsoleteGone
<1>1. k \in 1..Len(plan.listRemovals) /\ Len(plan.listRemovals) \in Nat
  BY PlanParts, LenProperties
<1>2. CASE k < from
  BY <1>2, GoneStays DEF ObsoleteGone
<1>3. CASE ~(k < from)
  <2>1. k \in from..Len(plan.listRemovals)
    BY <1>1, <1>3
  <2>2. ~ListMayGo(n, k)
    BY <2>1 DEF Entered
  <2> QED
    BY <2>2 DEF ListGone
<1> QED
  BY <1>2, <1>3

\* The handlers that come before the playlists go.
LEMMA ListsAhead ==
  ASSUME Core, NEW i, Basis(i, plan, store.rows, store.listRows), Placed(run),
         Follows(store'), ListsBooked(run, store), run'.published = run.published,
         \/ \E stages \in SUBSET ({"transcode", "copy"} \cup MiddleStages) :
              Entered(run', stages, 1)
         \/ \E stage \in {"copy", "recordFile"} :
              run'.at = [stage |-> stage, index |-> Index]
  PROVE  ListsSettled(run', store')
<1>1. RunInv /\ plan \in MirrorPlan
  BY CoreParts, RunIndex
<1>2. run'.at.stage # "recordList"
  BY DEF Entered, MiddleStages, LateStages, SidecarStages
<1>3. ListsBooked(run', store')
  BY <1>1, <1>2, BookedFollow
<1>4. ObsoleteGone(run', store')
  <2>1. CASE \E stages : Entered(run', stages, 1)
    BY <1>1, <2>1, ObsoleteAhead
  <2>2. CASE \E stage \in {"copy", "recordFile"} :
               run'.at = [stage |-> stage, index |-> Index]
    <3>1. ListRemovalsBehind(run'.at) = 0
      BY <2>2 DEF ListRemovalsBehind
    <3> QED
      BY <1>1, <3>1, ObsoleteNone
  <2> QED
    BY <2>1, <2>2
<1> QED
  BY <1>3, <1>4 DEF ListsSettled

LEMMA WrittenLists ==
  ASSUME Core, NEW i, Basis(i, plan, store.rows, store.listRows), Placed(run),
         Follows(store'), ListsBooked(run, store), Answered(TRUE), PlaylistWritten(TRUE)
  PROVE  ListsSettled(run', store')
<1>1. RunInv /\ IsStore(store) /\ IsRecord(store) /\ plan \in MirrorPlan
  BY CoreParts, RunIndex
<1>2. /\ Awaiting("writeList") /\ Index \in DOMAIN plan.lists
      /\ plan.lists[Index] \in ListWrite
  BY <1>1, EntryInPlan DEF PlaylistWritten, Awaiting, ListStages
<1>3. /\ run'.at = [stage |-> "recordList", index |-> Index]
      /\ run'.published = run.published
  BY <1>1, PlaylistWrittenTurn DEF SameRecords
<1>4. store' = WriteList
  BY <1>2 DEF Answered, Performed, Awaiting
<1>5. Kept(Index, store')
  BY <1>1, <1>2, <1>4, WriteListFollows DEF Kept
<1>6. \A k \in DOMAIN plan.lists :
        plan.lists[k].source \in run.published => Booked(k, store')
  BY <1>1, BookedStays DEF ListsBooked
<1>7. run'.at.index = Index
  BY <1>3
<1>8. ListsBooked(run', store')
  BY <1>3, <1>5, <1>6, <1>7 DEF ListsBooked
<1>9. ListRemovalsBehind(run'.at) = 0
  BY <1>3 DEF ListRemovalsBehind
<1>10. ObsoleteGone(run', store')
  BY <1>1, <1>9, ObsoleteNone
<1> QED
  BY <1>8, <1>10 DEF ListsSettled

LEMMA RecordedLists ==
  ASSUME Core, NEW i, Basis(i, plan, store.rows, store.listRows), Placed(run),
         Follows(store'), ListsBooked(run, store), Answered(TRUE), PlaylistRecorded(TRUE)
  PROVE  ListsSettled(run', store')
<1>1. RunInv /\ IsStore(store) /\ IsRecord(store) /\ plan \in MirrorPlan
  BY CoreParts, RunIndex
<1>2. /\ Awaiting("recordList") /\ Index \in DOMAIN plan.lists
      /\ plan.lists[Index] \in ListWrite
  BY <1>1, EntryInPlan DEF PlaylistRecorded, Awaiting, ListStages
<1>3. /\ run'.published = run.published \cup {plan.lists[Index].source}
      /\ Entered(run', MiddleStages, 1)
  BY <1>1, PlaylistRecordedTurn
<1> DEFINE list == plan.lists[Index]
           recorded == [store EXCEPT !.listRows = Put(@, list.source, list.path)]
<1>4. store' = recorded
  BY <1>2 DEF Answered, Performed, Awaiting
<1>5. /\ recorded.lists = store.lists
      /\ list.source \in DOMAIN recorded.listRows
      /\ recorded.listRows[list.source] = list.path
  BY <1>1, <1>2, ListRowFollows
<1>6. Kept(Index, store)
  BY <1>2 DEF ListsBooked, Awaiting, Index
<1> HIDE DEF recorded
<1>7. Booked(Index, store')
  BY <1>4, <1>5, <1>6 DEF Booked, Kept
<1>8. \A k \in DOMAIN plan.lists :
        plan.lists[k].source \in run.published => Booked(k, store')
  BY <1>1, BookedStays DEF ListsBooked
<1>9. \A k \in DOMAIN plan.lists : plan.lists[k].source = list.source => k = Index
  <2>1. plan.lists = ListWrites(i) /\ IsInput(i)
    BY PlanFields
  <2> QED
    BY <1>2, <2>1, ListWriteFacts
<1>10. run'.at.stage # "recordList"
  BY <1>3 DEF Entered, MiddleStages, LateStages, SidecarStages
<1>11. ListsBooked(run', store')
  BY <1>3, <1>7, <1>8, <1>9, <1>10 DEF ListsBooked
<1>12. ObsoleteGone(run', store')
  BY <1>1, <1>3, ObsoleteAhead
<1> QED
  BY <1>11, <1>12 DEF ListsSettled

\* An obsolete playlist is removed, and is gone, or the run knows that it is not.
LEMMA RemovedLists ==
  ASSUME Core, NEW i, Basis(i, plan, store.rows, store.listRows), Placed(run),
         Follows(store'), ListsSettled(run, store), NEW ok \in BOOLEAN, Answered(ok),
         PlaylistRemoved(ok)
  PROVE  ListsSettled(run', store')
<1>1. /\ RunInv /\ IsStore(store) /\ IsRecord(store) /\ plan \in MirrorPlan
      /\ ListsBooked(run, store) /\ ObsoleteGone(run, store)
  BY CoreParts, RunIndex DEF ListsSettled
<1>2. Awaiting("removeList") /\ ~Awaiting("writeList")
  BY DEF PlaylistRemoved, Awaiting
<1>3. /\ Index \in 1..Len(plan.listRemovals)
      /\ run'.published = run.published
      /\ run'.staleList = (run.staleList \/ ~ok)
      /\ \/ /\ ok /\ run'.at = [stage |-> "forgetList", index |-> Index]
         \/ Entered(run', LateStages, Index + 1)
  BY <1>1, PlaylistRemovedTurn
<1>4. run'.at.stage # "recordList"
  BY <1>3 DEF Entered, LateStages
<1>5. ListsBooked(run', store')
  BY <1>1, <1>3, <1>4, BookedFollow
<1>6. ListRemovalsBehind(run.at) = Index - 1
  BY <1>2 DEF ListRemovalsBehind, Awaiting, Index
<1>7. DOMAIN plan.listRemovals = 1..Len(plan.listRemovals) /\ Len(plan.listRemovals) \in Nat
  BY <1>1, PlanParts, LenProperties
<1>8. ListGone(run', Index, store')
  <2>1. CASE ok
    <3> DEFINE path == plan.listRemovals[Index].path
    <3>1. store' = DropFile(path)
      BY <1>2, <2>1 DEF Answered, Performed, Awaiting, DoomedPath
    <3> HIDE DEF path
    <3>2. store' = StoreOf(store.rows, store.listRows, Drop(store.audio, path),
                           Drop(store.lists, path), store.sidecars \ {path})
      BY <1>1, <3>1, FileDropped
    <3>3. store'.lists = Drop(store.lists, path)
      BY <3>2, StoreParts
    <3>4. IsDrop(store'.lists, store.lists, path)
      BY <3>3, DropParts
    <3>5. path \notin DOMAIN store'.lists
      BY <3>4 DEF IsDrop
    <3> QED
      BY <3>5 DEF ListGone, path
  <2>2. CASE ~ok
    BY <1>3, <2>2 DEF ListGone
  <2> QED
    BY <2>1, <2>2
<1>9. \A k \in DOMAIN plan.listRemovals :
        k < Index + 1 => k <= ListRemovalsBehind(run.at) \/ ListGone(run', k, store')
  <2> SUFFICES ASSUME NEW k \in 1..Len(plan.listRemovals), k < Index + 1
               PROVE  k <= ListRemovalsBehind(run.at) \/ ListGone(run', k, store')
    BY <1>7
  <2>1. k = Index \/ k <= Index - 1
    BY <1>3, <1>7
  <2> QED
    BY <1>6, <1>8, <2>1
<1>10. CASE Entered(run', LateStages, Index + 1)
  <2>1. Index + 1 \in Nat
    BY <1>3, <1>7
  <2>2. ObsoleteGone(run', store')
    BY <1>1, <1>2, <1>3, <1>9, <1>10, <2>1, ObsoleteBehind
  <2> QED
    BY <1>5, <2>2 DEF ListsSettled
<1>11. CASE run'.at = [stage |-> "forgetList", index |-> Index]
  <2>1. ListRemovalsBehind(run'.at) = Index
    BY <1>11 DEF ListRemovalsBehind
  <2>2. ASSUME NEW k \in DOMAIN plan.listRemovals, k <= Index
        PROVE  ListGone(run', k, store')
    <3>1. k < Index + 1
      BY <1>3, <1>7, <2>2
    <3> QED
      BY <1>1, <1>2, <1>3, <1>9, <3>1, GoneStays DEF ObsoleteGone
  <2>3. ObsoleteGone(run', store')
    BY <2>1, <2>2 DEF ObsoleteGone
  <2> QED
    BY <1>5, <2>3 DEF ListsSettled
<1> QED
  BY <1>3, <1>10, <1>11

\* What comes after.
LEMMA LateLists ==
  ASSUME Core, NEW i, Basis(i, plan, store.rows, store.listRows), Placed(run),
         Follows(store'), ListsSettled(run, store), SameRecords(run, run'),
         \/ /\ Awaiting("forgetList") /\ Entered(run', LateStages, Index + 1)
         \/ /\ run.at.stage \in {"removeTrack", "forgetFile", "removeReplaced"}
            /\ \/ Entered(run', LateStages, ListsGone)
               \/ run'.at = [stage |-> "forgetFile", index |-> Index]
  PROVE  ListsSettled(run', store')
<1>1. /\ RunInv /\ plan \in MirrorPlan /\ Index \in Nat
      /\ ListsBooked(run, store) /\ ObsoleteGone(run, store)
  BY CoreParts, RunIndex DEF ListsSettled
<1>2. /\ run'.published = run.published /\ run'.staleList = run.staleList
      /\ ~Awaiting("writeList")
  BY DEF SameRecords, Awaiting
<1>3. run'.at.stage # "recordList"
  BY DEF Entered, LateStages
<1>4. ListsBooked(run', store')
  BY <1>1, <1>2, <1>3, BookedFollow
<1>5. DOMAIN plan.listRemovals = 1..Len(plan.listRemovals) /\ Len(plan.listRemovals) \in Nat
  BY <1>1, PlanParts, LenProperties
<1>6. CASE Awaiting("forgetList") /\ Entered(run', LateStages, Index + 1)
  <2>1. ListRemovalsBehind(run.at) = Index
    BY <1>6 DEF ListRemovalsBehind, Awaiting, Index
  <2>2. \A k \in DOMAIN plan.listRemovals : k < Index + 1 => k <= ListRemovalsBehind(run.at)
    BY <1>1, <1>5, <2>1
  <2>3. Index + 1 \in Nat
    BY <1>1
  <2>4. ObsoleteGone(run', store')
    BY <1>1, <1>2, <1>6, <2>2, <2>3, ObsoleteBehind
  <2> QED
    BY <1>4, <2>4 DEF ListsSettled
<1>7. CASE run.at.stage \in {"removeTrack", "forgetFile", "removeReplaced"}
  <2>1. ListRemovalsBehind(run.at) = Len(plan.listRemovals)
    BY <1>7 DEF ListRemovalsBehind
  <2>2. \A k \in DOMAIN plan.listRemovals : k <= ListRemovalsBehind(run.at)
    BY <1>5, <2>1
  <2>3. \A k \in DOMAIN plan.listRemovals : ListGone(run', k, store')
    BY <1>1, <1>2, <2>2, GoneStays DEF ObsoleteGone
  <2>4. ObsoleteGone(run', store')
    BY <2>3 DEF ObsoleteGone
  <2> QED
    BY <1>4, <2>4 DEF ListsSettled
<1> QED
  BY <1>6, <1>7

LEMMA AnswerLists ==
  ASSUME Core, NEW i, Basis(i, plan, store.rows, store.listRows), Placed(run),
         Follows(store'), ListsSettled(run, store), NEW ok \in BOOLEAN, Answered(ok)
  PROVE  ListsSettled(run', store')
<1>0. RunInv /\ 0 \in Bytes /\ ListsBooked(run, store)
  BY CoreParts, NoBytesAreReported DEF ListsSettled
<1>a. ASSUME NEW from, TransfersEntered(run', from)
      PROVE  \E stages \in SUBSET ({"transcode", "copy"} \cup MiddleStages) :
               Entered(run', stages, 1)
  BY <1>a DEF TransfersEntered
<1>b. ASSUME Entered(run', MiddleStages, 1)
      PROVE  \E stages \in SUBSET ({"transcode", "copy"} \cup MiddleStages) :
               Entered(run', stages, 1)
  BY <1>b
<1>1. CASE PartialsCleaned(ok)
  <2>1. run'.published = run.published /\ TransfersEntered(run', 1)
    BY <1>0, <1>1, PartialsTurn DEF SameRecords
  <2> QED
    BY <1>0, <1>a, <2>1, ListsAhead
<1>2. CASE Transcoded(ok, 0)
  <2>1. /\ run'.published = run.published
        /\ \/ run'.at = [stage |-> "copy", index |-> Index]
           \/ TransfersEntered(run', Index + 1)
    BY <1>0, <1>2, TranscodedTurn
  <2> QED
    BY <1>0, <1>a, <2>1, ListsAhead
<1>3. CASE Awaiting("copy") /\ TrackCopied(ok, 0, plan.transfers[Index].path)
  <2>0. plan.transfers[Index].path \in Path
    BY <1>0, <1>3, EntryInPlan DEF Awaiting, TransferStages, Transfer
  <2>1. /\ run'.published = run.published
        /\ \/ run'.at = [stage |-> "recordFile", index |-> Index]
           \/ TransfersEntered(run', Index + 1)
    BY <1>0, <1>3, <2>0, TrackCopiedTurn
  <2> QED
    BY <1>0, <1>a, <2>1, ListsAhead
<1>4. CASE FileRecorded(ok)
  <2>1. run'.published = run.published /\ TransfersEntered(run', Index + 1)
    BY <1>0, <1>4, FileRecordedTurn
  <2> QED
    BY <1>0, <1>a, <2>1, ListsAhead
<1>5. CASE SharedFileRecorded(ok) \/ AnalysisWritten(ok, 0)
  <2>1. run'.published = run.published /\ Entered(run', MiddleStages, 1)
    BY <1>0, <1>5, SharedTurn, AnalysisTurn DEF SameRecords
  <2> QED
    BY <1>0, <1>b, <2>1, ListsAhead
<1>6. CASE PlaylistWritten(ok)
  <2>1. CASE ok
    <3>1. ok = TRUE
      BY <2>1
    <3>2. Answered(TRUE) /\ PlaylistWritten(TRUE)
      BY <1>6, <3>1
    <3> QED
      BY <1>0, <3>2, WrittenLists
  <2>2. CASE ~ok
    <3>1. run'.published = run.published /\ Entered(run', MiddleStages, 1)
      BY <1>0, <1>6, <2>2, PlaylistWrittenTurn DEF SameRecords
    <3> QED
      BY <1>0, <1>b, <3>1, ListsAhead
  <2> QED
    BY <2>1, <2>2
<1>7. CASE PlaylistRecorded(ok)
  <2>1. CASE ok
    <3>1. ok = TRUE
      BY <2>1
    <3>2. Answered(TRUE) /\ PlaylistRecorded(TRUE)
      BY <1>7, <3>1
    <3> QED
      BY <1>0, <3>2, RecordedLists
  <2>2. CASE ~ok
    <3>1. run'.published = run.published /\ Entered(run', MiddleStages, 1)
      BY <1>0, <1>7, <2>2, PlaylistRecordedTurn
    <3> QED
      BY <1>0, <1>b, <3>1, ListsAhead
  <2> QED
    BY <2>1, <2>2
<1>8. CASE PlaylistRemoved(ok)
  BY <1>8, RemovedLists
<1>9. CASE PlaylistForgotten(ok)
  <2>1. /\ Awaiting("forgetList") /\ SameRecords(run, run')
        /\ Entered(run', LateStages, Index + 1)
    BY <1>0, <1>9, PlaylistForgottenTurn DEF PlaylistForgotten
  <2> QED
    BY <2>1, LateLists
<1>10. CASE TrackRemoved(ok) \/ FileForgotten(ok) \/ ReplacedFileRemoved(ok)
  <2>1. run.at.stage \in {"removeTrack", "forgetFile", "removeReplaced"}
    BY <1>10 DEF TrackRemoved, FileForgotten, ReplacedFileRemoved, Awaiting
  <2>2. /\ SameRecords(run, run')
        /\ \/ Entered(run', LateStages, ListsGone)
           \/ run'.at = [stage |-> "forgetFile", index |-> Index]
    BY <1>0, <1>10, TrackRemovedTurn, FileForgottenTurn, ReplacedTurn
  <2> QED
    BY <2>1, <2>2, LateLists
<1> QED
  BY <1>1, <1>2, <1>3, <1>4, <1>5, <1>6, <1>7, <1>8, <1>9, <1>10 DEF Answered, Respond

LEMMA BeginRunLists ==
  ASSUME Core, BeginRun
  PROVE  ListsThere'
<1>1. /\ plan' = PlanMirror(Input) /\ run' = NewMachine(plan', FALSE)
      /\ IsInput(Input)
  BY CoreParts DEF BeginRun
<1>2. /\ run'.at.stage = "start" /\ run'.published = {}
  BY <1>1 DEF NewMachine
<1>3. ListRemovalsBehind(run.at)' = 0
  BY <1>2 DEF ListRemovalsBehind
<1>4. \A k \in DOMAIN plan'.listRemovals : ~(k <= 0)
  <2>1. plan' \in MirrorPlan
    BY <1>1, PlanOfAnInput
  <2>2. plan'.listRemovals \in Seq(ListRow)
    BY <2>1 DEF MirrorPlan
  <2> QED
    BY <2>2, LenProperties
<1>5. ListsBooked(run, store)'
  BY <1>2 DEF ListsBooked
<1>6. ObsoleteGone(run, store)'
  BY <1>3, <1>4 DEF ObsoleteGone
<1> QED
  BY <1>5, <1>6 DEF ListsThere, ListsSettled

LEMMA PerformLists ==
  ASSUME Core, ListsThere, Perform
  PROVE  ListsThere'
<1>1. left \in Scenario
  BY DEF Core
<1>2. /\ active /\ store' \in CutShort
      /\ left' \in Scenario /\ left'.libraries = left.libraries
      /\ UNCHANGED <<lib, active>>
  BY <1>1, PerformParts
<1>3. PICK ok \in BOOLEAN : Answered(ok)
  BY <1>1, PerformParts
<1>4. Respond(ok)
  BY <1>3 DEF Answered
<1>5. Follows(store')
  BY <1>2, <1>4, PerformStep
<1>6. UNCHANGED plan
  BY <1>4, CoreParts, RespondAnswers, RunStep DEF Next
<1>7. PICK i : i.lib = lib /\ Basis(i, plan, store.rows, store.listRows)
  BY <1>2 DEF Core, Based
<1>8. ListsSettled(run, store) /\ Placed(run)
  BY <1>2 DEF ListsThere, Core
<1>9. ListsSettled(run', store')
  BY <1>3, <1>5, <1>7, <1>8, AnswerLists
<1> QED
  BY <1>6, <1>9, SameListsThere

LEMMA QuietLists ==
  ASSUME Core, ListsThere, StartRun \/ CancelRun
  PROVE  ListsThere'
<1>1. active /\ (Start \/ Cancel) /\ UNCHANGED <<plan, store>>
  BY RunStep DEF Core, StartRun, CancelRun, world, Next
<1>2. ListsSettled(run, store) /\ plan \in MirrorPlan
  BY <1>1, CoreParts, RunIndex DEF ListsThere
<1>3. CASE Start
  <2>1. /\ run'.at.stage = "partials" /\ run'.published = run.published
    <3>1. run \in Machine /\ run' = Await(Show(run, OpeningPhase), "partials", 0)
      BY <1>3, CoreParts, RunIndex DEF Start, Handle
    <3>2. OpeningPhase \in Phases
      BY DEF OpeningPhase, Phases
    <3> QED
      BY <3>1, <3>2 DEF Show, Await, Machine
  <2>2. ListRemovalsBehind(run'.at) = 0
    BY <2>1 DEF ListRemovalsBehind
  <2>3. ObsoleteGone(run', store)
    BY <1>2, <2>2, ObsoleteNone
  <2>4. ListsBooked(run', store)
    BY <1>2, <2>1 DEF ListsSettled, ListsBooked
  <2>5. ListsSettled(run', store')
    BY <1>1, <2>3, <2>4 DEF ListsSettled
  <2> QED
    BY <1>1, <2>5, SameListsThere
<1>4. CASE Cancel
  <2>1. /\ run'.at = run.at /\ run'.published = run.published
        /\ run'.staleList = run.staleList
    BY <1>4, CoreParts, RunIndex DEF Cancel, Handle, Machine
  <2>2. ListsSettled(run', store)
    BY <1>2, <2>1 DEF ListsSettled, ListsBooked, ObsoleteGone, ListGone, ListMayGo
  <2>3. ListsSettled(run', store')
    BY <1>1, <2>2
  <2> QED
    BY <1>1, <2>3, SameListsThere
<1> QED
  BY <1>1, <1>3, <1>4

LEMMA ListsThereStep ==
  ASSUME Core, ListsThere, [SyncNext]_syncVars
  PROVE  ListsThere'
<1>1. CASE EditLibrary \/ LoseFile \/ Interrupt
  BY <1>1 DEF EditLibrary, LoseFile, Interrupt, ListsThere
<1>2. CASE UNCHANGED syncVars
  <2>1. UNCHANGED <<plan, run, store, active>>
    BY <1>2 DEF syncVars, world
  <2>2. CASE active
    BY <2>1, <2>2, SameListsThere DEF ListsThere
  <2>3. CASE ~active
    BY <2>1, <2>3 DEF ListsThere
  <2> QED
    BY <2>2, <2>3
<1> QED
  BY <1>1, <1>2, BeginRunLists, QuietLists, PerformLists DEF SyncNext

LEMMA ListsThereAlways == SyncSpec => []ListsThere
<1>1. SyncInit => ListsThere
  BY DEF SyncInit, ListsThere
<1>2. Core /\ ListsThere /\ [SyncNext]_syncVars => ListsThere'
  BY ListsThereStep
<1> QED
  BY <1>1, <1>2, CoreAlways, PTL DEF SyncSpec

\* A playlist the run removes files under: it is gone, or names only what stays.
LEMMA ManagedListsAreSettled ==
  ASSUME Core, ListsThere, Removing, NEW i, i.lib = lib,
         Basis(i, plan, store.rows, store.listRows), NEW list \in ManagedLists
  PROVE  \A path \in store.lists[list] :
           \/ path \in DesiredPaths(i)
           \/ \E t \in Retained(i) : Siblings(i, t) = {} /\ path = RowPath(i, t)
<1>1. /\ RunInv /\ plan \in MirrorPlan /\ ListsBooked(run, store) /\ ObsoleteGone(run, store)
  BY CoreParts, RunIndex DEF ListsThere, ListsSettled, Removing
<1>2. PlannedSources \subseteq run.published /\ ~run.staleList
  BY <1>1, RunIndex DEF Inv, Sound, Gated, GateOpen, RemovalStages, Removing
<1>3. \A k \in DOMAIN plan.listRemovals : plan.listRemovals[k].path \notin DOMAIN store.lists
  <2> SUFFICES ASSUME NEW k \in DOMAIN plan.listRemovals
               PROVE  plan.listRemovals[k].path \notin DOMAIN store.lists
    OBVIOUS
  <2>1. ListRemovalsBehind(run.at) = Len(plan.listRemovals)
    BY DEF Removing, ListRemovalsBehind
  <2>2. k <= Len(plan.listRemovals)
    BY <1>1, PlanParts, LenProperties
  <2>3. ListMayGo(run, k)
    BY <1>2 DEF ListMayGo
  <2> QED
    BY <1>1, <1>2, <2>1, <2>2, <2>3 DEF ObsoleteGone, ListGone
<1>4. PICK s \in DOMAIN store.listRows \ Untouched : list = store.listRows[s]
  BY <1>3 DEF ManagedLists
<1>5. list \in DOMAIN store.lists
  BY DEF ManagedLists
<1>6. /\ plan.lists = ListWrites(i) /\ plan.listRemovals = ListRemovals(i) /\ IsInput(i)
      /\ ListRowsAreApart(i.store.listRows)
  BY PlanFields DEF Basis
<1>7. CASE s \in i.lib.selected
  <2>1. PICK k \in DOMAIN plan.lists : plan.lists[k].source = s
    BY <1>4, <1>7 DEF Untouched
  <2>2. s \in run.published
    BY <1>2, <2>1 DEF PlannedSources
  <2>3. Booked(k, store)
    BY <1>1, <2>1, <2>2 DEF ListsBooked
  <2>4. store.lists[list] \subseteq plan.lists[k].entries
    BY <1>4, <1>5, <2>1, <2>3 DEF Booked, Kept
  <2> QED
    BY <1>6, <2>4, ListWriteFacts
<1>8. CASE s \notin i.lib.selected
  <2>1. s \in DOMAIN i.store.listRows /\ store.listRows[s] = i.store.listRows[s]
    BY <1>4, <1>8 DEF Basis
  <2>2. PICK k \in DOMAIN plan.listRemovals : plan.listRemovals[k].path = i.store.listRows[s]
    BY <1>6, <1>8, <2>1, ListRemovalFacts
  <2> QED
    BY <1>3, <1>4, <1>5, <2>1, <2>2
<1> QED
  BY <1>7, <1>8

\* No removal leaves a playlist of the inventory that is not a frozen one left as it
\* is (selection.rs), or one this run had to remove, with
\* an entry it no longer has a file for (MTP-19): the gate of begin_removals holds back
\* every removal until the playlists say what is there, whatever failed before.
THEOREM ManagedListsAreSpared == SyncSpec => ManagedListsKeepTheirFiles
<1>1. Core /\ ListsThere /\ [SyncNext]_syncVars
        => [Removing => \A list \in ManagedLists : store.lists[list] \cap GoneAudio = {}
           ]_syncVars
  <2> SUFFICES ASSUME Core, ListsThere, [SyncNext]_syncVars, Removing,
                      NEW list \in ManagedLists,
                      NEW path \in store.lists[list], path \in GoneAudio
               PROVE  FALSE
    OBVIOUS
  <2>1. PICK i : i.lib = lib /\ Basis(i, plan, store.rows, store.listRows)
    BY DEF Core, Removing, Based
  <2>2. path = DoomedPath
    BY DoomedAudio
  <2>3. plan.desired = DesiredPaths(i)
    BY <2>1, PlanFields
  <2>4. \/ path \in DesiredPaths(i)
        \/ \E t \in Retained(i) : Siblings(i, t) = {} /\ path = RowPath(i, t)
    BY <2>1, ManagedListsAreSettled
  <2> QED
    BY <2>1, <2>2, <2>3, <2>4, DoomedIsFree
<1> QED
  BY <1>1, CoreAlways, ListsThereAlways, PTL DEF SyncSpec, ManagedListsKeepTheirFiles
=============================================================================
