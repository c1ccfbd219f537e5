------------------------ MODULE DeviceSyncRunProofs ------------------------
(***************************************************************************)
(* Theorems about one synchronization run from its start to its report:    *)
(* the values it goes through, what has to be published before it removes  *)
(* a file, what "completed" stands for, what is set aside for deletion,    *)
(* what the user sees of its progress and what a cancel stops, for every   *)
(* plan and every sequence of answers.                                     *)
(*                                                                         *)
(* The invariant says, of the stage and the index the reducer is in, which *)
(* units of the ledger are left and what of the plan it has behind it.     *)
(* Each function that enters a stage is shown to lead on from a machine    *)
(* that has settled everything before that stage (Settled, Leads).         *)
(***************************************************************************)
EXTENDS DeviceSyncMachine, WellFoundedInduction, SequenceTheorems, TLAPS

RemovalStages == {"removeTrack", "forgetFile", "removeReplaced"}

\* What the gate in front of the removal stages has established.
GateOpen(m) == PlannedSources \subseteq m.published /\ ~m.staleList

Gated(m) == m.at.stage \in RemovalStages => GateOpen(m)

\* What every handler leaves behind: the inductive invariant, of one machine.
Sound(m) == m \in Machine /\ IndexInPlan(m) /\ Gated(m)

-----------------------------------------------------------------------------
(* The ledger.                                                             *)

LEMMA LedgerFields ==
  ASSUME NEW ledger \in Ledger
  PROVE  /\ ledger.done \in Nat /\ ledger.total \in Nat
         /\ ledger.bytes \in Nat /\ ledger.bytesTotal \in Nat
         /\ ledger.unit \in Nat /\ ledger.unitTotal \in Nat
  BY DEF Ledger

\* The ledger stays a record of natural numbers under its operations
\* (ledger.rs), whatever bytes the owner reports.
LEMMA LedgerTypes ==
  ASSUME NEW ledger \in Ledger, NEW bytes \in Nat
  PROVE  /\ BeginUnit(ledger, bytes) \in Ledger
         /\ ObserveUnitBytes(ledger, bytes) \in Ledger
         /\ CompleteUnit(ledger, bytes) \in Ledger
<1>1. BeginUnit(ledger, bytes) \in Ledger
  BY DEF Ledger, BeginUnit
<1>2. ObserveUnitBytes(ledger, bytes) \in Ledger
  <2>1. AtLeast(ledger.unit, AtMost(bytes, ledger.unitTotal)) \in Nat
    BY LedgerFields DEF AtMost, AtLeast
  <2> QED
    BY <2>1 DEF Ledger, ObserveUnitBytes
<1>3. CompleteUnit(ledger, bytes) \in Ledger
  <2>1. AtMost(ledger.bytes + AtLeast(bytes, ledger.unit), ledger.bytesTotal)
          \in Nat
    BY LedgerFields DEF AtMost, AtLeast
  <2>2. AtMost(ledger.done + 1, ledger.total) \in Nat
    BY LedgerFields DEF AtMost, AtLeast
  <2> QED
    BY <2>1, <2>2 DEF Ledger, CompleteUnit
<1> QED
  BY <1>1, <1>2, <1>3

-----------------------------------------------------------------------------
(* The steps the handlers are made of keep the machine well typed, and none *)
(* of them touches the gate's two fields, the cancel flag or the queue of   *)
(* deferred removals.                                                       *)

SameGate(m, n) ==
  /\ n.published = m.published /\ n.staleList = m.staleList
  /\ n.deferred = m.deferred

LEMMA AwaitType ==
  ASSUME NEW m \in Machine, NEW stage \in Stages, NEW index \in Nat
  PROVE  /\ Await(m, stage, index) \in Machine
         /\ Await(m, stage, index).at = [stage |-> stage, index |-> index]
         /\ SameGate(m, Await(m, stage, index))
  BY DEF Machine, Await, SameGate

LEMMA ShowType ==
  ASSUME NEW m \in Machine, NEW phase \in Phases
  PROVE  Show(m, phase) \in Machine /\ SameGate(m, Show(m, phase))
  BY DEF Machine, Show, SameGate

LEMMA BeginType ==
  ASSUME NEW m \in Machine, NEW bytes \in Nat
  PROVE  Begin(m, bytes) \in Machine /\ SameGate(m, Begin(m, bytes))
  BY LedgerTypes DEF Machine, Begin, SameGate

LEMMA CompleteType ==
  ASSUME NEW m \in Machine, NEW bytes \in Nat
  PROVE  Complete(m, bytes) \in Machine /\ SameGate(m, Complete(m, bytes))
  BY LedgerTypes DEF Machine, Complete, SameGate

LEMMA FailType ==
  ASSUME NEW m \in Machine, NEW track \in Track \cup {Unattributed}
  PROVE  Fail(m, track) \in Machine /\ SameGate(m, Fail(m, track))
  BY DEF Machine, Fail, SameGate

LEMMA SkipUnitsType ==
  ASSUME NEW m \in Machine, NEW count \in Nat
  PROVE  SkipUnits(m, count) \in Machine /\ SameGate(m, SkipUnits(m, count))
<1>1. m.ledger \in Ledger
  BY DEF Machine
<1>2. AtMost(m.ledger.bytes + m.ledger.unit, m.ledger.bytesTotal) \in Nat
  BY <1>1, LedgerFields DEF AtMost
<1>3. AtMost(m.ledger.done + count, m.ledger.total) \in Nat
  BY <1>1, LedgerFields DEF AtMost
<1> DEFINE skipped ==
      [m.ledger EXCEPT
         !.bytes = AtMost(m.ledger.bytes + m.ledger.unit, m.ledger.bytesTotal),
         !.done = AtMost(m.ledger.done + count, m.ledger.total),
         !.unit = 0,
         !.unitTotal = 0]
<1>4. skipped \in Ledger
  BY <1>1, <1>2, <1>3 DEF Ledger
<1>5. CASE count = 0
  BY <1>5 DEF SkipUnits, SameGate
<1>6. CASE count # 0
  <2>1. SkipUnits(m, count) = [m EXCEPT !.ledger = skipped]
    BY <1>6 DEF SkipUnits, Machine, Ledger
  <2> HIDE DEF skipped
  <2> QED
    BY <1>4, <2>1 DEF Machine, SameGate
<1> QED
  BY <1>5, <1>6


LEMMA FailPlaylistType ==
  ASSUME NEW m \in Machine
  PROVE  FailPlaylist(m) \in Machine /\ SameGate(m, FailPlaylist(m))
  BY FailType DEF FailPlaylist

LEMMA StopStageType ==
  ASSUME NEW m \in Machine
  PROVE  StopStage(m) \in Machine /\ SameGate(m, StopStage(m))
  BY DEF Machine, StopStage, SameGate

LEMMA Names ==
  /\ "writeMetadata" \in Stages /\ "removeTrack" \in Stages
  /\ "removeList" \in Stages /\ "writeList" \in Stages
  /\ "writeLyrics" \in Stages /\ "writeCue" \in Stages
  /\ "writeAnalysis" \in Stages /\ "transcode" \in Stages /\ "copy" \in Stages
  /\ "writingMetadata" \in Phases /\ "removing" \in Phases
  /\ "writingPlaylists" \in Phases /\ "writingLyrics" \in Phases
  /\ "copying" \in Phases /\ "writingAnalysis" \in Phases
  /\ "transcoding" \in Phases
  BY DEF Stages, Phases

\* A stage entered for one unit: the ledger begins it, the step is shown.
LEMMA EnterType ==
  ASSUME NEW m \in Machine, NEW bytes \in Nat, NEW phase \in Phases,
         NEW stage \in Stages, NEW index \in Nat
  PROVE  LET entered == Await(Show(Begin(m, bytes), phase), stage, index)
         IN  /\ entered \in Machine /\ SameGate(m, entered)
             /\ entered.at = [stage |-> stage, index |-> index]
<1> DEFINE begun == Begin(m, bytes)
           shown == Show(begun, phase)
<1>1. begun \in Machine /\ SameGate(m, begun)
  BY BeginType
<1> HIDE DEF begun
<1>2. shown \in Machine /\ SameGate(begun, shown)
  BY <1>1, ShowType
<1> HIDE DEF shown
<1>3. /\ Await(shown, stage, index) \in Machine
      /\ SameGate(shown, Await(shown, stage, index))
      /\ Await(shown, stage, index).at = [stage |-> stage, index |-> index]
  BY <1>2, AwaitType
<1> QED
  BY <1>1, <1>2, <1>3 DEF SameGate, begun, shown

-----------------------------------------------------------------------------
(* The plan.                                                               *)

LEMMA PlanParts ==
  ASSUME plan \in MirrorPlan
  PROVE  /\ plan.transfers \in Seq(Transfer) /\ plan.shared \in Seq(SharedRecord)
         /\ plan.analysis \in Seq(SidecarWrite) /\ plan.cues \in Seq(CueWrite)
         /\ plan.lyrics \in Seq(SidecarWrite) /\ plan.lists \in Seq(ListWrite)
         /\ plan.listRemovals \in Seq(ListRow) /\ plan.removals \in Seq(Removal)
  BY DEF MirrorPlan

LEMMA PlannedSourcesType ==
  ASSUME plan \in MirrorPlan
  PROVE  PlannedSources \subseteq Source
<1> SUFFICES ASSUME NEW k \in DOMAIN plan.lists
             PROVE  plan.lists[k].source \in Source
  BY DEF PlannedSources
<1>1. plan.lists[k] \in ListWrite
  BY PlanParts
<1> QED
  BY <1>1 DEF ListWrite

\* A non-empty set of indices has a least element, which Least chooses.
LEMMA LeastIndex ==
  ASSUME NEW indices \in SUBSET Nat, indices # {}
  PROVE  Least(indices) \in indices /\ \A j \in indices : Least(indices) <= j
<1>1. PICK k \in indices : \A j \in indices : <<j, k>> \notin OpToRel(<, Nat)
  BY NatLessThanWellFounded, WFMin
<1>2. ASSUME NEW j \in indices
      PROVE  k <= j
  <2>1. <<j, k>> \in Nat \X Nat /\ ~(j < k)
    BY <1>1 DEF OpToRel
  <2> QED
    BY <2>1
<1> QED
  BY <1>2 DEF Least

-----------------------------------------------------------------------------
(* The end of a run and the stages, last to first.                         *)

LEMMA FinishSound ==
  ASSUME plan \in MirrorPlan, NEW m \in Machine
  PROVE  Sound(Finish(m))
<1> DEFINE clean == ~m.terminalError /\ m.failures = {} /\ ~m.cancelled
           ended == Await(m, "done", 0)
           phase == IF clean THEN "finishing" ELSE "idle"
           outcome == IF clean THEN "completed"
                      ELSE IF m.cancelled THEN "cancelled" ELSE "failed"
           verified == IF clean THEN PlannedSources
                       ELSE IF m.cancelled THEN {} ELSE m.published
<1>1. ended \in Machine /\ ended.at = [stage |-> "done", index |-> 0]
  BY AwaitType DEF Stages
<1>2. phase \in Phases /\ outcome \in Outcomes
  BY DEF Phases, Outcomes
<1>3. verified \in SUBSET Source
  BY PlannedSourcesType DEF Machine
<1>4. Finish(m) = [ended EXCEPT !.phase = phase, !.outcome = outcome,
                                !.verified = verified]
  BY DEF Finish
<1> HIDE DEF ended, phase, outcome, verified
<1>5. Finish(m).at = ended.at
  BY <1>1, <1>4 DEF Machine
<1>6. Finish(m) \in Machine
  BY <1>1, <1>2, <1>3, <1>4, ZenonT(40) DEF Machine
<1> QED
  BY <1>1, <1>5, <1>6 DEF Sound, IndexInPlan, Gated, RemovalStages

LEMMA EnterTrackMetadataListSound ==
  ASSUME plan \in MirrorPlan, NEW m \in Machine
  PROVE  Sound(EnterTrackMetadataList(m))
<1> DEFINE entered == Await(Show(Begin(m, 0), "writingMetadata"), "writeMetadata", 0)
<1>1. entered \in Machine /\ entered.at = [stage |-> "writeMetadata", index |-> 0]
  BY Names, EnterType
<1>2. Sound(entered)
  BY <1>1 DEF Sound, IndexInPlan, Gated, RemovalStages
<1> QED
  BY <1>2, FinishSound DEF EnterTrackMetadataList

LEMMA EnterDeferredRemovalsSound ==
  ASSUME plan \in MirrorPlan, NEW m \in Machine, GateOpen(m),
         NEW from \in Nat \ {0}
  PROVE  Sound(EnterDeferredRemovals(m, from))
<1>1. CASE m.cancelled
  BY <1>1, FinishSound DEF EnterDeferredRemovals
<1>2. CASE ~m.cancelled /\ from > Len(m.deferred)
  BY <1>2, EnterTrackMetadataListSound DEF EnterDeferredRemovals
<1>3. CASE ~m.cancelled /\ ~(from > Len(m.deferred))
  <2> DEFINE shown == Show(m, "removing")
             entered == Await(shown, "removeReplaced", from)
  <2>1. shown \in Machine /\ SameGate(m, shown)
    BY ShowType DEF Phases
  <2>2. /\ entered \in Machine /\ SameGate(shown, entered)
        /\ entered.at = [stage |-> "removeReplaced", index |-> from]
    <3> HIDE DEF shown
    <3> QED
      BY <2>1, AwaitType DEF Stages
  <2>3. EnterDeferredRemovals(m, from) = entered
    BY <1>3 DEF EnterDeferredRemovals
  <2> HIDE DEF shown, entered
  <2>4. GateOpen(entered) /\ from \in 1..Len(entered.deferred)
    <3>1. Len(m.deferred) \in Nat
      BY DEF Machine
    <3> QED
      BY <1>3, <2>1, <2>2, <3>1 DEF GateOpen, SameGate
  <2> QED
    BY <2>2, <2>3, <2>4 DEF Sound, IndexInPlan, StageLength, Gated
<1> QED
  BY <1>1, <1>2, <1>3 DEF Machine

LEMMA EnterRemovalsSound ==
  ASSUME plan \in MirrorPlan, NEW m \in Machine, GateOpen(m),
         NEW from \in Nat \ {0}
  PROVE  Sound(EnterRemovals(m, from))
<1>1. CASE m.cancelled
  BY <1>1, FinishSound DEF EnterRemovals
<1>2. CASE ~m.cancelled /\ from > Len(plan.removals)
  BY <1>2, EnterDeferredRemovalsSound DEF EnterRemovals
<1>3. CASE ~m.cancelled /\ ~(from > Len(plan.removals))
  <2> DEFINE begun == Begin(m, 0)
             unshared == Await(begun, "forgetFile", from)
             other == Await(Show(begun, "removing"), "removeTrack", from)
  <2>1. begun \in Machine /\ SameGate(m, begun)
    BY BeginType
  <2>2. /\ unshared \in Machine /\ SameGate(begun, unshared)
        /\ unshared.at = [stage |-> "forgetFile", index |-> from]
    <3> HIDE DEF begun
    <3> QED
      BY <2>1, AwaitType DEF Stages
  <2>3. /\ other \in Machine /\ SameGate(m, other)
        /\ other.at = [stage |-> "removeTrack", index |-> from]
    BY Names, EnterType
  <2>4. EnterRemovals(m, from) \in {unshared, other}
    BY <1>3 DEF EnterRemovals
  <2> HIDE DEF begun, unshared, other
  <2>5. from \in 1..Len(plan.removals)
    BY <1>3, PlanParts
  <2>6. GateOpen(unshared) /\ GateOpen(other)
    BY <2>1, <2>2, <2>3 DEF GateOpen, SameGate
  <2>7. Sound(unshared)
    BY <2>2, <2>5, <2>6 DEF Sound, IndexInPlan, StageLength, Gated
  <2>8. Sound(other)
    BY <2>3, <2>5, <2>6 DEF Sound, IndexInPlan, StageLength, Gated
  <2> QED
    BY <2>4, <2>7, <2>8
<1> QED
  BY <1>1, <1>2, <1>3 DEF Machine

LEMMA BeginRemovalsSound ==
  ASSUME plan \in MirrorPlan, NEW m \in Machine
  PROVE  Sound(BeginRemovals(m))
<1>1. CASE m.cancelled \/ ~(PlannedSources \subseteq m.published) \/ m.staleList
  BY <1>1, FinishSound DEF BeginRemovals
<1>2. CASE ~(m.cancelled \/ ~(PlannedSources \subseteq m.published) \/ m.staleList)
  BY <1>2, EnterRemovalsSound DEF BeginRemovals, GateOpen
<1> QED
  BY <1>1, <1>2

LEMMA EnterPlaylistRemovalsSound ==
  ASSUME plan \in MirrorPlan, NEW m \in Machine,
         NEW from \in 1..(Len(plan.listRemovals) + 1)
  PROVE  Sound(EnterPlaylistRemovals(m, from))
<1> DEFINE end == Len(plan.listRemovals)
           ready == {k \in from..end : ListMayGo(m, k)}
<1>1. end \in Nat
  BY PlanParts
<1>2. CASE m.cancelled
  BY <1>2, FinishSound DEF EnterPlaylistRemovals
<1>3. CASE ~m.cancelled /\ ready = {}
  <2> DEFINE skipped == SkipUnits(m, end + 1 - from)
  <2>1. end + 1 - from \in Nat
    BY <1>1
  <2>2. skipped \in Machine
    BY <2>1, SkipUnitsType
  <2>3. EnterPlaylistRemovals(m, from) = BeginRemovals(skipped)
    BY <1>3 DEF EnterPlaylistRemovals
  <2> HIDE DEF skipped
  <2> QED
    BY <2>2, <2>3, BeginRemovalsSound
<1>4. CASE ~m.cancelled /\ ready # {}
  <2> DEFINE next == Least(ready)
             skipped == SkipUnits(m, next - from)
             entered == Await(Show(Begin(skipped, 0), "removing"), "removeList", next)
  <2>1. next \in from..end
    <3>1. ready \in SUBSET Nat
      BY <1>1
    <3>2. next \in ready
      BY <1>4, <3>1, LeastIndex
    <3> QED
      BY <3>2
  <2>2. EnterPlaylistRemovals(m, from) = entered
    BY <1>4 DEF EnterPlaylistRemovals
  <2> HIDE DEF next, ready, end
  <2>3. next - from \in Nat
    BY <1>1, <2>1
  <2>4. skipped \in Machine
    BY <2>3, SkipUnitsType
  <2> HIDE DEF skipped
  <2>5. entered \in Machine /\ entered.at = [stage |-> "removeList", index |-> next]
    <3>1. next \in Nat
      BY <1>1, <2>1
    <3>2. "removeList" \in Stages /\ "removing" \in Phases
      BY Names
    <3> QED
      BY <2>4, <3>1, <3>2, EnterType
  <2> HIDE DEF entered
  <2>6. next \in 1..Len(plan.listRemovals)
    BY <1>1, <2>1 DEF end
  <2> QED
    BY <2>2, <2>5, <2>6 DEF Sound, IndexInPlan, StageLength, Gated, RemovalStages
<1> QED
  BY <1>2, <1>3, <1>4 DEF Machine

LEMMA EnterPlaylistWritesSound ==
  ASSUME plan \in MirrorPlan, NEW m \in Machine, NEW from \in Nat \ {0}
  PROVE  Sound(EnterPlaylistWrites(m, from))
<1>1. CASE m.cancelled
  BY <1>1, FinishSound DEF EnterPlaylistWrites
<1>2. CASE ~m.cancelled /\ from > Len(plan.lists)
  <2>1. 1 \in 1..(Len(plan.listRemovals) + 1)
    BY PlanParts
  <2> QED
    BY <1>2, <2>1, EnterPlaylistRemovalsSound DEF EnterPlaylistWrites
<1>3. CASE ~m.cancelled /\ ~(from > Len(plan.lists))
  <2> DEFINE entered == Await(Show(Begin(m, 0), "writingPlaylists"), "writeList", from)
  <2>1. entered \in Machine /\ entered.at = [stage |-> "writeList", index |-> from]
    BY Names, EnterType
  <2>2. EnterPlaylistWrites(m, from) = entered
    BY <1>3 DEF EnterPlaylistWrites
  <2> HIDE DEF entered
  <2>3. from \in 1..Len(plan.lists)
    BY <1>3, PlanParts
  <2> QED
    BY <2>1, <2>2, <2>3 DEF Sound, IndexInPlan, StageLength, Gated, RemovalStages
<1> QED
  BY <1>1, <1>2, <1>3 DEF Machine

LEMMA EnterLyricsWritesSound ==
  ASSUME plan \in MirrorPlan, NEW m \in Machine, NEW from \in Nat \ {0}
  PROVE  Sound(EnterLyricsWrites(m, from))
<1>1. CASE m.cancelled
  BY <1>1, FinishSound DEF EnterLyricsWrites
<1>2. CASE ~m.cancelled /\ from > Len(plan.lyrics)
  BY <1>2, EnterPlaylistWritesSound DEF EnterLyricsWrites
<1>3. CASE ~m.cancelled /\ ~(from > Len(plan.lyrics))
  <2> DEFINE bytes == plan.lyrics[from].bytes
             entered == Await(Show(Begin(m, bytes), "writingLyrics"),
                              "writeLyrics", from)
  <2>1. from \in 1..Len(plan.lyrics)
    BY <1>3, PlanParts
  <2>2. plan.lyrics[from] \in SidecarWrite
    BY <2>1, PlanParts, ElementOfSeq
  <2>3. bytes \in Nat
    BY <2>2 DEF SidecarWrite
  <2>4. EnterLyricsWrites(m, from) = entered
    BY <1>3 DEF EnterLyricsWrites
  <2> HIDE DEF bytes
  <2>5. entered \in Machine /\ entered.at = [stage |-> "writeLyrics", index |-> from]
    BY <2>3, Names, EnterType
  <2> HIDE DEF entered
  <2> QED
    BY <2>1, <2>4, <2>5 DEF Sound, IndexInPlan, StageLength, Gated, RemovalStages
<1> QED
  BY <1>1, <1>2, <1>3 DEF Machine

LEMMA EnterCueWritesSound ==
  ASSUME plan \in MirrorPlan, NEW m \in Machine,
         NEW from \in 1..(Len(plan.cues) + 1)
  PROVE  Sound(EnterCueWrites(m, from))
<1> DEFINE end == Len(plan.cues)
           ready == {k \in from..end : plan.cues[k].audio \notin m.absent}
<1>1. end \in Nat
  BY PlanParts
<1>2. CASE m.cancelled
  BY <1>2, FinishSound DEF EnterCueWrites
<1>3. CASE ~m.cancelled /\ ready = {}
  <2> DEFINE skipped == SkipUnits(m, end + 1 - from)
  <2>1. end + 1 - from \in Nat
    BY <1>1
  <2>2. skipped \in Machine
    BY <2>1, SkipUnitsType
  <2>3. EnterCueWrites(m, from) = EnterLyricsWrites(skipped, 1)
    BY <1>3 DEF EnterCueWrites
  <2> HIDE DEF skipped
  <2> QED
    BY <2>2, <2>3, EnterLyricsWritesSound
<1>4. CASE ~m.cancelled /\ ready # {}
  <2> DEFINE next == Least(ready)
             bytes == plan.cues[next].bytes
             skipped == SkipUnits(m, next - from)
             entered == Await(Show(Begin(skipped, bytes), "copying"), "writeCue", next)
  <2>1. next \in from..end
    <3>1. ready \in SUBSET Nat
      BY <1>1
    <3>2. next \in ready
      BY <1>4, <3>1, LeastIndex
    <3> QED
      BY <3>2
  <2>2. EnterCueWrites(m, from) = entered
    BY <1>4 DEF EnterCueWrites
  <2> HIDE DEF next, ready, end
  <2>3. next - from \in Nat
    BY <1>1, <2>1
  <2>4. next \in 1..Len(plan.cues)
    BY <1>1, <2>1 DEF end
  <2>5. plan.cues[next] \in CueWrite
    BY <2>4, PlanParts, ElementOfSeq
  <2>6. bytes \in Nat
    BY <2>5 DEF CueWrite
  <2>7. skipped \in Machine
    BY <2>3, SkipUnitsType
  <2> HIDE DEF skipped, bytes
  <2>8. entered \in Machine /\ entered.at = [stage |-> "writeCue", index |-> next]
    <3>1. next \in Nat
      BY <1>1, <2>1
    <3>2. "writeCue" \in Stages /\ "copying" \in Phases
      BY Names
    <3> QED
      BY <2>6, <2>7, <3>1, <3>2, EnterType
  <2> HIDE DEF entered
  <2> QED
    BY <2>2, <2>4, <2>8 DEF Sound, IndexInPlan, StageLength, Gated, RemovalStages
<1> QED
  BY <1>2, <1>3, <1>4 DEF Machine

LEMMA EnterAnalysisWritesSound ==
  ASSUME plan \in MirrorPlan, NEW m \in Machine, NEW from \in Nat \ {0}
  PROVE  Sound(EnterAnalysisWrites(m, from))
<1>1. CASE m.cancelled
  BY <1>1, FinishSound DEF EnterAnalysisWrites
<1>2. CASE ~m.cancelled /\ from > Len(plan.analysis)
  <2>1. 1 \in 1..(Len(plan.cues) + 1)
    BY PlanParts
  <2> QED
    BY <1>2, <2>1, EnterCueWritesSound DEF EnterAnalysisWrites
<1>3. CASE ~m.cancelled /\ ~(from > Len(plan.analysis))
  <2> DEFINE bytes == plan.analysis[from].bytes
             entered == Await(Show(Begin(m, bytes), "writingAnalysis"),
                              "writeAnalysis", from)
  <2>1. from \in 1..Len(plan.analysis)
    BY <1>3, PlanParts
  <2>2. plan.analysis[from] \in SidecarWrite
    BY <2>1, PlanParts, ElementOfSeq
  <2>3. bytes \in Nat
    BY <2>2 DEF SidecarWrite
  <2>4. EnterAnalysisWrites(m, from) = entered
    BY <1>3 DEF EnterAnalysisWrites
  <2> HIDE DEF bytes
  <2>5. entered \in Machine /\ entered.at = [stage |-> "writeAnalysis", index |-> from]
    BY <2>3, Names, EnterType
  <2> HIDE DEF entered
  <2> QED
    BY <2>1, <2>4, <2>5 DEF Sound, IndexInPlan, StageLength, Gated, RemovalStages
<1> QED
  BY <1>1, <1>2, <1>3 DEF Machine

LEMMA FailTracksType ==
  ASSUME NEW m \in Machine, NEW tracks \in SUBSET Track
  PROVE  FailTracks(m, tracks) \in Machine
  BY DEF Machine, FailTracks

LEMMA PlacedAtType ==
  ASSUME plan \in MirrorPlan, NEW m \in Machine,
         NEW k \in 1..Len(plan.shared)
  PROVE  PlacedAt(m, k) \in PathOrNone
<1>1. plan.shared[k] \in SharedRecord
  BY PlanParts, ElementOfSeq
<1>2. plan.shared[k].path \in PathOrNone /\ plan.shared[k].carrier \in Track
  BY <1>1 DEF SharedRecord, PathOrNone
<1>3. m.carried \in [Track -> PathOrNone]
  BY DEF Machine
<1> QED
  BY <1>2, <1>3 DEF PlacedAt

LEMMA EnterSharedRecordsSound ==
  ASSUME plan \in MirrorPlan, NEW m \in Machine, NEW from \in Nat \ {0}
  PROVE  Sound(EnterSharedRecords(m, from))
<1> DEFINE end == Len(plan.shared)
           placed == {k \in from..end : PlacedAt(m, k) # NoPath}
           lost(upto) == {plan.shared[k].track : k \in from..upto}
<1>1. end \in Nat
  BY PlanParts
<1>2. ASSUME NEW upto \in Int, upto <= end
      PROVE  FailTracks(m, lost(upto)) \in Machine
  <2>1. ASSUME NEW k \in from..upto
        PROVE  plan.shared[k].track \in Track
    <3>1. k \in 1..Len(plan.shared)
      BY <1>1, <1>2
    <3>2. plan.shared[k] \in SharedRecord
      BY <3>1, PlanParts, ElementOfSeq
    <3> QED
      BY <3>2 DEF SharedRecord
  <2>2. lost(upto) \in SUBSET Track
    BY <2>1
  <2> HIDE DEF lost
  <2> QED
    BY <2>2, FailTracksType
<1>3. CASE m.cancelled
  BY <1>3, FinishSound DEF EnterSharedRecords
<1>4. CASE ~m.cancelled /\ placed = {}
  <2> DEFINE failed == FailTracks(m, lost(end))
  <2>1. failed \in Machine
    <3>1. end \in Int /\ end <= end
      BY <1>1
    <3> HIDE DEF lost, end
    <3> QED
      BY <1>2, <3>1
  <2>2. EnterSharedRecords(m, from) = EnterAnalysisWrites(failed, 1)
    BY <1>4 DEF EnterSharedRecords
  <2> HIDE DEF failed
  <2> QED
    BY <2>1, <2>2, EnterAnalysisWritesSound
<1>5. CASE ~m.cancelled /\ placed # {}
  <2> DEFINE next == Least(placed)
             failed == FailTracks(m, lost(next - 1))
             awaited == Await(failed, "recordShared", next)
             entered == [awaited EXCEPT !.sharedPath = PlacedAt(m, next)]
  <2>1. next \in from..end
    <3>1. placed \in SUBSET Nat
      BY <1>1
    <3>2. next \in placed
      BY <1>5, <3>1, LeastIndex
    <3> QED
      BY <3>2
  <2>2. EnterSharedRecords(m, from) = entered
    BY <1>5 DEF EnterSharedRecords
  <2> HIDE DEF next, placed
  <2>3. failed \in Machine
    <3>1. next - 1 \in Int /\ next - 1 <= end
      BY <1>1, <2>1
    <3> QED
      BY <1>2, <3>1
  <2> HIDE DEF failed
  <2>4. next \in 1..Len(plan.shared)
    BY <1>1, <2>1
  <2>5. awaited \in Machine /\ awaited.at = [stage |-> "recordShared", index |-> next]
    <3>1. next \in Nat
      BY <2>4
    <3>2. "recordShared" \in Stages
      BY DEF Stages
    <3> QED
      BY <2>3, <3>1, <3>2, AwaitType
  <2> HIDE DEF awaited
  <2>6. PlacedAt(m, next) \in PathOrNone
    BY <2>4, PlacedAtType
  <2>7. entered \in Machine /\ entered.at = awaited.at
    BY <2>5, <2>6 DEF Machine
  <2> HIDE DEF entered
  <2> QED
    BY <2>2, <2>4, <2>5, <2>7
       DEF Sound, IndexInPlan, StageLength, Gated, RemovalStages
<1> QED
  BY <1>3, <1>4, <1>5 DEF Machine

LEMMA StartCopySound ==
  ASSUME plan \in MirrorPlan, NEW m \in Machine,
         NEW k \in 1..Len(plan.transfers)
  PROVE  Sound(StartCopy(m, k))
<1> DEFINE bytes == IF m.transcoded THEN m.transcodedBytes
                    ELSE plan.transfers[k].bytes
           entered == Await(Show(Begin(m, bytes), "copying"), "copy", k)
<1>1. plan.transfers[k] \in Transfer
  BY PlanParts, ElementOfSeq
<1>2. bytes \in Nat
  BY <1>1 DEF Transfer, Machine
<1> HIDE DEF bytes
<1>3. entered \in Machine /\ entered.at = [stage |-> "copy", index |-> k]
  <2>1. "copy" \in Stages /\ "copying" \in Phases
    BY Names
  <2>2. k \in Nat
    BY PlanParts
  <2> QED
    BY <1>2, <2>1, <2>2, EnterType
<1>4. StartCopy(m, k) = entered
  BY DEF StartCopy, bytes
<1> HIDE DEF entered
<1> QED
  BY <1>3, <1>4 DEF Sound, IndexInPlan, StageLength, Gated, RemovalStages

LEMMA EnterTransfersSound ==
  ASSUME plan \in MirrorPlan, NEW m \in Machine, NEW from \in Nat \ {0}
  PROVE  Sound(EnterTransfers(m, from))
<1> DEFINE fresh == [m EXCEPT !.transcoded = FALSE, !.transcodedBytes = 0,
                              !.copiedBytes = 0, !.copiedPath = NoPath]
           entered == Await(Show(Begin(fresh, 0), "transcoding"), "transcode", from)
<1>1. fresh \in Machine
  BY DEF Machine, PathOrNone
<1>2. CASE m.cancelled
  BY <1>2, FinishSound DEF EnterTransfers
<1>3. CASE ~m.cancelled /\ from > Len(plan.transfers)
  BY <1>3, EnterSharedRecordsSound DEF EnterTransfers
<1>4. CASE ~m.cancelled /\ ~(from > Len(plan.transfers))
  <2>1. from \in 1..Len(plan.transfers)
    BY <1>4, PlanParts
  <2>2. EnterTransfers(m, from) \in {entered, StartCopy(fresh, from)}
    BY <1>4 DEF EnterTransfers
  <2> HIDE DEF fresh
  <2>3. entered \in Machine /\ entered.at = [stage |-> "transcode", index |-> from]
    <3>1. "transcode" \in Stages /\ "transcoding" \in Phases
      BY Names
    <3> QED
      BY <1>1, <3>1, EnterType
  <2> HIDE DEF entered
  <2>4. Sound(entered)
    BY <2>1, <2>3 DEF Sound, IndexInPlan, StageLength, Gated, RemovalStages
  <2>5. Sound(StartCopy(fresh, from))
    BY <1>1, <2>1, StartCopySound
  <2> QED
    BY <2>2, <2>4, <2>5
<1> QED
  BY <1>2, <1>3, <1>4 DEF Machine

-----------------------------------------------------------------------------
(* The handlers.                                                           *)

Inv == plan \in MirrorPlan /\ Sound(run)

LEMMA HandleSound ==
  ASSUME plan \in MirrorPlan, NEW m, Sound(m), Handle(m)
  PROVE  Inv'
  BY DEF Handle, Inv, Sound, IndexInPlan, StageLength, Gated, GateOpen,
         PlannedSources

LEMMA RunParts ==
  ASSUME Inv
  PROVE  /\ run \in Machine /\ plan \in MirrorPlan
         /\ run.at.index \in Nat /\ run.at.stage \in Stages
         /\ run.copiedBytes \in Nat /\ run.copiedPath \in PathOrNone
         /\ run.sharedPath \in PathOrNone
         /\ run.published \in SUBSET Source
         /\ run.deferred \in Seq([path : Path, track : Track])
         /\ run.carried \in [Track -> PathOrNone]
  BY DEF Inv, Sound, Machine

LEMMA StartSound ==
  ASSUME Inv, Start
  PROVE  Inv'
<1> DEFINE shown == Show(run, OpeningPhase)
           entered == Await(shown, "partials", 0)
<1>1. OpeningPhase \in Phases
  BY DEF OpeningPhase, Phases
<1>2. shown \in Machine
  BY <1>1, RunParts, ShowType
<1> HIDE DEF shown
<1>3. entered \in Machine /\ entered.at = [stage |-> "partials", index |-> 0]
  <2>1. "partials" \in Stages /\ 0 \in Nat
    BY DEF Stages
  <2> QED
    BY <1>2, <2>1, AwaitType
<1>4. Handle(entered)
  BY DEF Start, shown
<1> HIDE DEF entered
<1>5. Sound(entered)
  BY <1>3 DEF Sound, IndexInPlan, StageLength, Gated, RemovalStages
<1> QED
  BY <1>4, <1>5, RunParts, HandleSound

LEMMA CancelSound ==
  ASSUME Inv, Cancel
  PROVE  Inv'
<1> DEFINE cancelled == [run EXCEPT !.cancelled = TRUE]
<1>1. /\ cancelled \in Machine /\ SameGate(run, cancelled)
      /\ cancelled.at = run.at
  BY RunParts DEF Machine, SameGate
<1>2. Handle(cancelled)
  BY DEF Cancel
<1> HIDE DEF cancelled
<1>3. Sound(cancelled)
  BY <1>1 DEF Inv, Sound, IndexInPlan, StageLength, Gated, GateOpen, SameGate
<1> QED
  BY <1>2, <1>3, RunParts, HandleSound

LEMMA CopyProgressSound ==
  ASSUME Inv, NEW bytes \in Bytes, CopyProgress(bytes)
  PROVE  Inv'
<1> DEFINE observed == [run EXCEPT !.ledger = ObserveUnitBytes(@, bytes)]
<1>1. run.ledger \in Ledger /\ bytes \in Nat
  BY RunParts, BytesAreNatural DEF Machine
<1>2. ObserveUnitBytes(run.ledger, bytes) \in Ledger
  BY <1>1, LedgerTypes
<1>3. /\ observed \in Machine /\ SameGate(run, observed)
      /\ observed.at = run.at
  BY <1>2, RunParts DEF Machine, SameGate
<1>4. Handle(observed)
  BY DEF CopyProgress
<1> HIDE DEF observed
<1>5. Sound(observed)
  BY <1>3 DEF Inv, Sound, IndexInPlan, StageLength, Gated, GateOpen, SameGate
<1> QED
  BY <1>4, <1>5, RunParts, HandleSound

LEMMA PartialsCleanedSound ==
  ASSUME Inv, NEW ok \in BOOLEAN, PartialsCleaned(ok)
  PROVE  Inv'
<1>1. Sound(EnterTransfers(run, 1))
  BY RunParts, EnterTransfersSound
<1>2. Sound(Finish(StopStage(run)))
  BY RunParts, StopStageType, FinishSound
<1> QED
  BY <1>1, <1>2, RunParts, HandleSound DEF PartialsCleaned

\* A handler's index, wherever it stands.
LEMMA NextIndex ==
  ASSUME Inv, run.at.stage \notin {"start", "partials", "writeMetadata", "done"}
  PROVE  Index \in 1..StageLength(run)
  BY DEF Inv, Sound, IndexInPlan, Index

LEMMA FailUnpublishedType ==
  ASSUME plan \in MirrorPlan, NEW m \in Machine,
         NEW k \in 1..Len(plan.transfers)
  PROVE  FailUnpublished(m, k) \in Machine
<1> DEFINE failed == Fail(m, plan.transfers[k].track)
<1>1. plan.transfers[k] \in Transfer
  BY PlanParts, ElementOfSeq
<1>2. plan.transfers[k].track \in Track /\ plan.transfers[k].path \in Path
  BY <1>1 DEF Transfer
<1>3. failed \in Machine
  BY <1>2, FailType
<1> DEFINE absent == failed.absent \cup {plan.transfers[k].path}
<1>4. FailUnpublished(m, k) = [failed EXCEPT !.absent = absent]
  BY DEF FailUnpublished
<1> HIDE DEF failed
<1>5. absent \in SUBSET Path
  BY <1>2, <1>3 DEF Machine
<1> HIDE DEF absent
<1> QED
  BY <1>3, <1>4, <1>5 DEF Machine

LEMMA TranscodedSound ==
  ASSUME Inv, NEW ok \in BOOLEAN, NEW bytes \in Bytes, Transcoded(ok, bytes)
  PROVE  Inv'
<1> DEFINE done == [run EXCEPT !.transcoded = TRUE, !.transcodedBytes = bytes]
           failed == Complete(FailUnpublished(run, Index), 0)
<1>1. Index \in 1..Len(plan.transfers)
  BY NextIndex DEF StageLength, Awaiting, Transcoded
<1>2. done \in Machine
  BY RunParts, BytesAreNatural DEF Machine
<1>3. Sound(StartCopy(done, Index))
  <2> HIDE DEF done
  <2> QED
    BY <1>1, <1>2, RunParts, StartCopySound
<1>4. failed \in Machine
  BY <1>1, RunParts, FailUnpublishedType, CompleteType
<1>5. Index + 1 \in Nat \ {0}
  BY <1>1, RunParts, PlanParts
<1>6. Sound(EnterTransfers(failed, Index + 1))
  <2> HIDE DEF failed
  <2> QED
    BY <1>4, <1>5, RunParts, EnterTransfersSound
<1>7. Handle(StartCopy(done, Index)) \/ Handle(EnterTransfers(failed, Index + 1))
  BY DEF Transcoded
<1> QED
  BY <1>3, <1>6, <1>7, RunParts, HandleSound

LEMMA TrackCopiedSound ==
  ASSUME Inv, NEW ok \in BOOLEAN, NEW bytes \in Bytes, NEW path \in Path,
         TrackCopied(ok, bytes, path)
  PROVE  Inv'
<1> DEFINE copied == [run EXCEPT !.copiedBytes = bytes, !.copiedPath = path]
           entered == Await(copied, "recordFile", Index)
           failed == IF run.cancelled THEN run ELSE FailUnpublished(run, Index)
<1>1. Index \in 1..Len(plan.transfers)
  BY NextIndex DEF StageLength, Awaiting, TrackCopied
<1>2. Index \in Nat /\ Index + 1 \in Nat \ {0}
  BY <1>1, RunParts, PlanParts
<1>3. Sound(entered)
  <2>1. copied \in Machine
    BY RunParts, BytesAreNatural DEF Machine, PathOrNone
  <2> HIDE DEF copied
  <2>2. entered \in Machine /\ entered.at = [stage |-> "recordFile", index |-> Index]
    <3>1. "recordFile" \in Stages
      BY DEF Stages
    <3> QED
      BY <1>2, <2>1, <3>1, AwaitType
  <2> HIDE DEF entered
  <2> QED
    BY <1>1, <2>2 DEF Sound, IndexInPlan, StageLength, Gated, RemovalStages
<1>4. Sound(EnterTransfers(Complete(failed, 0), Index + 1))
  <2>1. failed \in Machine
    BY <1>1, RunParts, FailUnpublishedType
  <2> HIDE DEF failed
  <2>2. Complete(failed, 0) \in Machine
    BY <2>1, CompleteType
  <2> QED
    BY <1>2, <2>2, RunParts, EnterTransfersSound
<1>5. Handle(entered) \/ Handle(EnterTransfers(Complete(failed, 0), Index + 1))
  BY DEF TrackCopied
<1> QED
  BY <1>3, <1>4, <1>5, RunParts, HandleSound

LEMMA DeferType ==
  ASSUME NEW m \in Machine, NEW path \in Path, NEW track \in Track
  PROVE  Defer(m, path, track) \in Machine
<1> DEFINE entry == [path |-> path, track |-> track]
           queue == Append(m.deferred, entry)
<1>1. m.deferred \in Seq([path : Path, track : Track])
  BY DEF Machine
<1>2. queue \in Seq([path : Path, track : Track])
  BY <1>1, AppendProperties
<1>3. Defer(m, path, track) = [m EXCEPT !.deferred = queue]
  BY DEF Defer
<1> HIDE DEF queue
<1> QED
  BY <1>2, <1>3 DEF Machine

LEMMA RecordedType ==
  ASSUME plan \in MirrorPlan, NEW m \in Machine,
         NEW k \in 1..Len(plan.transfers)
  PROVE  Recorded(m, k) \in Machine
<1> DEFINE transfer == plan.transfers[k]
           moved == transfer.previous # NoPath /\ transfer.previous # m.copiedPath
           kept == IF moved THEN Defer(m, transfer.previous, transfer.track) ELSE m
<1>1. transfer \in Transfer
  BY PlanParts, ElementOfSeq
<1>2. transfer.track \in Track /\ transfer.previous \in PathOrNone
  BY <1>1 DEF Transfer
<1>3. kept \in Machine
  BY <1>2, DeferType DEF PathOrNone
<1>4. m.copiedPath \in PathOrNone
  BY DEF Machine
<1> DEFINE carried == [kept.carried EXCEPT ![transfer.track] = m.copiedPath]
<1>5. Recorded(m, k) = [kept EXCEPT !.carried = carried]
  BY DEF Recorded
<1> HIDE DEF kept, transfer
<1>6. carried \in [Track -> PathOrNone]
  <2>1. kept.carried \in [Track -> PathOrNone]
    BY <1>3 DEF Machine
  <2> QED
    BY <1>2, <1>4, <2>1
<1> HIDE DEF carried
<1> QED
  BY <1>3, <1>5, <1>6 DEF Machine

LEMMA FileRecordedSound ==
  ASSUME Inv, NEW ok \in BOOLEAN, FileRecorded(ok)
  PROVE  Inv'
<1> DEFINE recorded == IF ok THEN Recorded(run, Index)
                       ELSE Fail(run, plan.transfers[Index].track)
           settled == [recorded EXCEPT !.copiedPath = NoPath, !.copiedBytes = 0]
           completed == Complete(settled, run.copiedBytes)
<1>1. Index \in 1..Len(plan.transfers)
  BY NextIndex DEF StageLength, Awaiting, FileRecorded
<1>2. recorded \in Machine
  <2>1. plan.transfers[Index] \in Transfer
    BY <1>1, RunParts, PlanParts, ElementOfSeq
  <2>2. plan.transfers[Index].track \in Track
    BY <2>1 DEF Transfer
  <2> QED
    BY <1>1, <2>2, RunParts, RecordedType, FailType
<1> HIDE DEF recorded
<1>3. settled \in Machine
  BY <1>2 DEF Machine, PathOrNone
<1> HIDE DEF settled
<1>4. completed \in Machine
  BY <1>3, RunParts, CompleteType
<1>5. Handle(EnterTransfers(completed, Index + 1))
  BY DEF FileRecorded, settled, recorded
<1> HIDE DEF completed
<1>6. Index + 1 \in Nat \ {0}
  BY <1>1, RunParts, PlanParts
<1> QED
  BY <1>4, <1>5, <1>6, RunParts, EnterTransfersSound, HandleSound

LEMMA SharedFileRecordedSound ==
  ASSUME Inv, NEW ok \in BOOLEAN, SharedFileRecorded(ok)
  PROVE  Inv'
<1> DEFINE recorded == IF ok THEN DeferSharedPrevious(run, Index)
                       ELSE Fail(run, plan.shared[Index].track)
           settled == [recorded EXCEPT !.sharedPath = NoPath]
<1>1. Index \in 1..Len(plan.shared)
  BY NextIndex DEF StageLength, Awaiting, SharedFileRecorded
<1>2. recorded \in Machine
  <2>1. plan.shared[Index] \in SharedRecord
    BY <1>1, RunParts, PlanParts, ElementOfSeq
  <2>2. /\ plan.shared[Index].track \in Track
        /\ plan.shared[Index].previous \in PathOrNone
    BY <2>1 DEF SharedRecord
  <2>3. DeferSharedPrevious(run, Index) \in Machine
    BY <2>2, RunParts, DeferType DEF DeferSharedPrevious, PathOrNone
  <2> QED
    BY <2>2, <2>3, RunParts, FailType
<1> HIDE DEF recorded
<1>3. settled \in Machine
  BY <1>2 DEF Machine, PathOrNone
<1>4. Handle(EnterSharedRecords(settled, Index + 1))
  BY DEF SharedFileRecorded, recorded
<1> HIDE DEF settled
<1>5. Index + 1 \in Nat \ {0}
  BY <1>1, RunParts, PlanParts
<1> QED
  BY <1>3, <1>4, <1>5, RunParts, EnterSharedRecordsSound, HandleSound

LEMMA AnalysisWrittenSound ==
  ASSUME Inv, NEW ok \in BOOLEAN, NEW bytes \in Bytes, AnalysisWritten(ok, bytes)
  PROVE  Inv'
<1> DEFINE written == IF ok THEN Complete(run, bytes)
                      ELSE Complete(StopStage(run), 0)
<1>1. Index \in 1..Len(plan.analysis)
  BY NextIndex DEF StageLength, Awaiting, AnalysisWritten
<1>2. Index + 1 \in Nat \ {0} /\ Index + 1 \in 1..(Len(plan.analysis) + 1)
  BY <1>1, RunParts, PlanParts
<1>3. written \in Machine
  BY RunParts, BytesAreNatural, StopStageType, CompleteType
<1>4. Handle(EnterAnalysisWrites(written, Index + 1))
  BY DEF AnalysisWritten
<1> HIDE DEF written
<1> QED
  BY <1>2, <1>3, <1>4, RunParts, EnterAnalysisWritesSound, HandleSound

LEMMA DerivedCueWrittenSound ==
  ASSUME Inv, NEW ok \in BOOLEAN, NEW bytes \in Bytes, DerivedCueWritten(ok, bytes)
  PROVE  Inv'
<1> DEFINE written == IF ok THEN Complete(run, bytes)
                      ELSE Complete(Fail(run, plan.cues[Index].track), 0)
<1>1. Index \in 1..Len(plan.cues)
  BY NextIndex DEF StageLength, Awaiting, DerivedCueWritten
<1>2. Index + 1 \in Nat \ {0} /\ Index + 1 \in 1..(Len(plan.cues) + 1)
  BY <1>1, RunParts, PlanParts
<1>3. written \in Machine
  <2>1. plan.cues[Index] \in CueWrite
    BY <1>1, RunParts, PlanParts, ElementOfSeq
  <2>2. plan.cues[Index].track \in Track
    BY <2>1 DEF CueWrite
  <2>3. Fail(run, plan.cues[Index].track) \in Machine
    BY <2>2, RunParts, FailType
  <2> QED
    BY <2>3, RunParts, BytesAreNatural, CompleteType
<1>4. Handle(EnterCueWrites(written, Index + 1))
  BY DEF DerivedCueWritten
<1> HIDE DEF written
<1> QED
  BY <1>2, <1>3, <1>4, RunParts, EnterCueWritesSound, HandleSound

LEMMA LyricsWrittenSound ==
  ASSUME Inv, NEW ok \in BOOLEAN, NEW bytes \in Bytes, LyricsWritten(ok, bytes)
  PROVE  Inv'
<1> DEFINE written == IF ok THEN Complete(run, bytes)
                      ELSE Complete(StopStage(run), 0)
<1>1. Index \in 1..Len(plan.lyrics)
  BY NextIndex DEF StageLength, Awaiting, LyricsWritten
<1>2. Index + 1 \in Nat \ {0} /\ Index + 1 \in 1..(Len(plan.lyrics) + 1)
  BY <1>1, RunParts, PlanParts
<1>3. written \in Machine
  BY RunParts, BytesAreNatural, StopStageType, CompleteType
<1>4. Handle(EnterLyricsWrites(written, Index + 1))
  BY DEF LyricsWritten
<1> HIDE DEF written
<1> QED
  BY <1>2, <1>3, <1>4, RunParts, EnterLyricsWritesSound, HandleSound

\* A handler that stays with its entry for the second half of the unit.
LEMMA SecondHalfSound ==
  ASSUME Inv, NEW stage \in {"recordList", "forgetList", "forgetFile"},
         Index \in Nat, Index \in 1..StageLength([at |-> [stage |-> stage]]),
         stage = "forgetFile" => GateOpen(run)
  PROVE  Sound(Await(run, stage, Index))
<1> DEFINE entered == Await(run, stage, Index)
<1>1. stage \in Stages
  BY DEF Stages
<1>2. /\ entered \in Machine /\ SameGate(run, entered)
      /\ entered.at = [stage |-> stage, index |-> Index]
  BY <1>1, RunParts, AwaitType
<1> HIDE DEF entered
<1>3. IndexInPlan(entered)
  BY <1>2 DEF IndexInPlan, StageLength
<1>4. Gated(entered)
  BY <1>2 DEF Gated, GateOpen, RemovalStages, SameGate
<1> QED
  BY <1>2, <1>3, <1>4 DEF Sound, entered

LEMMA PlaylistWrittenSound ==
  ASSUME Inv, NEW ok \in BOOLEAN, PlaylistWritten(ok)
  PROVE  Inv'
<1> DEFINE failed == Complete(FailPlaylist(run), 0)
<1>1. Index \in 1..Len(plan.lists)
  BY NextIndex DEF StageLength, Awaiting, PlaylistWritten
<1>2. Index \in Nat /\ Index + 1 \in Nat \ {0}
  BY <1>1, RunParts, PlanParts
<1>3. Sound(Await(run, "recordList", Index))
  BY <1>1, <1>2, SecondHalfSound DEF StageLength
<1>4. failed \in Machine
  BY RunParts, FailPlaylistType, CompleteType
<1>5. \/ Handle(Await(run, "recordList", Index))
      \/ Handle(EnterPlaylistWrites(failed, Index + 1))
  BY DEF PlaylistWritten
<1> HIDE DEF failed
<1>6. Sound(EnterPlaylistWrites(failed, Index + 1))
  BY <1>2, <1>4, RunParts, EnterPlaylistWritesSound
<1> QED
  BY <1>3, <1>5, <1>6, RunParts, HandleSound

LEMMA PlaylistRecordedSound ==
  ASSUME Inv, NEW ok \in BOOLEAN, PlaylistRecorded(ok)
  PROVE  Inv'
<1> DEFINE published == run.published \cup {plan.lists[Index].source}
           recorded == IF ok THEN [run EXCEPT !.published = published]
                       ELSE FailPlaylist(run)
           completed == Complete(recorded, 0)
<1>1. Index \in 1..Len(plan.lists)
  BY NextIndex DEF StageLength, Awaiting, PlaylistRecorded
<1>2. Index + 1 \in Nat \ {0}
  BY <1>1, RunParts, PlanParts
<1>3. published \in SUBSET Source
  <2>1. plan.lists[Index] \in ListWrite
    BY <1>1, RunParts, PlanParts, ElementOfSeq
  <2>2. plan.lists[Index].source \in Source
    BY <2>1 DEF ListWrite
  <2> QED
    BY <2>2, RunParts
<1>4. Handle(EnterPlaylistWrites(completed, Index + 1))
  BY DEF PlaylistRecorded
<1> HIDE DEF published
<1>5. recorded \in Machine
  <2>1. [run EXCEPT !.published = published] \in Machine
    BY <1>3, RunParts DEF Machine
  <2> QED
    BY <2>1, RunParts, FailPlaylistType
<1> HIDE DEF recorded
<1>6. completed \in Machine
  BY <1>5, CompleteType
<1> HIDE DEF completed
<1> QED
  BY <1>2, <1>4, <1>6, RunParts, EnterPlaylistWritesSound, HandleSound

LEMMA PlaylistRemovedSound ==
  ASSUME Inv, NEW ok \in BOOLEAN, PlaylistRemoved(ok)
  PROVE  Inv'
<1> DEFINE stale == [run EXCEPT !.staleList = TRUE]
           failed == Complete(FailPlaylist(stale), 0)
           removed == Complete(run, 0)
<1>1. Index \in 1..Len(plan.listRemovals)
  BY NextIndex DEF StageLength, Awaiting, PlaylistRemoved
<1>2. Index \in Nat /\ Index + 1 \in 1..(Len(plan.listRemovals) + 1)
  BY <1>1, RunParts, PlanParts
<1>3. stale \in Machine
  BY RunParts DEF Machine
<1>4. \/ Handle(EnterPlaylistRemovals(failed, Index + 1))
      \/ Handle(EnterPlaylistRemovals(removed, Index + 1))
      \/ Handle(Await(run, "forgetList", Index))
  BY DEF PlaylistRemoved
<1> HIDE DEF stale
<1>5. failed \in Machine /\ removed \in Machine
  BY <1>3, RunParts, FailPlaylistType, CompleteType
<1> HIDE DEF failed, removed
<1>6. /\ Sound(EnterPlaylistRemovals(failed, Index + 1))
      /\ Sound(EnterPlaylistRemovals(removed, Index + 1))
  BY <1>2, <1>5, RunParts, EnterPlaylistRemovalsSound
<1>7. Sound(Await(run, "forgetList", Index))
  BY <1>1, <1>2, SecondHalfSound DEF StageLength
<1> QED
  BY <1>4, <1>6, <1>7, RunParts, HandleSound

LEMMA PlaylistForgottenSound ==
  ASSUME Inv, NEW ok \in BOOLEAN, PlaylistForgotten(ok)
  PROVE  Inv'
<1> DEFINE forgotten == Complete(IF ok THEN run ELSE FailPlaylist(run), 0)
<1>1. Index \in 1..Len(plan.listRemovals)
  BY NextIndex DEF StageLength, Awaiting, PlaylistForgotten
<1>2. Index + 1 \in 1..(Len(plan.listRemovals) + 1)
  BY <1>1, RunParts, PlanParts
<1>3. forgotten \in Machine
  BY RunParts, FailPlaylistType, CompleteType
<1>4. Handle(EnterPlaylistRemovals(forgotten, Index + 1))
  BY DEF PlaylistForgotten
<1> HIDE DEF forgotten
<1> QED
  BY <1>2, <1>3, <1>4, RunParts, EnterPlaylistRemovalsSound, HandleSound

\* The track a removal is filed under, the sentinel of an orphan included.
LEMMA RemovalTrack ==
  ASSUME plan \in MirrorPlan, NEW k \in 1..Len(plan.removals)
  PROVE  plan.removals[k].track \in Track \cup {Unattributed}
<1>1. plan.removals[k] \in Removal
  BY PlanParts, ElementOfSeq
<1> QED
  BY <1>1 DEF Removal

LEMMA TrackRemovedSound ==
  ASSUME Inv, NEW ok \in BOOLEAN, TrackRemoved(ok)
  PROVE  Inv'
<1> DEFINE blamed == Fail(run, plan.removals[Index].track)
           failed == Complete(blamed, 0)
           removed == Complete(run, 0)
<1>1. Index \in 1..Len(plan.removals)
  BY NextIndex DEF StageLength, Awaiting, TrackRemoved
<1>2. Index \in Nat /\ Index + 1 \in Nat \ {0}
  BY <1>1, RunParts, PlanParts
<1>3. GateOpen(run)
  BY DEF Inv, Sound, Gated, RemovalStages, Awaiting, TrackRemoved
<1>4. \/ Handle(EnterRemovals(failed, Index + 1))
      \/ Handle(EnterRemovals(removed, Index + 1))
      \/ Handle(Await(run, "forgetFile", Index))
  BY DEF TrackRemoved
<1>5. blamed \in Machine /\ SameGate(run, blamed)
  BY <1>1, RunParts, RemovalTrack, FailType
<1> HIDE DEF blamed
<1>6. /\ failed \in Machine /\ SameGate(blamed, failed)
      /\ removed \in Machine /\ SameGate(run, removed)
  BY <1>5, RunParts, CompleteType
<1> HIDE DEF failed, removed
<1>7. GateOpen(failed) /\ GateOpen(removed)
  BY <1>3, <1>5, <1>6 DEF GateOpen, SameGate
<1>8. /\ Sound(EnterRemovals(failed, Index + 1))
      /\ Sound(EnterRemovals(removed, Index + 1))
  BY <1>2, <1>6, <1>7, RunParts, EnterRemovalsSound
<1>9. Sound(Await(run, "forgetFile", Index))
  BY <1>1, <1>2, <1>3, SecondHalfSound DEF StageLength
<1> QED
  BY <1>4, <1>8, <1>9, RunParts, HandleSound

LEMMA FileForgottenSound ==
  ASSUME Inv, NEW ok \in BOOLEAN, FileForgotten(ok)
  PROVE  Inv'
<1> DEFINE blamed == IF ok THEN run ELSE Fail(run, plan.removals[Index].track)
           forgotten == Complete(blamed, 0)
<1>1. Index \in 1..Len(plan.removals)
  BY NextIndex DEF StageLength, Awaiting, FileForgotten
<1>2. Index + 1 \in Nat \ {0}
  BY <1>1, RunParts, PlanParts
<1>3. GateOpen(run)
  BY DEF Inv, Sound, Gated, RemovalStages, Awaiting, FileForgotten
<1>4. blamed \in Machine /\ SameGate(run, blamed)
  BY <1>1, RunParts, RemovalTrack, FailType DEF SameGate
<1>5. Handle(EnterRemovals(forgotten, Index + 1))
  BY DEF FileForgotten
<1> HIDE DEF blamed
<1>6. forgotten \in Machine /\ SameGate(blamed, forgotten)
  BY <1>4, CompleteType
<1> HIDE DEF forgotten
<1>7. GateOpen(forgotten)
  BY <1>3, <1>4, <1>6 DEF GateOpen, SameGate
<1> QED
  BY <1>2, <1>5, <1>6, <1>7, RunParts, EnterRemovalsSound, HandleSound

LEMMA ReplacedFileRemovedSound ==
  ASSUME Inv, NEW ok \in BOOLEAN, ReplacedFileRemoved(ok)
  PROVE  Inv'
<1> DEFINE removed == IF ok THEN run ELSE Fail(run, run.deferred[Index].track)
<1>1. Index \in 1..Len(run.deferred)
  BY NextIndex DEF StageLength, Awaiting, ReplacedFileRemoved
<1>2. Index + 1 \in Nat \ {0}
  BY <1>1, RunParts
<1>3. GateOpen(run)
  BY DEF Inv, Sound, Gated, RemovalStages, Awaiting, ReplacedFileRemoved
<1>4. run.deferred[Index] \in [path : Path, track : Track]
  BY <1>1, RunParts, ElementOfSeq
<1>5. run.deferred[Index].track \in Track \cup {Unattributed}
  BY <1>4
<1>6. removed \in Machine /\ SameGate(run, removed)
  BY <1>5, RunParts, FailType DEF SameGate
<1>7. Handle(EnterDeferredRemovals(removed, Index + 1))
  BY DEF ReplacedFileRemoved
<1> HIDE DEF removed
<1>8. GateOpen(removed)
  BY <1>3, <1>6 DEF GateOpen, SameGate
<1> QED
  BY <1>2, <1>6, <1>7, <1>8, RunParts, EnterDeferredRemovalsSound, HandleSound

LEMMA TrackMetadataListWrittenSound ==
  ASSUME Inv, NEW ok \in BOOLEAN, TrackMetadataListWritten(ok)
  PROVE  Inv'
<1> DEFINE written == Complete(IF ok THEN run ELSE StopStage(run), 0)
<1>1. written \in Machine
  BY RunParts, StopStageType, CompleteType
<1>2. Handle(Finish(written))
  BY DEF TrackMetadataListWritten
<1> HIDE DEF written
<1> QED
  BY <1>1, <1>2, RunParts, FinishSound, HandleSound

-----------------------------------------------------------------------------
(* The theorems.                                                           *)

\* A machine that is about to start on its plan.
NewRun ==
  plan \in MirrorPlan /\ \E metadata \in BOOLEAN : run = NewMachine(plan, metadata)

LEMMA NewRunSound == NewRun => Inv
<1> SUFFICES ASSUME NewRun PROVE Inv
  OBVIOUS
<1>1. PICK metadata \in BOOLEAN : run = NewMachine(plan, metadata)
  BY DEF NewRun
<1>2. plan \in MirrorPlan
  BY DEF NewRun
<1>3. NewLedger(WorkUnits(plan, metadata), plan.bytes) \in Ledger
  <2>1. plan.bytes \in Nat
    BY <1>1, <1>2 DEF MirrorPlan
  <2>2. WorkUnits(plan, metadata) \in Nat
    <3> DEFINE files == Len(plan.transfers)
               analyses == Len(plan.analysis)
               texts == Len(plan.lyrics)
               sheets == Len(plan.cues)
               lists == Len(plan.lists)
               oldLists == Len(plan.listRemovals)
               oldFiles == Len(plan.removals)
               list == IF metadata THEN 1 ELSE 0
    <3>1. /\ files \in Nat /\ analyses \in Nat /\ texts \in Nat /\ sheets \in Nat
          /\ lists \in Nat /\ oldLists \in Nat /\ oldFiles \in Nat
      BY <1>1, <1>2, PlanParts, LenProperties
    <3>2. list \in Nat
      OBVIOUS
    <3>3. WorkUnits(plan, metadata)
            = files + analyses + texts + sheets + lists + oldLists + oldFiles + list
      BY DEF WorkUnits
    <3> HIDE DEF files, analyses, texts, sheets, lists, oldLists, oldFiles, list
    <3> QED
      BY <3>1, <3>2, <3>3
  <2> QED
    BY <2>1, <2>2 DEF Ledger, NewLedger
<1>4. run \in Machine
  <2> DEFINE ledger == NewLedger(WorkUnits(plan, metadata), plan.bytes)
  <2>1. /\ "start" \in Stages /\ "idle" \in Phases /\ "none" \in Outcomes
        /\ <<>> \in Seq([path : Path, track : Track])
        /\ [t \in Track |-> NoPath] \in [Track -> PathOrNone]
    BY DEF Stages, Phases, Outcomes, PathOrNone
  <2> HIDE DEF ledger
  <2> QED
    BY <1>1, <1>3, <2>1 DEF Machine, NewMachine, PathOrNone, ledger
<1>5. run.at = [stage |-> "start", index |-> 0]
  BY <1>1 DEF NewMachine
<1> QED
  BY <1>2, <1>4, <1>5 DEF Inv, Sound, IndexInPlan, Gated, RemovalStages

LEMMA InitSound ==
  ASSUME Init
  PROVE  Inv
<1>1. NewRun
  BY PlansAreMirrorPlans DEF Init, NewRun
<1> QED
  BY <1>1, NewRunSound

LEMMA StepSound ==
  ASSUME Inv, [Next]_machineVars
  PROVE  Inv'
<1>1. CASE Next
  <2>1. CASE Start
    BY <2>1, StartSound
  <2>2. CASE Cancel
    BY <2>2, CancelSound
  <2>3. CASE \E bytes \in Bytes : CopyProgress(bytes)
    BY <2>3, CopyProgressSound
  <2>4. CASE Answer
    <3> SUFFICES ASSUME NEW ok \in BOOLEAN,
                   \/ PartialsCleaned(ok) \/ FileRecorded(ok) \/ SharedFileRecorded(ok)
                   \/ PlaylistWritten(ok) \/ PlaylistRecorded(ok)
                   \/ PlaylistRemoved(ok) \/ PlaylistForgotten(ok)
                   \/ TrackRemoved(ok) \/ FileForgotten(ok)
                   \/ ReplacedFileRemoved(ok) \/ TrackMetadataListWritten(ok)
                   \/ \E bytes \in Bytes :
                        \/ Transcoded(ok, bytes)
                        \/ AnalysisWritten(ok, bytes)
                        \/ DerivedCueWritten(ok, bytes)
                        \/ LyricsWritten(ok, bytes)
                        \/ \E path \in Path : TrackCopied(ok, bytes, path)
                 PROVE  Inv'
      BY <2>4 DEF Answer
    <3> QED
      BY PartialsCleanedSound, FileRecordedSound, SharedFileRecordedSound,
         PlaylistWrittenSound, PlaylistRecordedSound, PlaylistRemovedSound,
         PlaylistForgottenSound, TrackRemovedSound, FileForgottenSound,
         ReplacedFileRemovedSound, TrackMetadataListWrittenSound,
         TranscodedSound, AnalysisWrittenSound, DerivedCueWrittenSound,
         LyricsWrittenSound, TrackCopiedSound
  <2> QED
    BY <1>1, <2>1, <2>2, <2>3, <2>4 DEF Next
<1>2. CASE UNCHANGED machineVars
  BY <1>2 DEF machineVars, Inv, Sound, IndexInPlan, StageLength, Gated, GateOpen,
              PlannedSources
<1> QED
  BY <1>1, <1>2

LEMMA InvAlways == Spec => []Inv
  BY InitSound, StepSound, PTL DEF Spec

\* The reducer's state is well typed and its index always points into the list
\* of its stage, for every plan and every sequence of answers: no arm of
\* dispatch (machine.rs:181-407) indexes a plan out of bounds.
THEOREM TypeCorrect == Spec => []TypeOK
<1>1. Inv => TypeOK
  BY DEF Inv, Sound, TypeOK
<1> QED
  BY <1>1, InvAlways, PTL

\* Nothing is deleted from the device, in either removal stage, unless this run
\* rewrote and recorded every planned playlist and left no obsolete one behind
\* (the gate of machine.rs:554-578), for every plan and every sequence of answers.
THEOREM RemovalsGated == Spec => []RemovalsWaitForPlaylists
<1>1. Inv => RemovalsWaitForPlaylists
  BY DEF Inv, Sound, Gated, GateOpen, RemovalStages, RemovalsWaitForPlaylists
<1> QED
  BY <1>1, InvAlways, PTL

-----------------------------------------------------------------------------
(* What is left of a run: the units of the stages that follow one another. *)

MetadataUnits(metadata) == IF metadata THEN 1 ELSE 0
RemovalUnits(metadata) == Len(plan.removals) + MetadataUnits(metadata)
ListRemovalUnits(metadata) == Len(plan.listRemovals) + RemovalUnits(metadata)
ListUnits(metadata) == Len(plan.lists) + ListRemovalUnits(metadata)
LyricsUnits(metadata) == Len(plan.lyrics) + ListUnits(metadata)
CueUnits(metadata) == Len(plan.cues) + LyricsUnits(metadata)
AnalysisUnits(metadata) == Len(plan.analysis) + CueUnits(metadata)
TransferUnits(metadata) == Len(plan.transfers) + AnalysisUnits(metadata)

Opened == {"start", "partials"}
TransferStages == {"transcode", "copy", "recordFile"}
SidecarStages == {"writeAnalysis", "writeCue", "writeLyrics"}
ListStages == {"writeList", "recordList"}

\* The units a run in this stage, at this index, has not completed.
UnitsLeft(at, metadata) ==
  CASE at.stage \in Opened -> TransferUnits(metadata)
    [] at.stage \in TransferStages ->
         Len(plan.transfers) + 1 - at.index + AnalysisUnits(metadata)
    [] at.stage = "recordShared" -> AnalysisUnits(metadata)
    [] at.stage = "writeAnalysis" ->
         Len(plan.analysis) + 1 - at.index + CueUnits(metadata)
    [] at.stage = "writeCue" ->
         Len(plan.cues) + 1 - at.index + LyricsUnits(metadata)
    [] at.stage = "writeLyrics" ->
         Len(plan.lyrics) + 1 - at.index + ListUnits(metadata)
    [] at.stage \in ListStages ->
         Len(plan.lists) + 1 - at.index + ListRemovalUnits(metadata)
    [] at.stage \in {"removeList", "forgetList"} ->
         Len(plan.listRemovals) + 1 - at.index + RemovalUnits(metadata)
    [] at.stage \in {"removeTrack", "forgetFile"} ->
         Len(plan.removals) + 1 - at.index + MetadataUnits(metadata)
    [] OTHER -> MetadataUnits(metadata)

\* The entries of the plan that a run in this stage, at this index, has behind it.
TransfersBehind(at) ==
  CASE at.stage \in Opened -> 0
    [] at.stage \in TransferStages -> at.index - 1
    [] OTHER -> Len(plan.transfers)

SharedBehind(at) ==
  CASE at.stage \in Opened \cup TransferStages -> 0
    [] at.stage = "recordShared" -> at.index
    [] OTHER -> Len(plan.shared)

ListsBehind(at) ==
  CASE at.stage \in Opened \cup TransferStages \cup {"recordShared"} \cup SidecarStages -> 0
    [] at.stage \in ListStages -> at.index - 1
    [] OTHER -> Len(plan.lists)

Counted(m, units) == m.ledger.done + units = m.ledger.total

Unfailed(m) == m.failures = {} /\ ~m.cancelled

\* A run without a failure and not cancelled did what it has behind it.
Reached(m, transfers, shared, lists) ==
  Unfailed(m) =>
    /\ \A k \in 1..transfers : m.carried[plan.transfers[k].track] # NoPath
    /\ \A k \in 1..shared : PlacedAt(m, k) # NoPath
    /\ \A k \in 1..lists : plan.lists[k].source \in m.published

Everything(m) ==
  /\ m.ledger.done = m.ledger.total
  /\ \A k \in DOMAIN plan.transfers : m.carried[plan.transfers[k].track] # NoPath
  /\ \A k \in DOMAIN plan.shared : PlacedAt(m, k) # NoPath
  /\ m.published = PlannedSources
  /\ m.absent = {} /\ ~m.staleList

\* Every loss is also a failure.
Blamed(m) ==
  /\ m.published \subseteq PlannedSources
  /\ m.failures = {} => m.absent = {} /\ ~m.staleList

LedgerCapped(ledger) == ledger.done <= ledger.total /\ ledger.bytes <= ledger.bytesTotal

\* Only transfers behind the run have told where their file went.
CarriedWithin(m, transfers) ==
  \A t \in Track : m.carried[t] # NoPath =>
    \E j \in 1..transfers : plan.transfers[j].track = t

\* What the reducer's state says of its run, at every stage.
Accounted(m) ==
  /\ LedgerCapped(m.ledger)
  /\ m.at.stage \notin {"copy", "recordFile"} \cup SidecarStages => m.ledger.unit = 0
  /\ m.at.stage = "recordFile" => m.copiedPath # NoPath
  /\ CarriedWithin(m, TransfersBehind(m.at))
  /\ IF m.at.stage = "done"
     THEN m.outcome = "completed" => Everything(m)
     ELSE /\ m.outcome = "none"
          /\ Blamed(m)
          /\ Counted(m, UnitsLeft(m.at, m.metadata))
          /\ Reached(m, TransfersBehind(m.at), SharedBehind(m.at), ListsBehind(m.at))

\* Between two stages: no unit is open, and this much of the plan is settled.
Settled(m, transfers, shared, lists, units) ==
  /\ m \in Machine
  /\ m.outcome = "none"
  /\ Blamed(m)
  /\ LedgerCapped(m.ledger) /\ m.ledger.unit = 0
  /\ CarriedWithin(m, transfers)
  /\ Counted(m, units)
  /\ Reached(m, transfers, shared, lists)

\* What the user sees of a run's progress does not go back.
Onward(earlier, later) ==
  /\ later.done >= earlier.done
  /\ later.total = earlier.total /\ later.bytesTotal = earlier.bytesTotal
  /\ BytesDone(later) >= BytesDone(earlier)

\* What entering a stage leaves alone.
Frame(m, n) ==
  /\ n.cancelled = m.cancelled /\ n.failures = m.failures
  /\ n.terminalError = m.terminalError
  /\ n.absent = m.absent /\ n.metadata = m.metadata
  /\ n.deferred = m.deferred /\ n.carried = m.carried
  /\ n.published = m.published /\ n.staleList = m.staleList
  /\ n.outcome = m.outcome

SameLedger(m, n) ==
  /\ n.ledger.done = m.ledger.done /\ n.ledger.total = m.ledger.total
  /\ n.ledger.bytes = m.ledger.bytes /\ n.ledger.bytesTotal = m.ledger.bytesTotal

\* What entering a stage with `m` makes of it.
Leads(m, n) ==
  /\ Accounted(n)
  /\ n.at.stage \notin Opened
  /\ n.carried = m.carried /\ n.deferred = m.deferred
  /\ Onward(m.ledger, n.ledger)

-----------------------------------------------------------------------------
(* The steps the handlers are made of.                                     *)

LEMMA MachineParts ==
  ASSUME NEW m \in Machine
  PROVE  /\ m.ledger \in Ledger /\ m.cancelled \in BOOLEAN
         /\ m.terminalError \in BOOLEAN /\ m.staleList \in BOOLEAN
         /\ m.metadata \in BOOLEAN
         /\ m.failures \in SUBSET (Track \cup {Unattributed})
         /\ m.absent \in SUBSET Path /\ m.published \in SUBSET Source
         /\ m.carried \in [Track -> PathOrNone]
         /\ m.deferred \in Seq([path : Path, track : Track])
         /\ m.at.stage \in Stages /\ m.at.index \in Nat
         /\ m.at = [stage |-> m.at.stage, index |-> m.at.index]
  BY DEF Machine

LEMMA FrameTransitive ==
  ASSUME NEW m, NEW n, NEW o, Frame(m, n), Frame(n, o)
  PROVE  Frame(m, o)
  BY DEF Frame

LEMMA AwaitFrame ==
  ASSUME NEW m \in Machine, NEW stage \in Stages, NEW index \in Nat
  PROVE  /\ Frame(m, Await(m, stage, index))
         /\ Await(m, stage, index).ledger = m.ledger
  BY DEF Machine, Await, Frame

LEMMA ShowFrame ==
  ASSUME NEW m \in Machine, NEW phase \in Phases
  PROVE  Frame(m, Show(m, phase)) /\ Show(m, phase).ledger = m.ledger
  BY DEF Machine, Show, Frame

LEMMA BeginFrame ==
  ASSUME NEW m \in Machine, NEW bytes \in Nat
  PROVE  /\ Frame(m, Begin(m, bytes)) /\ SameLedger(m, Begin(m, bytes))
         /\ Begin(m, bytes).ledger.unit = 0
<1> DEFINE ledger == BeginUnit(m.ledger, bytes)
<1>1. ledger \in Ledger /\ m.ledger \in Ledger
  BY MachineParts, LedgerTypes
<1>2. /\ ledger.done = m.ledger.done /\ ledger.total = m.ledger.total
      /\ ledger.bytes = m.ledger.bytes /\ ledger.bytesTotal = m.ledger.bytesTotal
      /\ ledger.unit = 0
  BY <1>1 DEF Ledger, BeginUnit
<1>3. Begin(m, bytes) = [m EXCEPT !.ledger = ledger]
  BY DEF Begin
<1> HIDE DEF ledger
<1>4. Frame(m, Begin(m, bytes)) /\ Begin(m, bytes).ledger = ledger
  BY <1>3 DEF Machine, Frame
<1> QED
  BY <1>2, <1>4 DEF SameLedger

\* The machine a stage is entered with.
LEMMA EnterFrame ==
  ASSUME NEW m \in Machine, NEW bytes \in Nat, NEW phase \in Phases,
         NEW stage \in Stages, NEW index \in Nat
  PROVE  LET entered == Await(Show(Begin(m, bytes), phase), stage, index)
         IN  /\ Frame(m, entered) /\ SameLedger(m, entered)
             /\ entered.ledger.unit = 0
<1> DEFINE begun == Begin(m, bytes)
           shown == Show(begun, phase)
<1>1. begun \in Machine
  BY BeginType
<1>2. Frame(m, begun) /\ SameLedger(m, begun) /\ begun.ledger.unit = 0
  BY BeginFrame
<1> HIDE DEF begun
<1>3. shown \in Machine
  BY <1>1, ShowType
<1>4. Frame(begun, shown) /\ shown.ledger = begun.ledger
  BY <1>1, ShowFrame
<1> HIDE DEF shown
<1>5. /\ Frame(shown, Await(shown, stage, index))
      /\ Await(shown, stage, index).ledger = shown.ledger
  BY <1>3, AwaitFrame
<1> QED
  BY <1>2, <1>4, <1>5, FrameTransitive DEF SameLedger, begun, shown

\* Completing a unit counts it, closes it, and shows no fewer bytes than before.
LEMMA CompleteFrame ==
  ASSUME NEW m \in Machine, NEW bytes \in Nat, LedgerCapped(m.ledger)
  PROVE  LET completed == Complete(m, bytes)
         IN  /\ Frame(m, completed)
             /\ LedgerCapped(completed.ledger) /\ completed.ledger.unit = 0
             /\ Onward(m.ledger, completed.ledger)
             /\ m.ledger.done < m.ledger.total =>
                  completed.ledger.done = m.ledger.done + 1
<1> DEFINE ledger == CompleteUnit(m.ledger, bytes)
           old == m.ledger
<1>1. old \in Ledger /\ ledger \in Ledger
  BY MachineParts, LedgerTypes
<1>2. Complete(m, bytes) = [m EXCEPT !.ledger = ledger]
  BY DEF Complete
<1>3. /\ ledger.done = AtMost(old.done + 1, old.total) /\ ledger.total = old.total
      /\ ledger.bytes = AtMost(old.bytes + AtLeast(bytes, old.unit), old.bytesTotal)
      /\ ledger.bytesTotal = old.bytesTotal /\ ledger.unit = 0
  BY <1>1 DEF Ledger, CompleteUnit
<1>4. Frame(m, Complete(m, bytes)) /\ Complete(m, bytes).ledger = ledger
  <2> HIDE DEF ledger
  <2> QED
    BY <1>2 DEF Machine, Frame
<1> HIDE DEF ledger, old
<1>5. /\ old.done \in Nat /\ old.total \in Nat /\ old.bytes \in Nat
      /\ old.bytesTotal \in Nat /\ old.unit \in Nat
      /\ ledger.done \in Nat /\ ledger.bytes \in Nat
  BY <1>1, LedgerFields
<1>6. old.done <= old.total /\ old.bytes <= old.bytesTotal
  BY DEF LedgerCapped, old
<1>7. /\ LedgerCapped(ledger) /\ Onward(old, ledger)
      /\ old.done < old.total => ledger.done = old.done + 1
  BY <1>3, <1>5, <1>6 DEF LedgerCapped, Onward, BytesDone, AtMost, AtLeast
<1> QED
  BY <1>3, <1>4, <1>7 DEF old

\* Units passed over are counted, and show nothing that was not shown.
LEMMA SkipFrame ==
  ASSUME NEW m \in Machine, NEW count \in Nat, LedgerCapped(m.ledger),
         m.ledger.unit = 0, m.ledger.done + count <= m.ledger.total
  PROVE  LET skipped == SkipUnits(m, count)
         IN  /\ Frame(m, skipped)
             /\ LedgerCapped(skipped.ledger) /\ skipped.ledger.unit = 0
             /\ Onward(m.ledger, skipped.ledger)
             /\ skipped.ledger.done = m.ledger.done + count
<1> DEFINE old == m.ledger
           ledger ==
             [old EXCEPT !.bytes = AtMost(old.bytes + old.unit, old.bytesTotal),
                         !.done = AtMost(old.done + count, old.total),
                         !.unit = 0, !.unitTotal = 0]
<1>1. old \in Ledger
  BY MachineParts
<1>2. /\ old.done \in Nat /\ old.total \in Nat /\ old.bytes \in Nat
      /\ old.bytesTotal \in Nat
  BY <1>1, LedgerFields
<1>3. old.done <= old.total /\ old.bytes <= old.bytesTotal
  BY DEF LedgerCapped
<1>4. CASE count = 0
  BY <1>2, <1>4 DEF SkipUnits, Frame, Onward, BytesDone, AtMost
<1>5. CASE count # 0
  <2>1. SkipUnits(m, count) = [m EXCEPT !.ledger = ledger]
    BY <1>5 DEF SkipUnits, Machine, Ledger
  <2>2. /\ ledger.done = AtMost(old.done + count, old.total)
        /\ ledger.total = old.total
        /\ ledger.bytes = AtMost(old.bytes + old.unit, old.bytesTotal)
        /\ ledger.bytesTotal = old.bytesTotal /\ ledger.unit = 0
    BY <1>1 DEF Ledger
  <2> HIDE DEF ledger
  <2>3. Frame(m, SkipUnits(m, count)) /\ SkipUnits(m, count).ledger = ledger
    BY <2>1 DEF Machine, Frame
  <2>4. /\ LedgerCapped(ledger) /\ Onward(old, ledger)
        /\ ledger.done = old.done + count
    BY <1>2, <1>3, <2>2 DEF LedgerCapped, Onward, BytesDone, AtMost
  <2> QED
    BY <2>2, <2>3, <2>4
<1> QED
  BY <1>4, <1>5

-----------------------------------------------------------------------------
(* Entering a stage, and ending the run.                                   *)

LEMMA UnitTypes ==
  ASSUME plan \in MirrorPlan, NEW metadata \in BOOLEAN
  PROVE  /\ MetadataUnits(metadata) \in Nat /\ RemovalUnits(metadata) \in Nat
         /\ ListRemovalUnits(metadata) \in Nat /\ ListUnits(metadata) \in Nat
         /\ LyricsUnits(metadata) \in Nat /\ CueUnits(metadata) \in Nat
         /\ AnalysisUnits(metadata) \in Nat /\ TransferUnits(metadata) \in Nat
<1>1. /\ Len(plan.transfers) \in Nat /\ Len(plan.analysis) \in Nat
      /\ Len(plan.lyrics) \in Nat /\ Len(plan.cues) \in Nat
      /\ Len(plan.lists) \in Nat /\ Len(plan.listRemovals) \in Nat
      /\ Len(plan.removals) \in Nat
  BY PlanParts, LenProperties
<1>2. MetadataUnits(metadata) \in Nat
  BY DEF MetadataUnits
<1>3. RemovalUnits(metadata) \in Nat
  BY <1>1, <1>2 DEF RemovalUnits
<1>4. ListRemovalUnits(metadata) \in Nat
  BY <1>1, <1>3 DEF ListRemovalUnits
<1>5. ListUnits(metadata) \in Nat
  BY <1>1, <1>4 DEF ListUnits
<1>6. LyricsUnits(metadata) \in Nat
  BY <1>1, <1>5 DEF LyricsUnits
<1>7. CueUnits(metadata) \in Nat
  BY <1>1, <1>6 DEF CueUnits
<1>8. AnalysisUnits(metadata) \in Nat
  BY <1>1, <1>7 DEF AnalysisUnits
<1>9. TransferUnits(metadata) \in Nat
  BY <1>1, <1>8 DEF TransferUnits
<1> QED
  BY <1>2, <1>3, <1>4, <1>5, <1>6, <1>7, <1>8, <1>9

LEMMA OnwardTransitive ==
  ASSUME NEW a \in Ledger, NEW b \in Ledger, NEW c \in Ledger,
         Onward(a, b), Onward(b, c)
  PROVE  Onward(a, c)
<1>1. /\ a.done \in Nat /\ b.done \in Nat /\ c.done \in Nat
      /\ BytesDone(a) \in Nat /\ BytesDone(b) \in Nat /\ BytesDone(c) \in Nat
  BY LedgerFields DEF BytesDone, AtMost
<1> QED
  BY <1>1 DEF Onward

LEMMA OnwardSame ==
  ASSUME NEW m \in Machine, NEW n, SameLedger(m, n), n.ledger.unit = m.ledger.unit
  PROVE  Onward(m.ledger, n.ledger)
<1>1. m.ledger \in Ledger
  BY MachineParts
<1>2. m.ledger.done \in Nat /\ BytesDone(m.ledger) \in Nat
  BY <1>1, LedgerFields DEF BytesDone, AtMost
<1>3. BytesDone(n.ledger) = BytesDone(m.ledger)
  BY DEF SameLedger, BytesDone
<1> QED
  BY <1>2, <1>3 DEF Onward, SameLedger

LEMMA LeadsTransitive ==
  ASSUME NEW m \in Machine, NEW n \in Machine, NEW o \in Machine,
         Onward(m.ledger, n.ledger), n.cancelled = m.cancelled,
         n.carried = m.carried, n.deferred = m.deferred, Leads(n, o)
  PROVE  Leads(m, o)
<1>1. m.ledger \in Ledger /\ n.ledger \in Ledger /\ o.ledger \in Ledger
  BY MachineParts
<1>2. Onward(m.ledger, o.ledger)
  BY <1>1, OnwardTransitive DEF Leads
<1> QED
  BY <1>2 DEF Leads

\* A stage entered for a unit of its own, with everything before it settled.
LEMMA EnteredLeads ==
  ASSUME NEW m, NEW n, NEW at, n.at = at,
         at.stage \notin Opened \cup {"recordFile", "done"},
         Frame(m, n), SameLedger(m, n), n.ledger.unit = 0,
         Settled(m, TransfersBehind(at), SharedBehind(at), ListsBehind(at),
                 UnitsLeft(at, m.metadata))
  PROVE  Leads(m, n)
<1>1. m \in Machine /\ m.ledger.unit = 0 /\ LedgerCapped(m.ledger)
  BY DEF Settled
<1>2. Onward(m.ledger, n.ledger)
  BY <1>1, OnwardSame
<1>3. LedgerCapped(n.ledger)
  BY <1>1 DEF LedgerCapped, SameLedger
<1>4. CarriedWithin(n, TransfersBehind(at))
  BY DEF Settled, CarriedWithin, Frame
<1>5. n.outcome = "none" /\ Blamed(n)
  BY DEF Settled, Blamed, Frame
<1>6. Counted(n, UnitsLeft(at, n.metadata))
  BY DEF Settled, Counted, Frame, SameLedger
<1>7. Reached(n, TransfersBehind(at), SharedBehind(at), ListsBehind(at))
  BY DEF Settled, Reached, Unfailed, PlacedAt, Frame
<1>8. Accounted(n)
  BY <1>3, <1>4, <1>5, <1>6, <1>7 DEF Accounted
<1> QED
  BY <1>2, <1>8 DEF Leads, Frame

LEMMA UnitLeads ==
  ASSUME NEW m, NEW bytes \in Nat, NEW phase \in Phases, NEW stage \in Stages,
         NEW index \in Nat, NEW at, at = [stage |-> stage, index |-> index],
         stage \notin Opened \cup {"recordFile", "done"},
         Settled(m, TransfersBehind(at), SharedBehind(at), ListsBehind(at),
                 UnitsLeft(at, m.metadata))
  PROVE  Leads(m, Await(Show(Begin(m, bytes), phase), stage, index))
<1> DEFINE entered == Await(Show(Begin(m, bytes), phase), stage, index)
<1>1. m \in Machine
  BY DEF Settled
<1>2. /\ entered.at = at /\ Frame(m, entered) /\ SameLedger(m, entered)
      /\ entered.ledger.unit = 0
  BY <1>1, EnterType, EnterFrame
<1> HIDE DEF entered
<1> QED
  BY <1>2, EnteredLeads DEF entered

LEMMA FinishFrame ==
  ASSUME plan \in MirrorPlan, NEW m \in Machine
  PROVE  /\ Finish(m) \in Machine
         /\ Finish(m).at.stage = "done"
         /\ Finish(m).ledger = m.ledger
         /\ Finish(m).carried = m.carried /\ Finish(m).deferred = m.deferred
         /\ Finish(m).published = m.published /\ Finish(m).absent = m.absent
         /\ Finish(m).staleList = m.staleList
         /\ Finish(m).cancelled = m.cancelled
         /\ Finish(m).outcome = "completed" => Unfailed(m) /\ ~m.terminalError
<1> DEFINE clean == ~m.terminalError /\ m.failures = {} /\ ~m.cancelled
           ended == Await(m, "done", 0)
           phase == IF clean THEN "finishing" ELSE "idle"
           outcome == IF clean THEN "completed"
                      ELSE IF m.cancelled THEN "cancelled" ELSE "failed"
           verified == IF clean THEN PlannedSources
                       ELSE IF m.cancelled THEN {} ELSE m.published
<1>1. ended \in Machine /\ ended.at = [stage |-> "done", index |-> 0]
  BY AwaitType DEF Stages
<1>2. Frame(m, ended) /\ ended.ledger = m.ledger
  BY AwaitFrame DEF Stages
<1>3. Finish(m) = [ended EXCEPT !.phase = phase, !.outcome = outcome,
                                !.verified = verified]
  BY DEF Finish
<1>4. outcome = "completed" => Unfailed(m) /\ ~m.terminalError
  BY DEF Unfailed
<1>5. Finish(m) \in Machine
  BY FinishSound DEF Sound
<1> HIDE DEF ended, phase, outcome, verified
<1>6. /\ Finish(m).at = ended.at /\ Finish(m).ledger = ended.ledger
      /\ Finish(m).carried = ended.carried /\ Finish(m).deferred = ended.deferred
      /\ Finish(m).published = ended.published /\ Finish(m).absent = ended.absent
      /\ Finish(m).staleList = ended.staleList
      /\ Finish(m).cancelled = ended.cancelled /\ Finish(m).outcome = outcome
  BY <1>1, <1>3 DEF Machine
<1> QED
  BY <1>1, <1>2, <1>4, <1>5, <1>6 DEF Frame

\* A run may end at any time, and is complete when everything is done.
LEMMA FinishLeads ==
  ASSUME plan \in MirrorPlan, NEW m \in Machine,
         LedgerCapped(m.ledger), m.ledger.unit = 0,
         CarriedWithin(m, Len(plan.transfers)),
         Unfailed(m) /\ ~m.terminalError => Everything(m)
  PROVE  Leads(m, Finish(m))
<1> DEFINE ended == Finish(m)
<1>1. /\ ended.at.stage = "done" /\ ended.ledger = m.ledger
      /\ ended.carried = m.carried /\ ended.deferred = m.deferred
      /\ ended.published = m.published /\ ended.absent = m.absent
      /\ ended.staleList = m.staleList
      /\ ended.outcome = "completed" => Unfailed(m) /\ ~m.terminalError
  BY FinishFrame
<1> HIDE DEF ended
<1>2. ended.outcome = "completed" => Everything(ended)
  BY <1>1 DEF Everything, PlacedAt
<1>3. CarriedWithin(ended, TransfersBehind(ended.at))
  BY <1>1 DEF CarriedWithin, TransfersBehind, Opened, TransferStages
<1>4. Accounted(ended)
  BY <1>1, <1>2, <1>3 DEF Accounted
<1>5. Onward(m.ledger, ended.ledger)
  BY <1>1, OnwardSame DEF SameLedger
<1> QED
  BY <1>1, <1>4, <1>5 DEF Leads, Opened, ended

LEMMA CancelledLeads ==
  ASSUME plan \in MirrorPlan, NEW m, m.cancelled,
         NEW transfers \in 0..Len(plan.transfers),
         NEW shared, NEW lists, NEW units,
         Settled(m, transfers, shared, lists, units)
  PROVE  Leads(m, Finish(m))
<1>1. Len(plan.transfers) \in Nat
  BY PlanParts, LenProperties
<1>2. CarriedWithin(m, Len(plan.transfers))
  BY <1>1 DEF Settled, CarriedWithin
<1> QED
  BY <1>2, FinishLeads DEF Settled, Unfailed

\* A run that settled all its stages and failed nowhere did everything.
LEMMA AllSettled ==
  ASSUME plan \in MirrorPlan, NEW m,
         Settled(m, Len(plan.transfers), Len(plan.shared), Len(plan.lists), 0),
         Unfailed(m)
  PROVE  Everything(m)
<1>1. /\ DOMAIN plan.transfers = 1..Len(plan.transfers)
      /\ DOMAIN plan.shared = 1..Len(plan.shared)
      /\ DOMAIN plan.lists = 1..Len(plan.lists)
  BY PlanParts, LenProperties
<1>2. m.ledger.done = m.ledger.total
  <2>1. m.ledger.done \in Nat
    BY MachineParts, LedgerFields DEF Settled
  <2> QED
    BY <2>1 DEF Settled, Counted
<1>3. PlannedSources \subseteq m.published
  BY <1>1 DEF Settled, Reached, PlannedSources
<1> QED
  BY <1>1, <1>2, <1>3 DEF Settled, Reached, Blamed, Everything, Unfailed

-----------------------------------------------------------------------------
(* The stages, last to first.                                              *)

LEMMA PlanLengths ==
  ASSUME plan \in MirrorPlan
  PROVE  /\ Len(plan.transfers) \in Nat /\ Len(plan.shared) \in Nat
         /\ Len(plan.analysis) \in Nat /\ Len(plan.cues) \in Nat
         /\ Len(plan.lyrics) \in Nat /\ Len(plan.lists) \in Nat
         /\ Len(plan.listRemovals) \in Nat /\ Len(plan.removals) \in Nat
  BY PlanParts, LenProperties

\* What is left in front of the metadata list is left after the deletions.
SettledLists(m, units) ==
  Settled(m, Len(plan.transfers), Len(plan.shared), Len(plan.lists), units)

LEMMA CancelledEnds ==
  ASSUME plan \in MirrorPlan, NEW m, m.cancelled, NEW shared, NEW lists, NEW units,
         Settled(m, Len(plan.transfers), shared, lists, units)
  PROVE  Leads(m, Finish(m))
  BY PlanLengths, CancelledLeads

LEMMA EnterTrackMetadataListLeads ==
  ASSUME plan \in MirrorPlan, NEW m,
         SettledLists(m, MetadataUnits(m.metadata))
  PROVE  Leads(m, EnterTrackMetadataList(m))
<1>1. m \in Machine
  BY DEF SettledLists, Settled
<1>2. CASE m.metadata
  <2> DEFINE at == [stage |-> "writeMetadata", index |-> 0]
  <2>1. Settled(m, TransfersBehind(at), SharedBehind(at), ListsBehind(at),
                UnitsLeft(at, m.metadata))
    BY DEF SettledLists, TransfersBehind, SharedBehind, ListsBehind, UnitsLeft,
           Opened, TransferStages, SidecarStages, ListStages
  <2>2. "writeMetadata" \notin Opened \cup {"recordFile", "done"}
    BY DEF Opened
  <2>3. Leads(m, Await(Show(Begin(m, 0), "writingMetadata"), "writeMetadata", 0))
    BY <2>1, <2>2, Names, UnitLeads
  <2> QED
    BY <1>2, <2>3 DEF EnterTrackMetadataList
<1>3. CASE ~m.metadata
  <2>1. SettledLists(m, 0)
    BY <1>3 DEF MetadataUnits
  <2>2. Unfailed(m) => Everything(m)
    BY <2>1, AllSettled DEF SettledLists
  <2>3. Leads(m, Finish(m))
    BY <2>1, <2>2, FinishLeads DEF SettledLists, Settled
  <2> QED
    BY <1>3, <2>3 DEF EnterTrackMetadataList
<1> QED
  BY <1>2, <1>3

LEMMA EnterDeferredRemovalsLeads ==
  ASSUME plan \in MirrorPlan, NEW m, NEW from \in Nat \ {0},
         SettledLists(m, MetadataUnits(m.metadata))
  PROVE  Leads(m, EnterDeferredRemovals(m, from))
<1>1. m \in Machine
  BY DEF SettledLists, Settled
<1>2. CASE m.cancelled
  BY <1>2, CancelledEnds DEF EnterDeferredRemovals, SettledLists
<1>3. CASE ~m.cancelled /\ from > Len(m.deferred)
  BY <1>3, EnterTrackMetadataListLeads DEF EnterDeferredRemovals
<1>4. CASE ~m.cancelled /\ ~(from > Len(m.deferred))
  <2> DEFINE shown == Show(m, "removing")
             entered == Await(shown, "removeReplaced", from)
             at == [stage |-> "removeReplaced", index |-> from]
  <2>1. shown \in Machine /\ Frame(m, shown) /\ shown.ledger = m.ledger
    BY <1>1, ShowType, ShowFrame, Names
  <2> HIDE DEF shown
  <2>2. /\ entered.at = at /\ Frame(shown, entered)
        /\ entered.ledger = shown.ledger
    <3>1. "removeReplaced" \in Stages
      BY DEF Stages
    <3> QED
      BY <2>1, <3>1, AwaitType, AwaitFrame
  <2> HIDE DEF entered
  <2>3. /\ Frame(m, entered) /\ SameLedger(m, entered) /\ entered.ledger.unit = 0
    BY <2>1, <2>2, FrameTransitive DEF SameLedger, SettledLists, Settled
  <2>4. Settled(m, TransfersBehind(at), SharedBehind(at), ListsBehind(at),
                UnitsLeft(at, m.metadata))
    BY DEF SettledLists, TransfersBehind, SharedBehind, ListsBehind, UnitsLeft,
           Opened, TransferStages, SidecarStages, ListStages
  <2>5. at.stage \notin Opened \cup {"recordFile", "done"}
    BY DEF Opened
  <2> HIDE DEF at
  <2>6. Leads(m, entered)
    BY <1>4, <2>2, <2>3, <2>4, <2>5, EnteredLeads
  <2> QED
    BY <1>4, <2>6 DEF EnterDeferredRemovals, entered, shown
<1> QED
  BY <1>1, <1>2, <1>3, <1>4, MachineParts

LEMMA EnterRemovalsLeads ==
  ASSUME plan \in MirrorPlan, NEW m, NEW from \in 1..(Len(plan.removals) + 1),
         SettledLists(m, Len(plan.removals) + 1 - from + MetadataUnits(m.metadata))
  PROVE  Leads(m, EnterRemovals(m, from))
<1>1. m \in Machine
  BY DEF SettledLists, Settled
<1>2. Len(plan.removals) \in Nat /\ MetadataUnits(m.metadata) \in Nat
  BY <1>1, PlanLengths, MachineParts, UnitTypes
<1>3. CASE m.cancelled
  BY <1>3, CancelledEnds DEF EnterRemovals, SettledLists
<1>4. CASE ~m.cancelled /\ from > Len(plan.removals)
  <2>1. Len(plan.removals) + 1 - from + MetadataUnits(m.metadata)
          = MetadataUnits(m.metadata)
    BY <1>2, <1>4
  <2>2. SettledLists(m, MetadataUnits(m.metadata))
    BY <2>1, Zenon
  <2> QED
    BY <1>4, <2>2, EnterDeferredRemovalsLeads DEF EnterRemovals
<1>5. CASE ~m.cancelled /\ ~(from > Len(plan.removals))
  <2>1. from \in Nat
    BY <1>2
  <2>2. ASSUME NEW at, at \in {[stage |-> "forgetFile", index |-> from],
                               [stage |-> "removeTrack", index |-> from]}
        PROVE  /\ Settled(m, TransfersBehind(at), SharedBehind(at), ListsBehind(at),
                          UnitsLeft(at, m.metadata))
               /\ at.stage \notin Opened \cup {"recordFile", "done"}
    BY <2>2 DEF SettledLists, TransfersBehind, SharedBehind, ListsBehind, UnitsLeft,
           Opened, TransferStages, SidecarStages, ListStages
  <2>3. CASE plan.removals[from].kind = "unshared"
    <3> DEFINE begun == Begin(m, 0)
               entered == Await(begun, "forgetFile", from)
               at == [stage |-> "forgetFile", index |-> from]
    <3>1. /\ begun \in Machine /\ Frame(m, begun) /\ SameLedger(m, begun)
          /\ begun.ledger.unit = 0
      BY <1>1, BeginType, BeginFrame
    <3> HIDE DEF begun
    <3>2. /\ entered.at = at /\ Frame(begun, entered)
          /\ entered.ledger = begun.ledger
      <4>1. "forgetFile" \in Stages
        BY DEF Stages
      <4> QED
        BY <2>1, <3>1, <4>1, AwaitType, AwaitFrame
    <3> HIDE DEF entered
    <3>3. /\ Frame(m, entered) /\ SameLedger(m, entered) /\ entered.ledger.unit = 0
      BY <3>1, <3>2, FrameTransitive DEF SameLedger
    <3> HIDE DEF at
    <3>4. Leads(m, entered)
      BY <1>5, <2>2, <3>2, <3>3, EnteredLeads DEF at
    <3> QED
      BY <1>5, <2>3, <3>4 DEF EnterRemovals, entered, begun
  <2>4. CASE plan.removals[from].kind # "unshared"
    <3>1. "removeTrack" \notin Opened \cup {"recordFile", "done"}
      BY DEF Opened
    <3>2. Leads(m, Await(Show(Begin(m, 0), "removing"), "removeTrack", from))
      BY <1>5, <2>1, <2>2, <3>1, Names, UnitLeads
    <3> QED
      BY <1>5, <2>4, <3>2 DEF EnterRemovals
  <2> QED
    BY <2>3, <2>4
<1> QED
  BY <1>2, <1>3, <1>4, <1>5

\* The gate: a run that may not delete has failed before.
LEMMA BeginRemovalsLeads ==
  ASSUME plan \in MirrorPlan, NEW m, SettledLists(m, RemovalUnits(m.metadata))
  PROVE  Leads(m, BeginRemovals(m))
<1>1. m \in Machine /\ m.metadata \in BOOLEAN
  BY MachineParts DEF SettledLists, Settled
<1>2. CASE m.cancelled \/ ~(PlannedSources \subseteq m.published) \/ m.staleList
  <2>1. ~Unfailed(m)
    <3>1. CASE m.cancelled
      BY <3>1 DEF Unfailed
    <3>2. CASE m.staleList
      BY <3>2 DEF Unfailed, SettledLists, Settled, Blamed
    <3>3. CASE ~(PlannedSources \subseteq m.published)
      <4>1. DOMAIN plan.lists = 1..Len(plan.lists)
        BY PlanParts, LenProperties
      <4> QED
        BY <3>3, <4>1 DEF PlannedSources, SettledLists, Settled, Reached
    <3> QED
      BY <1>2, <3>1, <3>2, <3>3
  <2>2. Leads(m, Finish(m))
    BY <2>1, FinishLeads DEF SettledLists, Settled
  <2> QED
    BY <1>2, <2>2 DEF BeginRemovals
<1>3. CASE ~(m.cancelled \/ ~(PlannedSources \subseteq m.published) \/ m.staleList)
  <2>1. Len(plan.removals) \in Nat /\ MetadataUnits(m.metadata) \in Nat
    BY <1>1, PlanLengths, UnitTypes
  <2>2. /\ 1 \in 1..(Len(plan.removals) + 1)
        /\ RemovalUnits(m.metadata)
             = Len(plan.removals) + 1 - 1 + MetadataUnits(m.metadata)
    BY <2>1 DEF RemovalUnits
  <2>3. SettledLists(m, Len(plan.removals) + 1 - 1 + MetadataUnits(m.metadata))
    BY <2>2, Zenon
  <2>4. Leads(m, EnterRemovals(m, 1))
    BY <2>2, <2>3, EnterRemovalsLeads
  <2> QED
    BY <1>3, <2>4 DEF BeginRemovals
<1> QED
  BY <1>2, <1>3

\* Passing over units settles them.
LEMMA SkipSettles ==
  ASSUME NEW m, NEW transfers, NEW shared, NEW lists,
         NEW count \in Nat, NEW units \in Nat,
         Settled(m, transfers, shared, lists, count + units)
  PROVE  LET skipped == SkipUnits(m, count)
         IN  /\ Settled(skipped, transfers, shared, lists, units)
             /\ Frame(m, skipped) /\ Onward(m.ledger, skipped.ledger)
<1> DEFINE skipped == SkipUnits(m, count)
<1>1. m \in Machine /\ skipped \in Machine
  BY SkipUnitsType DEF Settled
<1>2. /\ m.ledger.done \in Nat /\ m.ledger.total \in Nat
      /\ skipped.ledger.done \in Nat /\ skipped.ledger.total \in Nat
  BY <1>1, MachineParts, LedgerFields
<1>3. m.ledger.done + (count + units) = m.ledger.total
  BY DEF Settled, Counted
<1>4. /\ Frame(m, skipped)
      /\ LedgerCapped(skipped.ledger) /\ skipped.ledger.unit = 0
      /\ Onward(m.ledger, skipped.ledger)
      /\ skipped.ledger.done = m.ledger.done + count
  <2>1. m.ledger.done + count <= m.ledger.total
    BY <1>2, <1>3
  <2> QED
    BY <1>1, <2>1, SkipFrame DEF Settled
<1> HIDE DEF skipped
<1>5. Counted(skipped, units)
  BY <1>2, <1>3, <1>4 DEF Counted, Onward
<1>6. skipped.outcome = "none" /\ Blamed(skipped) /\ CarriedWithin(skipped, transfers)
  BY <1>4 DEF Settled, Blamed, CarriedWithin, Frame
<1>7. Reached(skipped, transfers, shared, lists)
  BY <1>4 DEF Settled, Reached, Unfailed, PlacedAt, Frame
<1> QED
  BY <1>1, <1>4, <1>5, <1>6, <1>7 DEF Settled, skipped

\* A stage whose next entry lies behind some that are passed over.
LEMMA SkippedUnitLeads ==
  ASSUME plan \in MirrorPlan, NEW m, NEW count \in Nat, NEW bytes \in Nat,
         NEW phase \in Phases, NEW stage \in Stages, NEW index \in Nat,
         NEW at, at = [stage |-> stage, index |-> index],
         stage \notin Opened \cup {"recordFile", "done"},
         UnitsLeft(at, m.metadata) \in Nat,
         Settled(m, TransfersBehind(at), SharedBehind(at), ListsBehind(at),
                 count + UnitsLeft(at, m.metadata))
  PROVE  Leads(m, Await(Show(Begin(SkipUnits(m, count), bytes), phase), stage, index))
<1> DEFINE skipped == SkipUnits(m, count)
           entered == Await(Show(Begin(skipped, bytes), phase), stage, index)
<1>1. /\ Settled(skipped, TransfersBehind(at), SharedBehind(at), ListsBehind(at),
                 UnitsLeft(at, m.metadata))
      /\ Frame(m, skipped) /\ Onward(m.ledger, skipped.ledger)
  BY SkipSettles
<1> HIDE DEF skipped
<1>2. Leads(skipped, entered)
  <2>1. skipped.metadata = m.metadata
    BY <1>1 DEF Frame
  <2> QED
    BY <1>1, <2>1, UnitLeads
<1>3. m \in Machine /\ skipped \in Machine
  BY <1>1 DEF Settled
<1>4. entered \in Machine
  BY <1>3, EnterType
<1> HIDE DEF entered
<1>5. Leads(m, entered)
  BY <1>1, <1>2, <1>3, <1>4, LeadsTransitive DEF Frame
<1> QED
  BY <1>5 DEF entered, skipped

LEMMA EnterPlaylistRemovalsLeads ==
  ASSUME plan \in MirrorPlan, NEW m, NEW from \in 1..(Len(plan.listRemovals) + 1),
         SettledLists(m, Len(plan.listRemovals) + 1 - from + RemovalUnits(m.metadata))
  PROVE  Leads(m, EnterPlaylistRemovals(m, from))
<1> DEFINE end == Len(plan.listRemovals)
           ready == {k \in from..end : ListMayGo(m, k)}
<1>1. m \in Machine
  BY DEF SettledLists, Settled
<1>2. end \in Nat /\ RemovalUnits(m.metadata) \in Nat
  BY <1>1, PlanLengths, MachineParts, UnitTypes
<1>3. CASE m.cancelled
  BY <1>3, CancelledEnds DEF EnterPlaylistRemovals, SettledLists
<1>4. CASE ~m.cancelled /\ ready = {}
  <2> DEFINE skipped == SkipUnits(m, end + 1 - from)
  <2>1. end + 1 - from \in Nat
    BY <1>2
  <2>2. /\ SettledLists(skipped, RemovalUnits(m.metadata))
        /\ Frame(m, skipped) /\ Onward(m.ledger, skipped.ledger)
    BY <1>2, <2>1, SkipSettles DEF SettledLists
  <2>3. EnterPlaylistRemovals(m, from) = BeginRemovals(skipped)
    BY <1>4 DEF EnterPlaylistRemovals
  <2> HIDE DEF skipped
  <2>4. skipped \in Machine /\ skipped.metadata = m.metadata
    BY <2>2 DEF Frame, SettledLists, Settled
  <2>5. Leads(skipped, BeginRemovals(skipped))
    BY <2>2, <2>4, BeginRemovalsLeads
  <2>6. BeginRemovals(skipped) \in Machine
    BY <2>4, BeginRemovalsSound DEF Sound
  <2> QED
    BY <1>1, <2>2, <2>3, <2>4, <2>5, <2>6, LeadsTransitive DEF Frame
<1>5. CASE ~m.cancelled /\ ready # {}
  <2> DEFINE next == Least(ready)
             at == [stage |-> "removeList", index |-> next]
  <2>1. next \in from..end
    <3>1. ready \in SUBSET Nat
      BY <1>2
    <3>2. next \in ready
      BY <1>5, <3>1, LeastIndex
    <3> QED
      BY <3>2
  <2>2. EnterPlaylistRemovals(m, from)
          = Await(Show(Begin(SkipUnits(m, next - from), 0), "removing"),
                  "removeList", next)
    BY <1>5 DEF EnterPlaylistRemovals
  <2> HIDE DEF next, ready, end
  <2>3. UnitsLeft(at, m.metadata)
          = Len(plan.listRemovals) + 1 - next + RemovalUnits(m.metadata)
    BY DEF UnitsLeft, Opened, TransferStages, SidecarStages, ListStages
  <2>4. /\ next - from \in Nat /\ next \in Nat /\ UnitsLeft(at, m.metadata) \in Nat
        /\ Len(plan.listRemovals) + 1 - from + RemovalUnits(m.metadata)
             = next - from + UnitsLeft(at, m.metadata)
    BY <1>2, <2>1, <2>3 DEF end
  <2>5. SettledLists(m, next - from + UnitsLeft(at, m.metadata))
    BY <2>4, Zenon
  <2>6. Settled(m, TransfersBehind(at), SharedBehind(at), ListsBehind(at),
                next - from + UnitsLeft(at, m.metadata))
    BY <2>5 DEF SettledLists, TransfersBehind, SharedBehind, ListsBehind,
                Opened, TransferStages, SidecarStages, ListStages
  <2>7. "removeList" \notin Opened \cup {"recordFile", "done"}
    BY DEF Opened
  <2> QED
    BY <1>5, <2>2, <2>4, <2>6, <2>7, Names, SkippedUnitLeads
<1> QED
  BY <1>1, <1>3, <1>4, <1>5, MachineParts

LEMMA EnterPlaylistWritesLeads ==
  ASSUME plan \in MirrorPlan, NEW m, NEW from \in 1..(Len(plan.lists) + 1),
         Settled(m, Len(plan.transfers), Len(plan.shared), from - 1,
                 Len(plan.lists) + 1 - from + ListRemovalUnits(m.metadata))
  PROVE  Leads(m, EnterPlaylistWrites(m, from))
<1>1. m \in Machine
  BY DEF Settled
<1>2. /\ Len(plan.lists) \in Nat /\ Len(plan.listRemovals) \in Nat
      /\ RemovalUnits(m.metadata) \in Nat /\ ListRemovalUnits(m.metadata) \in Nat
  BY <1>1, PlanLengths, MachineParts, UnitTypes
<1>3. CASE m.cancelled
  BY <1>3, CancelledEnds DEF EnterPlaylistWrites
<1>4. CASE ~m.cancelled /\ from > Len(plan.lists)
  <2>1. /\ from - 1 = Len(plan.lists) /\ 1 \in 1..(Len(plan.listRemovals) + 1)
        /\ Len(plan.lists) + 1 - from + ListRemovalUnits(m.metadata)
             = Len(plan.listRemovals) + 1 - 1 + RemovalUnits(m.metadata)
    <3>1. from - 1 = Len(plan.lists) /\ 1 \in 1..(Len(plan.listRemovals) + 1)
      BY <1>2, <1>4
    <3>2. ListRemovalUnits(m.metadata)
            = Len(plan.listRemovals) + RemovalUnits(m.metadata)
      BY DEF ListRemovalUnits
    <3>3. Len(plan.lists) + 1 - from = 0
      BY <1>2, <3>1
    <3>4. Len(plan.listRemovals) + 1 - 1 = Len(plan.listRemovals)
      BY <1>2
    <3>5. 0 + ListRemovalUnits(m.metadata) = ListRemovalUnits(m.metadata)
      BY <1>2
    <3> QED
      BY <3>1, <3>2, <3>3, <3>4, <3>5, Zenon
  <2>2. SettledLists(m, Len(plan.listRemovals) + 1 - 1 + RemovalUnits(m.metadata))
    BY <2>1, Zenon DEF SettledLists
  <2> QED
    BY <1>4, <2>1, <2>2, EnterPlaylistRemovalsLeads DEF EnterPlaylistWrites
<1>5. CASE ~m.cancelled /\ ~(from > Len(plan.lists))
  <2> DEFINE at == [stage |-> "writeList", index |-> from]
  <2>1. Settled(m, TransfersBehind(at), SharedBehind(at), ListsBehind(at),
                UnitsLeft(at, m.metadata))
    BY DEF TransfersBehind, SharedBehind, ListsBehind, UnitsLeft,
           Opened, TransferStages, SidecarStages, ListStages
  <2>2. "writeList" \notin Opened \cup {"recordFile", "done"}
    BY DEF Opened
  <2>3. from \in Nat
    BY <1>2
  <2>4. Leads(m, Await(Show(Begin(m, 0), "writingPlaylists"), "writeList", from))
    BY <1>5, <2>1, <2>2, <2>3, Names, UnitLeads
  <2> QED
    BY <1>5, <2>4 DEF EnterPlaylistWrites
<1> QED
  BY <1>2, <1>3, <1>4, <1>5

\* The sidecars come after the transfers and the shared records.
SettledFiles(m, units) ==
  Settled(m, Len(plan.transfers), Len(plan.shared), 0, units)

LEMMA EnterLyricsWritesLeads ==
  ASSUME plan \in MirrorPlan, NEW m, NEW from \in 1..(Len(plan.lyrics) + 1),
         SettledFiles(m, Len(plan.lyrics) + 1 - from + ListUnits(m.metadata))
  PROVE  Leads(m, EnterLyricsWrites(m, from))
<1>1. m \in Machine
  BY DEF SettledFiles, Settled
<1>2. /\ Len(plan.lyrics) \in Nat /\ Len(plan.lists) \in Nat
      /\ ListRemovalUnits(m.metadata) \in Nat /\ ListUnits(m.metadata) \in Nat
  BY <1>1, PlanLengths, MachineParts, UnitTypes
<1>3. CASE m.cancelled
  BY <1>3, CancelledEnds DEF EnterLyricsWrites, SettledFiles
<1>4. CASE ~m.cancelled /\ from > Len(plan.lyrics)
  <2>1. /\ 1 - 1 = 0 /\ 1 \in 1..(Len(plan.lists) + 1)
        /\ Len(plan.lyrics) + 1 - from + ListUnits(m.metadata)
             = Len(plan.lists) + 1 - 1 + ListRemovalUnits(m.metadata)
    BY <1>2, <1>4 DEF ListUnits
  <2>2. Settled(m, Len(plan.transfers), Len(plan.shared), 1 - 1,
                Len(plan.lists) + 1 - 1 + ListRemovalUnits(m.metadata))
    BY <2>1, Zenon DEF SettledFiles
  <2> QED
    BY <1>4, <2>1, <2>2, EnterPlaylistWritesLeads DEF EnterLyricsWrites
<1>5. CASE ~m.cancelled /\ ~(from > Len(plan.lyrics))
  <2> DEFINE at == [stage |-> "writeLyrics", index |-> from]
             bytes == plan.lyrics[from].bytes
  <2>1. Settled(m, TransfersBehind(at), SharedBehind(at), ListsBehind(at),
                UnitsLeft(at, m.metadata))
    BY DEF SettledFiles, TransfersBehind, SharedBehind, ListsBehind, UnitsLeft,
           Opened, TransferStages, SidecarStages, ListStages
  <2>2. "writeLyrics" \notin Opened \cup {"recordFile", "done"}
    BY DEF Opened
  <2>3. from \in Nat /\ from \in 1..Len(plan.lyrics)
    BY <1>2, <1>5
  <2>4. plan.lyrics[from] \in SidecarWrite
    BY <2>3, PlanParts, ElementOfSeq
  <2>5. bytes \in Nat
    BY <2>4 DEF SidecarWrite
  <2>6. EnterLyricsWrites(m, from)
          = Await(Show(Begin(m, bytes), "writingLyrics"), "writeLyrics", from)
    BY <1>5 DEF EnterLyricsWrites
  <2> HIDE DEF bytes
  <2> QED
    BY <1>5, <2>1, <2>2, <2>3, <2>5, <2>6, Names, UnitLeads
<1> QED
  BY <1>2, <1>3, <1>4, <1>5

LEMMA EnterCueWritesLeads ==
  ASSUME plan \in MirrorPlan, NEW m, NEW from \in 1..(Len(plan.cues) + 1),
         SettledFiles(m, Len(plan.cues) + 1 - from + LyricsUnits(m.metadata))
  PROVE  Leads(m, EnterCueWrites(m, from))
<1> DEFINE end == Len(plan.cues)
           ready == {k \in from..end : plan.cues[k].audio \notin m.absent}
<1>1. m \in Machine
  BY DEF SettledFiles, Settled
<1>2. /\ end \in Nat /\ Len(plan.lyrics) \in Nat
      /\ ListUnits(m.metadata) \in Nat /\ LyricsUnits(m.metadata) \in Nat
  BY <1>1, PlanLengths, MachineParts, UnitTypes
<1>3. CASE m.cancelled
  BY <1>3, CancelledEnds DEF EnterCueWrites, SettledFiles
<1>4. CASE ~m.cancelled /\ ready = {}
  <2> DEFINE skipped == SkipUnits(m, end + 1 - from)
  <2>1. /\ end + 1 - from \in Nat /\ 1 \in 1..(Len(plan.lyrics) + 1)
        /\ LyricsUnits(m.metadata)
             = Len(plan.lyrics) + 1 - 1 + ListUnits(m.metadata)
    BY <1>2 DEF LyricsUnits
  <2>2. /\ SettledFiles(skipped, LyricsUnits(m.metadata))
        /\ Frame(m, skipped) /\ Onward(m.ledger, skipped.ledger)
    BY <1>2, <2>1, SkipSettles DEF SettledFiles
  <2>3. EnterCueWrites(m, from) = EnterLyricsWrites(skipped, 1)
    BY <1>4 DEF EnterCueWrites
  <2> HIDE DEF skipped
  <2>4. skipped \in Machine /\ skipped.metadata = m.metadata
    BY <2>2 DEF Frame, SettledFiles, Settled
  <2>5. SettledFiles(skipped, Len(plan.lyrics) + 1 - 1 + ListUnits(skipped.metadata))
    BY <2>1, <2>2, <2>4, Zenon
  <2>6. Leads(skipped, EnterLyricsWrites(skipped, 1))
    BY <2>1, <2>5, EnterLyricsWritesLeads
  <2>7. EnterLyricsWrites(skipped, 1) \in Machine
    BY <2>4, EnterLyricsWritesSound DEF Sound
  <2> QED
    BY <1>1, <2>2, <2>3, <2>4, <2>6, <2>7, LeadsTransitive DEF Frame
<1>5. CASE ~m.cancelled /\ ready # {}
  <2> DEFINE next == Least(ready)
             at == [stage |-> "writeCue", index |-> next]
             bytes == plan.cues[next].bytes
  <2>1. next \in from..end
    <3>1. ready \in SUBSET Nat
      BY <1>2
    <3>2. next \in ready
      BY <1>5, <3>1, LeastIndex
    <3> QED
      BY <3>2
  <2>2. EnterCueWrites(m, from)
          = Await(Show(Begin(SkipUnits(m, next - from), bytes), "copying"),
                  "writeCue", next)
    BY <1>5 DEF EnterCueWrites
  <2> HIDE DEF next, ready, end
  <2>3. UnitsLeft(at, m.metadata) = Len(plan.cues) + 1 - next + LyricsUnits(m.metadata)
    BY DEF UnitsLeft, Opened, TransferStages, SidecarStages, ListStages
  <2>4. /\ next - from \in Nat /\ next \in Nat /\ next \in 1..Len(plan.cues)
        /\ UnitsLeft(at, m.metadata) \in Nat
        /\ Len(plan.cues) + 1 - from + LyricsUnits(m.metadata)
             = next - from + UnitsLeft(at, m.metadata)
    BY <1>2, <2>1, <2>3 DEF end
  <2>5. SettledFiles(m, next - from + UnitsLeft(at, m.metadata))
    BY <2>4, Zenon
  <2>6. Settled(m, TransfersBehind(at), SharedBehind(at), ListsBehind(at),
                next - from + UnitsLeft(at, m.metadata))
    BY <2>5 DEF SettledFiles, TransfersBehind, SharedBehind, ListsBehind,
                Opened, TransferStages, SidecarStages, ListStages
  <2>7. "writeCue" \notin Opened \cup {"recordFile", "done"}
    BY DEF Opened
  <2>8. bytes \in Nat
    <3>1. plan.cues[next] \in CueWrite
      BY <2>4, PlanParts, ElementOfSeq
    <3> QED
      BY <3>1 DEF CueWrite
  <2> HIDE DEF bytes
  <2> QED
    BY <1>5, <2>2, <2>4, <2>6, <2>7, <2>8, Names, SkippedUnitLeads
<1> QED
  BY <1>1, <1>3, <1>4, <1>5, MachineParts

LEMMA EnterAnalysisWritesLeads ==
  ASSUME plan \in MirrorPlan, NEW m, NEW from \in 1..(Len(plan.analysis) + 1),
         SettledFiles(m, Len(plan.analysis) + 1 - from + CueUnits(m.metadata))
  PROVE  Leads(m, EnterAnalysisWrites(m, from))
<1>1. m \in Machine
  BY DEF SettledFiles, Settled
<1>2. /\ Len(plan.analysis) \in Nat /\ Len(plan.cues) \in Nat
      /\ LyricsUnits(m.metadata) \in Nat /\ CueUnits(m.metadata) \in Nat
  BY <1>1, PlanLengths, MachineParts, UnitTypes
<1>3. CASE m.cancelled
  BY <1>3, CancelledEnds DEF EnterAnalysisWrites, SettledFiles
<1>4. CASE ~m.cancelled /\ from > Len(plan.analysis)
  <2>1. /\ 1 \in 1..(Len(plan.cues) + 1)
        /\ Len(plan.analysis) + 1 - from + CueUnits(m.metadata)
             = Len(plan.cues) + 1 - 1 + LyricsUnits(m.metadata)
    BY <1>2, <1>4 DEF CueUnits
  <2>2. SettledFiles(m, Len(plan.cues) + 1 - 1 + LyricsUnits(m.metadata))
    BY <2>1, Zenon
  <2> QED
    BY <1>4, <2>1, <2>2, EnterCueWritesLeads DEF EnterAnalysisWrites
<1>5. CASE ~m.cancelled /\ ~(from > Len(plan.analysis))
  <2> DEFINE at == [stage |-> "writeAnalysis", index |-> from]
             bytes == plan.analysis[from].bytes
  <2>1. Settled(m, TransfersBehind(at), SharedBehind(at), ListsBehind(at),
                UnitsLeft(at, m.metadata))
    BY DEF SettledFiles, TransfersBehind, SharedBehind, ListsBehind, UnitsLeft,
           Opened, TransferStages, SidecarStages, ListStages
  <2>2. "writeAnalysis" \notin Opened \cup {"recordFile", "done"}
    BY DEF Opened
  <2>3. from \in Nat /\ from \in 1..Len(plan.analysis)
    BY <1>2, <1>5
  <2>4. plan.analysis[from] \in SidecarWrite
    BY <2>3, PlanParts, ElementOfSeq
  <2>5. bytes \in Nat
    BY <2>4 DEF SidecarWrite
  <2>6. EnterAnalysisWrites(m, from)
          = Await(Show(Begin(m, bytes), "writingAnalysis"), "writeAnalysis", from)
    BY <1>5 DEF EnterAnalysisWrites
  <2> HIDE DEF bytes
  <2> QED
    BY <2>1, <2>2, <2>3, <2>5, <2>6, Names, UnitLeads
<1> QED
  BY <1>2, <1>3, <1>4, <1>5

\* Records whose file never arrived fail: up to `upto` all are settled.
LEMMA FailTracksSettles ==
  ASSUME NEW m, NEW tracks \in SUBSET Track, NEW transfers, NEW lists, NEW units,
         NEW shared \in Nat, NEW upto \in Nat,
         Settled(m, transfers, shared, lists, units),
         \A k \in (shared + 1)..upto :
           PlacedAt(m, k) # NoPath \/ plan.shared[k].track \in tracks
  PROVE  LET failed == FailTracks(m, tracks)
         IN  /\ Settled(failed, transfers, upto, lists, units)
             /\ failed.ledger = m.ledger /\ failed.metadata = m.metadata
             /\ failed.cancelled = m.cancelled
             /\ failed.carried = m.carried /\ failed.deferred = m.deferred
<1> DEFINE failed == FailTracks(m, tracks)
<1>1. m \in Machine
  BY DEF Settled
<1>2. failed \in Machine
  BY <1>1, FailTracksType
<1>3. /\ failed.failures = m.failures \cup tracks
      /\ failed.ledger = m.ledger /\ failed.metadata = m.metadata
      /\ failed.cancelled = m.cancelled /\ failed.outcome = m.outcome
      /\ failed.carried = m.carried /\ failed.deferred = m.deferred
      /\ failed.published = m.published /\ failed.absent = m.absent
      /\ failed.staleList = m.staleList
  BY <1>1 DEF Machine, FailTracks
<1> HIDE DEF failed
<1>4. Unfailed(failed) => Unfailed(m) /\ tracks = {}
  BY <1>3 DEF Unfailed
<1>5. \A k : PlacedAt(failed, k) = PlacedAt(m, k)
  BY <1>3 DEF PlacedAt
<1>6. Reached(failed, transfers, upto, lists)
  <2> SUFFICES ASSUME Unfailed(failed)
               PROVE  /\ \A k \in 1..transfers :
                           failed.carried[plan.transfers[k].track] # NoPath
                      /\ \A k \in 1..upto : PlacedAt(failed, k) # NoPath
                      /\ \A k \in 1..lists : plan.lists[k].source \in failed.published
    BY DEF Reached
  <2>1. /\ \A k \in 1..transfers : m.carried[plan.transfers[k].track] # NoPath
        /\ \A k \in 1..shared : PlacedAt(m, k) # NoPath
        /\ \A k \in 1..lists : plan.lists[k].source \in m.published
    BY <1>4 DEF Settled, Reached
  <2>2. ASSUME NEW k \in 1..upto
        PROVE  PlacedAt(failed, k) # NoPath
    <3>1. k \in 1..shared \/ k \in (shared + 1)..upto
      OBVIOUS
    <3> QED
      BY <1>4, <1>5, <2>1, <3>1
  <2> QED
    BY <1>3, <2>1, <2>2
<1>7. Blamed(failed) /\ CarriedWithin(failed, transfers) /\ Counted(failed, units)
  BY <1>3 DEF Settled, Blamed, CarriedWithin, Counted
<1> QED
  BY <1>2, <1>3, <1>6, <1>7 DEF Settled, failed

LEMMA EnterSharedRecordsLeads ==
  ASSUME plan \in MirrorPlan, NEW m, NEW from \in 1..(Len(plan.shared) + 1),
         Settled(m, Len(plan.transfers), from - 1, 0, AnalysisUnits(m.metadata))
  PROVE  Leads(m, EnterSharedRecords(m, from))
<1> DEFINE end == Len(plan.shared)
           placed == {k \in from..end : PlacedAt(m, k) # NoPath}
           lost(upto) == {plan.shared[k].track : k \in from..upto}
<1>1. m \in Machine
  BY DEF Settled
<1>2. end \in Nat /\ from - 1 \in Nat
  BY PlanLengths
<1>3. ASSUME NEW upto \in Int, upto <= end
      PROVE  lost(upto) \in SUBSET Track
  <2>1. ASSUME NEW k \in from..upto
        PROVE  plan.shared[k].track \in Track
    <3>1. k \in 1..Len(plan.shared)
      BY <1>2, <1>3
    <3>2. plan.shared[k] \in SharedRecord
      BY <3>1, PlanParts, ElementOfSeq
    <3> QED
      BY <3>2 DEF SharedRecord
  <2> QED
    BY <2>1
<1>4. CASE m.cancelled
  BY <1>4, CancelledEnds DEF EnterSharedRecords
<1>5. CASE ~m.cancelled /\ placed = {}
  <2> DEFINE tracks == lost(end)
             failed == FailTracks(m, tracks)
  <2>1. tracks \in SUBSET Track
    BY <1>2, <1>3
  <2>2. \A k \in (from - 1 + 1)..end : plan.shared[k].track \in tracks
    <3>1. from - 1 + 1 = from
      OBVIOUS
    <3> QED
      BY <3>1
  <2>3. EnterSharedRecords(m, from) = EnterAnalysisWrites(failed, 1)
    BY <1>5 DEF EnterSharedRecords
  <2> HIDE DEF tracks, placed, lost
  <2>4. /\ Settled(failed, Len(plan.transfers), end, 0, AnalysisUnits(m.metadata))
        /\ failed.ledger = m.ledger /\ failed.metadata = m.metadata
        /\ failed.cancelled = m.cancelled
        /\ failed.carried = m.carried /\ failed.deferred = m.deferred
    BY <1>2, <2>1, <2>2, FailTracksSettles
  <2> HIDE DEF failed
  <2>5. /\ Len(plan.analysis) \in Nat /\ CueUnits(m.metadata) \in Nat
    BY <1>1, PlanLengths, MachineParts, UnitTypes
  <2>6. /\ 1 \in 1..(Len(plan.analysis) + 1)
        /\ AnalysisUnits(m.metadata)
             = Len(plan.analysis) + 1 - 1 + CueUnits(m.metadata)
    BY <2>5 DEF AnalysisUnits
  <2>7. SettledFiles(failed, Len(plan.analysis) + 1 - 1 + CueUnits(failed.metadata))
    BY <2>4, <2>6, Zenon DEF SettledFiles
  <2>8. Leads(failed, EnterAnalysisWrites(failed, 1))
    BY <2>6, <2>7, EnterAnalysisWritesLeads
  <2>9. failed.ledger = m.ledger
    BY <2>4
  <2> QED
    BY <2>3, <2>4, <2>8 DEF Leads
<1>6. CASE ~m.cancelled /\ placed # {}
  <2> DEFINE next == Least(placed)
             tracks == lost(next - 1)
             failed == FailTracks(m, tracks)
             awaited == Await(failed, "recordShared", next)
             entered == [awaited EXCEPT !.sharedPath = PlacedAt(m, next)]
             at == [stage |-> "recordShared", index |-> next]
  <2>1. next \in from..end /\ PlacedAt(m, next) # NoPath
    <3>1. placed \in SUBSET Nat
      BY <1>2
    <3>2. next \in placed
      BY <1>6, <3>1, LeastIndex
    <3> QED
      BY <3>2
  <2>2. EnterSharedRecords(m, from) = entered
    BY <1>6 DEF EnterSharedRecords
  <2> HIDE DEF next, placed
  <2>3. next \in Nat /\ next - 1 \in Int /\ next - 1 <= end
    BY <1>2, <2>1
  <2>4. tracks \in SUBSET Track
    BY <1>3, <2>3
  <2>5. \A k \in (from - 1 + 1)..next :
          PlacedAt(m, k) # NoPath \/ plan.shared[k].track \in tracks
    <3> SUFFICES ASSUME NEW k \in (from - 1 + 1)..next
                 PROVE  PlacedAt(m, k) # NoPath \/ plan.shared[k].track \in tracks
      OBVIOUS
    <3>1. k = next \/ k \in from..(next - 1)
      BY <1>2, <2>1, <2>3
    <3> QED
      BY <2>1, <3>1
  <2> HIDE DEF tracks, lost
  <2>6. /\ Settled(failed, Len(plan.transfers), next, 0, AnalysisUnits(m.metadata))
        /\ failed.ledger = m.ledger /\ failed.metadata = m.metadata
        /\ failed.cancelled = m.cancelled
        /\ failed.carried = m.carried /\ failed.deferred = m.deferred
    BY <1>2, <2>3, <2>4, <2>5, FailTracksSettles
  <2> HIDE DEF failed
  <2>7. failed \in Machine
    BY <2>6 DEF Settled
  <2>8. /\ awaited \in Machine /\ awaited.at = at
        /\ Frame(failed, awaited) /\ awaited.ledger = failed.ledger
    <3>1. "recordShared" \in Stages
      BY DEF Stages
    <3> QED
      BY <2>3, <2>7, <3>1, AwaitType, AwaitFrame
  <2> HIDE DEF awaited
  <2>9. entered.at = at /\ Frame(awaited, entered) /\ entered.ledger = awaited.ledger
    BY <2>8 DEF Machine, Frame
  <2> HIDE DEF entered
  <2>10. /\ Frame(failed, entered) /\ SameLedger(failed, entered)
         /\ entered.ledger.unit = 0
    BY <2>6, <2>8, <2>9, FrameTransitive DEF SameLedger, Settled
  <2>11. Settled(failed, TransfersBehind(at), SharedBehind(at), ListsBehind(at),
                 UnitsLeft(at, failed.metadata))
    BY <2>6 DEF TransfersBehind, SharedBehind, ListsBehind, UnitsLeft,
                Opened, TransferStages, SidecarStages, ListStages
  <2>12. at.stage \notin Opened \cup {"recordFile", "done"}
    BY DEF Opened
  <2> HIDE DEF at
  <2>13. Leads(failed, entered)
    BY <2>9, <2>10, <2>11, <2>12, EnteredLeads
  <2> QED
    BY <2>2, <2>6, <2>13 DEF Leads
<1> QED
  BY <1>1, <1>4, <1>5, <1>6, MachineParts

LEMMA FrameSettles ==
  ASSUME NEW m, NEW n \in Machine, Frame(m, n), n.ledger = m.ledger,
         NEW transfers, NEW shared, NEW lists, NEW units,
         Settled(m, transfers, shared, lists, units)
  PROVE  Settled(n, transfers, shared, lists, units)
<1>1. Reached(n, transfers, shared, lists)
  BY DEF Settled, Reached, Unfailed, PlacedAt, Frame
<1> QED
  BY <1>1 DEF Settled, Blamed, CarriedWithin, Counted, Frame

\* What is settled when transfer `k` is the next one.
SettledTransfers(m, k) ==
  Settled(m, k - 1, 0, 0, Len(plan.transfers) + 1 - k + AnalysisUnits(m.metadata))

LEMMA StartCopyLeads ==
  ASSUME plan \in MirrorPlan, NEW m, NEW k \in 1..Len(plan.transfers),
         SettledTransfers(m, k)
  PROVE  Leads(m, StartCopy(m, k))
<1> DEFINE bytes == IF m.transcoded THEN m.transcodedBytes
                    ELSE plan.transfers[k].bytes
           at == [stage |-> "copy", index |-> k]
<1>1. m \in Machine
  BY DEF SettledTransfers, Settled
<1>2. plan.transfers[k] \in Transfer
  BY PlanParts, ElementOfSeq
<1>3. bytes \in Nat
  BY <1>1, <1>2 DEF Transfer, Machine
<1>4. StartCopy(m, k) = Await(Show(Begin(m, bytes), "copying"), "copy", k)
  BY DEF StartCopy
<1> HIDE DEF bytes
<1>5. Settled(m, TransfersBehind(at), SharedBehind(at), ListsBehind(at),
              UnitsLeft(at, m.metadata))
  BY DEF SettledTransfers, TransfersBehind, SharedBehind, ListsBehind, UnitsLeft,
         Opened, TransferStages, SidecarStages, ListStages
<1>6. "copy" \notin Opened \cup {"recordFile", "done"}
  BY DEF Opened
<1>7. k \in Nat
  BY PlanLengths
<1> QED
  BY <1>3, <1>4, <1>5, <1>6, <1>7, Names, UnitLeads

LEMMA EnterTransfersLeads ==
  ASSUME plan \in MirrorPlan, NEW m, NEW from \in 1..(Len(plan.transfers) + 1),
         SettledTransfers(m, from)
  PROVE  Leads(m, EnterTransfers(m, from))
<1> DEFINE fresh == [m EXCEPT !.transcoded = FALSE, !.transcodedBytes = 0,
                              !.copiedBytes = 0, !.copiedPath = NoPath]
<1>1. m \in Machine
  BY DEF SettledTransfers, Settled
<1>2. /\ Len(plan.transfers) \in Nat /\ Len(plan.shared) \in Nat
      /\ AnalysisUnits(m.metadata) \in Nat
  BY <1>1, PlanLengths, MachineParts, UnitTypes
<1>3. CASE m.cancelled
  <2>1. from - 1 \in 0..Len(plan.transfers)
    BY <1>2
  <2>2. Leads(m, Finish(m))
    BY <1>3, <2>1, CancelledLeads DEF SettledTransfers
  <2> QED
    BY <1>3, <2>2 DEF EnterTransfers
<1>4. CASE ~m.cancelled /\ from > Len(plan.transfers)
  <2>1. /\ from - 1 = Len(plan.transfers)
        /\ Len(plan.transfers) + 1 - from + AnalysisUnits(m.metadata)
             = AnalysisUnits(m.metadata)
        /\ 1 - 1 = 0 /\ 1 \in 1..(Len(plan.shared) + 1)
    BY <1>2, <1>4
  <2>2. Settled(m, Len(plan.transfers), 1 - 1, 0, AnalysisUnits(m.metadata))
    BY <2>1, Zenon DEF SettledTransfers
  <2> QED
    BY <1>4, <2>1, <2>2, EnterSharedRecordsLeads DEF EnterTransfers
<1>5. CASE ~m.cancelled /\ ~(from > Len(plan.transfers))
  <2>1. from \in Nat /\ from \in 1..Len(plan.transfers)
    BY <1>2, <1>5
  <2>2. \/ EnterTransfers(m, from)
             = Await(Show(Begin(fresh, 0), "transcoding"), "transcode", from)
        \/ EnterTransfers(m, from) = StartCopy(fresh, from)
    BY <1>5 DEF EnterTransfers
  <2>3. fresh \in Machine /\ Frame(m, fresh) /\ fresh.ledger = m.ledger
    BY <1>1 DEF Machine, PathOrNone, Frame
  <2> HIDE DEF fresh
  <2>4. SettledTransfers(fresh, from)
    BY <2>3, FrameSettles DEF SettledTransfers, Frame
  <2>5. Leads(fresh, StartCopy(fresh, from))
    BY <2>1, <2>4, StartCopyLeads
  <2>6. Leads(fresh, Await(Show(Begin(fresh, 0), "transcoding"), "transcode", from))
    <3> DEFINE at == [stage |-> "transcode", index |-> from]
    <3>1. Settled(fresh, TransfersBehind(at), SharedBehind(at), ListsBehind(at),
                  UnitsLeft(at, fresh.metadata))
      BY <2>4 DEF SettledTransfers, TransfersBehind, SharedBehind, ListsBehind,
             UnitsLeft, Opened, TransferStages, SidecarStages, ListStages
    <3>2. "transcode" \notin Opened \cup {"recordFile", "done"}
      BY DEF Opened
    <3> QED
      BY <2>1, <3>1, <3>2, Names, UnitLeads
  <2> QED
    BY <2>2, <2>3, <2>5, <2>6 DEF Leads, Frame
<1> QED
  BY <1>1, <1>3, <1>4, <1>5, <1>2

-----------------------------------------------------------------------------
(* A unit in flight, and how the handlers end it.                          *)

\* As Settled, while the bytes of a unit may be shown.
InUnit(m, transfers, shared, lists, units) ==
  /\ m \in Machine
  /\ m.outcome = "none"
  /\ Blamed(m)
  /\ LedgerCapped(m.ledger)
  /\ CarriedWithin(m, transfers)
  /\ Counted(m, units)
  /\ Reached(m, transfers, shared, lists)

\* A run that failed or was cancelled owes nothing of what it has behind it.
LEMMA FailedInUnit ==
  ASSUME NEW m, NEW n \in Machine, NEW units,
         NEW before, NEW sharedBefore, NEW listsBefore,
         InUnit(m, before, sharedBefore, listsBefore, units),
         before \in Nat, NEW transfers \in Nat, before <= transfers,
         NEW shared, NEW lists,
         n.ledger = m.ledger, n.outcome = m.outcome, n.carried = m.carried,
         ~Unfailed(n), Blamed(n)
  PROVE  InUnit(n, transfers, shared, lists, units)
<1>1. CarriedWithin(n, transfers)
  BY DEF InUnit, CarriedWithin
<1>2. Reached(n, transfers, shared, lists)
  BY DEF Reached
<1> QED
  BY <1>1, <1>2 DEF InUnit, Counted

LEMMA CompleteSettles ==
  ASSUME NEW m, NEW bytes \in Nat, NEW units \in Nat, NEW open,
         NEW transfers, NEW shared, NEW lists,
         InUnit(m, transfers, shared, lists, open), open = units + 1
  PROVE  LET completed == Complete(m, bytes)
         IN  /\ Settled(completed, transfers, shared, lists, units)
             /\ Frame(m, completed) /\ Onward(m.ledger, completed.ledger)
<1> DEFINE completed == Complete(m, bytes)
<1>1. m \in Machine /\ completed \in Machine
  BY CompleteType DEF InUnit
<1>2. /\ Frame(m, completed)
      /\ LedgerCapped(completed.ledger) /\ completed.ledger.unit = 0
      /\ Onward(m.ledger, completed.ledger)
      /\ m.ledger.done < m.ledger.total =>
           completed.ledger.done = m.ledger.done + 1
  BY <1>1, CompleteFrame DEF InUnit
<1> HIDE DEF completed
<1>3. m.ledger.done \in Nat /\ m.ledger.total \in Nat
  BY <1>1, MachineParts, LedgerFields
<1>4. Counted(completed, units)
  BY <1>2, <1>3 DEF InUnit, Counted, Onward
<1>5. completed.outcome = "none" /\ Blamed(completed)
      /\ CarriedWithin(completed, transfers)
  BY <1>2 DEF InUnit, Blamed, CarriedWithin, Frame
<1>6. Reached(completed, transfers, shared, lists)
  BY <1>2 DEF InUnit, Reached, Unfailed, PlacedAt, Frame
<1> QED
  BY <1>1, <1>2, <1>4, <1>5, <1>6 DEF Settled, completed

\* Every path set aside belongs to a track whose new file is recorded elsewhere.
Warranted(m, entry) ==
  \/ \E k \in DOMAIN plan.transfers :
       /\ plan.transfers[k].track = entry.track
       /\ plan.transfers[k].previous = entry.path
       /\ m.carried[entry.track] \notin {NoPath, entry.path}
  \/ \E k \in DOMAIN plan.shared :
       /\ plan.shared[k].track = entry.track
       /\ plan.shared[k].previous = entry.path
       /\ plan.shared[k].previous \notin plan.desired

DeferredSound(m) == \A d \in DOMAIN m.deferred : Warranted(m, m.deferred[d])

\* Before its first stage a run has lost nothing and shows what it will begin with.
Opening ==
  run.at.stage \in Opened =>
    /\ run.absent = {} /\ ~run.staleList /\ run.deferred = <<>>
    /\ run.at.stage = "partials" => run.phase = OpeningPhase

\* The plan transfers no track twice.
TransfersOnce ==
  \A j, k \in DOMAIN plan.transfers :
    plan.transfers[j].track = plan.transfers[k].track => j = k

\* The inductive invariant of the runs.
RunInv ==
  /\ Inv
  /\ TransfersOnce
  /\ Accounted(run)
  /\ DeferredSound(run)
  /\ Opening

\* What an answer makes of the run.
Advances(m) ==
  /\ Accounted(m)
  /\ DeferredSound(m)
  /\ m.at.stage \notin Opened
  /\ Onward(run.ledger, m.ledger)

LEMMA LedToAdvances ==
  ASSUME RunInv, NEW m \in Machine, NEW n \in Machine, Leads(m, n),
         Onward(run.ledger, m.ledger), DeferredSound(m)
  PROVE  Advances(n)
<1>1. run.ledger \in Ledger /\ m.ledger \in Ledger /\ n.ledger \in Ledger
  BY RunParts, MachineParts DEF RunInv
<1>2. Onward(run.ledger, n.ledger)
  BY <1>1, OnwardTransitive DEF Leads
<1>3. DeferredSound(n)
  BY DEF DeferredSound, Warranted, Leads
<1> QED
  BY <1>2, <1>3 DEF Advances, Leads

\* The run when an answer comes.
LEMMA RunInUnit ==
  ASSUME RunInv, run.at.stage # "done"
  PROVE  /\ InUnit(run, TransfersBehind(run.at), SharedBehind(run.at),
                   ListsBehind(run.at), UnitsLeft(run.at, run.metadata))
         /\ plan \in MirrorPlan /\ run \in Machine /\ Inv
         /\ DeferredSound(run)
  BY RunParts DEF RunInv, Accounted, InUnit

LEMMA RunOnward ==
  ASSUME RunInv
  PROVE  Onward(run.ledger, run.ledger)
  BY RunParts, OnwardSame DEF RunInv, SameLedger

\* A machine that took note of a failure, and of nothing else a run is asked for.
Blames(m, n) ==
  /\ ~Unfailed(n) /\ Blamed(n)
  /\ n.ledger = m.ledger /\ n.outcome = m.outcome /\ n.metadata = m.metadata
  /\ n.carried = m.carried /\ n.deferred = m.deferred

LEMMA FailBlames ==
  ASSUME NEW m \in Machine, m.published \subseteq PlannedSources,
         NEW track \in Track \cup {Unattributed}
  PROVE  Fail(m, track) \in Machine /\ Blames(m, Fail(m, track))
<1> DEFINE failed == Fail(m, track)
<1>1. failed \in Machine
  BY FailType
<1>2. /\ failed.failures = m.failures \cup {track} /\ failed.published = m.published
      /\ failed.ledger = m.ledger /\ failed.outcome = m.outcome
      /\ failed.metadata = m.metadata
      /\ failed.carried = m.carried /\ failed.deferred = m.deferred
  BY DEF Machine, Fail
<1> HIDE DEF failed
<1>3. failed.failures # {}
  BY <1>2
<1> QED
  BY <1>1, <1>2, <1>3 DEF Blames, Unfailed, Blamed, failed

LEMMA FailUnpublishedBlames ==
  ASSUME plan \in MirrorPlan, NEW m \in Machine, m.published \subseteq PlannedSources,
         NEW k \in 1..Len(plan.transfers)
  PROVE  FailUnpublished(m, k) \in Machine /\ Blames(m, FailUnpublished(m, k))
<1> DEFINE failed == Fail(m, plan.transfers[k].track)
           absent == failed.absent \cup {plan.transfers[k].path}
           unpublished == [failed EXCEPT !.absent = absent]
<1>1. plan.transfers[k] \in Transfer
  BY PlanParts, ElementOfSeq
<1>2. plan.transfers[k].track \in Track
  BY <1>1 DEF Transfer
<1>3. failed \in Machine /\ Blames(m, failed)
  BY <1>2, FailBlames
<1>4. FailUnpublished(m, k) = unpublished
  BY DEF FailUnpublished
<1>5. FailUnpublished(m, k) \in Machine
  BY FailUnpublishedType
<1> HIDE DEF failed, absent
<1>6. /\ unpublished.failures = failed.failures
      /\ unpublished.cancelled = failed.cancelled
      /\ unpublished.published = failed.published
      /\ unpublished.ledger = failed.ledger /\ unpublished.outcome = failed.outcome
      /\ unpublished.metadata = failed.metadata
      /\ unpublished.carried = failed.carried
      /\ unpublished.deferred = failed.deferred
  BY <1>3 DEF Machine
<1> HIDE DEF unpublished
<1>7. failed.cancelled = m.cancelled
  BY DEF Machine, Fail, failed
<1>8. ~Unfailed(unpublished) /\ Blamed(unpublished)
  <2>1. failed.failures # {}
    BY DEF Machine, Fail, failed
  <2> QED
    BY <1>3, <1>6, <2>1 DEF Blames, Unfailed, Blamed
<1> QED
  BY <1>3, <1>4, <1>5, <1>6, <1>8 DEF Blames

LEMMA DeferredSame ==
  ASSUME NEW m, NEW n, n.carried = m.carried, n.deferred = m.deferred,
         DeferredSound(m)
  PROVE  DeferredSound(n)
  BY DEF DeferredSound, Warranted

\* The unit is completed: the run stands between two entries of the plan.
LEMMA UnitCompleted ==
  ASSUME RunInv, NEW base, NEW bytes \in Nat, NEW units \in Nat, NEW open,
         NEW transfers, NEW shared, NEW lists,
         base.ledger = run.ledger, DeferredSound(base), open = units + 1,
         InUnit(base, transfers, shared, lists, open)
  PROVE  LET completed == Complete(base, bytes)
         IN  /\ Settled(completed, transfers, shared, lists, units)
             /\ completed \in Machine /\ completed.metadata = base.metadata
             /\ Onward(run.ledger, completed.ledger)
             /\ DeferredSound(completed)
<1> DEFINE completed == Complete(base, bytes)
<1>1. /\ Settled(completed, transfers, shared, lists, units)
      /\ Frame(base, completed) /\ Onward(base.ledger, completed.ledger)
  BY CompleteSettles
<1> HIDE DEF completed
<1>2. DeferredSound(completed)
  BY <1>1, DeferredSame DEF Frame
<1> QED
  BY <1>1, <1>2 DEF Settled, Frame, completed

\* ... and so is one that failed.
LEMMA FailedUnitCompleted ==
  ASSUME RunInv, run.at.stage # "done", NEW base \in Machine, Blames(run, base),
         NEW units \in Nat, UnitsLeft(run.at, run.metadata) = units + 1,
         TransfersBehind(run.at) \in Nat, NEW transfers \in Nat,
         TransfersBehind(run.at) <= transfers, NEW shared, NEW lists
  PROVE  LET completed == Complete(base, 0)
         IN  /\ Settled(completed, transfers, shared, lists, units)
             /\ completed \in Machine /\ completed.metadata = run.metadata
             /\ Onward(run.ledger, completed.ledger)
             /\ DeferredSound(completed)
<1>1. InUnit(base, transfers, shared, lists, UnitsLeft(run.at, run.metadata))
  BY RunInUnit, FailedInUnit DEF Blames
<1>2. DeferredSound(base)
  BY RunInUnit, DeferredSame DEF Blames
<1> QED
  BY <1>1, <1>2, UnitCompleted DEF Blames

\* A handler that stays with its entry for the second half of the unit.
LEMMA SecondHalfAdvances ==
  ASSUME RunInv, NEW stage \in Stages, Index \in Nat,
         <<run.at.stage, stage>> \in
           {<<"writeList", "recordList">>, <<"removeList", "forgetList">>,
            <<"removeTrack", "forgetFile">>}
  PROVE  Advances(Await(run, stage, Index))
<1> DEFINE entered == Await(run, stage, Index)
           at == [stage |-> stage, index |-> Index]
<1>1. run \in Machine /\ plan \in MirrorPlan
  BY RunParts DEF RunInv
<1>2. entered.at = at /\ Frame(run, entered) /\ entered.ledger = run.ledger
  BY <1>1, AwaitType, AwaitFrame
<1>3. /\ TransfersBehind(at) = TransfersBehind(run.at)
      /\ SharedBehind(at) = SharedBehind(run.at)
      /\ ListsBehind(at) = ListsBehind(run.at)
      /\ UnitsLeft(at, run.metadata) = UnitsLeft(run.at, run.metadata)
  BY DEF Index, TransfersBehind, SharedBehind, ListsBehind, UnitsLeft,
         Opened, TransferStages, SidecarStages, ListStages
<1>4. /\ run.ledger.unit = 0 /\ run.at.stage # "done"
  BY DEF RunInv, Accounted, SidecarStages
<1>5. Settled(run, TransfersBehind(at), SharedBehind(at), ListsBehind(at),
              UnitsLeft(at, run.metadata))
  BY <1>3, <1>4, RunInUnit DEF InUnit, Settled
<1>6. at.stage \notin Opened \cup {"recordFile", "done"}
  BY DEF Opened
<1>7. entered \in Machine
  BY <1>1, AwaitType
<1> HIDE DEF entered, at
<1>8. Leads(run, entered)
  BY <1>2, <1>4, <1>5, <1>6, EnteredLeads DEF SameLedger
<1>9. DeferredSound(run)
  BY DEF RunInv
<1> QED
  BY <1>1, <1>7, <1>8, <1>9, RunOnward, LedToAdvances DEF entered

-----------------------------------------------------------------------------
(* The handlers: each answer makes the run advance.                        *)

LEMMA OneUnitLess ==
  ASSUME NEW length \in Nat, NEW index \in 1..length, NEW tail \in Nat
  PROVE  /\ index \in Nat /\ index - 1 \in Nat /\ index - 1 <= index
         /\ index + 1 \in 1..(length + 1) /\ index + 1 - 1 = index
         /\ length + 1 - (index + 1) + tail \in Nat
         /\ length + 1 - index + tail = length + 1 - (index + 1) + tail + 1
  OBVIOUS

LEMMA InTransfers ==
  ASSUME RunInv, run.at.stage \in TransferStages
  PROVE  /\ run.at.stage # "done" /\ plan.transfers[Index] \in Transfer
         /\ Index \in Nat /\ Index - 1 \in Nat /\ Index - 1 <= Index
         /\ Index \in 1..Len(plan.transfers)
         /\ Index + 1 \in 1..(Len(plan.transfers) + 1) /\ Index + 1 - 1 = Index
         /\ TransfersBehind(run.at) = Index - 1 /\ SharedBehind(run.at) = 0
         /\ ListsBehind(run.at) = 0
         /\ UnitsLeft(run.at, run.metadata)
              = Len(plan.transfers) + 1 - Index + AnalysisUnits(run.metadata)
         /\ Len(plan.transfers) + 1 - (Index + 1) + AnalysisUnits(run.metadata) \in Nat
         /\ UnitsLeft(run.at, run.metadata)
              = Len(plan.transfers) + 1 - (Index + 1) + AnalysisUnits(run.metadata) + 1
<1>1. Index \in 1..Len(plan.transfers)
  BY NextIndex DEF RunInv, TransferStages, StageLength
<1>2. /\ run.at.stage # "done"
      /\ TransfersBehind(run.at) = Index - 1 /\ SharedBehind(run.at) = 0
      /\ ListsBehind(run.at) = 0
      /\ UnitsLeft(run.at, run.metadata)
           = Len(plan.transfers) + 1 - Index + AnalysisUnits(run.metadata)
  BY DEF Index, TransfersBehind, SharedBehind, ListsBehind, UnitsLeft,
         Opened, TransferStages, SidecarStages, ListStages
<1>3. plan \in MirrorPlan /\ run \in Machine
  BY RunParts DEF RunInv
<1>4. Len(plan.transfers) \in Nat /\ AnalysisUnits(run.metadata) \in Nat
  BY <1>3, PlanLengths, MachineParts, UnitTypes
<1>5. plan.transfers[Index] \in Transfer
  BY <1>1, <1>3, PlanParts, ElementOfSeq
<1>6. /\ Index \in Nat /\ Index - 1 \in Nat /\ Index - 1 <= Index
      /\ Index + 1 \in 1..(Len(plan.transfers) + 1) /\ Index + 1 - 1 = Index
      /\ Len(plan.transfers) + 1 - (Index + 1) + AnalysisUnits(run.metadata) \in Nat
      /\ Len(plan.transfers) + 1 - Index + AnalysisUnits(run.metadata)
           = Len(plan.transfers) + 1 - (Index + 1) + AnalysisUnits(run.metadata) + 1
  <2> DEFINE length == Len(plan.transfers)
             tail == AnalysisUnits(run.metadata)
  <2>1. length \in Nat /\ tail \in Nat /\ Index \in 1..length
    BY <1>1, <1>4
  <2> HIDE DEF length, tail
  <2>2. /\ Index \in Nat /\ Index - 1 \in Nat /\ Index - 1 <= Index
        /\ Index + 1 \in 1..(length + 1) /\ Index + 1 - 1 = Index
        /\ length + 1 - (Index + 1) + tail \in Nat
        /\ length + 1 - Index + tail = length + 1 - (Index + 1) + tail + 1
    BY <2>1, OneUnitLess
  <2> QED
    BY <2>2 DEF length, tail
<1> QED
  BY <1>1, <1>2, <1>5, <1>6

\* The next transfer, after one that ended.
LEMMA NextTransferAdvances ==
  ASSUME RunInv, run.at.stage \in TransferStages, NEW m \in Machine,
         Settled(m, Index, 0, 0,
                 Len(plan.transfers) + 1 - (Index + 1) + AnalysisUnits(run.metadata)),
         m.metadata = run.metadata, Onward(run.ledger, m.ledger), DeferredSound(m)
  PROVE  Advances(EnterTransfers(m, Index + 1))
<1>1. plan \in MirrorPlan
  BY RunParts DEF RunInv
<1>2. SettledTransfers(m, Index + 1)
  <2> SUFFICES ASSUME NEW k, k = Index + 1
               PROVE  SettledTransfers(m, k)
    OBVIOUS
  <2>1. Index \in Nat
    BY InTransfers
  <2>2. k - 1 = Index
    BY <2>1
  <2> QED
    BY <2>2, Zenon DEF SettledTransfers
<1>3. Leads(m, EnterTransfers(m, Index + 1))
  BY <1>1, <1>2, InTransfers, EnterTransfersLeads
<1>4. EnterTransfers(m, Index + 1) \in Machine
  <2>0. Index \in Nat
    BY InTransfers
  <2>1. Index + 1 \in Nat \ {0}
    BY <2>0
  <2> QED
    BY <1>1, <2>1, EnterTransfersSound DEF Sound
<1> QED
  BY <1>3, <1>4, LedToAdvances

LEMMA PartialsCleanedAdvances ==
  ASSUME RunInv, NEW ok \in BOOLEAN, PartialsCleaned(ok)
  PROVE  Advances(run')
<1>1. /\ run.at.stage = "partials" /\ run \in Machine /\ plan \in MirrorPlan
      /\ DeferredSound(run)
  BY RunParts DEF RunInv, PartialsCleaned, Awaiting
<1>2. /\ TransfersBehind(run.at) = 0 /\ SharedBehind(run.at) = 0
      /\ ListsBehind(run.at) = 0
      /\ UnitsLeft(run.at, run.metadata) = TransferUnits(run.metadata)
  BY <1>1 DEF TransfersBehind, SharedBehind, ListsBehind, UnitsLeft,
              Opened, TransferStages, SidecarStages, ListStages
<1>3. Settled(run, 0, 0, 0, TransferUnits(run.metadata))
  <2>1. run.ledger.unit = 0
    BY <1>1 DEF RunInv, Accounted, SidecarStages
  <2> QED
    BY <1>1, <1>2, <2>1, RunInUnit DEF InUnit, Settled
<1>4. Len(plan.transfers) \in Nat /\ AnalysisUnits(run.metadata) \in Nat
  BY <1>1, PlanLengths, MachineParts, UnitTypes
<1>5. CASE ok
  <2>1. /\ 1 - 1 = 0 /\ 1 \in 1..(Len(plan.transfers) + 1)
        /\ TransferUnits(run.metadata)
             = Len(plan.transfers) + 1 - 1 + AnalysisUnits(run.metadata)
    BY <1>4 DEF TransferUnits
  <2>2. SettledTransfers(run, 1)
    BY <1>3, <2>1, Zenon DEF SettledTransfers
  <2>3. Leads(run, EnterTransfers(run, 1))
    BY <1>1, <2>1, <2>2, EnterTransfersLeads
  <2>4. EnterTransfers(run, 1) \in Machine
    BY <1>1, EnterTransfersSound DEF Sound
  <2>5. run' = EnterTransfers(run, 1)
    BY <1>5 DEF PartialsCleaned, Handle
  <2> QED
    BY <1>1, <2>3, <2>4, <2>5, RunOnward, LedToAdvances
<1>6. CASE ~ok
  <2> DEFINE stopped == StopStage(run)
  <2>1. /\ stopped \in Machine /\ stopped.terminalError = TRUE
        /\ stopped.ledger = run.ledger /\ stopped.carried = run.carried
        /\ stopped.deferred = run.deferred
    BY <1>1, StopStageType DEF Machine, StopStage
  <2>2. run' = Finish(stopped)
    BY <1>6 DEF PartialsCleaned, Handle
  <2> HIDE DEF stopped
  <2>3. CarriedWithin(stopped, Len(plan.transfers))
    BY <1>3, <1>4, <2>1 DEF Settled, CarriedWithin
  <2>4. Leads(stopped, Finish(stopped))
    BY <1>1, <1>3, <2>1, <2>3, FinishLeads DEF Settled
  <2>5. Finish(stopped) \in Machine
    BY <1>1, <2>1, FinishFrame
  <2>6. DeferredSound(stopped)
    BY <1>1, <2>1, DeferredSame
  <2> QED
    BY <2>1, <2>2, <2>4, <2>5, <2>6, RunOnward, LedToAdvances
<1> QED
  BY <1>5, <1>6

\* A transfer that failed is behind the run, too.
LEMMA FailedTransferAdvances ==
  ASSUME RunInv, run.at.stage \in TransferStages,
         NEW base \in Machine, Blames(run, base)
  PROVE  Advances(EnterTransfers(Complete(base, 0), Index + 1))
<1> DEFINE units == Len(plan.transfers) + 1 - (Index + 1) + AnalysisUnits(run.metadata)
           completed == Complete(base, 0)
<1>1. /\ units \in Nat /\ UnitsLeft(run.at, run.metadata) = units + 1
      /\ run.at.stage # "done" /\ Index \in Nat
      /\ TransfersBehind(run.at) = Index - 1 /\ Index - 1 \in Nat /\ Index - 1 <= Index
  BY InTransfers
<1> HIDE DEF units
<1>2. /\ Settled(completed, Index, 0, 0, units)
      /\ completed \in Machine /\ completed.metadata = run.metadata
      /\ Onward(run.ledger, completed.ledger) /\ DeferredSound(completed)
  BY <1>1, FailedUnitCompleted
<1> HIDE DEF completed
<1>3. Advances(EnterTransfers(completed, Index + 1))
  BY <1>2, NextTransferAdvances DEF units
<1> QED
  BY <1>3 DEF completed

\* A failed transfer whose file is absent from then on.
LEMMA UnpublishedBlames ==
  ASSUME RunInv, run.at.stage \in TransferStages
  PROVE  /\ FailUnpublished(run, Index) \in Machine
         /\ Blames(run, FailUnpublished(run, Index))
<1>1. run.published \subseteq PlannedSources
  BY InTransfers DEF RunInv, Accounted, Blamed
<1> QED
  BY <1>1, InTransfers, RunParts, FailUnpublishedBlames DEF RunInv

LEMMA TranscodedAdvances ==
  ASSUME RunInv, NEW ok \in BOOLEAN, NEW bytes \in Bytes, Transcoded(ok, bytes)
  PROVE  Advances(run')
<1>1. /\ run.at.stage = "transcode" /\ run.at.stage \in TransferStages
      /\ run \in Machine /\ plan \in MirrorPlan
  BY RunParts DEF RunInv, Transcoded, Awaiting, TransferStages
<1>2. CASE ok
  <2> DEFINE done == [run EXCEPT !.transcoded = TRUE, !.transcodedBytes = bytes]
  <2>1. done \in Machine /\ Frame(run, done) /\ done.ledger = run.ledger
    BY <1>1, BytesAreNatural DEF Machine, Frame
  <2>2. run' = StartCopy(done, Index)
    BY <1>2 DEF Transcoded, Handle
  <2> HIDE DEF done
  <2>3. run.ledger.unit = 0
    BY <1>1 DEF RunInv, Accounted, SidecarStages
  <2>4. Settled(run, TransfersBehind(run.at), SharedBehind(run.at),
                ListsBehind(run.at), UnitsLeft(run.at, run.metadata))
    BY <1>1, <2>3, RunInUnit DEF InUnit, Settled
  <2>5. SettledTransfers(run, Index)
    BY <1>1, <2>4, InTransfers DEF SettledTransfers
  <2>6. SettledTransfers(done, Index)
    BY <2>1, <2>5, FrameSettles DEF SettledTransfers, Frame
  <2>7. Leads(done, StartCopy(done, Index))
    BY <1>1, <2>6, InTransfers, StartCopyLeads
  <2>8. StartCopy(done, Index) \in Machine
    BY <1>1, <2>1, InTransfers, StartCopySound DEF Sound
  <2>9. DeferredSound(done)
    BY <2>1, DeferredSame DEF RunInv, Frame
  <2> QED
    BY <2>1, <2>2, <2>7, <2>8, <2>9, RunOnward, LedToAdvances
<1>3. CASE ~ok
  <2>1. run' = EnterTransfers(Complete(FailUnpublished(run, Index), 0), Index + 1)
    BY <1>3 DEF Transcoded, Handle
  <2> QED
    BY <1>1, <2>1, UnpublishedBlames, FailedTransferAdvances
<1> QED
  BY <1>2, <1>3

LEMMA TrackCopiedAdvances ==
  ASSUME RunInv, NEW ok \in BOOLEAN, NEW bytes \in Bytes, NEW path \in Path,
         TrackCopied(ok, bytes, path)
  PROVE  Advances(run')
<1>1. /\ run.at.stage = "copy" /\ run.at.stage \in TransferStages
      /\ run \in Machine /\ plan \in MirrorPlan /\ Index \in Nat
  BY RunParts DEF RunInv, TrackCopied, Awaiting, TransferStages, Index
<1>2. CASE ok
  <2> DEFINE copied == [run EXCEPT !.copiedBytes = bytes, !.copiedPath = path]
             recording == Await(copied, "recordFile", Index)
             at == [stage |-> "recordFile", index |-> Index]
  <2>1. /\ copied \in Machine /\ Frame(run, copied) /\ copied.ledger = run.ledger
        /\ copied.copiedPath = path
    BY <1>1, BytesAreNatural DEF Machine, PathOrNone, Frame
  <2>2. run' = recording
    BY <1>2 DEF TrackCopied, Handle
  <2> HIDE DEF copied
  <2>3. /\ recording.at = at /\ Frame(copied, recording)
        /\ recording.ledger = copied.ledger
        /\ recording.copiedPath = copied.copiedPath
    <3>1. "recordFile" \in Stages
      BY DEF Stages
    <3>2. recording.copiedPath = copied.copiedPath
      BY <2>1 DEF Machine, Await
    <3> QED
      BY <1>1, <2>1, <3>1, <3>2, AwaitType, AwaitFrame
  <2> HIDE DEF recording
  <2>4. Frame(run, recording) /\ recording.ledger = run.ledger
    BY <2>1, <2>3, FrameTransitive
  <2>5. /\ TransfersBehind(at) = TransfersBehind(run.at)
        /\ SharedBehind(at) = SharedBehind(run.at)
        /\ ListsBehind(at) = ListsBehind(run.at)
        /\ UnitsLeft(at, run.metadata) = UnitsLeft(run.at, run.metadata)
    BY <1>1 DEF Index, TransfersBehind, SharedBehind, ListsBehind, UnitsLeft,
           Opened, TransferStages, SidecarStages, ListStages
  <2> HIDE DEF at
  <2>6. InUnit(run, TransfersBehind(at), SharedBehind(at), ListsBehind(at),
               UnitsLeft(at, run.metadata))
    BY <1>1, <2>5, RunInUnit
  <2>7. Reached(recording, TransfersBehind(at), SharedBehind(at), ListsBehind(at))
    BY <2>4, <2>6 DEF InUnit, Reached, Unfailed, PlacedAt, Frame
  <2>8. /\ recording.outcome = "none" /\ Blamed(recording)
        /\ LedgerCapped(recording.ledger)
        /\ CarriedWithin(recording, TransfersBehind(at))
        /\ Counted(recording, UnitsLeft(at, recording.metadata))
    BY <2>4, <2>6 DEF InUnit, Blamed, CarriedWithin, Counted, Frame
  <2>9. at.stage = "recordFile" /\ recording.copiedPath # NoPath
    BY <2>1, <2>3, NoPathIsNoPath DEF at
  <2>10. Accounted(recording)
    BY <2>3, <2>7, <2>8, <2>9 DEF Accounted
  <2>11. DeferredSound(recording)
    BY <2>4, DeferredSame DEF RunInv, Frame
  <2> QED
    BY <2>2, <2>3, <2>4, <2>9, <2>10, <2>11, RunOnward DEF Advances, Opened
<1>3. CASE ~ok
  <2> DEFINE base == IF run.cancelled THEN run ELSE FailUnpublished(run, Index)
  <2>1. run' = EnterTransfers(Complete(base, 0), Index + 1)
    BY <1>3 DEF TrackCopied, Handle
  <2>2. Blamed(run)
    BY <1>1 DEF RunInv, Accounted
  <2>3. base \in Machine /\ Blames(run, base)
    BY <1>1, <2>2, UnpublishedBlames DEF Blames, Unfailed
  <2> HIDE DEF base
  <2> QED
    BY <1>1, <2>1, <2>3, FailedTransferAdvances
<1> QED
  BY <1>2, <1>3

\* What Recorded makes of the two things it changes.
LEMMA RecordedParts ==
  ASSUME plan \in MirrorPlan, NEW m \in Machine, NEW k \in 1..Len(plan.transfers)
  PROVE  LET recorded == Recorded(m, k)
             transfer == plan.transfers[k]
         IN  /\ recorded \in Machine
             /\ recorded.carried = [m.carried EXCEPT ![transfer.track] = m.copiedPath]
             /\ \/ recorded.deferred = m.deferred
                \/ /\ recorded.deferred
                        = Append(m.deferred, [path |-> transfer.previous,
                                              track |-> transfer.track])
                   /\ transfer.previous \notin {NoPath, m.copiedPath}
             /\ recorded.ledger = m.ledger /\ recorded.outcome = m.outcome
             /\ recorded.metadata = m.metadata /\ recorded.cancelled = m.cancelled
             /\ recorded.failures = m.failures /\ recorded.published = m.published
             /\ recorded.absent = m.absent /\ recorded.staleList = m.staleList
<1> DEFINE transfer == plan.transfers[k]
           moved == transfer.previous # NoPath /\ transfer.previous # m.copiedPath
           kept == IF moved THEN Defer(m, transfer.previous, transfer.track) ELSE m
           carried == [kept.carried EXCEPT ![transfer.track] = m.copiedPath]
<1>1. transfer \in Transfer
  BY PlanParts, ElementOfSeq
<1>2. transfer.track \in Track /\ transfer.previous \in PathOrNone
  BY <1>1 DEF Transfer
<1>3. kept \in Machine
  BY <1>2, DeferType DEF PathOrNone
<1>4. Recorded(m, k) = [kept EXCEPT !.carried = carried]
  BY DEF Recorded
<1>5. Recorded(m, k) \in Machine
  BY RecordedType
<1>6. /\ \/ kept.deferred = m.deferred
         \/ /\ kept.deferred = Append(m.deferred, [path |-> transfer.previous,
                                                   track |-> transfer.track])
            /\ transfer.previous \notin {NoPath, m.copiedPath}
      /\ kept.carried = m.carried
      /\ kept.ledger = m.ledger /\ kept.outcome = m.outcome
      /\ kept.metadata = m.metadata /\ kept.cancelled = m.cancelled
      /\ kept.failures = m.failures /\ kept.published = m.published
      /\ kept.absent = m.absent /\ kept.staleList = m.staleList
  <2> HIDE DEF transfer
  <2> QED
    BY DEF Defer, Machine
<1> HIDE DEF kept, transfer
<1>7. carried = [m.carried EXCEPT ![transfer.track] = m.copiedPath]
  BY <1>6
<1> HIDE DEF carried
<1>8. /\ Recorded(m, k).carried = carried /\ Recorded(m, k).deferred = kept.deferred
      /\ Recorded(m, k).ledger = kept.ledger /\ Recorded(m, k).outcome = kept.outcome
      /\ Recorded(m, k).metadata = kept.metadata
      /\ Recorded(m, k).cancelled = kept.cancelled
      /\ Recorded(m, k).failures = kept.failures
      /\ Recorded(m, k).published = kept.published
      /\ Recorded(m, k).absent = kept.absent
      /\ Recorded(m, k).staleList = kept.staleList
  BY <1>3, <1>4 DEF Machine
<1> QED
  BY <1>5, <1>6, <1>7, <1>8 DEF transfer

\* A path set aside by an earlier transfer stays warranted when another is recorded.
LEMMA RecordedDeferredSound ==
  ASSUME RunInv, run.at.stage = "recordFile", NEW m,
         m.carried = [run.carried EXCEPT ![plan.transfers[Index].track] = run.copiedPath],
         \/ m.deferred = run.deferred
         \/ /\ m.deferred = Append(run.deferred,
                                   [path |-> plan.transfers[Index].previous,
                                    track |-> plan.transfers[Index].track])
            /\ plan.transfers[Index].previous \notin {NoPath, run.copiedPath}
  PROVE  DeferredSound(m)
<1> DEFINE transfer == plan.transfers[Index]
           entry == [path |-> transfer.previous, track |-> transfer.track]
<1>1. run.at.stage \in TransferStages /\ TransfersOnce
  BY DEF RunInv, TransferStages
<1>2. /\ transfer \in Transfer /\ Index \in DOMAIN plan.transfers
      /\ Index \in Nat /\ TransfersBehind(run.at) = Index - 1
  <2>1. Len(plan.transfers) \in Nat /\ plan.transfers \in Seq(Transfer)
    BY RunParts, PlanParts, PlanLengths DEF RunInv
  <2> QED
    BY <1>1, <2>1, InTransfers
<1>3. /\ transfer.track \in Track /\ run.carried \in [Track -> PathOrNone]
      /\ run.deferred \in Seq([path : Path, track : Track])
  BY <1>2, RunParts DEF RunInv, Transfer
<1>4. \A d \in DOMAIN run.deferred : Warranted(m, run.deferred[d])
  <2> SUFFICES ASSUME NEW d \in DOMAIN run.deferred, NEW e, e = run.deferred[d]
               PROVE  Warranted(m, e)
    OBVIOUS
  <2>1. Warranted(run, e)
    BY DEF RunInv, DeferredSound
  <2>2. e.track \in Track
    <3>1. d \in 1..Len(run.deferred)
      BY <1>3
    <3>2. run.deferred[d] \in [path : Path, track : Track]
      BY <1>3, <3>1, ElementOfSeq
    <3> QED
      BY <3>2
  <2>3. CASE run.carried[e.track] # NoPath
    <3>1. CarriedWithin(run, Index - 1)
      BY <1>2 DEF RunInv, Accounted
    <3>2. PICK j \in 1..(Index - 1) : plan.transfers[j].track = e.track
      BY <2>2, <2>3, <3>1 DEF CarriedWithin
    <3>3. j \in DOMAIN plan.transfers /\ j # Index
      <4>1. Len(plan.transfers) \in Nat /\ plan.transfers \in Seq(Transfer)
            /\ Index \in 1..Len(plan.transfers)
        BY <1>1, RunParts, PlanParts, PlanLengths, InTransfers DEF RunInv
      <4>2. j \in 1..Len(plan.transfers) /\ j # Index
        BY <3>2, <4>1
      <4> QED
        BY <4>1, <4>2
    <3>4. e.track # transfer.track
      BY <1>1, <1>2, <3>2, <3>3 DEF TransfersOnce
    <3>5. m.carried[e.track] = run.carried[e.track]
      BY <1>3, <2>2, <3>4
    <3> QED
      BY <2>1, <3>5 DEF Warranted
  <2>4. CASE run.carried[e.track] = NoPath
    BY <2>1, <2>4 DEF Warranted
  <2> QED
    BY <2>3, <2>4
<1>5. CASE m.deferred = run.deferred
  BY <1>4, <1>5 DEF DeferredSound
<1>6. CASE /\ m.deferred = Append(run.deferred, entry)
           /\ transfer.previous \notin {NoPath, run.copiedPath}
  <2>1. m.carried[transfer.track] = run.copiedPath
    BY <1>3
  <2>2. run.copiedPath # NoPath
    BY DEF RunInv, Accounted
  <2>3. entry.path = transfer.previous /\ entry.track = transfer.track
    OBVIOUS
  <2> HIDE DEF entry
  <2>4. Warranted(m, entry)
    BY <1>2, <1>6, <2>1, <2>2, <2>3 DEF Warranted
  <2>5. ASSUME NEW d \in DOMAIN m.deferred
        PROVE  \/ d \in DOMAIN run.deferred /\ m.deferred[d] = run.deferred[d]
               \/ m.deferred[d] = entry
    BY <1>3, <1>6
  <2> QED
    BY <1>4, <2>4, <2>5 DEF DeferredSound
<1> QED
  BY <1>5, <1>6

LEMMA FileRecordedAdvances ==
  ASSUME RunInv, NEW ok \in BOOLEAN, FileRecorded(ok)
  PROVE  Advances(run')
<1> DEFINE transfer == plan.transfers[Index]
           recorded == IF ok THEN Recorded(run, Index) ELSE Fail(run, transfer.track)
           settled == [recorded EXCEPT !.copiedPath = NoPath, !.copiedBytes = 0]
           units == Len(plan.transfers) + 1 - (Index + 1) + AnalysisUnits(run.metadata)
           completed == Complete(settled, run.copiedBytes)
<1>1. /\ run.at.stage = "recordFile" /\ run.at.stage \in TransferStages
      /\ run \in Machine /\ plan \in MirrorPlan /\ run.copiedBytes \in Nat
  BY RunParts DEF RunInv, FileRecorded, Awaiting, TransferStages
<1>2. /\ units \in Nat /\ UnitsLeft(run.at, run.metadata) = units + 1
      /\ Index \in Nat /\ TransfersBehind(run.at) = Index - 1
      /\ SharedBehind(run.at) = 0 /\ ListsBehind(run.at) = 0
      /\ Index \in 1..Len(plan.transfers)
      /\ Index - 1 \in Nat /\ Index - 1 <= Index
      /\ transfer \in Transfer
  BY <1>1, InTransfers
<1>3. run' = EnterTransfers(completed, Index + 1)
  BY DEF FileRecorded, Handle
<1>4. transfer.track \in Track
  BY <1>2 DEF Transfer
<1>5. recorded \in Machine
  BY <1>1, <1>2, <1>4, RecordedType, FailType
<1> HIDE DEF units, recorded
<1>6. /\ settled \in Machine /\ Frame(recorded, settled)
      /\ settled.ledger = recorded.ledger
  BY <1>5 DEF Machine, PathOrNone, Frame
<1> HIDE DEF settled
<1>7. InUnit(run, Index - 1, 0, 0, units + 1) /\ DeferredSound(run)
  BY <1>1, <1>2, RunInUnit
<1>8. CASE ok
  <2>1. /\ recorded.carried = [run.carried EXCEPT ![transfer.track] = run.copiedPath]
        /\ \/ recorded.deferred = run.deferred
           \/ /\ recorded.deferred
                   = Append(run.deferred, [path |-> transfer.previous,
                                           track |-> transfer.track])
              /\ transfer.previous \notin {NoPath, run.copiedPath}
        /\ recorded.ledger = run.ledger /\ recorded.outcome = run.outcome
        /\ recorded.metadata = run.metadata /\ recorded.cancelled = run.cancelled
        /\ recorded.failures = run.failures /\ recorded.published = run.published
        /\ recorded.absent = run.absent /\ recorded.staleList = run.staleList
    BY <1>1, <1>2, <1>8, RecordedParts DEF recorded
  <2>2. DeferredSound(recorded)
    BY <1>1, <2>1, RecordedDeferredSound
  <2>3. DeferredSound(settled)
    BY <1>6, <2>2, DeferredSame DEF Frame
  <2>4. /\ settled.outcome = "none" /\ Blamed(settled) /\ LedgerCapped(settled.ledger)
        /\ Counted(settled, units + 1)
    BY <1>6, <1>7, <2>1 DEF InUnit, Blamed, LedgerCapped, Counted, Frame
  <2>5. run.carried \in [Track -> PathOrNone] /\ run.copiedPath # NoPath
    BY <1>1, RunParts DEF RunInv, Accounted
  <2>6. \A t \in Track : settled.carried[t]
                           = IF t = transfer.track THEN run.copiedPath ELSE run.carried[t]
    BY <1>4, <1>6, <2>1, <2>5 DEF Frame
  <2>7. CarriedWithin(settled, Index)
    <3> SUFFICES ASSUME NEW t \in Track, settled.carried[t] # NoPath
                 PROVE  \E j \in 1..Index : plan.transfers[j].track = t
      BY DEF CarriedWithin
    <3>1. CASE t = transfer.track
      BY <1>2, <3>1
    <3>2. CASE t # transfer.track
      <4>1. PICK j \in 1..(Index - 1) : plan.transfers[j].track = t
        BY <1>7, <2>6, <3>2 DEF InUnit, CarriedWithin
      <4> QED
        BY <1>2, <4>1
    <3> QED
      BY <3>1, <3>2
  <2>8. Reached(settled, Index, 0, 0)
    <3> SUFFICES ASSUME Unfailed(settled)
                 PROVE  \A k \in 1..Index : settled.carried[plan.transfers[k].track] # NoPath
      BY DEF Reached
    <3>1. Unfailed(run)
      BY <1>6, <2>1 DEF Unfailed, Frame
    <3> TAKE k \in 1..Index
    <3>2. plan.transfers[k].track \in Track
      <4>1. k \in 1..Len(plan.transfers)
        BY <1>2, PlanLengths, <1>1
      <4>2. plan.transfers[k] \in Transfer
        BY <1>1, <4>1, PlanParts, ElementOfSeq
      <4> QED
        BY <4>2 DEF Transfer
    <3>3. CASE k = Index
      BY <1>4, <2>5, <2>6, <3>3
    <3>4. CASE k # Index
      <4>1. k \in 1..(Index - 1)
        BY <1>2, <3>4
      <4>2. run.carried[plan.transfers[k].track] # NoPath
        BY <1>7, <3>1, <4>1 DEF InUnit, Reached
      <4> QED
        BY <2>5, <2>6, <3>2, <4>2
    <3> QED
      BY <3>3, <3>4
  <2>9. InUnit(settled, Index, 0, 0, units + 1)
    BY <1>6, <2>4, <2>7, <2>8 DEF InUnit
  <2>10. settled.ledger = run.ledger /\ settled.metadata = run.metadata
    BY <1>6, <2>1 DEF Frame
  <2>11. /\ Settled(completed, Index, 0, 0, units)
         /\ completed \in Machine /\ completed.metadata = settled.metadata
         /\ Onward(run.ledger, completed.ledger) /\ DeferredSound(completed)
    BY <1>1, <1>2, <2>3, <2>9, <2>10, UnitCompleted
  <2> HIDE DEF completed
  <2> QED
    BY <1>1, <1>3, <2>10, <2>11, NextTransferAdvances DEF units
<1>9. CASE ~ok
  <2>1. recorded = Fail(run, transfer.track)
    BY <1>9 DEF recorded
  <2>2. run.published \subseteq PlannedSources
    BY <1>7 DEF InUnit, Blamed
  <2>3. Blames(run, recorded)
    BY <1>1, <1>4, <2>1, <2>2, FailBlames
  <2>4. Blames(run, settled)
    BY <1>6, <2>3 DEF Blames, Frame, Unfailed, Blamed
  <2>5. InUnit(settled, Index, 0, 0, units + 1)
    BY <1>2, <1>6, <1>7, <2>4, FailedInUnit DEF Blames
  <2>6. DeferredSound(settled)
    BY <1>7, <2>4, DeferredSame DEF Blames
  <2>7. settled.ledger = run.ledger /\ settled.metadata = run.metadata
    BY <2>4 DEF Blames
  <2>8. /\ Settled(completed, Index, 0, 0, units)
        /\ completed \in Machine /\ completed.metadata = settled.metadata
        /\ Onward(run.ledger, completed.ledger) /\ DeferredSound(completed)
    BY <1>1, <1>2, <2>5, <2>6, <2>7, UnitCompleted
  <2> HIDE DEF completed
  <2> QED
    BY <1>1, <1>3, <2>7, <2>8, NextTransferAdvances DEF units
<1> QED
  BY <1>8, <1>9

\* What DeferSharedPrevious makes of the one thing it changes.
LEMMA DeferSharedPreviousParts ==
  ASSUME plan \in MirrorPlan, NEW m \in Machine, NEW k \in 1..Len(plan.shared)
  PROVE  LET deferred == DeferSharedPrevious(m, k)
             shared == plan.shared[k]
         IN  /\ deferred \in Machine
             /\ \/ deferred.deferred = m.deferred
                \/ /\ deferred.deferred
                        = Append(m.deferred, [path |-> shared.previous,
                                              track |-> shared.track])
                   /\ shared.previous \notin plan.desired
             /\ deferred.carried = m.carried
             /\ deferred.ledger = m.ledger /\ deferred.outcome = m.outcome
             /\ deferred.metadata = m.metadata /\ deferred.cancelled = m.cancelled
             /\ deferred.failures = m.failures /\ deferred.published = m.published
             /\ deferred.absent = m.absent /\ deferred.staleList = m.staleList
<1> DEFINE shared == plan.shared[k]
           deferred == Defer(m, shared.previous, shared.track)
<1>1. shared \in SharedRecord
  BY PlanParts, ElementOfSeq
<1>2. shared.track \in Track /\ shared.previous \in PathOrNone
  BY <1>1 DEF SharedRecord
<1>3. CASE shared.previous = NoPath \/ shared.previous \in plan.desired
  BY <1>3 DEF DeferSharedPrevious
<1>4. CASE shared.previous # NoPath /\ shared.previous \notin plan.desired
  <2>1. deferred \in Machine
    BY <1>2, <1>4, DeferType DEF PathOrNone
  <2>2. DeferSharedPrevious(m, k) = m \/ DeferSharedPrevious(m, k) = deferred
    BY DEF DeferSharedPrevious
  <2>3. /\ deferred.deferred = Append(m.deferred, [path |-> shared.previous,
                                                   track |-> shared.track])
        /\ deferred.carried = m.carried
        /\ deferred.ledger = m.ledger /\ deferred.outcome = m.outcome
        /\ deferred.metadata = m.metadata /\ deferred.cancelled = m.cancelled
        /\ deferred.failures = m.failures /\ deferred.published = m.published
        /\ deferred.absent = m.absent /\ deferred.staleList = m.staleList
    <3> HIDE DEF shared
    <3> QED
      BY DEF Defer, Machine
  <2> HIDE DEF deferred
  <2> QED
    BY <1>4, <2>1, <2>2, <2>3
<1> QED
  BY <1>3, <1>4

\* What Settled looks at.
LEMMA SettlesAlike ==
  ASSUME NEW m, NEW n \in Machine, NEW transfers, NEW shared, NEW lists, NEW units,
         Settled(m, transfers, shared, lists, units),
         n.ledger = m.ledger, n.outcome = m.outcome, n.carried = m.carried,
         n.failures = m.failures, n.cancelled = m.cancelled,
         n.published = m.published, n.absent = m.absent, n.staleList = m.staleList
  PROVE  Settled(n, transfers, shared, lists, units)
<1>1. Reached(n, transfers, shared, lists)
  BY DEF Settled, Reached, Unfailed, PlacedAt
<1> QED
  BY <1>1 DEF Settled, Blamed, CarriedWithin, Counted

LEMMA SharedFileRecordedAdvances ==
  ASSUME RunInv, NEW ok \in BOOLEAN, SharedFileRecorded(ok)
  PROVE  Advances(run')
<1> DEFINE shared == plan.shared[Index]
           recorded == IF ok THEN DeferSharedPrevious(run, Index)
                       ELSE Fail(run, shared.track)
           settled == [recorded EXCEPT !.sharedPath = NoPath]
           units == AnalysisUnits(run.metadata)
           entry == [path |-> shared.previous, track |-> shared.track]
<1>1. /\ run.at.stage = "recordShared" /\ run \in Machine /\ plan \in MirrorPlan
      /\ Len(plan.shared) \in Nat /\ run.deferred \in Seq([path : Path, track : Track])
  BY RunParts, PlanLengths DEF RunInv, SharedFileRecorded, Awaiting
<1>2. Index \in 1..Len(plan.shared)
  BY <1>1, NextIndex DEF RunInv, StageLength
<1>3. /\ TransfersBehind(run.at) = Len(plan.transfers) /\ SharedBehind(run.at) = Index
      /\ ListsBehind(run.at) = 0 /\ UnitsLeft(run.at, run.metadata) = units
  BY <1>1 DEF Index, TransfersBehind, SharedBehind, ListsBehind, UnitsLeft,
              Opened, TransferStages, SidecarStages, ListStages
<1>4. shared \in SharedRecord /\ shared.track \in Track
  <2>1. shared \in SharedRecord
    BY <1>1, <1>2, PlanParts, ElementOfSeq
  <2> QED
    BY <2>1 DEF SharedRecord
<1>5. Settled(run, Len(plan.transfers), Index, 0, units) /\ DeferredSound(run)
  <2>1. run.ledger.unit = 0
    BY <1>1 DEF RunInv, Accounted, SidecarStages
  <2> QED
    BY <1>1, <1>3, <2>1, RunInUnit DEF InUnit, Settled
<1>6. run' = EnterSharedRecords(settled, Index + 1)
  BY DEF SharedFileRecorded, Handle
<1>7. recorded \in Machine
  BY <1>1, <1>2, <1>4, DeferSharedPreviousParts, FailType
<1> HIDE DEF recorded, units
<1>8. settled \in Machine /\ Frame(recorded, settled) /\ settled.ledger = recorded.ledger
  BY <1>7 DEF Machine, PathOrNone, Frame
<1> HIDE DEF settled
<1>9. /\ settled.ledger = run.ledger /\ settled.carried = run.carried
      /\ settled.metadata = run.metadata
      /\ Settled(settled, Len(plan.transfers), Index, 0, units)
      /\ DeferredSound(settled)
  <2>1. CASE ok
    <3>1. /\ \/ recorded.deferred = run.deferred
             \/ /\ recorded.deferred = Append(run.deferred, entry)
                /\ shared.previous \notin plan.desired
          /\ recorded.carried = run.carried
          /\ recorded.ledger = run.ledger /\ recorded.outcome = run.outcome
          /\ recorded.metadata = run.metadata /\ recorded.cancelled = run.cancelled
          /\ recorded.failures = run.failures /\ recorded.published = run.published
          /\ recorded.absent = run.absent /\ recorded.staleList = run.staleList
      BY <1>1, <1>2, <2>1, DeferSharedPreviousParts DEF recorded
    <3>2. Settled(settled, Len(plan.transfers), Index, 0, units)
      BY <1>5, <1>8, <3>1, SettlesAlike DEF Frame
    <3>3. DeferredSound(settled)
      <4>1. settled.deferred = recorded.deferred /\ settled.carried = run.carried
        BY <1>8, <3>1 DEF Frame
      <4>2. \A d \in DOMAIN run.deferred : Warranted(settled, run.deferred[d])
        BY <1>5, <4>1 DEF DeferredSound, Warranted
      <4>3. CASE recorded.deferred = run.deferred
        BY <4>1, <4>2, <4>3 DEF DeferredSound
      <4>4. CASE /\ recorded.deferred = Append(run.deferred, entry)
                 /\ shared.previous \notin plan.desired
        <5>1. entry.path = shared.previous /\ entry.track = shared.track
          OBVIOUS
        <5>2. Index \in DOMAIN plan.shared
          BY <1>1, <1>2, PlanParts
        <5> HIDE DEF entry
        <5>3. Warranted(settled, entry)
          BY <4>4, <5>1, <5>2 DEF Warranted
        <5>4. ASSUME NEW d \in DOMAIN settled.deferred
              PROVE  \/ d \in DOMAIN run.deferred /\ settled.deferred[d] = run.deferred[d]
                     \/ settled.deferred[d] = entry
          BY <1>1, <4>1, <4>4
        <5> QED
          BY <4>2, <5>3, <5>4 DEF DeferredSound
      <4> QED
        BY <3>1, <4>3, <4>4
    <3> QED
      BY <1>8, <3>1, <3>2, <3>3 DEF Frame
  <2>2. CASE ~ok
    <3>1. run.published \subseteq PlannedSources
      BY <1>5 DEF Settled, Blamed
    <3>2. Blames(run, recorded)
      BY <1>1, <1>4, <2>2, <3>1, FailBlames DEF recorded
    <3>3. Blames(run, settled)
      BY <1>8, <3>2 DEF Blames, Frame, Unfailed, Blamed
    <3>4. Settled(settled, Len(plan.transfers), Index, 0, units)
      <4>1. CarriedWithin(settled, Len(plan.transfers))
        BY <1>5, <3>3 DEF Blames, Settled, CarriedWithin
      <4>2. Reached(settled, Len(plan.transfers), Index, 0)
        BY <3>3 DEF Blames, Reached
      <4> QED
        BY <1>5, <1>8, <3>3, <4>1, <4>2 DEF Settled, Blames, Counted
    <3>5. DeferredSound(settled)
      BY <1>5, <3>3, DeferredSame DEF Blames
    <3> QED
      BY <3>3, <3>4, <3>5 DEF Blames
  <2> QED
    BY <2>1, <2>2
<1>10. PICK next : next = Index + 1
  OBVIOUS
<1>11. next - 1 = Index /\ next \in 1..(Len(plan.shared) + 1) /\ next \in Nat \ {0}
  BY <1>1, <1>2, <1>10
<1>12. Settled(settled, Len(plan.transfers), next - 1, 0, AnalysisUnits(settled.metadata))
  BY <1>9, <1>11, Zenon DEF units
<1>13. Leads(settled, EnterSharedRecords(settled, next))
  BY <1>1, <1>11, <1>12, EnterSharedRecordsLeads
<1>14. EnterSharedRecords(settled, next) \in Machine
  BY <1>1, <1>8, <1>11, EnterSharedRecordsSound DEF Sound
<1> QED
  BY <1>6, <1>8, <1>9, <1>10, <1>13, <1>14, RunOnward, LedToAdvances

\* An answer that claims no more than the run did so far.
LEMMA UnitEnded ==
  ASSUME RunInv, run.at.stage # "done", NEW base \in Machine, NEW bytes \in Nat,
         base = run \/ base = StopStage(run) \/ Blames(run, base),
         NEW units \in Nat, UnitsLeft(run.at, run.metadata) = units + 1,
         TransfersBehind(run.at) = Len(plan.transfers),
         NEW shared, shared = SharedBehind(run.at),
         NEW lists, lists = ListsBehind(run.at)
  PROVE  LET completed == Complete(base, bytes)
         IN  /\ Settled(completed, Len(plan.transfers), shared, lists, units)
             /\ completed \in Machine /\ completed.metadata = run.metadata
             /\ Onward(run.ledger, completed.ledger)
             /\ DeferredSound(completed)
<1>1. /\ InUnit(run, Len(plan.transfers), shared, lists, units + 1)
      /\ DeferredSound(run) /\ run \in Machine /\ plan \in MirrorPlan
  BY RunInUnit
<1>2. /\ InUnit(base, Len(plan.transfers), shared, lists, units + 1)
      /\ base.ledger = run.ledger /\ base.metadata = run.metadata
      /\ base.carried = run.carried /\ base.deferred = run.deferred
  <2>1. CASE base = run
    BY <1>1, <2>1
  <2>2. CASE base = StopStage(run)
    <3>1. /\ base.ledger = run.ledger /\ base.outcome = run.outcome
          /\ base.metadata = run.metadata /\ base.carried = run.carried
          /\ base.deferred = run.deferred /\ base.failures = run.failures
          /\ base.cancelled = run.cancelled /\ base.published = run.published
          /\ base.absent = run.absent /\ base.staleList = run.staleList
      BY <1>1, <2>2 DEF Machine, StopStage
    <3>2. Reached(base, Len(plan.transfers), shared, lists)
      BY <1>1, <3>1 DEF InUnit, Reached, Unfailed, PlacedAt
    <3> QED
      BY <1>1, <3>1, <3>2 DEF InUnit, Blamed, CarriedWithin, Counted
  <2>3. CASE Blames(run, base)
    <3>1. Len(plan.transfers) \in Nat /\ Len(plan.transfers) <= Len(plan.transfers)
      BY <1>1, PlanLengths
    <3>2. InUnit(base, Len(plan.transfers), shared, lists, units + 1)
      BY <1>1, <2>3, <3>1, FailedInUnit DEF Blames
    <3> QED
      BY <2>3, <3>2 DEF Blames
  <2> QED
    BY <2>1, <2>2, <2>3
<1>3. DeferredSound(base)
  BY <1>1, <1>2, DeferredSame
<1> QED
  BY <1>2, <1>3, UnitCompleted

\* Where a stage that walks through a list of the plan stands.
LEMMA InWalk ==
  ASSUME RunInv, NEW length \in Nat, NEW tail \in Nat, StageLength(run) = length,
         run.at.stage \notin {"start", "partials", "writeMetadata", "done"},
         UnitsLeft(run.at, run.metadata) = length + 1 - Index + tail
  PROVE  /\ Index \in 1..length /\ Index \in Nat /\ Index + 1 \in Nat \ {0}
         /\ Index + 1 \in 1..(length + 1) /\ Index + 1 - 1 = Index
         /\ length + 1 - (Index + 1) + tail \in Nat
         /\ UnitsLeft(run.at, run.metadata) = length + 1 - (Index + 1) + tail + 1
<1>1. Index \in 1..length
  BY NextIndex DEF RunInv
<1>2. /\ Index \in Nat /\ Index + 1 \in 1..(length + 1) /\ Index + 1 - 1 = Index
      /\ length + 1 - (Index + 1) + tail \in Nat
      /\ length + 1 - Index + tail = length + 1 - (Index + 1) + tail + 1
  BY <1>1, OneUnitLess
<1>3. Index + 1 \in Nat \ {0}
  BY <1>2
<1> QED
  BY <1>1, <1>2, <1>3

LEMMA AnalysisWrittenAdvances ==
  ASSUME RunInv, NEW ok \in BOOLEAN, NEW bytes \in Bytes, AnalysisWritten(ok, bytes)
  PROVE  Advances(run')
<1> DEFINE length == Len(plan.analysis)
           tail == CueUnits(run.metadata)
           base == IF ok THEN run ELSE StopStage(run)
           written == IF ok THEN bytes ELSE 0
           completed == Complete(base, written)
           units == length + 1 - (Index + 1) + tail
<1>1. /\ run.at.stage = "writeAnalysis" /\ run \in Machine /\ plan \in MirrorPlan
      /\ run.metadata \in BOOLEAN
  BY RunParts, MachineParts DEF RunInv, AnalysisWritten, Awaiting
<1>2. length \in Nat /\ tail \in Nat /\ StageLength(run) = length
  BY <1>1, PlanLengths, UnitTypes DEF StageLength
<1>3. /\ TransfersBehind(run.at) = Len(plan.transfers)
      /\ SharedBehind(run.at) = Len(plan.shared) /\ ListsBehind(run.at) = 0
      /\ UnitsLeft(run.at, run.metadata) = length + 1 - Index + tail
  BY <1>1 DEF Index, TransfersBehind, SharedBehind, ListsBehind, UnitsLeft,
              Opened, TransferStages, SidecarStages, ListStages
<1> HIDE DEF length, tail
<1>4. /\ Index \in Nat /\ Index + 1 \in Nat \ {0} /\ Index + 1 \in 1..(length + 1)
      /\ units \in Nat /\ UnitsLeft(run.at, run.metadata) = units + 1
  BY <1>1, <1>2, <1>3, InWalk
<1>5. run' = EnterAnalysisWrites(completed, Index + 1)
  BY DEF AnalysisWritten, Handle
<1>6. base \in Machine /\ written \in Nat /\ (base = run \/ base = StopStage(run))
  BY <1>1, BytesAreNatural, StopStageType
<1> HIDE DEF units, base, written
<1>7. /\ Settled(completed, Len(plan.transfers), Len(plan.shared), 0, units)
      /\ completed \in Machine /\ completed.metadata = run.metadata
      /\ Onward(run.ledger, completed.ledger) /\ DeferredSound(completed)
  BY <1>1, <1>3, <1>4, <1>6, UnitEnded
<1> HIDE DEF completed
<1>8. SettledFiles(completed, length + 1 - (Index + 1) + CueUnits(completed.metadata))
  BY <1>7, Zenon DEF SettledFiles, units, tail
<1>9. Leads(completed, EnterAnalysisWrites(completed, Index + 1))
  BY <1>1, <1>4, <1>8, EnterAnalysisWritesLeads DEF length
<1>10. EnterAnalysisWrites(completed, Index + 1) \in Machine
  BY <1>1, <1>4, <1>7, EnterAnalysisWritesSound DEF Sound
<1> QED
  BY <1>5, <1>7, <1>9, <1>10, LedToAdvances

LEMMA LyricsWrittenAdvances ==
  ASSUME RunInv, NEW ok \in BOOLEAN, NEW bytes \in Bytes, LyricsWritten(ok, bytes)
  PROVE  Advances(run')
<1> DEFINE length == Len(plan.lyrics)
           tail == ListUnits(run.metadata)
           base == IF ok THEN run ELSE StopStage(run)
           written == IF ok THEN bytes ELSE 0
           completed == Complete(base, written)
           units == length + 1 - (Index + 1) + tail
<1>1. /\ run.at.stage = "writeLyrics" /\ run \in Machine /\ plan \in MirrorPlan
      /\ run.metadata \in BOOLEAN
  BY RunParts, MachineParts DEF RunInv, LyricsWritten, Awaiting
<1>2. length \in Nat /\ tail \in Nat /\ StageLength(run) = length
  BY <1>1, PlanLengths, UnitTypes DEF StageLength
<1>3. /\ TransfersBehind(run.at) = Len(plan.transfers)
      /\ SharedBehind(run.at) = Len(plan.shared) /\ ListsBehind(run.at) = 0
      /\ UnitsLeft(run.at, run.metadata) = length + 1 - Index + tail
  BY <1>1 DEF Index, TransfersBehind, SharedBehind, ListsBehind, UnitsLeft,
              Opened, TransferStages, SidecarStages, ListStages
<1> HIDE DEF length, tail
<1>4. /\ Index \in Nat /\ Index + 1 \in Nat \ {0} /\ Index + 1 \in 1..(length + 1)
      /\ units \in Nat /\ UnitsLeft(run.at, run.metadata) = units + 1
  BY <1>1, <1>2, <1>3, InWalk
<1>5. run' = EnterLyricsWrites(completed, Index + 1)
  BY DEF LyricsWritten, Handle
<1>6. base \in Machine /\ written \in Nat /\ (base = run \/ base = StopStage(run))
  BY <1>1, BytesAreNatural, StopStageType
<1> HIDE DEF units, base, written
<1>7. /\ Settled(completed, Len(plan.transfers), Len(plan.shared), 0, units)
      /\ completed \in Machine /\ completed.metadata = run.metadata
      /\ Onward(run.ledger, completed.ledger) /\ DeferredSound(completed)
  BY <1>1, <1>3, <1>4, <1>6, UnitEnded
<1> HIDE DEF completed
<1>8. SettledFiles(completed, length + 1 - (Index + 1) + ListUnits(completed.metadata))
  BY <1>7, Zenon DEF SettledFiles, units, tail
<1>9. Leads(completed, EnterLyricsWrites(completed, Index + 1))
  BY <1>1, <1>4, <1>8, EnterLyricsWritesLeads DEF length
<1>10. EnterLyricsWrites(completed, Index + 1) \in Machine
  BY <1>1, <1>4, <1>7, EnterLyricsWritesSound DEF Sound
<1> QED
  BY <1>5, <1>7, <1>9, <1>10, LedToAdvances

LEMMA DerivedCueWrittenAdvances ==
  ASSUME RunInv, NEW ok \in BOOLEAN, NEW bytes \in Bytes, DerivedCueWritten(ok, bytes)
  PROVE  Advances(run')
<1> DEFINE length == Len(plan.cues)
           tail == LyricsUnits(run.metadata)
           failed == Fail(run, plan.cues[Index].track)
           base == IF ok THEN run ELSE failed
           written == IF ok THEN bytes ELSE 0
           completed == Complete(base, written)
           units == length + 1 - (Index + 1) + tail
<1>1. /\ run.at.stage = "writeCue" /\ run \in Machine /\ plan \in MirrorPlan
      /\ run.metadata \in BOOLEAN
  BY RunParts, MachineParts DEF RunInv, DerivedCueWritten, Awaiting
<1>2. length \in Nat /\ tail \in Nat /\ StageLength(run) = length
  BY <1>1, PlanLengths, UnitTypes DEF StageLength
<1>3. /\ TransfersBehind(run.at) = Len(plan.transfers)
      /\ SharedBehind(run.at) = Len(plan.shared) /\ ListsBehind(run.at) = 0
      /\ UnitsLeft(run.at, run.metadata) = length + 1 - Index + tail
  BY <1>1 DEF Index, TransfersBehind, SharedBehind, ListsBehind, UnitsLeft,
              Opened, TransferStages, SidecarStages, ListStages
<1> HIDE DEF length, tail
<1>4. /\ Index \in Nat /\ Index + 1 \in Nat \ {0} /\ Index + 1 \in 1..(length + 1)
      /\ Index \in 1..length
      /\ units \in Nat /\ UnitsLeft(run.at, run.metadata) = units + 1
  BY <1>1, <1>2, <1>3, InWalk
<1>5. run' = EnterCueWrites(completed, Index + 1)
  BY DEF DerivedCueWritten, Handle
<1>6. plan.cues[Index].track \in Track \cup {Unattributed}
  <2>1. plan.cues[Index] \in CueWrite
    BY <1>1, <1>4, PlanParts, ElementOfSeq DEF length
  <2> QED
    BY <2>1 DEF CueWrite
<1>7. failed \in Machine /\ Blames(run, failed)
  <2>1. run.published \subseteq PlannedSources
    BY <1>1, RunInUnit DEF InUnit, Blamed
  <2> QED
    BY <1>1, <1>6, <2>1, FailBlames
<1> HIDE DEF units, failed
<1>8. base \in Machine /\ written \in Nat /\ (base = run \/ Blames(run, base))
  BY <1>1, <1>7, BytesAreNatural
<1> HIDE DEF base, written
<1>9. /\ Settled(completed, Len(plan.transfers), Len(plan.shared), 0, units)
      /\ completed \in Machine /\ completed.metadata = run.metadata
      /\ Onward(run.ledger, completed.ledger) /\ DeferredSound(completed)
  BY <1>1, <1>3, <1>4, <1>8, UnitEnded
<1> HIDE DEF completed
<1>10. SettledFiles(completed, length + 1 - (Index + 1) + LyricsUnits(completed.metadata))
  BY <1>9, Zenon DEF SettledFiles, units, tail
<1>11. Leads(completed, EnterCueWrites(completed, Index + 1))
  BY <1>1, <1>4, <1>10, EnterCueWritesLeads DEF length
<1>12. EnterCueWrites(completed, Index + 1) \in Machine
  BY <1>1, <1>4, <1>9, EnterCueWritesSound DEF Sound, length
<1> QED
  BY <1>5, <1>9, <1>11, <1>12, LedToAdvances

\* Where the playlist stage stands.
LEMMA InLists ==
  ASSUME RunInv, run.at.stage \in ListStages
  PROVE  LET units == Len(plan.lists) + 1 - (Index + 1) + ListRemovalUnits(run.metadata)
         IN  /\ run \in Machine /\ plan \in MirrorPlan /\ run.at.stage # "done"
             /\ Len(plan.transfers) \in Nat
             /\ TransfersBehind(run.at) = Len(plan.transfers)
             /\ SharedBehind(run.at) = Len(plan.shared)
             /\ ListsBehind(run.at) = Index - 1
             /\ Index \in 1..Len(plan.lists) /\ Index \in Nat
             /\ Index + 1 \in Nat \ {0} /\ Index + 1 \in 1..(Len(plan.lists) + 1)
             /\ Index + 1 - 1 = Index
             /\ units \in Nat /\ UnitsLeft(run.at, run.metadata) = units + 1
<1> DEFINE length == Len(plan.lists)
           tail == ListRemovalUnits(run.metadata)
<1>1. run \in Machine /\ plan \in MirrorPlan /\ run.metadata \in BOOLEAN
  BY RunParts, MachineParts DEF RunInv
<1>2. length \in Nat /\ tail \in Nat /\ StageLength(run) = length
  BY <1>1, PlanLengths, UnitTypes DEF StageLength, ListStages
<1>3. /\ TransfersBehind(run.at) = Len(plan.transfers)
      /\ SharedBehind(run.at) = Len(plan.shared) /\ ListsBehind(run.at) = Index - 1
      /\ UnitsLeft(run.at, run.metadata) = length + 1 - Index + tail
  BY DEF Index, TransfersBehind, SharedBehind, ListsBehind, UnitsLeft,
         Opened, TransferStages, SidecarStages, ListStages
<1>4. run.at.stage \notin {"start", "partials", "writeMetadata", "done"}
  BY DEF ListStages
<1> HIDE DEF length, tail
<1>5. /\ Index \in 1..length /\ Index \in Nat /\ Index + 1 \in Nat \ {0}
      /\ Index + 1 \in 1..(length + 1) /\ Index + 1 - 1 = Index
      /\ length + 1 - (Index + 1) + tail \in Nat
      /\ UnitsLeft(run.at, run.metadata) = length + 1 - (Index + 1) + tail + 1
  BY <1>2, <1>3, <1>4, InWalk
<1> QED
  BY <1>1, <1>3, <1>4, <1>5, PlanLengths DEF length, tail

\* The next playlist, after one that ended.
LEMMA NextListAdvances ==
  ASSUME RunInv, run.at.stage \in ListStages, NEW m \in Machine,
         Settled(m, Len(plan.transfers), Len(plan.shared), Index,
                 Len(plan.lists) + 1 - (Index + 1) + ListRemovalUnits(run.metadata)),
         m.metadata = run.metadata, Onward(run.ledger, m.ledger), DeferredSound(m)
  PROVE  Advances(EnterPlaylistWrites(m, Index + 1))
<1>1. PICK next : next = Index + 1
  OBVIOUS
<1>2. next - 1 = Index /\ next \in Nat \ {0} /\ next \in 1..(Len(plan.lists) + 1)
  BY <1>1, InLists
<1>3. Settled(m, Len(plan.transfers), Len(plan.shared), next - 1,
              Len(plan.lists) + 1 - next + ListRemovalUnits(m.metadata))
  BY <1>1, <1>2, Zenon
<1>4. Leads(m, EnterPlaylistWrites(m, next))
  BY <1>2, <1>3, InLists, EnterPlaylistWritesLeads
<1>5. EnterPlaylistWrites(m, next) \in Machine
  BY <1>2, InLists, EnterPlaylistWritesSound DEF Sound
<1> QED
  BY <1>1, <1>4, <1>5, LedToAdvances

\* A playlist that failed is behind the run, too.
LEMMA FailedListAdvances ==
  ASSUME RunInv, run.at.stage \in ListStages
  PROVE  Advances(EnterPlaylistWrites(Complete(FailPlaylist(run), 0), Index + 1))
<1> DEFINE failed == Fail(run, Unattributed)
           units == Len(plan.lists) + 1 - (Index + 1) + ListRemovalUnits(run.metadata)
           completed == Complete(failed, 0)
<1>1. /\ run \in Machine /\ plan \in MirrorPlan /\ run.at.stage # "done"
      /\ units \in Nat /\ UnitsLeft(run.at, run.metadata) = units + 1
      /\ TransfersBehind(run.at) = Len(plan.transfers) /\ Len(plan.transfers) \in Nat
      /\ Len(plan.transfers) <= Len(plan.transfers)
  BY InLists
<1> HIDE DEF units
<1>2. run.published \subseteq PlannedSources
  BY <1>1, RunInUnit DEF InUnit, Blamed
<1>3. failed \in Machine /\ Blames(run, failed)
  BY <1>1, <1>2, FailBlames
<1> HIDE DEF failed
<1>4. /\ Settled(completed, Len(plan.transfers), Len(plan.shared), Index, units)
      /\ completed \in Machine /\ completed.metadata = run.metadata
      /\ Onward(run.ledger, completed.ledger) /\ DeferredSound(completed)
  BY <1>1, <1>3, FailedUnitCompleted
<1> HIDE DEF completed
<1>5. Advances(EnterPlaylistWrites(completed, Index + 1))
  BY <1>4, NextListAdvances DEF units
<1> QED
  BY <1>5 DEF completed, failed, FailPlaylist

LEMMA PlaylistWrittenAdvances ==
  ASSUME RunInv, NEW ok \in BOOLEAN, PlaylistWritten(ok)
  PROVE  Advances(run')
<1>1. run.at.stage = "writeList" /\ run.at.stage \in ListStages
  BY DEF PlaylistWritten, Awaiting, ListStages
<1>2. "recordList" \in Stages /\ Index \in Nat
  BY <1>1, InLists DEF Stages
<1>3. CASE ok
  BY <1>1, <1>2, <1>3, SecondHalfAdvances DEF PlaylistWritten, Handle
<1>4. CASE ~ok
  BY <1>1, <1>4, FailedListAdvances DEF PlaylistWritten, Handle
<1> QED
  BY <1>3, <1>4

LEMMA PlaylistRecordedAdvances ==
  ASSUME RunInv, NEW ok \in BOOLEAN, PlaylistRecorded(ok)
  PROVE  Advances(run')
<1> DEFINE source == plan.lists[Index].source
           published == run.published \cup {source}
           base == [run EXCEPT !.published = published]
           units == Len(plan.lists) + 1 - (Index + 1) + ListRemovalUnits(run.metadata)
           completed == Complete(base, 0)
<1>1. /\ run.at.stage \in ListStages /\ run \in Machine /\ plan \in MirrorPlan
      /\ run.at.stage # "done" /\ Index \in 1..Len(plan.lists) /\ Index \in Nat
      /\ units \in Nat /\ UnitsLeft(run.at, run.metadata) = units + 1
      /\ TransfersBehind(run.at) = Len(plan.transfers)
      /\ SharedBehind(run.at) = Len(plan.shared) /\ ListsBehind(run.at) = Index - 1
  BY InLists DEF PlaylistRecorded, Awaiting, ListStages
<1> HIDE DEF units
<1>2. CASE ok
  <2>1. run' = EnterPlaylistWrites(completed, Index + 1)
    BY <1>2 DEF PlaylistRecorded, Handle
  <2>2. source \in PlannedSources /\ source \in Source
    <3>1. Index \in DOMAIN plan.lists
      BY <1>1, PlanParts
    <3>2. source \in PlannedSources
      BY <3>1 DEF PlannedSources
    <3> QED
      BY <1>1, <3>2, PlannedSourcesType
  <2> HIDE DEF source
  <2>3. published \in SUBSET Source
    BY <1>1, <2>2, MachineParts
  <2>4. /\ base \in Machine /\ base.published = published
        /\ base.ledger = run.ledger /\ base.outcome = run.outcome
        /\ base.metadata = run.metadata /\ base.carried = run.carried
        /\ base.deferred = run.deferred /\ base.failures = run.failures
        /\ base.cancelled = run.cancelled
        /\ base.absent = run.absent /\ base.staleList = run.staleList
    <3> HIDE DEF published
    <3> QED
      BY <1>1, <2>3 DEF Machine
  <2> HIDE DEF base
  <2>5. /\ InUnit(run, Len(plan.transfers), Len(plan.shared), Index - 1, units + 1)
        /\ DeferredSound(run)
    BY <1>1, RunInUnit
  <2>6. Reached(base, Len(plan.transfers), Len(plan.shared), Index)
    <3> SUFFICES ASSUME Unfailed(base)
                 PROVE  /\ \A k \in 1..Len(plan.transfers) :
                             base.carried[plan.transfers[k].track] # NoPath
                        /\ \A k \in 1..Len(plan.shared) : PlacedAt(base, k) # NoPath
                        /\ \A k \in 1..Index : plan.lists[k].source \in base.published
      BY DEF Reached
    <3>1. Unfailed(run)
      BY <2>4 DEF Unfailed
    <3>2. \A k \in 1..Index : k \in 1..(Index - 1) \/ k = Index
      BY <1>1
    <3> QED
      BY <2>4, <2>5, <3>1, <3>2 DEF InUnit, Reached, PlacedAt, source
  <2>7. InUnit(base, Len(plan.transfers), Len(plan.shared), Index, units + 1)
    BY <2>2, <2>4, <2>5, <2>6 DEF InUnit, Blamed, CarriedWithin, Counted
  <2>8. DeferredSound(base)
    BY <2>4, <2>5, DeferredSame
  <2>9. /\ Settled(completed, Len(plan.transfers), Len(plan.shared), Index, units)
        /\ completed \in Machine /\ completed.metadata = base.metadata
        /\ Onward(run.ledger, completed.ledger) /\ DeferredSound(completed)
    BY <1>1, <2>4, <2>7, <2>8, UnitCompleted
  <2> HIDE DEF completed
  <2> QED
    BY <1>1, <2>1, <2>4, <2>9, NextListAdvances DEF units
<1>3. CASE ~ok
  BY <1>1, <1>3, FailedListAdvances DEF PlaylistRecorded, Handle
<1> QED
  BY <1>2, <1>3

\* The obsolete playlists: an answer that ends the unit.
LEMMA ListRemovalAdvances ==
  ASSUME RunInv, run.at.stage \in {"removeList", "forgetList"}, NEW base \in Machine,
         base = run \/ Blames(run, base)
  PROVE  Advances(EnterPlaylistRemovals(Complete(base, 0), Index + 1))
<1> DEFINE length == Len(plan.listRemovals)
           tail == RemovalUnits(run.metadata)
           completed == Complete(base, 0)
           units == length + 1 - (Index + 1) + tail
<1>1. /\ run \in Machine /\ plan \in MirrorPlan /\ run.metadata \in BOOLEAN
      /\ run.at.stage # "done"
  BY RunParts, MachineParts DEF RunInv
<1>2. length \in Nat /\ tail \in Nat /\ StageLength(run) = length
  BY <1>1, PlanLengths, UnitTypes DEF StageLength
<1>3. /\ TransfersBehind(run.at) = Len(plan.transfers)
      /\ SharedBehind(run.at) = Len(plan.shared)
      /\ ListsBehind(run.at) = Len(plan.lists)
      /\ UnitsLeft(run.at, run.metadata) = length + 1 - Index + tail
  BY DEF Index, TransfersBehind, SharedBehind, ListsBehind, UnitsLeft,
         Opened, TransferStages, SidecarStages, ListStages
<1> HIDE DEF length, tail
<1>4. /\ Index + 1 \in 1..(length + 1)
      /\ units \in Nat /\ UnitsLeft(run.at, run.metadata) = units + 1
  BY <1>2, <1>3, InWalk
<1> HIDE DEF units
<1>5. /\ Settled(completed, Len(plan.transfers), Len(plan.shared), Len(plan.lists), units)
      /\ completed \in Machine /\ completed.metadata = run.metadata
      /\ Onward(run.ledger, completed.ledger) /\ DeferredSound(completed)
  BY <1>1, <1>3, <1>4, UnitEnded
<1> HIDE DEF completed
<1>6. SettledLists(completed, length + 1 - (Index + 1) + RemovalUnits(completed.metadata))
  BY <1>5, Zenon DEF SettledLists, units, tail
<1>7. Leads(completed, EnterPlaylistRemovals(completed, Index + 1))
  BY <1>1, <1>4, <1>6, EnterPlaylistRemovalsLeads DEF length
<1>8. EnterPlaylistRemovals(completed, Index + 1) \in Machine
  BY <1>1, <1>4, <1>5, EnterPlaylistRemovalsSound DEF Sound, length
<1>9. Advances(EnterPlaylistRemovals(completed, Index + 1))
  BY <1>5, <1>7, <1>8, LedToAdvances
<1> QED
  BY <1>9 DEF completed

LEMMA PlaylistRemovedAdvances ==
  ASSUME RunInv, NEW ok \in BOOLEAN, PlaylistRemoved(ok)
  PROVE  Advances(run')
<1>1. /\ run.at.stage = "removeList" /\ run \in Machine /\ plan \in MirrorPlan
      /\ Index \in Nat
  BY RunParts DEF RunInv, PlaylistRemoved, Awaiting, Index
<1>2. run.published \subseteq PlannedSources
  BY <1>1, RunInUnit DEF InUnit, Blamed
<1>3. CASE ~ok
  <2> DEFINE stale == [run EXCEPT !.staleList = TRUE]
             failed == Fail(stale, Unattributed)
  <2>1. run' = EnterPlaylistRemovals(Complete(failed, 0), Index + 1)
    BY <1>3 DEF PlaylistRemoved, Handle, FailPlaylist
  <2>2. /\ stale \in Machine /\ stale.published = run.published
        /\ stale.ledger = run.ledger /\ stale.outcome = run.outcome
        /\ stale.metadata = run.metadata /\ stale.carried = run.carried
        /\ stale.deferred = run.deferred
    BY <1>1 DEF Machine
  <2> HIDE DEF stale
  <2>3. failed \in Machine /\ Blames(stale, failed)
    BY <1>1, <1>2, <2>2, FailBlames
  <2> HIDE DEF failed
  <2>4. Blames(run, failed)
    BY <2>2, <2>3 DEF Blames
  <2> QED
    BY <1>1, <2>1, <2>3, <2>4, ListRemovalAdvances
<1>4. CASE ok /\ plan.listRemovals[Index].source \in PlannedSources
  <2>1. run' = EnterPlaylistRemovals(Complete(run, 0), Index + 1)
    BY <1>4 DEF PlaylistRemoved, Handle
  <2> QED
    BY <1>1, <2>1, ListRemovalAdvances
<1>5. CASE ok /\ plan.listRemovals[Index].source \notin PlannedSources
  <2>1. run' = Await(run, "forgetList", Index)
    BY <1>5 DEF PlaylistRemoved, Handle
  <2>2. "forgetList" \in Stages
    BY DEF Stages
  <2> QED
    BY <1>1, <2>1, <2>2, SecondHalfAdvances
<1> QED
  BY <1>3, <1>4, <1>5

LEMMA PlaylistForgottenAdvances ==
  ASSUME RunInv, NEW ok \in BOOLEAN, PlaylistForgotten(ok)
  PROVE  Advances(run')
<1> DEFINE failed == Fail(run, Unattributed)
           base == IF ok THEN run ELSE failed
<1>1. /\ run.at.stage = "forgetList" /\ run \in Machine /\ plan \in MirrorPlan
  BY RunParts DEF RunInv, PlaylistForgotten, Awaiting
<1>2. run.published \subseteq PlannedSources
  BY <1>1, RunInUnit DEF InUnit, Blamed
<1>3. failed \in Machine /\ Blames(run, failed)
  BY <1>1, <1>2, FailBlames
<1>4. run' = EnterPlaylistRemovals(Complete(base, 0), Index + 1)
  BY DEF PlaylistForgotten, Handle, FailPlaylist
<1> HIDE DEF failed
<1>5. base \in Machine /\ (base = run \/ Blames(run, base))
  BY <1>1, <1>3
<1> HIDE DEF base
<1> QED
  BY <1>1, <1>4, <1>5, ListRemovalAdvances

\* The obsolete files: an answer that ends the unit.
LEMMA RemovalAdvances ==
  ASSUME RunInv, run.at.stage \in {"removeTrack", "forgetFile"},
         NEW base, base = run \/ base = Fail(run, plan.removals[Index].track)
  PROVE  Advances(EnterRemovals(Complete(base, 0), Index + 1))
<1> DEFINE length == Len(plan.removals)
           tail == MetadataUnits(run.metadata)
           completed == Complete(base, 0)
           units == length + 1 - (Index + 1) + tail
<1>1. /\ run \in Machine /\ plan \in MirrorPlan /\ run.metadata \in BOOLEAN
      /\ run.at.stage # "done" /\ GateOpen(run)
  BY RunParts, MachineParts DEF RunInv, Inv, Sound, Gated, RemovalStages
<1>2. length \in Nat /\ tail \in Nat /\ StageLength(run) = length
  BY <1>1, PlanLengths, UnitTypes DEF StageLength
<1>3. /\ TransfersBehind(run.at) = Len(plan.transfers)
      /\ SharedBehind(run.at) = Len(plan.shared)
      /\ ListsBehind(run.at) = Len(plan.lists)
      /\ UnitsLeft(run.at, run.metadata) = length + 1 - Index + tail
  BY DEF Index, TransfersBehind, SharedBehind, ListsBehind, UnitsLeft,
         Opened, TransferStages, SidecarStages, ListStages
<1> HIDE DEF length, tail
<1>4. /\ Index \in 1..length /\ Index + 1 \in 1..(length + 1) /\ Index + 1 \in Nat \ {0}
      /\ units \in Nat /\ UnitsLeft(run.at, run.metadata) = units + 1
  BY <1>2, <1>3, InWalk
<1> HIDE DEF units
<1>5. base \in Machine /\ GateOpen(base) /\ (base = run \/ Blames(run, base))
  <2>1. plan.removals[Index].track \in Track \cup {Unattributed}
    BY <1>1, <1>4, RemovalTrack DEF length
  <2>2. run.published \subseteq PlannedSources
    BY <1>1, RunInUnit DEF InUnit, Blamed
  <2>3. /\ Fail(run, plan.removals[Index].track) \in Machine
        /\ SameGate(run, Fail(run, plan.removals[Index].track))
        /\ Blames(run, Fail(run, plan.removals[Index].track))
    BY <1>1, <2>1, <2>2, FailType, FailBlames
  <2> QED
    BY <1>1, <2>3 DEF SameGate, GateOpen
<1>6. /\ Settled(completed, Len(plan.transfers), Len(plan.shared), Len(plan.lists), units)
      /\ completed \in Machine /\ completed.metadata = run.metadata
      /\ Onward(run.ledger, completed.ledger) /\ DeferredSound(completed)
  BY <1>1, <1>3, <1>4, <1>5, UnitEnded
<1>7. GateOpen(completed)
  <2>1. SameGate(base, completed)
    BY <1>5, CompleteType
  <2> QED
    BY <1>5, <2>1 DEF SameGate, GateOpen
<1> HIDE DEF completed
<1>8. SettledLists(completed, length + 1 - (Index + 1) + MetadataUnits(completed.metadata))
  BY <1>6, Zenon DEF SettledLists, units, tail
<1>9. Leads(completed, EnterRemovals(completed, Index + 1))
  BY <1>1, <1>4, <1>8, EnterRemovalsLeads DEF length
<1>10. EnterRemovals(completed, Index + 1) \in Machine
  BY <1>1, <1>4, <1>6, <1>7, EnterRemovalsSound DEF Sound
<1>11. Advances(EnterRemovals(completed, Index + 1))
  BY <1>6, <1>9, <1>10, LedToAdvances
<1> QED
  BY <1>11 DEF completed

LEMMA TrackRemovedAdvances ==
  ASSUME RunInv, NEW ok \in BOOLEAN, TrackRemoved(ok)
  PROVE  Advances(run')
<1>1. run.at.stage = "removeTrack" /\ run \in Machine /\ Index \in Nat
  BY RunParts DEF RunInv, TrackRemoved, Awaiting, Index
<1>2. CASE ~ok
  BY <1>1, <1>2, RemovalAdvances DEF TrackRemoved, Handle
<1>3. CASE ok /\ plan.removals[Index].kind = "orphan"
  BY <1>1, <1>3, RemovalAdvances DEF TrackRemoved, Handle
<1>4. CASE ok /\ plan.removals[Index].kind # "orphan"
  <2>1. "forgetFile" \in Stages
    BY DEF Stages
  <2> QED
    BY <1>1, <1>4, <2>1, SecondHalfAdvances DEF TrackRemoved, Handle
<1> QED
  BY <1>2, <1>3, <1>4

LEMMA FileForgottenAdvances ==
  ASSUME RunInv, NEW ok \in BOOLEAN, FileForgotten(ok)
  PROVE  Advances(run')
<1> DEFINE base == IF ok THEN run ELSE Fail(run, plan.removals[Index].track)
<1>1. run.at.stage = "forgetFile"
  BY DEF FileForgotten, Awaiting
<1>2. run' = EnterRemovals(Complete(base, 0), Index + 1)
  BY DEF FileForgotten, Handle
<1>3. base = run \/ base = Fail(run, plan.removals[Index].track)
  OBVIOUS
<1> HIDE DEF base
<1> QED
  BY <1>1, <1>2, <1>3, RemovalAdvances

\* The replaced files are no units: only their failures are noted.
LEMMA ReplacedFileRemovedAdvances ==
  ASSUME RunInv, NEW ok \in BOOLEAN, ReplacedFileRemoved(ok)
  PROVE  Advances(run')
<1> DEFINE track == run.deferred[Index].track
           base == IF ok THEN run ELSE Fail(run, track)
<1>1. /\ run.at.stage = "removeReplaced" /\ run \in Machine /\ plan \in MirrorPlan
      /\ run.deferred \in Seq([path : Path, track : Track]) /\ GateOpen(run)
  BY RunParts DEF RunInv, Inv, Sound, Gated, RemovalStages, ReplacedFileRemoved, Awaiting
<1>2. Index \in 1..Len(run.deferred) /\ Len(run.deferred) \in Nat
  BY <1>1, NextIndex DEF RunInv, StageLength
<1>3. Index + 1 \in Nat \ {0}
  BY <1>2
<1>4. track \in Track \cup {Unattributed}
  <2>1. run.deferred[Index] \in [path : Path, track : Track]
    BY <1>1, <1>2, ElementOfSeq
  <2> QED
    BY <2>1
<1>5. run' = EnterDeferredRemovals(base, Index + 1)
  BY DEF ReplacedFileRemoved, Handle
<1>6. Settled(run, Len(plan.transfers), Len(plan.shared), Len(plan.lists),
              MetadataUnits(run.metadata))
  <2>1. run.ledger.unit = 0
    BY <1>1 DEF RunInv, Accounted, SidecarStages
  <2>2. /\ TransfersBehind(run.at) = Len(plan.transfers)
        /\ SharedBehind(run.at) = Len(plan.shared)
        /\ ListsBehind(run.at) = Len(plan.lists)
        /\ UnitsLeft(run.at, run.metadata) = MetadataUnits(run.metadata)
    BY <1>1 DEF TransfersBehind, SharedBehind, ListsBehind, UnitsLeft,
                Opened, TransferStages, SidecarStages, ListStages
  <2> QED
    BY <1>1, <2>1, <2>2, RunInUnit DEF InUnit, Settled
<1> HIDE DEF track
<1>7. /\ Fail(run, track) \in Machine /\ SameGate(run, Fail(run, track))
      /\ Blames(run, Fail(run, track))
  BY <1>1, <1>4, <1>6, FailType, FailBlames DEF Settled, Blamed
<1>8. base \in Machine /\ GateOpen(base) /\ (base = run \/ Blames(run, base))
  BY <1>1, <1>7 DEF SameGate, GateOpen
<1> HIDE DEF base
<1>9. /\ base.ledger = run.ledger /\ base.metadata = run.metadata
      /\ base.carried = run.carried /\ base.deferred = run.deferred
      /\ base.outcome = run.outcome /\ Blamed(base)
      /\ (base = run \/ ~Unfailed(base))
  BY <1>6, <1>8 DEF Blames, Settled
<1>10. Reached(base, Len(plan.transfers), Len(plan.shared), Len(plan.lists))
  BY <1>6, <1>9 DEF Settled, Reached
<1>11. SettledLists(base, MetadataUnits(base.metadata))
  BY <1>6, <1>8, <1>9, <1>10 DEF SettledLists, Settled, CarriedWithin, Counted
<1>12. Leads(base, EnterDeferredRemovals(base, Index + 1))
  BY <1>1, <1>3, <1>11, EnterDeferredRemovalsLeads
<1>13. EnterDeferredRemovals(base, Index + 1) \in Machine
  BY <1>1, <1>3, <1>8, EnterDeferredRemovalsSound DEF Sound
<1>14. DeferredSound(base)
  BY <1>9, DeferredSame DEF RunInv
<1>15. Onward(run.ledger, base.ledger)
  BY <1>9, RunOnward
<1> QED
  BY <1>5, <1>8, <1>12, <1>13, <1>14, <1>15, LedToAdvances

\* The metadata list is the last unit of a run that has one.
LEMMA TrackMetadataListWrittenAdvances ==
  ASSUME RunInv, NEW ok \in BOOLEAN, TrackMetadataListWritten(ok)
  PROVE  Advances(run')
<1> DEFINE base == IF ok THEN run ELSE StopStage(run)
           completed == Complete(base, 0)
<1>1. /\ run.at.stage = "writeMetadata" /\ run \in Machine /\ plan \in MirrorPlan
      /\ run.metadata \in BOOLEAN
  BY RunParts, MachineParts DEF RunInv, TrackMetadataListWritten, Awaiting
<1>2. /\ TransfersBehind(run.at) = Len(plan.transfers)
      /\ SharedBehind(run.at) = Len(plan.shared)
      /\ ListsBehind(run.at) = Len(plan.lists)
      /\ UnitsLeft(run.at, run.metadata) = MetadataUnits(run.metadata)
  BY <1>1 DEF TransfersBehind, SharedBehind, ListsBehind, UnitsLeft,
              Opened, TransferStages, SidecarStages, ListStages
<1>3. run' = Finish(completed)
  BY DEF TrackMetadataListWritten, Handle
<1>4. /\ base \in Machine /\ base.ledger = run.ledger /\ base.outcome = run.outcome
      /\ base.carried = run.carried /\ base.deferred = run.deferred
      /\ base.failures = run.failures /\ base.cancelled = run.cancelled
      /\ base.published = run.published /\ base.absent = run.absent
      /\ base.staleList = run.staleList
  BY <1>1, StopStageType, ZenonT(40) DEF Machine, StopStage
<1> HIDE DEF base
<1>5. /\ InUnit(run, Len(plan.transfers), Len(plan.shared), Len(plan.lists),
                MetadataUnits(run.metadata))
      /\ DeferredSound(run)
  BY <1>1, <1>2, RunInUnit
<1>6. /\ completed \in Machine /\ Frame(base, completed)
      /\ LedgerCapped(completed.ledger) /\ completed.ledger.unit = 0
      /\ Onward(base.ledger, completed.ledger)
      /\ base.ledger.done < base.ledger.total =>
           completed.ledger.done = base.ledger.done + 1
  BY <1>4, <1>5, CompleteType, CompleteFrame DEF InUnit
<1> HIDE DEF completed
<1>7. Counted(completed, 0)
  <2>1. /\ base.ledger.done \in Nat /\ base.ledger.total \in Nat
        /\ completed.ledger.done \in Nat /\ completed.ledger.total \in Nat
    BY <1>4, <1>6, MachineParts, LedgerFields
  <2>2. base.ledger.done + MetadataUnits(run.metadata) = base.ledger.total
    BY <1>4, <1>5 DEF InUnit, Counted
  <2> QED
    BY <1>6, <2>1, <2>2 DEF Counted, MetadataUnits, LedgerCapped, Onward
<1>8. Reached(completed, Len(plan.transfers), Len(plan.shared), Len(plan.lists))
  BY <1>4, <1>5, <1>6 DEF InUnit, Reached, Unfailed, PlacedAt, Frame
<1>9. /\ completed.outcome = "none" /\ Blamed(completed)
      /\ CarriedWithin(completed, Len(plan.transfers))
      /\ completed.carried = run.carried /\ completed.deferred = run.deferred
  BY <1>4, <1>5, <1>6 DEF InUnit, Blamed, CarriedWithin, Frame
<1>10. Settled(completed, Len(plan.transfers), Len(plan.shared), Len(plan.lists), 0)
  BY <1>6, <1>7, <1>8, <1>9 DEF Settled
<1>11. Unfailed(completed) => Everything(completed)
  BY <1>1, <1>10, AllSettled
<1>12. Leads(completed, Finish(completed)) /\ Finish(completed) \in Machine
  BY <1>1, <1>6, <1>9, <1>11, FinishLeads, FinishFrame
<1>13. DeferredSound(completed) /\ Onward(run.ledger, completed.ledger)
  BY <1>4, <1>5, <1>6, <1>9, DeferredSame
<1> QED
  BY <1>3, <1>6, <1>12, <1>13, LedToAdvances

\* Every answer makes the run advance.
LEMMA AnswerAdvances ==
  ASSUME RunInv, Answer
  PROVE  Advances(run') /\ UNCHANGED plan
<1>1. Advances(run')
  BY PartialsCleanedAdvances, FileRecordedAdvances, SharedFileRecordedAdvances,
     PlaylistWrittenAdvances, PlaylistRecordedAdvances, PlaylistRemovedAdvances,
     PlaylistForgottenAdvances, TrackRemovedAdvances, FileForgottenAdvances,
     ReplacedFileRemovedAdvances, TrackMetadataListWrittenAdvances,
     TranscodedAdvances, AnalysisWrittenAdvances, DerivedCueWrittenAdvances,
     LyricsWrittenAdvances, TrackCopiedAdvances, Zenon DEF Answer
<1>2. UNCHANGED plan
  BY Zenon DEF Answer, Handle, PartialsCleaned, FileRecorded, SharedFileRecorded,
         PlaylistWritten, PlaylistRecorded, PlaylistRemoved, PlaylistForgotten,
         TrackRemoved, FileForgotten, ReplacedFileRemoved, TrackMetadataListWritten,
         Transcoded, AnalysisWritten, DerivedCueWritten, LyricsWritten, TrackCopied
<1> QED
  BY <1>1, <1>2

\* What an event that is no answer makes of the run.
Keeps(m) ==
  /\ Accounted(m)
  /\ m.carried = run.carried /\ m.deferred = run.deferred
  /\ m.absent = run.absent /\ m.staleList = run.staleList
  /\ m.metadata = run.metadata
  /\ Onward(run.ledger, m.ledger)

LEMMA CancelKeeps ==
  ASSUME RunInv, Cancel
  PROVE  /\ Keeps(run') /\ UNCHANGED plan /\ run'.at = run.at
         /\ run'.phase = run.phase
<1> DEFINE m == [run EXCEPT !.cancelled = TRUE]
<1>1. run \in Machine
  BY RunParts DEF RunInv
<1>2. run' = m /\ UNCHANGED plan
  BY DEF Cancel, Handle
<1>3. /\ m.at = run.at /\ m.phase = run.phase /\ m.ledger = run.ledger
      /\ m.carried = run.carried /\ m.deferred = run.deferred
      /\ m.absent = run.absent /\ m.staleList = run.staleList
      /\ m.metadata = run.metadata /\ m.cancelled = TRUE
      /\ m.published = run.published /\ m.failures = run.failures
      /\ m.outcome = run.outcome /\ m.copiedPath = run.copiedPath
  BY <1>1 DEF Machine
<1> HIDE DEF m
<1>4. ASSUME NEW transfers, NEW shared, NEW lists
      PROVE  Reached(m, transfers, shared, lists)
  BY <1>3 DEF Reached, Unfailed
<1>5. /\ Everything(run) => Everything(m)
      /\ Blamed(run) => Blamed(m)
      /\ Counted(run, UnitsLeft(run.at, run.metadata))
           => Counted(m, UnitsLeft(m.at, m.metadata))
      /\ CarriedWithin(m, TransfersBehind(m.at))
           <=> CarriedWithin(run, TransfersBehind(run.at))
  BY <1>3 DEF Everything, PlacedAt, Blamed, Counted, CarriedWithin
<1>6. Accounted(m)
  BY <1>3, <1>4, <1>5 DEF RunInv, Accounted
<1> QED
  BY <1>2, <1>3, <1>6, RunOnward DEF Keeps

LEMMA CopyProgressKeeps ==
  ASSUME RunInv, NEW bytes \in Bytes, CopyProgress(bytes)
  PROVE  /\ Keeps(run') /\ UNCHANGED plan /\ run'.at = run.at
         /\ run'.phase = run.phase
<1> DEFINE old == run.ledger
           ledger == ObserveUnitBytes(old, bytes)
           m == [run EXCEPT !.ledger = ledger]
<1>1. run \in Machine /\ old \in Ledger /\ ledger \in Ledger
  BY RunParts, MachineParts, LedgerTypes, BytesAreNatural DEF RunInv
<1>2. run' = m /\ UNCHANGED plan
  BY DEF CopyProgress, Handle
<1>3. /\ ledger.done = old.done /\ ledger.total = old.total
      /\ ledger.bytes = old.bytes /\ ledger.bytesTotal = old.bytesTotal
      /\ ledger.unit = AtLeast(old.unit, AtMost(bytes, old.unitTotal))
  BY <1>1 DEF ObserveUnitBytes, Ledger
<1> HIDE DEF ledger
<1>4. /\ m.at = run.at /\ m.phase = run.phase /\ m.ledger = ledger
      /\ m.carried = run.carried /\ m.deferred = run.deferred
      /\ m.absent = run.absent /\ m.staleList = run.staleList
      /\ m.metadata = run.metadata /\ m.cancelled = run.cancelled
      /\ m.published = run.published /\ m.failures = run.failures
      /\ m.outcome = run.outcome /\ m.copiedPath = run.copiedPath
  BY <1>1 DEF Machine
<1> HIDE DEF m, old
<1>5. LedgerCapped(ledger) /\ Onward(old, ledger)
  <2>1. /\ old.done \in Nat /\ old.bytes \in Nat /\ old.bytesTotal \in Nat
        /\ old.unit \in Nat /\ old.unitTotal \in Nat /\ ledger.unit \in Nat
    BY <1>1, LedgerFields
  <2>2. ledger.unit >= old.unit
    BY <1>1, <1>3, <2>1, BytesAreNatural DEF AtLeast, AtMost
  <2>3. LedgerCapped(old)
    BY DEF RunInv, Accounted, old
  <2> QED
    BY <1>3, <2>1, <2>2, <2>3 DEF LedgerCapped, Onward, BytesDone, AtMost
<1>6. run.at.stage \in {"copy"} \cup SidecarStages
  BY DEF CopyProgress, SidecarStages
<1>7. ASSUME NEW transfers, NEW shared, NEW lists,
             Reached(run, transfers, shared, lists)
      PROVE  Reached(m, transfers, shared, lists)
  BY <1>4, <1>7 DEF Reached, Unfailed, PlacedAt
<1>8. /\ Blamed(run) => Blamed(m)
      /\ Counted(run, UnitsLeft(run.at, run.metadata))
           => Counted(m, UnitsLeft(m.at, m.metadata))
      /\ CarriedWithin(m, TransfersBehind(m.at))
           <=> CarriedWithin(run, TransfersBehind(run.at))
  BY <1>3, <1>4 DEF Blamed, Counted, CarriedWithin, old
<1>9. Accounted(m)
  <2>1. run.at.stage # "done" /\ run.at.stage # "recordFile"
    BY <1>6 DEF SidecarStages
  <2> QED
    BY <1>4, <1>5, <1>6, <1>7, <1>8, <2>1 DEF RunInv, Accounted
<1> QED
  BY <1>2, <1>4, <1>5, <1>9 DEF Keeps, old

LEMMA StartKeeps ==
  ASSUME RunInv, Start
  PROVE  /\ Keeps(run') /\ UNCHANGED plan
         /\ run'.at.stage = "partials" /\ run'.phase = OpeningPhase
<1> DEFINE shown == Show(run, OpeningPhase)
           at == [stage |-> "partials", index |-> 0]
           m == Await(shown, "partials", 0)
<1>1. run \in Machine /\ run.at.stage = "start"
  BY RunParts DEF RunInv, Start, Awaiting
<1>2. OpeningPhase \in Phases /\ "partials" \in Stages
  BY DEF OpeningPhase, Phases, Stages
<1>3. run' = m /\ UNCHANGED plan
  BY DEF Start, Handle
<1>4. /\ m.at = at /\ m.phase = OpeningPhase /\ m.ledger = run.ledger
      /\ m.carried = run.carried /\ m.deferred = run.deferred
      /\ m.absent = run.absent /\ m.staleList = run.staleList
      /\ m.metadata = run.metadata /\ m.cancelled = run.cancelled
      /\ m.published = run.published /\ m.failures = run.failures
      /\ m.outcome = run.outcome /\ m.copiedPath = run.copiedPath
  BY <1>1, <1>2 DEF Machine, Show, Await
<1> HIDE DEF m, shown
<1>5. /\ TransfersBehind(at) = TransfersBehind(run.at)
      /\ SharedBehind(at) = SharedBehind(run.at)
      /\ ListsBehind(at) = ListsBehind(run.at)
      /\ UnitsLeft(at, run.metadata) = UnitsLeft(run.at, run.metadata)
      /\ run.at.stage \notin {"copy", "recordFile", "done"} \cup SidecarStages
      /\ at.stage \notin {"copy", "recordFile", "done"} \cup SidecarStages
      /\ at.stage = "partials"
  BY <1>1 DEF TransfersBehind, SharedBehind, ListsBehind, UnitsLeft,
              Opened, TransferStages, SidecarStages, ListStages
<1> HIDE DEF at
<1>6. ASSUME NEW transfers, NEW shared, NEW lists,
             Reached(run, transfers, shared, lists)
      PROVE  Reached(m, transfers, shared, lists)
  BY <1>4, <1>6 DEF Reached, Unfailed, PlacedAt
<1>7. /\ Blamed(run) => Blamed(m)
      /\ Counted(run, UnitsLeft(run.at, run.metadata))
           => Counted(m, UnitsLeft(m.at, m.metadata))
      /\ CarriedWithin(run, TransfersBehind(run.at))
           => CarriedWithin(m, TransfersBehind(m.at))
  BY <1>4, <1>5 DEF Blamed, Counted, CarriedWithin
<1>8. Accounted(m)
  BY <1>4, <1>5, <1>6, <1>7 DEF RunInv, Accounted
<1> QED
  BY <1>3, <1>4, <1>5, <1>8, RunOnward DEF Keeps

-----------------------------------------------------------------------------
(* The invariant.                                                          *)

\* The plan does not change under a run, nor does what it asks for.
LEMMA SamePlan ==
  ASSUME UNCHANGED plan, Accounted(run')
  PROVE  Accounted(run)'
<1>1. /\ UnitsLeft(run.at, run.metadata)' = UnitsLeft(run'.at, run'.metadata)
      /\ TransfersBehind(run.at)' = TransfersBehind(run'.at)
      /\ SharedBehind(run.at)' = SharedBehind(run'.at)
      /\ ListsBehind(run.at)' = ListsBehind(run'.at)
  BY DEF UnitsLeft, TransfersBehind, SharedBehind, ListsBehind, TransferUnits,
         AnalysisUnits, CueUnits, LyricsUnits, ListUnits, ListRemovalUnits,
         RemovalUnits, MetadataUnits
<1> DEFINE transfers == TransfersBehind(run'.at)
           shared == SharedBehind(run'.at)
           lists == ListsBehind(run'.at)
<1>2. Everything(run') => Everything(run)'
  BY DEF Everything, PlannedSources, PlacedAt
<1>3. Blamed(run') => Blamed(run)'
  BY DEF Blamed, PlannedSources
<1>4. CarriedWithin(run', transfers) => CarriedWithin(run, TransfersBehind(run.at))'
  BY <1>1 DEF CarriedWithin
<1>5. Reached(run', transfers, shared, lists)
        => Reached(run, TransfersBehind(run.at), SharedBehind(run.at),
                   ListsBehind(run.at))'
  BY <1>1 DEF Reached, Unfailed, PlacedAt
<1>6. Counted(run', UnitsLeft(run'.at, run'.metadata))
        => Counted(run, UnitsLeft(run.at, run.metadata))'
  BY <1>1 DEF Counted
<1> QED
  BY <1>2, <1>3, <1>4, <1>5, <1>6 DEF Accounted, LedgerCapped, SidecarStages

LEMMA SameWarrants ==
  ASSUME UNCHANGED plan, DeferredSound(run')
  PROVE  DeferredSound(run)'
  BY DEF DeferredSound, Warranted

LEMMA NewRunAccounted == NewRun /\ TransfersOnce => RunInv
<1> SUFFICES ASSUME NewRun, TransfersOnce PROVE RunInv
  OBVIOUS
<1>1. PICK metadata \in BOOLEAN : run = NewMachine(plan, metadata)
  BY DEF NewRun
<1>2. TransfersOnce /\ Inv
  BY NewRunSound
<1>3. plan \in MirrorPlan
  BY <1>2 DEF Inv
<1>4. /\ run.at = [stage |-> "start", index |-> 0] /\ run.cancelled = FALSE
      /\ run.failures = {} /\ run.absent = {}
      /\ run.ledger = NewLedger(WorkUnits(plan, metadata), plan.bytes)
      /\ run.metadata = metadata /\ run.deferred = <<>>
      /\ run.carried = [t \in Track |-> NoPath] /\ run.published = {}
      /\ run.staleList = FALSE /\ run.outcome = "none"
  BY <1>1 DEF NewMachine
<1>5. /\ run.ledger.done = 0 /\ run.ledger.total = WorkUnits(plan, metadata)
      /\ run.ledger.bytes = 0 /\ run.ledger.bytesTotal = plan.bytes
      /\ run.ledger.unit = 0
  BY <1>4 DEF NewLedger
<1>6. plan.bytes \in Nat /\ WorkUnits(plan, metadata) \in Nat
  <2>1. run.ledger \in Ledger
    BY <1>2, RunParts, MachineParts
  <2> QED
    BY <1>5, <2>1, LedgerFields
<1>7. LedgerCapped(run.ledger)
  BY <1>5, <1>6 DEF LedgerCapped
<1>8. 0 + TransferUnits(metadata) = WorkUnits(plan, metadata)
  <2> DEFINE a == Len(plan.transfers)
             b == Len(plan.analysis)
             c == Len(plan.cues)
             d == Len(plan.lyrics)
             e == Len(plan.lists)
             f == Len(plan.listRemovals)
             g == Len(plan.removals)
             h == MetadataUnits(metadata)
  <2>1. /\ a \in Nat /\ b \in Nat /\ c \in Nat /\ d \in Nat
        /\ e \in Nat /\ f \in Nat /\ g \in Nat /\ h \in Nat
    BY <1>3, PlanLengths, UnitTypes
  <2>2. WorkUnits(plan, metadata) = a + b + d + c + e + f + g + h
    BY DEF WorkUnits, MetadataUnits
  <2>3. TransferUnits(metadata) = a + (b + (c + (d + (e + (f + (g + h))))))
    BY DEF TransferUnits, AnalysisUnits, CueUnits, LyricsUnits, ListUnits,
           ListRemovalUnits, RemovalUnits
  <2> HIDE DEF a, b, c, d, e, f, g, h
  <2> QED
    BY <2>1, <2>2, <2>3
<1>9. /\ UnitsLeft(run.at, run.metadata) = TransferUnits(metadata)
      /\ TransfersBehind(run.at) = 0 /\ SharedBehind(run.at) = 0
      /\ ListsBehind(run.at) = 0
      /\ run.at.stage \notin {"copy", "recordFile", "done", "partials"}
                               \cup SidecarStages
  BY <1>4 DEF UnitsLeft, TransfersBehind, SharedBehind, ListsBehind, Opened,
              TransferStages, SidecarStages, ListStages
<1>10. Counted(run, UnitsLeft(run.at, run.metadata)) /\ Blamed(run)
  BY <1>4, <1>5, <1>8, <1>9 DEF Counted, Blamed
<1>11. Reached(run, 0, 0, 0) /\ CarriedWithin(run, 0)
  BY <1>4 DEF Reached, CarriedWithin
<1>12. Accounted(run)
  BY <1>4, <1>5, <1>7, <1>9, <1>10, <1>11 DEF Accounted
<1>13. DeferredSound(run)
  BY <1>4 DEF DeferredSound
<1>14. Opening
  BY <1>4, <1>9 DEF Opening
<1> QED
  BY <1>2, <1>12, <1>13, <1>14 DEF RunInv

LEMMA RunInit ==
  ASSUME Init
  PROVE  RunInv
<1>1. NewRun /\ TransfersOnce
  BY PlansAreMirrorPlans, PlansTransferTracksOnce DEF Init, NewRun, TransfersOnce
<1> QED
  BY <1>1, NewRunAccounted

\* What every step makes of a run.
LEMMA RunStep ==
  ASSUME RunInv, [Next]_machineVars
  PROVE  /\ RunInv' /\ UNCHANGED plan
         /\ Onward(run.ledger, run'.ledger)
<1>1. Inv' /\ (UNCHANGED plan => TransfersOnce')
  BY StepSound DEF RunInv, TransfersOnce
<1>2. CASE Answer
  <2>1. Advances(run') /\ UNCHANGED plan
    BY <1>2, AnswerAdvances
  <2>2. Accounted(run)' /\ DeferredSound(run)'
    BY <2>1, SamePlan, SameWarrants DEF Advances
  <2>3. Opening'
    BY <2>1 DEF Advances, Opening, Opened
  <2> QED
    BY <1>1, <2>1, <2>2, <2>3 DEF RunInv, Advances
<1>3. CASE Start
  <2>1. /\ Keeps(run') /\ UNCHANGED plan
        /\ run'.at.stage = "partials" /\ run'.phase = OpeningPhase
        /\ run.at.stage = "start"
    BY <1>3, StartKeeps DEF Start, Awaiting
  <2>2. DeferredSound(run')
    BY <2>1, DeferredSame DEF Keeps, RunInv
  <2>3. Accounted(run)' /\ DeferredSound(run)'
    BY <2>1, <2>2, SamePlan, SameWarrants DEF Keeps
  <2>4. OpeningPhase' = OpeningPhase
    BY <2>1 DEF Keeps, OpeningPhase
  <2>5. Opening'
    BY <2>1, <2>4 DEF RunInv, Opening, Opened, Keeps
  <2> QED
    BY <1>1, <2>1, <2>3, <2>5 DEF RunInv, Keeps
<1>4. CASE Cancel \/ \E bytes \in Bytes : CopyProgress(bytes)
  <2>1. /\ Keeps(run') /\ UNCHANGED plan /\ run'.at = run.at
        /\ run'.phase = run.phase
    BY <1>4, CancelKeeps, CopyProgressKeeps
  <2>2. DeferredSound(run')
    BY <2>1, DeferredSame DEF Keeps, RunInv
  <2>3. Accounted(run)' /\ DeferredSound(run)'
    BY <2>1, <2>2, SamePlan, SameWarrants DEF Keeps
  <2>4. OpeningPhase' = OpeningPhase
    BY <2>1 DEF Keeps, OpeningPhase
  <2>5. Opening'
    BY <2>1, <2>4 DEF RunInv, Opening, Opened, Keeps
  <2> QED
    BY <1>1, <2>1, <2>3, <2>5 DEF RunInv, Keeps
<1>5. CASE UNCHANGED machineVars
  <2>1. run' = run /\ plan' = plan
    BY <1>5 DEF machineVars
  <2>2. Accounted(run') /\ DeferredSound(run') /\ Onward(run.ledger, run'.ledger)
    BY <2>1, RunOnward DEF RunInv
  <2>3. Accounted(run)' /\ DeferredSound(run)'
    BY <2>1, <2>2, SamePlan, SameWarrants
  <2>4. Opening'
    BY <2>1 DEF RunInv, Opening, OpeningPhase, Opened
  <2> QED
    BY <1>1, <2>1, <2>2, <2>3, <2>4 DEF RunInv
<1> QED
  BY <1>2, <1>3, <1>4, <1>5 DEF Next

LEMMA RunInvAlways == Spec => []RunInv
<1>1. RunInv /\ [Next]_machineVars => RunInv'
  BY RunStep
<1> QED
  BY RunInit, <1>1, PTL DEF Spec

-----------------------------------------------------------------------------
(* The theorems.                                                           *)

\* A run reported as completed accounts for every unit its ledger planned and
\* really recorded every transfer, shared row and playlist: whatever failed, was
\* skipped or was cancelled on the way shows in its report (machine.rs finish()).
THEOREM CompletionAccounted == Spec => []CompletedMeansEverything
<1>1. RunInv => CompletedMeansEverything
  <2> SUFFICES ASSUME RunInv, run.outcome = "completed"
               PROVE  Everything(run)
    BY DEF CompletedMeansEverything, Everything
  <2> QED
    BY DEF RunInv, Accounted
<1> QED
  BY <1>1, RunInvAlways, PTL

\* A path is set aside for deletion only by a track whose new file this run
\* recorded elsewhere, or by a CUE track whose earlier file nothing planned names:
\* a failed replacement never costs the old file (machine.rs FileRecorded,
\* SharedFileRecorded).
THEOREM DeferredAfterRecording == Spec => []DeferredOnlyAfterRecording
<1>1. RunInv => DeferredOnlyAfterRecording
  BY DEF RunInv, DeferredSound, Warranted, DeferredOnlyAfterRecording
<1> QED
  BY <1>1, RunInvAlways, PTL

\* The units and bytes the user sees done never go back and never pass their
\* totals, also when a copy that reported bytes fails afterwards (ledger.rs).
THEOREM ProgressMonotone == Spec => ProgressNeverGoesBack
<1>1. ASSUME RunInv, [Next]_machineVars
      PROVE  [ /\ run'.ledger.done \in run.ledger.done..run.ledger.total
               /\ BytesDone(run'.ledger)
                    \in BytesDone(run.ledger)..run.ledger.bytesTotal ]_machineVars
  <2> DEFINE old == run.ledger
             new == run'.ledger
  <2>1. RunInv' /\ Onward(old, new)
    BY <1>1, RunStep
  <2>2. old \in Ledger
    BY <1>1, RunParts, MachineParts DEF RunInv
  <2>3. run' \in Machine
    BY <2>1 DEF RunInv, Inv, Sound
  <2>4. new \in Ledger /\ LedgerCapped(new)
    BY <2>1, <2>3, MachineParts DEF RunInv, Accounted, LedgerCapped
  <2>5. /\ old.done \in Nat /\ old.total \in Nat /\ old.bytes \in Nat
        /\ old.bytesTotal \in Nat /\ old.unit \in Nat
        /\ new.done \in Nat /\ new.total \in Nat /\ new.bytes \in Nat
        /\ new.bytesTotal \in Nat /\ new.unit \in Nat
    BY <2>2, <2>4, LedgerFields
  <2> HIDE DEF old, new
  <2>6. /\ new.done \in old.done..old.total
        /\ BytesDone(new) \in BytesDone(old)..old.bytesTotal
    BY <2>1, <2>4, <2>5 DEF Onward, LedgerCapped, BytesDone, AtMost
  <2> QED
    BY <2>6 DEF old, new
<1>2. RunInv /\ [Next]_machineVars
      => [ /\ run'.ledger.done \in run.ledger.done..run.ledger.total
           /\ BytesDone(run'.ledger)
                \in BytesDone(run.ledger)..run.ledger.bytesTotal ]_machineVars
  BY <1>1
<1> QED
  BY <1>2, RunInvAlways, PTL DEF Spec, ProgressNeverGoesBack

-----------------------------------------------------------------------------
(* What a cancel stops.                                                    *)

\* Every stage is entered by looking at the flag first.
LEMMA CancelledEnters ==
  ASSUME plan \in MirrorPlan, NEW m \in Machine, m.cancelled, NEW from
  PROVE  /\ EnterTransfers(m, from).at.stage = "done"
         /\ EnterSharedRecords(m, from).at.stage = "done"
         /\ EnterAnalysisWrites(m, from).at.stage = "done"
         /\ EnterCueWrites(m, from).at.stage = "done"
         /\ EnterLyricsWrites(m, from).at.stage = "done"
         /\ EnterPlaylistWrites(m, from).at.stage = "done"
         /\ EnterPlaylistRemovals(m, from).at.stage = "done"
         /\ EnterRemovals(m, from).at.stage = "done"
         /\ EnterDeferredRemovals(m, from).at.stage = "done"
<1>1. Finish(m).at.stage = "done"
  BY FinishFrame
<1> QED
  BY <1>1 DEF EnterTransfers, EnterSharedRecords, EnterAnalysisWrites, EnterCueWrites,
         EnterLyricsWrites, EnterPlaylistWrites, EnterPlaylistRemovals, EnterRemovals,
         EnterDeferredRemovals

\* A machine on which the cancel stays noted.
Cancelled(m) == m \in Machine /\ m.cancelled

LEMMA StaysCancelled ==
  ASSUME plan \in MirrorPlan, NEW m, Cancelled(m)
  PROVE  /\ \A bytes \in Nat : Cancelled(Complete(m, bytes))
         /\ \A track \in Track \cup {Unattributed} : Cancelled(Fail(m, track))
         /\ Cancelled(FailPlaylist(m)) /\ Cancelled(StopStage(m))
         /\ \A k \in 1..Len(plan.transfers) : Cancelled(FailUnpublished(m, k))
<1>1. m \in Machine /\ m.cancelled
  BY DEF Cancelled
<1>2. ASSUME NEW bytes \in Nat
      PROVE  Cancelled(Complete(m, bytes))
  <2>1. Complete(m, bytes).cancelled = m.cancelled
    BY <1>1 DEF Complete, Machine
  <2> QED
    BY <1>1, <2>1, CompleteType DEF Cancelled
<1>3. ASSUME NEW track \in Track \cup {Unattributed}
      PROVE  Cancelled(Fail(m, track))
  <2>1. Fail(m, track).cancelled = m.cancelled
    BY <1>1 DEF Fail, Machine
  <2> QED
    BY <1>1, <2>1, FailType DEF Cancelled
<1>4. Cancelled(StopStage(m))
  <2>1. StopStage(m).cancelled = m.cancelled
    BY <1>1 DEF StopStage, Machine
  <2> QED
    BY <1>1, <2>1, StopStageType DEF Cancelled
<1>5. ASSUME NEW k \in 1..Len(plan.transfers)
      PROVE  Cancelled(FailUnpublished(m, k))
  <2> DEFINE failed == Fail(m, plan.transfers[k].track)
             absent == failed.absent \cup {plan.transfers[k].path}
  <2>1. plan.transfers[k] \in Transfer
    BY PlanParts, ElementOfSeq
  <2>2. plan.transfers[k].track \in Track \cup {Unattributed}
    BY <2>1 DEF Transfer
  <2>3. Cancelled(failed)
    BY <1>3, <2>2
  <2>4. FailUnpublished(m, k) = [failed EXCEPT !.absent = absent]
    BY DEF FailUnpublished
  <2> HIDE DEF failed, absent
  <2>5. FailUnpublished(m, k).cancelled = failed.cancelled
    BY <2>3, <2>4 DEF Cancelled, Machine
  <2> QED
    BY <1>1, <2>3, <2>5, FailUnpublishedType DEF Cancelled
<1> QED
  BY <1>2, <1>3, <1>4, <1>5 DEF FailPlaylist

\* The step of a cancelled run: it ends, or goes on with the unit in flight.
NoUnitStarted ==
  \/ run'.at.stage = "done"
  \/ /\ run'.at.index = run.at.index
     /\ <<run.at.stage, run'.at.stage>> \in
          {<<"transcode", "copy">>, <<"copy", "recordFile">>,
           <<"writeList", "recordList">>, <<"removeList", "forgetList">>,
           <<"removeTrack", "forgetFile">>}

\* An answer while nothing was copied or recorded.
LEMMA CancelledTransfer ==
  ASSUME RunInv, run.cancelled, NEW ok \in BOOLEAN, NEW bytes \in Nat, NEW path \in PathOrNone,
         \/ PartialsCleaned(ok) \/ Transcoded(ok, bytes)
         \/ TrackCopied(ok, bytes, path) \/ FileRecorded(ok)
  PROVE  NoUnitStarted
<1>1. Cancelled(run) /\ plan \in MirrorPlan /\ run \in Machine
  BY RunParts DEF RunInv, Cancelled
<1>2. CASE PartialsCleaned(ok)
  <2>1. CASE ok
    <3>1. run' = EnterTransfers(run, 1)
      BY <1>2, <2>1 DEF PartialsCleaned, Handle
    <3> QED
      BY <1>1, <3>1, CancelledEnters DEF Cancelled, NoUnitStarted
  <2>2. CASE ~ok
    <3>1. run' = Finish(StopStage(run))
      BY <1>2, <2>2 DEF PartialsCleaned, Handle
    <3> QED
      BY <1>1, <3>1, StopStageType, FinishFrame DEF NoUnitStarted
  <2> QED
    BY <2>1, <2>2
<1>3. CASE Transcoded(ok, bytes)
  <2>1. run.at.stage = "transcode" /\ Index \in 1..Len(plan.transfers) /\ Index \in Nat
    BY <1>3, InTransfers DEF Transcoded, Awaiting, TransferStages
  <2>2. CASE ok
    <3> DEFINE done == [run EXCEPT !.transcoded = TRUE, !.transcodedBytes = bytes]
               begun == IF done.transcoded THEN done.transcodedBytes
                        ELSE plan.transfers[Index].bytes
    <3>1. run' = Await(Show(Begin(done, begun), "copying"), "copy", Index)
      BY <1>3, <2>2 DEF Transcoded, Handle, StartCopy
    <3>2. done \in Machine /\ begun \in Nat
      BY <1>1 DEF Machine
    <3> HIDE DEF done, begun
    <3>3. Await(Show(Begin(done, begun), "copying"), "copy", Index).at
            = [stage |-> "copy", index |-> Index]
      <4>1. "copy" \in Stages /\ "copying" \in Phases
        BY Names
      <4> QED
        BY <2>1, <3>2, <4>1, EnterType
    <3>4. run'.at = [stage |-> "copy", index |-> Index]
      BY <3>1, <3>3
    <3> QED
      BY <2>1, <3>4 DEF NoUnitStarted, Index
  <2>3. CASE ~ok
    <3> DEFINE failed == FailUnpublished(run, Index)
    <3>1. run' = EnterTransfers(Complete(failed, 0), Index + 1)
      BY <1>3, <2>3 DEF Transcoded, Handle
    <3>2. Cancelled(failed)
      BY <1>1, <2>1, StaysCancelled
    <3> HIDE DEF failed
    <3>3. Cancelled(Complete(failed, 0))
      BY <1>1, <3>2, StaysCancelled
    <3> QED
      BY <1>1, <3>1, <3>3, CancelledEnters DEF Cancelled, NoUnitStarted
  <2> QED
    BY <2>2, <2>3
<1>4. CASE TrackCopied(ok, bytes, path)
  <2>1. run.at.stage = "copy" /\ Index \in 1..Len(plan.transfers) /\ Index \in Nat
    BY <1>4, InTransfers DEF TrackCopied, Awaiting, TransferStages
  <2>2. CASE ok
    <3> DEFINE copied == [run EXCEPT !.copiedBytes = bytes, !.copiedPath = path]
    <3>1. run' = Await(copied, "recordFile", Index)
      BY <1>4, <2>2 DEF TrackCopied, Handle
    <3>2. copied \in Machine /\ "recordFile" \in Stages
      BY <1>1 DEF Machine, PathOrNone, Stages
    <3> HIDE DEF copied
    <3>3. run'.at = [stage |-> "recordFile", index |-> Index]
      BY <2>1, <3>1, <3>2, AwaitType
    <3> QED
      BY <2>1, <3>3 DEF NoUnitStarted, Index
  <2>3. CASE ~ok
    <3>1. run' = EnterTransfers(Complete(run, 0), Index + 1)
      BY <1>4, <2>3 DEF TrackCopied, Handle
    <3>2. Cancelled(Complete(run, 0))
      BY <1>1, StaysCancelled
    <3> QED
      BY <1>1, <3>1, <3>2, CancelledEnters DEF Cancelled, NoUnitStarted
  <2> QED
    BY <2>2, <2>3
<1>5. CASE FileRecorded(ok)
  <2> DEFINE recorded == IF ok THEN Recorded(run, Index)
                         ELSE Fail(run, plan.transfers[Index].track)
             settled == [recorded EXCEPT !.copiedPath = NoPath, !.copiedBytes = 0]
             completed == Complete(settled, run.copiedBytes)
  <2>1. /\ Index \in 1..Len(plan.transfers) /\ plan.transfers[Index] \in Transfer
        /\ run.copiedBytes \in Nat
    BY <1>5, InTransfers, RunParts DEF RunInv, FileRecorded, Awaiting, TransferStages
  <2>2. plan.transfers[Index].track \in Track
    BY <2>1 DEF Transfer
  <2>3. Cancelled(recorded)
    BY <1>1, <2>1, <2>2, RecordedParts, StaysCancelled DEF Cancelled
  <2>4. run' = EnterTransfers(completed, Index + 1)
    BY <1>5 DEF FileRecorded, Handle
  <2> HIDE DEF recorded
  <2>5. Cancelled(settled)
    BY <2>3 DEF Cancelled, Machine, PathOrNone
  <2> HIDE DEF settled
  <2>6. Cancelled(completed)
    BY <1>1, <2>1, <2>5, StaysCancelled
  <2> HIDE DEF completed
  <2> QED
    BY <1>1, <2>4, <2>6, CancelledEnters DEF Cancelled, NoUnitStarted
<1> QED
  BY <1>2, <1>3, <1>4, <1>5

LEMMA CancelledSidecar ==
  ASSUME RunInv, run.cancelled, NEW ok \in BOOLEAN, NEW bytes \in Nat,
         \/ SharedFileRecorded(ok) \/ AnalysisWritten(ok, bytes)
         \/ DerivedCueWritten(ok, bytes) \/ LyricsWritten(ok, bytes)
         \/ TrackMetadataListWritten(ok)
  PROVE  NoUnitStarted
<1>1. Cancelled(run) /\ plan \in MirrorPlan /\ run \in Machine
  BY RunParts DEF RunInv, Cancelled
<1> DEFINE stopped == IF ok THEN Complete(run, bytes) ELSE Complete(StopStage(run), 0)
<1>2. Cancelled(stopped)
  <2>1. Cancelled(StopStage(run))
    BY <1>1, StaysCancelled
  <2>2. Cancelled(Complete(StopStage(run), 0))
    BY <1>1, <2>1, StaysCancelled
  <2>3. Cancelled(Complete(run, bytes))
    BY <1>1, StaysCancelled
  <2> QED
    BY <2>2, <2>3
<1>3. CASE AnalysisWritten(ok, bytes) \/ LyricsWritten(ok, bytes)
  <2>1. \/ run' = EnterAnalysisWrites(stopped, Index + 1)
        \/ run' = EnterLyricsWrites(stopped, Index + 1)
    BY <1>3 DEF AnalysisWritten, LyricsWritten, Handle
  <2> HIDE DEF stopped
  <2> QED
    BY <1>1, <1>2, <2>1, CancelledEnters DEF Cancelled, NoUnitStarted
<1>4. CASE DerivedCueWritten(ok, bytes)
  <2> DEFINE failed == Fail(run, plan.cues[Index].track)
             written == IF ok THEN Complete(run, bytes) ELSE Complete(failed, 0)
  <2>1. run' = EnterCueWrites(written, Index + 1)
    BY <1>4 DEF DerivedCueWritten, Handle
  <2>2. plan.cues[Index].track \in Track \cup {Unattributed}
    <3>1. Index \in 1..Len(plan.cues)
      BY <1>4, NextIndex DEF RunInv, StageLength, DerivedCueWritten, Awaiting
    <3>2. plan.cues[Index] \in CueWrite
      BY <1>1, <3>1, PlanParts, ElementOfSeq
    <3> QED
      BY <3>2 DEF CueWrite
  <2>3. Cancelled(failed)
    BY <1>1, <2>2, StaysCancelled
  <2> HIDE DEF failed
  <2>4. Cancelled(Complete(failed, 0)) /\ Cancelled(Complete(run, bytes))
    BY <1>1, <2>3, StaysCancelled
  <2>5. Cancelled(written)
    BY <2>4
  <2> HIDE DEF written
  <2> QED
    BY <1>1, <2>1, <2>5, CancelledEnters DEF Cancelled, NoUnitStarted
<1>5. CASE SharedFileRecorded(ok)
  <2> DEFINE track == plan.shared[Index].track
             recorded == IF ok THEN DeferSharedPrevious(run, Index) ELSE Fail(run, track)
             settled == [recorded EXCEPT !.sharedPath = NoPath]
  <2>1. run' = EnterSharedRecords(settled, Index + 1)
    BY <1>5 DEF SharedFileRecorded, Handle
  <2>2. Index \in 1..Len(plan.shared)
    BY <1>5, NextIndex DEF RunInv, StageLength, SharedFileRecorded, Awaiting
  <2>3. track \in Track \cup {Unattributed}
    <3>1. plan.shared[Index] \in SharedRecord
      BY <1>1, <2>2, PlanParts, ElementOfSeq
    <3> QED
      BY <3>1 DEF SharedRecord
  <2>4. Cancelled(recorded)
    BY <1>1, <2>2, <2>3, DeferSharedPreviousParts, StaysCancelled DEF Cancelled
  <2> HIDE DEF recorded
  <2>5. Cancelled(settled)
    BY <2>4 DEF Cancelled, Machine, PathOrNone
  <2> HIDE DEF settled
  <2> QED
    BY <1>1, <2>1, <2>5, CancelledEnters DEF Cancelled, NoUnitStarted
<1>6. CASE TrackMetadataListWritten(ok)
  <2> DEFINE base == IF ok THEN run ELSE StopStage(run)
  <2>1. run' = Finish(Complete(base, 0))
    BY <1>6 DEF TrackMetadataListWritten, Handle
  <2>2. Complete(base, 0) \in Machine
    BY <1>1, StopStageType, CompleteType
  <2> QED
    BY <1>1, <2>1, <2>2, FinishFrame DEF NoUnitStarted
<1> QED
  BY <1>3, <1>4, <1>5, <1>6

LEMMA CancelledList ==
  ASSUME RunInv, run.cancelled, NEW ok \in BOOLEAN,
         \/ PlaylistWritten(ok) \/ PlaylistRecorded(ok)
         \/ PlaylistRemoved(ok) \/ PlaylistForgotten(ok)
  PROVE  NoUnitStarted
<1> DEFINE failed == FailPlaylist(run)
<1>1. Cancelled(run) /\ plan \in MirrorPlan /\ run \in Machine /\ Index \in Nat
  BY RunParts DEF RunInv, Cancelled, Index
<1>2. Cancelled(failed)
  BY <1>1, StaysCancelled
<1> HIDE DEF failed
<1>3. Cancelled(Complete(failed, 0)) /\ Cancelled(Complete(run, 0))
  BY <1>1, <1>2, StaysCancelled
<1>4. CASE PlaylistWritten(ok)
  <2>1. CASE ok
    <3>1. run' = Await(run, "recordList", Index) /\ run.at.stage = "writeList"
      BY <1>4, <2>1 DEF PlaylistWritten, Handle, Awaiting
    <3>2. "recordList" \in Stages
      BY DEF Stages
    <3>3. run'.at = [stage |-> "recordList", index |-> Index]
      BY <1>1, <3>1, <3>2, AwaitType
    <3> QED
      BY <3>1, <3>3 DEF NoUnitStarted, Index
  <2>2. CASE ~ok
    <3>1. run' = EnterPlaylistWrites(Complete(failed, 0), Index + 1)
      BY <1>4, <2>2 DEF PlaylistWritten, Handle, failed
    <3> QED
      BY <1>1, <1>3, <3>1, CancelledEnters DEF Cancelled, NoUnitStarted
  <2> QED
    BY <2>1, <2>2
<1>5. CASE PlaylistRecorded(ok)
  <2> DEFINE published == run.published \cup {plan.lists[Index].source}
             booked == [run EXCEPT !.published = published]
             recorded == IF ok THEN booked ELSE failed
  <2>1. run' = EnterPlaylistWrites(Complete(recorded, 0), Index + 1)
    BY <1>5 DEF PlaylistRecorded, Handle, failed
  <2>2. Cancelled(booked)
    <3>1. Index \in DOMAIN plan.lists
      BY <1>1, <1>5, NextIndex, PlanParts
      DEF RunInv, StageLength, PlaylistRecorded, Awaiting
    <3>2. plan.lists[Index].source \in Source
      BY <1>1, <3>1, PlannedSourcesType DEF PlannedSources
    <3>3. published \in SUBSET Source
      BY <1>1, <3>2, MachineParts
    <3> HIDE DEF published
    <3> QED
      BY <1>1, <3>3 DEF Cancelled, Machine
  <2> HIDE DEF booked
  <2>3. Cancelled(recorded)
    BY <1>2, <2>2
  <2> HIDE DEF recorded
  <2>4. Cancelled(Complete(recorded, 0))
    BY <1>1, <2>3, StaysCancelled
  <2> QED
    BY <1>1, <2>1, <2>4, CancelledEnters DEF Cancelled, NoUnitStarted
<1>6. CASE PlaylistRemoved(ok)
  <2> DEFINE stale == [run EXCEPT !.staleList = TRUE]
  <2>1. \/ run' = EnterPlaylistRemovals(Complete(FailPlaylist(stale), 0), Index + 1)
        \/ run' = EnterPlaylistRemovals(Complete(run, 0), Index + 1)
        \/ run' = Await(run, "forgetList", Index) /\ run.at.stage = "removeList"
    BY <1>6 DEF PlaylistRemoved, Handle, Awaiting
  <2>2. Cancelled(stale)
    BY <1>1 DEF Cancelled, Machine
  <2> HIDE DEF stale
  <2>3. Cancelled(FailPlaylist(stale))
    BY <1>1, <2>2, StaysCancelled
  <2>4. Cancelled(Complete(FailPlaylist(stale), 0))
    BY <1>1, <2>3, StaysCancelled
  <2>5. "forgetList" \in Stages
    BY DEF Stages
  <2>6. Await(run, "forgetList", Index).at = [stage |-> "forgetList", index |-> Index]
    BY <1>1, <2>5, AwaitType
  <2> QED
    BY <1>1, <1>3, <2>1, <2>4, <2>6, CancelledEnters DEF Cancelled, NoUnitStarted, Index
<1>7. CASE PlaylistForgotten(ok)
  <2> DEFINE base == IF ok THEN run ELSE failed
  <2>1. run' = EnterPlaylistRemovals(Complete(base, 0), Index + 1)
    BY <1>7 DEF PlaylistForgotten, Handle, failed
  <2>2. Cancelled(Complete(base, 0))
    BY <1>3
  <2> HIDE DEF base
  <2> QED
    BY <1>1, <2>1, <2>2, CancelledEnters DEF Cancelled, NoUnitStarted
<1> QED
  BY <1>4, <1>5, <1>6, <1>7

LEMMA CancelledRemoval ==
  ASSUME RunInv, run.cancelled, NEW ok \in BOOLEAN,
         TrackRemoved(ok) \/ FileForgotten(ok) \/ ReplacedFileRemoved(ok)
  PROVE  NoUnitStarted
<1> DEFINE failed == Fail(run, plan.removals[Index].track)
<1>1. /\ Cancelled(run) /\ plan \in MirrorPlan /\ run \in Machine /\ Index \in Nat
      /\ run.deferred \in Seq([path : Path, track : Track])
  BY RunParts DEF RunInv, Cancelled, Index
<1>2. ASSUME run.at.stage \in {"removeTrack", "forgetFile"}
      PROVE  Cancelled(Complete(failed, 0)) /\ Cancelled(Complete(run, 0))
  <2>1. Index \in 1..Len(plan.removals)
    BY <1>2, NextIndex DEF RunInv, StageLength
  <2>2. Cancelled(failed)
    BY <1>1, <2>1, RemovalTrack, StaysCancelled
  <2> HIDE DEF failed
  <2> QED
    BY <1>1, <2>2, StaysCancelled
<1>3. CASE TrackRemoved(ok)
  <2>1. /\ run.at.stage = "removeTrack"
        /\ \/ run' = EnterRemovals(Complete(failed, 0), Index + 1)
           \/ run' = EnterRemovals(Complete(run, 0), Index + 1)
           \/ run' = Await(run, "forgetFile", Index)
    BY <1>3 DEF TrackRemoved, Handle, Awaiting
  <2>2. "forgetFile" \in Stages
    BY DEF Stages
  <2>3. Await(run, "forgetFile", Index).at = [stage |-> "forgetFile", index |-> Index]
    BY <1>1, <2>2, AwaitType
  <2> HIDE DEF failed
  <2> QED
    BY <1>1, <1>2, <2>1, <2>3, CancelledEnters DEF Cancelled, NoUnitStarted, Index
<1>4. CASE FileForgotten(ok)
  <2>1. /\ run.at.stage = "forgetFile"
        /\ \/ run' = EnterRemovals(Complete(failed, 0), Index + 1)
           \/ run' = EnterRemovals(Complete(run, 0), Index + 1)
    BY <1>4 DEF FileForgotten, Handle, Awaiting
  <2> HIDE DEF failed
  <2> QED
    BY <1>1, <1>2, <2>1, CancelledEnters DEF Cancelled, NoUnitStarted
<1>5. CASE ReplacedFileRemoved(ok)
  <2> DEFINE track == run.deferred[Index].track
             base == IF ok THEN run ELSE Fail(run, track)
  <2>1. run' = EnterDeferredRemovals(base, Index + 1)
    BY <1>5 DEF ReplacedFileRemoved, Handle
  <2>2. track \in Track \cup {Unattributed}
    <3>1. Index \in 1..Len(run.deferred)
      BY <1>5, NextIndex DEF RunInv, StageLength, ReplacedFileRemoved, Awaiting
    <3>2. run.deferred[Index] \in [path : Path, track : Track]
      BY <1>1, <3>1, ElementOfSeq
    <3> QED
      BY <3>2
  <2> HIDE DEF track
  <2>3. Cancelled(base)
    BY <1>1, <2>2, StaysCancelled
  <2> HIDE DEF base
  <2> QED
    BY <1>1, <2>1, <2>3, CancelledEnters DEF Cancelled, NoUnitStarted
<1> QED
  BY <1>3, <1>4, <1>5

\* After a cancel the machine ends the unit in flight and starts no other: the only
\* work it still asks for is the second half of that unit (machine.rs, the checks of
\* `cancelled` in front of every stage).
THEOREM CancelEndsTheRun == Spec => CancelStartsNoUnit
<1> DEFINE Quiet ==
      run.cancelled /\ run.at.stage # "start" /\ run'.at # run.at =>
        \/ run'.at.stage = "done"
        \/ /\ run'.at.index = run.at.index
           /\ <<run.at.stage, run'.at.stage>> \in
                {<<"transcode", "copy">>, <<"copy", "recordFile">>,
                 <<"writeList", "recordList">>, <<"removeList", "forgetList">>,
                 <<"removeTrack", "forgetFile">>}
<1>1. ASSUME RunInv, [Next]_machineVars
      PROVE  Quiet
  <2> SUFFICES ASSUME run.cancelled, run.at.stage # "start", run'.at # run.at
               PROVE  NoUnitStarted
    BY DEF NoUnitStarted
  <2>1. ~ UNCHANGED machineVars /\ ~ Start
    BY DEF machineVars, Start, Awaiting
  <2>2. ~ Cancel
    BY <1>1, CancelKeeps
  <2>3. ~ \E bytes \in Bytes : CopyProgress(bytes)
    BY <1>1, CopyProgressKeeps
  <2>4. Answer
    BY <1>1, <2>1, <2>2, <2>3 DEF Next
  <2>5. PICK ok \in BOOLEAN :
          \/ PartialsCleaned(ok) \/ FileRecorded(ok) \/ SharedFileRecorded(ok)
          \/ PlaylistWritten(ok) \/ PlaylistRecorded(ok)
          \/ PlaylistRemoved(ok) \/ PlaylistForgotten(ok)
          \/ TrackRemoved(ok) \/ FileForgotten(ok)
          \/ ReplacedFileRemoved(ok) \/ TrackMetadataListWritten(ok)
          \/ \E bytes \in Bytes :
               \/ Transcoded(ok, bytes) \/ AnalysisWritten(ok, bytes)
               \/ DerivedCueWritten(ok, bytes) \/ LyricsWritten(ok, bytes)
               \/ \E path \in Path : TrackCopied(ok, bytes, path)
    BY <2>4, Zenon DEF Answer
  <2>6. CASE \/ PartialsCleaned(ok) \/ FileRecorded(ok) \/ SharedFileRecorded(ok)
             \/ TrackMetadataListWritten(ok)
    <3>1. 0 \in Nat /\ NoPath \in PathOrNone
      BY DEF PathOrNone
    <3> QED
      BY <1>1, <2>6, <3>1, CancelledTransfer, CancelledSidecar, Zenon
  <2>7. CASE \E bytes \in Bytes :
               \/ Transcoded(ok, bytes) \/ AnalysisWritten(ok, bytes)
               \/ DerivedCueWritten(ok, bytes) \/ LyricsWritten(ok, bytes)
               \/ \E path \in Path : TrackCopied(ok, bytes, path)
    <3>1. PICK bytes \in Bytes, path \in PathOrNone :
            \/ Transcoded(ok, bytes) \/ AnalysisWritten(ok, bytes)
            \/ DerivedCueWritten(ok, bytes) \/ LyricsWritten(ok, bytes)
            \/ TrackCopied(ok, bytes, path)
      BY <2>7, Zenon DEF PathOrNone
    <3>2. bytes \in Nat
      BY BytesAreNatural
    <3> QED
      BY <1>1, <3>1, <3>2, CancelledTransfer, CancelledSidecar, Zenon
  <2> QED
    BY <1>1, <2>5, <2>6, <2>7, CancelledList, CancelledRemoval, Zenon
<1>2. RunInv /\ [Next]_machineVars => [Quiet]_machineVars
  BY <1>1
<1> QED
  BY <1>2, RunInvAlways, PTL DEF Spec, CancelStartsNoUnit

-----------------------------------------------------------------------------
(* The step a run opens on.                                                *)

\* A run that did nothing yet and shows what it will begin with.
Fresh(m) ==
  /\ m \in Machine /\ ~m.cancelled
  /\ m.absent = {} /\ ~m.staleList /\ m.deferred = <<>>
  /\ m.metadata = run.metadata
  /\ m.phase = OpeningPhase

Opens(m) == m.at.stage # "done" => m.phase = OpeningPhase

LEMMA EnterPhase ==
  ASSUME NEW m \in Machine, NEW bytes \in Nat, NEW phase \in Phases,
         NEW stage \in Stages, NEW index \in Nat
  PROVE  /\ Await(Show(Begin(m, bytes), phase), stage, index).phase = phase
         /\ Await(Begin(m, bytes), stage, index).phase = m.phase
<1> DEFINE begun == Begin(m, bytes)
           shown == Show(begun, phase)
<1>1. begun \in Machine /\ begun.phase = m.phase
  BY BeginType DEF Machine, Begin
<1> HIDE DEF begun
<1>2. shown \in Machine /\ shown.phase = phase
  BY <1>1, ShowType DEF Machine, Show
<1>3. Await(begun, stage, index).phase = begun.phase
  BY <1>1 DEF Machine, Await
<1> HIDE DEF shown
<1>4. Await(shown, stage, index).phase = shown.phase
  BY <1>2 DEF Machine, Await
<1> QED
  BY <1>1, <1>2, <1>3, <1>4 DEF begun, shown

LEMMA NothingThere ==
  ASSUME NEW S, NEW list \in Seq(S)
  PROVE  /\ 1 > Len(list) <=> list = <<>>
         /\ list # <<>> => 1 \in 1..Len(list)
  OBVIOUS

LEMMA FinishOpens ==
  ASSUME plan \in MirrorPlan, NEW m \in Machine
  PROVE  Opens(Finish(m))
  BY FinishFrame DEF Opens

\* What the run opens on when its files and sidecars are none.
ListsPhase ==
  IF plan.lists # <<>> THEN "writingPlaylists"
  ELSE IF plan.listRemovals # <<>> \/ plan.removals # <<>> THEN "removing"
  ELSE IF run.metadata THEN "writingMetadata" ELSE "removing"

LEMMA RemovalsOpen ==
  ASSUME plan \in MirrorPlan, NEW m, Fresh(m), OpeningPhase = ListsPhase,
         plan.lists = <<>>, plan.listRemovals = <<>>
  PROVE  Opens(BeginRemovals(m))
<1>1. m \in Machine /\ plan.removals \in Seq(Removal) /\ 0 \in Nat /\ 1 \in Nat
  BY PlanParts DEF Fresh
<1>2. Opens(Finish(m))
  BY <1>1, FinishOpens
<1>3. CASE plan.removals # <<>>
  <2>1. 1 \in 1..Len(plan.removals) /\ ~(1 > Len(plan.removals))
    BY <1>1, <1>3, NothingThere
  <2>2. OpeningPhase = "removing" /\ m.phase = "removing"
    BY <1>3 DEF ListsPhase, Fresh
  <2>3. /\ "removing" \in Phases /\ "removeTrack" \in Stages /\ "forgetFile" \in Stages
    BY DEF Phases, Stages
  <2>4. /\ Await(Begin(m, 0), "forgetFile", 1).phase = "removing"
        /\ Await(Show(Begin(m, 0), "removing"), "removeTrack", 1).phase = "removing"
    BY <1>1, <2>2, <2>3, EnterPhase
  <2> QED
    BY <1>2, <2>1, <2>2, <2>4 DEF BeginRemovals, EnterRemovals, Opens
<1>4. CASE plan.removals = <<>>
  <2>1. 1 > Len(plan.removals) /\ 1 > Len(m.deferred)
    BY <1>4 DEF Fresh
  <2>2. EnterTrackMetadataList(m).at.stage # "done" =>
          EnterTrackMetadataList(m).phase = OpeningPhase
    <3>1. CASE m.metadata
      <4>1. OpeningPhase = "writingMetadata"
        BY <1>4, <3>1 DEF ListsPhase, Fresh
      <4>2. EnterTrackMetadataList(m)
              = Await(Show(Begin(m, 0), "writingMetadata"), "writeMetadata", 0)
        BY <3>1 DEF EnterTrackMetadataList
      <4> QED
        <5>1. "writingMetadata" \in Phases /\ "writeMetadata" \in Stages
          BY Names
        <5>2. Await(Show(Begin(m, 0), "writingMetadata"), "writeMetadata", 0).phase
                = "writingMetadata"
          BY <1>1, <5>1, EnterPhase
        <5> QED
          BY <4>1, <4>2, <5>2
    <3>2. CASE ~m.metadata
      BY <1>2, <3>2 DEF EnterTrackMetadataList, Opens
    <3> QED
      BY <3>1, <3>2
  <2>3. \/ BeginRemovals(m) = Finish(m)
        \/ BeginRemovals(m) = EnterTrackMetadataList(m)
    BY <2>1 DEF BeginRemovals, EnterRemovals, EnterDeferredRemovals
  <2> QED
    BY <1>2, <2>2, <2>3 DEF Opens
<1> QED
  BY <1>3, <1>4

LEMMA ListRemovalsOpen ==
  ASSUME plan \in MirrorPlan, NEW m, Fresh(m), OpeningPhase = ListsPhase,
         plan.lists = <<>>
  PROVE  Opens(EnterPlaylistRemovals(m, 1))
<1> DEFINE end == Len(plan.listRemovals)
           ready == {k \in 1..end : ListMayGo(m, k)}
<1>1. m \in Machine /\ plan.listRemovals \in Seq(ListRow) /\ end \in Nat /\ ~m.cancelled
  BY PlanParts DEF Fresh
<1>2. PlannedSources = {}
  BY DEF PlannedSources
<1>3. ready = 1..end
  BY <1>2 DEF ListMayGo
<1>4. CASE plan.listRemovals = <<>>
  <2>1. end = 0 /\ ready = {} /\ end + 1 - 1 = 0
    BY <1>1, <1>3, <1>4
  <2>2. EnterPlaylistRemovals(m, 1) = BeginRemovals(m)
    BY <1>1, <2>1 DEF EnterPlaylistRemovals, SkipUnits
  <2> QED
    BY <1>4, <2>2, RemovalsOpen
<1>5. CASE plan.listRemovals # <<>>
  <2>1. 1 \in ready /\ ready \in SUBSET Nat
    BY <1>1, <1>3, <1>5, NothingThere
  <2>2. Least(ready) \in ready /\ Least(ready) \in Nat
    BY <2>1, LeastIndex
  <2> DEFINE first == Least(ready)
             skipped == SkipUnits(m, first - 1)
  <2>3. first \in Nat /\ first - 1 \in Nat
    BY <1>1, <1>3, <2>2
  <2>4. EnterPlaylistRemovals(m, 1)
          = Await(Show(Begin(skipped, 0), "removing"), "removeList", first)
    BY <1>1, <2>1 DEF EnterPlaylistRemovals
  <2> HIDE DEF first, ready
  <2>5. skipped \in Machine
    BY <1>1, <2>3, SkipUnitsType
  <2> HIDE DEF skipped
  <2>6. EnterPlaylistRemovals(m, 1).phase = "removing"
    <3>1. "removing" \in Phases /\ "removeList" \in Stages
      BY Names
    <3>2. Await(Show(Begin(skipped, 0), "removing"), "removeList", first).phase = "removing"
      BY <2>3, <2>5, <3>1, EnterPhase
    <3> QED
      BY <2>4, <3>2
  <2>7. OpeningPhase = "removing"
    BY <1>5 DEF ListsPhase
  <2> QED
    BY <2>6, <2>7 DEF Opens
<1> QED
  BY <1>4, <1>5

LEMMA ListsOpen ==
  ASSUME plan \in MirrorPlan, NEW m, Fresh(m), OpeningPhase = ListsPhase
  PROVE  Opens(EnterPlaylistWrites(m, 1))
<1>1. m \in Machine /\ plan.lists \in Seq(ListWrite) /\ ~m.cancelled
  BY PlanParts DEF Fresh
<1>2. CASE plan.lists = <<>>
  <2>1. EnterPlaylistWrites(m, 1) = EnterPlaylistRemovals(m, 1)
    BY <1>1, <1>2, NothingThere DEF EnterPlaylistWrites
  <2> QED
    BY <1>2, <2>1, ListRemovalsOpen
<1>3. CASE plan.lists # <<>>
  <2>1. OpeningPhase = "writingPlaylists"
    BY <1>3 DEF ListsPhase
  <2>2. ~(1 > Len(plan.lists))
    BY <1>1, <1>3, NothingThere
  <2>3. EnterPlaylistWrites(m, 1)
          = Await(Show(Begin(m, 0), "writingPlaylists"), "writeList", 1)
    BY <1>1, <2>2 DEF EnterPlaylistWrites
  <2>4. EnterPlaylistWrites(m, 1).phase = "writingPlaylists"
    <3>1. "writingPlaylists" \in Phases /\ "writeList" \in Stages
      BY Names
    <3>2. Await(Show(Begin(m, 0), "writingPlaylists"), "writeList", 1).phase
            = "writingPlaylists"
      BY <1>1, <3>1, EnterPhase
    <3> QED
      BY <2>3, <3>2
  <2> QED
    BY <2>1, <2>4 DEF Opens
<1> QED
  BY <1>2, <1>3

LEMMA LyricsOpen ==
  ASSUME plan \in MirrorPlan, NEW m, Fresh(m), plan.transfers = <<>>,
         plan.analysis = <<>>, plan.cues = <<>>
  PROVE  Opens(EnterLyricsWrites(m, 1))
<1>1. m \in Machine /\ plan.lyrics \in Seq(SidecarWrite) /\ ~m.cancelled
  BY PlanParts DEF Fresh
<1>2. CASE plan.lyrics = <<>>
  <2>1. EnterLyricsWrites(m, 1) = EnterPlaylistWrites(m, 1)
    BY <1>1, <1>2, NothingThere DEF EnterLyricsWrites
  <2>2. OpeningPhase = ListsPhase
    BY <1>2 DEF OpeningPhase, ListsPhase
  <2> QED
    BY <2>1, <2>2, ListsOpen
<1>3. CASE plan.lyrics # <<>>
  <2>1. OpeningPhase = "writingLyrics"
    BY <1>3 DEF OpeningPhase
  <2>2. 1 \in 1..Len(plan.lyrics) /\ ~(1 > Len(plan.lyrics))
    BY <1>1, <1>3, NothingThere
  <2>3. plan.lyrics[1] \in SidecarWrite
    BY <1>1, <2>2, ElementOfSeq
  <2>4. plan.lyrics[1].bytes \in Nat
    BY <2>3 DEF SidecarWrite
  <2>5. EnterLyricsWrites(m, 1)
          = Await(Show(Begin(m, plan.lyrics[1].bytes), "writingLyrics"), "writeLyrics", 1)
    BY <1>1, <2>2 DEF EnterLyricsWrites
  <2>6. EnterLyricsWrites(m, 1).phase = "writingLyrics"
    <3>1. "writingLyrics" \in Phases /\ "writeLyrics" \in Stages
      BY Names
    <3>2. Await(Show(Begin(m, plan.lyrics[1].bytes), "writingLyrics"), "writeLyrics", 1).phase
            = "writingLyrics"
      BY <1>1, <2>4, <3>1, EnterPhase
    <3> QED
      BY <2>5, <3>2
  <2> QED
    BY <2>1, <2>6 DEF Opens
<1> QED
  BY <1>2, <1>3

LEMMA CuesOpen ==
  ASSUME plan \in MirrorPlan, NEW m, Fresh(m), plan.transfers = <<>>,
         plan.analysis = <<>>
  PROVE  Opens(EnterCueWrites(m, 1))
<1> DEFINE end == Len(plan.cues)
           ready == {k \in 1..end : plan.cues[k].audio \notin m.absent}
<1>1. m \in Machine /\ plan.cues \in Seq(CueWrite) /\ end \in Nat /\ ~m.cancelled
  BY PlanParts DEF Fresh
<1>2. ready = 1..end
  BY DEF Fresh
<1>3. CASE plan.cues = <<>>
  <2>1. end = 0 /\ ready = {} /\ end + 1 - 1 = 0
    BY <1>1, <1>2, <1>3
  <2>2. EnterCueWrites(m, 1) = EnterLyricsWrites(m, 1)
    BY <1>1, <2>1 DEF EnterCueWrites, SkipUnits
  <2> QED
    BY <1>3, <2>2, LyricsOpen
<1>4. CASE plan.cues # <<>>
  <2>1. 1 \in ready /\ ready \in SUBSET Nat
    BY <1>1, <1>2, <1>4, NothingThere
  <2>2. Least(ready) \in ready
    BY <2>1, LeastIndex
  <2> DEFINE first == Least(ready)
             skipped == SkipUnits(m, first - 1)
             bytes == plan.cues[first].bytes
  <2>3. first \in Nat /\ first - 1 \in Nat /\ first \in 1..end
    BY <1>1, <1>2, <2>2
  <2>4. plan.cues[first] \in CueWrite
    BY <1>1, <2>3, ElementOfSeq
  <2>5. bytes \in Nat
    BY <2>4 DEF CueWrite
  <2>6. EnterCueWrites(m, 1)
          = Await(Show(Begin(skipped, bytes), "copying"), "writeCue", first)
    BY <1>1, <2>1 DEF EnterCueWrites
  <2> HIDE DEF first, ready, bytes
  <2>7. skipped \in Machine
    BY <1>1, <2>3, SkipUnitsType
  <2> HIDE DEF skipped
  <2>8. EnterCueWrites(m, 1).phase = "copying"
    <3>1. "copying" \in Phases /\ "writeCue" \in Stages
      BY Names
    <3>2. Await(Show(Begin(skipped, bytes), "copying"), "writeCue", first).phase = "copying"
      BY <2>3, <2>5, <2>7, <3>1, EnterPhase
    <3> QED
      BY <2>6, <3>2
  <2>9. OpeningPhase = "copying"
    BY <1>4 DEF OpeningPhase
  <2> QED
    BY <2>8, <2>9 DEF Opens
<1> QED
  BY <1>3, <1>4

LEMMA AnalysisOpens ==
  ASSUME plan \in MirrorPlan, NEW m, Fresh(m), plan.transfers = <<>>
  PROVE  Opens(EnterAnalysisWrites(m, 1))
<1>1. m \in Machine /\ plan.analysis \in Seq(SidecarWrite) /\ ~m.cancelled
  BY PlanParts DEF Fresh
<1>2. CASE plan.analysis = <<>>
  <2>1. EnterAnalysisWrites(m, 1) = EnterCueWrites(m, 1)
    BY <1>1, <1>2, NothingThere DEF EnterAnalysisWrites
  <2> QED
    BY <1>2, <2>1, CuesOpen
<1>3. CASE plan.analysis # <<>>
  <2>1. OpeningPhase = "writingAnalysis"
    BY <1>3 DEF OpeningPhase
  <2>2. 1 \in 1..Len(plan.analysis) /\ ~(1 > Len(plan.analysis))
    BY <1>1, <1>3, NothingThere
  <2>3. plan.analysis[1] \in SidecarWrite
    BY <1>1, <2>2, ElementOfSeq
  <2>4. plan.analysis[1].bytes \in Nat
    BY <2>3 DEF SidecarWrite
  <2>5. EnterAnalysisWrites(m, 1)
          = Await(Show(Begin(m, plan.analysis[1].bytes), "writingAnalysis"),
                  "writeAnalysis", 1)
    BY <1>1, <2>2 DEF EnterAnalysisWrites
  <2>6. EnterAnalysisWrites(m, 1).phase = "writingAnalysis"
    <3>1. "writingAnalysis" \in Phases /\ "writeAnalysis" \in Stages
      BY Names
    <3>2. Await(Show(Begin(m, plan.analysis[1].bytes), "writingAnalysis"),
                "writeAnalysis", 1).phase = "writingAnalysis"
      BY <1>1, <2>4, <3>1, EnterPhase
    <3> QED
      BY <2>5, <3>2
  <2> QED
    BY <2>1, <2>6 DEF Opens
<1> QED
  BY <1>2, <1>3

\* Rows whose file never arrived fail, and show nothing.
LEMMA SharedOpens ==
  ASSUME plan \in MirrorPlan, NEW m, Fresh(m), plan.transfers = <<>>
  PROVE  Opens(EnterSharedRecords(m, 1))
<1> DEFINE end == Len(plan.shared)
           placed == {k \in 1..end : PlacedAt(m, k) # NoPath}
           lost(upto) == {plan.shared[k].track : k \in 1..upto}
<1>1. /\ m \in Machine /\ plan.shared \in Seq(SharedRecord) /\ end \in Nat
      /\ ~m.cancelled /\ m.phase = OpeningPhase
  BY PlanParts DEF Fresh
<1>2. \A k \in 1..end : plan.shared[k].track \in Track
  <2> TAKE k \in 1..end
  <2>1. plan.shared[k] \in SharedRecord
    BY <1>1, ElementOfSeq
  <2> QED
    BY <2>1 DEF SharedRecord
<1>3. CASE placed = {}
  <2> DEFINE tracks == lost(end)
             failed == FailTracks(m, tracks)
  <2>1. tracks \in SUBSET Track
    BY <1>2
  <2>2. EnterSharedRecords(m, 1) = EnterAnalysisWrites(failed, 1)
    BY <1>1, <1>3 DEF EnterSharedRecords
  <2> HIDE DEF tracks
  <2>3. failed \in Machine
    BY <1>1, <2>1, FailTracksType
  <2>4. Fresh(failed)
    BY <2>3 DEF Fresh, Machine, FailTracks
  <2> HIDE DEF failed
  <2> QED
    BY <2>2, <2>4, AnalysisOpens
<1>4. CASE placed # {}
  <2>1. Least(placed) \in placed
    <3>1. placed \in SUBSET Nat
      OBVIOUS
    <3> HIDE DEF placed
    <3> QED
      BY <1>4, <3>1, LeastIndex
  <2> DEFINE first == Least(placed)
             tracks == lost(first - 1)
             failed == FailTracks(m, tracks)
             waiting == Await(failed, "recordShared", first)
             entered == [waiting EXCEPT !.sharedPath = PlacedAt(m, first)]
  <2>2. first \in 1..end /\ first \in Nat
    BY <1>1, <2>1
  <2>3. EnterSharedRecords(m, 1) = entered
    BY <1>1, <1>4 DEF EnterSharedRecords
  <2> HIDE DEF first, placed
  <2>4. tracks \in SUBSET Track
    BY <1>1, <1>2, <2>2
  <2> HIDE DEF tracks
  <2>5. failed \in Machine /\ failed.phase = m.phase
    BY <1>1, <2>4, FailTracksType DEF Machine, FailTracks
  <2> HIDE DEF failed
  <2>6. waiting \in Machine /\ waiting.phase = failed.phase
    <3>1. "recordShared" \in Stages
      BY DEF Stages
    <3>2. waiting.phase = failed.phase
      BY <2>5 DEF Machine, Await
    <3> QED
      BY <2>2, <2>5, <3>1, <3>2, AwaitType
  <2> HIDE DEF waiting
  <2>7. entered.phase = waiting.phase
    BY <2>6 DEF Machine
  <2> QED
    BY <1>1, <2>3, <2>5, <2>6, <2>7 DEF Opens
<1> QED
  BY <1>3, <1>4

LEMMA TransfersOpen ==
  ASSUME plan \in MirrorPlan, NEW m, Fresh(m)
  PROVE  Opens(EnterTransfers(m, 1))
<1>1. m \in Machine /\ plan.transfers \in Seq(Transfer) /\ ~m.cancelled
  BY PlanParts DEF Fresh
<1>2. CASE plan.transfers = <<>>
  <2>1. EnterTransfers(m, 1) = EnterSharedRecords(m, 1)
    BY <1>1, <1>2, NothingThere DEF EnterTransfers
  <2> QED
    BY <1>2, <2>1, SharedOpens
<1>3. CASE plan.transfers # <<>>
  <2> DEFINE fresh == [m EXCEPT !.transcoded = FALSE, !.transcodedBytes = 0,
                                !.copiedBytes = 0, !.copiedPath = NoPath]
             bytes == IF fresh.transcoded THEN fresh.transcodedBytes
                      ELSE plan.transfers[1].bytes
  <2>1. 1 \in 1..Len(plan.transfers) /\ ~(1 > Len(plan.transfers))
    BY <1>1, <1>3, NothingThere
  <2>2. plan.transfers[1] \in Transfer
    BY <1>1, <2>1, ElementOfSeq
  <2>3. fresh \in Machine
    BY <1>1 DEF Machine, PathOrNone
  <2>4. OpeningPhase = IF plan.transfers[1].transcode THEN "transcoding" ELSE "copying"
    BY <1>3 DEF OpeningPhase
  <2>5. EnterTransfers(m, 1)
          = IF plan.transfers[1].transcode
            THEN Await(Show(Begin(fresh, 0), "transcoding"), "transcode", 1)
            ELSE Await(Show(Begin(fresh, bytes), "copying"), "copy", 1)
    BY <1>1, <2>1 DEF EnterTransfers, StartCopy
  <2> HIDE DEF fresh
  <2>6. bytes \in Nat
    BY <2>2, <2>3 DEF Machine, Transfer
  <2> HIDE DEF bytes
  <2>7. /\ Await(Show(Begin(fresh, 0), "transcoding"), "transcode", 1).phase
             = "transcoding"
        /\ Await(Show(Begin(fresh, bytes), "copying"), "copy", 1).phase = "copying"
    <3>1. /\ "transcoding" \in Phases /\ "transcode" \in Stages
          /\ "copying" \in Phases /\ "copy" \in Stages
      BY Names
    <3> QED
      BY <2>3, <2>6, <3>1, EnterPhase
  <2> QED
    BY <2>4, <2>5, <2>7 DEF Opens
<1> QED
  BY <1>2, <1>3

\* The step a run shows while partial files are cleaned is the step of its first
\* work, whichever stages the plan leaves empty (machine.rs opening_phase against the
\* stage functions, MTP-18).
THEOREM OpensRight == Spec => OpensOnItsFirstStep
<1> DEFINE Opened1 ==
      run.at.stage = "partials" /\ run'.at.stage \notin {"partials", "done"}
        => run'.phase = run.phase
<1>1. ASSUME RunInv, [Next]_machineVars
      PROVE  Opened1
  <2> SUFFICES ASSUME run.at.stage = "partials", run'.at.stage \notin {"partials", "done"}
               PROVE  run'.phase = run.phase
    OBVIOUS
  <2>1. ~ UNCHANGED machineVars /\ ~ Start
    BY DEF machineVars, Start, Awaiting
  <2>2. ~ Cancel /\ ~ \E bytes \in Bytes : CopyProgress(bytes)
    BY <1>1, CancelKeeps, CopyProgressKeeps
  <2>3. Answer
    BY <1>1, <2>1, <2>2 DEF Next
  <2>4. PICK ok \in BOOLEAN : PartialsCleaned(ok)
    BY <2>3 DEF Answer, Awaiting, FileRecorded, SharedFileRecorded,
         PlaylistWritten, PlaylistRecorded, PlaylistRemoved, PlaylistForgotten,
         TrackRemoved, FileForgotten, ReplacedFileRemoved, TrackMetadataListWritten,
         Transcoded, AnalysisWritten, DerivedCueWritten, LyricsWritten, TrackCopied
  <2>5. /\ run \in Machine /\ plan \in MirrorPlan /\ run.phase = OpeningPhase
        /\ run.absent = {} /\ ~run.staleList /\ run.deferred = <<>>
    BY <1>1, RunParts DEF RunInv, Opening, Opened
  <2>6. CASE ok /\ ~run.cancelled
    <3>1. Fresh(run)
      BY <2>5, <2>6 DEF Fresh
    <3>2. run' = EnterTransfers(run, 1)
      BY <2>4, <2>6 DEF PartialsCleaned, Handle
    <3> QED
      BY <2>5, <3>1, <3>2, TransfersOpen DEF Opens
  <2>7. CASE ok /\ run.cancelled
    <3>1. run' = EnterTransfers(run, 1)
      BY <2>4, <2>7 DEF PartialsCleaned, Handle
    <3> QED
      BY <2>5, <2>7, <3>1, CancelledEnters
  <2>8. CASE ~ok
    <3>1. run' = Finish(StopStage(run))
      BY <2>4, <2>8 DEF PartialsCleaned, Handle
    <3> QED
      BY <2>5, <3>1, StopStageType, FinishFrame
  <2> QED
    BY <2>6, <2>7, <2>8
<1>2. RunInv /\ [Next]_machineVars => [Opened1]_machineVars
  BY <1>1
<1> QED
  BY <1>2, RunInvAlways, PTL DEF Spec, OpensOnItsFirstStep

=============================================================================
