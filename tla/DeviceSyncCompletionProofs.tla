----------------------- MODULE DeviceSyncCompletionProofs -----------------------
(***************************************************************************)
(* Theorems about a run that runs to its end: what it takes to complete,   *)
(* and what a completed run leaves on the device.                          *)
(*                                                                         *)
(* Nothing is held against a run that meets no trouble. Position by        *)
(* position (Stands) the invariant says what such a run has behind it, and *)
(* every function that enters a stage is shown to lead on (Goes).          *)
(*                                                                         *)
(* What a run leaves follows from what it has behind it (OnCourse): part   *)
(* by part, inventory and device are as wanted but for what the plan still *)
(* has ahead. A run that something is held against never completes         *)
(* (Spoiled), so every completed one was on course (Mirrored).             *)
(*                                                                         *)
(* What the files hold follows from the rows (Told): a row tells what is   *)
(* in the file it names unless a copy onto that file was never recorded,   *)
(* and a run under way has every wanted file recorded or ahead of it.      *)
(***************************************************************************)
EXTENDS DeviceSyncProofs

-----------------------------------------------------------------------------
(* A run in which nothing goes wrong.                                      *)

Untroubled(m) ==
  /\ m.failures = {} /\ ~m.cancelled /\ ~m.terminalError
  /\ m.absent = {} /\ ~m.staleList

LEMMA FrameUntroubled ==
  ASSUME NEW m, NEW n, Frame(m, n), Untroubled(m)
  PROVE  /\ Untroubled(n) /\ n.carried = m.carried /\ n.deferred = m.deferred
         /\ n.published = m.published
BY DEF Frame, Untroubled

\* How far along the lists of its plan an untroubled run is: the files that arrived,
\* the transfers and shared records that are recorded, ...
ArrivedTo(m) ==
  CASE m.at.stage \in Opened -> 0
    [] m.at.stage \in {"transcode", "copy"} -> m.at.index - 1
    [] m.at.stage = "recordFile" -> m.at.index
    [] OTHER -> Len(plan.transfers)
RecordedTo(m) ==
  CASE m.at.stage \in Opened -> 0
    [] m.at.stage \in TransferStages -> m.at.index - 1
    [] OTHER -> Len(plan.transfers)
SharedTo(m) ==
  CASE m.at.stage \in Opened \cup TransferStages -> 0
    [] m.at.stage = "recordShared" -> m.at.index - 1
    [] OTHER -> Len(plan.shared)

FileStages == Opened \cup TransferStages \cup {"recordShared"} \cup SidecarStages

\* ... the playlists written and recorded, removed and forgotten, ...
WrittenTo(m) ==
  CASE m.at.stage \in FileStages -> 0
    [] m.at.stage = "writeList" -> m.at.index - 1
    [] m.at.stage = "recordList" -> m.at.index
    [] OTHER -> Len(plan.lists)
BookedTo(m) ==
  CASE m.at.stage \in FileStages -> 0
    [] m.at.stage \in ListStages -> m.at.index - 1
    [] OTHER -> Len(plan.lists)
ClearedTo(m) ==
  CASE m.at.stage \in EarlyStages -> 0
    [] m.at.stage = "removeList" -> m.at.index - 1
    [] m.at.stage = "forgetList" -> m.at.index
    [] OTHER -> Len(plan.listRemovals)
UnbookedTo(m) ==
  CASE m.at.stage \in EarlyStages -> 0
    [] m.at.stage \in {"removeList", "forgetList"} -> m.at.index - 1
    [] OTHER -> Len(plan.listRemovals)

\* ... the files removed and forgotten, and the replaced files removed.
RemovedTo(m) ==
  CASE m.at.stage \in EarlyStages \cup {"removeList", "forgetList"} -> 0
    [] m.at.stage = "removeTrack" -> m.at.index - 1
    [] m.at.stage = "forgetFile" ->
         IF plan.removals[m.at.index].kind = "unshared" THEN m.at.index - 1
         ELSE m.at.index
    [] OTHER -> Len(plan.removals)
ForgottenTo(m) ==
  CASE m.at.stage \in EarlyStages \cup {"removeList", "forgetList"} -> 0
    [] m.at.stage \in {"removeTrack", "forgetFile"} -> m.at.index - 1
    [] OTHER -> Len(plan.removals)
ReplacedTo(m) ==
  CASE m.at.stage \in EarlyStages \cup {"removeList", "forgetList", "removeTrack",
                                        "forgetFile"} -> 0
    [] m.at.stage = "removeReplaced" -> m.at.index - 1
    [] OTHER -> Len(m.deferred)

\* The run has just done with this many entries of each list.
Stands(n, transfers, shared, lists, listRemovals, removals, replaced) ==
  /\ ArrivedTo(n) = transfers /\ RecordedTo(n) = transfers
  /\ SharedTo(n) = shared
  /\ WrittenTo(n) = lists /\ BookedTo(n) = lists
  /\ ClearedTo(n) = listRemovals /\ UnbookedTo(n) = listRemovals
  /\ RemovedTo(n) = removals /\ ForgottenTo(n) = removals
  /\ ReplacedTo(n) = replaced

\* Entering the next stage with m, untroubled, leads there.
Goes(m, n, transfers, shared, lists, listRemovals, removals, replaced) ==
  /\ n \in Machine /\ Untroubled(n)
  /\ n.carried = m.carried /\ n.deferred = m.deferred
  /\ n.at.stage \notin Opened \cup {"recordFile", "recordList", "forgetList"}
  /\ n.at.stage = "forgetFile" => plan.removals[n.at.index].kind = "unshared"
  /\ n.at.stage = "done" => n.outcome = "completed"
  /\ Stands(n, transfers, shared, lists, listRemovals, removals, replaced)

LEMMA FinishGoes ==
  ASSUME plan \in MirrorPlan, NEW m \in Machine, Untroubled(m)
  PROVE  Goes(m, Finish(m), Len(plan.transfers), Len(plan.shared), Len(plan.lists),
              Len(plan.listRemovals), Len(plan.removals), Len(m.deferred))
<1> DEFINE n == Finish(m)
           verified == PlannedSources
           ended == Await(m, "done", 0)
<1>1. ended \in Machine /\ Frame(m, ended)
  BY AwaitType, AwaitFrame DEF Stages
<1>2. n = [ended EXCEPT !.phase = "finishing", !.outcome = "completed",
                        !.verified = verified]
  BY DEF Finish, Untroubled
<1> HIDE DEF ended, verified
<1>3. /\ n.failures = ended.failures /\ n.cancelled = ended.cancelled
      /\ n.terminalError = ended.terminalError /\ n.absent = ended.absent
      /\ n.staleList = ended.staleList /\ n.outcome = "completed"
  BY <1>1, <1>2 DEF Machine
<1>4. /\ n \in Machine /\ n.at.stage = "done"
      /\ n.carried = m.carried /\ n.deferred = m.deferred
  BY FinishFrame
<1>5. Untroubled(n)
  BY <1>1, <1>3, FrameUntroubled DEF Untroubled
<1> HIDE DEF n
<1>6. Stands(n, Len(plan.transfers), Len(plan.shared), Len(plan.lists),
             Len(plan.listRemovals), Len(plan.removals), Len(m.deferred))
  BY <1>4 DEF Stands, ArrivedTo, RecordedTo, SharedTo, WrittenTo, BookedTo, ClearedTo,
     UnbookedTo, RemovedTo, ForgottenTo, ReplacedTo, EarlyStages, FileStages, Opened,
     TransferStages, SidecarStages, ListStages
<1> QED
  BY <1>3, <1>4, <1>5, <1>6 DEF n, Goes, Opened

\* The first step of a unit in a stage of its own.
StartsUnit(m, n, stage, index) ==
  /\ n \in Machine /\ Untroubled(n)
  /\ n.carried = m.carried /\ n.deferred = m.deferred
  /\ n.at.stage = stage /\ n.at.index = index

LEMMA UnitGoes ==
  ASSUME NEW m \in Machine, NEW bytes \in Nat, NEW phase \in Phases,
         NEW stage \in Stages, NEW index \in Nat, Untroubled(m)
  PROVE  StartsUnit(m, Await(Show(Begin(m, bytes), phase), stage, index), stage, index)
<1>1. /\ Await(Show(Begin(m, bytes), phase), stage, index) \in Machine
      /\ Await(Show(Begin(m, bytes), phase), stage, index).at
           = [stage |-> stage, index |-> index]
  BY EnterType
<1>2. Frame(m, Await(Show(Begin(m, bytes), phase), stage, index))
  BY EnterFrame
<1> QED
  BY <1>1, <1>2, FrameUntroubled DEF StartsUnit

LEMMA SkipUntroubled ==
  ASSUME NEW m \in Machine, NEW count \in Nat, Untroubled(m)
  PROVE  LET n == SkipUnits(m, count)
         IN  /\ n \in Machine /\ Untroubled(n)
             /\ n.carried = m.carried /\ n.deferred = m.deferred
             /\ n.published = m.published
<1>1. SkipUnits(m, count) \in Machine
  BY SkipUnitsType
<1>2. CASE count = 0
  BY <1>1, <1>2 DEF SkipUnits
<1>3. CASE count # 0
  <2> DEFINE ledger == [m.ledger EXCEPT
               !.bytes = AtMost(m.ledger.bytes + m.ledger.unit, m.ledger.bytesTotal),
               !.done = AtMost(m.ledger.done + count, m.ledger.total),
               !.unit = 0, !.unitTotal = 0]
  <2>1. SkipUnits(m, count) = [m EXCEPT !.ledger = ledger]
    BY <1>3, MachineParts DEF SkipUnits, Machine, Ledger
  <2> HIDE DEF ledger
  <2>2. Frame(m, SkipUnits(m, count))
    BY <2>1 DEF Machine, Frame
  <2> QED
    BY <1>1, <2>2, FrameUntroubled
<1> QED
  BY <1>1, <1>2, <1>3

\* Which stage a machine is in says how far along it is.
LEMMA StandsLate ==
  ASSUME plan \in MirrorPlan, NEW n
  PROVE  /\ n.at.stage = "writeMetadata" =>
              Stands(n, Len(plan.transfers), Len(plan.shared), Len(plan.lists),
                     Len(plan.listRemovals), Len(plan.removals), Len(n.deferred))
         /\ n.at.stage = "removeReplaced" =>
              Stands(n, Len(plan.transfers), Len(plan.shared), Len(plan.lists),
                     Len(plan.listRemovals), Len(plan.removals), n.at.index - 1)
         /\ \/ n.at.stage = "removeTrack"
            \/ /\ n.at.stage = "forgetFile"
               /\ plan.removals[n.at.index].kind = "unshared"
            => Stands(n, Len(plan.transfers), Len(plan.shared), Len(plan.lists),
                      Len(plan.listRemovals), n.at.index - 1, 0)
         /\ n.at.stage = "removeList" =>
              Stands(n, Len(plan.transfers), Len(plan.shared), Len(plan.lists),
                     n.at.index - 1, 0, 0)
<1> USE DEF Stands, ArrivedTo, RecordedTo, SharedTo, WrittenTo, BookedTo, ClearedTo,
     UnbookedTo, RemovedTo, ForgottenTo, ReplacedTo, EarlyStages, FileStages, Opened,
     TransferStages, SidecarStages, ListStages
<1>1. CASE n.at.stage = "writeMetadata"
  BY <1>1
<1>2. CASE n.at.stage = "removeReplaced"
  BY <1>2
<1>3. CASE n.at.stage = "removeTrack"
  BY <1>3
<1>4. CASE n.at.stage = "forgetFile" /\ plan.removals[n.at.index].kind = "unshared"
  BY <1>4
<1>5. CASE n.at.stage = "removeList"
  BY <1>5
<1> QED
  BY <1>1, <1>2, <1>3, <1>4, <1>5

LEMMA StandsEarly ==
  ASSUME plan \in MirrorPlan, NEW n
  PROVE  /\ n.at.stage = "writeList" =>
              Stands(n, Len(plan.transfers), Len(plan.shared), n.at.index - 1, 0, 0, 0)
         /\ n.at.stage \in SidecarStages =>
              Stands(n, Len(plan.transfers), Len(plan.shared), 0, 0, 0, 0)
         /\ n.at.stage = "recordShared" =>
              Stands(n, Len(plan.transfers), n.at.index - 1, 0, 0, 0, 0)
         /\ n.at.stage \in {"transcode", "copy"} =>
              Stands(n, n.at.index - 1, 0, 0, 0, 0, 0)
<1> USE DEF Stands, ArrivedTo, RecordedTo, SharedTo, WrittenTo, BookedTo, ClearedTo,
     UnbookedTo, RemovedTo, ForgottenTo, ReplacedTo, EarlyStages, FileStages, Opened,
     TransferStages, SidecarStages, ListStages
<1>1. CASE n.at.stage = "writeList"
  BY <1>1
<1>2. CASE n.at.stage \in SidecarStages
  BY <1>2
<1>3. CASE n.at.stage = "recordShared"
  BY <1>3
<1>4. CASE n.at.stage \in {"transcode", "copy"}
  BY <1>4
<1> QED
  BY <1>1, <1>2, <1>3, <1>4

LEMMA MetadataGoes ==
  ASSUME plan \in MirrorPlan, NEW m \in Machine, Untroubled(m)
  PROVE  Goes(m, EnterTrackMetadataList(m), Len(plan.transfers), Len(plan.shared),
              Len(plan.lists), Len(plan.listRemovals), Len(plan.removals),
              Len(m.deferred))
<1>1. CASE m.metadata
  <2> DEFINE n == Await(Show(Begin(m, 0), "writingMetadata"), "writeMetadata", 0)
  <2>1. n = EnterTrackMetadataList(m)
    BY <1>1 DEF EnterTrackMetadataList
  <2>2. StartsUnit(m, n, "writeMetadata", 0)
    BY Names, UnitGoes
  <2> HIDE DEF n
  <2> QED
    BY <2>1, <2>2, StandsLate DEF Goes, Opened, StartsUnit
<1>2. CASE ~m.metadata
  BY <1>2, FinishGoes DEF EnterTrackMetadataList
<1> QED
  BY <1>1, <1>2

LEMMA DeferredGoes ==
  ASSUME plan \in MirrorPlan, NEW m \in Machine, Untroubled(m),
         NEW from \in 1..(Len(m.deferred) + 1)
  PROVE  Goes(m, EnterDeferredRemovals(m, from), Len(plan.transfers), Len(plan.shared),
              Len(plan.lists), Len(plan.listRemovals), Len(plan.removals), from - 1)
<1>0. Len(m.deferred) \in Nat /\ ~m.cancelled
  BY MachineParts DEF Untroubled
<1>1. CASE from > Len(m.deferred)
  <2>1. EnterDeferredRemovals(m, from) = EnterTrackMetadataList(m)
    BY <1>0, <1>1 DEF EnterDeferredRemovals
  <2>2. from - 1 = Len(m.deferred)
    BY <1>0, <1>1
  <2> QED
    BY <2>1, <2>2, MetadataGoes
<1>2. CASE ~(from > Len(m.deferred))
  <2> DEFINE shown == Show(m, "removing")
             n == Await(shown, "removeReplaced", from)
  <2>1. shown \in Machine /\ Frame(m, shown)
    BY Names, ShowType, ShowFrame
  <2> HIDE DEF shown
  <2>0. from \in Nat /\ "removeReplaced" \in Stages
    BY <1>0 DEF Stages
  <2>2. /\ n \in Machine /\ n.at = [stage |-> "removeReplaced", index |-> from]
        /\ Frame(shown, n)
    BY <2>0, <2>1, AwaitType, AwaitFrame
  <2>3. n = EnterDeferredRemovals(m, from)
    BY <1>0, <1>2 DEF EnterDeferredRemovals, shown
  <2> HIDE DEF n
  <2>4. Untroubled(n) /\ n.carried = m.carried /\ n.deferred = m.deferred
    BY <2>1, <2>2, FrameTransitive, FrameUntroubled
  <2>5. n.at.stage = "removeReplaced" /\ n.at.index = from
    BY <2>2
  <2> QED
    BY <2>2, <2>3, <2>4, <2>5, StandsLate DEF Goes, Opened
<1> QED
  BY <1>1, <1>2

LEMMA RemovalsGo ==
  ASSUME plan \in MirrorPlan, NEW m \in Machine, Untroubled(m),
         NEW from \in 1..(Len(plan.removals) + 1)
  PROVE  Goes(m, EnterRemovals(m, from), Len(plan.transfers), Len(plan.shared),
              Len(plan.lists), Len(plan.listRemovals), from - 1, 0)
<1>0. Len(plan.removals) \in Nat /\ ~m.cancelled /\ Len(m.deferred) \in Nat
  BY PlanParts, MachineParts DEF Untroubled
<1>1. CASE from > Len(plan.removals)
  <2>1. EnterRemovals(m, from) = EnterDeferredRemovals(m, 1)
    BY <1>0, <1>1 DEF EnterRemovals
  <2>2. from - 1 = Len(plan.removals) /\ 1 \in 1..(Len(m.deferred) + 1) /\ 1 - 1 = 0
    BY <1>0, <1>1
  <2>3. Goes(m, EnterDeferredRemovals(m, 1), Len(plan.transfers), Len(plan.shared),
             Len(plan.lists), Len(plan.listRemovals), Len(plan.removals), 1 - 1)
    BY <2>2, DeferredGoes
  <2> QED
    BY <2>1, <2>2, <2>3
<1>2. CASE /\ ~(from > Len(plan.removals))
           /\ plan.removals[from].kind = "unshared"
  <2> DEFINE begun == Begin(m, 0)
             n == Await(begun, "forgetFile", from)
  <2>1. begun \in Machine /\ Frame(m, begun)
    BY BeginType, BeginFrame
  <2> HIDE DEF begun
  <2>2. /\ n \in Machine /\ n.at = [stage |-> "forgetFile", index |-> from]
        /\ Frame(begun, n)
    BY <1>0, <2>1, AwaitType, AwaitFrame DEF Stages
  <2>3. n = EnterRemovals(m, from)
    BY <1>0, <1>2 DEF EnterRemovals, begun
  <2> HIDE DEF n
  <2>4. Untroubled(n) /\ n.carried = m.carried /\ n.deferred = m.deferred
    BY <2>1, <2>2, FrameTransitive, FrameUntroubled
  <2>5. n.at.stage = "forgetFile" /\ n.at.index = from
    BY <2>2
  <2> QED
    BY <1>2, <2>2, <2>3, <2>4, <2>5, StandsLate DEF Goes, Opened
<1>3. CASE /\ ~(from > Len(plan.removals))
           /\ plan.removals[from].kind # "unshared"
  <2> DEFINE n == Await(Show(Begin(m, 0), "removing"), "removeTrack", from)
  <2>1. n = EnterRemovals(m, from)
    BY <1>0, <1>3 DEF EnterRemovals
  <2>2. StartsUnit(m, n, "removeTrack", from)
    BY <1>0, Names, UnitGoes
  <2> HIDE DEF n
  <2>3. /\ n \in Machine /\ Untroubled(n)
        /\ n.carried = m.carried /\ n.deferred = m.deferred
        /\ n.at.stage = "removeTrack" /\ n.at.index = from
    BY <2>2 DEF StartsUnit
  <2>4. Stands(n, Len(plan.transfers), Len(plan.shared), Len(plan.lists),
               Len(plan.listRemovals), n.at.index - 1, 0)
    BY <2>3 DEF Stands, ArrivedTo, RecordedTo, SharedTo, WrittenTo, BookedTo, ClearedTo,
       UnbookedTo, RemovedTo, ForgottenTo, ReplacedTo, EarlyStages, FileStages, Opened,
       TransferStages, SidecarStages, ListStages
  <2> QED
    BY <2>1, <2>3, <2>4 DEF Goes, Opened
<1> QED
  BY <1>1, <1>2, <1>3

AllPublished(m) == PlannedSources \subseteq m.published

LEMMA ListRemovalsGo ==
  ASSUME plan \in MirrorPlan, NEW m \in Machine, Untroubled(m), AllPublished(m),
         NEW from \in 1..(Len(plan.listRemovals) + 1)
  PROVE  Goes(m, EnterPlaylistRemovals(m, from), Len(plan.transfers),
              Len(plan.shared), Len(plan.lists), from - 1, 0, 0)
<1> DEFINE end == Len(plan.listRemovals)
           ready == {k \in from..end : ListMayGo(m, k)}
<1>1. end \in Nat /\ ~m.cancelled /\ Len(plan.removals) \in Nat
  BY PlanParts DEF Untroubled
<1>2. \A k \in from..end : ListMayGo(m, k)
  BY DEF ListMayGo, AllPublished
<1>3. CASE from > end
  <2> DEFINE skipped == SkipUnits(m, end + 1 - from)
  <2>1. ready = {} /\ end + 1 - from = 0 /\ from - 1 = end
    BY <1>1, <1>3
  <2>2. skipped = m
    BY <2>1 DEF SkipUnits
  <2>3. EnterPlaylistRemovals(m, from) = BeginRemovals(skipped)
    BY <1>1, <2>1 DEF EnterPlaylistRemovals
  <2>4. BeginRemovals(m) = EnterRemovals(m, 1)
    BY DEF BeginRemovals, AllPublished, Untroubled
  <2>5. 1 \in 1..(Len(plan.removals) + 1) /\ 1 - 1 = 0
    BY <1>1
  <2>6. Goes(m, EnterRemovals(m, 1), Len(plan.transfers), Len(plan.shared),
             Len(plan.lists), Len(plan.listRemovals), 1 - 1, 0)
    BY <2>5, RemovalsGo
  <2> QED
    BY <2>1, <2>2, <2>3, <2>4, <2>5, <2>6
<1>4. CASE ~(from > end)
  <2>1. ready = from..end /\ ready # {} /\ ready \in SUBSET Nat
    BY <1>1, <1>2, <1>4
  <2>2. Least(ready) = from
    <3>1. Least(ready) \in ready /\ \A j \in ready : Least(ready) <= j
      <4> HIDE DEF ready
      <4> QED
        BY <2>1, LeastIndex
    <3>2. from \in ready /\ from <= Least(ready)
      BY <1>1, <1>4, <2>1, <3>1
    <3> QED
      BY <1>1, <2>1, <3>1, <3>2
  <2> DEFINE skipped == SkipUnits(m, Least(ready) - from)
             n == Await(Show(Begin(m, 0), "removing"), "removeList", from)
  <2>3. EnterPlaylistRemovals(m, from)
          = Await(Show(Begin(skipped, 0), "removing"), "removeList", Least(ready))
    BY <1>1, <2>1 DEF EnterPlaylistRemovals
  <2>4. skipped = m
    BY <2>2 DEF SkipUnits
  <2>5. EnterPlaylistRemovals(m, from) = n
    <3> HIDE DEF skipped, ready
    <3> QED
      BY <2>2, <2>3, <2>4
  <2>6. StartsUnit(m, n, "removeList", from)
    BY <1>1, Names, UnitGoes
  <2> HIDE DEF n
  <2> QED
    BY <2>5, <2>6, StandsLate DEF Goes, Opened, StartsUnit
<1> QED
  BY <1>3, <1>4

LEMMA NoListsPublished ==
  ASSUME plan \in MirrorPlan, Len(plan.lists) = 0, NEW m
  PROVE  AllPublished(m)
<1>1. DOMAIN plan.lists = {}
  BY PlanParts, LenProperties
<1> QED
  BY <1>1 DEF AllPublished, PlannedSources

LEMMA ListWritesGo ==
  ASSUME plan \in MirrorPlan, NEW m \in Machine, Untroubled(m),
         NEW from \in 1..(Len(plan.lists) + 1),
         from > Len(plan.lists) => AllPublished(m)
  PROVE  Goes(m, EnterPlaylistWrites(m, from), Len(plan.transfers),
              Len(plan.shared), from - 1, 0, 0, 0)
<1>0. /\ Len(plan.lists) \in Nat /\ ~m.cancelled /\ Len(plan.listRemovals) \in Nat
  BY PlanParts DEF Untroubled
<1>1. CASE from > Len(plan.lists)
  <2>1. EnterPlaylistWrites(m, from) = EnterPlaylistRemovals(m, 1)
    BY <1>0, <1>1 DEF EnterPlaylistWrites
  <2>2. /\ from - 1 = Len(plan.lists) /\ 1 - 1 = 0
        /\ 1 \in 1..(Len(plan.listRemovals) + 1)
    BY <1>0, <1>1
  <2>3. Goes(m, EnterPlaylistRemovals(m, 1), Len(plan.transfers), Len(plan.shared),
             Len(plan.lists), 1 - 1, 0, 0)
    BY <1>1, <2>2, ListRemovalsGo
  <2> QED
    BY <2>1, <2>2, <2>3
<1>2. CASE ~(from > Len(plan.lists))
  <2> DEFINE n == Await(Show(Begin(m, 0), "writingPlaylists"), "writeList", from)
  <2>1. n = EnterPlaylistWrites(m, from)
    BY <1>0, <1>2 DEF EnterPlaylistWrites
  <2>2. StartsUnit(m, n, "writeList", from)
    BY <1>0, Names, UnitGoes
  <2> HIDE DEF n
  <2> QED
    BY <2>1, <2>2, StandsEarly DEF Goes, Opened, StartsUnit
<1> QED
  BY <1>1, <1>2

LEMMA ListsGo ==
  ASSUME plan \in MirrorPlan, NEW m \in Machine, Untroubled(m)
  PROVE  Goes(m, EnterPlaylistWrites(m, 1), Len(plan.transfers),
              Len(plan.shared), 0, 0, 0, 0)
<1>1. Len(plan.lists) \in Nat
  BY PlanParts
<1>2. 1 \in 1..(Len(plan.lists) + 1) /\ 1 - 1 = 0
  BY <1>1
<1>3. 1 > Len(plan.lists) => AllPublished(m)
  BY <1>1, NoListsPublished
<1>4. Goes(m, EnterPlaylistWrites(m, 1), Len(plan.transfers), Len(plan.shared),
           1 - 1, 0, 0, 0)
  BY <1>2, <1>3, ListWritesGo
<1> QED
  BY <1>2, <1>4

\* A sidecar of its own, in one of the three stages.
LEMMA SidecarGoes ==
  ASSUME plan \in MirrorPlan, NEW m \in Machine, Untroubled(m), NEW bytes \in Nat,
         NEW phase \in Phases, NEW stage \in SidecarStages, NEW index \in Nat
  PROVE  Goes(m, Await(Show(Begin(m, bytes), phase), stage, index),
              Len(plan.transfers), Len(plan.shared), 0, 0, 0, 0)
<1> DEFINE n == Await(Show(Begin(m, bytes), phase), stage, index)
<1>1. stage \in Stages
  BY Names DEF SidecarStages
<1>2. /\ n \in Machine /\ Untroubled(n) /\ n.at.stage = stage
      /\ n.carried = m.carried /\ n.deferred = m.deferred
  BY <1>1, UnitGoes DEF StartsUnit
<1> HIDE DEF n
<1>3. Stands(n, Len(plan.transfers), Len(plan.shared), 0, 0, 0, 0)
  BY <1>2, StandsEarly
<1>4. n.at.stage \notin Opened \cup {"recordFile", "recordList", "forgetList",
                                     "forgetFile", "done"}
  BY <1>2 DEF SidecarStages, Opened
<1> QED
  BY <1>2, <1>3, <1>4 DEF Goes, n

LEMMA GoesThrough ==
  ASSUME NEW m, NEW n, NEW o, NEW a, NEW b, NEW c, NEW d, NEW e, NEW f,
         n.carried = m.carried, n.deferred = m.deferred, Goes(n, o, a, b, c, d, e, f)
  PROVE  Goes(m, o, a, b, c, d, e, f)
BY DEF Goes

LEMMA LyricsGo ==
  ASSUME plan \in MirrorPlan, NEW m \in Machine, Untroubled(m), NEW from \in Nat \ {0}
  PROVE  Goes(m, EnterLyricsWrites(m, from), Len(plan.transfers),
              Len(plan.shared), 0, 0, 0, 0)
<1>0. ~m.cancelled
  BY DEF Untroubled
<1>1. CASE from > Len(plan.lyrics)
  BY <1>0, <1>1, ListsGo DEF EnterLyricsWrites
<1>2. CASE ~(from > Len(plan.lyrics))
  <2> DEFINE bytes == plan.lyrics[from].bytes
  <2>1. EnterLyricsWrites(m, from) =
          Await(Show(Begin(m, bytes), "writingLyrics"), "writeLyrics", from)
    BY <1>0, <1>2 DEF EnterLyricsWrites
  <2>2. bytes \in Nat
    <3>1. from \in 1..Len(plan.lyrics)
      BY <1>2, PlanParts
    <3>2. plan.lyrics[from] \in SidecarWrite
      BY <3>1, PlanParts, ElementOfSeq
    <3> QED
      BY <3>2 DEF SidecarWrite
  <2> HIDE DEF bytes
  <2>3. "writeLyrics" \in SidecarStages
    BY DEF SidecarStages
  <2>4. Goes(m, Await(Show(Begin(m, bytes), "writingLyrics"), "writeLyrics", from),
             Len(plan.transfers), Len(plan.shared), 0, 0, 0, 0)
    BY <2>2, <2>3, Names, SidecarGoes
  <2> QED
    BY <2>1, <2>4
<1> QED
  BY <1>1, <1>2

LEMMA CuesGo ==
  ASSUME plan \in MirrorPlan, NEW m \in Machine, Untroubled(m),
         NEW from \in 1..(Len(plan.cues) + 1)
  PROVE  Goes(m, EnterCueWrites(m, from), Len(plan.transfers),
              Len(plan.shared), 0, 0, 0, 0)
<1> DEFINE end == Len(plan.cues)
           ready == {k \in from..end : plan.cues[k].audio \notin m.absent}
<1>1. end \in Nat /\ ~m.cancelled
  BY PlanParts DEF Untroubled
<1>2. CASE ready = {}
  <2> DEFINE skipped == SkipUnits(m, end + 1 - from)
  <2>1. end + 1 - from \in Nat
    BY <1>1
  <2>2. /\ skipped \in Machine /\ Untroubled(skipped)
        /\ skipped.carried = m.carried /\ skipped.deferred = m.deferred
    BY <2>1, SkipUntroubled
  <2>3. EnterCueWrites(m, from) = EnterLyricsWrites(skipped, 1)
    BY <1>1, <1>2 DEF EnterCueWrites
  <2> HIDE DEF skipped
  <2> QED
    BY <2>2, <2>3, LyricsGo, GoesThrough
<1>3. CASE ready # {}
  <2> DEFINE k == Least(ready)
             skipped == SkipUnits(m, k - from)
             bytes == plan.cues[k].bytes
  <2>1. ready \in SUBSET Nat
    BY <1>1
  <2>2. k \in ready
    <3> HIDE DEF ready
    <3> QED
      BY <1>3, <2>1, LeastIndex
  <2>3. EnterCueWrites(m, from) =
          Await(Show(Begin(skipped, bytes), "copying"), "writeCue", k)
    BY <1>1, <1>3 DEF EnterCueWrites
  <2> HIDE DEF k
  <2>4. k \in Nat /\ k - from \in Nat /\ k \in 1..Len(plan.cues)
    BY <1>1, <2>2
  <2>5. bytes \in Nat
    <3>1. plan.cues[k] \in CueWrite
      BY <2>4, PlanParts, ElementOfSeq
    <3> QED
      BY <3>1 DEF CueWrite
  <2>6. /\ skipped \in Machine /\ Untroubled(skipped)
        /\ skipped.carried = m.carried /\ skipped.deferred = m.deferred
    BY <2>4, SkipUntroubled
  <2> HIDE DEF skipped, bytes
  <2>7. "writeCue" \in SidecarStages
    BY DEF SidecarStages
  <2>8. Goes(skipped, Await(Show(Begin(skipped, bytes), "copying"), "writeCue", k),
             Len(plan.transfers), Len(plan.shared), 0, 0, 0, 0)
    BY <2>4, <2>5, <2>6, <2>7, Names, SidecarGoes
  <2> QED
    BY <2>3, <2>6, <2>8, GoesThrough
<1> QED
  BY <1>2, <1>3

LEMMA AnalysisGoes ==
  ASSUME plan \in MirrorPlan, NEW m \in Machine, Untroubled(m), NEW from \in Nat \ {0}
  PROVE  Goes(m, EnterAnalysisWrites(m, from), Len(plan.transfers),
              Len(plan.shared), 0, 0, 0, 0)
<1>0. ~m.cancelled /\ 1 \in 1..(Len(plan.cues) + 1)
  BY PlanParts DEF Untroubled
<1>1. CASE from > Len(plan.analysis)
  BY <1>0, <1>1, CuesGo DEF EnterAnalysisWrites
<1>2. CASE ~(from > Len(plan.analysis))
  <2> DEFINE bytes == plan.analysis[from].bytes
  <2>1. EnterAnalysisWrites(m, from) =
          Await(Show(Begin(m, bytes), "writingAnalysis"), "writeAnalysis", from)
    BY <1>0, <1>2 DEF EnterAnalysisWrites
  <2>2. bytes \in Nat
    <3>1. from \in 1..Len(plan.analysis)
      BY <1>2, PlanParts
    <3>2. plan.analysis[from] \in SidecarWrite
      BY <3>1, PlanParts, ElementOfSeq
    <3> QED
      BY <3>2 DEF SidecarWrite
  <2> HIDE DEF bytes
  <2>3. "writeAnalysis" \in SidecarStages
    BY DEF SidecarStages
  <2>4. Goes(m, Await(Show(Begin(m, bytes), "writingAnalysis"), "writeAnalysis", from),
             Len(plan.transfers), Len(plan.shared), 0, 0, 0, 0)
    BY <2>2, <2>3, Names, SidecarGoes
  <2> QED
    BY <2>1, <2>4
<1> QED
  BY <1>1, <1>2

\* Every shared record has a place for its file.
AllPlaced(m) == \A k \in 1..Len(plan.shared) : PlacedAt(m, k) # NoPath

LEMMA NoneFailed ==
  ASSUME NEW m \in Machine, Untroubled(m)
  PROVE  LET n == FailTracks(m, {})
         IN  /\ n \in Machine /\ Untroubled(n)
             /\ n.carried = m.carried /\ n.deferred = m.deferred
BY DEF FailTracks, Untroubled, Machine

LEMMA SharedGo ==
  ASSUME plan \in MirrorPlan, NEW m \in Machine, Untroubled(m), AllPlaced(m),
         NEW from \in 1..(Len(plan.shared) + 1)
  PROVE  Goes(m, EnterSharedRecords(m, from), Len(plan.transfers), from - 1, 0, 0, 0, 0)
<1> DEFINE end == Len(plan.shared)
           placed == {k \in from..end : PlacedAt(m, k) # NoPath}
           lost(upto) == {plan.shared[k].track : k \in from..upto}
           unfailed == FailTracks(m, {})
<1>1. end \in Nat /\ ~m.cancelled
  BY PlanParts DEF Untroubled
<1>2. placed = from..end
  BY <1>1 DEF AllPlaced
<1>3. /\ unfailed \in Machine /\ Untroubled(unfailed)
      /\ unfailed.carried = m.carried /\ unfailed.deferred = m.deferred
  BY NoneFailed
<1>4. CASE from > end
  <2>1. placed = {} /\ lost(end) = {} /\ from - 1 = end
    BY <1>1, <1>2, <1>4
  <2>2. EnterSharedRecords(m, from) = EnterAnalysisWrites(FailTracks(m, lost(end)), 1)
    BY <1>1, <2>1 DEF EnterSharedRecords
  <2>3. EnterSharedRecords(m, from) = EnterAnalysisWrites(unfailed, 1)
    <3> HIDE DEF lost
    <3> QED
      BY <2>1, <2>2
  <2> HIDE DEF unfailed
  <2> QED
    BY <1>3, <2>1, <2>3, AnalysisGoes, GoesThrough
<1>5. CASE ~(from > end)
  <2>1. placed # {} /\ placed \in SUBSET Nat /\ from \in placed
    BY <1>1, <1>2, <1>5
  <2>2. Least(placed) = from
    <3>1. Least(placed) \in placed /\ \A j \in placed : Least(placed) <= j
      <4> HIDE DEF placed
      <4> QED
        BY <2>1, LeastIndex
    <3>2. Least(placed) \in from..end /\ Least(placed) <= from
      BY <1>2, <2>1, <3>1
    <3> QED
      BY <1>1, <3>2
  <2>3. lost(from - 1) = {}
    BY <1>1
  <2> DEFINE waiting == Await(unfailed, "recordShared", from)
             place == PlacedAt(m, from)
             n == [waiting EXCEPT !.sharedPath = place]
  <2>4. EnterSharedRecords(m, from)
          = [Await(FailTracks(m, lost(Least(placed) - 1)), "recordShared", Least(placed))
               EXCEPT !.sharedPath = PlacedAt(m, Least(placed))]
    BY <1>1, <2>1 DEF EnterSharedRecords
  <2>5. EnterSharedRecords(m, from) = n
    <3> HIDE DEF placed, lost
    <3> QED
      BY <2>2, <2>3, <2>4
  <2>6. from \in Nat /\ "recordShared" \in Stages
    BY DEF Stages
  <2> HIDE DEF unfailed
  <2>7. /\ waiting \in Machine /\ waiting.at = [stage |-> "recordShared", index |-> from]
        /\ Frame(unfailed, waiting)
    BY <1>3, <2>6, AwaitType, AwaitFrame
  <2>8. Untroubled(waiting) /\ waiting.carried = m.carried /\ waiting.deferred = m.deferred
    BY <1>3, <2>7, FrameUntroubled
  <2>9. place \in PathOrNone
    <3>1. from \in 1..Len(plan.shared)
      BY <1>1, <1>5
    <3>2. plan.shared[from] \in SharedRecord
      BY <3>1, PlanParts, ElementOfSeq
    <3> QED
      BY <3>2, MachineParts DEF PlacedAt, SharedRecord, PathOrNone
  <2> HIDE DEF waiting, place
  <2>10. /\ n \in Machine /\ Untroubled(n)
         /\ n.carried = m.carried /\ n.deferred = m.deferred /\ n.at = waiting.at
    BY <2>7, <2>8, <2>9 DEF Machine, Untroubled
  <2> HIDE DEF n
  <2>11. n.at.stage = "recordShared" /\ n.at.index = from
    BY <2>7, <2>10
  <2> QED
    BY <2>5, <2>10, <2>11, StandsEarly DEF Goes, Opened
<1> QED
  BY <1>4, <1>5

\* A transfer of its own.
LEMMA TransferGoes ==
  ASSUME plan \in MirrorPlan, NEW m \in Machine, Untroubled(m), NEW bytes \in Nat,
         NEW phase \in Phases, NEW stage \in {"transcode", "copy"}, NEW index \in Nat
  PROVE  Goes(m, Await(Show(Begin(m, bytes), phase), stage, index),
              index - 1, 0, 0, 0, 0, 0)
<1> DEFINE n == Await(Show(Begin(m, bytes), phase), stage, index)
<1>1. stage \in Stages
  BY Names
<1>2. /\ n \in Machine /\ Untroubled(n) /\ n.at.stage = stage /\ n.at.index = index
      /\ n.carried = m.carried /\ n.deferred = m.deferred
  BY <1>1, UnitGoes DEF StartsUnit
<1> HIDE DEF n
<1>3. Stands(n, index - 1, 0, 0, 0, 0, 0)
  BY <1>2, StandsEarly
<1>4. n.at.stage \notin Opened \cup {"recordFile", "recordList", "forgetList",
                                     "forgetFile", "done"}
  BY <1>2 DEF Opened
<1> QED
  BY <1>2, <1>3, <1>4 DEF Goes, n

LEMMA StartCopyGoes ==
  ASSUME plan \in MirrorPlan, NEW m \in Machine, Untroubled(m),
         NEW k \in 1..Len(plan.transfers)
  PROVE  Goes(m, StartCopy(m, k), k - 1, 0, 0, 0, 0, 0)
<1> DEFINE bytes == IF m.transcoded THEN m.transcodedBytes ELSE plan.transfers[k].bytes
<1>1. StartCopy(m, k) = Await(Show(Begin(m, bytes), "copying"), "copy", k)
  BY DEF StartCopy
<1>2. bytes \in Nat
  <2>1. plan.transfers[k] \in Transfer
    BY PlanParts, ElementOfSeq
  <2> QED
    BY <2>1 DEF Transfer, Machine
<1> HIDE DEF bytes
<1> QED
  BY <1>1, <1>2, Names, TransferGoes

LEMMA TransfersGo ==
  ASSUME plan \in MirrorPlan, NEW m \in Machine, Untroubled(m),
         NEW from \in 1..(Len(plan.transfers) + 1),
         from > Len(plan.transfers) => AllPlaced(m)
  PROVE  Goes(m, EnterTransfers(m, from), from - 1, 0, 0, 0, 0, 0)
<1> DEFINE fresh == [m EXCEPT !.transcoded = FALSE, !.transcodedBytes = 0,
                              !.copiedBytes = 0, !.copiedPath = NoPath]
<1>1. Len(plan.transfers) \in Nat /\ ~m.cancelled /\ Len(plan.shared) \in Nat
  BY PlanParts DEF Untroubled
<1>2. CASE from > Len(plan.transfers)
  <2>1. EnterTransfers(m, from) = EnterSharedRecords(m, 1)
    BY <1>1, <1>2 DEF EnterTransfers
  <2>2. /\ from - 1 = Len(plan.transfers) /\ 1 - 1 = 0
        /\ 1 \in 1..(Len(plan.shared) + 1)
    BY <1>1, <1>2
  <2>3. Goes(m, EnterSharedRecords(m, 1), Len(plan.transfers), 1 - 1, 0, 0, 0, 0)
    BY <1>2, <2>2, SharedGo
  <2> QED
    BY <2>1, <2>2, <2>3
<1>3. CASE ~(from > Len(plan.transfers))
  <2>1. /\ fresh \in Machine /\ Untroubled(fresh)
        /\ fresh.carried = m.carried /\ fresh.deferred = m.deferred
    BY DEF Machine, Untroubled, PathOrNone
  <2>2. from \in 1..Len(plan.transfers)
    BY <1>1, <1>3
  <2>3. CASE plan.transfers[from].transcode
    <3>1. EnterTransfers(m, from)
            = Await(Show(Begin(fresh, 0), "transcoding"), "transcode", from)
      BY <1>1, <1>3, <2>3 DEF EnterTransfers
    <3> HIDE DEF fresh
    <3>2. Goes(fresh, Await(Show(Begin(fresh, 0), "transcoding"), "transcode", from),
               from - 1, 0, 0, 0, 0, 0)
      BY <2>1, Names, TransferGoes
    <3> QED
      BY <2>1, <3>1, <3>2, GoesThrough
  <2>4. CASE ~plan.transfers[from].transcode
    <3>1. EnterTransfers(m, from) = StartCopy(fresh, from)
      BY <1>1, <1>3, <2>4 DEF EnterTransfers
    <3> HIDE DEF fresh
    <3>2. Goes(fresh, StartCopy(fresh, from), from - 1, 0, 0, 0, 0, 0)
      BY <2>1, <2>2, StartCopyGoes
    <3> QED
      BY <2>1, <3>1, <3>2, GoesThrough
  <2> QED
    BY <2>3, <2>4
<1> QED
  BY <1>2, <1>3

-----------------------------------------------------------------------------
(* Every answer of an untroubled run that is a success leads on.           *)

\* The file of a shared record that is not there yet is transferred.
LEMMA CarriersAreTransferred ==
  ASSUME NEW i, IsInput(i), NEW k \in DOMAIN SharedRecords(i),
         ~SharedRecords(i)[k].resident
  PROVE  \E j \in DOMAIN Transfers(i) :
           Transfers(i)[j].track = SharedRecords(i)[k].carrier
<1>1. PICK t \in SharedTracks(i) : SharedRecords(i)[k] = SharedOf(i, t)
  BY SharedListed DEF ItemsOf
<1>2. t \in Desired(i) /\ t \in Track
  BY InputParts DEF SharedTracks
<1> DEFINE c == Carrier(i, t)
<1>3. Anchors(i, t) = {} /\ SharedRecords(i)[k].carrier = c
  <2>1. /\ SharedOf(i, t).resident = (Anchors(i, t) # {})
        /\ Anchors(i, t) = {} => SharedOf(i, t).carrier = c
    BY DEF SharedOf
  <2> HIDE DEF c
  <2> QED
    BY <1>1, <2>1
<1>4. c \in Unit(t) /\ c \in Desired(i) /\ Unit(c) = Unit(t)
  BY <1>2, CarrierFacts, UnitFacts DEF Siblings
<1>5. Siblings(i, c) = Siblings(i, t)
  BY <1>4 DEF Siblings
<1>6. Anchors(i, c) = {} /\ Carrier(i, c) = c
  BY <1>3, <1>5 DEF Anchors, Carrier
<1> HIDE DEF c
<1>7. c \in Transferred(i)
  BY <1>4, <1>6 DEF Transferred
<1>8. PICK j \in DOMAIN Transfers(i) : Transfers(i)[j] = TransferOf(i, c)
  BY <1>7, TransfersListed DEF ItemsOf
<1>9. TransferOf(i, c).track = c
  BY DEF TransferOf
<1> QED
  BY <1>3, <1>8, <1>9

\* Every shared record has its place once the transfers are recorded.
LEMMA PlacesKnown ==
  ASSUME NEW i, Basis(i, plan, store.rows, store.listRows), plan \in MirrorPlan, NEW m,
         \A k \in 1..Len(plan.transfers) : m.carried[plan.transfers[k].track] # NoPath
  PROVE  AllPlaced(m)
<1> SUFFICES ASSUME NEW k \in 1..Len(plan.shared) PROVE PlacedAt(m, k) # NoPath
  BY DEF AllPlaced
<1>1. /\ k \in DOMAIN plan.shared
      /\ DOMAIN plan.transfers = 1..Len(plan.transfers)
  BY PlanParts, LenProperties
<1>2. plan.shared[k] \in SharedRecord
  BY PlanParts, ElementOfSeq
<1>3. CASE plan.shared[k].resident
  BY <1>2, <1>3, NoPathIsNoPath DEF PlacedAt, SharedRecord
<1>4. CASE ~plan.shared[k].resident
  <2>1. PICK j \in DOMAIN plan.transfers :
               plan.transfers[j].track = plan.shared[k].carrier
    BY <1>1, <1>4, PlanFields, CarriersAreTransferred
  <2> QED
    BY <1>1, <1>4, <2>1 DEF PlacedAt
<1> QED
  BY <1>3, <1>4

LEMMA CompletedUntroubled ==
  ASSUME NEW m \in Machine, NEW bytes \in Nat, Untroubled(m)
  PROVE  LET n == Complete(m, bytes)
         IN  /\ n \in Machine /\ Untroubled(n)
             /\ n.carried = m.carried /\ n.deferred = m.deferred
             /\ n.published = m.published
<1> DEFINE ledger == CompleteUnit(m.ledger, bytes)
<1>1. Complete(m, bytes) = [m EXCEPT !.ledger = ledger]
  BY DEF Complete
<1>2. Complete(m, bytes) \in Machine
  BY CompleteType
<1> HIDE DEF ledger
<1> QED
  BY <1>1, <1>2 DEF Machine, Untroubled

\* What a track's earlier file, set aside, adds to the files to be removed.
SetAside(m, previous, track) ==
  Append(m.deferred, [path |-> previous, track |-> track])

LEMMA DeferUntroubled ==
  ASSUME NEW m \in Machine, Untroubled(m), NEW path \in Path, NEW track \in Track
  PROVE  LET n == Defer(m, path, track)
         IN  /\ n \in Machine /\ Untroubled(n)
             /\ n.carried = m.carried /\ n.deferred = SetAside(m, path, track)
             /\ n.published = m.published
<1> DEFINE deferred == SetAside(m, path, track)
<1>1. Defer(m, path, track) = [m EXCEPT !.deferred = deferred]
  BY DEF Defer, SetAside
<1>2. Defer(m, path, track) \in Machine
  BY DeferType
<1> HIDE DEF deferred
<1> QED
  BY <1>1, <1>2 DEF Machine, Untroubled, deferred

Moved(m, k) == plan.transfers[k].previous \notin {NoPath, m.copiedPath}

LEMMA RecordedUntroubled ==
  ASSUME plan \in MirrorPlan, NEW m \in Machine, Untroubled(m),
         NEW k \in 1..Len(plan.transfers)
  PROVE  LET n == Recorded(m, k)
             transfer == plan.transfers[k]
         IN  /\ n \in Machine /\ Untroubled(n)
             /\ n.carried = [m.carried EXCEPT ![transfer.track] = m.copiedPath]
             /\ n.deferred = IF Moved(m, k)
                             THEN SetAside(m, transfer.previous, transfer.track)
                             ELSE m.deferred
             /\ n.published = m.published
<1> DEFINE transfer == plan.transfers[k]
           kept == IF Moved(m, k) THEN Defer(m, transfer.previous, transfer.track) ELSE m
           carried == [kept.carried EXCEPT ![transfer.track] = m.copiedPath]
<1>1. transfer \in Transfer
  BY PlanParts, ElementOfSeq
<1>2. transfer.track \in Track /\ transfer.previous \in PathOrNone
  BY <1>1 DEF Transfer
<1>3. /\ kept \in Machine /\ Untroubled(kept) /\ kept.carried = m.carried
      /\ kept.deferred = IF Moved(m, k)
                         THEN SetAside(m, transfer.previous, transfer.track)
                         ELSE m.deferred
      /\ kept.published = m.published
  <2>1. CASE Moved(m, k)
    <3>1. transfer.previous \in Path
      BY <1>2, <2>1 DEF Moved, PathOrNone
    <3> HIDE DEF transfer
    <3> QED
      BY <1>2, <2>1, <3>1, DeferUntroubled
  <2>2. CASE ~Moved(m, k)
    BY <2>2
  <2> QED
    BY <2>1, <2>2
<1>4. Recorded(m, k) = [kept EXCEPT !.carried = carried]
  BY DEF Recorded, Moved
<1>5. Recorded(m, k) \in Machine
  BY RecordedParts
<1> HIDE DEF kept
<1>6. carried = [m.carried EXCEPT ![transfer.track] = m.copiedPath]
  BY <1>3
<1> HIDE DEF carried, transfer
<1>7. /\ Untroubled(Recorded(m, k)) /\ Recorded(m, k).carried = carried
      /\ Recorded(m, k).deferred = kept.deferred
      /\ Recorded(m, k).published = kept.published
  BY <1>3, <1>4 DEF Machine, Untroubled
<1> QED
  BY <1>3, <1>5, <1>6, <1>7 DEF transfer

LEMMA SharedUntroubled ==
  ASSUME plan \in MirrorPlan, NEW m \in Machine, Untroubled(m),
         NEW k \in 1..Len(plan.shared)
  PROVE  LET n == DeferSharedPrevious(m, k)
             shared == plan.shared[k]
         IN  /\ n \in Machine /\ Untroubled(n) /\ n.carried = m.carried
             /\ n.published = m.published
             /\ n.deferred \in {m.deferred, SetAside(m, shared.previous, shared.track)}
             /\ n.deferred = m.deferred =>
                  \/ shared.previous \in {NoPath, m.sharedPath} \cup plan.desired
                  \/ \E d \in DOMAIN m.deferred : m.deferred[d].path = shared.previous
<1> DEFINE shared == plan.shared[k]
           stillNamed == \/ shared.previous = m.sharedPath
                         \/ shared.previous \in plan.desired
                         \/ \E d \in DOMAIN m.deferred : m.deferred[d].path = shared.previous
           deferred == Defer(m, shared.previous, shared.track)
<1>1. shared \in SharedRecord
  BY PlanParts, ElementOfSeq
<1>2. shared.track \in Track /\ shared.previous \in PathOrNone
  BY <1>1 DEF SharedRecord
<1>3. CASE shared.previous = NoPath \/ stillNamed
  <2>1. DeferSharedPrevious(m, k) = m
    BY <1>3 DEF DeferSharedPrevious
  <2> QED
    BY <1>3, <2>1
<1>4. CASE ~(shared.previous = NoPath \/ stillNamed)
  <2>1. DeferSharedPrevious(m, k) = deferred
    BY <1>4 DEF DeferSharedPrevious
  <2>2. shared.previous \in Path
    BY <1>2, <1>4 DEF PathOrNone
  <2> HIDE DEF shared, stillNamed
  <2>3. /\ deferred \in Machine /\ Untroubled(deferred) /\ deferred.carried = m.carried
        /\ deferred.deferred = SetAside(m, shared.previous, shared.track)
        /\ deferred.published = m.published
    BY <1>2, <2>2, DeferUntroubled
  <2>4. deferred.deferred # m.deferred
    <3>1. m.deferred \in Seq([path : Path, track : Track])
      BY MachineParts
    <3>2. Len(SetAside(m, shared.previous, shared.track)) = Len(m.deferred) + 1
      BY <1>2, <2>2, <3>1, AppendProperties DEF SetAside
    <3>3. Len(m.deferred) \in Nat
      BY <3>1, LenProperties
    <3> QED
      BY <2>3, <3>2, <3>3
  <2> HIDE DEF deferred
  <2> QED
    BY <2>1, <2>3, <2>4 DEF shared
<1> QED
  BY <1>3, <1>4

\* The second half of a unit: the run waits in another stage at the same entry.
Halfway(n, stage) ==
  /\ n \in Machine /\ Untroubled(n) /\ n.at = [stage |-> stage, index |-> Index]
  /\ n.carried = run.carried /\ n.deferred = run.deferred

LEMMA AwaitGoes ==
  ASSUME NEW m \in Machine, Untroubled(m), m.carried = run.carried,
         m.deferred = run.deferred, NEW stage \in Stages, Index \in Nat
  PROVE  Halfway(Await(m, stage, Index), stage)
<1>1. /\ Await(m, stage, Index) \in Machine
      /\ Await(m, stage, Index).at = [stage |-> stage, index |-> Index]
  BY AwaitType
<1>2. Frame(m, Await(m, stage, Index))
  BY AwaitFrame
<1> QED
  BY <1>1, <1>2, FrameUntroubled DEF Halfway

\* What an untroubled run has behind it, it has done.
LEMMA UntroubledReached ==
  ASSUME RunInv, Untroubled(run), run.at.stage # "done"
  PROVE  /\ \A k \in 1..TransfersBehind(run.at) :
              run.carried[plan.transfers[k].track] # NoPath
         /\ \A k \in 1..ListsBehind(run.at) : plan.lists[k].source \in run.published
BY DEF RunInv, Accounted, Reached, Untroubled, Unfailed

LEMMA LaterAllPublished ==
  ASSUME RunInv, Untroubled(run),
         run.at.stage \in {"removeList", "forgetList"}
  PROVE  AllPublished(run)
<1>1. ListsBehind(run.at) = Len(plan.lists) /\ run.at.stage # "done"
  BY DEF ListsBehind, Opened, TransferStages, SidecarStages, ListStages
<1>2. DOMAIN plan.lists = 1..Len(plan.lists)
  BY RunIndex, PlanParts, LenProperties
<1> QED
  BY <1>1, <1>2, UntroubledReached DEF AllPublished, PlannedSources

LEMMA PartialsGo ==
  ASSUME RunInv, Untroubled(run), NEW i, Basis(i, plan, store.rows, store.listRows),
         PartialsCleaned(TRUE)
  PROVE  Goes(run, run', 0, 0, 0, 0, 0, 0)
<1>1. run' = EnterTransfers(run, 1)
  BY DEF PartialsCleaned, Handle
<1>2. plan \in MirrorPlan /\ run \in Machine /\ Len(plan.transfers) \in Nat
  BY RunIndex, PlanParts
<1>3. 1 > Len(plan.transfers) => AllPlaced(run)
  <2> SUFFICES ASSUME 1 > Len(plan.transfers) PROVE AllPlaced(run)
    OBVIOUS
  <2>1. 1..Len(plan.transfers) = {}
    BY <1>2
  <2> QED
    BY <1>2, <2>1, PlacesKnown
<1>4. 1 \in 1..(Len(plan.transfers) + 1) /\ 1 - 1 = 0
  BY <1>2
<1>5. Goes(run, EnterTransfers(run, 1), 1 - 1, 0, 0, 0, 0, 0)
  BY <1>2, <1>3, <1>4, TransfersGo
<1> QED
  BY <1>1, <1>4, <1>5

LEMMA TranscodedGoes ==
  ASSUME RunInv, Untroubled(run), NEW bytes \in Bytes, Transcoded(TRUE, bytes)
  PROVE  /\ Index \in 1..Len(plan.transfers)
         /\ Goes(run, run', Index - 1, 0, 0, 0, 0, 0)
<1> DEFINE done == [run EXCEPT !.transcoded = TRUE, !.transcodedBytes = bytes]
<1>1. Index \in 1..Len(plan.transfers)
  BY RunIndex DEF Transcoded, Awaiting, StageLength
<1>2. /\ done \in Machine /\ Untroubled(done)
      /\ done.carried = run.carried /\ done.deferred = run.deferred
  BY RunIndex, BytesAreNatural DEF Machine, Untroubled
<1>3. run' = StartCopy(done, Index)
  BY DEF Transcoded, Handle
<1> HIDE DEF done
<1>4. Goes(done, StartCopy(done, Index), Index - 1, 0, 0, 0, 0, 0)
  BY <1>1, <1>2, RunIndex, StartCopyGoes
<1> QED
  BY <1>1, <1>2, <1>3, <1>4, GoesThrough

LEMMA TrackCopiedGoes ==
  ASSUME RunInv, Untroubled(run), NEW bytes \in Bytes, NEW path \in Path,
         TrackCopied(TRUE, bytes, path)
  PROVE  /\ Index \in 1..Len(plan.transfers) /\ Halfway(run', "recordFile")
         /\ run'.copiedPath = path
<1> DEFINE copied == [run EXCEPT !.copiedBytes = bytes, !.copiedPath = path]
<1>1. Index \in 1..Len(plan.transfers)
  BY RunIndex DEF TrackCopied, Awaiting, StageLength
<1>2. /\ copied \in Machine /\ Untroubled(copied)
      /\ copied.carried = run.carried /\ copied.deferred = run.deferred
      /\ copied.copiedPath = path
  BY RunIndex, BytesAreNatural DEF Machine, Untroubled, PathOrNone
<1>3. run' = Await(copied, "recordFile", Index)
  BY DEF TrackCopied, Handle
<1> HIDE DEF copied
<1>4. "recordFile" \in Stages /\ Index \in Nat
  BY RunIndex DEF Stages
<1>5. Halfway(Await(copied, "recordFile", Index), "recordFile")
  BY <1>2, <1>4, AwaitGoes
<1>6. run'.copiedPath = path
  BY <1>2, <1>3 DEF Await, Machine
<1> QED
  BY <1>1, <1>3, <1>5, <1>6

LEMMA FileRecordedGoes ==
  ASSUME RunInv, Placed(run), Untroubled(run),
         NEW i, Basis(i, plan, store.rows, store.listRows), FileRecorded(TRUE)
  PROVE  /\ Index \in 1..Len(plan.transfers)
         /\ Goes(Recorded(run, Index), run', Index, 0, 0, 0, 0, 0)
<1> DEFINE recorded == Recorded(run, Index)
           settled == [recorded EXCEPT !.copiedPath = NoPath, !.copiedBytes = 0]
           n == Complete(settled, run.copiedBytes)
<1>1. Index \in 1..Len(plan.transfers) /\ Awaiting("recordFile")
  BY RunIndex DEF FileRecorded, Awaiting, StageLength
<1>2. run' = EnterTransfers(n, Index + 1)
  BY DEF FileRecorded, Handle
<1>3. plan.transfers[Index].track \in Track
  <2>1. plan.transfers[Index] \in Transfer
    BY <1>1, RunIndex, PlanParts, ElementOfSeq
  <2> QED
    BY <2>1 DEF Transfer
<1>4. /\ recorded \in Machine /\ Untroubled(recorded)
      /\ recorded.carried = [run.carried EXCEPT ![plan.transfers[Index].track] = run.copiedPath]
  BY <1>1, RunIndex, RecordedUntroubled
<1> HIDE DEF recorded
<1>5. /\ settled \in Machine /\ Untroubled(settled)
      /\ settled.carried = recorded.carried /\ settled.deferred = recorded.deferred
  BY <1>4 DEF Machine, Untroubled, PathOrNone
<1> HIDE DEF settled
<1>6. /\ n \in Machine /\ Untroubled(n)
      /\ n.carried = recorded.carried /\ n.deferred = recorded.deferred
  BY <1>5, RunIndex, RunParts, CompletedUntroubled
<1> HIDE DEF n
<1>7. Len(plan.transfers) \in Nat /\ Index + 1 \in 1..(Len(plan.transfers) + 1)
      /\ Index + 1 - 1 = Index
  BY <1>1, RunIndex, PlanParts
<1>8. Index + 1 > Len(plan.transfers) => AllPlaced(n)
  <2> SUFFICES ASSUME Index + 1 > Len(plan.transfers) PROVE AllPlaced(n)
    OBVIOUS
  <2>1. TransfersBehind(run.at) = Index - 1 /\ run.at.stage # "done"
    BY <1>1 DEF TransfersBehind, Opened, TransferStages, Awaiting, Index
  <2>2. \A k \in 1..Len(plan.transfers) : k = Index \/ k \in 1..(Index - 1)
    BY <1>1, <1>7
  <2>3. run.copiedPath # NoPath
    BY <1>1, RecordedPath, NoPathIsNoPath
  <2>4. run.carried \in [Track -> PathOrNone]
    BY RunIndex, MachineParts
  <2>5. \A k \in 1..(Index - 1) : run.carried[plan.transfers[k].track] # NoPath
    BY <2>1, UntroubledReached
  <2>6. ASSUME NEW k \in 1..Len(plan.transfers)
        PROVE  n.carried[plan.transfers[k].track] # NoPath
    <3>1. plan.transfers[k] \in Transfer
      BY RunIndex, PlanParts, ElementOfSeq
    <3>2. plan.transfers[k].track \in Track
      BY <3>1 DEF Transfer
    <3> QED
      BY <1>3, <1>4, <1>6, <2>2, <2>3, <2>4, <2>5, <3>2
  <2> QED
    BY <2>6, RunIndex, PlacesKnown
<1>9. Goes(n, EnterTransfers(n, Index + 1), Index + 1 - 1, 0, 0, 0, 0, 0)
  BY <1>6, <1>7, <1>8, RunIndex, TransfersGo
<1> QED
  BY <1>1, <1>2, <1>6, <1>7, <1>9, GoesThrough DEF recorded

LEMMA SharedRecordedGoes ==
  ASSUME RunInv, Untroubled(run), NEW i, Basis(i, plan, store.rows, store.listRows),
         SharedFileRecorded(TRUE)
  PROVE  /\ Index \in 1..Len(plan.shared)
         /\ Goes(DeferSharedPrevious(run, Index), run', Len(plan.transfers), Index,
                 0, 0, 0, 0)
<1> DEFINE recorded == DeferSharedPrevious(run, Index)
           n == [recorded EXCEPT !.sharedPath = NoPath]
<1>1. Index \in 1..Len(plan.shared) /\ Awaiting("recordShared")
  BY RunIndex DEF SharedFileRecorded, Awaiting, StageLength
<1>2. run' = EnterSharedRecords(n, Index + 1)
  BY DEF SharedFileRecorded, Handle
<1>3. /\ recorded \in Machine /\ Untroubled(recorded)
      /\ recorded.carried = run.carried
  BY <1>1, RunIndex, SharedUntroubled
<1> HIDE DEF recorded
<1>4. /\ n \in Machine /\ Untroubled(n)
      /\ n.carried = recorded.carried /\ n.deferred = recorded.deferred
  BY <1>3 DEF Machine, Untroubled, PathOrNone
<1> HIDE DEF n
<1>5. TransfersBehind(run.at) = Len(plan.transfers) /\ run.at.stage # "done"
  BY <1>1 DEF TransfersBehind, Opened, TransferStages, Awaiting
<1>6. \A k \in 1..Len(plan.transfers) : n.carried[plan.transfers[k].track] # NoPath
  BY <1>3, <1>4, <1>5, UntroubledReached
<1>7. AllPlaced(n)
  BY <1>6, RunIndex, PlacesKnown
<1>8. /\ Index + 1 \in 1..(Len(plan.shared) + 1) /\ Index + 1 - 1 = Index
  BY <1>1, RunIndex, PlanParts
<1>9. Goes(n, EnterSharedRecords(n, Index + 1), Len(plan.transfers), Index + 1 - 1,
           0, 0, 0, 0)
  BY <1>4, <1>7, <1>8, RunIndex, SharedGo
<1> QED
  BY <1>1, <1>2, <1>4, <1>8, <1>9, GoesThrough DEF recorded

LEMMA AnalysisWrittenGoes ==
  ASSUME RunInv, Untroubled(run), NEW bytes \in Bytes, AnalysisWritten(TRUE, bytes)
  PROVE  /\ Index \in 1..Len(plan.analysis)
         /\ Goes(run, run', Len(plan.transfers), Len(plan.shared), 0, 0, 0, 0)
<1> DEFINE n == Complete(run, bytes)
<1>1. Index \in 1..Len(plan.analysis)
  BY RunIndex DEF AnalysisWritten, Awaiting, StageLength
<1>2. run' = EnterAnalysisWrites(n, Index + 1)
  BY DEF AnalysisWritten, Handle
<1>3. /\ n \in Machine /\ Untroubled(n)
      /\ n.carried = run.carried /\ n.deferred = run.deferred
  BY RunIndex, BytesAreNatural, CompletedUntroubled
<1> HIDE DEF n
<1>4. Index + 1 \in Nat \ {0}
  BY RunIndex
<1>5. Goes(n, EnterAnalysisWrites(n, Index + 1), Len(plan.transfers), Len(plan.shared),
           0, 0, 0, 0)
  BY <1>3, <1>4, RunIndex, AnalysisGoes
<1> QED
  BY <1>1, <1>2, <1>3, <1>5, GoesThrough

LEMMA PlaylistWrittenGoes ==
  ASSUME RunInv, Untroubled(run), PlaylistWritten(TRUE)
  PROVE  Index \in 1..Len(plan.lists) /\ Halfway(run', "recordList")
<1>1. Index \in 1..Len(plan.lists)
  BY RunIndex DEF PlaylistWritten, Awaiting, StageLength
<1>2. run' = Await(run, "recordList", Index)
  BY DEF PlaylistWritten, Handle
<1>3. "recordList" \in Stages /\ Index \in Nat
  BY RunIndex DEF Stages
<1> QED
  BY <1>1, <1>2, <1>3, RunIndex, AwaitGoes

LEMMA PlaylistRecordedGoes ==
  ASSUME RunInv, Untroubled(run), PlaylistRecorded(TRUE)
  PROVE  /\ Index \in 1..Len(plan.lists)
         /\ Goes(run, run', Len(plan.transfers), Len(plan.shared), Index, 0, 0, 0)
<1> DEFINE published == run.published \cup {plan.lists[Index].source}
           recorded == [run EXCEPT !.published = published]
           n == Complete(recorded, 0)
<1>1. Index \in 1..Len(plan.lists) /\ Awaiting("recordList")
  BY RunIndex DEF PlaylistRecorded, Awaiting, StageLength
<1>2. run' = EnterPlaylistWrites(n, Index + 1)
  BY DEF PlaylistRecorded, Handle
<1>3. published \in SUBSET Source
  <2>1. plan.lists[Index] \in ListWrite
    BY <1>1, RunIndex, PlanParts, ElementOfSeq
  <2> QED
    BY <2>1, RunIndex, RunParts DEF ListWrite
<1>4. Len(plan.lists) \in Nat /\ DOMAIN plan.lists = 1..Len(plan.lists)
  BY RunIndex, PlanParts, LenProperties
<1>5. Index + 1 > Len(plan.lists) => PlannedSources \subseteq published
  <2>1. ListsBehind(run.at) = Index - 1 /\ run.at.stage # "done"
    BY <1>1 DEF ListsBehind, Opened, TransferStages, SidecarStages, ListStages,
                Awaiting, Index
  <2>2. \A k \in 1..(Index - 1) : plan.lists[k].source \in run.published
    BY <2>1, UntroubledReached
  <2>3. Index + 1 > Len(plan.lists) => \A k \in DOMAIN plan.lists : k = Index \/ k \in 1..(Index - 1)
    BY <1>1, <1>4
  <2> QED
    BY <2>2, <2>3 DEF PlannedSources
<1> HIDE DEF published
<1>6. /\ recorded \in Machine /\ Untroubled(recorded)
      /\ recorded.carried = run.carried /\ recorded.deferred = run.deferred
      /\ recorded.published = published
  BY <1>3, RunIndex DEF Machine, Untroubled
<1> HIDE DEF recorded
<1>7. /\ n \in Machine /\ Untroubled(n)
      /\ n.carried = run.carried /\ n.deferred = run.deferred
      /\ n.published = published
  BY <1>6, CompletedUntroubled
<1> HIDE DEF n
<1>8. Index + 1 \in 1..(Len(plan.lists) + 1) /\ Index + 1 - 1 = Index
  BY <1>1, <1>4
<1>9. Goes(n, EnterPlaylistWrites(n, Index + 1), Len(plan.transfers), Len(plan.shared),
           Index + 1 - 1, 0, 0, 0)
  BY <1>5, <1>7, <1>8, RunIndex, ListWritesGo DEF AllPublished
<1> QED
  BY <1>1, <1>2, <1>7, <1>8, <1>9, GoesThrough

\* An obsolete playlist is removed, or forgotten after that.
LEMMA NextListRemovalGoes ==
  ASSUME RunInv, Untroubled(run), run.at.stage \in {"removeList", "forgetList"},
         run' = EnterPlaylistRemovals(Complete(run, 0), Index + 1)
  PROVE  Goes(run, run', Len(plan.transfers), Len(plan.shared), Len(plan.lists),
              Index, 0, 0)
<1> DEFINE n == Complete(run, 0)
<1>1. /\ n \in Machine /\ Untroubled(n)
      /\ n.carried = run.carried /\ n.deferred = run.deferred
      /\ n.published = run.published
  BY RunIndex, CompletedUntroubled
<1>2. AllPublished(n)
  BY <1>1, LaterAllPublished DEF AllPublished
<1>3. Index + 1 \in 1..(Len(plan.listRemovals) + 1) /\ Index + 1 - 1 = Index
  <2>1. Index \in 1..Len(plan.listRemovals)
    BY RunIndex DEF StageLength
  <2> QED
    BY <2>1, RunIndex, PlanParts
<1> HIDE DEF n
<1>4. Goes(n, EnterPlaylistRemovals(n, Index + 1), Len(plan.transfers), Len(plan.shared),
           Len(plan.lists), Index + 1 - 1, 0, 0)
  BY <1>1, <1>2, <1>3, RunIndex, ListRemovalsGo
<1> QED
  BY <1>1, <1>3, <1>4, GoesThrough DEF n

LEMMA PlaylistRemovedGoes ==
  ASSUME RunInv, Untroubled(run), PlaylistRemoved(TRUE)
  PROVE  /\ Index \in 1..Len(plan.listRemovals)
         /\ IF plan.listRemovals[Index].source \in PlannedSources
            THEN Goes(run, run', Len(plan.transfers), Len(plan.shared), Len(plan.lists),
                      Index, 0, 0)
            ELSE Halfway(run', "forgetList")
<1>1. Index \in 1..Len(plan.listRemovals) /\ run.at.stage = "removeList"
  BY RunIndex DEF PlaylistRemoved, Awaiting, StageLength
<1>2. CASE plan.listRemovals[Index].source \in PlannedSources
  <2>1. run' = EnterPlaylistRemovals(Complete(run, 0), Index + 1)
    BY <1>2 DEF PlaylistRemoved, Handle
  <2> QED
    BY <1>1, <1>2, <2>1, NextListRemovalGoes
<1>3. CASE plan.listRemovals[Index].source \notin PlannedSources
  <2>1. run' = Await(run, "forgetList", Index)
    BY <1>3 DEF PlaylistRemoved, Handle
  <2>2. "forgetList" \in Stages /\ Index \in Nat
    BY RunIndex DEF Stages
  <2> QED
    BY <1>1, <1>3, <2>1, <2>2, RunIndex, AwaitGoes
<1> QED
  BY <1>2, <1>3

LEMMA PlaylistForgottenGoes ==
  ASSUME RunInv, Untroubled(run), PlaylistForgotten(TRUE)
  PROVE  /\ Index \in 1..Len(plan.listRemovals)
         /\ Goes(run, run', Len(plan.transfers), Len(plan.shared), Len(plan.lists),
                 Index, 0, 0)
<1>1. Index \in 1..Len(plan.listRemovals) /\ run.at.stage = "forgetList"
  BY RunIndex DEF PlaylistForgotten, Awaiting, StageLength
<1>2. run' = EnterPlaylistRemovals(Complete(run, 0), Index + 1)
  BY DEF PlaylistForgotten, Handle
<1> QED
  BY <1>1, <1>2, NextListRemovalGoes

LEMMA NextRemovalGoes ==
  ASSUME RunInv, Untroubled(run), run.at.stage \in {"removeTrack", "forgetFile"},
         run' = EnterRemovals(Complete(run, 0), Index + 1)
  PROVE  Goes(run, run', Len(plan.transfers), Len(plan.shared), Len(plan.lists),
              Len(plan.listRemovals), Index, 0)
<1> DEFINE n == Complete(run, 0)
<1>1. /\ n \in Machine /\ Untroubled(n)
      /\ n.carried = run.carried /\ n.deferred = run.deferred
  BY RunIndex, CompletedUntroubled
<1>2. Index + 1 \in 1..(Len(plan.removals) + 1) /\ Index + 1 - 1 = Index
  <2>1. Index \in 1..Len(plan.removals)
    BY RunIndex DEF StageLength
  <2> QED
    BY <2>1, RunIndex, PlanParts
<1> HIDE DEF n
<1>3. Goes(n, EnterRemovals(n, Index + 1), Len(plan.transfers), Len(plan.shared),
           Len(plan.lists), Len(plan.listRemovals), Index + 1 - 1, 0)
  BY <1>1, <1>2, RunIndex, RemovalsGo
<1> QED
  BY <1>1, <1>2, <1>3, GoesThrough DEF n

LEMMA TrackRemovedGoes ==
  ASSUME RunInv, Untroubled(run), TrackRemoved(TRUE)
  PROVE  /\ Index \in 1..Len(plan.removals)
         /\ IF plan.removals[Index].kind = "orphan"
            THEN Goes(run, run', Len(plan.transfers), Len(plan.shared), Len(plan.lists),
                      Len(plan.listRemovals), Index, 0)
            ELSE Halfway(run', "forgetFile")
<1>1. Index \in 1..Len(plan.removals) /\ run.at.stage = "removeTrack"
  BY RunIndex DEF TrackRemoved, Awaiting, StageLength
<1>2. CASE plan.removals[Index].kind = "orphan"
  <2>1. run' = EnterRemovals(Complete(run, 0), Index + 1)
    BY <1>2 DEF TrackRemoved, Handle
  <2> QED
    BY <1>1, <1>2, <2>1, NextRemovalGoes
<1>3. CASE plan.removals[Index].kind # "orphan"
  <2>1. run' = Await(run, "forgetFile", Index)
    BY <1>3 DEF TrackRemoved, Handle
  <2>2. "forgetFile" \in Stages /\ Index \in Nat
    BY RunIndex DEF Stages
  <2> QED
    BY <1>1, <1>3, <2>1, <2>2, RunIndex, AwaitGoes
<1> QED
  BY <1>2, <1>3

LEMMA FileForgottenGoes ==
  ASSUME RunInv, Untroubled(run), FileForgotten(TRUE)
  PROVE  /\ Index \in 1..Len(plan.removals)
         /\ Goes(run, run', Len(plan.transfers), Len(plan.shared), Len(plan.lists),
                 Len(plan.listRemovals), Index, 0)
<1>1. Index \in 1..Len(plan.removals) /\ run.at.stage = "forgetFile"
  BY RunIndex DEF FileForgotten, Awaiting, StageLength
<1>2. run' = EnterRemovals(Complete(run, 0), Index + 1)
  BY DEF FileForgotten, Handle
<1> QED
  BY <1>1, <1>2, NextRemovalGoes

LEMMA ReplacedGoes ==
  ASSUME RunInv, Untroubled(run), ReplacedFileRemoved(TRUE)
  PROVE  /\ Index \in 1..Len(run.deferred)
         /\ Goes(run, run', Len(plan.transfers), Len(plan.shared), Len(plan.lists),
                 Len(plan.listRemovals), Len(plan.removals), Index)
<1>1. Index \in 1..Len(run.deferred)
  BY RunIndex DEF ReplacedFileRemoved, Awaiting, StageLength
<1>2. run' = EnterDeferredRemovals(run, Index + 1)
  BY DEF ReplacedFileRemoved, Handle
<1>3. Len(run.deferred) \in Nat
  BY RunIndex, MachineParts
<1>4. Index + 1 \in 1..(Len(run.deferred) + 1) /\ Index + 1 - 1 = Index
  BY <1>1, <1>3
<1>5. Goes(run, EnterDeferredRemovals(run, Index + 1), Len(plan.transfers),
           Len(plan.shared), Len(plan.lists), Len(plan.listRemovals),
           Len(plan.removals), Index + 1 - 1)
  BY <1>4, RunIndex, DeferredGoes
<1> QED
  BY <1>1, <1>2, <1>4, <1>5

\* A run that met nothing, and that completed if it is over.
Clean(m) == Untroubled(m) /\ (m.at.stage = "done" => m.outcome = "completed")

Sailing == active /\ calm => Clean(run)

LEMMA GoesClean ==
  ASSUME NEW m, NEW n, NEW a, NEW b, NEW c, NEW d, NEW e, NEW f, Goes(m, n, a, b, c, d, e, f)
  PROVE  Clean(n)
BY DEF Goes, Clean

LEMMA HalfwayClean ==
  ASSUME NEW n, NEW stage, stage # "done", Halfway(n, stage)
  PROVE  Clean(n)
<1>1. n.at.stage = stage
  BY DEF Halfway
<1> QED
  BY <1>1 DEF Halfway, Clean

LEMMA SuccessClean ==
  ASSUME RunInv, Placed(run), Untroubled(run),
         NEW i, Basis(i, plan, store.rows, store.listRows), Respond(TRUE)
  PROVE  Clean(run')
<1>1. 0 \in Bytes
  BY NoBytesAreReported
<1>2. CASE PartialsCleaned(TRUE)
  BY <1>2, PartialsGo, GoesClean
<1>3. CASE Transcoded(TRUE, 0)
  BY <1>1, <1>3, TranscodedGoes, GoesClean
<1>4. CASE Awaiting("copy") /\ TrackCopied(TRUE, 0, plan.transfers[Index].path)
  <2>1. plan.transfers[Index].path \in Path
    BY <1>4, EntryInPlan DEF Awaiting, TransferStages, Transfer
  <2>2. Halfway(run', "recordFile")
    BY <1>1, <1>4, <2>1, TrackCopiedGoes
  <2> QED
    BY <2>2, HalfwayClean
<1>5. CASE FileRecorded(TRUE)
  BY <1>5, FileRecordedGoes, GoesClean
<1>6. CASE SharedFileRecorded(TRUE)
  BY <1>6, SharedRecordedGoes, GoesClean
<1>7. CASE AnalysisWritten(TRUE, 0)
  BY <1>1, <1>7, AnalysisWrittenGoes, GoesClean
<1>8. CASE PlaylistWritten(TRUE)
  <2>1. Halfway(run', "recordList")
    BY <1>8, PlaylistWrittenGoes
  <2> QED
    BY <2>1, HalfwayClean
<1>9. CASE PlaylistRecorded(TRUE)
  BY <1>9, PlaylistRecordedGoes, GoesClean
<1>10. CASE PlaylistRemoved(TRUE)
  <2>1. CASE plan.listRemovals[Index].source \in PlannedSources
    BY <1>10, <2>1, PlaylistRemovedGoes, GoesClean
  <2>2. CASE plan.listRemovals[Index].source \notin PlannedSources
    <3>1. Halfway(run', "forgetList")
      BY <1>10, <2>2, PlaylistRemovedGoes
    <3> QED
      BY <3>1, HalfwayClean
  <2> QED
    BY <2>1, <2>2
<1>11. CASE PlaylistForgotten(TRUE)
  BY <1>11, PlaylistForgottenGoes, GoesClean
<1>12. CASE TrackRemoved(TRUE)
  <2>1. CASE plan.removals[Index].kind = "orphan"
    BY <1>12, <2>1, TrackRemovedGoes, GoesClean
  <2>2. CASE plan.removals[Index].kind # "orphan"
    <3>1. Halfway(run', "forgetFile")
      BY <1>12, <2>2, TrackRemovedGoes
    <3> QED
      BY <3>1, HalfwayClean
  <2> QED
    BY <2>1, <2>2
<1>13. CASE FileForgotten(TRUE)
  BY <1>13, FileForgottenGoes, GoesClean
<1>14. CASE ReplacedFileRemoved(TRUE)
  BY <1>14, ReplacedGoes, GoesClean
<1> QED
  BY <1>2, <1>3, <1>4, <1>5, <1>6, <1>7, <1>8, <1>9, <1>10, <1>11, <1>12, <1>13, <1>14
     DEF Respond

LEMMA SailingStep ==
  ASSUME Core, Sailing, [SyncNext]_syncVars
  PROVE  Sailing'
<1>1. CASE BeginRun
  <2>1. run' = NewMachine(plan', FALSE)
    BY <1>1 DEF BeginRun
  <2> QED
    BY <2>1 DEF Sailing, Clean, Untroubled, NewMachine
<1>2. CASE StartRun
  <2>1. /\ active /\ UNCHANGED <<active, calm>> /\ Start
    BY <1>2 DEF StartRun, world
  <2>2. run' = Await(Show(run, OpeningPhase), "partials", 0)
    BY <2>1 DEF Start, Handle
  <2>3. run \in Machine
    BY RunIndex DEF Core
  <2>4. Untroubled(run) => Untroubled(run') /\ run'.at.stage # "done"
    BY <2>2, <2>3 DEF Await, Show, Machine, Untroubled
  <2> QED
    BY <2>1, <2>4 DEF Sailing, Clean
<1>3. CASE Succeed
  <2>1. active /\ Respond(TRUE) /\ UNCHANGED <<active, calm>>
    BY <1>3 DEF Succeed
  <2> SUFFICES ASSUME calm PROVE Clean(run')
    BY <2>1 DEF Sailing, Clean, Untroubled
  <2>2. Untroubled(run)
    BY <2>1 DEF Sailing, Clean
  <2>3. PICK i : i.lib = lib /\ Basis(i, plan, store.rows, store.listRows)
    BY <2>1 DEF Core, Based
  <2> QED
    BY <2>1, <2>2, <2>3, SuccessClean DEF Core
<1>4. CASE RefuseCancelled
  BY <1>4 DEF RefuseCancelled, Sailing, Clean, Untroubled
<1>5. CASE FailEffect \/ LoseSidecarRemoval \/ CancelRun \/ Interrupt
  BY <1>5 DEF FailEffect, LoseSidecarRemoval, CancelRun, Interrupt, Sailing
<1>6. CASE EditLibrary \/ LoseFile
  BY <1>6 DEF EditLibrary, LoseFile, Sailing
<1>7. CASE UNCHANGED syncVars
  BY <1>7 DEF syncVars, world, Sailing, Clean, Untroubled
<1> QED
  BY <1>1, <1>2, <1>3, <1>4, <1>5, <1>6, <1>7 DEF SyncNext, Perform

\* A run that is neither disturbed nor cancelled completes: every step of it leads on
\* with no failure recorded, whatever inventory and device it started from.
THEOREM CalmRunsComplete == SyncSpec => []CalmRunCompletes
<1>1. SyncInit => Sailing
  BY DEF SyncInit, Sailing
<1>2. Core /\ Sailing /\ [SyncNext]_syncVars => Sailing'
  BY SailingStep
<1>3. Sailing => CalmRunCompletes
  BY DEF Sailing, Clean, CalmRunCompletes, Awaiting
<1> QED
  BY <1>1, <1>2, <1>3, CoreAlways, PTL DEF SyncSpec

-----------------------------------------------------------------------------
(* What an effect that succeeds makes of the store, part by part.          *)

\* Two stores that differ in no other part than this.
ButRows(s, after) ==
  /\ after.listRows = s.listRows /\ after.audio = s.audio
  /\ after.lists = s.lists /\ after.sidecars = s.sidecars
ButListRows(s, after) ==
  /\ after.rows = s.rows /\ after.audio = s.audio
  /\ after.lists = s.lists /\ after.sidecars = s.sidecars
ButAudio(s, after) ==
  /\ after.rows = s.rows /\ after.listRows = s.listRows
  /\ after.lists = s.lists /\ after.sidecars = s.sidecars
ButLists(s, after) ==
  /\ after.rows = s.rows /\ after.listRows = s.listRows
  /\ after.audio = s.audio /\ after.sidecars = s.sidecars
ButSidecars(s, after) ==
  /\ after.rows = s.rows /\ after.listRows = s.listRows
  /\ after.audio = s.audio /\ after.lists = s.lists

LEMMA PartChanged ==
  ASSUME IsRecord(store), NEW part
  PROVE  /\ LET after == [store EXCEPT !.rows = part]
            IN  ButRows(store, after) /\ after.rows = part
         /\ LET after == [store EXCEPT !.listRows = part]
            IN  ButListRows(store, after) /\ after.listRows = part
         /\ LET after == [store EXCEPT !.audio = part]
            IN  ButAudio(store, after) /\ after.audio = part
         /\ LET after == [store EXCEPT !.lists = part]
            IN  ButLists(store, after) /\ after.lists = part
         /\ LET after == [store EXCEPT !.sidecars = part]
            IN  ButSidecars(store, after) /\ after.sidecars = part
<1>1. LET after == [store EXCEPT !.rows = part]
      IN  ButRows(store, after) /\ after.rows = part
  BY DEF IsRecord, ButRows
<1>2. LET after == [store EXCEPT !.listRows = part]
      IN  ButListRows(store, after) /\ after.listRows = part
  BY DEF IsRecord, ButListRows
<1>3. LET after == [store EXCEPT !.audio = part]
      IN  ButAudio(store, after) /\ after.audio = part
  BY DEF IsRecord, ButAudio
<1>4. LET after == [store EXCEPT !.lists = part]
      IN  ButLists(store, after) /\ after.lists = part
  BY DEF IsRecord, ButLists
<1>5. LET after == [store EXCEPT !.sidecars = part]
      IN  ButSidecars(store, after) /\ after.sidecars = part
  BY DEF IsRecord, ButSidecars
<1> QED
  BY <1>1, <1>2, <1>3, <1>4, <1>5

\* The file at this path is gone, whatever it was.
IsWithout(after, path) ==
  /\ after.rows = store.rows /\ after.listRows = store.listRows
  /\ IsDrop(after.audio, store.audio, path) /\ IsDrop(after.lists, store.lists, path)
  /\ path \notin after.sidecars /\ after.sidecars \subseteq store.sidecars

LEMMA DropFileParts ==
  ASSUME IsRecord(store), NEW path
  PROVE  LET after == DropFile(path)
         IN  /\ IsWithout(after, path) /\ IsRecord(after)
             /\ after.sidecars = store.sidecars \ {path}
<1> DEFINE audio == Drop(store.audio, path)
           lists == Drop(store.lists, path)
           sidecars == store.sidecars \ {path}
           after == DropFile(path)
<1>1. IsDrop(audio, store.audio, path) /\ IsDrop(lists, store.lists, path)
  BY DropParts
<1>2. after = StoreOf(store.rows, store.listRows, audio, lists, sidecars)
  BY FileDropped
<1> HIDE DEF audio, lists, after
<1>3. /\ after.rows = store.rows /\ after.listRows = store.listRows
      /\ after.audio = audio /\ after.lists = lists /\ after.sidecars = sidecars
      /\ IsRecord(after)
  BY <1>2, StoreParts
<1> QED
  BY <1>1, <1>3 DEF IsWithout, after

LEMMA DropAudioParts ==
  ASSUME IsRecord(store), NEW path, NEW sidecarToo \in BOOLEAN
  PROVE  LET after == DropAudio(path, sidecarToo)
         IN  /\ IsWithout(after, path)
             /\ after.sidecars = store.sidecars \
                  (IF sidecarToo /\ path.kind = "audio" THEN {path, SidecarOf(path)}
                   ELSE {path})
<1> DEFINE gone == DropFile(path)
           sidecars == gone.sidecars \ {SidecarOf(path)}
           bare == [gone EXCEPT !.sidecars = sidecars]
<1>1. IsWithout(gone, path) /\ IsRecord(gone) /\ gone.sidecars = store.sidecars \ {path}
  BY DropFileParts
<1>2. DropAudio(path, sidecarToo)
        = IF sidecarToo /\ path.kind = "audio" THEN bare ELSE gone
  BY DEF DropAudio
<1> HIDE DEF gone
<1>3. sidecars = store.sidecars \ {path, SidecarOf(path)}
  BY <1>1
<1> HIDE DEF sidecars
<1>4. /\ bare.rows = gone.rows /\ bare.listRows = gone.listRows
      /\ bare.audio = gone.audio /\ bare.lists = gone.lists
      /\ bare.sidecars = sidecars
  BY <1>1 DEF IsRecord
<1> HIDE DEF bare
<1>5. IsWithout(bare, path)
  BY <1>1, <1>3, <1>4 DEF IsWithout
<1> QED
  BY <1>1, <1>2, <1>3, <1>4, <1>5

\* The effect in flight, done.
Effect(after, sidecarToo) ==
  /\ Awaiting("copy") =>
       LET transfer == plan.transfers[Index]
       IN  /\ ButAudio(store, after)
           /\ IsPut(after.audio, store.audio, transfer.path,
                    ContentOf(transfer.track, TRUE))
  /\ Awaiting("recordFile") =>
       LET t == plan.transfers[Index].track
       IN  /\ ButRows(store, after)
           /\ IsPut(after.rows, store.rows, t, RowOf(t, run.copiedPath))
  /\ Awaiting("recordShared") =>
       LET t == plan.shared[Index].track
       IN  /\ ButRows(store, after)
           /\ IsPut(after.rows, store.rows, t, RowOf(t, run.sharedPath))
  /\ Awaiting("writeAnalysis") =>
       /\ ButSidecars(store, after)
       /\ after.sidecars = store.sidecars \cup {plan.analysis[Index].path}
  /\ Awaiting("writeList") =>
       LET list == plan.lists[Index]
       IN  /\ ButLists(store, after)
           /\ IsPut(after.lists, store.lists, list.path, list.entries \ run.absent)
  /\ Awaiting("recordList") =>
       LET list == plan.lists[Index]
       IN  /\ ButListRows(store, after)
           /\ IsPut(after.listRows, store.listRows, list.source, list.path)
  /\ Awaiting("removeList") =>
       IsWithout(after, DoomedPath) /\ after.sidecars = store.sidecars \ {DoomedPath}
  /\ Awaiting("forgetList") =>
       /\ ButListRows(store, after)
       /\ IsDrop(after.listRows, store.listRows, plan.listRemovals[Index].source)
  /\ run.at.stage \in {"removeTrack", "removeReplaced"} =>
       /\ IsWithout(after, DoomedPath)
       /\ after.sidecars = store.sidecars \
            (IF sidecarToo /\ DoomedPath.kind = "audio"
             THEN {DoomedPath, SidecarOf(DoomedPath)} ELSE {DoomedPath})
  /\ Awaiting("forgetFile") =>
       /\ ButRows(store, after)
       /\ IsDrop(after.rows, store.rows, plan.removals[Index].track)
  /\ run.at.stage \notin {"copy", "recordFile", "recordShared", "writeAnalysis",
                          "writeList", "recordList", "removeList", "forgetList",
                          "removeTrack", "removeReplaced", "forgetFile"}
       => after = store

LEMMA PerformedEffect ==
  ASSUME IsRecord(store), NEW sidecarToo \in BOOLEAN
  PROVE  Effect(Performed(sidecarToo), sidecarToo)
<1> DEFINE after == Performed(sidecarToo)
<1>1. CASE Awaiting("copy")
  <2> DEFINE transfer == plan.transfers[Index]
             audio == Put(store.audio, transfer.path, ContentOf(transfer.track, TRUE))
  <2>1. after = [store EXCEPT !.audio = audio]
    BY <1>1 DEF Performed, Awaiting, PutAudio
  <2>2. IsPut(audio, store.audio, transfer.path, ContentOf(transfer.track, TRUE))
    BY PutParts
  <2>3. ButAudio(store, after) /\ after.audio = audio
    <3> HIDE DEF audio, after
    <3> QED
      BY <2>1, PartChanged
  <2> HIDE DEF audio, after
  <2> QED
    BY <1>1, <2>2, <2>3 DEF Effect, Awaiting, after
<1>2. CASE Awaiting("recordFile")
  <2> DEFINE t == plan.transfers[Index].track
             rows == Put(store.rows, t, RowOf(t, run.copiedPath))
  <2>1. after = [store EXCEPT !.rows = rows]
    BY <1>2 DEF Performed, Awaiting
  <2>2. IsPut(rows, store.rows, t, RowOf(t, run.copiedPath))
    BY PutParts
  <2>3. ButRows(store, after) /\ after.rows = rows
    <3> HIDE DEF rows, after
    <3> QED
      BY <2>1, PartChanged
  <2> HIDE DEF rows, after
  <2> QED
    BY <1>2, <2>2, <2>3 DEF Effect, Awaiting, after
<1>3. CASE Awaiting("recordShared")
  <2> DEFINE t == plan.shared[Index].track
             rows == Put(store.rows, t, RowOf(t, run.sharedPath))
  <2>1. after = [store EXCEPT !.rows = rows]
    BY <1>3 DEF Performed, Awaiting
  <2>2. IsPut(rows, store.rows, t, RowOf(t, run.sharedPath))
    BY PutParts
  <2>3. ButRows(store, after) /\ after.rows = rows
    <3> HIDE DEF rows, after
    <3> QED
      BY <2>1, PartChanged
  <2> HIDE DEF rows, after
  <2> QED
    BY <1>3, <2>2, <2>3 DEF Effect, Awaiting, after
<1>4. CASE Awaiting("writeAnalysis")
  <2> DEFINE sidecars == store.sidecars \cup {plan.analysis[Index].path}
  <2>1. after = [store EXCEPT !.sidecars = sidecars]
    BY <1>4 DEF Performed, Awaiting
  <2>2. ButSidecars(store, after) /\ after.sidecars = sidecars
    <3> HIDE DEF sidecars, after
    <3> QED
      BY <2>1, PartChanged
  <2> HIDE DEF after
  <2> QED
    BY <1>4, <2>2 DEF Effect, Awaiting, after
<1>5. CASE Awaiting("writeList")
  <2> DEFINE list == plan.lists[Index]
             lists == Put(store.lists, list.path, list.entries \ run.absent)
  <2>1. after = [store EXCEPT !.lists = lists]
    BY <1>5 DEF Performed, Awaiting, WriteList
  <2>2. IsPut(lists, store.lists, list.path, list.entries \ run.absent)
    BY PutParts
  <2>3. ButLists(store, after) /\ after.lists = lists
    <3> HIDE DEF lists, after
    <3> QED
      BY <2>1, PartChanged
  <2> HIDE DEF lists, after
  <2> QED
    BY <1>5, <2>2, <2>3 DEF Effect, Awaiting, after
<1>6. CASE Awaiting("recordList")
  <2> DEFINE list == plan.lists[Index]
             listRows == Put(store.listRows, list.source, list.path)
  <2>1. after = [store EXCEPT !.listRows = listRows]
    BY <1>6 DEF Performed, Awaiting
  <2>2. IsPut(listRows, store.listRows, list.source, list.path)
    BY PutParts
  <2>3. ButListRows(store, after) /\ after.listRows = listRows
    <3> HIDE DEF listRows, after
    <3> QED
      BY <2>1, PartChanged
  <2> HIDE DEF listRows, after
  <2> QED
    BY <1>6, <2>2, <2>3 DEF Effect, Awaiting, after
<1>7. CASE Awaiting("removeList")
  <2>1. after = DropFile(DoomedPath)
    BY <1>7 DEF Performed, Awaiting
  <2>2. IsWithout(after, DoomedPath) /\ after.sidecars = store.sidecars \ {DoomedPath}
    BY <2>1, DropFileParts
  <2> HIDE DEF after
  <2> QED
    BY <1>7, <2>2 DEF Effect, Awaiting, after
<1>8. CASE Awaiting("forgetList")
  <2> DEFINE source == plan.listRemovals[Index].source
             listRows == Drop(store.listRows, source)
  <2>1. after = [store EXCEPT !.listRows = listRows]
    BY <1>8 DEF Performed, Awaiting
  <2>2. IsDrop(listRows, store.listRows, source)
    BY DropParts
  <2>3. ButListRows(store, after) /\ after.listRows = listRows
    <3> HIDE DEF listRows, after
    <3> QED
      BY <2>1, PartChanged
  <2> HIDE DEF listRows, after
  <2> QED
    BY <1>8, <2>2, <2>3 DEF Effect, Awaiting, after
<1>9. CASE run.at.stage \in {"removeTrack", "removeReplaced"}
  <2>1. after = DropAudio(DoomedPath, sidecarToo)
    BY <1>9 DEF Performed, Awaiting
  <2>2. /\ IsWithout(after, DoomedPath)
        /\ after.sidecars = store.sidecars \
             (IF sidecarToo /\ DoomedPath.kind = "audio"
              THEN {DoomedPath, SidecarOf(DoomedPath)} ELSE {DoomedPath})
    BY <2>1, DropAudioParts
  <2> HIDE DEF after
  <2> QED
    BY <1>9, <2>2 DEF Effect, Awaiting, after
<1>10. CASE Awaiting("forgetFile")
  <2> DEFINE t == plan.removals[Index].track
             rows == Drop(store.rows, t)
  <2>1. after = [store EXCEPT !.rows = rows]
    BY <1>10 DEF Performed, Awaiting
  <2>2. IsDrop(rows, store.rows, t)
    BY DropParts
  <2>3. ButRows(store, after) /\ after.rows = rows
    <3> HIDE DEF rows, after
    <3> QED
      BY <2>1, PartChanged
  <2> HIDE DEF rows, after
  <2> QED
    BY <1>10, <2>2, <2>3 DEF Effect, Awaiting, after
<1>11. CASE run.at.stage \notin {"copy", "recordFile", "recordShared", "writeAnalysis",
                                 "writeList", "recordList", "removeList", "forgetList",
                                 "removeTrack", "removeReplaced", "forgetFile"}
  <2>1. /\ ~Awaiting("copy") /\ ~Awaiting("recordFile") /\ ~Awaiting("recordShared")
        /\ ~Awaiting("writeAnalysis") /\ ~Awaiting("writeList")
        /\ ~Awaiting("recordList") /\ ~Awaiting("removeList")
        /\ ~Awaiting("forgetList") /\ ~Awaiting("forgetFile")
        /\ ~(run.at.stage \in {"removeTrack", "removeReplaced"})
    BY <1>11 DEF Awaiting
  <2>2. after = store
    BY <2>1, Zenon DEF Performed
  <2> HIDE DEF after
  <2> QED
    BY <2>1, <2>2 DEF Effect, after
<1> QED
  BY <1>1, <1>2, <1>3, <1>4, <1>5, <1>6, <1>7, <1>8, <1>9, <1>10, <1>11 DEF Awaiting

-----------------------------------------------------------------------------
(* What the plan takes care of: everything that is not as it should be.    *)

\* Every row that leaves and every orphan is among the removals.
LEMMA EveryRemovalListed ==
  ASSUME NEW i, IsInput(i)
  PROVE  /\ \A t \in Removed(i) : \E k \in DOMAIN Removals(i) : Removals(i)[k] = GoneOf(i, t)
         /\ \A path \in Orphans(i) :
              \E k \in DOMAIN Removals(i) : Removals(i)[k] = OrphanAt(path)
<1> DEFINE S == Removed(i)
           gone == [t \in S |-> GoneOf(i, t)]
           first == Listing(Ascending(S), gone)
           order == SetToSeq(Orphans(i))
           orphan == [path \in Orphans(i) |-> OrphanAt(path)]
           second == Listing(order, orphan)
<1>1. S \in SUBSET RowTracks(i)
  BY DEF Removed, Leaving
<1>2. S \in SUBSET Nat /\ IsFiniteSet(S) /\ S \in SUBSET Track
  BY <1>1, InputParts, TracksAreOrdered, FS_Subset
<1>3. gone \in [S -> Removal]
  BY <1>1, <1>2, InputParts DEF GoneOf, LeavingKind, Removal
<1>4. orphan \in [Orphans(i) -> Removal]
  BY OrphansListed DEF OrphanAt, Removal
<1>5. Enumerates(order, Orphans(i))
  BY OrphansListed
<1>6. Removals(i) = first \o second
  <2>1. Removals(i) = [k \in DOMAIN Ascending(S) |-> GoneOf(i, Ascending(S)[k])]
                        \o [k \in DOMAIN order |-> OrphanAt(order[k])]
    BY DEF Removals, Each, GoneOf, OrphanAt
  <2> HIDE DEF S, order
  <2>2. \A k \in DOMAIN Ascending(S) : Ascending(S)[k] \in S
    BY <1>2, AscendingListed DEF Enumerates
  <2>3. \A k \in DOMAIN order : order[k] \in Orphans(i)
    BY <1>5 DEF Enumerates
  <2>4. first = [k \in DOMAIN Ascending(S) |-> GoneOf(i, Ascending(S)[k])]
    BY <2>2 DEF Listing
  <2>5. second = [k \in DOMAIN order |-> OrphanAt(order[k])]
    BY <2>3 DEF Listing
  <2> HIDE DEF first, second
  <2> QED
    BY <2>1, <2>4, <2>5
<1> HIDE DEF S, gone, order, orphan
<1>7. first \in Seq(Removal) /\ ItemsOf(first, S, gone)
  BY <1>2, <1>3, EachItem
<1>8. second \in Seq(Removal) /\ ItemsOf(second, Orphans(i), orphan)
  BY <1>4, <1>5, ListedItems
<1> HIDE DEF first, second
<1>9. /\ \A k \in DOMAIN first : k \in DOMAIN (first \o second)
                                 /\ (first \o second)[k] = first[k]
      /\ \A k \in DOMAIN second : /\ Len(first) + k \in DOMAIN (first \o second)
                                  /\ (first \o second)[Len(first) + k] = second[k]
  BY <1>7, <1>8
<1>10. ASSUME NEW t \in S
       PROVE  \E k \in DOMAIN Removals(i) : Removals(i)[k] = GoneOf(i, t)
  <2>1. PICK k \in DOMAIN first : first[k] = gone[t]
    BY <1>7 DEF ItemsOf
  <2> QED
    BY <1>6, <1>9, <2>1 DEF gone
<1>11. ASSUME NEW path \in Orphans(i)
       PROVE  \E k \in DOMAIN Removals(i) : Removals(i)[k] = OrphanAt(path)
  <2>1. PICK k \in DOMAIN second : second[k] = orphan[path]
    BY <1>8 DEF ItemsOf
  <2> QED
    BY <1>6, <1>9, <2>1 DEF orphan
<1> QED
  BY <1>10, <1>11 DEF S

\* A wanted track whose row is not as wanted is transferred, or recorded at the file
\* it shares; its earlier file is then named by that entry.
LEMMA UnmatchedIsPlanned ==
  ASSUME NEW i, IsInput(i), NEW t \in Desired(i), ~RowMatches(i, t)
  PROVE  \/ \E k \in DOMAIN Transfers(i) :
              Transfers(i)[k].track = t /\ Transfers(i)[k].previous = PreviousPath(i, t)
         \/ \E k \in DOMAIN SharedRecords(i) :
              /\ SharedRecords(i)[k].track = t
              /\ SharedRecords(i)[k].previous = PreviousPath(i, t)
<1>1. t \in Track /\ t \in Unit(t)
  BY InputParts, UnitFacts
<1>2. CASE t \in Transferred(i)
  <2>1. PICK k \in DOMAIN Transfers(i) : Transfers(i)[k] = TransferOf(i, t)
    BY <1>2, TransfersListed DEF ItemsOf
  <2>2. TransferOf(i, t).track = t /\ TransferOf(i, t).previous = PreviousPath(i, t)
    BY DEF TransferOf
  <2> QED
    BY <2>1, <2>2
<1>3. CASE t \in SharedTracks(i)
  <2>1. PICK k \in DOMAIN SharedRecords(i) : SharedRecords(i)[k] = SharedOf(i, t)
    BY <1>3, SharedListed DEF ItemsOf
  <2>2. SharedOf(i, t).track = t /\ SharedOf(i, t).previous = PreviousPath(i, t)
    BY DEF SharedOf
  <2> QED
    BY <2>1, <2>2
<1>4. CASE t \notin Transferred(i) \cup SharedTracks(i)
  <2>1. CASE IsCue(t)
    BY <1>4, <2>1 DEF Transferred, SharedTracks
  <2>2. CASE ~IsCue(t)
    <3>1. Unit(t) = {t}
      BY <1>1, <2>2, UnitFacts
    <3>2. t \in Anchors(i, t)
      BY <1>4, <2>2, <3>1 DEF Transferred, Anchors, Siblings
    <3> QED
      BY <3>2 DEF Anchors, Delivered
  <2> QED
    BY <2>1, <2>2
<1> QED
  BY <1>2, <1>3, <1>4

\* The rows that stay although their tracks are not wanted: those the plan retains
\* and those a frozen playlist keeps.
Staying(i) == RowTracks(i) \ (Desired(i) \cup Removed(i))
StayingPaths(i) == {RowPath(i, t) : t \in Staying(i)}

LEMMA StayingFacts ==
  ASSUME NEW i
  PROVE  /\ Retained(i) \subseteq Staying(i) /\ Staying(i) \subseteq RowTracks(i)
         /\ Staying(i) \cap Desired(i) = {} /\ Staying(i) \cap Removed(i) = {}
         /\ Removed(i) \subseteq Leaving(i)
         /\ Staying(i) \subseteq Retained(i) \cup Captured(i)
         /\ FrozenLists(i) = {} => Staying(i) = Retained(i)
BY DEF Staying, Removed, Leaving, Retained, RowTracks

\* A row stays, or it is among the removals.
LEMMA RowStaysOrLeaves ==
  ASSUME NEW i, IsInput(i), NEW t \in RowTracks(i)
  PROVE  \/ t \in Desired(i) \cup Staying(i)
         \/ \E k \in DOMAIN Removals(i) :
              Removals(i)[k].kind # "orphan" /\ Removals(i)[k].track = t
<1>1. CASE t \in Removed(i)
  <2>1. PICK k \in DOMAIN Removals(i) : Removals(i)[k] = GoneOf(i, t)
    BY <1>1, EveryRemovalListed
  <2>2. GoneOf(i, t).track = t /\ GoneOf(i, t).kind # "orphan"
    BY DEF GoneOf, LeavingKind
  <2> QED
    BY <2>1, <2>2
<1>2. CASE t \notin Removed(i)
  BY <1>2 DEF Staying
<1> QED
  BY <1>1, <1>2

\* The file of a row that leaves is removed by the first row that names it, unless a
\* row that stays needs it or names it as well.
LEMMA LeavingFileGoes ==
  ASSUME NEW i, IsInput(i), NEW t \in Removed(i)
  PROVE  \/ RowPath(i, t) \in DesiredPaths(i) \cup StayingPaths(i)
         \/ \E k \in DOMAIN Removals(i) :
              Removals(i)[k].kind = "inventory" /\ Removals(i)[k].path = RowPath(i, t)
<1> SUFFICES ASSUME RowPath(i, t) \notin DesiredPaths(i) \cup StayingPaths(i)
             PROVE  \E k \in DOMAIN Removals(i) :
                      /\ Removals(i)[k].kind = "inventory"
                      /\ Removals(i)[k].path = RowPath(i, t)
  OBVIOUS
<1> DEFINE S == {u \in Leaving(i) : RowPath(i, u) = RowPath(i, t)}
           first == Least(S)
<1>1. Leaving(i) \in SUBSET Nat /\ t \in Leaving(i)
  BY InputParts, TracksAreOrdered, StayingFacts DEF Leaving
<1>2. S \in SUBSET Nat /\ S # {}
  BY <1>1
<1> HIDE DEF S
<1>3. first \in S /\ \A u \in S : first <= u
  BY <1>2, LeastMember
<1> HIDE DEF first
<1>4. first \in Leaving(i) /\ RowPath(i, first) = RowPath(i, t)
  BY <1>3 DEF S
<1>5. ~ \E u \in Leaving(i) : u < first /\ RowPath(i, u) = RowPath(i, first)
  BY <1>1, <1>3, <1>4 DEF S
<1>6. LeavingKind(i, first) = "inventory"
  <2>1. RowPath(i, first) \notin DesiredPaths(i) \cup {RowPath(i, u) : u \in Retained(i)}
    BY <1>4, StayingFacts DEF StayingPaths
  <2> QED
    BY <1>5, <2>1 DEF LeavingKind
<1>7. first \in Removed(i)
  BY <1>4 DEF StayingPaths, Staying, Leaving
<1>8. PICK k \in DOMAIN Removals(i) : Removals(i)[k] = GoneOf(i, first)
  BY <1>7, EveryRemovalListed
<1> QED
  BY <1>4, <1>6, <1>8 DEF GoneOf

RetainedPaths(i) == {RowPath(i, t) : t \in Retained(i)}

\* The inventory and the device, each path of its kind.
Kinds(s) ==
  /\ \A t \in DOMAIN s.rows : s.rows[t].path.kind = "audio"
  /\ \A r \in DOMAIN s.listRows : s.listRows[r].kind = "list"
  /\ \A path \in DOMAIN s.audio : path.kind = "audio"
  /\ \A path \in DOMAIN s.lists : path.kind = "list"
  /\ \A path \in s.sidecars : path.kind = "analysis"

\* A sidecar is named after its audio.
LEMMA SidecarParts ==
  ASSUME NEW path \in Path
  PROVE  SidecarOf(path) = AnalysisPath(path.stem, path.slot)
<1> DEFINE named == [path EXCEPT !.kind = "analysis"]
           bare == [kind |-> "analysis", stem |-> path.stem, slot |-> path.slot,
                    extension |-> path.extension]
<1>1. path = [kind |-> path.kind, stem |-> path.stem, slot |-> path.slot,
              extension |-> path.extension]
  BY PathsAreNames DEF DevicePath, AudioPath, AnalysisPath, ListPath
<1>2. named = bare
  BY <1>1
<1> HIDE DEF named
<1>3. [bare EXCEPT !.extension = "analysis"] = AnalysisPath(path.stem, path.slot)
  BY DEF AnalysisPath
<1> HIDE DEF bare
<1> QED
  BY <1>2, <1>3 DEF SidecarOf, named

LEMMA PlannedKinds ==
  ASSUME NEW i, IsInput(i)
  PROVE  /\ \A t : DesiredPath(i, t).kind = "audio"
         /\ \A s \in i.lib.selected : PlaylistPath(i, s).kind = "list"
         /\ \A path \in OwnedSidecars(i) : path.kind = "analysis"
<1>1. \A t : DesiredPath(i, t).kind = "audio"
  BY DesiredPathParts DEF AudioPath
<1>2. \A s \in i.lib.selected : PlaylistPath(i, s).kind = "list"
  BY ListSlotFrom
<1>3. ASSUME NEW path \in OwnedSidecars(i)
      PROVE  path.kind = "analysis"
  <2>1. /\ Arriving(i) \subseteq Path /\ DesiredPaths(i) \subseteq Path
        /\ {RowPath(i, t) : t \in Retained(i)} \subseteq Path
    BY DesiredPathNamed, InputParts DEF Arriving, DesiredPaths, Transferred, Retained
  <2>2. PICK audio \in Path : path = SidecarOf(audio)
    BY <2>1 DEF OwnedSidecars
  <2> QED
    BY <2>2, SidecarParts DEF AnalysisPath
<1> QED
  BY <1>1, <1>2, <1>3

-----------------------------------------------------------------------------
(* The rows: as wanted, or named by an entry of the plan still ahead.      *)

RowFor(i, t) ==
  [path |-> DesiredPath(i, t), version |-> i.lib.version[t], profile |-> Mode(i.lib, t)]

RowsAt(i, recorded, shared, forgotten, rows) ==
  /\ \A t \in Desired(i) :
       \/ t \in DOMAIN rows /\ rows[t] = RowFor(i, t)
       \/ \E k \in DOMAIN Transfers(i) : k > recorded /\ Transfers(i)[k].track = t
       \/ \E k \in DOMAIN SharedRecords(i) : k > shared /\ SharedRecords(i)[k].track = t
  /\ \A t \in DOMAIN rows :
       \/ t \in Desired(i) \cup Staying(i)
       \/ \E k \in DOMAIN Removals(i) :
            k > forgotten /\ Removals(i)[k].kind # "orphan" /\ Removals(i)[k].track = t
  /\ \A t \in Staying(i) : t \in DOMAIN rows /\ rows[t] = i.store.rows[t]

\* The places of the plan's lists are positive numbers.
LEMMA Places ==
  ASSUME NEW i, IsInput(i)
  PROVE  /\ DOMAIN Transfers(i) = 1..Len(Transfers(i)) /\ Len(Transfers(i)) \in Nat
         /\ DOMAIN SharedRecords(i) = 1..Len(SharedRecords(i)) /\ Len(SharedRecords(i)) \in Nat
         /\ DOMAIN ListWrites(i) = 1..Len(ListWrites(i)) /\ Len(ListWrites(i)) \in Nat
         /\ DOMAIN ListRemovals(i) = 1..Len(ListRemovals(i)) /\ Len(ListRemovals(i)) \in Nat
         /\ DOMAIN Removals(i) = 1..Len(Removals(i)) /\ Len(Removals(i)) \in Nat
BY TransfersListed, SharedListed, ListWritesListed, ListRemovalsListed, RemovalsListed,
   LenProperties

LEMMA RowsBegin ==
  ASSUME NEW i, IsInput(i)
  PROVE  RowsAt(i, 0, 0, 0, i.store.rows)
<1>1. ASSUME NEW t \in Desired(i)
      PROVE  \/ t \in DOMAIN i.store.rows /\ i.store.rows[t] = RowFor(i, t)
             \/ \E k \in DOMAIN Transfers(i) : k > 0 /\ Transfers(i)[k].track = t
             \/ \E k \in DOMAIN SharedRecords(i) : k > 0 /\ SharedRecords(i)[k].track = t
  <2>1. CASE RowMatches(i, t)
    BY <2>1 DEF RowMatches, RowTracks, RowFor
  <2>2. CASE ~RowMatches(i, t)
    BY <2>2, UnmatchedIsPlanned, Places
  <2> QED
    BY <2>1, <2>2
<1>2. ASSUME NEW t \in DOMAIN i.store.rows
      PROVE  \/ t \in Desired(i) \cup Staying(i)
             \/ \E k \in DOMAIN Removals(i) :
                  k > 0 /\ Removals(i)[k].kind # "orphan" /\ Removals(i)[k].track = t
  BY RowStaysOrLeaves, Places DEF RowTracks
<1>3. \A t \in Staying(i) : t \in DOMAIN i.store.rows
  BY StayingFacts DEF RowTracks
<1> QED
  BY <1>1, <1>2, <1>3 DEF RowsAt

LEMMA RowsRecorded ==
  ASSUME NEW i, IsInput(i), NEW k \in DOMAIN Transfers(i), NEW shared, NEW forgotten,
         NEW rows, RowsAt(i, k - 1, shared, forgotten, rows), NEW after,
         IsPut(after, rows, Transfers(i)[k].track, RowFor(i, Transfers(i)[k].track))
  PROVE  RowsAt(i, k, shared, forgotten, after)
<1>1. Transfers(i)[k].track \in Desired(i) /\ k \in Nat /\ DOMAIN Transfers(i) \subseteq Nat
  BY TransferFacts, Places
<1> QED
  BY <1>1, StayingFacts DEF RowsAt, IsPut

LEMMA RowsShared ==
  ASSUME NEW i, IsInput(i), NEW k \in DOMAIN SharedRecords(i), NEW recorded, NEW forgotten,
         NEW rows, RowsAt(i, recorded, k - 1, forgotten, rows), NEW after,
         IsPut(after, rows, SharedRecords(i)[k].track, RowFor(i, SharedRecords(i)[k].track))
  PROVE  RowsAt(i, recorded, k, forgotten, after)
<1>1. /\ SharedRecords(i)[k].track \in Desired(i) /\ k \in Nat
      /\ DOMAIN SharedRecords(i) \subseteq Nat
  BY SharedFacts, Places
<1> QED
  BY <1>1, StayingFacts DEF RowsAt, IsPut

LEMMA RemovalFacts ==
  ASSUME NEW i, IsInput(i), NEW k \in DOMAIN Removals(i)
  PROVE  /\ k \in Nat /\ DOMAIN Removals(i) \subseteq Nat
         /\ Removals(i)[k].kind # "orphan" =>
              /\ Removals(i)[k].track \in RowTracks(i) \ (Desired(i) \cup Staying(i))
              /\ Removals(i)[k].path = RowPath(i, Removals(i)[k].track)
         /\ Removals(i)[k].kind = "orphan" => Removals(i)[k].path \in Orphans(i)
<1>1. k \in Nat /\ DOMAIN Removals(i) \subseteq Nat
  BY Places
<1>2. CASE \E t \in Removed(i) : Removals(i)[k] = GoneOf(i, t)
  <2>1. PICK t \in Removed(i) : Removals(i)[k] = GoneOf(i, t)
    BY <1>2
  <2>2. /\ GoneOf(i, t).track = t /\ GoneOf(i, t).path = RowPath(i, t)
        /\ GoneOf(i, t).kind # "orphan"
    BY DEF GoneOf, LeavingKind
  <2>3. t \in RowTracks(i) \ (Desired(i) \cup Staying(i))
    BY StayingFacts DEF Leaving
  <2> QED
    BY <1>1, <2>1, <2>2, <2>3
<1>3. CASE \E path \in Orphans(i) : Removals(i)[k] = OrphanAt(path)
  BY <1>1, <1>3 DEF OrphanAt
<1> QED
  BY <1>2, <1>3, RemovalsListed

LEMMA RowsForgotten ==
  ASSUME NEW i, IsInput(i), NEW k \in DOMAIN Removals(i), NEW recorded, NEW shared,
         NEW rows, RowsAt(i, recorded, shared, k - 1, rows), NEW after,
         IF Removals(i)[k].kind = "orphan" THEN after = rows
         ELSE IsDrop(after, rows, Removals(i)[k].track)
  PROVE  RowsAt(i, recorded, shared, k, after)
<1>1. CASE Removals(i)[k].kind = "orphan"
  BY <1>1, RemovalFacts DEF RowsAt
<1>2. CASE Removals(i)[k].kind # "orphan"
  BY <1>2, RemovalFacts, StayingFacts DEF RowsAt, IsDrop
<1> QED
  BY <1>1, <1>2

-----------------------------------------------------------------------------
(* The audio: what is wanted is there or about to arrive, what is not is   *)
(* left as it is or about to go.                                           *)

WantedThere(i, arrived, audio) ==
  \A path \in DesiredPaths(i) :
    \/ path \in DOMAIN audio
    \/ \E k \in DOMAIN Transfers(i) : k > arrived /\ Transfers(i)[k].path = path

RestLeaves(i, recorded, shared, removed, replaced, deferred, audio) ==
  \A path \in DOMAIN audio :
    \/ path \in DesiredPaths(i) \cup StayingPaths(i)
    \/ \E k \in DOMAIN Removals(i) :
         k > removed /\ Removals(i)[k].kind # "unshared" /\ Removals(i)[k].path = path
    \/ \E k \in DOMAIN Transfers(i) : k > recorded /\ Transfers(i)[k].previous = path
    \/ \E k \in DOMAIN SharedRecords(i) : k > shared /\ SharedRecords(i)[k].previous = path
    \/ \E k \in DOMAIN deferred : k > replaced /\ deferred[k].path = path

LEMMA WantedBegins ==
  ASSUME NEW i, IsInput(i)
  PROVE  WantedThere(i, 0, i.store.audio)
BY DesiredArrives, Places DEF WantedThere

LEMMA RestBegins ==
  ASSUME NEW i, IsInput(i), Kinds(i.store), NEW deferred
  PROVE  RestLeaves(i, 0, 0, 0, 0, deferred, i.store.audio)
<1> SUFFICES ASSUME NEW path \in DOMAIN i.store.audio,
                    path \notin DesiredPaths(i) \cup StayingPaths(i)
             PROVE  \/ \E k \in DOMAIN Removals(i) :
                         /\ k > 0 /\ Removals(i)[k].kind # "unshared"
                         /\ Removals(i)[k].path = path
                    \/ \E k \in DOMAIN Transfers(i) :
                         k > 0 /\ Transfers(i)[k].previous = path
                    \/ \E k \in DOMAIN SharedRecords(i) :
                         k > 0 /\ SharedRecords(i)[k].previous = path
  BY DEF RestLeaves
<1>1. path.kind = "audio"
  BY DEF Kinds
<1>2. CASE path \in Orphans(i)
  <2>1. PICK k \in DOMAIN Removals(i) : Removals(i)[k] = OrphanAt(path)
    BY <1>2, EveryRemovalListed
  <2> QED
    BY <2>1, Places DEF OrphanAt
<1>3. CASE path \notin Orphans(i)
  <2>1. path \in KnownPaths(i)
    BY <1>3 DEF Orphans, Resident
  <2>2. \A s \in DOMAIN i.store.listRows : i.store.listRows[s] # path
    BY <1>1 DEF Kinds
  <2>3. path \notin OwnedSidecars(i) /\ \A s \in i.lib.selected : PlaylistPath(i, s) # path
    BY <1>1, PlannedKinds
  <2>4. PICK t \in RowTracks(i) : path = RowPath(i, t)
    BY <2>1, <2>2, <2>3 DEF KnownPaths
  <2>5. t \notin Staying(i)
    BY <2>4 DEF StayingPaths
  <2>6. CASE t \in Desired(i)
    <3>1. ~RowMatches(i, t) /\ PreviousPath(i, t) = path
      BY <2>4, <2>6 DEF RowMatches, RowPath, DesiredPaths, PreviousPath
    <3> QED
      BY <2>6, <3>1, UnmatchedIsPlanned, Places
  <2>7. CASE t \notin Desired(i)
    <3>1. t \in Removed(i)
      BY <2>4, <2>5, <2>7 DEF Staying
    <3> QED
      BY <2>4, <3>1, LeavingFileGoes, Places
  <2> QED
    BY <2>6, <2>7
<1> QED
  BY <1>2, <1>3

LEMMA AudioArrived ==
  ASSUME NEW i, IsInput(i), NEW k \in DOMAIN Transfers(i), NEW audio, NEW after, NEW content,
         IsPut(after, audio, Transfers(i)[k].path, content)
  PROVE  /\ WantedThere(i, k - 1, audio) => WantedThere(i, k, after)
         /\ \A recorded, shared, removed, replaced, deferred :
              RestLeaves(i, recorded, shared, removed, replaced, deferred, audio)
                => RestLeaves(i, recorded, shared, removed, replaced, deferred, after)
<1>1. Transfers(i)[k].path \in DesiredPaths(i) /\ k \in Nat /\ DOMAIN Transfers(i) \subseteq Nat
  BY TransferFacts, Places DEF DesiredPaths
<1>2. WantedThere(i, k - 1, audio) => WantedThere(i, k, after)
  BY <1>1 DEF WantedThere, IsPut
<1>3. ASSUME NEW recorded, NEW shared, NEW removed, NEW replaced, NEW deferred,
             RestLeaves(i, recorded, shared, removed, replaced, deferred, audio)
      PROVE  RestLeaves(i, recorded, shared, removed, replaced, deferred, after)
  BY <1>1, <1>3 DEF RestLeaves, IsPut
<1> QED
  BY <1>2, <1>3

\* A path set aside, or of no concern.
SeenTo(i, deferred, path) ==
  \/ path \in {NoPath} \cup DesiredPaths(i)
  \/ \E d \in DOMAIN deferred : d > 0 /\ deferred[d].path = path

Extends(longer, deferred) ==
  \A d \in DOMAIN deferred : d \in DOMAIN longer /\ longer[d] = deferred[d]

LEMMA RestRecorded ==
  ASSUME NEW i, IsInput(i), NEW k \in DOMAIN Transfers(i), NEW shared, NEW removed,
         NEW deferred, NEW audio, DOMAIN audio \subseteq Path,
         RestLeaves(i, k - 1, shared, removed, 0, deferred, audio),
         NEW longer, Extends(longer, deferred), SeenTo(i, longer, Transfers(i)[k].previous)
  PROVE  RestLeaves(i, k, shared, removed, 0, longer, audio)
<1>1. k \in Nat /\ DOMAIN Transfers(i) \subseteq Nat
  BY Places
<1> QED
  BY <1>1, NoPathIsNoPath DEF RestLeaves, SeenTo, Extends

LEMMA RestShared ==
  ASSUME NEW i, IsInput(i), NEW k \in DOMAIN SharedRecords(i), NEW recorded, NEW removed,
         NEW deferred, NEW audio, DOMAIN audio \subseteq Path,
         RestLeaves(i, recorded, k - 1, removed, 0, deferred, audio),
         NEW longer, Extends(longer, deferred), SeenTo(i, longer, SharedRecords(i)[k].previous)
  PROVE  RestLeaves(i, recorded, k, removed, 0, longer, audio)
<1>1. k \in Nat /\ DOMAIN SharedRecords(i) \subseteq Nat
  BY Places
<1> QED
  BY <1>1, NoPathIsNoPath DEF RestLeaves, SeenTo, Extends

\* A file goes that is not wanted.
LEMMA AudioGone ==
  ASSUME NEW i, NEW audio, NEW after, NEW path, path \notin DesiredPaths(i),
         IsDrop(after, audio, path)
  PROVE  /\ \A arrived : WantedThere(i, arrived, audio) => WantedThere(i, arrived, after)
         /\ \A recorded, shared, removed, replaced, deferred :
              RestLeaves(i, recorded, shared, removed, replaced, deferred, audio)
                => RestLeaves(i, recorded, shared, removed, replaced, deferred, after)
BY DEF WantedThere, RestLeaves, IsDrop

LEMMA RestRemoved ==
  ASSUME NEW i, IsInput(i), NEW k \in DOMAIN Removals(i), NEW recorded, NEW shared,
         NEW replaced, NEW deferred, NEW audio, NEW after,
         RestLeaves(i, recorded, shared, k - 1, replaced, deferred, audio),
         IF Removals(i)[k].kind = "unshared" THEN after = audio
         ELSE IsDrop(after, audio, Removals(i)[k].path)
  PROVE  RestLeaves(i, recorded, shared, k, replaced, deferred, after)
<1>1. k \in Nat /\ DOMAIN Removals(i) \subseteq Nat
  BY Places
<1>2. CASE Removals(i)[k].kind = "unshared"
  BY <1>1, <1>2 DEF RestLeaves
<1>3. CASE Removals(i)[k].kind # "unshared"
  BY <1>1, <1>3 DEF RestLeaves, IsDrop
<1> QED
  BY <1>2, <1>3

LEMMA RestReplaced ==
  ASSUME NEW i, NEW recorded, NEW shared, NEW removed, NEW deferred, NEW audio, NEW after,
         DOMAIN deferred \subseteq Nat, NEW k \in DOMAIN deferred,
         RestLeaves(i, recorded, shared, removed, k - 1, deferred, audio),
         IsDrop(after, audio, deferred[k].path)
  PROVE  RestLeaves(i, recorded, shared, removed, k, deferred, after)
BY DEF RestLeaves, IsDrop

-----------------------------------------------------------------------------
(* A run that something is held against: it cannot complete any more.      *)

Spoiled(m) ==
  /\ m \in Machine /\ m.outcome # "completed"
  /\ m.failures # {} \/ m.cancelled \/ m.terminalError

LEMMA FrameSpoiled ==
  ASSUME NEW m, NEW n \in Machine, Frame(m, n), Spoiled(m)
  PROVE  Spoiled(n)
BY DEF Frame, Spoiled

LEMMA UnitSpoiled ==
  ASSUME NEW m, Spoiled(m), NEW bytes \in Nat, NEW phase \in Phases,
         NEW stage \in Stages, NEW index \in Nat
  PROVE  Spoiled(Await(Show(Begin(m, bytes), phase), stage, index))
<1>1. m \in Machine
  BY DEF Spoiled
<1>2. Await(Show(Begin(m, bytes), phase), stage, index) \in Machine
  BY <1>1, EnterType
<1>3. Frame(m, Await(Show(Begin(m, bytes), phase), stage, index))
  BY <1>1, EnterFrame
<1> QED
  BY <1>2, <1>3, FrameSpoiled

LEMMA AwaitSpoiled ==
  ASSUME NEW m, Spoiled(m), NEW stage \in Stages, NEW index \in Nat
  PROVE  Spoiled(Await(m, stage, index))
<1>1. m \in Machine
  BY DEF Spoiled
<1>2. Await(m, stage, index) \in Machine /\ Frame(m, Await(m, stage, index))
  BY <1>1, AwaitType, AwaitFrame
<1> QED
  BY <1>2, FrameSpoiled

LEMMA SkipSpoiled ==
  ASSUME NEW m, Spoiled(m), NEW count \in Nat
  PROVE  Spoiled(SkipUnits(m, count))
<1>0. m \in Machine
  BY DEF Spoiled
<1>1. SkipUnits(m, count) \in Machine
  BY <1>0, SkipUnitsType
<1>2. CASE count = 0
  BY <1>1, <1>2 DEF SkipUnits
<1>3. CASE count # 0
  <2> DEFINE ledger == [m.ledger EXCEPT
               !.bytes = AtMost(m.ledger.bytes + m.ledger.unit, m.ledger.bytesTotal),
               !.done = AtMost(m.ledger.done + count, m.ledger.total),
               !.unit = 0, !.unitTotal = 0]
  <2>1. SkipUnits(m, count) = [m EXCEPT !.ledger = ledger]
    BY <1>0, <1>3, MachineParts DEF SkipUnits, Machine, Ledger
  <2> HIDE DEF ledger
  <2>2. Frame(m, SkipUnits(m, count))
    BY <1>0, <2>1 DEF Machine, Frame
  <2> QED
    BY <1>1, <2>2, FrameSpoiled
<1> QED
  BY <1>2, <1>3

LEMMA CompleteSpoiled ==
  ASSUME NEW m, Spoiled(m), NEW bytes \in Nat
  PROVE  Spoiled(Complete(m, bytes))
<1> DEFINE ledger == CompleteUnit(m.ledger, bytes)
<1>0. m \in Machine
  BY DEF Spoiled
<1>1. Complete(m, bytes) = [m EXCEPT !.ledger = ledger]
  BY DEF Complete
<1>2. Complete(m, bytes) \in Machine
  BY <1>0, CompleteType
<1> HIDE DEF ledger
<1> QED
  BY <1>0, <1>1, <1>2 DEF Machine, Spoiled

\* A failure spoils whatever run it is held against.
LEMMA FailSpoils ==
  ASSUME NEW m \in Machine, m.outcome # "completed"
  PROVE  /\ \A track \in Track \cup {Unattributed} : Spoiled(Fail(m, track))
         /\ Spoiled(FailPlaylist(m)) /\ Spoiled(StopStage(m))
<1>1. ASSUME NEW track \in Track \cup {Unattributed}
      PROVE  Spoiled(Fail(m, track))
  <2>1. Fail(m, track) \in Machine
    BY FailType
  <2>2. /\ Fail(m, track).failures = m.failures \cup {track}
        /\ Fail(m, track).outcome = m.outcome
    BY DEF Fail, Machine
  <2> QED
    BY <2>1, <2>2 DEF Spoiled
<1>2. Spoiled(FailPlaylist(m))
  BY <1>1 DEF FailPlaylist
<1>3. StopStage(m) \in Machine
  BY StopStageType
<1>4. StopStage(m).terminalError /\ StopStage(m).outcome = m.outcome
  BY DEF StopStage, Machine
<1> QED
  BY <1>1, <1>2, <1>3, <1>4 DEF Spoiled

LEMMA UnpublishedSpoils ==
  ASSUME plan \in MirrorPlan, NEW m \in Machine, m.outcome # "completed",
         NEW k \in 1..Len(plan.transfers)
  PROVE  Spoiled(FailUnpublished(m, k))
<1> DEFINE failed == Fail(m, plan.transfers[k].track)
           absent == failed.absent \cup {plan.transfers[k].path}
<1>1. plan.transfers[k] \in Transfer
  BY PlanParts, ElementOfSeq
<1>2. plan.transfers[k].track \in Track
  BY <1>1 DEF Transfer
<1>3. Spoiled(failed)
  BY <1>2, FailSpoils
<1>4. FailUnpublished(m, k) = [failed EXCEPT !.absent = absent]
  BY DEF FailUnpublished
<1>5. FailUnpublished(m, k) \in Machine
  BY FailUnpublishedType
<1> HIDE DEF failed, absent
<1> QED
  BY <1>3, <1>4, <1>5 DEF Spoiled, Machine

LEMMA FailTracksSpoiled ==
  ASSUME NEW m, Spoiled(m), NEW tracks \in SUBSET Track
  PROVE  Spoiled(FailTracks(m, tracks))
<1>1. m \in Machine
  BY DEF Spoiled
<1>2. FailTracks(m, tracks) \in Machine
  BY <1>1, FailTracksType
<1> QED
  BY <1>1, <1>2 DEF FailTracks, Machine, Spoiled

LEMMA FinishSpoiled ==
  ASSUME plan \in MirrorPlan, NEW m, Spoiled(m)
  PROVE  Spoiled(Finish(m))
<1> DEFINE n == Finish(m)
           phase == IF ~m.terminalError /\ m.failures = {} /\ ~m.cancelled
                    THEN "finishing" ELSE "idle"
           outcome == IF m.cancelled THEN "cancelled" ELSE "failed"
           verified == IF m.cancelled THEN {} ELSE m.published
           ended == Await(m, "done", 0)
<1>0. m \in Machine /\ (m.terminalError \/ m.failures # {} \/ m.cancelled)
  BY DEF Spoiled
<1>1. Spoiled(ended)
  BY AwaitSpoiled DEF Stages
<1>2. n = [ended EXCEPT !.phase = phase, !.outcome = outcome, !.verified = verified]
  BY <1>0 DEF Finish
<1>3. outcome # "completed"
  OBVIOUS
<1> HIDE DEF ended, verified, phase, outcome
<1>4. /\ n.failures = ended.failures /\ n.cancelled = ended.cancelled
      /\ n.terminalError = ended.terminalError /\ n.outcome = outcome
  BY <1>1, <1>2 DEF Machine, Spoiled
<1>5. n \in Machine
  BY <1>0, FinishFrame
<1> QED
  BY <1>1, <1>3, <1>4, <1>5 DEF Spoiled

LEMMA SidecarBytes ==
  ASSUME plan \in MirrorPlan
  PROVE  /\ \A k \in 1..Len(plan.analysis) : plan.analysis[k].bytes \in Nat
         /\ \A k \in 1..Len(plan.cues) : plan.cues[k].bytes \in Nat
         /\ \A k \in 1..Len(plan.lyrics) : plan.lyrics[k].bytes \in Nat
<1>1. /\ \A k \in 1..Len(plan.analysis) : plan.analysis[k] \in SidecarWrite
      /\ \A k \in 1..Len(plan.cues) : plan.cues[k] \in CueWrite
      /\ \A k \in 1..Len(plan.lyrics) : plan.lyrics[k] \in SidecarWrite
  BY PlanParts, ElementOfSeq
<1> QED
  BY <1>1 DEF SidecarWrite, CueWrite

\* Whatever stage is entered next.
LEMMA LateSpoiled ==
  ASSUME plan \in MirrorPlan, NEW m, Spoiled(m), NEW from \in Nat
  PROVE  /\ Spoiled(EnterTrackMetadataList(m)) /\ Spoiled(EnterDeferredRemovals(m, from))
         /\ Spoiled(EnterRemovals(m, from)) /\ Spoiled(BeginRemovals(m))
<1>0. m \in Machine
  BY DEF Spoiled
<1>1. Spoiled(EnterTrackMetadataList(m))
  BY Names, UnitSpoiled, FinishSpoiled DEF EnterTrackMetadataList
<1>2. ASSUME NEW k \in Nat
      PROVE  Spoiled(EnterDeferredRemovals(m, k))
  <2>1. Spoiled(Await(Show(m, "removing"), "removeReplaced", k))
    <3>1. Show(m, "removing") \in Machine /\ Frame(m, Show(m, "removing"))
      BY <1>0, Names, ShowType, ShowFrame
    <3>2. Spoiled(Show(m, "removing"))
      BY <3>1, FrameSpoiled
    <3> QED
      BY <3>2, AwaitSpoiled DEF Stages
  <2> QED
    BY <1>1, <2>1, FinishSpoiled DEF EnterDeferredRemovals
<1>3. ASSUME NEW k \in Nat
      PROVE  Spoiled(EnterRemovals(m, k))
  <2>1. Spoiled(Await(Begin(m, 0), "forgetFile", k))
    <3>1. Begin(m, 0) \in Machine /\ Frame(m, Begin(m, 0))
      BY <1>0, BeginType, BeginFrame
    <3>2. Spoiled(Begin(m, 0))
      BY <3>1, FrameSpoiled
    <3> QED
      BY <3>2, AwaitSpoiled DEF Stages
  <2>2. Spoiled(Await(Show(Begin(m, 0), "removing"), "removeTrack", k))
    BY Names, UnitSpoiled DEF Stages
  <2>3. Spoiled(EnterDeferredRemovals(m, 1)) /\ Spoiled(Finish(m))
    BY <1>2, FinishSpoiled
  <2> QED
    BY <2>1, <2>2, <2>3 DEF EnterRemovals
<1>4. Spoiled(BeginRemovals(m))
  BY <1>3, FinishSpoiled DEF BeginRemovals
<1> QED
  BY <1>1, <1>2, <1>3, <1>4

LEMMA ListRemovalsSpoiled ==
  ASSUME plan \in MirrorPlan, NEW m, Spoiled(m),
         NEW from \in 1..(Len(plan.listRemovals) + 1)
  PROVE  Spoiled(EnterPlaylistRemovals(m, from))
<1> DEFINE end == Len(plan.listRemovals)
           ready == {k \in from..end : ListMayGo(m, k)}
<1>0. end \in Nat /\ ready \in SUBSET Nat
  BY PlanLengths
<1>1. CASE m.cancelled
  BY <1>1, FinishSpoiled DEF EnterPlaylistRemovals
<1>2. CASE ~m.cancelled /\ ready = {}
  <2>1. end + 1 - from \in Nat
    BY <1>0
  <2>2. Spoiled(BeginRemovals(SkipUnits(m, end + 1 - from)))
    BY <2>1, SkipSpoiled, LateSpoiled
  <2> QED
    BY <1>2, <2>2 DEF EnterPlaylistRemovals
<1>3. CASE ~m.cancelled /\ ready # {}
  <2>1. Least(ready) \in ready
    BY <1>0, <1>3, LeastMember
  <2>2. Least(ready) - from \in Nat /\ Least(ready) \in Nat
    BY <1>0, <2>1
  <2>3. Spoiled(Await(Show(Begin(SkipUnits(m, Least(ready) - from), 0), "removing"),
                      "removeList", Least(ready)))
    BY <2>2, Names, SkipSpoiled, UnitSpoiled DEF Stages
  <2> QED
    BY <1>3, <2>3 DEF EnterPlaylistRemovals
<1> QED
  BY <1>1, <1>2, <1>3

LEMMA ListWritesSpoiled ==
  ASSUME plan \in MirrorPlan, NEW m, Spoiled(m), NEW from \in Nat
  PROVE  Spoiled(EnterPlaylistWrites(m, from))
<1>1. Spoiled(EnterPlaylistRemovals(m, 1))
  BY PlanLengths, ListRemovalsSpoiled
<1>2. Spoiled(Await(Show(Begin(m, 0), "writingPlaylists"), "writeList", from))
  BY Names, UnitSpoiled DEF Stages
<1> QED
  BY <1>1, <1>2, FinishSpoiled DEF EnterPlaylistWrites

LEMMA SidecarsSpoiled ==
  ASSUME plan \in MirrorPlan, NEW m, Spoiled(m), NEW from \in Nat \ {0}
  PROVE  /\ Spoiled(EnterLyricsWrites(m, from))
         /\ from <= Len(plan.cues) + 1 => Spoiled(EnterCueWrites(m, from))
         /\ Spoiled(EnterAnalysisWrites(m, from))
<1>0. Spoiled(Finish(m))
  BY FinishSpoiled
<1>1. ASSUME NEW n, Spoiled(n), NEW k \in Nat \ {0}
      PROVE  Spoiled(EnterLyricsWrites(n, k))
  <2>1. CASE n.cancelled
    BY <1>1, <2>1, FinishSpoiled DEF EnterLyricsWrites
  <2>2. CASE ~n.cancelled /\ k > Len(plan.lyrics)
    BY <1>1, <2>2, ListWritesSpoiled DEF EnterLyricsWrites
  <2>3. CASE ~n.cancelled /\ ~(k > Len(plan.lyrics))
    <3>1. k \in 1..Len(plan.lyrics)
      BY <2>3, PlanLengths
    <3>2. plan.lyrics[k].bytes \in Nat
      BY <3>1, SidecarBytes
    <3>3. Spoiled(Await(Show(Begin(n, plan.lyrics[k].bytes), "writingLyrics"),
                        "writeLyrics", k))
      BY <1>1, <3>2, Names, UnitSpoiled DEF Stages
    <3> QED
      BY <2>3, <3>3 DEF EnterLyricsWrites
  <2> QED
    BY <2>1, <2>2, <2>3
<1>2. ASSUME NEW n, Spoiled(n), NEW k \in 1..(Len(plan.cues) + 1)
      PROVE  Spoiled(EnterCueWrites(n, k))
  <2> DEFINE end == Len(plan.cues)
             ready == {j \in k..end : plan.cues[j].audio \notin n.absent}
  <2>0. end \in Nat /\ ready \in SUBSET Nat
    BY PlanLengths
  <2>1. CASE n.cancelled
    BY <1>2, <2>1, FinishSpoiled DEF EnterCueWrites
  <2>2. CASE ~n.cancelled /\ ready = {}
    <3>1. end + 1 - k \in Nat
      BY <1>2, <2>0
    <3>2. Spoiled(EnterLyricsWrites(SkipUnits(n, end + 1 - k), 1))
      BY <1>1, <1>2, <3>1, SkipSpoiled
    <3> QED
      BY <2>2, <3>2 DEF EnterCueWrites
  <2>3. CASE ~n.cancelled /\ ready # {}
    <3>1. Least(ready) \in ready
      BY <2>0, <2>3, LeastMember
    <3>2. /\ Least(ready) - k \in Nat /\ Least(ready) \in Nat
          /\ Least(ready) \in 1..Len(plan.cues)
      BY <1>2, <2>0, <3>1
    <3>3. plan.cues[Least(ready)].bytes \in Nat
      BY <3>2, SidecarBytes
    <3> HIDE DEF ready
    <3>4. Spoiled(Await(Show(Begin(SkipUnits(n, Least(ready) - k),
                                   plan.cues[Least(ready)].bytes), "copying"),
                        "writeCue", Least(ready)))
      BY <1>2, <3>2, <3>3, Names, SkipSpoiled, UnitSpoiled DEF Stages
    <3> QED
      BY <2>3, <3>4 DEF EnterCueWrites, ready
  <2> QED
    BY <2>1, <2>2, <2>3
<1>3. Spoiled(EnterAnalysisWrites(m, from))
  <2>1. CASE m.cancelled
    BY <1>0, <2>1 DEF EnterAnalysisWrites
  <2>2. CASE ~m.cancelled /\ from > Len(plan.analysis)
    <3>1. Spoiled(EnterCueWrites(m, 1))
      BY <1>2, PlanLengths
    <3> QED
      BY <2>2, <3>1 DEF EnterAnalysisWrites
  <2>3. CASE ~m.cancelled /\ ~(from > Len(plan.analysis))
    <3>1. from \in 1..Len(plan.analysis)
      BY <2>3, PlanLengths
    <3>2. plan.analysis[from].bytes \in Nat
      BY <3>1, SidecarBytes
    <3>3. Spoiled(Await(Show(Begin(m, plan.analysis[from].bytes), "writingAnalysis"),
                        "writeAnalysis", from))
      BY <3>2, Names, UnitSpoiled DEF Stages
    <3> QED
      BY <2>3, <3>3 DEF EnterAnalysisWrites
  <2> QED
    BY <2>1, <2>2, <2>3
<1> QED
  BY <1>1, <1>2, <1>3

LEMMA SharedSpoiled ==
  ASSUME plan \in MirrorPlan, NEW m, Spoiled(m), NEW from \in 1..(Len(plan.shared) + 1)
  PROVE  Spoiled(EnterSharedRecords(m, from))
<1> DEFINE end == Len(plan.shared)
           placed == {k \in from..end : PlacedAt(m, k) # NoPath}
           lost(upto) == {plan.shared[k].track : k \in from..upto}
<1>1. end \in Nat /\ placed \in SUBSET Nat
  BY PlanLengths
<1>2. ASSUME NEW upto \in Nat, upto <= end
      PROVE  Spoiled(FailTracks(m, lost(upto)))
  <2>1. \A k \in from..upto : plan.shared[k] \in SharedRecord
    BY <1>1, <1>2, PlanParts, ElementOfSeq
  <2>2. lost(upto) \in SUBSET Track
    BY <2>1 DEF SharedRecord
  <2> QED
    BY <2>2, FailTracksSpoiled
<1>3. CASE m.cancelled
  BY <1>3, FinishSpoiled DEF EnterSharedRecords
<1>4. CASE ~m.cancelled /\ placed = {}
  <2>1. EnterSharedRecords(m, from) = EnterAnalysisWrites(FailTracks(m, lost(end)), 1)
    BY <1>4 DEF EnterSharedRecords
  <2>2. Spoiled(FailTracks(m, lost(end)))
    BY <1>1, <1>2
  <2> HIDE DEF lost
  <2> QED
    BY <2>1, <2>2, SidecarsSpoiled
<1>5. CASE ~m.cancelled /\ placed # {}
  <2> DEFINE first == Least(placed)
             failed == FailTracks(m, lost(first - 1))
             waiting == Await(failed, "recordShared", first)
             place == PlacedAt(m, first)
             n == [waiting EXCEPT !.sharedPath = place]
  <2>1. EnterSharedRecords(m, from) = n
    BY <1>5 DEF EnterSharedRecords
  <2>2. first \in placed
    BY <1>1, <1>5, LeastMember
  <2> HIDE DEF first
  <2>3. first \in 1..end /\ first \in Nat /\ first - 1 \in Nat /\ first - 1 <= end
    BY <1>1, <2>2
  <2>4. Spoiled(failed)
    BY <1>2, <2>3
  <2> HIDE DEF failed
  <2>5. Spoiled(waiting)
    BY <2>3, <2>4, AwaitSpoiled DEF Stages
  <2>6. place \in PathOrNone
    BY <2>3, PlacedAtType DEF Spoiled
  <2> HIDE DEF waiting, place
  <2>7. n \in Machine
    BY <2>5, <2>6 DEF Machine, Spoiled
  <2>8. Spoiled(n)
    BY <2>5, <2>7 DEF Machine, Spoiled
  <2> QED
    BY <2>1, <2>8
<1> QED
  BY <1>3, <1>4, <1>5

LEMMA StartCopySpoiled ==
  ASSUME plan \in MirrorPlan, NEW m, Spoiled(m), NEW k \in 1..Len(plan.transfers)
  PROVE  Spoiled(StartCopy(m, k))
<1> DEFINE bytes == IF m.transcoded THEN m.transcodedBytes ELSE plan.transfers[k].bytes
<1>1. StartCopy(m, k) = Await(Show(Begin(m, bytes), "copying"), "copy", k)
  BY DEF StartCopy
<1>2. bytes \in Nat
  <2>1. plan.transfers[k] \in Transfer
    BY PlanParts, ElementOfSeq
  <2> QED
    BY <2>1 DEF Transfer, Machine, Spoiled
<1> HIDE DEF bytes
<1> QED
  BY <1>1, <1>2, Names, UnitSpoiled

LEMMA TransfersSpoiled ==
  ASSUME plan \in MirrorPlan, NEW m, Spoiled(m), NEW from \in 1..(Len(plan.transfers) + 1)
  PROVE  Spoiled(EnterTransfers(m, from))
<1> DEFINE fresh == [m EXCEPT !.transcoded = FALSE, !.transcodedBytes = 0,
                              !.copiedBytes = 0, !.copiedPath = NoPath]
<1>1. Len(plan.transfers) \in Nat /\ from \in Nat /\ Len(plan.shared) \in Nat
  BY PlanLengths
<1>2. CASE m.cancelled
  BY <1>2, FinishSpoiled DEF EnterTransfers
<1>3. CASE ~m.cancelled /\ from > Len(plan.transfers)
  <2>1. EnterTransfers(m, from) = EnterSharedRecords(m, 1)
    BY <1>3 DEF EnterTransfers
  <2>2. 1 \in 1..(Len(plan.shared) + 1)
    BY <1>1
  <2> QED
    BY <2>1, <2>2, SharedSpoiled
<1>4. CASE ~m.cancelled /\ ~(from > Len(plan.transfers))
  <2>1. Spoiled(fresh)
    <3>1. fresh \in Machine
      BY DEF Machine, Spoiled, PathOrNone
    <3> QED
      BY <3>1 DEF Machine, Spoiled
  <2>2. from \in 1..Len(plan.transfers)
    BY <1>1, <1>4
  <2>3. EnterTransfers(m, from)
          = IF plan.transfers[from].transcode
            THEN Await(Show(Begin(fresh, 0), "transcoding"), "transcode", from)
            ELSE StartCopy(fresh, from)
    BY <1>4 DEF EnterTransfers
  <2> HIDE DEF fresh
  <2>4. Spoiled(Await(Show(Begin(fresh, 0), "transcoding"), "transcode", from))
    BY <1>1, <2>1, Names, UnitSpoiled
  <2>5. Spoiled(StartCopy(fresh, from))
    BY <2>1, <2>2, StartCopySpoiled
  <2> QED
    BY <2>3, <2>4, <2>5
<1> QED
  BY <1>2, <1>3, <1>4

LEMMA DeferSpoiled ==
  ASSUME NEW m, Spoiled(m), NEW path \in Path, NEW track \in Track
  PROVE  Spoiled(Defer(m, path, track))
<1> DEFINE deferred == Append(m.deferred, [path |-> path, track |-> track])
<1>0. m \in Machine
  BY DEF Spoiled
<1>1. Defer(m, path, track) = [m EXCEPT !.deferred = deferred]
  BY DEF Defer
<1>2. Defer(m, path, track) \in Machine
  BY <1>0, DeferType
<1> HIDE DEF deferred
<1> QED
  BY <1>0, <1>1, <1>2 DEF Machine, Spoiled

LEMMA BookingSpoiled ==
  ASSUME plan \in MirrorPlan, NEW m, Spoiled(m)
  PROVE  /\ \A k \in 1..Len(plan.transfers) : Spoiled(Recorded(m, k))
         /\ \A k \in 1..Len(plan.shared) : Spoiled(DeferSharedPrevious(m, k))
<1>0. m \in Machine
  BY DEF Spoiled
<1>2. ASSUME NEW k \in 1..Len(plan.transfers)
      PROVE  Spoiled(Recorded(m, k))
  <2> DEFINE transfer == plan.transfers[k]
             moved == transfer.previous # NoPath /\ transfer.previous # m.copiedPath
             base == IF moved THEN Defer(m, transfer.previous, transfer.track) ELSE m
             carried == [base.carried EXCEPT ![transfer.track] = m.copiedPath]
  <2>1. transfer \in Transfer
    BY PlanParts, ElementOfSeq
  <2>2. transfer.track \in Track /\ (moved => transfer.previous \in Path)
    BY <2>1 DEF Transfer, PathOrNone
  <2>3. Recorded(m, k) = [base EXCEPT !.carried = carried]
    BY DEF Recorded
  <2>4. Recorded(m, k) \in Machine
    BY <1>0, RecordedType
  <2> HIDE DEF transfer
  <2>5. Spoiled(base)
    BY <2>2, DeferSpoiled
  <2> HIDE DEF base, carried
  <2> QED
    BY <2>3, <2>4, <2>5 DEF Machine, Spoiled
<1>3. ASSUME NEW k \in 1..Len(plan.shared)
      PROVE  Spoiled(DeferSharedPrevious(m, k))
  <2>1. plan.shared[k] \in SharedRecord
    BY PlanParts, ElementOfSeq
  <2>2. /\ plan.shared[k].track \in Track
        /\ plan.shared[k].previous # NoPath => plan.shared[k].previous \in Path
    BY <2>1 DEF SharedRecord, PathOrNone
  <2> QED
    BY <2>2, DeferSpoiled DEF DeferSharedPrevious
<1> QED
  BY <1>2, <1>3

\* The machine that answers with no unit of its own left: the parts of it a handler
\* only clears.
LEMMA ClearedSpoiled ==
  ASSUME NEW m, Spoiled(m)
  PROVE  /\ Spoiled([m EXCEPT !.copiedPath = NoPath, !.copiedBytes = 0])
         /\ Spoiled([m EXCEPT !.sharedPath = NoPath])
         /\ \A bytes \in Nat :
              Spoiled([m EXCEPT !.transcoded = TRUE, !.transcodedBytes = bytes])
         /\ \A bytes \in Nat, path \in Path :
              Spoiled([m EXCEPT !.copiedBytes = bytes, !.copiedPath = path])
<1>1. [m EXCEPT !.copiedPath = NoPath, !.copiedBytes = 0] \in Machine
  BY DEF Machine, Spoiled, PathOrNone
<1>2. Spoiled([m EXCEPT !.copiedPath = NoPath, !.copiedBytes = 0])
  BY <1>1 DEF Machine, Spoiled
<1>3. [m EXCEPT !.sharedPath = NoPath] \in Machine
  BY DEF Machine, Spoiled, PathOrNone
<1>4. Spoiled([m EXCEPT !.sharedPath = NoPath])
  BY <1>3 DEF Machine, Spoiled
<1>5. ASSUME NEW bytes \in Nat
      PROVE  Spoiled([m EXCEPT !.transcoded = TRUE, !.transcodedBytes = bytes])
  <2>1. [m EXCEPT !.transcoded = TRUE, !.transcodedBytes = bytes] \in Machine
    BY DEF Machine, Spoiled
  <2> QED
    BY <2>1 DEF Machine, Spoiled
<1>6. ASSUME NEW bytes \in Nat, NEW path \in Path
      PROVE  Spoiled([m EXCEPT !.copiedBytes = bytes, !.copiedPath = path])
  <2>1. [m EXCEPT !.copiedBytes = bytes, !.copiedPath = path] \in Machine
    BY DEF Machine, Spoiled, PathOrNone
  <2> QED
    BY <2>1 DEF Machine, Spoiled
<1> QED
  BY <1>2, <1>4, <1>5, <1>6

\* What is held against a run, whatever it is answered, and what a failure adds.
Marred(ok) == ~ok \/ Spoiled(run)

LEMMA Unended ==
  ASSUME RunInv, run.at.stage # "done"
  PROVE  /\ run \in Machine /\ plan \in MirrorPlan /\ run.outcome # "completed"
         /\ Index \in Nat
         /\ run.at.stage \in TransferStages =>
              /\ Index \in 1..Len(plan.transfers)
              /\ Index + 1 \in 1..(Len(plan.transfers) + 1)
         /\ run.at.stage = "recordShared" =>
              /\ Index \in 1..Len(plan.shared)
              /\ Index + 1 \in 1..(Len(plan.shared) + 1)
         /\ run.at.stage \in {"removeList", "forgetList"} =>
              /\ Index \in 1..Len(plan.listRemovals)
              /\ Index + 1 \in 1..(Len(plan.listRemovals) + 1)
         /\ run.at.stage = "removeReplaced" => Index \in DOMAIN run.deferred
<1>1. /\ run \in Machine /\ plan \in MirrorPlan /\ Index \in Nat
      /\ run.at.stage \notin {"start", "partials", "writeMetadata", "done"} =>
           Index \in 1..StageLength(run)
  BY RunIndex
<1>2. run.outcome = "none"
  BY DEF RunInv, Accounted
<1>3. /\ Len(plan.transfers) \in Nat /\ Len(plan.shared) \in Nat
      /\ Len(plan.listRemovals) \in Nat
      /\ DOMAIN run.deferred = 1..Len(run.deferred)
  BY <1>1, PlanLengths, MachineParts, LenProperties
<1>4. /\ run.at.stage \in TransferStages => StageLength(run) = Len(plan.transfers)
      /\ run.at.stage = "recordShared" => StageLength(run) = Len(plan.shared)
      /\ run.at.stage \in {"removeList", "forgetList"} =>
           StageLength(run) = Len(plan.listRemovals)
      /\ run.at.stage = "removeReplaced" => StageLength(run) = Len(run.deferred)
  BY DEF StageLength, TransferStages
<1> QED
  BY <1>1, <1>2, <1>3, <1>4 DEF TransferStages

LEMMA TransferAnswerSpoils ==
  ASSUME RunInv, NEW ok \in BOOLEAN, Marred(ok),
         \/ PartialsCleaned(ok) \/ Transcoded(ok, 0)
         \/ Awaiting("copy") /\ TrackCopied(ok, 0, plan.transfers[Index].path)
         \/ FileRecorded(ok)
  PROVE  Spoiled(run')
<1>0. run.at.stage \in {"partials"} \cup TransferStages
  BY DEF PartialsCleaned, Transcoded, TrackCopied, FileRecorded, Awaiting, TransferStages
<1>1. /\ run \in Machine /\ plan \in MirrorPlan /\ run.outcome # "completed"
      /\ run.at.stage \in TransferStages =>
           /\ Index \in 1..Len(plan.transfers)
           /\ Index + 1 \in 1..(Len(plan.transfers) + 1)
  BY <1>0, Unended DEF TransferStages
<1>2. CASE PartialsCleaned(ok)
  <2>1. run' = IF ok THEN EnterTransfers(run, 1) ELSE Finish(StopStage(run))
    BY <1>2 DEF PartialsCleaned, Handle
  <2>2. 1 \in 1..(Len(plan.transfers) + 1)
    BY <1>1, PlanLengths
  <2> QED
    BY <1>1, <2>1, <2>2, FailSpoils, FinishSpoiled, TransfersSpoiled DEF Marred
<1>3. ASSUME NEW base, Spoiled(base), NEW bytes \in Nat, run.at.stage \in TransferStages
      PROVE  Spoiled(EnterTransfers(Complete(base, bytes), Index + 1))
  BY <1>1, <1>3, CompleteSpoiled, TransfersSpoiled
<1>4. CASE Transcoded(ok, 0)
  <2>1. run.at.stage \in TransferStages
    BY <1>4 DEF Transcoded, Awaiting, TransferStages
  <2>2. CASE ok
    <3> DEFINE base == [run EXCEPT !.transcoded = TRUE, !.transcodedBytes = 0]
    <3>1. run' = StartCopy(base, Index)
      BY <1>4, <2>2 DEF Transcoded, Handle
    <3>2. Spoiled(base)
      BY <2>2, ClearedSpoiled DEF Marred
    <3> HIDE DEF base
    <3> QED
      BY <1>1, <2>1, <3>1, <3>2, StartCopySpoiled
  <2>3. CASE ~ok
    <3>1. run' = EnterTransfers(Complete(FailUnpublished(run, Index), 0), Index + 1)
      BY <1>4, <2>3 DEF Transcoded, Handle
    <3> QED
      BY <1>1, <1>3, <2>1, <3>1, UnpublishedSpoils
  <2> QED
    BY <2>2, <2>3
<1>5. CASE Awaiting("copy") /\ TrackCopied(ok, 0, plan.transfers[Index].path)
  <2>1. run.at.stage \in TransferStages
    BY <1>5 DEF Awaiting, TransferStages
  <2>2. CASE ok
    <3> DEFINE path == plan.transfers[Index].path
               base == [run EXCEPT !.copiedBytes = 0, !.copiedPath = path]
    <3>1. run' = Await(base, "recordFile", Index)
      BY <1>5, <2>2 DEF TrackCopied, Handle
    <3>2. path \in Path
      BY <2>1, EntryInPlan DEF Transfer
    <3> HIDE DEF path
    <3>3. Spoiled(base)
      BY <2>2, <3>2, ClearedSpoiled DEF Marred
    <3> HIDE DEF base
    <3> QED
      BY <1>1, <2>1, <3>1, <3>3, AwaitSpoiled DEF Stages
  <2>3. CASE ~ok
    <3>1. run' = EnterTransfers(Complete(IF run.cancelled THEN run
                                         ELSE FailUnpublished(run, Index), 0), Index + 1)
      BY <1>5, <2>3 DEF TrackCopied, Handle
    <3>2. run.cancelled => Spoiled(run)
      BY <1>1 DEF Spoiled
    <3> QED
      BY <1>1, <1>3, <2>1, <3>1, <3>2, UnpublishedSpoils
  <2> QED
    BY <2>2, <2>3
<1>6. CASE FileRecorded(ok)
  <2> DEFINE recorded == IF ok THEN Recorded(run, Index)
                         ELSE Fail(run, plan.transfers[Index].track)
             settled == [recorded EXCEPT !.copiedPath = NoPath, !.copiedBytes = 0]
  <2>1. run.at.stage \in TransferStages
    BY <1>6 DEF FileRecorded, Awaiting, TransferStages
  <2>2. run' = EnterTransfers(Complete(settled, run.copiedBytes), Index + 1)
    BY <1>6 DEF FileRecorded, Handle
  <2>3. plan.transfers[Index].track \in Track
    BY <2>1, EntryInPlan DEF Transfer
  <2>4. Spoiled(recorded)
    BY <1>1, <2>1, <2>3, BookingSpoiled, FailSpoils DEF Marred
  <2> HIDE DEF recorded
  <2>5. Spoiled(settled)
    BY <2>4, ClearedSpoiled
  <2> HIDE DEF settled
  <2>6. run.copiedBytes \in Nat
    BY <1>1 DEF Machine
  <2> QED
    BY <1>3, <2>1, <2>2, <2>5, <2>6
<1> QED
  BY <1>2, <1>4, <1>5, <1>6

LEMMA SharedAnswerSpoils ==
  ASSUME RunInv, NEW ok \in BOOLEAN, Marred(ok), SharedFileRecorded(ok)
  PROVE  Spoiled(run')
<1> DEFINE recorded == IF ok THEN DeferSharedPrevious(run, Index)
                       ELSE Fail(run, plan.shared[Index].track)
           settled == [recorded EXCEPT !.sharedPath = NoPath]
<1>1. run' = EnterSharedRecords(settled, Index + 1) /\ run.at.stage = "recordShared"
  BY DEF SharedFileRecorded, Handle, Awaiting
<1>2. /\ run \in Machine /\ plan \in MirrorPlan /\ run.outcome # "completed"
      /\ Index \in 1..Len(plan.shared) /\ Index + 1 \in 1..(Len(plan.shared) + 1)
  BY <1>1, Unended
<1>3. plan.shared[Index].track \in Track
  BY <1>1, EntryInPlan DEF SharedRecord, Awaiting
<1>4. Spoiled(recorded)
  BY <1>2, <1>3, BookingSpoiled, FailSpoils DEF Marred
<1> HIDE DEF recorded
<1>5. Spoiled(settled)
  BY <1>4, ClearedSpoiled
<1> HIDE DEF settled
<1> QED
  BY <1>1, <1>2, <1>5, SharedSpoiled

LEMMA ListAnswerSpoils ==
  ASSUME RunInv, NEW ok \in BOOLEAN, Marred(ok),
         \/ AnalysisWritten(ok, 0) \/ PlaylistWritten(ok) \/ PlaylistRecorded(ok)
  PROVE  Spoiled(run')
<1>1. run.at.stage \in {"writeAnalysis", "writeList", "recordList"}
  BY DEF AnalysisWritten, PlaylistWritten, PlaylistRecorded, Awaiting
<1>2. /\ run \in Machine /\ plan \in MirrorPlan /\ run.outcome # "completed"
      /\ Index \in Nat /\ Index + 1 \in Nat \ {0}
  BY <1>1, Unended
<1>3. CASE AnalysisWritten(ok, 0)
  <2>1. run' = EnterAnalysisWrites(IF ok THEN Complete(run, 0)
                                   ELSE Complete(StopStage(run), 0), Index + 1)
    BY <1>3 DEF AnalysisWritten, Handle
  <2>2. Spoiled(IF ok THEN Complete(run, 0) ELSE Complete(StopStage(run), 0))
    BY <1>2, FailSpoils, CompleteSpoiled DEF Marred
  <2> QED
    BY <1>2, <2>1, <2>2, SidecarsSpoiled
<1>4. CASE PlaylistWritten(ok)
  <2>1. run' = IF ok THEN Await(run, "recordList", Index)
               ELSE EnterPlaylistWrites(Complete(FailPlaylist(run), 0), Index + 1)
    BY <1>4 DEF PlaylistWritten, Handle
  <2>2. ok => Spoiled(Await(run, "recordList", Index))
    BY <1>2, AwaitSpoiled DEF Marred, Stages
  <2>3. Spoiled(Complete(FailPlaylist(run), 0))
    BY <1>2, FailSpoils, CompleteSpoiled
  <2> QED
    BY <1>2, <2>1, <2>2, <2>3, ListWritesSpoiled
<1>5. CASE PlaylistRecorded(ok)
  <2> DEFINE published == run.published \cup {plan.lists[Index].source}
             listed == [run EXCEPT !.published = published]
             recorded == IF ok THEN listed ELSE FailPlaylist(run)
  <2>1. run' = EnterPlaylistWrites(Complete(recorded, 0), Index + 1)
    BY <1>5 DEF PlaylistRecorded, Handle
  <2>2. CASE ok
    <3>1. published \subseteq Source
      <4>1. Index \in 1..Len(plan.lists)
        BY <1>5, RunIndex DEF PlaylistRecorded, Awaiting, StageLength
      <4>2. plan.lists[Index] \in ListWrite
        BY <1>2, <4>1, PlanParts, ElementOfSeq
      <4> QED
        BY <1>2, <4>2, MachineParts DEF ListWrite
    <3> HIDE DEF published
    <3>2. listed \in Machine
      BY <1>2, <3>1 DEF Machine
    <3>3. Spoiled(listed)
      BY <2>2, <3>2 DEF Machine, Spoiled, Marred
    <3> HIDE DEF listed
    <3>4. Spoiled(recorded)
      BY <2>2, <3>3
    <3> HIDE DEF recorded
    <3> QED
      BY <1>2, <2>1, <3>4, CompleteSpoiled, ListWritesSpoiled
  <2>3. CASE ~ok
    <3>1. Spoiled(recorded)
      BY <1>2, <2>3, FailSpoils
    <3> HIDE DEF recorded
    <3> QED
      BY <1>2, <2>1, <3>1, CompleteSpoiled, ListWritesSpoiled
  <2> QED
    BY <2>2, <2>3
<1> QED
  BY <1>3, <1>4, <1>5

LEMMA ListRemovalAnswerSpoils ==
  ASSUME RunInv, NEW ok \in BOOLEAN, Marred(ok),
         PlaylistRemoved(ok) \/ PlaylistForgotten(ok)
  PROVE  Spoiled(run')
<1>1. run.at.stage \in {"removeList", "forgetList"}
  BY DEF PlaylistRemoved, PlaylistForgotten, Awaiting
<1>2. /\ run \in Machine /\ plan \in MirrorPlan /\ run.outcome # "completed"
      /\ Index \in Nat /\ Index + 1 \in 1..(Len(plan.listRemovals) + 1)
  BY <1>1, Unended
<1>3. ASSUME NEW base, Spoiled(base)
      PROVE  Spoiled(EnterPlaylistRemovals(Complete(base, 0), Index + 1))
  BY <1>2, <1>3, CompleteSpoiled, ListRemovalsSpoiled
<1>4. CASE PlaylistRemoved(ok)
  <2>1. CASE ~ok
    <3> DEFINE stale == [run EXCEPT !.staleList = TRUE]
    <3>1. run' = EnterPlaylistRemovals(Complete(FailPlaylist(stale), 0), Index + 1)
      BY <1>4, <2>1 DEF PlaylistRemoved, Handle
    <3>2. stale \in Machine /\ stale.outcome # "completed"
      BY <1>2 DEF Machine
    <3> HIDE DEF stale
    <3> QED
      BY <1>3, <3>1, <3>2, FailSpoils
  <2>2. CASE ok
    <3>1. \/ run' = EnterPlaylistRemovals(Complete(run, 0), Index + 1)
          \/ run' = Await(run, "forgetList", Index)
      BY <1>4, <2>2 DEF PlaylistRemoved, Handle
    <3>2. Spoiled(Await(run, "forgetList", Index))
      BY <1>2, <2>2, AwaitSpoiled DEF Marred, Stages
    <3> QED
      BY <1>3, <2>2, <3>1, <3>2 DEF Marred
  <2> QED
    BY <2>1, <2>2
<1>5. CASE PlaylistForgotten(ok)
  <2>1. run' = EnterPlaylistRemovals(Complete(IF ok THEN run ELSE FailPlaylist(run), 0),
                                     Index + 1)
    BY <1>5 DEF PlaylistForgotten, Handle
  <2>2. Spoiled(IF ok THEN run ELSE FailPlaylist(run))
    BY <1>2, FailSpoils DEF Marred
  <2> QED
    BY <1>3, <2>1, <2>2
<1> QED
  BY <1>4, <1>5

LEMMA RemovalAnswerSpoils ==
  ASSUME RunInv, NEW ok \in BOOLEAN, Marred(ok),
         TrackRemoved(ok) \/ FileForgotten(ok) \/ ReplacedFileRemoved(ok)
  PROVE  Spoiled(run')
<1>1. run.at.stage \in {"removeTrack", "forgetFile", "removeReplaced"}
  BY DEF TrackRemoved, FileForgotten, ReplacedFileRemoved, Awaiting
<1>2. /\ run \in Machine /\ plan \in MirrorPlan /\ run.outcome # "completed"
      /\ Index \in Nat /\ Index + 1 \in Nat
      /\ run.at.stage = "removeReplaced" => Index \in DOMAIN run.deferred
  BY <1>1, Unended
<1>3. ASSUME NEW base, Spoiled(base)
      PROVE  Spoiled(EnterRemovals(Complete(base, 0), Index + 1))
  BY <1>2, <1>3, CompleteSpoiled, LateSpoiled
<1>4. run.at.stage \in {"removeTrack", "forgetFile"} =>
        Spoiled(Fail(run, plan.removals[Index].track))
  <2> SUFFICES ASSUME run.at.stage \in {"removeTrack", "forgetFile"}
               PROVE  plan.removals[Index].track \in Track \cup {Unattributed}
    BY <1>2, FailSpoils
  <2>1. Index \in 1..Len(plan.removals)
    BY RunIndex DEF StageLength
  <2>2. plan.removals[Index] \in Removal
    BY <1>2, <2>1, PlanParts, ElementOfSeq
  <2> QED
    BY <2>2 DEF Removal
<1>5. CASE TrackRemoved(ok)
  <2>1. CASE ~ok
    <3>1. run' = EnterRemovals(Complete(Fail(run, plan.removals[Index].track), 0),
                               Index + 1)
      BY <1>5, <2>1 DEF TrackRemoved, Handle
    <3> QED
      BY <1>3, <1>4, <1>5, <3>1 DEF TrackRemoved, Awaiting
  <2>2. CASE ok
    <3>1. \/ run' = EnterRemovals(Complete(run, 0), Index + 1)
          \/ run' = Await(run, "forgetFile", Index)
      BY <1>5, <2>2 DEF TrackRemoved, Handle
    <3>2. Spoiled(Await(run, "forgetFile", Index))
      BY <1>2, <2>2, AwaitSpoiled DEF Marred, Stages
    <3> QED
      BY <1>3, <2>2, <3>1, <3>2 DEF Marred
  <2> QED
    BY <2>1, <2>2
<1>6. CASE FileForgotten(ok)
  <2>1. run' = EnterRemovals(Complete(IF ok THEN run
                                      ELSE Fail(run, plan.removals[Index].track), 0),
                             Index + 1)
    BY <1>6 DEF FileForgotten, Handle
  <2>2. Spoiled(IF ok THEN run ELSE Fail(run, plan.removals[Index].track))
    BY <1>4, <1>6 DEF Marred, FileForgotten, Awaiting
  <2> QED
    BY <1>3, <2>1, <2>2
<1>7. CASE ReplacedFileRemoved(ok)
  <2>1. run' = EnterDeferredRemovals(IF ok THEN run
                                     ELSE Fail(run, run.deferred[Index].track), Index + 1)
    BY <1>7 DEF ReplacedFileRemoved, Handle
  <2>2. run.deferred[Index].track \in Track
    <3>1. Index \in DOMAIN run.deferred
      BY <1>2, <1>7 DEF ReplacedFileRemoved, Awaiting
    <3>2. run.deferred[Index] \in [path : Path, track : Track]
      <4>1. run.deferred \in Seq([path : Path, track : Track])
        BY <1>2, MachineParts
      <4> QED
        BY <3>1, <4>1, ElementOfSeq, LenProperties
    <3> QED
      BY <3>2
  <2>3. Spoiled(IF ok THEN run ELSE Fail(run, run.deferred[Index].track))
    BY <1>2, <2>2, FailSpoils DEF Marred
  <2> QED
    BY <1>2, <2>1, <2>3, LateSpoiled
<1> QED
  BY <1>5, <1>6, <1>7

\* A failure is held against the run, and so is whatever was.
LEMMA AnswerSpoils ==
  ASSUME RunInv, NEW ok \in BOOLEAN, Marred(ok), Respond(ok)
  PROVE  Spoiled(run')
BY TransferAnswerSpoils, SharedAnswerSpoils, ListAnswerSpoils, ListRemovalAnswerSpoils,
   RemovalAnswerSpoils DEF Respond

LEMMA CancelSpoils ==
  ASSUME RunInv, run.at.stage # "done", Cancel
  PROVE  Spoiled(run')
<1>1. run \in Machine /\ run.outcome # "completed"
  BY Unended
<1>2. run' = [run EXCEPT !.cancelled = TRUE]
  BY DEF Cancel, Handle
<1>3. run' \in Machine
  BY <1>1, <1>2 DEF Machine
<1> QED
  BY <1>1, <1>2, <1>3 DEF Machine, Spoiled

-----------------------------------------------------------------------------
(* The playlists: their rows and their files.                              *)

ListRowsAt(i, booked, unbooked, listRows) ==
  /\ \A s \in Written(i) :
       \/ s \in DOMAIN listRows /\ listRows[s] = PlaylistPath(i, s)
       \/ \E k \in DOMAIN ListWrites(i) : k > booked /\ ListWrites(i)[k].source = s
  /\ \A s \in DOMAIN listRows :
       \/ s \in Written(i)
       \/ s \in i.lib.selected /\ listRows[s] = PlaylistPath(i, s)
       \/ \E k \in DOMAIN ListRemovals(i) : k > unbooked /\ ListRemovals(i)[k].source = s

ListsAt(i, written, cleared, removed, lists) ==
  /\ \A k \in DOMAIN ListWrites(i) :
       k <= written =>
         LET list == ListWrites(i)[k]
         IN  list.path \in DOMAIN lists /\ lists[list.path] = list.entries
  /\ \A path \in DOMAIN lists :
       \/ \E s \in i.lib.selected : path = PlaylistPath(i, s)
       \/ \E k \in DOMAIN ListRemovals(i) : k > cleared /\ ListRemovals(i)[k].path = path
       \/ \E k \in DOMAIN Removals(i) :
            k > removed /\ Removals(i)[k].kind # "unshared" /\ Removals(i)[k].path = path

LEMMA ListRowsBegin ==
  ASSUME NEW i, IsInput(i), ListRowsAreApart(i.store.listRows)
  PROVE  ListRowsAt(i, 0, 0, i.store.listRows)
<1>1. \A s \in Written(i) :
        \E k \in DOMAIN ListWrites(i) : k > 0 /\ ListWrites(i)[k].source = s
  BY SelectedListsWritten, Places
<1>2. \A s \in DOMAIN i.store.listRows :
        \/ s \in i.lib.selected /\ i.store.listRows[s] = PlaylistPath(i, s)
        \/ \E k \in DOMAIN ListRemovals(i) : k > 0 /\ ListRemovals(i)[k].source = s
  <2> SUFFICES ASSUME NEW s \in DOMAIN i.store.listRows,
                      s \in i.lib.selected => i.store.listRows[s] # PlaylistPath(i, s)
               PROVE  \E k \in DOMAIN ListRemovals(i) :
                        k > 0 /\ ListRemovals(i)[k].source = s
    OBVIOUS
  <2>1. s \in Outdated(i)
    BY DEF Outdated
  <2>2. PICK k \in DOMAIN ListRemovals(i) :
               ListRemovals(i)[k] = [source |-> s, path |-> i.store.listRows[s]]
    BY <2>1, ListRemovalsListed DEF ItemsOf
  <2> QED
    BY <2>2, Places
<1> QED
  BY <1>1, <1>2 DEF ListRowsAt

LEMMA ListRowsBooked ==
  ASSUME NEW i, IsInput(i), NEW k \in DOMAIN ListWrites(i), NEW unbooked, NEW listRows,
         ListRowsAt(i, k - 1, unbooked, listRows), NEW after,
         IsPut(after, listRows, ListWrites(i)[k].source, ListWrites(i)[k].path)
  PROVE  ListRowsAt(i, k, unbooked, after)
<1> DEFINE source == ListWrites(i)[k].source
<1>1. /\ source \in Written(i) /\ ListWrites(i)[k].path = PlaylistPath(i, source)
      /\ k \in Nat /\ DOMAIN ListWrites(i) \subseteq Nat
  BY ListWriteFacts, Places
<1>2. ASSUME NEW s \in Written(i)
      PROVE  \/ s \in DOMAIN after /\ after[s] = PlaylistPath(i, s)
             \/ \E j \in DOMAIN ListWrites(i) : j > k /\ ListWrites(i)[j].source = s
  <2>1. CASE s = source
    BY <1>1, <2>1 DEF IsPut
  <2>2. CASE s # source
    <3>1. CASE s \in DOMAIN listRows /\ listRows[s] = PlaylistPath(i, s)
      BY <2>2, <3>1 DEF IsPut
    <3>2. CASE \E j \in DOMAIN ListWrites(i) : j > k - 1 /\ ListWrites(i)[j].source = s
      BY <1>1, <2>2, <3>2
    <3> QED
      BY <3>1, <3>2 DEF ListRowsAt
  <2> QED
    BY <2>1, <2>2
<1>3. ASSUME NEW s \in DOMAIN after
      PROVE  \/ s \in Written(i)
             \/ s \in i.lib.selected /\ after[s] = PlaylistPath(i, s)
             \/ \E j \in DOMAIN ListRemovals(i) :
                  j > unbooked /\ ListRemovals(i)[j].source = s
  BY <1>1 DEF ListRowsAt, IsPut
<1> QED
  BY <1>2, <1>3 DEF ListRowsAt

LEMMA ListRowsUnbooked ==
  ASSUME NEW i, IsInput(i), NEW k \in DOMAIN ListRemovals(i), NEW booked, NEW listRows,
         ListRowsAt(i, booked, k - 1, listRows), NEW after,
         IF ListRemovals(i)[k].source \in Written(i) THEN after = listRows
         ELSE IsDrop(after, listRows, ListRemovals(i)[k].source)
  PROVE  ListRowsAt(i, booked, k, after)
<1>1. k \in Nat /\ DOMAIN ListRemovals(i) \subseteq Nat
  BY Places
<1>2. CASE ListRemovals(i)[k].source \in Written(i)
  BY <1>1, <1>2 DEF ListRowsAt
<1>3. CASE ListRemovals(i)[k].source \notin Written(i)
  BY <1>1, <1>3 DEF ListRowsAt, IsDrop
<1> QED
  BY <1>2, <1>3

\* What is neither a row's file, a planned file, nor a sidecar of one is removed as an
\* orphan.
LEMMA ListsBegin ==
  ASSUME NEW i, IsInput(i), Kinds(i.store)
  PROVE  ListsAt(i, 0, 0, 0, i.store.lists)
<1>1. ASSUME NEW path \in DOMAIN i.store.lists
      PROVE  \/ \E s \in i.lib.selected : path = PlaylistPath(i, s)
             \/ \E k \in DOMAIN ListRemovals(i) : k > 0 /\ ListRemovals(i)[k].path = path
             \/ \E k \in DOMAIN Removals(i) :
                  /\ k > 0 /\ Removals(i)[k].kind # "unshared"
                  /\ Removals(i)[k].path = path
  <2>1. path.kind = "list"
    BY DEF Kinds
  <2>2. CASE path \in Orphans(i)
    <3>1. PICK k \in DOMAIN Removals(i) : Removals(i)[k] = OrphanAt(path)
      BY <2>2, EveryRemovalListed
    <3> QED
      BY <3>1, Places DEF OrphanAt
  <2>3. CASE path \notin Orphans(i)
    <3>1. path \in KnownPaths(i)
      BY <2>3 DEF Orphans, Resident
    <3>2. /\ path \notin OwnedSidecars(i) /\ path \notin DesiredPaths(i)
          /\ \A t \in RowTracks(i) : path # RowPath(i, t)
      BY <2>1, PlannedKinds DEF Kinds, DesiredPaths, RowTracks, RowPath
    <3>3. CASE \E s \in i.lib.selected : path = PlaylistPath(i, s)
      BY <3>3
    <3>4. CASE ~ \E s \in i.lib.selected : path = PlaylistPath(i, s)
      <4>1. PICK s \in DOMAIN i.store.listRows : path = i.store.listRows[s]
        BY <3>1, <3>2, <3>4 DEF KnownPaths
      <4>2. s \in Outdated(i)
        BY <3>4, <4>1 DEF Outdated
      <4>3. PICK k \in DOMAIN ListRemovals(i) :
                   ListRemovals(i)[k] = [source |-> s, path |-> i.store.listRows[s]]
        BY <4>2, ListRemovalsListed DEF ItemsOf
      <4> QED
        BY <4>1, <4>3, Places
    <3> QED
      BY <3>3, <3>4
  <2> QED
    BY <2>2, <2>3
<1>2. \A k \in DOMAIN ListWrites(i) : ~(k <= 0)
  BY Places
<1> QED
  BY <1>1, <1>2 DEF ListsAt

LEMMA ListsWritten ==
  ASSUME NEW i, IsInput(i), NEW k \in DOMAIN ListWrites(i), NEW cleared, NEW removed,
         NEW lists, ListsAt(i, k - 1, cleared, removed, lists), NEW after,
         IsPut(after, lists, ListWrites(i)[k].path, ListWrites(i)[k].entries)
  PROVE  ListsAt(i, k, cleared, removed, after)
<1> DEFINE list == ListWrites(i)[k]
<1>1. /\ k \in Nat /\ DOMAIN ListWrites(i) \subseteq Nat
      /\ \E s \in i.lib.selected : list.path = PlaylistPath(i, s)
      /\ \A j \in DOMAIN ListWrites(i) : j = k \/ ListWrites(i)[j].path # list.path
  BY ListWriteFacts, Places
<1>2. ASSUME NEW j \in DOMAIN ListWrites(i), j <= k
      PROVE  /\ ListWrites(i)[j].path \in DOMAIN after
             /\ after[ListWrites(i)[j].path] = ListWrites(i)[j].entries
  <2>1. CASE j = k
    BY <2>1 DEF IsPut
  <2>2. CASE j # k
    <3>1. j <= k - 1 /\ ListWrites(i)[j].path # list.path
      BY <1>1, <1>2, <2>2
    <3> QED
      BY <3>1 DEF ListsAt, IsPut
  <2> QED
    BY <2>1, <2>2
<1>3. \A path \in DOMAIN after : path \in DOMAIN lists \/ path = list.path
  BY DEF IsPut
<1> QED
  BY <1>1, <1>2, <1>3 DEF ListsAt

\* A file goes that is no selected playlist.
LEMMA ListsDropped ==
  ASSUME NEW i, IsInput(i), NEW path, \A s \in i.lib.selected : PlaylistPath(i, s) # path,
         NEW written, NEW cleared, NEW removed, NEW lists,
         ListsAt(i, written, cleared, removed, lists), NEW after, IsDrop(after, lists, path)
  PROVE  ListsAt(i, written, cleared, removed, after)
<1>1. \A k \in DOMAIN ListWrites(i) : ListWrites(i)[k].path # path
  BY ListWriteFacts
<1> QED
  BY <1>1 DEF ListsAt, IsDrop

LEMMA ListsCleared ==
  ASSUME NEW i, IsInput(i), ListRowsAreApart(i.store.listRows),
         NEW k \in DOMAIN ListRemovals(i), NEW written, NEW removed, NEW lists,
         ListsAt(i, written, k - 1, removed, lists), NEW after,
         IsDrop(after, lists, ListRemovals(i)[k].path)
  PROVE  ListsAt(i, written, k, removed, after)
<1> DEFINE path == ListRemovals(i)[k].path
<1>1. /\ k \in Nat /\ DOMAIN ListRemovals(i) \subseteq Nat
      /\ \A s \in i.lib.selected : PlaylistPath(i, s) # path
  BY ListRemovalFacts, Places
<1>2. ListsAt(i, written, k - 1, removed, after) /\ path \notin DOMAIN after
  BY <1>1, ListsDropped DEF IsDrop
<1> QED
  BY <1>1, <1>2 DEF ListsAt

LEMMA ListsRemoved ==
  ASSUME NEW i, IsInput(i), Kinds(i.store), NEW k \in DOMAIN Removals(i), NEW written,
         NEW cleared, NEW lists, ListsAt(i, written, cleared, k - 1, lists), NEW after,
         IF Removals(i)[k].kind = "unshared" THEN after = lists
         ELSE IsDrop(after, lists, Removals(i)[k].path)
  PROVE  ListsAt(i, written, cleared, k, after)
<1> DEFINE path == Removals(i)[k].path
<1>1. k \in Nat /\ DOMAIN Removals(i) \subseteq Nat
  BY Places
<1>2. CASE Removals(i)[k].kind = "unshared"
  BY <1>1, <1>2 DEF ListsAt
<1>3. CASE Removals(i)[k].kind # "unshared"
  <2>1. \A s \in i.lib.selected : PlaylistPath(i, s) # path
    <3>1. CASE Removals(i)[k].kind = "orphan"
      BY <3>1, RemovalFacts DEF Orphans, KnownPaths
    <3>2. CASE Removals(i)[k].kind # "orphan"
      <4>1. path.kind = "audio"
        BY <3>2, RemovalFacts DEF Kinds, RowTracks, RowPath
      <4> QED
        BY <4>1, PlannedKinds
    <3> QED
      BY <3>1, <3>2
  <2>2. ListsAt(i, written, cleared, k - 1, after) /\ path \notin DOMAIN after
    BY <1>3, <2>1, ListsDropped DEF IsDrop
  <2> QED
    BY <1>1, <2>2 DEF ListsAt
<1> QED
  BY <1>2, <1>3

-----------------------------------------------------------------------------
(* The sidecars: each has its file, wanted or retained, or is about to go. *)

SidecarsAt(i, removed, audio, sidecars) ==
  \A path \in sidecars :
    \/ \E file \in DesiredPaths(i) : path = SidecarOf(file)
    \/ \E file \in RetainedPaths(i) : file \in DOMAIN audio /\ path = SidecarOf(file)
    \/ \E k \in DOMAIN Removals(i) :
         k > removed /\ Removals(i)[k].kind = "orphan" /\ Removals(i)[k].path = path

LEMMA SidecarsBegin ==
  ASSUME NEW i, IsInput(i), Kinds(i.store)
  PROVE  SidecarsAt(i, 0, i.store.audio, i.store.sidecars)
<1> SUFFICES ASSUME NEW path \in i.store.sidecars
             PROVE  \/ \E file \in DesiredPaths(i) : path = SidecarOf(file)
                    \/ \E file \in RetainedPaths(i) :
                         file \in DOMAIN i.store.audio /\ path = SidecarOf(file)
                    \/ \E k \in DOMAIN Removals(i) :
                         /\ k > 0 /\ Removals(i)[k].kind = "orphan"
                         /\ Removals(i)[k].path = path
  BY DEF SidecarsAt
<1>1. path.kind = "analysis"
  BY DEF Kinds
<1>2. CASE path \in Orphans(i)
  <2>1. PICK k \in DOMAIN Removals(i) : Removals(i)[k] = OrphanAt(path)
    BY <1>2, EveryRemovalListed
  <2> QED
    BY <2>1, Places DEF OrphanAt
<1>3. CASE path \notin Orphans(i)
  <2>1. path \in KnownPaths(i)
    BY <1>3 DEF Orphans, Resident
  <2>2. /\ path \notin DesiredPaths(i) /\ \A t \in RowTracks(i) : path # RowPath(i, t)
        /\ \A s \in DOMAIN i.store.listRows : path # i.store.listRows[s]
        /\ \A s \in i.lib.selected : path # PlaylistPath(i, s)
    BY <1>1, PlannedKinds DEF Kinds, DesiredPaths, RowTracks, RowPath
  <2>3. path \in OwnedSidecars(i)
    BY <2>1, <2>2 DEF KnownPaths
  <2>4. Arriving(i) \subseteq DesiredPaths(i)
    BY DEF Arriving, Transferred, DesiredPaths
  <2> QED
    BY <2>3, <2>4 DEF OwnedSidecars, RetainedPaths
<1> QED
  BY <1>2, <1>3

LEMMA SidecarsWritten ==
  ASSUME NEW i, IsInput(i), NEW k \in DOMAIN AnalysisWrites(i), NEW removed, NEW audio,
         NEW sidecars, SidecarsAt(i, removed, audio, sidecars)
  PROVE  SidecarsAt(i, removed, audio, sidecars \cup {AnalysisWrites(i)[k].path})
BY AnalysisListed DEF SidecarsAt, DesiredPaths

LEMMA SidecarsArrive ==
  ASSUME NEW i, NEW removed, NEW audio, NEW sidecars,
         SidecarsAt(i, removed, audio, sidecars), NEW after,
         DOMAIN audio \subseteq DOMAIN after
  PROVE  SidecarsAt(i, removed, after, sidecars)
BY DEF SidecarsAt

\* A file goes with its sidecar.
LEMMA SidecarsGone ==
  ASSUME NEW i, Kinds(i.store), NEW path, NEW removed, NEW audio, NEW sidecars,
         SidecarsAt(i, removed, audio, sidecars), NEW after, IsDrop(after, audio, path)
  PROVE  SidecarsAt(i, removed, after,
                    sidecars \ (IF path.kind = "audio" THEN {path, SidecarOf(path)}
                                ELSE {path}))
<1>1. \A file \in RetainedPaths(i) : file.kind = "audio"
  BY DEF Kinds, RetainedPaths, Retained, RowTracks, RowPath
<1> QED
  BY <1>1 DEF SidecarsAt, IsDrop

LEMMA SidecarsRemoved ==
  ASSUME NEW i, IsInput(i), NEW k \in DOMAIN Removals(i), NEW audio, NEW sidecars,
         SidecarsAt(i, k - 1, audio, sidecars),
         Removals(i)[k].kind = "orphan" => Removals(i)[k].path \notin sidecars
  PROVE  SidecarsAt(i, k, audio, sidecars)
<1>1. k \in Nat /\ DOMAIN Removals(i) \subseteq Nat
  BY Places
<1> QED
  BY <1>1 DEF SidecarsAt

-----------------------------------------------------------------------------
(* Rows of one file that have one name have one slot.                      *)

Together(rows) ==
  \A t, u \in DOMAIN rows :
    Unit(t) = Unit(u) /\ rows[t].path.stem = rows[u].path.stem
      => rows[t].path.slot = rows[u].path.slot

\* A wanted file keeps the slot of its row.
LEMMA RowAtItsName ==
  ASSUME NEW i, IsInput(i), RowsAreApart(i.store.rows), Together(i.store.rows),
         NEW u \in Desired(i), NEW t \in RowTracks(i), Unit(t) = Unit(u),
         RowPath(i, t).stem = i.lib.stem[u]
  PROVE  DesiredSlot(i, u) = RowPath(i, t).slot
<1> DEFINE stem == i.lib.stem[u]
           at == RowSlots(i, stem)
           owning == Owning(i, u)
<1>1. t \in Track /\ u \in Track /\ RowTracks(i) \subseteq Track
  BY InputParts
<1>2. /\ t \in DOMAIN at /\ at[t] = RowPath(i, t).slot
      /\ DOMAIN at \in SUBSET Track /\ DOMAIN at \in SUBSET Nat
      /\ \A v \in DOMAIN at : /\ v \in RowTracks(i) /\ RowPath(i, v).stem = stem
                              /\ at[v] = RowPath(i, v).slot
  <2>1. t \in DOMAIN at
    BY DEF RowSlots
  <2>2. /\ DOMAIN at \in SUBSET Track
        /\ \A v \in DOMAIN at : /\ v \in RowTracks(i) /\ RowPath(i, v).stem = stem
                                /\ at[v] = RowPath(i, v).slot
    BY RowSlotsClaim
  <2>3. Track \in SUBSET Nat
    BY TracksAreOrdered
  <2> HIDE DEF at
  <2> QED
    BY <2>1, <2>2, <2>3
<1>3. PICK o \in Owners(at) : at[o] = at[t]
  <2> HIDE DEF at
  <2> QED
    BY <1>2, OwnersFacts
<1>4. o \in DOMAIN at
  BY <1>3 DEF Owners
<1>5. Unit(o) = Unit(t)
  BY <1>2, <1>3, <1>4 DEF RowsAreApart, RowTracks, RowPath
<1>6. o \in owning
  <2>1. o \in Unit(o)
    BY <1>1, <1>2, <1>4, UnitFacts
  <2> QED
    BY <1>3, <1>5, <2>1 DEF Owning
<1>7. owning \in SUBSET Nat
  BY <1>2 DEF Owning, Owners
<1>8. DesiredSlot(i, u) = at[Least(owning)]
  BY <1>6 DEF DesiredSlot
<1> DEFINE first == Least(owning)
<1>9. first \in owning
  <2> HIDE DEF owning
  <2> QED
    BY <1>6, <1>7, LeastMember
<1>10. first \in DOMAIN at /\ first \in Unit(u)
  BY <1>9 DEF Owning, Owners
<1> HIDE DEF first
<1>11. Unit(first) = Unit(t)
  BY <1>1, <1>10, UnitFacts
<1>12. at[first] = at[t]
  BY <1>2, <1>10, <1>11 DEF Together, RowTracks, RowPath
<1> QED
  BY <1>2, <1>8, <1>12 DEF first

LEMMA TogetherStay ==
  ASSUME NEW i, NEW p, NEW rows, NEW listRows, Basis(i, p, rows, listRows),
         Together(i.store.rows)
  PROVE  Together(rows)
<1> SUFFICES ASSUME NEW t \in DOMAIN rows, NEW u \in DOMAIN rows, Unit(t) = Unit(u),
                    rows[t].path.stem = rows[u].path.stem
             PROVE  rows[t].path.slot = rows[u].path.slot
  BY DEF Together
<1> DEFINE Stayed(v) == v \in RowTracks(i) /\ rows[v].path = RowPath(i, v)
           Recorded_(v) == v \in Desired(i) /\ rows[v].path = DesiredPath(i, v)
<1>1. IsInput(i) /\ RowsAreApart(i.store.rows)
  BY DEF Basis
<1>2. /\ Stayed(t) \/ Recorded_(t)
      /\ Stayed(u) \/ Recorded_(u)
  BY DEF Basis
<1>3. CASE Stayed(t) /\ Stayed(u)
  BY <1>3 DEF Together, RowTracks, RowPath
<1>4. CASE Recorded_(t) /\ Recorded_(u)
  <2>1. t \in Track /\ u \in Track
    BY <1>1, <1>4, InputParts
  <2>2. u \in Unit(t) \cap Desired(i)
    BY <1>4, <2>1, UnitFacts
  <2>3. DesiredPath(i, u) = DesiredPath(i, t)
    BY <1>1, <1>4, <2>2, SiblingsShareAPath
  <2> QED
    BY <1>4, <2>3
<1>5. CASE Stayed(t) /\ Recorded_(u)
  <2>1. RowPath(i, t).stem = i.lib.stem[u] /\ rows[u].path.slot = DesiredSlot(i, u)
    BY <1>1, <1>5, DesiredPathNamed
  <2> QED
    BY <1>1, <1>5, <2>1, RowAtItsName
<1>6. CASE Recorded_(t) /\ Stayed(u)
  <2>1. RowPath(i, u).stem = i.lib.stem[t] /\ rows[t].path.slot = DesiredSlot(i, t)
    BY <1>1, <1>6, DesiredPathNamed
  <2> QED
    BY <1>1, <1>6, <2>1, RowAtItsName
<1> QED
  BY <1>2, <1>3, <1>4, <1>5, <1>6

-----------------------------------------------------------------------------
(* The paths of the store keep their kinds, whatever an effect makes of it. *)

LEMMA KindOfRows ==
  ASSUME NEW i, NEW rows, NEW listRows, Basis(i, plan, rows, listRows), Kinds(i.store)
  PROVE  /\ \A t \in DOMAIN rows : rows[t].path.kind = "audio"
         /\ \A r \in DOMAIN listRows : listRows[r].kind = "list"
<1>1. IsInput(i)
  BY DEF Basis
<1> QED
  BY <1>1, PlannedKinds DEF Basis, Kinds, RowTracks, RowPath

\* The audio, playlists and sidecars there are after an effect.
FilesKnown(s) ==
  /\ \A path \in DOMAIN s.audio :
       \/ path \in DOMAIN store.audio
       \/ Awaiting("copy") /\ path = plan.transfers[Index].path
  /\ \A path \in DOMAIN s.lists :
       \/ path \in DOMAIN store.lists
       \/ Awaiting("writeList") /\ path = plan.lists[Index].path
  /\ \A path \in s.sidecars :
       \/ path \in store.sidecars
       \/ Awaiting("writeAnalysis") /\ path = plan.analysis[Index].path

LEMMA DroppedKnown ==
  ASSUME IsRecord(store), NEW path
  PROVE  FilesKnown(DropFile(path))
BY DropFileParts DEF IsWithout, IsDrop, FilesKnown

LEMMA PerformedKnown ==
  ASSUME IsRecord(store), NEW sidecarToo \in BOOLEAN
  PROVE  FilesKnown(Performed(sidecarToo))
<1> DEFINE after == Performed(sidecarToo)
<1>1. Effect(after, sidecarToo)
  BY PerformedEffect
<1> SUFFICES FilesKnown(after)
  OBVIOUS
<1> HIDE DEF after
<1>2. CASE Awaiting("copy")
  BY <1>1, <1>2 DEF Effect, FilesKnown, IsPut, ButAudio
<1>3. CASE Awaiting("recordFile") \/ Awaiting("recordShared")
  BY <1>1, <1>3 DEF Effect, FilesKnown, ButRows
<1>4. CASE Awaiting("writeAnalysis")
  BY <1>1, <1>4 DEF Effect, FilesKnown, ButSidecars
<1>5. CASE Awaiting("writeList")
  BY <1>1, <1>5 DEF Effect, FilesKnown, IsPut, ButLists
<1>6. CASE Awaiting("recordList") \/ Awaiting("forgetList")
  BY <1>1, <1>6 DEF Effect, FilesKnown, ButListRows
<1>7. CASE Awaiting("forgetFile")
  BY <1>1, <1>7 DEF Effect, FilesKnown, ButRows
<1>8. CASE Awaiting("removeList") \/ run.at.stage \in {"removeTrack", "removeReplaced"}
  <2>1. IsWithout(after, DoomedPath)
    BY <1>1, <1>8 DEF Effect
  <2> QED
    BY <2>1 DEF IsWithout, IsDrop, FilesKnown
<1>9. CASE run.at.stage \notin {"copy", "recordFile", "recordShared", "writeAnalysis",
                                "writeList", "recordList", "removeList", "forgetList",
                                "removeTrack", "removeReplaced", "forgetFile"}
  BY <1>1, <1>9 DEF Effect, FilesKnown
<1> QED
  BY <1>2, <1>3, <1>4, <1>5, <1>6, <1>7, <1>8, <1>9 DEF Awaiting

LEMMA CutShortKnown ==
  ASSUME IsRecord(store), NEW after \in CutShort
  PROVE  FilesKnown(after)
<1>1. CASE \E sidecarToo \in BOOLEAN : after = Performed(sidecarToo)
  BY <1>1, PerformedKnown
<1>2. CASE after = store
  BY <1>2 DEF FilesKnown
<1>3. CASE \E path : after = DropFile(path)
  BY <1>3, DroppedKnown
<1>4. CASE Awaiting("copy") /\ after = PutAudio(FALSE)
  <2> DEFINE transfer == plan.transfers[Index]
             audio == Put(store.audio, transfer.path, ContentOf(transfer.track, FALSE))
  <2>1. after = [store EXCEPT !.audio = audio]
    BY <1>4 DEF PutAudio
  <2>2. IsPut(audio, store.audio, transfer.path, ContentOf(transfer.track, FALSE))
    BY PutParts
  <2> HIDE DEF audio
  <2>3. ButAudio(store, after) /\ after.audio = audio
    BY <2>1, PartChanged
  <2> QED
    BY <1>4, <2>2, <2>3 DEF ButAudio, FilesKnown, IsPut
<1> QED
  BY <1>1, <1>2, <1>3, <1>4 DEF CutShort, Unperformed, HalfDone

LEMMA KindsStay ==
  ASSUME RunInv, NEW i, Basis(i, plan, store.rows, store.listRows), Kinds(i.store),
         Kinds(store), NEW after, Basis(i, plan, after.rows, after.listRows),
         FilesKnown(after)
  PROVE  Kinds(after)
<1>1. IsInput(i) /\ plan.transfers = Transfers(i) /\ plan.lists = ListWrites(i)
      /\ plan.analysis = AnalysisWrites(i)
  BY PlanFields
<1>2. Awaiting("copy") => plan.transfers[Index].path.kind = "audio"
  <2> SUFFICES ASSUME Awaiting("copy") PROVE plan.transfers[Index].path.kind = "audio"
    OBVIOUS
  <2>1. Index \in DOMAIN plan.transfers
    BY EntryInPlan DEF Awaiting, TransferStages
  <2> QED
    BY <1>1, <2>1, TransferFacts, PlannedKinds
<1>3. Awaiting("writeList") => plan.lists[Index].path.kind = "list"
  <2> SUFFICES ASSUME Awaiting("writeList") PROVE plan.lists[Index].path.kind = "list"
    OBVIOUS
  <2>1. Index \in DOMAIN plan.lists
    BY EntryInPlan DEF Awaiting, ListStages
  <2> QED
    BY <1>1, <2>1, ListWriteFacts, PlannedKinds
<1>4. Awaiting("writeAnalysis") => plan.analysis[Index].path.kind = "analysis"
  <2> SUFFICES ASSUME Awaiting("writeAnalysis")
               PROVE  plan.analysis[Index].path.kind = "analysis"
    OBVIOUS
  <2>1. PICK t \in Desired(i) : plan.analysis[Index].path = SidecarOf(DesiredPath(i, t))
    BY <1>1, EntryInPlan, AnalysisListed
  <2>2. DesiredPath(i, t) \in Path
    BY <1>1, DesiredPathNamed
  <2> QED
    BY <2>1, <2>2, SidecarParts DEF AnalysisPath
<1> QED
  BY <1>2, <1>3, <1>4, KindOfRows DEF FilesKnown, Kinds

-----------------------------------------------------------------------------
(* An untroubled run has done what is behind it and has the rest ahead.    *)

\* The run is on course: inventory and device are as wanted, but for what the plan
\* still has ahead; the sidecars too if none was lost.
OnCourse(i, whole, m, s) ==
  /\ RowsAt(i, RecordedTo(m), SharedTo(m), ForgottenTo(m), s.rows)
  /\ WantedThere(i, ArrivedTo(m), s.audio)
  /\ RestLeaves(i, RecordedTo(m), SharedTo(m), RemovedTo(m), ReplacedTo(m), m.deferred,
                s.audio)
  /\ ListRowsAt(i, BookedTo(m), UnbookedTo(m), s.listRows)
  /\ ListsAt(i, WrittenTo(m), ClearedTo(m), RemovedTo(m), s.lists)
  /\ whole => SidecarsAt(i, RemovedTo(m), s.audio, s.sidecars)

\* So it is with the run under way.
Sails(i, whole) ==
  /\ i.lib = lib /\ Basis(i, plan, store.rows, store.listRows)
  /\ Kinds(i.store) /\ Untroubled(run) /\ OnCourse(i, whole, run, store)

\* How far each list is, also between the two halves of a unit.
Position(n, arrived, recorded, shared, written, booked, cleared, unbooked, removed,
         forgotten, replaced) ==
  /\ ArrivedTo(n) = arrived /\ RecordedTo(n) = recorded /\ SharedTo(n) = shared
  /\ WrittenTo(n) = written /\ BookedTo(n) = booked
  /\ ClearedTo(n) = cleared /\ UnbookedTo(n) = unbooked
  /\ RemovedTo(n) = removed /\ ForgottenTo(n) = forgotten /\ ReplacedTo(n) = replaced

LEMMA StandsPosition ==
  ASSUME NEW n, NEW a, NEW b, NEW c, NEW d, NEW e, NEW f, Stands(n, a, b, c, d, e, f)
  PROVE  Position(n, a, a, b, c, c, d, d, e, e, f)
BY DEF Stands, Position

LEMMA HalfwayPosition ==
  ASSUME NEW n, n.at.stage = "forgetFile" => plan.removals[n.at.index].kind # "unshared"
  PROVE  /\ n.at.stage \in Opened => Position(n, 0, 0, 0, 0, 0, 0, 0, 0, 0, 0)
         /\ n.at.stage = "recordFile" =>
              Position(n, n.at.index, n.at.index - 1, 0, 0, 0, 0, 0, 0, 0, 0)
         /\ n.at.stage = "recordList" =>
              Position(n, Len(plan.transfers), Len(plan.transfers), Len(plan.shared),
                       n.at.index, n.at.index - 1, 0, 0, 0, 0, 0)
         /\ n.at.stage = "forgetList" =>
              Position(n, Len(plan.transfers), Len(plan.transfers), Len(plan.shared),
                       Len(plan.lists), Len(plan.lists), n.at.index, n.at.index - 1, 0, 0, 0)
         /\ n.at.stage = "forgetFile" =>
              Position(n, Len(plan.transfers), Len(plan.transfers), Len(plan.shared),
                       Len(plan.lists), Len(plan.lists), Len(plan.listRemovals),
                       Len(plan.listRemovals), n.at.index, n.at.index - 1, 0)
<1> USE DEF Position, ArrivedTo, RecordedTo, SharedTo, WrittenTo, BookedTo, ClearedTo,
     UnbookedTo, RemovedTo, ForgottenTo, ReplacedTo, EarlyStages, FileStages, Opened,
     TransferStages, SidecarStages, ListStages
<1>1. CASE n.at.stage = "recordFile"
  BY <1>1
<1>2. CASE n.at.stage = "recordList"
  BY <1>2
<1>3. CASE n.at.stage = "forgetList"
  BY <1>3
<1>4. CASE n.at.stage = "forgetFile"
  BY <1>4
<1>5. CASE n.at.stage \in Opened
  BY <1>5
<1> QED
  BY <1>1, <1>2, <1>3, <1>4, <1>5

\* Where a run is that has nothing half done.
LEMMA WholePosition ==
  ASSUME plan \in MirrorPlan, NEW n
  PROVE  /\ n.at.stage \in {"transcode", "copy"} =>
              Position(n, n.at.index - 1, n.at.index - 1, 0, 0, 0, 0, 0, 0, 0, 0)
         /\ n.at.stage = "recordShared" =>
              Position(n, Len(plan.transfers), Len(plan.transfers), n.at.index - 1,
                       0, 0, 0, 0, 0, 0, 0)
         /\ n.at.stage \in SidecarStages =>
              Position(n, Len(plan.transfers), Len(plan.transfers), Len(plan.shared),
                       0, 0, 0, 0, 0, 0, 0)
         /\ n.at.stage = "writeList" =>
              Position(n, Len(plan.transfers), Len(plan.transfers), Len(plan.shared),
                       n.at.index - 1, n.at.index - 1, 0, 0, 0, 0, 0)
         /\ n.at.stage = "removeList" =>
              Position(n, Len(plan.transfers), Len(plan.transfers), Len(plan.shared),
                       Len(plan.lists), Len(plan.lists), n.at.index - 1, n.at.index - 1,
                       0, 0, 0)
         /\ \/ n.at.stage = "removeTrack"
            \/ /\ n.at.stage = "forgetFile"
               /\ plan.removals[n.at.index].kind = "unshared"
            => Position(n, Len(plan.transfers), Len(plan.transfers), Len(plan.shared),
                        Len(plan.lists), Len(plan.lists), Len(plan.listRemovals),
                        Len(plan.listRemovals), n.at.index - 1, n.at.index - 1, 0)
         /\ n.at.stage = "removeReplaced" =>
              Position(n, Len(plan.transfers), Len(plan.transfers), Len(plan.shared),
                       Len(plan.lists), Len(plan.lists), Len(plan.listRemovals),
                       Len(plan.listRemovals), Len(plan.removals), Len(plan.removals),
                       n.at.index - 1)
BY StandsEarly, StandsLate, StandsPosition

LEMMA GoesPosition ==
  ASSUME NEW m, NEW n, NEW a, NEW b, NEW c, NEW d, NEW e, NEW f, Goes(m, n, a, b, c, d, e, f)
  PROVE  Position(n, a, a, b, c, c, d, d, e, e, f) /\ n.deferred = m.deferred
BY StandsPosition DEF Goes

\* Nothing is done that counts.
LEMMA SamePosition ==
  ASSUME NEW i, NEW whole, NEW n, OnCourse(i, whole, run, store),
         n.deferred = run.deferred,
         NEW a, NEW b, NEW c, NEW d, NEW e, NEW f, NEW g, NEW h, NEW j, NEW k,
         Position(run, a, b, c, d, e, f, g, h, j, k),
         Position(n, a, b, c, d, e, f, g, h, j, k)
  PROVE  OnCourse(i, whole, n, store)
BY DEF OnCourse, Position

LEMMA CourseParts ==
  ASSUME RunInv, NEW i, NEW whole, Sails(i, whole)
  PROVE  /\ plan \in MirrorPlan /\ run \in Machine /\ Untroubled(run)
         /\ OnCourse(i, whole, run, store)
         /\ IsInput(i) /\ i.lib = lib /\ Kinds(i.store)
         /\ RowsAreApart(i.store.rows) /\ ListRowsAreApart(i.store.listRows)
         /\ plan.transfers = Transfers(i) /\ plan.shared = SharedRecords(i)
         /\ plan.analysis = AnalysisWrites(i) /\ plan.lists = ListWrites(i)
         /\ plan.listRemovals = ListRemovals(i) /\ plan.removals = Removals(i)
         /\ plan.desired = DesiredPaths(i) /\ run.at.index = Index /\ Index \in Nat
<1>1. Basis(i, plan, store.rows, store.listRows)
  BY DEF Sails
<1> QED
  BY <1>1, PlanFields, RunIndex DEF Sails, Basis, Index

-----------------------------------------------------------------------------
(* Each success keeps the course: the files arrive and are recorded.       *)

LEMMA TranscodedCourse ==
  ASSUME RunInv, NEW i, NEW whole, Sails(i, whole),
         PartialsCleaned(TRUE) \/ Transcoded(TRUE, 0)
  PROVE  OnCourse(i, whole, run', store)
<1>0. 0 \in Bytes /\ Basis(i, plan, store.rows, store.listRows)
  BY NoBytesAreReported DEF Sails
<1>1. CASE PartialsCleaned(TRUE)
  <2>1. Position(run', 0, 0, 0, 0, 0, 0, 0, 0, 0, 0) /\ run'.deferred = run.deferred
    BY <1>0, <1>1, CourseParts, PartialsGo, GoesPosition
  <2>2. run.at.stage = "partials"
    BY <1>1 DEF PartialsCleaned, Awaiting
  <2>3. Position(run, 0, 0, 0, 0, 0, 0, 0, 0, 0, 0)
    BY <2>2, HalfwayPosition DEF Opened
  <2> QED
    BY <2>1, <2>3, CourseParts, SamePosition
<1>2. CASE Transcoded(TRUE, 0)
  <2>1. /\ Position(run', Index - 1, Index - 1, 0, 0, 0, 0, 0, 0, 0, 0)
        /\ run'.deferred = run.deferred
    BY <1>0, <1>2, CourseParts, TranscodedGoes, GoesPosition
  <2>2. run.at.stage = "transcode"
    BY <1>2 DEF Transcoded, Awaiting
  <2>3. Position(run, Index - 1, Index - 1, 0, 0, 0, 0, 0, 0, 0, 0)
    BY <2>2, CourseParts, WholePosition
  <2> QED
    BY <2>1, <2>3, CourseParts, SamePosition
<1> QED
  BY <1>1, <1>2

LEMMA CopiedCourse ==
  ASSUME RunInv, NEW i, NEW whole, Sails(i, whole), NEW after, NEW sidecarToo,
         Effect(after, sidecarToo), Awaiting("copy"),
         TrackCopied(TRUE, 0, plan.transfers[Index].path)
  PROVE  OnCourse(i, whole, run', after)
<1> DEFINE transfer == plan.transfers[Index]
<1>1. Index \in DOMAIN plan.transfers /\ transfer.path \in Path
  BY EntryInPlan DEF Awaiting, TransferStages, Transfer
<1>2. Halfway(run', "recordFile")
  BY <1>1, CourseParts, NoBytesAreReported, TrackCopiedGoes
<1>3. /\ run'.at.stage = "recordFile" /\ run'.at.index = Index
      /\ run'.deferred = run.deferred
  BY <1>2 DEF Halfway
<1>4. Position(run', Index, Index - 1, 0, 0, 0, 0, 0, 0, 0, 0)
  BY <1>3, HalfwayPosition
<1>5. Position(run, Index - 1, Index - 1, 0, 0, 0, 0, 0, 0, 0, 0)
  BY CourseParts, WholePosition DEF Awaiting
<1>6. /\ ButAudio(store, after)
      /\ IsPut(after.audio, store.audio, transfer.path, ContentOf(transfer.track, TRUE))
  BY DEF Effect
<1>7. /\ WantedThere(i, Index, after.audio)
      /\ RestLeaves(i, Index - 1, 0, 0, 0, run.deferred, after.audio)
  <2>1. /\ WantedThere(i, Index - 1, store.audio)
        /\ RestLeaves(i, Index - 1, 0, 0, 0, run.deferred, store.audio)
    BY <1>5, CourseParts DEF OnCourse, Position
  <2>2. /\ IsInput(i) /\ Index \in DOMAIN Transfers(i)
        /\ IsPut(after.audio, store.audio, Transfers(i)[Index].path,
                 ContentOf(transfer.track, TRUE))
    BY <1>1, <1>6, CourseParts
  <2>3. WantedThere(i, Index, after.audio)
    BY <2>1, <2>2, AudioArrived
  <2>4. RestLeaves(i, Index - 1, 0, 0, 0, run.deferred, after.audio)
    <3>1. \A recorded, gone, removed, replaced, deferred :
            RestLeaves(i, recorded, gone, removed, replaced, deferred, store.audio)
              => RestLeaves(i, recorded, gone, removed, replaced, deferred, after.audio)
      BY <2>2, AudioArrived
    <3> QED
      BY <2>1, <3>1
  <2> QED
    BY <2>3, <2>4
<1>8. whole => SidecarsAt(i, 0, after.audio, after.sidecars)
  <2>1. DOMAIN store.audio \subseteq DOMAIN after.audio
    BY <1>6 DEF IsPut
  <2> QED
    BY <1>5, <1>6, <2>1, CourseParts, SidecarsArrive DEF OnCourse, Position, ButAudio
<1> QED
  BY <1>3, <1>4, <1>5, <1>6, <1>7, <1>8, CourseParts DEF OnCourse, Position, ButAudio

\* What is set aside stays so.
LEMMA AsideExtends ==
  ASSUME NEW m \in Machine, NEW previous \in Path, NEW track \in Track
  PROVE  /\ Extends(SetAside(m, previous, track), m.deferred)
         /\ \E d \in DOMAIN SetAside(m, previous, track) :
              d > 0 /\ SetAside(m, previous, track)[d].path = previous
<1> DEFINE entry == [path |-> previous, track |-> track]
           longer == Append(m.deferred, entry)
<1>1. m.deferred \in Seq([path : Path, track : Track]) /\ entry \in [path : Path, track : Track]
  BY MachineParts
<1>2. entry.path = previous
  OBVIOUS
<1> HIDE DEF entry
<1>3. /\ Len(m.deferred) \in Nat /\ DOMAIN m.deferred = 1..Len(m.deferred)
      /\ DOMAIN longer = 1..(Len(m.deferred) + 1)
      /\ \A d \in DOMAIN m.deferred : longer[d] = m.deferred[d]
      /\ longer[Len(m.deferred) + 1] = entry
  BY <1>1, AppendProperties, LenProperties
<1>4. SetAside(m, previous, track) = longer
  BY DEF SetAside, entry
<1> HIDE DEF longer
<1>5. Len(m.deferred) + 1 \in DOMAIN longer /\ Len(m.deferred) + 1 > 0
  BY <1>3
<1> QED
  BY <1>2, <1>3, <1>4, <1>5 DEF Extends

LEMMA FileRecordedCourse ==
  ASSUME RunInv, Placed(run), DOMAIN store.audio \subseteq Path, NEW i, NEW whole,
         Sails(i, whole), NEW after, NEW sidecarToo, Effect(after, sidecarToo),
         FileRecorded(TRUE)
  PROVE  OnCourse(i, whole, run', after)
<1> DEFINE transfer == plan.transfers[Index]
           deferred == run'.deferred
<1>0. Awaiting("recordFile") /\ Basis(i, plan, store.rows, store.listRows)
  BY DEF FileRecorded, Sails
<1>1. Index \in 1..Len(plan.transfers) /\ Index \in DOMAIN plan.transfers
  BY <1>0, CourseParts, FileRecordedGoes, EntryInPlan DEF Awaiting, TransferStages
<1>2. /\ Position(run', Index, Index, 0, 0, 0, 0, 0, 0, 0, 0)
      /\ run'.deferred = Recorded(run, Index).deferred
  BY <1>0, CourseParts, FileRecordedGoes, GoesPosition
<1>3. Position(run, Index, Index - 1, 0, 0, 0, 0, 0, 0, 0, 0)
  BY <1>0, CourseParts, HalfwayPosition DEF Awaiting
<1>4. /\ transfer.track \in Desired(i)
      /\ run.copiedPath = DesiredPath(i, transfer.track)
      /\ run.copiedPath \in DesiredPaths(i)
  BY <1>0, RecordedWhereWanted DEF DesiredPaths
<1>5. /\ ButRows(store, after)
      /\ IsPut(after.rows, store.rows, transfer.track, RowOf(transfer.track, run.copiedPath))
  BY <1>0 DEF Effect
<1>6. RowOf(transfer.track, run.copiedPath) = RowFor(i, transfer.track)
  BY <1>4, CourseParts DEF RowOf, RowFor
<1>7. RowsAt(i, Index, 0, 0, after.rows)
  BY <1>1, <1>3, <1>5, <1>6, CourseParts, RowsRecorded DEF OnCourse, Position
<1>8. Extends(deferred, run.deferred) /\ SeenTo(i, deferred, transfer.previous)
  <2>1. /\ deferred = IF Moved(run, Index)
                      THEN SetAside(run, transfer.previous, transfer.track)
                      ELSE run.deferred
    BY <1>1, <1>2, CourseParts, RecordedUntroubled
  <2> HIDE DEF deferred
  <2>2. CASE Moved(run, Index)
    <3>1. transfer.track \in Track /\ transfer.previous \in PathOrNone
      BY <1>0, EntryInPlan DEF Transfer, Awaiting, TransferStages
    <3>2. transfer.previous \in Path
      BY <2>2, <3>1 DEF Moved, PathOrNone
    <3> HIDE DEF transfer
    <3> QED
      BY <2>1, <2>2, <3>1, <3>2, CourseParts, AsideExtends DEF SeenTo
  <2>3. CASE ~Moved(run, Index)
    <3>1. transfer.previous \in {NoPath, run.copiedPath}
      BY <2>3 DEF Moved
    <3> QED
      BY <1>4, <2>1, <2>3, <3>1 DEF Extends, SeenTo
  <2> QED
    BY <2>2, <2>3
<1>9. RestLeaves(i, Index, 0, 0, 0, deferred, after.audio)
  <2>1. RestLeaves(i, Index - 1, 0, 0, 0, run.deferred, store.audio)
    BY <1>3, CourseParts DEF OnCourse, Position
  <2> HIDE DEF deferred
  <2>2. RestLeaves(i, Index, 0, 0, 0, deferred, store.audio)
    BY <1>1, <1>8, <2>1, CourseParts, RestRecorded
  <2> QED
    BY <1>5, <2>2 DEF ButRows
<1> QED
  BY <1>2, <1>3, <1>5, <1>7, <1>9, CourseParts DEF OnCourse, Position, ButRows

LEMMA SharedRecordedCourse ==
  ASSUME RunInv, Placed(run), DOMAIN store.audio \subseteq Path, NEW i, NEW whole,
         Sails(i, whole), NEW after, NEW sidecarToo, Effect(after, sidecarToo),
         SharedFileRecorded(TRUE)
  PROVE  OnCourse(i, whole, run', after)
<1> DEFINE shared == plan.shared[Index]
           deferred == run'.deferred
           transfers == Len(plan.transfers)
<1>0. Awaiting("recordShared") /\ Basis(i, plan, store.rows, store.listRows)
  BY DEF SharedFileRecorded, Sails
<1>1. Index \in 1..Len(plan.shared) /\ Index \in DOMAIN plan.shared
  BY <1>0, CourseParts, SharedRecordedGoes, EntryInPlan
<1>2. /\ Position(run', transfers, transfers, Index, 0, 0, 0, 0, 0, 0, 0)
      /\ run'.deferred = DeferSharedPrevious(run, Index).deferred
  BY <1>0, CourseParts, SharedRecordedGoes, GoesPosition
<1>3. Position(run, transfers, transfers, Index - 1, 0, 0, 0, 0, 0, 0, 0)
  BY <1>0, CourseParts, WholePosition DEF Awaiting
<1>4. /\ shared.track \in Desired(i)
      /\ run.sharedPath = DesiredPath(i, shared.track)
      /\ run.sharedPath \in DesiredPaths(i)
  BY <1>0, RecordedWhereWanted DEF DesiredPaths
<1>5. /\ ButRows(store, after)
      /\ IsPut(after.rows, store.rows, shared.track, RowOf(shared.track, run.sharedPath))
  BY <1>0 DEF Effect
<1>6. RowOf(shared.track, run.sharedPath) = RowFor(i, shared.track)
  BY <1>4, CourseParts DEF RowOf, RowFor
<1>7. RowsAt(i, transfers, Index, 0, after.rows)
  BY <1>1, <1>3, <1>5, <1>6, CourseParts, RowsShared DEF OnCourse, Position
<1>8. Extends(deferred, run.deferred) /\ SeenTo(i, deferred, shared.previous)
  <2>1. /\ deferred \in {run.deferred, SetAside(run, shared.previous, shared.track)}
        /\ deferred = run.deferred =>
             \/ shared.previous \in {NoPath, run.sharedPath} \cup plan.desired
             \/ \E d \in DOMAIN run.deferred : run.deferred[d].path = shared.previous
    BY <1>1, <1>2, CourseParts, SharedUntroubled
  <2>2. /\ shared.previous = NoPath => deferred = run.deferred
    BY <1>2 DEF DeferSharedPrevious
  <2>3. shared.track \in Track /\ shared.previous \in PathOrNone
    BY <1>0, EntryInPlan DEF SharedRecord
  <2>4. \A d \in DOMAIN run.deferred : d > 0
    <3>1. run.deferred \in Seq([path : Path, track : Track])
      BY CourseParts, MachineParts
    <3>2. DOMAIN run.deferred = 1..Len(run.deferred) /\ Len(run.deferred) \in Nat
      BY <3>1, LenProperties
    <3> QED
      BY <3>2
  <2> HIDE DEF deferred, shared
  <2>5. CASE deferred = run.deferred
    BY <1>4, <2>1, <2>4, <2>5, CourseParts DEF Extends, SeenTo, shared
  <2>6. CASE deferred # run.deferred
    <3>1. shared.previous \in Path /\ deferred = SetAside(run, shared.previous, shared.track)
      BY <2>1, <2>2, <2>3, <2>6 DEF PathOrNone
    <3> QED
      BY <2>3, <3>1, CourseParts, AsideExtends DEF SeenTo
  <2> QED
    BY <2>5, <2>6
<1>9. RestLeaves(i, transfers, Index, 0, 0, deferred, after.audio)
  <2>1. RestLeaves(i, transfers, Index - 1, 0, 0, run.deferred, store.audio)
    BY <1>3, CourseParts DEF OnCourse, Position
  <2> HIDE DEF deferred
  <2>2. RestLeaves(i, transfers, Index, 0, 0, deferred, store.audio)
    BY <1>1, <1>8, <2>1, CourseParts, RestShared
  <2> QED
    BY <1>5, <2>2 DEF ButRows
<1> QED
  BY <1>2, <1>3, <1>5, <1>7, <1>9, CourseParts DEF OnCourse, Position, ButRows

-----------------------------------------------------------------------------
(* ... the sidecars and playlists are written, the obsolete playlists go.  *)

\* The prefix of the plan that every stage after the shared records is past.
FilesPosition(n, written, booked, cleared, unbooked, removed, forgotten, replaced) ==
  Position(n, Len(plan.transfers), Len(plan.transfers), Len(plan.shared), written, booked,
           cleared, unbooked, removed, forgotten, replaced)

LEMMA AnalysisCourse ==
  ASSUME RunInv, NEW i, NEW whole, Sails(i, whole), NEW after, NEW sidecarToo,
         Effect(after, sidecarToo), AnalysisWritten(TRUE, 0)
  PROVE  OnCourse(i, whole, run', after)
<1>1. Awaiting("writeAnalysis") /\ run.at.stage \in SidecarStages
  BY DEF AnalysisWritten, Awaiting, SidecarStages
<1>2. FilesPosition(run', 0, 0, 0, 0, 0, 0, 0) /\ run'.deferred = run.deferred
  BY CourseParts, NoBytesAreReported, AnalysisWrittenGoes, GoesPosition DEF FilesPosition
<1>3. FilesPosition(run, 0, 0, 0, 0, 0, 0, 0)
  BY <1>1, CourseParts, WholePosition DEF FilesPosition
<1>4. OnCourse(i, whole, run', store)
  BY <1>2, <1>3, CourseParts, SamePosition DEF FilesPosition
<1>5. /\ ButSidecars(store, after)
      /\ after.sidecars = store.sidecars \cup {plan.analysis[Index].path}
  BY <1>1 DEF Effect
<1>6. Index \in DOMAIN AnalysisWrites(i) /\ plan.analysis = AnalysisWrites(i) /\ IsInput(i)
  BY <1>1, CourseParts, EntryInPlan
<1>7. whole => SidecarsAt(i, RemovedTo(run'), after.audio, after.sidecars)
  <2>1. SUFFICES ASSUME whole
                 PROVE  SidecarsAt(i, RemovedTo(run'), after.audio, after.sidecars)
    OBVIOUS
  <2>2. SidecarsAt(i, RemovedTo(run'), store.audio, store.sidecars)
    BY <1>4, <2>1 DEF OnCourse
  <2> QED
    BY <1>5, <1>6, <2>2, SidecarsWritten DEF ButSidecars
<1> QED
  BY <1>4, <1>5, <1>7 DEF OnCourse, ButSidecars

LEMMA PlaylistWrittenCourse ==
  ASSUME RunInv, NEW i, NEW whole, Sails(i, whole), NEW after, NEW sidecarToo,
         Effect(after, sidecarToo), PlaylistWritten(TRUE)
  PROVE  OnCourse(i, whole, run', after)
<1> DEFINE list == plan.lists[Index]
<1>1. Awaiting("writeList") /\ run.at.stage \in ListStages
  BY DEF PlaylistWritten, Awaiting, ListStages
<1>2. Halfway(run', "recordList")
  BY CourseParts, PlaylistWrittenGoes
<1>3. /\ run'.at.stage = "recordList" /\ run'.at.index = Index
      /\ run'.deferred = run.deferred
  BY <1>2 DEF Halfway
<1>4. FilesPosition(run', Index, Index - 1, 0, 0, 0, 0, 0)
  BY <1>3, HalfwayPosition DEF FilesPosition
<1>5. FilesPosition(run, Index - 1, Index - 1, 0, 0, 0, 0, 0)
  BY <1>1, CourseParts, WholePosition DEF FilesPosition, Awaiting
<1>6. ButLists(store, after) /\ IsPut(after.lists, store.lists, list.path, list.entries)
  <2>1. run.absent = {}
    BY CourseParts DEF Untroubled
  <2>2. /\ ButLists(store, after)
        /\ IsPut(after.lists, store.lists, list.path, list.entries \ run.absent)
    BY <1>1 DEF Effect
  <2>3. list.entries \ run.absent = list.entries
    BY <2>1
  <2> QED
    BY <2>2, <2>3
<1>7. Index \in DOMAIN ListWrites(i) /\ plan.lists = ListWrites(i) /\ IsInput(i)
  BY <1>1, CourseParts, EntryInPlan
<1>8. ListsAt(i, Index, 0, 0, after.lists)
  <2>1. ListsAt(i, Index - 1, 0, 0, store.lists)
    BY <1>5, CourseParts DEF OnCourse, Position, FilesPosition
  <2> QED
    BY <1>6, <1>7, <2>1, ListsWritten
<1> QED
  BY <1>3, <1>4, <1>5, <1>6, <1>8, CourseParts
     DEF OnCourse, Position, FilesPosition, ButLists

LEMMA PlaylistRecordedCourse ==
  ASSUME RunInv, NEW i, NEW whole, Sails(i, whole), NEW after, NEW sidecarToo,
         Effect(after, sidecarToo), PlaylistRecorded(TRUE)
  PROVE  OnCourse(i, whole, run', after)
<1> DEFINE list == plan.lists[Index]
<1>1. Awaiting("recordList") /\ run.at.stage \in ListStages
  BY DEF PlaylistRecorded, Awaiting, ListStages
<1>2. FilesPosition(run', Index, Index, 0, 0, 0, 0, 0) /\ run'.deferred = run.deferred
  BY CourseParts, PlaylistRecordedGoes, GoesPosition DEF FilesPosition
<1>3. FilesPosition(run, Index, Index - 1, 0, 0, 0, 0, 0)
  BY <1>1, CourseParts, HalfwayPosition DEF FilesPosition, Awaiting
<1>4. /\ ButListRows(store, after)
      /\ IsPut(after.listRows, store.listRows, list.source, list.path)
  BY <1>1 DEF Effect
<1>5. Index \in DOMAIN ListWrites(i) /\ plan.lists = ListWrites(i) /\ IsInput(i)
  BY <1>1, CourseParts, EntryInPlan
<1>6. ListRowsAt(i, Index, 0, after.listRows)
  <2>1. ListRowsAt(i, Index - 1, 0, store.listRows)
    BY <1>3, CourseParts DEF OnCourse, Position, FilesPosition
  <2> QED
    BY <1>4, <1>5, <2>1, ListRowsBooked
<1> QED
  BY <1>2, <1>3, <1>4, <1>6, CourseParts
     DEF OnCourse, Position, FilesPosition, ButListRows

\* What the plan writes.
LEMMA PlannedSelected ==
  ASSUME NEW i, IsInput(i), plan.lists = ListWrites(i)
  PROVE  PlannedSources = Written(i)
<1>1. \A k \in DOMAIN ListWrites(i) : ListWrites(i)[k].source \in Written(i)
  BY ListWriteFacts
<1>2. \A s \in Written(i) : \E k \in DOMAIN ListWrites(i) : ListWrites(i)[k].source = s
  BY SelectedListsWritten
<1> QED
  BY <1>1, <1>2 DEF PlannedSources

\* Where the run is once an obsolete playlist is gone.
LEMMA PlaylistRemovedCourse ==
  ASSUME RunInv, NEW i, NEW whole, Sails(i, whole), NEW after, NEW sidecarToo,
         Effect(after, sidecarToo), PlaylistRemoved(TRUE)
  PROVE  OnCourse(i, whole, run', after)
<1> DEFINE row == plan.listRemovals[Index]
           lists == Len(plan.lists)
           planned == row.source \in PlannedSources
           unbooked == IF planned THEN Index ELSE Index - 1
<1>1. Awaiting("removeList") /\ run.at.stage \in {"removeList", "forgetList"}
  BY DEF PlaylistRemoved, Awaiting
<1>2. /\ FilesPosition(run', lists, lists, Index, unbooked, 0, 0, 0)
      /\ run'.deferred = run.deferred
  <2>1. CASE planned
    <3>1. Goes(run, run', Len(plan.transfers), Len(plan.shared), lists, Index, 0, 0)
      BY <2>1, CourseParts, PlaylistRemovedGoes
    <3> QED
      BY <2>1, <3>1, GoesPosition DEF FilesPosition
  <2>2. CASE ~planned
    <3>1. Halfway(run', "forgetList")
      BY <2>2, CourseParts, PlaylistRemovedGoes
    <3>2. /\ run'.at.stage = "forgetList" /\ run'.at.index = Index
          /\ run'.deferred = run.deferred
      BY <3>1 DEF Halfway
    <3> QED
      BY <2>2, <3>2, HalfwayPosition DEF FilesPosition
  <2> QED
    BY <2>1, <2>2
<1>3. FilesPosition(run, lists, lists, Index - 1, Index - 1, 0, 0, 0)
  BY <1>1, CourseParts, WholePosition DEF FilesPosition, Awaiting
<1>4. IsWithout(after, row.path) /\ after.sidecars = store.sidecars \ {row.path}
  <2>1. DoomedPath = row.path
    BY <1>1 DEF DoomedPath, Awaiting
  <2> QED
    BY <1>1, <2>1 DEF Effect
<1>5. /\ Index \in DOMAIN ListRemovals(i) /\ plan.listRemovals = ListRemovals(i)
      /\ IsInput(i) /\ Kinds(i.store) /\ ListRowsAreApart(i.store.listRows)
  BY <1>1, CourseParts, EntryInPlan
<1>6. row.path.kind = "list" /\ row.path \notin DesiredPaths(i)
  <2>1. row.source \in DOMAIN i.store.listRows /\ row.path = i.store.listRows[row.source]
    BY <1>5, ListRemovalFacts
  <2>2. row.path.kind = "list"
    BY <1>5, <2>1 DEF Kinds
  <2> QED
    BY <1>5, <2>2, PlannedKinds DEF DesiredPaths
<1>7. /\ WantedThere(i, Len(plan.transfers), after.audio)
      /\ RestLeaves(i, Len(plan.transfers), Len(plan.shared), 0, 0, run.deferred,
                    after.audio)
  <2>1. /\ WantedThere(i, Len(plan.transfers), store.audio)
        /\ RestLeaves(i, Len(plan.transfers), Len(plan.shared), 0, 0, run.deferred,
                      store.audio)
    BY <1>3, CourseParts DEF OnCourse, Position, FilesPosition
  <2>2. IsDrop(after.audio, store.audio, row.path)
    BY <1>4 DEF IsWithout
  <2>3. \A arrived : WantedThere(i, arrived, store.audio) => WantedThere(i, arrived, after.audio)
    BY <1>6, <2>2, AudioGone
  <2>4. \A recorded, shared, removed, replaced, deferred :
          RestLeaves(i, recorded, shared, removed, replaced, deferred, store.audio)
            => RestLeaves(i, recorded, shared, removed, replaced, deferred, after.audio)
    BY <1>6, <2>2, AudioGone
  <2> QED
    BY <2>1, <2>3, <2>4
<1>8. ListsAt(i, lists, Index, 0, after.lists)
  <2>1. ListsAt(i, lists, Index - 1, 0, store.lists)
    BY <1>3, CourseParts DEF OnCourse, Position, FilesPosition
  <2>2. IsDrop(after.lists, store.lists, ListRemovals(i)[Index].path)
    BY <1>4, <1>5 DEF IsWithout
  <2> QED
    BY <1>5, <2>1, <2>2, ListsCleared
<1>9. ListRowsAt(i, lists, unbooked, after.listRows)
  <2>1. ListRowsAt(i, lists, Index - 1, store.listRows)
    BY <1>3, CourseParts DEF OnCourse, Position, FilesPosition
  <2>2. after.listRows = store.listRows
    BY <1>4 DEF IsWithout
  <2>3. CASE planned
    <3>1. ListRemovals(i)[Index].source \in Written(i)
      BY <1>5, <2>3, CourseParts, PlannedSelected
    <3>2. ListRowsAt(i, lists, Index, after.listRows)
      BY <1>5, <2>1, <2>2, <3>1, ListRowsUnbooked
    <3> QED
      BY <2>3, <3>2
  <2> QED
    BY <2>1, <2>2, <2>3
<1>10. whole => SidecarsAt(i, 0, after.audio, after.sidecars)
  <2>1. SUFFICES ASSUME whole
                 PROVE  SidecarsAt(i, 0, after.audio, after.sidecars)
    OBVIOUS
  <2>2. SidecarsAt(i, 0, store.audio, store.sidecars)
    BY <1>3, <2>1, CourseParts DEF OnCourse, Position, FilesPosition
  <2>3. IsDrop(after.audio, store.audio, row.path)
    BY <1>4 DEF IsWithout
  <2>4. SidecarsAt(i, 0, after.audio,
                   store.sidecars \ (IF row.path.kind = "audio"
                                     THEN {row.path, SidecarOf(row.path)}
                                     ELSE {row.path}))
    BY <1>5, <2>2, <2>3, SidecarsGone
  <2>5. row.path.kind # "audio"
    BY <1>6
  <2> QED
    BY <1>4, <2>4, <2>5
<1>11. RowsAt(i, Len(plan.transfers), Len(plan.shared), 0, after.rows)
  BY <1>3, <1>4, CourseParts DEF OnCourse, Position, FilesPosition, IsWithout
<1> HIDE DEF unbooked, row, lists, planned
<1> QED
  BY <1>2, <1>7, <1>8, <1>9, <1>10, <1>11 DEF OnCourse, Position, FilesPosition

LEMMA PlaylistForgottenCourse ==
  ASSUME RunInv, Placed(run), NEW i, NEW whole, Sails(i, whole), NEW after, NEW sidecarToo,
         Effect(after, sidecarToo), PlaylistForgotten(TRUE)
  PROVE  OnCourse(i, whole, run', after)
<1> DEFINE row == plan.listRemovals[Index]
           lists == Len(plan.lists)
<1>1. Awaiting("forgetList") /\ run.at.stage \in {"removeList", "forgetList"}
  BY DEF PlaylistForgotten, Awaiting
<1>2. /\ FilesPosition(run', lists, lists, Index, Index, 0, 0, 0)
      /\ run'.deferred = run.deferred
  BY CourseParts, PlaylistForgottenGoes, GoesPosition DEF FilesPosition
<1>3. FilesPosition(run, lists, lists, Index, Index - 1, 0, 0, 0)
  BY <1>1, CourseParts, HalfwayPosition DEF FilesPosition, Awaiting
<1>4. /\ ButListRows(store, after)
      /\ IsDrop(after.listRows, store.listRows, row.source)
  BY <1>1 DEF Effect
<1>5. /\ Index \in DOMAIN ListRemovals(i) /\ plan.listRemovals = ListRemovals(i)
      /\ IsInput(i)
  BY <1>1, CourseParts, EntryInPlan
<1>6. row.source \notin Written(i)
  <2>1. row.source \notin PlannedSources
    BY <1>1 DEF Placed, Awaiting, Index
  <2> QED
    BY <2>1, CourseParts, PlannedSelected
<1>7. ListRowsAt(i, lists, Index, after.listRows)
  <2>1. ListRowsAt(i, lists, Index - 1, store.listRows)
    BY <1>3, CourseParts DEF OnCourse, Position, FilesPosition
  <2> QED
    BY <1>4, <1>5, <1>6, <2>1, ListRowsUnbooked
<1> QED
  BY <1>2, <1>3, <1>4, <1>7, CourseParts
     DEF OnCourse, Position, FilesPosition, ButListRows

-----------------------------------------------------------------------------
(* ... the files go that nothing keeps.                                    *)

\* A file that is not wanted goes, and with it, if that succeeds, its sidecar.
LEMMA FileGoes ==
  ASSUME NEW i, Kinds(i.store), NEW path, NEW after, IsWithout(after, path),
         NEW sidecarToo \in BOOLEAN,
         after.sidecars = store.sidecars \
           (IF sidecarToo /\ path.kind = "audio" THEN {path, SidecarOf(path)} ELSE {path})
  PROVE  /\ path \notin DesiredPaths(i) =>
              \A arrived : WantedThere(i, arrived, store.audio)
                             => WantedThere(i, arrived, after.audio)
         /\ sidecarToo =>
              \A removed : SidecarsAt(i, removed, store.audio, store.sidecars)
                             => SidecarsAt(i, removed, after.audio, after.sidecars)
<1>1. IsDrop(after.audio, store.audio, path)
  BY DEF IsWithout
<1>2. ASSUME path \notin DesiredPaths(i)
      PROVE  \A arrived : WantedThere(i, arrived, store.audio)
                            => WantedThere(i, arrived, after.audio)
  BY <1>1, <1>2, AudioGone
<1>3. ASSUME sidecarToo, NEW removed, SidecarsAt(i, removed, store.audio, store.sidecars)
      PROVE  SidecarsAt(i, removed, after.audio, after.sidecars)
  <2>1. SidecarsAt(i, removed, after.audio,
                   store.sidecars \ (IF path.kind = "audio" THEN {path, SidecarOf(path)}
                                     ELSE {path}))
    BY <1>1, <1>3, SidecarsGone
  <2>2. after.sidecars = store.sidecars \ (IF path.kind = "audio"
                                           THEN {path, SidecarOf(path)} ELSE {path})
    BY <1>3
  <2> QED
    BY <2>1, <2>2
<1> QED
  BY <1>2, <1>3

\* How far the removals are.
RemovalsPosition(n, removed, forgotten, replaced) ==
  FilesPosition(n, Len(plan.lists), Len(plan.lists), Len(plan.listRemovals),
                Len(plan.listRemovals), removed, forgotten, replaced)

\* The parts of the course that the removals change.
LEMMA RemovalsCourse ==
  ASSUME NEW i, NEW whole, NEW removed, NEW forgotten, NEW replaced,
         RemovalsPosition(run, removed, forgotten, replaced)
  PROVE  OnCourse(i, whole, run, store) =>
           /\ RowsAt(i, Len(plan.transfers), Len(plan.shared), forgotten, store.rows)
           /\ WantedThere(i, Len(plan.transfers), store.audio)
           /\ RestLeaves(i, Len(plan.transfers), Len(plan.shared), removed, replaced,
                         run.deferred, store.audio)
           /\ ListRowsAt(i, Len(plan.lists), Len(plan.listRemovals), store.listRows)
           /\ ListsAt(i, Len(plan.lists), Len(plan.listRemovals), removed, store.lists)
           /\ whole => SidecarsAt(i, removed, store.audio, store.sidecars)
BY DEF OnCourse, RemovalsPosition, FilesPosition, Position

LEMMA CourseOfRemovals ==
  ASSUME NEW i, NEW whole, NEW n, NEW s, NEW removed, NEW forgotten, NEW replaced,
         RemovalsPosition(n, removed, forgotten, replaced),
         RowsAt(i, Len(plan.transfers), Len(plan.shared), forgotten, s.rows),
         WantedThere(i, Len(plan.transfers), s.audio),
         RestLeaves(i, Len(plan.transfers), Len(plan.shared), removed, replaced,
                    n.deferred, s.audio),
         ListRowsAt(i, Len(plan.lists), Len(plan.listRemovals), s.listRows),
         ListsAt(i, Len(plan.lists), Len(plan.listRemovals), removed, s.lists),
         whole => SidecarsAt(i, removed, s.audio, s.sidecars)
  PROVE  OnCourse(i, whole, n, s)
BY DEF OnCourse, RemovalsPosition, FilesPosition, Position

LEMMA TrackRemovedCourse ==
  ASSUME RunInv, Placed(run), NEW i, NEW whole, Sails(i, whole), NEW after,
         NEW sidecarToo \in BOOLEAN, whole => sidecarToo,
         Effect(after, sidecarToo), TrackRemoved(TRUE)
  PROVE  OnCourse(i, whole, run', after)
<1> DEFINE removal == plan.removals[Index]
           transfers == Len(plan.transfers)
           shared == Len(plan.shared)
           orphan == removal.kind = "orphan"
           forgotten == IF orphan THEN Index ELSE Index - 1
<1>1. Awaiting("removeTrack")
  BY DEF TrackRemoved
<1>2. removal.kind # "unshared"
  BY <1>1 DEF Placed, Awaiting, Index
<1>3. RemovalsPosition(run', Index, forgotten, 0) /\ run'.deferred = run.deferred
  <2>1. CASE orphan
    <3>1. Goes(run, run', transfers, shared, Len(plan.lists), Len(plan.listRemovals),
               Index, 0)
      BY <2>1, CourseParts, TrackRemovedGoes
    <3> QED
      BY <2>1, <3>1, GoesPosition DEF RemovalsPosition, FilesPosition
  <2>2. CASE ~orphan
    <3>1. Halfway(run', "forgetFile")
      BY <2>2, CourseParts, TrackRemovedGoes
    <3>2. /\ run'.at.stage = "forgetFile" /\ run'.at.index = Index
          /\ run'.deferred = run.deferred
      BY <3>1 DEF Halfway
    <3> QED
      BY <1>2, <2>2, <3>2, HalfwayPosition DEF RemovalsPosition, FilesPosition
  <2> QED
    BY <2>1, <2>2
<1>4. RemovalsPosition(run, Index - 1, Index - 1, 0)
  BY <1>1, CourseParts, WholePosition DEF RemovalsPosition, FilesPosition, Awaiting
<1>5. /\ IsWithout(after, removal.path)
      /\ after.sidecars = store.sidecars \
           (IF sidecarToo /\ removal.path.kind = "audio"
            THEN {removal.path, SidecarOf(removal.path)} ELSE {removal.path})
  <2>1. DoomedPath = removal.path
    BY <1>1 DEF DoomedPath, Awaiting
  <2> QED
    BY <1>1, <2>1 DEF Effect, Awaiting
<1>6. /\ Index \in DOMAIN Removals(i) /\ plan.removals = Removals(i)
      /\ IsInput(i) /\ Kinds(i.store)
  BY <1>1, CourseParts, EntryInPlan DEF Awaiting
<1>7. removal.path \notin DesiredPaths(i)
  BY <1>2, <1>6, RemovalsSpareFiles
<1>8. /\ RowsAt(i, transfers, shared, Index - 1, store.rows)
      /\ WantedThere(i, transfers, store.audio)
      /\ RestLeaves(i, transfers, shared, Index - 1, 0, run.deferred, store.audio)
      /\ ListRowsAt(i, Len(plan.lists), Len(plan.listRemovals), store.listRows)
      /\ ListsAt(i, Len(plan.lists), Len(plan.listRemovals), Index - 1, store.lists)
      /\ whole => SidecarsAt(i, Index - 1, store.audio, store.sidecars)
  BY <1>4, CourseParts, RemovalsCourse
<1>9. WantedThere(i, transfers, after.audio)
  BY <1>5, <1>6, <1>7, <1>8, FileGoes
<1>10. RestLeaves(i, transfers, shared, Index, 0, run.deferred, after.audio)
  <2>1. IsDrop(after.audio, store.audio, Removals(i)[Index].path)
    BY <1>5, <1>6 DEF IsWithout
  <2> QED
    BY <1>2, <1>6, <1>8, <2>1, RestRemoved
<1>11. ListsAt(i, Len(plan.lists), Len(plan.listRemovals), Index, after.lists)
  <2>1. IsDrop(after.lists, store.lists, Removals(i)[Index].path)
    BY <1>5, <1>6 DEF IsWithout
  <2> QED
    BY <1>2, <1>6, <1>8, <2>1, ListsRemoved
<1>12. whole => SidecarsAt(i, Index, after.audio, after.sidecars)
  <2>1. SUFFICES ASSUME whole
                 PROVE  SidecarsAt(i, Index, after.audio, after.sidecars)
    OBVIOUS
  <2>2. SidecarsAt(i, Index - 1, after.audio, after.sidecars)
    BY <1>5, <1>6, <1>8, <2>1, FileGoes
  <2>3. Removals(i)[Index].path \notin after.sidecars
    BY <1>5, <1>6 DEF IsWithout
  <2> QED
    BY <1>6, <2>2, <2>3, SidecarsRemoved
<1>13. RowsAt(i, transfers, shared, forgotten, after.rows)
  <2>1. after.rows = store.rows
    BY <1>5 DEF IsWithout
  <2>2. CASE orphan
    <3>1. RowsAt(i, transfers, shared, Index, after.rows)
      BY <1>6, <1>8, <2>1, <2>2, RowsForgotten
    <3> QED
      BY <2>2, <3>1
  <2> QED
    BY <1>8, <2>1, <2>2
<1>14. after.listRows = store.listRows
  BY <1>5 DEF IsWithout
<1> HIDE DEF forgotten, orphan, removal
<1> QED
  BY <1>3, <1>8, <1>9, <1>10, <1>11, <1>12, <1>13, <1>14, CourseOfRemovals

\* A row is forgotten; an orphan has none.
LEMMA RowsDropped ==
  ASSUME NEW i, IsInput(i), NEW k \in DOMAIN Removals(i), NEW recorded, NEW shared,
         NEW rows, DOMAIN rows \subseteq Track, RowsAt(i, recorded, shared, k - 1, rows),
         NEW after, IsDrop(after, rows, Removals(i)[k].track)
  PROVE  RowsAt(i, recorded, shared, k, after)
<1>1. CASE Removals(i)[k].kind = "orphan"
  <2>1. Removals(i)[k].track = Unattributed
    <3>1. Removals(i)[k] \in Removal
      BY RemovalsListed, ElementOfSeq, LenProperties
    <3> QED
      BY <1>1, <3>1 DEF Removal
  <2>2. DOMAIN after = DOMAIN rows /\ \A t \in DOMAIN rows : after[t] = rows[t]
    BY <2>1, UnattributedIsNoTrack DEF IsDrop
  <2>3. k \in Nat /\ DOMAIN Removals(i) \subseteq Nat
    BY RemovalFacts
  <2>4. \A j \in DOMAIN Removals(i) :
          j > k - 1 /\ Removals(i)[j].kind # "orphan" => j > k
    BY <1>1, <2>3
  <2> QED
    BY <2>2, <2>4 DEF RowsAt
<1>2. CASE Removals(i)[k].kind # "orphan"
  BY <1>2, RowsForgotten
<1> QED
  BY <1>1, <1>2

LEMMA FileForgottenCourse ==
  ASSUME RunInv, NEW i, NEW whole, Sails(i, whole), NEW after, NEW sidecarToo,
         Effect(after, sidecarToo), FileForgotten(TRUE)
  PROVE  OnCourse(i, whole, run', after)
<1> DEFINE removal == plan.removals[Index]
           transfers == Len(plan.transfers)
           shared == Len(plan.shared)
           unshared == removal.kind = "unshared"
           removed == IF unshared THEN Index - 1 ELSE Index
<1>1. Awaiting("forgetFile")
  BY DEF FileForgotten
<1>2. RemovalsPosition(run', Index, Index, 0) /\ run'.deferred = run.deferred
  BY CourseParts, FileForgottenGoes, GoesPosition DEF RemovalsPosition, FilesPosition
<1>3. RemovalsPosition(run, removed, Index - 1, 0)
  <2>1. run.at.stage = "forgetFile" /\ run.at.index = Index
    BY <1>1 DEF Awaiting, Index
  <2>2. CASE unshared
    BY <2>1, <2>2, CourseParts, WholePosition DEF RemovalsPosition, FilesPosition
  <2>3. CASE ~unshared
    BY <2>1, <2>3, HalfwayPosition DEF RemovalsPosition, FilesPosition
  <2> QED
    BY <2>2, <2>3
<1>4. ButRows(store, after) /\ IsDrop(after.rows, store.rows, removal.track)
  BY <1>1 DEF Effect
<1>5. /\ Index \in DOMAIN Removals(i) /\ plan.removals = Removals(i)
      /\ IsInput(i) /\ Kinds(i.store)
  BY <1>1, CourseParts, EntryInPlan DEF Awaiting
<1>6. /\ RowsAt(i, transfers, shared, Index - 1, store.rows)
      /\ WantedThere(i, transfers, store.audio)
      /\ RestLeaves(i, transfers, shared, removed, 0, run.deferred, store.audio)
      /\ ListRowsAt(i, Len(plan.lists), Len(plan.listRemovals), store.listRows)
      /\ ListsAt(i, Len(plan.lists), Len(plan.listRemovals), removed, store.lists)
      /\ whole => SidecarsAt(i, removed, store.audio, store.sidecars)
  BY <1>3, CourseParts, RemovalsCourse
<1>7. RowsAt(i, transfers, shared, Index, after.rows)
  <2>1. DOMAIN store.rows \subseteq Track
    <3>1. \A t \in DOMAIN store.rows : t \in RowTracks(i) \/ t \in Desired(i)
      BY DEF Sails, Basis
    <3> QED
      BY <1>5, <3>1, InputParts
  <2>2. IsDrop(after.rows, store.rows, Removals(i)[Index].track)
    BY <1>4, <1>5
  <2> QED
    BY <1>5, <1>6, <2>1, <2>2, RowsDropped
<1>8. /\ RestLeaves(i, transfers, shared, Index, 0, run.deferred, store.audio)
      /\ ListsAt(i, Len(plan.lists), Len(plan.listRemovals), Index, store.lists)
      /\ whole => SidecarsAt(i, Index, store.audio, store.sidecars)
  <2>1. CASE unshared
    <3>1. Removals(i)[Index].kind = "unshared"
      BY <1>5, <2>1
    <3>2. /\ RestLeaves(i, transfers, shared, Index - 1, 0, run.deferred, store.audio)
          /\ ListsAt(i, Len(plan.lists), Len(plan.listRemovals), Index - 1, store.lists)
          /\ whole => SidecarsAt(i, Index - 1, store.audio, store.sidecars)
      BY <1>6, <2>1
    <3>3. RestLeaves(i, transfers, shared, Index, 0, run.deferred, store.audio)
      BY <1>5, <3>1, <3>2, RestRemoved
    <3>4. ListsAt(i, Len(plan.lists), Len(plan.listRemovals), Index, store.lists)
      BY <1>5, <3>1, <3>2, ListsRemoved
    <3>5. whole => SidecarsAt(i, Index, store.audio, store.sidecars)
      BY <1>5, <3>1, <3>2, SidecarsRemoved
    <3> QED
      BY <3>3, <3>4, <3>5
  <2>2. CASE ~unshared
    BY <1>6, <2>2
  <2> QED
    BY <2>1, <2>2
<1>9. /\ after.listRows = store.listRows /\ after.audio = store.audio
      /\ after.lists = store.lists /\ after.sidecars = store.sidecars
  BY <1>4 DEF ButRows
<1> QED
  BY <1>2, <1>6, <1>7, <1>8, <1>9, CourseOfRemovals

\* What was set aside is the file of a row.
LEMMA SetAsideWasARow ==
  ASSUME RunInv, NEW i, Basis(i, plan, store.rows, store.listRows),
         Awaiting("removeReplaced")
  PROVE  /\ DoomedPath = run.deferred[Index].path
         /\ \E t \in RowTracks(i) : DoomedPath = RowPath(i, t)
<1> DEFINE entry == run.deferred[Index]
<1>1. DoomedPath = entry.path
  BY DEF DoomedPath, Awaiting
<1>2. entry.path \in Path /\ Warranted(run, entry)
  <2>1. Index \in DOMAIN run.deferred /\ entry \in [path : Path, track : Track]
    BY EntryInPlan
  <2> QED
    BY <2>1 DEF RunInv, DeferredSound
<1>3. entry.path # NoPath
  BY <1>2, NoPathIsNoPath
<1>4. plan.transfers = Transfers(i) /\ plan.shared = SharedRecords(i) /\ IsInput(i)
  BY PlanFields
<1> SUFFICES \E t \in RowTracks(i) : RowPath(i, t) = entry.path
  BY <1>1
<1> HIDE DEF entry
<1>5. CASE \E k \in DOMAIN plan.transfers : plan.transfers[k].previous = entry.path
  BY <1>3, <1>4, <1>5, TransferFacts
<1>6. CASE \E k \in DOMAIN plan.shared : plan.shared[k].previous = entry.path
  BY <1>3, <1>4, <1>6, SharedFacts
<1> QED
  BY <1>2, <1>5, <1>6 DEF Warranted

LEMMA ReplacedCourse ==
  ASSUME Core, active, NEW i, NEW whole, Sails(i, whole), NEW after,
         NEW sidecarToo \in BOOLEAN, whole => sidecarToo,
         Effect(after, sidecarToo), ReplacedFileRemoved(TRUE)
  PROVE  OnCourse(i, whole, run', after)
<1> DEFINE path == DoomedPath
           transfers == Len(plan.transfers)
           shared == Len(plan.shared)
           removals == Len(plan.removals)
<1>0. RunInv /\ i.lib = lib /\ Basis(i, plan, store.rows, store.listRows)
  BY DEF Core, Sails
<1>1. Awaiting("removeReplaced") /\ Removing
  BY DEF ReplacedFileRemoved, Removing, Awaiting
<1>2. RemovalsPosition(run', removals, removals, Index) /\ run'.deferred = run.deferred
  BY <1>0, CourseParts, ReplacedGoes, GoesPosition DEF RemovalsPosition, FilesPosition
<1>3. RemovalsPosition(run, removals, removals, Index - 1)
  BY <1>0, <1>1, CourseParts, WholePosition DEF RemovalsPosition, FilesPosition, Awaiting
<1>4. /\ IsWithout(after, path)
      /\ after.sidecars = store.sidecars \
           (IF sidecarToo /\ path.kind = "audio" THEN {path, SidecarOf(path)} ELSE {path})
  BY <1>1 DEF Effect, Awaiting
<1>5. /\ IsInput(i) /\ Kinds(i.store) /\ plan.desired = DesiredPaths(i)
      /\ run.deferred \in Seq([path : Path, track : Track])
  BY <1>0, CourseParts, MachineParts
<1>6. path \notin DesiredPaths(i)
  BY <1>0, <1>1, <1>5, DoomedIsFree
<1>7. /\ path = run.deferred[Index].path /\ path.kind = "audio"
  <2>1. /\ path = run.deferred[Index].path
        /\ \E t \in RowTracks(i) : path = RowPath(i, t)
    BY <1>0, <1>1, SetAsideWasARow
  <2> QED
    BY <1>5, <2>1 DEF Kinds, RowTracks, RowPath
<1>8. /\ RowsAt(i, transfers, shared, removals, store.rows)
      /\ WantedThere(i, transfers, store.audio)
      /\ RestLeaves(i, transfers, shared, removals, Index - 1, run.deferred, store.audio)
      /\ ListRowsAt(i, Len(plan.lists), Len(plan.listRemovals), store.listRows)
      /\ ListsAt(i, Len(plan.lists), Len(plan.listRemovals), removals, store.lists)
      /\ whole => SidecarsAt(i, removals, store.audio, store.sidecars)
  BY <1>0, <1>3, CourseParts, RemovalsCourse
<1> HIDE DEF path
<1>9. WantedThere(i, transfers, after.audio)
  BY <1>4, <1>5, <1>6, <1>8, FileGoes
<1>10. RestLeaves(i, transfers, shared, removals, Index, run.deferred, after.audio)
  <2>1. IsDrop(after.audio, store.audio, run.deferred[Index].path)
    BY <1>4, <1>7 DEF IsWithout
  <2>2. DOMAIN run.deferred \subseteq Nat /\ Index \in DOMAIN run.deferred
    <3>1. DOMAIN run.deferred = 1..Len(run.deferred) /\ Len(run.deferred) \in Nat
      BY <1>5, LenProperties
    <3>2. Index \in 1..Len(run.deferred)
      BY <1>0, CourseParts, ReplacedGoes
    <3> QED
      BY <3>1, <3>2
  <2> QED
    BY <1>8, <2>1, <2>2, RestReplaced
<1>11. ListsAt(i, Len(plan.lists), Len(plan.listRemovals), removals, after.lists)
  <2>1. \A s \in i.lib.selected : PlaylistPath(i, s) # path
    BY <1>5, <1>7, PlannedKinds
  <2>2. IsDrop(after.lists, store.lists, path)
    BY <1>4 DEF IsWithout
  <2> QED
    BY <1>5, <1>8, <2>1, <2>2, ListsDropped
<1>12. whole => SidecarsAt(i, removals, after.audio, after.sidecars)
  <2>1. SUFFICES ASSUME whole
                 PROVE  SidecarsAt(i, removals, after.audio, after.sidecars)
    OBVIOUS
  <2> QED
    BY <1>4, <1>5, <1>8, <2>1, FileGoes
<1>13. after.rows = store.rows /\ after.listRows = store.listRows
  BY <1>4 DEF IsWithout
<1> QED
  BY <1>2, <1>8, <1>9, <1>10, <1>11, <1>12, <1>13, CourseOfRemovals

-----------------------------------------------------------------------------
(* Together: an untroubled run is on course until it is done.              *)

\* Each success keeps the course.
LEMMA SuccessCourse ==
  ASSUME Core, active, NEW i, NEW whole, Sails(i, whole), NEW sidecarToo \in BOOLEAN,
         whole => sidecarToo, Respond(TRUE)
  PROVE  OnCourse(i, whole, run', Performed(sidecarToo))
<1> DEFINE after == Performed(sidecarToo)
<1>1. RunInv /\ Placed(run) /\ DOMAIN store.audio \subseteq Path
  BY DEF Core, IsStore, IsPartialFunction
<1>2. Effect(after, sidecarToo)
  BY PerformedEffect DEF Core
<1> HIDE DEF after
<1> SUFFICES OnCourse(i, whole, run', after)
  BY DEF after
<1>3. CASE PartialsCleaned(TRUE) \/ Transcoded(TRUE, 0)
  <2>1. run.at.stage \in {"partials", "transcode"}
    BY <1>3 DEF PartialsCleaned, Transcoded, Awaiting
  <2>2. after = store
    BY <1>2, <2>1 DEF Effect
  <2> QED
    BY <1>1, <1>3, <2>2, TranscodedCourse
<1>4. CASE Awaiting("copy") /\ TrackCopied(TRUE, 0, plan.transfers[Index].path)
  BY <1>1, <1>2, <1>4, CopiedCourse
<1>5. CASE FileRecorded(TRUE)
  BY <1>1, <1>2, <1>5, FileRecordedCourse
<1>6. CASE SharedFileRecorded(TRUE)
  BY <1>1, <1>2, <1>6, SharedRecordedCourse
<1>7. CASE AnalysisWritten(TRUE, 0)
  BY <1>1, <1>2, <1>7, AnalysisCourse
<1>8. CASE PlaylistWritten(TRUE)
  BY <1>1, <1>2, <1>8, PlaylistWrittenCourse
<1>9. CASE PlaylistRecorded(TRUE)
  BY <1>1, <1>2, <1>9, PlaylistRecordedCourse
<1>10. CASE PlaylistRemoved(TRUE)
  BY <1>1, <1>2, <1>10, PlaylistRemovedCourse
<1>11. CASE PlaylistForgotten(TRUE)
  BY <1>1, <1>2, <1>11, PlaylistForgottenCourse
<1>12. CASE TrackRemoved(TRUE)
  BY <1>1, <1>2, <1>12, TrackRemovedCourse
<1>13. CASE FileForgotten(TRUE)
  BY <1>1, <1>2, <1>13, FileForgottenCourse
<1>14. CASE ReplacedFileRemoved(TRUE)
  BY <1>1, <1>2, <1>14, ReplacedCourse
<1> QED
  BY <1>3, <1>4, <1>5, <1>6, <1>7, <1>8, <1>9, <1>10, <1>11, <1>12, <1>13, <1>14
     DEF Respond

\* The run under way was planned from this input, and is on course unless something
\* is held against it.
Course(i) ==
  /\ i.lib = lib /\ Basis(i, plan, store.rows, store.listRows)
  /\ Kinds(i.store) /\ Together(i.store.rows)
  /\ Spoiled(run) \/ (Untroubled(run) /\ OnCourse(i, calm, run, store))

\* Whatever the runs before left behind, each path is of its kind and the rows of one
\* file agree on its slot; a run under way is on course.
Mirrored ==
  /\ Kinds(store) /\ Together(store.rows)
  /\ active => \E i : Course(i)

LEMMA SamePositions ==
  ASSUME UNCHANGED plan
  PROVE  /\ ArrivedTo(run)' = ArrivedTo(run') /\ RecordedTo(run)' = RecordedTo(run')
         /\ SharedTo(run)' = SharedTo(run')
         /\ WrittenTo(run)' = WrittenTo(run') /\ BookedTo(run)' = BookedTo(run')
         /\ ClearedTo(run)' = ClearedTo(run') /\ UnbookedTo(run)' = UnbookedTo(run')
         /\ RemovedTo(run)' = RemovedTo(run') /\ ForgottenTo(run)' = ForgottenTo(run')
         /\ ReplacedTo(run)' = ReplacedTo(run')
<1>1. ArrivedTo(run)' = ArrivedTo(run')
  BY DEF ArrivedTo
<1>2. RecordedTo(run)' = RecordedTo(run')
  BY DEF RecordedTo
<1>3. SharedTo(run)' = SharedTo(run')
  BY DEF SharedTo
<1>4. WrittenTo(run)' = WrittenTo(run')
  BY DEF WrittenTo
<1>5. BookedTo(run)' = BookedTo(run')
  BY DEF BookedTo
<1>6. ClearedTo(run)' = ClearedTo(run')
  BY DEF ClearedTo
<1>7. UnbookedTo(run)' = UnbookedTo(run')
  BY DEF UnbookedTo
<1>8. RemovedTo(run)' = RemovedTo(run')
  BY DEF RemovedTo
<1>9. ForgottenTo(run)' = ForgottenTo(run')
  BY DEF ForgottenTo
<1>10. ReplacedTo(run)' = ReplacedTo(run')
  BY DEF ReplacedTo
<1> QED
  BY <1>1, <1>2, <1>3, <1>4, <1>5, <1>6, <1>7, <1>8, <1>9, <1>10

LEMMA SameCourse ==
  ASSUME UNCHANGED plan, NEW i, i.lib = lib', Basis(i, plan, store'.rows, store'.listRows),
         Kinds(i.store), Together(i.store.rows),
         Spoiled(run') \/ (Untroubled(run') /\ OnCourse(i, calm', run', store'))
  PROVE  Course(i)'
<1>1. Basis(i, plan, store.rows, store.listRows)'
  BY DEF Basis
<1>2. Spoiled(run') => Spoiled(run)'
  BY DEF Spoiled
<1>3. Untroubled(run') => Untroubled(run)'
  BY DEF Untroubled
<1>4. OnCourse(i, calm', run', store') => OnCourse(i, calm, run, store)'
  BY SamePositions DEF OnCourse
<1> QED
  BY <1>1, <1>2, <1>3, <1>4 DEF Course

\* An effect answered, with the store it leaves.
LEMMA PerformCourse ==
  ASSUME Core, Perform, NEW i, Course(i)
  PROVE  Spoiled(run') \/ (Untroubled(run') /\ OnCourse(i, calm', run', store'))
<1>1. /\ RunInv /\ IsRecord(store) /\ i.lib = lib
      /\ Basis(i, plan, store.rows, store.listRows) /\ Kinds(i.store)
  BY DEF Core, Course
<1>2. active /\ \E ok \in BOOLEAN : Respond(ok)
  <2>1. left \in Scenario
    BY DEF Core
  <2> QED
    BY <2>1, PerformParts DEF Answered
<1>3. CASE Spoiled(run)
  BY <1>1, <1>2, <1>3, AnswerSpoils DEF Marred
<1>4. CASE FailEffect \/ RefuseCancelled
  <2>1. Respond(FALSE)
    BY <1>4 DEF FailEffect, RefuseCancelled
  <2> QED
    BY <1>1, <2>1, AnswerSpoils DEF Marred
<1>5. ASSUME Untroubled(run), OnCourse(i, calm, run, store), Succeed
      PROVE  Untroubled(run') /\ OnCourse(i, calm', run', store')
  <2>1. Respond(TRUE) /\ store' = Performed(TRUE) /\ calm' = calm
    BY <1>5 DEF Succeed
  <2>2. Sails(i, calm)
    BY <1>1, <1>5 DEF Sails
  <2>3. OnCourse(i, calm, run', Performed(TRUE))
    BY <1>2, <2>1, <2>2, SuccessCourse
  <2>4. Clean(run')
    BY <1>1, <1>2, <1>5, <2>1, SuccessClean DEF Core
  <2> QED
    BY <2>1, <2>3, <2>4 DEF Clean
<1>6. ASSUME Untroubled(run), OnCourse(i, calm, run, store), LoseSidecarRemoval
      PROVE  Untroubled(run') /\ OnCourse(i, calm', run', store')
  <2>1. Respond(TRUE) /\ store' = Performed(FALSE) /\ calm' = FALSE
    BY <1>6 DEF LoseSidecarRemoval
  <2>2. Sails(i, FALSE)
    BY <1>1, <1>6 DEF Sails, OnCourse
  <2>3. OnCourse(i, FALSE, run', Performed(FALSE))
    BY <1>2, <2>1, <2>2, SuccessCourse
  <2>4. Clean(run')
    BY <1>1, <1>2, <1>6, <2>1, SuccessClean DEF Core
  <2> QED
    BY <2>1, <2>3, <2>4 DEF Clean
<1> QED
  BY <1>3, <1>4, <1>5, <1>6 DEF Perform, Course

LEMMA PerformMirrored ==
  ASSUME Core, Mirrored, Perform
  PROVE  Mirrored'
<1>1. left \in Scenario
  BY DEF Core
<1>2. /\ active /\ store' \in CutShort
      /\ left' \in Scenario /\ left'.libraries = left.libraries
      /\ UNCHANGED <<lib, active>>
  BY <1>1, PerformParts
<1>3. PICK ok \in BOOLEAN : Respond(ok)
  BY <1>1, PerformParts DEF Answered
<1>4. Follows(store')
  BY <1>2, <1>3, PerformStep
<1>5. UNCHANGED plan
  BY <1>3, CoreParts, RespondAnswers, RunStep DEF Next
<1>6. PICK i : Course(i)
  BY <1>2 DEF Mirrored
<1>7. /\ i.lib = lib /\ Basis(i, plan, store.rows, store.listRows)
      /\ Kinds(i.store) /\ Together(i.store.rows)
  BY <1>6 DEF Course
<1>8. Basis(i, plan, store'.rows, store'.listRows)
  BY <1>2, <1>4, <1>7, BasisFollows DEF Core
<1>9. Kinds(store') /\ Together(store'.rows)
  <2>1. FilesKnown(store')
    BY <1>2, CutShortKnown DEF Core
  <2> QED
    BY <1>7, <1>8, <2>1, KindsStay, TogetherStay DEF Core, Mirrored
<1>10. Course(i)'
  BY <1>2, <1>5, <1>6, <1>7, <1>8, PerformCourse, SameCourse
<1> QED
  BY <1>9, <1>10 DEF Mirrored, Kinds, Together

\* The run is cut short: it has no course any more.
LEMMA InterruptMirrored ==
  ASSUME Core, Mirrored, Interrupt
  PROVE  Mirrored'
<1>1. active /\ store' \in CutShort /\ ~active'
  BY DEF Interrupt, CutShort
<1>2. Follows(store')
  BY InterruptStep
<1>3. PICK i : Course(i)
  BY <1>1 DEF Mirrored
<1>4. /\ Basis(i, plan, store.rows, store.listRows)
      /\ Kinds(i.store) /\ Together(i.store.rows)
  BY <1>3 DEF Course
<1>5. Basis(i, plan, store'.rows, store'.listRows)
  BY <1>1, <1>2, <1>4, BasisFollows DEF Core
<1>6. Kinds(store') /\ Together(store'.rows)
  <2>1. FilesKnown(store')
    BY <1>1, CutShortKnown DEF Core
  <2> QED
    BY <1>4, <1>5, <2>1, KindsStay, TogetherStay DEF Core, Mirrored
<1> QED
  BY <1>1, <1>6 DEF Mirrored, Kinds, Together

\* A new run has all of its plan ahead.
LEMMA BeginRunMirrored ==
  ASSUME Core, Mirrored, BeginRun
  PROVE  Mirrored'
<1>1. /\ plan' = PlanMirror(Input) /\ run' = NewMachine(plan', FALSE)
      /\ UNCHANGED <<lib, store>>
  BY DEF BeginRun
<1>2. PICK i : i = Input
  OBVIOUS
<1>3. IsInput(i) /\ i.lib = lib /\ i.store = store
  BY <1>2, CoreParts
<1>4. Basis(i, plan, store.rows, store.listRows)'
  BY <1>1, <1>2, <1>3 DEF Core, Basis, RowTracks, RowPath
<1>5. Kinds(i.store) /\ Together(i.store.rows) /\ ListRowsAreApart(i.store.listRows)
  BY <1>3 DEF Mirrored, Core
<1>6. Untroubled(run)'
  BY <1>1 DEF NewMachine, Untroubled
<1>7. OnCourse(i, calm, run, store)'
  <2>1. run'.at.stage = "start"
    BY <1>1 DEF NewMachine
  <2> USE DEF EarlyStages, FileStages, Opened, TransferStages, SidecarStages, ListStages
  <2>2. ArrivedTo(run)' = 0
    BY <2>1 DEF ArrivedTo
  <2>3. RecordedTo(run)' = 0
    BY <2>1 DEF RecordedTo
  <2>4. SharedTo(run)' = 0
    BY <2>1 DEF SharedTo
  <2>5. WrittenTo(run)' = 0 /\ BookedTo(run)' = 0
    BY <2>1 DEF WrittenTo, BookedTo
  <2>6. ClearedTo(run)' = 0 /\ UnbookedTo(run)' = 0
    BY <2>1 DEF ClearedTo, UnbookedTo
  <2>7. RemovedTo(run)' = 0 /\ ForgottenTo(run)' = 0 /\ ReplacedTo(run)' = 0
    BY <2>1 DEF RemovedTo, ForgottenTo, ReplacedTo
  <2> HIDE DEF EarlyStages, FileStages, Opened, TransferStages, SidecarStages, ListStages
  <2>8. store' = i.store
    BY <1>1, <1>3
  <2>9. /\ RowsAt(i, 0, 0, 0, store'.rows) /\ WantedThere(i, 0, store'.audio)
        /\ RestLeaves(i, 0, 0, 0, 0, run'.deferred, store'.audio)
    BY <1>3, <1>5, <2>8, RowsBegin, WantedBegins, RestBegins
  <2>10. /\ ListRowsAt(i, 0, 0, store'.listRows) /\ ListsAt(i, 0, 0, 0, store'.lists)
         /\ SidecarsAt(i, 0, store'.audio, store'.sidecars)
    BY <1>3, <1>5, <2>8, ListRowsBegin, ListsBegin, SidecarsBegin
  <2> QED
    BY <2>2, <2>3, <2>4, <2>5, <2>6, <2>7, <2>9, <2>10 DEF OnCourse
<1>8. Course(i)'
  BY <1>1, <1>3, <1>4, <1>5, <1>6, <1>7 DEF Course
<1> QED
  BY <1>1, <1>8 DEF Mirrored

LEMMA QuietMirrored ==
  ASSUME Core, Mirrored, StartRun \/ CancelRun
  PROVE  Mirrored'
<1>1. /\ active /\ UNCHANGED <<plan, lib, store, active>> /\ RunInv
      /\ calm' \in {calm, FALSE}
  BY RunStep DEF Core, StartRun, CancelRun, world, Next
<1>2. PICK i : Course(i)
  BY <1>1 DEF Mirrored
<1>3. /\ i.lib = lib /\ Basis(i, plan, store.rows, store.listRows)
      /\ Kinds(i.store) /\ Together(i.store.rows)
  BY <1>2 DEF Course
<1>4. Spoiled(run') \/ (Untroubled(run') /\ OnCourse(i, calm', run', store'))
  <2>1. CASE StartRun
    <3>1. /\ Awaiting("start") /\ run \in Machine /\ calm' = calm
          /\ run' = Await(Show(run, OpeningPhase), "partials", 0)
      BY <1>1, <2>1, RunIndex DEF StartRun, Start, Handle, world
    <3>2. /\ run'.failures = run.failures /\ run'.cancelled = run.cancelled
          /\ run'.terminalError = run.terminalError /\ run'.outcome = run.outcome
          /\ run'.absent = run.absent /\ run'.staleList = run.staleList
          /\ run'.deferred = run.deferred /\ run'.at.stage = "partials"
      BY <3>1 DEF Await, Show, Machine
    <3>3. CASE Spoiled(run)
      <4>1. run' \in Machine
        <5>1. RunInv'
          BY <1>1, <2>1, RunStep DEF StartRun, Next
        <5> QED
          BY <5>1 DEF RunInv, Inv, Sound
      <4> QED
        BY <3>2, <3>3, <4>1 DEF Spoiled
    <3>4. CASE Untroubled(run) /\ OnCourse(i, calm, run, store)
      <4>1. Untroubled(run')
        BY <3>2, <3>4 DEF Untroubled
      <4>2. run.at.stage \in Opened /\ run'.at.stage \in Opened
        BY <3>1, <3>2 DEF Awaiting, Opened
      <4>3. /\ Position(run, 0, 0, 0, 0, 0, 0, 0, 0, 0, 0)
            /\ Position(run', 0, 0, 0, 0, 0, 0, 0, 0, 0, 0)
        <5>1. /\ run.at.stage # "forgetFile" /\ run'.at.stage # "forgetFile"
          BY <3>1, <3>2 DEF Awaiting
        <5> QED
          BY <4>2, <5>1, HalfwayPosition
      <4>4. OnCourse(i, calm, run', store)
        BY <3>2, <3>4, <4>3, SamePosition
      <4> QED
        BY <1>1, <3>1, <4>1, <4>4
    <3> QED
      BY <1>2, <3>3, <3>4 DEF Course
  <2>2. CASE CancelRun
    <3>1. Cancel /\ run.at.stage # "done"
      BY <2>2 DEF CancelRun, Idle, Awaiting
    <3> QED
      BY <1>1, <3>1, CancelSpoils
  <2> QED
    BY <2>1, <2>2
<1>5. Course(i)'
  BY <1>1, <1>3, <1>4, SameCourse
<1> QED
  BY <1>1, <1>5 DEF Mirrored

LEMMA LoseFileMirrored ==
  ASSUME Core, Mirrored, LoseFile
  PROVE  Mirrored'
<1>1. PICK path \in Resident(store) : store' = DropFile(path)
  BY DEF LoseFile
<1>2. IsWithout(store', path)
  BY <1>1, DropFileParts DEF Core
<1>3. ~active'
  BY DEF LoseFile
<1> QED
  BY <1>2, <1>3 DEF Mirrored, Kinds, Together, IsWithout, IsDrop

LEMMA MirroredInit ==
  SyncInit => Mirrored
<1> SUFFICES ASSUME SyncInit PROVE Mirrored
  OBVIOUS
<1>1. store = StoreOf(<<>>, <<>>, <<>>, <<>>, {}) /\ ~active
  BY DEF SyncInit, EmptyStore, StoreOf
<1>2. /\ store.rows = <<>> /\ store.listRows = <<>>
      /\ store.audio = <<>> /\ store.lists = <<>> /\ store.sidecars = {}
  BY <1>1, StoreParts
<1> QED
  BY <1>1, <1>2 DEF Mirrored, Kinds, Together

LEMMA MirroredStep ==
  ASSUME Core, Mirrored, [SyncNext]_syncVars
  PROVE  Mirrored'
<1>1. CASE EditLibrary
  BY <1>1 DEF EditLibrary, Mirrored, Kinds, Together
<1>2. CASE LoseFile
  BY <1>2, LoseFileMirrored
<1>3. CASE BeginRun
  BY <1>3, BeginRunMirrored
<1>4. CASE StartRun \/ CancelRun
  BY <1>4, QuietMirrored
<1>5. CASE Perform
  BY <1>5, PerformMirrored
<1>6. CASE Interrupt
  BY <1>6, InterruptMirrored
<1>7. CASE UNCHANGED syncVars
  <2>1. UNCHANGED <<plan, run, lib, store, active, calm>>
    BY <1>7 DEF syncVars, world
  <2>2. ASSUME NEW i, Course(i)
        PROVE  Course(i)'
    BY <2>1, <2>2, SameCourse DEF Course
  <2> QED
    BY <2>1, <2>2 DEF Mirrored
<1> QED
  BY <1>1, <1>2, <1>3, <1>4, <1>5, <1>6, <1>7 DEF SyncNext

LEMMA MirroredAlways == SyncSpec => []Mirrored
<1>1. SyncInit => Mirrored
  BY MirroredInit
<1>2. Core /\ Mirrored /\ [SyncNext]_syncVars => Mirrored'
  BY MirroredStep
<1> QED
  BY <1>1, <1>2, CoreAlways, PTL DEF SyncSpec

-----------------------------------------------------------------------------
(* What a completed run leaves, and what planning again makes of it.       *)

\* The inventory and the device say what was wanted of them for input `i`.
MirrorOf(i, s) ==
  /\ DOMAIN s.rows = Desired(i) \cup Staying(i)
  /\ \A t \in Desired(i) : s.rows[t] = RowFor(i, t)
  /\ \A t \in Staying(i) : s.rows[t] = i.store.rows[t]
  /\ DesiredPaths(i) \subseteq DOMAIN s.audio
  /\ DOMAIN s.audio \subseteq DesiredPaths(i) \cup StayingPaths(i)
  /\ Written(i) \subseteq DOMAIN s.listRows /\ DOMAIN s.listRows \subseteq i.lib.selected
  /\ \A r \in DOMAIN s.listRows : s.listRows[r] = PlaylistPath(i, r)
  /\ \A k \in DOMAIN ListWrites(i) :
       LET list == ListWrites(i)[k]
       IN  list.path \in DOMAIN s.lists /\ s.lists[list.path] = list.entries
  /\ \A path \in DOMAIN s.lists : \E r \in i.lib.selected : path = PlaylistPath(i, r)

\* Every sidecar has its audio.
SidecarsOwned(i, s) ==
  \A path \in s.sidecars :
    \E file \in (DesiredPaths(i) \cup RetainedPaths(i)) \cap DOMAIN s.audio :
      path = SidecarOf(file)

\* At the end of every list nothing is left but what was wanted.
LEMMA CourseEnds ==
  ASSUME NEW i, NEW whole, Sails(i, whole), RunInv, run.at.stage = "done"
  PROVE  MirrorOf(i, store) /\ (whole => SidecarsOwned(i, store))
<1>1. Position(run, Len(Transfers(i)), Len(Transfers(i)), Len(SharedRecords(i)),
               Len(ListWrites(i)), Len(ListWrites(i)), Len(ListRemovals(i)),
               Len(ListRemovals(i)), Len(Removals(i)), Len(Removals(i)), Len(run.deferred))
  <2>1. Position(run, Len(plan.transfers), Len(plan.transfers), Len(plan.shared),
                 Len(plan.lists), Len(plan.lists), Len(plan.listRemovals),
                 Len(plan.listRemovals), Len(plan.removals), Len(plan.removals),
                 Len(run.deferred))
    BY DEF Position, ArrivedTo, RecordedTo, SharedTo, WrittenTo, BookedTo, ClearedTo,
           UnbookedTo, RemovedTo, ForgottenTo, ReplacedTo, EarlyStages, FileStages,
           Opened, TransferStages, SidecarStages, ListStages
  <2> QED
    BY <2>1, CourseParts
<1>2. IsInput(i) /\ OnCourse(i, whole, run, store)
  BY CourseParts
<1>3. /\ \A k \in DOMAIN Transfers(i) : ~(k > Len(Transfers(i)))
      /\ \A k \in DOMAIN SharedRecords(i) : ~(k > Len(SharedRecords(i)))
      /\ \A k \in DOMAIN ListWrites(i) : ~(k > Len(ListWrites(i))) /\ k <= Len(ListWrites(i))
      /\ \A k \in DOMAIN ListRemovals(i) : ~(k > Len(ListRemovals(i)))
      /\ \A k \in DOMAIN Removals(i) : ~(k > Len(Removals(i)))
  BY <1>2, Places
<1>4. \A k \in DOMAIN run.deferred : ~(k > Len(run.deferred))
  <2>1. run.deferred \in Seq([path : Path, track : Track])
    BY CourseParts, MachineParts
  <2>2. DOMAIN run.deferred = 1..Len(run.deferred) /\ Len(run.deferred) \in Nat
    BY <2>1, LenProperties
  <2> QED
    BY <2>2
<1>5. /\ RowsAt(i, Len(Transfers(i)), Len(SharedRecords(i)), Len(Removals(i)), store.rows)
      /\ WantedThere(i, Len(Transfers(i)), store.audio)
      /\ RestLeaves(i, Len(Transfers(i)), Len(SharedRecords(i)), Len(Removals(i)),
                    Len(run.deferred), run.deferred, store.audio)
      /\ ListRowsAt(i, Len(ListWrites(i)), Len(ListRemovals(i)), store.listRows)
      /\ ListsAt(i, Len(ListWrites(i)), Len(ListRemovals(i)), Len(Removals(i)), store.lists)
      /\ whole => SidecarsAt(i, Len(Removals(i)), store.audio, store.sidecars)
  BY <1>1, <1>2 DEF OnCourse, Position
<1>6. /\ \A t \in Desired(i) : t \in DOMAIN store.rows /\ store.rows[t] = RowFor(i, t)
      /\ \A t \in DOMAIN store.rows : t \in Desired(i) \cup Staying(i)
      /\ \A t \in Staying(i) : t \in DOMAIN store.rows /\ store.rows[t] = i.store.rows[t]
  BY <1>3, <1>5 DEF RowsAt
<1>7. DesiredPaths(i) \subseteq DOMAIN store.audio
  BY <1>3, <1>5 DEF WantedThere
<1>8. DOMAIN store.audio \subseteq DesiredPaths(i) \cup StayingPaths(i)
  BY <1>3, <1>4, <1>5 DEF RestLeaves
<1>9. /\ \A r \in Written(i) :
           r \in DOMAIN store.listRows /\ store.listRows[r] = PlaylistPath(i, r)
      /\ \A r \in DOMAIN store.listRows :
           r \in i.lib.selected /\ store.listRows[r] = PlaylistPath(i, r)
  <2>1. \A r \in Written(i) : r \in i.lib.selected
    BY DEF Written
  <2> QED
    BY <1>3, <1>5, <2>1 DEF ListRowsAt
<1>10. /\ \A k \in DOMAIN ListWrites(i) :
            LET list == ListWrites(i)[k]
            IN  list.path \in DOMAIN store.lists /\ store.lists[list.path] = list.entries
       /\ \A path \in DOMAIN store.lists : \E r \in i.lib.selected : path = PlaylistPath(i, r)
  BY <1>3, <1>5 DEF ListsAt
<1>11. whole => SidecarsOwned(i, store)
  BY <1>3, <1>5, <1>7 DEF SidecarsAt, SidecarsOwned
<1> QED
  BY <1>6, <1>7, <1>8, <1>9, <1>10, <1>11 DEF MirrorOf

\* The same library with the store a completed run left.
Again(i, j) ==
  /\ IsInput(i) /\ IsInput(j) /\ j.lib = i.lib
  /\ RowsAreApart(j.store.rows) /\ Together(j.store.rows)
  /\ ListRowsAreApart(j.store.listRows)
  /\ MirrorOf(i, j.store)

\* What is wanted and what stays is the same, at the same names.
LEMMA FilesAgain ==
  ASSUME NEW i, NEW j, Again(i, j)
  PROVE  /\ Desired(j) = Desired(i) /\ Retained(j) = Retained(i)
         /\ RowTracks(j) = Desired(i) \cup Staying(i)
         /\ RowTracks(j) \subseteq Desired(j) \cup Retained(j) \cup Captured(j)
         /\ \A s : Entries(j, s) = Entries(i, s)
         /\ \A t \in Staying(i) : RowPath(j, t) = RowPath(i, t)
         /\ \A t \in Desired(i) : DesiredPath(j, t) = DesiredPath(i, t) /\ RowMatches(j, t)
         /\ DesiredPaths(j) = DesiredPaths(i) /\ RetainedPaths(j) = RetainedPaths(i)
<1>1. /\ IsInput(i) /\ IsInput(j) /\ j.lib = i.lib
      /\ RowsAreApart(j.store.rows) /\ Together(j.store.rows)
      /\ DOMAIN j.store.rows = Desired(i) \cup Staying(i)
      /\ \A t \in Desired(i) : j.store.rows[t] = RowFor(i, t)
      /\ \A t \in Staying(i) : j.store.rows[t] = i.store.rows[t]
  BY DEF Again, MirrorOf
<1>2. Desired(j) = Desired(i) /\ Wanted(j) = Wanted(i) /\ Captured(j) = Captured(i)
  BY <1>1 DEF Desired, Wanted, Entries, Captured
<1>2a. \A s : Entries(j, s) = Entries(i, s)
  BY <1>1 DEF Entries
<1>3. RowTracks(j) = Desired(i) \cup Staying(i)
  BY <1>1 DEF RowTracks
<1>4. Retained(j) = Retained(i)
  <2>1. Retained(i) \subseteq Staying(i) /\ Staying(i) \subseteq RowTracks(i)
    BY StayingFacts
  <2> QED
    BY <1>1, <1>2, <1>3, <2>1 DEF Retained
<1>4a. RowTracks(j) \subseteq Desired(j) \cup Retained(j) \cup Captured(j)
  BY <1>2, <1>3, <1>4, StayingFacts
<1>5. \A t \in Staying(i) : RowPath(j, t) = RowPath(i, t)
  BY <1>1 DEF RowPath
<1>6. ASSUME NEW t \in Desired(i)
      PROVE  DesiredPath(j, t) = DesiredPath(i, t) /\ RowMatches(j, t)
  <2>1. RowPath(j, t) = DesiredPath(i, t)
    <3>1. j.store.rows[t] = RowFor(i, t)
      BY <1>1
    <3>2. RowFor(i, t).path = DesiredPath(i, t)
      BY DEF RowFor
    <3> QED
      BY <3>1, <3>2 DEF RowPath
  <2>2. DesiredPath(i, t).stem = i.lib.stem[t] /\ DesiredPath(i, t).slot = DesiredSlot(i, t)
    BY <1>1, DesiredPathNamed
  <2>3. t \in Desired(j) /\ t \in RowTracks(j) /\ RowPath(j, t).stem = j.lib.stem[t]
    BY <1>1, <1>2, <1>3, <2>1, <2>2
  <2>4. DesiredSlot(j, t) = DesiredSlot(i, t)
    BY <1>1, <2>1, <2>2, <2>3, RowAtItsName
  <2>5. DesiredPath(j, t) = DesiredPath(i, t)
    BY <1>1, <2>4, DesiredPathParts
  <2>6. j.store.rows[t] = RowFor(i, t)
    BY <1>1
  <2> QED
    BY <1>1, <2>3, <2>5, <2>6 DEF RowMatches, RowFor
<1>7. DesiredPaths(j) = DesiredPaths(i) /\ RetainedPaths(j) = RetainedPaths(i)
  BY <1>2, <1>4, <1>5, <1>6, StayingFacts DEF DesiredPaths, RetainedPaths
<1> QED
  BY <1>2, <1>2a, <1>3, <1>4, <1>4a, <1>5, <1>6, <1>7

\* A selected playlist keeps the name of its row.
LEMMA ListAtItsName ==
  ASSUME NEW i, IsInput(i), ListRowsAreApart(i.store.listRows), NEW s \in i.lib.selected,
         s \in DOMAIN i.store.listRows, i.store.listRows[s].stem = i.lib.name[s]
  PROVE  PlaylistPath(i, s) = ListPath(i.lib.name[s], i.store.listRows[s].slot)
<1> DEFINE name == i.lib.name[s]
           at == ListSlots(i, name)
<1>1. s \in DOMAIN at /\ at[s] = i.store.listRows[s].slot
  BY DEF ListSlots
<1>2. \A d \in DOMAIN at : at[d] = at[s] => d = s
  BY <1>1 DEF ListSlots, ListRowsAreApart
<1>3. DOMAIN at \in SUBSET Nat
  BY ListParts, TracksAreOrdered DEF ListSlots
<1>4. s \in Owners(at)
  BY <1>1, <1>2, <1>3 DEF Owners
<1> QED
  BY <1>1, <1>4 DEF PlaylistPath, ListSlots

LEMMA ListsAgain ==
  ASSUME NEW i, NEW j, Again(i, j)
  PROVE  /\ \A s \in DOMAIN j.store.listRows : PlaylistPath(j, s) = PlaylistPath(i, s)
         /\ \A s \in i.lib.selected : Rendered(j, s) = Rendered(i, s)
<1>1. /\ IsInput(i) /\ IsInput(j) /\ j.lib = i.lib
      /\ ListRowsAreApart(j.store.listRows)
      /\ DOMAIN j.store.listRows \subseteq i.lib.selected
      /\ \A s \in DOMAIN j.store.listRows : j.store.listRows[s] = PlaylistPath(i, s)
  BY DEF Again, MirrorOf
<1>2. ASSUME NEW s \in DOMAIN j.store.listRows
      PROVE  PlaylistPath(j, s) = PlaylistPath(i, s)
  <2>1. \E slot : PlaylistPath(i, s) = ListPath(i.lib.name[s], slot)
    BY DEF PlaylistPath
  <2>2. /\ PlaylistPath(i, s).stem = i.lib.name[s]
        /\ PlaylistPath(i, s) = ListPath(i.lib.name[s], PlaylistPath(i, s).slot)
    BY <2>1 DEF ListPath
  <2>3. PlaylistPath(j, s) = ListPath(j.lib.name[s], j.store.listRows[s].slot)
    BY <1>1, <2>2, ListAtItsName
  <2> QED
    BY <1>1, <2>2, <2>3
<1>3. ASSUME NEW s \in i.lib.selected
      PROVE  Rendered(j, s) = Rendered(i, s)
  <2> DEFINE entries == Entries(i, s)
  <2>0. Entries(j, s) = entries
    BY FilesAgain
  <2>1. entries \cap (Desired(j) \cup RowTracks(j)) = entries \cap (Desired(i) \cup RowTracks(i))
    <3>1. RowTracks(j) = Desired(i) \cup Staying(i) /\ Desired(j) = Desired(i)
      BY FilesAgain
    <3>2. Retained(i) \subseteq Staying(i) /\ Staying(i) \subseteq RowTracks(i)
      BY StayingFacts
    <3>3. entries \subseteq Wanted(i)
      BY DEF Wanted
    <3>4. \A t \in entries : t \in RowTracks(i) => t \in Desired(i) \cup Retained(i)
      BY <3>3 DEF Retained
    <3> QED
      BY <3>1, <3>2, <3>4
  <2>2. \A t \in entries \cap (Desired(i) \cup RowTracks(i)) : EntryPath(j, t) = EntryPath(i, t)
    <3>1. SUFFICES ASSUME NEW t \in entries \cap (Desired(i) \cup RowTracks(i))
                   PROVE  EntryPath(j, t) = EntryPath(i, t)
      OBVIOUS
    <3>2. CASE t \in Desired(i)
      BY <3>2, FilesAgain DEF EntryPath
    <3>3. CASE t \notin Desired(i)
      <4>1. t \in Wanted(i)
        BY <3>1 DEF Wanted
      <4>2. t \in Staying(i)
        BY <3>1, <3>3, <4>1, StayingFacts DEF Retained
      <4> QED
        BY <3>3, <4>2, FilesAgain DEF EntryPath
    <3> QED
      BY <3>2, <3>3
  <2>3. {EntryPath(j, t) : t \in entries \cap (Desired(j) \cup RowTracks(j))}
          = {EntryPath(i, t) : t \in entries \cap (Desired(i) \cup RowTracks(i))}
    BY <2>1, <2>2
  <2> QED
    BY <2>0, <2>3 DEF Rendered
<1> QED
  BY <1>2, <1>3

\* Nothing is to be done for a device that mirrors the library.
LEMMA NothingAgain ==
  ASSUME NEW i, NEW j, Again(i, j)
  PROVE  /\ Transferred(j) = {} /\ SharedTracks(j) = {}
         /\ ListRemovals(j) = <<>>
         /\ j.lib.selected \subseteq DOMAIN j.store.listRows =>
              Removed(j) = {} /\ (SidecarsOwned(i, j.store) => Orphans(j) = {})
<1>1. /\ IsInput(i) /\ IsInput(j) /\ MirrorOf(i, j.store)
  BY DEF Again
<1>2. \A t \in Desired(j) : Anchors(j, t) # {} /\ RowMatches(j, t)
  <2> SUFFICES ASSUME NEW t \in Desired(j)
               PROVE  Anchors(j, t) # {} /\ RowMatches(j, t)
    OBVIOUS
  <2>1. RowMatches(j, t) /\ DesiredPath(j, t) \in DesiredPaths(i)
    BY FilesAgain DEF DesiredPaths
  <2>2. Delivered(j, t)
    BY <1>1, <2>1 DEF Delivered, MirrorOf
  <2>3. t \in Siblings(j, t)
    BY <1>1, InputParts, UnitFacts DEF Siblings
  <2> QED
    BY <2>1, <2>2, <2>3 DEF Anchors
<1>3. Transferred(j) = {}
  BY <1>2 DEF Transferred
<1>4. SharedTracks(j) = {}
  BY <1>2 DEF SharedTracks
\* The rows that leave are those of frozen playlists, which are all published.
<1>5. ASSUME j.lib.selected \subseteq DOMAIN j.store.listRows
      PROVE  Removed(j) = {}
  <2>1. Leaving(j) \subseteq Captured(j)
    BY FilesAgain DEF Leaving
  <2>2. FrozenLists(j) = j.lib.selected \cap j.lib.frozen
    BY <1>5 DEF FrozenLists
  <2>3. FrozenLists(j) = {} => Captured(j) = {}
    BY <2>2 DEF Captured
  <2> QED
    BY <2>1, <2>3 DEF Removed
<1>6. ListRemovals(j) = <<>>
  <2>1. Outdated(j) = {}
    <3>1. /\ DOMAIN j.store.listRows \subseteq i.lib.selected
          /\ \A s \in DOMAIN j.store.listRows : j.store.listRows[s] = PlaylistPath(i, s)
      BY <1>1 DEF MirrorOf
    <3>2. \A s \in DOMAIN j.store.listRows : PlaylistPath(j, s) = PlaylistPath(i, s)
      BY ListsAgain
    <3>3. j.lib.selected = i.lib.selected
      BY DEF Again
    <3> QED
      BY <3>1, <3>2, <3>3 DEF Outdated
  <2>2. ListRemovals(j) \in Seq(ListRow)
    BY <1>1, ListRemovalsListed
  <2>3. \A k \in DOMAIN ListRemovals(j) : FALSE
    <3>1. ItemsOf(ListRemovals(j), Outdated(j),
                  [s \in Outdated(j) |-> [source |-> s, path |-> j.store.listRows[s]]])
      BY <1>1, ListRemovalsListed
    <3> QED
      BY <2>1, <3>1 DEF ItemsOf
  <2>4. DOMAIN ListRemovals(j) = 1..Len(ListRemovals(j)) /\ Len(ListRemovals(j)) \in Nat
    BY <2>2, LenProperties
  <2>5. Len(ListRemovals(j)) = 0
    BY <2>3, <2>4
  <2> QED
    BY <2>2, <2>5, EmptySeq
<1>7. ASSUME SidecarsOwned(i, j.store), j.lib.selected \subseteq DOMAIN j.store.listRows
      PROVE  Orphans(j) = {}
  <2>1. \A path \in DOMAIN j.store.audio : path \in KnownPaths(j)
    <3>1. DOMAIN j.store.audio \subseteq DesiredPaths(j) \cup StayingPaths(i)
      BY <1>1, FilesAgain DEF MirrorOf
    <3>2. StayingPaths(i) \subseteq {RowPath(j, t) : t \in RowTracks(j)}
      BY FilesAgain DEF StayingPaths
    <3> QED
      BY <3>1, <3>2 DEF KnownPaths
  <2>2. \A path \in DOMAIN j.store.lists : path \in KnownPaths(j)
    <3>1. \A path \in DOMAIN j.store.lists :
            \E s \in DOMAIN j.store.listRows : path = j.store.listRows[s]
      BY <1>1, <1>7 DEF MirrorOf, Again
    <3> QED
      BY <3>1 DEF KnownPaths
  <2>3. \A path \in j.store.sidecars : path \in KnownPaths(j)
    <3>1. \A path \in j.store.sidecars :
            \E file \in (DesiredPaths(j) \cup RetainedPaths(j)) \cap DOMAIN j.store.audio :
              path = SidecarOf(file)
      BY <1>7, FilesAgain DEF SidecarsOwned
    <3>2. \A path \in j.store.sidecars : path \in OwnedSidecars(j)
      BY <3>1 DEF OwnedSidecars, RetainedPaths
    <3> QED
      BY <3>2 DEF KnownPaths
  <2> QED
    BY <2>1, <2>2, <2>3 DEF Orphans, Resident
<1> QED
  BY <1>3, <1>4, <1>5, <1>6, <1>7

LEMMA CompletedAgain ==
  ASSUME Core, Mirrored, Completed
  PROVE  \E i : /\ i.lib = lib /\ Again(i, Input) /\ (calm => SidecarsOwned(i, store))
                /\ plan.lists = ListWrites(i)
<1>1. active /\ run.outcome = "completed"
  BY DEF Completed
<1>2. PICK i : Course(i)
  BY <1>1 DEF Mirrored
<1>3. run.at.stage = "done"
  BY <1>1 DEF Core, RunInv, Accounted
<1>4. /\ i.lib = lib /\ Basis(i, plan, store.rows, store.listRows)
      /\ Sails(i, calm)
  BY <1>1, <1>2 DEF Course, Spoiled, Sails
<1>5. MirrorOf(i, store) /\ (calm => SidecarsOwned(i, store))
  BY <1>3, <1>4, CourseEnds DEF Core
<1>6. /\ IsInput(i) /\ IsInput(Input) /\ Input.lib = lib /\ Input.store = store
  BY <1>4, CoreParts DEF Basis
<1>7. Again(i, Input)
  BY <1>4, <1>5, <1>6 DEF Again, Core, Mirrored
<1>8. plan.lists = ListWrites(i)
  BY <1>4, PlanFields
<1> QED
  BY <1>4, <1>5, <1>7, <1>8

\* What such a run leaves as it is are the published frozen playlists.
LEMMA UntouchedAgain ==
  ASSUME NEW i, IsInput(i), i.lib = lib, plan.lists = ListWrites(i)
  PROVE  Untouched = lib.selected \ Written(i) /\ Untouched \subseteq lib.frozen
<1>1. ASSUME NEW s \in lib.selected
      PROVE  s \in Untouched <=> s \notin Written(i)
  <2>1. s \in Written(i) => \E k \in DOMAIN plan.lists : plan.lists[k].source = s
    BY SelectedListsWritten
  <2>2. \A k \in DOMAIN plan.lists : plan.lists[k].source \in Written(i)
    BY ListWriteFacts
  <2> QED
    BY <2>1, <2>2 DEF Untouched
<1>2. Untouched \subseteq lib.selected
  BY DEF Untouched
<1>3. \A s \in lib.selected : s \notin Written(i) => s \in lib.frozen
  BY DEF Written, FrozenLists
<1> QED
  BY <1>1, <1>2, <1>3

\* A completed run leaves the device as the library wants it (MTP-17): the wanted
\* audio and nothing else but files of retained and frozen tracks, an inventory that
\* says so, and every selected playlist with its entries but for the frozen ones that
\* were published before, whatever was there before the run.
THEOREM CompletedRunsMirror == SyncSpec => []CompletedMirrors
<1>1. Core /\ Mirrored => CompletedMirrors
  <2> SUFFICES ASSUME Core, Mirrored, Completed
               PROVE  CompletedMirrors
    BY DEF CompletedMirrors
  <2> DEFINE j == Input
  <2>1. PICK i : i.lib = lib /\ Again(i, j) /\ plan.lists = ListWrites(i)
    BY CompletedAgain
  <2>2. IsInput(i) /\ MirrorOf(i, store) /\ j.store = store /\ j.lib = lib
    BY <2>1, CoreParts DEF Again
  <2> HIDE DEF j
  <2>3. /\ DesiredPaths(j) \subseteq DOMAIN store.audio
        /\ DOMAIN store.audio \subseteq DesiredPaths(j) \cup StayingPaths(i)
        /\ RowTracks(j) = Desired(j) \cup Staying(i)
        /\ RowTracks(j) \subseteq Desired(j) \cup Retained(j) \cup Captured(j)
        /\ \A t \in Staying(i) : RowPath(j, t) = RowPath(i, t)
        /\ \A t \in Desired(j) : RowMatches(j, t)
    BY <2>1, <2>2, FilesAgain DEF MirrorOf
  <2>4. DOMAIN store.audio \subseteq {RowPath(j, t) : t \in RowTracks(j)}
    <3>1. \A t \in Desired(j) : RowPath(j, t) = DesiredPath(j, t)
      <4> SUFFICES ASSUME NEW t \in Desired(j) PROVE RowPath(j, t) = DesiredPath(j, t)
        OBVIOUS
      <4>1. RowMatches(j, t)
        BY <2>3
      <4>2. j.store.rows[t] = [path |-> DesiredPath(j, t), version |-> j.lib.version[t],
                               profile |-> Mode(j.lib, t)]
        BY <4>1 DEF RowMatches
      <4>3. j.store.rows[t].path = DesiredPath(j, t)
        BY <4>2
      <4> QED
        BY <4>3 DEF RowPath
    <3> QED
      BY <2>3, <3>1 DEF DesiredPaths, StayingPaths
  <2>5. /\ DOMAIN store.listRows \subseteq lib.selected /\ Written(i) \subseteq DOMAIN store.listRows
        /\ \A s \in DOMAIN store.listRows : store.listRows[s] = PlaylistPath(i, s)
        /\ \A path \in DOMAIN store.lists : \E s \in lib.selected : path = PlaylistPath(i, s)
    BY <2>1, <2>2 DEF MirrorOf
  <2>6. NoListMoved =>
          DOMAIN store.lists \subseteq {store.listRows[s] : s \in DOMAIN store.listRows}
    BY <2>5 DEF NoListMoved
  <2>7. Untouched = lib.selected \ Written(i) /\ Untouched \subseteq lib.frozen
    BY <2>1, <2>2, UntouchedAgain
  <2>8. ASSUME NEW s \in lib.selected \ Untouched
        PROVE  /\ s \in DOMAIN store.listRows /\ store.listRows[s] \in DOMAIN store.lists
               /\ store.listRows[s] = PlaylistPath(j, s)
               /\ store.lists[store.listRows[s]] = Rendered(j, s)
    <3>1. s \in Written(i) /\ s \in i.lib.selected
      BY <2>1, <2>7
    <3>2. PICK k \in DOMAIN ListWrites(i) : ListWrites(i)[k] = ListWriteOf(i, s)
      <4>1. ItemsOf(ListWrites(i), Written(i), [r \in Written(i) |-> ListWriteOf(i, r)])
        BY <2>2, ListWritesListed
      <4> QED
        BY <3>1, <4>1 DEF ItemsOf
    <3>3. /\ PlaylistPath(i, s) \in DOMAIN store.lists
          /\ store.lists[PlaylistPath(i, s)] = Rendered(i, s)
      <4>1. /\ ListWriteOf(i, s).path = PlaylistPath(i, s)
            /\ ListWriteOf(i, s).entries = Rendered(i, s)
        BY DEF ListWriteOf
      <4> QED
        BY <2>2, <3>2, <4>1 DEF MirrorOf
    <3>4. s \in DOMAIN store.listRows /\ store.listRows[s] = PlaylistPath(i, s)
      BY <2>5, <3>1
    <3>5. PlaylistPath(j, s) = PlaylistPath(i, s) /\ Rendered(j, s) = Rendered(i, s)
      BY <2>1, <2>2, <3>1, <3>4, ListsAgain
    <3> QED
      BY <3>3, <3>4, <3>5
  <2> QED
    BY <2>3, <2>4, <2>5, <2>6, <2>7, <2>8 DEF CompletedMirrors, j
<1> QED
  BY <1>1, CoreAlways, MirroredAlways, PTL

\* Planning again right after a completed run finds no file and no playlist to change,
\* and no orphan if no sidecar was lost: synchronizing twice transfers nothing twice.
THEOREM CompletedRunsConverge == SyncSpec => []CompletedConverges
<1>1. Core /\ Mirrored => CompletedConverges
  <2> SUFFICES ASSUME Core, Mirrored, Completed
               PROVE  CompletedConverges
    BY DEF CompletedConverges
  <2>1. PICK i : Again(i, Input) /\ (calm => SidecarsOwned(i, store))
    BY CompletedAgain
  <2>2. Input.store = store /\ Input.lib = lib
    BY CoreParts
  <2> QED
    BY <2>1, <2>2, NothingAgain DEF CompletedConverges, NoListMoved
<1> QED
  BY <1>1, CoreAlways, MirroredAlways, PTL

-----------------------------------------------------------------------------
(* What a row says of the file it names.                                   *)

SaidBy(t, row) ==
  [of |-> Unit(t), version |-> row.version, profile |-> row.profile, whole |-> TRUE]

\* A row tells what is in its file, if there is one, unless the file is newer.
RowsTell(rows, audio, newer) ==
  \A t \in DOMAIN rows \ newer :
    rows[t].path \in DOMAIN audio => audio[rows[t].path] = SaidBy(t, rows[t])

\* What was recorded as wanted when the run was planned still is.
HeldRows(i, rows) ==
  \A t \in Desired(i) : RowMatches(i, t) => t \in DOMAIN rows /\ rows[t] = RowFor(i, t)

\* The file at this path, if there is one, is the one the library has of a track.
Holds(i, audio, path, t) ==
  path \in DOMAIN audio => audio[path] = SaidBy(t, RowFor(i, t))

\* No transfer ahead is noted as copied.
CopyStages == {"start", "partials"} \cup TransferStages
Uncarried(m) ==
  m.at.stage \in CopyStages =>
    \A k \in DOMAIN plan.transfers :
      m.at.stage \in {"start", "partials"} \/ k >= m.at.index =>
        m.carried[plan.transfers[k].track] = NoPath

\* So it is with the file just copied and with those copied and recorded before.
Carries(i, m, audio) ==
  /\ Uncarried(m)
  /\ \A t \in Track : m.carried[t] # NoPath => Holds(i, audio, m.carried[t], t)
  /\ m.at.stage = "recordFile" =>
       LET transfer == plan.transfers[m.at.index]
       IN  Holds(i, audio, transfer.path, transfer.track)

Telling(i) ==
  /\ i.lib = lib /\ Basis(i, plan, store.rows, store.listRows)
  /\ HeldRows(i, store.rows) /\ Carries(i, run, store.audio)

\* Whatever the runs before left half done, the rows tell what is on the device; a run
\* under way knows what it copied.
Told ==
  /\ RowsTell(store.rows, store.audio, unrecorded)
  /\ active => \E i : Telling(i)

LEMMA SameTelling ==
  ASSUME UNCHANGED plan, NEW i, i.lib = lib',
         Basis(i, plan, store'.rows, store'.listRows), HeldRows(i, store'.rows),
         Carries(i, run', store'.audio)
  PROVE  Telling(i)'
<1>1. Basis(i, plan, store.rows, store.listRows)'
  BY DEF Basis
<1>2. HeldRows(i, store.rows)'
  BY DEF HeldRows
<1>3. Carries(i, run, store.audio)'
  BY DEF Carries, Uncarried
<1> QED
  BY <1>1, <1>2, <1>3 DEF Telling

\* A row recorded now says what the library has.
LEMMA RecordedSays ==
  ASSUME NEW i, i.lib = lib, NEW t, NEW path, path = DesiredPath(i, t)
  PROVE  /\ RowOf(t, path) = RowFor(i, t)
         /\ ContentOf(t, TRUE) = SaidBy(t, RowFor(i, t))
<1>1. RowOf(t, path) = RowFor(i, t)
  BY DEF RowOf, RowFor
<1>2. RowFor(i, t).version = lib.version[t] /\ RowFor(i, t).profile = Mode(lib, t)
  BY DEF RowFor
<1> QED
  BY <1>1, <1>2 DEF ContentOf, SaidBy

\* Wanted tracks of one file say the same of it.
LEMMA SiblingsSay ==
  ASSUME NEW i, IsInput(i), NEW t \in Desired(i), NEW u \in Siblings(i, t)
  PROVE  /\ u \in Desired(i) /\ u \in Track /\ Unit(u) = Unit(t)
         /\ RowFor(i, u) = RowFor(i, t)
         /\ SaidBy(u, RowFor(i, u)) = SaidBy(t, RowFor(i, t))
<1>1. t \in Track /\ u \in Unit(t) /\ u \in Desired(i)
  BY InputParts DEF Siblings
<1>2. /\ u \in Track /\ Unit(u) = Unit(t) /\ i.lib.version[u] = i.lib.version[t]
      /\ Mode(i.lib, u) = Mode(i.lib, t)
  BY <1>1, SiblingsAgree
<1>3. DesiredPath(i, u) = DesiredPath(i, t)
  BY <1>1, SiblingsShareAPath
<1>4. RowFor(i, u) = RowFor(i, t)
  BY <1>2, <1>3 DEF RowFor
<1> QED
  BY <1>1, <1>2, <1>4 DEF SaidBy

\* A row that names a wanted file is one of its tracks.
LEMMA RowOfAWantedFile ==
  ASSUME NEW i, NEW p, NEW rows, NEW listRows, Basis(i, p, rows, listRows),
         NEW u \in Desired(i), NEW t \in DOMAIN rows, rows[t].path = DesiredPath(i, u)
  PROVE  t \in Track /\ Unit(t) = Unit(u)
<1>1. /\ IsInput(i) /\ RowsAreApart(i.store.rows)
      /\ \/ t \in RowTracks(i) /\ RowPath(i, t) = DesiredPath(i, u)
         \/ t \in Desired(i) /\ DesiredPath(i, t) = DesiredPath(i, u)
  BY DEF Basis
<1>2. DesiredPath(i, u).stem = i.lib.stem[u] /\ DesiredPath(i, u).slot = DesiredSlot(i, u)
  BY <1>1, DesiredPathNamed
<1>3. CASE t \in RowTracks(i) /\ RowPath(i, t) = DesiredPath(i, u)
  BY <1>1, <1>2, <1>3, RowsKeepTheirSlots, InputParts
<1>4. CASE t \in Desired(i) /\ DesiredPath(i, t) = DesiredPath(i, u)
  <2>1. DesiredPath(i, t).stem = i.lib.stem[t] /\ DesiredPath(i, t).slot = DesiredSlot(i, t)
    BY <1>1, <1>4, DesiredPathNamed
  <2> QED
    BY <1>1, <1>2, <1>4, <2>1, SlotsApart, InputParts
<1> QED
  BY <1>1, <1>3, <1>4

-----------------------------------------------------------------------------
(* What an effect makes of the files and rows.                             *)

\* No file is other than it was, but some may be gone.
AudioKept(audio) ==
  \A path \in DOMAIN audio : path \in DOMAIN store.audio /\ audio[path] = store.audio[path]

LEMMA DroppedKept ==
  ASSUME NEW audio, NEW path, IsDrop(audio, store.audio, path)
  PROVE  AudioKept(audio)
BY DEF AudioKept, IsDrop

LEMMA UnperformedKept ==
  ASSUME IsRecord(store), NEW after \in Unperformed
  PROVE  after.rows = store.rows /\ AudioKept(after.audio)
<1>1. CASE after = store
  BY <1>1 DEF AudioKept
<1>2. CASE \E path : after = DropFile(path)
  <2>1. PICK path : after = DropFile(path)
    BY <1>2
  <2>2. IsWithout(after, path)
    BY <2>1, DropFileParts
  <2> QED
    BY <2>2, DroppedKept DEF IsWithout
<1> QED
  BY <1>1, <1>2 DEF Unperformed

\* Only a copy brings a file.
LEMMA PerformedKept ==
  ASSUME NEW after, NEW sidecarToo, Effect(after, sidecarToo), ~Awaiting("copy")
  PROVE  AudioKept(after.audio)
<1>1. CASE after.audio = store.audio
  BY <1>1 DEF AudioKept
<1>2. CASE IsWithout(after, DoomedPath)
  BY <1>2, DroppedKept DEF IsWithout
<1> QED
  BY <1>1, <1>2 DEF Effect, ButRows, ButListRows, ButLists, ButSidecars, Awaiting

\* Only three effects change the rows.
LEMMA PerformedRows ==
  ASSUME NEW after, NEW sidecarToo, Effect(after, sidecarToo)
  PROVE  \/ after.rows = store.rows
         \/ run.at.stage \in {"recordFile", "recordShared", "forgetFile"}
BY DEF Effect, ButAudio, ButListRows, ButLists, ButSidecars, IsWithout, Awaiting

-----------------------------------------------------------------------------
(* The rows tell what is in their files, whatever becomes of an effect.    *)

LEMMA KeptTell ==
  ASSUME NEW newer, RowsTell(store.rows, store.audio, newer), NEW rows, NEW audio,
         \A t \in DOMAIN rows : t \in DOMAIN store.rows /\ rows[t] = store.rows[t],
         AudioKept(audio)
  PROVE  RowsTell(rows, audio, newer)
BY DEF RowsTell, AudioKept

\* A copy is newer than the rows of its file.
LEMMA CopiedTell ==
  ASSUME RunInv, NEW i, Basis(i, plan, store.rows, store.listRows),
         RowsTell(store.rows, store.audio, unrecorded), Awaiting("copy"),
         NEW audio, NEW content,
         IsPut(audio, store.audio, plan.transfers[Index].path, content)
  PROVE  RowsTell(store.rows, audio, unrecorded \cup Unit(plan.transfers[Index].track))
<1> DEFINE transfer == plan.transfers[Index]
<1>1. transfer.track \in Desired(i) /\ transfer.path = DesiredPath(i, transfer.track)
  <2>1. Index \in DOMAIN plan.transfers
    BY EntryInPlan DEF Awaiting, TransferStages
  <2> QED
    BY <2>1, PlanFields, TransferFacts
<1> HIDE DEF transfer
<1>2. IsPut(audio, store.audio, transfer.path, content)
  BY DEF transfer
<1>3. ASSUME NEW t \in DOMAIN store.rows, t \notin unrecorded, t \notin Unit(transfer.track),
             store.rows[t].path \in DOMAIN audio
      PROVE  audio[store.rows[t].path] = SaidBy(t, store.rows[t])
  <2>1. store.rows[t].path # transfer.path
    <3> SUFFICES ASSUME store.rows[t].path = transfer.path PROVE FALSE
      OBVIOUS
    <3>1. t \in Track /\ Unit(t) = Unit(transfer.track)
      BY <1>1, RowOfAWantedFile
    <3> QED
      BY <1>3, <3>1, UnitFacts
  <2> QED
    BY <1>2, <1>3, <2>1 DEF IsPut, RowsTell
<1> QED
  BY <1>3 DEF RowsTell, transfer

LEMMA RecordedTell ==
  ASSUME NEW newer, RowsTell(store.rows, store.audio, newer), NEW rows, NEW t, NEW row,
         IsPut(rows, store.rows, t, row),
         row.path \in DOMAIN store.audio => store.audio[row.path] = SaidBy(t, row)
  PROVE  RowsTell(rows, store.audio, newer \ {t})
BY DEF RowsTell, IsPut

\* The file a track shares is the one the library has, or no one knows.
LEMMA SharedHolds ==
  ASSUME Core, active, NEW i, Telling(i), RowsTell(store.rows, store.audio, unrecorded),
         Awaiting("recordShared")
  PROVE  LET shared == plan.shared[Index]
         IN  \/ shared.resident /\ shared.carrier \in unrecorded
             \/ Holds(i, store.audio, run.sharedPath, shared.track)
<1>1. /\ IsInput(i) /\ plan.shared = SharedRecords(i) /\ RunInv /\ Placed(run)
      /\ Basis(i, plan, store.rows, store.listRows)
      /\ HeldRows(i, store.rows) /\ Carries(i, run, store.audio)
  BY PlanFields DEF Telling, Core
<1>2. Index \in DOMAIN SharedRecords(i)
  BY <1>1, EntryInPlan
<1>3. PICK t \in SharedTracks(i) : SharedRecords(i)[Index] = SharedOf(i, t)
  BY <1>1, <1>2, SharedListed DEF ItemsOf
<1>4. PICK shared : shared = plan.shared[Index]
  OBVIOUS
<1>5. /\ shared.track = t /\ shared.resident = (Anchors(i, t) # {})
      /\ shared.carrier = IF Anchors(i, t) # {} THEN Least(Anchors(i, t)) ELSE Carrier(i, t)
  BY <1>1, <1>3, <1>4 DEF SharedOf
<1>6. PICK c : c = shared.carrier
  OBVIOUS
<1>7. t \in Desired(i)
  BY DEF SharedTracks
<1>8. c \in Siblings(i, t) /\ (shared.resident => c \in Anchors(i, t))
  BY <1>1, <1>5, <1>6, <1>7, CarrierFacts DEF Anchors
<1>9. /\ c \in Desired(i) /\ c \in Track /\ RowFor(i, c) = RowFor(i, t)
      /\ SaidBy(c, RowFor(i, c)) = SaidBy(t, RowFor(i, t))
  BY <1>1, <1>7, <1>8, SiblingsSay
<1>10. run.sharedPath = DesiredPath(i, t)
  BY <1>1, <1>4, <1>5, RecordedWhereWanted
<1>11. CASE shared.resident /\ c \notin unrecorded
  <2>1. RowMatches(i, c)
    BY <1>8, <1>11 DEF Anchors, Delivered
  <2>2. c \in DOMAIN store.rows /\ store.rows[c] = RowFor(i, c)
    BY <1>1, <1>9, <2>1 DEF HeldRows
  <2>3. store.rows[c].path = run.sharedPath
    BY <1>9, <1>10, <2>2 DEF RowFor
  <2>4. Holds(i, store.audio, run.sharedPath, t)
    BY <1>9, <1>11, <2>2, <2>3 DEF RowsTell, Holds
  <2> QED
    BY <1>4, <1>5, <2>4
<1>12. CASE ~shared.resident
  <2>1. run.sharedPath = run.carried[c] /\ run.sharedPath # NoPath
    BY <1>1, <1>4, <1>6, <1>12 DEF Placed, PlacedAt, Awaiting, Index
  <2>2. Holds(i, store.audio, run.sharedPath, c)
    BY <1>1, <1>9, <2>1 DEF Carries
  <2>3. Holds(i, store.audio, run.sharedPath, t)
    BY <1>9, <2>2 DEF Holds
  <2> QED
    BY <1>4, <1>5, <2>3
<1> QED
  BY <1>4, <1>6, <1>11, <1>12

LEMMA PutAudioParts ==
  ASSUME IsRecord(store), NEW whole
  PROVE  LET transfer == plan.transfers[Index]
             after == PutAudio(whole)
         IN  /\ after.rows = store.rows
             /\ IsPut(after.audio, store.audio, transfer.path,
                      ContentOf(transfer.track, whole))
<1> DEFINE transfer == plan.transfers[Index]
           audio == Put(store.audio, transfer.path, ContentOf(transfer.track, whole))
<1>1. PutAudio(whole) = [store EXCEPT !.audio = audio]
  BY DEF PutAudio
<1>2. IsPut(audio, store.audio, transfer.path, ContentOf(transfer.track, whole))
  BY PutParts
<1> HIDE DEF audio
<1>3. PutAudio(whole).rows = store.rows /\ PutAudio(whole).audio = audio
  BY <1>1, PartChanged DEF ButAudio
<1> QED
  BY <1>2, <1>3

\* Of the files a copy was begun on, half done or whole.
LEMMA HalfDoneParts ==
  ASSUME IsRecord(store), NEW after \in HalfDone
  PROVE  \/ \E sidecarToo \in BOOLEAN : Effect(after, sidecarToo)
         \/ Awaiting("copy") /\ after = PutAudio(FALSE)
<1>1. CASE \E sidecarToo \in BOOLEAN : after = Performed(sidecarToo)
  BY <1>1, PerformedEffect
<1>2. CASE Awaiting("copy") /\ after = PutAudio(FALSE)
  BY <1>2
<1> QED
  BY <1>1, <1>2 DEF HalfDone

LEMMA HalfDoneTell ==
  ASSUME Core, active, NEW i, Telling(i), RowsTell(store.rows, store.audio, unrecorded),
         NEW after \in HalfDone
  PROVE  RowsTell(after.rows, after.audio, Unrecorded)
<1>1. /\ IsRecord(store) /\ RunInv /\ Placed(run) /\ i.lib = lib
      /\ Basis(i, plan, store.rows, store.listRows) /\ Carries(i, run, store.audio)
  BY DEF Core, Telling
<1>2. CASE Awaiting("copy")
  <2>1. Unrecorded = unrecorded \cup Unit(plan.transfers[Index].track)
    BY <1>2 DEF Unrecorded, Awaiting
  <2>2. \E content : IsPut(after.audio, store.audio, plan.transfers[Index].path, content)
    BY <1>1, <1>2, HalfDoneParts, PutAudioParts DEF Effect
  <2>3. after.rows = store.rows
    BY <1>1, <1>2, HalfDoneParts, PutAudioParts DEF Effect, ButAudio
  <2> QED
    BY <1>1, <1>2, <2>1, <2>2, <2>3, CopiedTell
<1>3. CASE Awaiting("recordFile")
  <2>1. PICK sidecarToo \in BOOLEAN : Effect(after, sidecarToo)
    BY <1>1, <1>3, HalfDoneParts DEF Awaiting
  <2>2. PICK t : t = plan.transfers[Index].track
    OBVIOUS
  <2>3. /\ after.audio = store.audio
        /\ IsPut(after.rows, store.rows, t, RowOf(t, run.copiedPath))
    BY <1>3, <2>1, <2>2 DEF Effect, ButRows
  <2>4. /\ run.copiedPath = DesiredPath(i, t)
        /\ run.copiedPath = plan.transfers[Index].path
    BY <1>1, <1>3, <2>2, RecordedWhereWanted, RecordedPath
  <2>5. RowOf(t, run.copiedPath) = RowFor(i, t) /\ RowFor(i, t).path = run.copiedPath
    BY <1>1, <2>4, RecordedSays DEF RowFor
  <2>6. Holds(i, store.audio, run.copiedPath, t)
    BY <1>1, <1>3, <2>2, <2>4 DEF Carries, Awaiting, Index
  <2>7. RowsTell(after.rows, after.audio, unrecorded \ {t})
    BY <2>3, <2>5, <2>6, RecordedTell DEF Holds
  <2> QED
    BY <1>3, <2>2, <2>7 DEF Unrecorded, Awaiting
<1>4. CASE Awaiting("recordShared")
  <2>1. PICK sidecarToo \in BOOLEAN : Effect(after, sidecarToo)
    BY <1>1, <1>4, HalfDoneParts DEF Awaiting
  <2>2. PICK shared : shared = plan.shared[Index]
    OBVIOUS
  <2>3. PICK t : t = shared.track
    OBVIOUS
  <2>4. /\ after.audio = store.audio
        /\ IsPut(after.rows, store.rows, t, RowOf(t, run.sharedPath))
    BY <1>4, <2>1, <2>2, <2>3 DEF Effect, ButRows
  <2>5. CASE shared.resident /\ shared.carrier \in unrecorded
    <3>1. Unrecorded = unrecorded \cup {t}
      BY <1>4, <2>2, <2>3, <2>5 DEF Unrecorded, Awaiting
    <3> QED
      BY <2>4, <3>1 DEF RowsTell, IsPut
  <2>6. CASE ~(shared.resident /\ shared.carrier \in unrecorded)
    <3>1. Unrecorded = unrecorded \ {t}
      BY <1>4, <2>2, <2>3, <2>6 DEF Unrecorded, Awaiting
    <3>2. run.sharedPath = DesiredPath(i, t)
      BY <1>1, <1>4, <2>2, <2>3, RecordedWhereWanted
    <3>3. RowOf(t, run.sharedPath) = RowFor(i, t) /\ RowFor(i, t).path = run.sharedPath
      BY <1>1, <3>2, RecordedSays DEF RowFor
    <3>4. Holds(i, store.audio, run.sharedPath, t)
      BY <1>4, <2>2, <2>3, <2>6, SharedHolds
    <3>5. RowsTell(after.rows, after.audio, unrecorded \ {t})
      BY <2>4, <3>3, <3>4, RecordedTell DEF Holds
    <3> QED
      BY <3>1, <3>5
  <2> QED
    BY <2>5, <2>6
<1>5. CASE run.at.stage \notin {"copy", "recordFile", "recordShared"}
  <2>1. PICK sidecarToo \in BOOLEAN : Effect(after, sidecarToo)
    BY <1>1, <1>5, HalfDoneParts DEF Awaiting
  <2>2. AudioKept(after.audio)
    BY <1>5, <2>1, PerformedKept DEF Awaiting
  <2>3. \A t \in DOMAIN after.rows : t \in DOMAIN store.rows /\ after.rows[t] = store.rows[t]
    <3>1. CASE Awaiting("forgetFile")
      BY <2>1, <3>1 DEF Effect, IsDrop
    <3>2. CASE ~Awaiting("forgetFile")
      BY <1>5, <2>1, <3>2, PerformedRows DEF Awaiting
    <3> QED
      BY <3>1, <3>2
  <2>4. Unrecorded = unrecorded
    BY <1>5 DEF Unrecorded, Awaiting
  <2> QED
    BY <2>2, <2>3, <2>4, KeptTell
<1> QED
  BY <1>2, <1>3, <1>4, <1>5 DEF Awaiting

\* No row that is as wanted is forgotten, and what is recorded is as wanted.
LEMMA HeldStay ==
  ASSUME Core, active, NEW i, Telling(i), NEW after \in CutShort
  PROVE  HeldRows(i, after.rows)
<1>1. /\ IsRecord(store) /\ RunInv /\ Placed(run) /\ i.lib = lib /\ IsInput(i)
      /\ Basis(i, plan, store.rows, store.listRows) /\ HeldRows(i, store.rows)
      /\ plan.removals = Removals(i)
  BY PlanFields DEF Core, Telling
<1>2. CASE after.rows = store.rows
  BY <1>1, <1>2
<1>3. CASE \E t \in Desired(i) : IsPut(after.rows, store.rows, t, RowFor(i, t))
  BY <1>1, <1>3 DEF HeldRows, IsPut
<1>4. CASE \E t : t \notin Desired(i) /\ IsDrop(after.rows, store.rows, t)
  BY <1>1, <1>4 DEF HeldRows, IsDrop
<1>5. ASSUME NEW sidecarToo, Effect(after, sidecarToo)
      PROVE  HeldRows(i, after.rows)
  <2>1. CASE Awaiting("recordFile")
    <3>1. PICK t : t = plan.transfers[Index].track
      OBVIOUS
    <3>2. IsPut(after.rows, store.rows, t, RowOf(t, run.copiedPath))
      BY <1>5, <2>1, <3>1 DEF Effect
    <3>3. t \in Desired(i) /\ run.copiedPath = DesiredPath(i, t)
      BY <1>1, <2>1, <3>1, RecordedWhereWanted
    <3>4. RowOf(t, run.copiedPath) = RowFor(i, t)
      BY <1>1, <3>3, RecordedSays
    <3> QED
      BY <1>3, <3>2, <3>3, <3>4
  <2>2. CASE Awaiting("recordShared")
    <3>1. PICK t : t = plan.shared[Index].track
      OBVIOUS
    <3>2. IsPut(after.rows, store.rows, t, RowOf(t, run.sharedPath))
      BY <1>5, <2>2, <3>1 DEF Effect
    <3>3. t \in Desired(i) /\ run.sharedPath = DesiredPath(i, t)
      BY <1>1, <2>2, <3>1, RecordedWhereWanted
    <3>4. RowOf(t, run.sharedPath) = RowFor(i, t)
      BY <1>1, <3>3, RecordedSays
    <3> QED
      BY <1>3, <3>2, <3>3, <3>4
  <2>3. CASE Awaiting("forgetFile")
    <3>1. PICK t : t = plan.removals[Index].track
      OBVIOUS
    <3>2. IsDrop(after.rows, store.rows, t)
      BY <1>5, <2>3, <3>1 DEF Effect
    <3>3. Index \in DOMAIN Removals(i)
      BY <1>1, <2>3, EntryInPlan DEF Awaiting
    <3>4. t \notin Desired(i)
      <4>1. CASE \E u \in Removed(i) : Removals(i)[Index] = GoneOf(i, u)
        BY <1>1, <3>1, <4>1, StayingFacts DEF GoneOf, Leaving
      <4>2. CASE \E path \in Orphans(i) : Removals(i)[Index] = OrphanAt(path)
        BY <1>1, <3>1, <4>2, InputParts, UnattributedIsNoTrack DEF OrphanAt
      <4> QED
        BY <1>1, <3>3, <4>1, <4>2, RemovalsListed
    <3> QED
      BY <1>4, <3>2, <3>4
  <2>4. CASE run.at.stage \notin {"recordFile", "recordShared", "forgetFile"}
    BY <1>2, <1>5, <2>4, PerformedRows
  <2> QED
    BY <2>1, <2>2, <2>3, <2>4 DEF Awaiting
<1>6. CASE after \in Unperformed
  BY <1>1, <1>2, <1>6, UnperformedKept
<1>7. CASE after \in HalfDone
  BY <1>1, <1>2, <1>5, <1>7, HalfDoneParts, PutAudioParts
<1> QED
  BY <1>6, <1>7 DEF CutShort

-----------------------------------------------------------------------------
(* The run knows what it copied.                                           *)

\* Where the run notes the path of a file, and where it goes from a copy.
LEMMA AnswerCarries ==
  ASSUME RunInv, Placed(run), NEW ok \in BOOLEAN, Respond(ok)
  PROVE  /\ \/ run'.carried = run.carried
            \/ /\ Awaiting("recordFile")
               /\ run'.carried =
                    [run.carried EXCEPT ![plan.transfers[Index].track] = run.copiedPath]
         /\ run'.at.stage = "recordFile" =>
              ok /\ Awaiting("copy") /\ run'.at.index = Index
<1>0. 0 \in Bytes
  BY NoBytesAreReported
<1> DEFINE Quiet == run'.carried = run.carried /\ run'.at.stage # "recordFile"
<1> SUFFICES \/ Quiet
             \/ /\ Awaiting("copy") /\ ok /\ run'.carried = run.carried
                /\ run'.at.index = Index
             \/ /\ Awaiting("recordFile") /\ run'.at.stage # "recordFile"
                /\ \/ run'.carried = run.carried
                   \/ run'.carried =
                        [run.carried EXCEPT ![plan.transfers[Index].track] = run.copiedPath]
  OBVIOUS
<1>a. \A from : TransfersEntered(run', from) => run'.at.stage # "recordFile"
  BY DEF TransfersEntered, Entered, MiddleStages, LateStages, SidecarStages
<1>b. \A from : Entered(run', MiddleStages, from) => run'.at.stage # "recordFile"
  BY DEF Entered, MiddleStages, LateStages, SidecarStages
<1>c. \A from : Entered(run', LateStages, from) => run'.at.stage # "recordFile"
  BY DEF Entered, LateStages
<1>1. CASE PartialsCleaned(ok)
  BY <1>1, <1>a, PartialsTurn DEF SameRecords
<1>2. CASE Transcoded(ok, 0)
  <2>1. run'.carried = run.carried
    BY <1>0, <1>2, TranscodedTurn
  <2>2. run'.at.stage # "recordFile"
    <3>1. CASE ok
      <4>1. run'.at = [stage |-> "copy", index |-> Index]
        BY <1>0, <1>2, <3>1, TranscodedTurn
      <4> QED
        BY <4>1
    <3>2. CASE ~ok
      BY <1>0, <1>2, <1>a, <3>2, TranscodedTurn
    <3> QED
      BY <3>1, <3>2
  <2> QED
    BY <2>1, <2>2
<1>3. CASE Awaiting("copy") /\ TrackCopied(ok, 0, plan.transfers[Index].path)
  <2>1. plan.transfers[Index].path \in Path
    BY <1>3, EntryInPlan DEF Awaiting, TransferStages, Transfer
  <2>2. run'.carried = run.carried
    BY <1>0, <1>3, <2>1, TrackCopiedTurn
  <2>3. CASE ok
    <3>1. run'.at = [stage |-> "recordFile", index |-> Index]
      BY <1>0, <1>3, <2>1, <2>3, TrackCopiedTurn
    <3>2. run'.at.index = Index
      BY <3>1
    <3> QED
      BY <1>3, <2>2, <2>3, <3>2
  <2>4. CASE ~ok
    <3>1. TransfersEntered(run', Index + 1)
      BY <1>0, <1>3, <2>1, <2>4, TrackCopiedTurn
    <3> QED
      BY <1>a, <2>2, <3>1
  <2> QED
    BY <2>3, <2>4
<1>4. CASE FileRecorded(ok)
  <2>1. Awaiting("recordFile")
    BY <1>4 DEF FileRecorded
  <2> QED
    BY <1>4, <1>a, <2>1, FileRecordedTurn
<1>5. CASE SharedFileRecorded(ok)
  BY <1>5, <1>b, SharedTurn DEF SameRecords
<1>6. CASE AnalysisWritten(ok, 0)
  BY <1>0, <1>6, <1>b, AnalysisTurn DEF SameRecords
<1>7. CASE PlaylistWritten(ok)
  <2>1. run'.carried = run.carried
    BY <1>7, PlaylistWrittenTurn DEF SameRecords
  <2>2. CASE ok
    <3>1. run'.at = [stage |-> "recordList", index |-> Index]
      BY <1>7, <2>2, PlaylistWrittenTurn
    <3> QED
      BY <2>1, <3>1
  <2>3. CASE ~ok
    BY <1>7, <1>b, <2>1, <2>3, PlaylistWrittenTurn
  <2> QED
    BY <2>2, <2>3
<1>8. CASE PlaylistRecorded(ok)
  BY <1>8, <1>b, PlaylistRecordedTurn
<1>9. CASE PlaylistRemoved(ok)
  <2>1. /\ run'.carried = run.carried
        /\ \/ run'.at = [stage |-> "forgetList", index |-> Index]
           \/ Entered(run', LateStages, Index + 1)
    BY <1>9, PlaylistRemovedTurn
  <2> QED
    BY <1>c, <2>1
<1>10. CASE PlaylistForgotten(ok)
  BY <1>10, <1>c, PlaylistForgottenTurn DEF SameRecords
<1>11. CASE TrackRemoved(ok)
  <2>1. /\ SameRecords(run, run')
        /\ \/ run'.at = [stage |-> "forgetFile", index |-> Index]
           \/ Entered(run', LateStages, ListsGone)
    BY <1>11, TrackRemovedTurn
  <2> QED
    BY <1>c, <2>1 DEF SameRecords
<1>12. CASE FileForgotten(ok)
  BY <1>12, <1>c, FileForgottenTurn DEF SameRecords
<1>13. CASE ReplacedFileRemoved(ok)
  BY <1>13, <1>c, ReplacedTurn DEF SameRecords
<1> QED
  BY <1>1, <1>2, <1>3, <1>4, <1>5, <1>6, <1>7, <1>8, <1>9, <1>10, <1>11, <1>12, <1>13
     DEF Respond

\* Transfers are taken in the order of the plan.
LEMMA AnswerStages ==
  ASSUME RunInv, Placed(run), NEW ok \in BOOLEAN, Respond(ok), run'.at.stage \in CopyStages
  PROVE  /\ run'.at.stage \in TransferStages
         /\ \/ Awaiting("partials")
            \/ /\ run.at.stage \in TransferStages
               /\ run'.at.index = Index + 1 \/ (run'.at.index = Index /\ ~Awaiting("recordFile"))
<1>0. 0 \in Bytes
  BY NoBytesAreReported
<1>a. ASSUME NEW from, TransfersEntered(run', from)
      PROVE  run'.at.index = from /\ run'.at.stage \in TransferStages
  BY <1>a DEF TransfersEntered, Entered, MiddleStages, LateStages, SidecarStages, CopyStages,
              TransferStages
<1>b. ASSUME NEW from, Entered(run', MiddleStages, from)
      PROVE  FALSE
  BY <1>b DEF Entered, MiddleStages, LateStages, SidecarStages, CopyStages, TransferStages
<1>c. ASSUME NEW from, Entered(run', LateStages, from)
      PROVE  FALSE
  BY <1>c DEF Entered, LateStages, CopyStages, TransferStages
<1>d. ASSUME NEW stage, NEW index, run'.at = [stage |-> stage, index |-> index]
      PROVE  run'.at.stage = stage /\ run'.at.index = index
  BY <1>d
<1>e. "transcode" \in TransferStages /\ "copy" \in TransferStages /\ "recordFile" \in TransferStages
      /\ \A stage \in {"recordList", "forgetList", "forgetFile"} : stage \notin CopyStages
  BY DEF TransferStages, CopyStages
<1>1. CASE PartialsCleaned(ok)
  BY <1>1, <1>a, PartialsTurn DEF PartialsCleaned
<1>2. CASE Transcoded(ok, 0)
  <2>1. Awaiting("transcode")
    BY <1>2 DEF Transcoded
  <2>2. CASE ok
    <3>1. run'.at = [stage |-> "copy", index |-> Index]
      BY <1>0, <1>2, <2>2, TranscodedTurn
    <3> QED
      BY <1>d, <1>e, <2>1, <3>1 DEF Awaiting
  <2>3. CASE ~ok
    <3>1. TransfersEntered(run', Index + 1)
      BY <1>0, <1>2, <2>3, TranscodedTurn
    <3> QED
      BY <1>a, <1>e, <2>1, <3>1 DEF Awaiting
  <2> QED
    BY <2>2, <2>3
<1>3. CASE Awaiting("copy") /\ TrackCopied(ok, 0, plan.transfers[Index].path)
  <2>1. plan.transfers[Index].path \in Path
    BY <1>3, EntryInPlan DEF Awaiting, TransferStages, Transfer
  <2>2. CASE ok
    <3>1. run'.at = [stage |-> "recordFile", index |-> Index]
      BY <1>0, <1>3, <2>1, <2>2, TrackCopiedTurn
    <3> QED
      BY <1>3, <1>d, <1>e, <3>1 DEF Awaiting
  <2>3. CASE ~ok
    <3>1. TransfersEntered(run', Index + 1)
      BY <1>0, <1>3, <2>1, <2>3, TrackCopiedTurn
    <3> QED
      BY <1>3, <1>a, <1>e, <3>1 DEF Awaiting
  <2> QED
    BY <2>2, <2>3
<1>4. CASE FileRecorded(ok)
  <2>1. Awaiting("recordFile")
    BY <1>4 DEF FileRecorded
  <2>2. TransfersEntered(run', Index + 1)
    BY <1>4, FileRecordedTurn
  <2> QED
    BY <1>a, <1>e, <2>1, <2>2 DEF Awaiting
<1>5. CASE SharedFileRecorded(ok)
  BY <1>5, <1>b, SharedTurn
<1>6. CASE AnalysisWritten(ok, 0)
  BY <1>0, <1>6, <1>b, AnalysisTurn
<1>7. CASE PlaylistWritten(ok)
  <2>1. CASE ok
    <3>1. run'.at = [stage |-> "recordList", index |-> Index]
      BY <1>7, <2>1, PlaylistWrittenTurn
    <3> QED
      BY <1>d, <1>e, <3>1
  <2>2. CASE ~ok
    BY <1>7, <1>b, <2>2, PlaylistWrittenTurn
  <2> QED
    BY <2>1, <2>2
<1>8. CASE PlaylistRecorded(ok)
  BY <1>8, <1>b, PlaylistRecordedTurn
<1>9. CASE PlaylistRemoved(ok)
  <2>1. \/ run'.at = [stage |-> "forgetList", index |-> Index]
        \/ Entered(run', LateStages, Index + 1)
    BY <1>9, PlaylistRemovedTurn
  <2> QED
    BY <1>c, <1>d, <1>e, <2>1
<1>10. CASE PlaylistForgotten(ok)
  BY <1>10, <1>c, PlaylistForgottenTurn
<1>11. CASE TrackRemoved(ok)
  <2>1. \/ run'.at = [stage |-> "forgetFile", index |-> Index]
        \/ Entered(run', LateStages, ListsGone)
    BY <1>11, TrackRemovedTurn
  <2> QED
    BY <1>c, <1>d, <1>e, <2>1
<1>12. CASE FileForgotten(ok)
  BY <1>12, <1>c, FileForgottenTurn
<1>13. CASE ReplacedFileRemoved(ok)
  BY <1>13, <1>c, ReplacedTurn
<1> QED
  BY <1>1, <1>2, <1>3, <1>4, <1>5, <1>6, <1>7, <1>8, <1>9, <1>10, <1>11, <1>12, <1>13
     DEF Respond

LEMMA AnswerUncarried ==
  ASSUME RunInv, Placed(run), NEW ok \in BOOLEAN, Respond(ok), Uncarried(run)
  PROVE  Uncarried(run')
<1> SUFFICES ASSUME run'.at.stage \in CopyStages, NEW k \in DOMAIN plan.transfers,
                    run'.at.stage \in {"start", "partials"} \/ k >= run'.at.index
             PROVE  run'.carried[plan.transfers[k].track] = NoPath
  BY DEF Uncarried
<1>1. plan \in MirrorPlan /\ Index \in Nat
  BY RunIndex
<1>2. k \in Nat /\ plan.transfers[k].track \in Track
  <2>1. plan.transfers \in Seq(Transfer)
    BY <1>1, PlanParts
  <2>2. k \in 1..Len(plan.transfers) /\ Len(plan.transfers) \in Nat
    BY <2>1, LenProperties
  <2>3. plan.transfers[k] \in Transfer
    BY <2>1, <2>2, ElementOfSeq
  <2> QED
    BY <2>2, <2>3 DEF Transfer
<1>3. /\ run'.at.stage \in TransferStages
      /\ \/ Awaiting("partials")
         \/ /\ run.at.stage \in TransferStages
            /\ run'.at.index = Index + 1 \/ (run'.at.index = Index /\ ~Awaiting("recordFile"))
  BY AnswerStages
<1>4. \/ run'.carried = run.carried
      \/ /\ Awaiting("recordFile")
         /\ run'.carried =
              [run.carried EXCEPT ![plan.transfers[Index].track] = run.copiedPath]
  BY AnswerCarries
<1>5. k >= run'.at.index
  BY <1>3 DEF TransferStages
<1>6. run.carried[plan.transfers[k].track] = NoPath
  <2>1. CASE Awaiting("partials")
    BY <2>1 DEF Awaiting, Uncarried, CopyStages
  <2>2. CASE run.at.stage \in TransferStages /\ ~Awaiting("partials")
    <3>1. k >= Index
      BY <1>1, <1>2, <1>3, <1>5, <2>2
    <3> QED
      BY <2>2, <3>1 DEF Uncarried, CopyStages, Index
  <2> QED
    BY <1>3, <2>1, <2>2 DEF Awaiting, TransferStages
<1>7. CASE run'.carried = run.carried
  BY <1>6, <1>7
<1>8. CASE /\ Awaiting("recordFile")
           /\ run'.carried =
                [run.carried EXCEPT ![plan.transfers[Index].track] = run.copiedPath]
  <2>1. k # Index
    BY <1>1, <1>2, <1>3, <1>5, <1>8 DEF Awaiting
  <2>2. Index \in DOMAIN plan.transfers
    BY <1>8, EntryInPlan DEF Awaiting, TransferStages
  <2>3. plan.transfers[k].track # plan.transfers[Index].track
    BY <2>1, <2>2 DEF RunInv, TransfersOnce
  <2>4. run.carried \in [Track -> PathOrNone]
    BY RunIndex, RunParts
  <2> QED
    BY <1>2, <1>6, <1>8, <2>3, <2>4
<1> QED
  BY <1>4, <1>7, <1>8

LEMMA HoldsKept ==
  ASSUME NEW i, NEW audio, AudioKept(audio), NEW path, NEW t, Holds(i, store.audio, path, t)
  PROVE  Holds(i, audio, path, t)
BY DEF AudioKept, Holds

\* An answered effect, with the store it leaves.
LEMMA AnswerTells ==
  ASSUME Core, active, NEW i, Telling(i), NEW ok \in BOOLEAN, Answered(ok)
  PROVE  Carries(i, run', store'.audio)
<1>1. /\ IsRecord(store) /\ RunInv /\ Placed(run) /\ i.lib = lib /\ IsInput(i)
      /\ Basis(i, plan, store.rows, store.listRows) /\ Carries(i, run, store.audio)
      /\ plan.transfers = Transfers(i)
  BY PlanFields DEF Core, Telling
<1>2. /\ Respond(ok)
      /\ store' \in IF ok THEN {Performed(TRUE), Performed(FALSE)}
                    ELSE IF run.at.stage \in WriteStages THEN CutShort ELSE Unperformed
  BY DEF Answered
<1>2a. Uncarried(run) /\ Uncarried(run')
  BY <1>1, <1>2, AnswerUncarried DEF Carries
<1>3. /\ \/ run'.carried = run.carried
         \/ /\ Awaiting("recordFile")
            /\ run'.carried =
                 [run.carried EXCEPT ![plan.transfers[Index].track] = run.copiedPath]
      /\ run'.at.stage = "recordFile" =>
           ok /\ Awaiting("copy") /\ run'.at.index = Index
  BY <1>1, <1>2, AnswerCarries
<1>4. ok => \E sidecarToo \in BOOLEAN : Effect(store', sidecarToo)
  BY <1>1, <1>2, PerformedEffect
<1>5. \A t \in Track : run'.carried[t] # NoPath => Holds(i, store.audio, run'.carried[t], t)
  <2>1. CASE run'.carried = run.carried
    BY <1>1, <2>1 DEF Carries
  <2>2. CASE /\ Awaiting("recordFile")
             /\ run'.carried =
                  [run.carried EXCEPT ![plan.transfers[Index].track] = run.copiedPath]
    <3> SUFFICES ASSUME NEW t \in Track, run'.carried[t] # NoPath
                 PROVE  Holds(i, store.audio, run'.carried[t], t)
      OBVIOUS
    <3>1. run.carried \in [Track -> PathOrNone]
      BY <1>1, RunIndex, RunParts
    <3>2. CASE t # plan.transfers[Index].track
      <4>1. run'.carried[t] = run.carried[t]
        BY <2>2, <3>1, <3>2
      <4> QED
        BY <1>1, <4>1 DEF Carries
    <3>3. CASE t = plan.transfers[Index].track
      <4>1. run'.carried[t] = run.copiedPath
        BY <2>2, <3>1, <3>3
      <4>2. run.copiedPath = plan.transfers[Index].path
        BY <1>1, <2>2, RecordedPath
      <4> QED
        BY <1>1, <2>2, <3>3, <4>1, <4>2 DEF Carries, Awaiting, Index
    <3> QED
      BY <3>2, <3>3
  <2> QED
    BY <1>3, <2>1, <2>2
<1>6. CASE AudioKept(store'.audio) /\ ~(Awaiting("copy") /\ ok)
  <2>1. run'.at.stage # "recordFile"
    BY <1>3, <1>6
  <2> QED
    BY <1>2a, <1>5, <1>6, <2>1, HoldsKept DEF Carries
<1>6a. CASE ~Awaiting("copy")
  <2>1. store' \in Unperformed \/ \E sidecarToo \in BOOLEAN : Effect(store', sidecarToo)
    BY <1>1, <1>2, <1>4, <1>6a, HalfDoneParts DEF CutShort
  <2>2. AudioKept(store'.audio)
    BY <1>1, <1>6a, <2>1, PerformedKept, UnperformedKept
  <2> QED
    BY <1>6, <1>6a, <2>2
\* A file that stays of a failed copy is none the run noted before.
<1>6b. CASE Awaiting("copy") /\ ~ok /\ store' \in HalfDone
  <2>1. PICK transfer : transfer = plan.transfers[Index]
    OBVIOUS
  <2>2. Index \in DOMAIN plan.transfers
    BY <1>1, <1>6b, EntryInPlan DEF Awaiting, TransferStages
  <2>3. \E content : IsPut(store'.audio, store.audio, transfer.path, content)
    BY <1>1, <1>6b, <2>1, HalfDoneParts, PutAudioParts DEF Effect
  <2>4. run'.carried = run.carried /\ run'.at.stage # "recordFile"
    BY <1>3, <1>6b DEF Awaiting
  <2>5. run.carried[transfer.track] = NoPath
    <3>1. run.at.stage \in CopyStages /\ Index >= run.at.index
      BY <1>1, <1>6b, RunIndex DEF Awaiting, CopyStages, TransferStages, Index
    <3> QED
      BY <1>2a, <2>1, <2>2, <3>1 DEF Uncarried
  <2>6. ASSUME NEW t \in Track, run'.carried[t] # NoPath
        PROVE  Holds(i, store'.audio, run'.carried[t], t)
    <3>1. run.carried[t] # transfer.path
      <4> SUFFICES ASSUME run.carried[t] = transfer.path PROVE FALSE
        OBVIOUS
      <4>1. PICK k \in DOMAIN plan.transfers :
              plan.transfers[k].track = t /\ plan.transfers[k].path = transfer.path
        BY <1>1, <2>4, <2>6 DEF Placed
      <4>2. k = Index
        BY <1>1, <2>1, <2>2, <4>1, TransfersOncePerFile
      <4> QED
        BY <2>1, <2>4, <2>5, <2>6, <4>1, <4>2
    <3> QED
      BY <1>5, <2>3, <2>4, <2>6, <3>1 DEF Holds, IsPut
  <2> QED
    BY <1>2a, <2>4, <2>6 DEF Carries
<1>6c. CASE Awaiting("copy") /\ ~ok /\ store' \in Unperformed
  BY <1>1, <1>6, <1>6c, UnperformedKept
<1>7. CASE Awaiting("copy") /\ ok
  <2>1. PICK transfer : transfer = plan.transfers[Index]
    OBVIOUS
  <2>2. Index \in DOMAIN plan.transfers
    BY <1>1, <1>7, EntryInPlan DEF Awaiting, TransferStages
  <2>3. transfer.path = DesiredPath(i, transfer.track)
    BY <1>1, <2>1, <2>2, TransferFacts
  <2>4. IsPut(store'.audio, store.audio, transfer.path, ContentOf(transfer.track, TRUE))
    BY <1>4, <1>7, <2>1 DEF Effect
  <2>5. ContentOf(transfer.track, TRUE) = SaidBy(transfer.track, RowFor(i, transfer.track))
    BY <1>1, <2>3, RecordedSays
  <2>6. Holds(i, store'.audio, transfer.path, transfer.track)
    BY <2>4, <2>5 DEF Holds, IsPut
  <2>7. ASSUME NEW t \in Track, run'.carried[t] # NoPath
        PROVE  Holds(i, store'.audio, run'.carried[t], t)
    <3>1. run'.carried = run.carried
      BY <1>3, <1>7 DEF Awaiting
    <3>2. CASE run.carried[t] # transfer.path
      BY <1>5, <2>4, <2>7, <3>1, <3>2 DEF Holds, IsPut
    <3>3. CASE run.carried[t] = transfer.path
      <4>1. PICK k \in DOMAIN plan.transfers :
              plan.transfers[k].track = t /\ plan.transfers[k].path = transfer.path
        BY <1>1, <2>7, <3>1, <3>3 DEF Placed
      <4>2. k = Index
        BY <1>1, <2>1, <2>2, <4>1, TransfersOncePerFile
      <4> QED
        BY <2>1, <2>6, <3>1, <3>3, <4>1, <4>2
    <3> QED
      BY <3>2, <3>3
  <2>8. run'.at.stage = "recordFile" =>
          LET copied == plan.transfers[run'.at.index]
          IN  Holds(i, store'.audio, copied.path, copied.track)
    BY <1>3, <2>1, <2>6
  <2> QED
    BY <1>2a, <2>7, <2>8 DEF Carries
<1> QED
  BY <1>2, <1>6a, <1>6b, <1>6c, <1>7 DEF CutShort

-----------------------------------------------------------------------------
(* So it stays in every step.                                              *)

LEMMA PerformTold ==
  ASSUME Core, Told, Perform
  PROVE  Told'
<1>1. /\ active /\ store' \in CutShort /\ UNCHANGED <<lib, active>>
      /\ \E ok \in BOOLEAN : Answered(ok)
  BY PerformParts DEF Core
<1>2. UNCHANGED plan
  BY <1>1, CoreParts, RespondAnswers, RunStep DEF Next, Answered
<1>3. PICK i : Telling(i)
  BY <1>1 DEF Told
<1>4. i.lib = lib /\ Basis(i, plan, store.rows, store.listRows)
  BY <1>3 DEF Telling
<1>5. Basis(i, plan, store'.rows, store'.listRows)
  <2>1. Follows(store')
    BY <1>1, CutShortFollows, CoreParts DEF Core
  <2> QED
    BY <1>1, <1>4, <2>1, BasisFollows DEF Core
<1>6. HeldRows(i, store'.rows)
  BY <1>1, <1>3, HeldStay
<1>7. Carries(i, run', store'.audio)
  BY <1>1, <1>3, AnswerTells
<1>8. Telling(i)'
  BY <1>1, <1>2, <1>4, <1>5, <1>6, <1>7, SameTelling
<1>9. RowsTell(store.rows, store.audio, unrecorded)'
  <2>1. CASE store' \in HalfDone /\ unrecorded' = Unrecorded
    BY <1>1, <1>3, <2>1, HalfDoneTell DEF Told, RowsTell, SaidBy
  <2>2. CASE store' \in Unperformed /\ unrecorded' = unrecorded
    <3>1. store'.rows = store.rows /\ AudioKept(store'.audio)
      BY <2>2, UnperformedKept DEF Core
    <3>2. RowsTell(store'.rows, store'.audio, unrecorded)
      BY <3>1, KeptTell DEF Told
    <3> QED
      BY <2>2, <3>2 DEF RowsTell
  <2>3. CASE Succeed
    BY <2>1, <2>3 DEF Succeed, HalfDone
  <2>4. CASE FailEffect \/ RefuseCancelled
    <3>1. \/ store' \in HalfDone /\ unrecorded' = Unrecorded
          \/ store' \in Unperformed /\ unrecorded' = unrecorded
      BY <2>4 DEF FailEffect, RefuseCancelled
    <3> QED
      BY <2>1, <2>2, <3>1
  <2>5. CASE LoseSidecarRemoval
    <3>1. Unrecorded = unrecorded
      BY <2>5 DEF LoseSidecarRemoval, Unrecorded, Awaiting
    <3> QED
      BY <2>1, <2>5, <3>1 DEF LoseSidecarRemoval, HalfDone
  <2> QED
    BY <2>3, <2>4, <2>5 DEF Perform
<1> QED
  BY <1>8, <1>9 DEF Told

LEMMA InterruptTold ==
  ASSUME Core, Told, Interrupt
  PROVE  Told'
<1>1. active /\ ~active'
  BY DEF Interrupt
<1>2. PICK i : Telling(i)
  BY <1>1 DEF Told
<1>3. CASE store' \in Unperformed /\ UNCHANGED unrecorded
  <2>1. store'.rows = store.rows /\ AudioKept(store'.audio)
    BY <1>3, UnperformedKept DEF Core
  <2>2. RowsTell(store'.rows, store'.audio, unrecorded)
    BY <2>1, KeptTell DEF Told
  <2> QED
    BY <1>1, <1>3, <2>2 DEF Told, RowsTell
<1>4. CASE store' \in HalfDone /\ unrecorded' = Unrecorded
  <2>1. RowsTell(store'.rows, store'.audio, Unrecorded)
    BY <1>1, <1>2, <1>4, HalfDoneTell DEF Told
  <2> QED
    BY <1>1, <1>4, <2>1 DEF Told, RowsTell
<1> QED
  BY <1>3, <1>4 DEF Interrupt

\* A new run holds what it was planned from, and has copied nothing.
LEMMA BeginRunTold ==
  ASSUME Core, Told, BeginRun
  PROVE  Told'
<1>1. /\ plan' = PlanMirror(Input) /\ run' = NewMachine(plan', FALSE)
      /\ UNCHANGED <<lib, store, unrecorded>>
  BY DEF BeginRun
<1>2. PICK i : i = Input
  OBVIOUS
<1>3. IsInput(i) /\ i.lib = lib /\ i.store = store
  BY <1>2, CoreParts
<1>4. Basis(i, plan, store.rows, store.listRows)'
  BY <1>1, <1>2, <1>3 DEF Core, Basis, RowTracks, RowPath
<1>5. HeldRows(i, store'.rows)
  BY <1>1, <1>3 DEF HeldRows, RowMatches, RowTracks, RowFor
<1>6. (\A t \in Track : run'.carried[t] = NoPath) /\ run'.at.stage = "start"
  BY <1>1 DEF NewMachine
<1>7. Carries(i, run, store.audio)'
  <2>1. ASSUME NEW k \in DOMAIN plan'.transfers
        PROVE  plan'.transfers[k].track \in Track
    <3>1. plan'.transfers = Transfers(i)
      BY <1>1, <1>2 DEF PlanMirror
    <3> QED
      BY <1>3, <2>1, <3>1, TransferFacts, InputParts
  <2> QED
    BY <1>6, <2>1 DEF Carries, Uncarried
<1>8. Telling(i)'
  BY <1>1, <1>3, <1>4, <1>5, <1>7 DEF Telling
<1> QED
  BY <1>1, <1>8 DEF Told, RowsTell

\* To start or to cancel a run copies nothing.
LEMMA QuietTold ==
  ASSUME Core, Told, StartRun \/ CancelRun
  PROVE  Told'
<1>1. active /\ UNCHANGED <<plan, lib, store, active, unrecorded>>
  BY RunStep DEF Core, StartRun, CancelRun, world, Next
<1>2. PICK i : Telling(i)
  BY <1>1 DEF Told
<1>3. /\ run'.carried = run.carried
      /\ \/ run'.at = run.at
         \/ run.at.stage = "start" /\ run'.at.stage = "partials"
  <2>1. run \in Machine /\ plan \in MirrorPlan
    BY RunIndex DEF Core
  <2>2. CASE StartRun
    <3>1. run' = Await(Show(run, OpeningPhase), "partials", 0) /\ run.at.stage = "start"
      BY <2>2 DEF StartRun, Start, Handle, Awaiting
    <3> QED
      BY <2>1, <3>1 DEF Await, Show, Machine
  <2>3. CASE CancelRun
    BY <2>1, <2>3 DEF CancelRun, Cancel, Handle, Machine
  <2> QED
    BY <2>2, <2>3
<1>4. Carries(i, run', store'.audio)
  <2>1. Uncarried(run')
    BY <1>2, <1>3 DEF Telling, Carries, Uncarried, CopyStages
  <2> QED
    BY <1>1, <1>2, <1>3, <2>1 DEF Telling, Carries
<1>5. Telling(i)'
  BY <1>1, <1>2, <1>4, SameTelling DEF Telling
<1> QED
  BY <1>1, <1>5 DEF Told, RowsTell

LEMMA LoseFileTold ==
  ASSUME Core, Told, LoseFile
  PROVE  Told'
<1>1. PICK path \in Resident(store) : store' = DropFile(path)
  BY DEF LoseFile
<1>2. IsWithout(store', path)
  BY <1>1, DropFileParts DEF Core
<1>3. ~active' /\ unrecorded' = unrecorded
  BY DEF LoseFile
<1>4. RowsTell(store'.rows, store'.audio, unrecorded)
  <2>1. AudioKept(store'.audio) /\ store'.rows = store.rows
    BY <1>2, DroppedKept DEF IsWithout
  <2> QED
    BY <2>1, KeptTell DEF Told
<1> QED
  BY <1>3, <1>4 DEF Told, RowsTell

LEMMA ToldInit ==
  SyncInit => Told
<1> SUFFICES ASSUME SyncInit PROVE Told
  OBVIOUS
<1>1. store = StoreOf(<<>>, <<>>, <<>>, <<>>, {}) /\ ~active
  BY DEF SyncInit, EmptyStore, StoreOf
<1>2. store.rows = <<>>
  BY <1>1, StoreParts
<1> QED
  BY <1>1, <1>2 DEF Told, RowsTell

LEMMA ToldStep ==
  ASSUME Core, Told, [SyncNext]_syncVars
  PROVE  Told'
<1>1. CASE EditLibrary
  BY <1>1 DEF EditLibrary, Told, RowsTell
<1>2. CASE LoseFile
  BY <1>2, LoseFileTold
<1>3. CASE BeginRun
  BY <1>3, BeginRunTold
<1>4. CASE StartRun \/ CancelRun
  BY <1>4, QuietTold
<1>5. CASE Perform
  BY <1>5, PerformTold
<1>6. CASE Interrupt
  BY <1>6, InterruptTold
<1>7. CASE UNCHANGED syncVars
  <2>1. UNCHANGED <<plan, run, lib, store, active, unrecorded>>
    BY <1>7 DEF syncVars, world
  <2>2. ASSUME NEW i, Telling(i)
        PROVE  Telling(i)'
    BY <2>1, <2>2, SameTelling DEF Telling
  <2> QED
    BY <2>1, <2>2 DEF Told, RowsTell
<1> QED
  BY <1>1, <1>2, <1>3, <1>4, <1>5, <1>6, <1>7 DEF SyncNext

\* After a completed run every wanted file is all of the one the library has now, unless
\* a copy onto it was never recorded (MTP-21, device_sync_effects.rs): no interruption,
\* failure or retry leaves a row that is taken for a file it does not describe.
THEOREM CompletedRunsHaveTheContent == SyncSpec => []CompletedContent
<1>1. SyncInit => Told
  BY ToldInit
<1>2. Core /\ Told /\ [SyncNext]_syncVars => Told'
  BY ToldStep
<1>3. Core /\ Mirrored /\ Told => CompletedContent
  <2> SUFFICES ASSUME Core, Mirrored, Told, Completed, NEW t \in Desired(Input) \ unrecorded
               PROVE  store.audio[DesiredPath(Input, t)] = ContentOf(t, TRUE)
    BY DEF CompletedContent
  <2> DEFINE j == Input
  <2>1. PICK i : i.lib = lib /\ Again(i, j)
    BY CompletedAgain
  <2>2. j.store = store /\ j.lib = lib /\ MirrorOf(i, store)
    BY <2>1, CoreParts DEF Again
  <2> HIDE DEF j
  <2>3. t \in Desired(j)
    BY DEF j
  <2>4. RowMatches(j, t) /\ DesiredPath(j, t) \in DOMAIN store.audio
    BY <2>1, <2>2, <2>3, FilesAgain DEF MirrorOf, DesiredPaths
  <2>5. t \in DOMAIN store.rows /\ store.rows[t] = RowFor(j, t)
    BY <2>2, <2>4 DEF RowMatches, RowTracks, RowFor
  <2>6. RowFor(j, t).path = DesiredPath(j, t)
    BY DEF RowFor
  <2>7. store.audio[DesiredPath(j, t)] = SaidBy(t, RowFor(j, t))
    BY <2>4, <2>5, <2>6 DEF Told, RowsTell
  <2>8. store.audio[DesiredPath(j, t)] = ContentOf(t, TRUE)
    BY <2>2, <2>7, RecordedSays
  <2> QED
    BY <2>8 DEF j
<1> QED
  BY <1>1, <1>2, <1>3, CoreAlways, MirroredAlways, PTL DEF SyncSpec

=============================================================================
