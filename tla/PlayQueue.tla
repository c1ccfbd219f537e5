----------------------------- MODULE PlayQueue -----------------------------
(***************************************************************************)
(* The play queue: `Queue` of crates/reprise-core/src/queue.rs and its     *)
(* stored form in queue/snapshot.rs.                                       *)
(*                                                                         *)
(* `ids` are the tracks as they were loaded or added, `order` the indices  *)
(* of ids in play order, `pos` the playhead, 0 for None.  Indices start at *)
(* 1 where the code's start at 0.  Shuffling is any permutation the random *)
(* swaps can produce.  MaxLength bounds the queue, Revisions the counter,  *)
(* which wraps at 2^64 in the code.                                        *)
(***************************************************************************)
EXTENDS Naturals, SequencesExt

CONSTANTS
  Track,       \* track ids
  Lists,       \* the lists a view may play
  Batches,     \* the tracks that may be added at once
  Snapshots,   \* what a session file may hold
  MaxLength,
  Revisions

Repeats == {"off", "all", "one"}

ASSUME ListsAreLists == Lists \subseteq Seq(Track)
ASSUME BatchesAreTracks == Batches \subseteq Seq(Track) \ {<<>>}
ASSUME SnapshotsAreSnapshots ==
  \A s \in Snapshots :
    /\ s.ids \in Seq(Track) /\ s.order \in Seq(Nat) /\ s.position \in Nat
    /\ s.repeat \in Repeats /\ s.shuffled \in BOOLEAN
ASSUME RevisionsWrap == Revisions \in Nat /\ Revisions >= 2

VARIABLES ids, order, pos, repeat, shuffled, revision

queueVars == <<ids, order, pos, repeat, shuffled, revision>>

\* The permutations of 1..n.
Orders(n) == {p \in [1..n -> 1..n] : \A j, k \in 1..n : p[j] = p[k] => j = k}
Linear(n) == [k \in 1..n |-> k]

InOrder == [k \in DOMAIN order |-> ids[order[k]]]

\* note_sequence_changed: the other half of the sequence's identity.
NoteSequenceChanged == revision' = (revision + 1) % Revisions

PositionOf(slot, slots) == CHOOSE k \in DOMAIN slots : slots[k] = slot

\* The number that k gets when only the numbers in P are left, and the one that
\* gets n.
Rank(P, k) == Cardinality({j \in P : j <= k})
Nth(P, n) == CHOOSE k \in P : Rank(P, k) = n

-----------------------------------------------------------------------------
(* Loading and the playhead.                                               *)

\* The activated row leads a shuffled order, so no other track is dropped.
SetTracks(tracks, start) ==
  LET n == Len(tracks)
      row == IF start > n THEN n ELSE start
  IN  /\ ids' = tracks
      /\ IF shuffled /\ n > 0
         THEN order' \in {p \in Orders(n) : p[1] = row} /\ pos' = 1
         ELSE order' = Linear(n) /\ pos' = row
      /\ NoteSequenceChanged
      /\ UNCHANGED <<repeat, shuffled>>

Around(k) == IF k > Len(order) THEN k - Len(order) ELSE k

\* Mutant: the scan ends one candidate early.
ForwardPositionShort(from, automatic, available) ==
  LET plays(k) == ids[order[k]] \in available
      steps == {n \in 1..(Len(order) - 1) : /\ from + n <= Len(order) \/ repeat = "all"
                                            /\ plays(Around(from + n))}
  IN  IF from = 0 THEN 0
      ELSE IF automatic /\ repeat = "one" /\ plays(from) THEN from
      ELSE IF steps = {} THEN 0
      ELSE Around(from + (CHOOSE n \in steps : \A m \in steps : n <= m))

\* forward_matching_position: one pass over the available entries ahead, which
\* under Repeat::All comes round to the current one; 0 when there is none.
ForwardPosition(from, automatic, available) ==
  LET plays(k) == ids[order[k]] \in available
      steps == {n \in 1..Len(order) : /\ from + n <= Len(order) \/ repeat = "all"
                                      /\ plays(Around(from + n))}
  IN  IF from = 0 THEN 0
      ELSE IF automatic /\ repeat = "one" /\ plays(from) THEN from
      ELSE IF steps = {} THEN 0
      ELSE Around(from + (CHOOSE n \in steps : \A m \in steps : n <= m))

AdvanceAuto(available) ==
  /\ pos' = ForwardPosition(pos, TRUE, available)
  /\ UNCHANGED <<ids, order, repeat, shuffled, revision>>

NextManual(available) ==
  /\ pos' = ForwardPosition(pos, FALSE, available)
  /\ UNCHANGED <<ids, order, repeat, shuffled, revision>>

JumpTo(position) ==
  /\ position \in DOMAIN order
  /\ pos' = position
  /\ UNCHANGED <<ids, order, repeat, shuffled, revision>>

SetRepeat(mode) ==
  /\ repeat' = mode
  /\ UNCHANGED <<ids, order, pos, shuffled, revision>>

\* Mutant: the caches are not told of the new order.
SetShuffleUnnoted(on) ==
  /\ on # shuffled
  /\ shuffled' = on
  /\ IF on
     THEN /\ order' \in {p \in Orders(Len(ids)) : pos # 0 => p[pos] = order[pos]}
          /\ pos' = pos
     ELSE /\ order' = Linear(Len(ids))
          /\ pos' = IF pos = 0 THEN 0 ELSE order[pos]
  /\ UNCHANGED <<ids, repeat, revision>>

\* On, the current track keeps its place; off, it is followed to its own.
SetShuffle(on) ==
  /\ on # shuffled
  /\ shuffled' = on
  /\ IF on
     THEN /\ order' \in {p \in Orders(Len(ids)) : pos # 0 => p[pos] = order[pos]}
          /\ pos' = pos
     ELSE /\ order' = Linear(Len(ids))
          /\ pos' = IF pos = 0 THEN 0 ELSE order[pos]
  /\ NoteSequenceChanged
  /\ UNCHANGED <<ids, repeat>>

-----------------------------------------------------------------------------
(* Edits.                                                                  *)

NewSlots(tracks) == [k \in DOMAIN tracks |-> Len(ids) + k]

\* Appending starts an empty queue and does not revive an exhausted one.
AppendTracks(tracks) ==
  /\ Len(ids) + Len(tracks) <= MaxLength
  /\ ids' = ids \o tracks
  /\ order' = order \o NewSlots(tracks)
  /\ pos' = IF ids = <<>> THEN 1 ELSE pos
  /\ NoteSequenceChanged
  /\ UNCHANGED <<repeat, shuffled>>

\* An explicit pick does revive an exhausted queue.
Enqueue(tracks, placement) ==
  LET at == IF placement = "next" /\ pos # 0 THEN pos ELSE Len(order)
  IN  /\ Len(ids) + Len(tracks) <= MaxLength
      /\ ids' = ids \o tracks
      /\ order' = SubSeq(order, 1, at) \o NewSlots(tracks)
                  \o SubSeq(order, at + 1, Len(order))
      /\ pos' = IF pos = 0 THEN at + 1 ELSE pos
      /\ NoteSequenceChanged
      /\ UNCHANGED <<repeat, shuffled>>

Moved(from, to) == InsertAt(RemoveAt(order, from), to, order[from])

MoveItem(from, to) ==
  /\ from # to
  /\ order' = Moved(from, to)
  /\ pos' = IF pos = 0 THEN 0 ELSE PositionOf(order[pos], order')
  /\ NoteSequenceChanged
  /\ UNCHANGED <<ids, repeat, shuffled>>

\* play_order_position_now: an upcoming entry moves behind the current one and
\* becomes current.
PlayNow(position) ==
  /\ pos # 0 /\ pos < position
  /\ pos' = pos + 1
  /\ IF position > pos + 1
     THEN order' = Moved(position, pos + 1) /\ NoteSequenceChanged
     ELSE UNCHANGED <<order, revision>>
  /\ UNCHANGED <<ids, repeat, shuffled>>

\* Mutant: the search for what is left starts at the front.
SuccessorFromFront(gone) ==
  LET ahead == {k \in DOMAIN order : k \notin gone}
  IN  IF pos = 0 \/ ahead = {} THEN 0
      ELSE IF pos \in ahead THEN pos
      ELSE CHOOSE k \in ahead : \A j \in ahead : k <= j

\* The position that plays once those in `gone` are removed: the current one or
\* the next one left; 0 when nothing is left ahead.
Successor(gone) ==
  LET ahead == {k \in pos..Len(order) : k \notin gone}
  IN  IF pos = 0 \/ ahead = {} THEN 0
      ELSE CHOOSE k \in ahead : \A j \in ahead : k <= j

\* The entries at some positions go: ids close up, order is renumbered, and the
\* playhead is found again by the number of its entry.
RemoveOrderPositions(gone) ==
  LET left == DOMAIN ids \ {order[k] : k \in gone}
      kept == DOMAIN order \ gone
      next == Successor(gone)
  IN  /\ gone # {}
      /\ ids' = [n \in 1..Cardinality(left) |-> ids[Nth(left, n)]]
      /\ order' = [n \in 1..Cardinality(kept) |-> Rank(left, order[Nth(kept, n)])]
      /\ pos' = IF next = 0 THEN 0 ELSE PositionOf(Rank(left, order[next]), order')
      /\ NoteSequenceChanged
      /\ UNCHANGED <<repeat, shuffled>>

PositionsOf(tracks) == {k \in DOMAIN order : ids[order[k]] \in tracks}

RemoveIds(tracks) == RemoveOrderPositions(PositionsOf(tracks))
RemoveIdsExceptCurrent(tracks) == RemoveOrderPositions(PositionsOf(tracks) \ {pos})

\* Mutant: a repeated index is let through.
IsValidIfInRange(s) ==
  /\ Len(s.order) = Len(s.ids)
  /\ \A k \in DOMAIN s.order : s.order[k] \in DOMAIN s.ids
  /\ s.position <= Len(s.ids)

\* The checks of restore_snapshot.
IsValid(s) ==
  /\ Len(s.order) = Len(s.ids)
  /\ s.order \in Orders(Len(s.ids))
  /\ s.position <= Len(s.ids)

RestoreSnapshot(s) ==
  /\ IsValid(s)
  /\ ids' = s.ids /\ order' = s.order /\ pos' = s.position
  /\ repeat' = s.repeat /\ shuffled' = s.shuffled
  /\ NoteSequenceChanged

-----------------------------------------------------------------------------
Init ==
  /\ ids = <<>> /\ order = <<>> /\ pos = 0
  /\ repeat = "off" /\ shuffled = FALSE /\ revision = 0

Play == \E available \in SUBSET Track :
          AdvanceAuto(available) \/ NextManual(available)

Edit ==
  \/ \E tracks \in Batches :
       \/ AppendTracks(tracks)
       \/ \E placement \in {"next", "last"} : Enqueue(tracks, placement)
  \/ \E from, to \in DOMAIN order : MoveItem(from, to)
  \/ \E position \in DOMAIN order : PlayNow(position)
  \/ \E gone \in SUBSET DOMAIN order : RemoveOrderPositions(gone)
  \/ \E tracks \in SUBSET Track : RemoveIds(tracks) \/ RemoveIdsExceptCurrent(tracks)

Next ==
  \/ \E tracks \in Lists : \E start \in 1..(Len(tracks) + 1) : SetTracks(tracks, start)
  \/ \E s \in Snapshots : RestoreSnapshot(s)
  \/ \E mode \in Repeats : SetRepeat(mode)
  \/ \E on \in BOOLEAN : SetShuffle(on)
  \/ \E position \in DOMAIN order : JumpTo(position)
  \/ Play
  \/ Edit

Spec == Init /\ [][Next]_queueVars

-----------------------------------------------------------------------------
(* Properties.                                                             *)

\* "if pos is Some(idx), then idx < order.len(), and order.len() == ids.len()":
\* the order stays a permutation of the entries under every edit, so that no
\* track plays twice in a pass or never, and the playhead stays on an entry.
QueueTypeOK ==
  /\ ids \in Seq(Track)
  /\ order \in Orders(Len(ids))
  /\ pos \in 0..Len(ids)
  /\ repeat \in Repeats /\ shuffled \in BOOLEAN
  /\ revision \in 0..(Revisions - 1)

\* The positions that play from here on when every track just ends.
Pass(available) ==
  LET at[n \in 0..Len(order)] ==
        IF n = 0 THEN pos ELSE ForwardPosition(at[n - 1], TRUE, available)
  IN  at

\* "The scan is bounded to one pass even under Repeat::All": left alone, playback
\* visits every entry that can be opened once before it comes round or ends, and
\* no other, whatever the queue went through before.
PassesVisitWhatPlays ==
  pos # 0 =>
    \A available \in SUBSET Track :
      LET pass == Pass(available)
          playable == PositionsOf(available)
          reached(n) == {pass[k] : k \in 1..n}
      IN  /\ reached(Len(order)) \subseteq playable \cup {0}
          /\ repeat = "all" => reached(Cardinality(playable)) = playable
          /\ repeat = "off" =>
               /\ reached(Len(order)) \ {0} = {k \in playable : k > pos}
               /\ pass[Len(order)] = 0

ValidOrders ==
  {[list |-> [k \in DOMAIN s.order |-> s.ids[s.order[k]]], cursor |-> s.position] :
     s \in {r \in Snapshots : IsValid(r)}}

Abstract == INSTANCE PlayOrder WITH list <- InOrder, cursor <- pos,
                                    Saved <- ValidOrders

\* Under every sequence of edits the queue behaves as a plain list with a cursor
\* (PlayOrder): what plays goes on playing, what is left keeps its order, a
\* promotion drops nothing and a removal never jumps back.
ImplementsPlayOrder == Abstract!Spec

\* sequence_identity tells any two successive play orders apart: what views
\* cached under it is never taken for another order.
RevisionTellsOrders == [][InOrder' # InOrder => revision' # revision]_queueVars
=============================================================================
