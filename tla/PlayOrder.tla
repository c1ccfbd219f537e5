----------------------------- MODULE PlayOrder -----------------------------
(***************************************************************************)
(* What the play queue promises (the contracts in the doc comments of      *)
(* crates/reprise-core/src/queue.rs): a list of tracks in the order they   *)
(* play, and a cursor on the one that plays, 0 when the queue is           *)
(* exhausted.  PlayQueue implements it with one level of indices.          *)
(***************************************************************************)
EXTENDS Naturals, SequencesExt

CONSTANTS
  Lists,     \* the lists of tracks a view may play
  Batches,   \* the tracks that may be added to the queue at once
  Saved      \* the orders a stored session may bring back: [list, cursor]

VARIABLES list, cursor

vars == <<list, cursor>>

\* The entries of s at the positions P, in their order.
Pick(s, P) ==
  LET nth(n) == CHOOSE k \in P : Cardinality({j \in P : j <= k}) = n
  IN  [n \in 1..Cardinality(P) |-> s[nth(n)]]

IsRearrangement(s, r) ==
  /\ Len(s) = Len(r)
  /\ \A t \in ToSet(s) \cup ToSet(r) :
       Cardinality({k \in DOMAIN s : s[k] = t})
         = Cardinality({k \in DOMAIN r : r[k] = t})

\* A list plays from the chosen row or, shuffled, that row leads it and
\* everything else stays upcoming.
Load ==
  \E tracks \in Lists :
    IF tracks = <<>> THEN list' = <<>> /\ cursor' = 0
    ELSE \/ list' = tracks /\ cursor' \in DOMAIN tracks
         \/ IsRearrangement(list', tracks) /\ cursor' = 1

\* A stored session comes back.
Recall == [list |-> list', cursor |-> cursor'] \in Saved

\* The cursor moves or runs off the end.
Seek == list' = list /\ cursor' \in 0..Len(list)

\* New entries come in one place after the cursor, and what plays goes on.  An
\* exhausted queue takes them at its end and goes on with the first or stays.
Insert ==
  \E tracks \in Batches, at \in cursor..Len(list) :
    /\ list' = SubSeq(list, 1, at) \o tracks \o SubSeq(list, at + 1, Len(list))
    /\ IF cursor # 0 THEN cursor' = cursor
       ELSE at = Len(list) /\ cursor' \in {0, at + 1}

\* Entries go.  If what plays is among them the next one left plays, never an
\* earlier one; an exhausted queue stays exhausted.
Delete ==
  \E gone \in SUBSET DOMAIN list :
    LET left == DOMAIN list \ gone
        behind == {k \in left : k < cursor}
    IN  /\ list' = Pick(list, left)
        /\ cursor' = IF cursor = 0 \/ behind = left THEN 0
                     ELSE Cardinality(behind) + 1

\* One entry moves and the cursor follows the entry it is on.
Move ==
  \E from, to \in DOMAIN list :
    /\ list' = InsertAt(RemoveAt(list, from), to, list[from])
    /\ cursor' = CASE cursor = 0 -> 0
                   [] cursor = from -> to
                   [] from < cursor /\ cursor <= to -> cursor - 1
                   [] to <= cursor /\ cursor < from -> cursor + 1
                   [] OTHER -> cursor

\* An upcoming entry plays now; those it passes stay upcoming, in their order.
Promote ==
  /\ cursor # 0
  /\ \E from \in (cursor + 1)..Len(list) :
       list' = InsertAt(RemoveAt(list, from), cursor + 1, list[from])
  /\ cursor' = cursor + 1

\* The order changes as a whole, and what plays goes on playing.
Reorder ==
  /\ IsRearrangement(list', list)
  /\ IF cursor = 0 THEN cursor' = 0
     ELSE cursor' \in DOMAIN list' /\ list'[cursor'] = list[cursor]

Init == list = <<>> /\ cursor = 0
Next == Seek \/ Recall \/ Insert \/ Move \/ Promote \/ Delete \/ Reorder \/ Load
Spec == Init /\ [][Next]_vars
=============================================================================
