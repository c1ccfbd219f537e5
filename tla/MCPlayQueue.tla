---------------------------- MODULE MCPlayQueue ----------------------------
(* Two tracks that may be queued more than once, lists, batches and session files. *)
EXTENDS PlayQueue

MCTrack == {1, 2}
MCLists == {<<>>, <<1, 2, 1>>}
MCBatches == {<<2>>, <<1, 2>>}

Stored == [ids |-> <<2, 2, 1>>, order |-> <<2, 3, 1>>, position |-> 2,
           repeat |-> "all", shuffled |-> TRUE]

\* One that was saved, and files that were cut short or damaged.
MCSnapshots ==
  {Stored,
   [Stored EXCEPT !.order = <<2, 3, 3>>],
   [Stored EXCEPT !.order = <<2, 3>>],
   [Stored EXCEPT !.order = <<2, 4, 1>>],
   [Stored EXCEPT !.position = 4]}
=============================================================================
