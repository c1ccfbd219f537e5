----------------------- MODULE MCDeviceSyncMachine -----------------------
(* Small plans for the reducer on its own. *)
EXTENDS DeviceSyncMachine

MCTrack == {1, 2, 3}
MCPath == {"a", "b", "c"}

NoWork ==
  [transfers |-> <<>>, shared |-> <<>>, analysis |-> <<>>, cues |-> <<>>,
   lyrics |-> <<>>, lists |-> <<>>, listRemovals |-> <<>>, removals |-> <<>>,
   desired |-> {}, bytes |-> 0]

CopyOne == [track |-> 1, path |-> "a", previous |-> NoPath,
            transcode |-> FALSE, bytes |-> 1]
ReplaceTwo == [track |-> 2, path |-> "b", previous |-> "c",
               transcode |-> TRUE, bytes |-> 1]
SharedThree == [track |-> 3, path |-> "a", carrier |-> 1,
              resident |-> FALSE, previous |-> "c"]

\* Transfers, and what rests on them.
TransferPlans ==
  {[NoWork EXCEPT !.transfers = transfers, !.shared = shared, !.cues = cues,
                  !.lists = lists, !.desired = {"a", "b"}, !.bytes = 2] :
     transfers \in {<<CopyOne>>, <<ReplaceTwo>>, <<CopyOne, ReplaceTwo>>},
     shared \in {<<>>, <<SharedThree>>},
     cues \in {<<>>, <<[track |-> 1, path |-> "c", audio |-> "a", bytes |-> 1]>>},
     lists \in {<<>>, <<[source |-> "P", path |-> "c", entries |-> {"a", "b"}]>>}}

\* The stages after the transfers.
LaterPlans ==
  {[NoWork EXCEPT !.analysis = analysis, !.lyrics = lyrics, !.lists = lists,
                  !.listRemovals = listRemovals, !.removals = removals,
                  !.bytes = Len(analysis) + Len(lyrics)] :
     analysis \in {<<>>, <<[track |-> 1, path |-> "a", bytes |-> 1]>>},
     lyrics \in {<<>>, <<[track |-> 1, path |-> "b", bytes |-> 1]>>},
     lists \in {<<>>, <<[source |-> "P", path |-> "c", entries |-> {"a"}]>>},
     listRemovals \in {<<>>, <<[source |-> "P", path |-> "b"]>>,
                       <<[source |-> "P", path |-> "b"],
                         [source |-> "Q", path |-> "a"]>>},
     removals \in {<<>>,
                   <<[kind |-> "unshared", track |-> 2, path |-> "a"],
                     [kind |-> "inventory", track |-> 1, path |-> "b"]>>,
                   <<[kind |-> "orphan", track |-> Unattributed, path |-> "c"]>>}}

\* Shared records against a resident file: recorded without any transfer.
SharedPlans ==
  {[NoWork EXCEPT !.shared = <<[SharedThree EXCEPT !.resident = TRUE,
                                                 !.previous = previous]>>,
                  !.desired = {"a", "b"},
                  !.analysis = <<[track |-> 1, path |-> "b", bytes |-> 1]>>] :
     previous \in {NoPath, "a", "b", "c"}}

MCPlans == TransferPlans \cup LaterPlans \cup SharedPlans
=============================================================================
