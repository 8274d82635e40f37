------------------------------ MODULE MCWatch ------------------------------
(***************************************************************************)
(* CoordinatedWatch for TLC: the routes of MCCoordinated, and a watcher    *)
(* of all keys while a key is written and deleted.                         *)
(***************************************************************************)
EXTENDS CoordinatedWatch, MCCoordinated

Create(key, end, start, prevKv) ==
  [key |-> key, end |-> end, start |-> start, prevKv |-> prevKv]

\* A watcher of all keys and one that is refused.
MCCreates == {Create(1, NoEnd, 3, TRUE), Create(Empty, Empty, 0, FALSE)}

WatchRequests == {One(PutOp(2, v1)), One(Op("delete", 2, Empty))}

\* Nothing more can be seen of a stream that has ended, or whose client is gone,
\* and WatchCatchesUp asks nothing more of it.
StreamLives == handler # "done" /\ client # "gone"
=============================================================================
