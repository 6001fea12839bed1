---------------------------- MODULE MCTransferQueue ----------------------------
(***************************************************************************)
(* Small instances of TransferQueue.  Operations and session transfers go  *)
(* through the queue; streams are tracked only.  All files share one name, *)
(* the case in which names identify nothing.                               *)
(***************************************************************************)
EXTENDS TransferQueue

CONSTANTS o1, o2, s1, d1, d2   \* operations, a session transfer, streams

KindOf == [j \in Jobs |-> IF j \in {o1, o2} THEN "operation"
                          ELSE IF j = s1 THEN "session" ELSE "stream"]
SameName == [j \in Jobs |-> "file"]

\* Nobody cancels; requests and the shutdown race; what matters to progress.
PoolRequests     == {"enqueue", "retry", "cleanup"}
RacingRequests   == {"enqueue", "cancel", "retry", "track", "shutdown"}
LivenessRequests == {"enqueue", "retry", "shutdown"}

ThreadSymmetry == Permutations(Workers) \cup Permutations(Callers)
==============================================================================
