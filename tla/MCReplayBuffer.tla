--------------------------- MODULE MCReplayBuffer ---------------------------
(* Small recordings for ReplayBuffer.                                      *)
EXTENDS ReplayBuffer

MCLengths == {1, 2, 3}

(* A buffer with a writer has more to interleave, and gets less to record.  *)
Each(spilling, memory) == [kind \in BOOLEAN |-> IF kind THEN spilling ELSE memory]
MCTime == Each(4, 5)
MCPackets == Each(5, 6)
MCAudio == Each(0, 1)
=============================================================================
