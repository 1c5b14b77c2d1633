------------------------- MODULE MCAutomaticRecorder -------------------------
(* Small instances of AutomaticRecorder for TLC.                           *)
EXTENDS AutomaticRecorder

GameA == {"A"}

OneGame == {[id |-> "a1", game |-> "A", pid |-> 1, children |-> {}]}
=============================================================================
