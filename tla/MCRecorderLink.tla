--------------------------- MODULE MCRecorderLink ---------------------------
(* One window's link; terminals and other windows start and stop recorders  *)
(* on its endpoint too.                                                     *)
EXTENDS RecorderLink
CONSTANT l1
MCLinks == {l1}
=============================================================================
