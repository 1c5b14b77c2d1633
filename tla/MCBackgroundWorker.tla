------------------------ MODULE MCBackgroundWorker --------------------------
(* Three paths for two places in the queue.                                *)
EXTENDS BackgroundWorker
=============================================================================
