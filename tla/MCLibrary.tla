----------------------------- MODULE MCLibrary -----------------------------
(* Two recordings, the older of which a sweep takes first, and a trash with *)
(* room for one deletion of each: while it is occupied a sweep is refused.  *)
EXTENDS Library
MCRecordings == {1, 2}
MCEntries == {"first"}
=============================================================================
