-------------------------- MODULE MCRecorderServer --------------------------
(* Two clients that can fill the recorder's two places between them; a      *)
(* third that is one too many is hung up on as where no thread can be made. *)
EXTENDS RecorderServer
CONSTANTS c1, c2
MCClients == {c1, c2}
=============================================================================
