------------------------ MODULE MCRecordingPipeline ------------------------
(* Two audio sources that share room for two buffers, and a queue that      *)
(* keeps one place of its two in reserve for the packets of one frame.      *)
EXTENDS RecordingPipeline
CONSTANTS game, microphone
MCSources == {game, microphone}
=============================================================================
