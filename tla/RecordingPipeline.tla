------------------------- MODULE RecordingPipeline -------------------------
(***************************************************************************)
(* One recording, from the moment its file is open: the capture loop, which *)
(* submits frames to the encoder and queues the packets that come out; one  *)
(* thread for each audio source; and the writer thread, which owns the file *)
(* and takes from the one bounded queue they share.  The queue's capacity   *)
(* is divided between video and audio by two counters, which each producer  *)
(* raises before it sends and the writer lowers as it takes.                *)
(*                                                                          *)
(* crates/session/src/recording.rs, muxing.rs, audio/mod.rs.                *)
(***************************************************************************)
EXTENDS Integers, Sequences, FiniteSets

CONSTANTS Sources,        \* the audio sources of the recording
          VideoCapacity,  \* encoded packets that may wait for the writer
          Headroom,       \* the part of it kept for one submission's packets
          AudioShare,     \* audio buffers that may wait, of all the sources together
          Burst,          \* packets one submission can produce, at most
          HeldBack,       \* pictures an encoder holds back until it is flushed
          Backlog,        \* buffers an endpoint still holds when it is told to stop
          MaxPictures,    \* bound: frames submitted
          MaxFaults       \* bound: things that go wrong

ASSUME CapacityAssumption == VideoCapacity \in Nat /\ Headroom \in 1..VideoCapacity
ASSUME AudioAssumption == AudioShare \in Nat /\ IsFiniteSet(Sources)
(* No encoder of the workspace emits more than the headroom from one frame. *)
ASSUME EncoderAssumption == Burst \in 1..Headroom /\ HeldBack \in Nat
ASSUME BoundAssumption == Backlog \in Nat /\ MaxPictures \in Nat /\ MaxFaults \in Nat

HighWater == VideoCapacity - Headroom

VARIABLES stop,       \* the recording was asked to stop
          loop,       \* the capture loop, which ends in the finalisation
          failure,    \* the first failure the loop met
          submitted,  \* pictures given to an encoder, numbered from 1
          held,       \* those the encoder has not handed out as packets
          videoQ,     \* packets in the queue
          audioQ,     \* audio buffers in the queue
          depth,      \* video packets counted as outstanding
          audioDepth, \* audio buffers counted as outstanding
          audio,      \* each source's thread
          audioStop,  \* the audio threads were told to stop
          writer,     \* the writer thread
          file,       \* the pictures in the file, as they were written
          space,      \* what the writer last found out about the drive
          result,     \* what the caller is told
          faults

vars == <<stop, loop, failure, submitted, held, videoQ, audioQ, depth, audioDepth,
          audio, audioStop, writer, file, space, result, faults>>

encoder == <<submitted, held>>
video == <<videoQ, depth>>
sound == <<audioQ, audioDepth>>
drive == <<writer, file, space>>
outcome == <<failure, result>>

Init == /\ stop = FALSE /\ audioStop = FALSE
        /\ loop = [step |-> "head", why |-> "frame", reason |-> "stopped", packet |-> 0, moved |-> 0]
        /\ failure = "none" /\ result = "running"
        /\ submitted = 0 /\ held = <<>>
        /\ videoQ = <<>> /\ audioQ = 0 /\ depth = 0 /\ audioDepth = 0
        /\ audio = [s \in Sources |-> [step |-> "closed", draining |-> FALSE, left |-> 0]]
        /\ writer = [step |-> "waiting", picture |-> 0, failed |-> FALSE]
        /\ file = <<>> /\ space = "ample"
        /\ faults = 0

Fault == faults < MaxFaults /\ faults' = faults + 1

(* The receiver lives until the writer's thread has ended.  Items stay in   *)
(* the queue until it is dropped with them.                                 *)
Lost == writer.step \in {"gone", "panicked"}
Room == Len(videoQ) + audioQ < VideoCapacity + AudioShare

RequestStop == /\ ~stop
               /\ stop' = TRUE
               /\ UNCHANGED <<loop, encoder, video, sound, audio, audioStop, drive, outcome, faults>>

-----------------------------------------------------------------------------
(* The capture loop.                                                        *)

(* Every way out of the loop leads to the encoder's flush.                  *)
Ends(reason) == [loop EXCEPT !.step = "draining", !.why = "end", !.reason = reason, !.packet = 0]
Fails(what) == failure' = IF failure = "none" THEN what ELSE failure

LoopTop == /\ loop.step = "head"
           /\ loop' = IF stop THEN Ends("stopped")
                      ELSE IF space = "exhausted" THEN Ends("diskSpaceLow")
                      ELSE IF space = "unreadable" THEN Ends("outputUnavailable")
                      ELSE [loop EXCEPT !.step = "acquire"]
           /\ UNCHANGED <<stop, encoder, video, sound, audio, audioStop, drive, outcome, faults>>

(* The audio threads are started with the first frame, which is the epoch.  *)
AudioStarted == [s \in Sources |->
                  IF audio[s].step = "closed" THEN [audio[s] EXCEPT !.step = "reading"] ELSE audio[s]]

IsBehind == depth >= HighWater

(* Mutant: what comes out of a frame is the queue's problem.                *)
SubmitsAlways == /\ loop.step = "acquire" /\ submitted < MaxPictures
                 /\ submitted' = submitted + 1
                 /\ held' = Append(held, submitted + 1)
                 /\ loop' = [loop EXCEPT !.step = "draining", !.why = "frame", !.moved = 0]
                 /\ audio' = AudioStarted
                 /\ UNCHANGED <<stop, video, sound, audioStop, drive, outcome, faults>>

FrameSubmitted == /\ loop.step = "acquire" /\ submitted < MaxPictures
                  /\ ~IsBehind
                  /\ submitted' = submitted + 1
                  /\ held' = Append(held, submitted + 1)
                  /\ loop' = [loop EXCEPT !.step = "draining", !.why = "frame", !.moved = 0]
                  /\ audio' = AudioStarted
                  /\ UNCHANGED <<stop, video, sound, audioStop, drive, outcome, faults>>

(* A frame over the rate, on another clock or, with the writer behind, one  *)
(* too many is dropped before it is encoded.                                *)
FrameDropped == /\ loop.step = "acquire"
                /\ loop' = [loop EXCEPT !.step = "head"]
                /\ audio' = AudioStarted
                /\ UNCHANGED <<stop, encoder, video, sound, audioStop, drive, outcome, faults>>

FrameRefused == /\ loop.step = "acquire" /\ ~IsBehind
                /\ Fault /\ Fails("encoder")
                /\ loop' = Ends(loop.reason)
                /\ audio' = AudioStarted
                /\ UNCHANGED <<stop, encoder, video, sound, audioStop, drive, result>>

(* A still screen, or a minimised window.                                   *)
NoFrame == /\ loop.step = "acquire"
           /\ loop' = [loop EXCEPT !.step = "head"]
           /\ UNCHANGED <<stop, encoder, video, sound, audio, audioStop, drive, outcome, faults>>

SourceEnds == /\ loop.step = "acquire" /\ Fault
              /\ \E reason \in {"targetResized", "targetLost"} : loop' = Ends(reason)
              /\ UNCHANGED <<stop, encoder, video, sound, audio, audioStop, drive, outcome>>

CaptureFails == /\ loop.step = "acquire" /\ Fault
                /\ loop' = [loop EXCEPT !.step = "recovering"]
                /\ UNCHANGED <<stop, encoder, video, sound, audio, audioStop, drive, outcome>>

(* The encoder hands out the oldest picture it holds.  The packet is        *)
(* counted before it is sent.                                               *)
Yields == /\ loop.step = "draining" /\ held # <<>>
          /\ loop.why = "frame" => loop.moved < Burst
          /\ held' = Tail(held)
          /\ depth' = depth + 1
          /\ loop' = [loop EXCEPT !.step = "sending", !.packet = Head(held),
                                  !.moved = IF loop.why = "frame" THEN @ + 1 ELSE @]
          /\ UNCHANGED <<stop, submitted, videoQ, sound, audio, audioStop, drive, outcome, faults>>

(* A send waits for room in the queue.                                      *)
Sent == /\ loop.step = "sending" /\ ~Lost /\ Room
        /\ videoQ' = Append(videoQ, loop.packet)
        /\ loop' = [loop EXCEPT !.step = "draining", !.packet = 0]
        /\ UNCHANGED <<stop, encoder, depth, sound, audio, audioStop, drive, outcome, faults>>

AfterFailure == IF loop.why = "end" THEN [loop EXCEPT !.step = "stopping", !.packet = 0]
                                    ELSE Ends(loop.reason)

SendFails == /\ loop.step = "sending" /\ Lost
             /\ depth' = depth - 1
             /\ Fails("writerLost")
             /\ loop' = AfterFailure
             /\ UNCHANGED <<stop, encoder, videoQ, sound, audio, audioStop, drive, result, faults>>

EncoderFails == /\ loop.step = "draining" /\ Fault /\ Fails("encoder")
                /\ loop' = AfterFailure
                /\ UNCHANGED <<stop, encoder, video, sound, audio, audioStop, drive, result>>

(* Nothing more comes of a frame but what the encoder holds back; one that  *)
(* completes a black run takes the loop into a recovery.                    *)
FrameDone == /\ loop.step = "draining" /\ loop.why = "frame" /\ Len(held) <= HeldBack
             /\ \/ loop' = [loop EXCEPT !.step = "head"] /\ UNCHANGED faults
                \/ loop' = [loop EXCEPT !.step = "recovering"] /\ Fault
             /\ UNCHANGED <<stop, encoder, video, sound, audio, audioStop, drive, outcome>>

(* The failed backend is gone.  Nothing takes over, or the encoder it needs *)
(* cannot follow; or the recording ends where it is.                        *)
RecoveryFails == /\ loop.step = "recovering"
                 /\ Fails("capture")
                 /\ loop' = Ends(loop.reason)
                 /\ UNCHANGED <<stop, encoder, video, sound, audio, audioStop, drive, result, faults>>

RecoveryEnds == /\ loop.step = "recovering"
                /\ \E reason \in {"targetResized"} \cup (IF stop THEN {"stopped"} ELSE {}) :
                     loop' = Ends(reason)
                /\ UNCHANGED <<stop, encoder, video, sound, audio, audioStop, drive, outcome, faults>>

(* Mutant: the old encoder is shut down with what it held.                  *)
RecoveredAtOnce == /\ loop.step = "recovering"
                   /\ loop' = [loop EXCEPT !.step = "head"]
                   /\ held' = <<>>
                   /\ UNCHANGED <<stop, submitted, video, sound, audio, audioStop, drive,
                                  outcome, faults>>

(* The old encoder's pictures go into the file before the replacement's.    *)
Recovered == /\ loop.step = "recovering"
             /\ loop' = [loop EXCEPT !.step = "draining", !.why = "seam"]
             /\ UNCHANGED <<stop, encoder, video, sound, audio, audioStop, drive, outcome, faults>>

SeamDone == /\ loop.step = "draining" /\ loop.why = "seam" /\ held = <<>>
            /\ loop' = [loop EXCEPT !.step = "head", !.why = "frame"]
            /\ UNCHANGED <<stop, encoder, video, sound, audio, audioStop, drive, outcome, faults>>

FlushDone == /\ loop.step = "draining" /\ loop.why = "end" /\ held = <<>>
             /\ loop' = [loop EXCEPT !.step = "stopping"]
             /\ UNCHANGED <<stop, encoder, video, sound, audio, audioStop, drive, outcome, faults>>

(* A panic unwinds through the same three steps: the audio threads, the     *)
(* queue, the writer.  The encoder is not asked for what it holds.          *)
Panics == /\ loop.step \in {"head", "acquire", "draining", "sending", "recovering"} /\ Fault
          /\ failure' = "panic"
          /\ loop' = [loop EXCEPT !.step = "stopping", !.packet = 0]
          /\ UNCHANGED <<stop, encoder, video, sound, audio, audioStop, drive, result>>

(* Mutant: the threads are waited for and not told.                         *)
WaitsForAudio == /\ loop.step = "stopping"
                 /\ loop' = [loop EXCEPT !.step = "joining"]
                 /\ UNCHANGED <<stop, encoder, video, sound, audio, audioStop, drive, outcome, faults>>

StopAudio == /\ loop.step = "stopping"
             /\ audioStop' = TRUE
             /\ loop' = [loop EXCEPT !.step = "joining"]
             /\ UNCHANGED <<stop, encoder, video, sound, audio, drive, outcome, faults>>

AudioOver == \A s \in Sources : audio[s].step \in {"closed", "ended"}

(* With the last audio thread its sender has gone, and now the loop's goes. *)
JoinAudio == /\ loop.step = "joining" /\ AudioOver
             /\ loop' = [loop EXCEPT !.step = "finishing"]
             /\ UNCHANGED <<stop, encoder, video, sound, audio, audioStop, drive, outcome, faults>>

NoSenders == loop.step = "finishing" /\ AudioOver

(* Mutant: the loop's own word is the one that counts.                      *)
LoopFirst == IF failure # "none" THEN failure
             ELSE IF writer.failed THEN "writer"
             ELSE IF submitted = 0 THEN "noFrames" ELSE "recorded"

(* The writer's reason replaces the placeholder, and any other failure of   *)
(* the loop's was the first cause.  A writer that panicked has no reason    *)
(* but the placeholder itself.  A file no frame reached is removed.         *)
Reported == IF writer.failed /\ failure \in {"none", "writerLost"}
              THEN IF writer.step = "panicked" THEN "writerLost" ELSE "writer"
            ELSE IF failure # "none" THEN failure
            ELSE IF submitted = 0 THEN "noFrames" ELSE "recorded"

Finish == /\ loop.step = "finishing" /\ Lost
          /\ loop' = [loop EXCEPT !.step = "ended"]
          /\ result' = Reported
          /\ UNCHANGED <<stop, encoder, video, sound, audio, audioStop, drive, failure, faults>>

LoopStep == \/ LoopTop \/ FrameSubmitted \/ FrameDropped \/ FrameRefused \/ NoFrame \/ SourceEnds
            \/ CaptureFails \/ Yields \/ Sent \/ SendFails \/ EncoderFails \/ FrameDone
            \/ RecoveryFails \/ RecoveryEnds \/ Recovered \/ SeamDone \/ FlushDone \/ Panics
            \/ StopAudio \/ JoinAudio \/ Finish

-----------------------------------------------------------------------------
(* An audio source's thread.                                                *)

(* A buffer arrives, and is counted before it is sent, or found to be one   *)
(* too many.  A thread that was past the look at the flag when it was       *)
(* raised reads one more, which is here one of the backlog.                 *)
Reads(s) ==
  /\ audio[s].step = "reading"
  /\ IF audio[s].draining THEN audio[s].left > 0 ELSE ~audioStop
  /\ audioDepth' = audioDepth + 1
  /\ audio' = [audio EXCEPT ![s].step = IF audioDepth >= AudioShare THEN "refused" ELSE "sending",
                            ![s].left = IF @ > 0 THEN @ - 1 ELSE @]
  /\ UNCHANGED <<stop, loop, encoder, video, audioQ, audioStop, drive, outcome, faults>>

GivesBack(s) == /\ audio[s].step = "refused"
                /\ audioDepth' = audioDepth - 1
                /\ audio' = [audio EXCEPT ![s].step = "reading"]
                /\ UNCHANGED <<stop, loop, encoder, video, audioQ, audioStop, drive, outcome, faults>>

(* Never waits: a queue that is full loses the buffer, a queue that is gone *)
(* ends the thread.                                                         *)
Queues(s) == /\ audio[s].step = "sending"
             /\ IF Lost \/ ~Room
                  THEN audioDepth' = audioDepth - 1 /\ UNCHANGED audioQ
                  ELSE audioQ' = audioQ + 1 /\ UNCHANGED audioDepth
             /\ audio' = [audio EXCEPT ![s].step = IF Lost THEN "ended" ELSE "reading"]
             /\ UNCHANGED <<stop, loop, encoder, video, audioStop, drive, outcome, faults>>

(* Told to stop, it takes what the endpoint still holds, up to a limit.     *)
Drains(s) == /\ audio[s].step = "reading" /\ ~audio[s].draining /\ audioStop
             /\ audio' = [audio EXCEPT ![s].draining = TRUE, ![s].left = Backlog]
             /\ UNCHANGED <<stop, loop, encoder, video, sound, audioStop, drive, outcome, faults>>

AudioEnds(s) == /\ audio[s].step = "reading" /\ audio[s].draining
                /\ audio' = [audio EXCEPT ![s].step = "ended"]
                /\ UNCHANGED <<stop, loop, encoder, video, sound, audioStop, drive, outcome, faults>>

AudioFails(s) == /\ audio[s].step = "reading" /\ Fault
                 /\ audio' = [audio EXCEPT ![s].step = "ended"]
                 /\ UNCHANGED <<stop, loop, encoder, video, sound, audioStop, drive, outcome>>

AudioStep(s) == \/ Reads(s) \/ GivesBack(s) \/ Queues(s)
                \/ Drains(s) \/ AudioEnds(s) \/ AudioFails(s)

-----------------------------------------------------------------------------
(* The writer's thread.  The order in which packets of different kinds are  *)
(* taken is left open: the container interleaves them by their times.       *)

(* The drive is looked at, at intervals, with an item in hand.              *)
Probes == \/ UNCHANGED <<space, faults>>
          \/ Fault /\ space' \in {"ample", "exhausted", "unreadable"} \ {space}

TakesVideo == /\ writer.step = "waiting" /\ videoQ # <<>>
              /\ videoQ' = Tail(videoQ) /\ depth' = depth - 1
              /\ writer' = [writer EXCEPT !.step = "video", !.picture = Head(videoQ)]
              /\ Probes
              /\ UNCHANGED <<stop, loop, encoder, sound, audio, audioStop, file, outcome>>

TakesAudio == /\ writer.step = "waiting" /\ audioQ > 0
              /\ audioQ' = audioQ - 1 /\ audioDepth' = audioDepth - 1
              /\ writer' = [writer EXCEPT !.step = "audio"]
              /\ Probes
              /\ UNCHANGED <<stop, loop, encoder, video, audio, audioStop, file, outcome>>

Written == /\ writer.step \in {"video", "audio"}
           /\ file' = IF writer.step = "video" THEN Append(file, writer.picture) ELSE file
           /\ writer' = [writer EXCEPT !.step = "waiting", !.picture = 0]
           /\ UNCHANGED <<stop, loop, encoder, video, sound, audio, audioStop, space, outcome, faults>>

(* The first failure ends the writing; the trailer is written all the same. *)
WriteFails == /\ writer.step \in {"video", "audio"} /\ Fault
              /\ writer' = [step |-> "closing", picture |-> 0, failed |-> TRUE]
              /\ UNCHANGED <<stop, loop, encoder, video, sound, audio, audioStop, file, space, outcome>>

(* With every sender gone and nothing waiting, the mix is drained.          *)
QueueCloses == /\ writer.step = "waiting" /\ videoQ = <<>> /\ audioQ = 0 /\ NoSenders
               /\ writer' = [writer EXCEPT !.step = "closing"]
               /\ UNCHANGED <<stop, loop, encoder, video, sound, audio, audioStop, file, space,
                              outcome, faults>>

(* The trailer is written or not, the receiver goes, and with it whatever   *)
(* was still queued.  Nothing lowers the counters for that.                 *)
WriterEnds == /\ writer.step = "closing"
              /\ \/ writer' = [writer EXCEPT !.step = "gone"] /\ UNCHANGED faults
                 \/ writer' = [writer EXCEPT !.step = "gone", !.failed = TRUE] /\ Fault
              /\ videoQ' = <<>> /\ audioQ' = 0
              /\ UNCHANGED <<stop, loop, encoder, depth, audioDepth, audio, audioStop, file, space,
                             outcome>>

(* A panic with an item in hand, or in the trailer, unwinds the thread and  *)
(* takes the receiver with it.                                              *)
WriterPanics == /\ writer.step \in {"video", "audio", "closing"} /\ Fault
                /\ writer' = [step |-> "panicked", picture |-> 0, failed |-> TRUE]
                /\ videoQ' = <<>> /\ audioQ' = 0
                /\ UNCHANGED <<stop, loop, encoder, depth, audioDepth, audio, audioStop, file, space,
                               outcome>>

WriterStep == \/ TakesVideo \/ TakesAudio \/ Written \/ WriteFails \/ QueueCloses \/ WriterEnds
              \/ WriterPanics

Next == \/ RequestStop \/ LoopStep \/ WriterStep
        \/ \E s \in Sources : AudioStep(s)

Spec == Init /\ [][Next]_vars

(* Every thread is scheduled, and the queue is first in, first out, so that *)
(* no packet waits for ever behind audio.  Nobody has to ask for a stop,    *)
(* and no source has to deliver.                                            *)
FairSpec == /\ Spec /\ WF_vars(LoopStep) /\ WF_vars(WriterStep) /\ SF_vars(TakesVideo)
            /\ \A s \in Sources : WF_vars(AudioStep(s))

(* The same with a window that goes on being drawn: frames arrive, and some *)
(* are within the rate.                                                     *)
DrawnSpec == FairSpec /\ SF_vars(FrameSubmitted)

-----------------------------------------------------------------------------
PipelineTypeOK ==
  /\ stop \in BOOLEAN /\ audioStop \in BOOLEAN
  /\ loop \in [step : {"head", "acquire", "draining", "sending", "recovering", "stopping",
                       "joining", "finishing", "ended"},
               why : {"frame", "seam", "end"},
               reason : {"stopped", "diskSpaceLow", "outputUnavailable", "targetResized",
                         "targetLost"},
               packet : Nat, moved : Nat]
  /\ failure \in {"none", "encoder", "capture", "writerLost", "panic"}
  /\ result \in {"running", "recorded", "noFrames", "writer", "encoder", "capture",
                 "writerLost", "panic"}
  /\ submitted \in Nat /\ held \in Seq(Nat)
  /\ videoQ \in Seq(Nat) /\ audioQ \in Nat
  /\ depth \in Nat /\ audioDepth \in Nat
  /\ audio \in [Sources -> [step : {"closed", "reading", "refused", "sending", "ended"},
                            draining : BOOLEAN, left : Nat]]
  /\ writer \in [step : {"waiting", "video", "audio", "closing", "gone", "panicked"},
                 picture : Nat, failed : BOOLEAN]
  /\ file \in Seq(Nat)
  /\ space \in {"ample", "exhausted", "unreadable"}
  /\ faults \in Nat

(* The capture loop never waits for the drive while it is capturing: what   *)
(* one submission produces finds room, however far behind the writer is and *)
(* however much audio is waiting.                                           *)
CaptureNeverWaits == loop.step = "sending" /\ loop.why = "frame" => Room \/ Lost

(* An audio thread that is within its share finds room.  Only the flush of  *)
(* an encoder that holds pictures back can fill the queue underneath it.    *)
AudioFindsRoom == \A s \in Sources : audio[s].step = "sending" /\ ~Lost /\ ~Room
                                       => Len(videoQ) > VideoCapacity

(* What is sent within its limits finds room in the one queue.              *)
QueueHasRoom == PipelineTypeOK /\ CaptureNeverWaits /\ AudioFindsRoom

(* Frames are dropped before they are encoded and never after: the file has *)
(* the pictures in the order they were submitted with none left out, also   *)
(* across a replaced encoder, and a recording that reports no failure has   *)
(* all of them.                                                             *)
FileIsWhole == /\ \A n \in 1..Len(file) : file[n] = n
               /\ result = "recorded" => Len(file) = submitted

(* What the caller is told is a reason: the placeholder the loop gets for a *)
(* writer that has stopped is replaced by why it stopped, unless its thread *)
(* panicked and left none, and no failure of the writer's goes untold.      *)
FailureIsTold == /\ result = "writerLost" => writer.step = "panicked"
                 /\ writer.failed => result \notin {"recorded", "noFrames"}

(* A recording asked to stop is finished: the threads are joined in an      *)
(* order in which none waits for another, whatever has failed.              *)
StopFinishes == stop ~> loop.step = "ended"

(* A write that fails reaches the capture loop, which ends: while the       *)
(* window goes on being drawn, a recording whose writer is gone does not go *)
(* on for as long as there are frames.                                      *)
LostWriterEndsRecording ==
  (Lost /\ submitted < MaxPictures) ~> (loop.step \in {"stopping", "joining", "finishing", "ended"}
                                          \/ submitted = MaxPictures)
=============================================================================
